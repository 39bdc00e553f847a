---------------------------- MODULE MCDashboard ----------------------------
(* Small instances of the pages around a board: projects, the library of    *)
(* design guides, and the import of a variant.  The pages of projects are   *)
(* one model, with who is signed in and the way from page to page; the      *)
(* other two share no state with it: a behaviour is one of one of the three, *)
(* whose variables move while those of the others stay as they begin.       *)
EXTENDS ProjectPages, GuideLibrary, ImportFlow

CONSTANTS
  ann, bob, shared, own,   \* people and projects
  guide_x,                 \* a guide of the library
  main_go, vendored        \* files

VARIABLE visit
dashboardVars == <<visit, signInVars, projectVars, libraryVars, importVars>>

TwoProjects ==
  [p \in {shared, own} |->
     [owner |-> ann, members |-> IF p = shared THEN {ann, bob} ELSE {ann}]]
AllGuides == {Guides}
WholeFolders == {{main_go, vendored}}
TreeRows == {{vendored}}

Visits == {"projects", "library", "import"}
DashboardInit ==
  /\ visit \in Visits
  /\ ProjectsInit /\ LibraryAt(IF visit = "library" THEN "list" ELSE "new") /\ ImportInit
  /\ visit # "projects" => known = {} /\ person = NoOne
  /\ visit # "library" => Mine = {}

ToProjects(A) == visit = "projects" /\ A /\ UNCHANGED <<visit, libraryVars, importVars>>
ToLibrary(A) == visit = "library" /\ A /\ UNCHANGED <<visit, signInVars, projectVars, importVars>>
\* Bounds of the instance: of the jobs of two imports one is run again, an import that
\* another has begun beside is followed no further than its graph, and the page of
\* the last import is left for the workspace only.
OneRetry == graphJob[1].tries + graphJob[2].tries <= 3
OneLater == flow[1].stage \in {"layout", "asking review", "review", "done"} => started = 1
LastStays == started = MaxImports => step = "building" \/ importPage = "workspace"
ToImport(A) ==
  /\ visit = "import" /\ A /\ (OneRetry /\ OneLater /\ LastStays)'
  /\ UNCHANGED <<visit, signInVars, projectVars, libraryVars>>

DashboardNext == ToProjects(ProjectsNext) \/ ToLibrary(LibraryNext) \/ ToImport(ImportNext)

DashboardSpec == DashboardInit /\ [][DashboardNext]_dashboardVars
=============================================================================
