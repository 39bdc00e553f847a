----------------------------- MODULE ProjectPages -----------------------------
(***************************************************************************)
(* The pages around projects: the home page, the list of one's own, the    *)
(* list of shared ones, and the page of a project with its variants; and   *)
(* what the server does for them.  A page reads once, when it begins; the  *)
(* answer of a creation finds the page it came from changed or gone, and   *)
(* takes the tab elsewhere in any case.                                    *)
(***************************************************************************)
EXTENDS SignIn, FiniteSets

CONSTANTS
  Projects, ProjectsBefore,   \* ids of projects, and those that exist before
  VariantIds,                 \* ids of variants
  MaxRecent,                  \* projects on the home page (3 in the code)
  MaxCompared,                \* variants that can be compared (3 in the code)
  MaxOrders                   \* bound: what people order: creations, deletions, members

ASSUME ProjectsAssumption ==
  /\ ProjectsBefore \in [DOMAIN ProjectsBefore -> [owner : People, members : SUBSET People]]
  /\ DOMAIN ProjectsBefore \subseteq Projects
  /\ Unset \notin Projects \cup VariantIds

VARIABLES
  projectRow,   \* projectRow[p]: owner and members of a stored project
  variantRow,   \* variantRow[v]: a stored variant
  view,         \* what the page shows
  reads,        \* what it is reading
  newProject,   \* the dialog that makes a project
  newVariant,   \* the dialog that makes a variant
  compared,     \* compareVariants
  creations,    \* variants being made, here or by other members
  makings,      \* projects being made
  deletions,    \* projects being deleted
  memberCall,   \* whether a member is being added or removed
  orders

projectVars == <<projectRow, variantRow, view, reads, newProject, newVariant, compared,
                 creations, makings, deletions, memberCall, orders>>
tables == <<projectRow, variantRow>>
inFlight == <<creations, makings, deletions>>

-----------------------------------------------------------------------------
\* What the server answers.

IsOwner(p, u) == projectRow[p].owner = u
HasAccess(p, u) == p \in DOMAIN projectRow /\ (IsOwner(p, u) \/ u \in projectRow[p].members)

\* The lists: home and projects ask for one's own, shared for the others'.
ListAccessibleProjects(name, u) ==
  {p \in DOMAIN projectRow :
     IF name = "shared" THEN u \in projectRow[p].members /\ ~IsOwner(p, u) ELSE IsOwner(p, u)}

VariantsOf(p) == {v \in DOMAIN variantRow : variantRow[v].project = p}

\* A variant as a card shows it; only one with nodes is opened, not imported.
Shown(v) == [id |-> v, main |-> variantRow[v].main, imported |-> variantRow[v].imported]

Unread == [is |-> "unread"]
Refused == [is |-> "refused"]
Answer(page, u) ==
  IF u \notin known THEN Refused
  ELSE IF page.page = "project"
  THEN IF HasAccess(page.of, u)
       THEN [is |-> "project", projects |-> {page.of},
             variants |-> {Shown(v) : v \in VariantsOf(page.of)}]
       ELSE Refused
  ELSE [is |-> "list", projects |-> ListAccessibleProjects(page.page, u), variants |-> {}]

-----------------------------------------------------------------------------
\* A page begins.

Dashboard == {"home", "projects", "shared", "settings", "project"}
Reading == {"home", "projects", "shared", "project"}
EmptyView(page) ==
  [loading |-> page.page \in Reading, for |-> NoOne, projects |-> {}, variants |-> {}]
ReadsOf(page, u) == IF page.page \in Reading THEN {[who |-> u, got |-> Unread]} ELSE {}
NoVariantDialog == [open |-> FALSE, base |-> Unset]

\* What is in flight is no longer heard by the page, though its handlers go on.
Unheard(S) == {[c EXCEPT !.heard = FALSE] : c \in S}

\* Seeded fault: one component for all projects, which never ends.
MountedOnce ==
  /\ view' = EmptyView(at') /\ reads' = ReadsOf(at', person')
  /\ newProject' = FALSE /\ newVariant' = NoVariantDialog /\ compared' = {}
  /\ creations' = creations /\ makings' = Unheard(makings)
  /\ deletions' = Unheard(deletions) /\ memberCall' = FALSE

\* The tab has moved to another page: the one before is unmounted.
Mounted ==
  /\ view' = EmptyView(at') /\ reads' = ReadsOf(at', person')
  /\ newProject' = FALSE /\ newVariant' = NoVariantDialog /\ compared' = {}
  /\ creations' = Unheard(creations) /\ makings' = Unheard(makings)
  /\ deletions' = Unheard(deletions) /\ memberCall' = FALSE

\* Who is signed in or which page is shown changes, and what the page holds with it.
Moving(A) ==
  /\ A
  /\ IF at' = at
     THEN UNCHANGED <<view, reads, newProject, newVariant, compared, inFlight, memberCall>>
     ELSE Mounted
  /\ UNCHANGED <<tables, orders>>

ProjectsInit ==
  /\ SignInInit
  /\ projectRow = ProjectsBefore /\ variantRow = << >>
  /\ view = EmptyView(at) /\ reads = ReadsOf(at, person)
  /\ newProject = FALSE /\ newVariant = NoVariantDialog /\ compared = {}
  /\ creations = {} /\ makings = {} /\ deletions = {} /\ memberCall = FALSE /\ orders = 0

-----------------------------------------------------------------------------
\* Reading.

ReadServed(r) ==
  /\ r \in reads /\ r.got = Unread
  /\ reads' = (reads \ {r}) \cup {[r EXCEPT !.got = Answer(at, r.who)]}
  /\ UNCHANGED <<signInVars, tables, view, newProject, newVariant, compared, inFlight, memberCall, orders>>

\* The variants the dialog may begin with: the main one, or any.
BasesOf(shown) ==
  LET mains == {s \in shown : s.main}
      from == IF mains # {} THEN mains ELSE shown
  IN IF from = {} THEN {Unset} ELSE {s.id : s \in from}

\* The home page shows the latest few.
Recent(S) == {R \in SUBSET S : Cardinality(R) = IF Cardinality(S) < MaxRecent THEN Cardinality(S) ELSE MaxRecent}
Displayed(S) == IF at.page = "home" THEN Recent(S) ELSE {S}

ReadArrives(r) ==
  /\ r \in reads /\ r.got.is \in {"list", "project"}
  /\ reads' = reads \ {r}
  /\ \E S \in Displayed(r.got.projects) :
       view' = [loading |-> FALSE, for |-> r.who, projects |-> S, variants |-> r.got.variants]
  /\ \E v \in BasesOf(r.got.variants) : newVariant' = [NoVariantDialog EXCEPT !.base = v]
  /\ UNCHANGED <<signInVars, tables, newProject, compared, inFlight, memberCall, orders>>

\* It is refused or lost: the page shows what it had.
ReadFails(r) ==
  /\ r \in reads
  /\ reads' = reads \ {r}
  /\ view' = [view EXCEPT !.loading = FALSE]
  /\ UNCHANGED <<signInVars, tables, newProject, newVariant, compared, inFlight, memberCall, orders>>

-----------------------------------------------------------------------------
\* Links.

\* The sidebar, on all pages but those of a board.
FollowSidebar(name) ==
  /\ at.page \in Dashboard /\ name \in {"home", "projects", "shared", "settings"}
  /\ Moving(FollowLink(At(name, Unset)))

\* The card of a project, on each of the three pages that list them.
OpenProject(p) ==
  /\ at.page \in {"home", "projects", "shared"} /\ ~view.loading
  /\ p \in view.projects
  /\ Moving(FollowLink(At("project", p)))

OnProject == at.page = "project" /\ ~view.loading /\ view.projects # {}

\* The card of a variant leads to its board, or to its import page.
OpenVariant(s) ==
  /\ OnProject /\ s \in view.variants
  /\ Moving(FollowLink(At(IF s.imported THEN "workspace" ELSE "import", s.id)))

\* A list of ids, three at most; one too many is dropped.
HandleToggleCompare(s) ==
  /\ OnProject /\ s \in view.variants
  /\ compared' = IF s.id \in compared THEN compared \ {s.id}
                 ELSE IF Cardinality(compared) < MaxCompared THEN compared \cup {s.id}
                 ELSE compared
  /\ UNCHANGED <<signInVars, tables, view, reads, newProject, newVariant, inFlight, memberCall, orders>>

OpenComparison ==
  /\ OnProject /\ Cardinality(compared) > 1
  /\ Moving(FollowLink(At("compare", at.of)))

\* Back from a board to its project.
LeaveWorkspace ==
  /\ at.page \in {"workspace", "import"}
  /\ Moving(FollowLink(At("project", variantRow[at.of].project)))

-----------------------------------------------------------------------------
\* What a person orders.

Order == orders < MaxOrders /\ orders' = orders + 1

\* マイプロジェクト: the card's menu; only this page offers it.
HandleDelete(p) ==
  /\ Order
  /\ at.page = "projects" /\ ~view.loading /\ p \in view.projects
  /\ deletions' = deletions \cup {[of |-> p, who |-> person, heard |-> TRUE, done |-> FALSE]}
  /\ UNCHANGED <<signInVars, tables, view, reads, newProject, newVariant, compared, creations,
                 makings, memberCall>>

\* Only the row of the project goes; its variants stay, out of reach.
DeleteProject(d) ==
  /\ d \in deletions /\ ~d.done
  /\ d.of \in DOMAIN projectRow /\ IsOwner(d.of, d.who) /\ d.who \in known
  /\ projectRow' = [p \in DOMAIN projectRow \ {d.of} |-> projectRow[p]]
  /\ deletions' = (deletions \ {d}) \cup {[d EXCEPT !.done = TRUE]}
  /\ UNCHANGED <<signInVars, variantRow, view, reads, newProject, newVariant, compared, creations,
                 makings, memberCall, orders>>

ProjectDeleted(d) ==
  /\ d \in deletions /\ d.done
  /\ deletions' = deletions \ {d}
  /\ view' = IF d.heard THEN [view EXCEPT !.projects = @ \ {d.of}] ELSE view
  /\ UNCHANGED <<signInVars, tables, reads, newProject, newVariant, compared, creations,
                 makings, memberCall, orders>>

DeletionFails(d) ==
  /\ d \in deletions
  /\ deletions' = deletions \ {d}
  /\ UNCHANGED <<signInVars, tables, view, reads, newProject, newVariant, compared, creations,
                 makings, memberCall, orders>>

-----------------------------------------------------------------------------
\* The dialog that makes a project.

OpenProjectDialog(open) ==
  /\ at.page = "projects" /\ newProject # open
  /\ newProject' = open
  /\ UNCHANGED <<signInVars, tables, view, reads, newVariant, compared, inFlight, memberCall, orders>>

\* The button is off while a call is in flight, the enter key is not.
HandleCreateProject ==
  /\ Order
  /\ at.page = "projects" /\ newProject
  /\ makings' = makings \cup {[who |-> person, id |-> Unset, heard |-> TRUE, nth |-> orders]}
  /\ UNCHANGED <<signInVars, tables, view, reads, newProject, newVariant, compared, creations,
                 deletions, memberCall>>

\* The project and the membership of its owner are stored together.
CreateProjectBundle(c, p) ==
  /\ c \in makings /\ c.id = Unset /\ c.who \in known
  /\ p \in Projects \ DOMAIN projectRow
  /\ \A v \in DOMAIN variantRow : variantRow[v].project # p
  /\ projectRow' = [q \in DOMAIN projectRow \cup {p} |->
                      IF q = p THEN [owner |-> c.who, members |-> {c.who}] ELSE projectRow[q]]
  /\ makings' = (makings \ {c}) \cup {[c EXCEPT !.id = p]}
  /\ UNCHANGED <<signInVars, variantRow, view, reads, newProject, newVariant, compared, creations,
                 deletions, memberCall, orders>>

\* The answer closes the dialog, reads the list anew and goes to the project.
ProjectCreated(c) ==
  /\ c \in makings /\ c.id # Unset
  /\ makings' = makings \ {c}
  /\ IF c.heard
     THEN /\ newProject' = FALSE
          /\ view' = [view EXCEPT !.loading = TRUE]
          /\ reads' = reads \cup ReadsOf(at, person)
     ELSE UNCHANGED <<newProject, view, reads>>
  /\ Push(At("project", c.id))
  /\ UNCHANGED <<person, known, login, at, present, profile, signIns>>
  /\ UNCHANGED <<tables, newVariant, compared, creations, deletions, memberCall, orders>>

ProjectNotCreated(c) ==
  /\ c \in makings
  /\ makings' = makings \ {c}
  /\ UNCHANGED <<signInVars, tables, view, reads, newProject, newVariant, compared, creations,
                 deletions, memberCall, orders>>

-----------------------------------------------------------------------------
\* The dialog that makes a variant.

HandleOpen(open) ==
  /\ OnProject /\ newVariant.open # open
  /\ newVariant' = [newVariant EXCEPT !.open = open]
  /\ UNCHANGED <<signInVars, tables, view, reads, newProject, compared, inFlight, memberCall, orders>>

\* The select of the base.
ChooseBase(s) ==
  /\ OnProject /\ newVariant.open
  /\ s \in view.variants /\ s.id # newVariant.base
  /\ newVariant' = [newVariant EXCEPT !.base = s.id]
  /\ UNCHANGED <<signInVars, tables, view, reads, newProject, compared, inFlight, memberCall, orders>>

\* The form is sent and begins anew.  The button is never off, and the base is
\* chosen among the variants of that moment.
HandleCreateVariant ==
  /\ Order
  /\ OnProject /\ newVariant.open
  /\ creations' = creations \cup
       {[project |-> at.of, base |-> newVariant.base, who |-> person,
         nth |-> orders, id |-> Unset, counted |-> FALSE, main |-> FALSE, here |-> TRUE, heard |-> TRUE]}
  /\ \E v \in BasesOf(view.variants) :
       newVariant' = [newVariant EXCEPT !.open = FALSE, !.base = v]
  /\ UNCHANGED <<signInVars, tables, view, reads, newProject, compared, makings, deletions, memberCall>>

\* A member does the same in a browser of their own.
CreateElsewhere(p, u, base) ==
  /\ Order
  /\ u \in known /\ HasAccess(p, u) /\ base \in {Unset} \cup VariantsOf(p)
  /\ creations' = creations \cup
       {[project |-> p, base |-> base, who |-> u,
         nth |-> orders, id |-> Unset, counted |-> FALSE, main |-> FALSE, here |-> FALSE, heard |-> FALSE]}
  /\ UNCHANGED <<signInVars, tables, view, reads, newProject, newVariant, compared, makings,
                 deletions, memberCall>>

\* Seeded fault: the count is of all variants, not of the project's.
CountAllVariants(c) ==
  /\ c \in creations /\ ~c.counted
  /\ c.who \in known /\ HasAccess(c.project, c.who)
  /\ creations' = (creations \ {c}) \cup
       {[c EXCEPT !.counted = TRUE, !.main = DOMAIN variantRow = {}]}
  /\ UNCHANGED <<signInVars, tables, view, reads, newProject, newVariant, compared, makings,
                 deletions, memberCall, orders>>

\* CreateVariant begins its transaction: the first variant is the main one.
CountVariants(c) ==
  /\ c \in creations /\ ~c.counted
  /\ c.who \in known /\ HasAccess(c.project, c.who)
  /\ creations' = (creations \ {c}) \cup
       {[c EXCEPT !.counted = TRUE, !.main = VariantsOf(c.project) = {}]}
  /\ UNCHANGED <<signInVars, tables, view, reads, newProject, newVariant, compared, makings,
                 deletions, memberCall, orders>>

\* It ends: the row and what is copied from the base are stored together.
\* The base is any variant there is: nothing asks whose.
SaveVariant(c, v) ==
  /\ c \in creations /\ c.counted /\ c.id = Unset
  /\ c.base = Unset \/ c.base \in DOMAIN variantRow
  /\ v \in VariantIds \ DOMAIN variantRow
  /\ variantRow' = [w \in DOMAIN variantRow \cup {v} |->
       IF w # v THEN variantRow[w]
       ELSE [project |-> c.project, main |-> c.main, base |-> c.base,
             imported |-> c.base # Unset /\ variantRow[c.base].imported]]
  /\ creations' = (creations \ {c}) \cup {[c EXCEPT !.id = v]}
  /\ UNCHANGED <<signInVars, projectRow, view, reads, newProject, newVariant, compared, makings,
                 deletions, memberCall, orders>>

\* The answer adds a card, if there is a page, and goes to the import page.
VariantCreated(c) ==
  /\ c \in creations /\ c.id # Unset
  /\ creations' = creations \ {c}
  /\ view' = IF c.heard THEN [view EXCEPT !.variants = @ \cup {Shown(c.id)}] ELSE view
  /\ IF c.here THEN Push(At("import", c.id)) ELSE UNCHANGED going
  /\ UNCHANGED <<person, known, login, at, present, profile, signIns>>
  /\ UNCHANGED <<tables, reads, newProject, newVariant, compared, makings, deletions, memberCall, orders>>

\* It is refused, fails, or its answer is lost.
VariantNotCreated(c) ==
  /\ c \in creations
  /\ creations' = creations \ {c}
  /\ UNCHANGED <<signInVars, tables, view, reads, newProject, newVariant, compared, makings,
                 deletions, memberCall, orders>>

\* The import page has a graph built for its variant, and goes to the board.
Imported(v) ==
  /\ at = At("import", v) /\ ~variantRow[v].imported
  /\ variantRow' = [variantRow EXCEPT ![v].imported = TRUE]
  /\ Push(At("workspace", v))
  /\ UNCHANGED <<person, known, login, at, present, profile, signIns>>
  /\ UNCHANGED <<projectRow, view, reads, newProject, newVariant, compared, inFlight,
                 memberCall, orders>>

-----------------------------------------------------------------------------
\* Members: the owner may ask, but the server does not implement it.

ChangeMembers ==
  /\ Order
  /\ OnProject /\ ~memberCall
  /\ \A p \in view.projects \cap DOMAIN projectRow : IsOwner(p, view.for)
  /\ memberCall' = TRUE
  /\ UNCHANGED <<signInVars, tables, view, reads, newProject, newVariant, compared, inFlight>>

MembersNotChanged ==
  /\ memberCall
  /\ memberCall' = FALSE
  /\ UNCHANGED <<signInVars, tables, view, reads, newProject, newVariant, compared, inFlight, orders>>

-----------------------------------------------------------------------------
PageStep ==
  \/ \E r \in reads : ReadServed(r) \/ ReadArrives(r) \/ ReadFails(r)
  \/ \E name \in Dashboard : FollowSidebar(name)
  \/ \E p \in Projects : OpenProject(p) \/ HandleDelete(p)
  \/ \E s \in view.variants : OpenVariant(s) \/ HandleToggleCompare(s) \/ ChooseBase(s)
  \/ OpenComparison \/ LeaveWorkspace
  \/ \E open \in BOOLEAN : OpenProjectDialog(open) \/ HandleOpen(open)
  \/ HandleCreateProject
  \/ HandleCreateVariant \/ ChangeMembers \/ MembersNotChanged

CallStep ==
  \/ \E d \in deletions : DeleteProject(d) \/ ProjectDeleted(d) \/ DeletionFails(d)
  \/ \E c \in makings, p \in Projects : CreateProjectBundle(c, p)
  \/ \E c \in makings : ProjectCreated(c) \/ ProjectNotCreated(c)
  \/ \E p \in Projects, u \in People, base \in VariantIds \cup {Unset} : CreateElsewhere(p, u, base)
  \/ \E c \in creations, v \in VariantIds : SaveVariant(c, v)
  \/ \E c \in creations : CountVariants(c) \/ VariantCreated(c) \/ VariantNotCreated(c)
  \/ \E v \in VariantIds : Imported(v)

ProjectsNext == Moving(SignInStep) \/ PageStep \/ CallStep

ProjectsSpec == ProjectsInit /\ [][ProjectsNext]_<<signInVars, projectVars>>

-----------------------------------------------------------------------------
\* Properties.

\* A project with variants has a main one, although which is decided by a count
\* before the row is stored, creations overlap and any of them may fail.
MainExists ==
  \A v \in DOMAIN variantRow : \E w \in VariantsOf(variantRow[v].project) : variantRow[w].main

\* A variant is a copy of one of its own project: the server takes any base, so
\* it is the pages that must never offer one of a project they showed before.
ForksStayInProject ==
  \A v \in DOMAIN variantRow :
    LET base == variantRow[v].base IN
      base # Unset => variantRow[base].project = variantRow[v].project

\* What a page shows was answered to somebody who was signed in while it was
\* there, and nothing of it is left when they sign out; reads and creations of
\* the pages before arrive all the same.
ShownForUser ==
  /\ view.for \in present \cup {NoOne}
  /\ \A r \in reads : r.who \in present
  /\ person = NoOne => view.projects = {} /\ view.variants = {} /\ profile.shown = NoOne
=============================================================================
