----------------------------- MODULE ImportFlow -----------------------------
(***************************************************************************)
(* The import page: a folder is chosen, files are picked from its tree,    *)
(* and one import after the other uploads them and waits for the jobs that *)
(* build the graph, lay it out and review it.  An import goes on when its  *)
(* page is left, and jobs go on when their import has given up: Cloud Run  *)
(* runs a job again that failed or died.  The graph is its rows of files,  *)
(* which a job reads and then writes without a lock; rows of nodes and     *)
(* edges are left out.  Layouts and reviews are only waited for, and the   *)
(* rows of their jobs are left to JobExecution.                            *)
(***************************************************************************)
EXTENDS Naturals, FiniteSets

CONSTANTS
  Files,        \* the files of the folders on the disk
  Folders,      \* folders that can be chosen: sets of files
  Rows,         \* rows of the tree: the files below a directory, or one file
  AutoExcluded, \* files of excluded directories and names (shouldAutoExclude)
  MaxImports,   \* bound: imports started
  MaxTries      \* runs Cloud Run gives a job: max_retries + 1

ASSUME ImportAssumption ==
  /\ Folders \subseteq (SUBSET Files) \ {{}} /\ Rows \subseteq SUBSET Files
  /\ AutoExcluded \subseteq Files
ASSUME MaxImportsAssumption == MaxImports \in Nat
ASSUME MaxTriesAssumption == MaxTries \in Nat \ {0}

Imports == 1 .. MaxImports
NoRoot == 0            \* the code the variant had before
OldFiles == {"before"} \* the files of its graph before

VARIABLES
  importPage,  \* "import", "elsewhere" or "workspace"
  step, allFiles, selection,
  started,     \* imports started
  flow,        \* flow[i]: what import i uploads and how far it is
  upload,      \* how this deployment uploads: unknown until a plan was asked for
  root,        \* root[i]: the files stored under the root of import i
  savedAs,     \* name and source_root_uri of the variant
  graphJob,    \* graphJob[i]: the row of the graph build of import i, and its worker
  graph,       \* the files of the graph
  torn,        \* another synchronisation fell between the reads and writes of the last
  mixed        \* imports that ran while another, or its job, was not over

importVars == <<importPage, step, allFiles, selection, started, flow, upload, root,
                savedAs, graphJob, graph, torn, mixed>>

-----------------------------------------------------------------------------
Steps == {"select", "tree", "confirm", "building"}
Stages == {"none", "planning", "uploading", "updating", "asking graph", "graph",
           "asking layout", "layout", "asking review", "review", "done", "error"}
JobStatus == {"none", "queued", "running", "succeeded", "failed"}
Over == {"none", "done", "error"}
Going(i) == flow[i].stage \notin Over

\* The worker of a graph job: it waits for a container, has read the source, has read
\* the rows, has committed, has saved its success; it failed or was killed, or exited 0.
Works == {"none", "waits", "read", "found", "synced", "saved", "out", "exited"}
InSync(i) == graphJob[i].work = "found"
Again(i) == graphJob[i].work = "out" /\ graphJob[i].tries < MaxTries
Unfinished(i) ==
  Going(i) \/ graphJob[i].work \in {"waits", "read", "found", "synced", "saved"} \/ Again(i)
OldRow == [name |-> "name", root |-> NoRoot]
NoJob ==
  [status |-> "none", work |-> "none", tries |-> 0, read |-> {},
   row |-> OldRow, found |-> {}, gone |-> {}, passed |-> FALSE]

ImportInit ==
  /\ importPage = "import" /\ step = "select" /\ allFiles = {} /\ selection = {}
  /\ started = 0 /\ upload = "unknown"
  /\ flow = [i \in Imports |-> [stage |-> "none", files |-> {}]]
  /\ root = [i \in Imports |-> {}]
  /\ savedAs = OldRow
  /\ graphJob = [i \in Imports |-> NoJob]
  /\ graph = OldFiles /\ torn = FALSE /\ mixed = {}

Server == <<upload, root, savedAs, graphJob, graph, torn>>
Form == <<importPage, step, allFiles, selection>>

-----------------------------------------------------------------------------
\* The page.

\* A folder picks its files, but for those that are excluded.
HandleFolderSelect(F) ==
  /\ importPage = "import" /\ step = "select" /\ started < MaxImports
  /\ allFiles' = F /\ selection' = F \ AutoExcluded /\ step' = "tree"
  /\ UNCHANGED <<importPage, started, flow, mixed, Server>>

\* A row picks what is below it, or drops it when all of it was picked.
HandleToggle(R) ==
  /\ importPage = "import" /\ step = "tree"
  /\ LET paths == R \cap allFiles IN
       /\ paths # {}
       /\ selection' = IF paths \subseteq selection THEN selection \ paths ELSE selection \cup paths
  /\ UNCHANGED <<importPage, step, allFiles, started, flow, mixed, Server>>

\* 全選択 and 全解除.
SelectAllOrNone(S) ==
  /\ importPage = "import" /\ step = "tree" /\ S \in {allFiles, {}}
  /\ selection' = S
  /\ UNCHANGED <<importPage, step, allFiles, started, flow, mixed, Server>>

\* 戻る and 次へ; from an import that is going on there is no way back.
GoTo(next) ==
  /\ importPage = "import"
  /\ \/ step = "tree" /\ next = "select"
     \/ step = "tree" /\ next = "confirm" /\ selection # {}
     \/ step = "confirm" /\ next = "tree"
     \/ step = "building" /\ next = "confirm" /\ flow[started].stage = "error"
  /\ step' = next
  /\ UNCHANGED <<importPage, allFiles, selection, started, flow, mixed, Server>>

\* The form is gone with its page.
FormGone == step' = "select" /\ allFiles' = {} /\ selection' = {}

\* The page is left; what goes on is no longer shown.
LeaveImport ==
  /\ importPage = "import"
  /\ importPage' = "elsewhere" /\ FormGone
  /\ UNCHANGED <<started, flow, mixed, Server>>

\* The page is opened anew.
OpenImport ==
  /\ importPage # "import" /\ started < MaxImports
  /\ importPage' = "import"
  /\ UNCHANGED <<step, allFiles, selection, started, flow, mixed, Server>>

\* 解析開始.
HandleImport ==
  /\ importPage = "import" /\ step = "confirm" /\ selection \cap allFiles # {}
  /\ started < MaxImports
  /\ started' = started + 1 /\ step' = "building"
  /\ flow' = [flow EXCEPT ![started + 1] =
                [stage |-> "planning", files |-> selection \cap allFiles]]
  /\ LET others == {i \in 1 .. started : Unfinished(i)} IN
       mixed' = IF others = {} THEN mixed ELSE mixed \cup others \cup {started + 1}
  /\ UNCHANGED <<importPage, allFiles, selection, Server>>

-----------------------------------------------------------------------------
\* An import, step by step.

Reach(i, stage) == flow' = [flow EXCEPT ![i].stage = stage]
Stands(i, stage) == flow[i].stage = stage
Page == UNCHANGED <<Form, started, mixed>>

\* The plan has signed URLs under a new root, or says that there are none.
PrepareVariantSourceUpload(i, how) ==
  /\ Stands(i, "planning") /\ upload \in {"unknown", how}
  /\ upload' = how
  /\ Reach(i, "uploading")
  /\ Page /\ UNCHANGED <<root, savedAs, graphJob, graph, torn>>

\* One file after the other is put under the root.
PutFile(i, f) ==
  /\ Stands(i, "uploading") /\ upload = "direct" /\ f \in flow[i].files \ root[i]
  /\ root' = [root EXCEPT ![i] = @ \cup {f}]
  /\ Page /\ UNCHANGED <<flow, upload, savedAs, graphJob, graph, torn>>

UploadsDone(i) ==
  /\ Stands(i, "uploading") /\ upload = "direct" /\ root[i] = flow[i].files
  /\ Reach(i, "updating")
  /\ Page /\ UNCHANGED Server

\* One request with all files: they are stored, then the row names their root.
UploadMultipart(i) ==
  /\ Stands(i, "uploading") /\ upload = "multipart"
  /\ root' = [root EXCEPT ![i] = flow[i].files]
  /\ savedAs' = [savedAs EXCEPT !.root = i]
  /\ Reach(i, "updating")
  /\ Page /\ UNCHANGED <<upload, graphJob, graph, torn>>

\* updateVariant sends an empty name, and the handler stores what it is sent.
UpdateVariant(i) ==
  /\ Stands(i, "updating")
  /\ savedAs' = [name |-> "", root |-> i]
  /\ Reach(i, "asking graph")
  /\ Page /\ UNCHANGED <<upload, root, graphJob, graph, torn>>

CreateGraphBuildJob(i) ==
  /\ Stands(i, "asking graph")
  /\ graphJob' = [graphJob EXCEPT ![i] = [NoJob EXCEPT !.status = "queued", !.work = "waits"]]
  /\ Reach(i, "graph")
  /\ Page /\ UNCHANGED <<upload, root, savedAs, graph, torn>>

\* Seeded fault: a job that has ended is taken for one that succeeded.
GraphJobIsOver(i) ==
  /\ Stands(i, "graph") /\ graphJob[i].status \in {"succeeded", "failed"}
  /\ Reach(i, "asking layout")
  /\ Page /\ UNCHANGED Server

WaitForGraph(i) ==
  /\ Stands(i, "graph") /\ graphJob[i].status = "succeeded"
  /\ Reach(i, "asking layout")
  /\ Page /\ UNCHANGED Server

\* A layout, and then a review, is asked for.
CreateLaterJob(i) ==
  /\ flow[i].stage \in {"asking layout", "asking review"}
  /\ Reach(i, IF Stands(i, "asking layout") THEN "layout" ELSE "review")
  /\ Page /\ UNCHANGED Server

\* Its job has succeeded.
WaitForLater(i) ==
  /\ flow[i].stage \in {"layout", "review"}
  /\ Reach(i, IF Stands(i, "layout") THEN "asking review" ELSE "done")
  /\ Page /\ UNCHANGED Server

\* A call or a job fails, or a deadline has passed (its job may still go on).
ImportFails(i) ==
  /\ Going(i)
  /\ Reach(i, "error")
  /\ Page /\ UNCHANGED Server

\* After 1.2 s the router moves, whichever page is shown by then.
MoveToWorkspace(i) ==
  /\ Stands(i, "done")
  /\ importPage' = "workspace" /\ FormGone
  /\ Reach(i, "none")
  /\ UNCHANGED <<started, mixed, Server>>

-----------------------------------------------------------------------------
\* The jobs.

Worker == UNCHANGED <<flow, Form, started, mixed, upload, root>>
OtherRows == <<savedAs, graph, torn>>

\* The worker goes on with no memory of what it read.
Forgets(i, status, work) ==
  [NoJob EXCEPT !.status = status, !.work = work, !.tries = graphJob[i].tries]
Turns(i, status, work) ==
  /\ graphJob' = [graphJob EXCEPT ![i] = Forgets(i, status, work)]
  /\ Worker /\ UNCHANGED OtherRows

\* A container sets the row to running, whatever it said, and reads the files under
\* the root that the variant names by then.
GraphJobStarts(i) ==
  /\ graphJob[i].work \in {"waits", "out"} /\ graphJob[i].tries < MaxTries
  /\ graphJob' = [graphJob EXCEPT ![i].status = "running", ![i].work = "read",
                                  ![i].tries = @ + 1, ![i].read = root[savedAs.root]]
  /\ Worker /\ UNCHANGED OtherRows

\* SyncParsedGraph reads the row of the variant and the rows of its files.
SyncReads(i) ==
  /\ graphJob[i].work = "read" /\ graphJob[i].read # {}
  /\ graphJob' = [graphJob EXCEPT ![i].work = "found", ![i].row = savedAs,
                                  ![i].found = graph, ![i].gone = {}, ![i].passed = FALSE]
  /\ Worker /\ UNCHANGED OtherRows

\* Seeded fault: the rows of files that are no longer there are kept.
SyncMerges(i) ==
  LET job == graphJob[i]
      made == job.read \ job.found
  IN /\ InSync(i) /\ made \cap graph = {}
     /\ graph' = graph \cup made
     /\ torn' = job.passed
     /\ savedAs' = job.row
     /\ graphJob' = [j \in Imports |->
          IF j = i THEN Forgets(i, "running", "synced")
          ELSE IF InSync(j) THEN [graphJob[j] EXCEPT !.passed = TRUE]
          ELSE graphJob[j]]
     /\ Worker

\* It makes rows for the paths it did not find, deletes those it found and does not
\* retain (by id: a row that is gone, or was made anew, is not met), and saves the
\* variant as it read it.  A path that has a row by now breaks the unique index.
SyncCommits(i) ==
  LET job == graphJob[i]
      made == job.read \ job.found
      dropped == (job.found \ job.gone) \ job.read
  IN /\ InSync(i) /\ made \cap graph = {}
     /\ graph' = (graph \ dropped) \cup made
     /\ torn' = job.passed
     /\ savedAs' = job.row
     /\ graphJob' = [j \in Imports |->
          IF j = i THEN Forgets(i, "running", "synced")
          ELSE IF InSync(j) THEN [graphJob[j] EXCEPT !.gone = @ \cup dropped, !.passed = TRUE]
          ELSE graphJob[j]]
     /\ Worker

GraphJobSucceeds(i) ==
  graphJob[i].work = "synced" /\ Turns(i, "succeeded", "saved")

GraphJobExits(i) ==
  graphJob[i].work = "saved" /\ Turns(i, "succeeded", "exited")

\* An error is saved and the process exits 1.
GraphJobFails(i) ==
  graphJob[i].work \in {"read", "found"} /\ Turns(i, "failed", "out")

\* The container is killed, or cannot save the status.
GraphJobDies(i) ==
  /\ graphJob[i].work \in {"read", "found", "synced", "saved"}
  /\ Turns(i, graphJob[i].status, "out")

-----------------------------------------------------------------------------
FlowStep(i) ==
  \/ \E how \in {"direct", "multipart"} : PrepareVariantSourceUpload(i, how)
  \/ \E f \in Files : PutFile(i, f)
  \/ UploadsDone(i) \/ UploadMultipart(i) \/ UpdateVariant(i) \/ CreateGraphBuildJob(i)
  \/ WaitForGraph(i) \/ CreateLaterJob(i) \/ WaitForLater(i) \/ ImportFails(i)

JobStep(i) ==
  \/ GraphJobStarts(i) \/ SyncReads(i) \/ SyncCommits(i) \/ GraphJobSucceeds(i)
  \/ GraphJobExits(i) \/ GraphJobFails(i) \/ GraphJobDies(i)

ImportNext ==
  \/ \E F \in Folders : HandleFolderSelect(F)
  \/ \E R \in Rows : HandleToggle(R)
  \/ \E S \in {allFiles, {}} : SelectAllOrNone(S)
  \/ \E s \in Steps : GoTo(s)
  \/ LeaveImport \/ OpenImport \/ HandleImport
  \/ \E i \in Imports : FlowStep(i) \/ JobStep(i) \/ MoveToWorkspace(i)

-----------------------------------------------------------------------------
\* Properties.

SavedRows == [name : {"name", ""}, root : {NoRoot} \cup Imports]
FileRows == Files \cup OldFiles
JobRecords ==
  [status : JobStatus, work : Works, tries : 0 .. MaxTries, read : SUBSET Files, row : SavedRows,
   found : SUBSET FileRows, gone : SUBSET FileRows, passed : BOOLEAN]

ImportTypeOK ==
  /\ importPage \in {"import", "elsewhere", "workspace"} /\ step \in Steps
  /\ allFiles \subseteq Files /\ selection \subseteq Files /\ started \in 0 .. MaxImports
  /\ flow \in [Imports -> [stage : Stages, files : SUBSET Files]]
  /\ root \in [Imports -> SUBSET Files]
  /\ savedAs \in SavedRows
  /\ graphJob \in [Imports -> JobRecords]
  /\ graph \subseteq FileRows /\ torn \in BOOLEAN /\ mixed \subseteq Imports

\* A graph is built from everything one import uploaded, with nothing of the uploads
\* before it, or from nothing of it: never from half an upload, whichever imports
\* failed or were left and however often Cloud Run ran a job.  Synchronisations take
\* no lock: one that another fell into may leave files of both.
GraphOfWholeUpload ==
  torn \/ graph = OldFiles \/ \E i \in 1 .. started : graph = flow[i].files

\* An import that got past its graph shows the files that were picked for it,
\* unless it ran beside another one, or beside a job of one before it that was not
\* over: a job that failed is not while Cloud Run may run it again.  A job of its own
\* that is run again after its success leaves them shown.
ImportedIsPicked ==
  started > 0 /\ started \notin mixed
    /\ flow[started].stage \in {"asking layout", "layout", "asking review", "review", "done"} =>
       graph = flow[started].files

\* The import changes the code of a variant, not its name.
NameSurvives == savedAs.name = "name"

-----------------------------------------------------------------------------
ImportSpec == ImportInit /\ [][ImportNext]_importVars
=============================================================================
