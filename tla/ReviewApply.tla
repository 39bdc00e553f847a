---------------------------- MODULE ReviewApply ----------------------------
(***************************************************************************)
(* What a review apply job does to a variant: it rewrites the design guide *)
(* and the code as the resolved cards decide, rebuilds the graph and       *)
(* aligns it.  The steps are separate writes to three stores (database,    *)
(* code tree, graph) with no transaction around them, and the job, its     *)
(* retries, other apply jobs, graph builds, people who edit the guide and  *)
(* forks of the variant all run side by side.                              *)
(*                                                                         *)
(* A text (the guide, a file) is the set of changes that went into it: a   *)
(* writer saves what it has read and its own change.                       *)
(***************************************************************************)
EXTENDS Naturals

CONSTANTS
  Variants,      \* variants of one project
  Uploaded,      \* those whose code was uploaded; the others are made by forking
  Files,         \* paths of code files in the Go module
  Jobs,          \* review apply jobs
  Targets,       \* Targets[j]: the files the cards resolved towards code point at
  Edits,         \* changes of the guide people make by hand
  Builds,        \* graph build jobs
  MaxAttempts,   \* executions of one apply job
  Nested         \* whether go.mod is in a directory below the root of the upload

ASSUME UploadedAssumption == Uploaded \subseteq Variants
ASSUME TargetsAssumption == Targets \in [Jobs -> SUBSET Files]
ASSUME ApplyAttemptsAssumption == MaxAttempts \in Nat
ASSUME NestedAssumption == Nested \in BOOLEAN

NoVariant == "none"
ASSUME NoVariantAssumption == NoVariant \notin Variants

VARIABLES
  root,          \* root[v]: source_root_uri, named after the variant that uploaded it
  tree,          \* tree[r]: the files under the uri r, by directory and path
  guide,         \* guide[v]: the row of variant_design_guides
  graph,         \* graph[v]: the code the nodes of v were taken from
  job,           \* job[j]: variant, status, attempts made
  worker,        \* worker[j]: the attempt at j that runs, and what it holds
  complete,      \* the jobs some attempt has applied completely
  editor,        \* editor[e]: the person who makes change e
  builder,       \* builder[b]: the graph build b
  saves          \* saves[v]: how often the guide of v was saved after its creation

vars == <<root, tree, guide, graph, job, worker, complete, editor,
          builder, saves>>

-----------------------------------------------------------------------------
Code == [Files -> SUBSET Jobs]
Original == [f \in Files |-> {}]

\* variant_files.path, the prompts and the answers of the model name a file by
\* its path below the module root; ApplyFiles by its path below the upload.
ModuleDir == IF Nested THEN "module" ELSE "top"
CodeAt(r) == tree[r][ModuleDir]

Guide == [text : SUBSET (Jobs \cup Edits), version : Nat]

\* Which of its two results an attempt wants (needsDesignGuideUpdate, needsCodeUpdate).
Wants == SUBSET {"guide", "code"} \ {{}}

\* An attempt: the step it is at and, once it has read them, the cards' wishes,
\* its copies of the uri, the guide and the code, and the files the model
\* rewrote, of which "left" still have to be written.  It has "saved" its success,
\* "exited" with 0, or "ended" otherwise, which Cloud Run answers with a retry.
LoadedAttempt ==
  [at : {"loaded", "read", "generated", "guided", "writing", "snapped", "synced",
         "finishing", "saved", "exited", "ended"},
   wants : Wants, root : Variants, guide : Guide, code : Code,
   out : SUBSET Files, left : SUBSET Files]
Attempt == [at : {"begun", "ended"}] \cup LoadedAttempt
NoAttempt == [at |-> "none"]

JobRow ==
  [variant : Variants \cup {NoVariant},
   status : {"none", "queued", "running", "succeeded", "failed"},
   attempts : 0 .. MaxAttempts]

\* A person at the guide holds the text the browser was given and, later, the
\* version the handler has read; a graph build holds the code it parsed.
Text == SUBSET (Jobs \cup Edits)
EditorSlot ==
  [at : {"idle", "done"}]
    \cup [at : {"open"}, variant : Variants, text : Text]
    \cup [at : {"read"}, variant : Variants, text : Text, version : Nat]
BuilderSlot ==
  [at : {"idle", "done"}] \cup [at : {"snapped"}, variant : Variants, code : Code]

Editable(j) == IF "code" \in worker[j].wants THEN Targets[j] ELSE {}

At(j, step) == worker[j].at = step
Goes(j, step) == worker' = [worker EXCEPT ![j].at = step]

-----------------------------------------------------------------------------
Init ==
  /\ root = [v \in Variants |-> IF v \in Uploaded THEN v ELSE NoVariant]
  /\ tree = [r \in Variants |-> [dir \in {"top", "module"} |-> Original]]
  /\ guide = [v \in Variants |-> [text |-> {}, version |-> 1]]
  /\ graph = [v \in Variants |-> Original]
  /\ job = [j \in Jobs |-> [variant |-> NoVariant, status |-> "none", attempts |-> 0]]
  /\ worker = [j \in Jobs |-> NoAttempt]
  /\ complete = {}
  /\ editor = [e \in Edits |-> [at |-> "idle"]]
  /\ builder = [b \in Builds |-> [at |-> "idle"]]
  /\ saves = [v \in Variants |-> 0]

(* Seeded faults.  No action uses them: each is a plausible slip in the     *)
(* definition that follows or that it is named after, and a run notices it *)
(* when it takes that definition's place.                                  *)

\* The version is raised twice.
SaveGuideTwiceCounted(j, blank) ==
  /\ At(j, "generated")
  /\ Goes(j, "guided")
  /\ LET v == job[j].variant
         copy == worker[j].guide
     IN IF "guide" \in worker[j].wants /\ ~blank
        THEN /\ guide' = [guide EXCEPT ![v] = [text |-> copy.text \cup {j},
                                                version |-> copy.version + 2]]
             /\ saves' = [saves EXCEPT ![v] = @ + 1]
        ELSE UNCHANGED <<guide, saves>>
  /\ UNCHANGED <<root, tree, graph, job, complete, editor, builder>>

\* The model's files are written whichever they are.
CheckNothing(j) ==
  /\ At(j, "guided")
  /\ IF Editable(j) = {} \/ worker[j].out = {}
     THEN /\ worker' = [worker EXCEPT ![j].at = "finishing", ![j].out = {}]
          /\ complete' = complete \cup {j}
     ELSE /\ worker' = [worker EXCEPT ![j].at = "writing", ![j].left = worker[j].out]
          /\ UNCHANGED complete
  /\ UNCHANGED <<root, tree, guide, graph, job, editor, builder, saves>>

\* The graph is rebuilt while files are still being written.
SyncEarly(j) ==
  /\ At(j, "writing")
  /\ worker' = [worker EXCEPT ![j].at = "snapped", ![j].code = CodeAt(root[job[j].variant])]
  /\ UNCHANGED <<root, tree, guide, graph, job, complete, editor, builder, saves>>

\* The error of a step is dropped.
FailsUnnoticed(j) ==
  /\ worker[j].at \notin {"none", "begun", "finishing", "saved", "exited", "ended"}
  /\ Goes(j, "finishing")
  /\ UNCHANGED <<root, tree, guide, graph, job, complete, editor, builder, saves>>

-----------------------------------------------------------------------------
\* CreateReviewApplyJob: nothing asks whether another apply job runs.
Request(j, v) ==
  /\ job[j].status = "none"
  /\ root[v] # NoVariant
  /\ job' = [job EXCEPT ![j].variant = v, ![j].status = "queued"]
  /\ UNCHANGED <<root, tree, guide, graph, worker, complete, editor, builder, saves>>

\* CreateVariant of a fork: guide and graph are copied, the code is not (the
\* fork has the uri of its parent).
Fork(v, w) ==
  /\ root[v] # NoVariant
  /\ root[w] = NoVariant
  /\ root' = [root EXCEPT ![w] = root[v]]
  /\ guide' = [guide EXCEPT ![w] = guide[v]]
  /\ graph' = [graph EXCEPT ![w] = graph[v]]
  /\ saves' = [saves EXCEPT ![w] = saves[v]]
  /\ UNCHANGED <<tree, job, worker, complete, editor, builder>>

-----------------------------------------------------------------------------
\* An attempt starts: the first, or Cloud Run's retry after any end but an exit
\* with 0.  Nothing asks for the status the row has.
Begin(j) ==
  /\ \/ job[j].status = "queued" /\ worker[j] = NoAttempt
     \/ At(j, "ended")
  /\ job[j].attempts < MaxAttempts
  /\ job' = [job EXCEPT ![j].status = "running", ![j].attempts = @ + 1]
  /\ worker' = [worker EXCEPT ![j] = [at |-> "begun"]]
  /\ UNCHANGED <<root, tree, guide, graph, complete, editor, builder, saves>>

\* The row of the variant, the resolved cards and the guide are read ...
Load(j) ==
  /\ At(j, "begun")
  /\ \E wants \in Wants :
       worker' = [worker EXCEPT ![j] =
         [at |-> "loaded", wants |-> wants, root |-> root[job[j].variant],
          guide |-> guide[job[j].variant], code |-> Original, out |-> {}, left |-> {}]]
  /\ UNCHANGED <<root, tree, guide, graph, job, complete, editor, builder, saves>>

\* ... then the code (materializeVariantSource, buildEditableFiles).
Materialize(j) ==
  /\ At(j, "loaded")
  /\ worker' = [worker EXCEPT ![j].at = "read", ![j].code = CodeAt(worker[j].root)]
  /\ UNCHANGED <<root, tree, guide, graph, job, complete, editor, builder, saves>>

\* The model answers with any files: which of them are allowed is looked at
\* after the guide has been saved.
Generate(j) ==
  /\ At(j, "read")
  /\ "guide" \in worker[j].wants \/ Editable(j) # {}
  /\ \E out \in SUBSET Files :
       worker' = [worker EXCEPT ![j].at = "generated", ![j].out = out]
  /\ UNCHANGED <<root, tree, guide, graph, job, complete, editor, builder, saves>>

\* The guide is saved from the copy read before the model was called; it
\* is left alone when the answer is blank or the variant has no guide.
SaveGuide(j, blank) ==
  /\ At(j, "generated")
  /\ Goes(j, "guided")
  /\ LET v == job[j].variant
         copy == worker[j].guide
     IN IF "guide" \in worker[j].wants /\ ~blank
        THEN /\ guide' = [guide EXCEPT ![v] = [text |-> copy.text \cup {j},
                                                version |-> copy.version + 1]]
             /\ saves' = [saves EXCEPT ![v] = @ + 1]
        ELSE UNCHANGED <<guide, saves>>
  /\ UNCHANGED <<root, tree, graph, job, complete, editor, builder>>

\* toUpdatedFiles: without editable files, or without answers for them, the
\* code is left alone; a file that was not editable is an error (Fails).
CheckOutput(j) ==
  /\ At(j, "guided")
  /\ IF Editable(j) = {} \/ worker[j].out = {}
     THEN /\ worker' = [worker EXCEPT ![j].at = "finishing", ![j].out = {}]
          /\ complete' = complete \cup {j}
     ELSE /\ worker[j].out \subseteq Editable(j)
          /\ worker' = [worker EXCEPT ![j].at = "writing", ![j].left = worker[j].out]
          /\ UNCHANGED complete
  /\ UNCHANGED <<root, tree, guide, graph, job, editor, builder, saves>>

\* ApplyFiles writes one file after the other, below the root of the upload.
WriteFile(j, f) ==
  /\ At(j, "writing")
  /\ f \in worker[j].left
  /\ tree' = [tree EXCEPT ![worker[j].root]["top"][f] = worker[j].code[f] \cup {j}]
  /\ worker' = [worker EXCEPT ![j].left = @ \ {f}]
  /\ UNCHANGED <<root, guide, graph, job, complete, editor, builder, saves>>

\* syncGraph reads the variant and its code once more ...
SyncRead(j) ==
  /\ At(j, "writing")
  /\ worker[j].left = {}
  /\ worker' = [worker EXCEPT ![j].at = "snapped", ![j].code = CodeAt(root[job[j].variant])]
  /\ UNCHANGED <<root, tree, guide, graph, job, complete, editor, builder, saves>>

\* ... and replaces the graph by what it parsed, in one transaction.
SyncCommit(j) ==
  /\ At(j, "snapped")
  /\ Goes(j, "synced")
  /\ graph' = [graph EXCEPT ![job[j].variant] = worker[j].code]
  /\ UNCHANGED <<root, tree, guide, job, complete, editor, builder, saves>>

\* applyLayout(..., LayoutTypeGrid) gives all nodes new positions; the texts do
\* not tell positions apart.
Align(j) ==
  /\ At(j, "synced")
  /\ Goes(j, "finishing")
  /\ complete' = complete \cup {j}
  /\ UNCHANGED <<root, tree, guide, graph, job, editor, builder, saves>>

\* The last save of the row ...
Succeed(j) ==
  /\ At(j, "finishing")
  /\ Goes(j, "saved")
  /\ job' = [job EXCEPT ![j].status = "succeeded"]
  /\ UNCHANGED <<root, tree, guide, graph, complete, editor, builder, saves>>

\* ... and the exit of the process with 0.
Exit(j) ==
  /\ At(j, "saved")
  /\ Goes(j, "exited")
  /\ UNCHANGED <<root, tree, guide, graph, job, complete, editor, builder, saves>>

\* failReviewApply: no resolved card, no code to edit, the model fails or answers
\* with a file it was not given, a write fails.  What was written stays.
Fails(j) ==
  /\ worker[j].at \notin {"none", "finishing", "saved", "exited", "ended"}
  /\ Goes(j, "ended")
  /\ job' = [job EXCEPT ![j].status = "failed"]
  /\ UNCHANGED <<root, tree, guide, graph, complete, editor, builder, saves>>

\* The process dies, or cannot save the row: the status stays as it is, running
\* or, when the process dies between its last save and its exit, succeeded.
Dies(j) ==
  /\ worker[j].at \notin {"none", "exited", "ended"}
  /\ Goes(j, "ended")
  /\ UNCHANGED <<root, tree, guide, graph, job, complete, editor, builder, saves>>

-----------------------------------------------------------------------------
\* A browser opens the workspace, and with it the guide ...
OpenGuide(e, v) ==
  /\ editor[e].at = "idle"
  /\ root[v] # NoVariant
  /\ editor' = [editor EXCEPT ![e] = [at |-> "open", variant |-> v, text |-> guide[v].text]]
  /\ UNCHANGED <<root, tree, guide, graph, job, worker, complete, builder, saves>>

\* ... UpdateVariantDesignGuide reads the row ...
ReadGuide(e) ==
  /\ editor[e].at = "open"
  /\ editor' = [editor EXCEPT ![e] =
       [at |-> "read", variant |-> @.variant, text |-> @.text,
        version |-> guide[@.variant].version]]
  /\ UNCHANGED <<root, tree, guide, graph, job, worker, complete, builder, saves>>

\* ... and saves it with the text of the request and the next version.
EditGuide(e) ==
  /\ editor[e].at = "read"
  /\ LET v == editor[e].variant IN
     /\ guide' = [guide EXCEPT ![v] = [text |-> editor[e].text \cup {e},
                                       version |-> editor[e].version + 1]]
     /\ saves' = [saves EXCEPT ![v] = @ + 1]
  /\ editor' = [editor EXCEPT ![e] = [at |-> "done"]]
  /\ UNCHANGED <<root, tree, graph, job, worker, complete, builder>>

\* The graph build of a variant: its snapshot of the code, then its transaction.
BuildRead(b, v) ==
  /\ builder[b].at = "idle"
  /\ root[v] # NoVariant
  /\ builder' = [builder EXCEPT ![b] =
       [at |-> "snapped", variant |-> v, code |-> CodeAt(root[v])]]
  /\ UNCHANGED <<root, tree, guide, graph, job, worker, complete, editor, saves>>

BuildCommit(b) ==
  /\ builder[b].at = "snapped"
  /\ graph' = [graph EXCEPT ![builder[b].variant] = builder[b].code]
  /\ builder' = [builder EXCEPT ![b] = [at |-> "done"]]
  /\ UNCHANGED <<root, tree, guide, job, worker, complete, editor, saves>>

-----------------------------------------------------------------------------
ApplyStep(j) ==
  \/ Begin(j)
  \/ Load(j)
  \/ Materialize(j)
  \/ Generate(j)
  \/ \E blank \in BOOLEAN : SaveGuide(j, blank)
  \/ CheckOutput(j)
  \/ \E f \in Files : WriteFile(j, f)
  \/ SyncRead(j)
  \/ SyncCommit(j)
  \/ Align(j)
  \/ Succeed(j)
  \/ Exit(j)

Next ==
  \/ \E j \in Jobs, v \in Variants : Request(j, v)
  \/ \E v, w \in Variants : Fork(v, w)
  \/ \E j \in Jobs : ApplyStep(j)
  \/ \E j \in Jobs : Fails(j)
  \/ \E j \in Jobs : Dies(j)
  \/ \E e \in Edits, v \in Variants : OpenGuide(e, v)
  \/ \E e \in Edits : ReadGuide(e)
  \/ \E e \in Edits : EditGuide(e)
  \/ \E b \in Builds, v \in Variants : BuildRead(b, v)
  \/ \E b \in Builds : BuildCommit(b)

Spec == Init /\ [][Next]_vars

-----------------------------------------------------------------------------
(* Properties *)

\* The type of every variable.
TypeOK ==
  /\ root \in [Variants -> Variants \cup {NoVariant}]
  /\ tree \in [Variants -> [{"top", "module"} -> Code]]
  /\ guide \in [Variants -> Guide]
  /\ graph \in [Variants -> Code]
  /\ job \in [Jobs -> JobRow]
  /\ worker \in [Jobs -> Attempt \cup {NoAttempt}]
  /\ complete \subseteq Jobs
  /\ editor \in [Edits -> EditorSlot]
  /\ builder \in [Builds -> BuilderSlot]
  /\ saves \in [Variants -> Nat]

\* Whatever the model answers, and however often a job is retried, a job leaves
\* its traces only in files that cards resolved towards the code point at.
OnlyTargetsRewritten ==
  \A j \in Jobs, f \in Files : f \notin Targets[j] =>
    /\ \A r \in Variants : \A dir \in {"top", "module"} : j \notin tree[r][dir][f]
    /\ \A v \in Variants : j \notin graph[v][f]

\* With one apply job and no other writer: when an attempt that rewrote files
\* reports success, these files hold the change, and the graph shows the whole
\* code as it is, the files that earlier attempts had left half done included.
\* (An attempt whose answer has no files skips the sync: what one before it has
\* written and not synced then stays out of the graph.)
SuccessIsVisible ==
  \A j \in Jobs : job[j].status = "succeeded" /\ worker[j].out # {} =>
    LET v == job[j].variant IN
    /\ \A f \in worker[j].out : j \in CodeAt(root[v])[f]
    /\ graph[v] = CodeAt(root[v])

\* However the saves of jobs, retries and people overlap, a version never counts
\* more updates than there were (it may count fewer: overlapping saves share one).
VersionWithinUpdates ==
  \A v \in Variants : guide[v].version \in 1 .. 1 + saves[v]

\* Forking copies the code: what is applied to a fork never shows in the code
\* of a variant that somebody else uploaded.
ForkLeavesParentAlone ==
  \A j \in Jobs, v \in Uploaded, f \in Files :
    j \in CodeAt(v)[f] => job[j].variant = v

\* The code of a file is read at source_root_uri joined with variant_files.path.
CodeIsAtPath ==
  \A v \in Variants, f \in Files :
    root[v] # NoVariant => CodeAt(root[v])[f] = tree[root[v]]["top"][f]

\* Each job keeps the promise of its table.
Lifecycle == INSTANCE JobLifecycle WITH
  Redelivered <- MaxAttempts > 1,
  status <- [j \in Jobs |-> job[j].status],
  worked <- [j \in Jobs |-> j \in complete]

ApplyKeepsLifecycle == Lifecycle!LifecycleSpec
=============================================================================
