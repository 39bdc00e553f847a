# A verification of WhiteCoder (affectify)

WhiteCoder takes a Go repository, draws it as a graph of functions, lets an AI
review it against a design guide, lets people decide what to do with each
finding, and lets the AI apply the decisions to the guide and to the code. This
directory holds TLA+ models of the parts of it that are hard to get right, what
TLC checks of them on small instances, and what TLAPS proves of them for all.

Paths below are relative to the root of the repository (`src/` in `PROJECT.json`); `be/`
stands for `backend/internal/`, `fe/` for `frontend/src/`.

## The system

| part | state | operations |
|------|-------|------------|
| Job execution (`be/service/job_dispatcher.go`, `job_worker.go`, `backend/cmd/worker`) | four job tables: status, error, start, end | Create*Job, dispatch (noop, goroutine, Cloud Run), Run*Job, fail*, Get*Job, the browser's `waitForJob` |
| Review apply (`be/service/job_worker.go:527`) | guide of a variant, code tree, graph | read cards, guide and code; ask the model; save guide; write files; sync graph; align |
| Review feedback (`be/service/review.go`, `be/repository/review.go`) | cards, targets, audit log, chats, reactions | generate, decide, chat, draft, rate, list |
| Graph synchronisation (`be/repository/variant.go:322`, `be/service/node.go`) | files, nodes, edges | SyncParsedGraph, ApplyNodePositions, create/update/delete node, clone |
| Variants (`be/service/variant.go`) | the variant row: is_main, source root, times | create, fork, update, upload, delete |
| Layout (`be/layout/compute.go`) | none: pure | grid, circular, random, levels of strongly connected components |
| Fallback review (`be/reviewgen/generate.go`) | none: pure | findings and score of a graph |
| Graph parser (`be/graphbuild/parser.go`) | none: pure | functions and calls of a Go module |
| Source store (`be/source/store.go`) | files below a root, local or in a bucket | save, plan an upload, apply files |
| Import page (`fe/app/workspace/[variantId]/import/page.tsx`) | the step, the files picked, one import after the other | choose, pick, upload (two ways), update the row, graph build, layout, review |
| Whiteboard (`fe/components/features/workspace/Whiteboard.tsx`) | cards, strokes, undo and redo, one save timer, a layout job | type, drag, draw, erase, undo, save places, add cards, lay out, reload |
| Code viewer (`CodeViewerWindow.tsx`, same directory) | tree of files, windows, tabs | open, close, type into a whole file, add a function |
| Layouts in the browser (`fe/utils/graphLayout.ts`) | none: pure | components, levels, grid, rings |
| Review panel (`fe/components/features/ai-review/AIReviewContext.tsx`, `ReviewChat.tsx` and the other components there) | cards, selection, chat, two polling loops | load a review, chat, resolve, unresolve, rate, apply |
| Project pages (`fe/app/(dashboard)/page.tsx`, `projects`, `project/[projectId]` there, `be/service/project.go`, `variant.go`) | lists, dialogs, pending creations | create, fork, delete, compare, open |
| Library of guides (`fe/app/(dashboard)/design-guides`, `be/service/design_guide.go`) | list, tab, search, likes shown before they are stored, editor | list, like, open, edit, create |
| Authentication (`fe/lib/auth.tsx`, `fe/app/login`, `be/service/user.go`) | who is signed in, the page shown | sign in and out, here or in another tab; settings |

How they interact. The API server and the workers share nothing but PostgreSQL and the code
tree. A handler inserts a job row, calls the dispatcher and answers; a worker process (or
goroutine) reads the row by its id and does the work; the browser polls the row. There is no
lock and no version column anywhere: a service reads a whole row, changes it in memory and
saves all its columns (GORM `Save`, which inserts the row when it is gone), under READ
COMMITTED. Transactions surround only SyncParsedGraph, ReplaceGeneratedReview,
ApplyNodePositions, CreateVariant, the project bundle and the save of a decision. Foreign
keys with cascades are documented but the migrations do not create them. Cloud Run starts a
failed task again with the same `JOB_ID` (`infra/terraform/modules/cloud_run_job`:
`max_retries`, `timeout`), and no worker looks at the status it finds: a job that failed
runs again, and so does one whose process was killed after it had saved its success and
before it exited. In the browser every page and panel has its own copy of what it read;
answers come back to a page that has moved on, and what saves one thing at a time (one
timer, one list of likes, one pending navigation) meets several.

What is hard, therefore: overlapping whole-row saves, work repeated by retries
after a half-done attempt, crashes that leave a row `running`, and copies read
before a model call of several seconds and written after it; and in the browser
answers that arrive for a card, a tab, a project or a person that is no longer there.
`PROJECT.json`
lists the hazards that matter most one by one.

What makes each part correct: a row never mixes two writers, a success is true, and kept
unless the platform runs the job again (job execution); only what was decided is changed,
and success means it shows (review apply); what a card shows was decided, and is in the log
(review feedback). On the board: a text stays with its card, undo leads back one gesture,
what was typed is saved, a layout ends. In the panel: the cards are those of one review, are
what is stored, and applied ones do not come back while their job is not run again. In the
viewer: a file is open once, and a keystroke changes the function it is in. Layouts mark
every call inside a cycle and keep cards apart. A project with variants has a main one, a
fork stays in its project, a page shows what was read for who is signed in. Hearts and
counts are what is stored. A graph is made of one whole upload, unless two builds of it
synchronise at once.

## Modules

### JobLifecycle: what a job table promises

The abstract specification: per job a status and whether its work was done.
`Start`, `Work`, `Succeed`, `Fail` say when each may happen; the constant
`Redelivered` says whether the platform may run a job more than once, and is
where the promise is weaker: a failed job may start again, and so may one whose work was
done and which said so (its process ended wrongly after the last save); a success may also
be taken back by a handler that was told its dispatch had failed.

### JobExecution: handlers, workers, retries and the polling browser

One job row `row[j]` (status, and whether error, start and end are set), the
handler `api[j]`, the attempts `worker[j][a]` with the copy of the row each
holds, and the browser `client[j]`. One action per write:

- `CreateJob`, `Dispatch`, `DispatchError`, `SaveDispatchError`: the four
  Create*Job handlers, which are the same code four times. `DispatchError`
  includes the lost answer: the execution was started, the handler does not know,
  and saves its own copy of the row over what the worker writes. `Dispatch`
  includes the dispatchers that start nothing.
- `WorkerLoad`, `WorkerBegin`, `WorkerApply`/`WorkerRefuse`, `WorkerSucceed`/
  `WorkerFail`: Run*Job and run*/fail*. `WorkerApply` is all the work of the kind
  at once; `ReviewApply` takes it apart for the kind where its steps matter.
  `WorkerSucceed` is the last save of the row and `WorkerExit` the exit with 0 after it
  (`cmd/worker/main.go:54-57`): an attempt that dies between the two has a saved success
  and is retried, which sets the row to running.
- `WorkerDie` (killed, timed out, cannot read or save, or has no answer to its last save),
  `CloudRunRetry` (any exit but 0), `ServerCrash` (handlers end where they are, and with the local
  dispatcher so do all goroutines).
- `ClientPoll`, `ClientTimeout`, `ClientLosesAnswer`: one round of `waitForJob`.

`applied[j]` is a history variable: the attempts that did the whole work. `SuccessSticks` is
about attempts that exited with 0; `SuccessUndoneByRetry`, an action property, says who else
may take a success off the row.
`LifecycleSpec` is the refinement `Lifecycle == INSTANCE JobLifecycle WITH status
<- row[j].status, worked <- applied[j] # {}`.

### ReviewFeedback: cards, decisions, chats and the audit log

`feedback[f]`, `actions[f]` and `chats[f]` are the three tables; an id is a
generation of the review and a card. `call[c]` is a request in flight with the row
it has read. `Generate` is ReplaceGeneratedReview (one transaction that deletes
the earlier rows of the job and inserts new ones; actions and chats of deleted
rows stay, for nothing cascades). `BeginDecide`, `Decide` are
ResolveReviewFeedback: read, then save and log in one transaction. `BeginChat`,
`Ask`, `Reply`, `Conclude` are AppendReviewFeedbackChat: read, insert the
question, insert the reply, and save the whole row if the conversation speaks for
another recommendation. `CallFails` ends a call between any two statements.
`Decision` is what the browser sends (a resolution comes with a choice and a
note, since the button waits for one), and `dismissed`, which only the API offers.
The text of notes and messages is left out; whether a note is there is kept.

### ReviewApply: applying decisions to the guide, the code and the graph

A text is the set of changes that went into it, so a lost update is a missing
element. `root[v]` is `source_root_uri` (shared by forks), `tree[r]` the files at
a root, at the top of the upload or in the module directory, `guide[v]`,
`graph[v]` (the code the nodes were taken from), `job[j]`, and `worker[j]` with
everything runReviewApply holds in memory. One action per read or write of
runReviewApply in its order: `Begin`, `Load`, `Materialize`, `Generate`,
`SaveGuide`, `CheckOutput`, `WriteFile` (one per file), `SyncRead`, `SyncCommit`,
`Align`, `Succeed` (the last save), `Exit` (with 0); `Fails` and `Dies` at any of them, `Dies`
between the last save and the exit too; `Begin` again for a retry, whatever the row says.
An attempt whose answer has no files skips the sync: what an attempt before it has written and
not synced then stays out of the graph, so `SuccessIsVisible` speaks of attempts that rewrote
files, and of the whole code they leave.
Beside it run `Request`, `Fork` (CreateVariant of a fork), a person at the guide
(`OpenGuide`, `ReadGuide`, `EditGuide`) and graph builds (`BuildRead`,
`BuildCommit`). The model is any set of files at `Generate`: it is an external
service. Node positions are not told apart, so `Align` changes only the step.
`ApplyKeepsLifecycle` refines JobLifecycle once more, now with the real steps.

### UndoHistory and Whiteboard: the board and what it saves

UndoHistory is the abstract specification of the two buttons: boards to go back to and
forward to, which steps record one (`RecordGesture`; `RecordEarlier`, of a board seen
earlier), which change the board without (`Amend`, while a gesture goes on; `Unrecorded`, by
which cards move or go but no text, stroke or new card; `Wipe`) and what a reload forgets.

Whiteboard has the board of `Whiteboard.tsx` (`nodes`, `drawings`, `past`, `future`, the
`gesture`s going on, the one `timer` of codeSaveTimerRef), the rows behind it, and
everything in flight: `requests` (updateNode, which reads the whole row and saves it:
`UpdateReads`, `UpdateSaves`), cards being created, the layout job and the reload after
an apply job. `ChangeCodes` is a keystroke in a card or in a file of the viewer,
`TypingEnds` and `SaveCode` are the timers, `SavePositions` the button. `MoveSelected` and
`DeleteSelected` are what ReactFlow does by itself with selected cards through onNodesChange:
arrow keys, the box around a selection, Backspace; they push no snapshot and touch no row.
`AutoLayout(b)` is handleAutoLayout of a closure that saw board `b`: the button in the panel
calls it at once (`PlaceAgain`), the other one after 220 ms (`LayoutClick`, `LayoutTimer`), and
a board whose cards are all at `Origin` 150 ms after it is shown (`BoardShows`); `waiting` are
these timers, and the snapshot they record is the old board. A mount that finds an
older answer is `MountStale`. The random layout is a free choice of places. Undo and redo
move the board and count as no gesture; they save nothing, as in the code. Equal requests
in flight are one element of the set. `HistorySpec` is the refinement.
The apply job's two transactions, graph and places, are one step here (ReviewApply has
them apart), and one apply job runs at a time.

### ReviewPanel: the cards in the browser

The provider's cards, selection, chat and draft, the two loops (`loadReview`,
`applyResolvedFeedbacks`) with the jobs they wait for, and every other call as a record in
`calls` whose answer may come at any time, after another one, or be lost. A handler is
served in one step: what its inside does to others is in ReviewFeedback. `applyJobs` are all
apply jobs in their order: the button asks only whether its own loop is idle, so that after
a deadline a second one runs beside the first. A job that failed may succeed yet, and one
that succeeded may be running again (`ApplyJobAgain`; `again` names its review): the
listing, which goes by the status succeeded, then shows the applied cards once more. A
review job that runs again after its success replaces its cards by new ones; that is left
out here (ReviewFeedback has it as a second `Generate`). `doubt` holds what a lost answer or
overlapping calls for one card leave open, for which nothing is promised.

### CodeViewer: files put together from functions

Windows with tabs over the files of the board (`OpenFile`, `CloseTab`, ...), the text of
a file joined from its functions, and the keystroke that splits it again at header lines
and hands each part to its function. A keystroke, the update of the cards and the next
rendering are one step. Ids the server gives are inserted once.

### GraphLayout: the layouts the browser computes

Tarjan's components, Kahn's levels, the grid and the rings as functions of a graph.
`StrongConnect` is one step of the recursive function of that name: it begins with a function
(`Connect`), looks at the next call (`LooksAt`) or returns (`Returns`), with the nested calls
kept in `running`; `Visits` are the states of computeSCCs one after the other, and it ends after
as many steps as there are functions to begin and to leave and calls to look at. `ServeHead` is
one round of the queue of assignLevels, `CursorX` the loop over the levels of the grid,
`Expand` the body of the loop that splits crowded rings. A component is a set, for nothing
depends on the order in it except the places on its circle. The trigonometry inside a component
is its bounding box, jitter its limit. TLC compares the result with reachability for every
graph of up to four functions and four calls; the proofs are about all.

### SignIn and ProjectPages: who is there, and the pages of projects

SignIn: the user of the tab, the row of that user, the login page, the settings page and
the router. A handler's `router.push` stays pending in `going`, the latest wins, and it
happens whether or not the page that asked is still shown; a link acts at once and
supersedes what is pending; another tab may switch the user under a page
(`SwitchedElsewhere`). ProjectPages EXTENDS it: home, the two lists, the page of a project
with its dialogs, and ListProjects, CreateProject, DeleteProject, CreateVariant behind
them. Names and orders of lists are left out; adding and removing members always fails,
for the backend has no such handlers; variants of a deleted project stay, for nothing
cascades.

### GuideLibrary: guides and likes

The list page with its tabs, search, dialog and hearts, the pages of one guide, and
LikeDesignGuide and UnlikeDesignGuide taken apart into the look for the row (`FindLike`)
and its insertion or deletion (`CreateLike`, `DeleteLikeByID`). A list is two reads that
are served apart. `visits` numbers the loads, so that a cancelled one is told from the
last. `unsure` names the guides whose calls overlapped each other or a load, or whose
answer was lost: for these the code may show anything, and nothing is claimed.

### ImportFlow: from a folder to a graph

The page, and per import `flow[i]` the stage it is at, from the plan to the last job:
direct uploads file by file or one request, the update of the row, the graph build and
the two jobs after it. An import goes on when its page is left, a job goes on when its
import gave up, and a worker reads the root the row names when it starts.

`graphJob[i]` is the row of the graph build and its worker, run up to `MaxTries` times:
`GraphJobStarts` sets the row to running, whatever it says, and takes the files under the
root; `SyncReads` and `SyncCommits` are the two ends of SyncParsedGraph, which reads the row
of the variant and the rows of its files, then inserts rows for new paths, deletes those it
found and does not retain, and saves the variant as it read it, with no lock in between.
Under READ COMMITTED another synchronisation may commit between the two: `torn` says that
this happened to the last one. A path that got a row meanwhile breaks the unique index
(`idx_variant_files_variant_path`) and the job fails. `GraphJobSucceeds`, `GraphJobExits`,
`GraphJobFails` and `GraphJobDies` are its ends, the exit apart from the last save. `mixed`
names the imports that ran beside another one, or beside a job of one that was not over,
where a job that failed or died is not over while Cloud Run owes it another try. Layout and
review jobs are waited for only.

### MC modules, seeded faults and proofs

`MCJobExecution`, `MCReviewFeedback`, `MCReviewApply`, `MCWhiteboard` and `MCImportFlow`
give symmetry sets, files and the targets of the cards. `MCWorkspace` and `MCDashboard` put
parts that share no variable into one run each: board, panel, layouts and viewer; project
pages, library and import. A behaviour of such a run is one of one part, whose variables
move while the others stay as they begin. They are sums, not compositions: the board and the
panel meet in the code only through the apply job and the reload, which each of them has.
ProjectPages and SignIn are composed. Each component's module also holds *seeded faults*:
variants of its operators with a plausible slip (a dropped error, a missing deletion, a
forgotten guard). No action uses them. Put in place of the operator they vary, they make TLC
find the property `PROJECT.json` pairs them with violated: they document what each property
guards against. `*_proofs` hold the theorems.

## What is checked

| run | instance | shows |
|-----|----------|-------|
| `job_cloudrun` | 1 job, 3 attempts, Cloud Run, fairness; 4 k states | types; coherent rows; the success of an attempt that exited well is kept, any other is taken back by a retry only; work before success; repetition only after a death; refinement; the job settles unless its last attempt dies; waiting ends |
| `job_local` | 3 jobs, 1 attempt, goroutines; 17 k | a failure the browser was told is final |
| `feedback_concurrent` | 1 card, 2 choices, 2 calls at a time, 3 in all, 2 generations; 269 k | what survives every overlap of stale saves |
| `feedback_audit` | the same with 2 calls | **violated**: see below |
| `apply_alone` | 2 variants (one may become a fork), 1 job, 3 attempts, 2 files; 70 k | success is visible in code and graph, with what was left half done before; refinement |
| `apply_together` | 1 variant, 2 jobs, 1 edit, 1 build; 2.0 M | only targeted files; versions never run ahead |
| `apply_fork`, `apply_nested` | 2 variants / module below the root | **violated**: see below |
| `workspace` | board: 1 loaded and 1 new card, 1 memo, 2 texts, 2 places, 2 gestures, 1 reload; panel: 1 finding, 2 ways to resolve, 3 deeds, 2 reviews; viewer: 3 functions in 2 files, 4 deeds; layouts: all graphs of 4 functions with up to 4 calls; fairness; 378 k | texts, undo history, cards, files, layouts; saves leave, layouts and loops end |
| `board_edits` | 2 cards, 2 texts | **violated**: see below |
| `dashboard` | pages: 2 people, 2 projects and a new one, 2 variants, 2 orders; library: 1 guide, 4 clicks; import: 2 files, 2 imports, 2 runs of a job; 1.9 M | main variants, forks, whose page it is; lists, likes and the editor; whole uploads |
| `import_name` | 2 files, 1 import | **violated**: see below |

Bounds. Jobs meet only when the server stops, which `job_local` covers with three; attempts
meet through the row, and three of them have a first, a middle and a last. Two calls in
flight are enough for one stale save over another, the third makes the log longer than one
entry; two generations are enough for a card to come back. One card suffices because every
statement of these calls names one card. In ReviewApply a half-written tree needs two files,
and a retry after a retry three attempts. `MaxCalls`, `MaxGenerations` and `MaxAttempts` are
the only counters that need a bound (`MaxAttempts` is the platform's own). On the board two
gestures are what it takes for a second to meet the timer, the save or the history of the
first, and a history of one board for the oldest to fall out; in the panel two reviews and
three deeds let an answer of the first meet the second (`LastDeed`: the third is done before
a job was asked for, or asks for one; `OneReaction`: of the two reactions one); in the
library four clicks are enough to leave a list, come back and meet the answers of before;
two imports are one beside another, and of their jobs one is run again (`OneRetry`: a late
retry of the first meets the second; `OneLater`: an import with another beside it is
followed to its graph, for layouts and reviews write nothing here; `LastStays`: the page of
the last import is left for the workspace only). Four calls among four functions hold every
shape the levels tell apart: chains, forks, two cycles, a cycle with a tail. `MaxGestures`,
`MaxReloads`, `MaxInFlight`, `MaxDeeds`, `MaxReviews`, `MaxDone`, `MaxLines`, `MaxOrders`,
`MaxSignIns`, `MaxActs` and `MaxImports` bound what people do; `MaxTries` is Cloud Run's
`max_retries` (1 by default) and one; `MaxHistory`, `MaxRecent` and `MaxCompared` are the
code's own limits, made small. Symmetry is used only in runs without liveness properties.
All runs stop checking deadlock because all these systems may stop: every job has settled,
every call has been made.

Fairness. `FairSpec` of JobExecution is used for `DispatchedJobSettles` and
`WaitingEnds`. A handler that has begun to dispatch goes on, a goroutine or container
that runs takes its next step, Cloud Run starts the retry it owes, and the browser
looks at the row again: timers and the deadline of `waitForJob`. Nothing has to be
requested, fail, die or be lost. A death is not fair and may happen at any time, so
the liveness property says what is left after one: nothing resets the row.

`WorkspaceSpec` has one condition, weak fairness of everything the board and the panel do
by themselves: timers fire, a request that was sent is served or fails, an answer arrives or
is lost, a loop polls again until its job ends or its deadline passes. It is weaker than a
condition per action, for it only says that some of this goes on while any can; it suffices
since these steps cannot go on for ever without a person. `SavesLeave`, `LayoutEnds` and
`LoopsEnd` need no person to do anything and no call to succeed.

### What the violated runs show

- `feedback_audit`: AppendReviewFeedbackChat saves all columns of the row it read
  before the model was asked (`be/service/review.go:299`). A decision made meanwhile
  is undone, with the log saying it was made. `docs/tables/21_review_feedback_actions.md`
  calls the log the audit log of that very column. `DecisionsAreAudited`, which holds,
  tells how far it reaches: without an answered chat on the card it cannot happen.
- `apply_fork`: a fork gets the `source_root_uri` of its parent and no copy of the code
  (`be/service/variant.go:189`), so applying decisions to the fork rewrites the
  parent. `docs/tables/06_variants.md` says the code is duplicated.
- `apply_nested`: paths of files are relative to the Go module when the graph is built
  and the prompt written, and relative to the root of the upload when the answer is
  stored (`be/source/store.go:64`), so with `go.mod` in a subdirectory the change lands
  next to the module and the rebuilt graph does not show it.
- `board_edits`: the board has one timer for all cards
  (`fe/components/features/workspace/Whiteboard.tsx:717`), so an edit of a second card within
  1.5 s drops the save of the first, whose text is never stored although the comment above the
  timer says that it is. `SavesLeave` is what is left: the last text typed leaves.
- `import_name`: the import calls updateVariant with a root alone, which sends an empty name
  and description (`fe/lib/api/variants.ts:90`), and UpdateVariant stores them.
  `docs/import-flow.md:110` names `source_root_uri` as the only column the import changes.

More observations came up while modelling and have no run of their own. The version of a
guide is not the count of its updates once a person edits the guide while a job works on it:
two saves share a number, and `VersionWithinUpdates` is what is left. An apply job that
wrote files and died, followed by a retry whose answer has no files, succeeds with a graph
that does not show them. Two graph builds that synchronise at once leave files of both
uploads. A success may be taken back by a retry, and the cards of an applied review then
come back. What the keyboard does to selected cards cannot be undone by itself. A retried
job runs with the `finished_at` of the attempt before it, since `Running` resets only the
error. And runReviewApply aligns the whole graph unasked, against
`docs/tables/16_layout_jobs.md:48`. The hazards without a property in `PROJECT.json` say of
each what the code does and why nothing is claimed. The models also contain, without a
property because no line of the repository promises otherwise: a review that is stored while
its job fails (`be/service/job_worker.go:517`); a draft that comes late and replaces the
note of another path (`ReviewChat.tsx:64`); a message shown that was never sent
(`AIReviewContext.tsx:436`); a save of code that sends old coordinates
(`Whiteboard.tsx:723`) and a regeneration that puts cards on a grid (`job_worker.go:637`);
the popup of a new function confirmed on another tab (`CodeViewerWindow.tsx:155`); two
functions with equal headers taken for one (`CodeViewerWindow.tsx:367`); the move to the
workspace 1.2 s after an import, from whatever page (`import/page.tsx:319`); a sign-in
without a row (`login/page.tsx:24`); a form sent twice (`CreateProjectDialog.tsx:90`); a
deleted project that a reload brings back to the list (`projects/page.tsx:72`); and the
heart of the detail page, which starts empty (`design-guides/[guideId]/page.tsx:28`).

## What is proved

For every value of the constants that satisfies the assumptions (at least one attempt
and one review; finitely many calls; the name of a missing value is no choice, no variant and no
person; targets are files; ids of kinds of cards are apart; the search may find every guide;
folders are not empty, and a job is run once at least; the origin is not where the grid
puts cards; the board of the viewer is a sequence without repetitions, there is a line
of code, and the empty line is none; the functions of a graph are in a sequence; the sliders of the
layout panel are within their limits):

- `JobExecution_proofs`: `TypeCorrect`; from one inductive invariant `IInv` the theorems
  `RowsAreCoherent`, `SuccessIsKept`, `BrowserProceedsAfterWork`, `RepetitionNeedsDeath`,
  `LocalFailureIsFinal`, the action property `SuccessUndoneOnlyByRetry`; and
  `ImplementsLifecycle`, that every step, the retry after a saved success included, is a
  step of JobLifecycle or none. The properties are not inductive because they speak of rows
  while the danger is in copies: `IInv` adds that attempts come in order and only after
  their predecessors ended with no exit 0 (`AttemptsInOrder`), that a working attempt's copy
  says running and has no error (`AppliedBy`), where each status came from
  (`StatusHasCause`), and that a job without a row has nothing else (`Untouched`). With
  attempts in order at most one of them is live, which is why whole rows never mix.
- `ReviewFeedback_proofs`: `TypeCorrect`; `DecisionsLogged`, by carrying the
  property over to the copies in flight, which the log accounts for as it does for rows
  because it only grows; `ResolvedCardsSayHow`, the same way; `DecisionsAudited`, from
  `AuditInv`: cards of generations to come have no log, calls are about cards of the
  past, and a chat that may still save has stored two messages. `OldCardsSaved` rests on
  the same invariant; `RepliesFollow` adds the calls that wait for the model to the
  replies of a conversation (`TalkBalanced`) and carries the bound to each of its
  prefixes, by lemmas on counting entries.
- `ReviewApply_proofs`: `ApplyTypeCorrect` (which needs that whatever has a job or a
  builder has a root); `VersionsWithinUpdates`, by bounding every version in memory by
  the count of saves, which only grows; `OnlyTargets`, by following clean code through
  the tree, the graphs, the snapshots and the files still to be written;
  `ApplyImplementsLifecycle`, that every step is a step of JobLifecycle or none (`WorkInv`: an
  attempt that saved its success, and whatever died after it, has applied the job). Of a job
  that is the only writer of code and graphs (`OneApply`, a condition on the constants that the
  instance of `apply_alone` meets; with a second writer the statement is false, since the last
  graph wins): `SuccessShows`, by what an attempt has made visible at each of its steps
  (`Visible`).
- `Dashboard_proofs`, about the pages: `PagesTypeCorrect`; `MainAlwaysExists` from `MainInv`
  (a creation that has counted no variants will make a main one, and what it counted can
  only have grown); `ForksAlwaysInProject` from `BasesInv` (what the dialog chose from, what
  it has chosen and what a creation carries are all variants of the project they name, and
  rows never change project); `ShownIsForUser` from `SeenInv` (everyone for whom a page was
  shown is in `present`, and so are those whose answers are still on their way).
- `Dashboard_proofs`, about the import: `ImportTypesCorrect`; `GraphsAreWhole` from
  `WholeInv` (the row, and every row that a synchronisation holds, name a root under which
  nothing is still to be put; what a job has read is such an upload; and one that no other
  fell into finds what is in the graph, so that it leaves exactly what it read);
  `AloneIsShown` from `AloneInv` (an import that nothing runs beside, no retry that is still
  owed included, is the only one that can write the row and the graph from its upload on,
  and a second run of its own job reads the same files).
- `Whiteboard_proofs`: `TextsStay` from `OwnInv`, which carries "a text belongs to its card" from
  the board to every state in the history, the tables, the requests and the reload under way;
  `ImplementsHistory`, that every step of the board is a step of UndoHistory or none, with the
  boards that timers and late answers will record as its `late`.
- `Dashboard_proofs`, about the library: `LibraryTypesCorrect`, `ListIsChosen` and
  `TypedIsKept` from `LoadsInv` (one load at most is for this visit, for what is chosen, and
  while it is on its way nobody clicks or types); `LikesAreStored` from `LikesInv`: a call
  that is alone for its guide knows what the row was when it was sent and what it is when it
  is done, the list shows the row as that call will leave it, and the parts of a load
  already read agree with the row.
- `ReviewPanel_proofs`: `PanelTypesCorrect`; `ShownAsStored`, `OneReviewOnly` and
  `AppliedStayAway` from `PanelInv` (for `AppliedStayAway`: a review whose application was
  seen has an apply job that succeeded, and every list on its way is without its cards,
  until one runs again). What a card shows is not inductive, since any answer on its way may
  change it: the invariant says of every answer that somebody listens to that it is true of
  the rows at this moment (`IsTrue`), of every call nobody listens to that it is about
  something not shown (`IsHarmless`), and that two calls about one thing of which one writes
  have put it in doubt. Writers are then alone with what they write, and each kind of step
  (a click, a read, a write, an answer, a reload) is one lemma.

- `CodeViewer_proofs`: `OneEditorPerFile` from `OpenOnce` (no tab twice, in no two windows, and
  every window's number below the counter); and `TypingLands`, that a line typed or deleted in
  the text of a file changes the function it was typed into as meant, and no other. Its invariant
  `TextInv` is small (a function is on the board once, and the code of each ends with a line that is
  not empty, which CodeSync's trimming keeps); the work is in what one state says of every text and
  every keystroke. The text is flattened from the functions, so each header and each line of code
  has a place that is counted from those before it (`Laid`, by induction over the functions).
  With distinct headers those places are where HeadersKept and CodeSync find them again
  (`FileHeaders`). A line put in or taken out moves the headers behind it (`Pushed`, `Pulled`) and
  changes what is under one of them, or adds an empty line after one, which trimming takes off
  (`UnderInserted`, `UnderRemoved`). That is what was meant (`MeantIs`); and where HeadersKept
  refuses the text, nothing was meant: the line went into the gap between two functions, or the
  header itself went.

- `GraphLayout_proofs`: `CyclesAreMarked`, `GridStaysReadable` and `RingsKeepAll`, for any board,
  calls and settings of the sliders. The state is a graph and a layout of it (`LayoutInv`), and what
  is proved is what each function of `graphLayout.ts` computes:
  - computeSCCs. A visit is sound (`VisitInv`): a function is numbered once (`Numbered`), one that
    was seen is on the stack or in one component (`Parted`), a call that was looked at is accounted
    for in the low link of its caller or goes to an earlier component (`LookedAt`), what a function
    that has returned saw is handed down (`SeesBelow`), and numbers and low links stand for
    functions that lead to each other (`Leading`). Beginning, looking and returning keep each of the
    five. Every step leaves less `Work` (functions not seen, calls not looked at, functions that
    run), so that `Visits` is over after the steps ComputeSCCs counts, and then the components are
    those of the graph, callees first (`SccsAre`).
  - assignLevels. Components in that order have no cycle left, so Kahn's queue runs empty only when
    all are served (`AllAreServed`), and a component is on a higher level than its callers
    (`LevelsAre`). That all are served is not obvious: a component left out would keep too low
    a level and stand left of its callers.
  - computeLayout. A box is inside its cell (`InCell`), cells of a level are in different columns or
    rows, and the cursor is past the whole level before (`CursorAdvances`): boxes stay apart by a
    gap, of which the jitter takes less than half.
  - computeCircularLayout. The slices of a level are a partition of it (`SlicesPart`), on rings
    numbered past every level and every ring so far (`ExpandedTo`), level by level (`RingsAre`).

Induction. What FlattenSeq, the other folds and the recursive functions compute is proved
for every input, though the library's induction theorems cannot be instantiated here: that
the natural numbers are well founded is a fact about a set (`NatLessThanWellFounded`), so a
set of numbers has a least one (`Least`), and what holds of 0 and of every next number holds
of all (`AllNumbers`), where "what holds" is a set too. That a recursive function exists,
which its definition by CHOOSE does not say, follows the same way: its beginnings agree as
far as they go (`BeginsOnce`), there is one of every length, and they make up the whole
(`Iterates`). The proofs in `ReviewFeedback_proofs`, `CodeViewer_proofs` and
`GraphLayout_proofs` rest on these or on what the library says of finite sets.

Only model-checked. Every invariant and every action property that a run checks is a theorem. What
stays with TLC is liveness under fairness (`DispatchedJobSettles`, `WaitingEnds`, `SavesLeave`,
`LayoutEnds`, `LoopsEnd`), which is beyond the prover.

## Not modelled, and why

- How SyncParsedGraph matches rows of nodes and edges: ImportFlow has the rows of files and of the
  variant, ReviewApply what the graph is replaced by. Two of them at once may also insert one node
  twice, for no index keeps nodes unique.
- Fallback review generation (`be/reviewgen`), the Go parser (`be/graphbuild/parser.go`) and the
  grid of the backend (`be/layout/compute.go`, which computes what GraphLayout checks, from rows):
  pure functions over texts and counts.
- The AI client's prompts and parsing: its answers are nondeterministic choices.
- Handlers' conversions between messages and rows, generated code (`be/repository/query`,
  `fe/gen`), migrations, seed data and terraform, except for what the models take from them
  (unique indexes, missing foreign keys, retries, timeouts).
- Presentation in the browser: zoom, selection boxes, hover, copying, images, moving and resizing
  windows, highlighting, toasts; and the page that compares variants, which shows sample data.
- The check of tokens, a library of Firebase.
- DeleteVariant, DeleteDesignGuide, UpdateProject: handlers that no page calls.

Parts that are modelled without every operation have the status `partly` in `PROJECT.json`, with a
note that says what is left out.
