---------------------------- MODULE JobExecution ----------------------------
(***************************************************************************)
(* How a job row is created by an API handler, dispatched, executed by     *)
(* worker attempts and polled by the browser.  The four kinds of jobs      *)
(* (graph build, layout, review, review apply) share this control: what    *)
(* the work of a kind does is in ImportFlow (graph build), Whiteboard      *)
(* (layout), ReviewFeedback (review) and ReviewApply (review apply).       *)
(*                                                                         *)
(* Every write of a row is a GORM Save of all its columns from the copy    *)
(* the writer holds in memory, so two writers overwrite each other whole.  *)
(***************************************************************************)
EXTENDS Naturals

CONSTANTS
  Jobs,          \* the jobs that may be requested
  MaxAttempts,   \* 1 + max_retries of the Cloud Run job
  Dispatcher     \* which JobDispatcher the server was started with

ASSUME AttemptsAssumption == MaxAttempts \in Nat \ {0}
ASSUME DispatcherAssumption == Dispatcher \in {"local", "cloudrun", "noop"}

Attempts == 1 .. MaxAttempts

VARIABLES
  row,           \* row[j]: the row of job j
  api,           \* api[j]: where the Create*Job handler of j is
  worker,        \* worker[j][a]: where attempt a at j is
  copy,          \* copy[j][a]: the row as attempt a holds it in memory
  applied,       \* applied[j]: the attempts that have done all the work of j
  client         \* client[j]: what the browser that requested j believes

vars == <<row, api, worker, copy, applied, client>>

-----------------------------------------------------------------------------
Settled == {"succeeded", "failed"}

\* error, started and finished say whether error_message, started_at and
\* finished_at are not NULL.
Row == [status : {"none", "queued", "running"} \cup Settled,
        error : BOOLEAN, started : BOOLEAN, finished : BOOLEAN]

NoRow == [status |-> "none", error |-> FALSE, started |-> FALSE, finished |-> FALSE]

QueuedRow == [NoRow EXCEPT !.status = "queued"]

\* What the handler saves when the dispatch fails: its own copy of the new row,
\* whose started_at and finished_at are NULL.
UndispatchedRow == [QueuedRow EXCEPT !.status = "failed", !.error = TRUE]

(* Seeded faults.  No action uses them: each is a plausible slip in the     *)
(* definition that follows or that it is named after, and a run notices it *)
(* when it takes that definition's place.                                  *)

\* A status the readers do not know.
FailedAsError(r) == [r EXCEPT !.status = "error", !.error = TRUE, !.finished = TRUE]

\* error_message of an earlier attempt is kept.
RunningKeepsError(r) == [r EXCEPT !.status = "running", !.started = TRUE]

Running(r) == [r EXCEPT !.status = "running", !.error = FALSE, !.started = TRUE]
Succeeded(r) == [r EXCEPT !.status = "succeeded", !.finished = TRUE]
Failed(r) == [r EXCEPT !.status = "failed", !.error = TRUE, !.finished = TRUE]

\* An attempt still has steps to take.  One that has "reported" has saved its
\* success, and its process has yet to end.
Active == {"ready", "loaded", "working", "done", "reported", "refused"}

-----------------------------------------------------------------------------
Init ==
  /\ row = [j \in Jobs |-> NoRow]
  /\ api = [j \in Jobs |-> "idle"]
  /\ worker = [j \in Jobs |-> [a \in Attempts |-> "absent"]]
  /\ copy = [j \in Jobs |-> [a \in Attempts |-> NoRow]]
  /\ applied = [j \in Jobs |-> {}]
  /\ client = [j \in Jobs |-> "idle"]

(* Seeded faults of the actions.                                           *)

\* The call that starts the execution is made twice.
DispatchTwice(j) ==
  /\ api[j] = "dispatching"
  /\ api' = [api EXCEPT ![j] = "answered"]
  /\ worker' = [worker EXCEPT ![j] = [a \in Attempts |-> "ready"]]
  /\ client' = [client EXCEPT ![j] = "polling"]
  /\ UNCHANGED <<row, copy, applied>>

\* The platform starts the task again whatever its process returned.
CloudRunRetryAnyway(j, a) ==
  /\ Dispatcher = "cloudrun"
  /\ a < MaxAttempts
  /\ worker[j][a] \in {"exit0", "exit1", "died"}
  /\ worker[j][a + 1] = "absent"
  /\ worker' = [worker EXCEPT ![j][a + 1] = "ready"]
  /\ UNCHANGED <<row, api, copy, applied, client>>

\* The error of a step of the work is dropped.
WorkerDropsError(j, a) ==
  /\ worker[j][a] = "working"
  /\ worker' = [worker EXCEPT ![j][a] = "done"]
  /\ UNCHANGED <<row, api, copy, applied, client>>

\* The process exits with 1 whatever run* returns.
WorkerExitsWith1(j, a) ==
  /\ worker[j][a] = "reported"
  /\ worker' = [worker EXCEPT ![j][a] = "exit1"]
  /\ UNCHANGED <<row, api, copy, applied, client>>

\* The cause is returned, the row is not saved.
WorkerFailsSilently(j, a) ==
  /\ worker[j][a] = "refused"
  /\ worker' = [worker EXCEPT ![j][a] = "exit1"]
  /\ UNCHANGED <<row, api, copy, applied, client>>

\* Whatever is neither queued nor succeeded counts as failed.
ClientPollsAnything(j) ==
  /\ client[j] = "polling"
  /\ row[j].status # "queued"
  /\ client' = [client EXCEPT ![j] = IF row[j].status = "succeeded"
                                     THEN "done" ELSE "failed"]
  /\ UNCHANGED <<row, api, worker, copy, applied>>

\* The deadline holds only for a job that has started.
ClientTimesOutRunning(j) ==
  /\ client[j] = "polling"
  /\ row[j].status = "running"
  /\ client' = [client EXCEPT ![j] = "timeout"]
  /\ UNCHANGED <<row, api, worker, copy, applied>>

-----------------------------------------------------------------------------
\* CreateGraphBuildJob, CreateLayoutJob, CreateReviewJob, CreateReviewApplyJob
\* up to the insert.
CreateJob(j) ==
  /\ api[j] = "idle"
  /\ row' = [row EXCEPT ![j] = QueuedRow]
  /\ api' = [api EXCEPT ![j] = "dispatching"]
  /\ client' = [client EXCEPT ![j] = "waiting"]
  /\ UNCHANGED <<worker, copy, applied>>

\* The dispatcher returns nil.  The noop dispatcher, and Cloud Run for a kind of
\* job whose name is not configured, return nil and start nothing.
Dispatch(j) ==
  /\ api[j] = "dispatching"
  /\ api' = [api EXCEPT ![j] = "answered"]
  /\ \/ Dispatcher # "noop" /\ worker' = [worker EXCEPT ![j][1] = "ready"]
     \/ Dispatcher # "local" /\ UNCHANGED worker
  /\ client' = [client EXCEPT ![j] = "polling"]
  /\ UNCHANGED <<row, copy, applied>>

\* The call of the Cloud Run API returns an error; accepted says whether the
\* execution was started all the same (the answer was lost).
DispatchError(j, accepted) ==
  /\ Dispatcher = "cloudrun"
  /\ api[j] = "dispatching"
  /\ api' = [api EXCEPT ![j] = "rejected"]
  /\ worker' = IF accepted THEN [worker EXCEPT ![j][1] = "ready"] ELSE worker
  /\ UNCHANGED <<row, copy, applied, client>>

\* The handler saves the failure and returns the error; the error of the Save
\* itself (the request context may be cancelled) is dropped.
SaveDispatchError(j, saved) ==
  /\ api[j] = "rejected"
  /\ row' = IF saved THEN [row EXCEPT ![j] = UndispatchedRow] ELSE row
  /\ api' = [api EXCEPT ![j] = IF saved THEN "overwrote" ELSE "answered"]
  /\ client' = [client EXCEPT ![j] = "error"]
  /\ UNCHANGED <<worker, copy, applied>>

-----------------------------------------------------------------------------
\* Run*Job reads the row by its id.
WorkerLoad(j, a) ==
  /\ worker[j][a] = "ready"
  /\ copy' = [copy EXCEPT ![j][a] = row[j]]
  /\ worker' = [worker EXCEPT ![j][a] = "loaded"]
  /\ UNCHANGED <<row, api, applied, client>>

\* The first Save of run*: finished_at is not reset, and nothing asks for the
\* status the row had: queued, failed or succeeded.
WorkerBegin(j, a) ==
  /\ worker[j][a] = "loaded"
  /\ copy' = [copy EXCEPT ![j][a] = Running(@)]
  /\ row' = [row EXCEPT ![j] = Running(copy[j][a])]
  /\ worker' = [worker EXCEPT ![j][a] = "working"]
  /\ UNCHANGED <<api, applied, client>>

WorkerApply(j, a) ==
  /\ worker[j][a] = "working"
  /\ applied' = [applied EXCEPT ![j] = @ \cup {a}]
  /\ worker' = [worker EXCEPT ![j][a] = "done"]
  /\ UNCHANGED <<row, api, copy, client>>

\* Some step of the work returns an error (what it did before stays done).
WorkerRefuse(j, a) ==
  /\ worker[j][a] = "working"
  /\ worker' = [worker EXCEPT ![j][a] = "refused"]
  /\ UNCHANGED <<row, api, copy, applied, client>>

\* The last Save of run* ...
WorkerSucceed(j, a) ==
  /\ worker[j][a] = "done"
  /\ copy' = [copy EXCEPT ![j][a] = Succeeded(@)]
  /\ row' = [row EXCEPT ![j] = Succeeded(copy[j][a])]
  /\ worker' = [worker EXCEPT ![j][a] = "reported"]
  /\ UNCHANGED <<api, applied, client>>

\* ... and the return of main, with 0.  An attempt may die in between, also
\* because the answer to that Save was lost and main ends with log.Fatal.
WorkerExit(j, a) ==
  /\ worker[j][a] = "reported"
  /\ worker' = [worker EXCEPT ![j][a] = "exit0"]
  /\ UNCHANGED <<row, api, copy, applied, client>>

\* failGraphBuild and its siblings return the cause, so the process exits with 1.
WorkerFail(j, a) ==
  /\ worker[j][a] = "refused"
  /\ copy' = [copy EXCEPT ![j][a] = Failed(@)]
  /\ row' = [row EXCEPT ![j] = Failed(copy[j][a])]
  /\ worker' = [worker EXCEPT ![j][a] = "exit1"]
  /\ UNCHANGED <<api, applied, client>>

\* A Find or a Save fails (a Save, before or after its commit), the process is
\* killed, or Cloud Run's task timeout ends it: nothing more is written.
WorkerDie(j, a) ==
  /\ worker[j][a] \in Active
  /\ worker' = [worker EXCEPT ![j][a] = "died"]
  /\ UNCHANGED <<row, api, copy, applied, client>>

\* Cloud Run starts the task once more after any exit but 0, with the same JOB_ID.
CloudRunRetry(j, a) ==
  /\ Dispatcher = "cloudrun"
  /\ a < MaxAttempts
  /\ worker[j][a] \in {"exit1", "died"}
  /\ worker[j][a + 1] = "absent"
  /\ worker' = [worker EXCEPT ![j][a + 1] = "ready"]
  /\ UNCHANGED <<row, api, copy, applied, client>>

HandlerRuns(j) == api[j] \in {"dispatching", "rejected"}
InServer(j, a) == Dispatcher = "local" /\ worker[j][a] \in Active

\* The API server stops: its handlers end where they are, and with the local
\* dispatcher so do the goroutines that run the jobs.
ServerCrash ==
  /\ \E j \in Jobs : HandlerRuns(j) \/ \E a \in Attempts : InServer(j, a)
  /\ api' = [j \in Jobs |-> IF HandlerRuns(j) THEN "crashed" ELSE api[j]]
  /\ worker' = [j \in Jobs |-> [a \in Attempts |->
                  IF InServer(j, a) THEN "died" ELSE worker[j][a]]]
  /\ client' = [j \in Jobs |-> IF client[j] \in {"waiting", "polling"}
                               THEN "error" ELSE client[j]]
  /\ UNCHANGED <<row, copy, applied>>

-----------------------------------------------------------------------------
\* One round of waitForJob that ends the wait.
ClientPoll(j) ==
  /\ client[j] = "polling"
  /\ row[j].status \in Settled
  /\ client' = [client EXCEPT ![j] = IF row[j].status = "succeeded"
                                     THEN "done" ELSE "failed"]
  /\ UNCHANGED <<row, api, worker, copy, applied>>

\* The round that finds the deadline passed (it is looked at after the status).
ClientTimeout(j) ==
  /\ client[j] = "polling"
  /\ row[j].status \notin Settled
  /\ client' = [client EXCEPT ![j] = "timeout"]
  /\ UNCHANGED <<row, api, worker, copy, applied>>

\* A request for the status fails, and its error ends the wait.
ClientLosesAnswer(j) ==
  /\ client[j] = "polling"
  /\ client' = [client EXCEPT ![j] = "error"]
  /\ UNCHANGED <<row, api, worker, copy, applied>>

-----------------------------------------------------------------------------
Handler(j) ==
  \/ CreateJob(j)
  \/ Dispatch(j)
  \/ \E accepted \in BOOLEAN : DispatchError(j, accepted)
  \/ \E saved \in BOOLEAN : SaveDispatchError(j, saved)

\* The steps an attempt takes when nothing stops it.
WorkerStep(j, a) ==
  \/ WorkerLoad(j, a)
  \/ WorkerBegin(j, a)
  \/ WorkerApply(j, a)
  \/ WorkerRefuse(j, a)
  \/ WorkerSucceed(j, a)
  \/ WorkerExit(j, a)
  \/ WorkerFail(j, a)

Next ==
  \/ \E j \in Jobs : Handler(j)
  \/ \E j \in Jobs, a \in Attempts : WorkerStep(j, a)
  \/ \E j \in Jobs, a \in Attempts : WorkerDie(j, a)
  \/ \E j \in Jobs, a \in Attempts : CloudRunRetry(j, a)
  \/ ServerCrash
  \/ \E j \in Jobs : ClientPoll(j) \/ ClientTimeout(j) \/ ClientLosesAnswer(j)

Spec == Init /\ [][Next]_vars

\* Nobody has to request a job, to crash or to lose an answer.  A goroutine or
\* a container that runs takes its next step, Cloud Run retries, and the
\* browser's poll comes back: setTimeout and the deadline of waitForJob.
Fairness ==
  \A j \in Jobs :
    /\ WF_vars(Dispatch(j) \/ \E saved \in BOOLEAN : SaveDispatchError(j, saved))
    /\ \A a \in Attempts : WF_vars(WorkerStep(j, a)) /\ WF_vars(CloudRunRetry(j, a))
    /\ WF_vars(ClientPoll(j) \/ ClientTimeout(j))

FairSpec == Spec /\ Fairness

-----------------------------------------------------------------------------
(* Properties *)

\* The type of every variable.
TypeOK ==
  /\ row \in [Jobs -> Row]
  /\ api \in [Jobs -> {"idle", "dispatching", "rejected", "overwrote", "answered", "crashed"}]
  /\ worker \in [Jobs -> [Attempts -> Active \cup {"absent", "exit0", "exit1", "died"}]]
  /\ copy \in [Jobs -> [Attempts -> Row]]
  /\ applied \in [Jobs -> SUBSET Attempts]
  /\ client \in [Jobs -> {"idle", "waiting", "polling", "done", "failed", "error", "timeout"}]

\* Whole-row saves never leave columns of two writers in one row: a reason
\* is stored exactly while the status is failed, a job that runs or has
\* succeeded has a start, and one that has succeeded has an end.
RowCoherent ==
  \A j \in Jobs :
    /\ row[j].status = "failed" <=> row[j].error
    /\ row[j].status \in {"running", "succeeded"} => row[j].started
    /\ row[j].status = "succeeded" => row[j].finished
    /\ row[j].finished => row[j].started

\* The success of a process that has exited with 0 is what every later reader
\* finds, unless the handler, told that the dispatch had failed, has saved its
\* own copy over it: no other attempt, earlier or later, undoes it.  (The saved
\* success of one that died before it exited may be taken back by the retry.)
SuccessSticks ==
  \A j \in Jobs : \A a \in Attempts :
    worker[j][a] = "exit0" =>
      row[j].status = "succeeded" \/ (api[j] = "overwrote" /\ row[j] = UndispatchedRow)

\* The success a row shows is taken back.
Undone(j) == row[j].status = "succeeded" /\ row'[j].status # "succeeded"

\* A success that readers may have seen is taken back by two writers only: the
\* handler that was told of a failed dispatch, and a retry that follows an
\* attempt which had done the work, saved its success and died before its exit.
SuccessUndoneByRetry ==
  [][\A j \in Jobs : Undone(j) =>
       \/ api[j] = "rejected" /\ api'[j] = "overwrote"
       \/ \E a, b \in Attempts :
            /\ a < b /\ worker[j][b] = "loaded"
            /\ worker[j][a] = "died" /\ a \in applied[j]]_vars

\* The browser goes on to the next stage of an import (layout after graph
\* build, review after layout) only after some attempt has done all the work.
DoneMeansApplied == \A j \in Jobs : client[j] = "done" => applied[j] # {}

\* With the local dispatcher nothing contradicts what the browser was told: a
\* job reported as failed stays so, and nothing executes it any more.
FailureIsFinal ==
  \A j \in Jobs : client[j] = "failed" =>
    /\ row[j].status = "failed"
    /\ \A a \in Attempts : worker[j][a] \notin Active

\* The work of a job is done at most once per attempt the platform made, and
\* again only by an attempt that followed a death: an attempt that reported
\* its own failure has not done the work, and an exit with 0 ends the retries.
RepeatedOnlyAfterDeath ==
  \A j \in Jobs : \A a, b \in Attempts :
    a < b /\ a \in applied[j] /\ worker[j][b] # "absent" => worker[j][a] = "died"

\* A job given to a worker gets a final status, unless the last attempt the
\* platform makes dies (nothing else resets such a row).
DispatchedJobSettles ==
  \A j \in Jobs :
    worker[j][1] # "absent" ~>
      \/ row[j].status \in Settled
      \/ \E a \in Attempts : worker[j][a] = "died" /\ (a = MaxAttempts \/ Dispatcher # "cloudrun")

\* A browser never waits for ever, not even for a job nobody will run.
WaitingEnds == \A j \in Jobs : client[j] = "polling" ~> client[j] # "polling"

\* The rows keep the promise of the job tables.
Lifecycle == INSTANCE JobLifecycle WITH
  Redelivered <- (Dispatcher = "cloudrun"),
  status <- [j \in Jobs |-> row[j].status],
  worked <- [j \in Jobs |-> applied[j] # {}]

LifecycleSpec == Lifecycle!LifecycleSpec
=============================================================================
