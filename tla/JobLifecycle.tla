---------------------------- MODULE JobLifecycle ----------------------------
(***************************************************************************)
(* What the four job tables (graph_build_jobs, layout_jobs, review_jobs,   *)
(* review_apply_jobs) promise to whoever polls them, whatever dispatcher   *)
(* runs the jobs and however often it does: a status, and whether the work *)
(* of the job has been done.  JobExecution implements it.                  *)
(***************************************************************************)
CONSTANTS
  Jobs,          \* the jobs that may be requested
  Redelivered    \* TRUE iff the platform may run one job more than once

VARIABLES
  status,        \* status[j]: the status column of job j, "none" before the row exists
  worked         \* worked[j]: some execution of j has done all of its work

lifecycleVars == <<status, worked>>

LifecycleInit ==
  /\ status = [j \in Jobs |-> "none"]
  /\ worked = [j \in Jobs |-> FALSE]

Submit(j) ==
  /\ status[j] = "none"
  /\ status' = [status EXCEPT ![j] = "queued"]
  /\ UNCHANGED worked

\* A job that has settled starts again only where the platform retries: one
\* that failed, or one whose process ended wrongly after it reported success.
Start(j) ==
  /\ \/ status[j] \in {"queued", "running"}
     \/ Redelivered /\ status[j] = "failed"
     \/ Redelivered /\ status[j] = "succeeded" /\ worked[j]
  /\ status' = [status EXCEPT ![j] = "running"]
  /\ UNCHANGED worked

\* The work is never done for a job nobody has requested, nor once more after
\* the job has settled, unless the platform redelivers.
Work(j) ==
  /\ status[j] = "running" \/ (Redelivered /\ status[j] = "failed")
  /\ worked' = [worked EXCEPT ![j] = TRUE]
  /\ UNCHANGED status

\* Success is reported only of work that was done.
Succeed(j) ==
  /\ worked[j]
  /\ status[j] = "running" \/ (Redelivered /\ status[j] = "failed")
  /\ status' = [status EXCEPT ![j] = "succeeded"]
  /\ UNCHANGED worked

\* A reported success is taken back only where the caller may be told that the
\* dispatch failed although the platform has run the job.
Fail(j) ==
  /\ \/ status[j] \in {"queued", "running", "failed"}
     \/ Redelivered /\ status[j] = "succeeded"
  /\ status' = [status EXCEPT ![j] = "failed"]
  /\ UNCHANGED worked

LifecycleNext ==
  \E j \in Jobs : Submit(j) \/ Start(j) \/ Work(j) \/ Succeed(j) \/ Fail(j)

LifecycleSpec == LifecycleInit /\ [][LifecycleNext]_lifecycleVars
=============================================================================
