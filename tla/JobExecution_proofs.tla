------------------------- MODULE JobExecution_proofs -------------------------
(***************************************************************************)
(* JobExecution for every set of jobs, every number of attempts and every  *)
(* dispatcher: its type, its invariants, and that it implements            *)
(* JobLifecycle.                                                           *)
(***************************************************************************)
EXTENDS JobExecution, TLAPS

\* A job nobody has requested has no row, no attempt and no waiting browser.
Untouched ==
  \A j \in Jobs :
    /\ api[j] = "idle" <=> row[j].status = "none"
    /\ api[j] \in {"idle", "dispatching"} =>
         /\ \A a \in Attempts : worker[j][a] = "absent"
         /\ client[j] = IF api[j] = "idle" THEN "idle" ELSE "waiting"
    /\ api[j] \in {"rejected", "overwrote"} => Dispatcher = "cloudrun"

\* An attempt exists only when all the earlier ones have ended without success,
\* and a second one only under Cloud Run.
AttemptsInOrder ==
  \A j \in Jobs : \A a, b \in Attempts :
    a < b /\ worker[j][b] # "absent" =>
      worker[j][a] \in {"exit1", "died"} /\ Dispatcher = "cloudrun"

\* Who has applied the work, and what an attempt holds while it executes.
AppliedBy ==
  \A j \in Jobs : \A a \in Attempts :
    /\ worker[j][a] \in {"done", "reported", "exit0"} => a \in applied[j]
    /\ a \in applied[j] => worker[j][a] \in {"done", "reported", "exit0", "died"}
    /\ worker[j][a] \in {"working", "done", "refused"} =>
         /\ copy[j][a].status = "running" /\ copy[j][a].started /\ ~copy[j][a].error
         /\ row[j].status \in {"running", "failed"}

\* Where the statuses of a row come from.
StatusHasCause ==
  \A j \in Jobs :
    /\ row[j].status = "succeeded" =>
         \E a \in Attempts : worker[j][a] \in {"reported", "exit0", "died"} /\ a \in applied[j]
    /\ row[j].status = "failed" /\ Dispatcher # "cloudrun" =>
         \E a \in Attempts : worker[j][a] = "exit1"

\* A success is in the row from its save to the end of its process, and after
\* it, unless the handler wrote over it.
SuccessStored ==
  \A j \in Jobs : \A a \in Attempts :
    worker[j][a] \in {"reported", "exit0"} =>
      row[j].status = "succeeded" \/ (api[j] = "overwrote" /\ row[j] = UndispatchedRow)

\* What the rows, the handlers, the attempts and the browser keep together.
IInv == /\ TypeOK
        /\ Untouched
        /\ AttemptsInOrder
        /\ AppliedBy
        /\ StatusHasCause
        /\ RowCoherent
        /\ SuccessStored
        /\ DoneMeansApplied

-----------------------------------------------------------------------------
\* There is a first attempt.
LEMMA FirstAttempt == 1 \in Attempts
BY AttemptsAssumption DEF Attempts

\* Whatever a handler or an attempt saves is a row.
LEMMA RowConstructors ==
  /\ NoRow \in Row /\ QueuedRow \in Row /\ UndispatchedRow \in Row
  /\ \A r \in Row : Running(r) \in Row /\ Succeeded(r) \in Row /\ Failed(r) \in Row
BY DEF Row, NoRow, QueuedRow, UndispatchedRow, Running, Succeeded, Failed, Settled

\* Every variable keeps its type, whatever the dispatcher does.
THEOREM TypeCorrect == Spec => []TypeOK
<1>1. Init => TypeOK
  BY RowConstructors DEF Init, TypeOK
<1>2. TypeOK /\ [Next]_vars => TypeOK'
  <2> SUFFICES ASSUME TypeOK, [Next]_vars PROVE TypeOK'
    OBVIOUS
  <2> USE RowConstructors DEF TypeOK, Active
  <2>1. ASSUME NEW j \in Jobs, CreateJob(j) PROVE TypeOK'
    BY <2>1 DEF CreateJob
  <2>2. ASSUME NEW j \in Jobs, Dispatch(j) PROVE TypeOK'
    <3>1. worker' \in [Jobs -> [Attempts -> Active \cup {"absent", "exit0", "exit1", "died"}]]
      <4>1. CASE UNCHANGED worker
        BY <4>1
      <4>2. CASE worker' = [worker EXCEPT ![j][1] = "ready"]
        BY <4>2, FirstAttempt
      <4> QED BY <2>2, <4>1, <4>2 DEF Dispatch
    <3> QED BY <2>2, <3>1 DEF Dispatch
  <2>3. ASSUME NEW j \in Jobs, NEW accepted \in BOOLEAN, DispatchError(j, accepted)
        PROVE  TypeOK'
    BY <2>3, FirstAttempt DEF DispatchError
  <2>4. ASSUME NEW j \in Jobs, NEW saved \in BOOLEAN, SaveDispatchError(j, saved)
        PROVE  TypeOK'
    BY <2>4 DEF SaveDispatchError
  <2>5. ASSUME NEW j \in Jobs, NEW a \in Attempts, WorkerLoad(j, a) PROVE TypeOK'
    BY <2>5 DEF WorkerLoad
  <2>6. ASSUME NEW j \in Jobs, NEW a \in Attempts, WorkerBegin(j, a) PROVE TypeOK'
    BY <2>6 DEF WorkerBegin
  <2>7. ASSUME NEW j \in Jobs, NEW a \in Attempts, WorkerApply(j, a) PROVE TypeOK'
    BY <2>7 DEF WorkerApply
  <2>8. ASSUME NEW j \in Jobs, NEW a \in Attempts, WorkerRefuse(j, a) PROVE TypeOK'
    BY <2>8 DEF WorkerRefuse
  <2>9. ASSUME NEW j \in Jobs, NEW a \in Attempts, WorkerSucceed(j, a) PROVE TypeOK'
    BY <2>9 DEF WorkerSucceed
  <2>17. ASSUME NEW j \in Jobs, NEW a \in Attempts, WorkerExit(j, a) PROVE TypeOK'
    BY <2>17 DEF WorkerExit
  <2>10. ASSUME NEW j \in Jobs, NEW a \in Attempts, WorkerFail(j, a) PROVE TypeOK'
    BY <2>10 DEF WorkerFail
  <2>11. ASSUME NEW j \in Jobs, NEW a \in Attempts, WorkerDie(j, a) PROVE TypeOK'
    BY <2>11 DEF WorkerDie
  <2>12. ASSUME NEW j \in Jobs, NEW a \in Attempts, CloudRunRetry(j, a) PROVE TypeOK'
    BY <2>12, AttemptsAssumption DEF CloudRunRetry, Attempts
  <2>13. CASE ServerCrash
    BY <2>13 DEF ServerCrash
  <2>14. ASSUME NEW j \in Jobs, ClientPoll(j) PROVE TypeOK'
    BY <2>14 DEF ClientPoll
  <2>15. ASSUME NEW j \in Jobs, ClientTimeout(j) \/ ClientLosesAnswer(j) PROVE TypeOK'
    BY <2>15 DEF ClientTimeout, ClientLosesAnswer
  <2>16. CASE UNCHANGED vars
    BY <2>16 DEF vars
  <2> QED
    BY <2>1, <2>2, <2>3, <2>4, <2>5, <2>6, <2>7, <2>8, <2>9, <2>10, <2>11, <2>12,
       <2>13, <2>14, <2>15, <2>16, <2>17 DEF Next, Handler, WorkerStep
<1> QED
  BY <1>1, <1>2, PTL DEF Spec
-----------------------------------------------------------------------------
\* Attempts are counted from 1.
LEMMA AttemptsAreNumbers == \A a \in Attempts : a \in Nat /\ 1 <= a
BY AttemptsAssumption DEF Attempts

\* A step that settles no job, and takes back no work and no end of an attempt.
LEMMA CauseStays ==
  ASSUME StatusHasCause,
         \A j \in Jobs : /\ row'[j].status \in Settled => row'[j].status = row[j].status
                         /\ applied[j] \subseteq applied'[j],
         \A j \in Jobs, a \in Attempts :
           worker[j][a] \in {"reported", "exit0", "died", "exit1"} =>
             worker'[j][a] = worker[j][a]
  PROVE  StatusHasCause'
<1>1. ASSUME NEW j \in Jobs, row'[j].status = "succeeded"
      PROVE  \E a \in Attempts :
               worker'[j][a] \in {"reported", "exit0", "died"} /\ a \in applied'[j]
  <2>1. row[j].status = "succeeded"
    BY <1>1 DEF Settled
  <2>2. PICK a \in Attempts :
          worker[j][a] \in {"reported", "exit0", "died"} /\ a \in applied[j]
    BY <2>1 DEF StatusHasCause
  <2> QED BY <2>2
<1>2. ASSUME NEW j \in Jobs, row'[j].status = "failed", Dispatcher # "cloudrun"
      PROVE  \E a \in Attempts : worker'[j][a] = "exit1"
  <2>1. row[j].status = "failed"
    BY <1>2 DEF Settled
  <2>2. PICK a \in Attempts : worker[j][a] = "exit1"
    BY <1>2, <2>1 DEF StatusHasCause
  <2> QED BY <2>2
<1> QED BY <1>1, <1>2 DEF StatusHasCause

\* The inductive invariant holds in every reachable state.
THEOREM InductiveInvariant == Spec => []IInv
<1>1. Init => IInv
  <2> SUFFICES ASSUME Init PROVE IInv
    OBVIOUS
  <2>1. TypeOK
    BY RowConstructors DEF Init, TypeOK
  <2>2. /\ Untouched /\ AttemptsInOrder /\ AppliedBy /\ StatusHasCause
        /\ RowCoherent /\ SuccessStored /\ DoneMeansApplied
    BY DEF Init, NoRow, Untouched, AttemptsInOrder, AppliedBy, StatusHasCause,
           RowCoherent, SuccessStored, DoneMeansApplied
  <2> QED
    BY <2>1, <2>2 DEF IInv
<1>2. IInv /\ TypeOK' /\ [Next]_vars => IInv'
  <2> SUFFICES ASSUME IInv, TypeOK', [Next]_vars PROVE IInv'
    OBVIOUS
  <2>0. /\ TypeOK /\ Untouched /\ AttemptsInOrder /\ AppliedBy /\ StatusHasCause
        /\ RowCoherent /\ SuccessStored /\ DoneMeansApplied
    BY DEF IInv
  \* While an attempt has steps to take no other has, and none has succeeded.
  <2>a. ASSUME NEW j \in Jobs, NEW a \in Attempts, worker[j][a] \in Active,
               NEW b \in Attempts, b # a
        PROVE  worker[j][b] \notin Active \cup {"exit0"}
    <3>1. a < b \/ b < a
      BY <2>a, AttemptsAreNumbers
    <3> QED
      BY <2>0, <2>a, <3>1 DEF AttemptsInOrder, Active
  <2>1. ASSUME NEW j \in Jobs, CreateJob(j) PROVE IInv'
    <3> USE <2>0, <2>1, AttemptsAreNumbers DEF CreateJob, QueuedRow, NoRow
    <3>1. AttemptsInOrder'
      BY DEF AttemptsInOrder
    <3>2. Untouched'
      BY DEF TypeOK, Untouched, Active
    <3>3. AppliedBy'
      BY DEF TypeOK, AppliedBy, Untouched, AttemptsInOrder, Active, Row
    <3>4. StatusHasCause'
      BY DEF TypeOK, StatusHasCause, Untouched, AttemptsInOrder, Active, Row
    <3>5. RowCoherent'
      BY DEF TypeOK, RowCoherent, AppliedBy, Row, Settled
    <3>6. SuccessStored'
      BY DEF TypeOK, SuccessStored, AttemptsInOrder, Untouched, Active
    <3>7. DoneMeansApplied'
      BY DEF TypeOK, DoneMeansApplied, StatusHasCause, AppliedBy
    <3> QED
      BY <3>1, <3>2, <3>3, <3>4, <3>5, <3>6, <3>7 DEF IInv
  <2>2. ASSUME NEW j \in Jobs, Dispatch(j) PROVE IInv'
    <3> USE <2>0, <2>2, AttemptsAreNumbers DEF Dispatch
    <3>1. RowCoherent'
      BY DEF RowCoherent
    <3>2. Untouched'
      BY DEF TypeOK, Untouched, Active
    <3>3. AttemptsInOrder'
      BY DEF TypeOK, AttemptsInOrder, Untouched, Active
    <3>4. AppliedBy'
      BY DEF TypeOK, AppliedBy, Untouched, AttemptsInOrder, Active, Row
    <3>5. StatusHasCause'
      BY DEF TypeOK, StatusHasCause, Untouched, AttemptsInOrder, Active, Row
    <3>6. SuccessStored'
      BY DEF TypeOK, SuccessStored, AttemptsInOrder, Untouched, Active
    <3>7. DoneMeansApplied'
      BY DEF TypeOK, DoneMeansApplied, StatusHasCause, AppliedBy
    <3> QED
      BY <3>1, <3>2, <3>3, <3>4, <3>5, <3>6, <3>7 DEF IInv
  <2>3. ASSUME NEW j \in Jobs, NEW accepted \in BOOLEAN, DispatchError(j, accepted) PROVE IInv'
    <3> USE <2>0, <2>3, AttemptsAreNumbers DEF DispatchError
    <3>1. RowCoherent' /\ DoneMeansApplied'
      BY DEF RowCoherent, DoneMeansApplied
    <3>2. Untouched'
      BY DEF TypeOK, Untouched, Active
    <3>3. AttemptsInOrder'
      BY DEF TypeOK, AttemptsInOrder, Untouched, Active
    <3>4. AppliedBy'
      BY DEF TypeOK, AppliedBy, Untouched, AttemptsInOrder, Active, Row
    <3>5. StatusHasCause'
      <4>1. \A i \in Jobs : /\ row'[i].status \in Settled => row'[i].status = row[i].status
                           /\ applied[i] \subseteq applied'[i]
        BY DEF TypeOK, Row, Settled
      <4>2. \A i \in Jobs, b \in Attempts :
              worker[i][b] \in {"reported", "exit0", "died", "exit1"} =>
                worker'[i][b] = worker[i][b]
        BY DEF TypeOK, Untouched
      <4> QED
        BY <4>1, <4>2, CauseStays
    <3>6. SuccessStored'
      BY DEF TypeOK, SuccessStored, AttemptsInOrder, Untouched, Active
    <3> QED
      BY <3>1, <3>2, <3>3, <3>4, <3>5, <3>6 DEF IInv
  <2>4. ASSUME NEW j \in Jobs, NEW saved \in BOOLEAN, SaveDispatchError(j, saved) PROVE IInv'
    <3> USE <2>0, <2>4, AttemptsAreNumbers DEF SaveDispatchError, UndispatchedRow, QueuedRow, NoRow
    <3>1. AttemptsInOrder'
      BY DEF AttemptsInOrder
    <3>2. Untouched'
      BY DEF TypeOK, Untouched, Active
    <3>3. AppliedBy'
      BY DEF TypeOK, AppliedBy, Untouched, AttemptsInOrder, Active, Row
    <3>4. StatusHasCause'
      BY DEF TypeOK, StatusHasCause, Untouched, AttemptsInOrder, Active, Row
    <3>5. RowCoherent'
      BY DEF TypeOK, RowCoherent, AppliedBy, Row, Settled
    <3>6. SuccessStored'
      BY DEF TypeOK, SuccessStored, AttemptsInOrder, Untouched, Active
    <3>7. DoneMeansApplied'
      BY DEF TypeOK, DoneMeansApplied, StatusHasCause, AppliedBy
    <3> QED
      BY <3>1, <3>2, <3>3, <3>4, <3>5, <3>6, <3>7 DEF IInv
  <2>5. ASSUME NEW j \in Jobs, NEW a \in Attempts, WorkerLoad(j, a) PROVE IInv'
    <3> USE <2>0, <2>5, AttemptsAreNumbers DEF WorkerLoad
    <3>1. RowCoherent' /\ DoneMeansApplied'
      BY DEF RowCoherent, DoneMeansApplied
    <3>2. Untouched'
      BY DEF TypeOK, Untouched, Active
    <3>3. AttemptsInOrder'
      BY DEF TypeOK, AttemptsInOrder, Untouched, Active
    <3>4. AppliedBy'
      BY DEF TypeOK, AppliedBy, Untouched, AttemptsInOrder, Active, Row
    <3>5. StatusHasCause'
      <4>1. \A i \in Jobs : /\ row'[i].status \in Settled => row'[i].status = row[i].status
                           /\ applied[i] \subseteq applied'[i]
        BY DEF TypeOK, Row, Settled
      <4>2. \A i \in Jobs, b \in Attempts :
              worker[i][b] \in {"reported", "exit0", "died", "exit1"} =>
                worker'[i][b] = worker[i][b]
        BY DEF TypeOK, Untouched
      <4> QED
        BY <4>1, <4>2, CauseStays
    <3>6. SuccessStored'
      BY DEF TypeOK, SuccessStored, AttemptsInOrder, Untouched, Active
    <3> QED
      BY <3>1, <3>2, <3>3, <3>4, <3>5, <3>6 DEF IInv
  <2>6. ASSUME NEW j \in Jobs, NEW a \in Attempts, WorkerBegin(j, a) PROVE IInv'
    <3> USE <2>0, <2>6, AttemptsAreNumbers DEF WorkerBegin, Running
    <3>1. DoneMeansApplied'
      BY DEF DoneMeansApplied
    <3>2. Untouched'
      BY DEF TypeOK, Untouched, Active
    <3>3. AttemptsInOrder'
      BY DEF TypeOK, AttemptsInOrder, Untouched, Active
    <3>4. AppliedBy'
      BY DEF TypeOK, AppliedBy, Untouched, AttemptsInOrder, Active, Row
    <3>5. StatusHasCause'
      BY DEF TypeOK, StatusHasCause, Untouched, AttemptsInOrder, Active, Row
    <3>6. RowCoherent'
      BY DEF TypeOK, RowCoherent, AppliedBy, Row, Settled
    <3>7. SuccessStored'
      BY <2>a DEF TypeOK, SuccessStored, AttemptsInOrder, Untouched, Active
    <3> QED
      BY <3>1, <3>2, <3>3, <3>4, <3>5, <3>6, <3>7 DEF IInv
  <2>7. ASSUME NEW j \in Jobs, NEW a \in Attempts, WorkerApply(j, a) PROVE IInv'
    <3> USE <2>0, <2>7, AttemptsAreNumbers DEF WorkerApply
    <3>1. RowCoherent'
      BY DEF RowCoherent
    <3>2. Untouched'
      BY DEF TypeOK, Untouched, Active
    <3>3. AttemptsInOrder'
      BY DEF TypeOK, AttemptsInOrder, Untouched, Active
    <3>4. AppliedBy'
      BY DEF TypeOK, AppliedBy, Untouched, AttemptsInOrder, Active, Row
    <3>5. StatusHasCause'
      <4>1. \A i \in Jobs : /\ row'[i].status \in Settled => row'[i].status = row[i].status
                           /\ applied[i] \subseteq applied'[i]
        BY DEF TypeOK, Row, Settled
      <4>2. \A i \in Jobs, b \in Attempts :
              worker[i][b] \in {"reported", "exit0", "died", "exit1"} =>
                worker'[i][b] = worker[i][b]
        BY DEF TypeOK, Untouched
      <4> QED
        BY <4>1, <4>2, CauseStays
    <3>6. SuccessStored'
      BY DEF TypeOK, SuccessStored, AttemptsInOrder, Untouched, Active
    <3>7. DoneMeansApplied'
      BY DEF TypeOK, DoneMeansApplied, StatusHasCause, AppliedBy
    <3> QED
      BY <3>1, <3>2, <3>3, <3>4, <3>5, <3>6, <3>7 DEF IInv
  <2>8. ASSUME NEW j \in Jobs, NEW a \in Attempts, WorkerRefuse(j, a) PROVE IInv'
    <3> USE <2>0, <2>8, AttemptsAreNumbers DEF WorkerRefuse
    <3>1. RowCoherent' /\ DoneMeansApplied'
      BY DEF RowCoherent, DoneMeansApplied
    <3>2. Untouched'
      BY DEF TypeOK, Untouched, Active
    <3>3. AttemptsInOrder'
      BY DEF TypeOK, AttemptsInOrder, Untouched, Active
    <3>4. AppliedBy'
      BY DEF TypeOK, AppliedBy, Untouched, AttemptsInOrder, Active, Row
    <3>5. StatusHasCause'
      <4>1. \A i \in Jobs : /\ row'[i].status \in Settled => row'[i].status = row[i].status
                           /\ applied[i] \subseteq applied'[i]
        BY DEF TypeOK, Row, Settled
      <4>2. \A i \in Jobs, b \in Attempts :
              worker[i][b] \in {"reported", "exit0", "died", "exit1"} =>
                worker'[i][b] = worker[i][b]
        BY DEF TypeOK, Untouched
      <4> QED
        BY <4>1, <4>2, CauseStays
    <3>6. SuccessStored'
      BY DEF TypeOK, SuccessStored, AttemptsInOrder, Untouched, Active
    <3> QED
      BY <3>1, <3>2, <3>3, <3>4, <3>5, <3>6 DEF IInv
  <2>9. ASSUME NEW j \in Jobs, NEW a \in Attempts, WorkerSucceed(j, a) PROVE IInv'
    <3> USE <2>0, <2>9, AttemptsAreNumbers DEF WorkerSucceed, Succeeded
    <3>1. DoneMeansApplied'
      BY DEF DoneMeansApplied
    <3>2. Untouched'
      BY DEF TypeOK, Untouched, Active
    <3>3. AttemptsInOrder'
      BY DEF TypeOK, AttemptsInOrder, Untouched, Active
    <3>4. AppliedBy'
      BY <2>a DEF TypeOK, AppliedBy, Untouched, AttemptsInOrder, Active, Row
    <3>5. StatusHasCause'
      <4>1. worker'[j][a] = "reported" /\ a \in applied'[j] /\ row'[j].status = "succeeded"
        BY DEF TypeOK, AppliedBy, Row
      <4>2. \A i \in Jobs : i # j => /\ row'[i] = row[i] /\ applied'[i] = applied[i]
                                     /\ worker'[i] = worker[i]
        BY DEF TypeOK
      <4> QED
        BY <4>1, <4>2 DEF StatusHasCause
    <3>6. RowCoherent'
      BY DEF TypeOK, RowCoherent, AppliedBy, Row, Settled
    <3>7. SuccessStored'
      BY DEF TypeOK, SuccessStored, AttemptsInOrder, Untouched, Active
    <3> QED
      BY <3>1, <3>2, <3>3, <3>4, <3>5, <3>6, <3>7 DEF IInv
  <2>17. ASSUME NEW j \in Jobs, NEW a \in Attempts, WorkerExit(j, a) PROVE IInv'
    <3> USE <2>0, <2>17, AttemptsAreNumbers DEF WorkerExit
    <3>1. RowCoherent' /\ DoneMeansApplied'
      BY DEF RowCoherent, DoneMeansApplied
    <3>2. Untouched'
      BY DEF TypeOK, Untouched, Active
    <3>3. AttemptsInOrder'
      BY DEF TypeOK, AttemptsInOrder, Untouched, Active
    <3>4. AppliedBy'
      BY DEF TypeOK, AppliedBy, Untouched, AttemptsInOrder, Active, Row
    <3>5. StatusHasCause'
      BY DEF TypeOK, StatusHasCause
    <3>6. SuccessStored'
      BY DEF TypeOK, SuccessStored
    <3> QED
      BY <3>1, <3>2, <3>3, <3>4, <3>5, <3>6 DEF IInv
  <2>10. ASSUME NEW j \in Jobs, NEW a \in Attempts, WorkerFail(j, a) PROVE IInv'
    <3> USE <2>0, <2>10, AttemptsAreNumbers DEF WorkerFail, Failed
    <3>1. DoneMeansApplied'
      BY DEF DoneMeansApplied
    <3>2. Untouched'
      BY DEF TypeOK, Untouched, Active
    <3>3. AttemptsInOrder'
      BY DEF TypeOK, AttemptsInOrder, Untouched, Active
    <3>4. AppliedBy'
      BY DEF TypeOK, AppliedBy, Untouched, AttemptsInOrder, Active, Row
    <3>5. StatusHasCause'
      BY DEF TypeOK, StatusHasCause, Untouched, AttemptsInOrder, Active, Row
    <3>6. RowCoherent'
      BY DEF TypeOK, RowCoherent, AppliedBy, Row, Settled
    <3>7. SuccessStored'
      BY <2>a DEF TypeOK, SuccessStored, AttemptsInOrder, Untouched, Active
    <3> QED
      BY <3>1, <3>2, <3>3, <3>4, <3>5, <3>6, <3>7 DEF IInv
  <2>11. ASSUME NEW j \in Jobs, NEW a \in Attempts, WorkerDie(j, a) PROVE IInv'
    <3> USE <2>0, <2>11, AttemptsAreNumbers DEF WorkerDie
    <3>1. RowCoherent' /\ DoneMeansApplied'
      BY DEF RowCoherent, DoneMeansApplied
    <3>2. Untouched'
      BY DEF TypeOK, Untouched, Active
    <3>3. AttemptsInOrder'
      BY DEF TypeOK, AttemptsInOrder, Untouched, Active
    <3>4. AppliedBy'
      BY DEF TypeOK, AppliedBy, Untouched, AttemptsInOrder, Active, Row
    <3>5. StatusHasCause'
      BY DEF TypeOK, StatusHasCause, Untouched, AttemptsInOrder, Active, Row
    <3>6. SuccessStored'
      BY DEF TypeOK, SuccessStored, AttemptsInOrder, Untouched, Active
    <3> QED
      BY <3>1, <3>2, <3>3, <3>4, <3>5, <3>6 DEF IInv
  <2>12. ASSUME NEW j \in Jobs, NEW a \in Attempts, CloudRunRetry(j, a) PROVE IInv'
    <3> USE <2>0, <2>12, AttemptsAreNumbers DEF CloudRunRetry
    <3>1. RowCoherent' /\ DoneMeansApplied'
      BY DEF RowCoherent, DoneMeansApplied
    <3>2. Untouched'
      BY DEF TypeOK, Untouched, Active
    <3>3. AttemptsInOrder'
      <4>1. a + 1 \in Attempts /\ \A b \in Attempts : b < a + 1 => b < a \/ b = a
        BY AttemptsAssumption DEF Attempts
      <4>2. \A b, c \in Attempts : b < c /\ worker[j][c] # "absent" => b # a + 1
        BY <4>1 DEF AttemptsInOrder
      <4> QED
        BY <4>1, <4>2 DEF TypeOK, AttemptsInOrder
    <3>4. AppliedBy'
      BY DEF TypeOK, AppliedBy, Untouched, AttemptsInOrder, Active, Row
    <3>5. StatusHasCause'
      <4>1. \A i \in Jobs : /\ row'[i].status \in Settled => row'[i].status = row[i].status
                           /\ applied[i] \subseteq applied'[i]
        BY DEF TypeOK, Row, Settled
      <4>2. \A i \in Jobs, b \in Attempts :
              worker[i][b] \in {"reported", "exit0", "died", "exit1"} =>
                worker'[i][b] = worker[i][b]
        BY DEF TypeOK, Untouched
      <4> QED
        BY <4>1, <4>2, CauseStays
    <3>6. SuccessStored'
      BY DEF TypeOK, SuccessStored, AttemptsInOrder, Untouched, Active
    <3> QED
      BY <3>1, <3>2, <3>3, <3>4, <3>5, <3>6 DEF IInv
  <2>13. ASSUME ServerCrash PROVE IInv'
    <3> USE <2>0, <2>13, AttemptsAreNumbers DEF ServerCrash, HandlerRuns, InServer
    <3>1. RowCoherent'
      BY DEF RowCoherent
    <3>2. Untouched'
      BY DEF TypeOK, Untouched, Active
    <3>3. AttemptsInOrder'
      BY DEF TypeOK, AttemptsInOrder, Untouched, Active
    <3>4. AppliedBy'
      BY DEF TypeOK, AppliedBy, Untouched, AttemptsInOrder, Active, Row
    <3>5. StatusHasCause'
      <4>1. \A j \in Jobs, a \in Attempts :
              /\ worker[j][a] = "exit1" => worker'[j][a] = "exit1"
              /\ worker[j][a] \in {"reported", "exit0", "died"} =>
                   worker'[j][a] \in {"reported", "exit0", "died"}
        BY DEF Active
      <4> QED
        BY <4>1 DEF StatusHasCause
    <3>6. SuccessStored'
      BY DEF TypeOK, SuccessStored, AttemptsInOrder, Untouched, Active
    <3>7. DoneMeansApplied'
      BY DEF TypeOK, DoneMeansApplied, StatusHasCause, AppliedBy
    <3> QED
      BY <3>1, <3>2, <3>3, <3>4, <3>5, <3>6, <3>7 DEF IInv
  <2>14. ASSUME NEW j \in Jobs, ClientPoll(j) PROVE IInv'
    <3> USE <2>0, <2>14, AttemptsAreNumbers DEF ClientPoll, Settled
    <3>1. AttemptsInOrder' /\ AppliedBy' /\ StatusHasCause' /\ RowCoherent' /\ SuccessStored'
      BY DEF AttemptsInOrder, AppliedBy, StatusHasCause, RowCoherent, SuccessStored
    <3>2. Untouched'
      BY DEF TypeOK, Untouched, Active
    <3>3. DoneMeansApplied'
      BY DEF TypeOK, DoneMeansApplied, StatusHasCause, AppliedBy
    <3> QED
      BY <3>1, <3>2, <3>3 DEF IInv
  <2>15. ASSUME NEW j \in Jobs, ClientTimeout(j) \/ ClientLosesAnswer(j) PROVE IInv'
    <3> USE <2>0, <2>15, AttemptsAreNumbers DEF ClientTimeout, ClientLosesAnswer
    <3>1. AttemptsInOrder' /\ AppliedBy' /\ StatusHasCause' /\ RowCoherent' /\ SuccessStored'
      BY DEF AttemptsInOrder, AppliedBy, StatusHasCause, RowCoherent, SuccessStored
    <3>2. Untouched'
      BY DEF TypeOK, Untouched, Active
    <3>3. DoneMeansApplied'
      BY DEF TypeOK, DoneMeansApplied, StatusHasCause, AppliedBy
    <3> QED
      BY <3>1, <3>2, <3>3 DEF IInv
  <2>16. CASE UNCHANGED vars
    BY <2>0, <2>16 DEF vars, IInv, TypeOK, Untouched, AttemptsInOrder, AppliedBy,
       StatusHasCause, RowCoherent, SuccessStored, DoneMeansApplied
  <2> QED
    BY <2>1, <2>2, <2>3, <2>4, <2>5, <2>6, <2>7, <2>8, <2>9, <2>10, <2>11, <2>12,
       <2>13, <2>14, <2>15, <2>16, <2>17 DEF Next, Handler, WorkerStep
<1> QED
  BY <1>1, <1>2, TypeCorrect, PTL DEF Spec
-----------------------------------------------------------------------------
\* No row ever mixes the columns of two writers.
THEOREM RowsAreCoherent == Spec => []RowCoherent
BY InductiveInvariant, PTL DEF IInv

\* The success of an attempt that exited with 0 is only ever lost to a handler that
\* was told of a failed dispatch.
THEOREM SuccessIsKept == Spec => []SuccessSticks
<1>1. IInv => SuccessSticks
  BY DEF IInv, SuccessStored, SuccessSticks
<1> QED
  BY <1>1, InductiveInvariant, PTL

\* Nothing but that handler, or the retry of an attempt that died after it had
\* saved its success, takes a success back.
THEOREM SuccessUndoneOnlyByRetry == Spec => SuccessUndoneByRetry
<1>1. IInv /\ [Next]_vars =>
        [\A j \in Jobs : Undone(j) =>
           \/ api[j] = "rejected" /\ api'[j] = "overwrote"
           \/ \E a, b \in Attempts :
                /\ a < b /\ worker[j][b] = "loaded"
                /\ worker[j][a] = "died" /\ a \in applied[j]]_vars
  <2> SUFFICES ASSUME IInv, [Next]_vars, NEW k \in Jobs, Undone(k)
               PROVE  \/ api[k] = "rejected" /\ api'[k] = "overwrote"
                      \/ \E a, b \in Attempts :
                           /\ a < b /\ worker[k][b] = "loaded"
                           /\ worker[k][a] = "died" /\ a \in applied[k]
    OBVIOUS
  <2>0. /\ TypeOK /\ Untouched /\ AttemptsInOrder /\ AppliedBy /\ StatusHasCause
        /\ row[k].status = "succeeded" /\ row'[k] # row[k] /\ row'[k].status # "succeeded"
    BY DEF IInv, Undone
  <2>1. ASSUME NEW j \in Jobs, CreateJob(j) PROVE FALSE
    BY <2>0, <2>1 DEF CreateJob, Untouched, TypeOK
  <2>2. ASSUME NEW j \in Jobs, NEW saved \in BOOLEAN, SaveDispatchError(j, saved)
        PROVE  api[k] = "rejected" /\ api'[k] = "overwrote"
    BY <2>0, <2>2 DEF SaveDispatchError, TypeOK
  <2>3. ASSUME NEW j \in Jobs, NEW b \in Attempts, WorkerBegin(j, b)
        PROVE  \E a \in Attempts : /\ a < b /\ worker[k][b] = "loaded"
                                   /\ worker[k][a] = "died" /\ a \in applied[k]
    <3>1. j = k
      BY <2>0, <2>3 DEF WorkerBegin, TypeOK
    <3>2. PICK a \in Attempts : /\ worker[k][a] \in {"reported", "exit0", "died"}
                                /\ a \in applied[k]
      BY <2>0 DEF StatusHasCause
    <3>3. a # b /\ worker[k][b] = "loaded"
      BY <2>3, <3>1, <3>2 DEF WorkerBegin
    <3>4. a < b \/ b < a
      BY <3>3, AttemptsAreNumbers
    <3>5. a < b /\ worker[k][a] = "died"
      BY <2>0, <3>2, <3>3, <3>4 DEF AttemptsInOrder
    <3> QED BY <3>2, <3>3, <3>5
  <2>4. ASSUME NEW j \in Jobs, NEW a \in Attempts, WorkerSucceed(j, a) PROVE FALSE
    <3>1. j = k /\ row'[k] = Succeeded(copy[j][a]) /\ copy[j][a] \in Row
      BY <2>0, <2>4 DEF WorkerSucceed, TypeOK
    <3> QED BY <2>0, <3>1 DEF Succeeded, Row
  <2>5. ASSUME NEW j \in Jobs, NEW a \in Attempts, WorkerFail(j, a) PROVE FALSE
    <3>1. j = k
      BY <2>0, <2>5 DEF WorkerFail, TypeOK
    <3> QED BY <2>0, <2>5, <3>1 DEF WorkerFail, AppliedBy
  <2> QED
    BY <2>0, <2>1, <2>2, <2>3, <2>4, <2>5
    DEF Next, vars, Handler, WorkerStep, Dispatch, DispatchError, WorkerLoad, WorkerApply,
        WorkerRefuse, WorkerExit, WorkerDie, CloudRunRetry, ServerCrash, ClientPoll,
        ClientTimeout, ClientLosesAnswer
<1> QED
  BY <1>1, InductiveInvariant, PTL DEF Spec, SuccessUndoneByRetry

\* The browser proceeds only after the work of the job was done.
THEOREM BrowserProceedsAfterWork == Spec => []DoneMeansApplied
BY InductiveInvariant, PTL DEF IInv

\* Work is repeated only because the attempt that did it died before saying so.
THEOREM RepetitionNeedsDeath == Spec => []RepeatedOnlyAfterDeath
<1>1. IInv => RepeatedOnlyAfterDeath
  BY DEF IInv, RepeatedOnlyAfterDeath, AttemptsInOrder, AppliedBy
<1> QED
  BY <1>1, InductiveInvariant, PTL

-----------------------------------------------------------------------------
\* Without Cloud Run at most one attempt exists, so the one that failed was the last.
LEMMA LocalFailureHasNoSuccessor ==
  ASSUME IInv, Dispatcher # "cloudrun", NEW j \in Jobs, row[j].status = "failed",
         NEW a \in Attempts
  PROVE  worker[j][a] \notin Active
<1>1. PICK b \in Attempts : worker[j][b] = "exit1"
  BY DEF IInv, StatusHasCause
<1>2. a = b \/ a < b \/ b < a
  BY AttemptsAreNumbers
<1> QED
  BY <1>1, <1>2 DEF IInv, AttemptsInOrder, Active

\* With the local or the noop dispatcher a failure the browser was told of is final.
THEOREM LocalFailureIsFinal == Dispatcher # "cloudrun" /\ Spec => []FailureIsFinal
<1> SUFFICES ASSUME Dispatcher # "cloudrun" PROVE Spec => []FailureIsFinal
  OBVIOUS
<1> DEFINE Told == \A j \in Jobs : client[j] = "failed" => row[j].status = "failed"
<1>1. Init => Told
  BY DEF Init
<1>2. IInv /\ Told /\ [Next]_vars => Told'
  <2> SUFFICES ASSUME IInv, Told, [Next]_vars, NEW k \in Jobs, client'[k] = "failed"
               PROVE  row'[k].status = "failed"
    OBVIOUS
  <2> USE DEF IInv, TypeOK
  <2>1. CASE row[k].status = "failed"
    <3>1. \A a \in Attempts : worker[k][a] \notin Active
      BY <2>1, LocalFailureHasNoSuccessor
    <3>2. api[k] # "idle" /\ api[k] # "rejected"
      BY <2>1 DEF Untouched
    <3>3. row'[k] = row[k]
      BY <3>1, <3>2 DEF Next, vars, Handler, WorkerStep, CreateJob, Dispatch, DispatchError,
         SaveDispatchError, WorkerLoad, WorkerBegin, WorkerApply, WorkerRefuse,
         WorkerSucceed, WorkerExit, WorkerFail, WorkerDie, CloudRunRetry, ServerCrash, ClientPoll,
         ClientTimeout, ClientLosesAnswer, Active
    <3> QED
      BY <2>1, <3>3
  <2>2. CASE row[k].status # "failed"
    <3>1. client[k] # "failed"
      BY <2>2
    <3>2. client'[k] # "failed"
      BY <2>2, <3>1 DEF Next, vars, Handler, WorkerStep, CreateJob, Dispatch, DispatchError,
         SaveDispatchError, WorkerLoad, WorkerBegin, WorkerApply, WorkerRefuse,
         WorkerSucceed, WorkerExit, WorkerFail, WorkerDie, CloudRunRetry, ServerCrash, ClientPoll,
         ClientTimeout, ClientLosesAnswer, Settled
    <3> QED
      BY <3>2
  <2> QED
    BY <2>1, <2>2
<1>3. IInv /\ Told => FailureIsFinal
  BY LocalFailureHasNoSuccessor DEF FailureIsFinal
<1> QED
  BY <1>1, <1>2, <1>3, InductiveInvariant, PTL DEF Spec
-----------------------------------------------------------------------------
\* An attempt that has steps to take finds a row; without Cloud Run it has not
\* settled before the attempt has, and a success is one whose work was done.
LEMMA RowOfActiveAttempt ==
  ASSUME IInv, NEW j \in Jobs, NEW a \in Attempts, worker[j][a] \in Active
  PROVE  /\ row[j].status \in {"queued", "running", "failed", "succeeded"}
         /\ row[j].status = "succeeded" => applied[j] # {}
         /\ Dispatcher # "cloudrun" =>
              /\ row[j].status # "failed"
              /\ row[j].status = "succeeded" => worker[j][a] = "reported"
<1>1. row[j].status # "none"
  BY DEF IInv, Untouched, Active
<1>2. ASSUME row[j].status = "succeeded"
      PROVE  /\ applied[j] # {}
             /\ Dispatcher # "cloudrun" => worker[j][a] = "reported"
  <2>1. PICK b \in Attempts : /\ worker[j][b] \in {"reported", "exit0", "died"}
                              /\ b \in applied[j]
    BY <1>2 DEF IInv, StatusHasCause
  <2>2. a = b \/ a < b \/ b < a
    BY AttemptsAreNumbers
  <2> QED
    BY <2>1, <2>2 DEF IInv, AttemptsInOrder, Active
<1>3. Dispatcher # "cloudrun" => row[j].status # "failed"
  BY LocalFailureHasNoSuccessor
<1> QED
  BY <1>1, <1>2, <1>3 DEF IInv, TypeOK, Row, Settled

\* The status of everything that is ever saved.
LEMMA StatusOfConstructors ==
  /\ NoRow.status = "none" /\ QueuedRow.status = "queued"
  /\ UndispatchedRow.status = "failed"
  /\ \A r \in Row : /\ Running(r).status = "running"
                    /\ Succeeded(r).status = "succeeded"
                    /\ Failed(r).status = "failed"
BY DEF Row, NoRow, QueuedRow, UndispatchedRow, Running, Succeeded, Failed

\* A save of r in place of job j's row changes only the status of j.
LEMMA StatusOfSave ==
  ASSUME NEW j \in Jobs, NEW r, row \in [Jobs -> Row], row' = [row EXCEPT ![j] = r]
  PROVE  [k \in Jobs |-> row[k].status]' =
           [[k \in Jobs |-> row[k].status] EXCEPT ![j] = r.status]
OBVIOUS

\* The rows, handlers, dispatchers and attempts implement the promise of the
\* job tables, with redelivery exactly under Cloud Run.
THEOREM ImplementsLifecycle == Spec => LifecycleSpec
<1>1. Init => Lifecycle!LifecycleInit
  <2> SUFFICES ASSUME Init PROVE Lifecycle!LifecycleInit
    OBVIOUS
  <2>1. \A j \in Jobs : row[j].status = "none"
    BY StatusOfConstructors DEF Init
  <2>2. \A j \in Jobs : (applied[j] # {}) = FALSE
    BY DEF Init
  <2> QED
    BY <2>1, <2>2, Zenon DEF Lifecycle!LifecycleInit
<1>2. IInv /\ IInv' /\ [Next]_vars => [Lifecycle!LifecycleNext]_(Lifecycle!lifecycleVars)
  <2> SUFFICES ASSUME IInv, IInv', [Next]_vars
               PROVE  [Lifecycle!LifecycleNext]_(Lifecycle!lifecycleVars)
    OBVIOUS
  <2> DEFINE Status == [j \in Jobs |-> row[j].status]
             Worked == [j \in Jobs |-> applied[j] # {}]
             Same == UNCHANGED Lifecycle!lifecycleVars
  <2>0. TypeOK /\ Untouched /\ AppliedBy
    BY DEF IInv
  <2>1. ASSUME NEW j \in Jobs, CreateJob(j) PROVE Lifecycle!Submit(j)
    <3>1. Status[j] = "none"
      BY <2>0, <2>1 DEF CreateJob, Untouched
    <3>2. Status' = [Status EXCEPT ![j] = "queued"]
      BY <2>0, <2>1, StatusOfSave, StatusOfConstructors DEF CreateJob, TypeOK
    <3> QED
      BY <2>1, <3>1, <3>2 DEF CreateJob, Lifecycle!Submit
  <2>2. ASSUME NEW j \in Jobs, Dispatch(j) PROVE Same
    BY <2>2 DEF Dispatch, Lifecycle!lifecycleVars
  <2>3. ASSUME NEW j \in Jobs, NEW accepted \in BOOLEAN, DispatchError(j, accepted) PROVE Same
    BY <2>3 DEF DispatchError, Lifecycle!lifecycleVars
  <2>4. ASSUME NEW j \in Jobs, NEW saved \in BOOLEAN, SaveDispatchError(j, saved)
        PROVE  Lifecycle!Fail(j) \/ Same
    <3>1. CASE ~saved
      BY <2>4, <3>1 DEF SaveDispatchError, Lifecycle!lifecycleVars
    <3>2. CASE saved
      <4>1. Dispatcher = "cloudrun" /\ row[j].status # "none"
        BY <2>0, <2>4 DEF SaveDispatchError, Untouched
      <4>2. row[j].status \in {"queued", "running", "failed", "succeeded"}
        BY <2>0, <4>1 DEF TypeOK, Row, Settled
      <4>3. Status' = [Status EXCEPT ![j] = "failed"]
        BY <2>0, <2>4, <3>2, StatusOfSave, StatusOfConstructors DEF SaveDispatchError, TypeOK
      <4> QED
        BY <2>4, <4>1, <4>2, <4>3 DEF SaveDispatchError, Lifecycle!Fail
    <3> QED
      BY <3>1, <3>2
  <2>5. ASSUME NEW j \in Jobs, NEW a \in Attempts, WorkerLoad(j, a) PROVE Same
    BY <2>5 DEF WorkerLoad, Lifecycle!lifecycleVars
  <2>6. ASSUME NEW j \in Jobs, NEW a \in Attempts, WorkerBegin(j, a) PROVE Lifecycle!Start(j)
    <3>1. \/ row[j].status \in {"queued", "running"}
          \/ Dispatcher = "cloudrun" /\ row[j].status = "failed"
          \/ Dispatcher = "cloudrun" /\ row[j].status = "succeeded" /\ applied[j] # {}
      BY <2>6, RowOfActiveAttempt DEF WorkerBegin, Active
    <3>2. Status' = [Status EXCEPT ![j] = "running"]
      <4>1. Running(copy[j][a]).status = "running"
        BY <2>0, StatusOfConstructors DEF TypeOK
      <4> QED
        BY <2>0, <2>6, <4>1, StatusOfSave DEF WorkerBegin, TypeOK
    <3> QED
      BY <2>6, <3>1, <3>2 DEF WorkerBegin, Lifecycle!Start
  <2>7. ASSUME NEW j \in Jobs, NEW a \in Attempts, WorkerApply(j, a) PROVE Lifecycle!Work(j)
    <3>1. row[j].status = "running" \/ (Dispatcher = "cloudrun" /\ row[j].status = "failed")
      BY <2>7, RowOfActiveAttempt DEF WorkerApply, AppliedBy, Active, IInv
    <3>2. Worked' = [Worked EXCEPT ![j] = TRUE]
      BY <2>0, <2>7 DEF WorkerApply, TypeOK
    <3> QED
      BY <2>7, <3>1, <3>2 DEF WorkerApply, Lifecycle!Work
  <2>8. ASSUME NEW j \in Jobs, NEW a \in Attempts, WorkerRefuse(j, a) PROVE Same
    BY <2>8 DEF WorkerRefuse, Lifecycle!lifecycleVars
  <2>9. ASSUME NEW j \in Jobs, NEW a \in Attempts, WorkerSucceed(j, a)
        PROVE  Lifecycle!Succeed(j)
    <3>1. row[j].status = "running" \/ (Dispatcher = "cloudrun" /\ row[j].status = "failed")
      BY <2>9, RowOfActiveAttempt DEF IInv, WorkerSucceed, AppliedBy, Active
    <3>2. applied[j] # {}
      BY <2>9 DEF IInv, WorkerSucceed, AppliedBy
    <3>3. Status' = [Status EXCEPT ![j] = "succeeded"]
      <4>1. Succeeded(copy[j][a]).status = "succeeded"
        BY <2>0, StatusOfConstructors DEF TypeOK
      <4> QED
        BY <2>0, <2>9, <4>1, StatusOfSave DEF WorkerSucceed, TypeOK
    <3> QED
      BY <2>9, <3>1, <3>2, <3>3 DEF WorkerSucceed, Lifecycle!Succeed
  <2>10. ASSUME NEW j \in Jobs, NEW a \in Attempts, WorkerFail(j, a) PROVE Lifecycle!Fail(j)
    <3>1. row[j].status \in {"running", "failed"}
      BY <2>10 DEF IInv, AppliedBy, WorkerFail
    <3>2. Status' = [Status EXCEPT ![j] = "failed"]
      <4>1. Failed(copy[j][a]).status = "failed"
        BY <2>0, StatusOfConstructors DEF TypeOK
      <4> QED
        BY <2>0, <2>10, <4>1, StatusOfSave DEF WorkerFail, TypeOK
    <3> QED
      BY <2>10, <3>1, <3>2 DEF WorkerFail, Lifecycle!Fail
  <2>11. ASSUME NEW j \in Jobs, NEW a \in Attempts,
                WorkerExit(j, a) \/ WorkerDie(j, a) \/ CloudRunRetry(j, a)
         PROVE  Same
    BY <2>11 DEF WorkerExit, WorkerDie, CloudRunRetry, Lifecycle!lifecycleVars
  <2>12. CASE ServerCrash
    BY <2>12 DEF ServerCrash, Lifecycle!lifecycleVars
  <2>13. ASSUME NEW j \in Jobs, ClientPoll(j) \/ ClientTimeout(j) \/ ClientLosesAnswer(j)
         PROVE  Same
    BY <2>13 DEF ClientPoll, ClientTimeout, ClientLosesAnswer, Lifecycle!lifecycleVars
  <2>14. CASE UNCHANGED vars
    BY <2>14 DEF vars, Lifecycle!lifecycleVars
  <2> QED
    BY <2>1, <2>2, <2>3, <2>4, <2>5, <2>6, <2>7, <2>8, <2>9, <2>10, <2>11, <2>12,
       <2>13, <2>14 DEF Next, Handler, WorkerStep, Lifecycle!LifecycleNext
<1> QED
  BY <1>1, <1>2, InductiveInvariant, PTL DEF Spec, LifecycleSpec, Lifecycle!LifecycleSpec
=============================================================================
