------------------------- MODULE ReviewApply_proofs -------------------------
(***************************************************************************)
(* For any number of variants, jobs, retries, people and graph builds: the *)
(* types of ReviewApply, that versions of a guide never run ahead of its   *)
(* updates, that a job rewrites only the files it was given, and that it   *)
(* keeps the lifecycle of a job; and, of a job beside which nobody writes  *)
(* code or graphs, that the success of an attempt that wrote files shows.  *)
(*                                                                         *)
(* Hardly any of these is inductive alone: what is saved comes from a copy *)
(* somebody has held for a while, so the copies have to obey the same      *)
(* bound as the row (VersionInv) or the tree (TargetInv) they will end in. *)
(***************************************************************************)
EXTENDS ReviewApply, TLAPS

Steps == {"loaded", "read", "generated", "guided", "writing", "snapped", "synced",
          "finishing"}

\* Where an attempt is over: its success saved, or without one.
Over == {"saved", "exited", "ended"}

\* The steps that bring it there.
Stops(j) == Succeed(j) \/ Exit(j) \/ Fails(j) \/ Dies(j)

\* An attempt at one of these steps has loaded its copies.
LEMMA LoadedAt ==
  ASSUME TypeOK, NEW j \in Jobs, worker[j].at \in Steps \cup {"saved"}
  PROVE  worker[j] \in LoadedAttempt
  BY DEF TypeOK, Attempt, NoAttempt, Steps

\* Going on to another step keeps an attempt what it is.
LEMMA LoadedGoesOn ==
  ASSUME NEW s \in LoadedAttempt
  PROVE  \A step \in Steps \cup Over :
           /\ [s EXCEPT !.at = step] \in LoadedAttempt
           /\ [s EXCEPT !.at = step].guide = s.guide
           /\ [s EXCEPT !.at = step].code = s.code
           /\ [s EXCEPT !.at = step].left = s.left
           /\ [s EXCEPT !.at = step].at = step
  BY DEF LoadedAttempt, Steps, Over

\* The copies of an attempt.
LEMMA LoadedFields ==
  ASSUME NEW s \in LoadedAttempt
  PROVE  /\ s.guide \in Guide /\ s.code \in Code /\ s.root \in Variants
         /\ s.out \in SUBSET Files /\ s.left \in SUBSET Files
  BY DEF LoadedAttempt

\* A job of a worker's attempt: any attempt ends as an attempt.
LEMMA AttemptEnds ==
  ASSUME NEW s \in Attempt
  PROVE  [s EXCEPT !.at = "ended"] \in Attempt /\ [s EXCEPT !.at = "ended"].at = "ended"
  BY DEF Attempt, LoadedAttempt

\* However an attempt stops, it stays an attempt, and all but its slot and its
\* row stays as it is.
LEMMA AttemptStops ==
  ASSUME TypeOK, NEW j \in Jobs, Stops(j)
  PROVE  /\ worker[j] \in Attempt /\ worker[j] # NoAttempt
         /\ \E next \in Attempt : next.at \in Over /\ worker' = [worker EXCEPT ![j] = next]
         /\ UNCHANGED <<root, tree, guide, graph, complete, editor, builder, saves>>
<1>1. worker[j] \in Attempt /\ worker[j] # NoAttempt
  BY DEF Stops, Succeed, Exit, Fails, Dies, At, TypeOK, NoAttempt
<1>2. CASE Succeed(j) \/ Exit(j)
  <2>1. PICK step \in {"saved", "exited"} : worker' = [worker EXCEPT ![j].at = step]
    BY <1>2 DEF Succeed, Exit, Goes
  <2>2. worker[j] \in LoadedAttempt
    BY <1>2, LoadedAt DEF Succeed, Exit, At, Steps
  <2>3. [worker[j] EXCEPT !.at = step] \in Attempt /\ [worker[j] EXCEPT !.at = step].at = step
    BY <2>2, LoadedGoesOn DEF Attempt, Over
  <2>4. UNCHANGED <<root, tree, guide, graph, complete, editor, builder, saves>>
    BY <1>2 DEF Succeed, Exit
  <2> QED BY <1>1, <2>1, <2>3, <2>4 DEF Over
<1>3. CASE Fails(j) \/ Dies(j)
  <2>1. worker' = [worker EXCEPT ![j] = [worker[j] EXCEPT !.at = "ended"]]
    BY <1>3 DEF Fails, Dies, Goes
  <2>2. UNCHANGED <<root, tree, guide, graph, complete, editor, builder, saves>>
    BY <1>3 DEF Fails, Dies
  <2> QED BY <1>1, <2>1, <2>2, AttemptEnds DEF Over
<1> QED BY <1>2, <1>3 DEF Stops

\* A row keeps all but its status, and has one as before; other rows stay.
RowsKept(j) ==
  \A k \in Jobs : /\ job'[k].variant = job[k].variant
                  /\ job'[k].attempts = job[k].attempts
                  /\ job'[k].status # "none" <=> job[k].status # "none"
                  /\ k # j => job'[k] = job[k]

LEMMA RowStops ==
  ASSUME NEW j \in Jobs, TypeOK, job[j].status # "none", Stops(j)
  PROVE  job' \in [Jobs -> JobRow] /\ RowsKept(j)
<1>1. \/ UNCHANGED job
      \/ job' = [job EXCEPT ![j].status = "succeeded"]
      \/ job' = [job EXCEPT ![j].status = "failed"]
  BY DEF Stops, Succeed, Exit, Fails, Dies
<1>2. job \in [Jobs -> JobRow]
  BY DEF TypeOK
<1>3. CASE UNCHANGED job
  BY <1>2, <1>3 DEF RowsKept
<1>4. ASSUME NEW status \in {"succeeded", "failed"}, job' = [job EXCEPT ![j].status = status]
      PROVE  job' \in [Jobs -> JobRow] /\ RowsKept(j)
  <2>1. job[j] \in JobRow
    BY <1>2
  <2> DEFINE row == [job[j] EXCEPT !.status = status]
  <2>2. row \in JobRow /\ row.variant = job[j].variant /\ row.attempts = job[j].attempts
        /\ row.status = status
    BY <2>1 DEF JobRow
  <2>3. job' = [job EXCEPT ![j] = row]
    BY <1>4
  <2> HIDE DEF row
  <2>4. job' \in [Jobs -> JobRow] /\ \A k \in Jobs : job'[k] = IF k = j THEN row ELSE job[k]
    BY <1>2, <2>2, <2>3
  <2> QED BY <2>2, <2>4 DEF RowsKept
<1> QED BY <1>1, <1>3, <1>4

\* Only a slot that is open, or has read, belongs to a variant.
LEMMA EditorFields ==
  ASSUME TypeOK, NEW e \in Edits
  PROVE  /\ editor[e].at = "open" => editor[e].variant \in Variants /\ editor[e].text \in Text
         /\ editor[e].at = "read" => /\ editor[e].variant \in Variants
                                     /\ editor[e].text \in Text
                                     /\ editor[e].version \in Nat
  BY DEF TypeOK, EditorSlot

\* What a graph build that has read the code holds.
LEMMA BuilderFields ==
  ASSUME TypeOK, NEW b \in Builds, builder[b].at = "snapped"
  PROVE  builder[b].variant \in Variants /\ builder[b].code \in Code
  BY DEF TypeOK, BuilderSlot

\* The code below the root of an upload, and what one write makes of it.
LEMMA CodeOfTree ==
  ASSUME TypeOK, NEW r \in Variants
  PROVE  CodeAt(r) \in Code
  BY DEF TypeOK, CodeAt, ModuleDir

\* Which variants have code, and which variant a job is about.
RootsKnown ==
  /\ \A v \in Variants : root[v] # NoVariant => root[v] \in Variants
  /\ \A j \in Jobs : job[j].variant # NoVariant => root[job[j].variant] # NoVariant
  /\ \A j \in Jobs : job[j].status # "none" => job[j].variant \in Variants
  /\ \A j \in Jobs : worker[j] # NoAttempt => job[j].status # "none"
  /\ \A e \in Edits : editor[e].at \in {"open", "read"} => root[editor[e].variant] # NoVariant

TypeInv == TypeOK /\ RootsKnown

-----------------------------------------------------------------------------
\* Types are kept, and jobs and people work on variants that exist.
THEOREM TypeInvariant == Spec => []TypeInv
<1>1. Init => TypeInv
  <2> SUFFICES ASSUME Init PROVE TypeInv
    OBVIOUS
  <2>1. Original \in Code
    BY DEF Original, Code
  <2>2. [text |-> {}, version |-> 1] \in Guide
    BY DEF Guide
  <2>3. [variant |-> NoVariant, status |-> "none", attempts |-> 0] \in JobRow
    BY ApplyAttemptsAssumption DEF JobRow
  <2>4. [at |-> "idle"] \in EditorSlot /\ [at |-> "idle"] \in BuilderSlot
    BY DEF EditorSlot, BuilderSlot
  <2>5. TypeOK
    BY <2>1, <2>2, <2>3, <2>4, UploadedAssumption DEF Init, TypeOK
  <2>6. RootsKnown
    BY NoVariantAssumption, UploadedAssumption DEF Init, RootsKnown
  <2> QED BY <2>5, <2>6 DEF TypeInv
<1>2. ASSUME TypeInv, [Next]_vars PROVE TypeInv'
  <2> USE <1>2
  <2>0. TypeOK /\ RootsKnown
    BY DEF TypeInv
  <2> USE <2>0
  <2>a. ASSUME NEW j \in Jobs, worker[j] \in LoadedAttempt, NEW s \in LoadedAttempt,
               worker' = [worker EXCEPT ![j] = s],
               UNCHANGED <<root, job, editor>>,
               tree' \in [Variants -> [{"top", "module"} -> Code]],
               guide' \in [Variants -> Guide], graph' \in [Variants -> Code],
               complete' \subseteq Jobs,
               builder' \in [Builds -> BuilderSlot], saves' \in [Variants -> Nat]
        PROVE  TypeInv'
    <3>1. worker' \in [Jobs -> Attempt \cup {NoAttempt}]
      BY <2>a DEF TypeOK, Attempt
    <3>2. TypeOK'
      BY <2>a, <3>1 DEF TypeOK
    <3>3. worker[j] # NoAttempt
      BY <2>a DEF NoAttempt, LoadedAttempt
    <3>4. \A k \in Jobs : worker'[k] # NoAttempt => worker[k] # NoAttempt
      BY <2>a, <3>3 DEF TypeOK
    <3>5. RootsKnown'
      BY <2>a, <3>4 DEF RootsKnown
    <3> QED BY <3>2, <3>5 DEF TypeInv
  <2>b. ASSUME NEW j \in Jobs, worker[j].at \in Steps
        PROVE  /\ job[j].variant \in Variants
               /\ root[job[j].variant] \in Variants
               /\ worker[j] \in LoadedAttempt
    <3>1. worker[j] \in LoadedAttempt
      BY <2>b, LoadedAt
    <3>2. worker[j] # NoAttempt
      BY <3>1 DEF NoAttempt, LoadedAttempt
    <3> QED BY <3>1, <3>2, NoVariantAssumption DEF RootsKnown
  <2>1. ASSUME NEW j \in Jobs, NEW v \in Variants, Request(j, v) PROVE TypeInv'
    <3>1. job' = [job EXCEPT ![j] = [job[j] EXCEPT !.variant = v, !.status = "queued"]]
      BY <2>1 DEF Request
    <3>2. /\ [job[j] EXCEPT !.variant = v, !.status = "queued"] \in JobRow
          /\ [job[j] EXCEPT !.variant = v, !.status = "queued"].variant = v
          /\ [job[j] EXCEPT !.variant = v, !.status = "queued"].status = "queued"
      BY DEF TypeOK, JobRow
    <3>3. TypeOK'
      BY <2>1, <3>1, <3>2 DEF Request, TypeOK
    <3>4. RootsKnown'
      BY <2>1, <3>1, <3>2 DEF Request, RootsKnown, TypeOK
    <3> QED BY <3>3, <3>4 DEF TypeInv
  <2>2. ASSUME NEW v \in Variants, NEW w \in Variants, Fork(v, w) PROVE TypeInv'
    <3>1. TypeOK'
      BY <2>2 DEF Fork, TypeOK
    <3>2. \A x \in Variants : root'[x] = root[x] \/ (x = w /\ root'[x] = root[v])
      BY <2>2 DEF Fork, TypeOK
    <3>3. \A x \in Variants : root[x] # NoVariant => root'[x] # NoVariant
      BY <2>2, <3>2 DEF Fork
    <3>4. \A j \in Jobs : job[j].variant # NoVariant => job[j].variant \in Variants
      BY DEF TypeOK, JobRow
    <3>5. RootsKnown'
      BY <2>2, <3>2, <3>3, <3>4, EditorFields DEF Fork, RootsKnown
    <3> QED BY <3>1, <3>5 DEF TypeInv
  <2>3. ASSUME NEW j \in Jobs, Begin(j) PROVE TypeInv'
    <3>1. job' = [job EXCEPT ![j] = [job[j] EXCEPT !.status = "running",
                                                   !.attempts = job[j].attempts + 1]]
      BY <2>3 DEF Begin
    <3>2. /\ [job[j] EXCEPT !.status = "running", !.attempts = job[j].attempts + 1] \in JobRow
          /\ [job[j] EXCEPT !.status = "running", !.attempts = job[j].attempts + 1].variant
               = job[j].variant
          /\ [job[j] EXCEPT !.status = "running", !.attempts = job[j].attempts + 1].status
               = "running"
      BY <2>3, ApplyAttemptsAssumption DEF Begin, TypeOK, JobRow
    <3>3. worker' \in [Jobs -> Attempt \cup {NoAttempt}]
      BY <2>3 DEF Begin, TypeOK, Attempt
    <3>4. TypeOK'
      BY <2>3, <3>1, <3>2, <3>3 DEF Begin, TypeOK
    <3>5. job[j].status # "none"
      BY <2>3 DEF Begin, At, NoAttempt, RootsKnown
    <3>6. RootsKnown'
      BY <2>3, <3>1, <3>2, <3>5 DEF Begin, RootsKnown, TypeOK
    <3> QED BY <3>4, <3>6 DEF TypeInv
  <2>4. ASSUME NEW j \in Jobs, Load(j) PROVE TypeInv'
    <3>1. worker[j] # NoAttempt
      BY <2>4 DEF Load, At, NoAttempt
    <3>2. job[j].variant \in Variants /\ root[job[j].variant] \in Variants
      BY <3>1, NoVariantAssumption DEF RootsKnown
    <3>3. PICK wants \in Wants :
            worker' = [worker EXCEPT ![j] =
              [at |-> "loaded", wants |-> wants, root |-> root[job[j].variant],
               guide |-> guide[job[j].variant], code |-> Original, out |-> {}, left |-> {}]]
      BY <2>4 DEF Load
    <3>4. [at |-> "loaded", wants |-> wants, root |-> root[job[j].variant],
           guide |-> guide[job[j].variant], code |-> Original, out |-> {}, left |-> {}]
             \in LoadedAttempt
      BY <3>2 DEF LoadedAttempt, TypeOK, Original, Code
    <3>5. worker' \in [Jobs -> Attempt \cup {NoAttempt}]
      BY <3>3, <3>4 DEF TypeOK, Attempt
    <3>6. TypeOK'
      BY <2>4, <3>5 DEF Load, TypeOK
    <3>7. \A k \in Jobs : worker'[k] # NoAttempt => worker[k] # NoAttempt
      BY <3>1, <3>3 DEF TypeOK
    <3>8. RootsKnown'
      BY <2>4, <3>7 DEF Load, RootsKnown
    <3> QED BY <3>6, <3>8 DEF TypeInv
  <2>5. ASSUME NEW j \in Jobs, Materialize(j) PROVE TypeInv'
    <3>1. worker[j] \in LoadedAttempt
      BY <2>5, <2>b DEF Materialize, At, Steps
    <3>2. CodeAt(worker[j].root) \in Code
      BY <3>1, LoadedFields, CodeOfTree
    <3>3. [worker[j] EXCEPT !.at = "read", !.code = CodeAt(worker[j].root)] \in LoadedAttempt
      BY <3>1, <3>2 DEF LoadedAttempt
    <3>4. worker' = [worker EXCEPT ![j] =
            [worker[j] EXCEPT !.at = "read", !.code = CodeAt(worker[j].root)]]
      BY <2>5 DEF Materialize
    <3> QED BY <2>5, <2>a, <3>1, <3>3, <3>4 DEF Materialize, TypeOK
  <2>6. ASSUME NEW j \in Jobs, Generate(j) PROVE TypeInv'
    <3>1. worker[j] \in LoadedAttempt
      BY <2>6, <2>b DEF Generate, At, Steps
    <3>2. PICK out \in SUBSET Files :
            worker' = [worker EXCEPT ![j] =
              [worker[j] EXCEPT !.at = "generated", !.out = out]]
      BY <2>6 DEF Generate
    <3>3. [worker[j] EXCEPT !.at = "generated", !.out = out] \in LoadedAttempt
      BY <3>1 DEF LoadedAttempt
    <3> QED BY <2>6, <2>a, <3>1, <3>2, <3>3 DEF Generate, TypeOK
  <2>7. ASSUME NEW j \in Jobs, NEW blank \in BOOLEAN, SaveGuide(j, blank) PROVE TypeInv'
    <3>1. worker[j] \in LoadedAttempt /\ job[j].variant \in Variants
      BY <2>7, <2>b DEF SaveGuide, At, Steps
    <3>2. [worker[j] EXCEPT !.at = "guided"] \in LoadedAttempt
      BY <3>1, LoadedGoesOn DEF Steps
    <3>3. worker' = [worker EXCEPT ![j] = [worker[j] EXCEPT !.at = "guided"]]
      BY <2>7 DEF SaveGuide, Goes
    <3>4. [text |-> worker[j].guide.text \cup {j}, version |-> worker[j].guide.version + 1]
            \in Guide
      BY <3>1, LoadedFields DEF Guide
    <3>5. guide' \in [Variants -> Guide] /\ saves' \in [Variants -> Nat]
      <4>1. \/ UNCHANGED <<guide, saves>>
            \/ /\ guide' = [guide EXCEPT ![job[j].variant] =
                   [text |-> worker[j].guide.text \cup {j},
                    version |-> worker[j].guide.version + 1]]
               /\ saves' = [saves EXCEPT ![job[j].variant] = @ + 1]
        BY <2>7 DEF SaveGuide
      <4> QED BY <4>1, <3>1, <3>4 DEF TypeOK
    <3> QED BY <2>7, <2>a, <3>1, <3>2, <3>3, <3>5 DEF SaveGuide, TypeOK
  <2>8. ASSUME NEW j \in Jobs, CheckOutput(j) PROVE TypeInv'
    <3>1. worker[j] \in LoadedAttempt
      BY <2>8, <2>b DEF CheckOutput, At, Steps
    <3>2. /\ [worker[j] EXCEPT !.at = "finishing", !.out = {}] \in LoadedAttempt
          /\ [worker[j] EXCEPT !.at = "writing", !.left = worker[j].out] \in LoadedAttempt
      BY <3>1 DEF LoadedAttempt
    <3>3. \/ worker' = [worker EXCEPT ![j] =
               [worker[j] EXCEPT !.at = "finishing", !.out = {}]]
          \/ worker' = [worker EXCEPT ![j] = [worker[j] EXCEPT !.at = "writing", !.left = worker[j].out]]
      BY <2>8 DEF CheckOutput, Goes
    <3>4. complete' \subseteq Jobs
      BY <2>8 DEF CheckOutput, TypeOK
    <3> QED BY <2>8, <2>a, <3>1, <3>2, <3>3, <3>4 DEF CheckOutput, TypeOK
  <2>9. ASSUME NEW j \in Jobs, NEW f \in Files, WriteFile(j, f) PROVE TypeInv'
    <3>1. worker[j] \in LoadedAttempt
      BY <2>9, <2>b DEF WriteFile, At, Steps
    <3>2. [worker[j] EXCEPT !.left = worker[j].left \ {f}] \in LoadedAttempt
      BY <3>1 DEF LoadedAttempt
    <3>3. worker' = [worker EXCEPT ![j] = [worker[j] EXCEPT !.left = worker[j].left \ {f}]]
      BY <2>9 DEF WriteFile
    <3>4. worker[j].code[f] \cup {j} \in SUBSET Jobs
      BY <3>1, LoadedFields DEF Code
    <3>5. tree' \in [Variants -> [{"top", "module"} -> Code]]
      BY <2>9, <3>4 DEF WriteFile, TypeOK, Code
    <3> QED BY <2>9, <2>a, <3>1, <3>2, <3>3, <3>5 DEF WriteFile, TypeOK
  <2>10. ASSUME NEW j \in Jobs, SyncRead(j) PROVE TypeInv'
    <3>1. worker[j] \in LoadedAttempt /\ root[job[j].variant] \in Variants
      BY <2>10, <2>b DEF SyncRead, At, Steps
    <3>2. CodeAt(root[job[j].variant]) \in Code
      BY <3>1, CodeOfTree
    <3>3. [worker[j] EXCEPT !.at = "snapped", !.code = CodeAt(root[job[j].variant])]
            \in LoadedAttempt
      BY <3>1, <3>2 DEF LoadedAttempt
    <3>4. worker' = [worker EXCEPT ![j] =
            [worker[j] EXCEPT !.at = "snapped", !.code = CodeAt(root[job[j].variant])]]
      BY <2>10 DEF SyncRead
    <3> QED BY <2>10, <2>a, <3>1, <3>3, <3>4 DEF SyncRead, TypeOK
  <2>11. ASSUME NEW j \in Jobs, SyncCommit(j) PROVE TypeInv'
    <3>1. worker[j] \in LoadedAttempt /\ job[j].variant \in Variants
      BY <2>11, <2>b DEF SyncCommit, At, Steps
    <3>2. [worker[j] EXCEPT !.at = "synced"] \in LoadedAttempt
      BY <3>1, LoadedGoesOn DEF Steps
    <3>3. worker' = [worker EXCEPT ![j] = [worker[j] EXCEPT !.at = "synced"]]
      BY <2>11 DEF SyncCommit, Goes
    <3>4. graph' \in [Variants -> Code]
      BY <2>11, <3>1, LoadedFields DEF SyncCommit, TypeOK
    <3> QED BY <2>11, <2>a, <3>1, <3>2, <3>3, <3>4 DEF SyncCommit, TypeOK
  <2>12. ASSUME NEW j \in Jobs, Align(j) PROVE TypeInv'
    <3>1. worker[j] \in LoadedAttempt /\ job[j].variant \in Variants
      BY <2>12, <2>b DEF Align, At, Steps
    <3>2. [worker[j] EXCEPT !.at = "finishing"] \in LoadedAttempt
      BY <3>1, LoadedGoesOn DEF Steps
    <3>3. worker' = [worker EXCEPT ![j] = [worker[j] EXCEPT !.at = "finishing"]]
      BY <2>12 DEF Align, Goes
    <3>4. complete' \subseteq Jobs
      BY <2>12, <3>1 DEF Align, TypeOK
    <3> QED BY <2>12, <2>a, <3>1, <3>2, <3>3, <3>4 DEF Align, TypeOK
  <2>13. ASSUME NEW j \in Jobs, Stops(j) PROVE TypeInv'
    <3>1. PICK next \in Attempt : next.at \in Over /\ worker' = [worker EXCEPT ![j] = next]
      BY <2>13, AttemptStops
    <3>2. /\ worker[j] # NoAttempt
          /\ UNCHANGED <<root, tree, guide, graph, complete, editor, builder, saves>>
      BY <2>13, AttemptStops
    <3>3. worker' \in [Jobs -> Attempt \cup {NoAttempt}]
      BY <3>1 DEF TypeOK
    <3>4. job[j].status # "none"
      BY <3>2 DEF RootsKnown
    <3>5. TypeOK'
      BY <2>13, <3>2, <3>3, <3>4, RowStops DEF TypeOK
    <3>6. \A k \in Jobs : worker'[k] # NoAttempt => worker[k] # NoAttempt
      BY <3>1, <3>2 DEF TypeOK
    <3>7. \A k \in Jobs : /\ job'[k].variant = job[k].variant
                          /\ job'[k].status # "none" <=> job[k].status # "none"
      BY <2>13, <3>4, RowStops DEF RowsKept
    <3>8. RootsKnown'
      BY <3>2, <3>6, <3>7 DEF RootsKnown
    <3> QED BY <3>5, <3>8 DEF TypeInv
  <2>15. ASSUME NEW e \in Edits, NEW v \in Variants, OpenGuide(e, v) PROVE TypeInv'
    <3>1. [at |-> "open", variant |-> v, text |-> guide[v].text] \in EditorSlot
      BY DEF TypeOK, Guide, EditorSlot, Text
    <3>2. editor' = [editor EXCEPT ![e] = [at |-> "open", variant |-> v, text |-> guide[v].text]]
      BY <2>15 DEF OpenGuide
    <3>3. TypeOK'
      BY <2>15, <3>1, <3>2 DEF OpenGuide, TypeOK
    <3>4. RootsKnown'
      BY <2>15, <3>2 DEF OpenGuide, RootsKnown, TypeOK
    <3> QED BY <3>3, <3>4 DEF TypeInv
  <2>16. ASSUME NEW e \in Edits, ReadGuide(e) PROVE TypeInv'
    <3> DEFINE v == editor[e].variant
               slot == [at |-> "read", variant |-> v, text |-> editor[e].text,
                        version |-> guide[v].version]
    <3>1. v \in Variants /\ editor[e].text \in Text
      BY <2>16, EditorFields DEF ReadGuide
    <3>2. slot \in EditorSlot
      BY <3>1 DEF TypeOK, Guide, EditorSlot
    <3>3. editor' = [editor EXCEPT ![e] = slot]
      BY <2>16 DEF ReadGuide
    <3>4. TypeOK'
      BY <2>16, <3>2, <3>3 DEF ReadGuide, TypeOK
    <3>5. root[v] # NoVariant
      BY <2>16 DEF ReadGuide, RootsKnown
    <3>6. slot.variant = v
      OBVIOUS
    <3>7. RootsKnown'
      BY <2>16, <3>3, <3>5, <3>6 DEF ReadGuide, RootsKnown, TypeOK
    <3> QED BY <3>4, <3>7 DEF TypeInv
  <2>17. ASSUME NEW e \in Edits, EditGuide(e) PROVE TypeInv'
    <3> DEFINE v == editor[e].variant
    <3>1. v \in Variants /\ editor[e].text \in Text /\ editor[e].version \in Nat
      BY <2>17, EditorFields DEF EditGuide
    <3>2. [text |-> editor[e].text \cup {e}, version |-> editor[e].version + 1] \in Guide
      BY <3>1 DEF Guide, Text
    <3>3. guide' \in [Variants -> Guide] /\ saves' \in [Variants -> Nat]
      BY <2>17, <3>1, <3>2 DEF EditGuide, TypeOK
    <3>4. editor' \in [Edits -> EditorSlot]
      BY <2>17 DEF EditGuide, TypeOK, EditorSlot
    <3>5. TypeOK'
      BY <2>17, <3>3, <3>4 DEF EditGuide, TypeOK
    <3>6. RootsKnown'
      BY <2>17 DEF EditGuide, RootsKnown, TypeOK
    <3> QED BY <3>5, <3>6 DEF TypeInv
  <2>18. ASSUME NEW b \in Builds, NEW v \in Variants, BuildRead(b, v) PROVE TypeInv'
    <3>1. root[v] \in Variants
      BY <2>18 DEF BuildRead, RootsKnown
    <3>2. [at |-> "snapped", variant |-> v, code |-> CodeAt(root[v])] \in BuilderSlot
      BY <3>1, CodeOfTree DEF BuilderSlot
    <3>3. TypeOK'
      BY <2>18, <3>2 DEF BuildRead, TypeOK
    <3>4. RootsKnown'
      BY <2>18 DEF BuildRead, RootsKnown
    <3> QED BY <3>3, <3>4 DEF TypeInv
  <2>19. ASSUME NEW b \in Builds, BuildCommit(b) PROVE TypeInv'
    <3>1. builder[b].variant \in Variants /\ builder[b].code \in Code
      BY <2>19, BuilderFields DEF BuildCommit
    <3>2. [at |-> "done"] \in BuilderSlot
      BY DEF BuilderSlot
    <3>3. TypeOK'
      BY <2>19, <3>1, <3>2 DEF BuildCommit, TypeOK
    <3>4. RootsKnown'
      BY <2>19 DEF BuildCommit, RootsKnown
    <3> QED BY <3>3, <3>4 DEF TypeInv
  <2>20. CASE UNCHANGED vars
    BY <2>20 DEF vars, TypeInv, TypeOK, RootsKnown
  <2> QED
    BY <2>1, <2>2, <2>3, <2>4, <2>5, <2>6, <2>7, <2>8, <2>9, <2>10, <2>11, <2>12,
       <2>13, <2>15, <2>16, <2>17, <2>18, <2>19, <2>20 DEF Next, ApplyStep, Stops
<1> QED BY <1>1, <1>2, PTL DEF Spec

\* TypeOK is an invariant, whatever interleaves.
THEOREM ApplyTypeCorrect == Spec => []TypeOK
  BY TypeInvariant, PTL DEF TypeInv

-----------------------------------------------------------------------------
\* Number n is a version the guide of v may have had.
Bounded(v, n) == n \in 1 .. 1 + saves[v]

\* The guides an attempt may still save.
EarlySteps == {"loaded", "read", "generated"}

VersionInv ==
  /\ \A v \in Variants : Bounded(v, guide[v].version)
  /\ \A j \in Jobs : worker[j].at \in EarlySteps =>
       Bounded(job[j].variant, worker[j].guide.version)
  /\ \A e \in Edits : editor[e].at = "read" =>
       Bounded(editor[e].variant, editor[e].version)

\* A step that saves no guide, and loads none, keeps the bounds.
LEMMA VersionsKept ==
  ASSUME VersionInv, UNCHANGED <<guide, saves>>,
         \A k \in Jobs : worker'[k].at \in EarlySteps =>
           /\ worker[k].at \in EarlySteps
           /\ worker'[k].guide = worker[k].guide
           /\ job'[k].variant = job[k].variant,
         \A e \in Edits : editor'[e].at = "read" => editor'[e] = editor[e]
  PROVE  VersionInv'
  BY DEF VersionInv, Bounded

\* A step that saves a guide of v, from a version that v has had, keeps them.
LEMMA VersionsSaved ==
  ASSUME TypeOK, VersionInv, NEW v \in Variants, NEW n \in Nat, Bounded(v, n),
         NEW text,
         guide' = [guide EXCEPT ![v] = [text |-> text, version |-> n + 1]],
         saves' = [saves EXCEPT ![v] = @ + 1],
         UNCHANGED job,
         \A k \in Jobs : worker'[k].at \in EarlySteps => worker'[k] = worker[k],
         \A e \in Edits : editor'[e].at = "read" => editor'[e] = editor[e]
  PROVE  VersionInv'
<1>1. \A w \in Variants : saves[w] \in Nat /\ saves'[w] \in Nat /\ saves'[w] >= saves[w]
  BY DEF TypeOK
<1>2. saves'[v] = saves[v] + 1
  BY DEF TypeOK
<1>3. \A w \in Variants : guide'[w].version = IF w = v THEN n + 1 ELSE guide[w].version
  BY DEF TypeOK
<1>4. \A w \in Variants, m \in Nat : m \in 1 .. 1 + saves[w] => m \in 1 .. 1 + saves'[w]
  BY <1>1
<1>5. \A w \in Variants : guide'[w].version \in 1 .. 1 + saves'[w]
  <2>1. n + 1 \in 1 .. 1 + saves'[v]
    BY <1>1, <1>2 DEF Bounded
  <2>2. \A w \in Variants : guide[w].version \in Nat
    BY DEF TypeOK, Guide
  <2> QED BY <2>1, <2>2, <1>3, <1>4 DEF VersionInv, Bounded
<1>6. ASSUME NEW k \in Jobs, worker'[k].at \in EarlySteps
      PROVE  worker'[k].guide.version \in 1 .. 1 + saves'[job'[k].variant]
  <2>1. worker'[k] = worker[k]
    BY <1>6
  <2>2. worker[k].guide.version \in 1 .. 1 + saves[job[k].variant]
    BY <1>6, <2>1 DEF VersionInv, Bounded
  <2>3. job[k].variant \in Variants \/ saves'[job[k].variant] = saves[job[k].variant]
    BY DEF TypeOK
  <2> QED BY <2>1, <2>2, <2>3, <1>1
<1>7. ASSUME NEW e \in Edits, editor'[e].at = "read"
      PROVE  editor'[e].version \in 1 .. 1 + saves'[editor'[e].variant]
  <2>1. editor'[e] = editor[e]
    BY <1>7
  <2>2. editor[e].version \in 1 .. 1 + saves[editor[e].variant]
    BY <1>7, <2>1 DEF VersionInv, Bounded
  <2>3. editor[e].variant \in Variants
    BY <1>7, <2>1, EditorFields
  <2> QED BY <2>1, <2>2, <2>3, <1>1
<1> QED BY <1>5, <1>6, <1>7 DEF VersionInv, Bounded

\* Rows and copies in flight stay within the updates of their variant.
THEOREM VersionInvariant == Spec => []VersionInv
<1>1. Init => VersionInv
  BY DEF Init, VersionInv, Bounded, EarlySteps, NoAttempt
<1>2. ASSUME TypeInv, VersionInv, [Next]_vars PROVE VersionInv'
  <2> USE <1>2
  <2>0. TypeOK /\ RootsKnown
    BY DEF TypeInv
  <2> USE <2>0
  <2>b. ASSUME NEW j \in Jobs, worker[j].at \in Steps \cup {"begun"}
        PROVE  job[j].variant \in Variants
    BY <2>b DEF RootsKnown, NoAttempt, Steps
  <2>a. ASSUME NEW j \in Jobs, NEW next,
               worker' = [worker EXCEPT ![j] = next],
               next.at \in EarlySteps =>
                 worker[j].at \in EarlySteps /\ next.guide = worker[j].guide,
               \A k \in Jobs : job'[k].variant = job[k].variant,
               UNCHANGED <<guide, saves, editor>>
        PROVE  VersionInv'
    <3>1. \A k \in Jobs : worker'[k] = IF k = j THEN next ELSE worker[k]
      BY <2>a DEF TypeOK
    <3> QED BY <2>a, <3>1, VersionsKept
  <2>1. ASSUME NEW j \in Jobs, NEW v \in Variants, Request(j, v) PROVE VersionInv'
    <3>1. worker[j] = NoAttempt
      BY <2>1 DEF Request, RootsKnown
    <3>2. \A k \in Jobs : k # j => job'[k] = job[k]
      BY <2>1 DEF Request, TypeOK
    <3>3. UNCHANGED <<guide, saves, worker, editor>>
      BY <2>1 DEF Request
    <3>4. \A k \in Jobs : worker[k].at \in EarlySteps => k # j
      BY <3>1 DEF NoAttempt, EarlySteps
    <3> QED BY <3>2, <3>3, <3>4, VersionsKept
  <2>2. ASSUME NEW v \in Variants, NEW w \in Variants, Fork(v, w) PROVE VersionInv'
    <3>a. /\ saves' = [saves EXCEPT ![w] = saves[v]] /\ saves \in [Variants -> Nat]
          /\ guide' = [guide EXCEPT ![w] = guide[v]] /\ guide \in [Variants -> Guide]
      BY <2>2 DEF Fork, TypeOK
    <3>b. \A x \in Variants : saves'[x] = IF x = w THEN saves[v] ELSE saves[x]
      BY <3>a
    <3>c. \A x \in Variants : guide'[x] = IF x = w THEN guide[v] ELSE guide[x]
      BY <3>a
    <3>1. \A x \in Variants : /\ saves'[x] = (IF x = w THEN saves[v] ELSE saves[x])
                               /\ guide'[x] = (IF x = w THEN guide[v] ELSE guide[x])
      BY <3>b, <3>c
    <3>d. \A x \in Variants : guide[x].version \in 1 .. 1 + saves[x]
      BY DEF VersionInv, Bounded
    <3>2. \A k \in Jobs : worker[k].at \in EarlySteps => job[k].variant # w
      BY <2>2, <2>b, NoVariantAssumption DEF Fork, RootsKnown, EarlySteps, Steps
    <3>3. \A e \in Edits : editor[e].at = "read" => editor[e].variant # w
      BY <2>2 DEF Fork, RootsKnown
    <3>4. \A x \in Variants : guide'[x].version \in 1 .. 1 + saves'[x]
      BY <3>1, <3>d
    <3>5. ASSUME NEW k \in Jobs, worker[k].at \in EarlySteps
          PROVE  saves'[job[k].variant] = saves[job[k].variant]
      BY <3>5, <3>1, <3>2, <2>b DEF EarlySteps, Steps
    <3>6. ASSUME NEW e \in Edits, editor[e].at = "read"
          PROVE  saves'[editor[e].variant] = saves[editor[e].variant]
      BY <3>6, <3>1, <3>3, EditorFields
    <3> QED BY <2>2, <3>4, <3>5, <3>6 DEF Fork, VersionInv, Bounded
  <2>3. ASSUME NEW j \in Jobs, Begin(j) PROVE VersionInv'
    <3>1. \A k \in Jobs : job'[k].variant = job[k].variant
      BY <2>3 DEF Begin, TypeOK, JobRow
    <3> QED BY <2>3, <2>a, <3>1 DEF Begin, EarlySteps
  <2>4. ASSUME NEW j \in Jobs, Load(j) PROVE VersionInv'
    <3>1. job[j].variant \in Variants
      BY <2>4, <2>b DEF Load, At
    <3>2. PICK wants \in Wants :
            worker' = [worker EXCEPT ![j] =
              [at |-> "loaded", wants |-> wants, root |-> root[job[j].variant],
               guide |-> guide[job[j].variant], code |-> Original, out |-> {}, left |-> {}]]
      BY <2>4 DEF Load
    <3>3. \A k \in Jobs : k # j => worker'[k] = worker[k]
      BY <3>2 DEF TypeOK
    <3>4. worker'[j].guide = guide[job[j].variant]
      BY <3>2 DEF TypeOK
    <3> QED BY <2>4, <3>1, <3>3, <3>4 DEF Load, VersionInv, Bounded
  <2>5. ASSUME NEW j \in Jobs, Materialize(j) PROVE VersionInv'
    <3>1. worker' = [worker EXCEPT ![j] =
            [worker[j] EXCEPT !.at = "read", !.code = CodeAt(worker[j].root)]]
      BY <2>5 DEF Materialize
    <3>2. worker[j].at = "loaded" /\ worker[j] \in LoadedAttempt
      BY <2>5, LoadedAt DEF Materialize, At, Steps
    <3>3. [worker[j] EXCEPT !.at = "read", !.code = CodeAt(worker[j].root)].guide
            = worker[j].guide
      BY <3>2 DEF LoadedAttempt
    <3> QED BY <2>5, <2>a, <3>1, <3>2, <3>3 DEF Materialize, EarlySteps
  <2>6. ASSUME NEW j \in Jobs, Generate(j) PROVE VersionInv'
    <3>1. worker[j].at = "read" /\ worker[j] \in LoadedAttempt
      BY <2>6, LoadedAt DEF Generate, At, Steps
    <3>2. PICK out \in SUBSET Files :
            worker' = [worker EXCEPT ![j] =
              [worker[j] EXCEPT !.at = "generated", !.out = out]]
      BY <2>6 DEF Generate
    <3>3. [worker[j] EXCEPT !.at = "generated", !.out = out].guide
            = worker[j].guide
      BY <3>1 DEF LoadedAttempt
    <3> QED BY <2>6, <2>a, <3>1, <3>2, <3>3 DEF Generate, EarlySteps
  <2>7. ASSUME NEW j \in Jobs, NEW blank \in BOOLEAN, SaveGuide(j, blank) PROVE VersionInv'
    <3>1. worker[j].at = "generated" /\ worker[j] \in LoadedAttempt
      BY <2>7, LoadedAt DEF SaveGuide, At, Steps
    <3>2. worker' = [worker EXCEPT ![j] = [worker[j] EXCEPT !.at = "guided"]]
      BY <2>7 DEF SaveGuide, Goes
    <3>3. [worker[j] EXCEPT !.at = "guided"].at = "guided"
      BY <3>1, LoadedGoesOn DEF Steps
    <3>4. CASE UNCHANGED <<guide, saves>>
      BY <2>7, <2>a, <3>2, <3>3, <3>4 DEF SaveGuide, EarlySteps
    <3>5. CASE /\ guide' = [guide EXCEPT ![job[j].variant] =
                              [text |-> worker[j].guide.text \cup {j},
                               version |-> worker[j].guide.version + 1]]
               /\ saves' = [saves EXCEPT ![job[j].variant] = @ + 1]
      <4>1. job[j].variant \in Variants
        BY <3>1, <2>b DEF Steps
      <4>2. Bounded(job[j].variant, worker[j].guide.version)
        BY <3>1 DEF VersionInv, EarlySteps
      <4>3. worker[j].guide.version \in Nat
        BY <3>1, LoadedFields DEF Guide
      <4>4. \A k \in Jobs : worker'[k].at \in EarlySteps => worker'[k] = worker[k]
        BY <3>2, <3>3 DEF TypeOK, EarlySteps
      <4>5. UNCHANGED <<job, editor>>
        BY <2>7 DEF SaveGuide
      <4> QED BY <3>5, <4>1, <4>2, <4>3, <4>4, <4>5, VersionsSaved
    <3> QED BY <2>7, <3>4, <3>5 DEF SaveGuide
  <2>8. ASSUME NEW j \in Jobs, worker[j].at \in Steps,
               NEW step \in Steps \cup {"ended"}, step \notin EarlySteps,
               Goes(j, step),
               \A k \in Jobs : job'[k].variant = job[k].variant,
               UNCHANGED <<guide, saves, editor>>
        PROVE  VersionInv'
    <3>1. [worker[j] EXCEPT !.at = step].at = step
      BY <2>8, LoadedAt, LoadedGoesOn
    <3> QED BY <2>8, <2>a, <3>1 DEF Goes
  <2>9. ASSUME NEW j \in Jobs, CheckOutput(j) PROVE VersionInv'
    <3>1. worker[j] \in LoadedAttempt
      BY <2>9, LoadedAt DEF CheckOutput, At, Steps
    <3>2. /\ [worker[j] EXCEPT !.at = "finishing", !.out = {}].at = "finishing"
          /\ [worker[j] EXCEPT !.at = "writing", !.left = worker[j].out].at = "writing"
      BY <3>1 DEF LoadedAttempt
    <3>3. \/ worker' = [worker EXCEPT ![j] =
               [worker[j] EXCEPT !.at = "finishing", !.out = {}]]
          \/ worker' = [worker EXCEPT ![j] = [worker[j] EXCEPT !.at = "writing", !.left = worker[j].out]]
      BY <2>9 DEF CheckOutput, Goes
    <3> QED BY <2>9, <2>a, <3>2, <3>3 DEF CheckOutput, EarlySteps
  <2>10. ASSUME NEW j \in Jobs, NEW f \in Files, WriteFile(j, f) PROVE VersionInv'
    <3>1. worker[j] \in LoadedAttempt /\ worker[j].at = "writing"
      BY <2>10, LoadedAt DEF WriteFile, At, Steps
    <3>2. [worker[j] EXCEPT !.left = worker[j].left \ {f}].at = "writing"
      BY <3>1 DEF LoadedAttempt
    <3>3. worker' = [worker EXCEPT ![j] = [worker[j] EXCEPT !.left = worker[j].left \ {f}]]
      BY <2>10 DEF WriteFile
    <3> QED BY <2>10, <2>a, <3>2, <3>3 DEF WriteFile, EarlySteps
  <2>11. ASSUME NEW j \in Jobs, SyncRead(j) PROVE VersionInv'
    <3>1. worker[j] \in LoadedAttempt
      BY <2>11, LoadedAt DEF SyncRead, At, Steps
    <3>2. [worker[j] EXCEPT !.at = "snapped", !.code = CodeAt(root[job[j].variant])].at
            = "snapped"
      BY <3>1 DEF LoadedAttempt
    <3>3. worker' = [worker EXCEPT ![j] =
            [worker[j] EXCEPT !.at = "snapped", !.code = CodeAt(root[job[j].variant])]]
      BY <2>11 DEF SyncRead
    <3> QED BY <2>11, <2>a, <3>2, <3>3 DEF SyncRead, EarlySteps
  <2>12. ASSUME NEW j \in Jobs, SyncCommit(j) \/ Align(j) PROVE VersionInv'
    BY <2>8, <2>12 DEF SyncCommit, Align, At, Steps, EarlySteps
  <2>13. ASSUME NEW j \in Jobs, Stops(j) PROVE VersionInv'
    <3>1. PICK next \in Attempt : next.at \in Over /\ worker' = [worker EXCEPT ![j] = next]
      BY <2>13, AttemptStops
    <3>2. worker[j] # NoAttempt /\ UNCHANGED <<guide, editor, saves>>
      BY <2>13, AttemptStops
    <3>3. \A k \in Jobs : job'[k].variant = job[k].variant
      BY <2>13, <3>2, RowStops DEF RootsKnown, RowsKept
    <3> QED BY <2>a, <3>1, <3>2, <3>3 DEF EarlySteps, Over
  <2>14. ASSUME NEW e \in Edits, NEW v \in Variants, OpenGuide(e, v) PROVE VersionInv'
    <3>1. \A d \in Edits : editor'[d].at = "read" => editor'[d] = editor[d]
      BY <2>14 DEF OpenGuide, TypeOK
    <3> QED BY <2>14, <3>1, VersionsKept DEF OpenGuide
  <2>15. ASSUME NEW e \in Edits, ReadGuide(e) PROVE VersionInv'
    <3> DEFINE v == editor[e].variant
    <3>1. v \in Variants
      BY <2>15, EditorFields DEF ReadGuide
    <3>2. \A d \in Edits :
            IF d = e THEN editor'[d].variant = v /\ editor'[d].version = guide[v].version
            ELSE editor'[d] = editor[d]
      BY <2>15 DEF ReadGuide, TypeOK
    <3>3. UNCHANGED <<guide, saves, job, worker>>
      BY <2>15 DEF ReadGuide
    <3> HIDE DEF v
    <3> QED BY <3>1, <3>2, <3>3 DEF VersionInv, Bounded
  <2>16. ASSUME NEW e \in Edits, EditGuide(e) PROVE VersionInv'
    <3> DEFINE v == editor[e].variant
    <3>1. v \in Variants /\ editor[e].version \in Nat
      BY <2>16, EditorFields DEF EditGuide
    <3>2. Bounded(v, editor[e].version)
      BY <2>16 DEF EditGuide, VersionInv
    <3>3. \A d \in Edits : editor'[d].at = "read" => editor'[d] = editor[d]
      BY <2>16 DEF EditGuide, TypeOK
    <3> QED BY <2>16, <3>1, <3>2, <3>3, VersionsSaved DEF EditGuide
  <2>17. ASSUME NEW b \in Builds, NEW v \in Variants, BuildRead(b, v) PROVE VersionInv'
    BY <2>17, VersionsKept DEF BuildRead
  <2>18. CASE UNCHANGED vars
    BY <2>18 DEF vars, VersionInv, Bounded
  <2>19. ASSUME NEW b \in Builds, BuildCommit(b) PROVE VersionInv'
    BY <2>19, VersionsKept DEF BuildCommit
  <2> QED
    BY <2>1, <2>2, <2>3, <2>4, <2>5, <2>6, <2>7, <2>9, <2>10, <2>11, <2>12, <2>13,
       <2>14, <2>15, <2>16, <2>17, <2>18, <2>19 DEF Next, ApplyStep, Stops
<1> QED BY <1>1, <1>2, TypeInvariant, PTL DEF Spec

\* A version of a guide never counts more updates than there were.
THEOREM VersionsWithinUpdates == Spec => []VersionWithinUpdates
<1>1. VersionInv => VersionWithinUpdates
  BY DEF VersionInv, Bounded, VersionWithinUpdates
<1> QED BY <1>1, VersionInvariant, PTL

-----------------------------------------------------------------------------
\* Every job whose change is in the code was given the file it is in.
Clean(code) == \A k \in Jobs, f \in Files : f \notin Targets[k] => k \notin code[f]

TargetInv ==
  /\ \A r \in Variants, dir \in {"top", "module"} : Clean(tree[r][dir])
  /\ \A v \in Variants : Clean(graph[v])
  /\ \A j \in Jobs : worker[j].at \in Steps => Clean(worker[j].code)
  /\ \A j \in Jobs : worker[j].at = "writing" => worker[j].left \subseteq Targets[j]
  /\ \A b \in Builds : builder[b].at = "snapped" => Clean(builder[b].code)

\* A copy of clean code is clean.
LEMMA CleanCopies ==
  ASSUME TargetInv
  PROVE  \A r \in Variants : Clean(CodeAt(r))
  BY DEF TargetInv, CodeAt, ModuleDir

\* Nobody has changed the code as uploaded.
LEMMA OriginalIsClean == Clean(Original)
  BY DEF Clean, Original

\* The code, the graphs, and the copies on their way into them, are clean.
THEOREM TargetInvariant == Spec => []TargetInv
<1>1. Init => TargetInv
  BY OriginalIsClean DEF Init, TargetInv, NoAttempt, Steps
<1>2. ASSUME TypeInv, TargetInv, [Next]_vars PROVE TargetInv'
  <2> USE <1>2
  <2>0. TypeOK /\ RootsKnown
    BY DEF TypeInv
  <2> USE <2>0
  <2>b. ASSUME NEW j \in Jobs, worker[j].at \in Steps \cup {"begun"}
        PROVE  job[j].variant \in Variants /\ root[job[j].variant] \in Variants
    BY <2>b, NoVariantAssumption DEF RootsKnown, NoAttempt, Steps
  <2>a. ASSUME NEW j \in Jobs, NEW next,
               worker' = [worker EXCEPT ![j] = next],
               next.at \in Steps => Clean(next.code),
               next.at = "writing" => next.left \subseteq Targets[j],
               \A r \in Variants, dir \in {"top", "module"} : Clean(tree'[r][dir]),
               \A v \in Variants : Clean(graph'[v]),
               UNCHANGED builder
        PROVE  TargetInv'
    <3>1. \A k \in Jobs : worker'[k] = IF k = j THEN next ELSE worker[k]
      BY <2>a DEF TypeOK
    <3>2. \A k \in Jobs : worker'[k].at \in Steps => Clean(worker'[k].code)
      BY <2>a, <3>1 DEF TargetInv
    <3>3. \A k \in Jobs : worker'[k].at = "writing" => worker'[k].left \subseteq Targets[k]
      BY <2>a, <3>1 DEF TargetInv
    <3> QED BY <2>a, <3>2, <3>3 DEF TargetInv, Clean
  <2>c. UNCHANGED <<tree, graph>> =>
          /\ \A r \in Variants, dir \in {"top", "module"} : Clean(tree'[r][dir])
          /\ \A v \in Variants : Clean(graph'[v])
    BY DEF TargetInv
  <2>1. ASSUME UNCHANGED <<tree, graph, worker, builder>> PROVE TargetInv'
    BY <2>1 DEF TargetInv, Clean
  <2>2. ASSUME NEW v \in Variants, NEW w \in Variants, Fork(v, w) PROVE TargetInv'
    <3>1. \A x \in Variants : Clean(graph'[x])
      BY <2>2 DEF Fork, TypeOK, TargetInv
    <3> QED BY <2>2, <3>1 DEF Fork, TargetInv, Clean
  <2>3. ASSUME NEW j \in Jobs, Begin(j) PROVE TargetInv'
    BY <2>3, <2>a, <2>c DEF Begin, Steps
  <2>4. ASSUME NEW j \in Jobs, Load(j) PROVE TargetInv'
    <3>1. PICK wants \in Wants :
            worker' = [worker EXCEPT ![j] =
              [at |-> "loaded", wants |-> wants, root |-> root[job[j].variant],
               guide |-> guide[job[j].variant], code |-> Original, out |-> {}, left |-> {}]]
      BY <2>4 DEF Load
    <3> QED BY <2>4, <2>a, <2>c, <3>1, OriginalIsClean DEF Load
  <2>5. ASSUME NEW j \in Jobs, Materialize(j) PROVE TargetInv'
    <3>1. worker[j] \in LoadedAttempt
      BY <2>5, LoadedAt DEF Materialize, At, Steps
    <3> DEFINE next == [worker[j] EXCEPT !.at = "read", !.code = CodeAt(worker[j].root)]
    <3>2. next.at = "read" /\ next.code = CodeAt(worker[j].root)
      BY <3>1 DEF LoadedAttempt
    <3>3. worker' = [worker EXCEPT ![j] = next]
      BY <2>5 DEF Materialize
    <3>4. Clean(next.code)
      BY <3>1, <3>2, LoadedFields, CleanCopies
    <3> HIDE DEF next
    <3> QED BY <2>5, <2>a, <2>c, <3>2, <3>3, <3>4 DEF Materialize
  <2>6. ASSUME NEW j \in Jobs, Generate(j) PROVE TargetInv'
    <3>1. worker[j] \in LoadedAttempt /\ worker[j].at = "read"
      BY <2>6, LoadedAt DEF Generate, At, Steps
    <3>2. PICK out \in SUBSET Files :
            worker' = [worker EXCEPT ![j] =
              [worker[j] EXCEPT !.at = "generated", !.out = out]]
      BY <2>6 DEF Generate
    <3> DEFINE next == [worker[j] EXCEPT !.at = "generated", !.out = out]
    <3>3. next.at = "generated" /\ next.code = worker[j].code
      BY <3>1 DEF LoadedAttempt
    <3>4. Clean(next.code)
      BY <3>1, <3>3 DEF TargetInv, Steps
    <3>5. worker' = [worker EXCEPT ![j] = next]
      BY <3>2
    <3> HIDE DEF next
    <3> QED BY <2>6, <2>a, <2>c, <3>3, <3>4, <3>5 DEF Generate
  <2>7. ASSUME NEW j \in Jobs, worker[j].at \in Steps,
               NEW step \in Steps \cup {"ended"}, step # "writing", Goes(j, step),
               \A r \in Variants, dir \in {"top", "module"} : Clean(tree'[r][dir]),
               \A v \in Variants : Clean(graph'[v]),
               UNCHANGED builder
        PROVE  TargetInv'
    <3>1. /\ [worker[j] EXCEPT !.at = step].at = step
          /\ [worker[j] EXCEPT !.at = step].code = worker[j].code
      BY <2>7, LoadedAt, LoadedGoesOn
    <3>2. Clean([worker[j] EXCEPT !.at = step].code)
      BY <2>7, <3>1 DEF TargetInv
    <3> QED BY <2>7, <2>a, <3>1, <3>2 DEF Goes
  <2>8. ASSUME NEW j \in Jobs, NEW blank \in BOOLEAN, SaveGuide(j, blank) PROVE TargetInv'
    BY <2>7, <2>8, <2>c DEF SaveGuide, At, Steps
  <2>9. ASSUME NEW j \in Jobs, CheckOutput(j) PROVE TargetInv'
    <3>1. worker[j] \in LoadedAttempt /\ Clean(worker[j].code)
      BY <2>9, LoadedAt DEF CheckOutput, At, Steps, TargetInv
    <3> DEFINE stop == [worker[j] EXCEPT !.at = "finishing", !.out = {}]
               go == [worker[j] EXCEPT !.at = "writing", !.left = worker[j].out]
    <3>2. /\ stop.at = "finishing" /\ stop.code = worker[j].code
          /\ go.at = "writing" /\ go.code = worker[j].code /\ go.left = worker[j].out
      BY <3>1 DEF LoadedAttempt
    <3>3. UNCHANGED <<tree, graph, builder>>
      BY <2>9 DEF CheckOutput
    <3>4. CASE worker' = [worker EXCEPT ![j] = stop]
      <4> HIDE DEF stop
      <4> QED BY <2>a, <2>c, <3>1, <3>2, <3>3, <3>4
    <3>5. CASE worker[j].out \subseteq Editable(j) /\ worker' = [worker EXCEPT ![j] = go]
      <4>2. go.left \subseteq Targets[j]
        BY <3>2, <3>5, TargetsAssumption DEF Editable
      <4> HIDE DEF go
      <4> QED BY <2>a, <2>c, <3>1, <3>2, <3>3, <3>5, <4>2
    <3> QED BY <2>9, <3>4, <3>5 DEF CheckOutput, Goes
  <2>10. ASSUME NEW j \in Jobs, NEW f \in Files, WriteFile(j, f) PROVE TargetInv'
    <3>1. /\ worker[j] \in LoadedAttempt /\ worker[j].at = "writing"
          /\ Clean(worker[j].code) /\ worker[j].left \subseteq Targets[j]
      BY <2>10, LoadedAt DEF WriteFile, At, Steps, TargetInv
    <3> DEFINE next == [worker[j] EXCEPT !.left = worker[j].left \ {f}]
    <3>2. /\ next.at = "writing" /\ next.code = worker[j].code
          /\ next.left = worker[j].left \ {f}
      BY <3>1 DEF LoadedAttempt
    <3>3. worker' = [worker EXCEPT ![j] = next]
      BY <2>10 DEF WriteFile
    <3>4. f \in Targets[j]
      BY <2>10, <3>1 DEF WriteFile
    <3>5. ASSUME NEW r \in Variants, NEW dir \in {"top", "module"}, NEW k \in Jobs,
                 NEW g \in Files, g \notin Targets[k]
          PROVE  k \notin tree'[r][dir][g]
      <4>1. \/ tree'[r][dir][g] = tree[r][dir][g]
            \/ g = f /\ tree'[r][dir][g] = worker[j].code[f] \cup {j}
        BY <2>10 DEF WriteFile, TypeOK, Code
      <4>2. k \notin tree[r][dir][g] /\ k \notin worker[j].code[g]
        BY <3>1, <3>5 DEF TargetInv, Clean
      <4> QED BY <4>1, <4>2, <3>4, <3>5
    <3>6. \A r \in Variants, dir \in {"top", "module"} : Clean(tree'[r][dir])
      BY <3>5 DEF Clean
    <3>7. \A v \in Variants : Clean(graph'[v])
      BY <2>10 DEF WriteFile, TargetInv
    <3>8. next.left \subseteq Targets[j]
      BY <3>1, <3>2
    <3>9. UNCHANGED builder
      BY <2>10 DEF WriteFile
    <3> HIDE DEF next
    <3> QED BY <2>a, <3>1, <3>2, <3>3, <3>6, <3>7, <3>8, <3>9
  <2>11. ASSUME NEW j \in Jobs, SyncRead(j) PROVE TargetInv'
    <3>1. worker[j] \in LoadedAttempt /\ root[job[j].variant] \in Variants
      BY <2>11, <2>b, LoadedAt DEF SyncRead, At, Steps
    <3> DEFINE next ==
          [worker[j] EXCEPT !.at = "snapped", !.code = CodeAt(root[job[j].variant])]
    <3>2. next.at = "snapped" /\ next.code = CodeAt(root[job[j].variant])
      BY <3>1 DEF LoadedAttempt
    <3>3. worker' = [worker EXCEPT ![j] = next]
      BY <2>11 DEF SyncRead
    <3>4. Clean(next.code)
      BY <3>1, <3>2, CleanCopies
    <3> HIDE DEF next
    <3> QED BY <2>11, <2>a, <2>c, <3>2, <3>3, <3>4 DEF SyncRead
  <2>12. ASSUME NEW j \in Jobs, SyncCommit(j) PROVE TargetInv'
    <3>1. worker[j].at \in Steps /\ Clean(worker[j].code)
      BY <2>12 DEF SyncCommit, At, Steps, TargetInv
    <3>2. \A v \in Variants : Clean(graph'[v])
      BY <2>12, <3>1 DEF SyncCommit, TypeOK, TargetInv
    <3>3. \A r \in Variants, dir \in {"top", "module"} : Clean(tree'[r][dir])
      BY <2>12 DEF SyncCommit, TargetInv
    <3> QED BY <2>12, <2>7, <3>1, <3>2, <3>3 DEF SyncCommit, Steps
  <2>13. ASSUME NEW j \in Jobs, Align(j) PROVE TargetInv'
    BY <2>7, <2>13, <2>c DEF Align, At, Steps
  <2>14. ASSUME NEW j \in Jobs, Stops(j) PROVE TargetInv'
    <3>1. PICK next \in Attempt : next.at \in Over /\ worker' = [worker EXCEPT ![j] = next]
      BY <2>14, AttemptStops
    <3>2. UNCHANGED <<tree, graph, builder>>
      BY <2>14, AttemptStops
    <3> QED BY <2>a, <2>c, <3>1, <3>2 DEF Steps, Over
  <2>15. ASSUME NEW b \in Builds, NEW v \in Variants, BuildRead(b, v) PROVE TargetInv'
    <3>1. root[v] \in Variants
      BY <2>15 DEF BuildRead, RootsKnown
    <3>2. \A c \in Builds : builder'[c].at = "snapped" => Clean(builder'[c].code)
      BY <2>15, <3>1, CleanCopies DEF BuildRead, TypeOK, TargetInv
    <3> QED BY <2>15, <3>2 DEF BuildRead, TargetInv, Clean
  <2>16. ASSUME NEW b \in Builds, BuildCommit(b) PROVE TargetInv'
    <3>1. \A v \in Variants : Clean(graph'[v])
      BY <2>16 DEF BuildCommit, TypeOK, TargetInv
    <3>2. \A c \in Builds : builder'[c].at = "snapped" => Clean(builder'[c].code)
      BY <2>16 DEF BuildCommit, TypeOK, TargetInv
    <3> QED BY <2>16, <3>1, <3>2 DEF BuildCommit, TargetInv, Clean
  <2>17. CASE UNCHANGED vars
    BY <2>1, <2>17 DEF vars
  <2>18. ASSUME NEW j \in Jobs, NEW v \in Variants, Request(j, v) PROVE TargetInv'
    BY <2>1, <2>18 DEF Request
  <2>19. ASSUME NEW e \in Edits,
                (\E v \in Variants : OpenGuide(e, v)) \/ ReadGuide(e) \/ EditGuide(e)
         PROVE  TargetInv'
    BY <2>1, <2>19 DEF OpenGuide, ReadGuide, EditGuide
  <2> QED
    BY <2>2, <2>3, <2>4, <2>5, <2>6, <2>8, <2>9, <2>10, <2>11, <2>12, <2>13, <2>14,
       <2>15, <2>16, <2>17, <2>18, <2>19 DEF Next, ApplyStep, Stops
<1> QED BY <1>1, <1>2, TypeInvariant, PTL DEF Spec

\* A job leaves its traces only in files it was given.
THEOREM OnlyTargets == Spec => []OnlyTargetsRewritten
<1>1. TargetInv => OnlyTargetsRewritten
  BY DEF TargetInv, Clean, OnlyTargetsRewritten
<1> QED BY <1>1, TargetInvariant, PTL

-----------------------------------------------------------------------------
\* While an attempt works its job is running; a job reports success only of what
\* some attempt has applied completely, and an attempt that has saved its success
\* is not contradicted by its row.
WorkInv ==
  \A j \in Jobs :
    /\ worker[j].at \in Steps \cup {"begun"} => job[j].status = "running"
    /\ worker[j].at \in {"saved", "exited"} => job[j].status = "succeeded"
    /\ worker[j].at = "finishing" \/ job[j].status = "succeeded" => j \in complete
    /\ worker[j] # NoAttempt => 1 <= job[j].attempts

\* An attempt that is not over is at one of the steps, or about to load.
LEMMA AttemptAt ==
  ASSUME TypeOK, NEW j \in Jobs, worker[j].at \notin {"none"} \cup Over
  PROVE  worker[j].at \in Steps \cup {"begun"} /\ worker[j] # NoAttempt
  BY DEF TypeOK, Attempt, LoadedAttempt, NoAttempt, Steps, Over

\* A step of an attempt that leaves its row alone.
LEMMA WorkGoesOn ==
  ASSUME TypeOK, WorkInv, NEW j \in Jobs, worker[j].at \in Steps \cup {"begun"},
         NEW next, worker' = [worker EXCEPT ![j] = next], next.at \notin {"saved", "exited"},
         next.at = "finishing" => j \in complete', complete \subseteq complete',
         UNCHANGED job
  PROVE  WorkInv'
<1>1. \A k \in Jobs : worker'[k] = IF k = j THEN next ELSE worker[k]
  BY DEF TypeOK
<1>2. worker[j] # NoAttempt /\ job[j].status = "running"
  BY DEF WorkInv, NoAttempt, Steps
<1> QED BY <1>1, <1>2 DEF WorkInv

\* A step that no attempt takes.
LEMMA WorkUndisturbed ==
  ASSUME WorkInv, UNCHANGED <<job, worker, complete>>
  PROVE  WorkInv'
  BY DEF WorkInv

\* What is known of a job from the step that works on it.
THEOREM WorkInvariant == Spec => []WorkInv
<1>1. Init => WorkInv
  BY DEF Init, WorkInv, NoAttempt, Steps
<1>2. ASSUME TypeInv, WorkInv, [Next]_vars PROVE WorkInv'
  <2> USE <1>2
  <2>0. TypeOK /\ RootsKnown
    BY DEF TypeInv
  <2> USE <2>0
  <2>1. ASSUME NEW j \in Jobs, NEW v \in Variants, Request(j, v) PROVE WorkInv'
    <3>1. worker[j] = NoAttempt
      BY <2>1 DEF Request, RootsKnown
    <3>2. \A k \in Jobs : k # j => job'[k] = job[k]
      BY <2>1 DEF Request, TypeOK
    <3>3. UNCHANGED <<worker, complete>>
      BY <2>1 DEF Request
    <3>4. job'[j].status = "queued"
      BY <2>1 DEF Request, TypeOK, JobRow
    <3> QED BY <3>1, <3>2, <3>3, <3>4 DEF WorkInv, NoAttempt, Steps
  <2>2. ASSUME NEW j \in Jobs, Begin(j) PROVE WorkInv'
    <3>1. job[j].attempts \in Nat
      BY ApplyAttemptsAssumption DEF TypeOK, JobRow
    <3>2. /\ job'[j].status = "running" /\ job'[j].attempts = job[j].attempts + 1
          /\ \A k \in Jobs : k # j => job'[k] = job[k]
      BY <2>2 DEF Begin, TypeOK, JobRow
    <3>3. \A k \in Jobs : worker'[k] = IF k = j THEN [at |-> "begun"] ELSE worker[k]
      BY <2>2 DEF Begin, TypeOK
    <3>4. UNCHANGED complete
      BY <2>2 DEF Begin
    <3> QED BY <3>1, <3>2, <3>3, <3>4 DEF WorkInv
  <2>3. ASSUME NEW j \in Jobs, Load(j) PROVE WorkInv'
    <3>1. PICK wants \in Wants :
            worker' = [worker EXCEPT ![j] =
              [at |-> "loaded", wants |-> wants, root |-> root[job[j].variant],
               guide |-> guide[job[j].variant], code |-> Original, out |-> {}, left |-> {}]]
      BY <2>3 DEF Load
    <3> QED BY <2>3, <3>1, WorkGoesOn DEF Load, At
  <2>4. ASSUME NEW j \in Jobs, worker[j].at \in Steps, NEW step \in Steps,
               step = "finishing" => j \in complete', complete \subseteq complete',
               Goes(j, step), UNCHANGED job
        PROVE  WorkInv'
    <3>1. [worker[j] EXCEPT !.at = step].at = step
      BY <2>4, LoadedAt, LoadedGoesOn
    <3> QED BY <2>4, <3>1, WorkGoesOn DEF Goes, Steps
  <2>5. ASSUME NEW j \in Jobs, Materialize(j) PROVE WorkInv'
    <3>1. worker[j] \in LoadedAttempt
      BY <2>5, LoadedAt DEF Materialize, At, Steps
    <3>2. [worker[j] EXCEPT !.at = "read", !.code = CodeAt(worker[j].root)].at = "read"
      BY <3>1 DEF LoadedAttempt
    <3>3. worker' = [worker EXCEPT ![j] =
            [worker[j] EXCEPT !.at = "read", !.code = CodeAt(worker[j].root)]]
      BY <2>5 DEF Materialize
    <3> QED BY <2>5, <3>2, <3>3, WorkGoesOn DEF Materialize, At, Steps
  <2>6. ASSUME NEW j \in Jobs, Generate(j) PROVE WorkInv'
    <3>1. worker[j] \in LoadedAttempt
      BY <2>6, LoadedAt DEF Generate, At, Steps
    <3>2. PICK out \in SUBSET Files :
            worker' = [worker EXCEPT ![j] =
              [worker[j] EXCEPT !.at = "generated", !.out = out]]
      BY <2>6 DEF Generate
    <3>3. [worker[j] EXCEPT !.at = "generated", !.out = out].at = "generated"
      BY <3>1 DEF LoadedAttempt
    <3> QED BY <2>6, <3>2, <3>3, WorkGoesOn DEF Generate, At, Steps
  <2>7. ASSUME NEW j \in Jobs, NEW blank \in BOOLEAN, SaveGuide(j, blank) PROVE WorkInv'
    BY <2>4, <2>7 DEF SaveGuide, At, Steps
  <2>8. ASSUME NEW j \in Jobs, CheckOutput(j) PROVE WorkInv'
    <3>1. worker[j] \in LoadedAttempt /\ worker[j].at \in Steps
      BY <2>8, LoadedAt DEF CheckOutput, At, Steps
    <3> DEFINE stop == [worker[j] EXCEPT !.at = "finishing", !.out = {}]
               go == [worker[j] EXCEPT !.at = "writing", !.left = worker[j].out]
    <3>2. stop.at = "finishing" /\ go.at = "writing"
      BY <3>1 DEF LoadedAttempt
    <3>3. \/ worker' = [worker EXCEPT ![j] = stop] /\ complete' = complete \cup {j}
          \/ worker' = [worker EXCEPT ![j] = go] /\ UNCHANGED complete
      BY <2>8 DEF CheckOutput
    <3>4. UNCHANGED job
      BY <2>8 DEF CheckOutput
    <3> HIDE DEF stop, go
    <3> QED BY <3>1, <3>2, <3>3, <3>4, WorkGoesOn
  <2>9. ASSUME NEW j \in Jobs, NEW f \in Files, WriteFile(j, f) PROVE WorkInv'
    <3>1. worker[j] \in LoadedAttempt /\ worker[j].at = "writing"
      BY <2>9, LoadedAt DEF WriteFile, At, Steps
    <3>2. [worker[j] EXCEPT !.left = worker[j].left \ {f}].at = "writing"
      BY <3>1 DEF LoadedAttempt
    <3>3. worker' = [worker EXCEPT ![j] = [worker[j] EXCEPT !.left = worker[j].left \ {f}]]
      BY <2>9 DEF WriteFile
    <3> QED BY <2>9, <3>1, <3>2, <3>3, WorkGoesOn DEF WriteFile, Steps
  <2>10. ASSUME NEW j \in Jobs, SyncRead(j) PROVE WorkInv'
    <3>1. worker[j] \in LoadedAttempt /\ worker[j].at = "writing"
      BY <2>10, LoadedAt DEF SyncRead, At, Steps
    <3> DEFINE next == [worker[j] EXCEPT !.at = "snapped", !.code = CodeAt(root[job[j].variant])]
    <3>2. next.at = "snapped"
      BY <3>1 DEF LoadedAttempt
    <3>3. worker' = [worker EXCEPT ![j] = next] /\ UNCHANGED <<job, complete>>
      BY <2>10 DEF SyncRead
    <3> HIDE DEF next
    <3> QED BY <3>1, <3>2, <3>3, WorkGoesOn DEF Steps
  <2>11. ASSUME NEW j \in Jobs, SyncCommit(j) PROVE WorkInv'
    BY <2>4, <2>11 DEF SyncCommit, At, Steps
  <2>12. ASSUME NEW j \in Jobs, Align(j) PROVE WorkInv'
    BY <2>4, <2>12 DEF Align, At, Steps
  <2>13. ASSUME NEW j \in Jobs, Stops(j) PROVE WorkInv'
    <3>1. PICK next \in Attempt : next.at \in Over /\ worker' = [worker EXCEPT ![j] = next]
      BY <2>13, AttemptStops
    <3>2. worker[j] # NoAttempt /\ UNCHANGED complete
      BY <2>13, AttemptStops
    <3>3. /\ job'[j].attempts = job[j].attempts
          /\ \A k \in Jobs : k # j => job'[k] = job[k]
      BY <2>13, <3>2, RowStops DEF RootsKnown, RowsKept
    <3>4. \A k \in Jobs : worker'[k] = IF k = j THEN next ELSE worker[k]
      BY <3>1 DEF TypeOK
    <3>5. next.at \in {"saved", "exited"} => job'[j].status = "succeeded"
      <4>1. CASE Succeed(j)
        BY <4>1 DEF Succeed, TypeOK, JobRow
      <4>2. CASE Exit(j)
        BY <4>2 DEF Exit, At, WorkInv
      <4>3. CASE Fails(j) \/ Dies(j)
        <5>1. worker'[j].at = "ended"
          <6>1. worker[j] \in Attempt
            BY <2>13, AttemptStops
          <6>2. worker' = [worker EXCEPT ![j] = [worker[j] EXCEPT !.at = "ended"]]
            BY <4>3 DEF Fails, Dies, Goes
          <6> QED BY <6>1, <6>2, AttemptEnds DEF TypeOK
        <5> QED BY <3>4, <5>1
      <4> QED BY <2>13, <4>1, <4>2, <4>3 DEF Stops
    <3>6. job'[j].status = "succeeded" => j \in complete
      <4>1. CASE Succeed(j)
        BY <4>1 DEF Succeed, At, WorkInv
      <4>2. CASE Fails(j)
        BY <4>2 DEF Fails, TypeOK, JobRow
      <4>3. CASE Exit(j) \/ Dies(j)
        BY <4>3 DEF Exit, Dies, WorkInv
      <4> QED BY <2>13, <4>1, <4>2, <4>3 DEF Stops
    <3> HIDE DEF Stops
    <3> QED BY <3>1, <3>2, <3>3, <3>4, <3>5, <3>6 DEF WorkInv, Steps, Over
  <2>14. ASSUME UNCHANGED <<job, worker, complete>> PROVE WorkInv'
    BY <2>14, WorkUndisturbed
  <2> QED
    BY <2>1, <2>2, <2>3, <2>5, <2>6, <2>7, <2>8, <2>9, <2>10, <2>11, <2>12, <2>13, <2>14
    DEF Next, ApplyStep, Stops, Fork, OpenGuide, ReadGuide, EditGuide, BuildRead, BuildCommit,
        vars
<1> QED BY <1>1, <1>2, TypeInvariant, PTL DEF Spec

\* A job that has been executed again was allowed more executions than one.
LEMMA AgainIsRedelivered ==
  ASSUME TypeOK, WorkInv, NEW j \in Jobs, worker[j] # NoAttempt,
         job[j].attempts < MaxAttempts
  PROVE  MaxAttempts > 1
<1>1. job[j].attempts \in Nat /\ MaxAttempts \in Nat
  BY ApplyAttemptsAssumption DEF TypeOK, JobRow
<1> QED BY <1>1 DEF WorkInv

\* Review apply implements the abstract lifecycle: what it does to its row and
\* the moment its work is complete are steps of JobLifecycle, or none.
THEOREM ApplyImplementsLifecycle == Spec => ApplyKeepsLifecycle
<1>1. Init => Lifecycle!LifecycleInit
  <2> SUFFICES ASSUME Init PROVE Lifecycle!LifecycleInit
    OBVIOUS
  <2>1. \A j \in Jobs : job[j].status = "none" /\ (j \in complete) = FALSE
    BY DEF Init
  <2> QED BY <2>1, Zenon DEF Lifecycle!LifecycleInit
<1>2. TypeInv /\ WorkInv /\ [Next]_vars => [Lifecycle!LifecycleNext]_(Lifecycle!lifecycleVars)
  <2> SUFFICES ASSUME TypeInv, WorkInv, [Next]_vars
               PROVE  [Lifecycle!LifecycleNext]_(Lifecycle!lifecycleVars)
    OBVIOUS
  <2> DEFINE Status == [j \in Jobs |-> job[j].status]
             Worked == [j \in Jobs |-> j \in complete]
             Same == UNCHANGED Lifecycle!lifecycleVars
  <2>0. TypeOK /\ RootsKnown
    BY DEF TypeInv
  <2> USE <2>0
  <2>a. ASSUME NEW j \in Jobs, NEW s,
               \A k \in Jobs : job'[k].status = IF k = j THEN s ELSE job[k].status
        PROVE  Status' = [Status EXCEPT ![j] = s]
    BY <2>a
  <2>b. ASSUME NEW j \in Jobs, complete' = complete \cup {j}
        PROVE  Worked' = [Worked EXCEPT ![j] = TRUE]
    <3>1. \A k \in Jobs : k \in complete' <=> (k = j \/ k \in complete)
      BY <2>b
    <3>2. ASSUME NEW k \in Jobs
          PROVE  (k \in complete') = IF k = j THEN TRUE ELSE (k \in complete)
      <4>1. CASE k = j
        <5>1. (k \in complete') = TRUE
          BY <3>1, <4>1, SMT
        <5> QED BY <4>1, <5>1, Zenon
      <4>2. CASE k # j
        <5>1. (k \in complete') = (k \in complete)
          BY <3>1, <4>2, SMT
        <5> QED BY <4>2, <5>1, Zenon
      <4> QED BY <4>1, <4>2, Zenon
    <3> QED BY <3>2, Zenon
  <2>c. ASSUME UNCHANGED <<job, complete>>
        PROVE  Same
    BY <2>c DEF Lifecycle!lifecycleVars
  <2>1. ASSUME NEW j \in Jobs, NEW v \in Variants, Request(j, v) PROVE Lifecycle!Submit(j)
    <3>1. Status' = [Status EXCEPT ![j] = "queued"]
      BY <2>1, <2>a DEF Request, TypeOK, JobRow
    <3> QED BY <2>1, <3>1 DEF Request, Lifecycle!Submit
  <2>2. ASSUME NEW j \in Jobs, Begin(j) PROVE Lifecycle!Start(j)
    <3>0. \A k \in Jobs : job'[k].status = IF k = j THEN "running" ELSE job[k].status
      BY <2>2 DEF Begin, TypeOK, JobRow
    <3>1. Status' = [Status EXCEPT ![j] = "running"]
      BY <2>a, <3>0
    <3>2. \/ Status[j] \in {"queued", "running"}
          \/ MaxAttempts > 1 /\ Status[j] = "failed"
          \/ MaxAttempts > 1 /\ Status[j] = "succeeded" /\ Worked[j]
      <4>1. CASE worker[j] = NoAttempt
        BY <2>2, <4>1 DEF Begin, At, NoAttempt
      <4>2. CASE worker[j] # NoAttempt
        <5>1. MaxAttempts > 1
          BY <2>2, <4>2, AgainIsRedelivered DEF Begin
        <5>2. job[j].status \in {"queued", "running", "succeeded", "failed"}
          BY <4>2 DEF RootsKnown, TypeOK, JobRow
        <5>3. job[j].status = "succeeded" => j \in complete
          BY DEF WorkInv
        <5> QED BY <5>1, <5>2, <5>3
      <4> QED BY <4>1, <4>2
    <3> QED BY <2>2, <3>1, <3>2 DEF Begin, Lifecycle!Start
  <2>3. ASSUME NEW j \in Jobs, worker[j].at \in Steps, complete' = complete \cup {j},
               UNCHANGED job
        PROVE  Lifecycle!Work(j)
    <3>1. Status[j] = "running"
      BY <2>3 DEF WorkInv
    <3>2. Worked' = [Worked EXCEPT ![j] = TRUE]
      BY <2>3, <2>b
    <3> QED BY <2>3, <3>1, <3>2 DEF Lifecycle!Work
  <2>4. ASSUME NEW j \in Jobs, CheckOutput(j) PROVE Lifecycle!Work(j) \/ Same
    BY <2>3, <2>4, <2>c DEF CheckOutput, At, Steps
  <2>5. ASSUME NEW j \in Jobs, Align(j) PROVE Lifecycle!Work(j)
    BY <2>3, <2>5 DEF Align, At, Steps
  <2>6. ASSUME NEW j \in Jobs, Succeed(j) PROVE Lifecycle!Succeed(j)
    <3>0. \A k \in Jobs : job'[k].status = IF k = j THEN "succeeded" ELSE job[k].status
      BY <2>6 DEF Succeed, TypeOK, JobRow
    <3>1. Status' = [Status EXCEPT ![j] = "succeeded"]
      BY <2>a, <3>0
    <3>2. Status[j] = "running" /\ Worked[j]
      BY <2>6 DEF Succeed, At, WorkInv, Steps
    <3> QED BY <2>6, <3>1, <3>2 DEF Succeed, Lifecycle!Succeed
  <2>7. ASSUME NEW j \in Jobs, Fails(j) PROVE Lifecycle!Fail(j)
    <3>0. \A k \in Jobs : job'[k].status = IF k = j THEN "failed" ELSE job[k].status
      BY <2>7 DEF Fails, TypeOK, JobRow
    <3>1. Status' = [Status EXCEPT ![j] = "failed"]
      BY <2>a, <3>0
    <3>2. Status[j] = "running"
      BY <2>7, AttemptAt DEF Fails, WorkInv, Over
    <3> QED BY <2>7, <3>1, <3>2 DEF Fails, Lifecycle!Fail
  <2>8. ASSUME NEW j \in Jobs,
               \/ Load(j) \/ Materialize(j) \/ Generate(j)
               \/ (\E blank \in BOOLEAN : SaveGuide(j, blank))
               \/ (\E f \in Files : WriteFile(j, f))
               \/ SyncRead(j) \/ SyncCommit(j) \/ Exit(j) \/ Dies(j)
        PROVE  Same
    BY <2>8, <2>c DEF Load, Materialize, Generate, SaveGuide, WriteFile, SyncRead,
                      SyncCommit, Exit, Dies
  <2>9. ASSUME \/ \E v, w \in Variants : Fork(v, w)
               \/ \E e \in Edits, v \in Variants : OpenGuide(e, v)
               \/ \E e \in Edits : ReadGuide(e) \/ EditGuide(e)
               \/ \E b \in Builds, v \in Variants : BuildRead(b, v)
               \/ \E b \in Builds : BuildCommit(b)
               \/ UNCHANGED vars
        PROVE  Same
    BY <2>9, <2>c DEF Fork, OpenGuide, ReadGuide, EditGuide, BuildRead, BuildCommit, vars
  <2> QED
    BY <2>1, <2>2, <2>4, <2>5, <2>6, <2>7, <2>8, <2>9
    DEF Next, ApplyStep, Lifecycle!LifecycleNext
<1> QED
  BY <1>1, <1>2, TypeInvariant, WorkInvariant, PTL
  DEF Spec, ApplyKeepsLifecycle, Lifecycle!LifecycleSpec

-----------------------------------------------------------------------------
\* Where a change of job j is in the code, and that the graph shows the code.
InTree(j, f) == j \in CodeAt(root[job[j].variant])[f]
Shown(j) == graph[job[j].variant] = CodeAt(root[job[j].variant])

\* What an attempt has made visible by the step it is at; success keeps it so.
Visible(j) ==
  /\ worker[j].at \in Steps => worker[j].root = root[job[j].variant]
  /\ worker[j].at = "writing" => \A f \in worker[j].out \ worker[j].left : InTree(j, f)
  /\ worker[j].at \in {"snapped", "synced", "finishing"} =>
       \A f \in worker[j].out : InTree(j, f)
  /\ worker[j].at = "snapped" => worker[j].code = CodeAt(root[job[j].variant])
  /\ worker[j].at \in {"synced", "finishing"} /\ worker[j].out # {} => Shown(j)
  /\ job[j].status = "succeeded" =>
       /\ worker[j].at \in Over
       /\ \A f \in worker[j].out : InTree(j, f)
       /\ worker[j].out # {} => Shown(j)

VisibleInv == \A j \in Jobs : Visible(j)

\* One job is the only one that writes code or graphs, and the code is where the
\* rows of the files say it is.
OneApply == Builds = {} /\ ~Nested /\ \A j, k \in Jobs : j = k

\* What the steps of an attempt leave of it.
LEMMA LoadedKeeps ==
  ASSUME NEW s \in LoadedAttempt
  PROVE  /\ \A step \in Steps \cup Over :
              /\ [s EXCEPT !.at = step].root = s.root
              /\ [s EXCEPT !.at = step].out = s.out
         /\ \A files \in SUBSET Files :
              LET t == [s EXCEPT !.left = files] IN
              t.at = s.at /\ t.root = s.root /\ t.out = s.out /\ t.left = files /\ t.code = s.code
         /\ \A code \in Code, step \in Steps :
              LET t == [s EXCEPT !.at = step, !.code = code] IN
              t.at = step /\ t.root = s.root /\ t.out = s.out /\ t.left = s.left /\ t.code = code
  BY DEF LoadedAttempt, Steps, Over

\* A step of another actor, and one that changes nothing of job j that shows.
LEMMA VisibleStays ==
  ASSUME NEW j \in Jobs, Visible(j), UNCHANGED <<tree, job>>,
         worker'[j] = worker[j],
         worker[j].at \in Steps \/ job[j].status = "succeeded" =>
           /\ root'[job[j].variant] = root[job[j].variant]
           /\ graph'[job[j].variant] = graph[job[j].variant]
  PROVE  Visible(j)'
<1>1. CASE worker[j].at \in Steps \/ job[j].status = "succeeded"
  BY <1>1 DEF Visible, InTree, Shown, CodeAt
<1>2. CASE ~(worker[j].at \in Steps \/ job[j].status = "succeeded")
  BY <1>2 DEF Visible, Steps
<1> QED BY <1>1, <1>2

LEMMA VisibleInvariant == ASSUME OneApply PROVE Spec => []VisibleInv
<1>1. Init => VisibleInv
  BY DEF Init, VisibleInv, Visible, NoAttempt, Steps
<1>2. ASSUME TypeInv, WorkInv, VisibleInv, [Next]_vars PROVE VisibleInv'
  <2> USE <1>2
  <2>0. TypeOK /\ RootsKnown
    BY DEF TypeInv
  <2> USE <2>0
  <2>b. ASSUME NEW j \in Jobs, worker[j] # NoAttempt
        PROVE  job[j].variant \in Variants /\ root[job[j].variant] \in Variants
    BY <2>b, NoVariantAssumption DEF RootsKnown
  <2>c. ASSUME NEW j \in Jobs, worker[j].at \in Steps \/ job[j].status = "succeeded"
        PROVE  job[j].variant \in Variants /\ root[job[j].variant] \in Variants
    BY <2>c, NoVariantAssumption DEF RootsKnown, NoAttempt, Steps
  <2>a. ASSUME NEW j \in Jobs, NEW next, worker' = [worker EXCEPT ![j] = next],
               job[j].status # "succeeded", UNCHANGED <<root, tree, graph, job>>,
               next.at \in Steps => next.root = root[job[j].variant],
               next.at = "writing" => \A f \in next.out \ next.left : InTree(j, f),
               next.at \in {"snapped", "synced", "finishing"} =>
                 \A f \in next.out : InTree(j, f),
               next.at = "snapped" => next.code = CodeAt(root[job[j].variant]),
               next.at \in {"synced", "finishing"} /\ next.out # {} => Shown(j)
        PROVE  VisibleInv'
    <3>1. worker'[j] = next
      BY <2>a DEF TypeOK
    <3>2. Visible(j)'
      BY <2>a, <3>1 DEF Visible, InTree, Shown, CodeAt
    <3> QED BY <3>2 DEF VisibleInv, OneApply
  <2>d. ASSUME NEW j \in Jobs, worker[j].at \in Steps \cup {"begun"}
        PROVE  job[j].status # "succeeded"
    BY <2>d DEF WorkInv
  <2>1. ASSUME NEW j \in Jobs, NEW v \in Variants, Request(j, v) PROVE VisibleInv'
    <3>1. worker'[j] = NoAttempt /\ job'[j].status = "queued"
      BY <2>1 DEF Request, RootsKnown, TypeOK, JobRow
    <3>2. Visible(j)'
      BY <3>1 DEF Visible, NoAttempt, Steps
    <3> QED BY <3>2 DEF VisibleInv, OneApply
  <2>2. ASSUME NEW v \in Variants, NEW w \in Variants, Fork(v, w) PROVE VisibleInv'
    <3>1. ASSUME NEW j \in Jobs
          PROVE  Visible(j)'
      <4>1. worker[j].at \in Steps \/ job[j].status = "succeeded" =>
              /\ root'[job[j].variant] = root[job[j].variant]
              /\ graph'[job[j].variant] = graph[job[j].variant]
        BY <2>2, <2>c, NoVariantAssumption DEF Fork, TypeOK
      <4> QED BY <2>2, <4>1, VisibleStays DEF Fork, VisibleInv
    <3> QED BY <3>1 DEF VisibleInv
  <2>3. ASSUME NEW j \in Jobs, Begin(j) PROVE VisibleInv'
    <3>1. job'[j].status = "running" /\ worker'[j] = [at |-> "begun"]
      BY <2>3 DEF Begin, TypeOK, JobRow
    <3>2. Visible(j)'
      BY <3>1 DEF Visible, Steps
    <3> QED BY <3>2 DEF VisibleInv, OneApply
  <2>4. ASSUME NEW j \in Jobs, Load(j) PROVE VisibleInv'
    <3>1. PICK wants \in Wants :
            worker' = [worker EXCEPT ![j] =
              [at |-> "loaded", wants |-> wants, root |-> root[job[j].variant],
               guide |-> guide[job[j].variant], code |-> Original, out |-> {}, left |-> {}]]
      BY <2>4 DEF Load
    <3>2. job[j].status # "succeeded"
      BY <2>4, <2>d DEF Load, At
    <3> QED BY <2>4, <2>a, <3>1, <3>2 DEF Load
  <2>5. ASSUME NEW j \in Jobs, Materialize(j) PROVE VisibleInv'
    <3>1. worker[j] \in LoadedAttempt /\ worker[j].at \in Steps
      BY <2>5, LoadedAt DEF Materialize, At, Steps
    <3> DEFINE next == [worker[j] EXCEPT !.at = "read", !.code = CodeAt(worker[j].root)]
    <3>2. CodeAt(worker[j].root) \in Code
      BY <3>1, LoadedFields, CodeOfTree
    <3>3. next.at = "read" /\ next.root = worker[j].root
      BY <3>1 DEF LoadedAttempt
    <3>4. worker' = [worker EXCEPT ![j] = next]
      BY <2>5 DEF Materialize
    <3>5. worker[j].root = root[job[j].variant] /\ job[j].status # "succeeded"
      BY <3>1, <2>d DEF VisibleInv, Visible
    <3>6. UNCHANGED <<root, tree, graph, job>>
      BY <2>5 DEF Materialize
    <3> HIDE DEF next
    <3> QED BY <2>a, <3>3, <3>4, <3>5, <3>6
  <2>6. ASSUME NEW j \in Jobs, Generate(j) PROVE VisibleInv'
    <3>1. worker[j] \in LoadedAttempt /\ worker[j].at \in Steps
      BY <2>6, LoadedAt DEF Generate, At, Steps
    <3>2. PICK out \in SUBSET Files :
            worker' = [worker EXCEPT ![j] =
              [worker[j] EXCEPT !.at = "generated", !.out = out]]
      BY <2>6 DEF Generate
    <3> DEFINE next == [worker[j] EXCEPT !.at = "generated", !.out = out]
    <3>3. next.at = "generated" /\ next.root = worker[j].root
      BY <3>1 DEF LoadedAttempt
    <3>4. worker' = [worker EXCEPT ![j] = next]
      BY <3>2
    <3>5. worker[j].root = root[job[j].variant] /\ job[j].status # "succeeded"
      BY <3>1, <2>d DEF VisibleInv, Visible
    <3>6. UNCHANGED <<root, tree, graph, job>>
      BY <2>6 DEF Generate
    <3> HIDE DEF next
    <3> QED BY <2>a, <3>3, <3>4, <3>5, <3>6
  <2>7. ASSUME NEW j \in Jobs, NEW blank \in BOOLEAN, SaveGuide(j, blank) PROVE VisibleInv'
    <3>1. worker[j] \in LoadedAttempt /\ worker[j].at \in Steps
      BY <2>7, LoadedAt DEF SaveGuide, At, Steps
    <3> DEFINE next == [worker[j] EXCEPT !.at = "guided"]
    <3>3. next.at = "guided" /\ next.root = worker[j].root
      BY <3>1, LoadedGoesOn, LoadedKeeps DEF Steps
    <3>4. worker' = [worker EXCEPT ![j] = next]
      BY <2>7 DEF SaveGuide, Goes
    <3>5. worker[j].root = root[job[j].variant] /\ job[j].status # "succeeded"
      BY <3>1, <2>d DEF VisibleInv, Visible
    <3>6. UNCHANGED <<root, tree, graph, job>>
      BY <2>7 DEF SaveGuide
    <3> HIDE DEF next
    <3> QED BY <2>a, <3>3, <3>4, <3>5, <3>6
  <2>8. ASSUME NEW j \in Jobs, CheckOutput(j) PROVE VisibleInv'
    <3>1. worker[j] \in LoadedAttempt /\ worker[j].at \in Steps
      BY <2>8, LoadedAt DEF CheckOutput, At, Steps
    <3> DEFINE stop == [worker[j] EXCEPT !.at = "finishing", !.out = {}]
               go == [worker[j] EXCEPT !.at = "writing", !.left = worker[j].out]
    <3>2. /\ stop.at = "finishing" /\ stop.root = worker[j].root /\ stop.out = {}
          /\ go.at = "writing" /\ go.root = worker[j].root /\ go.out = go.left
      BY <3>1 DEF LoadedAttempt
    <3>3. worker' = [worker EXCEPT ![j] = stop] \/ worker' = [worker EXCEPT ![j] = go]
      BY <2>8 DEF CheckOutput
    <3>5. worker[j].root = root[job[j].variant] /\ job[j].status # "succeeded"
      BY <3>1, <2>d DEF VisibleInv, Visible
    <3>6. UNCHANGED <<root, tree, graph, job>>
      BY <2>8 DEF CheckOutput
    <3> HIDE DEF stop, go
    <3> QED BY <2>a, <3>2, <3>3, <3>5, <3>6
  <2>9. ASSUME NEW j \in Jobs, NEW f \in Files, WriteFile(j, f) PROVE VisibleInv'
    <3>1. worker[j] \in LoadedAttempt /\ worker[j].at = "writing" /\ worker[j].at \in Steps
      BY <2>9, LoadedAt DEF WriteFile, At, Steps
    <3> DEFINE next == [worker[j] EXCEPT !.left = worker[j].left \ {f}]
    <3>2. /\ next.at = "writing" /\ next.root = worker[j].root /\ next.out = worker[j].out
          /\ next.left = worker[j].left \ {f}
      BY <3>1 DEF LoadedAttempt
    <3>3. worker' = [worker EXCEPT ![j] = next]
      BY <2>9 DEF WriteFile
    <3>4. worker'[j] = next
      BY <3>3 DEF TypeOK
    <3>5. worker[j].root = root[job[j].variant] /\ job[j].status # "succeeded"
      BY <3>1, <2>d DEF VisibleInv, Visible
    <3>6. UNCHANGED <<root, graph, job>>
      BY <2>9 DEF WriteFile
    <3>7. PICK r \in Variants : r = worker[j].root
      BY <3>1, LoadedFields
    <3>8. ASSUME NEW g \in Files
          PROVE  CodeAt(r)'[g]
                   = IF g = f THEN worker[j].code[f] \cup {j} ELSE CodeAt(r)[g]
      BY <2>9, <3>7 DEF WriteFile, CodeAt, ModuleDir, OneApply, TypeOK, Code
    <3>9. \A g \in worker[j].out : g \in Files
      BY <3>1, LoadedFields
    <3>10. ASSUME NEW g \in worker[j].out, g \notin worker[j].left \ {f}
           PROVE  j \in CodeAt(r)'[g]
      <4>1. CASE g = f
        BY <3>8, <3>9, <4>1
      <4>2. CASE g # f
        <5>1. j \in CodeAt(r)[g]
          BY <3>1, <3>5, <3>7, <3>10, <4>2 DEF VisibleInv, Visible, InTree
        <5> QED BY <3>8, <3>9, <4>2, <5>1
      <4> QED BY <4>1, <4>2
    <3>11. \A g \in next.out \ next.left : InTree(j, g)'
      BY <3>2, <3>5, <3>6, <3>7, <3>10 DEF InTree, CodeAt
    <3> HIDE DEF next
    <3>12. Visible(j)'
      BY <3>2, <3>4, <3>5, <3>6, <3>11 DEF Visible
    <3> QED BY <3>12 DEF VisibleInv, OneApply
  <2>10. ASSUME NEW j \in Jobs, SyncRead(j) PROVE VisibleInv'
    <3>1. worker[j] \in LoadedAttempt /\ worker[j].at = "writing" /\ worker[j].at \in Steps
      BY <2>10, LoadedAt DEF SyncRead, At, Steps
    <3>2. job[j].variant \in Variants /\ root[job[j].variant] \in Variants
      BY <3>1, <2>c
    <3> DEFINE next == [worker[j] EXCEPT !.at = "snapped", !.code = CodeAt(root[job[j].variant])]
    <3>3. /\ next.at = "snapped" /\ next.root = worker[j].root /\ next.out = worker[j].out
          /\ next.code = CodeAt(root[job[j].variant])
      BY <3>1, <3>2, CodeOfTree, LoadedKeeps DEF Steps
    <3>4. worker' = [worker EXCEPT ![j] = next]
      BY <2>10 DEF SyncRead
    <3>5. worker[j].root = root[job[j].variant] /\ job[j].status # "succeeded"
      BY <3>1, <2>d DEF VisibleInv, Visible
    <3>6. \A f \in worker[j].out : InTree(j, f)
      BY <2>10, <3>1 DEF SyncRead, VisibleInv, Visible
    <3>7. UNCHANGED <<root, tree, graph, job>>
      BY <2>10 DEF SyncRead
    <3> HIDE DEF next
    <3>8. \A f \in next.out : InTree(j, f)
      BY <3>3, <3>6
    <3> QED BY <2>a, <3>3, <3>4, <3>5, <3>7, <3>8
  <2>11. ASSUME NEW j \in Jobs, SyncCommit(j) PROVE VisibleInv'
    <3>1. worker[j] \in LoadedAttempt /\ worker[j].at = "snapped" /\ worker[j].at \in Steps
      BY <2>11, LoadedAt DEF SyncCommit, At, Steps
    <3>2. job[j].variant \in Variants
      BY <3>1, <2>c
    <3> DEFINE next == [worker[j] EXCEPT !.at = "synced"]
    <3>3. next.at = "synced" /\ next.root = worker[j].root /\ next.out = worker[j].out
      BY <3>1, LoadedGoesOn, LoadedKeeps DEF Steps
    <3>4. worker'[j] = next
      BY <2>11 DEF SyncCommit, Goes, TypeOK
    <3>5. worker[j].root = root[job[j].variant] /\ job[j].status # "succeeded"
      BY <3>1, <2>d DEF VisibleInv, Visible
    <3>6. /\ \A f \in worker[j].out : InTree(j, f)
          /\ worker[j].code = CodeAt(root[job[j].variant])
      BY <3>1 DEF VisibleInv, Visible
    <3>7. UNCHANGED <<root, tree, job>>
      BY <2>11 DEF SyncCommit
    <3>8. graph'[job[j].variant] = worker[j].code
      BY <2>11, <3>2 DEF SyncCommit, TypeOK
    <3> HIDE DEF next
    <3>9. (\A f \in next.out : InTree(j, f)') /\ Shown(j)'
      BY <3>3, <3>6, <3>7, <3>8 DEF InTree, Shown, CodeAt
    <3>10. Visible(j)'
      BY <3>3, <3>4, <3>5, <3>7, <3>9 DEF Visible
    <3> QED BY <3>10 DEF VisibleInv, OneApply
  <2>12. ASSUME NEW j \in Jobs, Align(j) PROVE VisibleInv'
    <3>1. worker[j] \in LoadedAttempt /\ worker[j].at = "synced" /\ worker[j].at \in Steps
      BY <2>12, LoadedAt DEF Align, At, Steps
    <3> DEFINE next == [worker[j] EXCEPT !.at = "finishing"]
    <3>3. next.at = "finishing" /\ next.root = worker[j].root /\ next.out = worker[j].out
      BY <3>1, LoadedGoesOn, LoadedKeeps DEF Steps
    <3>4. worker' = [worker EXCEPT ![j] = next]
      BY <2>12 DEF Align, Goes
    <3>5. worker[j].root = root[job[j].variant] /\ job[j].status # "succeeded"
      BY <3>1, <2>d DEF VisibleInv, Visible
    <3>6. (\A f \in next.out : InTree(j, f)) /\ (next.out # {} => Shown(j))
      BY <3>1, <3>3 DEF VisibleInv, Visible
    <3>7. UNCHANGED <<root, tree, graph, job>>
      BY <2>12 DEF Align
    <3> HIDE DEF next
    <3> QED BY <2>a, <3>3, <3>4, <3>5, <3>6, <3>7
  <2>13. ASSUME NEW j \in Jobs, Succeed(j) \/ Exit(j) \/ (Dies(j) /\ worker[j].at = "saved")
         PROVE  VisibleInv'
    <3>1. worker[j] \in LoadedAttempt /\ worker[j].at \in {"finishing", "saved"}
      BY <2>13, LoadedAt DEF Succeed, Exit, At, Steps
    <3>2. PICK step \in Over : worker' = [worker EXCEPT ![j].at = step]
      BY <2>13 DEF Succeed, Exit, Dies, Goes, Over
    <3> DEFINE next == [worker[j] EXCEPT !.at = step]
    <3>3. next.at = step /\ next.out = worker[j].out
      BY <3>1, LoadedGoesOn, LoadedKeeps
    <3>4. worker'[j] = next
      BY <3>2 DEF TypeOK
    <3>5. /\ \A f \in worker[j].out : InTree(j, f)
          /\ worker[j].out # {} => Shown(j)
      <4>1. CASE worker[j].at = "finishing"
        BY <4>1 DEF VisibleInv, Visible
      <4>2. CASE worker[j].at = "saved"
        BY <4>2 DEF VisibleInv, Visible, WorkInv
      <4> QED BY <3>1, <4>1, <4>2
    <3>6. job'[j].variant = job[j].variant /\ UNCHANGED <<root, tree, graph>>
      BY <2>13 DEF Succeed, Exit, Dies, TypeOK, JobRow
    <3> HIDE DEF next
    <3>7. (\A f \in next.out : InTree(j, f)') /\ (next.out # {} => Shown(j)')
      BY <3>3, <3>5, <3>6 DEF InTree, Shown, CodeAt
    <3>8. Visible(j)'
      BY <3>3, <3>4, <3>7 DEF Visible, Steps, Over
    <3> QED BY <3>8 DEF VisibleInv, OneApply
  <2>14. ASSUME NEW j \in Jobs, Fails(j) \/ (Dies(j) /\ worker[j].at # "saved")
         PROVE  VisibleInv'
    <3>1. worker[j] \in Attempt /\ worker[j].at \notin {"none"} \cup Over
      BY <2>14 DEF Fails, Dies, TypeOK, NoAttempt, Over
    <3>2. worker'[j] = [worker[j] EXCEPT !.at = "ended"]
      BY <2>14 DEF Fails, Dies, Goes, TypeOK
    <3>3. worker'[j].at = "ended"
      BY <3>1, <3>2, AttemptEnds
    <3>4. job[j].status = "running"
      BY <3>1, AttemptAt DEF WorkInv
    <3>5. job'[j].status # "succeeded"
      BY <2>14, <3>4 DEF Fails, Dies, TypeOK, JobRow
    <3>6. Visible(j)'
      BY <3>3, <3>5 DEF Visible, Steps
    <3> QED BY <3>6 DEF VisibleInv, OneApply
  <2>15. ASSUME UNCHANGED <<root, tree, graph, job, worker>> PROVE VisibleInv'
    <3>1. ASSUME NEW j \in Jobs PROVE Visible(j)'
      BY <2>15, VisibleStays DEF VisibleInv
    <3> QED BY <3>1 DEF VisibleInv
  <2> QED
    BY <2>1, <2>2, <2>3, <2>4, <2>5, <2>6, <2>7, <2>8, <2>9, <2>10, <2>11, <2>12, <2>13,
       <2>14, <2>15
    DEF Next, ApplyStep, OpenGuide, ReadGuide, EditGuide, OneApply, vars
<1> QED BY <1>1, <1>2, TypeInvariant, WorkInvariant, PTL DEF Spec

\* When the attempt that reports success has rewritten files, these files hold its
\* change and the graph shows the whole code as it is, whatever an earlier attempt
\* had left half written.  (After an answer without files nothing is synced, and
\* nothing is said.)
THEOREM SuccessShows == ASSUME OneApply PROVE Spec => []SuccessIsVisible
<1>1. VisibleInv => SuccessIsVisible
  BY DEF VisibleInv, Visible, SuccessIsVisible, InTree, Shown
<1> QED BY <1>1, VisibleInvariant, PTL
=============================================================================
