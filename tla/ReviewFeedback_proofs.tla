----------------------- MODULE ReviewFeedback_proofs -----------------------
(***************************************************************************)
(* For any number of cards, calls in flight and generations: the types of  *)
(* ReviewFeedback, that what a card shows was decided by somebody, that a  *)
(* resolved card says how, that decisions alone keep the audit log, that   *)
(* only saves bring back old cards, and that replies follow questions.     *)
(*                                                                         *)
(* The rows alone are not inductive: a call saves the copy it holds, so    *)
(* every copy in flight must be accounted for by the log as the row is.    *)
(* That it stays so while others decide is because the log only grows.     *)
(***************************************************************************)
EXTENDS ReviewFeedback, FiniteSetTheorems, TLAPS

\* The copy that a busy slot holds is a state its card has had.
CopiesAreLogged ==
  \A c \in Calls : call[c] # Idle => Accounted(call[c].id, call[c].copy)

\* A copy in flight is as well formed as a row.
WellDecided(r) == r.status = "resolved" => r.resolution # None /\ r.note

CopiesSayHow == \A c \in Calls : call[c] # Idle => WellDecided(call[c].copy)
RowsSayHow == \A f \in Ids : feedback[f] # Absent => WellDecided(feedback[f])

LogInv == TypeOK /\ DecisionsAreLogged /\ CopiesAreLogged
HowInv == TypeOK /\ RowsSayHow /\ CopiesSayHow

-----------------------------------------------------------------------------
\* A new card is a row: open, undecided.
LEMMA NewRowIsRow ==
  ASSUME NEW choice \in Choices
  PROVE  /\ NewRow(choice) \in Row
         /\ NewRow(choice).status = "open"
         /\ NewRow(choice).resolution = None
  BY DEF NewRow, Row, Statuses

\* A decision makes a row of a row, never a resolved one without a choice.
LEMMA DecidedIsRow ==
  ASSUME NEW r \in Row, NEW d \in Decision
  PROVE  Decided(r, d) \in Row /\ WellDecided(Decided(r, d))
  BY ChoicesAssumption DEF Decided, Row, Decision, Statuses, WellDecided

\* What is logged of a row is an action.
LEMMA ActionOfRow ==
  ASSUME NEW r \in Row
  PROVE  ActionOf(r) \in Action
  <1>1. ActionType(r.status) \in {"resolve", "unresolve", "dismiss"}
    BY DEF ActionType, Row, Statuses
  <1>2. r.resolution \in Choices \cup {None}
    BY DEF Row
  <1> QED BY <1>1, <1>2 DEF ActionOf, Action

\* The two kinds of busy slots.
LEMMA BusyFields ==
  ASSUME NEW s \in Busy
  PROVE  /\ s.id \in Ids /\ s.copy \in Row
         /\ s.at = "decide" => s.wish \in Decision
         /\ s.at \in {"decide", "chat", "asked", "replied"}
  BY DEF Busy

\* The conversation goes on with the same card and the same copy.
LEMMA ChatGoesOn ==
  ASSUME NEW s \in Busy, s.at # "decide"
  PROVE  \A next \in {"asked", "replied"} :
           /\ [s EXCEPT !.at = next] \in Busy
           /\ [s EXCEPT !.at = next].id = s.id
           /\ [s EXCEPT !.at = next].copy = s.copy
  BY DEF Busy

\* Another recommendation changes nothing else of a row.
LEMMA NewRecommendation ==
  ASSUME NEW r \in Row, NEW choice \in Choices
  PROVE  LET s == [r EXCEPT !.recommendation = choice] IN
         /\ s \in Row
         /\ s.status = r.status /\ s.resolution = r.resolution
         /\ s.note = r.note
  BY DEF Row

\* A slot that is not idle is busy, and its call is on a card.
LEMMA SlotOfCall ==
  ASSUME TypeOK, NEW c \in Calls, call[c] # Idle
  PROVE  call[c] \in Busy
  BY DEF TypeOK

\* Only a busy slot is at a step of a call.
LEMMA BusyAt ==
  ASSUME TypeOK, NEW c \in Calls, call[c].at \in {"decide", "chat", "asked", "replied"}
  PROVE  call[c] # Idle /\ call[c] \in Busy
  BY DEF TypeOK, Idle

-----------------------------------------------------------------------------
\* TypeOK is an invariant: whatever the calls and the worker do, the rows keep
\* their columns, and the log and the conversation their kinds of entries.
THEOREM TypeCorrect == Spec => []TypeOK
<1>1. Init => TypeOK
  BY GenerationsAssumption DEF Init, TypeOK
<1>2. ASSUME TypeOK, [Next]_vars PROVE TypeOK'
  <2> USE <1>2
  <2>1. CASE Generate
    <3>1. PICK S \in SUBSET Cards, choice \in Choices :
            LET new == {generation + 1} \X S IN
            /\ feedback' = [f \in Ids |-> IF f \in new THEN NewRow(choice) ELSE Absent]
            /\ chats' = [f \in Ids |-> IF f \in new THEN <<"ai">> ELSE chats[f]]
      BY <2>1 DEF Generate
    <3>2. feedback' \in [Ids -> Row \cup {Absent}]
      BY <3>1, NewRowIsRow
    <3>a. <<"ai">> \in Seq({"ai", "user"})
      OBVIOUS
    <3>3. chats' \in [Ids -> Seq({"ai", "user"})]
      BY <3>1, <3>a DEF TypeOK
    <3>4. generation' \in 0 .. MaxGenerations
      BY <2>1, GenerationsAssumption DEF Generate, TypeOK
    <3> QED BY <2>1, <3>2, <3>3, <3>4 DEF Generate, TypeOK
  <2>2. ASSUME NEW c \in Calls, NEW f \in Ids, NEW slot \in Busy, Begin(c, f, slot)
        PROVE  TypeOK'
    BY <2>2 DEF Begin, TypeOK
  <2>3. ASSUME NEW c \in Calls, NEW f \in Ids, NEW d \in Decision, BeginDecide(c, f, d)
        PROVE  TypeOK'
    <3>1. feedback[f] \in Row
      BY <2>3 DEF BeginDecide, Begin, TypeOK
    <3>2. [at |-> "decide", id |-> f, copy |-> feedback[f], wish |-> d] \in Busy
      BY <3>1 DEF Busy
    <3> QED BY <2>2, <2>3, <3>2 DEF BeginDecide
  <2>4. ASSUME NEW c \in Calls, NEW f \in Ids, BeginChat(c, f)
        PROVE  TypeOK'
    <3>1. feedback[f] \in Row
      BY <2>4 DEF BeginChat, Begin, TypeOK
    <3>2. [at |-> "chat", id |-> f, copy |-> feedback[f]] \in Busy
      BY <3>1 DEF Busy
    <3> QED BY <2>2, <2>4, <3>2 DEF BeginChat
  <2>5. ASSUME NEW c \in Calls, Decide(c) PROVE TypeOK'
    <3> DEFINE f == call[c].id
               r == Decided(call[c].copy, call[c].wish)
    <3>1. f \in Ids /\ call[c].copy \in Row /\ call[c].wish \in Decision
      BY <2>5, BusyAt, BusyFields DEF Decide
    <3>2. r \in Row /\ ActionOf(r) \in Action
      BY <3>1, DecidedIsRow, ActionOfRow
    <3>3. feedback' = [feedback EXCEPT ![f] = r]
      BY <2>5 DEF Decide
    <3>4. actions' = [actions EXCEPT ![f] = Append(@, ActionOf(r))]
      BY <2>5 DEF Decide
    <3> HIDE DEF f, r
    <3>5. feedback' \in [Ids -> Row \cup {Absent}]
      BY <3>1, <3>2, <3>3 DEF TypeOK
    <3>6. actions' \in [Ids -> Seq(Action)]
      BY <3>1, <3>2, <3>4 DEF TypeOK
    <3> QED BY <2>5, <3>5, <3>6 DEF Decide, TypeOK
  <2>6. ASSUME NEW c \in Calls, Ask(c) PROVE TypeOK'
    <3>1. call[c] \in Busy /\ call[c].at # "decide"
      BY <2>6, BusyAt DEF Ask
    <3>2. [call[c] EXCEPT !.at = "asked"] \in Busy
      BY <3>1, ChatGoesOn
    <3>3. call' \in [Calls -> Busy \cup {Idle}]
      BY <2>6, <3>2 DEF Ask, TypeOK
    <3>4. call[c].id \in Ids
      BY <3>1, BusyFields
    <3>5. chats' \in [Ids -> Seq({"ai", "user"})]
      BY <2>6, <3>4 DEF Ask, TypeOK
    <3> QED BY <2>6, <3>3, <3>5 DEF Ask, TypeOK
  <2>7. ASSUME NEW c \in Calls, Reply(c) PROVE TypeOK'
    <3>1. call[c] \in Busy /\ call[c].at # "decide"
      BY <2>7, BusyAt DEF Reply
    <3>2. [call[c] EXCEPT !.at = "replied"] \in Busy
      BY <3>1, ChatGoesOn
    <3>3. call' \in [Calls -> Busy \cup {Idle}]
      BY <2>7, <3>2 DEF Reply, TypeOK
    <3>4. call[c].id \in Ids
      BY <3>1, BusyFields
    <3>5. chats' \in [Ids -> Seq({"ai", "user"})]
      BY <2>7, <3>4 DEF Reply, TypeOK
    <3> QED BY <2>7, <3>3, <3>5 DEF Reply, TypeOK
  <2>8. ASSUME NEW c \in Calls, NEW choice \in Choices, Conclude(c, choice) PROVE TypeOK'
    <3>1. call[c] \in Busy
      BY <2>8, BusyAt DEF Conclude
    <3>2. [call[c].copy EXCEPT !.recommendation = choice] \in Row
      BY <3>1, BusyFields, NewRecommendation
    <3> QED BY <2>8, <3>2 DEF Conclude, TypeOK
  <2>9. ASSUME NEW c \in Calls, CallFails(c) PROVE TypeOK'
    BY <2>9 DEF CallFails, TypeOK
  <2>10. CASE UNCHANGED vars
    BY <2>10 DEF vars, TypeOK
  <2> QED BY <2>1, <2>3, <2>4, <2>5, <2>6, <2>7, <2>8, <2>9, <2>10 DEF Next
<1> QED BY <1>1, <1>2, PTL DEF Spec

-----------------------------------------------------------------------------
\* A longer log accounts for whatever the log accounted for before.
LEMMA LogGrows ==
  ASSUME TypeOK, NEW f \in Ids, NEW g \in Ids, NEW a \in Action, NEW r,
         actions' = [actions EXCEPT ![g] = Append(@, a)],
         Accounted(f, r)
  PROVE  Accounted(f, r)'
<1>1. CASE r.status = "open" /\ r.resolution = None
  BY <1>1 DEF Accounted
<1>2. ASSUME NEW i \in DOMAIN actions[f], actions[f][i] = ActionOf(r)
      PROVE  Accounted(f, r)'
  <2>1. actions[f] \in Seq(Action) /\ actions[g] \in Seq(Action)
    BY DEF TypeOK
  <2>2. actions'[f] = IF f = g THEN Append(actions[f], a) ELSE actions[f]
    BY DEF TypeOK
  <2>3. i \in DOMAIN actions'[f] /\ actions'[f][i] = actions[f][i]
    BY <1>2, <2>1, <2>2
  <2> QED BY <1>2, <2>3 DEF Accounted, ActionOf
<1> QED BY <1>1, <1>2 DEF Accounted

\* What has just been logged is accounted for.
LEMMA LoggedIsAccounted ==
  ASSUME TypeOK, NEW f \in Ids, NEW r, ActionOf(r) \in Action,
         actions' = [actions EXCEPT ![f] = Append(@, ActionOf(r))]
  PROVE  \E i \in DOMAIN actions'[f] : actions'[f][i] = ActionOf(r)
<1>1. actions[f] \in Seq(Action)
  BY DEF TypeOK
<1>2. actions'[f] = Append(actions[f], ActionOf(r))
  BY DEF TypeOK
<1>3. /\ Len(actions[f]) + 1 \in DOMAIN actions'[f]
      /\ actions'[f][Len(actions[f]) + 1] = ActionOf(r)
  BY <1>1, <1>2
<1> QED BY <1>3

\* Accounted looks only at the status and the resolution.
LEMMA AccountedLooksAt ==
  ASSUME NEW f, NEW r, NEW s, s.status = r.status, s.resolution = r.resolution
  PROVE  Accounted(f, s) <=> Accounted(f, r)
  BY DEF Accounted, ActionOf

\* Rows and copies in flight are accounted for together.
THEOREM LogInvariant == Spec => []LogInv
<1>1. Init => DecisionsAreLogged /\ CopiesAreLogged
  BY DEF Init, DecisionsAreLogged, CopiesAreLogged
<1>2. ASSUME TypeOK, TypeOK', DecisionsAreLogged, CopiesAreLogged, [Next]_vars
      PROVE  DecisionsAreLogged' /\ CopiesAreLogged'
  <2> USE <1>2
  <2>1. CASE Generate
    <3>1. UNCHANGED <<actions, call>>
      BY <2>1 DEF Generate
    <3>2. PICK S \in SUBSET Cards, choice \in Choices :
            feedback' = [f \in Ids |-> IF f \in {generation + 1} \X S
                                      THEN NewRow(choice) ELSE Absent]
      BY <2>1 DEF Generate
    <3>3. ASSUME NEW f \in Ids, feedback'[f] # Absent
          PROVE  Accounted(f, feedback[f])'
      <4>1. feedback'[f] = NewRow(choice)
        BY <3>2, <3>3
      <4> QED BY <4>1, NewRowIsRow DEF Accounted
    <3>4. DecisionsAreLogged'
      BY <3>3 DEF DecisionsAreLogged
    <3>5. CopiesAreLogged'
      BY <3>1 DEF CopiesAreLogged, Accounted, ActionOf
    <3> QED BY <3>4, <3>5
  <2>2. ASSUME NEW c \in Calls, NEW f \in Ids, NEW slot,
               slot.id = f, slot.copy = feedback[f], Begin(c, f, slot)
        PROVE  DecisionsAreLogged' /\ CopiesAreLogged'
    <3>1. UNCHANGED <<feedback, actions>>
      BY <2>2 DEF Begin
    <3>2. DecisionsAreLogged'
      BY <3>1 DEF DecisionsAreLogged, Accounted, ActionOf
    <3>3. Accounted(f, feedback[f])
      BY <2>2 DEF Begin, DecisionsAreLogged
    <3>4. ASSUME NEW d \in Calls, call'[d] # Idle
          PROVE  Accounted(call[d].id, call[d].copy)'
      <4>1. CASE d = c
        <5>1. call'[d] = slot
          BY <2>2, <4>1 DEF Begin, TypeOK
        <5> QED BY <2>2, <5>1, <3>1, <3>3 DEF Accounted, ActionOf
      <4>2. CASE d # c
        <5>1. call'[d] = call[d]
          BY <2>2, <4>2 DEF Begin, TypeOK
        <5> QED BY <5>1, <3>1, <3>4 DEF CopiesAreLogged, Accounted, ActionOf
      <4> QED BY <4>1, <4>2
    <3>5. CopiesAreLogged'
      BY <3>4 DEF CopiesAreLogged
    <3> QED BY <3>2, <3>5
  <2>3. ASSUME NEW c \in Calls, NEW f \in Ids, NEW d \in Decision, BeginDecide(c, f, d)
        PROVE  DecisionsAreLogged' /\ CopiesAreLogged'
    BY <2>2, <2>3 DEF BeginDecide
  <2>4. ASSUME NEW c \in Calls, NEW f \in Ids, BeginChat(c, f)
        PROVE  DecisionsAreLogged' /\ CopiesAreLogged'
    BY <2>2, <2>4 DEF BeginChat
  <2>5. ASSUME NEW c \in Calls, Decide(c)
        PROVE  DecisionsAreLogged' /\ CopiesAreLogged'
    <3> DEFINE g == call[c].id
               r == Decided(call[c].copy, call[c].wish)
    <3>1. g \in Ids /\ call[c].copy \in Row /\ call[c].wish \in Decision
      BY <2>5, BusyAt, BusyFields DEF Decide
    <3>2. r \in Row /\ ActionOf(r) \in Action
      BY <3>1, DecidedIsRow, ActionOfRow
    <3>3. feedback' = [feedback EXCEPT ![g] = r]
      BY <2>5 DEF Decide
    <3>4. actions' = [actions EXCEPT ![g] = Append(@, ActionOf(r))]
      BY <2>5 DEF Decide
    <3>5. call' = [call EXCEPT ![c] = Idle]
      BY <2>5 DEF Decide
    <3> HIDE DEF g, r
    <3>6. ASSUME NEW f \in Ids, feedback'[f] # Absent
          PROVE  Accounted(f, feedback[f])'
      <4>1. CASE f = g
        <5>1. feedback'[f] = r
          BY <3>3, <4>1 DEF TypeOK
        <5>2. \E i \in DOMAIN actions'[g] : actions'[g][i] = ActionOf(r)
          BY <3>1, <3>2, <3>4, LoggedIsAccounted
        <5> QED BY <4>1, <5>1, <5>2 DEF Accounted, ActionOf
      <4>2. CASE f # g
        <5>1. feedback'[f] = feedback[f]
          BY <3>3, <4>2 DEF TypeOK
        <5>2. Accounted(f, feedback[f])
          BY <3>6, <5>1 DEF DecisionsAreLogged
        <5>3. actions'[f] = actions[f]
          BY <3>4, <4>2 DEF TypeOK
        <5> QED BY <5>1, <5>2, <5>3 DEF Accounted, ActionOf
      <4> QED BY <4>1, <4>2
    <3>7. ASSUME NEW d \in Calls, call'[d] # Idle
          PROVE  Accounted(call[d].id, call[d].copy)'
      <4>1. call'[d] = call[d]
        BY <3>5, <3>7 DEF TypeOK
      <4>2. call[d].id \in Ids /\ Accounted(call[d].id, call[d].copy)
        BY <3>7, <4>1, SlotOfCall, BusyFields DEF CopiesAreLogged
      <4>3. ASSUME NEW k \in Ids, NEW s, Accounted(k, s)
            PROVE  \/ s.status = "open" /\ s.resolution = None
                   \/ \E i \in DOMAIN actions'[k] : actions'[k][i] = ActionOf(s)
        BY <3>1, <3>2, <3>4, <4>3, LogGrows DEF Accounted, ActionOf
      <4> QED BY <4>1, <4>2, <4>3 DEF Accounted, ActionOf
    <3>8. DecisionsAreLogged'
      BY <3>6 DEF DecisionsAreLogged
    <3>9. CopiesAreLogged'
      BY <3>7 DEF CopiesAreLogged
    <3> QED BY <3>8, <3>9
  <2>6. ASSUME NEW c \in Calls, UNCHANGED <<feedback, actions>>,
               call' = [call EXCEPT ![c] = Idle]
        PROVE  DecisionsAreLogged' /\ CopiesAreLogged'
    <3>1. DecisionsAreLogged'
      BY <2>6 DEF DecisionsAreLogged, Accounted, ActionOf
    <3>2. ASSUME NEW d \in Calls, call'[d] # Idle
          PROVE  call'[d] = call[d]
      BY <2>6, <3>2 DEF TypeOK
    <3>3. CopiesAreLogged'
      BY <2>6, <3>2 DEF CopiesAreLogged, Accounted, ActionOf
    <3> QED BY <3>1, <3>3
  <2>7. ASSUME NEW c \in Calls, NEW next \in {"asked", "replied"},
               call[c] \in Busy, call[c] # Idle, call[c].at # "decide",
               UNCHANGED <<feedback, actions>>,
               call' = [call EXCEPT ![c] = [call[c] EXCEPT !.at = next]]
        PROVE  DecisionsAreLogged' /\ CopiesAreLogged'
    <3>1. DecisionsAreLogged'
      BY <2>7 DEF DecisionsAreLogged, Accounted, ActionOf
    <3>2. ASSUME NEW d \in Calls, call'[d] # Idle
          PROVE  /\ call[d] # Idle
                 /\ call'[d].id = call[d].id /\ call'[d].copy = call[d].copy
      <4>1. CASE d = c
        <5>1. call'[d] = [call[c] EXCEPT !.at = next]
          BY <2>7, <4>1 DEF TypeOK
        <5> QED BY <2>7, <4>1, <5>1, ChatGoesOn
      <4>2. CASE d # c
        BY <2>7, <3>2, <4>2 DEF TypeOK
      <4> QED BY <4>1, <4>2
    <3>3. CopiesAreLogged'
      BY <2>7, <3>2 DEF CopiesAreLogged, Accounted, ActionOf
    <3> QED BY <3>1, <3>3
  <2>8. ASSUME NEW c \in Calls, Ask(c)
        PROVE  DecisionsAreLogged' /\ CopiesAreLogged'
    <3>1. call[c] \in Busy /\ call[c] # Idle /\ call[c].at # "decide"
      BY <2>8, BusyAt DEF Ask
    <3>2. call' = [call EXCEPT ![c] = [call[c] EXCEPT !.at = "asked"]]
      BY <2>8 DEF Ask
    <3> QED BY <2>7, <2>8, <3>1, <3>2 DEF Ask
  <2>9. ASSUME NEW c \in Calls, Reply(c)
        PROVE  DecisionsAreLogged' /\ CopiesAreLogged'
    <3>1. call[c] \in Busy /\ call[c] # Idle /\ call[c].at # "decide"
      BY <2>9, BusyAt DEF Reply
    <3>2. call' = [call EXCEPT ![c] = [call[c] EXCEPT !.at = "replied"]]
      BY <2>9 DEF Reply
    <3> QED BY <2>7, <2>9, <3>1, <3>2 DEF Reply
  <2>10. ASSUME NEW c \in Calls, NEW choice \in Choices, Conclude(c, choice)
         PROVE  DecisionsAreLogged' /\ CopiesAreLogged'
    <3> DEFINE g == call[c].id
               s == [call[c].copy EXCEPT !.recommendation = choice]
    <3>1. call[c] # Idle /\ call[c] \in Busy
      BY <2>10, BusyAt DEF Conclude
    <3>2. g \in Ids /\ call[c].copy \in Row /\ Accounted(g, call[c].copy)
      BY <3>1, BusyFields DEF CopiesAreLogged
    <3>3. s.status = call[c].copy.status /\ s.resolution = call[c].copy.resolution
      BY <3>2, NewRecommendation
    <3>4. Accounted(g, s)
      BY <3>2, <3>3, AccountedLooksAt
    <3>5. UNCHANGED actions /\ call' = [call EXCEPT ![c] = Idle]
      BY <2>10 DEF Conclude
    <3>6. \/ UNCHANGED feedback
          \/ feedback' = [feedback EXCEPT ![g] = s]
      BY <2>10 DEF Conclude
    <3> HIDE DEF g, s
    <3>7. ASSUME NEW f \in Ids, feedback'[f] # Absent
          PROVE  Accounted(f, feedback'[f])
      <4>1. \/ feedback'[f] = feedback[f]
            \/ f = g /\ feedback'[f] = s
        BY <3>6, <3>2 DEF TypeOK
      <4>2. CASE feedback'[f] = feedback[f]
        BY <3>7, <4>2 DEF DecisionsAreLogged
      <4> QED BY <4>1, <4>2, <3>4
    <3>8. DecisionsAreLogged'
      BY <3>5, <3>7 DEF DecisionsAreLogged, Accounted, ActionOf
    <3>9. ASSUME NEW d \in Calls, call'[d] # Idle
          PROVE  call'[d] = call[d]
      BY <3>5, <3>9 DEF TypeOK
    <3>10. CopiesAreLogged'
      BY <3>5, <3>9 DEF CopiesAreLogged, Accounted, ActionOf
    <3> QED BY <3>8, <3>10
  <2>11. ASSUME NEW c \in Calls, CallFails(c)
         PROVE  DecisionsAreLogged' /\ CopiesAreLogged'
    BY <2>6, <2>11 DEF CallFails
  <2>12. CASE UNCHANGED vars
    BY <2>12 DEF vars, DecisionsAreLogged, CopiesAreLogged, Accounted, ActionOf
  <2> QED BY <2>1, <2>3, <2>4, <2>5, <2>8, <2>9, <2>10, <2>11, <2>12 DEF Next
<1> QED BY <1>1, <1>2, TypeCorrect, PTL DEF Spec, LogInv

\* Whatever interleaves, a row shows a new card or a decision of its log.
THEOREM DecisionsLogged == Spec => []DecisionsAreLogged
  BY LogInvariant, PTL DEF LogInv

-----------------------------------------------------------------------------
\* Rows and copies in flight never hold a resolved card without a choice.
THEOREM HowInvariant == Spec => []HowInv
<1>1. Init => RowsSayHow /\ CopiesSayHow
  BY DEF Init, RowsSayHow, CopiesSayHow
<1>2. ASSUME TypeOK, TypeOK', RowsSayHow, CopiesSayHow, [Next]_vars
      PROVE  RowsSayHow' /\ CopiesSayHow'
  <2> USE <1>2
  <2>1. ASSUME NEW c \in Calls, NEW slot, RowsSayHow',
               slot = Idle \/ WellDecided(slot.copy),
               call' = [call EXCEPT ![c] = slot]
        PROVE  RowsSayHow' /\ CopiesSayHow'
    <3>1. ASSUME NEW d \in Calls
          PROVE  call'[d] = IF d = c THEN slot ELSE call[d]
      BY <2>1 DEF TypeOK
    <3> QED BY <2>1, <3>1 DEF CopiesSayHow, WellDecided
  <2>2. CASE Generate
    <3>1. PICK S \in SUBSET Cards, choice \in Choices :
            feedback' = [f \in Ids |-> IF f \in {generation + 1} \X S
                                      THEN NewRow(choice) ELSE Absent]
      BY <2>2 DEF Generate
    <3>2. RowsSayHow'
      BY <3>1, NewRowIsRow DEF RowsSayHow, WellDecided
    <3>3. CopiesSayHow'
      BY <2>2 DEF Generate, CopiesSayHow, WellDecided
    <3> QED BY <3>2, <3>3
  <2>3. ASSUME NEW c \in Calls, NEW f \in Ids, NEW slot,
               slot.copy = feedback[f], Begin(c, f, slot)
        PROVE  RowsSayHow' /\ CopiesSayHow'
    <3>1. RowsSayHow'
      BY <2>3 DEF Begin, RowsSayHow, WellDecided
    <3>2. WellDecided(slot.copy)
      BY <2>3 DEF Begin, RowsSayHow, WellDecided
    <3> QED BY <2>1, <2>3, <3>1, <3>2 DEF Begin
  <2>4. ASSUME NEW c \in Calls, NEW f \in Ids, NEW d \in Decision, BeginDecide(c, f, d)
        PROVE  RowsSayHow' /\ CopiesSayHow'
    BY <2>3, <2>4 DEF BeginDecide
  <2>5. ASSUME NEW c \in Calls, NEW f \in Ids, BeginChat(c, f)
        PROVE  RowsSayHow' /\ CopiesSayHow'
    BY <2>3, <2>5 DEF BeginChat
  <2>6. ASSUME NEW g \in Ids, NEW r, WellDecided(r),
               UNCHANGED feedback \/ feedback' = [feedback EXCEPT ![g] = r]
        PROVE  RowsSayHow'
    <3>1. ASSUME NEW f \in Ids
          PROVE  feedback'[f] = feedback[f] \/ feedback'[f] = r
      BY <2>6 DEF TypeOK
    <3> QED BY <2>6, <3>1 DEF RowsSayHow, WellDecided
  <2>7. ASSUME NEW c \in Calls, Decide(c)
        PROVE  RowsSayHow' /\ CopiesSayHow'
    <3>1. call[c].id \in Ids /\ call[c].copy \in Row /\ call[c].wish \in Decision
      BY <2>7, BusyAt, BusyFields DEF Decide
    <3>2. WellDecided(Decided(call[c].copy, call[c].wish))
      BY <3>1, DecidedIsRow
    <3>3. RowsSayHow'
      BY <2>6, <2>7, <3>1, <3>2 DEF Decide
    <3> QED BY <2>1, <2>7, <3>3 DEF Decide
  <2>8. ASSUME NEW c \in Calls, NEW next \in {"asked", "replied"},
               call[c] \in Busy, call[c] # Idle, call[c].at # "decide",
               UNCHANGED feedback,
               call' = [call EXCEPT ![c] = [call[c] EXCEPT !.at = next]]
        PROVE  RowsSayHow' /\ CopiesSayHow'
    <3>1. RowsSayHow'
      BY <2>8 DEF RowsSayHow, WellDecided
    <3>2. WellDecided([call[c] EXCEPT !.at = next].copy)
      BY <2>8, ChatGoesOn DEF CopiesSayHow, WellDecided
    <3> QED BY <2>1, <2>8, <3>1, <3>2
  <2>9. ASSUME NEW c \in Calls, Ask(c)
        PROVE  RowsSayHow' /\ CopiesSayHow'
    <3>1. call[c] \in Busy /\ call[c] # Idle /\ call[c].at # "decide"
      BY <2>9, BusyAt DEF Ask
    <3>2. call' = [call EXCEPT ![c] = [call[c] EXCEPT !.at = "asked"]]
      BY <2>9 DEF Ask
    <3> QED BY <2>8, <2>9, <3>1, <3>2 DEF Ask
  <2>10. ASSUME NEW c \in Calls, Reply(c)
         PROVE  RowsSayHow' /\ CopiesSayHow'
    <3>1. call[c] \in Busy /\ call[c] # Idle /\ call[c].at # "decide"
      BY <2>10, BusyAt DEF Reply
    <3>2. call' = [call EXCEPT ![c] = [call[c] EXCEPT !.at = "replied"]]
      BY <2>10 DEF Reply
    <3> QED BY <2>8, <2>10, <3>1, <3>2 DEF Reply
  <2>11. ASSUME NEW c \in Calls, NEW choice \in Choices, Conclude(c, choice)
         PROVE  RowsSayHow' /\ CopiesSayHow'
    <3> DEFINE s == [call[c].copy EXCEPT !.recommendation = choice]
    <3>1. call[c] # Idle /\ call[c] \in Busy
      BY <2>11, BusyAt DEF Conclude
    <3>2. call[c].id \in Ids /\ call[c].copy \in Row /\ WellDecided(call[c].copy)
      BY <3>1, BusyFields DEF CopiesSayHow
    <3>3. WellDecided(s)
      BY <3>2, NewRecommendation DEF WellDecided
    <3>4. UNCHANGED feedback \/ feedback' = [feedback EXCEPT ![call[c].id] = s]
      BY <2>11 DEF Conclude
    <3> HIDE DEF s
    <3>5. RowsSayHow'
      BY <2>6, <3>2, <3>3, <3>4
    <3> QED BY <2>1, <2>11, <3>5 DEF Conclude
  <2>12. ASSUME NEW c \in Calls, CallFails(c)
         PROVE  RowsSayHow' /\ CopiesSayHow'
    <3>1. RowsSayHow'
      BY <2>12 DEF CallFails, RowsSayHow, WellDecided
    <3> QED BY <2>1, <2>12, <3>1 DEF CallFails
  <2>13. CASE UNCHANGED vars
    BY <2>13 DEF vars, RowsSayHow, CopiesSayHow, WellDecided
  <2> QED BY <2>2, <2>4, <2>5, <2>7, <2>9, <2>10, <2>11, <2>12, <2>13 DEF Next
<1> QED BY <1>1, <1>2, TypeCorrect, PTL DEF Spec, HowInv

\* A card that counts as resolved always says how: review apply drops none.
THEOREM ResolvedCardsSayHow == Spec => []ResolvedSaysHow
<1>1. HowInv => ResolvedSaysHow
  BY DEF HowInv, RowsSayHow, WellDecided, ResolvedSaysHow, Applicable, Absent
<1> QED BY <1>1, HowInvariant, PTL

-----------------------------------------------------------------------------
\* Cards of generations to come have left no trace.
FutureIsBlank ==
  \A f \in Ids : generation < f[1] => feedback[f] = Absent /\ actions[f] = << >>

\* A call is about a card that has been there ...
CallsArePast == \A c \in Calls : call[c] # Idle => call[c].id[1] <= generation

\* ... and a chat has stored its question, then its reply.
AnswersAreStored ==
  \A c \in Calls : /\ call[c].at = "asked" => 1 <= Len(chats[call[c].id])
                   /\ call[c].at = "replied" => 2 <= Len(chats[call[c].id])

AuditParts == FutureIsBlank /\ CallsArePast /\ AnswersAreStored /\ DecisionsAreAudited
AuditInv == TypeOK /\ AuditParts

\* A card knows its generation.
LEMMA GenerationOfId ==
  ASSUME TypeOK, NEW f \in Ids
  PROVE  f[1] \in Nat /\ generation \in Nat
  BY GenerationsAssumption DEF TypeOK, Ids, Generations

\* The card of a call that runs.
LEMMA CardOfCall ==
  ASSUME TypeOK, NEW c \in Calls, call[c] # Idle
  PROVE  call[c].id \in Ids
  BY SlotOfCall, BusyFields

\* Audited looks only at the row and the log of its card.
LEMMA AuditedLooksAt ==
  ASSUME NEW f, feedback'[f] = feedback[f], actions'[f] = actions[f], Audited(f)
  PROVE  Audited(f)'
  BY DEF Audited, ActionOf

\* A call that ends, or goes on without a word stored, spoils nothing.
LEMMA AuditSurvivesEnd ==
  ASSUME TypeOK, AuditParts, NEW c \in Calls, call' = [call EXCEPT ![c] = Idle],
         UNCHANGED <<chats, generation>>
  PROVE  CallsArePast' /\ AnswersAreStored'
<1>1. \A d \in Calls : call'[d] = call[d] \/ call'[d] = Idle
  BY DEF TypeOK
<1> QED BY <1>1 DEF AuditParts, CallsArePast, AnswersAreStored, Idle

\* Decisions, calls that fail, new generations: none separates the log from a
\* card nobody has discussed.
THEOREM AuditInvariant == Spec => []AuditInv
<1>1. Init => AuditParts
  <2> SUFFICES ASSUME Init PROVE AuditParts
    OBVIOUS
  <2>1. FutureIsBlank /\ DecisionsAreAudited
    BY DEF Init, FutureIsBlank, DecisionsAreAudited
  <2>2. CallsArePast /\ AnswersAreStored
    BY DEF Init, CallsArePast, AnswersAreStored, Idle
  <2> QED BY <2>1, <2>2 DEF AuditParts
<1>2. ASSUME TypeOK, TypeOK', AuditParts, [Next]_vars
      PROVE  AuditParts'
  <2> USE <1>2
  <2>0. FutureIsBlank /\ CallsArePast /\ AnswersAreStored /\ DecisionsAreAudited
    BY DEF AuditParts
  <2> USE <2>0
  <2>1. CASE Generate
    <3>1. UNCHANGED <<actions, call>> /\ generation' = generation + 1
      BY <2>1 DEF Generate
    <3>2. PICK S \in SUBSET Cards, choice \in Choices :
            /\ feedback' = [f \in Ids |-> IF f \in {generation + 1} \X S
                                          THEN NewRow(choice) ELSE Absent]
            /\ chats' = [f \in Ids |-> IF f \in {generation + 1} \X S
                                       THEN <<"ai">> ELSE chats[f]]
      BY <2>1 DEF Generate
    <3>3. ASSUME NEW f \in Ids
          PROVE  /\ generation + 1 < f[1] => feedback'[f] = Absent
                 /\ f[1] <= generation => chats'[f] = chats[f]
                 /\ feedback'[f] # Absent =>
                      f[1] = generation + 1 /\ feedback'[f] = NewRow(choice)
      BY <3>2, GenerationOfId
    <3>4. FutureIsBlank'
      BY <3>1, <3>3, GenerationOfId DEF FutureIsBlank
    <3>5. CallsArePast'
      BY <3>1, CardOfCall, GenerationOfId DEF CallsArePast
    <3>6. AnswersAreStored'
      BY <3>1, <3>3, CardOfCall, BusyAt DEF AnswersAreStored, CallsArePast
    <3>7. ASSUME NEW f \in Ids, feedback'[f] # Absent
          PROVE  Audited(f)'
      <4>1. actions'[f] = << >>
        BY <3>1, <3>3, <3>7, GenerationOfId DEF FutureIsBlank
      <4>2. feedback'[f].status = "open"
        BY <3>3, <3>7, NewRowIsRow
      <4> QED BY <4>1, <4>2 DEF Audited
    <3>8. DecisionsAreAudited'
      BY <3>7 DEF DecisionsAreAudited
    <3> QED BY <3>4, <3>5, <3>6, <3>8 DEF AuditParts
  <2>2. ASSUME NEW c \in Calls, NEW f \in Ids, NEW slot, slot.id = f,
               slot.at \in {"decide", "chat"}, Begin(c, f, slot)
        PROVE  AuditParts'
    <3>1. UNCHANGED <<feedback, actions, chats, generation>>
      BY <2>2 DEF Begin
    <3>2. f[1] <= generation
      BY <2>2, GenerationOfId DEF Begin, FutureIsBlank
    <3>3. \A d \in Calls : call'[d] = call[d] \/ call'[d] = slot
      BY <2>2 DEF Begin, TypeOK
    <3>4. CallsArePast' /\ AnswersAreStored'
      BY <2>2, <3>1, <3>2, <3>3 DEF CallsArePast, AnswersAreStored
    <3>5. FutureIsBlank' /\ DecisionsAreAudited'
      BY <3>1 DEF FutureIsBlank, DecisionsAreAudited, Audited, ActionOf
    <3> QED BY <3>4, <3>5 DEF AuditParts
  <2>3. ASSUME NEW c \in Calls, NEW f \in Ids, NEW d \in Decision, BeginDecide(c, f, d)
        PROVE  AuditParts'
    BY <2>2, <2>3 DEF BeginDecide
  <2>4. ASSUME NEW c \in Calls, NEW f \in Ids, BeginChat(c, f)
        PROVE  AuditParts'
    BY <2>2, <2>4 DEF BeginChat
  <2>5. ASSUME NEW c \in Calls, Decide(c)
        PROVE  AuditParts'
    <3> DEFINE g == call[c].id
               r == Decided(call[c].copy, call[c].wish)
    <3>1. /\ call[c] # Idle /\ g \in Ids
          /\ call[c].copy \in Row /\ call[c].wish \in Decision
      BY <2>5, BusyAt, BusyFields DEF Decide
    <3>2. g[1] <= generation
      BY <3>1 DEF CallsArePast
    <3>3. r \in Row /\ ActionOf(r) \in Action
      BY <3>1, DecidedIsRow, ActionOfRow
    <3>4. /\ feedback' = [feedback EXCEPT ![g] = r]
          /\ actions' = [actions EXCEPT ![g] = Append(@, ActionOf(r))]
          /\ call' = [call EXCEPT ![c] = Idle]
          /\ UNCHANGED <<chats, generation>>
      BY <2>5 DEF Decide
    <3> HIDE DEF g, r
    <3>5. ASSUME NEW f \in Ids, f # g
          PROVE  feedback'[f] = feedback[f] /\ actions'[f] = actions[f]
      BY <3>4, <3>5 DEF TypeOK
    <3>6. ASSUME NEW f \in Ids, f = g
          PROVE  Audited(f)'
      <4>1. feedback'[f] = r /\ actions'[f] = Append(actions[f], ActionOf(r))
        BY <3>4, <3>6 DEF TypeOK
      <4>2. actions[f] \in Seq(Action)
        BY DEF TypeOK
      <4>3. /\ Len(actions'[f]) = Len(actions[f]) + 1 /\ Len(actions[f]) \in Nat
            /\ actions'[f][Len(actions[f]) + 1] = ActionOf(r)
        BY <3>3, <4>1, <4>2
      <4>4. actions'[f] # << >> /\ actions'[f][Len(actions'[f])] = ActionOf(r)
        BY <4>3
      <4> QED BY <4>1, <4>4 DEF Audited, ActionOf
    <3>7. FutureIsBlank'
      BY <3>1, <3>2, <3>4, <3>5, GenerationOfId DEF FutureIsBlank
    <3>8. ASSUME NEW f \in Ids, feedback'[f] # Absent, Len(chats'[f]) <= 1
          PROVE  Audited(f)'
      <4>1. CASE f = g
        BY <3>6, <4>1
      <4>2. CASE f # g
        <5>1. Audited(f)
          BY <3>4, <3>5, <3>8, <4>2 DEF DecisionsAreAudited
        <5> QED BY <3>5, <4>2, <5>1, AuditedLooksAt
      <4> QED BY <4>1, <4>2
    <3>9. DecisionsAreAudited'
      BY <3>8 DEF DecisionsAreAudited
    <3> QED BY <3>4, <3>7, <3>9, AuditSurvivesEnd DEF AuditParts
  <2>6. ASSUME NEW c \in Calls, NEW next \in {"asked", "replied"},
               NEW role \in {"ai", "user"},
               call[c] \in Busy, call[c] # Idle, call[c].at # "decide",
               next = "replied" => call[c].at = "asked",
               UNCHANGED <<feedback, actions, generation>>,
               chats' = [chats EXCEPT ![call[c].id] = Append(@, role)],
               call' = [call EXCEPT ![c] = [call[c] EXCEPT !.at = next]]
        PROVE  AuditParts'
    <3> DEFINE g == call[c].id
    <3>1. g \in Ids
      BY <2>6, BusyFields
    <3>2. /\ chats[g] \in Seq({"ai", "user"})
          /\ \A f \in Ids : chats'[f] = IF f = g THEN Append(chats[f], role) ELSE chats[f]
      BY <2>6, <3>1 DEF TypeOK
    <3>3. \A f \in Ids : chats[f] \in Seq({"ai", "user"})
      BY DEF TypeOK
    <3>4. ASSUME NEW f \in Ids
          PROVE  /\ Len(chats[f]) \in Nat
                 /\ Len(chats'[f]) = IF f = g THEN Len(chats[f]) + 1 ELSE Len(chats[f])
      <4>1. chats[f] \in Seq({"ai", "user"})
        BY <3>3
      <4>2. Len(Append(chats[f], role)) = Len(chats[f]) + 1 /\ Len(chats[f]) \in Nat
        BY <4>1
      <4> QED BY <3>2, <4>2
    <3>5. Len(chats'[g]) = Len(chats[g]) + 1 /\ Len(chats[g]) \in Nat
      BY <3>1, <3>4
    <3>6. /\ call'[c].at = next /\ call'[c].id = g
          /\ \A d \in Calls : d # c => call'[d] = call[d]
      BY <2>6, ChatGoesOn DEF TypeOK
    <3>7. CallsArePast'
      BY <2>6, <3>6 DEF CallsArePast
    <3>8. ASSUME NEW d \in Calls
          PROVE  /\ call'[d].at = "asked" => 1 <= Len(chats'[call'[d].id])
                 /\ call'[d].at = "replied" => 2 <= Len(chats'[call'[d].id])
      <4>1. CASE d = c
        BY <2>6, <3>5, <3>6, <4>1 DEF AnswersAreStored
      <4>2. CASE d # c
        <5>1. call'[d] = call[d]
          BY <3>6, <4>2
        <5>2. CASE call[d].at \in {"asked", "replied"}
          <6>1. call[d].id \in Ids
            BY <5>2, BusyAt, CardOfCall
          <6>2. Len(chats[call[d].id]) \in Nat /\ Len(chats'[call[d].id]) \in Nat
            BY <6>1, <3>3, <1>2 DEF TypeOK
          <6> QED BY <3>4, <5>1, <6>1, <6>2 DEF AnswersAreStored
        <5> QED BY <5>1, <5>2
      <4> QED BY <4>1, <4>2
    <3>9. AnswersAreStored'
      BY <3>8 DEF AnswersAreStored
    <3>10. FutureIsBlank'
      BY <2>6 DEF FutureIsBlank
    <3>11. ASSUME NEW f \in Ids, feedback'[f] # Absent, Len(chats'[f]) <= 1
           PROVE  Audited(f)'
      <4>1. Len(chats[f]) \in Nat /\ Len(chats'[f]) \in Nat
        BY <3>3, <1>2 DEF TypeOK
      <4>2. Audited(f)
        BY <2>6, <3>4, <3>11, <4>1 DEF DecisionsAreAudited
      <4> QED BY <2>6, <4>2, AuditedLooksAt
    <3>12. DecisionsAreAudited'
      BY <3>11 DEF DecisionsAreAudited
    <3> QED BY <3>7, <3>9, <3>10, <3>12 DEF AuditParts
  <2>7. ASSUME NEW c \in Calls, Ask(c)
        PROVE  AuditParts'
    <3>1. call[c] \in Busy /\ call[c] # Idle /\ call[c].at # "decide"
      BY <2>7, BusyAt DEF Ask
    <3>2. call' = [call EXCEPT ![c] = [call[c] EXCEPT !.at = "asked"]]
      BY <2>7 DEF Ask
    <3> QED BY <2>6, <2>7, <3>1, <3>2 DEF Ask
  <2>8. ASSUME NEW c \in Calls, Reply(c)
        PROVE  AuditParts'
    <3>1. call[c] \in Busy /\ call[c] # Idle /\ call[c].at = "asked"
      BY <2>8, BusyAt DEF Reply
    <3>2. call' = [call EXCEPT ![c] = [call[c] EXCEPT !.at = "replied"]]
      BY <2>8 DEF Reply
    <3> QED BY <2>6, <2>8, <3>1, <3>2 DEF Reply
  <2>9. ASSUME NEW c \in Calls, NEW choice \in Choices, Conclude(c, choice)
        PROVE  AuditParts'
    <3> DEFINE g == call[c].id
    <3>1. call[c] # Idle /\ g \in Ids
      BY <2>9, BusyAt, BusyFields DEF Conclude
    <3>2. /\ call' = [call EXCEPT ![c] = Idle]
          /\ UNCHANGED <<actions, chats, generation>>
      BY <2>9 DEF Conclude
    <3>3. \A f \in Ids : f # g => feedback'[f] = feedback[f]
      BY <2>9 DEF Conclude, TypeOK
    <3>4. g[1] <= generation /\ 2 <= Len(chats[g])
      BY <2>9, <3>1 DEF Conclude, CallsArePast, AnswersAreStored
    <3>5. FutureIsBlank'
      BY <3>1, <3>2, <3>3, <3>4, GenerationOfId DEF FutureIsBlank
    <3>6. ASSUME NEW f \in Ids, feedback'[f] # Absent, Len(chats'[f]) <= 1
          PROVE  Audited(f)'
      <4>1. Len(chats[g]) \in Nat
        BY <3>1 DEF TypeOK
      <4>2. f # g
        BY <3>2, <3>4, <3>6, <4>1
      <4>3. Audited(f)
        BY <3>2, <3>3, <3>6, <4>2 DEF DecisionsAreAudited
      <4> QED BY <3>2, <3>3, <4>2, <4>3, AuditedLooksAt
    <3>7. DecisionsAreAudited'
      BY <3>6 DEF DecisionsAreAudited
    <3> QED BY <3>2, <3>5, <3>7, AuditSurvivesEnd DEF AuditParts
  <2>10. ASSUME NEW c \in Calls, CallFails(c)
         PROVE  AuditParts'
    <3>1. /\ call' = [call EXCEPT ![c] = Idle]
          /\ UNCHANGED <<feedback, actions, chats, generation>>
      BY <2>10 DEF CallFails
    <3>2. FutureIsBlank' /\ DecisionsAreAudited'
      BY <3>1 DEF FutureIsBlank, DecisionsAreAudited, Audited, ActionOf
    <3> QED BY <3>1, <3>2, AuditSurvivesEnd DEF AuditParts
  <2>11. CASE UNCHANGED vars
    BY <2>11 DEF vars, AuditParts, FutureIsBlank, CallsArePast, AnswersAreStored,
                 DecisionsAreAudited, Audited, ActionOf
  <2> QED BY <2>1, <2>3, <2>4, <2>5, <2>7, <2>8, <2>9, <2>10, <2>11 DEF Next
<1> QED BY <1>1, <1>2, TypeCorrect, PTL DEF Spec, AuditInv

\* The last action on a card nobody has discussed is the card's state.
THEOREM DecisionsAudited == Spec => []DecisionsAreAudited
<1>1. AuditInv => DecisionsAreAudited
  BY DEF AuditInv, AuditParts
<1> QED BY <1>1, AuditInvariant, PTL

-----------------------------------------------------------------------------
\* A conversation only gets longer when a call appends to it.
LEMMA TalkGrows ==
  ASSUME TypeOK, NEW g \in Ids, NEW role \in {"ai", "user"},
         chats' = [chats EXCEPT ![g] = Append(@, role)],
         NEW f \in Ids, Len(chats[f]) > 1
  PROVE  Len(chats'[f]) > 1
<1>1. chats[f] \in Seq({"ai", "user"})
  BY DEF TypeOK
<1>2. chats'[f] = IF f = g THEN Append(chats[f], role) ELSE chats[f]
  BY DEF TypeOK
<1>3. Len(chats[f]) \in Nat /\ Len(Append(chats[f], role)) = Len(chats[f]) + 1
  BY <1>1
<1> QED BY <1>2, <1>3

\* A card of an earlier generation is there only because somebody decided or
\* discussed it: nothing but a call that was under way brings it back.
THEOREM OldCardsSaved == Spec => []OldCardsWereSaved
<1>1. Init => OldCardsWereSaved
  BY DEF Init, OldCardsWereSaved
<1>2. ASSUME AuditInv, OldCardsWereSaved, [Next]_vars
      PROVE  OldCardsWereSaved'
  <2> USE <1>2
  <2>0. TypeOK /\ AnswersAreStored
    BY DEF AuditInv, AuditParts
  <2> USE <2>0
  <2>1. CASE Generate
    <3>1. generation' = generation + 1
      BY <2>1 DEF Generate
    <3>2. PICK S \in SUBSET Cards, choice \in Choices :
            feedback' = [f \in Ids |-> IF f \in {generation + 1} \X S
                                      THEN NewRow(choice) ELSE Absent]
      BY <2>1 DEF Generate
    <3>3. \A f \in Ids : feedback'[f] # Absent => f[1] = generation + 1
      BY <3>2
    <3> QED BY <3>1, <3>3, GenerationOfId DEF OldCardsWereSaved
  <2>2. ASSUME NEW c \in Calls, NEW f \in Ids, NEW slot, Begin(c, f, slot)
        PROVE  OldCardsWereSaved'
    BY <2>2 DEF Begin, OldCardsWereSaved
  <2>3. ASSUME NEW c \in Calls, Decide(c)
        PROVE  OldCardsWereSaved'
    <3> DEFINE g == call[c].id
               r == Decided(call[c].copy, call[c].wish)
    <3>1. /\ g \in Ids /\ ActionOf(r) \in Action
      BY <2>3, BusyAt, BusyFields, DecidedIsRow, ActionOfRow DEF Decide
    <3>2. /\ feedback' = [feedback EXCEPT ![g] = r]
          /\ actions' = [actions EXCEPT ![g] = Append(@, ActionOf(r))]
          /\ UNCHANGED <<chats, generation>>
      BY <2>3 DEF Decide
    <3> HIDE DEF g, r
    <3>3. actions'[g] # << >>
      <4>1. actions[g] \in Seq(Action) /\ actions'[g] = Append(actions[g], ActionOf(r))
        BY <3>1, <3>2 DEF TypeOK
      <4> QED BY <3>1, <4>1
    <3>4. \A f \in Ids : f # g => feedback'[f] = feedback[f] /\ actions'[f] = actions[f]
      BY <3>2 DEF TypeOK
    <3> QED BY <3>2, <3>3, <3>4 DEF OldCardsWereSaved
  <2>4. ASSUME NEW c \in Calls, call[c] # Idle, NEW role \in {"ai", "user"},
               UNCHANGED <<feedback, actions, generation>>,
               chats' = [chats EXCEPT ![call[c].id] = Append(@, role)]
        PROVE  OldCardsWereSaved'
    <3>1. call[c].id \in Ids
      BY <2>4, CardOfCall
    <3>2. \A f \in Ids : Len(chats[f]) > 1 => Len(chats'[f]) > 1
      BY <2>4, <3>1, TalkGrows
    <3> QED BY <2>4, <3>2 DEF OldCardsWereSaved
  <2>5. ASSUME NEW c \in Calls, Ask(c) \/ Reply(c)
        PROVE  OldCardsWereSaved'
    <3>1. call[c] # Idle
      BY <2>5, BusyAt DEF Ask, Reply
    <3> QED BY <2>4, <2>5, <3>1 DEF Ask, Reply
  <2>6. ASSUME NEW c \in Calls, NEW choice \in Choices, Conclude(c, choice)
        PROVE  OldCardsWereSaved'
    <3> DEFINE g == call[c].id
    <3>1. g \in Ids /\ 2 <= Len(chats[g])
      BY <2>6, BusyAt, BusyFields DEF Conclude, AnswersAreStored
    <3>2. Len(chats[g]) > 1
      <4>1. Len(chats[g]) \in Nat
        BY <3>1 DEF TypeOK
      <4> QED BY <3>1, <4>1
    <3>3. /\ \A f \in Ids : f # g => feedback'[f] = feedback[f]
          /\ UNCHANGED <<actions, chats, generation>>
      BY <2>6 DEF Conclude, TypeOK
    <3> QED BY <3>2, <3>3 DEF OldCardsWereSaved
  <2>7. CASE UNCHANGED <<feedback, actions, chats, generation>>
    BY <2>7 DEF OldCardsWereSaved
  <2> QED BY <2>1, <2>2, <2>3, <2>5, <2>6, <2>7
          DEF Next, BeginDecide, BeginChat, CallFails, vars
<1> QED BY <1>1, <1>2, AuditInvariant, PTL DEF Spec

-----------------------------------------------------------------------------
Roles == {"ai", "user"}

\* How many of the first n entries of conversation s are of one role.
Count(s, n, role) == Cardinality({i \in 1 .. n : s[i] = role})

\* The calls that have asked about card f and wait for the model.
Asking(f) == {c \in Calls : call[c].at = "asked" /\ call[c].id = f}

\* The whole conversation, with a reply to come for every call that waits.
TalkBalanced ==
  \A f \in Ids :
    Count(chats[f], Len(chats[f]), "ai") + Cardinality(Asking(f))
      <= 1 + Count(chats[f], Len(chats[f]), "user")

\* Entries are counted by naturals.
LEMMA CountIsNat ==
  ASSUME NEW s, NEW n \in Nat, NEW role
  PROVE  /\ IsFiniteSet({i \in 1 .. n : s[i] = role})
         /\ Count(s, n, role) \in Nat
<1>1. IsFiniteSet(1 .. n)
  BY FS_Interval
<1>2. IsFiniteSet({i \in 1 .. n : s[i] = role})
  BY <1>1, FS_Subset
<1> QED BY <1>2, FS_CardinalityType DEF Count

\* The same, of a conversation's end.
LEMMA CountAtEnd ==
  ASSUME NEW s, Len(s) \in Nat, NEW role
  PROVE  Count(s, Len(s), role) \in Nat /\ Count(s, Len(s) + 1, role) \in Nat
<1>1. Len(s) + 1 \in Nat
  OBVIOUS
<1> QED BY <1>1, CountIsNat

\* An empty conversation has none, and the first message is the one it has.
LEMMA CountShort ==
  ASSUME NEW role \in Roles
  PROVE  /\ Count(<< >>, 0, role) = 0
         /\ Count(<<"ai">>, 1, role) = IF role = "ai" THEN 1 ELSE 0
<1>1. {i \in 1 .. 0 : << >>[i] = role} = {}
  OBVIOUS
<1>2. Count(<< >>, 0, role) = 0
  BY <1>1, FS_EmptySet DEF Count
<1>3. CASE role = "ai"
  <2>1. {i \in 1 .. 1 : <<"ai">>[i] = role} = {} \cup {1}
    BY <1>3
  <2>2. Cardinality({} \cup {1}) = 1
    <3>1. IsFiniteSet({}) /\ Cardinality({}) = 0 /\ 1 \notin {}
      BY FS_EmptySet
    <3>2. Cardinality({} \cup {1}) = IF 1 \in {} THEN Cardinality({}) ELSE Cardinality({}) + 1
      BY <3>1, FS_AddElement, Zenon
    <3> QED BY <3>1, <3>2
  <2> QED BY <1>2, <1>3, <2>1, <2>2 DEF Count
<1>4. CASE role # "ai"
  <2>1. {i \in 1 .. 1 : <<"ai">>[i] = role} = {}
    BY <1>4
  <2> QED BY <1>2, <1>4, <2>1, FS_EmptySet DEF Count
<1> QED BY <1>3, <1>4

\* A new entry changes no earlier count, and adds one to the count of its role.
LEMMA CountAppend ==
  ASSUME NEW s \in Seq(Roles), NEW new \in Roles, NEW role \in Roles
  PROVE  /\ \A n \in 0 .. Len(s) : Count(Append(s, new), n, role) = Count(s, n, role)
         /\ Count(Append(s, new), Len(s) + 1, role) =
              IF role = new THEN Count(s, Len(s), role) + 1 ELSE Count(s, Len(s), role)
<1> DEFINE t == Append(s, new)
           old == {i \in 1 .. Len(s) : s[i] = role}
           all == {i \in 1 .. Len(s) + 1 : t[i] = role}
<1>1. /\ Len(s) \in Nat
      /\ \A i \in 1 .. Len(s) : t[i] = s[i]
      /\ t[Len(s) + 1] = new
  OBVIOUS
<1>2. ASSUME NEW n \in 0 .. Len(s) PROVE Count(t, n, role) = Count(s, n, role)
  <2>1. {i \in 1 .. n : t[i] = role} = {i \in 1 .. n : s[i] = role}
    BY <1>1
  <2> QED BY <2>1 DEF Count
<1>3. IsFiniteSet(old)
  BY <1>1, CountIsNat
<1>4. CASE role = new
  <2>1. all = old \cup {Len(s) + 1}
    BY <1>1, <1>4
  <2>2. Len(s) + 1 \notin old
    BY <1>1
  <2>3. Cardinality(all) = Cardinality(old) + 1
    BY <1>3, <2>1, <2>2, FS_AddElement, Zenon
  <2> QED BY <1>2, <1>4, <2>3 DEF Count
<1>5. CASE role # new
  <2>1. all = old
    BY <1>1, <1>5
  <2> QED BY <1>2, <1>5, <2>1 DEF Count
<1> QED BY <1>4, <1>5

\* The calls that wait are finitely many.
LEMMA AskingFinite ==
  ASSUME NEW f
  PROVE  IsFiniteSet(Asking(f)) /\ Cardinality(Asking(f)) \in Nat
<1>1. IsFiniteSet(Asking(f))
  BY CallsAssumption, FS_Subset DEF Asking
<1> QED BY <1>1, FS_CardinalityType

\* One more entry keeps every earlier point of the conversation as it was, and
\* the new end is as the balance at the end says.
LEMMA PrefixesFollow ==
  ASSUME NEW s \in Seq(Roles), NEW new \in Roles,
         \A n \in 0 .. Len(s) : Count(s, n, "ai") <= 1 + Count(s, n, "user"),
         Count(Append(s, new), Len(s) + 1, "ai")
           <= 1 + Count(Append(s, new), Len(s) + 1, "user")
  PROVE  \A n \in 0 .. Len(Append(s, new)) :
           Count(Append(s, new), n, "ai") <= 1 + Count(Append(s, new), n, "user")
<1> DEFINE t == Append(s, new)
<1>1. Len(s) \in Nat /\ Len(t) = Len(s) + 1
  OBVIOUS
<1>2. ASSUME NEW n \in 0 .. Len(t)
      PROVE  Count(t, n, "ai") <= 1 + Count(t, n, "user")
  <2>1. CASE n \in 0 .. Len(s)
    <3>1. Count(t, n, "ai") = Count(s, n, "ai") /\ Count(t, n, "user") = Count(s, n, "user")
      BY <2>1, CountAppend DEF Roles
    <3> QED BY <2>1, <3>1
  <2>2. CASE n = Len(s) + 1
    BY <2>2
  <2> QED BY <1>1, <1>2, <2>1, <2>2
<1> QED BY <1>2

\* Every reply follows its question, at every point of every conversation.
PrefixesBalanced ==
  \A f \in Ids : \A n \in 0 .. Len(chats[f]) :
    Count(chats[f], n, "ai") <= 1 + Count(chats[f], n, "user")

TalkParts == TalkBalanced /\ PrefixesBalanced
TalkInv == AuditInv /\ TalkParts

\* What waits does not grow, and no conversation changes: the balance stays.
LEMMA BalanceSurvives ==
  ASSUME TypeOK, TalkBalanced, UNCHANGED chats,
         \A f \in Ids : Asking(f)' \subseteq Asking(f)
  PROVE  TalkBalanced'
<1>1. ASSUME NEW f \in Ids
      PROVE  Cardinality(Asking(f)') <= Cardinality(Asking(f))
  BY <1>1, AskingFinite, FS_Subset
<1>2. ASSUME NEW f \in Ids
      PROVE  Cardinality(Asking(f)') \in Nat /\ Cardinality(Asking(f)) \in Nat
  <2>1. IsFiniteSet(Asking(f)')
    BY AskingFinite, FS_Subset
  <2> QED BY <2>1, AskingFinite, FS_CardinalityType
<1>4. ASSUME NEW f \in Ids, NEW role
      PROVE  Count(chats[f], Len(chats[f]), role) \in Nat
  <2>1. Len(chats[f]) \in Nat
    BY DEF TypeOK
  <2> QED BY <2>1, CountAtEnd
<1>5. ASSUME NEW f \in Ids
      PROVE  Count(chats'[f], Len(chats'[f]), "ai") + Cardinality(Asking(f)')
               <= 1 + Count(chats'[f], Len(chats'[f]), "user")
  <2>1. Count(chats[f], Len(chats[f]), "ai") + Cardinality(Asking(f))
          <= 1 + Count(chats[f], Len(chats[f]), "user")
    BY DEF TalkBalanced
  <2>2. /\ Count(chats[f], Len(chats[f]), "ai") \in Nat
        /\ Count(chats[f], Len(chats[f]), "user") \in Nat
    BY <1>4
  <2>3. Count(chats[f], Len(chats[f]), "ai") + Cardinality(Asking(f)')
          <= 1 + Count(chats[f], Len(chats[f]), "user")
    BY <1>1, <1>2, <2>1, <2>2
  <2> QED BY <2>3
<1> QED BY <1>5 DEF TalkBalanced

\* A new entry of card g, and what it does to the calls that wait for card g.
LEMMA BalanceAppends ==
  ASSUME TypeOK, TalkParts, NEW g \in Ids, NEW new \in Roles,
         chats' = [chats EXCEPT ![g] = Append(@, new)],
         \A f \in Ids : f # g => Asking(f)' = Asking(f),
         Cardinality(Asking(g)') \in Nat,
         new = "user" => Cardinality(Asking(g)') <= Cardinality(Asking(g)) + 1,
         new = "ai" => Cardinality(Asking(g)') + 1 <= Cardinality(Asking(g))
  PROVE  TalkParts'
<1> DEFINE s == chats[g]
<1>1. s \in Seq(Roles) /\ Len(s) \in Nat
  BY DEF TypeOK, Roles
<1>2. chats'[g] = Append(s, new) /\ \A f \in Ids : f # g => chats'[f] = chats[f]
  BY DEF TypeOK
<1>3. Len(Append(s, new)) = Len(s) + 1
  BY <1>1
<1>4. /\ Count(Append(s, new), Len(s) + 1, "ai") =
           IF "ai" = new THEN Count(s, Len(s), "ai") + 1 ELSE Count(s, Len(s), "ai")
      /\ Count(Append(s, new), Len(s) + 1, "user") =
           IF "user" = new THEN Count(s, Len(s), "user") + 1 ELSE Count(s, Len(s), "user")
  BY <1>1, CountAppend DEF Roles
<1>5. Count(s, Len(s), "ai") \in Nat /\ Count(s, Len(s), "user") \in Nat
  BY <1>1, CountIsNat
<1>6. Cardinality(Asking(g)) \in Nat
  BY AskingFinite
<1>6a. Cardinality(Asking(g)') \in Nat
  OBVIOUS
<1>7. Count(s, Len(s), "ai") + Cardinality(Asking(g)) <= 1 + Count(s, Len(s), "user")
  BY DEF TalkParts, TalkBalanced
<1>8. Count(Append(s, new), Len(s) + 1, "ai") + Cardinality(Asking(g)')
        <= 1 + Count(Append(s, new), Len(s) + 1, "user")
  <2>1. CASE new = "user"
    BY <1>4, <1>5, <1>6, <1>7, <2>1
  <2>2. CASE new = "ai"
    BY <1>4, <1>5, <1>6, <1>7, <2>2
  <2> QED BY <2>1, <2>2 DEF Roles
<1>9. TalkBalanced'
  <2>1. ASSUME NEW f \in Ids
        PROVE  Count(chats'[f], Len(chats'[f]), "ai") + Cardinality(Asking(f)')
                 <= 1 + Count(chats'[f], Len(chats'[f]), "user")
    <3>1. CASE f = g
      BY <1>2, <1>3, <1>8, <3>1
    <3>2. CASE f # g
      BY <1>2, <3>2 DEF TalkParts, TalkBalanced
    <3> QED BY <3>1, <3>2
  <2> QED BY <2>1 DEF TalkBalanced
<1>10. Count(Append(s, new), Len(s) + 1, "ai") <= 1 + Count(Append(s, new), Len(s) + 1, "user")
  <2>1. /\ Count(Append(s, new), Len(s) + 1, "ai") \in Nat
        /\ Count(Append(s, new), Len(s) + 1, "user") \in Nat
    <3>1. Len(s) + 1 \in Nat
      BY <1>1
    <3> HIDE DEF s
    <3> QED BY <3>1, CountIsNat
  <2> QED BY <1>6a, <1>8, <2>1
<1>11. \A n \in 0 .. Len(Append(s, new)) :
         Count(Append(s, new), n, "ai") <= 1 + Count(Append(s, new), n, "user")
  <2>1. \A n \in 0 .. Len(s) : Count(s, n, "ai") <= 1 + Count(s, n, "user")
    BY DEF TalkParts, PrefixesBalanced
  <2> HIDE DEF s
  <2> QED BY <1>1, <1>10, <2>1, PrefixesFollow
<1>12. PrefixesBalanced'
  <2>1. ASSUME NEW f \in Ids
        PROVE  \A n \in 0 .. Len(chats'[f]) :
                 Count(chats'[f], n, "ai") <= 1 + Count(chats'[f], n, "user")
    <3>1. CASE f = g
      BY <1>2, <1>11, <3>1
    <3>2. CASE f # g
      BY <1>2, <3>2 DEF TalkParts, PrefixesBalanced
    <3> QED BY <3>1, <3>2
  <2> QED BY <2>1 DEF PrefixesBalanced
<1> QED BY <1>9, <1>12 DEF TalkParts

\* No conversation changes: no point of one becomes unbalanced.
LEMMA TalkSurvives ==
  ASSUME TypeOK, TalkParts, UNCHANGED chats, \A f \in Ids : Asking(f)' \subseteq Asking(f)
  PROVE  TalkParts'
<1>1. TalkBalanced'
  BY BalanceSurvives DEF TalkParts
<1>2. PrefixesBalanced'
  BY DEF TalkParts, PrefixesBalanced
<1> QED BY <1>1, <1>2 DEF TalkParts

\* Replies never get ahead of the questions: whatever calls overlap, fail or
\* hang, no point of a conversation has more replies than it may have.
THEOREM TalkInvariant == Spec => []TalkInv
<1>1. Init => TalkParts
  <2> SUFFICES ASSUME Init PROVE TalkParts
    OBVIOUS
  <2>1. ASSUME NEW f \in Ids
        PROVE  chats[f] = << >> /\ Len(chats[f]) = 0 /\ Asking(f) = {}
    BY DEF Init, Asking, Idle
  <2>2. Count(<< >>, 0, "ai") = 0 /\ Count(<< >>, 0, "user") = 0
    BY CountShort DEF Roles
  <2>3. TalkBalanced
    BY <2>1, <2>2, FS_EmptySet DEF TalkBalanced
  <2>4. PrefixesBalanced
    <3>1. ASSUME NEW f \in Ids, NEW n \in 0 .. Len(chats[f])
          PROVE  Count(chats[f], n, "ai") <= 1 + Count(chats[f], n, "user")
      <4>1. n = 0 /\ chats[f] = << >>
        BY <2>1, <3>1
      <4> QED BY <2>2, <4>1
    <3> QED BY <3>1 DEF PrefixesBalanced
  <2> QED BY <2>3, <2>4 DEF TalkParts
<1>2. ASSUME AuditInv, TypeOK', TalkParts, [Next]_vars
      PROVE  TalkParts'
  <2> USE <1>2
  <2>0. TypeOK /\ CallsArePast
    BY DEF AuditInv, AuditParts
  <2> USE <2>0
  <2>1. CASE Generate
    <3>1. UNCHANGED call
      BY <2>1 DEF Generate
    <3>2. PICK S \in SUBSET Cards :
            chats' = [f \in Ids |-> IF f \in {generation + 1} \X S
                                    THEN <<"ai">> ELSE chats[f]]
      BY <2>1 DEF Generate
    <3>3. \A f \in Ids : Asking(f)' = Asking(f)
      BY <3>1 DEF Asking
    <3>4. ASSUME NEW f \in Ids, chats'[f] # chats[f]
          PROVE  chats'[f] = <<"ai">> /\ Len(chats'[f]) = 1 /\ Asking(f) = {}
      <4>1. f[1] = generation + 1 /\ chats'[f] = <<"ai">>
        BY <3>2, <3>4
      <4>2. Asking(f) = {}
        <5>1. ASSUME NEW c \in Asking(f) PROVE FALSE
          <6>1. call[c] # Idle /\ call[c].id = f
            BY <5>1, BusyAt DEF Asking
          <6> QED BY <4>1, <5>1, <6>1, GenerationOfId DEF Asking, CallsArePast
        <5> QED BY <5>1
      <4> QED BY <4>1, <4>2
    <3>5. /\ Count(<<"ai">>, 1, "ai") = 1 /\ Count(<<"ai">>, 1, "user") = 0
          /\ Cardinality({}) = 0
      BY CountShort, FS_EmptySet DEF Roles
    <3>6. ASSUME NEW f \in Ids
          PROVE  Count(chats'[f], Len(chats'[f]), "ai") + Cardinality(Asking(f)')
                   <= 1 + Count(chats'[f], Len(chats'[f]), "user")
      <4>1. CASE chats'[f] = chats[f]
        BY <3>3, <4>1 DEF TalkParts, TalkBalanced
      <4>2. CASE chats'[f] # chats[f]
        <5>1. chats'[f] = <<"ai">> /\ Len(chats'[f]) = 1 /\ Asking(f)' = {}
          BY <3>3, <3>4, <4>2
        <5>2. /\ Count(chats'[f], Len(chats'[f]), "ai") = 1
              /\ Count(chats'[f], Len(chats'[f]), "user") = 0
              /\ Cardinality(Asking(f)') = 0
          BY <3>5, <5>1
        <5> QED BY <5>2
      <4> QED BY <4>1, <4>2
    <3>7. ASSUME NEW f \in Ids, NEW n \in 0 .. Len(chats'[f])
          PROVE  Count(chats'[f], n, "ai") <= 1 + Count(chats'[f], n, "user")
      <4>1. CASE chats'[f] = chats[f]
        BY <3>7, <4>1 DEF TalkParts, PrefixesBalanced
      <4>2. CASE chats'[f] # chats[f]
        <5>1. Count(<<"ai">>, 0, "ai") = 0 /\ Count(<<"ai">>, 0, "user") = 0
          <6>1. /\ {i \in 1 .. 0 : <<"ai">>[i] = "ai"} = {}
                /\ {i \in 1 .. 0 : <<"ai">>[i] = "user"} = {}
            OBVIOUS
          <6> QED BY <6>1, FS_EmptySet DEF Count
        <5>2. n = 0 \/ n = 1
          <6>1. Len(chats'[f]) = 1
            BY <3>4, <4>2
          <6>2. n \in 0 .. 1
            BY <3>7, <6>1
          <6> QED BY <6>2
        <5>3. chats'[f] = <<"ai">>
          BY <3>4, <4>2
        <5>4. /\ Count(chats'[f], n, "ai") \in {0, 1}
              /\ Count(chats'[f], n, "user") = 0
          BY <3>5, <5>1, <5>2, <5>3
        <5> QED BY <5>4
      <4> QED BY <4>1, <4>2
    <3>8. TalkBalanced'
      BY <3>6 DEF TalkBalanced
    <3>9. PrefixesBalanced'
      BY <3>7 DEF PrefixesBalanced
    <3> QED BY <3>8, <3>9 DEF TalkParts
  <2>2. ASSUME NEW c \in Calls, NEW slot, slot.at # "asked", UNCHANGED chats,
               call' = [call EXCEPT ![c] = slot]
        PROVE  TalkParts'
    <3>1. call'[c] = slot /\ \A d \in Calls : d # c => call'[d] = call[d]
      BY <2>2 DEF TypeOK
    <3>2. \A f \in Ids : Asking(f)' \subseteq Asking(f)
      BY <2>2, <3>1 DEF Asking
    <3> QED BY <2>2, <3>2, TalkSurvives
  <2>3. ASSUME NEW c \in Calls, Ask(c)
        PROVE  TalkParts'
    <3>1. call[c] \in Busy /\ call[c].id \in Ids /\ call[c].at # "decide"
      BY <2>3, BusyAt, BusyFields DEF Ask
    <3>0. PICK g \in Ids : g = call[c].id
      BY <3>1
    <3>2. chats' = [chats EXCEPT ![g] = Append(@, "user")]
      BY <2>3, <3>0 DEF Ask
    <3>3. /\ call'[c].at = "asked" /\ call'[c].id = g
          /\ \A d \in Calls : d # c => call'[d] = call[d]
      BY <2>3, <3>0, <3>1, ChatGoesOn DEF Ask, TypeOK
    <3>4. \A f \in Ids : f # g => Asking(f)' = Asking(f)
      BY <2>3, <3>0, <3>3 DEF Asking, Ask
    <3>5. Asking(g)' = Asking(g) \cup {c}
      BY <3>3 DEF Asking
    <3>6. /\ Cardinality(Asking(g) \cup {c})
               = IF c \in Asking(g) THEN Cardinality(Asking(g)) ELSE Cardinality(Asking(g)) + 1
          /\ Cardinality(Asking(g)) \in Nat
      BY AskingFinite, FS_AddElement, Zenon
    <3>7. /\ Cardinality(Asking(g)') \in Nat
          /\ Cardinality(Asking(g)') <= Cardinality(Asking(g)) + 1
      BY <3>5, <3>6
    <3>8. "user" \in Roles /\ "user" # "ai"
      BY DEF Roles
    <3> QED BY <3>2, <3>4, <3>7, <3>8, BalanceAppends
  <2>4. ASSUME NEW c \in Calls, Reply(c)
        PROVE  TalkParts'
    <3>1. call[c] \in Busy /\ call[c].id \in Ids /\ call[c].at = "asked"
      BY <2>4, BusyAt, BusyFields DEF Reply
    <3>0. PICK g \in Ids : g = call[c].id
      BY <3>1
    <3>2. chats' = [chats EXCEPT ![g] = Append(@, "ai")]
      BY <2>4, <3>0 DEF Reply
    <3>3. /\ call'[c].at = "replied" /\ call'[c].id = g
          /\ \A d \in Calls : d # c => call'[d] = call[d]
      BY <2>4, <3>0, <3>1, ChatGoesOn DEF Reply, TypeOK
    <3>4. \A f \in Ids : f # g => Asking(f)' = Asking(f)
      BY <2>4, <3>0, <3>3 DEF Asking, Reply
    <3>5. Asking(g)' = Asking(g) \ {c} /\ c \in Asking(g)
      BY <3>0, <3>1, <3>3 DEF Asking
    <3>6. /\ Cardinality(Asking(g) \ {c})
               = IF c \in Asking(g) THEN Cardinality(Asking(g)) - 1 ELSE Cardinality(Asking(g))
          /\ IsFiniteSet(Asking(g) \ {c})
          /\ Cardinality(Asking(g)) \in Nat
      BY AskingFinite, FS_RemoveElement, Zenon
    <3>6a. Cardinality(Asking(g) \ {c}) \in Nat
      BY <3>6, FS_CardinalityType
    <3>7. /\ Cardinality(Asking(g)') \in Nat
          /\ Cardinality(Asking(g)') + 1 <= Cardinality(Asking(g))
      BY <3>5, <3>6, <3>6a
    <3>8. "ai" \in Roles /\ "user" # "ai"
      BY DEF Roles
    <3> QED BY <3>2, <3>4, <3>7, <3>8, BalanceAppends
  <2>5. ASSUME NEW c \in Calls, NEW f \in Ids, NEW d \in Decision, BeginDecide(c, f, d)
        PROVE  TalkParts'
    BY <2>2, <2>5 DEF BeginDecide, Begin
  <2>6. ASSUME NEW c \in Calls, NEW f \in Ids, BeginChat(c, f)
        PROVE  TalkParts'
    BY <2>2, <2>6 DEF BeginChat, Begin
  <2>7. ASSUME NEW c \in Calls,
               Decide(c) \/ CallFails(c) \/ \E choice \in Choices : Conclude(c, choice)
        PROVE  TalkParts'
    <3>1. Idle.at # "asked"
      BY DEF Idle
    <3> QED BY <2>2, <2>7, <3>1 DEF Decide, CallFails, Conclude
  <2>8. CASE UNCHANGED vars
    <3>1. UNCHANGED <<chats, call>>
      BY <2>8 DEF vars
    <3>2. \A f \in Ids : Asking(f)' \subseteq Asking(f)
      BY <3>1 DEF Asking
    <3> QED BY <3>1, <3>2, TalkSurvives
  <2> QED BY <2>1, <2>3, <2>4, <2>5, <2>6, <2>7, <2>8 DEF Next
<1> QED BY <1>1, <1>2, AuditInvariant, TypeCorrect, PTL DEF Spec, TalkInv

\* There is never a reply to a question nobody asked.
THEOREM RepliesFollow == Spec => []RepliesFollowQuestions
<1>1. TalkInv => RepliesFollowQuestions
  <2> SUFFICES ASSUME TalkInv, NEW f \in Ids, NEW n \in DOMAIN chats[f]
               PROVE  Count(chats[f], n, "ai") <= 1 + Count(chats[f], n, "user")
    BY DEF RepliesFollowQuestions, Count
  <2>1. chats[f] \in Seq(Roles)
    BY DEF TalkInv, AuditInv, TypeOK, Roles
  <2>2. n \in 0 .. Len(chats[f])
    BY <2>1
  <2> QED BY <2>2 DEF TalkInv, TalkParts, PrefixesBalanced
<1> QED BY <1>1, TalkInvariant, PTL
=============================================================================
