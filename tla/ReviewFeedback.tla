--------------------------- MODULE ReviewFeedback ---------------------------
(***************************************************************************)
(* The feedback cards of one review job: the worker attempts that generate *)
(* them, and the calls that decide (ResolveReviewFeedback) and discuss     *)
(* (AppendReviewFeedbackChat) them, in flight together.                    *)
(*                                                                         *)
(* Both calls read a row, compute, and later save all its columns: decide  *)
(* in one transaction with its audit record, but from a row read before    *)
(* it; chat after the model has answered, seconds later.                   *)
(***************************************************************************)
EXTENDS Naturals, Sequences, FiniteSets

CONSTANTS
  Cards,            \* the findings a review may report
  Choices,          \* the values of FeedbackResolution
  Calls,            \* slots for calls in flight
  MaxGenerations,   \* how often the worker may generate the review of the job
  MaxCalls          \* bound on the calls made, for model checking

None == "none"      \* a column that is NULL, a field of a request left empty

ASSUME ChoicesAssumption == None \notin Choices
ASSUME GenerationsAssumption == MaxGenerations \in Nat
ASSUME CallsAssumption == IsFiniteSet(Calls)

Generations == 1 .. MaxGenerations
Ids == Generations \X Cards    \* primary keys: every generation gets new ones

VARIABLES
  feedback,         \* feedback[f]: the row of review_feedbacks, or Absent
  actions,          \* actions[f]: the rows of review_feedback_actions, in order
  chats,            \* chats[f]: the roles of the rows of review_feedback_chats
  call,             \* call[c]: the call that occupies slot c
  generation,       \* how often the review has been generated
  made              \* how many calls have been made

vars == <<feedback, actions, chats, call, generation, made>>

-----------------------------------------------------------------------------
Statuses == {"open", "resolved", "dismissed"}

\* note says whether resolution_note holds a text.
Row == [status : Statuses, resolution : Choices \cup {None}, note : BOOLEAN,
        recommendation : Choices]
Absent == [status |-> "absent"]

NewRow(choice) ==
  [status |-> "open", resolution |-> None, note |-> FALSE, recommendation |-> choice]

\* What a caller asks of a card: the browser sends "resolved" with a choice and
\* a note (the button waits for one), and "open" with what its card shows of
\* both, if anything; "dismissed" only the API knows.
Decision ==
  [status : {"resolved"}, resolution : Choices, note : {TRUE}]
    \cup [status : {"open", "dismissed"}, resolution : Choices \cup {None}, note : BOOLEAN]

(* Seeded faults.  No action uses them: each is a plausible slip in the     *)
(* definition that follows or that it is named after, and a run notices it *)
(* when it takes that definition's place.                                  *)

\* The note is not saved.
DecidedWithoutNote(r, d) ==
  [r EXCEPT !.status = d.status,
            !.resolution = IF d.resolution = None THEN @ ELSE d.resolution]

\* The assignments of ResolveReviewFeedback: an empty resolution keeps the old
\* one, a blank note removes it (an empty status would keep the old one too, but
\* every caller names one).
Decided(r, d) ==
  [r EXCEPT !.status = d.status,
            !.resolution = IF d.resolution = None THEN @ ELSE d.resolution,
            !.note = d.note]

ActionType(status) ==
  CASE status = "dismissed" -> "dismiss"
    [] status = "open" -> "unresolve"
    [] OTHER -> "resolve"

Action == [type : {"resolve", "unresolve", "dismiss"}, resolution : Choices \cup {None}]
ActionOf(r) == [type |-> ActionType(r.status), resolution |-> r.resolution]

\* A slot: idle, or a call on card id that holds the row it has read.
Idle == [at |-> "idle"]
Busy == [at : {"decide"}, id : Ids, copy : Row, wish : Decision]
          \cup [at : {"chat", "asked", "replied"}, id : Ids, copy : Row]

-----------------------------------------------------------------------------
Init ==
  /\ feedback = [f \in Ids |-> Absent]
  /\ actions = [f \in Ids |-> << >>]
  /\ chats = [f \in Ids |-> << >>]
  /\ call = [c \in Calls |-> Idle]
  /\ generation = 0
  /\ made = 0

(* Seeded faults of the actions.                                           *)

\* The rows of earlier attempts are not deleted.
GenerateMore ==
  /\ generation < MaxGenerations
  /\ generation' = generation + 1
  /\ \E S \in SUBSET Cards : \E choice \in Choices :
       LET new == {generation + 1} \X S IN
       /\ feedback' = [f \in Ids |-> IF f \in new THEN NewRow(choice) ELSE feedback[f]]
       /\ chats' = [f \in Ids |-> IF f \in new THEN <<"ai">> ELSE chats[f]]
  /\ UNCHANGED <<actions, call, made>>

DecideLogging(c, action) ==
  /\ call[c].at = "decide"
  /\ LET f == call[c].id IN
     /\ feedback' = [feedback EXCEPT ![f] = Decided(call[c].copy, call[c].wish)]
     /\ actions' = [actions EXCEPT ![f] = Append(@, action)]
  /\ call' = [call EXCEPT ![c] = Idle]
  /\ UNCHANGED <<chats, generation, made>>

\* The log has the resolution of the request, which may be empty.
DecideLogsWish(c) ==
  DecideLogging(c, [type |-> ActionType(call[c].wish.status),
                    resolution |-> call[c].wish.resolution])

\* The log has the card as it was before the decision.
DecideLogsCopy(c) == DecideLogging(c, ActionOf(call[c].copy))

\* The message of the user is not stored before the model is asked.
AskUnstored(c) ==
  /\ call[c].at = "chat"
  /\ call' = [call EXCEPT ![c].at = "asked"]
  /\ UNCHANGED <<feedback, actions, chats, generation, made>>

-----------------------------------------------------------------------------
\* ReplaceGeneratedReview, one transaction: an attempt of the job deletes the
\* rows of the attempts before it and inserts its own, each with a first
\* message; chats and actions of the deleted rows stay.  (The browser lists
\* the rows of a job whatever its status, so calls may come in between.)
Generate ==
  /\ generation < MaxGenerations
  /\ generation' = generation + 1
  /\ \E S \in SUBSET Cards : \E choice \in Choices :
       LET new == {generation + 1} \X S IN
       /\ feedback' = [f \in Ids |-> IF f \in new THEN NewRow(choice) ELSE Absent]
       /\ chats' = [f \in Ids |-> IF f \in new THEN <<"ai">> ELSE chats[f]]
  /\ UNCHANGED <<actions, call, made>>

\* requireFeedbackAccess finds the row (a call that does not ends at once).
Begin(c, f, slot) ==
  /\ call[c] = Idle
  /\ made < MaxCalls
  /\ feedback[f] # Absent
  /\ made' = made + 1
  /\ call' = [call EXCEPT ![c] = slot]
  /\ UNCHANGED <<feedback, actions, chats, generation>>

BeginDecide(c, f, d) ==
  Begin(c, f, [at |-> "decide", id |-> f, copy |-> feedback[f], wish |-> d])

BeginChat(c, f) ==
  Begin(c, f, [at |-> "chat", id |-> f, copy |-> feedback[f]])

\* The transaction of ResolveReviewFeedback: Save, which inserts the row when it
\* is gone, and the audit record of the row as saved.
Decide(c) ==
  /\ call[c].at = "decide"
  /\ LET f == call[c].id
         r == Decided(call[c].copy, call[c].wish)
     IN /\ feedback' = [feedback EXCEPT ![f] = r]
        /\ actions' = [actions EXCEPT ![f] = Append(@, ActionOf(r))]
  /\ call' = [call EXCEPT ![c] = Idle]
  /\ UNCHANGED <<chats, generation, made>>

\* AppendReviewFeedbackChat inserts the message of the user ...
Ask(c) ==
  /\ call[c].at = "chat"
  /\ chats' = [chats EXCEPT ![call[c].id] = Append(@, "user")]
  /\ call' = [call EXCEPT ![c].at = "asked"]
  /\ UNCHANGED <<feedback, actions, generation, made>>

\* ... then, once the model (or the fallback) has answered, the reply ...
Reply(c) ==
  /\ call[c].at = "asked"
  /\ chats' = [chats EXCEPT ![call[c].id] = Append(@, "ai")]
  /\ call' = [call EXCEPT ![c].at = "replied"]
  /\ UNCHANGED <<feedback, actions, generation, made>>

\* ... and ends: when the conversation speaks for another recommendation than
\* the copy has, it saves the copy with it, and only then.
Conclude(c, choice) ==
  /\ call[c].at = "replied"
  /\ feedback' = IF choice = call[c].copy.recommendation THEN feedback
                 ELSE [feedback EXCEPT ![call[c].id] =
                         [call[c].copy EXCEPT !.recommendation = choice]]
  /\ call' = [call EXCEPT ![c] = Idle]
  /\ UNCHANGED <<actions, chats, generation, made>>

\* A statement of the call fails, or its request is cancelled: it ends there.
CallFails(c) ==
  /\ call[c] # Idle
  /\ call' = [call EXCEPT ![c] = Idle]
  /\ UNCHANGED <<feedback, actions, chats, generation, made>>

-----------------------------------------------------------------------------
Next ==
  \/ Generate
  \/ \E c \in Calls, f \in Ids, d \in Decision : BeginDecide(c, f, d)
  \/ \E c \in Calls, f \in Ids : BeginChat(c, f)
  \/ \E c \in Calls : Decide(c)
  \/ \E c \in Calls : Ask(c)
  \/ \E c \in Calls : Reply(c)
  \/ \E c \in Calls, choice \in Choices : Conclude(c, choice)
  \/ \E c \in Calls : CallFails(c)

Spec == Init /\ [][Next]_vars

-----------------------------------------------------------------------------
(* Properties *)

\* The type of every variable.
TypeOK ==
  /\ feedback \in [Ids -> Row \cup {Absent}]
  /\ actions \in [Ids -> Seq(Action)]
  /\ chats \in [Ids -> Seq({"ai", "user"})]
  /\ call \in [Calls -> Busy \cup {Idle}]
  /\ generation \in 0 .. MaxGenerations
  /\ made \in Nat

\* Row r of card f shows a decision somebody made about this very card.
Accounted(f, r) ==
  \/ r.status = "open" /\ r.resolution = None
  \/ \E i \in DOMAIN actions[f] : actions[f][i] = ActionOf(r)

\* However calls and generations interleave, a row (one brought back by a late
\* Save too) shows the state of a new card or one its audit log holds: never
\* half of one decision and half of another.
DecisionsAreLogged == \A f \in Ids : feedback[f] # Absent => Accounted(f, feedback[f])

\* filterResolvedFeedbacks: the cards that review apply works on.
Applicable(r) == r.status = "resolved" /\ r.resolution # None /\ r.note

\* A card that counts as resolved says what to do: review apply silently drops a
\* resolved card without a resolution or a note, and no late Save makes one.
ResolvedSaysHow ==
  \A f \in Ids : feedback[f].status = "resolved" => Applicable(feedback[f])

\* Every reply answers a question: but for the message each card starts with,
\* there are never more replies than questions, at no point of the conversation.
RepliesFollowQuestions ==
  \A f \in Ids : \A n \in DOMAIN chats[f] :
    Cardinality({i \in 1 .. n : chats[f][i] = "ai"})
      <= 1 + Cardinality({i \in 1 .. n : chats[f][i] = "user"})

\* Only a late Save brings a card back after its generation was replaced: a row
\* of an earlier generation has been decided or discussed, by a call that was
\* under way when the review was generated once more.
OldCardsWereSaved ==
  \A f \in Ids : feedback[f] # Absent /\ f[1] < generation =>
    actions[f] # << >> \/ Len(chats[f]) > 1

\* The last action on card f is the state of the card.
Audited(f) ==
  IF actions[f] = << >> THEN feedback[f].status = "open"
  ELSE ActionOf(feedback[f]) = actions[f][Len(actions[f])]

\* Decisions alone keep the audit log true: however they overlap, with each
\* other and with new generations, the last action on a card is the card's
\* state, as long as no chat about the card was answered.
DecisionsAreAudited ==
  \A f \in Ids : feedback[f] # Absent /\ Len(chats[f]) <= 1 => Audited(f)

\* What the audit log is for: the last action on a card is the card's state,
\* chats or no chats.
AuditMatchesRow == \A f \in Ids : feedback[f] # Absent => Audited(f)
=============================================================================
