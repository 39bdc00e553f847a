---------------------------- MODULE ReviewPanel ----------------------------
(***************************************************************************)
(* The review panel of the workspace page: the cards, the conversation and *)
(* the draft of a decision as the browser holds them, the calls it has in  *)
(* flight, and the two loops that wait for a review and for an apply job.  *)
(* A call is served as one step here (the stale saves inside the handlers  *)
(* are ReviewFeedback's); its answer arrives whenever it does.  A job that *)
(* Cloud Run executes again can succeed after it failed, and an apply job  *)
(* can be running again after it succeeded.  (A review that runs again     *)
(* after it succeeded replaces its cards by new ones: left out.)           *)
(***************************************************************************)
EXTENDS Naturals, FiniteSets, Sequences

CONSTANTS
  Findings,      \* what a review may report
  Paths,         \* the ways to resolve a card (Resolution)
  MaxCalls,      \* bound: calls in flight when a person starts another
  MaxDeeds,      \* bound: what a person does
  MaxReviews     \* bound: review jobs of the variant, the first one done

ASSUME PanelAssumption == MaxDeeds \in Nat /\ MaxReviews \in Nat \ {0}

Nothing == "nothing"   \* undefined, null or an empty text
NoCard == <<0, Nothing>>
NoNote == [card |-> NoCard, path |-> Nothing]
Typed == [card |-> NoCard, path |-> "typed"]    \* a note a person wrote or changed

VARIABLES
  stored,     \* stored[c]: the row of card c
  talk,       \* talk[c]: how many messages of its conversation are stored
  jobs,       \* jobs[j]: the status of review job j of the variant
  applyJobs,  \* the apply jobs in their order: status and review job; the last may
              \* be a request that is on its way
  again,      \* review jobs with an apply job that ran again after it had succeeded
  cards,      \* the cards of the provider, by id
  selected,   \* selectedCardId
  modal,      \* isModalOpen
  chat,       \* state of the chat component: note, pending, drafting
  reviewing,  \* loadReview: idle, creating, polling, refreshing
  applying,   \* applyResolvedFeedbacks: idle, creating, polling, reloading
  seen,       \* review jobs whose application the browser has seen succeed
  calls,      \* the other calls in flight
  doubt,      \* what a lost answer or overlapping calls make uncertain
  deeds       \* what a person has done

reviewServerVars == <<stored, talk, jobs, applyJobs, again>>
panelVars == <<reviewServerVars, cards, selected, modal, chat, reviewing, applying, seen,
               calls, doubt, deeds>>

-----------------------------------------------------------------------------
Reviews == 1 .. MaxReviews
CardIds == Reviews \X Findings
Latest == CHOOSE j \in Reviews : jobs[j] # "none" /\ \A i \in Reviews : i > j => jobs[i] = "none"

\* A note knows the card and the path it was drafted for, unless a person wrote it.
Note == {NoNote, Typed} \cup [card : CardIds, path : Paths]
Decision == [resolved : BOOLEAN, path : Paths \cup {Nothing}, note : Note]
CardRow == [decision : Decision, reaction : {Nothing, "good", "bad"}]
\* The history shown: messages of the server, then messages not confirmed yet.
CardHistory == [confirmed : Nat, own : Nat]
ShownCard == [decision : Decision, reaction : {Nothing, "good", "bad"},
              history : CardHistory, loaded : BOOLEAN]
ChatState == [note : Note, pending : Paths \cup {Nothing}, drafting : BOOLEAN]

NewCardRow == [decision |-> [resolved |-> FALSE, path |-> Nothing, note |-> NoNote],
               reaction |-> Nothing]
EmptyChat == [note |-> NoNote, pending |-> Nothing, drafting |-> FALSE]
NoCards == << >>

\* A call: what it is about, who still listens, and how far it is.  What a
\* person asks for has a number that nothing else in flight has (two messages to one
\* card are two calls); two loads of one conversation at a time are taken as one.
Number == CHOOSE n \in 0 .. Cardinality(calls) : \A k \in calls : k.no # n
ListCall == [kind |-> "list", heard |-> "provider", at |-> "sent", no |-> 0]
ChatsCall(c) == [kind |-> "chats", card |-> c, heard |-> "provider", at |-> "sent", no |-> 0]
SendCall(c) == [kind |-> "send", card |-> c, heard |-> "provider", at |-> "sent",
                no |-> Number]
DecideCall(c, d, who) == [kind |-> "decide", card |-> c, wish |-> d, heard |-> who, at |-> "sent",
                          no |-> Number]
RateCall(c, r) == [kind |-> "rate", card |-> c, reaction |-> r, heard |-> "provider", at |-> "sent",
                   no |-> Number]
DraftCall(c, p) == [kind |-> "draft", card |-> c, path |-> p, heard |-> "chat", at |-> "sent",
                    no |-> Number]

\* What of which card a call reads or writes.
Touches(k) ==
  CASE k.kind = "list" -> CardIds \X {"decision", "reaction"}
    [] k.kind = "chats" -> {<<k.card, "talk">>}
    [] k.kind = "send" -> {<<k.card, "talk">>, <<k.card, "decision">>}
    [] k.kind = "decide" -> {<<k.card, "decision">>}
    [] k.kind = "rate" -> {<<k.card, "reaction">>}
    [] OTHER -> {}
Writes(k) == k.kind \in {"send", "decide", "rate"}
Clashes(K) ==
  UNION {Touches(p[1]) \cap Touches(p[2]) :
           p \in {q \in K \X K : q[1] # q[2] /\ Writes(q[1])}}

-----------------------------------------------------------------------------
\* A card somebody has decided, and the last apply job, the one the loop is about.
DecidedRows ==
  {[NewCardRow EXCEPT !.decision = [resolved |-> TRUE, path |-> p, note |-> Typed]] : p \in Paths}
ApplyJob == applyJobs[Len(applyJobs)]

\* The provider is mounted with the page, and asks for the cards.
PanelInit ==
  /\ \E S \in SUBSET Findings : stored \in [{1} \X S -> {NewCardRow} \cup DecidedRows]
  /\ talk = [c \in DOMAIN stored |-> 1]
  /\ jobs = [j \in Reviews |-> IF j = 1 THEN "succeeded" ELSE "none"]
  /\ applyJobs = << >> /\ again = {} /\ seen = {}
  /\ cards = NoCards /\ selected = NoCard /\ modal = FALSE /\ chat = EmptyChat
  /\ reviewing = "idle" /\ applying = "idle"
  /\ calls = {ListCall} /\ doubt = {} /\ deeds = 0

\* isLoading: the side panel shows no cards and no button to start a review.
IsLoading == \E k \in calls : k.kind = "list" /\ k.heard # "nobody"

\* The cards can be clicked: in the modal, or in the panel beside the board.
CardsShown == IF modal THEN reviewing = "idle" ELSE ~IsLoading

\* The chat component is on screen.
ChatShown == modal /\ reviewing = "idle" /\ selected \in DOMAIN cards

\* Whoever has gone no longer hears the answer.
Unmounted(k) == IF k.heard = "chat" THEN [k EXCEPT !.heard = "provider"] ELSE k

\* The state of the chat component after its effect on the selected card.
ChatEffect(ch) ==
  IF ~ChatShown' THEN EmptyChat
  ELSE LET d == cards'[selected'].decision IN
       IF ~ChatShown \/ selected' # selected \/ d # cards[selected].decision
       THEN [note |-> d.note, pending |-> IF d.resolved THEN Nothing ELSE d.path,
             drafting |-> ChatShown /\ ch.drafting]
       ELSE ch

\* After a step: the effects of the components run.  K are the calls in flight,
\* ch what the handler itself made of the chat component.
Settle(K, ch, lost) ==
  /\ chat' = ChatEffect(ch)
  /\ LET heard == IF ChatShown' THEN K ELSE {Unmounted(k) : k \in K}
         unread == selected' \in DOMAIN cards' /\ ~cards'[selected'].loaded
                     /\ (cards' # cards \/ selected' # selected)
     IN calls' = heard \cup (IF unread THEN {ChatsCall(selected')} ELSE {})
  /\ doubt' = doubt \cup Clashes(calls') \cup lost
Effects(K, ch) == Settle(K, ch, {})

Deed ==
  /\ applying # "reloading"
  /\ deeds < MaxDeeds
  /\ deeds' = deeds + 1

\* A person starts call k.
Call(k, ch) ==
  /\ Cardinality(calls) < MaxCalls
  /\ Effects(calls \cup {k}, ch)

-----------------------------------------------------------------------------
\* What a person does.

\* From the button of the panel, or of the selected card.
OpenModal ==
  /\ applying # "reloading"
  /\ ~modal /\ modal' = TRUE
  /\ UNCHANGED <<cards, selected, reviewing, applying, seen, reviewServerVars, deeds>>
  /\ Effects(calls, chat)

CloseModal ==
  /\ applying # "reloading"
  /\ modal /\ modal' = FALSE
  /\ UNCHANGED <<cards, selected, reviewing, applying, seen, reviewServerVars, deeds>>
  /\ Effects(calls, chat)

\* A click on an open card selects it, or nothing when it was selected.
SelectCard(c) ==
  /\ applying # "reloading"
  /\ CardsShown
  /\ c \in DOMAIN cards /\ ~cards[c].decision.resolved
  /\ selected' = IF selected = c THEN NoCard ELSE c
  /\ UNCHANGED <<cards, modal, reviewing, applying, seen, reviewServerVars, deeds>>
  /\ Effects(calls, chat)

\* The message is shown before it is sent.
SendMessage ==
  /\ Deed /\ ChatShown
  /\ cards' = [cards EXCEPT ![selected].history.own = @ + 1, ![selected].loaded = TRUE]
  /\ UNCHANGED <<selected, modal, reviewing, applying, seen, reviewServerVars>>
  /\ Call(SendCall(selected), chat)

\* A button of an open card asks for a draft, also while another is under way.
HandleDraftGeneration(p) ==
  /\ Deed /\ ChatShown /\ ~cards[selected].decision.resolved
  /\ chat.pending = p => ~chat.drafting
  /\ UNCHANGED <<cards, selected, modal, reviewing, applying, seen, reviewServerVars>>
  /\ Call(DraftCall(selected, p), [chat EXCEPT !.pending = p, !.drafting = TRUE])

TypeNote ==
  /\ Deed /\ ChatShown
  /\ chat.pending # Nothing /\ ~cards[selected].decision.resolved
  /\ UNCHANGED <<cards, selected, modal, reviewing, applying, seen, reviewServerVars>>
  /\ Effects(calls, [chat EXCEPT !.note = Typed])

CancelResolution ==
  /\ ChatShown /\ applying # "reloading"
  /\ chat.pending # Nothing /\ ~cards[selected].decision.resolved
  /\ UNCHANGED <<cards, selected, modal, reviewing, applying, seen, reviewServerVars, deeds>>
  /\ Effects(calls, [chat EXCEPT !.pending = Nothing, !.note = cards[selected].decision.note])

\* The button is disabled while a draft is loading and without a note.
HandleApproveResolution ==
  /\ Deed /\ ChatShown
  /\ chat.pending # Nothing /\ ~cards[selected].decision.resolved
  /\ ~chat.drafting /\ chat.note # NoNote
  /\ UNCHANGED <<cards, selected, modal, reviewing, applying, seen, reviewServerVars>>
  /\ Call(DecideCall(selected, [resolved |-> TRUE, path |-> chat.pending, note |-> chat.note],
                     "chat"), chat)

\* The cross of a card in one of the three boxes.
UnresolveCard(c) ==
  /\ Deed /\ modal /\ reviewing = "idle"
  /\ c \in DOMAIN cards
  /\ cards[c].decision.resolved /\ cards[c].decision.path # Nothing
  /\ UNCHANGED <<cards, selected, modal, reviewing, applying, seen, reviewServerVars>>
  /\ Call(DecideCall(c, [cards[c].decision EXCEPT !.resolved = FALSE], "provider"), chat)

\* The buttons of the selected card, in the list of the modal or of the panel.
RateCard(r) ==
  /\ Deed
  /\ CardsShown
  /\ selected \in DOMAIN cards /\ ~cards[selected].decision.resolved
  /\ UNCHANGED <<cards, selected, modal, reviewing, applying, seen, reviewServerVars>>
  /\ Call(RateCall(selected, r), chat)

-----------------------------------------------------------------------------
\* The handlers on the server.

Served(k, answer) == (calls \ {k}) \cup {answer}
Quiet == UNCHANGED <<cards, selected, modal, reviewing, applying, seen, deeds>>

\* Seeded fault: whether the review was applied is not asked.
ListedAlways == [c \in {d \in DOMAIN stored : d[1] = Latest} |-> stored[c]]

\* The reviews with an apply job whose status is succeeded.
Applied == {job.of : job \in {applyJobs[n] : n \in {m \in DOMAIN applyJobs :
                                                        applyJobs[m].status = "succeeded"}}}

\* The cards of the latest review, whatever its status, unless it was applied.
Listed ==
  IF Latest \in Applied THEN NoCards
  ELSE [c \in {d \in DOMAIN stored : d[1] = Latest} |-> stored[c]]

ServeList(k) ==
  /\ k \in calls /\ k.kind = "list" /\ k.at = "sent"
  /\ Quiet /\ UNCHANGED reviewServerVars
  /\ Effects(Served(k, [kind |-> "list", heard |-> k.heard, at |-> "answered", no |-> k.no,
                        answer |-> Listed]), chat)

ServeChats(k) ==
  /\ k \in calls /\ k.kind = "chats" /\ k.at = "sent"
  /\ Quiet /\ UNCHANGED reviewServerVars
  /\ Effects(Served(k, [kind |-> "chats", card |-> k.card, heard |-> k.heard,
                        at |-> "answered", no |-> k.no, answer |-> talk[k.card]]), chat)

\* The question is stored; the answer of the model takes its time.
ServeQuestion(k) ==
  /\ k \in calls /\ k.kind = "send" /\ k.at = "sent"
  /\ talk' = [talk EXCEPT ![k.card] = @ + 1]
  /\ Quiet /\ UNCHANGED <<stored, jobs, applyJobs, again>>
  /\ Effects(Served(k, [kind |-> "send", card |-> k.card, heard |-> k.heard,
                        at |-> "asked", no |-> k.no, row |-> stored[k.card]]), chat)

\* With its reply, the handler may save the row it has read (another
\* recommendation), and it answers with that row.
ServeReply(k, save) ==
  /\ k \in calls /\ k.kind = "send" /\ k.at = "asked"
  /\ talk' = [talk EXCEPT ![k.card] = @ + 1]
  /\ stored' = IF save THEN [stored EXCEPT ![k.card].decision = k.row.decision] ELSE stored
  /\ Quiet /\ UNCHANGED <<jobs, applyJobs, again>>
  /\ Effects(Served(k, [kind |-> "send", card |-> k.card, heard |-> k.heard,
                        at |-> "answered", no |-> k.no, answer |-> talk'[k.card],
                        decision |-> k.row.decision]), chat)

\* A resolution that is left out keeps the old one; a note does not.
ServeDecide(k) ==
  /\ k \in calls /\ k.kind = "decide" /\ k.at = "sent"
  /\ stored' = [stored EXCEPT ![k.card].decision =
                  [k.wish EXCEPT !.path = IF @ = Nothing THEN stored[k.card].decision.path ELSE @]]
  /\ Quiet /\ UNCHANGED <<talk, jobs, applyJobs, again>>
  /\ Effects(Served(k, [kind |-> "decide", card |-> k.card, heard |-> k.heard,
                        at |-> "answered", no |-> k.no, wish |-> k.wish,
                        answer |-> stored'[k.card].decision]), chat)

ServeRate(k) ==
  /\ k \in calls /\ k.kind = "rate" /\ k.at = "sent"
  /\ stored' = [stored EXCEPT ![k.card].reaction = k.reaction]
  /\ Quiet /\ UNCHANGED <<talk, jobs, applyJobs, again>>
  /\ Effects(Served(k, [k EXCEPT !.at = "answered"]), chat)

\* A review job writes its cards, or fails; executed again after a failure, it may
\* write them yet.  A job of another browser's or an earlier wait ends like any.
ReviewJobEnds(j, status, S) ==
  /\ jobs[j] \in {"queued", "failed"}
  /\ jobs' = [jobs EXCEPT ![j] = status]
  /\ LET new == IF status = "succeeded" THEN {j} \X S ELSE {} IN
       /\ stored' = [c \in DOMAIN stored \cup new |-> IF c \in new THEN NewCardRow ELSE stored[c]]
       /\ talk' = [c \in DOMAIN talk \cup new |-> IF c \in new THEN 1 ELSE talk[c]]
  /\ Quiet /\ UNCHANGED <<applyJobs, again, chat, calls, doubt>>

ApplyJobEnds(n, status) ==
  /\ applyJobs[n].status \in {"queued", "failed"}
  /\ applyJobs' = [applyJobs EXCEPT ![n].status = status]
  /\ Quiet /\ UNCHANGED <<stored, talk, jobs, again, chat, calls, doubt>>

\* The process of a job that has succeeded did not exit with 0.
ApplyJobAgain(n) ==
  /\ applyJobs[n].status = "succeeded"
  /\ applyJobs' = [applyJobs EXCEPT ![n].status = "queued"]
  /\ again' = again \cup {applyJobs[n].of}
  /\ Quiet /\ UNCHANGED <<stored, talk, jobs, chat, calls, doubt>>

-----------------------------------------------------------------------------
\* Answers arrive.

\* Seeded fault: cards that are no longer listed stay.
MergeFeedbackCards(rows) ==
  [c \in DOMAIN rows \cup DOMAIN cards |->
     IF c \notin DOMAIN rows THEN cards[c]
     ELSE [decision |-> rows[c].decision, reaction |-> rows[c].reaction,
           history |-> [confirmed |-> 0, own |-> 0], loaded |-> FALSE]]

\* A card that was shown before keeps its conversation.
MapFeedbackCards(rows) ==
  [c \in DOMAIN rows |->
     [decision |-> rows[c].decision, reaction |-> rows[c].reaction,
      history |-> IF c \in DOMAIN cards THEN cards[c].history
                  ELSE [confirmed |-> 0, own |-> 0],
      loaded |-> c \in DOMAIN cards /\ cards[c].loaded]]

\* Seeded fault: the card that is selected by now is changed.
ChangeSelected(k, new) ==
  cards' = IF k.card \in DOMAIN cards /\ selected \in DOMAIN cards
           THEN [cards EXCEPT ![selected] = new] ELSE cards

\* An answer changes card c, if it is still there and somebody listens.
Change(k, new) ==
  cards' = IF k.heard # "nobody" /\ k.card \in DOMAIN cards
           THEN [cards EXCEPT ![k.card] = new] ELSE cards

Arrived(k) == k \in calls /\ k.at = "answered"
Still == UNCHANGED <<selected, modal, applying, seen, reviewServerVars, deeds>>

\* The refresh that loadReview waits for ends it.
AfterRefresh(k) ==
  reviewing' = IF reviewing = "refreshing" /\ k.heard = "review" THEN "idle" ELSE reviewing

ListArrives(k) ==
  /\ Arrived(k) /\ k.kind = "list"
  /\ cards' = IF k.heard = "nobody" THEN cards ELSE MapFeedbackCards(k.answer)
  /\ AfterRefresh(k)
  /\ Still
  /\ Effects(calls \ {k}, chat)

ChatsArrive(k) ==
  /\ Arrived(k) /\ k.kind = "chats"
  /\ Change(k, [cards[k.card] EXCEPT !.history = [confirmed |-> k.answer, own |-> 0],
                                     !.loaded = TRUE])
  /\ Still /\ UNCHANGED reviewing
  /\ Effects(calls \ {k}, chat)

\* The reply comes with the row: whether it is resolved, and how.
ReplyArrives(k) ==
  /\ Arrived(k) /\ k.kind = "send"
  /\ Change(k, [cards[k.card] EXCEPT
                  !.history = [confirmed |-> k.answer, own |-> 0],
                  !.loaded = TRUE,
                  !.decision.resolved = k.decision.resolved,
                  !.decision.path = IF k.decision.path = Nothing THEN @ ELSE k.decision.path])
  /\ Still /\ UNCHANGED reviewing
  /\ Effects(calls \ {k}, chat)

\* The card shows the decision; handleApproveResolution goes on, and nothing is
\* pending any more, on whatever card is selected by now.
AfterDecision(k) == IF k.heard = "chat" THEN [chat EXCEPT !.pending = Nothing] ELSE chat

DecisionArrives(k) ==
  /\ Arrived(k) /\ k.kind = "decide"
  /\ Change(k, [cards[k.card] EXCEPT
                  !.decision = IF k.wish.resolved THEN k.answer
                               ELSE [k.wish EXCEPT !.path = cards[k.card].decision.path]])
  /\ Still /\ UNCHANGED reviewing
  /\ Effects(calls \ {k}, AfterDecision(k))

RatingArrives(k) ==
  /\ Arrived(k) /\ k.kind = "rate"
  /\ Change(k, [cards[k.card] EXCEPT !.reaction = k.reaction])
  /\ Still /\ UNCHANGED reviewing
  /\ Effects(calls \ {k}, chat)

\* The draft becomes the note, whatever card is selected and path pending.
DraftArrives(k) ==
  /\ k \in calls /\ k.kind = "draft"
  /\ UNCHANGED <<cards, reviewing>> /\ Still
  /\ Effects(calls \ {k},
             IF k.heard = "chat"
             THEN [chat EXCEPT !.note = [card |-> k.card, path |-> k.path], !.drafting = FALSE]
             ELSE chat)

\* A call fails, before or after it was served.
CallFails(k) ==
  /\ k \in calls
  /\ UNCHANGED cards /\ AfterRefresh(k) /\ Still
  /\ Settle(calls \ {k},
            IF k.kind = "decide" THEN AfterDecision(k)
            ELSE IF k.kind = "draft" /\ k.heard = "chat" THEN [chat EXCEPT !.drafting = FALSE]
            ELSE chat,
            IF Writes(k) THEN Touches(k) ELSE {})

-----------------------------------------------------------------------------
\* loadReview and applyResolvedFeedbacks: create a job, poll it, go on.

Elsewhere == UNCHANGED <<stored, talk, again, seen>>

\* The button of the side panel.
LoadReview ==
  /\ Deed /\ ~modal /\ ~IsLoading
  /\ reviewing = "idle" /\ Latest < MaxReviews
  /\ reviewing' = "creating"
  /\ UNCHANGED <<cards, selected, modal, applying, jobs, applyJobs>> /\ Elsewhere
  /\ Effects(calls, chat)

\* The job is created, whether the answer arrives or not.
ReviewCreated(heard) ==
  /\ reviewing = "creating"
  /\ jobs' = [jobs EXCEPT ![Latest + 1] = "queued"]
  /\ reviewing' = IF heard THEN "polling" ELSE "idle"
  /\ UNCHANGED <<cards, selected, modal, applying, applyJobs, deeds>> /\ Elsewhere
  /\ Effects(calls, chat)

PollReview ==
  /\ reviewing = "polling" /\ jobs[Latest] # "queued"
  /\ reviewing' = IF jobs[Latest] = "succeeded" THEN "refreshing" ELSE "idle"
  /\ UNCHANGED <<cards, selected, modal, applying, jobs, applyJobs, deeds>> /\ Elsewhere
  /\ Effects(calls \cup (IF jobs[Latest] = "succeeded" THEN {[ListCall EXCEPT !.heard = "review"]}
                         ELSE {}), chat)

\* Seeded fault: the loop has no deadline.
ReviewWaitsOn ==
  /\ reviewing = "creating"
  /\ reviewing' = "idle"
  /\ UNCHANGED <<cards, selected, modal, applying, jobs, applyJobs, deeds>> /\ Elsewhere
  /\ Effects(calls, chat)

\* A call of the loop fails, or 300 s are over.
ReviewGivenUp ==
  /\ reviewing \in {"creating", "polling"}
  /\ reviewing' = "idle"
  /\ UNCHANGED <<cards, selected, modal, applying, jobs, applyJobs, deeds>> /\ Elsewhere
  /\ Effects(calls, chat)

\* The review whose cards are shown (cards[0].reviewJobId).
ReviewOfCards == (CHOOSE c \in DOMAIN cards : TRUE)[1]

\* The button needs a resolved card with a note, and this loop to be idle: after
\* its deadline a second apply job starts beside the first.
ApplyResolvedFeedbacks ==
  /\ Deed /\ modal /\ reviewing = "idle"
  /\ applying = "idle"
  /\ \E c \in DOMAIN cards : cards[c].decision.resolved /\ cards[c].decision.note # NoNote
  /\ applying' = "creating"
  /\ applyJobs' = Append(applyJobs, [status |-> "asked", of |-> ReviewOfCards])
  /\ UNCHANGED <<cards, selected, modal, reviewing, jobs, calls, chat, doubt>> /\ Elsewhere

ApplyCreated(heard) ==
  /\ applying = "creating"
  /\ applyJobs' = [applyJobs EXCEPT ![Len(applyJobs)].status = "queued"]
  /\ applying' = IF heard THEN "polling" ELSE "idle"
  /\ UNCHANGED <<cards, selected, modal, reviewing, jobs, calls, chat, doubt, deeds>> /\ Elsewhere

ApplyRefused ==
  /\ applying = "creating"
  /\ applyJobs' = SubSeq(applyJobs, 1, Len(applyJobs) - 1)
  /\ applying' = "idle"
  /\ UNCHANGED <<cards, selected, modal, reviewing, jobs, calls, chat, doubt, deeds>> /\ Elsewhere

ApplyFailed ==
  /\ applying = "polling" /\ ApplyJob.status = "failed"
  /\ applying' = "idle"
  /\ UNCHANGED <<cards, selected, modal, reviewing, jobs, applyJobs, calls, chat, doubt, deeds>>
  /\ Elsewhere

ApplyGivenUp ==
  /\ applying = "polling"
  /\ applying' = "idle"
  /\ UNCHANGED <<cards, selected, modal, reviewing, jobs, applyJobs, calls, chat, doubt, deeds>>
  /\ Elsewhere

\* The poll sees the success and the page loads the workspace anew: the provider
\* is unmounted, with the modal, the chat and a loop that waits for a review.
ApplySucceeded ==
  /\ applying = "polling" /\ ApplyJob.status = "succeeded"
  /\ applying' = "reloading"
  /\ seen' = seen \cup {ApplyJob.of}
  /\ cards' = NoCards /\ selected' = NoCard /\ modal' = FALSE /\ chat' = EmptyChat
  /\ reviewing' = "idle"
  /\ calls' = {[k EXCEPT !.heard = "nobody"] : k \in calls}
  /\ UNCHANGED <<doubt, deeds, reviewServerVars>>

\* The workspace is there, or could not be loaded: a new provider in any case.
Reloaded ==
  /\ applying = "reloading"
  /\ applying' = "idle"
  /\ calls' = calls \cup {ListCall}
  /\ doubt' = Clashes(calls')
  /\ UNCHANGED <<cards, selected, modal, chat, reviewing, seen, deeds, reviewServerVars>>

-----------------------------------------------------------------------------
Click ==
  \/ OpenModal \/ CloseModal \/ SendMessage \/ TypeNote \/ CancelResolution
  \/ HandleApproveResolution \/ LoadReview \/ ApplyResolvedFeedbacks
  \/ \E c \in DOMAIN cards : SelectCard(c) \/ UnresolveCard(c)
  \/ \E p \in Paths : HandleDraftGeneration(p)
  \/ \E r \in {"good", "bad"} : RateCard(r)

Serve(k) ==
  \/ ServeList(k) \/ ServeChats(k) \/ ServeQuestion(k)
  \/ \E save \in BOOLEAN : ServeReply(k, save)
  \/ ServeDecide(k) \/ ServeRate(k)

Arrive(k) ==
  \/ ListArrives(k) \/ ChatsArrive(k) \/ ReplyArrives(k) \/ DecisionArrives(k)
  \/ RatingArrives(k) \/ DraftArrives(k) \/ CallFails(k)

JobEnds ==
  \/ \E j \in Reviews, S \in SUBSET Findings : ReviewJobEnds(j, "succeeded", S)
  \/ \E j \in Reviews : ReviewJobEnds(j, "failed", {})
  \/ \E n \in DOMAIN applyJobs, status \in {"succeeded", "failed"} : ApplyJobEnds(n, status)
  \/ \E n \in DOMAIN applyJobs : ApplyJobAgain(n)

ReviewLoop == (\E heard \in BOOLEAN : ReviewCreated(heard)) \/ PollReview \/ ReviewGivenUp
ApplyLoop ==
  \/ \E heard \in BOOLEAN : ApplyCreated(heard)
  \/ ApplyRefused \/ ApplyFailed \/ ApplyGivenUp \/ ApplySucceeded \/ Reloaded

PanelNext ==
  \/ Click \/ JobEnds \/ ReviewLoop \/ ApplyLoop
  \/ \E k \in calls : Serve(k) \/ Arrive(k)

-----------------------------------------------------------------------------
\* Properties.

Aspects == {"decision", "talk", "reaction"}

PanelTypeOK ==
  /\ \A c \in DOMAIN stored : c \in CardIds /\ stored[c] \in CardRow
  /\ DOMAIN talk = DOMAIN stored /\ \A c \in DOMAIN talk : talk[c] \in Nat
  /\ jobs \in [Reviews -> {"none", "queued", "succeeded", "failed"}]
  /\ applyJobs \in Seq([status : {"asked", "queued", "succeeded", "failed"}, of : Reviews])
  /\ again \subseteq Reviews /\ seen \subseteq Reviews
  /\ \A c \in DOMAIN cards : c \in DOMAIN stored /\ cards[c] \in ShownCard
  /\ selected \in CardIds \cup {NoCard} /\ modal \in BOOLEAN /\ chat \in ChatState
  /\ reviewing \in {"idle", "creating", "polling", "refreshing"}
  /\ applying \in {"idle", "creating", "polling", "reloading"}
  /\ doubt \subseteq CardIds \X Aspects
  /\ deeds \in 0 .. MaxDeeds

\* Nothing that concerns aspect a of card c is under way.
Settled(c, a) == <<c, a>> \notin doubt /\ \A k \in calls : <<c, a>> \notin Touches(k)

\* What the panel shows of a card is what is stored of it, once its calls are
\* answered, and unless calls about it overlapped or one of them failed: however
\* refreshes, chat answers, approvals and reloads took turns.
ShownIsStored ==
  \A c \in DOMAIN cards :
    /\ Settled(c, "decision") => cards[c].decision = stored[c].decision
    /\ Settled(c, "reaction") => cards[c].reaction = stored[c].reaction
    /\ Settled(c, "talk") /\ cards[c].loaded => cards[c].history = [confirmed |-> talk[c], own |-> 0]

\* Cards of two reviews are never shown together, so that cards[0].reviewJobId
\* names the review of every card that was decided.
OneReviewShown == \A c, d \in DOMAIN cards : c[1] = d[1]

\* Cards whose application the browser has seen succeed do not come back: neither
\* by an answer to a question asked before, nor while a second apply job of their
\* review runs or after it has failed.  They do only where Cloud Run has executed an
\* apply job of theirs again after its success.
AppliedCardsStayAway == \A c \in DOMAIN cards : c[1] \in seen => c[1] \in again

\* isReviewRunning and isApplyRunning fall back, also when a job is never run:
\* the loops have a deadline, and every path ends in a finally.
LoopsEnd == []<>(reviewing = "idle") /\ []<>(applying = "idle")

-----------------------------------------------------------------------------
\* Calls are served and answered, or fail; a job may never be run, and a person
\* need do nothing.
PanelFairness ==
  /\ WF_panelVars(ReviewLoop) /\ WF_panelVars(ApplyLoop)
  /\ WF_panelVars(\E k \in calls : k.heard = "review" /\ (ServeList(k) \/ Arrive(k)))

PanelSpec == PanelInit /\ [][PanelNext]_panelVars /\ PanelFairness
=============================================================================
