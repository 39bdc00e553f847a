------------------------- MODULE ReviewPanel_proofs -------------------------
(* What the review panel shows of a card is what is stored of it, for any    *)
(* findings, calls and reviews.  The properties are about the cards, and the *)
(* danger is in the answers on their way: a card may be changed by whatever  *)
(* arrives next.  The invariant therefore says of every answer that somebody *)
(* still listens to that it is true at this moment, unless calls about the   *)
(* same thing overlap, and of every call nobody listens to that it can only  *)
(* change what is not shown.                                                 *)
EXTENDS ReviewPanel, TLAPS

-----------------------------------------------------------------------------
\* Calls.

Kinds == {"list", "chats", "send", "decide", "rate", "draft"}
Listeners == {"provider", "chat", "review", "nobody"}

IsRequest(k) ==
  /\ k = [x \in DOMAIN k |-> k[x]]
  /\ {"kind", "heard", "at"} \subseteq DOMAIN k
  /\ k.kind \in Kinds /\ k.heard \in Listeners /\ k.at \in {"sent", "asked", "answered"}
  /\ k.at = "asked" => k.kind = "send"
  /\ k.kind # "list" => "card" \in DOMAIN k
  /\ k.kind \in {"list", "chats", "send", "decide"} /\ k.at = "answered" =>
       "answer" \in DOMAIN k
  /\ k.kind = "send" /\ k.at = "asked" => "row" \in DOMAIN k
  /\ k.kind = "send" /\ k.at = "answered" => "decision" \in DOMAIN k
  /\ k.kind = "decide" => "wish" \in DOMAIN k
  /\ k.kind = "rate" => "reaction" \in DOMAIN k
  /\ k.kind = "draft" => "path" \in DOMAIN k

\* The fields of a call, by its kind and how far it is.
IsCall(k) ==
  /\ IsRequest(k)
  /\ k.kind # "list" => k.card \in DOMAIN stored
  /\ k.kind = "list" /\ k.at = "answered" =>
       \A c \in DOMAIN k.answer : c \in DOMAIN stored /\ k.answer[c] \in CardRow
  /\ k.kind = "chats" /\ k.at = "answered" => k.answer \in Nat
  /\ k.kind = "send" /\ k.at = "asked" => k.row \in CardRow
  /\ k.kind = "send" /\ k.at = "answered" =>
       k.answer \in Nat /\ k.decision \in Decision
  /\ k.kind = "decide" => k.wish \in Decision /\ k.wish.path # Nothing
  /\ k.kind = "decide" /\ k.at = "answered" => k.answer \in Decision
  /\ k.kind = "rate" => k.reaction \in {"good", "bad"}
  /\ k.kind = "draft" => k.path \in Paths

Quietly(c, a) == <<c, a>> \notin doubt

\* What the answer of a call says of the rows is so, where nothing overlaps.
IsTrue(k) ==
  /\ k.kind = "list" /\ k.at = "answered" =>
       /\ \A c, d \in DOMAIN k.answer : c[1] = d[1]
       /\ \A c \in DOMAIN k.answer :
            /\ (c[1] \in seen => c[1] \in again)
            /\ Quietly(c, "decision") => k.answer[c].decision = stored[c].decision
            /\ Quietly(c, "reaction") => k.answer[c].reaction = stored[c].reaction
  /\ k.kind = "chats" /\ k.at = "answered" /\ Quietly(k.card, "talk") => k.answer = talk[k.card]
  /\ k.kind = "send" /\ k.at = "asked" /\ Quietly(k.card, "decision") =>
       k.row.decision = stored[k.card].decision
  /\ k.kind = "send" /\ k.at = "answered" =>
       /\ Quietly(k.card, "decision") => k.decision = stored[k.card].decision
       /\ Quietly(k.card, "talk") => k.answer = talk[k.card]
  /\ k.kind = "decide" /\ Quietly(k.card, "decision") =>
       /\ k.at = "answered" => k.answer = stored[k.card].decision /\ k.wish = stored[k.card].decision
       /\ ~k.wish.resolved /\ k.card \in DOMAIN cards => cards[k.card].decision.path = k.wish.path
  /\ k.kind = "rate" /\ k.at = "answered" /\ Quietly(k.card, "reaction") =>
       stored[k.card].reaction = k.reaction

\* A call nobody listens to is about what is not shown.
IsHarmless(k) ==
  Writes(k) =>
    \A c \in DOMAIN cards, a \in Aspects :
      <<c, a>> \in Touches(k) /\ Quietly(c, a) => a = "talk" /\ ~cards[c].loaded

CallRight(k) == IF k.heard = "nobody" THEN IsHarmless(k) ELSE IsTrue(k)

\* What is shown of card c is stored, unless calls K are about to change it.
Matches(c, K) ==
  /\ Quietly(c, "decision") /\ (\A k \in K : k.kind = "decide" => k.at # "answered" \/ k.card # c)
       => cards[c].decision = stored[c].decision
  /\ Quietly(c, "reaction") /\ (\A k \in K : k.kind = "rate" => k.at # "answered" \/ k.card # c)
       => cards[c].reaction = stored[c].reaction
  /\ Quietly(c, "talk") /\ cards[c].loaded /\ (\A k \in K : k.kind = "send" => k.card # c)
       => cards[c].history = [confirmed |-> talk[c], own |-> 0]

CardsRight(K) ==
  /\ \A c, d \in DOMAIN cards : c[1] = d[1]
  /\ \A c \in DOMAIN cards : (c[1] \in seen => c[1] \in again) /\ Matches(c, K)

-----------------------------------------------------------------------------
\* The invariant.

\* What was seen applied is applied, or was; the loop is about the last apply job.
ApplyInv ==
  /\ seen \subseteq Applied \cup again
  /\ applying = "creating" => applyJobs # << >> /\ ApplyJob.status = "asked"
  /\ applying = "polling" => applyJobs # << >>

\* The calls are what they are called, and the numbers of reviews are in order.
Shapes == \A k \in calls : IsCall(k)
JobsInv ==
  /\ \E j \in Reviews : jobs[j] # "none" /\ \A i \in Reviews : i > j => jobs[i] = "none"
  /\ \A c \in DOMAIN stored : jobs[c[1]] = "succeeded"
  /\ ApplyInv

\* While the page loads its workspace there is no panel.
ReloadInv ==
  applying = "reloading" =>
    /\ DOMAIN cards = {} /\ ~modal /\ reviewing = "idle"
    /\ \A k \in calls : k.heard = "nobody"

Base == PanelTypeOK /\ Shapes /\ JobsInv /\ ReloadInv

ShownInv ==
  /\ Clashes(calls) \subseteq doubt
  /\ \A k \in calls : CallRight(k)
  /\ CardsRight(calls)

PanelInv == Base /\ ShownInv

\* Two calls that differ in who listens only.
Alike(m, k) ==
  /\ DOMAIN m = DOMAIN k
  /\ \A x \in DOMAIN k : x # "heard" => m[x] = k[x]
  /\ m = [x \in DOMAIN m |-> m[x]]

-----------------------------------------------------------------------------
\* Who listens to a call changes nothing else of it.
LEMMA AlikeFields ==
  ASSUME NEW m, NEW k, Alike(m, k), IsRequest(k), m.heard \in Listeners
  PROVE  IsRequest(m) /\ Touches(m) = Touches(k) /\ (Writes(m) <=> Writes(k))
<1>1. m.kind = k.kind /\ m.at = k.at
  BY DEF Alike, IsRequest
<1>2. k.kind # "list" => m.card = k.card
  BY DEF Alike, IsRequest
<1>3. Touches(m) = Touches(k) /\ (Writes(m) <=> Writes(k))
  BY <1>1, <1>2 DEF Touches, Writes, IsRequest, Kinds
<1>4. IsRequest(m)
  BY <1>1 DEF Alike, IsRequest
<1> QED BY <1>3, <1>4

LEMMA AlikeCalls ==
  ASSUME NEW m, NEW k, Alike(m, k), IsCall(k)', m.heard \in Listeners
  PROVE  IsCall(m)'
<1>1. IsRequest(k) /\ IsRequest(m)
  BY AlikeFields DEF IsCall
<1>2. \A x \in DOMAIN k : x # "heard" => m[x] = k[x]
  BY DEF Alike
<1> QED BY <1>1, <1>2 DEF IsCall, IsRequest

\* What a call is about, by its kind.
LEMMA TouchesByKind ==
  ASSUME NEW k
  PROVE  /\ k.kind = "list" => Touches(k) = CardIds \X {"decision", "reaction"}
         /\ k.kind = "chats" => Touches(k) = {<<k.card, "talk">>}
         /\ k.kind = "send" => Touches(k) = {<<k.card, "talk">>, <<k.card, "decision">>}
         /\ k.kind = "decide" => Touches(k) = {<<k.card, "decision">>}
         /\ k.kind = "rate" => Touches(k) = {<<k.card, "reaction">>}
         /\ k.kind = "draft" => Touches(k) = {}
<1>1. CASE k.kind = "list"
  BY <1>1 DEF Touches
<1>2. CASE k.kind = "chats"
  BY <1>2 DEF Touches
<1>3. CASE k.kind = "send"
  BY <1>3 DEF Touches
<1>4. CASE k.kind = "decide"
  BY <1>4 DEF Touches
<1>5. CASE k.kind = "rate"
  BY <1>5 DEF Touches
<1>6. CASE k.kind = "draft"
  BY <1>6 DEF Touches
<1> QED BY <1>1, <1>2, <1>3, <1>4, <1>5, <1>6

LEMMA TouchedThings ==
  ASSUME NEW k, IsRequest(k), NEW c, NEW a
  PROVE  <<c, a>> \in Touches(k) <=>
           \/ k.kind = "list" /\ c \in CardIds /\ a \in {"decision", "reaction"}
           \/ k.kind = "chats" /\ c = k.card /\ a = "talk"
           \/ k.kind = "send" /\ c = k.card /\ a \in {"talk", "decision"}
           \/ k.kind = "decide" /\ c = k.card /\ a = "decision"
           \/ k.kind = "rate" /\ c = k.card /\ a = "reaction"
<1>1. k.kind \in {"list", "chats", "send", "decide", "rate", "draft"}
  BY DEF IsRequest, Kinds
<1> QED BY <1>1, TouchesByKind

\* Of two calls about the same, of which one writes, both are in doubt.
LEMMA ClashesInDoubt ==
  ASSUME NEW K, NEW D, Clashes(K) \subseteq D, NEW k \in K, NEW m \in K, k # m,
         Writes(k), NEW t, t \in Touches(k), t \in Touches(m)
  PROVE  t \in D
<1> DEFINE pair == <<k, m>>
<1>1. pair \in {q \in K \X K : q[1] # q[2] /\ Writes(q[1])} /\ pair[1] = k /\ pair[2] = m
  OBVIOUS
<1>2. t \in Touches(pair[1]) \cap Touches(pair[2])
  BY <1>1
<1>3. t \in Clashes(K)
  BY <1>1, <1>2 DEF Clashes
<1> QED BY <1>3

\* What clashes is something of a card.
LEMMA ClashesOfCards ==
  ASSUME NEW K, \A k \in K : Touches(k) \subseteq CardIds \X Aspects
  PROVE  Clashes(K) \subseteq CardIds \X Aspects
BY DEF Clashes

LEMMA TouchesOfCards ==
  ASSUME NEW k, IsRequest(k), k.kind # "list" => k.card \in CardIds
  PROVE  Touches(k) \subseteq CardIds \X Aspects
<1>1. k.kind \in {"list", "chats", "send", "decide", "rate", "draft"}
  BY DEF IsRequest, Kinds
<1> QED BY <1>1, TouchesByKind DEF Aspects

-----------------------------------------------------------------------------
\* After a step the effects run.

\* The types of everything but the chat and the doubts.
Outer ==
  /\ \A c \in DOMAIN stored : c \in CardIds /\ stored[c] \in CardRow
  /\ DOMAIN talk = DOMAIN stored /\ \A c \in DOMAIN talk : talk[c] \in Nat
  /\ jobs \in [Reviews -> {"none", "queued", "succeeded", "failed"}]
  /\ applyJobs \in Seq([status : {"asked", "queued", "succeeded", "failed"}, of : Reviews])
  /\ again \subseteq Reviews /\ seen \subseteq Reviews
  /\ \A c \in DOMAIN cards : c \in DOMAIN stored /\ cards[c] \in ShownCard
  /\ selected \in CardIds \cup {NoCard} /\ modal \in BOOLEAN
  /\ reviewing \in {"idle", "creating", "polling", "refreshing"}
  /\ applying \in {"idle", "creating", "polling", "reloading"}
  /\ deeds \in 0 .. MaxDeeds

LEMMA OuterTypes ==
  PanelTypeOK <=> Outer /\ chat \in ChatState /\ doubt \subseteq CardIds \X Aspects
BY DEF PanelTypeOK, Outer

\* Calls K with who listens to them brought up to date.
Image(m, k) == m = k \/ (k.heard = "chat" /\ m = [k EXCEPT !.heard = "provider"])

LEMMA ImagesAlike ==
  ASSUME NEW m, NEW k, IsRequest(k), Image(m, k)
  PROVE  Alike(m, k) /\ m.heard \in Listeners /\ (m.heard = "nobody" <=> k.heard = "nobody")
<1>1. k = [x \in DOMAIN k |-> k[x]] /\ {"kind", "heard", "at"} \subseteq DOMAIN k
        /\ k.heard \in Listeners
  BY DEF IsRequest
<1>2. CASE m = k
  BY <1>1, <1>2 DEF Alike
<1>3. CASE k.heard = "chat" /\ m = [k EXCEPT !.heard = "provider"]
  BY <1>1, <1>3 DEF Alike, Listeners
<1> QED BY <1>2, <1>3 DEF Image

LEMMA SettledCalls ==
  ASSUME NEW K, NEW ch, NEW lost, Settle(K, ch, lost)
  PROVE  /\ \A m \in calls' :
              \/ \E k \in K : Image(m, k)
              \/ selected' \in DOMAIN cards' /\ m = ChatsCall(selected')
         /\ \A k \in K : \E m \in calls' : Image(m, k)
         /\ doubt' = doubt \cup Clashes(calls') \cup lost
<1> DEFINE heard == IF ChatShown' THEN K ELSE {Unmounted(k) : k \in K}
           unread == selected' \in DOMAIN cards' /\ ~cards'[selected'].loaded
                       /\ (cards' # cards \/ selected' # selected)
<1>1. calls' = heard \cup (IF unread THEN {ChatsCall(selected')} ELSE {})
  BY DEF Settle
<1>2. \A m \in heard : \E k \in K : Image(m, k)
  BY DEF Unmounted, Image
<1>3. \A k \in K : \E m \in heard : Image(m, k)
  BY DEF Unmounted, Image
<1> HIDE DEF heard
<1>4. \A m \in calls' : m \in heard \/ (unread /\ m = ChatsCall(selected'))
  BY <1>1
<1>5. heard \subseteq calls'
  BY <1>1
<1> QED BY <1>2, <1>3, <1>4, <1>5 DEF Settle

LEMMA SettledChat ==
  ASSUME NEW K, NEW ch, NEW lost, Settle(K, ch, lost), Outer', ch \in ChatState
  PROVE  chat' \in ChatState
<1>1. chat' = ChatEffect(ch)
  BY DEF Settle
<1>2. EmptyChat \in ChatState
  BY DEF EmptyChat, ChatState, Note
<1>3. CASE ~ChatShown'
  BY <1>1, <1>2, <1>3 DEF ChatEffect
<1>4. CASE ChatShown'
  <2>1. cards'[selected'] \in ShownCard
    BY <1>4 DEF ChatShown, Outer
  <2>2. PICK d : d = cards'[selected'].decision
    OBVIOUS
  <2>3. d \in Decision /\ ch.drafting \in BOOLEAN /\ ChatShown \in BOOLEAN
    BY <2>1, <2>2 DEF ShownCard, ChatState, ChatShown
  <2>4. d.note \in Note /\ (IF d.resolved THEN Nothing ELSE d.path) \in Paths \cup {Nothing}
    BY <2>3 DEF Decision
  <2>5. [note |-> d.note, pending |-> IF d.resolved THEN Nothing ELSE d.path,
         drafting |-> ChatShown /\ ch.drafting] \in ChatState
    BY <2>3, <2>4 DEF ChatState
  <2>6. chat' = ch \/ chat' = [note |-> d.note, pending |-> IF d.resolved THEN Nothing ELSE d.path,
                               drafting |-> ChatShown /\ ch.drafting]
    BY <1>1, <1>4, <2>2 DEF ChatEffect
  <2> QED BY <2>5, <2>6
<1> QED BY <1>3, <1>4

\* A true answer stays true whoever listens to it.
LEMMA AlikeTrue ==
  ASSUME NEW m, NEW k, Alike(m, k), IsRequest(k), IsTrue(k)'
  PROVE  IsTrue(m)'
<1>1. m.kind = k.kind /\ m.at = k.at /\ (k.kind # "list" => m.card = k.card)
  BY DEF Alike, IsRequest
<1>2. \A x \in DOMAIN k : x # "heard" => m[x] = k[x]
  BY DEF Alike
<1> QED BY <1>1, <1>2 DEF IsTrue, IsRequest, Quietly

LEMMA AlikeHarmless ==
  ASSUME NEW m, NEW k, Alike(m, k), IsRequest(k), IsHarmless(k)', m.heard \in Listeners
  PROVE  IsHarmless(m)'
BY AlikeFields DEF IsHarmless, Quietly

\* What holds of the calls a handler leaves holds when the effects have run.
LEMMA Closing ==
  ASSUME NEW K, NEW ch, NEW lost, Settle(K, ch, lost), Outer', ch \in ChatState,
         doubt \subseteq CardIds \X Aspects, lost \subseteq CardIds \X Aspects,
         \A k \in K : IsCall(k)' /\ CallRight(k)', CardsRight(K)'
  PROVE  /\ PanelTypeOK' /\ Shapes' /\ ShownInv'
         /\ DOMAIN cards' = {} /\ (\A k \in K : k.heard = "nobody") =>
              \A k \in calls' : k.heard = "nobody"
<1>1. /\ \A m \in calls' :
              \/ \E k \in K : Image(m, k)
              \/ selected' \in DOMAIN cards' /\ m = ChatsCall(selected')
      /\ \A k \in K : \E m \in calls' : Image(m, k)
      /\ doubt' = doubt \cup Clashes(calls') \cup lost
  BY SettledCalls
<1>2. \A k \in K : IsRequest(k)
  BY DEF IsCall
<1>3. ASSUME NEW m \in calls'
      PROVE  /\ IsCall(m)' /\ CallRight(m)'
             /\ DOMAIN cards' = {} /\ (\A k \in K : k.heard = "nobody") => m.heard = "nobody"
  <2>1. CASE \E k \in K : Image(m, k)
    <3>1. PICK k \in K : Image(m, k)
      BY <2>1
    <3>2. Alike(m, k) /\ m.heard \in Listeners /\ (m.heard = "nobody" <=> k.heard = "nobody")
            /\ IsRequest(k)
      BY <1>2, <3>1, ImagesAlike
    <3>3. IsCall(m)'
      BY <3>2, AlikeCalls
    <3>4. CallRight(m)'
      BY <3>2, AlikeTrue, AlikeHarmless DEF CallRight
    <3> QED BY <3>2, <3>3, <3>4
  <2>2. CASE selected' \in DOMAIN cards' /\ m = ChatsCall(selected')
    <3>1. m.kind = "chats" /\ m.at = "sent" /\ m.heard = "provider" /\ m.card = selected'
            /\ m = [x \in DOMAIN m |-> m[x]] /\ {"kind", "heard", "at", "card"} \subseteq DOMAIN m
      BY <2>2 DEF ChatsCall
    <3>2. IsRequest(m)
      BY <3>1 DEF IsRequest, Kinds, Listeners
    <3>3. IsCall(m)'
      BY <2>2, <3>1, <3>2 DEF IsCall, Outer
    <3>4. CallRight(m)'
      BY <3>1 DEF CallRight, IsTrue
    <3> QED BY <2>2, <3>3, <3>4
  <2> QED BY <1>1, <2>1, <2>2
<1>4. \A m \in calls' : Touches(m) \subseteq CardIds \X Aspects
  <2>1. TAKE m \in calls'
  <2>2. IsRequest(m) /\ (m.kind # "list" => m.card \in CardIds)
    BY <1>3 DEF IsCall, Outer
  <2> QED BY <2>2, TouchesOfCards
<1>5. Clashes(calls') \subseteq CardIds \X Aspects
  <2> DEFINE C == calls'
  <2>1. \A k \in C : Touches(k) \subseteq CardIds \X Aspects
    BY <1>4
  <2> HIDE DEF C
  <2>2. Clashes(C) \subseteq CardIds \X Aspects
    BY <2>1, ClashesOfCards
  <2> QED BY <2>2 DEF C
<1>6. PanelTypeOK'
  <2>1. chat' \in ChatState
    BY SettledChat
  <2>2. doubt' \subseteq CardIds \X Aspects
    BY <1>1, <1>5
  <2> QED BY <2>1, <2>2, OuterTypes DEF Outer, PanelTypeOK
<1>7. Clashes(calls)' \subseteq doubt'
  BY <1>1
<1>8. CardsRight(calls)'
  <2>1. ASSUME NEW c \in DOMAIN cards', NEW kind \in {"decide", "rate", "send"}
        PROVE  /\ (\A m \in calls' : m.kind = kind => m.at # "answered" \/ m.card # c) =>
                    \A k \in K : k.kind = kind => k.at # "answered" \/ k.card # c
               /\ (\A m \in calls' : m.kind = kind => m.card # c) =>
                    \A k \in K : k.kind = kind => k.card # c
    <3>1. ASSUME NEW k \in K, k.kind = kind
          PROVE  \E m \in calls' : m.kind = kind /\ m.at = k.at /\ m.card = k.card
      <4>1. PICK m \in calls' : Image(m, k)
        BY <1>1
      <4>2. Alike(m, k) /\ IsRequest(k)
        BY <1>2, <4>1, ImagesAlike
      <4> QED BY <3>1, <4>2 DEF Alike, IsRequest
    <3> QED BY <3>1
  <2>2. ASSUME NEW c \in DOMAIN cards', Matches(c, K)'
        PROVE  Matches(c, calls)'
    BY <2>1, <2>2 DEF Matches, Quietly
  <2> QED BY <2>2 DEF CardsRight
<1> QED BY <1>3, <1>6, <1>7, <1>8 DEF Shapes, ShownInv

-----------------------------------------------------------------------------
\* The kinds of steps.  CallsLeft are calls that were there, or right ones.

\* Doubts only grow while a panel is there.
LEMMA DoubtGrows ==
  ASSUME NEW K, NEW ch, NEW lost, Settle(K, ch, lost)
  PROVE  doubt \subseteq doubt' /\ lost \subseteq doubt'
BY SettledCalls

\* A step that changes neither cards nor rows.
LEMMA FrameStep ==
  ASSUME NEW K, NEW ch, NEW lost, Settle(K, ch, lost), PanelInv, Outer', ch \in ChatState,
         lost \subseteq CardIds \X Aspects, UNCHANGED <<cards, stored, talk, seen, again>>,
         \A k \in K : k \in calls \/ (IsCall(k) /\ CallRight(k)),
         \A k \in calls :
           \/ k \in K \/ ~Writes(k) \/ Touches(k) \subseteq lost
           \/ k.heard = "nobody" \/ k.card \notin DOMAIN cards
  PROVE  /\ PanelTypeOK' /\ Shapes' /\ ShownInv'
         /\ DOMAIN cards' = {} /\ (\A k \in K : k.heard = "nobody") =>
              \A k \in calls' : k.heard = "nobody"
<1>1. doubt \subseteq doubt' /\ lost \subseteq doubt'
  BY DoubtGrows
<1>2. ASSUME NEW k \in K
      PROVE  IsCall(k)' /\ CallRight(k)'
  <2>1. IsCall(k) /\ CallRight(k)
    BY DEF PanelInv, Base, ShownInv, Shapes
  <2>2. IsCall(k)'
    BY <2>1 DEF IsCall
  <2>3. IsTrue(k) => IsTrue(k)'
    BY <1>1 DEF IsTrue, Quietly
  <2>4. IsHarmless(k) => IsHarmless(k)'
    BY <1>1 DEF IsHarmless, Quietly
  <2> QED BY <2>1, <2>2, <2>3, <2>4 DEF CallRight
<1>3. ASSUME NEW c \in DOMAIN cards, Matches(c, calls)
      PROVE  Matches(c, K)'
  <2>1. ASSUME NEW k \in calls, k \notin K, k.kind \in {"decide", "rate", "send"}, k.card = c
        PROVE  /\ k.kind = "decide" => <<c, "decision">> \in doubt'
               /\ k.kind = "rate" => <<c, "reaction">> \in doubt'
               /\ k.kind = "send" => <<c, "talk">> \in doubt' \/ ~cards[c].loaded
    <3>1. Writes(k) /\ CallRight(k)
      BY <2>1 DEF Writes, PanelInv, ShownInv
    <3>2. CASE Touches(k) \subseteq lost
      BY <1>1, <2>1, <3>2, TouchesByKind
    <3>3. CASE k.heard = "nobody"
      BY <1>1, <2>1, <3>1, <3>3, TouchesByKind DEF CallRight, IsHarmless, Aspects, Quietly
    <3> QED BY <2>1, <3>1, <3>2, <3>3
  <2> QED BY <1>1, <1>3, <2>1 DEF Matches, Quietly
<1>4. CardsRight(K)'
  BY <1>3 DEF CardsRight, PanelInv, ShownInv
<1>5. doubt \subseteq CardIds \X Aspects
  BY DEF PanelInv, Base, PanelTypeOK
<1> QED BY <1>2, <1>4, <1>5, Closing

\* Of a call that writes, nothing it is about is quiet for another call.
LEMMA WriterAlone ==
  ASSUME PanelInv, NEW k \in calls, NEW m \in calls, k # m, Writes(k) \/ Writes(m),
         NEW t, t \in Touches(k), t \in Touches(m)
  PROVE  t \in doubt
<1>1. Clashes(calls) \subseteq doubt
  BY DEF PanelInv, ShownInv
<1> QED BY <1>1, ClashesInDoubt

\* The server writes rows for call k, whose card the panel may show.
LEMMA ServeStep ==
  ASSUME NEW k \in calls, NEW new, NEW K, K = (calls \ {k}) \cup {new}, NEW ch,
         Settle(K, ch, {}), PanelInv, Outer', ch \in ChatState, UNCHANGED <<cards, seen, again>>,
         Writes(k), new.kind = k.kind, new.card = k.card,
         DOMAIN stored' = DOMAIN stored,
         IsCall(new)', CallRight(new)',
         \A c \in DOMAIN stored : c # k.card => stored'[c] = stored[c] /\ talk'[c] = talk[c],
         <<k.card, "decision">> \notin Touches(k) =>
           stored'[k.card].decision = stored[k.card].decision,
         <<k.card, "reaction">> \notin Touches(k) =>
           stored'[k.card].reaction = stored[k.card].reaction,
         <<k.card, "talk">> \notin Touches(k) => talk'[k.card] = talk[k.card],
         k.card \in DOMAIN cards => Matches(k.card, K)'
  PROVE  /\ PanelTypeOK' /\ Shapes' /\ ShownInv'
         /\ DOMAIN cards' = {} /\ (\A m \in K : m.heard = "nobody") =>
              \A m \in calls' : m.heard = "nobody"
<1>1. doubt \subseteq doubt'
  BY DoubtGrows
<1>2. ASSUME NEW m \in calls, m # k
      PROVE  IsCall(m)' /\ CallRight(m)'
  <2>1. IsCall(m) /\ CallRight(m) /\ IsRequest(m)
    BY DEF PanelInv, Base, ShownInv, Shapes, IsCall
  <2>2. IsCall(m)'
    BY <2>1 DEF IsCall
  <2>3. ASSUME NEW c \in DOMAIN stored, NEW a \in Aspects, <<c, a>> \in Touches(m),
               <<c, a>> \notin doubt'
        PROVE  /\ a = "decision" => stored'[c].decision = stored[c].decision
               /\ a = "reaction" => stored'[c].reaction = stored[c].reaction
               /\ a = "talk" => talk'[c] = talk[c]
    <3>1. <<c, a>> \notin Touches(k)
      BY <1>1, <1>2, <2>3, WriterAlone
    <3> QED BY <3>1
  <2>4. DOMAIN stored \subseteq CardIds
    BY DEF PanelInv, Base, PanelTypeOK
  <2>5. IsTrue(m) => IsTrue(m)'
    <3>1. CASE m.kind = "list"
      BY <1>1, <2>1, <2>3, <2>4, <3>1, TouchedThings DEF IsTrue, Quietly, Aspects, IsCall
    <3>2. CASE m.kind \in {"chats", "send", "decide", "rate"}
      BY <1>1, <2>1, <2>3, <2>4, <3>2, TouchedThings DEF IsTrue, Quietly, Aspects, IsCall
    <3>3. CASE m.kind = "draft"
      BY <3>3 DEF IsTrue
    <3> QED BY <2>1, <3>1, <3>2, <3>3 DEF IsRequest, Kinds
  <2>6. IsHarmless(m) => IsHarmless(m)'
    BY <1>1 DEF IsHarmless, Quietly
  <2> QED BY <2>1, <2>2, <2>5, <2>6 DEF CallRight
<1>3. ASSUME NEW c \in DOMAIN cards, c # k.card
      PROVE  Matches(c, K)'
  <2>1. Matches(c, calls) /\ c \in DOMAIN stored
    BY DEF PanelInv, ShownInv, CardsRight, Base, PanelTypeOK
  <2>2. stored'[c] = stored[c] /\ talk'[c] = talk[c]
    BY <1>3, <2>1
  <2>3. \A m \in calls : m.card = c => m \in K
    BY <1>3
  <2> QED BY <1>1, <2>1, <2>2, <2>3 DEF Matches, Quietly
<1>4. CardsRight(K)'
  BY <1>3 DEF CardsRight, PanelInv, ShownInv
<1>5. doubt \subseteq CardIds \X Aspects
  BY DEF PanelInv, Base, PanelTypeOK
<1>6. \A m \in K : IsCall(m)' /\ CallRight(m)'
  BY <1>2
<1> QED BY <1>4, <1>5, <1>6, Closing

\* An answer somebody listens to changes the card of call k.
LEMMA ArriveStep ==
  ASSUME NEW k \in calls, k.heard # "nobody", k.kind # "list", NEW K, K = calls \ {k}, NEW ch,
         Settle(K, ch, {}), PanelInv, Outer', ch \in ChatState,
         UNCHANGED <<stored, talk, seen, again>>, k.card \in DOMAIN cards,
         DOMAIN cards' = DOMAIN cards,
         \A c \in DOMAIN cards : c # k.card => cards'[c] = cards[c],
         <<k.card, "decision">> \notin Touches(k) =>
           cards'[k.card].decision = cards[k.card].decision,
         <<k.card, "reaction">> \notin Touches(k) =>
           cards'[k.card].reaction = cards[k.card].reaction,
         <<k.card, "talk">> \notin Touches(k) =>
           /\ cards'[k.card].history = cards[k.card].history
           /\ cards'[k.card].loaded = cards[k.card].loaded,
         Matches(k.card, K)'
  PROVE  /\ PanelTypeOK' /\ Shapes' /\ ShownInv'
         /\ DOMAIN cards' = {} /\ (\A m \in K : m.heard = "nobody") =>
              \A m \in calls' : m.heard = "nobody"
<1>1. doubt \subseteq doubt'
  BY DoubtGrows
<1>2. ASSUME NEW m \in K
      PROVE  IsCall(m)' /\ CallRight(m)'
  <2>1. IsCall(m) /\ CallRight(m) /\ IsRequest(m) /\ m \in calls /\ m # k
    BY DEF PanelInv, Base, ShownInv, Shapes, IsCall
  <2>2. IsCall(m)'
    BY <2>1 DEF IsCall
  <2>3. ASSUME Writes(m), NEW c \in DOMAIN cards, NEW a \in Aspects, <<c, a>> \in Touches(m),
               <<c, a>> \notin doubt'
        PROVE  /\ a = "decision" => cards'[c].decision = cards[c].decision
               /\ a = "reaction" => cards'[c].reaction = cards[c].reaction
               /\ a = "talk" => cards'[c].loaded = cards[c].loaded
    <3>1. <<c, a>> \notin Touches(k)
      BY <1>1, <2>1, <2>3, WriterAlone
    <3> QED BY <3>1
  <2>4. IsTrue(m) => IsTrue(m)'
    <3>1. CASE m.kind = "decide"
      <4>1. Writes(m) /\ <<m.card, "decision">> \in Touches(m)
        BY <3>1, TouchesByKind DEF Writes
      <4> QED BY <1>1, <2>1, <2>3, <3>1, <4>1 DEF IsTrue, Quietly, Aspects
    <3>2. CASE m.kind # "decide"
      BY <1>1, <2>1, <3>2 DEF IsTrue, Quietly
    <3> QED BY <3>1, <3>2
  <2>5. IsHarmless(m) => IsHarmless(m)'
    BY <1>1, <2>3 DEF IsHarmless, Quietly
  <2> QED BY <2>1, <2>2, <2>4, <2>5 DEF CallRight
<1>3. ASSUME NEW c \in DOMAIN cards, c # k.card
      PROVE  Matches(c, K)'
  <2>1. Matches(c, calls)
    BY DEF PanelInv, ShownInv, CardsRight
  <2>2. cards'[c] = cards[c]
    BY <1>3
  <2>3. \A m \in calls : m.kind # "list" /\ m.card = c => m \in K
    BY <1>3
  <2> QED BY <1>1, <2>1, <2>2, <2>3 DEF Matches, Quietly
<1>4. CardsRight(K)'
  BY <1>3 DEF CardsRight, PanelInv, ShownInv
<1>5. doubt \subseteq CardIds \X Aspects
  BY DEF PanelInv, Base, PanelTypeOK
<1> QED BY <1>2, <1>4, <1>5, Closing

-----------------------------------------------------------------------------
\* What a person does.

LEMMA JobsStay ==
  ASSUME JobsInv, UNCHANGED <<jobs, applyJobs, again, seen, applying>>, DOMAIN stored' = DOMAIN stored
  PROVE  JobsInv'
BY DEF JobsInv, ApplyInv, Applied, ApplyJob

\* A step that leaves cards and rows alone, with a panel on the page.
LEMMA PanelStep ==
  ASSUME NEW K, NEW ch, Effects(K, ch), PanelInv, Outer', ch \in ChatState,
         UNCHANGED <<cards, stored, talk, seen, again>>,
         \A k \in K : k \in calls \/ (IsCall(k) /\ CallRight(k)),
         \A k \in calls : k \in K \/ ~Writes(k), JobsInv', applying' # "reloading"
  PROVE  PanelInv'
<1>1. Settle(K, ch, {})
  BY DEF Effects
<1>2. PanelTypeOK' /\ Shapes' /\ ShownInv'
  BY <1>1, FrameStep
<1>3. ReloadInv'
  BY DEF ReloadInv
<1> QED BY <1>2, <1>3 DEF PanelInv, Base

\* A click that only moves what is selected or written on this side.
LEMMA ClickStep ==
  ASSUME PanelInv, NEW ch, Effects(calls, ch), ch \in ChatState, applying # "reloading",
         UNCHANGED <<cards, reviewing, applying, seen, reviewServerVars>>,
         selected' \in CardIds \cup {NoCard}, modal' \in BOOLEAN, deeds' \in 0 .. MaxDeeds
  PROVE  PanelInv'
<1>1. Outer'
  BY DEF PanelInv, Base, PanelTypeOK, Outer, reviewServerVars
<1>2. JobsInv'
  BY JobsStay DEF PanelInv, Base, reviewServerVars
<1>3. UNCHANGED <<cards, stored, talk, seen, again>> /\ applying' # "reloading"
  BY DEF reviewServerVars
<1>4. PICK K : K = calls
  OBVIOUS
<1> QED BY <1>1, <1>2, <1>3, <1>4, PanelStep

LEMMA ChatTyped == PanelInv => chat \in ChatState
BY DEF PanelInv, Base, PanelTypeOK

LEMMA DeedsTyped == PanelInv /\ (Deed \/ deeds' = deeds) => deeds' \in 0 .. MaxDeeds
BY PanelAssumption DEF PanelInv, Base, PanelTypeOK, Deed

\* Opening and closing the review, selecting a card, writing and giving up a note.
LEMMA SelectingKeeps ==
  ASSUME PanelInv, OpenModal \/ CloseModal \/ \E c \in DOMAIN cards : SelectCard(c)
  PROVE  PanelInv'
<1>1. PICK ch : ch = chat
  OBVIOUS
<1>2. ch \in ChatState /\ deeds \in 0 .. MaxDeeds /\ selected \in CardIds \cup {NoCard}
        /\ modal \in BOOLEAN /\ DOMAIN cards \subseteq CardIds
  BY <1>1 DEF PanelInv, Base, PanelTypeOK
<1>3. CASE OpenModal
  BY <1>1, <1>2, <1>3, ClickStep DEF OpenModal
<1>4. CASE CloseModal
  BY <1>1, <1>2, <1>4, ClickStep DEF CloseModal
<1>5. ASSUME NEW c \in DOMAIN cards, SelectCard(c)
      PROVE  PanelInv'
  BY <1>1, <1>2, <1>5, ClickStep DEF SelectCard
<1> QED BY <1>3, <1>4, <1>5

LEMMA NotesKeep ==
  ASSUME PanelInv, TypeNote \/ CancelResolution
  PROVE  PanelInv'
<1>1. selected \in CardIds \cup {NoCard} /\ modal \in BOOLEAN /\ chat \in ChatState
        /\ selected \in DOMAIN cards /\ cards[selected].decision.note \in Note
        /\ applying # "reloading"
  BY DEF PanelInv, Base, PanelTypeOK, TypeNote, CancelResolution, ChatShown, Deed, ShownCard,
         Decision
<1>2. CASE TypeNote
  <2>1. PICK ch : ch = [chat EXCEPT !.note = Typed]
    OBVIOUS
  <2>2. ch \in ChatState
    BY <1>1, <2>1 DEF ChatState, Note
  <2>3. Effects(calls, ch) /\ deeds' \in 0 .. MaxDeeds
    BY <1>2, <2>1, DeedsTyped DEF TypeNote
  <2> QED BY <1>1, <1>2, <2>2, <2>3, ClickStep DEF TypeNote
<1>3. CASE CancelResolution
  <2>1. PICK ch : ch = [chat EXCEPT !.pending = Nothing, !.note = cards[selected].decision.note]
    OBVIOUS
  <2>2. ch \in ChatState
    BY <1>1, <2>1 DEF ChatState
  <2>3. Effects(calls, ch) /\ deeds' \in 0 .. MaxDeeds
    BY <1>3, <2>1, DeedsTyped DEF CancelResolution
  <2> QED BY <1>1, <1>3, <2>2, <2>3, ClickStep DEF CancelResolution
<1> QED BY <1>2, <1>3

\* A click that starts call k.
LEMMA CallStep ==
  ASSUME PanelInv, NEW ch, ch \in ChatState, NEW k, IsCall(k), CallRight(k),
         Effects(calls \cup {k}, ch), Deed,
         UNCHANGED <<cards, selected, modal, reviewing, applying, seen, reviewServerVars>>
  PROVE  PanelInv'
<1>1. deeds' \in 0 .. MaxDeeds
  BY DeedsTyped
<1>2. Outer'
  BY <1>1 DEF PanelInv, Base, PanelTypeOK, Outer, reviewServerVars
<1>3. JobsInv'
  BY JobsStay DEF PanelInv, Base, reviewServerVars
<1>4. UNCHANGED <<cards, stored, talk, seen, again>> /\ applying' # "reloading"
  BY DEF reviewServerVars, Deed
<1>5. PICK K : K = calls \cup {k}
  OBVIOUS
<1>6. \A m \in K : m \in calls \/ (IsCall(m) /\ CallRight(m))
  BY <1>5
<1>7. \A m \in calls : m \in K \/ ~Writes(m)
  BY <1>5
<1> QED BY <1>2, <1>3, <1>4, <1>5, <1>6, <1>7, PanelStep

LEMMA DraftingKeeps ==
  ASSUME PanelInv, NEW p \in Paths, HandleDraftGeneration(p)
  PROVE  PanelInv'
<1>1. PICK k : k = DraftCall(selected, p)
  OBVIOUS
<1>2. PICK ch : ch = [chat EXCEPT !.pending = p, !.drafting = TRUE]
  OBVIOUS
<1>3. selected \in DOMAIN stored /\ chat \in ChatState
  BY DEF PanelInv, Base, PanelTypeOK, HandleDraftGeneration, ChatShown
<1>4. ch \in ChatState
  BY <1>2, <1>3 DEF ChatState
<1>5. IsCall(k) /\ CallRight(k)
  BY <1>1, <1>3 DEF DraftCall, IsCall, IsRequest, CallRight, IsTrue, Kinds, Listeners
<1> QED BY <1>1, <1>2, <1>4, <1>5, CallStep DEF HandleDraftGeneration, Call

LEMMA ApprovingKeeps ==
  ASSUME PanelInv, HandleApproveResolution
  PROVE  PanelInv'
<1>1. PICK d : d = [resolved |-> TRUE, path |-> chat.pending, note |-> chat.note]
  OBVIOUS
<1>2. PICK k : k = DecideCall(selected, d, "chat")
  OBVIOUS
<1>3. PICK ch : ch = chat
  OBVIOUS
<1>4. selected \in DOMAIN stored /\ chat \in ChatState /\ chat.pending # Nothing
  BY DEF PanelInv, Base, PanelTypeOK, HandleApproveResolution, ChatShown
<1>5. d \in Decision /\ d.path # Nothing /\ d.resolved
  BY <1>1, <1>4 DEF ChatState, Decision
<1>6. k = [kind |-> "decide", card |-> selected, wish |-> d, heard |-> "chat", at |-> "sent",
           no |-> Number]
  BY <1>2 DEF DecideCall
<1>7. IsCall(k) /\ CallRight(k)
  BY <1>4, <1>5, <1>6 DEF IsCall, IsRequest, CallRight, IsTrue, Kinds, Listeners
<1> QED BY <1>1, <1>2, <1>3, <1>4, <1>7, CallStep DEF HandleApproveResolution, Call

LEMMA UnresolvingKeeps ==
  ASSUME PanelInv, NEW c \in DOMAIN cards, UnresolveCard(c)
  PROVE  PanelInv'
<1>1. PICK d : d = [cards[c].decision EXCEPT !.resolved = FALSE]
  OBVIOUS
<1>2. PICK k : k = DecideCall(c, d, "provider")
  OBVIOUS
<1>3. PICK ch : ch = chat
  OBVIOUS
<1>4. c \in DOMAIN stored /\ chat \in ChatState /\ cards[c].decision \in Decision
        /\ cards[c].decision.path # Nothing
  BY DEF PanelInv, Base, PanelTypeOK, UnresolveCard, ShownCard
<1>5. d \in Decision /\ d.path = cards[c].decision.path
  BY <1>1, <1>4 DEF Decision
<1>6. k = [kind |-> "decide", card |-> c, wish |-> d, heard |-> "provider", at |-> "sent",
           no |-> Number]
  BY <1>2 DEF DecideCall
<1>7. IsCall(k) /\ CallRight(k)
  BY <1>4, <1>5, <1>6 DEF IsCall, IsRequest, CallRight, IsTrue, Kinds, Listeners
<1> QED BY <1>1, <1>2, <1>3, <1>4, <1>7, CallStep DEF UnresolveCard, Call

LEMMA RatingKeeps ==
  ASSUME PanelInv, NEW r \in {"good", "bad"}, RateCard(r)
  PROVE  PanelInv'
<1>1. PICK k : k = RateCall(selected, r)
  OBVIOUS
<1>2. PICK ch : ch = chat
  OBVIOUS
<1>3. selected \in DOMAIN stored /\ chat \in ChatState
  BY DEF PanelInv, Base, PanelTypeOK, RateCard
<1>4. IsCall(k) /\ CallRight(k)
  BY <1>1, <1>3 DEF RateCall, IsCall, IsRequest, CallRight, IsTrue, Kinds, Listeners
<1> QED BY <1>1, <1>2, <1>3, <1>4, CallStep DEF RateCard, Call

\* A message is shown at once, and its conversation is in doubt if another call
\* is about it.
LEMMA SendingKeeps ==
  ASSUME PanelInv, SendMessage
  PROVE  PanelInv'
<1>1. PICK c : c = selected
  OBVIOUS
<1>2. PICK k : k = SendCall(c)
  OBVIOUS
<1>3. PICK K : K = calls \cup {k}
  OBVIOUS
<1>4. PICK ch : ch = chat
  OBVIOUS
<1>5. c \in DOMAIN cards /\ c \in DOMAIN stored /\ ch \in ChatState /\ cards[c] \in ShownCard
        /\ DOMAIN stored \subseteq CardIds /\ doubt \subseteq CardIds \X Aspects
  BY <1>1, <1>4 DEF PanelInv, Base, PanelTypeOK, SendMessage, ChatShown
<1>6. Settle(K, ch, {})
  BY <1>1, <1>2, <1>3, <1>4 DEF SendMessage, Call, Effects
<1>7. /\ DOMAIN cards' = DOMAIN cards
      /\ \A d \in DOMAIN cards : d # c => cards'[d] = cards[d]
      /\ cards'[c].decision = cards[c].decision /\ cards'[c].reaction = cards[c].reaction
      /\ cards'[c] \in ShownCard
  <2>1. PICK old : old = cards[c]
    OBVIOUS
  <2>2. PICK h : h = [old.history EXCEPT !.own = @ + 1]
    OBVIOUS
  <2>3. PICK new : new = [old EXCEPT !.history = h, !.loaded = TRUE]
    OBVIOUS
  <2>4. old \in ShownCard /\ old.history \in CardHistory
    BY <1>5, <2>1 DEF ShownCard
  <2>5. h \in CardHistory
    BY <2>2, <2>4 DEF CardHistory
  <2>6. new \in ShownCard /\ new.decision = old.decision /\ new.reaction = old.reaction
    BY <2>3, <2>4, <2>5 DEF ShownCard
  <2>7. cards' = [cards EXCEPT ![c] = new]
    BY <1>1, <1>5, <2>1, <2>2, <2>3 DEF SendMessage
  <2> QED BY <1>5, <2>1, <2>6, <2>7
<1>8. UNCHANGED <<selected, modal, reviewing, applying, seen, reviewServerVars>>
        /\ UNCHANGED <<stored, talk, jobs, applyJobs, again>> /\ applying # "reloading"
        /\ deeds' \in 0 .. MaxDeeds
  BY DeedsTyped DEF SendMessage, reviewServerVars, Deed
<1>9. Outer'
  BY <1>7, <1>8 DEF PanelInv, Base, PanelTypeOK, Outer
<1>10. k = [kind |-> "send", card |-> c, heard |-> "provider", at |-> "sent", no |-> Number]
  BY <1>2 DEF SendCall
<1>11. IsCall(k) /\ IsTrue(k)' /\ k.heard = "provider"
  BY <1>5, <1>10 DEF IsCall, IsRequest, IsTrue, Kinds, Listeners
<1>12. doubt \subseteq doubt'
  BY <1>6, DoubtGrows
<1>13. ASSUME NEW m \in calls
       PROVE  IsCall(m)' /\ CallRight(m)'
  <2>1. IsCall(m) /\ CallRight(m) /\ IsRequest(m)
    BY DEF PanelInv, Base, ShownInv, Shapes, IsCall
  <2>2. IsCall(m)'
    BY <1>8, <2>1 DEF IsCall
  <2>3. IsTrue(m) => IsTrue(m)'
    BY <1>7, <1>8, <1>12 DEF IsTrue, Quietly
  <2>4. ASSUME m.heard = "nobody", IsHarmless(m), Writes(m), <<c, "talk">> \in Touches(m)
        PROVE  <<c, "talk">> \in doubt'
    <3>1. m # k
      BY <1>11, <2>4
    <3>2. PICK i \in calls' : Image(i, m)
      BY <1>3, <1>6, SettledCalls
    <3>3. PICK j \in calls' : Image(j, k)
      BY <1>3, <1>6, SettledCalls
    <3>4. Alike(i, m) /\ Alike(j, k) /\ i.heard = "nobody" /\ j.heard # "nobody"
            /\ i.heard \in Listeners /\ j.heard \in Listeners
      BY <1>11, <2>1, <2>4, <3>2, <3>3, ImagesAlike DEF IsCall
    <3>5. Touches(i) = Touches(m) /\ Touches(j) = Touches(k) /\ Writes(i)
      BY <1>11, <2>1, <2>4, <3>4, AlikeFields DEF IsCall
    <3>6. <<c, "talk">> \in Touches(j)
      BY <1>10, <3>5, TouchesByKind
    <3>7. PICK L : L = calls'
      OBVIOUS
    <3>8. PICK D : D = doubt'
      OBVIOUS
    <3>9. Clashes(L) \subseteq D /\ i \in L /\ j \in L /\ i # j
      BY <1>6, <3>2, <3>3, <3>4, <3>7, <3>8, SettledCalls
    <3> QED BY <2>4, <3>5, <3>6, <3>8, <3>9, ClashesInDoubt
  <2>5. m.heard = "nobody" /\ IsHarmless(m) => IsHarmless(m)'
    BY <1>7, <1>12, <2>4 DEF IsHarmless, Quietly
  <2> QED BY <2>1, <2>2, <2>3, <2>5 DEF CallRight
<1>14. ASSUME NEW d \in DOMAIN cards
       PROVE  Matches(d, K)'
  <2>1. Matches(d, calls)
    BY DEF PanelInv, ShownInv, CardsRight
  <2>2. CASE d = c
    BY <1>3, <1>7, <1>8, <1>10, <1>12, <2>1, <2>2 DEF Matches, Quietly
  <2>3. CASE d # c
    BY <1>3, <1>7, <1>8, <1>10, <1>12, <2>1, <2>3 DEF Matches, Quietly
  <2> QED BY <2>2, <2>3
<1>15. CardsRight(K)'
  BY <1>7, <1>8, <1>14 DEF CardsRight, PanelInv, ShownInv
<1>16. \A m \in K : IsCall(m)' /\ CallRight(m)'
  BY <1>3, <1>8, <1>11, <1>13 DEF IsCall, CallRight
<1>17. PanelTypeOK' /\ Shapes' /\ ShownInv'
  BY <1>5, <1>6, <1>9, <1>15, <1>16, Closing
<1>18. JobsInv' /\ ReloadInv'
  BY <1>8, JobsStay DEF ReloadInv, PanelInv, Base
<1> QED BY <1>17, <1>18 DEF PanelInv, Base

-----------------------------------------------------------------------------
\* The handlers on the server.

\* A step that also happens while the page loads its workspace.
LEMMA AnytimeStep ==
  ASSUME PanelInv, NEW K, PanelTypeOK', Shapes', ShownInv', JobsInv',
         DOMAIN cards' = {} /\ (\A k \in K : k.heard = "nobody") =>
           \A k \in calls' : k.heard = "nobody",
         UNCHANGED <<applying, modal>>, DOMAIN cards = {} => DOMAIN cards' = {},
         reviewing = "idle" => reviewing' = "idle",
         (\A k \in calls : k.heard = "nobody") => \A k \in K : k.heard = "nobody"
  PROVE  PanelInv'
BY DEF PanelInv, Base, ReloadInv

\* The answer of call k, which changes no row.
LEMMA ReadStep ==
  ASSUME PanelInv, NEW k \in calls, ~Writes(k), NEW new, IsCall(new), CallRight(new),
         new.heard = k.heard, Effects(Served(k, new), chat), Quiet, UNCHANGED reviewServerVars
  PROVE  PanelInv'
<1>1. PICK K : K = Served(k, new)
  OBVIOUS
<1>2. PICK ch : ch = chat
  OBVIOUS
<1>3. UNCHANGED <<stored, talk, jobs, applyJobs, again, cards, selected, modal, reviewing,
                  applying, seen, deeds>>
  BY DEF Quiet, reviewServerVars
<1>4. Outer' /\ JobsInv' /\ ch \in ChatState
  BY <1>2, <1>3, JobsStay DEF PanelInv, Base, PanelTypeOK, Outer
<1>5. \A m \in K : m \in calls \/ (IsCall(m) /\ CallRight(m))
  BY <1>1 DEF Served
<1>6. \A m \in calls : m \in K \/ ~Writes(m)
  BY <1>1 DEF Served
<1>7. Settle(K, ch, {})
  BY <1>1, <1>2 DEF Effects
<1>8. /\ PanelTypeOK' /\ Shapes' /\ ShownInv'
      /\ DOMAIN cards' = {} /\ (\A m \in K : m.heard = "nobody") =>
           \A m \in calls' : m.heard = "nobody"
  BY <1>3, <1>4, <1>5, <1>6, <1>7, FrameStep
<1>9. (\A m \in calls : m.heard = "nobody") => \A m \in K : m.heard = "nobody"
  BY <1>1 DEF Served
<1> QED BY <1>3, <1>4, <1>8, <1>9, AnytimeStep

LEMMA ListingKeeps ==
  ASSUME PanelInv, NEW k \in calls, ServeList(k)
  PROVE  PanelInv'
<1>1. PICK L : L = Listed
  OBVIOUS
<1>2. PICK new : new = [kind |-> "list", heard |-> k.heard, at |-> "answered", no |-> k.no,
                        answer |-> L]
  OBVIOUS
<1>3. \A c \in DOMAIN L : c \in DOMAIN stored /\ L[c] = stored[c] /\ c[1] = Latest
                            /\ Latest \notin Applied
  <2>1. CASE Latest \in Applied
    BY <1>1, <2>1 DEF Listed, NoCards
  <2>2. CASE Latest \notin Applied
    BY <1>1, <2>2 DEF Listed
  <2> QED BY <2>1, <2>2
<1>4. /\ \A c \in DOMAIN L : c \in DOMAIN stored /\ L[c] \in CardRow /\ (c[1] \in seen => c[1] \in again)
      /\ \A c, d \in DOMAIN L : c[1] = d[1]
  BY <1>3 DEF PanelInv, Base, PanelTypeOK, JobsInv, ApplyInv
<1>5. k.heard \in Listeners /\ ~Writes(k)
  BY DEF PanelInv, Base, Shapes, IsCall, IsRequest, ServeList, Writes
<1>6. IsCall(new)
  BY <1>2, <1>4, <1>5 DEF IsCall, IsRequest, Kinds
<1>7. CallRight(new)
  BY <1>2, <1>3, <1>4 DEF CallRight, IsTrue, IsHarmless, Writes
<1>8. new.heard = k.heard /\ Effects(Served(k, new), chat)
  BY <1>1, <1>2 DEF ServeList
<1> QED BY <1>5, <1>6, <1>7, <1>8, ReadStep DEF ServeList

LEMMA ConversationReadKeeps ==
  ASSUME PanelInv, NEW k \in calls, ServeChats(k)
  PROVE  PanelInv'
<1>1. PICK t : t = talk[k.card]
  OBVIOUS
<1>2. PICK new : new = [kind |-> "chats", card |-> k.card, heard |-> k.heard, at |-> "answered",
                        no |-> k.no, answer |-> t]
  OBVIOUS
<1>3. k.heard \in Listeners /\ ~Writes(k) /\ k.card \in DOMAIN stored /\ t \in Nat
  BY <1>1 DEF PanelInv, Base, Shapes, IsCall, IsRequest, ServeChats, Writes, PanelTypeOK
<1>4. IsCall(new)
  BY <1>2, <1>3 DEF IsCall, IsRequest, Kinds
<1>5. CallRight(new)
  BY <1>1, <1>2 DEF CallRight, IsTrue, IsHarmless, Writes
<1>6. new.heard = k.heard /\ Effects(Served(k, new), chat)
  BY <1>1, <1>2 DEF ServeChats
<1> QED BY <1>3, <1>4, <1>5, <1>6, ReadStep DEF ServeChats

\* The answer of call k, which has written rows.
LEMMA WriteStep ==
  ASSUME PanelInv, NEW k \in calls, Writes(k), NEW new, IsCall(new)', CallRight(new)',
         new.kind = k.kind, new.card = k.card, new.heard = k.heard,
         Effects(Served(k, new), chat), Quiet, UNCHANGED <<jobs, applyJobs, again>>,
         DOMAIN stored' = DOMAIN stored, DOMAIN talk' = DOMAIN talk,
         stored'[k.card] \in CardRow, talk'[k.card] \in Nat,
         \A c \in DOMAIN stored : c # k.card => stored'[c] = stored[c] /\ talk'[c] = talk[c],
         <<k.card, "decision">> \notin Touches(k) =>
           stored'[k.card].decision = stored[k.card].decision,
         <<k.card, "reaction">> \notin Touches(k) =>
           stored'[k.card].reaction = stored[k.card].reaction,
         <<k.card, "talk">> \notin Touches(k) => talk'[k.card] = talk[k.card],
         \A K : new \in K /\ (\A m \in calls : m # k => m \in K) /\ k.card \in DOMAIN cards =>
           Matches(k.card, K)'
  PROVE  PanelInv'
<1>1. PICK K : K = Served(k, new)
  OBVIOUS
<1>2. PICK ch : ch = chat
  OBVIOUS
<1>3. UNCHANGED <<jobs, applyJobs, again, cards, selected, modal, reviewing, applying, seen,
                  deeds>>
  BY DEF Quiet
<1>4. Outer'
  BY <1>3 DEF PanelInv, Base, PanelTypeOK, Outer
<1>5. JobsInv' /\ ch \in ChatState
  BY <1>2, <1>3, JobsStay DEF PanelInv, Base, PanelTypeOK
<1>6. Settle(K, ch, {}) /\ K = (calls \ {k}) \cup {new}
  BY <1>1, <1>2 DEF Effects, Served
<1>7. k.card \in DOMAIN cards => Matches(k.card, K)'
  BY <1>6
<1>8. /\ PanelTypeOK' /\ Shapes' /\ ShownInv'
      /\ DOMAIN cards' = {} /\ (\A m \in K : m.heard = "nobody") =>
           \A m \in calls' : m.heard = "nobody"
  BY <1>3, <1>4, <1>5, <1>6, <1>7, ServeStep
<1>9. (\A m \in calls : m.heard = "nobody") => \A m \in K : m.heard = "nobody"
  BY <1>6
<1> QED BY <1>3, <1>5, <1>8, <1>9, AnytimeStep

\* An answer nobody listens to is as harmless as its call.
LEMMA StaysHarmless ==
  ASSUME NEW k, NEW new, IsHarmless(k), k.kind \in {"send", "decide", "rate"},
         new.kind = k.kind, new.card = k.card, doubt \subseteq doubt', UNCHANGED cards
  PROVE  IsHarmless(new)'
<1>1. Touches(new) = Touches(k) /\ (Writes(new) <=> Writes(k))
  BY TouchesByKind DEF Writes
<1> QED BY <1>1 DEF IsHarmless, Quietly

\* What is known of a call and of the row of its card.
LEMMA CallKnown ==
  ASSUME PanelInv, NEW k \in calls
  PROVE  /\ IsCall(k) /\ IsRequest(k) /\ CallRight(k) /\ k.heard \in Listeners
         /\ k.kind # "list" => /\ k.card \in DOMAIN stored /\ k.card \in CardIds
                               /\ stored[k.card] \in CardRow /\ talk[k.card] \in Nat
         /\ k.kind # "list" /\ k.card \in DOMAIN cards =>
              Matches(k.card, calls) /\ cards[k.card] \in ShownCard
BY DEF PanelInv, Base, ShownInv, CardsRight, Shapes, IsCall, IsRequest, PanelTypeOK

\* A shown card that an unheard call is about is in doubt.
LEMMA UnheardInDoubt ==
  ASSUME PanelInv, NEW k \in calls, k.heard = "nobody", Writes(k), k.card \in DOMAIN cards,
         NEW a \in {"decision", "reaction"}, <<k.card, a>> \in Touches(k)
  PROVE  <<k.card, a>> \in doubt
<1>1. IsHarmless(k)
  BY CallKnown DEF CallRight
<1> QED BY <1>1 DEF IsHarmless, Quietly, Aspects

LEMMA QuestionKeeps ==
  ASSUME PanelInv, NEW k \in calls, ServeQuestion(k)
  PROVE  PanelInv'
<1>1. PICK row : row = stored[k.card]
  OBVIOUS
<1>2. PICK new : new = [kind |-> "send", card |-> k.card, heard |-> k.heard, at |-> "asked",
                        no |-> k.no, row |-> row]
  OBVIOUS
<1>3. k.kind = "send" /\ Writes(k) /\ Effects(Served(k, new), chat) /\ Quiet
        /\ UNCHANGED <<stored, jobs, applyJobs, again>>
        /\ talk' = [talk EXCEPT ![k.card] = @ + 1]
  BY <1>1, <1>2 DEF ServeQuestion, Writes
<1>4. /\ IsRequest(k) /\ CallRight(k) /\ k.heard \in Listeners /\ k.card \in DOMAIN stored
      /\ row \in CardRow /\ talk[k.card] \in Nat
      /\ k.card \in DOMAIN cards => Matches(k.card, calls)
  BY <1>1, <1>3, CallKnown
<1>5. DOMAIN talk = DOMAIN stored /\ UNCHANGED cards
  BY <1>3 DEF PanelInv, Base, PanelTypeOK, Quiet
<1>6. talk'[k.card] = talk[k.card] + 1 /\ (\A c \in DOMAIN stored : c # k.card => talk'[c] = talk[c])
        /\ DOMAIN talk' = DOMAIN talk
  BY <1>3, <1>4, <1>5
<1>7. doubt \subseteq doubt'
  <2>1. PICK K : K = Served(k, new)
    OBVIOUS
  <2>2. PICK ch : ch = chat
    OBVIOUS
  <2>3. Settle(K, ch, {})
    BY <1>3, <2>1, <2>2 DEF Effects
  <2> QED BY <2>3, DoubtGrows
<1>8. IsCall(new)'
  BY <1>2, <1>3, <1>4 DEF IsCall, IsRequest, Kinds
<1>9. CallRight(new)'
  <2>1. IsTrue(new)'
    BY <1>1, <1>2, <1>3 DEF IsTrue
  <2>2. IsHarmless(k) => IsHarmless(new)'
    BY <1>2, <1>3, <1>5, <1>7, StaysHarmless
  <2> QED BY <1>2, <1>4, <2>1, <2>2 DEF CallRight
<1>10. ASSUME NEW K, new \in K, \A m \in calls : m # k => m \in K, k.card \in DOMAIN cards
       PROVE  Matches(k.card, K)'
  <2>1. \A m \in calls : m.kind \in {"decide", "rate"} => m \in K
    BY <1>3, <1>10
  <2>2. Matches(k.card, calls)
    BY <1>4, <1>10
  <2>3. new.kind = "send" /\ new.card = k.card
    BY <1>2
  <2> QED BY <1>3, <1>5, <1>7, <1>10, <2>1, <2>2, <2>3 DEF Matches, Quietly
<1>11. <<k.card, "talk">> \in Touches(k)
  BY <1>3, TouchesByKind
<1>12. talk'[k.card] \in Nat /\ stored'[k.card] \in CardRow
  BY <1>1, <1>3, <1>4, <1>6
<1> QED BY <1>2, <1>3, <1>6, <1>8, <1>9, <1>10, <1>11, <1>12, WriteStep

LEMMA ReplyKeeps ==
  ASSUME PanelInv, NEW k \in calls, NEW save \in BOOLEAN, ServeReply(k, save)
  PROVE  PanelInv'
<1>1. PICK c : c = k.card
  OBVIOUS
<1>2. PICK t : t = talk'[c]
  OBVIOUS
<1>3. PICK new : new = [kind |-> "send", card |-> c, heard |-> k.heard, at |-> "answered",
                        no |-> k.no, answer |-> t, decision |-> k.row.decision]
  OBVIOUS
<1>4. k.kind = "send" /\ k.at = "asked" /\ Writes(k) /\ Effects(Served(k, new), chat) /\ Quiet
        /\ UNCHANGED <<jobs, applyJobs, again>>
        /\ talk' = [talk EXCEPT ![c] = @ + 1]
        /\ stored' = IF save THEN [stored EXCEPT ![c].decision = k.row.decision] ELSE stored
  BY <1>1, <1>2, <1>3 DEF ServeReply, Writes
<1>5. /\ IsRequest(k) /\ CallRight(k) /\ k.heard \in Listeners /\ c \in DOMAIN stored
      /\ stored[c] \in CardRow /\ talk[c] \in Nat /\ k.row \in CardRow
      /\ c \in DOMAIN cards => Matches(c, calls)
  BY <1>1, <1>4, CallKnown DEF IsCall
<1>6. DOMAIN talk = DOMAIN stored /\ UNCHANGED cards
  BY <1>4 DEF PanelInv, Base, PanelTypeOK, Quiet
<1>7. talk'[c] = talk[c] + 1 /\ (\A d \in DOMAIN stored : d # c => talk'[d] = talk[d])
        /\ DOMAIN talk' = DOMAIN talk
  BY <1>4, <1>5, <1>6
<1>8. k.row.decision \in Decision
  BY <1>5 DEF CardRow
<1>9. /\ DOMAIN stored' = DOMAIN stored /\ stored'[c] \in CardRow
      /\ stored'[c].reaction = stored[c].reaction
      /\ stored'[c].decision = stored[c].decision \/ stored'[c].decision = k.row.decision
      /\ \A d \in DOMAIN stored : d # c => stored'[d] = stored[d]
  BY <1>4, <1>5, <1>8 DEF CardRow
<1>10. doubt \subseteq doubt'
  <2>1. PICK K : K = Served(k, new)
    OBVIOUS
  <2>2. PICK ch : ch = chat
    OBVIOUS
  <2>3. Settle(K, ch, {})
    BY <1>4, <2>1, <2>2 DEF Effects
  <2> QED BY <2>3, DoubtGrows
<1>11. k.heard # "nobody" /\ Quietly(c, "decision")' =>
         stored'[c].decision = stored[c].decision /\ k.row.decision = stored[c].decision
  BY <1>1, <1>4, <1>5, <1>9, <1>10 DEF CallRight, IsTrue, Quietly
<1>12. IsCall(new)'
  BY <1>2, <1>3, <1>5, <1>7, <1>8, <1>9 DEF IsCall, IsRequest, Kinds
<1>13. CallRight(new)'
  <2>1. k.heard # "nobody" => IsTrue(new)'
    BY <1>2, <1>3, <1>11 DEF IsTrue, Quietly
  <2>2. IsHarmless(k) => IsHarmless(new)'
    BY <1>1, <1>3, <1>4, <1>6, <1>10, StaysHarmless
  <2> QED BY <1>3, <1>5, <2>1, <2>2 DEF CallRight
<1>14. <<c, "talk">> \in Touches(k) /\ <<c, "decision">> \in Touches(k)
  BY <1>1, <1>4, TouchesByKind
<1>15. ASSUME NEW K, new \in K, \A m \in calls : m # k => m \in K, c \in DOMAIN cards
       PROVE  Matches(c, K)'
  <2>1. \A m \in calls : m.kind \in {"decide", "rate"} => m \in K
    BY <1>4, <1>15
  <2>2. Matches(c, calls)
    BY <1>5, <1>15
  <2>3. new.kind = "send" /\ new.card = c
    BY <1>3
  <2>4. Quietly(c, "decision")' => stored'[c].decision = stored[c].decision
    BY <1>1, <1>4, <1>10, <1>11, <1>14, <1>15, UnheardInDoubt DEF Quietly
  <2> QED BY <1>6, <1>9, <1>10, <1>15, <2>1, <2>2, <2>3, <2>4 DEF Matches, Quietly
<1>16. talk'[c] \in Nat
  BY <1>5, <1>7
<1>17. new.kind = k.kind /\ new.card = k.card /\ new.heard = k.heard
  BY <1>1, <1>3, <1>4
<1> QED BY <1>1, <1>4, <1>7, <1>9, <1>12, <1>13, <1>14, <1>15, <1>16, <1>17, WriteStep

LEMMA DecidingKeeps ==
  ASSUME PanelInv, NEW k \in calls, ServeDecide(k)
  PROVE  PanelInv'
<1>1. PICK c : c = k.card
  OBVIOUS
<1>2. PICK d : d = stored'[c].decision
  OBVIOUS
<1>3. PICK new : new = [kind |-> "decide", card |-> c, heard |-> k.heard, at |-> "answered",
                        no |-> k.no, wish |-> k.wish, answer |-> d]
  OBVIOUS
<1>4. PICK w : w = [k.wish EXCEPT !.path = IF @ = Nothing THEN stored[c].decision.path ELSE @]
  OBVIOUS
<1>5. k.kind = "decide" /\ k.at = "sent" /\ Writes(k) /\ Effects(Served(k, new), chat) /\ Quiet
        /\ UNCHANGED <<talk, jobs, applyJobs, again>>
        /\ stored' = [stored EXCEPT ![c].decision = w]
  BY <1>1, <1>2, <1>3, <1>4 DEF ServeDecide, Writes
<1>6. /\ IsRequest(k) /\ CallRight(k) /\ k.heard \in Listeners /\ c \in DOMAIN stored
      /\ stored[c] \in CardRow /\ talk[c] \in Nat /\ k.wish \in Decision /\ k.wish.path # Nothing
      /\ c \in DOMAIN cards => Matches(c, calls)
  BY <1>1, <1>5, CallKnown DEF IsCall
<1>7. w = k.wish
  BY <1>4, <1>6 DEF Decision
<1>8. DOMAIN talk = DOMAIN stored /\ UNCHANGED cards
  BY <1>5 DEF PanelInv, Base, PanelTypeOK, Quiet
<1>9. /\ DOMAIN stored' = DOMAIN stored /\ stored'[c] \in CardRow
      /\ stored'[c].reaction = stored[c].reaction
      /\ stored'[c].decision = k.wish /\ d = k.wish
      /\ \A x \in DOMAIN stored : x # c => stored'[x] = stored[x]
  BY <1>2, <1>5, <1>6, <1>7 DEF CardRow
<1>10. doubt \subseteq doubt'
  <2>1. PICK K : K = Served(k, new)
    OBVIOUS
  <2>2. PICK ch : ch = chat
    OBVIOUS
  <2>3. Settle(K, ch, {})
    BY <1>5, <2>1, <2>2 DEF Effects
  <2> QED BY <2>3, DoubtGrows
<1>11. IsCall(new)'
  BY <1>3, <1>6, <1>9 DEF IsCall, IsRequest, Kinds
<1>12. CallRight(new)'
  <2>1. k.heard # "nobody" => IsTrue(new)'
    BY <1>1, <1>3, <1>5, <1>6, <1>8, <1>9, <1>10 DEF IsTrue, Quietly, CallRight
  <2>2. IsHarmless(k) => IsHarmless(new)'
    BY <1>1, <1>3, <1>5, <1>8, <1>10, StaysHarmless
  <2> QED BY <1>3, <1>6, <2>1, <2>2 DEF CallRight
<1>13. <<c, "decision">> \in Touches(k)
  BY <1>1, <1>5, TouchesByKind
<1>14. ASSUME NEW K, new \in K, \A m \in calls : m # k => m \in K, c \in DOMAIN cards
       PROVE  Matches(c, K)'
  <2>1. \A m \in calls : m.kind \in {"send", "rate"} => m \in K
    BY <1>5, <1>14
  <2>2. Matches(c, calls)
    BY <1>6, <1>14
  <2>3. new.kind = "decide" /\ new.card = c /\ new.at = "answered"
    BY <1>3
  <2> QED BY <1>5, <1>8, <1>9, <1>10, <1>14, <2>1, <2>2, <2>3 DEF Matches, Quietly
<1>15. talk'[c] \in Nat /\ DOMAIN talk' = DOMAIN talk /\ (\A x \in DOMAIN stored : talk'[x] = talk[x])
  BY <1>5, <1>6
<1>16. new.kind = k.kind /\ new.card = k.card /\ new.heard = k.heard
  BY <1>1, <1>3, <1>5
<1> QED BY <1>1, <1>5, <1>9, <1>11, <1>12, <1>13, <1>14, <1>15, <1>16, WriteStep

LEMMA RatedKeeps ==
  ASSUME PanelInv, NEW k \in calls, ServeRate(k)
  PROVE  PanelInv'
<1>1. PICK c : c = k.card
  OBVIOUS
<1>2. PICK new : new = [k EXCEPT !.at = "answered"]
  OBVIOUS
<1>3. k.kind = "rate" /\ k.at = "sent" /\ Writes(k) /\ Effects(Served(k, new), chat) /\ Quiet
        /\ UNCHANGED <<talk, jobs, applyJobs, again>>
        /\ stored' = [stored EXCEPT ![c].reaction = k.reaction]
  BY <1>1, <1>2 DEF ServeRate, Writes
<1>4. /\ IsRequest(k) /\ CallRight(k) /\ k.heard \in Listeners /\ c \in DOMAIN stored
      /\ stored[c] \in CardRow /\ talk[c] \in Nat /\ k.reaction \in {"good", "bad"}
      /\ c \in DOMAIN cards => Matches(c, calls)
  BY <1>1, <1>3, CallKnown DEF IsCall
<1>5. DOMAIN talk = DOMAIN stored /\ UNCHANGED cards
  BY <1>3 DEF PanelInv, Base, PanelTypeOK, Quiet
<1>6. /\ DOMAIN stored' = DOMAIN stored /\ stored'[c] \in CardRow
      /\ stored'[c].decision = stored[c].decision
      /\ stored'[c].reaction = k.reaction
      /\ \A x \in DOMAIN stored : x # c => stored'[x] = stored[x]
  BY <1>3, <1>4 DEF CardRow
<1>7. doubt \subseteq doubt'
  <2>1. PICK K : K = Served(k, new)
    OBVIOUS
  <2>2. PICK ch : ch = chat
    OBVIOUS
  <2>3. Settle(K, ch, {})
    BY <1>3, <2>1, <2>2 DEF Effects
  <2> QED BY <2>3, DoubtGrows
<1>8. /\ new.kind = "rate" /\ new.card = c /\ new.heard = k.heard /\ new.at = "answered"
      /\ new.reaction = k.reaction /\ IsRequest(new)
  BY <1>1, <1>2, <1>3, <1>4 DEF IsRequest
<1>9. IsCall(new)'
  BY <1>4, <1>6, <1>8 DEF IsCall
<1>10. CallRight(new)'
  <2>1. IsTrue(new)'
    BY <1>6, <1>8 DEF IsTrue
  <2>2. IsHarmless(k) => IsHarmless(new)'
    BY <1>1, <1>3, <1>5, <1>7, <1>8, StaysHarmless
  <2> QED BY <1>4, <1>8, <2>1, <2>2 DEF CallRight
<1>11. <<c, "reaction">> \in Touches(k)
  BY <1>1, <1>3, TouchesByKind
<1>12. ASSUME NEW K, new \in K, \A m \in calls : m # k => m \in K, c \in DOMAIN cards
       PROVE  Matches(c, K)'
  <2>1. \A m \in calls : m.kind \in {"send", "decide"} => m \in K
    BY <1>3, <1>12
  <2>2. Matches(c, calls)
    BY <1>4, <1>12
  <2> QED BY <1>3, <1>5, <1>6, <1>7, <1>8, <1>12, <2>1, <2>2 DEF Matches, Quietly
<1>13. talk'[c] \in Nat /\ DOMAIN talk' = DOMAIN talk /\ (\A x \in DOMAIN stored : talk'[x] = talk[x])
  BY <1>3, <1>4
<1>14. new.kind = k.kind /\ new.card = k.card
  BY <1>1, <1>3, <1>8
<1> QED BY <1>1, <1>3, <1>6, <1>8, <1>9, <1>10, <1>11, <1>12, <1>13, <1>14, WriteStep

-----------------------------------------------------------------------------
\* Jobs end.

LEMMA LatestExists ==
  JobsInv => Latest \in Reviews /\ jobs[Latest] # "none"
               /\ \A i \in Reviews : i > Latest => jobs[i] = "none"
BY DEF JobsInv, Latest

\* Rows that were there stay as they are when a review adds its cards.
LEMMA NewRowsKeep ==
  ASSUME PanelInv, PanelTypeOK', JobsInv',
         UNCHANGED <<cards, modal, reviewing, applying, seen, calls, doubt>>, again \subseteq again',
         DOMAIN stored \subseteq DOMAIN stored',
         \A c \in DOMAIN stored : stored'[c] = stored[c] /\ talk'[c] = talk[c]
  PROVE  PanelInv'
<1>1. ASSUME NEW k \in calls
      PROVE  IsCall(k)' /\ CallRight(k)'
  <2>1. IsCall(k) /\ CallRight(k)
    BY CallKnown
  <2>2. IsCall(k)'
    BY <2>1 DEF IsCall
  <2>3. IsTrue(k) => IsTrue(k)'
    <3>1. k.kind # "list" => k.card \in DOMAIN stored
      BY <2>1 DEF IsCall
    <3>2. k.kind = "list" /\ k.at = "answered" => DOMAIN k.answer \subseteq DOMAIN stored
      BY <2>1 DEF IsCall
    <3> QED BY <3>1, <3>2 DEF IsTrue, Quietly
  <2>4. IsHarmless(k) => IsHarmless(k)'
    BY DEF IsHarmless, Quietly
  <2> QED BY <2>1, <2>2, <2>3, <2>4 DEF CallRight
<1>2. \A c \in DOMAIN cards : Matches(c, calls) => Matches(c, calls)'
  BY DEF Matches, Quietly, PanelInv, Base, PanelTypeOK
<1>3. CardsRight(calls)'
  BY <1>2 DEF CardsRight, PanelInv, ShownInv
<1>4. Shapes' /\ ShownInv'
  BY <1>1, <1>3 DEF Shapes, ShownInv, PanelInv
<1>5. ReloadInv'
  BY DEF ReloadInv, PanelInv, Base
<1> QED BY <1>4, <1>5 DEF PanelInv, Base

LEMMA ReviewEndsKeeps ==
  ASSUME PanelInv, NEW j \in Reviews, NEW S \in SUBSET Findings,
         NEW status \in {"succeeded", "failed"}, ReviewJobEnds(j, status, S)
  PROVE  PanelInv'
<1>2. PICK new : new = IF status = "succeeded" THEN {j} \X S ELSE {}
  OBVIOUS
<1>3. /\ jobs[j] \in {"queued", "failed"} /\ jobs' = [jobs EXCEPT ![j] = status]
      /\ stored' = [c \in DOMAIN stored \cup new |-> IF c \in new THEN NewCardRow ELSE stored[c]]
      /\ talk' = [c \in DOMAIN talk \cup new |-> IF c \in new THEN 1 ELSE talk[c]]
      /\ UNCHANGED <<cards, selected, modal, reviewing, applying, seen, deeds, applyJobs, again,
                     chat, calls, doubt>>
  BY <1>2 DEF ReviewJobEnds, Quiet
<1>4. jobs \in [Reviews -> {"none", "queued", "succeeded", "failed"}]
  BY DEF PanelInv, Base, PanelTypeOK
<1>5. NewCardRow \in CardRow /\ new \subseteq CardIds
  BY <1>2, <1>4 DEF NewCardRow, CardRow, Decision, NoNote, Note, CardIds
<1>6. \A c \in DOMAIN stored : c \notin new
  BY <1>2, <1>3 DEF PanelInv, Base, JobsInv
<1>7. \A c \in DOMAIN stored : stored'[c] = stored[c] /\ talk'[c] = talk[c]
  BY <1>3, <1>6 DEF PanelInv, Base, PanelTypeOK
<1>8. DOMAIN stored \subseteq DOMAIN stored'
  BY <1>3
<1>9. PanelTypeOK'
  <2>1. \A c \in DOMAIN stored' : c \in CardIds /\ stored'[c] \in CardRow
    BY <1>3, <1>5 DEF PanelInv, Base, PanelTypeOK
  <2>2. DOMAIN talk' = DOMAIN stored' /\ \A c \in DOMAIN talk' : talk'[c] \in Nat
    BY <1>3 DEF PanelInv, Base, PanelTypeOK
  <2>3. jobs' \in [Reviews -> {"none", "queued", "succeeded", "failed"}]
    BY <1>3, <1>4
  <2>4. \A c \in DOMAIN cards' : c \in DOMAIN stored' /\ cards'[c] \in ShownCard
    BY <1>3, <1>8 DEF PanelInv, Base, PanelTypeOK
  <2> QED BY <1>3, <2>1, <2>2, <2>3, <2>4 DEF PanelInv, Base, PanelTypeOK
<1>10. JobsInv'
  <2>1. \E r \in Reviews : jobs'[r] # "none" /\ \A i \in Reviews : i > r => jobs'[i] = "none"
    <3>1. PICK L \in Reviews : jobs[L] # "none" /\ \A i \in Reviews : i > L => jobs[i] = "none"
      BY DEF PanelInv, Base, JobsInv
    <3>2. jobs'[L] # "none"
      BY <1>3, <1>4, <3>1
    <3>3. ASSUME NEW i \in Reviews, i > L
          PROVE  jobs'[i] = "none"
      <4>1. jobs[i] = "none"
        BY <3>1, <3>3
      <4>2. i # j
        BY <1>3, <4>1
      <4> QED BY <1>3, <1>4, <4>1, <4>2
    <3> QED BY <3>2, <3>3
  <2>2. \A c \in DOMAIN stored' : jobs'[c[1]] = "succeeded"
    <3>1. TAKE c \in DOMAIN stored'
    <3>2. CASE c \in new
      BY <1>2, <1>3, <1>4, <3>2
    <3>3. CASE c \in DOMAIN stored
      BY <1>3, <1>4, <3>3 DEF PanelInv, Base, JobsInv
    <3> QED BY <1>3, <3>2, <3>3
  <2>3. ApplyInv'
    BY <1>3 DEF PanelInv, Base, JobsInv, ApplyInv, Applied, ApplyJob
  <2>4. (\E r \in Reviews : jobs[r] # "none" /\ \A i \in Reviews : i > r => jobs[i] = "none")'
    BY <2>1
  <2> QED BY <2>2, <2>3, <2>4 DEF JobsInv
<1> QED BY <1>3, <1>7, <1>8, <1>9, <1>10, NewRowsKeep

LEMMA JobsOfList ==
  ASSUME NEW Job, NEW list \in Seq(Job), NEW n \in DOMAIN list
  PROVE  list[n] \in Job
OBVIOUS

\* An apply job gets another status: only a success of it may be lost.
LEMMA StatusOfApplication ==
  ASSUME PanelInv, NEW n \in DOMAIN applyJobs, NEW status \in {"queued", "succeeded", "failed"},
         applyJobs[n].status # "asked", applyJobs' = [applyJobs EXCEPT ![n].status = status],
         again \subseteq again', again' \subseteq Reviews,
         applyJobs[n].status = "succeeded" => applyJobs[n].of \in again',
         UNCHANGED <<cards, selected, modal, reviewing, applying, seen, deeds, stored, talk, jobs,
                     chat, calls, doubt>>
  PROVE  PanelInv'
<1> DEFINE Job == [status : {"asked", "queued", "succeeded", "failed"}, of : Reviews]
<1>1. applyJobs \in Seq(Job)
  BY DEF PanelInv, Base, PanelTypeOK
<1>2. PICK old : old = applyJobs[n]
  OBVIOUS
<1>3. PICK new : new = [old EXCEPT !.status = status]
  OBVIOUS
<1>4. old \in Job
  BY <1>1, <1>2, JobsOfList
<1>5. new \in Job /\ new.of = old.of /\ new.status = status
  BY <1>3, <1>4
<1>6. applyJobs' = [applyJobs EXCEPT ![n] = new]
  BY <1>2, <1>3
<1> HIDE DEF Job
<1>7. applyJobs' \in Seq(Job) /\ DOMAIN applyJobs' = DOMAIN applyJobs
        /\ Len(applyJobs') = Len(applyJobs)
  BY <1>1, <1>5, <1>6
<1>8. \A m \in DOMAIN applyJobs : applyJobs'[m] = IF m = n THEN new ELSE applyJobs[m]
  BY <1>1, <1>6
<1>9. PanelTypeOK'
  BY <1>7 DEF PanelInv, Base, PanelTypeOK, Job
<1>10. ASSUME NEW r \in Applied
       PROVE  r \in Applied' \cup again'
  <2>1. PICK m \in DOMAIN applyJobs : applyJobs[m].status = "succeeded" /\ applyJobs[m].of = r
    BY DEF Applied
  <2>2. CASE m = n
    BY <2>1, <2>2
  <2>3. CASE m # n
    BY <1>7, <1>8, <2>1, <2>3 DEF Applied
  <2> QED BY <2>2, <2>3
<1>11. ApplyInv'
  <2>1. seen' \subseteq Applied' \cup again'
    BY <1>10 DEF PanelInv, Base, JobsInv, ApplyInv
  <2>2. applying' = "creating" => applyJobs' # << >> /\ ApplyJob'.status = "asked"
    <3>1. SUFFICES ASSUME applying = "creating"
                   PROVE  applyJobs' # << >> /\ ApplyJob'.status = "asked"
      OBVIOUS
    <3>2. applyJobs # << >> /\ applyJobs[Len(applyJobs)].status = "asked"
      BY <3>1 DEF PanelInv, Base, JobsInv, ApplyInv, ApplyJob
    <3>3. Len(applyJobs) \in DOMAIN applyJobs /\ Len(applyJobs) # n
      BY <1>1, <3>2
    <3>4. applyJobs'[Len(applyJobs)] = applyJobs[Len(applyJobs)]
      BY <1>8, <3>3
    <3>5. applyJobs' # << >>
      BY <1>7, <3>3
    <3> QED BY <1>7, <3>2, <3>4, <3>5 DEF ApplyJob
  <2>3. applying' = "polling" => applyJobs' # << >>
    BY <1>1, <1>7 DEF PanelInv, Base, JobsInv, ApplyInv
  <2> QED BY <2>1, <2>2, <2>3 DEF ApplyInv
<1>12. JobsInv'
  BY <1>11 DEF PanelInv, Base, JobsInv
<1> QED BY <1>9, <1>12, NewRowsKeep

LEMMA ApplicationEndsKeeps ==
  ASSUME PanelInv, NEW n \in DOMAIN applyJobs, NEW status \in {"succeeded", "failed"},
         ApplyJobEnds(n, status)
  PROVE  PanelInv'
<1>1. again \subseteq Reviews
  BY DEF PanelInv, Base, PanelTypeOK
<1> QED BY <1>1, StatusOfApplication DEF ApplyJobEnds, Quiet

LEMMA ApplicationAgainKeeps ==
  ASSUME PanelInv, NEW n \in DOMAIN applyJobs, ApplyJobAgain(n)
  PROVE  PanelInv'
<1>1. again \subseteq Reviews
        /\ applyJobs \in Seq([status : {"asked", "queued", "succeeded", "failed"}, of : Reviews])
  BY DEF PanelInv, Base, PanelTypeOK
<1>2. applyJobs[n] \in [status : {"asked", "queued", "succeeded", "failed"}, of : Reviews]
  BY <1>1, JobsOfList
<1>3. applyJobs[n].of \in Reviews
  BY <1>2
<1> QED BY <1>1, <1>3, StatusOfApplication DEF ApplyJobAgain, Quiet

-----------------------------------------------------------------------------
\* Answers arrive, or are lost.

LEMMA DraftCleared == ASSUME NEW ch \in ChatState PROVE [ch EXCEPT !.drafting = FALSE] \in ChatState
BY DEF ChatState

LEMMA PendingCleared == ASSUME NEW ch \in ChatState PROVE [ch EXCEPT !.pending = Nothing] \in ChatState
BY DEF ChatState

LEMMA RefreshTyped ==
  ASSUME PanelInv, NEW k, AfterRefresh(k)
  PROVE  reviewing' \in {"idle", "creating", "polling", "refreshing"}
           /\ (reviewing = "idle" => reviewing' = "idle")
BY DEF PanelInv, Base, PanelTypeOK, AfterRefresh

\* A call ends without changing a card.
LEMMA LeaveStep ==
  ASSUME PanelInv, NEW k \in calls, NEW ch \in ChatState, NEW lost,
         lost \subseteq CardIds \X Aspects, Settle(calls \ {k}, ch, lost),
         ~Writes(k) \/ Touches(k) \subseteq lost \/ k.heard = "nobody" \/ k.card \notin DOMAIN cards,
         UNCHANGED cards, Still,
         reviewing' \in {"idle", "creating", "polling", "refreshing"},
         reviewing = "idle" => reviewing' = "idle"
  PROVE  PanelInv'
<1>1. PICK K : K = calls \ {k}
  OBVIOUS
<1>2. UNCHANGED <<cards, stored, talk, jobs, applyJobs, again, seen, selected, modal, applying, deeds>>
  BY DEF Still, reviewServerVars
<1>3. Outer'
  BY <1>2 DEF PanelInv, Base, PanelTypeOK, Outer
<1>4. JobsInv'
  BY <1>2, JobsStay DEF PanelInv, Base
<1>5. Settle(K, ch, lost)
  BY <1>1
<1>6. \A m \in K : m \in calls
  BY <1>1
<1>7. \A m \in calls :
        \/ m \in K \/ ~Writes(m) \/ Touches(m) \subseteq lost
        \/ m.heard = "nobody" \/ m.card \notin DOMAIN cards
  BY <1>1
<1>8. /\ PanelTypeOK' /\ Shapes' /\ ShownInv'
      /\ DOMAIN cards' = {} /\ (\A m \in K : m.heard = "nobody") =>
           \A m \in calls' : m.heard = "nobody"
  BY <1>2, <1>3, <1>5, <1>6, <1>7, FrameStep
<1> QED BY <1>2, <1>4, <1>6, <1>8, AnytimeStep

LEMMA FailingKeeps ==
  ASSUME PanelInv, NEW k \in calls, CallFails(k)
  PROVE  PanelInv'
<1>1. PICK lost : lost = IF Writes(k) THEN Touches(k) ELSE {}
  OBVIOUS
<1>2. PICK ch : ch = IF k.kind = "decide" THEN AfterDecision(k)
                     ELSE IF k.kind = "draft" /\ k.heard = "chat" THEN [chat EXCEPT !.drafting = FALSE]
                     ELSE chat
  OBVIOUS
<1>3. chat \in ChatState
  BY ChatTyped
<1>4. ch \in ChatState
  BY <1>2, <1>3, DraftCleared, PendingCleared DEF AfterDecision
<1>5. lost \subseteq CardIds \X Aspects
  BY <1>1, CallKnown, TouchesOfCards
<1>6. Settle(calls \ {k}, ch, lost) /\ UNCHANGED cards /\ AfterRefresh(k) /\ Still
  BY <1>1, <1>2 DEF CallFails
<1>7. ~Writes(k) \/ Touches(k) \subseteq lost
  BY <1>1
<1> QED BY <1>4, <1>5, <1>6, <1>7, RefreshTyped, LeaveStep

LEMMA DraftKeeps ==
  ASSUME PanelInv, NEW k \in calls, DraftArrives(k)
  PROVE  PanelInv'
<1>1. PICK ch : ch = IF k.heard = "chat"
                     THEN [chat EXCEPT !.note = [card |-> k.card, path |-> k.path], !.drafting = FALSE]
                     ELSE chat
  OBVIOUS
<1>2. k.kind = "draft" /\ ~Writes(k) /\ k.card \in CardIds /\ k.path \in Paths
  BY CallKnown DEF DraftArrives, Writes, IsCall
<1>3. [card |-> k.card, path |-> k.path] \in Note
  BY <1>2 DEF Note
<1>4. ch \in ChatState
  BY <1>1, <1>3, ChatTyped DEF ChatState
<1>5. Settle(calls \ {k}, ch, {}) /\ UNCHANGED <<cards, reviewing>> /\ Still
  BY <1>1 DEF DraftArrives, Effects
<1>6. reviewing \in {"idle", "creating", "polling", "refreshing"}
  BY DEF PanelInv, Base, PanelTypeOK
<1> QED BY <1>2, <1>4, <1>5, <1>6, LeaveStep

\* The answer to call k makes its card new, if somebody listens and it is there.
LEMMA ChangeStep ==
  ASSUME PanelInv, NEW k \in calls, k.kind \in {"chats", "send", "decide", "rate"}, NEW new,
         NEW ch \in ChatState, Change(k, new), Still, UNCHANGED reviewing, Settle(calls \ {k}, ch, {}),
         k.heard # "nobody" /\ k.card \in DOMAIN cards =>
           /\ new \in ShownCard
           /\ IF <<k.card, "decision">> \in Touches(k)
              THEN Quietly(k.card, "decision") => new.decision = stored[k.card].decision
              ELSE new.decision = cards[k.card].decision
           /\ IF <<k.card, "reaction">> \in Touches(k)
              THEN Quietly(k.card, "reaction") => new.reaction = stored[k.card].reaction
              ELSE new.reaction = cards[k.card].reaction
           /\ IF <<k.card, "talk">> \in Touches(k)
              THEN Quietly(k.card, "talk") => new.history = [confirmed |-> talk[k.card], own |-> 0]
              ELSE new.history = cards[k.card].history /\ new.loaded = cards[k.card].loaded
  PROVE  PanelInv'
<1>1. PICK c : c = k.card
  OBVIOUS
<1>2. PICK K : K = calls \ {k}
  OBVIOUS
<1>3. UNCHANGED <<stored, talk, jobs, applyJobs, again, seen, selected, modal, applying, deeds,
                  reviewing>>
  BY DEF Still, reviewServerVars
<1>4. reviewing \in {"idle", "creating", "polling", "refreshing"}
  BY DEF PanelInv, Base, PanelTypeOK
<1>5. CASE k.heard = "nobody" \/ c \notin DOMAIN cards
  <2>1. UNCHANGED cards
    BY <1>1, <1>5 DEF Change
  <2>2. k.heard = "nobody" \/ k.card \notin DOMAIN cards
    BY <1>1, <1>5
  <2>3. PICK lost : lost = {} /\ lost \subseteq CardIds \X Aspects
    OBVIOUS
  <2>4. /\ Settle(calls \ {k}, ch, lost)
        /\ reviewing' \in {"idle", "creating", "polling", "refreshing"}
        /\ reviewing = "idle" => reviewing' = "idle"
    BY <1>3, <1>4, <2>3
  <2> QED BY <2>1, <2>2, <2>3, <2>4, LeaveStep
<1>6. CASE k.heard # "nobody" /\ c \in DOMAIN cards
  <2>1. cards' = [cards EXCEPT ![c] = new] /\ new \in ShownCard
    BY <1>1, <1>6 DEF Change
  <2>2. /\ DOMAIN cards' = DOMAIN cards /\ cards'[c] = new
        /\ \A d \in DOMAIN cards : d # c => cards'[d] = cards[d]
    BY <1>6, <2>1
  <2>3. Outer'
    BY <1>3, <2>1, <2>2 DEF PanelInv, Base, PanelTypeOK, Outer
  <2>4. JobsInv'
    BY <1>3, JobsStay DEF PanelInv, Base
  <2>5. Settle(K, ch, {})
    BY <1>2
  <2>6. doubt \subseteq doubt'
    BY <2>5, DoubtGrows
  <2>7. Matches(c, K)'
    <3>1. Matches(c, calls)
      BY <1>6 DEF PanelInv, ShownInv, CardsRight
    <3>2. k.kind # "decide" <=> <<c, "decision">> \notin Touches(k) \/ k.kind = "send"
      BY <1>1, TouchesByKind
    <3>3. k.kind = "rate" <=> <<c, "reaction">> \in Touches(k)
      BY <1>1, TouchesByKind
    <3>4. k.kind \in {"chats", "send"} <=> <<c, "talk">> \in Touches(k)
      BY <1>1, TouchesByKind
    <3>5. Quietly(c, "decision")' /\ (\A m \in K : m.kind = "decide" => m.at # "answered" \/ m.card # c)
            => cards'[c].decision = stored'[c].decision
      BY <1>1, <1>2, <1>3, <1>6, <2>2, <2>6, <3>1, <3>2 DEF Matches, Quietly
    <3>6. Quietly(c, "reaction")' /\ (\A m \in K : m.kind = "rate" => m.at # "answered" \/ m.card # c)
            => cards'[c].reaction = stored'[c].reaction
      BY <1>1, <1>2, <1>3, <1>6, <2>2, <2>6, <3>1, <3>3 DEF Matches, Quietly
    <3>7. Quietly(c, "talk")' /\ cards'[c].loaded /\ (\A m \in K : m.kind = "send" => m.card # c)
            => cards'[c].history = [confirmed |-> talk'[c], own |-> 0]
      BY <1>1, <1>2, <1>3, <1>6, <2>2, <2>6, <3>1, <3>4 DEF Matches, Quietly
    <3> QED BY <3>5, <3>6, <3>7 DEF Matches
  <2>8. k.card \in DOMAIN cards /\ k.kind # "list" /\ k.heard # "nobody"
    BY <1>1, <1>6
  <2>9. /\ PanelTypeOK' /\ Shapes' /\ ShownInv'
        /\ DOMAIN cards' = {} /\ (\A m \in K : m.heard = "nobody") =>
             \A m \in calls' : m.heard = "nobody"
    BY <1>1, <1>2, <1>3, <1>6, <2>2, <2>3, <2>5, <2>7, <2>8, ArriveStep
  <2>10. (\A m \in calls : m.heard = "nobody") => \A m \in K : m.heard = "nobody"
    BY <1>2
  <2> QED BY <1>3, <2>2, <2>4, <2>9, <2>10, AnytimeStep
<1> QED BY <1>5, <1>6

LEMMA ConversationArrivalKeeps ==
  ASSUME PanelInv, NEW k \in calls, ChatsArrive(k)
  PROVE  PanelInv'
<1>1. PICK old : old = cards[k.card]
  OBVIOUS
<1>2. PICK new : new = [old EXCEPT !.history = [confirmed |-> k.answer, own |-> 0], !.loaded = TRUE]
  OBVIOUS
<1>3. PICK ch : ch = chat
  OBVIOUS
<1>4. k.kind = "chats" /\ k.at = "answered" /\ Change(k, new) /\ Still /\ UNCHANGED reviewing
        /\ Settle(calls \ {k}, ch, {}) /\ ch \in ChatState
  BY <1>1, <1>2, <1>3, ChatTyped DEF ChatsArrive, Arrived, Effects
<1>5. k.answer \in Nat /\ CallRight(k) /\ (k.card \in DOMAIN cards => old \in ShownCard)
  BY <1>1, <1>4, CallKnown DEF IsCall
<1>6. [confirmed |-> k.answer, own |-> 0] \in CardHistory
  BY <1>5 DEF CardHistory
<1>7. k.card \in DOMAIN cards =>
        /\ new \in ShownCard /\ new.decision = old.decision /\ new.reaction = old.reaction
        /\ new.history = [confirmed |-> k.answer, own |-> 0]
  BY <1>2, <1>5, <1>6 DEF ShownCard
<1>8. k.heard # "nobody" /\ Quietly(k.card, "talk") => k.answer = talk[k.card]
  BY <1>4, <1>5 DEF CallRight, IsTrue
<1>9. <<k.card, "decision">> \notin Touches(k) /\ <<k.card, "reaction">> \notin Touches(k)
        /\ <<k.card, "talk">> \in Touches(k)
  BY <1>4, TouchesByKind
<1> QED BY <1>1, <1>4, <1>7, <1>8, <1>9, ChangeStep

LEMMA RatingArrivalKeeps ==
  ASSUME PanelInv, NEW k \in calls, RatingArrives(k)
  PROVE  PanelInv'
<1>1. PICK old : old = cards[k.card]
  OBVIOUS
<1>2. PICK new : new = [old EXCEPT !.reaction = k.reaction]
  OBVIOUS
<1>3. PICK ch : ch = chat
  OBVIOUS
<1>4. k.kind = "rate" /\ k.at = "answered" /\ Change(k, new) /\ Still /\ UNCHANGED reviewing
        /\ Settle(calls \ {k}, ch, {}) /\ ch \in ChatState
  BY <1>1, <1>2, <1>3, ChatTyped DEF RatingArrives, Arrived, Effects
<1>5. k.reaction \in {"good", "bad"} /\ CallRight(k) /\ (k.card \in DOMAIN cards => old \in ShownCard)
  BY <1>1, <1>4, CallKnown DEF IsCall
<1>6. k.card \in DOMAIN cards =>
        /\ new \in ShownCard /\ new.decision = old.decision /\ new.reaction = k.reaction
        /\ new.history = old.history /\ new.loaded = old.loaded
  BY <1>2, <1>5 DEF ShownCard
<1>7. k.heard # "nobody" /\ Quietly(k.card, "reaction") => k.reaction = stored[k.card].reaction
  BY <1>4, <1>5 DEF CallRight, IsTrue
<1>8. <<k.card, "decision">> \notin Touches(k) /\ <<k.card, "reaction">> \in Touches(k)
        /\ <<k.card, "talk">> \notin Touches(k)
  BY <1>4, TouchesByKind
<1> QED BY <1>1, <1>4, <1>6, <1>7, <1>8, ChangeStep

LEMMA ReplyArrivalKeeps ==
  ASSUME PanelInv, NEW k \in calls, ReplyArrives(k)
  PROVE  PanelInv'
<1>1. PICK c : c = k.card
  OBVIOUS
<1>2. PICK old : old = cards[c]
  OBVIOUS
<1>3. PICK d : d = [old.decision EXCEPT
                      !.resolved = k.decision.resolved,
                      !.path = IF k.decision.path = Nothing THEN @ ELSE k.decision.path]
  OBVIOUS
<1>4. PICK h : h = [confirmed |-> k.answer, own |-> 0]
  OBVIOUS
<1>5. PICK new : new = [old EXCEPT !.history = h, !.loaded = TRUE,
                                   !.decision.resolved = k.decision.resolved,
                                   !.decision.path = IF k.decision.path = Nothing THEN @
                                                     ELSE k.decision.path]
  OBVIOUS
<1>6. PICK ch : ch = chat
  OBVIOUS
<1>7. k.kind = "send" /\ k.at = "answered" /\ Writes(k) /\ Change(k, new) /\ Still
        /\ UNCHANGED reviewing /\ Settle(calls \ {k}, ch, {}) /\ ch \in ChatState
  BY <1>1, <1>2, <1>4, <1>5, <1>6, ChatTyped DEF ReplyArrives, Arrived, Effects, Writes
<1>8. /\ k.answer \in Nat /\ k.decision \in Decision /\ CallRight(k)
      /\ c \in DOMAIN cards => old \in ShownCard /\ Matches(c, calls)
  BY <1>1, <1>2, <1>7, CallKnown DEF IsCall
<1>9. h \in CardHistory
  BY <1>4, <1>8 DEF CardHistory
<1>10. c \in DOMAIN cards => d \in Decision
  BY <1>3, <1>8 DEF ShownCard, Decision
<1>11. c \in DOMAIN cards =>
         /\ new \in ShownCard /\ new.decision = d /\ new.reaction = old.reaction /\ new.history = h
  <2>1. SUFFICES ASSUME c \in DOMAIN cards
                 PROVE  /\ new \in ShownCard /\ new.decision = d
                        /\ new.reaction = old.reaction /\ new.history = h
    OBVIOUS
  <2>2. new = [old EXCEPT !.history = h, !.loaded = TRUE, !.decision = d]
    BY <1>3, <1>5, <1>8, <2>1 DEF ShownCard
  <2> QED BY <1>8, <1>9, <1>10, <2>1, <2>2 DEF ShownCard
<1>12. <<c, "decision">> \in Touches(k) /\ <<c, "reaction">> \notin Touches(k)
         /\ <<c, "talk">> \in Touches(k)
  BY <1>1, <1>7, TouchesByKind
<1>13. ASSUME k.heard # "nobody", c \in DOMAIN cards, Quietly(c, "decision")
       PROVE  d = stored[c].decision
  <2>1. k.decision = stored[c].decision
    BY <1>1, <1>7, <1>8, <1>13 DEF CallRight, IsTrue
  <2>2. ASSUME NEW m \in calls, m.kind = "decide", m.card = c
        PROVE  FALSE
    <3>1. <<c, "decision">> \in Touches(m) /\ m # k
      BY <1>7, <2>2, TouchesByKind
    <3> QED BY <1>7, <1>12, <1>13, <3>1, WriterAlone DEF Quietly
  <2>3. old.decision = stored[c].decision
    BY <1>2, <1>8, <1>13, <2>2 DEF Matches
  <2>4. old.decision \in Decision
    BY <1>8, <1>13 DEF ShownCard
  <2> QED BY <1>3, <2>1, <2>3, <2>4 DEF Decision
<1>14. k.heard # "nobody" /\ Quietly(c, "talk") => k.answer = talk[c]
  BY <1>1, <1>7, <1>8 DEF CallRight, IsTrue
<1> QED BY <1>1, <1>2, <1>4, <1>7, <1>11, <1>12, <1>13, <1>14, ChangeStep

LEMMA DecisionArrivalKeeps ==
  ASSUME PanelInv, NEW k \in calls, DecisionArrives(k)
  PROVE  PanelInv'
<1>1. PICK c : c = k.card
  OBVIOUS
<1>2. PICK old : old = cards[c]
  OBVIOUS
<1>3. PICK d : d = IF k.wish.resolved THEN k.answer ELSE [k.wish EXCEPT !.path = old.decision.path]
  OBVIOUS
<1>4. PICK new : new = [old EXCEPT !.decision = d]
  OBVIOUS
<1>5. PICK ch : ch = AfterDecision(k)
  OBVIOUS
<1>6. ch \in ChatState
  BY <1>5, ChatTyped, PendingCleared DEF AfterDecision
<1>7. k.kind = "decide" /\ k.at = "answered" /\ Change(k, new) /\ Still
        /\ UNCHANGED reviewing /\ Settle(calls \ {k}, ch, {})
  BY <1>1, <1>2, <1>3, <1>4, <1>5 DEF DecisionArrives, Arrived, Effects
<1>8. /\ k.answer \in Decision /\ k.wish \in Decision /\ CallRight(k)
      /\ c \in DOMAIN cards => old \in ShownCard
  BY <1>1, <1>2, <1>7, CallKnown DEF IsCall
<1>9. c \in DOMAIN cards => d \in Decision
  BY <1>3, <1>8 DEF ShownCard, Decision
<1>10. c \in DOMAIN cards =>
         /\ new \in ShownCard /\ new.decision = d /\ new.reaction = old.reaction
         /\ new.history = old.history /\ new.loaded = old.loaded
  BY <1>4, <1>8, <1>9 DEF ShownCard
<1>11. <<c, "decision">> \in Touches(k) /\ <<c, "reaction">> \notin Touches(k)
         /\ <<c, "talk">> \notin Touches(k)
  BY <1>1, <1>7, TouchesByKind
<1>12. ASSUME k.heard # "nobody", c \in DOMAIN cards, Quietly(c, "decision")
       PROVE  d = stored[c].decision
  <2>1. k.answer = stored[c].decision /\ k.wish = stored[c].decision
          /\ (~k.wish.resolved => old.decision.path = k.wish.path)
    BY <1>1, <1>2, <1>7, <1>8, <1>12 DEF CallRight, IsTrue
  <2> QED BY <1>3, <1>8, <2>1 DEF Decision
<1> QED BY <1>1, <1>2, <1>6, <1>7, <1>10, <1>11, <1>12, ChangeStep

LEMMA ListArrivalKeeps ==
  ASSUME PanelInv, NEW k \in calls, ListArrives(k)
  PROVE  PanelInv'
<1>1. PICK ch : ch = chat
  OBVIOUS
<1>2. PICK K : K = calls \ {k}
  OBVIOUS
<1>3. /\ k.kind = "list" /\ k.at = "answered" /\ AfterRefresh(k) /\ Still
      /\ Settle(K, ch, {}) /\ ch \in ChatState /\ ~Writes(k)
      /\ cards' = IF k.heard = "nobody" THEN cards ELSE MapFeedbackCards(k.answer)
  BY <1>1, <1>2, ChatTyped DEF ListArrives, Arrived, Effects, Writes
<1>4. UNCHANGED <<stored, talk, jobs, applyJobs, again, seen, selected, modal, applying, deeds>>
  BY <1>3 DEF Still, reviewServerVars
<1>5. reviewing' \in {"idle", "creating", "polling", "refreshing"}
        /\ (reviewing = "idle" => reviewing' = "idle")
  BY <1>3, RefreshTyped
<1>6. CASE k.heard = "nobody"
  BY <1>2, <1>3, <1>5, <1>6, LeaveStep
<1>7. CASE k.heard # "nobody"
  <2>1. IsCall(k) /\ CallRight(k)
    BY CallKnown
  <2>2. \A c \in DOMAIN k.answer :
           c \in DOMAIN stored /\ c \in CardIds /\ k.answer[c] \in CardRow
    BY <1>3, <2>1 DEF IsCall, PanelInv, Base, PanelTypeOK
  <2>3. DOMAIN cards' = DOMAIN k.answer
    BY <1>3, <1>7 DEF MapFeedbackCards
  <2>4. ASSUME NEW c \in DOMAIN k.answer
        PROVE  /\ cards'[c].decision = k.answer[c].decision
               /\ cards'[c].reaction = k.answer[c].reaction
               /\ IF c \in DOMAIN cards
                  THEN cards'[c].history = cards[c].history /\ cards'[c].loaded = cards[c].loaded
                  ELSE ~cards'[c].loaded
               /\ cards'[c] \in ShownCard
    <3>1. PICK h : h = IF c \in DOMAIN cards THEN cards[c].history
                       ELSE [confirmed |-> 0, own |-> 0]
      OBVIOUS
    <3>2. PICK l : l = (c \in DOMAIN cards /\ cards[c].loaded)
      OBVIOUS
    <3>3. PICK new : new = [decision |-> k.answer[c].decision, reaction |-> k.answer[c].reaction,
                            history |-> h, loaded |-> l]
      OBVIOUS
    <3>4. cards'[c] = new
      BY <1>3, <1>7, <2>4, <3>1, <3>2, <3>3 DEF MapFeedbackCards
    <3>5. c \in DOMAIN cards => cards[c].history \in CardHistory /\ cards[c].loaded \in BOOLEAN
      BY DEF PanelInv, Base, PanelTypeOK, ShownCard
    <3>6. [confirmed |-> 0, own |-> 0] \in CardHistory
      BY DEF CardHistory
    <3>7. h \in CardHistory /\ l \in BOOLEAN
      BY <3>1, <3>2, <3>5, <3>6
    <3>8. c \in DOMAIN cards => l = cards[c].loaded
      BY <3>2, <3>5
    <3>9. k.answer[c].decision \in Decision /\ k.answer[c].reaction \in {Nothing, "good", "bad"}
      BY <2>2, <2>4 DEF CardRow
    <3>10. new \in ShownCard
      BY <3>3, <3>7, <3>9 DEF ShownCard
    <3>11. new.history = h /\ new.loaded = l /\ new.decision = k.answer[c].decision
             /\ new.reaction = k.answer[c].reaction
      BY <3>3
    <3>12. c \notin DOMAIN cards => l = FALSE
      BY <3>2
    <3>13. CASE c \in DOMAIN cards
      BY <3>1, <3>4, <3>8, <3>10, <3>11, <3>13
    <3>14. CASE c \notin DOMAIN cards
      BY <3>4, <3>10, <3>11, <3>12, <3>14
    <3> QED BY <3>13, <3>14
  <2>5. Outer'
    BY <1>4, <1>5, <2>2, <2>3, <2>4 DEF PanelInv, Base, PanelTypeOK, Outer
  <2>6. doubt \subseteq doubt'
    BY <1>3, DoubtGrows
  <2>7. ASSUME NEW m \in calls, m # k, Writes(m), NEW c \in CardIds,
               NEW a \in {"decision", "reaction"}, <<c, a>> \in Touches(m)
        PROVE  <<c, a>> \in doubt'
    BY <1>3, <2>6, <2>7, TouchesByKind, WriterAlone
  <2>8. ASSUME NEW m \in K
        PROVE  IsCall(m)' /\ CallRight(m)'
    <3>1. IsCall(m) /\ CallRight(m) /\ IsRequest(m) /\ m \in calls /\ m # k
            /\ (m.kind # "list" => m.card \in CardIds)
      BY <1>2, CallKnown
    <3>2. IsCall(m)'
      BY <1>4, <3>1 DEF IsCall
    <3>3. m.kind = "decide" => <<m.card, "decision">> \in doubt'
      BY <2>7, <3>1, TouchesByKind DEF Writes
    <3>4. IsTrue(m) => IsTrue(m)'
      BY <1>4, <2>6, <3>3 DEF IsTrue, Quietly
    <3>5. IsHarmless(m) => IsHarmless(m)'
      <4>1. ASSUME IsHarmless(m), Writes(m), NEW c \in DOMAIN cards', NEW a \in Aspects,
                   <<c, a>> \in Touches(m), <<c, a>> \notin doubt'
            PROVE  a = "talk" /\ ~cards'[c].loaded
        <5>1. a = "talk"
          BY <2>2, <2>3, <2>7, <3>1, <4>1 DEF Aspects
        <5> QED BY <2>3, <2>4, <2>6, <4>1, <5>1 DEF IsHarmless, Quietly
      <4> QED BY <4>1 DEF IsHarmless, Quietly
    <3> QED BY <3>1, <3>2, <3>4, <3>5 DEF CallRight
  <2>9. /\ \A c, d \in DOMAIN k.answer : c[1] = d[1]
        /\ \A c \in DOMAIN k.answer :
             /\ (c[1] \in seen => c[1] \in again)
             /\ Quietly(c, "decision") => k.answer[c].decision = stored[c].decision
             /\ Quietly(c, "reaction") => k.answer[c].reaction = stored[c].reaction
    BY <1>3, <1>7, <2>1 DEF CallRight, IsTrue
  <2>10. ASSUME NEW c \in DOMAIN k.answer
         PROVE  Matches(c, K)'
    <3>1. c \in DOMAIN cards => Matches(c, calls)
      BY DEF PanelInv, ShownInv, CardsRight
    <3>2. \A m \in calls : m.kind = "send" => m \in K
      BY <1>2, <1>3
    <3> QED BY <1>4, <2>4, <2>6, <2>9, <2>10, <3>1, <3>2 DEF Matches, Quietly
  <2>11. CardsRight(K)'
    BY <1>4, <2>3, <2>9, <2>10 DEF CardsRight
  <2>12. doubt \subseteq CardIds \X Aspects
    BY DEF PanelInv, Base, PanelTypeOK
  <2>13. PanelTypeOK' /\ Shapes' /\ ShownInv'
    BY <1>3, <2>5, <2>8, <2>11, <2>12, Closing
  <2>14. JobsInv'
    BY <1>4, JobsStay DEF PanelInv, Base
  <2>15. ReloadInv'
    BY <1>4, <1>7 DEF ReloadInv, PanelInv, Base
  <2> QED BY <2>13, <2>14, <2>15 DEF PanelInv, Base
<1> QED BY <1>6, <1>7

-----------------------------------------------------------------------------
\* The loops that wait for jobs.

\* The loop that waits for a review runs only while there is a panel.
LEMMA NoPanelNoReview == PanelInv /\ reviewing # "idle" => applying # "reloading"
BY DEF PanelInv, Base, ReloadInv

LEMMA ReviewLoopKeeps ==
  ASSUME PanelInv, LoadReview \/ ReviewGivenUp
  PROVE  PanelInv'
<1>1. /\ UNCHANGED <<cards, selected, modal, applying, jobs, applyJobs, stored, talk, again, seen>>
      /\ reviewing' \in {"idle", "creating"} /\ Effects(calls, chat)
      /\ deeds' \in 0 .. MaxDeeds /\ applying # "reloading"
  BY DeedsTyped, NoPanelNoReview DEF LoadReview, ReviewGivenUp, Elsewhere, Deed
<1>2. Outer' /\ JobsInv'
  BY <1>1, JobsStay DEF PanelInv, Base, PanelTypeOK, Outer
<1>3. PICK K : K = calls
  OBVIOUS
<1>4. PICK ch : ch = chat
  OBVIOUS
<1> QED BY <1>1, <1>2, <1>3, <1>4, ChatTyped, PanelStep

LEMMA CreationKeeps ==
  ASSUME PanelInv, NEW heard \in BOOLEAN, ReviewCreated(heard)
  PROVE  PanelInv'
<1>1. PICK L : L = Latest
  OBVIOUS
<1>2. /\ UNCHANGED <<cards, selected, modal, applying, applyJobs, deeds, stored, talk, again, seen>>
      /\ reviewing' \in {"idle", "polling"} /\ Effects(calls, chat) /\ applying # "reloading"
      /\ jobs' = [jobs EXCEPT ![L + 1] = "queued"]
  BY <1>1, NoPanelNoReview DEF ReviewCreated, Elsewhere
<1>3. /\ jobs \in [Reviews -> {"none", "queued", "succeeded", "failed"}]
      /\ \A c \in DOMAIN stored : c \in CardIds
  BY DEF PanelInv, Base, PanelTypeOK
<1>4. L \in Reviews /\ jobs[L] # "none" /\ \A i \in Reviews : i > L => jobs[i] = "none"
  BY <1>1, LatestExists DEF PanelInv, Base
<1>5. jobs' \in [Reviews -> {"none", "queued", "succeeded", "failed"}]
  BY <1>2, <1>3
<1>6. Outer'
  BY <1>2, <1>5 DEF PanelInv, Base, PanelTypeOK, Outer
<1>7. L \in 1 .. MaxReviews /\ MaxReviews \in Nat
  BY <1>4, PanelAssumption DEF Reviews
<1>8. \E j \in Reviews : jobs'[j] # "none" /\ \A i \in Reviews : i > j => jobs'[i] = "none"
  <2>1. CASE L + 1 \in Reviews
    <3>1. jobs'[L + 1] # "none"
      BY <1>2, <1>3, <2>1
    <3>2. ASSUME NEW i \in Reviews, i > L + 1
          PROVE  jobs'[i] = "none"
      <4>1. i \in Nat /\ i > L /\ i # L + 1
        BY <1>7, <3>2 DEF Reviews
      <4> QED BY <1>2, <1>3, <1>4, <4>1
    <3> QED BY <2>1, <3>1, <3>2
  <2>2. CASE L + 1 \notin Reviews
    BY <1>2, <1>3, <1>4, <2>2
  <2> QED BY <2>1, <2>2
<1>9. \A c \in DOMAIN stored' : jobs'[c[1]] = "succeeded"
  <2>1. TAKE c \in DOMAIN stored'
  <2>2. c[1] \in Reviews /\ jobs[c[1]] = "succeeded"
    BY <1>2, <1>3 DEF PanelInv, Base, JobsInv, CardIds
  <2>3. L + 1 \in Reviews => jobs[L + 1] = "none"
    BY <1>4, <1>7
  <2> QED BY <1>2, <1>3, <2>2, <2>3
<1>10. JobsInv'
  <2>1. ApplyInv'
    BY <1>2 DEF ApplyInv, Applied, ApplyJob, JobsInv, PanelInv, Base
  <2>2. (\A c \in DOMAIN stored : jobs[c[1]] = "succeeded")'
    BY <1>9
  <2>3. (\E j \in Reviews : jobs[j] # "none" /\ \A i \in Reviews : i > j => jobs[i] = "none")'
    BY <1>8
  <2> QED BY <2>1, <2>2, <2>3 DEF JobsInv
<1>11. PICK K : K = calls
  OBVIOUS
<1>12. PICK ch : ch = chat
  OBVIOUS
<1> QED BY <1>2, <1>6, <1>10, <1>11, <1>12, ChatTyped, PanelStep

LEMMA PollKeeps ==
  ASSUME PanelInv, PollReview
  PROVE  PanelInv'
<1>1. PICK new : new = [ListCall EXCEPT !.heard = "review"]
  OBVIOUS
<1>2. PICK K : K = calls \cup (IF jobs[Latest] = "succeeded" THEN {new} ELSE {})
  OBVIOUS
<1>3. PICK ch : ch = chat
  OBVIOUS
<1>4. /\ UNCHANGED <<cards, selected, modal, applying, jobs, applyJobs, deeds, stored, talk, again,
                     seen>>
      /\ reviewing' \in {"idle", "refreshing"} /\ Effects(K, ch) /\ applying # "reloading"
  BY <1>1, <1>2, <1>3, NoPanelNoReview DEF PollReview, Elsewhere
<1>5. IsCall(new) /\ CallRight(new)
  BY <1>1 DEF ListCall, IsCall, IsRequest, Kinds, Listeners, CallRight, IsTrue
<1>6. Outer' /\ JobsInv'
  BY <1>4, JobsStay DEF PanelInv, Base, PanelTypeOK, Outer
<1>7. \A k \in K : k \in calls \/ (IsCall(k) /\ CallRight(k))
  BY <1>2, <1>5
<1>8. \A k \in calls : k \in K
  BY <1>2
<1> QED BY <1>3, <1>4, <1>6, <1>7, <1>8, ChatTyped, PanelStep

\* The loop that waits for an application moves, and the panel stays as it is.
LEMMA WaitStep ==
  ASSUME PanelInv, applying' \in {"idle", "creating", "polling"},
         applyJobs' \in Seq([status : {"asked", "queued", "succeeded", "failed"}, of : Reviews]),
         ApplyInv', deeds' \in 0 .. MaxDeeds,
         UNCHANGED <<cards, selected, modal, reviewing, jobs, calls, chat, doubt>>, Elsewhere
  PROVE  PanelInv'
<1>1. PanelTypeOK'
  BY DEF PanelInv, Base, PanelTypeOK, Elsewhere
<1>2. JobsInv'
  BY DEF PanelInv, Base, JobsInv, Elsewhere
<1>3. Shapes'
  BY DEF PanelInv, Base, Shapes, IsCall, Elsewhere
<1>4. ASSUME NEW k \in calls
      PROVE  CallRight(k)'
  <2>1. CallRight(k)
    BY DEF PanelInv, ShownInv
  <2> QED BY <2>1 DEF CallRight, IsTrue, IsHarmless, Quietly, Elsewhere
<1>5. ShownInv'
  BY <1>4 DEF PanelInv, ShownInv, CardsRight, Matches, Quietly, Elsewhere
<1>6. ReloadInv'
  BY DEF ReloadInv
<1> QED BY <1>1, <1>2, <1>3, <1>5, <1>6 DEF PanelInv, Base

\* A review that was applied stays so while its apply job stays in the list.
LEMMA AppliedStays ==
  ASSUME \A n \in DOMAIN applyJobs : applyJobs[n].status = "succeeded" =>
           n \in DOMAIN applyJobs' /\ applyJobs'[n] = applyJobs[n]
  PROVE  Applied \subseteq Applied'
BY DEF Applied

\* The request for an apply job, its answer, and its refusal.
LEMMA AskingKeeps ==
  ASSUME PanelInv, ApplyResolvedFeedbacks
  PROVE  PanelInv'
<1> DEFINE Job == [status : {"asked", "queued", "succeeded", "failed"}, of : Reviews]
<1>1. PICK new : new = [status |-> "asked", of |-> ReviewOfCards]
  OBVIOUS
<1>2. PICK N : N = Len(applyJobs)
  OBVIOUS
<1>3. applyJobs \in Seq(Job) /\ DOMAIN cards \subseteq CardIds
  BY DEF PanelInv, Base, PanelTypeOK
<1>4. ReviewOfCards \in Reviews
  BY <1>3 DEF ApplyResolvedFeedbacks, ReviewOfCards, CardIds
<1>5. new \in Job /\ new.status = "asked"
  BY <1>1, <1>4
<1>6. applyJobs' = Append(applyJobs, new) /\ applying' = "creating" /\ Elsewhere
  BY <1>1 DEF ApplyResolvedFeedbacks
<1> HIDE DEF Job
<1>7. /\ applyJobs' \in Seq(Job) /\ applyJobs' # << >> /\ applyJobs'[Len(applyJobs')] = new
      /\ \A n \in DOMAIN applyJobs : n \in DOMAIN applyJobs' /\ applyJobs'[n] = applyJobs[n]
  BY <1>3, <1>5, <1>6
<1>8. ApplyInv'
  BY <1>5, <1>6, <1>7, AppliedStays DEF ApplyInv, ApplyJob, PanelInv, Base, JobsInv, Elsewhere
<1>9. deeds' \in 0 .. MaxDeeds
  BY DeedsTyped DEF ApplyResolvedFeedbacks
<1> QED BY <1>6, <1>7, <1>8, <1>9, WaitStep DEF ApplyResolvedFeedbacks, Job

LEMMA AnsweredKeeps ==
  ASSUME PanelInv, NEW heard \in BOOLEAN, ApplyCreated(heard)
  PROVE  PanelInv'
<1> DEFINE Job == [status : {"asked", "queued", "succeeded", "failed"}, of : Reviews]
<1>1. PICK N : N = Len(applyJobs)
  OBVIOUS
<1>2. applyJobs \in Seq(Job) /\ deeds \in 0 .. MaxDeeds
  BY DEF PanelInv, Base, PanelTypeOK
<1>3. applyJobs # << >> /\ applyJobs[N].status = "asked"
  BY <1>1 DEF ApplyCreated, PanelInv, Base, JobsInv, ApplyInv, ApplyJob
<1>4. N \in DOMAIN applyJobs
  BY <1>1, <1>2, <1>3
<1>5. PICK new : new = [applyJobs[N] EXCEPT !.status = "queued"]
  OBVIOUS
<1>6. applyJobs[N] \in Job
  BY <1>2, <1>4, JobsOfList
<1>7. new \in Job
  BY <1>5, <1>6
<1>8. applyJobs' = [applyJobs EXCEPT ![N] = new] /\ applying' \in {"idle", "polling"} /\ Elsewhere
  BY <1>1, <1>5 DEF ApplyCreated
<1> HIDE DEF Job
<1>9. applyJobs' \in Seq(Job) /\ DOMAIN applyJobs' = DOMAIN applyJobs /\ applyJobs' # << >>
  BY <1>2, <1>4, <1>7, <1>8
<1>10. \A n \in DOMAIN applyJobs : n # N => applyJobs'[n] = applyJobs[n]
  BY <1>2, <1>8
<1>11. Applied \subseteq Applied'
  BY <1>3, <1>9, <1>10, AppliedStays
<1>12. ApplyInv'
  BY <1>8, <1>9, <1>11 DEF ApplyInv, PanelInv, Base, JobsInv, Elsewhere
<1> QED BY <1>2, <1>8, <1>9, <1>12, WaitStep DEF ApplyCreated, Job

LEMMA RefusedKeeps ==
  ASSUME PanelInv, ApplyRefused
  PROVE  PanelInv'
<1> DEFINE Job == [status : {"asked", "queued", "succeeded", "failed"}, of : Reviews]
<1>1. PICK N : N = Len(applyJobs)
  OBVIOUS
<1>2. applyJobs \in Seq(Job) /\ deeds \in 0 .. MaxDeeds
  BY DEF PanelInv, Base, PanelTypeOK
<1>3. applyJobs # << >> /\ applyJobs[N].status = "asked"
  BY <1>1 DEF ApplyRefused, PanelInv, Base, JobsInv, ApplyInv, ApplyJob
<1>4. applyJobs' = SubSeq(applyJobs, 1, N - 1) /\ applying' = "idle" /\ Elsewhere
  BY <1>1 DEF ApplyRefused
<1> HIDE DEF Job
<1>5. N \in Nat /\ N >= 1 /\ DOMAIN applyJobs = 1 .. N
  BY <1>1, <1>2, <1>3
<1>6. /\ applyJobs' \in Seq(Job) /\ DOMAIN applyJobs' = 1 .. (N - 1)
      /\ \A n \in 1 .. (N - 1) : applyJobs'[n] = applyJobs[n]
  BY <1>1, <1>2, <1>4, <1>5
<1>7. Applied \subseteq Applied'
  <2>1. \A n \in DOMAIN applyJobs : n # N => n \in 1 .. (N - 1)
    BY <1>5
  <2> QED BY <1>3, <1>6, <2>1, AppliedStays
<1>8. ApplyInv'
  BY <1>4, <1>7 DEF ApplyInv, PanelInv, Base, JobsInv, Elsewhere
<1> QED BY <1>2, <1>4, <1>6, <1>8, WaitStep DEF ApplyRefused, Job

LEMMA WaitingKeeps ==
  ASSUME PanelInv, ApplyFailed \/ ApplyGivenUp
  PROVE  PanelInv'
<1>1. applyJobs \in Seq([status : {"asked", "queued", "succeeded", "failed"}, of : Reviews])
        /\ deeds \in 0 .. MaxDeeds
  BY DEF PanelInv, Base, PanelTypeOK
<1>2. UNCHANGED applyJobs /\ applying' = "idle" /\ Elsewhere
  BY DEF ApplyFailed, ApplyGivenUp
<1>3. ApplyInv'
  BY <1>2, AppliedStays DEF ApplyInv, PanelInv, Base, JobsInv, Elsewhere
<1> QED BY <1>1, <1>2, <1>3, WaitStep DEF ApplyFailed, ApplyGivenUp

\* The provider is unmounted: nobody listens to its calls any more.
LEMMA UnmountingKeeps ==
  ASSUME PanelInv, ApplySucceeded
  PROVE  PanelInv'
<1>1. /\ applying = "polling" /\ ApplyJob.status = "succeeded" /\ applying' = "reloading"
      /\ seen' = seen \cup {ApplyJob.of}
      /\ cards' = NoCards /\ selected' = NoCard /\ modal' = FALSE /\ chat' = EmptyChat
      /\ reviewing' = "idle"
      /\ calls' = {[k EXCEPT !.heard = "nobody"] : k \in calls}
      /\ UNCHANGED <<doubt, deeds, stored, talk, jobs, applyJobs, again>>
  BY DEF ApplySucceeded, reviewServerVars
<1>2. DOMAIN cards' = {}
  BY <1>1 DEF NoCards
<1>3. ApplyJob.of \in Applied /\ ApplyJob.of \in Reviews
  <2>1. applyJobs \in Seq([status : {"asked", "queued", "succeeded", "failed"}, of : Reviews])
          /\ applyJobs # << >>
    BY <1>1 DEF PanelInv, Base, PanelTypeOK, JobsInv, ApplyInv
  <2>2. Len(applyJobs) \in DOMAIN applyJobs
    BY <2>1
  <2>3. applyJobs[Len(applyJobs)] \in
           [status : {"asked", "queued", "succeeded", "failed"}, of : Reviews]
    BY <2>1, <2>2, JobsOfList
  <2>4. ApplyJob.of \in Reviews
    BY <2>3 DEF ApplyJob
  <2> QED BY <1>1, <2>2, <2>4 DEF ApplyJob, Applied
<1>4. EmptyChat \in ChatState
  BY DEF EmptyChat, ChatState, Note
<1>5. PanelTypeOK'
  BY <1>1, <1>2, <1>3, <1>4 DEF PanelInv, Base, PanelTypeOK
<1>6. ASSUME NEW m \in calls'
      PROVE  \E k \in calls : Alike(m, k) /\ m.heard = "nobody" /\ IsCall(m)'
                                /\ Touches(m) = Touches(k) /\ (Writes(m) <=> Writes(k))
  <2>1. PICK k \in calls : m = [k EXCEPT !.heard = "nobody"]
    BY <1>1
  <2>2. IsCall(k) /\ IsRequest(k)
    BY CallKnown
  <2>3. Alike(m, k) /\ m.heard = "nobody"
    BY <2>1, <2>2 DEF Alike, IsRequest
  <2>4. m.heard \in Listeners
    BY <2>3 DEF Listeners
  <2>5. IsCall(k)'
    BY <1>1, <2>2 DEF IsCall
  <2> QED BY <2>2, <2>3, <2>4, <2>5, AlikeFields, AlikeCalls
<1>7. Shapes' /\ ReloadInv' /\ JobsInv'
  <2>1. ApplyInv'
    BY <1>1, <1>3, AppliedStays DEF PanelInv, Base, JobsInv, ApplyInv
  <2> QED BY <1>1, <1>2, <1>6, <2>1 DEF Shapes, ReloadInv, PanelInv, Base, JobsInv
<1>8. \A m \in calls' : CallRight(m)'
  BY <1>2, <1>6 DEF CallRight, IsHarmless
<1>9. CardsRight(calls)'
  BY <1>2 DEF CardsRight
<1>10. Clashes(calls') \subseteq doubt'
  <2>1. SUFFICES ASSUME NEW t \in Clashes(calls')
                 PROVE  t \in doubt
    BY <1>1
  <2>2. PICK p \in {q \in calls' \X calls' : q[1] # q[2] /\ Writes(q[1])} :
               t \in Touches(p[1]) \cap Touches(p[2])
    BY DEF Clashes
  <2>3. PICK i \in calls', j \in calls' : i = p[1] /\ j = p[2] /\ i # j /\ Writes(i)
                                            /\ t \in Touches(i) /\ t \in Touches(j)
    BY <2>2
  <2>4. PICK k \in calls : i = [k EXCEPT !.heard = "nobody"]
    BY <1>1
  <2>5. PICK l \in calls : j = [l EXCEPT !.heard = "nobody"]
    BY <1>1
  <2>6. k # l
    BY <2>3, <2>4, <2>5
  <2>7. IsRequest(k) /\ IsRequest(l)
    BY CallKnown
  <2>8. Alike(i, k) /\ Alike(j, l) /\ i.heard \in Listeners /\ j.heard \in Listeners
    BY <2>4, <2>5, <2>7 DEF Alike, IsRequest, Listeners
  <2>9. Touches(k) = Touches(i) /\ Touches(l) = Touches(j) /\ Writes(k)
    BY <2>3, <2>7, <2>8, AlikeFields
  <2> QED BY <2>3, <2>6, <2>9, WriterAlone
<1> QED BY <1>5, <1>7, <1>8, <1>9, <1>10 DEF PanelInv, Base, ShownInv

\* A new provider asks for the cards, beside calls that nobody listens to.
LEMMA ReloadingKeeps ==
  ASSUME PanelInv, Reloaded
  PROVE  PanelInv'
<1>1. /\ applying = "reloading" /\ applying' = "idle" /\ calls' = calls \cup {ListCall}
      /\ doubt' = Clashes(calls')
      /\ UNCHANGED <<cards, selected, modal, chat, reviewing, seen, deeds, stored, talk, jobs,
                     applyJobs, again>>
  BY DEF Reloaded, reviewServerVars
<1>2. DOMAIN cards' = {} /\ \A k \in calls : k.heard = "nobody"
  BY <1>1 DEF PanelInv, Base, ReloadInv
<1>3. IsCall(ListCall)' /\ IsTrue(ListCall)' /\ ListCall.heard = "provider"
  BY DEF ListCall, IsCall, IsRequest, Kinds, Listeners, IsTrue
<1>4. \A k \in calls' : IsCall(k)'
  <2>1. \A k \in calls : IsCall(k)'
    BY <1>1 DEF PanelInv, Base, Shapes, IsCall
  <2> QED BY <1>1, <1>3, <2>1
<1>5. \A k \in calls' : CallRight(k)'
  BY <1>1, <1>2, <1>3 DEF CallRight, IsHarmless
<1>6. doubt' \subseteq CardIds \X Aspects
  <2>1. PICK K : K = calls'
    OBVIOUS
  <2>2. \A k \in K : IsRequest(k) /\ (k.kind # "list" => k.card \in CardIds)
    BY <1>1, <1>4, <2>1 DEF IsCall, PanelInv, Base, PanelTypeOK
  <2>3. \A k \in K : Touches(k) \subseteq CardIds \X Aspects
    BY <2>2, TouchesOfCards
  <2> QED BY <1>1, <2>1, <2>3, ClashesOfCards
<1>7. PanelTypeOK'
  BY <1>1, <1>2, <1>6 DEF PanelInv, Base, PanelTypeOK
<1>8. JobsInv' /\ ReloadInv' /\ Shapes'
  <2>1. ApplyInv'
    BY <1>1, AppliedStays DEF PanelInv, Base, JobsInv, ApplyInv
  <2> QED BY <1>1, <1>4, <2>1 DEF PanelInv, Base, JobsInv, ReloadInv, Shapes
<1>9. CardsRight(calls)'
  BY <1>2 DEF CardsRight
<1> QED BY <1>1, <1>5, <1>7, <1>8, <1>9 DEF PanelInv, Base, ShownInv

-----------------------------------------------------------------------------
\* The theorems.

LEMMA PanelStarts == PanelInit => PanelInv
<1> SUFFICES ASSUME PanelInit PROVE PanelInv
  OBVIOUS
<1>1. PICK S \in SUBSET Findings : stored \in [{1} \X S -> {NewCardRow} \cup DecidedRows]
  BY DEF PanelInit
<1>2. 1 \in Reviews
  BY PanelAssumption DEF Reviews
<1>3. NewCardRow \in CardRow /\ DecidedRows \subseteq CardRow
  <2>1. NewCardRow \in CardRow /\ Typed \in Note
    BY DEF NewCardRow, CardRow, Decision, NoNote, Note
  <2>2. ASSUME NEW p \in Paths
        PROVE  [NewCardRow EXCEPT !.decision = [resolved |-> TRUE, path |-> p, note |-> Typed]] \in CardRow
    BY <2>1 DEF CardRow, Decision
  <2> QED BY <2>1, <2>2 DEF DecidedRows
<1>4. \A c \in DOMAIN stored : c \in CardIds /\ stored[c] \in CardRow /\ c[1] = 1
  BY <1>1, <1>2, <1>3 DEF CardIds
<1>5. EmptyChat \in ChatState
  BY DEF EmptyChat, ChatState, Note
<1>6. DOMAIN cards = {} /\ calls = {ListCall} /\ doubt = {}
  BY DEF PanelInit, NoCards
<1>7. PanelTypeOK
  <2>1. DOMAIN talk = DOMAIN stored /\ \A c \in DOMAIN talk : talk[c] \in Nat
    BY DEF PanelInit
  <2>2. jobs \in [Reviews -> {"none", "queued", "succeeded", "failed"}]
    BY DEF PanelInit
  <2>3. applyJobs \in Seq([status : {"asked", "queued", "succeeded", "failed"}, of : Reviews])
    BY DEF PanelInit
  <2>4. deeds \in 0 .. MaxDeeds
    BY PanelAssumption DEF PanelInit
  <2> QED BY <1>4, <1>5, <1>6, <2>1, <2>2, <2>3, <2>4 DEF PanelInit, PanelTypeOK
<1>8. JobsInv
  <2>1. \A i \in Reviews : i > 1 => jobs[i] = "none"
    BY DEF PanelInit, Reviews
  <2>2. jobs[1] = "succeeded"
    BY <1>2 DEF PanelInit
  <2>3. ApplyInv
    BY DEF ApplyInv, PanelInit
  <2> QED BY <1>2, <1>4, <2>1, <2>2, <2>3 DEF JobsInv
<1>9. IsCall(ListCall) /\ CallRight(ListCall)
  BY DEF ListCall, IsCall, IsRequest, Kinds, Listeners, IsTrue, CallRight
<1>10. Clashes(calls) = {}
  BY <1>6 DEF Clashes
<1>11. CardsRight(calls)
  BY <1>6 DEF CardsRight
<1> QED BY <1>6, <1>7, <1>8, <1>9, <1>10, <1>11
        DEF PanelInv, Base, ShownInv, Shapes, ReloadInv, PanelInit

LEMMA PanelStutters == PanelInv /\ UNCHANGED panelVars => PanelInv'
<1> SUFFICES ASSUME PanelInv, UNCHANGED panelVars PROVE PanelInv'
  OBVIOUS
<1>1. PanelTypeOK' /\ JobsInv' /\ ReloadInv'
  BY JobsStay DEF PanelInv, Base, PanelTypeOK, ReloadInv, panelVars, reviewServerVars
<1>2. UNCHANGED <<cards, modal, reviewing, applying, seen, calls, doubt, again>>
        /\ DOMAIN stored \subseteq DOMAIN stored'
        /\ \A c \in DOMAIN stored : stored'[c] = stored[c] /\ talk'[c] = talk[c]
  BY DEF panelVars, reviewServerVars
<1> QED BY <1>1, <1>2, NewRowsKeep

LEMMA PanelKeeps == PanelInv /\ PanelNext => PanelInv'
<1> SUFFICES ASSUME PanelInv, PanelNext PROVE PanelInv'
  OBVIOUS
<1>1. CASE Click
  BY <1>1, SelectingKeeps, SendingKeeps, NotesKeep, ApprovingKeeps, ReviewLoopKeeps, AskingKeeps,
     UnresolvingKeeps, DraftingKeeps, RatingKeeps DEF Click
<1>2. CASE JobEnds
  BY <1>2, ReviewEndsKeeps, ApplicationEndsKeeps, ApplicationAgainKeeps DEF JobEnds
<1>3. CASE ReviewLoop
  BY <1>3, CreationKeeps, PollKeeps, ReviewLoopKeeps DEF ReviewLoop
<1>4. CASE ApplyLoop
  BY <1>4, AnsweredKeeps, RefusedKeeps, WaitingKeeps, UnmountingKeeps, ReloadingKeeps DEF ApplyLoop
<1>5. ASSUME NEW k \in calls, Serve(k)
      PROVE  PanelInv'
  BY <1>5, ListingKeeps, ConversationReadKeeps, QuestionKeeps, ReplyKeeps, DecidingKeeps, RatedKeeps
     DEF Serve
<1>6. ASSUME NEW k \in calls, Arrive(k)
      PROVE  PanelInv'
  BY <1>6, ListArrivalKeeps, ConversationArrivalKeeps, ReplyArrivalKeeps, DecisionArrivalKeeps,
     RatingArrivalKeeps, DraftKeeps, FailingKeeps DEF Arrive
<1> QED BY <1>1, <1>2, <1>3, <1>4, <1>5, <1>6 DEF PanelNext

\* The invariant holds in every behaviour of the panel.
LEMMA PanelInvariant == PanelSpec => []PanelInv
BY PanelStarts, PanelStutters, PanelKeeps, PTL DEF PanelSpec

\* The panel holds what its components say it holds.
THEOREM PanelTypesCorrect == PanelSpec => []PanelTypeOK
<1>1. PanelInv => PanelTypeOK
  BY DEF PanelInv, Base
<1> QED BY <1>1, PanelInvariant, PTL

\* A card with nothing under way shows what is stored of it, in whatever order
\* refreshes, chat answers, decisions and reloads have come.
THEOREM ShownAsStored == PanelSpec => []ShownIsStored
<1>1. ASSUME PanelInv, NEW c \in DOMAIN cards
      PROVE  /\ Settled(c, "decision") => cards[c].decision = stored[c].decision
             /\ Settled(c, "reaction") => cards[c].reaction = stored[c].reaction
             /\ Settled(c, "talk") /\ cards[c].loaded =>
                  cards[c].history = [confirmed |-> talk[c], own |-> 0]
  <2>1. Matches(c, calls)
    BY <1>1 DEF PanelInv, ShownInv, CardsRight
  <2>2. \A k \in calls : k.kind = "decide" /\ k.card = c => <<c, "decision">> \in Touches(k)
    BY TouchesByKind
  <2>3. \A k \in calls : k.kind = "rate" /\ k.card = c => <<c, "reaction">> \in Touches(k)
    BY TouchesByKind
  <2>4. \A k \in calls : k.kind = "send" /\ k.card = c => <<c, "talk">> \in Touches(k)
    BY TouchesByKind
  <2> QED BY <2>1, <2>2, <2>3, <2>4 DEF Matches, Quietly, Settled
<1>2. PanelInv => ShownIsStored
  BY <1>1 DEF ShownIsStored
<1> QED BY <1>2, PanelInvariant, PTL

\* The review that is applied is the review of every card that is shown.
THEOREM OneReviewOnly == PanelSpec => []OneReviewShown
<1>1. PanelInv => OneReviewShown
  BY DEF PanelInv, ShownInv, CardsRight, OneReviewShown
<1> QED BY <1>1, PanelInvariant, PTL

\* Cards seen applied come back only when Cloud Run has executed an apply job of
\* theirs again after its success, whatever answers and second apply jobs there were.
THEOREM AppliedStayAway == PanelSpec => []AppliedCardsStayAway
<1>1. PanelInv => AppliedCardsStayAway
  BY DEF PanelInv, ShownInv, CardsRight, AppliedCardsStayAway
<1> QED BY <1>1, PanelInvariant, PTL
=============================================================================
