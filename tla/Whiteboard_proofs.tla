------------------------- MODULE Whiteboard_proofs -------------------------
(***************************************************************************)
(* For any cards, texts, strokes and length of the history: a text stays   *)
(* with its card, and the board implements UndoHistory.                    *)
(*                                                                         *)
(* A text reaches a row or a card from boards of the past, answers on      *)
(* their way, saves that wait and copies in the handlers; the invariant    *)
(* OwnInv says of all of these what the property says of rows and cards.   *)
(***************************************************************************)
EXTENDS Whiteboard, SequenceTheorems, TLAPS

\* Cards, rows, boards, saves and calls that hold no text of another card.
OwnNodes == UNION {{f \in [S -> Card] : \A n \in S : f[n].code.of = n} : S \in SUBSET Ids}
OwnRows == UNION {{f \in [S -> Row] : \A n \in S : f[n].code.of = n} :
                    S \in SUBSET (Loaded \cup NewCards)}
OwnBoards == [nodes : OwnNodes, drawings : SUBSET Strokes]
OwnSaves == {s \in [id : Ids, code : Codes] : s.code.of = s.id}
OwnRequests == {r \in Request : /\ r.code.of = r.id
                                /\ r.copy = NoCopy \/ (r.copy \in Row /\ r.copy.code.of = r.id)}
OwnWaits == [by : {"click", "mount"}, seen : OwnBoards]
OwnAdds == [id : NewCards, at : Places, seen : OwnBoards, made : BOOLEAN, heard : BOOLEAN]

OwnBoard == nodes \in OwnNodes /\ drawings \in SUBSET Strokes
OwnHistory == past \in Seq(OwnBoards) /\ future \in Seq(OwnBoards)
OwnTables == rows \in OwnRows /\ fetched \in OwnRows /\ boardNodes \in OwnRows
OwnWire ==
  /\ timer = NoSave \/ timer \in OwnSaves
  /\ requests \subseteq OwnRequests /\ orphans \subseteq OwnRequests /\ adds \subseteq OwnAdds
  /\ waiting \subseteq OwnWaits
OwnInv == OwnBoard /\ OwnHistory /\ OwnTables /\ OwnWire

-----------------------------------------------------------------------------
\* What these sets hold.

LEMMA NodesAre ==
  ASSUME NEW S \in SUBSET Ids, NEW f \in [S -> Card], \A n \in S : f[n].code.of = n
  PROVE  f \in OwnNodes
  BY DEF OwnNodes

LEMMA NodesHold ==
  ASSUME NEW f \in OwnNodes
  PROVE  /\ DOMAIN f \in SUBSET Ids /\ f \in [DOMAIN f -> Card]
         /\ \A n \in DOMAIN f : f[n] \in Card /\ f[n].code.of = n
  BY DEF OwnNodes

LEMMA RowsAre ==
  ASSUME NEW S \in SUBSET (Loaded \cup NewCards), NEW f \in [S -> Row], \A n \in S : f[n].code.of = n
  PROVE  f \in OwnRows
  BY DEF OwnRows

LEMMA RowsHold ==
  ASSUME NEW f \in OwnRows
  PROVE  /\ DOMAIN f \in SUBSET (Loaded \cup NewCards) /\ f \in [DOMAIN f -> Row]
         /\ \A n \in DOMAIN f : f[n] \in Row /\ f[n].code.of = n
  BY DEF OwnRows

LEMMA NothingIsOwn == NoRows \in OwnRows /\ << >> \in OwnNodes
  <1>1. NoRows \in [{} -> Row] /\ << >> \in [{} -> Card]
    BY DEF NoRows
  <1> QED BY <1>1, NodesAre, RowsAre

LEMMA ShownRowsAreOwn ==
  ASSUME NEW r \in OwnRows
  PROVE  ToFlowNodes(r) \in OwnNodes
  <1>1. /\ DOMAIN r \in SUBSET Ids
        /\ \A n \in DOMAIN r : r[n].code \in Codes /\ r[n].at \in Places /\ r[n].code.of = n
    BY RowsHold DEF Row, Ids
  <1>2. ToFlowNodes(r) \in [DOMAIN r -> Card]
    BY <1>1 DEF ToFlowNodes, Card
  <1>3. \A n \in DOMAIN r : ToFlowNodes(r)[n].code.of = n
    BY <1>1 DEF ToFlowNodes
  <1> QED BY <1>1, <1>2, <1>3, NodesAre

LEMMA CardsAre ==
  ASSUME NEW c \in Card
  PROVE  /\ c.code \in Codes /\ c.at \in Places /\ c.from \in Places
         /\ \A p \in Places : [c EXCEPT !.at = p] \in Card /\ [c EXCEPT !.at = p].code = c.code
         /\ \A x \in Codes : [c EXCEPT !.code = x] \in Card /\ [c EXCEPT !.code = x].code = x
  BY DEF Card

LEMMA TrimKeeps ==
  ASSUME NEW S, NEW s \in Seq(S), NEW b \in S
  PROVE  Trim(Append(s, b)) \in Seq(S)
  <1>1. Append(s, b) \in Seq(S) /\ Append(s, b) # << >>
    BY AppendProperties
  <1>2. Tail(Append(s, b)) \in Seq(S)
    BY <1>1, HeadTailProperties
  <1> QED BY <1>1, <1>2 DEF Trim

LEMMA LastTaken ==
  ASSUME NEW S, NEW s \in Seq(S), s # << >>
  PROVE  s[Len(s)] \in S /\ SubSeq(s, 1, Len(s) - 1) \in Seq(S)
  <1>1. Len(s) \in 1 .. Len(s) /\ Len(s) \in Nat
    BY EmptySeq
  <1>2. s[Len(s)] \in S
    BY <1>1, ElementOfSeq
  <1>3. \A i \in 1 .. Len(s) - 1 : s[i] \in S
    BY <1>1, ElementOfSeq
  <1> QED BY <1>1, <1>2, <1>3, SubSeqProperties

LEMMA Pushed ==
  ASSUME OwnHistory, NEW b \in OwnBoards, PushHistorySnapshot(b)
  PROVE  OwnHistory'
  <1>1. past' \in Seq(OwnBoards)
    BY TrimKeeps DEF OwnHistory, PushHistorySnapshot
  <1>2. future' \in Seq(OwnBoards)
    BY EmptySeq DEF PushHistorySnapshot
  <1> QED BY <1>1, <1>2 DEF OwnHistory

LEMMA PushedUnless ==
  ASSUME OwnHistory, OwnBoard, NEW going, PushUnless(going)
  PROVE  OwnHistory'
  <1>1. Board \in OwnBoards
    BY DEF OwnBoard, Board, OwnBoards
  <1> QED BY <1>1, Pushed DEF PushUnless, OwnHistory

-----------------------------------------------------------------------------
\* Steps of a person on the board.

LEMMA GoneBack ==
  ASSUME OwnInv, Undo \/ Redo
  PROVE  OwnInv'
  <1>0. Board \in OwnBoards
    BY DEF OwnInv, OwnBoard, Board, OwnBoards
  <1>1. ASSUME NEW b \in OwnBoards, Upon(b) PROVE OwnBoard'
    BY <1>1 DEF Upon, OwnBoard, OwnBoards
  <1>2. OwnTables' /\ OwnWire'
    BY DEF OwnInv, OwnTables, OwnWire, Undo, Redo, serverVars, pageVars
  <1>3. past \in Seq(OwnBoards) /\ future \in Seq(OwnBoards)
    BY DEF OwnInv, OwnHistory
  <1>4. CASE Undo
    <2>1. past # << >> /\ past' = SubSeq(past, 1, Len(past) - 1) /\ future' = Append(future, Board)
          /\ Upon(past[Len(past)])
      BY <1>4 DEF Undo
    <2>2. past[Len(past)] \in OwnBoards /\ past' \in Seq(OwnBoards)
      BY <2>1, <1>3, LastTaken
    <2>3. future' \in Seq(OwnBoards)
      BY <2>1, <1>3, <1>0, AppendProperties
    <2> QED BY <1>1, <1>2, <2>1, <2>2, <2>3 DEF OwnInv, OwnHistory
  <1>5. CASE Redo
    <2>1. future # << >> /\ future' = SubSeq(future, 1, Len(future) - 1) /\ past' = Append(past, Board)
          /\ Upon(future[Len(future)])
      BY <1>5 DEF Redo
    <2>2. future[Len(future)] \in OwnBoards /\ future' \in Seq(OwnBoards)
      BY <2>1, <1>3, LastTaken
    <2>3. past' \in Seq(OwnBoards)
      BY <2>1, <1>3, <1>0, AppendProperties
    <2> QED BY <1>1, <1>2, <2>1, <2>2, <2>3 DEF OwnInv, OwnHistory
  <1> QED BY <1>4, <1>5

\* Cards with other texts of their own.
LEMMA CodesChanged ==
  ASSUME OwnInv, NEW codes, NEW last \in DOMAIN codes, last \in Ids,
         \A m \in DOMAIN codes : codes[m] \in Codes /\ codes[m].of = m,
         ChangeCodes(codes, last)
  PROVE  OwnInv'
  <1>1. OwnHistory' /\ OwnTables'
    <2>1. OwnHistory'
      BY PushedUnless DEF OwnInv, ChangeCodes
    <2> QED BY <2>1 DEF OwnInv, OwnTables, ChangeCodes, serverVars, pageVars
  <1>2. OwnBoard'
    <2> DEFINE new == [n \in DOMAIN nodes |->
                         IF n \in DOMAIN codes THEN [nodes[n] EXCEPT !.code = codes[n]] ELSE nodes[n]]
    <2>1. DOMAIN nodes \in SUBSET Ids /\ \A n \in DOMAIN nodes : nodes[n] \in Card /\ nodes[n].code.of = n
      BY NodesHold DEF OwnInv, OwnBoard
    <2>2. \A n \in DOMAIN nodes : new[n] \in Card /\ new[n].code.of = n
      <3>1. ASSUME NEW n \in DOMAIN nodes, n \in DOMAIN codes
            PROVE  new[n] \in Card /\ new[n].code.of = n
        <4>1. new[n] = [nodes[n] EXCEPT !.code = codes[n]]
          BY <3>1
        <4>2. codes[n] \in Codes /\ codes[n].of = n
          BY <3>1
        <4>3. nodes[n] \in Card
          BY <2>1
        <4>4. [nodes[n] EXCEPT !.code = codes[n]] \in Card
              /\ [nodes[n] EXCEPT !.code = codes[n]].code = codes[n]
          BY <4>2, <4>3, CardsAre
        <4> QED BY <4>1, <4>2, <4>4
      <3> QED BY <2>1, <3>1
    <2>3. new \in [DOMAIN nodes -> Card] /\ \A n \in DOMAIN nodes : new[n].code.of = n
      BY <2>2
    <2> HIDE DEF new
    <2>4. new \in OwnNodes
      BY <2>1, <2>3, NodesAre
    <2>5. nodes' = new /\ drawings' = drawings
      BY DEF ChangeCodes, new
    <2> QED BY <2>4, <2>5 DEF OwnInv, OwnBoard
  <1>3. OwnWire'
    <2>1. timer' = [id |-> last, code |-> codes[last]]
      BY DEF ChangeCodes
    <2>2. timer' \in OwnSaves
      BY <2>1 DEF OwnSaves
    <2>3. UNCHANGED <<requests, orphans, adds, waiting>>
      BY DEF ChangeCodes, serverVars, pageVars
    <2> QED BY <2>2, <2>3 DEF OwnInv, OwnWire
  <1> QED BY <1>1, <1>2, <1>3 DEF OwnInv

LEMMA CardTyped ==
  ASSUME OwnInv, NEW n \in Ids, NEW t \in Texts, TypeInCard(n, t)
  PROVE  OwnInv'
  <1> DEFINE codes == [m \in {n} |-> [of |-> n, text |-> t]]
  <1>1. n \in DOMAIN codes /\ \A m \in DOMAIN codes : codes[m] \in Codes /\ codes[m].of = m
    BY DEF Codes
  <1>2. ChangeCodes(codes, n)
    BY DEF TypeInCard
  <1> HIDE DEF codes
  <1> QED BY <1>1, <1>2, CodesChanged

LEMMA FileTyped ==
  ASSUME OwnInv, NEW f, NEW n, NEW last, NEW t \in Texts, TypeInViewer(f, n, t, last)
  PROVE  OwnInv'
  <1> DEFINE codes == [m \in InFile(f) |-> IF m = n THEN [of |-> n, text |-> t] ELSE nodes[m].code]
  <1>1. \A m \in InFile(f) : m \in Ids /\ nodes[m].code \in Codes /\ nodes[m].code.of = m
    <2>1. DOMAIN nodes \in SUBSET Ids /\ \A m \in DOMAIN nodes : nodes[m] \in Card /\ nodes[m].code.of = m
      BY NodesHold DEF OwnInv, OwnBoard
    <2>2. InFile(f) \subseteq DOMAIN nodes
      BY DEF InFile
    <2> QED BY <2>1, <2>2, CardsAre
  <1>2. n \in InFile(f) /\ last \in InFile(f)
    BY DEF TypeInViewer
  <1>3. last \in DOMAIN codes /\ \A m \in DOMAIN codes : codes[m] \in Codes /\ codes[m].of = m
    BY <1>1, <1>2 DEF Codes
  <1>4. ChangeCodes(codes, last)
    BY DEF TypeInViewer
  <1> HIDE DEF codes
  <1> QED BY <1>1, <1>2, <1>3, <1>4, CodesChanged

\* Cards elsewhere.
LEMMA PlacesChanged ==
  ASSUME OwnBoard, NEW place, \A n \in DOMAIN nodes : place[n] \in Places
  PROVE  Moved(place) \in OwnNodes
  <1> DEFINE new == [n \in DOMAIN nodes |-> [nodes[n] EXCEPT !.at = place[n]]]
  <1>1. DOMAIN nodes \in SUBSET Ids /\ \A n \in DOMAIN nodes : nodes[n] \in Card /\ nodes[n].code.of = n
    BY NodesHold DEF OwnBoard
  <1>2. ASSUME NEW n \in DOMAIN nodes PROVE new[n] \in Card /\ new[n].code.of = n
    <2>1. new[n] = [nodes[n] EXCEPT !.at = place[n]] /\ place[n] \in Places
      OBVIOUS
    <2>2. [nodes[n] EXCEPT !.at = place[n]] \in Card
          /\ [nodes[n] EXCEPT !.at = place[n]].code = nodes[n].code
      BY <1>1, <2>1, CardsAre
    <2> QED BY <1>1, <2>1, <2>2
  <1>3. new \in [DOMAIN nodes -> Card] /\ \A n \in DOMAIN nodes : new[n].code.of = n
    BY <1>2
  <1> HIDE DEF new
  <1>4. new \in OwnNodes
    BY <1>1, <1>3, NodesAre
  <1> QED BY <1>4 DEF new, Moved

\* One more card, with a text of its own.
LEMMA CardAdded ==
  ASSUME OwnBoard, NEW a \in Ids, NEW c \in Card, c.code.of = a
  PROVE  [m \in DOMAIN nodes \cup {a} |-> IF m = a THEN c ELSE nodes[m]] \in OwnNodes
  <1> DEFINE new == [m \in DOMAIN nodes \cup {a} |-> IF m = a THEN c ELSE nodes[m]]
  <1>1. DOMAIN nodes \in SUBSET Ids /\ \A n \in DOMAIN nodes : nodes[n] \in Card /\ nodes[n].code.of = n
    BY NodesHold DEF OwnBoard
  <1>2. /\ DOMAIN nodes \cup {a} \in SUBSET Ids /\ new \in [DOMAIN nodes \cup {a} -> Card]
        /\ \A n \in DOMAIN nodes \cup {a} : new[n].code.of = n
    BY <1>1
  <1> HIDE DEF new
  <1>3. new \in OwnNodes
    BY <1>2, NodesAre
  <1> QED BY <1>3 DEF new

\* A save of a card's own text, if the timer holds one.
LEMMA SaveIsOwn ==
  ASSUME OwnInv, timer # NoSave
  PROVE  SaveOf(timer) \subseteq OwnRequests
  <1>1. timer \in OwnSaves
    BY DEF OwnInv, OwnWire
  <1>2. timer.id \in Ids /\ timer.code \in Codes /\ timer.code.of = timer.id
    BY <1>1 DEF OwnSaves
  <1> SUFFICES ASSUME timer.id \in DOMAIN nodes \ Notes
               PROVE  [op |-> "code", id |-> timer.id, code |-> timer.code,
                       at |-> nodes[timer.id].from, copy |-> NoCopy] \in OwnRequests
    BY DEF SaveOf
  <1>3. timer.id \in Loaded \cup NewCards
    BY <1>2 DEF Ids
  <1>4. nodes[timer.id].from \in Places
    <2>1. nodes[timer.id] \in Card
      BY NodesHold DEF OwnInv, OwnBoard
    <2> QED BY <2>1, CardsAre
  <1> QED BY <1>2, <1>3, <1>4 DEF OwnRequests, Request

LEMMA CardStepOwn ==
  ASSUME OwnInv, CardStep
  PROVE  OwnInv'
  <1>b. Board \in OwnBoards
    BY DEF OwnInv, OwnBoard, Board, OwnBoards
  <1>n. DOMAIN nodes \in SUBSET Ids /\ \A n \in DOMAIN nodes : nodes[n] \in Card /\ nodes[n].code.of = n
    BY NodesHold DEF OwnInv, OwnBoard
  <1>1. CASE TypingEnds \/ DragEnd \/ CloseLayoutPanel
    BY <1>1 DEF OwnInv, OwnBoard, OwnHistory, OwnTables, OwnWire, TypingEnds, DragEnd,
                CloseLayoutPanel, serverVars, pageVars
  <1>2. CASE SaveCode
    <2>1. requests' \subseteq OwnRequests
      BY <1>2, SaveIsOwn DEF SaveCode, OwnInv, OwnWire
    <2> QED BY <1>2, <2>1 DEF OwnInv, OwnBoard, OwnHistory, OwnTables, OwnWire, SaveCode, pageVars
  <1>3. CASE SavePositions
    <2>1. \A n \in DOMAIN nodes \ Notes :
            [op |-> "place", id |-> n, code |-> [of |-> n, text |-> Empty], at |-> nodes[n].at,
             copy |-> NoCopy] \in OwnRequests
      <3>1. ASSUME NEW n \in DOMAIN nodes \ Notes
            PROVE  n \in Loaded \cup NewCards /\ nodes[n].at \in Places
                   /\ [of |-> n, text |-> Empty] \in Codes
        BY <1>n, <3>1, CardsAre, TextAssumption DEF Ids, Codes
      <3> QED BY <3>1 DEF OwnRequests, Request
    <2>2. requests' \subseteq OwnRequests
      BY <1>3, <2>1 DEF SavePositions, OwnInv, OwnWire
    <2> QED BY <1>3, <2>2 DEF OwnInv, OwnBoard, OwnHistory, OwnTables, OwnWire, SavePositions,
                              browserVars, pageVars
  <1>4. ASSUME NEW n \in Ids, DragStart(n) PROVE OwnInv'
    <2>1. OwnHistory'
      BY <1>4, <1>b, Pushed DEF DragStart, OwnInv
    <2> QED BY <1>4, <2>1 DEF OwnInv, OwnBoard, OwnTables, OwnWire, DragStart, serverVars, pageVars
  <1>5. ASSUME NEW place \in [DOMAIN nodes -> Places], DragMove(place) \/ MoveSelected(place)
        PROVE  OwnInv'
    <2>1. nodes' \in OwnNodes
      BY <1>5, PlacesChanged DEF DragMove, MoveSelected, OwnInv
    <2> QED BY <1>5, <2>1 DEF OwnInv, OwnBoard, OwnHistory, OwnTables, OwnWire, DragMove, MoveSelected,
                              serverVars, pageVars
  <1>13. ASSUME NEW S, DeleteSelected(S) PROVE OwnInv'
    <2>1. nodes' = [n \in DOMAIN nodes \ S |-> nodes[n]]
      BY <1>13 DEF DeleteSelected
    <2>2. /\ nodes' \in [DOMAIN nodes \ S -> Card] /\ DOMAIN nodes \ S \in SUBSET Ids
          /\ \A n \in DOMAIN nodes \ S : nodes'[n].code.of = n
      BY <1>n, <2>1
    <2>3. nodes' \in OwnNodes
      BY <2>2, NodesAre
    <2> QED BY <1>13, <2>3 DEF OwnInv, OwnBoard, OwnHistory, OwnTables, OwnWire, DeleteSelected,
                               serverVars, pageVars
  <1>6. ASSUME NEW place \in [DOMAIN nodes -> Places], ApplyLayoutInstant(place) PROVE OwnInv'
    <2>1. nodes' \in OwnNodes
      BY <1>6, PlacesChanged DEF ApplyLayoutInstant, OwnInv
    <2>2. OwnHistory'
      BY <1>6, PushedUnless DEF ApplyLayoutInstant, OwnInv
    <2>3. waiting' \subseteq waiting
      BY <1>6 DEF ApplyLayoutInstant, Mounts
    <2> QED BY <1>6, <2>1, <2>2, <2>3 DEF OwnInv, OwnBoard, OwnTables, OwnWire, ApplyLayoutInstant,
                                          serverVars
  <1>7. ASSUME NEW n \in NewCards, NEW p \in Places, AddNode(n, p) PROVE OwnInv'
    <2>1. [id |-> n, at |-> p, seen |-> Board, made |-> FALSE, heard |-> TRUE] \in OwnAdds
      BY <1>b DEF OwnAdds
    <2>2. adds' \subseteq OwnAdds
      BY <1>7, <2>1 DEF AddNode, OwnInv, OwnWire
    <2> QED BY <1>7, <2>2 DEF OwnInv, OwnBoard, OwnHistory, OwnTables, OwnWire, AddNode,
                              browserVars, pageVars
  <1>8. ASSUME NEW n \in Notes, NEW p \in Places, InsertNote(n, p) PROVE OwnInv'
    <2>1. [code |-> [of |-> n, text |-> Empty], at |-> p, from |-> p] \in Card
      BY TextAssumption DEF Card, Codes, Ids
    <2>2. nodes' \in OwnNodes
      BY <1>8, <2>1, CardAdded DEF InsertNote, OwnInv, Ids
    <2>3. OwnHistory'
      BY <1>8, <1>b, Pushed DEF InsertNote, OwnInv
    <2> QED BY <1>8, <2>2, <2>3 DEF OwnInv, OwnBoard, OwnTables, OwnWire, InsertNote, serverVars, pageVars
  <1>9. ASSUME NEW a \in adds, NodeAdded(a) PROVE OwnInv'
    <2>1. a \in OwnAdds
      BY DEF OwnInv, OwnWire
    <2>2. a.id \in Ids /\ a.at \in Places /\ a.seen \in OwnBoards
      BY <2>1 DEF OwnAdds, Ids
    <2>3. [code |-> [of |-> a.id, text |-> "new"], at |-> a.at, from |-> a.at] \in Card
      BY <2>2 DEF Card, Codes
    <2>4. nodes' = [n \in DOMAIN nodes \cup {a.id} |->
                      IF n = a.id
                      THEN [code |-> [of |-> a.id, text |-> "new"], at |-> a.at, from |-> a.at]
                      ELSE nodes[n]]
      BY <1>9 DEF NodeAdded
    <2>5. nodes' \in OwnNodes
      BY <2>2, <2>3, <2>4, CardAdded DEF OwnInv
    <2>6. OwnHistory'
      BY <1>9, <2>2, Pushed DEF NodeAdded, OwnInv
    <2> QED BY <1>9, <2>5, <2>6 DEF OwnInv, OwnBoard, OwnTables, OwnWire, NodeAdded, pageVars
  <1>10. ASSUME NEW a \in adds, NodeNotAdded(a) PROVE OwnInv'
    BY <1>10 DEF OwnInv, OwnBoard, OwnHistory, OwnTables, OwnWire, NodeNotAdded, browserVars, pageVars
  <1>11. ASSUME NEW n \in Ids, NEW t \in Texts, TypeInCard(n, t) PROVE OwnInv'
    BY <1>11, CardTyped
  <1>12. ASSUME NEW n, NEW last, NEW t \in Texts, TypeInViewer(FileOf[n], n, t, last) PROVE OwnInv'
    BY <1>12, FileTyped
  <1> QED
    BY <1>1, <1>2, <1>3, <1>4, <1>5, <1>6, <1>7, <1>8, <1>9, <1>10, <1>11, <1>12,
       <1>13, GoneBack DEF CardStep

LEMMA StrokeStepOwn ==
  ASSUME OwnInv, StrokeStep
  PROVE  OwnInv'
  <1>b. Board \in OwnBoards
    BY DEF OwnInv, OwnBoard, Board, OwnBoards
  <1>1. ASSUME UNCHANGED <<nodes, timer, past, future, serverVars, pageVars>>,
               drawings' \in SUBSET Strokes
        PROVE  OwnInv'
    BY <1>1 DEF OwnInv, OwnBoard, OwnHistory, OwnTables, OwnWire, serverVars, pageVars
  <1>2. ASSUME UNCHANGED <<nodes, timer, serverVars, pageVars>>, drawings' \in SUBSET Strokes,
               PushHistorySnapshot(Board)
        PROVE  OwnInv'
    <2>1. OwnHistory'
      BY <1>2, <1>b, Pushed DEF OwnInv
    <2> QED BY <1>2, <2>1 DEF OwnInv, OwnBoard, OwnTables, OwnWire, serverVars, pageVars
  <1>3. drawings \in SUBSET Strokes
    BY DEF OwnInv, OwnBoard
  <1>4. ASSUME NEW t, ChooseTool(t) PROVE OwnInv'
    BY <1>1, <1>3, <1>4 DEF ChooseTool
  <1>5. ASSUME NEW x \in Strokes, Draw(x) PROVE OwnInv'
    BY <1>2, <1>3, <1>5 DEF Draw
  <1>6. ASSUME NEW S \in SUBSET Strokes, EraseStart(S) PROVE OwnInv'
    BY <1>2, <1>3, <1>6 DEF EraseStart
  <1>7. ASSUME NEW S \in SUBSET Strokes, EraseMore(S) PROVE OwnInv'
    BY <1>1, <1>3, <1>7 DEF EraseMore
  <1>8. CASE EraseEnd
    BY <1>1, <1>3, <1>8 DEF EraseEnd
  <1>9. CASE ClearBoardDrawings
    BY <1>1, <1>3, <1>9 DEF ClearBoardDrawings
  <1> QED BY <1>4, <1>5, <1>6, <1>7, <1>8, <1>9 DEF StrokeStep

-----------------------------------------------------------------------------
\* Answers, jobs and handlers.

\* The rows at other places.
LEMMA ReplacedRowsAreOwn ==
  ASSUME OwnTables, NEW place \in [DOMAIN rows -> Places], Replace(place)
  PROVE  rows' \in OwnRows
  <1>1. DOMAIN rows \in SUBSET (Loaded \cup NewCards)
        /\ \A n \in DOMAIN rows : rows[n] \in Row /\ rows[n].code.of = n
    BY RowsHold DEF OwnTables
  <1>2. ASSUME NEW n \in DOMAIN rows
        PROVE  /\ [rows[n] EXCEPT !.at = place[n]] \in Row
               /\ [rows[n] EXCEPT !.at = place[n]].code.of = n
    BY <1>1, <1>2 DEF Row
  <1>3. rows' = [n \in DOMAIN rows |-> [rows[n] EXCEPT !.at = place[n]]]
    BY DEF Replace
  <1>4. rows' \in [DOMAIN rows -> Row] /\ \A n \in DOMAIN rows : rows'[n].code.of = n
    BY <1>2, <1>3
  <1> QED BY <1>1, <1>4, RowsAre

\* One more row, or one row anew, with a text of its own.
LEMMA RowSavedIsOwn ==
  ASSUME OwnTables, NEW i \in Loaded \cup NewCards, NEW r \in Row, r.code.of = i,
         rows' = [n \in DOMAIN rows \cup {i} |-> IF n = i THEN r ELSE rows[n]]
  PROVE  rows' \in OwnRows
  <1>1. DOMAIN rows \in SUBSET (Loaded \cup NewCards)
        /\ \A n \in DOMAIN rows : rows[n] \in Row /\ rows[n].code.of = n
    BY RowsHold DEF OwnTables
  <1>2. /\ DOMAIN rows \cup {i} \in SUBSET (Loaded \cup NewCards)
        /\ rows' \in [DOMAIN rows \cup {i} -> Row]
        /\ \A n \in DOMAIN rows \cup {i} : rows'[n].code.of = n
    BY <1>1
  <1> QED BY <1>2, RowsAre

LEMMA LayoutStepOwn ==
  ASSUME OwnInv, LayoutStep
  PROVE  OwnInv'
  <1>b. Board \in OwnBoards
    BY DEF OwnInv, OwnBoard, Board, OwnBoards
  <1>h. ASSUME NEW b \in OwnBoards, AutoLayout(b) PROVE OwnHistory'
    BY <1>h, Pushed DEF AutoLayout, OwnInv, OwnHistory
  <1>1. CASE PlaceAgain
    <2>1. OwnHistory'
      BY <1>1, <1>b, <1>h DEF PlaceAgain
    <2> QED BY <1>1, <2>1 DEF PlaceAgain, OwnInv, OwnBoard, OwnTables, OwnWire, serverVars
  <1>7. CASE LayoutClick
    <2>1. waiting' \subseteq OwnWaits
      BY <1>7, <1>b DEF LayoutClick, Mounts, OwnWaits, OwnInv, OwnWire
    <2> QED BY <1>7, <2>1 DEF LayoutClick, OwnInv, OwnBoard, OwnHistory, OwnTables, OwnWire,
                              browserVars, serverVars
  <1>8. ASSUME NEW w \in waiting, LayoutTimer(w) PROVE OwnInv'
    <2>1. w.seen \in OwnBoards
      BY DEF OwnInv, OwnWire, OwnWaits
    <2>2. OwnHistory'
      BY <1>8, <1>h, <2>1 DEF LayoutTimer
    <2> QED BY <1>8, <2>2 DEF LayoutTimer, OwnInv, OwnBoard, OwnTables, OwnWire, serverVars
  <1>2. CASE LayoutQueued
    BY <1>2 DEF LayoutQueued, OwnInv, OwnBoard, OwnHistory, OwnTables, OwnWire, browserVars, serverVars
  <1>3. CASE LayoutFetched
    BY <1>3 DEF LayoutFetched, OwnInv, OwnBoard, OwnHistory, OwnTables, OwnWire, browserVars, serverVars
  <1>4. CASE LayoutArrives
    <2>1. nodes' \in OwnNodes
      BY <1>4, ShownRowsAreOwn DEF LayoutArrives, OwnInv, OwnTables
    <2> QED BY <1>4, <2>1, NothingIsOwn DEF LayoutArrives, OwnInv, OwnBoard, OwnHistory, OwnTables,
                                            OwnWire, serverVars
  <1>5. CASE LayoutFails
    BY <1>5, NothingIsOwn DEF LayoutFails, OwnInv, OwnBoard, OwnHistory, OwnTables, OwnWire,
                              browserVars, serverVars
  <1>6. CASE LayoutLost
    BY <1>6 DEF LayoutLost, OwnInv, OwnBoard, OwnHistory, OwnTables, OwnWire, browserVars
  <1> QED BY <1>1, <1>2, <1>3, <1>4, <1>5, <1>6, <1>7, <1>8 DEF LayoutStep

LEMMA ServerStepOwn ==
  ASSUME OwnInv, ServerStep
  PROVE  OwnInv'
  <1>1. ASSUME UNCHANGED <<browserVars, orphans, adds, waiting, fetched, boardNodes>>,
               rows' \in OwnRows, requests' \subseteq OwnRequests
        PROVE  OwnInv'
    BY <1>1 DEF OwnInv, OwnBoard, OwnHistory, OwnTables, OwnWire, browserVars
  <1>2. rows \in OwnRows /\ requests \subseteq OwnRequests /\ OwnTables
    BY DEF OwnInv, OwnTables, OwnWire
  <1>3. ASSUME NEW r \in requests, UpdateReads(r) PROVE OwnInv'
    <2>1. ASSUME r.id \in DOMAIN rows PROVE [r EXCEPT !.copy = rows[r.id]] \in OwnRequests
      <3>1. rows[r.id] \in Row /\ rows[r.id].code.of = r.id
        BY <2>1, <1>2, RowsHold
      <3>2. r \in Request /\ r.code.of = r.id
        BY <1>2 DEF OwnRequests
      <3> QED BY <3>1, <3>2 DEF OwnRequests, Request
    <2>2. requests' \subseteq OwnRequests
      BY <1>2, <1>3, <2>1 DEF UpdateReads
    <2> QED BY <1>1, <1>2, <1>3, <2>2 DEF UpdateReads, pageVars
  <1>4. ASSUME NEW r \in requests, UpdateSaves(r) PROVE OwnInv'
    <2>1. r \in OwnRequests /\ r.copy # NoCopy
      BY <1>2, <1>4 DEF UpdateSaves
    <2>2. /\ r.id \in Loaded \cup NewCards /\ r.code \in Codes /\ r.at \in Places
          /\ r.copy \in Row /\ r.copy.code.of = r.id /\ r.code.of = r.id
      BY <2>1 DEF OwnRequests, Request
    <2>3. Updated(r) \in Row /\ Updated(r).code.of = r.id
      BY <2>2 DEF Updated, Row
    <2>4. rows' \in OwnRows
      BY <1>2, <1>4, <2>2, <2>3, RowSavedIsOwn DEF UpdateSaves
    <2> QED BY <1>1, <1>2, <1>4, <2>4 DEF UpdateSaves, pageVars
  <1>5. ASSUME NEW r \in requests, UpdateFails(r) PROVE OwnInv'
    BY <1>1, <1>2, <1>5 DEF UpdateFails, pageVars
  <1>6. ASSUME NEW a \in adds, NodeCreated(a) PROVE OwnInv'
    <2>1. a \in OwnAdds
      BY DEF OwnInv, OwnWire
    <2>2. a.id \in Loaded \cup NewCards /\ a.at \in Places /\ [a EXCEPT !.made = TRUE] \in OwnAdds
      BY <2>1 DEF OwnAdds
    <2>3. [code |-> [of |-> a.id, text |-> "new"], at |-> a.at] \in Row
      BY <2>2 DEF Row, Codes, Ids
    <2>4. rows' = [n \in DOMAIN rows \cup {a.id} |->
                     IF n = a.id THEN [code |-> [of |-> a.id, text |-> "new"], at |-> a.at]
                     ELSE rows[n]]
      BY <1>6 DEF NodeCreated
    <2>5. rows' \in OwnRows
      BY <1>2, <2>2, <2>3, <2>4, RowSavedIsOwn
    <2>6. adds' \subseteq OwnAdds
      BY <1>6, <2>2 DEF NodeCreated, OwnInv, OwnWire
    <2> QED BY <1>6, <2>5, <2>6 DEF NodeCreated, OwnInv, OwnBoard, OwnHistory, OwnTables, OwnWire,
                                    browserVars, pageVars
  <1>7. ASSUME NEW place \in [DOMAIN rows -> Places], LayoutSucceeds(place) PROVE OwnInv'
    <2>1. rows' \in OwnRows
      BY <1>2, <1>7, ReplacedRowsAreOwn DEF LayoutSucceeds
    <2> QED BY <1>1, <1>2, <1>7, <2>1 DEF LayoutSucceeds
  <1>8. ASSUME NEW place \in [DOMAIN rows -> Places], StrayLayoutSucceeds(place) PROVE OwnInv'
    <2>1. rows' \in OwnRows
      BY <1>2, <1>8, ReplacedRowsAreOwn DEF StrayLayoutSucceeds
    <2> QED BY <1>1, <1>2, <1>8, <2>1 DEF StrayLayoutSucceeds, pageVars
  <1>9. CASE LayoutJobFails
    BY <1>1, <1>2, <1>9 DEF LayoutJobFails, serverVars
  <1>10. ASSUME NEW F \in SUBSET Loaded, NEW written \in SUBSET F, Regenerate(F, written) PROVE OwnInv'
    <2>1. rows' = [n \in F |->
                     [code |-> [of |-> n, text |-> IF n \in written THEN "generated" ELSE "loaded"],
                      at |-> Start]]
      BY <1>10 DEF Regenerate
    <2>2. \A n \in F : [code |-> [of |-> n, text |-> IF n \in written THEN "generated" ELSE "loaded"],
                         at |-> Start] \in Row
      BY TextAssumption, PlaceAssumption DEF Row, Codes, Ids
    <2>3. rows' \in [F -> Row] /\ \A n \in F : rows'[n].code.of = n
      BY <2>1, <2>2
    <2>4. rows' \in OwnRows
      BY <2>3, RowsAre
    <2> QED BY <1>1, <1>2, <1>10, <2>4 DEF Regenerate, pageVars
  <1> QED BY <1>3, <1>4, <1>5, <1>6, <1>7, <1>8, <1>9, <1>10 DEF ServerStep

LEMMA PageStepOwn ==
  ASSUME OwnInv, PageStep
  PROVE  OwnInv'
  <1>1. CASE Unmount
    <2>1. orphans' \subseteq OwnRequests
      BY <1>1, SaveIsOwn DEF Unmount, OwnInv, OwnWire
    <2>2. \A a \in OwnAdds : [a EXCEPT !.heard = FALSE] \in OwnAdds
      BY DEF OwnAdds
    <2>3. adds' \subseteq OwnAdds
      BY <1>1, <2>2 DEF Unmount, OwnInv, OwnWire
    <2>4. OwnWire'
      BY <1>1, <2>1, <2>3 DEF Unmount, OwnInv, OwnWire
    <2>5. OwnBoard'
      BY <1>1, NothingIsOwn DEF Unmount, OwnBoard
    <2>6. OwnHistory'
      BY <1>1, EmptySeq DEF Unmount, OwnHistory
    <2>7. OwnTables'
      BY <1>1, NothingIsOwn DEF Unmount, OwnInv, OwnTables
    <2> QED BY <2>4, <2>5, <2>6, <2>7 DEF OwnInv
  <1>2. CASE WorkspaceFetched
    BY <1>2 DEF WorkspaceFetched, OwnInv, OwnBoard, OwnHistory, OwnTables, OwnWire, browserVars, serverVars
  <1>s. ASSUME NEW r \in OwnRows, BoardShows(r) PROVE nodes' \in OwnNodes /\ waiting' \subseteq OwnWaits
    <2>1. ToFlowNodes(r) \in OwnNodes
      BY ShownRowsAreOwn
    <2>2. [by |-> "mount", seen |-> [nodes |-> ToFlowNodes(r), drawings |-> {}]] \in OwnWaits
      BY <2>1 DEF OwnWaits, OwnBoards
    <2> QED BY <1>s, <2>1, <2>2 DEF BoardShows
  <1>3. CASE Mount
    <2>1. nodes' \in OwnNodes /\ waiting' \subseteq OwnWaits
      BY <1>3, <1>s DEF Mount, OwnInv, OwnTables
    <2> QED BY <1>3, <2>1, NothingIsOwn DEF Mount, OwnInv, OwnBoard, OwnHistory, OwnTables, OwnWire, serverVars
  <1>4. CASE MountStale
    <2>1. nodes' \in OwnNodes /\ waiting' \subseteq OwnWaits
      BY <1>4, <1>s DEF MountStale, OwnInv, OwnTables
    <2> QED BY <1>4, <2>1, NothingIsOwn DEF MountStale, OwnInv, OwnBoard, OwnHistory, OwnTables, OwnWire,
                                            serverVars
  <1>5. ASSUME NEW r \in orphans, SaveFromOldBoard(r) PROVE OwnInv'
    BY <1>5 DEF SaveFromOldBoard, OwnInv, OwnBoard, OwnHistory, OwnTables, OwnWire, browserVars, pageVars
  <1> QED BY <1>1, <1>2, <1>3, <1>4, <1>5 DEF PageStep

-----------------------------------------------------------------------------
LEMMA OwnInit == Init => OwnInv
  <1> SUFFICES ASSUME Init PROVE OwnInv
    OBVIOUS
  <1>1. rows \in [Loaded -> Row] /\ \A n \in Loaded : rows[n].code.of = n
    BY TextAssumption, PlaceAssumption DEF Init, Row, Codes, Ids
  <1>2. rows \in OwnRows
    BY <1>1, RowsAre
  <1>3. nodes \in OwnNodes
    BY <1>2, ShownRowsAreOwn DEF Init
  <1>4. OwnHistory
    BY EmptySeq DEF Init, OwnHistory
  <1> QED BY <1>2, <1>3, <1>4, NothingIsOwn DEF Init, OwnInv, OwnBoard, OwnTables, OwnWire

LEMMA OwnStep ==
  ASSUME OwnInv, [Next]_vars
  PROVE  OwnInv'
  <1>1. CASE UNCHANGED vars
    BY <1>1 DEF vars, OwnInv, OwnBoard, OwnHistory, OwnTables, OwnWire
  <1> QED BY <1>1, CardStepOwn, StrokeStepOwn, LayoutStepOwn, ServerStepOwn, PageStepOwn DEF Next

LEMMA OwnAlways == Spec => []OwnInv
  <1>1. OwnInv /\ [Next]_vars => OwnInv'
    BY OwnStep
  <1> QED BY <1>1, OwnInit, PTL DEF Spec

\* Through undo, timers, stale copies in the handlers, layouts and reloads, a text
\* stays in the row and on the card of its node.
THEOREM TextsStay == Spec => []TextsStayWithTheirCard
  <1>1. OwnInv => TextsStayWithTheirCard
    <2> SUFFICES ASSUME OwnInv PROVE TextsStayWithTheirCard
      OBVIOUS
    <2>1. \A n \in DOMAIN rows : rows[n].code.of = n
      BY RowsHold DEF OwnInv, OwnTables
    <2>2. \A n \in DOMAIN nodes : nodes[n].code.of = n
      BY NodesHold DEF OwnInv, OwnBoard
    <2>3. \A r \in requests \cup orphans : r.code.of = r.id /\ r.id \notin Notes
      BY IdsAssumption DEF OwnInv, OwnWire, OwnRequests, Request
    <2>4. ASSUME NEW i \in DOMAIN past, NEW n \in DOMAIN past[i].nodes
          PROVE  past[i].nodes[n].code.of = n
      <3>1. past[i] \in OwnBoards
        BY LenProperties, ElementOfSeq DEF OwnInv, OwnHistory
      <3>2. past[i].nodes \in OwnNodes
        BY <3>1 DEF OwnBoards
      <3> QED BY <3>2, NodesHold
    <2> QED BY <2>1, <2>2, <2>3, <2>4 DEF TextsStayWithTheirCard
  <1> QED BY <1>1, OwnAlways, PTL

-----------------------------------------------------------------------------
\* Undo and redo.

LEMMA Stays ==
  ASSUME UNCHANGED <<nodes, drawings, past, future>>
  PROVE  History!Amend
  BY DEF History!Amend, Board

LEMMA GoesOn ==
  ASSUME UNCHANGED <<past, future>>,
         \/ gesture.typing \/ gesture.adjusting \/ gesture.dragging # NoId \/ gesture.erasing
         \/ layout = "fetched" \/ screen # "board"
  PROVE  History!Amend
  BY DEF History!Amend

LEMMA Recorded ==
  ASSUME PushHistorySnapshot(Board)
  PROVE  History!RecordGesture
  BY DEF PushHistorySnapshot, Trim, History!RecordGesture, History!Trim

LEMMA RecordedOnce ==
  ASSUME NEW going, PushUnless(going), going => gesture.typing \/ gesture.adjusting
  PROVE  History!RecordGesture \/ History!Amend
  <1>1. CASE going
    BY <1>1, GoesOn DEF PushUnless
  <1>2. CASE ~ going
    BY <1>2, Recorded DEF PushUnless
  <1> QED BY <1>1, <1>2

LEMMA BoardIs ==
  ASSUME NEW b \in OwnBoards, Upon(b)
  PROVE  Board' = b
  <1>1. b = [nodes |-> b.nodes, drawings |-> b.drawings]
    BY DEF OwnBoards
  <1> QED BY <1>1 DEF Upon, Board

LEMMA HistoryStep ==
  ASSUME OwnInv, Next
  PROVE  History!HistoryNext
  <1>b. past \in Seq(OwnBoards) /\ future \in Seq(OwnBoards)
    BY DEF OwnInv, OwnHistory
  <1>1. ASSUME Undo PROVE History!UndoOnce
    <2>1. past # << >> /\ past[Len(past)] \in OwnBoards /\ Upon(past[Len(past)])
      BY <1>1, <1>b, LastTaken DEF Undo
    <2>2. Board' = past[Len(past)]
      BY <2>1, BoardIs
    <2> QED BY <1>1, <2>1, <2>2 DEF Undo, History!UndoOnce
  <1>2. ASSUME Redo PROVE History!RedoOnce
    <2>1. future # << >> /\ future[Len(future)] \in OwnBoards /\ Upon(future[Len(future)])
      BY <1>2, <1>b, LastTaken DEF Redo
    <2>2. Board' = future[Len(future)]
      BY <2>1, BoardIs
    <2> QED BY <1>2, <2>1, <2>2 DEF Redo, History!RedoOnce
  <1>3. ASSUME NEW codes, NEW last, ChangeCodes(codes, last)
        PROVE  History!RecordGesture \/ History!Amend
    BY <1>3, RecordedOnce DEF ChangeCodes
  <1>4. ASSUME NEW place, DragMove(place) PROVE History!Amend
    <2>1. gesture.dragging # NoId
      <3>1. DOMAIN nodes \subseteq Ids
        BY NodesHold DEF OwnInv, OwnBoard
      <3> QED BY <1>4, <3>1, IdsAssumption DEF DragMove
    <2> QED BY <1>4, <2>1, GoesOn DEF DragMove
  <1>12. ASSUME NEW place, MoveSelected(place) PROVE History!Unrecorded
    <2>1. /\ DOMAIN nodes' = DOMAIN nodes /\ \A n \in DOMAIN nodes : nodes'[n].code = nodes[n].code
          /\ UNCHANGED <<drawings, past, future>>
      <3>1. \A n \in DOMAIN nodes : nodes[n] \in Card
        BY NodesHold DEF OwnInv, OwnBoard
      <3> QED BY <1>12, <3>1 DEF MoveSelected, Moved, Card
    <2> QED BY <2>1 DEF History!Unrecorded, Board
  <1>13. ASSUME NEW S, DeleteSelected(S) PROVE History!Unrecorded
    BY <1>13 DEF DeleteSelected, History!Unrecorded, Board
  <1>5. ASSUME NEW place, ApplyLayoutInstant(place) PROVE History!RecordGesture \/ History!Amend
    BY <1>5, RecordedOnce DEF ApplyLayoutInstant
  <1>6. ASSUME NEW a \in adds, NodeAdded(a) PROVE History!RecordEarlier
    <2>1. a.seen \in {x.seen : x \in {y \in adds : y.made /\ y.heard}} \cup {w.seen : w \in waiting}
      BY <1>6 DEF NodeAdded
    <2>2. past' = Trim(Append(past, a.seen)) /\ future' = << >>
      BY <1>6 DEF NodeAdded, PushHistorySnapshot
    <2> QED BY <2>1, <2>2 DEF History!RecordEarlier, History!Trim, Trim
  <1>7. ASSUME CardStep PROVE History!HistoryNext
    <2>1. CASE TypingEnds \/ SaveCode \/ DragEnd \/ CloseLayoutPanel \/ SavePositions
      BY <2>1, Stays DEF TypingEnds, SaveCode, DragEnd, CloseLayoutPanel, SavePositions, browserVars,
                         History!HistoryNext
    <2>2. ASSUME NEW n, NEW t, TypeInCard(n, t) PROVE History!HistoryNext
      BY <2>2, <1>3 DEF TypeInCard, History!HistoryNext
    <2>3. ASSUME NEW f, NEW n, NEW t, NEW last, TypeInViewer(f, n, t, last) PROVE History!HistoryNext
      BY <2>3, <1>3 DEF TypeInViewer, History!HistoryNext
    <2>4. ASSUME NEW n, DragStart(n) PROVE History!HistoryNext
      BY <2>4, Recorded DEF DragStart, History!HistoryNext
    <2>5. ASSUME NEW n, NEW p, AddNode(n, p) PROVE History!HistoryNext
      BY <2>5, Stays DEF AddNode, browserVars, History!HistoryNext
    <2>6. ASSUME NEW n, NEW p, InsertNote(n, p) PROVE History!HistoryNext
      BY <2>6, Recorded DEF InsertNote, History!HistoryNext
    <2>7. ASSUME NEW a, NodeNotAdded(a) PROVE History!HistoryNext
      BY <2>7, Stays DEF NodeNotAdded, browserVars, History!HistoryNext
    <2> QED BY <1>7, <1>1, <1>2, <1>4, <1>5, <1>6, <1>12, <1>13, <2>1, <2>2, <2>3, <2>4, <2>5, <2>6, <2>7
            DEF CardStep, History!HistoryNext
  <1>8. ASSUME StrokeStep PROVE History!HistoryNext
    <2>1. ASSUME NEW t, ChooseTool(t) PROVE History!Amend
      BY <2>1, Stays DEF ChooseTool
    <2>2. ASSUME NEW x, Draw(x) PROVE History!RecordGesture
      BY <2>2, Recorded DEF Draw
    <2>3. ASSUME NEW S, EraseStart(S) PROVE History!RecordGesture
      BY <2>3, Recorded DEF EraseStart
    <2>4. ASSUME NEW S, EraseMore(S) PROVE History!Amend
      BY <2>4, GoesOn DEF EraseMore
    <2>5. ASSUME EraseEnd PROVE History!Amend
      BY <2>5, Stays DEF EraseEnd
    <2>6. ASSUME ClearBoardDrawings PROVE History!Wipe
      <3>1. Board' = [Board EXCEPT !.drawings = {}]
        BY <2>6 DEF ClearBoardDrawings, Board
      <3> QED BY <2>6, <3>1 DEF ClearBoardDrawings, History!Wipe
    <2> QED BY <1>8, <2>1, <2>2, <2>3, <2>4, <2>5, <2>6 DEF StrokeStep, History!HistoryNext
  <1>9. ASSUME LayoutStep PROVE History!HistoryNext
    <2>1. CASE PlaceAgain
      <3>1. CASE layout = "idle"
        BY <2>1, <3>1, Recorded DEF PlaceAgain, AutoLayout, History!HistoryNext
      <3>2. CASE layout # "idle"
        BY <2>1, <3>2, Stays DEF PlaceAgain, AutoLayout, History!HistoryNext
      <3> QED BY <3>1, <3>2
    <2>4. CASE LayoutClick
      BY <2>4, Stays DEF LayoutClick, browserVars, History!HistoryNext
    <2>5. ASSUME NEW w \in waiting, LayoutTimer(w) PROVE History!HistoryNext
      <3>1. CASE layout = "idle"
        <4>1. past' = Trim(Append(past, w.seen)) /\ future' = << >>
          BY <2>5, <3>1 DEF LayoutTimer, AutoLayout, PushHistorySnapshot
        <4> QED BY <4>1 DEF History!RecordEarlier, History!Trim, Trim, History!HistoryNext
      <3>2. CASE layout # "idle"
        BY <2>5, <3>2, Stays DEF LayoutTimer, AutoLayout, History!HistoryNext
      <3> QED BY <3>1, <3>2
    <2>2. CASE LayoutArrives
      BY <2>2, GoesOn DEF LayoutArrives, History!HistoryNext
    <2>3. CASE LayoutQueued \/ LayoutFetched \/ LayoutFails \/ LayoutLost
      BY <2>3, Stays DEF LayoutQueued, LayoutFetched, LayoutFails, LayoutLost, browserVars,
                         History!HistoryNext
    <2> QED BY <1>9, <2>1, <2>2, <2>3, <2>4, <2>5 DEF LayoutStep
  <1>10. ASSUME ServerStep PROVE History!HistoryNext
    <2>1. UNCHANGED browserVars
      BY <1>10 DEF ServerStep, UpdateReads, UpdateSaves, UpdateFails, NodeCreated, LayoutSucceeds,
                   StrayLayoutSucceeds, LayoutJobFails, Regenerate
    <2> QED BY <2>1, Stays DEF browserVars, History!HistoryNext
  <1>11. ASSUME PageStep PROVE History!HistoryNext
    <2>1. ASSUME Unmount PROVE History!Forget
      BY <2>1 DEF Unmount, History!Forget
    <2>2. CASE Mount \/ MountStale
      BY <2>2, GoesOn DEF Mount, MountStale, History!HistoryNext
    <2>3. ASSUME NEW r, SaveFromOldBoard(r) PROVE History!HistoryNext
      BY <2>3, Stays DEF SaveFromOldBoard, browserVars, History!HistoryNext
    <2>4. CASE WorkspaceFetched
      BY <2>4, Stays DEF WorkspaceFetched, browserVars, History!HistoryNext
    <2> QED BY <1>11, <2>1, <2>2, <2>3, <2>4 DEF PageStep, History!HistoryNext
  <1> QED BY <1>7, <1>8, <1>9, <1>10, <1>11 DEF Next

\* The board implements UndoHistory: whatever a person, a timer, an answer or a
\* job does to it is a gesture that was recorded, a part of one, a wipe, an undo,
\* a redo, a reload, or cards that the library moves or takes off unrecorded.
THEOREM ImplementsHistory == Spec => HistorySpec
  <1>1. Init => History!HistoryInit
    BY DEF Init, History!HistoryInit
  <1>2. OwnInv /\ [Next]_vars => [History!HistoryNext]_(History!historyVars)
    <2> SUFFICES ASSUME OwnInv, [Next]_vars
                 PROVE  [History!HistoryNext]_(History!historyVars)
      OBVIOUS
    <2>1. CASE Next
      BY <2>1, HistoryStep
    <2>2. CASE UNCHANGED vars
      BY <2>2 DEF vars, History!historyVars, Board
    <2> QED BY <2>1, <2>2
  <1> QED BY <1>1, <1>2, OwnAlways, PTL DEF Spec, HistorySpec, History!HistorySpec
=============================================================================
