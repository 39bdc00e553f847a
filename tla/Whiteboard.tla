----------------------------- MODULE Whiteboard -----------------------------
(***************************************************************************)
(* The whiteboard of a variant: cards with code and a place, strokes drawn *)
(* by hand, undo and redo, and how changes reach the rows of the nodes     *)
(* table.  Code is saved by a timer after the last keystroke, places by a  *)
(* button, new cards by a call, an automatic layout by a job; each answer  *)
(* comes back to a board that has changed meanwhile.                       *)
(***************************************************************************)
EXTENDS Naturals, Sequences, FiniteSets

CONSTANTS
  Loaded,        \* nodes the variant has when the workspace is opened
  NewCards,      \* ids the server may give to nodes made on the board
  Notes,         \* ids of memos and images, which only the browser knows
  FileOf,        \* FileOf[n]: the file a node is in
  Texts,         \* what a person may type into a card, Empty among it
  Empty,         \* the empty text
  Places,        \* coordinates
  Start,         \* where the server's grid puts a card, told apart from elsewhere only
  Origin,        \* the origin of the board
  Strokes,       \* lines drawn by hand
  MaxHistory,    \* boards kept to go back to (100 in the code)
  MaxInFlight,   \* bound: saves in flight at once
  MaxGestures,   \* bound: what a person does
  MaxReloads     \* bound: workspaces loaded anew

Ids == Loaded \cup NewCards \cup Notes
NoId == "none"

ASSUME IdsAssumption ==
  /\ Loaded \cap (NewCards \cup Notes) = {}
  /\ NewCards \cap Notes = {}
  /\ NoId \notin Ids
ASSUME TextAssumption == Empty \in Texts
ASSUME PlaceAssumption == {Start, Origin} \subseteq Places /\ Start # Origin
ASSUME HistoryAssumption == MaxHistory \in Nat

VARIABLES
  nodes,      \* the cards on the board, by id
  drawings,   \* the strokes on it
  past,       \* historyPastRef
  future,     \* historyFutureRef
  gesture,    \* gestures going on: typing, adjusting, dragging, erasing
  tool,       \* hand, pen, eraser or lasso
  timer,      \* codeSaveTimerRef
  orphans,    \* timers of boards that are gone
  requests,   \* updateNode calls in flight
  adds,       \* createNode calls in flight
  layout,     \* how far an automatic layout is
  waiting,    \* timers that will begin a layout, with the board of their closure
  strays,     \* layout jobs whose board is gone
  fetched,    \* the answer of getVariantWorkspace on its way
  boardNodes, \* the rows the page holds, which the board began with
  screen,     \* whether the board is mounted
  rows,       \* the nodes table
  used,       \* gestures and reloads so far, and ids the server has given
  rewritten   \* nodes whose code an apply job has written

vars == <<nodes, drawings, past, future, gesture, tool, timer, orphans, requests,
          adds, layout, waiting, strays, fetched, boardNodes, screen, rows, used, rewritten>>
browserVars == <<nodes, drawings, past, future, gesture, tool, timer>>
serverVars == <<orphans, requests, adds, strays, rows, rewritten>>
pageVars == <<layout, waiting, fetched, boardNodes, screen>>

-----------------------------------------------------------------------------
\* A text knows the card it was written in: whatever ends up elsewhere shows.
Codes == [of : Ids, text : Texts \cup {"loaded", "new", "generated"}]

\* A card: its code, where it is shown, and the coordinates its data came with.
Card == [code : Codes, at : Places, from : Places]
Row == [code : Codes, at : Places]
IsBoard(b) ==
  /\ DOMAIN b = {"nodes", "drawings"}
  /\ DOMAIN b.nodes \subseteq Ids
  /\ \A n \in DOMAIN b.nodes : b.nodes[n] \in Card
  /\ b.drawings \subseteq Strokes
AreRows(r) ==
  /\ DOMAIN r \subseteq Loaded \cup NewCards
  /\ \A n \in DOMAIN r : r[n] \in Row

NoSave == [id |-> NoId]
Save == {NoSave} \cup [id : Ids, code : Codes]
NoCopy == [of |-> NoId]
\* An updateNode call; copy is the row its handler has read.
Request == [op : {"code", "place"}, id : Loaded \cup NewCards, code : Codes,
            at : Places, copy : {NoCopy} \cup Row]
\* A createNode call, with the board its handler has seen.
IsAdd(a) ==
  /\ DOMAIN a = {"id", "at", "seen", "made", "heard"}
  /\ a.id \in NewCards /\ a.at \in Places /\ IsBoard(a.seen)
  /\ a.made \in BOOLEAN /\ a.heard \in BOOLEAN
\* A click on the layout button, or a board that began with all cards on one point.
IsWaiting(w) ==
  /\ DOMAIN w = {"by", "seen"}
  /\ w.by \in {"click", "mount"} /\ IsBoard(w.seen)
NoRows == << >>

Board == [nodes |-> nodes, drawings |-> drawings]
Upon(b) == nodes' = b.nodes /\ drawings' = b.drawings

\* The cards shown for the rows of a workspace.
ToFlowNodes(r) ==
  [n \in DOMAIN r |-> [code |-> r[n].code, at |-> r[n].at, from |-> r[n].at]]

Init ==
  /\ rows = [n \in Loaded |-> [code |-> [of |-> n, text |-> "loaded"], at |-> Start]]
  /\ nodes = ToFlowNodes(rows)
  /\ drawings = {} /\ past = << >> /\ future = << >>
  /\ gesture = [typing |-> FALSE, adjusting |-> FALSE, dragging |-> NoId, erasing |-> FALSE]
  /\ tool = "hand" /\ timer = NoSave /\ orphans = {} /\ requests = {} /\ adds = {}
  /\ layout = "idle" /\ waiting = {} /\ strays = 0 /\ fetched = NoRows
  /\ boardNodes = rows /\ screen = "board"
  /\ used = [gestures |-> 0, reloads |-> 0, ids |-> {}] /\ rewritten = {}

-----------------------------------------------------------------------------
\* History.

Trim(s) == IF Len(s) > MaxHistory THEN Tail(s) ELSE s

PushHistorySnapshot(b) ==
  /\ past' = Trim(Append(past, b))
  /\ future' = << >>

\* The first change of a gesture that goes on is recorded, the next ones are not.
PushUnless(going) ==
  IF going THEN UNCHANGED <<past, future>> ELSE PushHistorySnapshot(Board)

\* A person does something on the board that is shown, for which the server
\* gives the ids in S.
GestureGiven(S) ==
  /\ screen = "board"
  /\ used.gestures < MaxGestures
  /\ S \cap used.ids = {}
  /\ used' = [used EXCEPT !.gestures = @ + 1, !.ids = @ \cup S]
Gesture == GestureGiven({})

\* Mouse gestures need the pointer.
PointerFree == gesture.dragging = NoId

Undo ==
  /\ screen = "board"
  /\ past # << >>
  /\ past' = SubSeq(past, 1, Len(past) - 1)
  /\ future' = Append(future, Board)
  /\ Upon(past[Len(past)])
  /\ UNCHANGED <<gesture, tool, timer, serverVars, pageVars, used>>

\* Seeded fault: redo does not keep the board it leaves.
RedoForgets ==
  /\ screen = "board"
  /\ future # << >>
  /\ future' = SubSeq(future, 1, Len(future) - 1)
  /\ Upon(future[Len(future)])
  /\ UNCHANGED <<past, gesture, tool, timer, serverVars, pageVars, used>>

Redo ==
  /\ screen = "board"
  /\ future # << >>
  /\ future' = SubSeq(future, 1, Len(future) - 1)
  /\ past' = Append(past, Board)
  /\ Upon(future[Len(future)])
  /\ UNCHANGED <<gesture, tool, timer, serverVars, pageVars, used>>

-----------------------------------------------------------------------------
\* Code.

\* Seeded fault: the timer gets the text of the first card and the id of the last.
ChangeCodesMixed(codes, last) ==
  /\ PushUnless(gesture.typing)
  /\ gesture' = [gesture EXCEPT !.typing = TRUE]
  /\ nodes' = [n \in DOMAIN nodes |->
                 IF n \in DOMAIN codes THEN [nodes[n] EXCEPT !.code = codes[n]] ELSE nodes[n]]
  /\ timer' = [id |-> last, code |-> codes[CHOOSE n \in DOMAIN codes : TRUE]]
  /\ UNCHANGED <<drawings, tool, serverVars, pageVars>>

\* handleCodeChange for each card of a list in turn, in one event: the only
\* timer is left with the last of them.
ChangeCodes(codes, last) ==
  /\ PushUnless(gesture.typing)
  /\ gesture' = [gesture EXCEPT !.typing = TRUE]
  /\ nodes' = [n \in DOMAIN nodes |->
                 IF n \in DOMAIN codes THEN [nodes[n] EXCEPT !.code = codes[n]] ELSE nodes[n]]
  /\ timer' = [id |-> last, code |-> codes[last]]
  /\ UNCHANGED <<drawings, tool, serverVars, pageVars>>

\* Someone types into a card.
TypeInCard(n, t) ==
  /\ Gesture
  /\ n \in DOMAIN nodes
  /\ nodes[n].code.text # t
  /\ ChangeCodes([m \in {n} |-> [of |-> n, text |-> t]], n)

InFile(f) == {n \in DOMAIN nodes \ Notes : FileOf[n] = f}

\* Someone types into one function of a file in the code viewer: the viewer
\* hands every function of the file on, in the order of the board.
TypeInViewer(f, n, t, last) ==
  /\ Gesture
  /\ {n, last} \subseteq InFile(f)
  /\ nodes[n].code.text # t
  /\ ChangeCodes([m \in InFile(f) |-> IF m = n THEN [of |-> n, text |-> t]
                                      ELSE nodes[m].code], last)

\* 700 ms without a keystroke.
TypingEnds ==
  /\ gesture.typing /\ screen = "board"
  /\ gesture' = [gesture EXCEPT !.typing = FALSE]
  /\ UNCHANGED <<nodes, drawings, past, future, tool, timer, serverVars, pageVars, used>>

\* What a timer sends: the text it was set with, and the coordinates the card's
\* data came with.  Ids of notes cannot be sent, cards that are gone are not.
SaveOf(save) ==
  IF save.id \in DOMAIN nodes \ Notes
  THEN {[op |-> "code", id |-> save.id, code |-> save.code, at |-> nodes[save.id].from,
         copy |-> NoCopy]}
  ELSE {}

\* Seeded fault: the timer waits for a drag to end.
SaveCodeAfterDrag ==
  /\ timer # NoSave /\ ~gesture.typing /\ screen = "board" /\ gesture.dragging = NoId
  /\ Cardinality(requests) < MaxInFlight
  /\ requests' = requests \cup SaveOf(timer)
  /\ timer' = NoSave
  /\ UNCHANGED <<nodes, drawings, past, future, gesture, tool, orphans, adds, strays,
                 rows, rewritten, pageVars, used>>

\* 1500 ms without a keystroke, so after TypingEnds.
SaveCode ==
  /\ timer # NoSave /\ ~gesture.typing /\ screen = "board"
  /\ Cardinality(requests) < MaxInFlight
  /\ requests' = requests \cup SaveOf(timer)
  /\ timer' = NoSave
  /\ UNCHANGED <<nodes, drawings, past, future, gesture, tool, orphans, adds, strays,
                 rows, rewritten, pageVars, used>>

\* The timer of a board that is gone is not cleared.
SaveFromOldBoard(r) ==
  /\ r \in orphans
  /\ Cardinality(requests) < MaxInFlight
  /\ requests' = requests \cup {r}
  /\ orphans' = orphans \ {r}
  /\ UNCHANGED <<browserVars, adds, strays, rows, rewritten, pageVars, used>>

-----------------------------------------------------------------------------
\* Places.

\* The timers of clicks are cleared, the other one is not.
Mounts == {w \in waiting : w.by = "mount"}

DragStart(n) ==
  /\ Gesture /\ PointerFree
  /\ n \in DOMAIN nodes
  /\ PushHistorySnapshot(Board)
  /\ gesture' = [gesture EXCEPT !.dragging = n]
  /\ UNCHANGED <<nodes, drawings, tool, timer, serverVars, pageVars>>

Moved(place) == [n \in DOMAIN nodes |-> [nodes[n] EXCEPT !.at = place[n]]]

\* The card under the pointer moves, with the cards that are selected with it.
DragMove(place) ==
  /\ screen = "board"
  /\ gesture.dragging \in DOMAIN nodes
  /\ nodes' = Moved(place)
  /\ UNCHANGED <<drawings, past, future, gesture, tool, timer, serverVars, pageVars, used>>

DragEnd ==
  /\ screen = "board" /\ gesture.dragging # NoId
  /\ gesture' = [gesture EXCEPT !.dragging = NoId]
  /\ UNCHANGED <<nodes, drawings, past, future, tool, timer, serverVars, pageVars, used>>

\* What the library does by itself with the cards that are selected, with no
\* snapshot: arrow keys and the box around them move them, Backspace takes them
\* off the board.  No row changes.
MoveSelected(place) ==
  /\ Gesture
  /\ nodes' = Moved(place)
  /\ UNCHANGED <<drawings, past, future, gesture, tool, timer, serverVars, pageVars>>

DeleteSelected(S) ==
  /\ Gesture
  /\ nodes' = [n \in DOMAIN nodes \ S |-> nodes[n]]
  /\ UNCHANGED <<drawings, past, future, gesture, tool, timer, serverVars, pageVars>>

\* The layout panel is opened by two clicks, or a slider moved: cards are placed at
\* once, and no click waits any more.
ApplyLayoutInstant(place) ==
  /\ Gesture /\ PointerFree
  /\ PushUnless(gesture.adjusting)
  /\ gesture' = [gesture EXCEPT !.adjusting = TRUE]
  /\ nodes' = Moved(place)
  /\ waiting' = Mounts
  /\ UNCHANGED <<drawings, tool, timer, serverVars, layout, fetched, boardNodes, screen>>

CloseLayoutPanel ==
  /\ screen = "board" /\ gesture.adjusting
  /\ gesture' = [gesture EXCEPT !.adjusting = FALSE]
  /\ UNCHANGED <<nodes, drawings, past, future, tool, timer, serverVars, pageVars, used>>

\* The button: one call for every card; those for notes fail in the browser.
SavePositions ==
  /\ Gesture /\ PointerFree
  /\ LET saved == DOMAIN nodes \ Notes IN
       /\ Cardinality(requests) + Cardinality(saved) <= MaxInFlight
       /\ requests' = requests \cup
            {[op |-> "place", id |-> n, code |-> [of |-> n, text |-> Empty],
              at |-> nodes[n].at, copy |-> NoCopy] : n \in saved}
  /\ UNCHANGED <<browserVars, orphans, adds, strays, rows, rewritten, pageVars>>

-----------------------------------------------------------------------------
\* New cards.

\* The handler keeps the board of the moment it was called.
AddNode(n, p) ==
  /\ GestureGiven({n}) /\ PointerFree
  /\ adds' = adds \cup {[id |-> n, at |-> p, seen |-> Board, made |-> FALSE, heard |-> TRUE]}
  /\ UNCHANGED <<browserVars, orphans, requests, strays, rows, rewritten, pageVars>>

NodeCreated(a) ==
  /\ a \in adds /\ ~a.made
  /\ rows' = [n \in DOMAIN rows \cup {a.id} |->
                IF n = a.id THEN [code |-> [of |-> n, text |-> "new"], at |-> a.at] ELSE rows[n]]
  /\ adds' = (adds \ {a}) \cup {[a EXCEPT !.made = TRUE]}
  /\ UNCHANGED <<browserVars, orphans, requests, strays, rewritten, pageVars, used>>

\* The answer reaches the board that asked.
NodeAdded(a) ==
  /\ a \in adds /\ a.made /\ a.heard
  /\ adds' = adds \ {a}
  /\ PushHistorySnapshot(a.seen)
  /\ nodes' = [n \in DOMAIN nodes \cup {a.id} |->
                 IF n = a.id
                 THEN [code |-> [of |-> n, text |-> "new"], at |-> a.at, from |-> a.at]
                 ELSE nodes[n]]
  /\ UNCHANGED <<drawings, gesture, tool, timer, orphans, requests, strays, rows,
                 rewritten, pageVars, used>>

\* The call or its answer is lost, or nobody listens.
NodeNotAdded(a) ==
  /\ a \in adds
  /\ adds' = adds \ {a}
  /\ UNCHANGED <<browserVars, orphans, requests, strays, rows, rewritten, pageVars, used>>

InsertNote(n, p) ==
  /\ Gesture /\ PointerFree
  /\ n \in Notes \ DOMAIN nodes
  /\ PushHistorySnapshot(Board)
  /\ nodes' = [m \in DOMAIN nodes \cup {n} |->
                 IF m = n THEN [code |-> [of |-> n, text |-> Empty], at |-> p, from |-> p]
                 ELSE nodes[m]]
  /\ UNCHANGED <<drawings, gesture, tool, timer, serverVars, pageVars>>

-----------------------------------------------------------------------------
\* Strokes.

ChooseTool(t) ==
  /\ screen = "board" /\ PointerFree
  /\ t # tool
  /\ tool = "lasso" \/ t # "hand"
  /\ tool' = t
  /\ UNCHANGED <<nodes, drawings, past, future, gesture, timer, serverVars, pageVars, used>>

Draw(s) ==
  /\ Gesture /\ PointerFree
  /\ tool = "pen" /\ s \notin drawings
  /\ PushHistorySnapshot(Board)
  /\ drawings' = drawings \cup {s}
  /\ UNCHANGED <<nodes, gesture, tool, timer, serverVars, pageVars>>

\* The pointer goes down with the eraser.
EraseStart(S) ==
  /\ Gesture /\ PointerFree
  /\ tool = "eraser"
  /\ PushHistorySnapshot(Board)
  /\ drawings' = drawings \ S
  /\ gesture' = [gesture EXCEPT !.erasing = TRUE]
  /\ UNCHANGED <<nodes, tool, timer, serverVars, pageVars>>

\* It moves on; the flag stays up when the pointer is lifted over a card.
EraseMore(S) ==
  /\ screen = "board"
  /\ tool = "eraser" /\ gesture.erasing
  /\ drawings' = drawings \ S
  /\ UNCHANGED <<nodes, past, future, gesture, tool, timer, serverVars, pageVars, used>>

EraseEnd ==
  /\ screen = "board"
  /\ tool = "eraser" /\ gesture.erasing
  /\ gesture' = [gesture EXCEPT !.erasing = FALSE]
  /\ UNCHANGED <<nodes, drawings, past, future, tool, timer, serverVars, pageVars, used>>

ClearBoardDrawings ==
  /\ Gesture /\ PointerFree
  /\ tool \in {"pen", "eraser"}
  /\ drawings' = {}
  /\ UNCHANGED <<nodes, past, future, gesture, tool, timer, serverVars, pageVars>>

-----------------------------------------------------------------------------
\* Automatic layout: a job on the server, then the workspace once more.

\* handleAutoLayout of the closure that saw board b: nothing while one goes on.
AutoLayout(b) ==
  IF layout = "idle" THEN layout' = "requested" /\ PushHistorySnapshot(b)
  ELSE UNCHANGED <<layout, past, future>>

\* The button in the open panel calls it at once.
PlaceAgain ==
  /\ Gesture /\ gesture.adjusting
  /\ AutoLayout(Board)
  /\ UNCHANGED <<nodes, drawings, gesture, tool, timer, serverVars, waiting, fetched, boardNodes,
                 screen>>

\* The button beside it waits 220 ms for a second click, and keeps what it has seen.
LayoutClick ==
  /\ Gesture /\ PointerFree /\ ~gesture.adjusting
  /\ waiting' = Mounts \cup {[by |-> "click", seen |-> Board]}
  /\ UNCHANGED <<browserVars, serverVars, layout, fetched, boardNodes, screen>>

LayoutTimer(w) ==
  /\ screen = "board"
  /\ w \in waiting
  /\ waiting' = waiting \ {w}
  /\ AutoLayout(w.seen)
  /\ UNCHANGED <<nodes, drawings, gesture, tool, timer, serverVars, fetched, boardNodes, screen,
                 used>>

LayoutQueued ==
  /\ layout = "requested"
  /\ layout' = "queued"
  /\ UNCHANGED <<browserVars, serverVars, fetched, waiting, boardNodes, screen, used>>

\* runLayout places all nodes of the variant.
Replace(place) == rows' = [n \in DOMAIN rows |-> [rows[n] EXCEPT !.at = place[n]]]

LayoutSucceeds(place) ==
  /\ layout = "queued"
  /\ layout' = "succeeded"
  /\ Replace(place)
  /\ UNCHANGED <<browserVars, orphans, requests, adds, strays, rewritten, fetched, waiting,
                 boardNodes, screen, used>>

StrayLayoutSucceeds(place) ==
  /\ strays > 0
  /\ strays' = strays - 1
  /\ Replace(place)
  /\ UNCHANGED <<browserVars, orphans, requests, adds, rewritten, pageVars, used>>

\* A poll has seen the success and the workspace has been read for the answer.
LayoutFetched ==
  /\ layout = "succeeded"
  /\ layout' = "fetched"
  /\ fetched' = rows
  /\ UNCHANGED <<browserVars, serverVars, waiting, boardNodes, screen, used>>

LayoutArrives ==
  /\ layout = "fetched"
  /\ layout' = "idle"
  /\ nodes' = ToFlowNodes(fetched)
  /\ fetched' = NoRows
  /\ UNCHANGED <<drawings, past, future, gesture, tool, timer, serverVars, waiting, boardNodes,
                 screen, used>>

\* Seeded fault: no finally, so that isLayoutAnimatingRef stays up.
LayoutFailsForGood ==
  /\ layout \in {"requested", "succeeded", "fetched"}
  /\ layout' = "animating"
  /\ fetched' = NoRows
  /\ UNCHANGED <<browserVars, serverVars, waiting, boardNodes, screen, used>>

\* A call fails, or the job has failed.
LayoutFails ==
  /\ layout \in {"requested", "succeeded", "fetched"}
  /\ layout' = "idle"
  /\ fetched' = NoRows
  /\ UNCHANGED <<browserVars, serverVars, waiting, boardNodes, screen, used>>

LayoutJobFails ==
  /\ layout = "queued"
  /\ layout' = "idle"
  /\ UNCHANGED <<browserVars, serverVars, fetched, waiting, boardNodes, screen, used>>

\* The answer of the creation or of a poll is lost: the job goes on unobserved.
LayoutLost ==
  /\ layout \in {"requested", "queued"} /\ strays < MaxReloads
  /\ layout' = "idle"
  /\ strays' = strays + 1
  /\ UNCHANGED <<browserVars, orphans, requests, adds, rows, rewritten, fetched, waiting,
                 boardNodes, screen, used>>

-----------------------------------------------------------------------------
\* The handler of updateNode reads the row, if it is there, changes it and saves
\* all of it, which inserts a row that was deleted meanwhile.

Updated(r) ==
  [code |-> IF r.op = "code" /\ r.code.text # Empty THEN r.code ELSE r.copy.code,
   at |-> r.at]

UpdateReads(r) ==
  /\ r \in requests /\ r.copy = NoCopy
  /\ requests' = (requests \ {r}) \cup
       (IF r.id \in DOMAIN rows THEN {[r EXCEPT !.copy = rows[r.id]]} ELSE {})
  /\ UNCHANGED <<browserVars, orphans, adds, strays, rows, rewritten, pageVars, used>>

UpdateSaves(r) ==
  /\ r \in requests /\ r.copy # NoCopy
  /\ rows' = [n \in DOMAIN rows \cup {r.id} |-> IF n = r.id THEN Updated(r) ELSE rows[n]]
  /\ requests' = requests \ {r}
  /\ UNCHANGED <<browserVars, orphans, adds, strays, rewritten, pageVars, used>>

UpdateFails(r) ==
  /\ r \in requests
  /\ requests' = requests \ {r}
  /\ UNCHANGED <<browserVars, orphans, adds, strays, rows, rewritten, pageVars, used>>

-----------------------------------------------------------------------------
\* An apply job rewrites the code, and the page loads the workspace anew: the
\* board is unmounted with everything it holds.

\* The rows become the functions F of the code the variant has now, with its
\* texts, on the grid: what was typed on the board is not in the code, and a row
\* that is no function of it, as one made on the board, is deleted.  Bounds: one
\* apply job, which writes no new function.
Regenerate(F, written) ==
  /\ screen = "board" /\ rewritten = {}
  /\ written # {} /\ written \subseteq F /\ F \subseteq Loaded
  /\ rows' = [n \in F |->
                [code |-> [of |-> n, text |-> IF n \in written THEN "generated" ELSE "loaded"],
                 at |-> Start]]
  /\ rewritten' = written
  /\ UNCHANGED <<browserVars, orphans, requests, adds, strays, pageVars, used>>

Unmount ==
  /\ screen = "board" /\ rewritten # {}
  /\ used.reloads < MaxReloads
  /\ used' = [used EXCEPT !.reloads = @ + 1]
  /\ screen' = "loading"
  /\ orphans' = orphans \cup (IF timer = NoSave THEN {} ELSE SaveOf(timer))
  /\ timer' = NoSave
  /\ adds' = {[a EXCEPT !.heard = FALSE] : a \in adds}
  /\ strays' = strays + (IF layout \in {"requested", "queued"} THEN 1 ELSE 0)
                      + (IF layout = "idle" THEN Cardinality(Mounts) ELSE 0)
  /\ layout' = "idle" /\ waiting' = {} /\ fetched' = NoRows
  /\ past' = << >> /\ future' = << >> /\ nodes' = << >> /\ drawings' = {}
  /\ gesture' = [typing |-> FALSE, adjusting |-> FALSE, dragging |-> NoId, erasing |-> FALSE]
  /\ tool' = "hand"
  /\ UNCHANGED <<requests, rows, rewritten, boardNodes>>

WorkspaceFetched ==
  /\ screen = "loading"
  /\ screen' = "fetched"
  /\ fetched' = rows
  /\ UNCHANGED <<browserVars, serverVars, layout, waiting, boardNodes, used>>

\* A board with several cards, all at the origin, lays them out 150 ms later.
BoardShows(r) ==
  /\ nodes' = ToFlowNodes(r)
  /\ waiting' = IF Cardinality(DOMAIN r) > 1 /\ \A n \in DOMAIN r : r[n].at = Origin
                THEN {[by |-> "mount", seen |-> [nodes |-> ToFlowNodes(r), drawings |-> {}]]}
                ELSE {}

Mount ==
  /\ screen = "fetched"
  /\ screen' = "board"
  /\ boardNodes' = fetched /\ BoardShows(fetched)
  /\ fetched' = NoRows
  /\ UNCHANGED <<drawings, past, future, gesture, tool, timer, serverVars, layout, used>>

\* The call or its answer is lost: the board begins anew with the rows the page
\* has had since it was last loaded.
MountStale ==
  /\ screen \in {"loading", "fetched"}
  /\ screen' = "board"
  /\ BoardShows(boardNodes)
  /\ fetched' = NoRows
  /\ UNCHANGED <<drawings, past, future, gesture, tool, timer, serverVars, layout, boardNodes,
                 used>>

-----------------------------------------------------------------------------
CardStep ==
  \/ Undo \/ Redo \/ TypingEnds \/ SaveCode \/ DragEnd \/ CloseLayoutPanel \/ SavePositions
  \/ \E n \in Ids, t \in Texts : TypeInCard(n, t)
  \/ \E n, last \in Loaded \cup NewCards, t \in Texts : TypeInViewer(FileOf[n], n, t, last)
  \/ \E n \in Ids : DragStart(n)
  \/ \E place \in [DOMAIN nodes -> Places] :
       DragMove(place) \/ MoveSelected(place) \/ ApplyLayoutInstant(place)
  \/ \E S \in SUBSET DOMAIN nodes : DeleteSelected(S)
  \/ \E n \in NewCards, p \in Places : AddNode(n, p)
  \/ \E n \in Notes, p \in Places : InsertNote(n, p)
  \/ \E a \in adds : NodeAdded(a) \/ NodeNotAdded(a)

StrokeStep ==
  \/ \E t \in {"hand", "pen", "eraser", "lasso"} : ChooseTool(t)
  \/ \E s \in Strokes : Draw(s)
  \/ \E S \in SUBSET Strokes : EraseStart(S) \/ EraseMore(S)
  \/ EraseEnd \/ ClearBoardDrawings

LayoutStep ==
  \/ PlaceAgain \/ LayoutClick \/ \E w \in waiting : LayoutTimer(w)
  \/ LayoutQueued \/ LayoutFetched \/ LayoutArrives \/ LayoutFails \/ LayoutLost

ServerStep ==
  \/ \E r \in requests : UpdateReads(r) \/ UpdateSaves(r) \/ UpdateFails(r)
  \/ \E a \in adds : NodeCreated(a)
  \/ \E place \in [DOMAIN rows -> Places] :
       LayoutSucceeds(place) \/ StrayLayoutSucceeds(place)
  \/ LayoutJobFails
  \/ \E F \in SUBSET Loaded : \E written \in SUBSET F : Regenerate(F, written)

PageStep ==
  \/ Unmount \/ WorkspaceFetched \/ Mount \/ MountStale
  \/ \E r \in orphans : SaveFromOldBoard(r)

Next == CardStep \/ StrokeStep \/ LayoutStep \/ ServerStep \/ PageStep

\* Timers fire and calls are answered or fail; a person need do nothing, and a
\* layout job may never be run.
Fairness ==
  /\ WF_vars(TypingEnds) /\ WF_vars(SaveCode)
  /\ WF_vars(LayoutQueued \/ LayoutFetched \/ LayoutArrives \/ LayoutFails)
  /\ \A n \in Loaded \cup NewCards :
       WF_vars(\E r \in requests : r.id = n /\ (UpdateReads(r) \/ UpdateSaves(r)))
  /\ WF_vars(WorkspaceFetched \/ Mount \/ MountStale)

Spec == Init /\ [][Next]_vars /\ Fairness

-----------------------------------------------------------------------------
\* Properties.

TypeOK ==
  /\ IsBoard(Board)
  /\ \A i \in DOMAIN past : IsBoard(past[i])
  /\ \A i \in DOMAIN future : IsBoard(future[i])
  /\ gesture \in [typing : BOOLEAN, adjusting : BOOLEAN, dragging : Ids \cup {NoId},
                  erasing : BOOLEAN]
  /\ tool \in {"hand", "pen", "eraser", "lasso"}
  /\ timer \in Save
  /\ orphans \subseteq Request /\ requests \subseteq Request
  /\ \A a \in adds : IsAdd(a)
  /\ layout \in {"idle", "requested", "queued", "succeeded", "fetched"}
  /\ \A w \in waiting : IsWaiting(w)
  /\ strays \in Nat
  /\ AreRows(fetched) /\ AreRows(boardNodes)
  /\ screen \in {"board", "loading", "fetched"}
  /\ AreRows(rows)
  /\ used \in [gestures : 0 .. MaxGestures, reloads : 0 .. MaxReloads, ids : SUBSET NewCards]
  /\ rewritten \subseteq Loaded \cup NewCards

\* Whatever timers, undo, late answers and reloads do, a text never ends up in
\* the row or on the card of another node (the save names the node by the
\* closure of its timer, its coordinates by nodesRef when it fires); and nothing
\* is sent for a memo or an image.
TextsStayWithTheirCard ==
  /\ \A n \in DOMAIN rows : rows[n].code.of = n
  /\ \A n \in DOMAIN nodes : nodes[n].code.of = n
  /\ \A r \in requests \cup orphans : r.code.of = r.id /\ r.id \notin Notes
  /\ \A i \in DOMAIN past : \A n \in DOMAIN past[i].nodes : past[i].nodes[n].code.of = n

\* What undo and redo promise (UndoHistory), although cards, strokes, typing,
\* adjusting, dragging, erasing, creations and layouts all write the board.
History == INSTANCE UndoHistory WITH
  now <- Board,
  open <- gesture.typing \/ gesture.adjusting \/ gesture.dragging # NoId \/ gesture.erasing
          \/ layout = "fetched",
  late <- {a.seen : a \in {b \in adds : b.made /\ b.heard}} \cup {w.seen : w \in waiting},
  shown <- screen = "board"
HistorySpec == History!HistorySpec

\* A save that waits for its timer leaves the browser, whatever else happens:
\* nothing but the timer itself, a keystroke or the end of the board takes it.
SavesLeave == []<>(timer = NoSave)

\* The layout button works again (isLayoutAnimatingRef falls back) unless the
\* job itself is never run: the loop that polls it has no deadline.
LayoutEnds == []<>(layout = "idle" \/ layout = "queued")

\* The save of an edit is sent, or replaced by a later edit of the same card.
EditsAreSaved ==
  [][ timer = NoSave \/ timer' = timer \/ timer'.id = timer.id
      \/ SaveOf(timer) \subseteq requests' \cup orphans' ]_vars
=============================================================================
