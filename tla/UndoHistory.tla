---------------------------- MODULE UndoHistory ----------------------------
(***************************************************************************)
(* What the undo and redo buttons of the whiteboard promise: the boards a  *)
(* person may go back to and forward to, and which changes of the board    *)
(* are recorded there: all but cards that are moved or taken off by keys,  *)
(* or with others.  Whiteboard implements it.                              *)
(***************************************************************************)
EXTENDS Naturals, Sequences

CONSTANT MaxHistory   \* boards kept to go back to

VARIABLES
  now,       \* the board that is shown
  past,      \* the boards undo leads to, the latest last
  future,    \* the boards redo leads to, the next one last
  open,      \* whether a gesture that has been recorded still goes on
  late,      \* boards that will be recorded when an answer arrives or a timer fires
  shown      \* whether there is a board

historyVars == <<now, past, future, open, late, shown>>

\* The oldest board is dropped when there are too many.
Trim(s) == IF Len(s) > MaxHistory THEN Tail(s) ELSE s

HistoryInit == past = << >> /\ future = << >>

\* A gesture begins: the board before it is kept, and what was undone is gone.
RecordGesture ==
  /\ past' = Trim(Append(past, now))
  /\ future' = << >>

\* A card arrives, or a layout begins, that was asked for earlier: the board of
\* that time is kept.
RecordEarlier ==
  /\ \E b \in late : past' = Trim(Append(past, b))
  /\ future' = << >>

\* The gesture goes on, or ends; or a board is shown for the first time.
Amend ==
  /\ now' # now => open \/ ~shown
  /\ UNCHANGED <<past, future>>

\* Cards move or go without a record: no text, no stroke and no new card.
Unrecorded ==
  /\ DOMAIN now'.nodes \subseteq DOMAIN now.nodes
  /\ \A n \in DOMAIN now'.nodes : now'.nodes[n].code = now.nodes[n].code
  /\ now'.drawings = now.drawings
  /\ UNCHANGED <<past, future>>

\* All strokes are wiped off, for good.
Wipe ==
  /\ now' = [now EXCEPT !.drawings = {}]
  /\ UNCHANGED <<past, future>>

UndoOnce ==
  /\ past # << >>
  /\ now' = past[Len(past)]
  /\ past' = SubSeq(past, 1, Len(past) - 1)
  /\ future' = Append(future, now)

RedoOnce ==
  /\ future # << >>
  /\ now' = future[Len(future)]
  /\ future' = SubSeq(future, 1, Len(future) - 1)
  /\ past' = Append(past, now)

\* The workspace is loaded anew.
Forget ==
  /\ ~shown'
  /\ past' = << >> /\ future' = << >>

HistoryNext ==
  RecordGesture \/ RecordEarlier \/ Amend \/ Unrecorded \/ Wipe \/ UndoOnce \/ RedoOnce \/ Forget

HistorySpec == HistoryInit /\ [][HistoryNext]_historyVars
=============================================================================
