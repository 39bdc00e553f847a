---------------------------- MODULE MCWorkspace ----------------------------
(* Small instances of what a workspace is made of: the board, the panel of  *)
(* the review, the viewer of files, and the automatic layout.  Each is a    *)
(* model of its own and shares no variable with the others here, so that a  *)
(* behaviour is one of one part: its variables move, the others stay.       *)
EXTENDS Whiteboard, ReviewPanel, GraphLayout, CodeViewer

CONSTANTS f1, f2, f3, f4, gone     \* functions of a layout

VARIABLE part
workspaceVars == <<part, vars, panelVars, layoutVars, viewerVars>>

OneFile == [n \in Loaded \cup NewCards |-> "file"]
FourFunctions == <<f1, f2, f3, f4>>
SomeCalls ==
  {<<u, v>> \in {f1, f2, f3, f4} \X {f1, f2, f3, f4} : u # v}
    \cup {<<f1, f1>>, <<f2, gone>>, <<gone, f3>>}
NarrowAndWide == {[x |-> 0, y |-> 0], [x |-> 200, y |-> 50]}
SmallRings == {[base |-> 100, distance |-> 50], [base |-> 200, distance |-> 60]}
TwoFiles == << "f1", "g1", "f2" >>
SourceFiles == [f \in {"f1", "g1", "f2"} |-> IF f = "g1" THEN "other" ELSE "lib/own"]
OwnTitles == [f \in {"f1", "g1", "f2"} |-> f]
TreeFolders == [file \in {"other", "lib/own"} |-> IF file = "other" THEN << >> ELSE << "lib" >>]

\* A card that is decided when the panel opens is decided for one of the ways to
\* resolve it, all of them alike.
OneWay == CHOOSE way \in Paths : TRUE

Parts == {"board", "panel", "layout", "viewer"}
WorkspaceInit ==
  /\ part \in Parts
  /\ Init /\ PanelInit /\ LayoutInit /\ ViewerInit
  /\ part # "panel" => DOMAIN stored = {}
  /\ \A c \in DOMAIN stored : stored[c].decision.path \in {Nothing, OneWay}

\* Bounds of the instance: one of the reactions, and a person's last deed is done
\* before a job was asked for (or asks for one).
OneReaction == \A k \in calls : k.kind = "rate" => k.reaction = "good"
LastDeed == deeds = MaxDeeds - 1 /\ deeds' = MaxDeeds => applyJobs = << >> /\ Latest = 1

InBoard(A) == part = "board" /\ A /\ UNCHANGED <<part, panelVars, layoutVars, viewerVars>>
InPanel(A) ==
  part = "panel" /\ A /\ OneReaction' /\ LastDeed /\ UNCHANGED <<part, vars, layoutVars, viewerVars>>
InLayout(A) == part = "layout" /\ A /\ UNCHANGED <<part, vars, panelVars, viewerVars>>
InViewer(A) == part = "viewer" /\ A /\ UNCHANGED <<part, vars, panelVars, layoutVars>>

WorkspaceNext ==
  InBoard(Next) \/ InPanel(PanelNext) \/ InLayout(LayoutNext) \/ InViewer(ViewerNext)

(* Fairness.  One condition over everything the parts do by themselves: as  *)
(* long as any of it can be done, some of it is.  Timers fire, the server   *)
(* answers or fails, and polling goes on; what people do is left to them.   *)
SaveServed == \E r \in requests : UpdateReads(r) \/ UpdateSaves(r)
ListServed == \E k \in calls : k.heard = "review" /\ (ServeList(k) \/ Arrive(k))
WorkspaceFairness ==
  WF_workspaceVars(
    \/ InBoard(TypingEnds \/ SaveCode \/ SaveServed \/ WorkspaceFetched \/ Mount \/ MountStale
                 \/ LayoutQueued \/ LayoutFetched \/ LayoutArrives \/ LayoutFails)
    \/ InPanel(ReviewLoop \/ ApplyLoop \/ ListServed))

WorkspaceSpec == WorkspaceInit /\ [][WorkspaceNext]_workspaceVars /\ WorkspaceFairness
=============================================================================
