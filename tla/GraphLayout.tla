---------------------------- MODULE GraphLayout ----------------------------
(* The layouts the whiteboard computes in the browser: Tarjan's components, *)
(* Kahn's levels, the grid and the rings made of them.  Lengths are pixels. *)
(* The trigonometry that spreads the members of a component or of a ring,   *)
(* and the hash behind the jitter, are left out: a component is its         *)
(* bounding box and jitter is its limit.  The random layout is a free       *)
(* choice of places and appears as such in Whiteboard.                      *)
EXTENDS Integers, Sequences, FiniteSets, SequencesExt, FiniteSetsExt

CONSTANTS
  BoardNodes,    \* the functions on the board, in the order of its nodes
  GraphCalls,    \* the calls there may be, as pairs; an end may be off the board
  MaxGraphCalls, \* bound on the calls of a graph
  Gaps,          \* the settings [x, y] of the grid's two sliders
  Rings          \* the settings [base, distance] of the rings' two sliders

ASSUME LayoutAssumption ==
  /\ BoardNodes \in Seq({BoardNodes[i] : i \in DOMAIN BoardNodes})
  /\ \A g \in Gaps : g.x \in 0..420 /\ g.y \in 0..420
  /\ \A r \in Rings : r.base \in 100..2000 /\ r.distance \in 50..600

VARIABLES callGraph, \* the calls, in the order the edges have
          placed \* what the last layout made of them
layoutVars == <<callGraph, placed>>

NodeW == 260
NodeH == 200
OnBoard == {BoardNodes[i] : i \in DOMAIN BoardNodes}
Larger(a, b) == IF a > b THEN a ELSE b
Smaller(a, b) == IF a < b THEN a ELSE b
CeilDiv(a, b) == (a + b - 1) \div b

-----------------------------------------------------------------------------
(* Components.  Calls are known by their places, so that a function's come  *)
(* in the order they were pushed; running holds the functions whose         *)
(* strongConnect has begun and not returned, the innermost last.            *)

Ends(e) == {e[1], e[2]}
Between(calls) ==
  {k \in DOMAIN calls : Ends(calls[k]) \subseteq OnBoard /\ calls[k][1] # calls[k][2]}

NoneSeen(calls) ==
  [timer |-> 0, disc |-> [v \in OnBoard |-> -1], low |-> [v \in OnBoard |-> -1],
   stack |-> <<>>, running |-> <<>>, ahead |-> Between(calls), sccs |-> <<>>]

Connect(t, v) ==
  [t EXCEPT !.timer = @ + 1, !.disc[v] = t.timer, !.low[v] = t.timer,
            !.stack = Append(@, v), !.running = Append(@, v)]

(* Seeded fault: calls back up the stack are passed over. *)
SeesNew(t, v, w) == t

(* A call to a function seen before: it matters while that is on the stack. *)
SeesSeen(t, v, w) ==
  IF Contains(t.stack, w) THEN [t EXCEPT !.low[v] = Smaller(@, t.disc[w])] ELSE t

LooksAt(t, v, w, k) ==
  LET u == [t EXCEPT !.ahead = @ \ {k}]
  IN IF t.disc[w] = -1 THEN Connect(u, w) ELSE SeesSeen(u, v, w)

(* All calls of v are looked at: it takes its component off the stack, or   *)
(* leaves it there; and its caller, if any, goes on.                        *)
Component(t, v) ==
  LET at == CHOOSE k \in DOMAIN t.stack : t.stack[k] = v
  IN IF t.low[v] # t.disc[v] THEN t
     ELSE [t EXCEPT !.stack = SubSeq(@, 1, at - 1),
                    !.sccs = Append(@, {t.stack[k] : k \in at..Len(t.stack)})]
Returns(t, v) ==
  LET u == [Component(t, v) EXCEPT !.running = Front(@)]
  IN IF u.running = <<>> THEN u
     ELSE [u EXCEPT !.low[Last(u.running)] = Smaller(@, t.low[v])]

StrongConnect(calls, t) ==
  LET v == Last(t.running)
      mine == {k \in t.ahead : calls[k][1] = v}
      unseen == {i \in DOMAIN BoardNodes : t.disc[BoardNodes[i]] = -1}
  IN IF t.running # <<>>
       THEN IF mine # {} THEN LooksAt(t, v, calls[Min(mine)][2], Min(mine)) ELSE Returns(t, v)
     ELSE IF unseen # {} THEN Connect(t, BoardNodes[Min(unseen)]) ELSE t

(* A step begins with a function, ends with it or looks at a call. *)
Visits(calls) ==
  LET visit[n \in Nat] == IF n = 0 THEN NoneSeen(calls) ELSE StrongConnect(calls, visit[n - 1])
  IN visit
ComputeSCCs(calls) ==
  Visits(calls)[2 * Len(BoardNodes) + Cardinality(Between(calls))].sccs

SccOf(sccs, v) == CHOOSE i \in DOMAIN sccs : v \in sccs[i]

(* The edges drawn as parts of a cycle. *)
BuildSccEdgeIds(calls) ==
  LET sccs == ComputeSCCs(calls)
      Cyclic == {v \in OnBoard : Cardinality(sccs[SccOf(sccs, v)]) > 1}
  IN {k \in DOMAIN calls :
        Ends(calls[k]) \subseteq Cyclic
          /\ SccOf(sccs, calls[k][1]) = SccOf(sccs, calls[k][2])}

-----------------------------------------------------------------------------
(* Levels of the condensed graph, breadth first. *)

Successors(sccs, calls) ==
  [i \in DOMAIN sccs |->
     {SccOf(sccs, calls[k][2]) : k \in {k \in DOMAIN calls :
        Ends(calls[k]) \subseteq OnBoard /\ SccOf(sccs, calls[k][1]) = i}} \ {i}]

(* Seeded fault: a component keeps the level of the first caller served. *)
DeepenedOnce(levels, cur, out) ==
  [i \in DOMAIN levels |->
     IF i \in out /\ levels[i] = 0 THEN levels[cur] + 1 ELSE levels[i]]

(* A component is one level deeper than the deepest of its callers. *)
Deepened(levels, cur, out) ==
  [i \in DOMAIN levels |-> IF i \in out THEN Larger(levels[i], levels[cur] + 1) ELSE levels[i]]

(* The component at the head of the queue is served.  Those it makes ready  *)
(* queue up in some order: the levels do not depend on it.                  *)
ServeHead(next, t) ==
  LET cur == Head(t.queue)
      left == [i \in DOMAIN t.degree |-> IF i \in next[cur] THEN t.degree[i] - 1 ELSE t.degree[i]]
  IN [queue |-> Tail(t.queue) \o SetToSeq({i \in next[cur] : left[i] = 0}),
      levels |-> Deepened(t.levels, cur, next[cur]), degree |-> left]

NoneServed(next) ==
  LET degree == [i \in DOMAIN next |-> Cardinality({j \in DOMAIN next : i \in next[j]})]
  IN [queue |-> SetToSeq({i \in DOMAIN next : degree[i] = 0}),
      levels |-> [i \in DOMAIN next |-> 0], degree |-> degree]

KahnAfter(next) ==
  LET serve[n \in Nat] ==
        IF n = 0 THEN NoneServed(next)
        ELSE IF serve[n - 1].queue = <<>> THEN serve[n - 1] ELSE ServeHead(next, serve[n - 1])
  IN serve
AssignLevels(sccs, calls) == KahnAfter(Successors(sccs, calls))[Len(sccs)].levels

(* levelToSccs: the components of a level, and the place of one among them. *)
LevelsOf(levels) == {levels[i] : i \in DOMAIN levels}
Members(levels, lv) == {i \in DOMAIN levels : levels[i] = lv}
PlaceOf(levels, i) == Cardinality({j \in Members(levels, levels[i]) : j < i})

-----------------------------------------------------------------------------
(* The grid: levels from left to right, a level in a nearly square grid.    *)

SccBoundingBox(scc) ==
  LET d == 2 * Larger(180, 70 * Cardinality(scc)) + NodeW
  IN IF Cardinality(scc) = 1 THEN [w |-> NodeW, h |-> NodeH] ELSE [w |-> d, h |-> d]

GridWidth(cols, cell, gap) == cols * cell.w + (cols - 1) * gap.x
GridHeight(rows, cell, gap) == rows * cell.h + (rows - 1) * gap.y

(* The columns whose grid is nearest to a square; the fewest of them when   *)
(* two are equally near.                                                    *)
ChooseGridCols(count, cell, gap) ==
  LET Width(c) == GridWidth(c, cell, gap)
      Height(c) == GridHeight(CeilDiv(count, c), cell, gap)
      Long(c) == Larger(Width(c), Height(c))
      Short(c) == Smaller(Width(c), Height(c))
      best[c \in Nat] == IF c <= 1 THEN 1
                         ELSE IF Long(c) * Short(best[c - 1]) < Long(best[c - 1]) * Short(c) THEN c
                         ELSE best[c - 1]
  IN best[count]

(* The cells of a level are as large as the largest of its components. *)
LevelCell(sccs, members) ==
  [w |-> Max({SccBoundingBox(sccs[i]).w : i \in members}),
   h |-> Max({SccBoundingBox(sccs[i]).h : i \in members})]

LevelCols(sccs, members, gap) ==
  ChooseGridCols(Cardinality(members), LevelCell(sccs, members), gap)
LevelWidth(sccs, members, gap) ==
  GridWidth(LevelCols(sccs, members, gap), LevelCell(sccs, members), gap)

(* The left edges of the levels: cursorX when their turn comes. *)
CursorX(sccs, levels, gap) ==
  LET left[lv \in Nat] ==
        IF lv = 0 THEN 0
        ELSE IF Members(levels, lv - 1) = {} THEN left[lv - 1]
        ELSE left[lv - 1] + LevelWidth(sccs, Members(levels, lv - 1), gap) + gap.x
  IN left

SccBox(sccs, levels, gap, i) ==
  LET members == Members(levels, levels[i])
      cell == LevelCell(sccs, members)
      cols == LevelCols(sccs, members, gap)
      k == PlaceOf(levels, i)
      box == SccBoundingBox(sccs[i])
      top == -(GridHeight(CeilDiv(Cardinality(members), cols), cell, gap) \div 2)
  IN [x |-> CursorX(sccs, levels, gap)[levels[i]] + (k % cols) * (cell.w + gap.x)
              + (cell.w - box.w) \div 2,
      y |-> top + (k \div cols) * (cell.h + gap.y) + (cell.h - box.h) \div 2,
      w |-> box.w, h |-> box.h]

(* The limits of the jitter, in hundredths of a pixel. *)
JitterLimit(gap) == [x |-> Smaller(2800, 18 * gap.x), y |-> Smaller(5600, 35 * gap.y)]

ComputeLayout(calls, gap) ==
  LET sccs == ComputeSCCs(calls)
      levels == AssignLevels(sccs, calls)
  IN [mode |-> "grid", gap |-> gap, sccs |-> sccs,
      boxes |-> [i \in DOMAIN sccs |-> SccBox(sccs, levels, gap, i)]]

-----------------------------------------------------------------------------
(* The rings: a level is a ring, the deepest innermost; a ring too short    *)
(* for its components is split into rings inside all of them.               *)

IdealArcLength == 400
Radius(ring, maxLevel, lv) == ring.base + (maxLevel - lv) * ring.distance
(* The circumference is 710/113 of the radius, near enough to 2 * pi. *)
IsCrowded(count, radius) == 710 * radius < IdealArcLength * count * 113
SubLayers(count, radius) == CeilDiv(IdealArcLength * count * 113, 710 * radius)

(* Seeded fault: rings of a split level are numbered from the last level. *)
FirstVirtualIsLast(maxLevel) == maxLevel

FirstVirtualLevel(maxLevel) == maxLevel + 1

(* The part of a level that its sub-th ring takes, per components each. *)
Slice(levels, lv, per, sub) ==
  LET end == Smaller((sub + 1) * per, Cardinality(Members(levels, lv)))
  IN {i \in Members(levels, lv) : sub * per <= PlaceOf(levels, i) /\ PlaceOf(levels, i) < end}

(* A level keeps its ring, or is spread over rings numbered from next on. *)
Expand(levels, ring, t, lv) ==
  LET count == Cardinality(Members(levels, lv))
      radius == Radius(ring, Max(LevelsOf(levels)), lv)
      subs == SubLayers(count, radius)
      per == CeilDiv(count, subs)
      Put(part) == [v \in DOMAIN t.map \cup DOMAIN part |->
                      IF v \in DOMAIN part THEN part[v] ELSE t.map[v]]
  IN IF IsCrowded(count, radius)
       THEN [next |-> t.next + subs,
             map |-> Put([v \in t.next..(t.next + subs - 1) |-> Slice(levels, lv, per, v - t.next)])]
     ELSE [next |-> t.next, map |-> Put([v \in {lv} |-> Members(levels, lv)])]

(* Levels come in the order of their first components. *)
IsFirst(levels, i) == \A j \in DOMAIN levels : j < i => levels[j] # levels[i]
ExpandLevels(levels, ring) ==
  LET upTo[i \in 0..Len(levels)] ==
        IF i = 0 THEN [next |-> FirstVirtualLevel(Max(LevelsOf(levels))), map |-> <<>>]
        ELSE IF IsFirst(levels, i) THEN Expand(levels, ring, upTo[i - 1], levels[i])
        ELSE upTo[i - 1]
  IN upTo[Len(levels)].map

ComputeCircularLayout(calls, ring) ==
  LET sccs == ComputeSCCs(calls)
      levels == AssignLevels(sccs, calls)
      rings == ExpandLevels(levels, ring)
      last == Max(DOMAIN rings)
  IN [mode |-> "circular", ring |-> ring, sccs |-> sccs, levels |-> levels, rings |-> rings,
      radii |-> [lv \in DOMAIN rings |-> Radius(ring, last, lv)]]

-----------------------------------------------------------------------------
Unplaced == [mode |-> "none"]

LayoutInit == callGraph = <<>> /\ placed = Unplaced

(* The board of another variant, or the same one after a build: one more    *)
(* call.  Only the order of the calls of one function matters, so they come *)
(* function by function.                                                    *)
LastCaller == IF callGraph = <<>> THEN 0
              ELSE IF callGraph[Len(callGraph)][1] \notin OnBoard THEN Len(BoardNodes) + 1
              ELSE CHOOSE i \in DOMAIN BoardNodes : BoardNodes[i] = callGraph[Len(callGraph)][1]
AddCall(e) ==
  /\ Len(callGraph) < MaxGraphCalls
  /\ ~Contains(callGraph, e)
  /\ e[1] \in OnBoard => \E i \in DOMAIN BoardNodes : BoardNodes[i] = e[1] /\ i >= LastCaller
  /\ callGraph' = Append(callGraph, e)
  /\ placed' = Unplaced

(* The layout panel of the whiteboard in grid mode, and in circular mode.   *)
(* A layout depends on the graph alone, so one is tried per state.          *)
ArrangeInGrid(gap) ==
  placed = Unplaced /\ placed' = ComputeLayout(callGraph, gap) /\ UNCHANGED callGraph
ArrangeInRings(ring) ==
  placed = Unplaced /\ placed' = ComputeCircularLayout(callGraph, ring) /\ UNCHANGED callGraph

LayoutNext ==
  \/ \E e \in GraphCalls : AddCall(e)
  \/ \E gap \in Gaps : ArrangeInGrid(gap)
  \/ \E ring \in Rings : ArrangeInRings(ring)

LayoutSpec == LayoutInit /\ [][LayoutNext]_layoutVars

-----------------------------------------------------------------------------
(* The reference: a function leads to another when every set of functions   *)
(* that has the one and all that its members call has the other too.        *)
ClosedUnder(calls, S) ==
  \A k \in DOMAIN calls : calls[k][1] \in S /\ calls[k][2] \in OnBoard => calls[k][2] \in S
LeadsTo(calls, v, w) == \A S \in SUBSET OnBoard : v \in S /\ ClosedUnder(calls, S) => w \in S

(* A call is drawn as part of a cycle exactly when the function it calls    *)
(* leads back to its caller: computeSCCs finds every cycle and nothing more *)
(* in whatever order the calls come.  A function that only calls itself is  *)
(* left out, as computeSCCs drops such calls.                               *)
CycleCallsAreMarked ==
  \A k \in DOMAIN callGraph : callGraph[k][1] # callGraph[k][2] =>
    (k \in BuildSccEdgeIds(callGraph)
      <=> /\ Ends(callGraph[k]) \subseteq OnBoard
          /\ LeadsTo(callGraph, callGraph[k][2], callGraph[k][1]))

Apart(a, b, jitter) ==
  \/ 100 * (a.x + a.w) + 2 * jitter.x <= 100 * b.x
  \/ 100 * (b.x + b.w) + 2 * jitter.x <= 100 * a.x
  \/ 100 * (a.y + a.h) + 2 * jitter.y <= 100 * b.y
  \/ 100 * (b.y + b.h) + 2 * jitter.y <= 100 * a.y

(* In the grid no two components overlap, however large they are, at any    *)
(* setting of the gaps and whatever the jitter adds; and a caller stands    *)
(* left of what it calls, a gap between them, unless the two call each      *)
(* other.                                                                   *)
GridIsReadable ==
  placed.mode = "grid" =>
    /\ \A i, j \in DOMAIN placed.sccs :
         i # j => Apart(placed.boxes[i], placed.boxes[j], JitterLimit(placed.gap))
    /\ \A k \in DOMAIN callGraph : Ends(callGraph[k]) \subseteq OnBoard =>
         LET i == SccOf(placed.sccs, callGraph[k][1])
             j == SccOf(placed.sccs, callGraph[k][2])
         IN i = j \/ placed.boxes[i].x + placed.boxes[i].w + placed.gap.x <= placed.boxes[j].x

(* Splitting loses nobody and puts nobody on two rings, and the callers of  *)
(* a level that was not split stay outside what they call.  (Those of a     *)
(* split level move inside: the comment "shallow levels outside" of         *)
(* computeCircularLayout does not hold for them.)                           *)
RingsHoldAll ==
  placed.mode = "circular" =>
    /\ \A i \in DOMAIN placed.sccs : \E lv \in DOMAIN placed.rings :
         i \in placed.rings[lv] /\ \A m \in DOMAIN placed.rings \ {lv} : i \notin placed.rings[m]
    /\ \A k \in DOMAIN callGraph : Ends(callGraph[k]) \subseteq OnBoard =>
         LET i == SccOf(placed.sccs, callGraph[k][1])
             j == SccOf(placed.sccs, callGraph[k][2])
             lv == placed.levels[i]
         IN (i # j /\ lv \in DOMAIN placed.rings) =>
              \E m \in DOMAIN placed.rings :
                j \in placed.rings[m] /\ placed.radii[m] < placed.radii[lv]
=============================================================================
