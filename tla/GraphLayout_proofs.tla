------------------------ MODULE GraphLayout_proofs ------------------------
(***************************************************************************)
(* The layout of a call graph, for any board, cards, gaps and calls.  The  *)
(* state is a graph and a layout of it; what is proved is about what       *)
(* graphLayout.ts computes, one function after the other:                  *)
(*                                                                         *)
(*  - strongConnect: each step keeps a visit sound (VisitInv: numbers, low *)
(*    links, the stack and the components so far say of the calls looked   *)
(*    at what Tarjan's argument needs) and leaves less work, so computeSCCs *)
(*    ends with the strongly connected components, callees first;          *)
(*  - assignLevels: with components in that order Kahn's queue serves all, *)
(*    and a component is on a higher level than its callers;               *)
(*  - computeLayout: a component is inside its cell of the grid of its     *)
(*    level, cells are apart, and the cursor moves on by whole levels;     *)
(*  - expandLevels: the slices of a level are a partition of it, on rings  *)
(*    no other level uses.                                                 *)
(*                                                                         *)
(* A recursive function is reasoned about from the lemma Iterates: the     *)
(* function it defines exists, as a choice among its finite beginnings.    *)
(***************************************************************************)
EXTENDS GraphLayout, FiniteSetTheorems, TLAPS

\* Induction, as a fact about sets: every set of numbers has a least one.
LEMMA Least ==
  ASSUME NEW S \in SUBSET Nat, S # {}
  PROVE  \E n \in S : \A m \in S : n <= m
<1> DEFINE Less == {ss \in Nat \X Nat : ss[1] < ss[2]}
<1>1. IsWellFoundedOn(Less, Nat)  BY NatLessThanWellFounded DEF OpToRel
<1>2. \E n \in S : \A m \in S : ~ (<<m, n>> \in Less)
  <2> HIDE DEF Less
  <2> QED  BY <1>1, WFMin, Zenon
<1>3. PICK n \in S : \A m \in S : ~ (<<m, n>> \in Less)  BY <1>2
<1>4. \A m \in S : ~ (m < n)  BY <1>3
<1> QED  BY <1>4

\* What holds of 0 and of every next number holds of all.
LEMMA AllNumbers ==
  ASSUME NEW S, 0 \in S, \A n \in Nat : n \in S => n + 1 \in S
  PROVE  \A n \in Nat : n \in S
<1> SUFFICES ASSUME Nat \ S # {} PROVE FALSE  OBVIOUS
<1>1. PICK n \in Nat \ S : \A m \in Nat \ S : n <= m
  <2>1. Nat \ S \in SUBSET Nat  OBVIOUS
  <2> QED  BY <2>1, Least, Zenon
<1>2. n # 0 /\ n - 1 \in Nat  OBVIOUS
<1>3. n - 1 \in S  BY <1>1, <1>2
<1> QED  BY <1>2, <1>3, <1>1

\* A set of numbers up to a bound has a greatest one.
LEMMA Greatest ==
  ASSUME NEW S \in SUBSET Nat, S # {}, NEW bound \in Nat, \A n \in S : n <= bound
  PROVE  \E n \in S : \A m \in S : m <= n
<1> DEFINE Above == {n \in Nat : \A m \in S : m <= n}
<1>1. Above \in SUBSET Nat /\ Above # {}  OBVIOUS
<1>2. PICK n \in Above : \A m \in Above : n <= m
  <2> HIDE DEF Above
  <2> QED  BY <1>1, Least
<1>3. n \in S
  <2> SUFFICES ASSUME n \notin S PROVE FALSE  OBVIOUS
  <2>1. \A m \in S : m < n  BY <1>2
  <2>2. n # 0
    <3>1. PICK m \in S : TRUE  OBVIOUS
    <3> QED  BY <2>1, <3>1
  <2>3. n - 1 \in Above  BY <2>1, <2>2, <1>2
  <2> QED  BY <2>3, <1>2
<1> QED  BY <1>2, <1>3

\* Min and Max of numbers are among them, and bound them.
LEMMA MinIs ==
  ASSUME NEW S \in SUBSET Nat, S # {}
  PROVE  Min(S) \in S /\ \A n \in S : Min(S) <= n
<1>1. \E n \in S : \A m \in S : n <= m  BY Least, Zenon
<1> QED  BY <1>1, Zenon DEF Min

LEMMA MaxIs ==
  ASSUME NEW S \in SUBSET Nat, S # {}, NEW bound \in Nat, \A n \in S : n <= bound
  PROVE  Max(S) \in S /\ \A n \in S : n <= Max(S)
<1>1. \E n \in S : \A m \in S : m <= n  BY Greatest, Zenon
<1>2. \E n \in S : \A m \in S : n >= m  BY <1>1
<1>3. Max(S) \in S /\ \A n \in S : Max(S) >= n  BY <1>2, Zenon DEF Max
<1> QED  BY <1>3

\* The values a step taken again and again from first goes through, up to the n-th.
Begins(g, n, first, step, X) ==
  /\ g \in [0 .. n -> X] /\ g[0] = first
  /\ \A m \in 0 .. (n - 1) : g[m + 1] = step[<<m, g[m]>>]

\* Two beginnings agree as far as both go.
LEMMA BeginsOnce ==
  ASSUME NEW X, NEW first, NEW step, NEW n \in Nat, NEW g, Begins(g, n, first, step, X),
         NEW l \in Nat, NEW h, Begins(h, l, first, step, X)
  PROVE  \A m \in Nat : m <= n /\ m <= l => g[m] = h[m]
<1> DEFINE Same == {m \in Nat : m <= n /\ m <= l => g[m] = h[m]}
<1>1. 0 \in Same  BY DEF Begins
<1>2. ASSUME NEW m \in Nat, m \in Same PROVE m + 1 \in Same
  <2> SUFFICES ASSUME m + 1 <= n, m + 1 <= l PROVE g[m + 1] = h[m + 1]  OBVIOUS
  <2>1. m \in 0 .. (n - 1) /\ m \in 0 .. (l - 1)  OBVIOUS
  <2>2. g[m + 1] = step[<<m, g[m]>>]  BY <2>1, Zenon DEF Begins
  <2>3. h[m + 1] = step[<<m, h[m]>>]  BY <2>1, Zenon DEF Begins
  <2>4. g[m] = h[m]  BY <1>2
  <2> QED  BY <2>2, <2>3, <2>4, Zenon
<1>3. \A m \in Nat : m \in Same
  <2> HIDE DEF Same
  <2> QED  BY <1>1, <1>2, AllNumbers
<1> QED  BY <1>3

\* There is a beginning of every length.
LEMMA BeginningExists ==
  ASSUME NEW X, NEW first \in X, NEW step \in [Nat \X X -> X]
  PROVE  \A n \in Nat : \E g : Begins(g, n, first, step, X)
<1> DEFINE Some == {n \in Nat : \E g : Begins(g, n, first, step, X)}
<1>1. 0 \in Some
  <2> DEFINE g == [m \in 0 .. 0 |-> first]
  <2>1. Begins(g, 0, first, step, X)  BY DEF Begins
  <2> QED  BY <2>1
<1>2. ASSUME NEW n \in Nat, n \in Some PROVE n + 1 \in Some
  <2>1. PICK g : Begins(g, n, first, step, X)  BY <1>2
  <2>2. g \in [0 .. n -> X]  BY <2>1 DEF Begins
  <2>3. PICK x \in X : x = step[<<n, g[n]>>]
    <3>1. n \in 0 .. n  OBVIOUS
    <3>2. g[n] \in X  BY <2>2, <3>1
    <3>3. step[<<n, g[n]>>] \in X  BY <3>2
    <3> QED  BY <3>3
  <2> DEFINE h == [m \in 0 .. (n + 1) |-> IF m <= n THEN g[m] ELSE x]
  <2>3a. ASSUME NEW m \in 0 .. (n + 1), m <= n PROVE h[m] = g[m]  BY <2>3a
  <2>3b. n + 1 \in 0 .. (n + 1) /\ h[n + 1] = x  OBVIOUS
  <2>4. h \in [0 .. (n + 1) -> X]  BY <2>2
  <2>5. h[0] = first  BY <2>1 DEF Begins
  <2> HIDE DEF h
  <2>6. ASSUME NEW m \in 0 .. (n + 1 - 1) PROVE h[m + 1] = step[<<m, h[m]>>]
    <3>1. m \in Nat /\ m <= n /\ m \in 0 .. (n + 1)  OBVIOUS
    <3>2. h[m] = g[m]  BY <3>1, <2>3a
    <3>3. CASE m = n  BY <3>2, <3>3, <2>3, <2>3b
    <3>4. CASE m # n
      <4>1. m \in 0 .. (n - 1) /\ m + 1 \in 0 .. (n + 1) /\ m + 1 <= n  BY <3>4
      <4>2. g[m + 1] = step[<<m, g[m]>>]  BY <4>1, <2>1, Zenon DEF Begins
      <4>3. h[m + 1] = g[m + 1]  BY <4>1, <2>3a
      <4> QED  BY <4>2, <4>3, <3>2, Zenon
    <3> QED  BY <3>3, <3>4
  <2>7. Begins(h, n + 1, first, step, X)  BY <2>4, <2>5, <2>6 DEF Begins
  <2> QED  BY <2>7
<1>3. \A n \in Nat : n \in Some
  <2> HIDE DEF Some
  <2> QED  BY <1>1, <1>2, AllNumbers
<1> QED  BY <1>3

\* A step of a set of values can be taken again and again, from any of them.
Goes(f, first, step, X) ==
  f \in [Nat -> X] /\ f[0] = first /\ \A n \in Nat : f[n + 1] = step[<<n, f[n]>>]

\* What the definitions by a recursive function rest on: the function exists.
LEMMA Iterates ==
  ASSUME NEW X, NEW first, NEW step, first \in X, step \in [Nat \X X -> X]
  PROVE  \E f : Goes(f, first, step, X)
<1> DEFINE g(n) == CHOOSE g : Begins(g, n, first, step, X)
           f == [n \in Nat |-> g(n)[n]]
<1>1. \A n \in Nat : Begins(g(n), n, first, step, X)  BY BeginningExists, Zenon
<1> HIDE DEF g
<1>2. f \in [Nat -> X]
  <2> SUFFICES ASSUME NEW n \in Nat PROVE g(n)[n] \in X  OBVIOUS
  <2>1. g(n) \in [0 .. n -> X]  BY <1>1, Zenon DEF Begins
  <2> QED  BY <2>1
<1>3. f[0] = first  BY <1>1 DEF Begins
<1>4. ASSUME NEW n \in Nat PROVE f[n + 1] = step[<<n, f[n]>>]
  <2>1. n + 1 \in Nat /\ n \in 0 .. (n + 1 - 1) /\ n <= n + 1 /\ n <= n  OBVIOUS
  <2>2. g(n + 1)[n + 1] = step[<<n, g(n + 1)[n]>>]
    <3>1. PICK h : h = g(n + 1)  OBVIOUS
    <3>2. Begins(h, n + 1, first, step, X)  BY <1>1, <2>1, <3>1
    <3>3. h[n + 1] = step[<<n, h[n]>>]  BY <3>2, <2>1 DEF Begins
    <3> QED  BY <3>1, <3>3
  <2>3. \A m \in Nat : m <= n + 1 /\ m <= n => g(n + 1)[m] = g(n)[m]
    <3>1. PICK a : a = g(n + 1)  OBVIOUS
    <3>2. PICK b : b = g(n)  OBVIOUS
    <3>3. Begins(a, n + 1, first, step, X) /\ Begins(b, n, first, step, X)  BY <1>1, <2>1, <3>1, <3>2
    <3>4. PICK l \in Nat : l = n + 1  BY <2>1
    <3>5. Begins(a, l, first, step, X)  BY <3>3, <3>4
    <3>6. \A m \in Nat : m <= l /\ m <= n => a[m] = b[m]  BY <3>3, <3>4, <3>5, BeginsOnce
    <3> QED  BY <3>1, <3>2, <3>4, <3>6
  <2>4. g(n + 1)[n] = g(n)[n]  BY <2>1, <2>3
  <2>5. f[n + 1] = g(n + 1)[n + 1] /\ f[n] = g(n)[n]  BY <2>1
  <2> QED  BY <2>2, <2>4, <2>5, Zenon
<1> HIDE DEF f
<1>5. Goes(f, first, step, X)  BY <1>2, <1>3, <1>4 DEF Goes
<1> QED  BY <1>5

\* What a visit has numbered: functions of their own, and the links of those on the stack.
Numbered(n, d, l, S, G) ==
  /\ n \in Nat /\ d \in [OnBoard -> Int] /\ l \in [OnBoard -> Int]
  /\ S \subseteq OnBoard /\ G \subseteq S
  /\ \A v \in OnBoard : d[v] >= -1 /\ d[v] < n
  /\ \A v, w \in OnBoard : d[v] = d[w] /\ d[v] # -1 => v = w
  /\ \A v \in S : 0 <= l[v] /\ l[v] <= d[v]

\* A function seen is on the stack or in one component.
Parted(d, S, C) ==
  /\ C \in Seq(SUBSET OnBoard)
  /\ \A v \in OnBoard : d[v] # -1 <=> v \in S \/ \E i \in DOMAIN C : v \in C[i]
  /\ \A v \in S, i \in DOMAIN C : v \notin C[i]
  /\ \A i, j \in DOMAIN C : i # j => C[i] \cap C[j] = {}

\* What is known of the calls looked at, and of the functions they are looked at for.
LookedAt(calls, d, l, S, G, A, C) ==
  /\ A \subseteq Between(calls)
  /\ \A k \in Between(calls) :
       /\ d[calls[k][1]] = -1 => k \in A
       /\ d[calls[k][1]] # -1 /\ calls[k][1] \notin G => k \notin A
       /\ d[calls[k][1]] # -1 /\ k \notin A => d[calls[k][2]] # -1
       /\ k \notin A /\ calls[k][1] \in S /\ calls[k][2] \in S => l[calls[k][1]] <= d[calls[k][2]]
       /\ \A i \in DOMAIN C : calls[k][1] \in C[i] => \E j \in 1 .. i : calls[k][2] \in C[j]

\* The innermost running function below a returned one has seen what that has seen.
SeesBelow(d, l, S, G) ==
  \A u \in S \ G, p \in G :
    d[p] < d[u] /\ (\A q \in G : d[q] <= d[p] \/ d[u] < d[q]) => l[p] <= l[u]

\* Who leads to whom.
Leading(calls, d, l, S, G, C) ==
  /\ \A p \in G, u \in S : d[p] <= d[u] => LeadsTo(calls, p, u)
  /\ \A u \in S : \E w \in S : d[w] = l[u] /\ LeadsTo(calls, u, w)
  /\ \A u \in S : \E p \in G : d[p] <= d[u] /\ LeadsTo(calls, u, p)
  /\ \A i \in DOMAIN C : \A u, w \in C[i] : LeadsTo(calls, u, w)

VisitIsSound(calls, n, d, l, S, G, A, C) ==
  /\ Numbered(n, d, l, S, G) /\ Parted(d, S, C) /\ LookedAt(calls, d, l, S, G, A, C)
  /\ SeesBelow(d, l, S, G) /\ Leading(calls, d, l, S, G, C)

\* Leading is reflexive and transitive, and a call leads to what it calls.
LEMMA LeadsSelf ==
  ASSUME NEW calls, NEW v PROVE LeadsTo(calls, v, v)
  BY DEF LeadsTo

LEMMA LeadsOn ==
  ASSUME NEW calls, NEW u, NEW v, NEW w, LeadsTo(calls, u, v), LeadsTo(calls, v, w)
  PROVE  LeadsTo(calls, u, w)
  BY DEF LeadsTo

LEMMA CallLeads ==
  ASSUME NEW calls, NEW k \in Between(calls)
  PROVE  /\ calls[k][1] \in OnBoard /\ calls[k][2] \in OnBoard /\ calls[k][1] # calls[k][2]
         /\ LeadsTo(calls, calls[k][1], calls[k][2])
  BY DEF Between, Ends, LeadsTo, ClosedUnder

-----------------------------------------------------------------------------
\* strongConnect begins with a function not seen yet.
Begun(v, n, d, l, S, G, dd, ll, SS, GG) ==
  /\ v \in OnBoard /\ d[v] = -1 /\ dd[v] = n /\ ll[v] = n
  /\ dd \in [OnBoard -> Int] /\ ll \in [OnBoard -> Int]
  /\ \A u \in OnBoard : u # v => dd[u] = d[u] /\ ll[u] = l[u]
  /\ SS = S \cup {v} /\ GG = G \cup {v}

\* Beginning with a function keeps each part of what is known of a visit.
LEMMA BegunNumbered ==
  ASSUME NEW v, NEW n, NEW d, NEW l, NEW S, NEW G, NEW dd, NEW ll, NEW SS, NEW GG,
         Numbered(n, d, l, S, G), Begun(v, n, d, l, S, G, dd, ll, SS, GG)
  PROVE  Numbered(n + 1, dd, ll, SS, GG)
<1>1. /\ v \in OnBoard /\ dd[v] = n /\ ll[v] = n
      /\ dd \in [OnBoard -> Int] /\ ll \in [OnBoard -> Int]
      /\ \A u \in OnBoard : u # v => dd[u] = d[u] /\ ll[u] = l[u]
      /\ SS = S \cup {v} /\ GG = G \cup {v}
  BY DEF Begun, Numbered
<1>2. n + 1 \in Nat /\ SS \subseteq OnBoard /\ GG \subseteq SS  BY <1>1 DEF Numbered
<1>3. \A u \in OnBoard : dd[u] >= -1 /\ dd[u] < n + 1  BY <1>1 DEF Numbered
<1>4. \A u, w \in OnBoard : dd[u] = dd[w] /\ dd[u] # -1 => u = w  BY <1>1 DEF Numbered
<1>5. \A u \in SS : 0 <= ll[u] /\ ll[u] <= dd[u]  BY <1>1 DEF Numbered
<1> QED  BY <1>1, <1>2, <1>3, <1>4, <1>5 DEF Numbered

LEMMA BegunParted ==
  ASSUME NEW v, NEW n, NEW d, NEW l, NEW S, NEW G, NEW dd, NEW ll, NEW SS, NEW GG,
         Numbered(n, d, l, S, G), Begun(v, n, d, l, S, G, dd, ll, SS, GG),
         NEW C, Parted(d, S, C)
  PROVE  Parted(dd, SS, C)
<1>1. /\ v \in OnBoard /\ d[v] = -1 /\ dd[v] = n /\ n \in Nat
      /\ \A u \in OnBoard : u # v => dd[u] = d[u]
      /\ SS = S \cup {v}
  BY DEF Begun, Numbered
<1>2. \A i \in DOMAIN C : v \notin C[i]  BY <1>1 DEF Parted
<1> QED  BY <1>1, <1>2 DEF Parted

LEMMA BegunLookedAt ==
  ASSUME NEW calls, NEW v, NEW n, NEW d, NEW l, NEW S, NEW G, NEW dd, NEW ll, NEW SS, NEW GG,
         Numbered(n, d, l, S, G), Begun(v, n, d, l, S, G, dd, ll, SS, GG),
         NEW C, NEW A, NEW AA, Parted(d, S, C), LookedAt(calls, d, l, S, G, A, C), AA \subseteq A,
         \A k \in A \ AA : calls[k][1] \in G /\ calls[k][2] = v
  PROVE  LookedAt(calls, dd, ll, SS, GG, AA, C)
<1>1. /\ v \in OnBoard /\ v \notin S /\ v \notin G /\ d[v] = -1 /\ dd[v] = n /\ ll[v] = n
      /\ \A u \in OnBoard : u # v => dd[u] = d[u] /\ ll[u] = l[u]
      /\ SS = S \cup {v} /\ GG = G \cup {v}
  BY DEF Begun, Numbered
<1>2. n \in Nat /\ G \subseteq S /\ \A u \in S : u # v /\ d[u] # -1 /\ l[u] <= n
  BY <1>1 DEF Numbered
<1>3. AA \subseteq Between(calls)  BY DEF LookedAt
<1>4. ASSUME NEW k \in Between(calls)
      PROVE  /\ dd[calls[k][1]] = -1 => k \in AA
             /\ dd[calls[k][1]] # -1 /\ calls[k][1] \notin GG => k \notin AA
             /\ dd[calls[k][1]] # -1 /\ k \notin AA => dd[calls[k][2]] # -1
             /\ k \notin AA /\ calls[k][1] \in SS /\ calls[k][2] \in SS => ll[calls[k][1]] <= dd[calls[k][2]]
             /\ \A i \in DOMAIN C : calls[k][1] \in C[i] => \E j \in 1 .. i : calls[k][2] \in C[j]
  <2>1. PICK u \in OnBoard : u = calls[k][1]  BY CallLeads
  <2>2. PICK w \in OnBoard : w = calls[k][2]  BY CallLeads
  <2>3. u # w  BY <2>1, <2>2, CallLeads
  <2>4. /\ d[u] = -1 => k \in A
        /\ d[u] # -1 /\ u \notin G => k \notin A
        /\ d[u] # -1 /\ k \notin A => d[w] # -1
        /\ k \notin A /\ u \in S /\ w \in S => l[u] <= d[w]
        /\ \A i \in DOMAIN C : u \in C[i] => \E j \in 1 .. i : w \in C[j]
    BY <2>1, <2>2 DEF LookedAt
  <2>5. k \in A /\ k \notin AA => u \in G /\ w = v  BY <2>1, <2>2
  <2>6. dd[u] = -1 => k \in AA  BY <2>4, <2>5, <1>1, <1>2
  <2>7. dd[u] # -1 /\ u \notin GG => k \notin AA  BY <2>4, <1>1
  <2>8. dd[u] # -1 /\ k \notin AA => dd[w] # -1  BY <2>3, <2>4, <2>5, <1>1, <1>2
  <2>9. k \notin AA /\ u \in SS /\ w \in SS => ll[u] <= dd[w]
    <3> SUFFICES ASSUME k \notin AA, u \in SS, w \in SS PROVE ll[u] <= dd[w]  OBVIOUS
    <3>1. CASE k \in A  BY <3>1, <2>3, <2>5, <1>1, <1>2
    <3>2. CASE k \notin A
      <4>1. u # v /\ u \in S  BY <3>2, <2>4, <1>1
      <4>2. w # v /\ w \in S  BY <3>2, <2>4, <4>1, <1>1, <1>2
      <4> QED  BY <3>2, <4>1, <4>2, <2>4, <1>1
    <3> QED  BY <3>1, <3>2
  <2> QED  BY <2>1, <2>2, <2>4, <2>6, <2>7, <2>8, <2>9
<1> QED  BY <1>3, <1>4 DEF LookedAt

LEMMA BegunSeesBelow ==
  ASSUME NEW v, NEW n, NEW d, NEW l, NEW S, NEW G, NEW dd, NEW ll, NEW SS, NEW GG,
         Numbered(n, d, l, S, G), Begun(v, n, d, l, S, G, dd, ll, SS, GG),
         SeesBelow(d, l, S, G)
  PROVE  SeesBelow(dd, ll, SS, GG)
<1>1. /\ v \in OnBoard /\ v \notin S /\ v \notin G /\ dd[v] = n
      /\ \A u \in S : dd[u] = d[u] /\ ll[u] = l[u]
      /\ SS = S \cup {v} /\ GG = G \cup {v}
  BY DEF Begun, Numbered
<1>2. n \in Nat /\ G \subseteq S /\ \A u \in S : d[u] \in Int /\ d[u] < n  BY DEF Numbered
<1> SUFFICES ASSUME NEW u \in SS \ GG, NEW p \in GG, dd[p] < dd[u],
                    \A q \in GG : dd[q] <= dd[p] \/ dd[u] < dd[q]
             PROVE  ll[p] <= ll[u]
  BY DEF SeesBelow
<1>3. u \in S \ G  BY <1>1
<1>4. p \in G  BY <1>1, <1>2, <1>3
<1>5. \A q \in G : d[q] <= d[p] \/ d[u] < d[q]  BY <1>1, <1>2, <1>3, <1>4
<1>6. d[p] < d[u]  BY <1>1, <1>2, <1>3, <1>4
<1>7. l[p] <= l[u]  BY <1>3, <1>4, <1>5, <1>6 DEF SeesBelow
<1> QED  BY <1>1, <1>2, <1>3, <1>4, <1>7

LEMMA BegunLeading ==
  ASSUME NEW calls, NEW v, NEW n, NEW d, NEW l, NEW S, NEW G, NEW dd, NEW ll, NEW SS, NEW GG,
         Numbered(n, d, l, S, G), Begun(v, n, d, l, S, G, dd, ll, SS, GG),
         NEW C, Leading(calls, d, l, S, G, C),
         \A p \in G : LeadsTo(calls, p, v)
  PROVE  Leading(calls, dd, ll, SS, GG, C)
<1>1. /\ v \in OnBoard /\ v \notin S /\ v \notin G /\ dd[v] = n /\ ll[v] = n
      /\ \A u \in S : dd[u] = d[u] /\ ll[u] = l[u]
      /\ SS = S \cup {v} /\ GG = G \cup {v}
  BY DEF Begun, Numbered
<1>2. n \in Nat /\ G \subseteq S /\ \A u \in S : d[u] \in Int /\ d[u] < n  BY DEF Numbered
<1>3. ASSUME NEW p \in GG, NEW u \in SS, dd[p] <= dd[u] PROVE LeadsTo(calls, p, u)
  <2>1. CASE p = v
    <3>1. u = v  BY <2>1, <1>1, <1>2, <1>3
    <3> QED  BY <2>1, <3>1, LeadsSelf
  <2>2. CASE p \in G /\ u = v  BY <2>2
  <2>3. CASE p \in G /\ u \in S
    <3>1. d[p] <= d[u]  BY <2>3, <1>1, <1>2, <1>3
    <3> QED  BY <2>3, <3>1 DEF Leading
  <2> QED  BY <2>1, <2>2, <2>3, <1>1
<1>4. ASSUME NEW u \in SS PROVE \E w \in SS : dd[w] = ll[u] /\ LeadsTo(calls, u, w)
  <2>1. CASE u = v  BY <2>1, <1>1, LeadsSelf
  <2>2. CASE u \in S
    <3>1. PICK w \in S : d[w] = l[u] /\ LeadsTo(calls, u, w)  BY <2>2 DEF Leading
    <3> QED  BY <2>2, <3>1, <1>1
  <2> QED  BY <2>1, <2>2, <1>1
<1>5. ASSUME NEW u \in SS PROVE \E p \in GG : dd[p] <= dd[u] /\ LeadsTo(calls, u, p)
  <2>1. CASE u = v
    <3>1. dd[v] <= dd[v]  BY <1>1, <1>2
    <3> QED  BY <2>1, <3>1, <1>1, LeadsSelf
  <2>2. CASE u \in S
    <3>1. PICK p \in G : d[p] <= d[u] /\ LeadsTo(calls, u, p)  BY <2>2 DEF Leading
    <3> QED  BY <2>2, <3>1, <1>1, <1>2
  <2> QED  BY <2>1, <2>2, <1>1
<1>6. \A i \in DOMAIN C : \A u, w \in C[i] : LeadsTo(calls, u, w)  BY DEF Leading
<1> QED  BY <1>3, <1>4, <1>5, <1>6 DEF Leading

-----------------------------------------------------------------------------
\* The innermost running function looks at a call to a function seen before.
Looked(calls, k, v, d, l, S, G, A, ll, AA) ==
  /\ k \in A /\ AA = A \ {k} /\ v \in G /\ calls[k][1] = v /\ d[calls[k][2]] # -1
  /\ \A q \in G : d[q] <= d[v]
  /\ ll \in [OnBoard -> Int] /\ \A u \in OnBoard : u # v => ll[u] = l[u]
  /\ calls[k][2] \in S => /\ ll[v] <= l[v] /\ ll[v] <= d[calls[k][2]]
                          /\ ll[v] = l[v] \/ ll[v] = d[calls[k][2]]
  /\ calls[k][2] \notin S => ll[v] = l[v]

\* Looking at a call to a function seen before keeps each part.
LEMMA LookedNumbered ==
  ASSUME NEW calls, NEW k, NEW v, NEW n, NEW d, NEW l, NEW S, NEW G, NEW A, NEW ll, NEW AA,
         Numbered(n, d, l, S, G), Looked(calls, k, v, d, l, S, G, A, ll, AA)
  PROVE  Numbered(n, d, ll, S, G) /\ \A u \in S : ll[u] <= l[u]
<1>1. \A u \in S : u \in OnBoard /\ 0 <= l[u] /\ l[u] <= d[u] /\ l[u] \in Int /\ d[u] \in Int
  BY DEF Numbered
<1>2. v \in S /\ ll \in [OnBoard -> Int] /\ \A u \in S : u # v => ll[u] = l[u]
  BY <1>1 DEF Looked, Numbered
<1>3. \A u \in S : 0 <= ll[u] /\ ll[u] <= d[u] /\ ll[u] <= l[u]
  <2>1. CASE calls[k][2] \in S
    <3>1. 0 <= d[calls[k][2]]  BY <1>1, <2>1
    <3>2. ll[v] <= l[v] /\ (ll[v] = l[v] \/ ll[v] = d[calls[k][2]])  BY <2>1 DEF Looked
    <3>3. ll[v] \in Int /\ l[v] \in Int /\ d[v] \in Int /\ d[calls[k][2]] \in Int
      BY <1>1, <1>2, <2>1
    <3>4. 0 <= ll[v] /\ ll[v] <= d[v] /\ ll[v] <= l[v]  BY <3>1, <3>2, <3>3, <1>1, <1>2
    <3> QED  BY <3>4, <1>1, <1>2
  <2>2. CASE calls[k][2] \notin S
    <3>1. ll[v] = l[v]  BY <2>2 DEF Looked
    <3> QED  BY <3>1, <1>1, <1>2
  <2> QED  BY <2>1, <2>2
<1> QED  BY <1>2, <1>3 DEF Numbered

LEMMA LookedLookedAt ==
  ASSUME NEW calls, NEW k, NEW v, NEW n, NEW d, NEW l, NEW S, NEW G, NEW A, NEW ll, NEW AA, NEW C,
         Numbered(n, d, l, S, G), Looked(calls, k, v, d, l, S, G, A, ll, AA),
         LookedAt(calls, d, l, S, G, A, C)
  PROVE  LookedAt(calls, d, ll, S, G, AA, C)
<1>0. \A u \in S : ll[u] <= l[u]  BY LookedNumbered
<1>1. \A u \in S : ll[u] <= l[u] /\ ll[u] \in Int /\ l[u] \in Int /\ d[u] \in Int
  BY <1>0 DEF Looked, Numbered
<1>2. \A u \in S : d[u] # -1  BY DEF Numbered
<1>3. /\ AA = A \ {k} /\ v \in G /\ calls[k][1] = v /\ d[calls[k][2]] # -1
      /\ calls[k][2] \in S => ll[v] <= d[calls[k][2]]
  BY DEF Looked
<1>4. v \in S /\ G \subseteq S  BY <1>3 DEF Numbered
<1>5. AA \subseteq Between(calls)  BY <1>3 DEF LookedAt
<1>6. ASSUME NEW m \in Between(calls)
      PROVE  /\ d[calls[m][1]] = -1 => m \in AA
             /\ d[calls[m][1]] # -1 /\ calls[m][1] \notin G => m \notin AA
             /\ d[calls[m][1]] # -1 /\ m \notin AA => d[calls[m][2]] # -1
             /\ m \notin AA /\ calls[m][1] \in S /\ calls[m][2] \in S => ll[calls[m][1]] <= d[calls[m][2]]
             /\ \A i \in DOMAIN C : calls[m][1] \in C[i] => \E j \in 1 .. i : calls[m][2] \in C[j]
  <2>1. PICK u : u = calls[m][1]  OBVIOUS
  <2>2. PICK w : w = calls[m][2]  OBVIOUS
  <2>3. /\ d[u] = -1 => m \in A
        /\ d[u] # -1 /\ u \notin G => m \notin A
        /\ d[u] # -1 /\ m \notin A => d[w] # -1
        /\ m \notin A /\ u \in S /\ w \in S => l[u] <= d[w]
        /\ \A i \in DOMAIN C : u \in C[i] => \E j \in 1 .. i : w \in C[j]
    BY <2>1, <2>2 DEF LookedAt
  <2>4. m = k => u = v /\ d[w] # -1 /\ d[v] # -1 /\ (w \in S => ll[v] <= d[w])
    BY <2>1, <2>2, <1>2, <1>3, <1>4
  <2>5. m # k => (m \in AA <=> m \in A)  BY <1>3
  <2>6. d[u] = -1 => m \in AA  BY <2>3, <2>4, <2>5
  <2>7. d[u] # -1 /\ u \notin G => m \notin AA  BY <2>3, <2>4, <2>5, <1>3
  <2>8. d[u] # -1 /\ m \notin AA => d[w] # -1  BY <2>3, <2>4, <2>5
  <2>9. m \notin AA /\ u \in S /\ w \in S => ll[u] <= d[w]
    <3>1. CASE m = k  BY <3>1, <2>4
    <3>2. CASE m # k
      <4> SUFFICES ASSUME m \notin A, u \in S, w \in S PROVE ll[u] <= d[w]  BY <3>2, <2>5
      <4>1. l[u] <= d[w]  BY <2>3
      <4> QED  BY <4>1, <1>1
    <3> QED  BY <3>1, <3>2
  <2> QED  BY <2>1, <2>2, <2>3, <2>6, <2>7, <2>8, <2>9
<1> QED  BY <1>5, <1>6 DEF LookedAt

LEMMA LookedSeesBelow ==
  ASSUME NEW calls, NEW k, NEW v, NEW n, NEW d, NEW l, NEW S, NEW G, NEW A, NEW ll, NEW AA,
         Numbered(n, d, l, S, G), Looked(calls, k, v, d, l, S, G, A, ll, AA),
         SeesBelow(d, l, S, G)
  PROVE  SeesBelow(d, ll, S, G)
<1>0. \A u \in S : ll[u] <= l[u]  BY LookedNumbered
<1>1. \A u \in S : ll[u] <= l[u] /\ ll[u] \in Int /\ l[u] \in Int
  BY <1>0 DEF Looked, Numbered
<1>2. G \subseteq S /\ S \subseteq OnBoard  BY DEF Numbered
<1>3. v \in G /\ \A u \in OnBoard : u # v => ll[u] = l[u]  BY DEF Looked
<1> SUFFICES ASSUME NEW u \in S \ G, NEW p \in G, d[p] < d[u],
                    \A q \in G : d[q] <= d[p] \/ d[u] < d[q]
             PROVE  ll[p] <= ll[u]
  BY DEF SeesBelow
<1>4. l[p] <= l[u]  BY DEF SeesBelow
<1>5. ll[u] = l[u]  BY <1>2, <1>3
<1> QED  BY <1>1, <1>2, <1>4, <1>5

LEMMA LookedLeading ==
  ASSUME NEW calls, NEW k, NEW v, NEW n, NEW d, NEW l, NEW S, NEW G, NEW A, NEW ll, NEW AA, NEW C,
         Numbered(n, d, l, S, G), Looked(calls, k, v, d, l, S, G, A, ll, AA),
         A \subseteq Between(calls), Leading(calls, d, l, S, G, C)
  PROVE  Leading(calls, d, ll, S, G, C)
<1>1. ASSUME NEW u \in S PROVE \E w \in S : d[w] = ll[u] /\ LeadsTo(calls, u, w)
  <2>1. PICK w \in S : d[w] = l[u] /\ LeadsTo(calls, u, w)  BY DEF Leading
  <2>2. CASE ll[u] = l[u]  BY <2>1, <2>2
  <2>3. CASE ll[u] # l[u]
    <3>1. u = v /\ calls[k][2] \in S /\ ll[u] = d[calls[k][2]] /\ calls[k][1] = u /\ k \in A
      BY <2>3 DEF Looked, Numbered
    <3>2. LeadsTo(calls, u, calls[k][2])  BY <3>1, CallLeads
    <3> QED  BY <3>1, <3>2
  <2> QED  BY <2>2, <2>3
<1> QED  BY <1>1 DEF Leading

-----------------------------------------------------------------------------
\* The innermost running function returns to the one that called it.
Returned(calls, v, d, l, G, A, ll, GG) ==
  /\ v \in G /\ GG = G \ {v} /\ \A q \in G : d[q] <= d[v]
  /\ \A k \in A : calls[k][1] # v
  /\ ll \in [OnBoard -> Int]
  /\ \A u \in OnBoard : u \in GG /\ (\A q \in GG : d[q] <= d[u]) =>
       ll[u] <= l[u] /\ ll[u] <= l[v] /\ (ll[u] = l[u] \/ ll[u] = l[v])
  /\ \A u \in OnBoard : ~ (u \in GG /\ \A q \in GG : d[q] <= d[u]) => ll[u] = l[u]

\* It is the last of those running, and a link gets no higher.
LEMMA ReturnedNumbered ==
  ASSUME NEW calls, NEW v, NEW n, NEW d, NEW l, NEW S, NEW G, NEW A, NEW ll, NEW GG,
         Numbered(n, d, l, S, G), Returned(calls, v, d, l, G, A, ll, GG)
  PROVE  /\ Numbered(n, d, ll, S, GG) /\ \A u \in S : ll[u] <= l[u]
         /\ v \in S /\ GG = G \ {v} /\ \A q \in GG : d[q] < d[v]
<1>1. \A u \in S : u \in OnBoard /\ 0 <= l[u] /\ l[u] <= d[u] /\ l[u] \in Int /\ d[u] \in Int
  BY DEF Numbered
<1>2. v \in S /\ v \in G /\ GG = G \ {v} /\ GG \subseteq S  BY DEF Returned, Numbered
<1>3. ASSUME NEW q \in GG PROVE d[q] < d[v]
  <2>1. q # v /\ q \in S /\ d[q] <= d[v]  BY <1>2 DEF Returned
  <2>2. d[q] # -1  BY <1>1, <2>1
  <2>3. d[q] # d[v]  BY <1>1, <1>2, <2>1, <2>2 DEF Numbered
  <2> QED  BY <1>1, <1>2, <2>1, <2>3
<1>4. ASSUME NEW u \in S PROVE 0 <= ll[u] /\ ll[u] <= l[u] /\ ll[u] <= d[u]
  <2>1. CASE u \in GG /\ \A q \in GG : d[q] <= d[u]
    <3>1. ll[u] <= l[u] /\ (ll[u] = l[u] \/ ll[u] = l[v])  BY <2>1, <1>1 DEF Returned
    <3>2. ll[u] \in Int  BY <1>1 DEF Returned
    <3> QED  BY <3>1, <3>2, <1>1, <1>2
  <2>2. CASE ~ (u \in GG /\ \A q \in GG : d[q] <= d[u])
    <3>1. ll[u] = l[u]  BY <2>2, <1>1 DEF Returned
    <3> QED  BY <3>1, <1>1
  <2> QED  BY <2>1, <2>2
<1>5. Numbered(n, d, ll, S, GG)
  <2>1. ll \in [OnBoard -> Int]  BY DEF Returned
  <2> QED  BY <2>1, <1>2, <1>4 DEF Numbered
<1> QED  BY <1>2, <1>3, <1>4, <1>5

\* Its calls are all looked at, and what it has seen is handed down.
LEMMA ReturnedLookedAt ==
  ASSUME NEW calls, NEW v, NEW n, NEW d, NEW l, NEW S, NEW G, NEW A, NEW ll, NEW GG, NEW C,
         Numbered(n, d, l, S, G), Returned(calls, v, d, l, G, A, ll, GG),
         LookedAt(calls, d, l, S, G, A, C)
  PROVE  LookedAt(calls, d, ll, S, GG, A, C)
<1>1. GG = G \ {v} /\ \A u \in S : ll[u] <= l[u]  BY ReturnedNumbered
<1>2. \A u \in S : l[u] \in Int /\ ll[u] \in Int /\ d[u] \in Int  BY DEF Numbered, Returned
<1>3. A \subseteq Between(calls) /\ \A k \in A : calls[k][1] # v  BY DEF LookedAt, Returned
<1>4. ASSUME NEW m \in Between(calls)
      PROVE  /\ d[calls[m][1]] = -1 => m \in A
             /\ d[calls[m][1]] # -1 /\ calls[m][1] \notin GG => m \notin A
             /\ d[calls[m][1]] # -1 /\ m \notin A => d[calls[m][2]] # -1
             /\ m \notin A /\ calls[m][1] \in S /\ calls[m][2] \in S => ll[calls[m][1]] <= d[calls[m][2]]
             /\ \A i \in DOMAIN C : calls[m][1] \in C[i] => \E j \in 1 .. i : calls[m][2] \in C[j]
  <2>1. PICK u : u = calls[m][1]  OBVIOUS
  <2>2. PICK w : w = calls[m][2]  OBVIOUS
  <2>3. /\ d[u] = -1 => m \in A
        /\ d[u] # -1 /\ u \notin G => m \notin A
        /\ d[u] # -1 /\ m \notin A => d[w] # -1
        /\ m \notin A /\ u \in S /\ w \in S => l[u] <= d[w]
        /\ \A i \in DOMAIN C : u \in C[i] => \E j \in 1 .. i : w \in C[j]
    BY <2>1, <2>2 DEF LookedAt
  <2>4. d[u] # -1 /\ u \notin GG => m \notin A  BY <2>1, <2>3, <1>1, <1>3
  <2>5. m \notin A /\ u \in S /\ w \in S => ll[u] <= d[w]  BY <2>3, <1>1, <1>2
  <2> QED  BY <2>1, <2>2, <2>3, <2>4, <2>5
<1> QED  BY <1>3, <1>4 DEF LookedAt

LEMMA ReturnedSeesBelow ==
  ASSUME NEW calls, NEW v, NEW n, NEW d, NEW l, NEW S, NEW G, NEW A, NEW ll, NEW GG,
         Numbered(n, d, l, S, G), Returned(calls, v, d, l, G, A, ll, GG),
         SeesBelow(d, l, S, G)
  PROVE  SeesBelow(d, ll, S, GG)
<1>1. /\ v \in S /\ GG = G \ {v} /\ \A q \in GG : d[q] < d[v]
      /\ \A u \in S : ll[u] <= l[u]
  BY ReturnedNumbered
<1>2. \A u \in S : u \in OnBoard /\ l[u] \in Int /\ ll[u] \in Int /\ d[u] \in Int
  BY DEF Numbered, Returned
<1>3. G \subseteq S  BY DEF Numbered
<1>4. \A q \in G : d[q] <= d[v]  BY DEF Returned
<1> SUFFICES ASSUME NEW u \in S \ GG, NEW p \in GG, d[p] < d[u],
                    \A q \in GG : d[q] <= d[p] \/ d[u] < d[q]
             PROVE  ll[p] <= ll[u]
  BY DEF SeesBelow
<1>5. ll[u] = l[u]  BY <1>2 DEF Returned
<1>6. CASE d[u] < d[v]
  <2>1. u \in S \ G  BY <1>1, <1>2, <1>6
  <2>2. \A q \in G : d[q] <= d[p] \/ d[u] < d[q]  BY <1>1, <1>6
  <2>3. l[p] <= l[u]  BY <1>1, <2>1, <2>2 DEF SeesBelow
  <2> QED  BY <1>1, <1>2, <1>3, <1>5, <2>3
<1>7. CASE d[v] <= d[u]
  <2>1. \A q \in GG : d[q] <= d[p]  BY <1>1, <1>2, <1>3, <1>7
  <2>2. ll[p] <= l[v]  BY <1>1, <1>2, <1>3, <2>1 DEF Returned
  <2>3. l[v] <= l[u]
    <3>1. CASE u = v  BY <3>1, <1>2
    <3>2. CASE u # v
      <4>1. u \in S \ G /\ v \in G  BY <1>1, <3>2 DEF Returned
      <4>2. d[u] # d[v]  BY <1>1, <1>2, <3>2 DEF Numbered
      <4>3. d[v] < d[u]  BY <1>1, <1>2, <1>7, <4>2
      <4>4. \A q \in G : d[q] <= d[v] \/ d[u] < d[q]  BY <1>4
      <4> QED  BY <4>1, <4>3, <4>4 DEF SeesBelow
    <3> QED  BY <3>1, <3>2
  <2> QED  BY <1>1, <1>2, <1>3, <1>5, <2>2, <2>3
<1> QED  BY <1>1, <1>2, <1>6, <1>7

\* A function that has seen one below it leads there: it stays on the stack.
LEMMA StaysLeading ==
  ASSUME NEW calls, NEW v, NEW n, NEW d, NEW l, NEW S, NEW G, NEW A, NEW ll, NEW GG, NEW C,
         Numbered(n, d, l, S, G), Returned(calls, v, d, l, G, A, ll, GG),
         Leading(calls, d, l, S, G, C), l[v] # d[v]
  PROVE  Leading(calls, d, ll, S, GG, C)
<1>1. /\ v \in S /\ GG = G \ {v} /\ \A q \in GG : d[q] < d[v]
      /\ \A u \in S : ll[u] <= l[u]
  BY ReturnedNumbered
<1>2. \A u \in S : u \in OnBoard /\ l[u] \in Int /\ ll[u] \in Int /\ d[u] \in Int /\ l[u] <= d[u]
  BY DEF Numbered, Returned
<1>3. G \subseteq S  BY DEF Numbered
<1>4. PICK below \in S : d[below] = l[v] /\ LeadsTo(calls, v, below)  BY <1>1 DEF Leading
<1>5. PICK base \in G : d[base] <= d[below] /\ LeadsTo(calls, below, base)  BY DEF Leading
<1>6. d[base] < d[v] /\ base \in GG  BY <1>1, <1>2, <1>3, <1>4, <1>5
<1>7. LeadsTo(calls, v, base)  BY <1>4, <1>5, LeadsOn
<1>8. ASSUME NEW p \in GG, NEW u \in S, d[p] <= d[u] PROVE LeadsTo(calls, p, u)
  BY <1>1, <1>8 DEF Leading
<1>9. ASSUME NEW u \in S PROVE \E w \in S : d[w] = ll[u] /\ LeadsTo(calls, u, w)
  <2>1. CASE ll[u] = l[u]  BY <2>1 DEF Leading
  <2>2. CASE ll[u] # l[u]
    <3>1. u \in GG /\ ll[u] = l[v]  BY <1>2, <2>2 DEF Returned
    <3>2. d[u] <= d[v] /\ u \in G  BY <1>1, <1>2, <3>1
    <3>3. LeadsTo(calls, u, v)  BY <1>1, <3>2 DEF Leading
    <3>4. LeadsTo(calls, u, below)  BY <1>4, <3>3, LeadsOn
    <3> QED  BY <1>4, <3>1, <3>4
  <2> QED  BY <2>1, <2>2
<1>10. ASSUME NEW u \in S PROVE \E p \in GG : d[p] <= d[u] /\ LeadsTo(calls, u, p)
  <2>1. PICK p \in G : d[p] <= d[u] /\ LeadsTo(calls, u, p)  BY DEF Leading
  <2>2. CASE p # v  BY <1>1, <2>1, <2>2
  <2>3. CASE p = v
    <3>1. LeadsTo(calls, u, base)  BY <1>7, <2>1, <2>3, LeadsOn
    <3>2. d[base] <= d[u]  BY <1>1, <1>2, <1>3, <1>6, <2>1, <2>3
    <3> QED  BY <1>6, <3>1, <3>2
  <2> QED  BY <2>2, <2>3
<1>11. \A i \in DOMAIN C : \A u, w \in C[i] : LeadsTo(calls, u, w)  BY DEF Leading
<1> QED  BY <1>8, <1>9, <1>10, <1>11 DEF Leading

-----------------------------------------------------------------------------
\* A function that has seen none below it takes those above it off the stack.
Closed(v, d, S, C, SS, CC) ==
  /\ SS = {u \in S : d[u] < d[v]}
  /\ CC = Append(C, {u \in S : d[u] >= d[v]})

\* A component that is complete stands behind those found before.
LEMMA ClosedPlaces ==
  ASSUME NEW v, NEW d, NEW S, NEW C, NEW SS, NEW CC,
         Closed(v, d, S, C, SS, CC), S \subseteq OnBoard, C \in Seq(SUBSET OnBoard)
  PROVE  /\ CC \in Seq(SUBSET OnBoard) /\ Len(CC) = Len(C) + 1
         /\ DOMAIN C = 1 .. Len(C) /\ DOMAIN CC = 1 .. (Len(C) + 1) /\ Len(C) \in Nat
         /\ \A i \in DOMAIN C : CC[i] = C[i]
         /\ CC[Len(C) + 1] = {u \in S : d[u] >= d[v]}
<1>1. {u \in S : d[u] >= d[v]} \in SUBSET OnBoard  OBVIOUS
<1>2. PICK part \in SUBSET OnBoard : part = {u \in S : d[u] >= d[v]}  BY <1>1
<1>3. CC = Append(C, part)  BY <1>2 DEF Closed
<1>4. /\ CC \in Seq(SUBSET OnBoard) /\ Len(CC) = Len(C) + 1
      /\ DOMAIN C = 1 .. Len(C) /\ DOMAIN CC = 1 .. (Len(C) + 1) /\ Len(C) \in Nat
      /\ \A i \in DOMAIN C : CC[i] = C[i]
      /\ CC[Len(C) + 1] = part
  BY <1>3
<1> QED  BY <1>2, <1>4

\* Taking a component off the stack keeps each part.
LEMMA ClosedNumbered ==
  ASSUME NEW calls, NEW v, NEW n, NEW d, NEW l, NEW S, NEW G, NEW A, NEW ll, NEW GG, NEW C, NEW SS, NEW CC,
         Numbered(n, d, l, S, G), Returned(calls, v, d, l, G, A, ll, GG),
         Closed(v, d, S, C, SS, CC)
  PROVE  Numbered(n, d, ll, SS, GG)
<1>1. Numbered(n, d, ll, S, GG) /\ \A q \in GG : d[q] < d[v]  BY ReturnedNumbered
<1>2. SS = {u \in S : d[u] < d[v]}  BY DEF Closed
<1>3. SS \subseteq S /\ GG \subseteq SS  BY <1>1, <1>2 DEF Numbered
<1> QED  BY <1>1, <1>3 DEF Numbered

LEMMA ClosedParted ==
  ASSUME NEW v, NEW n, NEW d, NEW l, NEW S, NEW G, NEW C, NEW SS, NEW CC,
         Numbered(n, d, l, S, G), Closed(v, d, S, C, SS, CC), Parted(d, S, C), v \in S
  PROVE  Parted(d, SS, CC)
<1>1. /\ CC \in Seq(SUBSET OnBoard) /\ Len(CC) = Len(C) + 1
      /\ DOMAIN C = 1 .. Len(C) /\ DOMAIN CC = 1 .. (Len(C) + 1) /\ Len(C) \in Nat
      /\ \A i \in DOMAIN C : CC[i] = C[i]
      /\ CC[Len(C) + 1] = {u \in S : d[u] >= d[v]}
  <2>1. S \subseteq OnBoard /\ C \in Seq(SUBSET OnBoard)  BY DEF Numbered, Parted
  <2> QED  BY <2>1, ClosedPlaces
<1>2. SS = {u \in S : d[u] < d[v]}  BY DEF Closed
<1>3. \A u \in S : u \in OnBoard /\ d[u] \in Int  BY DEF Numbered
<1>4. \A u \in S : u \in SS <=> u \notin CC[Len(C) + 1]  BY <1>1, <1>2, <1>3
<1>5. SS \subseteq S /\ CC[Len(C) + 1] \subseteq S  BY <1>1, <1>2
<1>6. ASSUME NEW u \in OnBoard
      PROVE  d[u] # -1 <=> u \in SS \/ \E i \in DOMAIN CC : u \in CC[i]
  <2>1. d[u] # -1 <=> u \in S \/ \E i \in DOMAIN C : u \in C[i]  BY DEF Parted
  <2>2. (\E i \in DOMAIN CC : u \in CC[i])
          <=> u \in CC[Len(C) + 1] \/ \E i \in DOMAIN C : u \in C[i]
    BY <1>1
  <2> QED  BY <1>4, <1>5, <2>1, <2>2
<1>7. ASSUME NEW u \in SS, NEW i \in DOMAIN CC PROVE u \notin CC[i]
  <2>1. CASE i = Len(C) + 1  BY <1>4, <1>5, <2>1
  <2>2. CASE i \in DOMAIN C  BY <1>1, <1>5, <2>2 DEF Parted
  <2> QED  BY <1>1, <2>1, <2>2
<1>8. ASSUME NEW i \in DOMAIN CC, NEW j \in DOMAIN CC, i # j PROVE CC[i] \cap CC[j] = {}
  <2>1. CASE i \in DOMAIN C /\ j \in DOMAIN C  BY <1>1, <1>8, <2>1 DEF Parted
  <2>2. CASE i = Len(C) + 1 /\ j \in DOMAIN C  BY <1>1, <1>5, <2>2 DEF Parted
  <2>3. CASE j = Len(C) + 1 /\ i \in DOMAIN C  BY <1>1, <1>5, <2>3 DEF Parted
  <2> QED  BY <1>1, <1>8, <2>1, <2>2, <2>3
<1> QED  BY <1>1, <1>6, <1>7, <1>8 DEF Parted

LEMMA ClosedLookedAt ==
  ASSUME NEW calls, NEW v, NEW n, NEW d, NEW l, NEW S, NEW G, NEW A, NEW ll, NEW GG, NEW C, NEW SS, NEW CC,
         Numbered(n, d, l, S, G), Returned(calls, v, d, l, G, A, ll, GG),
         Closed(v, d, S, C, SS, CC), Parted(d, S, C), LookedAt(calls, d, l, S, G, A, C),
         SeesBelow(d, l, S, G), l[v] = d[v]
  PROVE  LookedAt(calls, d, ll, SS, GG, A, CC)
<1>1. /\ DOMAIN C = 1 .. Len(C) /\ DOMAIN CC = 1 .. (Len(C) + 1) /\ Len(C) \in Nat
      /\ \A i \in DOMAIN C : CC[i] = C[i]
      /\ CC[Len(C) + 1] = {u \in S : d[u] >= d[v]}
  <2>1. S \subseteq OnBoard /\ C \in Seq(SUBSET OnBoard)  BY DEF Numbered, Parted
  <2> QED  BY <2>1, ClosedPlaces
<1>2. SS = {u \in S : d[u] < d[v]}  BY DEF Closed
<1>3. \A u \in S : u \in OnBoard /\ d[u] \in Int /\ l[u] \in Int /\ d[u] # -1  BY DEF Numbered
<1>4. LookedAt(calls, d, ll, S, GG, A, C)  BY ReturnedLookedAt
<1>5. /\ v \in S /\ GG = G \ {v} /\ \A q \in GG : d[q] < d[v]  BY ReturnedNumbered
<1>6. ASSUME NEW m \in Between(calls), calls[m][1] \in CC[Len(C) + 1]
      PROVE  \E j \in 1 .. (Len(C) + 1) : calls[m][2] \in CC[j]
  <2>1. PICK u \in OnBoard : u = calls[m][1]  BY CallLeads
  <2>2. PICK w \in OnBoard : w = calls[m][2]  BY CallLeads
  <2>3. u \in S /\ d[u] >= d[v] /\ d[u] # -1  BY <1>1, <1>3, <1>6, <2>1
  <2>4. u \notin GG  BY <1>3, <1>5, <2>3
  <2>5. m \notin A  BY <1>4, <2>1, <2>3, <2>4 DEF LookedAt
  <2>6. d[w] # -1  BY <1>4, <2>1, <2>2, <2>3, <2>5 DEF LookedAt
  <2>7. CASE w \in S
    <3>1. l[u] <= d[w]  BY <2>1, <2>2, <2>3, <2>5, <2>7 DEF LookedAt
    <3>2. l[v] <= l[u]
      <4>1. CASE u = v  BY <4>1, <1>3, <1>5
      <4>2. CASE u # v
        <5>1. u \in S \ G /\ v \in G  BY <1>5, <2>3, <2>4, <4>2 DEF Returned
        <5>2. d[u] # d[v]  BY <1>3, <1>5, <2>3, <4>2 DEF Numbered
        <5>3. d[v] < d[u]  BY <1>3, <1>5, <2>3, <5>2
        <5>4. \A q \in G : d[q] <= d[v]  BY DEF Returned
        <5> QED  BY <5>1, <5>3, <5>4 DEF SeesBelow
      <4> QED  BY <4>1, <4>2
    <3>3. d[w] >= d[v]  BY <1>3, <1>5, <2>3, <2>7, <3>1, <3>2
    <3>4. w \in CC[Len(C) + 1]  BY <1>1, <2>7, <3>3
    <3>5. Len(C) + 1 \in 1 .. (Len(C) + 1)  BY <1>1
    <3> QED  BY <2>2, <3>4, <3>5
  <2>8. CASE w \notin S
    <3>1. PICK j \in DOMAIN C : w \in C[j]  BY <2>6, <2>8 DEF Parted
    <3>2. w \in CC[j] /\ j \in 1 .. (Len(C) + 1)  BY <1>1, <3>1
    <3> QED  BY <2>2, <3>2
  <2> QED  BY <2>7, <2>8
<1>7. ASSUME NEW m \in Between(calls), NEW i \in DOMAIN CC, calls[m][1] \in CC[i]
      PROVE  \E j \in 1 .. i : calls[m][2] \in CC[j]
  <2>1. CASE i = Len(C) + 1  BY <1>6, <1>7, <2>1
  <2>2. CASE i \in DOMAIN C
    <3>1. PICK j \in 1 .. i : calls[m][2] \in C[j]  BY <1>1, <1>4, <1>7, <2>2 DEF LookedAt
    <3>2. j \in DOMAIN C  BY <1>1, <2>2, <3>1
    <3> QED  BY <1>1, <3>1, <3>2
  <2> QED  BY <1>1, <2>1, <2>2
<1>8. SS \subseteq S  BY <1>2
<1>9. ASSUME NEW m \in Between(calls)
      PROVE  /\ d[calls[m][1]] = -1 => m \in A
             /\ d[calls[m][1]] # -1 /\ calls[m][1] \notin GG => m \notin A
             /\ d[calls[m][1]] # -1 /\ m \notin A => d[calls[m][2]] # -1
             /\ m \notin A /\ calls[m][1] \in SS /\ calls[m][2] \in SS => ll[calls[m][1]] <= d[calls[m][2]]
  BY <1>4, <1>8 DEF LookedAt
<1>10. A \subseteq Between(calls)  BY DEF LookedAt
<1> QED  BY <1>7, <1>9, <1>10 DEF LookedAt

LEMMA ClosedSeesBelow ==
  ASSUME NEW calls, NEW v, NEW n, NEW d, NEW l, NEW S, NEW G, NEW A, NEW ll, NEW GG, NEW C, NEW SS, NEW CC,
         Numbered(n, d, l, S, G), Returned(calls, v, d, l, G, A, ll, GG),
         Closed(v, d, S, C, SS, CC), SeesBelow(d, l, S, G)
  PROVE  SeesBelow(d, ll, SS, GG)
<1>1. SeesBelow(d, ll, S, GG)  BY ReturnedSeesBelow
<1>2. SS \subseteq S  BY DEF Closed
<1> QED  BY <1>1, <1>2 DEF SeesBelow

LEMMA ClosedLeading ==
  ASSUME NEW calls, NEW v, NEW n, NEW d, NEW l, NEW S, NEW G, NEW A, NEW ll, NEW GG, NEW C, NEW SS, NEW CC,
         Numbered(n, d, l, S, G), Returned(calls, v, d, l, G, A, ll, GG),
         Closed(v, d, S, C, SS, CC), Parted(d, S, C), Leading(calls, d, l, S, G, C), l[v] = d[v]
  PROVE  Leading(calls, d, ll, SS, GG, CC)
<1>1. /\ DOMAIN C = 1 .. Len(C) /\ DOMAIN CC = 1 .. (Len(C) + 1) /\ Len(C) \in Nat
      /\ \A i \in DOMAIN C : CC[i] = C[i]
      /\ CC[Len(C) + 1] = {u \in S : d[u] >= d[v]}
  <2>1. S \subseteq OnBoard /\ C \in Seq(SUBSET OnBoard)  BY DEF Numbered, Parted
  <2> QED  BY <2>1, ClosedPlaces
<1>2. SS = {u \in S : d[u] < d[v]}  BY DEF Closed
<1>3. \A u \in S : u \in OnBoard /\ d[u] \in Int /\ l[u] \in Int /\ ll[u] \in Int /\ l[u] <= d[u]
  BY DEF Numbered, Returned
<1>4. /\ v \in S /\ GG = G \ {v} /\ \A q \in GG : d[q] < d[v]  BY ReturnedNumbered
<1>5. GG \subseteq S /\ v \in G  BY <1>4 DEF Numbered, Returned
<1>6. ASSUME NEW u \in SS PROVE ll[u] = l[u]
  <2>1. CASE ll[u] = l[v]
    <3> SUFFICES ASSUME ll[u] # l[u] PROVE FALSE  OBVIOUS
    <3>1. u \in S /\ d[u] < d[v]  BY <1>2
    <3>2. ll[u] <= l[u]  BY <3>1, ReturnedNumbered
    <3> QED  BY <1>3, <1>4, <2>1, <3>1, <3>2
  <2>2. CASE ll[u] # l[v]  BY <1>2, <1>3, <2>2 DEF Returned
  <2> QED  BY <2>1, <2>2
<1>7. \A p \in GG, u \in SS : d[p] <= d[u] => LeadsTo(calls, p, u)  BY <1>2, <1>4 DEF Leading
<1>8. ASSUME NEW u \in SS PROVE \E w \in SS : d[w] = ll[u] /\ LeadsTo(calls, u, w)
  <2>1. u \in S /\ d[u] < d[v]  BY <1>2
  <2>2. PICK w \in S : d[w] = l[u] /\ LeadsTo(calls, u, w)  BY <2>1 DEF Leading
  <2>3. w \in SS  BY <1>2, <1>3, <1>4, <2>1, <2>2
  <2> QED  BY <1>6, <2>2, <2>3
<1>9. ASSUME NEW u \in SS PROVE \E p \in GG : d[p] <= d[u] /\ LeadsTo(calls, u, p)
  <2>1. u \in S /\ d[u] < d[v]  BY <1>2
  <2>2. PICK p \in G : d[p] <= d[u] /\ LeadsTo(calls, u, p)  BY <2>1 DEF Leading
  <2>3. p \in S  BY DEF Numbered
  <2>4. p # v  BY <1>3, <1>4, <2>1, <2>2
  <2> QED  BY <1>4, <2>2, <2>4
<1>10. ASSUME NEW u \in CC[Len(C) + 1], NEW w \in CC[Len(C) + 1] PROVE LeadsTo(calls, u, w)
  <2>1. u \in S /\ w \in S /\ d[v] <= d[u] /\ d[v] <= d[w]  BY <1>1, <1>3, <1>4
  <2>2. LeadsTo(calls, v, w)  BY <1>5, <2>1 DEF Leading
  <2>3. PICK p \in G : d[p] <= d[u] /\ LeadsTo(calls, u, p)  BY <2>1 DEF Leading
  <2>4. d[p] <= d[v]  BY DEF Returned
  <2>5. LeadsTo(calls, p, v)  BY <1>4, <2>4 DEF Leading
  <2>6. LeadsTo(calls, u, v)  BY <2>3, <2>5, LeadsOn
  <2> QED  BY <2>2, <2>6, LeadsOn
<1>11. \A i \in DOMAIN CC : \A u, w \in CC[i] : LeadsTo(calls, u, w)
  <2>1. \A i \in DOMAIN C : \A u, w \in C[i] : LeadsTo(calls, u, w)  BY DEF Leading
  <2> QED  BY <1>1, <1>10, <2>1
<1> QED  BY <1>7, <1>8, <1>9, <1>11 DEF Leading

-----------------------------------------------------------------------------
\* Sequences of functions in the order of their numbers.
Ascending(d, seq) == \A i, j \in DOMAIN seq : i < j => d[seq[i]] < d[seq[j]]

\* A function with a higher number goes to the end.
LEMMA AppendAscends ==
  ASSUME NEW seq, NEW v, NEW d, NEW e, seq \in Seq(OnBoard), v \in OnBoard, Ascending(d, seq),
         \A u \in Range(seq) : e[u] = d[u] /\ e[u] < e[v]
  PROVE  /\ Append(seq, v) \in Seq(OnBoard) /\ Ascending(e, Append(seq, v))
         /\ Range(Append(seq, v)) = Range(seq) \cup {v}
<1>1. PICK long : long = Append(seq, v)  OBVIOUS
<1>2. /\ long \in Seq(OnBoard) /\ DOMAIN seq = 1 .. Len(seq) /\ DOMAIN long = 1 .. (Len(seq) + 1)
      /\ Len(seq) \in Nat /\ long[Len(seq) + 1] = v /\ \A i \in 1 .. Len(seq) : long[i] = seq[i]
  BY <1>1
<1>3. \A i \in 1 .. Len(seq) : e[seq[i]] = d[seq[i]] /\ e[seq[i]] < e[v]  BY <1>2 DEF Range
<1>4. Ascending(e, long)
  <2> SUFFICES ASSUME NEW i \in 1 .. (Len(seq) + 1), NEW j \in 1 .. (Len(seq) + 1), i < j
               PROVE  e[long[i]] < e[long[j]]
    BY <1>2 DEF Ascending
  <2>1. i \in 1 .. Len(seq)  BY <1>2
  <2>2. CASE j = Len(seq) + 1  BY <1>2, <1>3, <2>1, <2>2
  <2>3. CASE j # Len(seq) + 1
    <3>1. j \in 1 .. Len(seq)  BY <1>2, <2>3
    <3>2. d[seq[i]] < d[seq[j]]  BY <1>2, <2>1, <3>1 DEF Ascending
    <3> QED  BY <1>2, <1>3, <2>1, <3>1, <3>2
  <2> QED  BY <2>2, <2>3
<1>5. Range(long) = Range(seq) \cup {v}
  <2>1. \A u \in Range(long) : u \in Range(seq) \cup {v}
    <3> SUFFICES ASSUME NEW i \in 1 .. (Len(seq) + 1) PROVE long[i] \in Range(seq) \cup {v}
      BY <1>2 DEF Range
    <3>1. i \in 1 .. Len(seq) \/ i = Len(seq) + 1  BY <1>2
    <3> QED  BY <1>2, <3>1 DEF Range
  <2>2. \A u \in Range(seq) : u \in Range(long)
    <3> SUFFICES ASSUME NEW i \in 1 .. Len(seq) PROVE seq[i] \in Range(long)
      BY <1>2 DEF Range
    <3>1. i \in DOMAIN long  BY <1>2
    <3> QED  BY <1>2, <3>1 DEF Range
  <2>3. v \in Range(long)
    <3>1. Len(seq) + 1 \in DOMAIN long  BY <1>2
    <3> QED  BY <1>2, <3>1 DEF Range
  <2> QED  BY <2>1, <2>2, <2>3
<1> QED  BY <1>1, <1>2, <1>4, <1>5

\* What a sequence has before a place.
Before(seq, at) == SubSeq(seq, 1, at - 1)

IsCut(seq, d, at) ==
  /\ Before(seq, at) \in Seq(OnBoard) /\ Len(Before(seq, at)) = at - 1
  /\ Ascending(d, Before(seq, at))
  /\ Range(Before(seq, at)) = {u \in Range(seq) : d[u] < d[seq[at]]}
  /\ {seq[k] : k \in at .. Len(seq)} = {u \in Range(seq) : d[u] >= d[seq[at]]}

\* The first of them are those with lower numbers.
LEMMA CutAscends ==
  ASSUME NEW seq, NEW d, NEW at, seq \in Seq(OnBoard), d \in [OnBoard -> Int], Ascending(d, seq),
         at \in 1 .. Len(seq)
  PROVE  IsCut(seq, d, at)
<1>1. PICK short : short = SubSeq(seq, 1, at - 1) /\ short = Before(seq, at)  BY DEF Before
<1>2. /\ short \in Seq(OnBoard) /\ Len(short) = at - 1 /\ DOMAIN short = 1 .. (at - 1)
      /\ \A i \in 1 .. (at - 1) : short[i] = seq[i]
      /\ Len(seq) \in Nat /\ DOMAIN seq = 1 .. Len(seq)
  BY <1>1
<1>3. \A i \in 1 .. Len(seq) : seq[i] \in OnBoard /\ d[seq[i]] \in Int  OBVIOUS
<1>4. ASSUME NEW i \in 1 .. Len(seq) PROVE d[seq[i]] < d[seq[at]] <=> i < at
  <2>1. i < at => d[seq[i]] < d[seq[at]]  BY <1>2 DEF Ascending
  <2>2. at < i => d[seq[at]] < d[seq[i]]  BY <1>2 DEF Ascending
  <2>3. i < at \/ i = at \/ at < i  BY <1>2
  <2> QED  BY <1>3, <2>1, <2>2, <2>3
<1>5. Ascending(d, short)
  <2> SUFFICES ASSUME NEW i \in 1 .. (at - 1), NEW j \in 1 .. (at - 1), i < j
               PROVE  d[short[i]] < d[short[j]]
    BY <1>2 DEF Ascending
  <2>1. i \in DOMAIN seq /\ j \in DOMAIN seq  BY <1>2
  <2> QED  BY <1>2, <2>1 DEF Ascending
<1>6. Range(short) = {u \in Range(seq) : d[u] < d[seq[at]]}
  <2>1. ASSUME NEW u \in Range(short) PROVE u \in Range(seq) /\ d[u] < d[seq[at]]
    <3>1. PICK i \in 1 .. (at - 1) : u = short[i]  BY <1>2 DEF Range
    <3>2. i \in 1 .. Len(seq) /\ i < at /\ u = seq[i]  BY <1>2, <3>1
    <3> QED  BY <1>2, <1>4, <3>2 DEF Range
  <2>2. ASSUME NEW u \in Range(seq), d[u] < d[seq[at]] PROVE u \in Range(short)
    <3>1. PICK i \in 1 .. Len(seq) : u = seq[i]  BY <1>2 DEF Range
    <3>2. i < at  BY <1>4, <2>2, <3>1
    <3>3. i \in 1 .. (at - 1)  BY <1>2, <3>2
    <3> QED  BY <1>2, <3>1, <3>3 DEF Range
  <2> QED  BY <2>1, <2>2
<1>7. {seq[k] : k \in at .. Len(seq)} = {u \in Range(seq) : d[u] >= d[seq[at]]}
  <2>1. ASSUME NEW k \in at .. Len(seq) PROVE seq[k] \in Range(seq) /\ d[seq[k]] >= d[seq[at]]
    <3>1. k \in 1 .. Len(seq) /\ ~ (k < at)  BY <1>2
    <3>2. ~ (d[seq[k]] < d[seq[at]])  BY <1>4, <3>1
    <3>3. d[seq[k]] \in Int /\ d[seq[at]] \in Int  BY <1>3, <3>1
    <3>4. seq[k] \in Range(seq)  BY <1>2, <3>1 DEF Range
    <3> QED  BY <3>2, <3>3, <3>4
  <2>2. ASSUME NEW u \in Range(seq), d[u] >= d[seq[at]] PROVE \E k \in at .. Len(seq) : u = seq[k]
    <3>1. PICK i \in 1 .. Len(seq) : u = seq[i]  BY <1>2 DEF Range
    <3>2. ~ (i < at)  BY <1>3, <1>4, <2>2, <3>1
    <3>3. i \in at .. Len(seq)  BY <1>2, <3>2
    <3> QED  BY <3>1, <3>3
  <2> QED  BY <2>1, <2>2
<1> QED  BY <1>1, <1>2, <1>5, <1>6, <1>7 DEF IsCut

\* The last of them has the highest number.
LEMMA LastAscends ==
  ASSUME NEW seq, NEW d, seq \in Seq(OnBoard), d \in [OnBoard -> Int], Ascending(d, seq), seq # << >>
  PROVE  /\ Last(seq) \in Range(seq) /\ \A q \in Range(seq) : d[q] <= d[Last(seq)]
         /\ Front(seq) \in Seq(OnBoard) /\ Ascending(d, Front(seq)) /\ Len(Front(seq)) = Len(seq) - 1
         /\ Range(Front(seq)) = Range(seq) \ {Last(seq)}
<1>1. PICK n \in Nat \ {0} : n = Len(seq) /\ DOMAIN seq = 1 .. n  OBVIOUS
<1>2. n \in 1 .. Len(seq) /\ Last(seq) = seq[n] /\ Front(seq) = Before(seq, n)
  BY <1>1 DEF Last, Front, Before
<1>3. \A i \in 1 .. n : seq[i] \in OnBoard /\ d[seq[i]] \in Int  BY <1>1
<1>4. ASSUME NEW i \in 1 .. n PROVE d[seq[i]] <= d[seq[n]] /\ (i # n => d[seq[i]] < d[seq[n]])
  <2>1. i < n => d[seq[i]] < d[seq[n]]  BY <1>1 DEF Ascending
  <2> QED  BY <1>1, <1>3, <2>1
<1>5. /\ Front(seq) \in Seq(OnBoard) /\ Ascending(d, Front(seq)) /\ Len(Front(seq)) = Len(seq) - 1
      /\ Range(Front(seq)) = {u \in Range(seq) : d[u] < d[seq[n]]}
  <2>1. IsCut(seq, d, n)  BY <1>2, CutAscends
  <2> QED  BY <1>1, <1>2, <2>1 DEF IsCut
<1>6. \A q \in Range(seq) : d[q] \in Int /\ d[q] <= d[seq[n]] /\ (q # seq[n] => d[q] < d[seq[n]])
  BY <1>1, <1>3, <1>4 DEF Range
<1>7. Range(Front(seq)) = Range(seq) \ {seq[n]}  BY <1>5, <1>6
<1>8. seq[n] \in Range(seq)  BY <1>1 DEF Range
<1> QED  BY <1>2, <1>5, <1>6, <1>7, <1>8

-----------------------------------------------------------------------------
\* A visit is a record of numbers, links, sequences and sets, and sound.
VisitSet(calls) ==
  [timer : Nat, disc : [OnBoard -> Int], low : [OnBoard -> Int], stack : Seq(OnBoard),
   running : Seq(OnBoard), ahead : SUBSET Between(calls), sccs : Seq(SUBSET OnBoard)]

VisitInv(calls, t) ==
  /\ t \in VisitSet(calls)
  /\ Ascending(t.disc, t.stack) /\ Ascending(t.disc, t.running)
  /\ VisitIsSound(calls, t.timer, t.disc, t.low, Range(t.stack), Range(t.running), t.ahead, t.sccs)

\* The fields of a visit.
LEMMA VisitFields ==
  ASSUME NEW calls, NEW t, t \in VisitSet(calls)
  PROVE  /\ t.timer \in Nat /\ t.disc \in [OnBoard -> Int] /\ t.low \in [OnBoard -> Int]
         /\ t.stack \in Seq(OnBoard) /\ t.running \in Seq(OnBoard)
         /\ t.ahead \in SUBSET Between(calls) /\ t.sccs \in Seq(SUBSET OnBoard)
  BY DEF VisitSet

\* Before anything is seen.
LEMMA NoneSeenIsSound ==
  ASSUME NEW calls
  PROVE  VisitInv(calls, NoneSeen(calls))
<1>1. PICK t : t = NoneSeen(calls)  OBVIOUS
<1>2. PICK d \in [OnBoard -> Int] : d = [v \in OnBoard |-> -1]
  <2>1. -1 \in Int  OBVIOUS
  <2>2. [v \in OnBoard |-> -1] \in [OnBoard -> Int]  BY <2>1
  <2> QED  BY <2>2
<1>3. /\ t.timer = 0 /\ t.disc = d /\ t.low = d /\ t.stack = << >> /\ t.running = << >>
      /\ t.ahead = Between(calls) /\ t.sccs = << >>
  BY <1>1, <1>2 DEF NoneSeen
<1>4. t \in VisitSet(calls)  BY <1>1, <1>2 DEF NoneSeen, VisitSet
<1>5. Range(<< >>) = {}  BY DEF Range
<1>6. \A v \in OnBoard : d[v] = -1  BY <1>2
<1>7. Ascending(d, << >>)  BY DEF Ascending
<1>8. Numbered(0, d, d, {}, {})  BY <1>6 DEF Numbered
<1>9. Parted(d, {}, << >>)  BY <1>6 DEF Parted
<1>10. LookedAt(calls, d, d, {}, {}, Between(calls), << >>)
  <2>1. \A k \in Between(calls) : calls[k][1] \in OnBoard /\ calls[k][2] \in OnBoard  BY CallLeads
  <2> QED  BY <1>6, <2>1 DEF LookedAt
<1>11. SeesBelow(d, d, {}, {}) /\ Leading(calls, d, d, {}, {}, << >>)  BY DEF SeesBelow, Leading
<1> QED  BY <1>1, <1>3, <1>4, <1>5, <1>7, <1>8, <1>9, <1>10, <1>11 DEF VisitInv, VisitIsSound

\* strongConnect begins.
ConnectTaken(calls, t, v, ahead, u) ==
  /\ VisitInv(calls, u) /\ u.ahead = ahead /\ Len(u.running) = Len(t.running) + 1
  /\ u.disc = [t.disc EXCEPT ![v] = t.timer]

\* strongConnect begins with a function: the visit stays sound.
LEMMA ConnectIsSound ==
  ASSUME NEW calls, NEW t, NEW v, NEW ahead,
         VisitInv(calls, t), v \in OnBoard, t.disc[v] = -1, ahead \subseteq t.ahead,
         \A k \in t.ahead \ ahead : calls[k][1] \in Range(t.running) /\ calls[k][2] = v,
         \A p \in Range(t.running) : LeadsTo(calls, p, v)
  PROVE  ConnectTaken(calls, t, v, ahead, Connect([t EXCEPT !.ahead = ahead], v))
<1>1. PICK u : u = Connect([t EXCEPT !.ahead = ahead], v)  OBVIOUS
<1>2. t \in VisitSet(calls)  BY DEF VisitInv
<1>3. PICK n \in Nat, d \in [OnBoard -> Int], l \in [OnBoard -> Int] :
        n = t.timer /\ d = t.disc /\ l = t.low
  BY <1>2, VisitFields
<1>4. /\ u.timer = n + 1 /\ u.disc = [d EXCEPT ![v] = n] /\ u.low = [l EXCEPT ![v] = n]
      /\ u.stack = Append(t.stack, v) /\ u.running = Append(t.running, v)
      /\ u.ahead = ahead /\ u.sccs = t.sccs
  BY <1>1, <1>2, <1>3 DEF Connect, VisitSet
<1>5. u \in VisitSet(calls)
  <2>1. u = [timer |-> u.timer, disc |-> u.disc, low |-> u.low, stack |-> u.stack,
             running |-> u.running, ahead |-> u.ahead, sccs |-> u.sccs]
    BY <1>1, <1>2 DEF Connect, VisitSet
  <2>2. u.timer \in Nat /\ u.disc \in [OnBoard -> Int] /\ u.low \in [OnBoard -> Int]  BY <1>4
  <2>3. u.stack \in Seq(OnBoard) /\ u.running \in Seq(OnBoard) /\ u.sccs \in Seq(SUBSET OnBoard)
    BY <1>2, <1>4, VisitFields
  <2>4. u.ahead \in SUBSET Between(calls)  BY <1>2, <1>4, VisitFields
  <2> QED  BY <2>1, <2>2, <2>3, <2>4 DEF VisitSet
<1>6. PICK dd \in [OnBoard -> Int], ll \in [OnBoard -> Int] : dd = u.disc /\ ll = u.low
  BY <1>5, VisitFields
<1>7. PICK S, G, C : S = Range(t.stack) /\ G = Range(t.running) /\ C = t.sccs  OBVIOUS
<1>8. /\ Numbered(n, d, l, S, G) /\ Parted(d, S, C) /\ LookedAt(calls, d, l, S, G, t.ahead, C)
      /\ SeesBelow(d, l, S, G) /\ Leading(calls, d, l, S, G, C)
  BY <1>3, <1>7 DEF VisitInv, VisitIsSound
<1>9. /\ dd[v] = n /\ \A w \in OnBoard : w # v => dd[w] = d[w] /\ ll[w] = l[w]
      /\ ll[v] = n
  BY <1>3, <1>4, <1>6
<1>10. Begun(v, n, d, l, S, G, dd, ll, S \cup {v}, G \cup {v})
  BY <1>3, <1>6, <1>9 DEF Begun
<1>11. \A w \in S : dd[w] = d[w] /\ dd[w] < dd[v]  BY <1>8, <1>10 DEF Begun, Numbered
<1>12. /\ Ascending(dd, u.stack) /\ Range(u.stack) = S \cup {v}
  <2>1. t.stack \in Seq(OnBoard) /\ Ascending(d, t.stack)  BY <1>2, <1>3, VisitFields DEF VisitInv
  <2>2. \A w \in Range(t.stack) : dd[w] = d[w] /\ dd[w] < dd[v]  BY <1>7, <1>11
  <2>3. PICK seq \in Seq(OnBoard) : seq = t.stack  BY <2>1
  <2>4. /\ Ascending(dd, Append(seq, v))
        /\ Range(Append(seq, v)) = Range(seq) \cup {v}
    BY <2>1, <2>2, <2>3, AppendAscends
  <2> QED  BY <2>3, <2>4, <1>4, <1>7
<1>13. G \subseteq S  BY <1>8 DEF Numbered
<1>14. /\ Ascending(dd, u.running) /\ Range(u.running) = G \cup {v}
  <2>1. t.running \in Seq(OnBoard) /\ Ascending(d, t.running)  BY <1>2, <1>3, VisitFields DEF VisitInv
  <2>2. \A w \in Range(t.running) : dd[w] = d[w] /\ dd[w] < dd[v]  BY <1>7, <1>11, <1>13
  <2>3. PICK seq \in Seq(OnBoard) : seq = t.running  BY <2>1
  <2>4. /\ Ascending(dd, Append(seq, v))
        /\ Range(Append(seq, v)) = Range(seq) \cup {v}
    BY <2>1, <2>2, <2>3, AppendAscends
  <2> QED  BY <2>3, <2>4, <1>4, <1>7
<1>15. Numbered(n + 1, dd, ll, S \cup {v}, G \cup {v})  BY <1>8, <1>10, BegunNumbered
<1>16. Parted(dd, S \cup {v}, C)  BY <1>8, <1>10, BegunParted
<1>17. LookedAt(calls, dd, ll, S \cup {v}, G \cup {v}, ahead, C)
  <2>1. \A k \in t.ahead \ ahead : calls[k][1] \in G /\ calls[k][2] = v  BY <1>7
  <2> QED  BY <1>8, <1>10, <2>1, BegunLookedAt
<1>18. SeesBelow(dd, ll, S \cup {v}, G \cup {v})  BY <1>8, <1>10, BegunSeesBelow
<1>19. Leading(calls, dd, ll, S \cup {v}, G \cup {v}, C)
  <2>1. \A p \in G : LeadsTo(calls, p, v)  BY <1>7
  <2> QED  BY <1>8, <1>10, <2>1, BegunLeading
<1>20. VisitIsSound(calls, u.timer, u.disc, u.low, Range(u.stack), Range(u.running), u.ahead, u.sccs)
  BY <1>4, <1>6, <1>7, <1>12, <1>14, <1>15, <1>16, <1>17, <1>18, <1>19 DEF VisitIsSound
<1>21. VisitInv(calls, u)  BY <1>5, <1>6, <1>12, <1>14, <1>20 DEF VisitInv
<1>22. Len(u.running) = Len(t.running) + 1
  <2>1. t.running \in Seq(OnBoard)  BY <1>2, VisitFields
  <2> QED  BY <1>4, <2>1
<1> QED  BY <1>1, <1>3, <1>4, <1>21, <1>22 DEF ConnectTaken

\* A call to a function seen before.
LookTaken(calls, t, k, u) ==
  /\ VisitInv(calls, u) /\ u.ahead = t.ahead \ {k} /\ u.running = t.running /\ u.disc = t.disc

\* It looks at a call to a function seen before: the visit stays sound.
LEMMA SeesSeenIsSound ==
  ASSUME NEW calls, NEW t, NEW v, NEW k,
         VisitInv(calls, t), t.running # << >>, v = Last(t.running),
         k \in t.ahead, calls[k][1] = v, t.disc[calls[k][2]] # -1
  PROVE  LookTaken(calls, t, k, SeesSeen([t EXCEPT !.ahead = @ \ {k}], v, calls[k][2]))
<1>1. PICK w : w = calls[k][2]  OBVIOUS
<1>2. PICK x : x = [t EXCEPT !.ahead = @ \ {k}]  OBVIOUS
<1>3. PICK u : u = SeesSeen(x, v, w)  OBVIOUS
<1>4. t \in VisitSet(calls)  BY DEF VisitInv
<1>5. PICK n \in Nat, d \in [OnBoard -> Int], l \in [OnBoard -> Int] :
        n = t.timer /\ d = t.disc /\ l = t.low
  BY <1>4, VisitFields
<1>6. k \in Between(calls) /\ w \in OnBoard  BY <1>1, <1>4, VisitFields, CallLeads
<1>7. PICK S, G, C : S = Range(t.stack) /\ G = Range(t.running) /\ C = t.sccs  OBVIOUS
<1>8. /\ Numbered(n, d, l, S, G) /\ Parted(d, S, C) /\ LookedAt(calls, d, l, S, G, t.ahead, C)
      /\ SeesBelow(d, l, S, G) /\ Leading(calls, d, l, S, G, C)
  BY <1>5, <1>7 DEF VisitInv, VisitIsSound
<1>9. v \in G /\ \A q \in G : d[q] <= d[v]
  <2>1. t.running \in Seq(OnBoard) /\ Ascending(d, t.running)  BY <1>4, <1>5, VisitFields DEF VisitInv
  <2> QED  BY <2>1, <1>7, LastAscends
<1>10. v \in OnBoard  BY <1>8, <1>9 DEF Numbered
<1>11. x \in VisitSet(calls) /\ x = [timer |-> n, disc |-> d, low |-> l, stack |-> t.stack,
             running |-> t.running, ahead |-> t.ahead \ {k}, sccs |-> t.sccs]
  BY <1>2, <1>4, <1>5 DEF VisitSet
<1>12. Contains(t.stack, w) <=> w \in S
  <2>1. t.stack \in Seq(OnBoard)  BY <1>4, VisitFields
  <2>2. DOMAIN t.stack = 1 .. Len(t.stack)  BY <2>1
  <2> QED  BY <1>7, <2>2 DEF Contains, Range
<1>13. PICK ll \in [OnBoard -> Int] :
         /\ u = [timer |-> n, disc |-> d, low |-> ll, stack |-> t.stack,
                 running |-> t.running, ahead |-> t.ahead \ {k}, sccs |-> t.sccs]
         /\ \A y \in OnBoard : y # v => ll[y] = l[y]
         /\ w \in S => ll[v] <= l[v] /\ ll[v] <= d[w] /\ (ll[v] = l[v] \/ ll[v] = d[w])
         /\ w \notin S => ll[v] = l[v]
  <2>1. CASE w \in S
    <3> DEFINE ll == [l EXCEPT ![v] = Smaller(@, d[w])]
    <3>1. u = [x EXCEPT !.low[v] = Smaller(@, x.disc[w])]
      BY <1>3, <1>11, <1>12, <2>1 DEF SeesSeen
    <3>2. u = [timer |-> n, disc |-> d, low |-> ll, stack |-> t.stack,
               running |-> t.running, ahead |-> t.ahead \ {k}, sccs |-> t.sccs]
      BY <1>11, <3>1
    <3>3. d[w] \in Int /\ l[v] \in Int  BY <1>6, <1>10
    <3>4. /\ Smaller(l[v], d[w]) \in Int /\ Smaller(l[v], d[w]) <= l[v] /\ Smaller(l[v], d[w]) <= d[w]
          /\ Smaller(l[v], d[w]) = l[v] \/ Smaller(l[v], d[w]) = d[w]
      BY <3>3 DEF Smaller
    <3>5. ll \in [OnBoard -> Int] /\ ll[v] = Smaller(l[v], d[w]) /\ \A y \in OnBoard : y # v => ll[y] = l[y]
      BY <1>10, <3>4
    <3> HIDE DEF ll
    <3> QED  BY <2>1, <3>2, <3>4, <3>5
  <2>2. CASE w \notin S
    <3>1. u = x  BY <1>3, <1>11, <1>12, <2>2 DEF SeesSeen
    <3> QED  BY <1>11, <2>2, <3>1
  <2> QED  BY <2>1, <2>2
<1>14. Looked(calls, k, v, d, l, S, G, t.ahead, ll, t.ahead \ {k})
  BY <1>1, <1>5, <1>9, <1>13 DEF Looked
<1>15. Numbered(n, d, ll, S, G)  BY <1>8, <1>14, LookedNumbered
<1>16. LookedAt(calls, d, ll, S, G, t.ahead \ {k}, C)  BY <1>8, <1>14, LookedLookedAt
<1>17. SeesBelow(d, ll, S, G)  BY <1>8, <1>14, LookedSeesBelow
<1>18. Leading(calls, d, ll, S, G, C)
  <2>1. t.ahead \subseteq Between(calls)  BY <1>4, VisitFields
  <2> QED  BY <1>8, <1>14, <2>1, LookedLeading
<1>19. u \in VisitSet(calls)  BY <1>4, <1>13, VisitFields DEF VisitSet
<1>20. /\ u.timer = n /\ u.disc = d /\ u.low = ll /\ u.stack = t.stack /\ u.running = t.running
       /\ u.ahead = t.ahead \ {k} /\ u.sccs = C
  BY <1>7, <1>13
<1>21. VisitIsSound(calls, u.timer, u.disc, u.low, Range(u.stack), Range(u.running), u.ahead, u.sccs)
  BY <1>7, <1>8, <1>15, <1>16, <1>17, <1>18, <1>20 DEF VisitIsSound
<1>22. VisitInv(calls, u)  BY <1>5, <1>19, <1>20, <1>21 DEF VisitInv
<1> QED  BY <1>1, <1>2, <1>3, <1>5, <1>20, <1>22 DEF LookTaken

\* What strongConnect leaves when it has taken a component, or none.
ComponentTaken(calls, t, v, c) ==
  /\ c \in VisitSet(calls) /\ c.timer = t.timer /\ c.disc = t.disc /\ c.low = t.low
  /\ c.running = t.running /\ c.ahead = t.ahead /\ Ascending(t.disc, c.stack)
  /\ t.low[v] # t.disc[v] => c.stack = t.stack /\ c.sccs = t.sccs
  /\ t.low[v] = t.disc[v] =>
       Closed(v, t.disc, Range(t.stack), t.sccs, Range(c.stack), c.sccs)

\* The part of the stack that a function takes off, or none of it.
LEMMA ComponentIs ==
  ASSUME NEW calls, NEW t, NEW v,
         VisitInv(calls, t), v \in Range(t.stack)
  PROVE  ComponentTaken(calls, t, v, Component(t, v))
<1>1. PICK u : u = Component(t, v)  OBVIOUS
<1>2. t \in VisitSet(calls) /\ Ascending(t.disc, t.stack)  BY DEF VisitInv
<1>3. CASE t.low[v] # t.disc[v]
  <2>1. u = t  BY <1>1, <1>3 DEF Component
  <2> QED  BY <1>1, <1>2, <1>3, <2>1 DEF ComponentTaken
<1>4. CASE t.low[v] = t.disc[v]
  <2>1. /\ t.stack \in Seq(OnBoard) /\ t.disc \in [OnBoard -> Int] /\ t.sccs \in Seq(SUBSET OnBoard)
        /\ DOMAIN t.stack = 1 .. Len(t.stack)
    BY <1>2, VisitFields
  <2>2. PICK at \in DOMAIN t.stack : at = CHOOSE k \in DOMAIN t.stack : t.stack[k] = v
    <3>1. \E k \in DOMAIN t.stack : t.stack[k] = v  BY DEF Range
    <3> QED  BY <3>1
  <2>3. t.stack[at] = v
    <3>1. \E k \in DOMAIN t.stack : t.stack[k] = v  BY DEF Range
    <3> QED  BY <2>2, <3>1
  <2>4. PICK part : part = {t.stack[k] : k \in at .. Len(t.stack)}  OBVIOUS
  <2>5. PICK short : short = SubSeq(t.stack, 1, at - 1)  OBVIOUS
  <2>6. /\ short \in Seq(OnBoard) /\ Ascending(t.disc, short)
        /\ Range(short) = {y \in Range(t.stack) : t.disc[y] < t.disc[v]}
        /\ part = {y \in Range(t.stack) : t.disc[y] >= t.disc[v]}
    <3>1. at \in 1 .. Len(t.stack)  BY <2>1, <2>2
    <3>2. PICK seq \in Seq(OnBoard) : seq = t.stack  BY <2>1
    <3>2b. PICK d \in [OnBoard -> Int] : d = t.disc /\ Ascending(d, seq)  BY <1>2, <2>1, <3>2
    <3>3. /\ SubSeq(seq, 1, at - 1) \in Seq(OnBoard) /\ Ascending(d, SubSeq(seq, 1, at - 1))
          /\ Range(SubSeq(seq, 1, at - 1)) = {y \in Range(seq) : d[y] < d[seq[at]]}
          /\ {seq[k] : k \in at .. Len(seq)} = {y \in Range(seq) : d[y] >= d[seq[at]]}
      <4>1. PICK m \in 1 .. Len(seq) : m = at  BY <3>1, <3>2
      <4>2. IsCut(seq, d, m)  BY <3>2b, CutAscends
      <4> QED  BY <4>1, <4>2 DEF IsCut, Before
    <3> QED  BY <2>3, <2>4, <2>5, <3>2, <3>2b, <3>3
  <2>7. u = [t EXCEPT !.stack = SubSeq(@, 1, at - 1), !.sccs = Append(@, part)]
    BY <1>1, <1>4, <2>2, <2>4 DEF Component
  <2>8. u = [timer |-> t.timer, disc |-> t.disc, low |-> t.low, stack |-> short,
             running |-> t.running, ahead |-> t.ahead, sccs |-> Append(t.sccs, part)]
    BY <1>2, <2>5, <2>7 DEF VisitSet
  <2>9. part \in SUBSET OnBoard
    <3>1. Range(t.stack) \subseteq OnBoard  BY <2>1 DEF Range
    <3> QED  BY <2>6, <3>1
  <2>10. Append(t.sccs, part) \in Seq(SUBSET OnBoard)  BY <2>1, <2>9
  <2>11. u \in VisitSet(calls)  BY <1>2, <2>6, <2>8, <2>10, VisitFields DEF VisitSet
  <2>12. Closed(v, t.disc, Range(t.stack), t.sccs, Range(u.stack), u.sccs)
    BY <2>6, <2>8 DEF Closed
  <2> QED  BY <1>1, <1>4, <2>6, <2>8, <2>11, <2>12 DEF ComponentTaken
<1> QED  BY <1>3, <1>4

\* It returns, with a component or without: the visit stays sound.
LEMMA ReturnsIsSound ==
  ASSUME NEW calls, NEW t, NEW v,
         VisitInv(calls, t), t.running # << >>, v = Last(t.running),
         \A k \in t.ahead : calls[k][1] # v
  PROVE  /\ VisitInv(calls, Returns(t, v)) /\ Returns(t, v).ahead = t.ahead
         /\ Len(Returns(t, v).running) = Len(t.running) - 1
         /\ Returns(t, v).disc = t.disc
<1>1. t \in VisitSet(calls)  BY DEF VisitInv
<1>2. PICK n \in Nat, d \in [OnBoard -> Int], l \in [OnBoard -> Int] :
        n = t.timer /\ d = t.disc /\ l = t.low
  BY <1>1, VisitFields
<1>3. PICK S, G, C : S = Range(t.stack) /\ G = Range(t.running) /\ C = t.sccs  OBVIOUS
<1>4. /\ Numbered(n, d, l, S, G) /\ Parted(d, S, C) /\ LookedAt(calls, d, l, S, G, t.ahead, C)
      /\ SeesBelow(d, l, S, G) /\ Leading(calls, d, l, S, G, C)
  BY <1>2, <1>3 DEF VisitInv, VisitIsSound
<1>5. PICK rest \in Seq(OnBoard) : rest = Front(t.running) /\ Len(rest) = Len(t.running) - 1
                                   /\ Ascending(d, rest) /\ Range(rest) = G \ {v}
                                   /\ v \in G /\ \A q \in G : d[q] <= d[v]
  <2>1. t.running \in Seq(OnBoard) /\ Ascending(d, t.running)  BY <1>1, <1>2, VisitFields DEF VisitInv
  <2> QED  BY <2>1, <1>3, LastAscends
<1>6. v \in S /\ v \in OnBoard /\ l[v] \in Int /\ G \subseteq S /\ S \subseteq OnBoard
  BY <1>4, <1>5 DEF Numbered
<1>7. PICK c : c = Component(t, v)  OBVIOUS
<1>8. /\ c \in VisitSet(calls) /\ c.timer = n /\ c.disc = d /\ c.low = l /\ c.running = t.running
      /\ c.ahead = t.ahead /\ Ascending(d, c.stack)
      /\ l[v] # d[v] => c.stack = t.stack /\ c.sccs = C
      /\ l[v] = d[v] => Closed(v, d, S, C, Range(c.stack), c.sccs)
  <2>1. v \in Range(t.stack)  BY <1>3, <1>6
  <2>2. ComponentTaken(calls, t, v, c)  BY <1>7, <2>1, ComponentIs
  <2> QED  BY <1>2, <1>3, <2>2 DEF ComponentTaken
<1>9. PICK x : x = [c EXCEPT !.running = Front(@)]  OBVIOUS
<1>10. x = [timer |-> n, disc |-> d, low |-> l, stack |-> c.stack,
            running |-> rest, ahead |-> t.ahead, sccs |-> c.sccs]
  BY <1>5, <1>8, <1>9 DEF VisitSet
<1>11. PICK u : u = Returns(t, v)  OBVIOUS
<1>12. PICK ll \in [OnBoard -> Int] :
         /\ u = [timer |-> n, disc |-> d, low |-> ll, stack |-> c.stack,
                 running |-> rest, ahead |-> t.ahead, sccs |-> c.sccs]
         /\ \A y \in OnBoard : y \in Range(rest) /\ (\A q \in Range(rest) : d[q] <= d[y]) =>
              ll[y] <= l[y] /\ ll[y] <= l[v] /\ (ll[y] = l[y] \/ ll[y] = l[v])
         /\ \A y \in OnBoard : ~ (y \in Range(rest) /\ \A q \in Range(rest) : d[q] <= d[y]) => ll[y] = l[y]
  <2>1. CASE rest = << >>
    <3>1. u = x  BY <1>7, <1>9, <1>10, <1>11, <2>1 DEF Returns
    <3>2. Range(rest) = {}  BY <2>1 DEF Range
    <3> QED  BY <1>10, <3>1, <3>2
  <2>2. CASE rest # << >>
    <3>1. PICK p \in Range(rest) : p = Last(rest) /\ \A q \in Range(rest) : d[q] <= d[p]
      BY <1>5, <2>2, LastAscends
    <3>2. p \in G /\ p \in OnBoard /\ l[p] \in Int  BY <1>5, <1>6, <3>1
    <3> DEFINE ll == [l EXCEPT ![p] = Smaller(@, l[v])]
    <3>3. u = [x EXCEPT !.low[p] = Smaller(@, t.low[v])]
      <4>1. x.running = rest  BY <1>10
      <4>2. u = IF x.running = << >> THEN x ELSE [x EXCEPT !.low[Last(x.running)] = Smaller(@, t.low[v])]
        BY <1>7, <1>9, <1>11 DEF Returns
      <4>3. u = [x EXCEPT !.low[Last(rest)] = Smaller(@, t.low[v])]  BY <2>2, <4>1, <4>2
      <4> QED  BY <3>1, <4>3
    <3>4. u = [timer |-> n, disc |-> d, low |-> ll, stack |-> c.stack,
               running |-> rest, ahead |-> t.ahead, sccs |-> c.sccs]
      BY <1>2, <1>10, <3>3
    <3>5. /\ Smaller(l[p], l[v]) \in Int /\ Smaller(l[p], l[v]) <= l[p] /\ Smaller(l[p], l[v]) <= l[v]
          /\ Smaller(l[p], l[v]) = l[p] \/ Smaller(l[p], l[v]) = l[v]
      BY <1>6, <3>2 DEF Smaller
    <3>6. ll \in [OnBoard -> Int] /\ ll[p] = Smaller(l[p], l[v]) /\ \A y \in OnBoard : y # p => ll[y] = l[y]
      BY <3>2, <3>5
    <3>7. ASSUME NEW y \in Range(rest), \A q \in Range(rest) : d[q] <= d[y] PROVE y = p
      <4>1. y \in S /\ p \in S /\ y \in OnBoard  BY <1>5, <1>6, <3>2
      <4>2. d[y] \in Int /\ d[p] \in Int /\ d[p] >= 0  BY <1>4, <4>1 DEF Numbered
      <4>3. d[y] = d[p]  BY <3>1, <3>7, <4>2
      <4> QED  BY <1>4, <3>2, <4>1, <4>2, <4>3 DEF Numbered
    <3> HIDE DEF ll
    <3>8. \A y \in OnBoard : y \in Range(rest) /\ (\A q \in Range(rest) : d[q] <= d[y]) =>
              ll[y] <= l[y] /\ ll[y] <= l[v] /\ (ll[y] = l[y] \/ ll[y] = l[v])
      BY <3>5, <3>6, <3>7
    <3>9. \A y \in OnBoard : ~ (y \in Range(rest) /\ \A q \in Range(rest) : d[q] <= d[y]) => ll[y] = l[y]
      BY <3>1, <3>6
    <3> QED  BY <3>4, <3>6, <3>8, <3>9
  <2> QED  BY <2>1, <2>2
<1>13. PICK GG : GG = Range(rest)  OBVIOUS
<1>14. Returned(calls, v, d, l, G, t.ahead, ll, GG)
  BY <1>5, <1>12, <1>13 DEF Returned
<1>15. /\ u.timer = n /\ u.disc = d /\ u.low = ll /\ u.stack = c.stack /\ u.running = rest
       /\ u.ahead = t.ahead /\ u.sccs = c.sccs
  BY <1>12
<1>16. u \in VisitSet(calls)
  <2>1. c.stack \in Seq(OnBoard) /\ c.sccs \in Seq(SUBSET OnBoard) /\ t.ahead \in SUBSET Between(calls)
    BY <1>1, <1>8, VisitFields
  <2> QED  BY <1>12, <2>1 DEF VisitSet
<1>17. VisitIsSound(calls, n, d, ll, Range(c.stack), GG, t.ahead, c.sccs)
  <2>1. CASE l[v] # d[v]
    <3>1. Numbered(n, d, ll, S, GG)  BY <1>4, <1>14, ReturnedNumbered
    <3>2. LookedAt(calls, d, ll, S, GG, t.ahead, C)  BY <1>4, <1>14, ReturnedLookedAt
    <3>3. SeesBelow(d, ll, S, GG)  BY <1>4, <1>14, ReturnedSeesBelow
    <3>4. Leading(calls, d, ll, S, GG, C)  BY <1>4, <1>14, <2>1, StaysLeading
    <3>5. Range(c.stack) = S /\ c.sccs = C  BY <1>3, <1>8, <2>1
    <3> QED  BY <1>4, <3>1, <3>2, <3>3, <3>4, <3>5 DEF VisitIsSound
  <2>2. CASE l[v] = d[v]
    <3>1. PICK SS, CC : SS = Range(c.stack) /\ CC = c.sccs  OBVIOUS
    <3>2. Closed(v, d, S, C, SS, CC)  BY <1>8, <2>2, <3>1
    <3>3. Numbered(n, d, ll, SS, GG)  BY <1>4, <1>14, <3>2, ClosedNumbered
    <3>4. Parted(d, SS, CC)  BY <1>4, <1>6, <3>2, ClosedParted
    <3>5. LookedAt(calls, d, ll, SS, GG, t.ahead, CC)  BY <1>4, <1>14, <2>2, <3>2, ClosedLookedAt
    <3>6. SeesBelow(d, ll, SS, GG)  BY <1>4, <1>14, <3>2, ClosedSeesBelow
    <3>7. Leading(calls, d, ll, SS, GG, CC)  BY <1>4, <1>14, <2>2, <3>2, ClosedLeading
    <3> QED  BY <3>1, <3>3, <3>4, <3>5, <3>6, <3>7 DEF VisitIsSound
  <2> QED  BY <2>1, <2>2
<1>18. VisitInv(calls, u)  BY <1>5, <1>8, <1>13, <1>15, <1>16, <1>17 DEF VisitInv
<1> QED  BY <1>2, <1>5, <1>11, <1>15, <1>18

-----------------------------------------------------------------------------
\* A visit ends: every step leaves less to do.
Unseen(t) == {v \in OnBoard : t.disc[v] = -1}
Work(t) == 2 * Cardinality(Unseen(t)) + Len(t.running) + Cardinality(t.ahead)
Over(t) == t.running = << >> /\ Unseen(t) = {}

\* What is counted is finite: functions, calls, and the work that is left.
LEMMA BoardIsFinite == IsFiniteSet(OnBoard) /\ Cardinality(OnBoard) <= Len(BoardNodes)
<1>1. PICK n \in Nat : n = Len(BoardNodes) /\ DOMAIN BoardNodes = 1 .. n
  BY LayoutAssumption
<1>2. BoardNodes \in Surjection(1 .. n, OnBoard)
  <2>1. BoardNodes \in [1 .. n -> OnBoard]  BY <1>1, LayoutAssumption DEF OnBoard
  <2>2. \A v \in OnBoard : \E i \in 1 .. n : BoardNodes[i] = v  BY <1>1 DEF OnBoard
  <2> QED  BY <2>1, <2>2 DEF Surjection
<1>3. IsFiniteSet(1 .. n) /\ Cardinality(1 .. n) = n  BY FS_Interval
<1>4. IsFiniteSet(OnBoard) /\ Cardinality(OnBoard) <= Cardinality(1 .. n)
  BY <1>2, <1>3, FS_Surjection
<1> QED  BY <1>1, <1>3, <1>4

LEMMA CallsAreFinite ==
  ASSUME NEW calls, calls \in Seq(GraphCalls)
  PROVE  IsFiniteSet(Between(calls)) /\ Between(calls) \subseteq Nat
<1>1. PICK n \in Nat : DOMAIN calls = 1 .. n  OBVIOUS
<1>2. Between(calls) \subseteq 1 .. n  BY <1>1 DEF Between
<1>3. IsFiniteSet(1 .. n)  BY FS_Interval
<1>4. IsFiniteSet(Between(calls))  BY <1>2, <1>3, FS_Subset
<1> QED  BY <1>2, <1>4

LEMMA WorkIsFinite ==
  ASSUME NEW calls, NEW t, calls \in Seq(GraphCalls), t \in VisitSet(calls)
  PROVE  /\ IsFiniteSet(Unseen(t)) /\ Cardinality(Unseen(t)) \in Nat
         /\ IsFiniteSet(t.ahead) /\ Cardinality(t.ahead) \in Nat /\ Len(t.running) \in Nat
         /\ Work(t) \in Nat
<1>1. Unseen(t) \in SUBSET OnBoard  BY DEF Unseen
<1>2. IsFiniteSet(Unseen(t))  BY <1>1, BoardIsFinite, FS_Subset
<1>3. t.ahead \in SUBSET Between(calls) /\ t.running \in Seq(OnBoard)  BY VisitFields
<1>4. IsFiniteSet(t.ahead)  BY <1>3, CallsAreFinite, FS_Subset
<1>5. Cardinality(Unseen(t)) \in Nat /\ Cardinality(t.ahead) \in Nat  BY <1>2, <1>4, FS_CardinalityType
<1>6. Len(t.running) \in Nat  BY <1>3
<1> QED  BY <1>2, <1>4, <1>5, <1>6 DEF Work

\* What a step does to the work, from what it does to the parts.
LEMMA ConnectWorks ==
  ASSUME NEW calls, NEW t, NEW u, NEW v, calls \in Seq(GraphCalls),
         t \in VisitSet(calls), u \in VisitSet(calls), v \in Unseen(t),
         u.disc = [t.disc EXCEPT ![v] = t.timer], Len(u.running) = Len(t.running) + 1,
         u.ahead \subseteq t.ahead
  PROVE  Work(u) < Work(t)
<1>1. v \in OnBoard /\ t.disc \in [OnBoard -> Int] /\ t.timer \in Nat
  BY VisitFields DEF Unseen
<1>2. u.disc[v] # -1 /\ \A w \in OnBoard : w # v => u.disc[w] = t.disc[w]  BY <1>1
<1>3. Unseen(u) = Unseen(t) \ {v}  BY <1>1, <1>2 DEF Unseen
<1>4. /\ IsFiniteSet(Unseen(t)) /\ Cardinality(Unseen(t)) \in Nat /\ Len(t.running) \in Nat
      /\ IsFiniteSet(t.ahead) /\ Cardinality(t.ahead) \in Nat
  BY WorkIsFinite
<1>5. Cardinality(Unseen(u)) = Cardinality(Unseen(t)) - 1  BY <1>3, <1>4, FS_RemoveElement
<1>6. Cardinality(u.ahead) <= Cardinality(t.ahead) /\ Cardinality(u.ahead) \in Nat
  <2>1. u.ahead \in SUBSET t.ahead  OBVIOUS
  <2> QED  BY <1>4, <2>1, FS_Subset, WorkIsFinite
<1> QED  BY <1>4, <1>5, <1>6 DEF Work

\* A call looked at, or a return, leaves less to do.
LEMMA OthersWork ==
  ASSUME NEW calls, NEW t, NEW u, calls \in Seq(GraphCalls),
         t \in VisitSet(calls), u \in VisitSet(calls), u.disc = t.disc,
         \/ \E k \in t.ahead : u.ahead = t.ahead \ {k} /\ u.running = t.running
         \/ u.ahead = t.ahead /\ Len(u.running) = Len(t.running) - 1
  PROVE  Work(u) < Work(t)
<1>1. Unseen(u) = Unseen(t)  BY DEF Unseen
<1>2. /\ Cardinality(Unseen(t)) \in Nat /\ Len(t.running) \in Nat
      /\ IsFiniteSet(t.ahead) /\ Cardinality(t.ahead) \in Nat
  BY WorkIsFinite
<1>3. CASE \E k \in t.ahead : u.ahead = t.ahead \ {k} /\ u.running = t.running
  <2>1. PICK k \in t.ahead : u.ahead = t.ahead \ {k} /\ u.running = t.running  BY <1>3
  <2>2. Cardinality(u.ahead) = Cardinality(t.ahead) - 1  BY <1>2, <2>1, FS_RemoveElement
  <2> QED  BY <1>1, <1>2, <2>1, <2>2 DEF Work
<1>4. CASE u.ahead = t.ahead /\ Len(u.running) = Len(t.running) - 1
  BY <1>1, <1>2, <1>4 DEF Work
<1> QED  BY <1>3, <1>4

\* Sound steps that end.
StepIsSound(calls, t, u) ==
  /\ VisitInv(calls, u) /\ (Over(t) => u = t) /\ (~ Over(t) => Work(u) < Work(t))

\* One step of strongConnect: sound, and less is left unless all is done.
LEMMA StrongConnectIsSound ==
  ASSUME NEW calls, NEW t, calls \in Seq(GraphCalls), VisitInv(calls, t)
  PROVE  StepIsSound(calls, t, StrongConnect(calls, t))
<1>1. t \in VisitSet(calls)  BY DEF VisitInv
<1>2. PICK u : u = StrongConnect(calls, t)  OBVIOUS
<1>3. CASE t.running # << >>
  <2>1. PICK v : v = Last(t.running)  OBVIOUS
  <2>2. PICK mine : mine = {k \in t.ahead : calls[k][1] = v}  OBVIOUS
  <2>3. PICK d, S, G : d = t.disc /\ S = Range(t.stack) /\ G = Range(t.running)  OBVIOUS
  <2>4. v \in G /\ \A q \in G : d[q] <= d[v]
    <3>1. t.running \in Seq(OnBoard) /\ Ascending(d, t.running) /\ d \in [OnBoard -> Int]
      BY <1>1, <2>3, VisitFields DEF VisitInv
    <3> QED  BY <1>3, <2>1, <2>3, <3>1, LastAscends
  <2>5. ~ Over(t)  BY <1>3 DEF Over
  <2>6. CASE mine # {}
    <3>1. PICK k : k = Min(mine)  OBVIOUS
    <3>2. k \in mine
      <4>1. mine \in SUBSET Nat  BY <1>1, <2>2, VisitFields, CallsAreFinite
      <4> QED  BY <2>6, <3>1, <4>1, MinIs
    <3>3. k \in t.ahead /\ calls[k][1] = v  BY <2>2, <3>2
    <3>4. k \in Between(calls)  BY <1>1, <3>3, VisitFields
    <3>5. PICK w \in OnBoard : w = calls[k][2]  BY <3>4, CallLeads
    <3>6. u = LooksAt(t, v, w, k)
      BY <1>2, <1>3, <2>1, <2>2, <2>6, <3>1, <3>5 DEF StrongConnect
    <3>7. CASE t.disc[w] = -1
      <4>1. PICK ahead : ahead = t.ahead \ {k}  OBVIOUS
      <4>2. u = Connect([t EXCEPT !.ahead = ahead], w)
        BY <3>6, <3>7, <4>1 DEF LooksAt
      <4>3. \A p \in G : LeadsTo(calls, p, w)
        <5>1. LeadsTo(calls, v, w)  BY <3>3, <3>4, <3>5, CallLeads
        <5>2. Leading(calls, d, t.low, S, G, t.sccs) /\ G \subseteq S
          BY <2>3 DEF VisitInv, VisitIsSound, Numbered
        <5>3. \A p \in G : LeadsTo(calls, p, v)  BY <2>4, <5>2 DEF Leading
        <5> QED  BY <5>1, <5>3, LeadsOn
      <4>4. /\ ahead \subseteq t.ahead
            /\ \A m \in t.ahead \ ahead : calls[m][1] \in Range(t.running) /\ calls[m][2] = w
            /\ \A p \in Range(t.running) : LeadsTo(calls, p, w)
        BY <2>3, <2>4, <3>3, <3>5, <4>1, <4>3
      <4>5a. ConnectTaken(calls, t, w, ahead, u)  BY <3>7, <4>2, <4>4, ConnectIsSound
      <4>5. /\ VisitInv(calls, u) /\ u.ahead = ahead /\ Len(u.running) = Len(t.running) + 1
            /\ u.disc = [t.disc EXCEPT ![w] = t.timer]
        BY <4>5a DEF ConnectTaken
      <4>6. u \in VisitSet(calls) /\ w \in Unseen(t)  BY <3>7, <4>5 DEF VisitInv, Unseen
      <4>7. Work(u) < Work(t)  BY <1>1, <4>4, <4>5, <4>6, ConnectWorks
      <4> QED  BY <1>2, <2>5, <4>5, <4>7 DEF StepIsSound
    <3>8. CASE t.disc[w] # -1
      <4>1. u = SeesSeen([t EXCEPT !.ahead = @ \ {k}], v, calls[k][2])
        BY <3>5, <3>6, <3>8 DEF LooksAt
      <4>2a. LookTaken(calls, t, k, u)
        BY <1>3, <2>1, <3>3, <3>5, <3>8, <4>1, SeesSeenIsSound
      <4>2. VisitInv(calls, u) /\ u.ahead = t.ahead \ {k} /\ u.running = t.running /\ u.disc = t.disc
        BY <4>2a DEF LookTaken
      <4>3. u \in VisitSet(calls)  BY <4>2 DEF VisitInv
      <4>4. Work(u) < Work(t)  BY <1>1, <3>3, <4>2, <4>3, OthersWork
      <4> QED  BY <1>2, <2>5, <4>2, <4>4 DEF StepIsSound
    <3> QED  BY <3>7, <3>8
  <2>7. CASE mine = {}
    <3>1. u = Returns(t, v)  BY <1>2, <1>3, <2>1, <2>2, <2>7 DEF StrongConnect
    <3>2. \A k \in t.ahead : calls[k][1] # v  BY <2>2, <2>7
    <3>3. /\ VisitInv(calls, u) /\ u.ahead = t.ahead /\ Len(u.running) = Len(t.running) - 1
          /\ u.disc = t.disc
      BY <1>3, <2>1, <3>1, <3>2, ReturnsIsSound
    <3>4. u \in VisitSet(calls)  BY <3>3 DEF VisitInv
    <3>5. Work(u) < Work(t)  BY <1>1, <3>3, <3>4, OthersWork
    <3> QED  BY <1>2, <2>5, <3>3, <3>5 DEF StepIsSound
  <2> QED  BY <2>6, <2>7
<1>4. CASE t.running = << >>
  <2>1. PICK left : left = {i \in DOMAIN BoardNodes : t.disc[BoardNodes[i]] = -1}  OBVIOUS
  <2>2. CASE left # {}
    <3>1. PICK i : i = Min(left)  OBVIOUS
    <3>2. i \in left
      <4>1. left \in SUBSET Nat  BY <2>1, LayoutAssumption
      <4> QED  BY <2>2, <3>1, <4>1, MinIs
    <3>3. PICK v \in OnBoard : v = BoardNodes[i] /\ t.disc[v] = -1  BY <2>1, <3>2 DEF OnBoard
    <3>4. u = Connect(t, v)  BY <1>2, <1>4, <2>1, <2>2, <3>1, <3>3 DEF StrongConnect
    <3>5. PICK ahead : ahead = t.ahead  OBVIOUS
    <3>6. [t EXCEPT !.ahead = ahead] = t  BY <1>1, <3>5 DEF VisitSet
    <3>7. u = Connect([t EXCEPT !.ahead = ahead], v)  BY <3>4, <3>6
    <3>8. Range(t.running) = {}  BY <1>4 DEF Range
    <3>9. /\ ahead \subseteq t.ahead
          /\ \A m \in t.ahead \ ahead : calls[m][1] \in Range(t.running) /\ calls[m][2] = v
          /\ \A p \in Range(t.running) : LeadsTo(calls, p, v)
      BY <3>5, <3>8
    <3>10a. ConnectTaken(calls, t, v, ahead, u)  BY <3>3, <3>7, <3>9, ConnectIsSound
    <3>10. /\ VisitInv(calls, u) /\ u.ahead = ahead /\ Len(u.running) = Len(t.running) + 1
           /\ u.disc = [t.disc EXCEPT ![v] = t.timer]
      BY <3>10a DEF ConnectTaken
    <3>11. u \in VisitSet(calls) /\ v \in Unseen(t)  BY <3>3, <3>10 DEF VisitInv, Unseen
    <3>12. Work(u) < Work(t)  BY <1>1, <3>9, <3>10, <3>11, ConnectWorks
    <3>13. ~ Over(t)  BY <3>11 DEF Over
    <3> QED  BY <1>2, <3>10, <3>12, <3>13 DEF StepIsSound
  <2>3. CASE left = {}
    <3>1. u = t  BY <1>2, <1>4, <2>1, <2>3 DEF StrongConnect
    <3>2. Unseen(t) = {}  BY <2>1, <2>3 DEF Unseen, OnBoard
    <3> QED  BY <1>2, <1>4, <3>1, <3>2 DEF StepIsSound, Over
  <2> QED  BY <2>2, <2>3
<1> QED  BY <1>3, <1>4

-----------------------------------------------------------------------------
\* The visits are what the steps make of the board, one after the other.
VisitsAre(calls, visit) ==
  /\ visit[0] = NoneSeen(calls)
  /\ \A n \in Nat : VisitInv(calls, visit[n]) /\ visit[n + 1] = StrongConnect(calls, visit[n])

\* Visits exists, and every one of them is sound.
LEMMA VisitsIs ==
  ASSUME NEW calls, calls \in Seq(GraphCalls)
  PROVE  VisitsAre(calls, Visits(calls))
<1> DEFINE Body(f) == [n \in Nat |-> IF n = 0 THEN NoneSeen(calls) ELSE StrongConnect(calls, f[n - 1])]
           visit == CHOOSE f : f = Body(f)
<1>1. PICK X : X = {t \in VisitSet(calls) : VisitInv(calls, t)}  OBVIOUS
<1>2. \A t : t \in X <=> VisitInv(calls, t)  BY <1>1 DEF VisitInv
<1>3. PICK first \in X : first = NoneSeen(calls)  BY <1>2, NoneSeenIsSound
<1>4. \A t \in X : StrongConnect(calls, t) \in X
  <2> SUFFICES ASSUME NEW t \in X PROVE StrongConnect(calls, t) \in X  OBVIOUS
  <2>1. VisitInv(calls, t)  BY <1>2
  <2>2. StepIsSound(calls, t, StrongConnect(calls, t))  BY <2>1, StrongConnectIsSound
  <2>3. VisitInv(calls, StrongConnect(calls, t))  BY <2>2 DEF StepIsSound
  <2> QED  BY <1>2, <2>3
<1>5. PICK step \in [Nat \X X -> X] : \A n \in Nat, t \in X : step[<<n, t>>] = StrongConnect(calls, t)
  <2> DEFINE s == [a \in Nat \X X |-> StrongConnect(calls, a[2])]
  <2>1. s \in [Nat \X X -> X]  BY <1>4
  <2>2. \A n \in Nat, t \in X : s[<<n, t>>] = StrongConnect(calls, t)  OBVIOUS
  <2> HIDE DEF s
  <2> QED  BY <2>1, <2>2
<1>6a. PICK f : Goes(f, first, step, X)  BY Iterates, Zenon
<1>6. f \in [Nat -> X] /\ f[0] = first /\ \A n \in Nat : f[n + 1] = step[<<n, f[n]>>]
  BY <1>6a DEF Goes
<1>7. \A n \in Nat : f[n + 1] = StrongConnect(calls, f[n])  BY <1>5, <1>6
<1>8. f = Body(f)
  <2>1. \A n \in Nat : f[n] = IF n = 0 THEN NoneSeen(calls) ELSE StrongConnect(calls, f[n - 1])
    <3> SUFFICES ASSUME NEW n \in Nat
                 PROVE  f[n] = IF n = 0 THEN NoneSeen(calls) ELSE StrongConnect(calls, f[n - 1])
      OBVIOUS
    <3>1. CASE n = 0  BY <3>1, <1>3, <1>6
    <3>2. CASE n # 0
      <4>1. n - 1 \in Nat /\ (n - 1) + 1 = n  BY <3>2
      <4>2. f[(n - 1) + 1] = StrongConnect(calls, f[n - 1])  BY <4>1, <1>7
      <4> QED  BY <3>2, <4>1, <4>2
    <3> QED  BY <3>1, <3>2
  <2>2. f = [n \in Nat |-> f[n]]  BY <1>6
  <2> QED  BY <2>1, <2>2
<1>9. visit = Body(visit)
  <2> HIDE DEF Body
  <2> QED  BY <1>8, Zenon
<1>10. Visits(calls) = visit  BY Zenon DEF Visits
<1> HIDE DEF visit
<1>11. visit[0] = first  BY <1>9, <1>3
<1>12. ASSUME NEW n \in Nat PROVE visit[n + 1] = StrongConnect(calls, visit[n])
  <2>1. n + 1 \in Nat /\ n + 1 # 0 /\ (n + 1) - 1 = n  OBVIOUS
  <2>2. visit[n + 1] = IF n + 1 = 0 THEN NoneSeen(calls) ELSE StrongConnect(calls, visit[(n + 1) - 1])
    BY <1>9, <2>1
  <2> QED  BY <2>1, <2>2
<1>13. \A n \in Nat : visit[n] \in X
  <2> DEFINE Good == {n \in Nat : visit[n] \in X}
  <2>1. 0 \in Good  BY <1>11
  <2>2. ASSUME NEW n \in Nat, n \in Good PROVE n + 1 \in Good
    <3>1. visit[n] \in X  BY <2>2
    <3>2. StrongConnect(calls, visit[n]) \in X  BY <1>4, <3>1
    <3>3. visit[n + 1] \in X  BY <1>12, <3>2, Zenon
    <3> QED  BY <3>3
  <2>3. \A n \in Nat : n \in Good
    <3> HIDE DEF Good
    <3> QED  BY <2>1, <2>2, AllNumbers
  <2> QED  BY <2>3
<1> QED  BY <1>2, <1>3, <1>10, <1>11, <1>12, <1>13 DEF VisitsAre

\* What computeSCCs returns: the components, later ones calling earlier ones only.
SccsAre(calls, sccs) ==
  /\ sccs \in Seq(SUBSET OnBoard)
  /\ \A v \in OnBoard : \E i \in DOMAIN sccs : v \in sccs[i]
  /\ \A i, j \in DOMAIN sccs : i # j => sccs[i] \cap sccs[j] = {}
  /\ \A i \in DOMAIN sccs : \A u, w \in sccs[i] : LeadsTo(calls, u, w)
  /\ \A k \in Between(calls), i \in DOMAIN sccs :
       calls[k][1] \in sccs[i] => \E j \in 1 .. i : calls[k][2] \in sccs[j]

\* When nothing runs and all are seen, the components are those of the graph.
LEMMA OverIsDone ==
  ASSUME NEW calls, NEW t, VisitInv(calls, t), Over(t)
  PROVE  SccsAre(calls, t.sccs)
<1>1. PICK d, l, S, C : d = t.disc /\ l = t.low /\ S = Range(t.stack) /\ C = t.sccs  OBVIOUS
<1>2. Range(t.running) = {}  BY DEF Over, Range
<1>3. /\ Parted(d, S, C) /\ LookedAt(calls, d, l, S, {}, t.ahead, C)
      /\ Leading(calls, d, l, S, {}, C)
  BY <1>1, <1>2 DEF VisitInv, VisitIsSound
<1>4. S = {}  BY <1>3 DEF Leading
<1>5. \A v \in OnBoard : d[v] # -1  BY <1>1 DEF Over, Unseen
<1>6. \A v \in OnBoard : \E i \in DOMAIN C : v \in C[i]  BY <1>3, <1>4, <1>5 DEF Parted
<1>7. C \in Seq(SUBSET OnBoard) /\ \A i, j \in DOMAIN C : i # j => C[i] \cap C[j] = {}
  BY <1>3 DEF Parted
<1>8. \A i \in DOMAIN C : \A u, w \in C[i] : LeadsTo(calls, u, w)  BY <1>3 DEF Leading
<1>9. \A k \in Between(calls), i \in DOMAIN C :
        calls[k][1] \in C[i] => \E j \in 1 .. i : calls[k][2] \in C[j]
  BY <1>3 DEF LookedAt
<1> QED  BY <1>1, <1>6, <1>7, <1>8, <1>9 DEF SccsAre

\* computeSCCs finds the components: functions in a cycle together, callees first.
LEMMA SccsIs ==
  ASSUME NEW calls, calls \in Seq(GraphCalls)
  PROVE  SccsAre(calls, ComputeSCCs(calls))
<1>1. PICK visit : visit = Visits(calls)  OBVIOUS
<1>2. VisitsAre(calls, visit)  BY <1>1, VisitsIs
<1>3. \A n \in Nat : StepIsSound(calls, visit[n], visit[n + 1])
  BY <1>2, StrongConnectIsSound DEF VisitsAre
<1>4. \A n \in Nat : Work(visit[n]) \in Nat
  BY <1>2, WorkIsFinite DEF VisitsAre, VisitInv
<1> DEFINE Good == {n \in Nat : Over(visit[n]) \/ Work(visit[n]) + n <= Work(visit[0])}
<1>5. 0 \in Good  BY <1>4
<1>6. ASSUME NEW n \in Nat, n \in Good PROVE n + 1 \in Good
  <2>1. CASE Over(visit[n])
    <3>1. visit[n + 1] = visit[n]  BY <1>3, <2>1 DEF StepIsSound
    <3> QED  BY <2>1, <3>1
  <2>2. CASE ~ Over(visit[n])
    <3>1. Work(visit[n + 1]) < Work(visit[n])  BY <1>3, <2>2 DEF StepIsSound
    <3>2. Work(visit[n]) + n <= Work(visit[0])  BY <1>6, <2>2
    <3>3. Work(visit[n + 1]) \in Nat /\ Work(visit[n]) \in Nat /\ Work(visit[0]) \in Nat  BY <1>4
    <3>4. Work(visit[n + 1]) + (n + 1) <= Work(visit[0])  BY <3>1, <3>2, <3>3
    <3> QED  BY <3>4
  <2> QED  BY <2>1, <2>2
<1>7. \A n \in Nat : n \in Good
  <2> HIDE DEF Good
  <2> QED  BY <1>5, <1>6, AllNumbers
<1>8. PICK full \in Nat : full = 2 * Len(BoardNodes) + Cardinality(Between(calls))
  <2>1. Len(BoardNodes) \in Nat  BY LayoutAssumption
  <2>2. Cardinality(Between(calls)) \in Nat  BY CallsAreFinite, FS_CardinalityType
  <2> QED  BY <2>1, <2>2
<1>9. Work(visit[0]) <= full
  <2>1. PICK t : t = NoneSeen(calls)  OBVIOUS
  <2>2. t.running = << >> /\ t.ahead = Between(calls) /\ t.disc = [v \in OnBoard |-> -1]
    BY <2>1 DEF NoneSeen
  <2>3. Unseen(t) = OnBoard  BY <2>2 DEF Unseen
  <2>4. Cardinality(OnBoard) <= Len(BoardNodes) /\ Cardinality(OnBoard) \in Nat
    BY BoardIsFinite, FS_CardinalityType
  <2>5. Cardinality(Between(calls)) \in Nat  BY CallsAreFinite, FS_CardinalityType
  <2>6. Work(t) = 2 * Cardinality(OnBoard) + 0 + Cardinality(Between(calls))
    BY <2>2, <2>3 DEF Work
  <2>7. Len(BoardNodes) \in Nat  BY LayoutAssumption
  <2>8. Work(t) <= full  BY <1>8, <2>4, <2>5, <2>6, <2>7
  <2> QED  BY <1>2, <2>1, <2>8 DEF VisitsAre
<1>10. Over(visit[full])
  <2> SUFFICES ASSUME ~ Over(visit[full]) PROVE FALSE  OBVIOUS
  <2>1. Work(visit[full]) + full <= Work(visit[0])  BY <1>7
  <2>2. Work(visit[full]) \in Nat /\ Work(visit[0]) \in Nat  BY <1>4
  <2>3. Work(visit[full]) = 0  BY <1>9, <2>1, <2>2
  <2>4. visit[full] \in VisitSet(calls)  BY <1>2 DEF VisitsAre, VisitInv
  <2>5. PICK t : t = visit[full]  OBVIOUS
  <2>6. /\ IsFiniteSet(Unseen(t)) /\ Cardinality(Unseen(t)) \in Nat
        /\ Cardinality(t.ahead) \in Nat /\ Len(t.running) \in Nat
    BY <2>4, <2>5, WorkIsFinite
  <2>7. Cardinality(Unseen(t)) = 0 /\ Len(t.running) = 0  BY <2>3, <2>5, <2>6 DEF Work
  <2>8. Unseen(t) = {}  BY <2>6, <2>7, FS_EmptySet
  <2>9. t.running = << >>
    <3>1. t.running \in Seq(OnBoard)  BY <2>4, <2>5, VisitFields
    <3> QED  BY <2>7, <3>1
  <2> QED  BY <2>5, <2>8, <2>9 DEF Over
<1>11. SccsAre(calls, visit[full].sccs)  BY <1>2, <1>10, OverIsDone DEF VisitsAre
<1>12. ComputeSCCs(calls) = visit[full].sccs  BY <1>1, <1>8 DEF ComputeSCCs
<1> QED  BY <1>11, <1>12

\* The component of a function is the one it is in.
LEMMA SccOfIs ==
  ASSUME NEW calls, NEW sccs, NEW v, SccsAre(calls, sccs), v \in OnBoard
  PROVE  /\ SccOf(sccs, v) \in DOMAIN sccs /\ v \in sccs[SccOf(sccs, v)]
         /\ \A i \in DOMAIN sccs : v \in sccs[i] => i = SccOf(sccs, v)
<1>1. \E i \in DOMAIN sccs : v \in sccs[i]  BY DEF SccsAre
<1>2. SccOf(sccs, v) \in DOMAIN sccs /\ v \in sccs[SccOf(sccs, v)]  BY <1>1, Zenon DEF SccOf
<1>3. \A i, j \in DOMAIN sccs : i # j => sccs[i] \cap sccs[j] = {}  BY DEF SccsAre
<1> QED  BY <1>2, <1>3

\* A call goes to the same component or to an earlier one.
LEMMA CallsGoDown ==
  ASSUME NEW calls, NEW sccs, NEW k, SccsAre(calls, sccs),
         k \in DOMAIN calls, Ends(calls[k]) \subseteq OnBoard
  PROVE  SccOf(sccs, calls[k][2]) <= SccOf(sccs, calls[k][1])
<1>1. PICK u \in OnBoard : u = calls[k][1]  BY DEF Ends
<1>2. PICK w \in OnBoard : w = calls[k][2]  BY DEF Ends
<1>3. PICK i \in DOMAIN sccs : i = SccOf(sccs, u) /\ u \in sccs[i]  BY SccOfIs
<1>4. DOMAIN sccs = 1 .. Len(sccs) /\ Len(sccs) \in Nat  BY DEF SccsAre
<1>5. CASE u = w  BY <1>1, <1>2, <1>3, <1>4, <1>5
<1>6. CASE u # w
  <2>1. k \in Between(calls)  BY <1>1, <1>2, <1>6 DEF Between
  <2>2. PICK j \in 1 .. i : w \in sccs[j]  BY <1>1, <1>2, <1>3, <2>1 DEF SccsAre
  <2>3. j \in DOMAIN sccs  BY <1>4, <2>2
  <2>4. j = SccOf(sccs, w)  BY <2>2, <2>3, SccOfIs
  <2> QED  BY <1>1, <1>2, <1>3, <1>4, <2>2, <2>4
<1> QED  BY <1>5, <1>6

\* What a function leads to is not in a later component.
LEMMA LeadingGoesDown ==
  ASSUME NEW calls, NEW sccs, NEW u, NEW w, SccsAre(calls, sccs),
         u \in OnBoard, LeadsTo(calls, u, w)
  PROVE  w \in OnBoard /\ SccOf(sccs, w) <= SccOf(sccs, u)
<1>1. \A v \in OnBoard : SccOf(sccs, v) \in Nat
  <2>1. DOMAIN sccs = 1 .. Len(sccs) /\ Len(sccs) \in Nat  BY DEF SccsAre
  <2> QED  BY <2>1, SccOfIs
<1>2. PICK S : S = {v \in OnBoard : SccOf(sccs, v) <= SccOf(sccs, u)}  OBVIOUS
<1>3. u \in S  BY <1>1, <1>2
<1>4. ClosedUnder(calls, S)
  <2> SUFFICES ASSUME NEW k \in DOMAIN calls, calls[k][1] \in S, calls[k][2] \in OnBoard
               PROVE  calls[k][2] \in S
    BY DEF ClosedUnder
  <2>1. calls[k][1] \in OnBoard  BY <1>2
  <2>2. Ends(calls[k]) \subseteq OnBoard  BY <2>1 DEF Ends
  <2>3. PICK a, b : a = SccOf(sccs, calls[k][1]) /\ b = SccOf(sccs, calls[k][2])  OBVIOUS
  <2>4. b <= a  BY <2>2, <2>3, CallsGoDown
  <2>5. a \in Nat /\ b \in Nat  BY <1>1, <2>1, <2>3
  <2>6. PICK c \in Nat : c = SccOf(sccs, u)  BY <1>1
  <2>7. a <= c  BY <1>2, <2>3, <2>6
  <2>8. b <= c  BY <2>4, <2>5, <2>6, <2>7
  <2> QED  BY <1>2, <2>3, <2>6, <2>8
<1>5. S \in SUBSET OnBoard  BY <1>2
<1>6. w \in S  BY <1>3, <1>4, <1>5 DEF LeadsTo
<1> QED  BY <1>2, <1>6

\* A call between two functions is drawn as part of a cycle when the called one leads back.
LEMMA MarkedIs ==
  ASSUME NEW calls, NEW k, calls \in Seq(GraphCalls), k \in DOMAIN calls, calls[k][1] # calls[k][2]
  PROVE  k \in BuildSccEdgeIds(calls)
           <=> Ends(calls[k]) \subseteq OnBoard /\ LeadsTo(calls, calls[k][2], calls[k][1])
<1>1. PICK sccs : sccs = ComputeSCCs(calls)  OBVIOUS
<1>2. SccsAre(calls, sccs)  BY <1>1, SccsIs
<1>3. PICK u, w : u = calls[k][1] /\ w = calls[k][2]  OBVIOUS
<1>4. Ends(calls[k]) \subseteq OnBoard <=> u \in OnBoard /\ w \in OnBoard  BY <1>3 DEF Ends
<1> DEFINE Cyclic == {v \in OnBoard : Cardinality(sccs[SccOf(sccs, v)]) > 1}
<1>5. k \in BuildSccEdgeIds(calls)
        <=> Ends(calls[k]) \subseteq Cyclic /\ SccOf(sccs, u) = SccOf(sccs, w)
  BY <1>1, <1>3 DEF BuildSccEdgeIds
<1>6. Ends(calls[k]) \subseteq Cyclic <=> u \in Cyclic /\ w \in Cyclic  BY <1>3 DEF Ends
<1>7. ASSUME k \in BuildSccEdgeIds(calls)
      PROVE  Ends(calls[k]) \subseteq OnBoard /\ LeadsTo(calls, w, u)
  <2>1. u \in OnBoard /\ w \in OnBoard  BY <1>5, <1>6, <1>7
  <2>2. PICK i : i = SccOf(sccs, u)  OBVIOUS
  <2>3. i = SccOf(sccs, w)  BY <1>5, <1>7, <2>2
  <2>4. i \in DOMAIN sccs /\ u \in sccs[i] /\ w \in sccs[i]  BY <1>2, <2>1, <2>2, <2>3, SccOfIs
  <2>5. LeadsTo(calls, w, u)  BY <1>2, <2>4 DEF SccsAre
  <2> QED  BY <1>4, <2>1, <2>5
<1>8. ASSUME Ends(calls[k]) \subseteq OnBoard, LeadsTo(calls, w, u)
      PROVE  k \in BuildSccEdgeIds(calls)
  <2>1. u \in OnBoard /\ w \in OnBoard  BY <1>4, <1>8
  <2>2. SccOf(sccs, w) <= SccOf(sccs, u)  BY <1>2, <1>3, <1>8, CallsGoDown
  <2>3. SccOf(sccs, u) <= SccOf(sccs, w)  BY <1>2, <1>8, <2>1, LeadingGoesDown
  <2>4. DOMAIN sccs = 1 .. Len(sccs) /\ Len(sccs) \in Nat  BY <1>2 DEF SccsAre
  <2>5. PICK i \in DOMAIN sccs : i = SccOf(sccs, u) /\ u \in sccs[i]  BY <1>2, <2>1, SccOfIs
  <2>6. PICK j \in DOMAIN sccs : j = SccOf(sccs, w) /\ w \in sccs[j]  BY <1>2, <2>1, SccOfIs
  <2>7. i = j  BY <2>2, <2>3, <2>4, <2>5, <2>6
  <2>8. sccs[i] \in SUBSET OnBoard  BY <1>2, <2>5 DEF SccsAre
  <2>9. {u, w} \in SUBSET sccs[i] /\ IsFiniteSet(sccs[i])
    <3>1. IsFiniteSet(sccs[i])  BY <2>8, BoardIsFinite, FS_Subset
    <3> QED  BY <2>5, <2>6, <2>7, <3>1
  <2>10. Cardinality({u, w}) = 2
    <3>1. IsFiniteSet({u}) /\ Cardinality({u}) = 1  BY FS_Singleton
    <3>2. Cardinality({u} \cup {w}) = Cardinality({u}) + 1  BY <1>3, <3>1, FS_AddElement
    <3>3. {u} \cup {w} = {u, w}  OBVIOUS
    <3>4. PICK c : c = Cardinality({u, w})  OBVIOUS
    <3>5. c = 1 + 1  BY <3>1, <3>2, <3>3, <3>4, Zenon
    <3>6. c = 2  BY <3>5, SMT
    <3> QED  BY <3>4, <3>6, Zenon
  <2>11. Cardinality(sccs[i]) > 1
    <3>1. Cardinality({u, w}) <= Cardinality(sccs[i])  BY <2>9, FS_Subset
    <3>2. Cardinality(sccs[i]) \in Nat  BY <2>9, FS_CardinalityType
    <3> QED  BY <2>10, <3>1, <3>2
  <2>12. u \in Cyclic /\ w \in Cyclic  BY <2>1, <2>5, <2>6, <2>7, <2>11
  <2>13. SccOf(sccs, u) = SccOf(sccs, w)  BY <2>5, <2>6, <2>7
  <2> QED  BY <1>5, <1>6, <2>12, <2>13
<1> QED  BY <1>3, <1>7, <1>8

-----------------------------------------------------------------------------
\* A sequence over a set is one over a larger set.
LEMMA SeqOfMore ==
  ASSUME NEW S, NEW T, NEW s, s \in Seq(S), S \subseteq T
  PROVE  s \in Seq(T)
<1>1. PICK n \in Nat : s \in [1 .. n -> S]
  <2>1. Len(s) \in Nat /\ s \in [1 .. Len(s) -> S]  OBVIOUS
  <2> QED  BY <2>1
<1>2. s \in [1 .. n -> T]  BY <1>1
<1> QED  BY <1>2

\* The members of a sequence, each there once.
Lists(s, S) ==
  /\ s \in Seq(S)
  /\ \A x \in S : \E a \in DOMAIN s : s[a] = x
  /\ \A a, b \in DOMAIN s : s[a] = s[b] => a = b

\* SetToSeq lists a finite set, each member once.
LEMMA SetToSeqLists ==
  ASSUME NEW S, IsFiniteSet(S)
  PROVE  Lists(SetToSeq(S), S)
<1>1. PICK n \in Nat : n = Cardinality(S)  BY FS_CardinalityType
<1>2. \E f \in [1 .. n -> S] : IsInjective(f)
  <2>1. ExistsBijection(1 .. n, S)  BY <1>1, FS_CardinalityType
  <2>2. PICK f : f \in Bijection(1 .. n, S)  BY <2>1 DEF ExistsBijection
  <2>3. f \in [1 .. n -> S] /\ IsInjective(f)  BY <2>2 DEF Bijection, Injection
  <2> QED  BY <2>3
<1>3. PICK f : f = SetToSeq(S)  OBVIOUS
<1>4. f \in [1 .. n -> S] /\ IsInjective(f)
  <2>1. f = CHOOSE g \in [1 .. n -> S] : IsInjective(g)  BY <1>1, <1>3 DEF SetToSeq
  <2> QED  BY <1>2, <2>1, Zenon
<1>5. f \in Injection(1 .. n, S)  BY <1>4 DEF Injection
<1>6. IsFiniteSet(1 .. n) /\ Cardinality(1 .. n) = n  BY FS_Interval
<1>7. f \in Surjection(1 .. n, S)  BY <1>1, <1>5, <1>6, FS_Injection
<1>8. f \in Seq(S) /\ DOMAIN f = 1 .. n  BY <1>4
<1>9. \A x \in S : \E a \in DOMAIN f : f[a] = x  BY <1>7, <1>8 DEF Surjection
<1>10. \A a, b \in DOMAIN f : f[a] = f[b] => a = b  BY <1>4 DEF IsInjective
<1> QED  BY <1>3, <1>8, <1>9, <1>10 DEF Lists

\* The head goes, and others join.
LEMMA QueueMoves ==
  ASSUME NEW s, NEW S, NEW r, NEW T, Lists(s, S), s # << >>, Lists(r, T), S \cap T = {}
  PROVE  Head(s) \in S /\ Lists(Tail(s) \o r, (S \ {Head(s)}) \cup T)
<1>1. PICK l, n \in Nat : /\ l = Len(s) /\ DOMAIN s = 1 .. l /\ n = Len(r) /\ DOMAIN r = 1 .. n
  BY DEF Lists
<1>2. s \in Seq(S) /\ r \in Seq(T)  BY DEF Lists
<1>3. l > 0  BY <1>1, <1>2
<1>4. PICK h : h = Head(s) /\ h = s[1]  BY <1>2
<1>5. h \in S  BY <1>1, <1>2, <1>3, <1>4
<1>6. \A a \in 1 .. l : s[a] \in S /\ (a # 1 => s[a] # h)
  <2> SUFFICES ASSUME NEW a \in 1 .. l PROVE s[a] \in S /\ (a # 1 => s[a] # h)  OBVIOUS
  <2>1. s[a] \in S  BY <1>1, <1>2
  <2>2. 1 \in DOMAIN s /\ a \in DOMAIN s  BY <1>1, <1>3
  <2>3. s[a] = s[1] => a = 1  BY <2>2 DEF Lists
  <2> QED  BY <1>4, <2>1, <2>3
<1>7. PICK q : q = Tail(s) \o r  OBVIOUS
<1>8. PICK X : X = (S \ {h}) \cup T  OBVIOUS
<1>9. Tail(s) \in Seq(S) /\ Len(Tail(s)) = l - 1 /\ \A a \in 1 .. (l - 1) : Tail(s)[a] = s[a + 1]
  BY <1>1, <1>2, <1>3
<1>10. /\ q \in Seq(S \cup T) /\ Len(q) = l - 1 + n
  <2>1. Tail(s) \in Seq(S \cup T) /\ r \in Seq(S \cup T)  BY <1>2, <1>9
  <2> QED  BY <1>1, <1>7, <1>9, <2>1
<1>11. DOMAIN q = 1 .. (l - 1 + n)  BY <1>10
<1>12. /\ \A a \in 1 .. (l - 1) : q[a] = s[a + 1]
       /\ \A a \in l .. (l - 1 + n) : q[a] = r[a - (l - 1)]
  <2>1. PICK tl \in Seq(S) : tl = Tail(s) /\ Len(tl) = l - 1  BY <1>9
  <2>2. q = tl \o r  BY <1>7, <2>1
  <2>3. \A a \in 1 .. (l - 1) : q[a] = tl[a]  BY <1>1, <1>2, <2>1, <2>2
  <2>4. \A a \in l .. (l - 1 + n) : q[a] = r[a - (l - 1)]  BY <1>1, <1>2, <1>3, <2>1, <2>2
  <2> QED  BY <1>9, <2>1, <2>3, <2>4
<1>13. \A a \in DOMAIN q : q[a] \in X
  <2> SUFFICES ASSUME NEW a \in DOMAIN q PROVE q[a] \in X  OBVIOUS
  <2>1. CASE a <= l - 1
    <3>1. a \in 1 .. (l - 1) /\ a + 1 \in 1 .. l /\ a + 1 # 1  BY <1>11, <2>1
    <3> QED  BY <3>1, <1>6, <1>8, <1>12
  <2>2. CASE a > l - 1
    <3>1. a \in l .. (l - 1 + n) /\ a - (l - 1) \in 1 .. n  BY <1>11, <2>2
    <3>2. r[a - (l - 1)] \in T  BY <3>1, <1>1, <1>2
    <3> QED  BY <3>1, <3>2, <1>8, <1>12
  <2> QED  BY <1>11, <2>1, <2>2
<1>14. q \in Seq(X)  BY <1>10, <1>11, <1>13
<1>15. \A x \in X : \E a \in DOMAIN q : q[a] = x
  <2> SUFFICES ASSUME NEW x \in X PROVE \E a \in DOMAIN q : q[a] = x  OBVIOUS
  <2>1. CASE x \in S /\ x # h
    <3>1. PICK a \in 1 .. l : s[a] = x  BY <2>1, <1>1 DEF Lists
    <3>2. a # 1  BY <2>1, <3>1, <1>4
    <3>3. a - 1 \in 1 .. (l - 1) /\ (a - 1) + 1 = a /\ a - 1 \in DOMAIN q  BY <3>2, <1>11
    <3>4. q[a - 1] = s[(a - 1) + 1]  BY <3>3, <1>12
    <3> QED  BY <3>1, <3>3, <3>4
  <2>2. CASE x \in T
    <3>1. PICK a \in 1 .. n : r[a] = x  BY <2>2, <1>1 DEF Lists
    <3>2. a + (l - 1) \in l .. (l - 1 + n) /\ (a + (l - 1)) - (l - 1) = a /\ a + (l - 1) \in DOMAIN q
      BY <1>3, <1>11
    <3>3. q[a + (l - 1)] = r[(a + (l - 1)) - (l - 1)]  BY <3>2, <1>12
    <3> QED  BY <3>1, <3>2, <3>3
  <2> QED  BY <1>8, <2>1, <2>2
<1>16. \A a, b \in DOMAIN q : q[a] = q[b] => a = b
  <2> SUFFICES ASSUME NEW a \in DOMAIN q, NEW b \in DOMAIN q, q[a] = q[b], a <= b PROVE a = b
    BY <1>11
  <2>1. CASE b <= l - 1
    <3>1. a \in 1 .. (l - 1) /\ b \in 1 .. (l - 1) /\ a + 1 \in DOMAIN s /\ b + 1 \in DOMAIN s
      BY <1>1, <1>11, <2>1
    <3>2. s[a + 1] = s[b + 1]  BY <3>1, <1>12
    <3>3. a + 1 = b + 1  BY <3>1, <3>2 DEF Lists
    <3> QED  BY <3>1, <3>3
  <2>2. CASE a > l - 1
    <3>1. /\ a \in l .. (l - 1 + n) /\ b \in l .. (l - 1 + n)
          /\ a - (l - 1) \in DOMAIN r /\ b - (l - 1) \in DOMAIN r
      BY <1>1, <1>11, <2>2
    <3>2. r[a - (l - 1)] = r[b - (l - 1)]  BY <3>1, <1>12
    <3>3. a - (l - 1) = b - (l - 1)  BY <3>1, <3>2 DEF Lists
    <3> QED  BY <3>1, <3>3
  <2>3. CASE a <= l - 1 /\ b > l - 1
    <3>1. a \in 1 .. (l - 1) /\ a + 1 \in 1 .. l  BY <1>11, <2>3
    <3>2. b \in l .. (l - 1 + n) /\ b - (l - 1) \in 1 .. n  BY <1>11, <2>3
    <3>3. q[a] \in S  BY <3>1, <1>6, <1>12
    <3>4. q[b] \in T
      <4>1. r[b - (l - 1)] \in T  BY <3>2, <1>1, <1>2
      <4> QED  BY <4>1, <3>2, <1>12
    <3> QED  BY <3>3, <3>4
  <2> QED  BY <1>11, <2>1, <2>2, <2>3
<1>17. Lists(q, X)  BY <1>14, <1>15, <1>16 DEF Lists
<1> QED  BY <1>4, <1>5, <1>7, <1>8, <1>17

-----------------------------------------------------------------------------
\* Every component calls earlier ones only.
Descends(next, m) ==
  /\ m \in Nat /\ next \in [1 .. m -> SUBSET (1 .. m)]
  /\ \A i \in 1 .. m : \A j \in next[i] : j < i

\* The components are found callees first: a component calls earlier ones only.
LEMMA SuccessorsDescend ==
  ASSUME NEW calls, NEW sccs, calls \in Seq(GraphCalls), SccsAre(calls, sccs)
  PROVE  /\ Descends(Successors(sccs, calls), Len(sccs))
         /\ \A k \in DOMAIN calls :
              Ends(calls[k]) \subseteq OnBoard /\ SccOf(sccs, calls[k][1]) # SccOf(sccs, calls[k][2])
                => SccOf(sccs, calls[k][2]) \in Successors(sccs, calls)[SccOf(sccs, calls[k][1])]
<1>1. PICK m \in Nat : m = Len(sccs) /\ DOMAIN sccs = 1 .. m  BY DEF SccsAre
<1> DEFINE Out(i) == {k \in DOMAIN calls : Ends(calls[k]) \subseteq OnBoard /\ SccOf(sccs, calls[k][1]) = i}
           Next(i) == {SccOf(sccs, calls[k][2]) : k \in Out(i)} \ {i}
<1>2. PICK next : next = Successors(sccs, calls)  OBVIOUS
<1>3. next = [i \in 1 .. m |-> Next(i)]  BY <1>1, <1>2 DEF Successors
<1>4. ASSUME NEW i \in 1 .. m, NEW j \in Next(i) PROVE j \in 1 .. m /\ j < i
  <2>1. PICK k \in Out(i) : j = SccOf(sccs, calls[k][2]) /\ j # i  OBVIOUS
  <2>2. /\ k \in DOMAIN calls /\ Ends(calls[k]) \subseteq OnBoard
        /\ SccOf(sccs, calls[k][1]) = i
    BY <2>1
  <2>3. PICK b : b = SccOf(sccs, calls[k][2])  OBVIOUS
  <2>4. b <= i  BY <2>2, <2>3, CallsGoDown
  <2>5. b \in DOMAIN sccs
    <3>1. calls[k][2] \in OnBoard  BY <2>2 DEF Ends
    <3> QED  BY <2>3, <3>1, SccOfIs
  <2> QED  BY <1>1, <2>1, <2>3, <2>4, <2>5
<1>5. Descends(next, m)
  <2>1. \A i \in 1 .. m : next[i] = Next(i)  BY <1>3
  <2> HIDE DEF Next
  <2>2. next \in [1 .. m -> SUBSET (1 .. m)]  BY <1>3, <1>4
  <2> QED  BY <2>1, <2>2, <1>4 DEF Descends
<1>6. ASSUME NEW k \in DOMAIN calls, Ends(calls[k]) \subseteq OnBoard,
             SccOf(sccs, calls[k][1]) # SccOf(sccs, calls[k][2])
      PROVE  SccOf(sccs, calls[k][2]) \in next[SccOf(sccs, calls[k][1])]
  <2>1. PICK i : i = SccOf(sccs, calls[k][1])  OBVIOUS
  <2>2. i \in 1 .. m
    <3>1. calls[k][1] \in OnBoard  BY <1>6 DEF Ends
    <3> QED  BY <1>1, <2>1, <3>1, SccOfIs
  <2>3. k \in Out(i)  BY <1>6, <2>1
  <2>4. SccOf(sccs, calls[k][2]) \in Next(i)  BY <1>6, <2>1, <2>3
  <2>5. next[i] = Next(i)
    <3> HIDE DEF Next
    <3> QED  BY <1>3, <2>2
  <2> QED  BY <2>1, <2>4, <2>5
<1> QED  BY <1>1, <1>2, <1>5, <1>6

-----------------------------------------------------------------------------
\* What is true when the components of D are served.
Waits(next, m, D, i) == {j \in (1 .. m) \ D : i \in next[j]}
Ready(next, m, D) == {i \in (1 .. m) \ D : Waits(next, m, D, i) = {}}

ServeSet(m) == [queue : Seq(1 .. m), levels : [1 .. m -> Nat], degree : [1 .. m -> Nat]]

ServeInv(next, m, t, D) ==
  /\ D \in SUBSET (1 .. m) /\ t \in ServeSet(m)
  /\ \A i \in 1 .. m : t.degree[i] = Cardinality(Waits(next, m, D, i))
  /\ Lists(t.queue, Ready(next, m, D))
  /\ \A i \in D : Waits(next, m, D, i) = {}
  /\ \A i \in D : \A j \in next[i] : t.levels[i] < t.levels[j]

\* The fields of a round of Kahn, and the callers a component still waits for.
LEMMA ServeFields ==
  ASSUME NEW m, NEW t, t \in ServeSet(m)
  PROVE  /\ t.queue \in Seq(1 .. m) /\ t.levels \in [1 .. m -> Nat] /\ t.degree \in [1 .. m -> Nat]
         /\ t = [queue |-> t.queue, levels |-> t.levels, degree |-> t.degree]
  BY DEF ServeSet

LEMMA WaitsAreFinite ==
  ASSUME NEW next, NEW m \in Nat, NEW D, NEW i
  PROVE  /\ IsFiniteSet(Waits(next, m, D, i)) /\ Cardinality(Waits(next, m, D, i)) \in Nat
         /\ (Cardinality(Waits(next, m, D, i)) = 0 <=> Waits(next, m, D, i) = {})
<1>1. IsFiniteSet(1 .. m)  BY FS_Interval
<1>2. Waits(next, m, D, i) \in SUBSET (1 .. m)  BY DEF Waits
<1>3. IsFiniteSet(Waits(next, m, D, i))  BY <1>1, <1>2, FS_Subset
<1> QED  BY <1>3, FS_CardinalityType, FS_EmptySet

\* Before anything is served.
LEMMA NoneServedIsSound ==
  ASSUME NEW next, NEW m, Descends(next, m)
  PROVE  ServeInv(next, m, NoneServed(next), {})
<1>1. m \in Nat /\ DOMAIN next = 1 .. m  BY DEF Descends
<1>2. PICK t : t = NoneServed(next)  OBVIOUS
<1>3. PICK degree : degree = [i \in 1 .. m |-> Cardinality(Waits(next, m, {}, i))]  OBVIOUS
<1>4. degree \in [1 .. m -> Nat]  BY <1>1, <1>3, WaitsAreFinite
<1>5. PICK S : S = {i \in 1 .. m : degree[i] = 0}  OBVIOUS
<1>6. t = [queue |-> SetToSeq(S), levels |-> [i \in 1 .. m |-> 0], degree |-> degree]
  <2>1. degree = [i \in DOMAIN next |-> Cardinality({j \in DOMAIN next : i \in next[j]})]
    BY <1>1, <1>3 DEF Waits
  <2> QED  BY <1>1, <1>2, <1>5, <2>1 DEF NoneServed
<1>7. S = Ready(next, m, {})
  <2>1. \A i \in 1 .. m : degree[i] = 0 <=> Waits(next, m, {}, i) = {}
    BY <1>1, <1>3, WaitsAreFinite
  <2> QED  BY <1>5, <2>1 DEF Ready
<1>8. Lists(SetToSeq(S), S)
  <2>1. IsFiniteSet(S)
    <3>1. IsFiniteSet(1 .. m)  BY <1>1, FS_Interval
    <3>2. S \in SUBSET (1 .. m)  BY <1>5
    <3> QED  BY <3>1, <3>2, FS_Subset
  <2> QED  BY <2>1, SetToSeqLists
<1>9. SetToSeq(S) \in Seq(1 .. m)
  <2>1. SetToSeq(S) \in Seq(S)  BY <1>8 DEF Lists
  <2>2. S \subseteq 1 .. m  BY <1>5
  <2> QED  BY <2>1, <2>2, SeqOfMore
<1>10. t \in ServeSet(m)  BY <1>4, <1>6, <1>9 DEF ServeSet
<1>11. t.degree = degree /\ t.queue = SetToSeq(S)  BY <1>6
<1>12. \A i \in 1 .. m : t.degree[i] = Cardinality(Waits(next, m, {}, i))  BY <1>3, <1>11
<1>13. Lists(t.queue, Ready(next, m, {}))  BY <1>7, <1>8, <1>11
<1> QED  BY <1>2, <1>10, <1>12, <1>13 DEF ServeInv

\* Serving the head: whom the others still wait for.
LEMMA WaitsShrink ==
  ASSUME NEW next, NEW m, NEW D, NEW cur, NEW i, Descends(next, m),
         D \in SUBSET (1 .. m), cur \in (1 .. m) \ D, i \in 1 .. m
  PROVE  /\ Waits(next, m, D \cup {cur}, i) = Waits(next, m, D, i) \ {cur}
         /\ cur \in Waits(next, m, D, i) <=> i \in next[cur]
         /\ cur \notin next[cur]
  BY DEF Waits, Descends

\* Serving the head of the queue.
LEMMA ServeHeadIsSound ==
  ASSUME NEW next, NEW m, NEW t, NEW D, Descends(next, m), ServeInv(next, m, t, D),
         t.queue # << >>
  PROVE  Head(t.queue) \in (1 .. m) \ D /\ ServeInv(next, m, ServeHead(next, t), D \cup {Head(t.queue)})
<1>1. m \in Nat /\ next \in [1 .. m -> SUBSET (1 .. m)]  BY DEF Descends
<1>2. t \in ServeSet(m) /\ D \in SUBSET (1 .. m)  BY DEF ServeInv
<1>3. PICK queue \in Seq(1 .. m), levels \in [1 .. m -> Nat], degree \in [1 .. m -> Nat] :
        queue = t.queue /\ levels = t.levels /\ degree = t.degree
  BY <1>2, ServeFields
<1>4. PICK cur : cur = Head(queue)  OBVIOUS
<1>5. Lists(queue, Ready(next, m, D))  BY <1>3 DEF ServeInv
<1>6. cur \in Ready(next, m, D)
  <2>1. Lists(<< >>, {})  BY DEF Lists
  <2>2. Ready(next, m, D) \cap {} = {}  OBVIOUS
  <2> QED  BY <1>3, <1>4, <1>5, <2>1, <2>2, QueueMoves
<1>7. cur \in (1 .. m) \ D /\ Waits(next, m, D, cur) = {}  BY <1>6 DEF Ready
<1>8. PICK E : E = D \cup {cur}  OBVIOUS
<1>9. \A i \in 1 .. m : /\ Waits(next, m, E, i) = Waits(next, m, D, i) \ {cur}
                        /\ cur \in Waits(next, m, D, i) <=> i \in next[cur]
                        /\ cur \notin next[cur]
  BY <1>2, <1>7, <1>8, WaitsShrink
<1>10. \A i \in 1 .. m : degree[i] = Cardinality(Waits(next, m, D, i))  BY <1>3 DEF ServeInv
<1>11. PICK left : left = [i \in 1 .. m |-> IF i \in next[cur] THEN degree[i] - 1 ELSE degree[i]]
  OBVIOUS
<1>12. \A i \in 1 .. m : left[i] = Cardinality(Waits(next, m, E, i))
  <2> SUFFICES ASSUME NEW i \in 1 .. m PROVE left[i] = Cardinality(Waits(next, m, E, i))  OBVIOUS
  <2>1. PICK W : W = Waits(next, m, D, i)  OBVIOUS
  <2>2. IsFiniteSet(W) /\ degree[i] = Cardinality(W)  BY <1>1, <1>10, <2>1, WaitsAreFinite
  <2>3. Waits(next, m, E, i) = W \ {cur} /\ (cur \in W <=> i \in next[cur])  BY <1>9, <2>1
  <2>4. CASE i \in next[cur]
    <3>1. Cardinality(W \ {cur}) = Cardinality(W) - 1  BY <2>2, <2>3, <2>4, FS_RemoveElement
    <3> QED  BY <1>11, <2>2, <2>3, <2>4, <3>1
  <2>5. CASE i \notin next[cur]
    <3>1. W \ {cur} = W  BY <2>3, <2>5
    <3> QED  BY <1>11, <2>2, <2>3, <2>5, <3>1
  <2> QED  BY <2>4, <2>5
<1>13. left \in [1 .. m -> Nat]
  <2>1. \A i \in 1 .. m : left[i] \in Nat  BY <1>1, <1>12, WaitsAreFinite
  <2> QED  BY <1>11, <2>1
<1>14. PICK T : T = {i \in next[cur] : left[i] = 0}  OBVIOUS
<1>15. PICK deeper : deeper = Deepened(levels, cur, next[cur])  OBVIOUS
<1>16. PICK u : u = ServeHead(next, t)  OBVIOUS
<1>17. u = [queue |-> Tail(queue) \o SetToSeq(T), levels |-> deeper, degree |-> left]
  <2>1. DOMAIN t.degree = 1 .. m  BY <1>3
  <2>2. left = [i \in DOMAIN t.degree |-> IF i \in next[cur] THEN t.degree[i] - 1 ELSE t.degree[i]]
    BY <1>3, <1>11, <2>1
  <2> QED  BY <1>3, <1>4, <1>14, <1>15, <1>16, <2>2 DEF ServeHead
<1>18. next[cur] \in SUBSET (1 .. m)  BY <1>1, <1>7
<1>19. T = {i \in next[cur] : Waits(next, m, E, i) = {}}
  <2>1. \A i \in next[cur] : left[i] = 0 <=> Waits(next, m, E, i) = {}
    BY <1>1, <1>12, <1>18, WaitsAreFinite
  <2> QED  BY <1>14, <2>1
<1>20. Ready(next, m, D) \cap T = {}
  <2> SUFFICES ASSUME NEW i \in T, i \in Ready(next, m, D) PROVE FALSE  OBVIOUS
  <2>1. i \in 1 .. m /\ i \in next[cur]  BY <1>14, <1>18
  <2>2. cur \in Waits(next, m, D, i)  BY <1>9, <2>1
  <2> QED  BY <2>2 DEF Ready
<1>21. Ready(next, m, E) = (Ready(next, m, D) \ {cur}) \cup T
  <2>1. ASSUME NEW i \in Ready(next, m, E) PROVE i \in (Ready(next, m, D) \ {cur}) \cup T
    <3>1. i \in (1 .. m) \ E /\ Waits(next, m, E, i) = {}  BY <2>1 DEF Ready
    <3>2. CASE i \in next[cur]  BY <3>1, <3>2, <1>19
    <3>3. CASE i \notin next[cur]
      <4>1. Waits(next, m, D, i) = {}  BY <3>1, <3>3, <1>9
      <4> QED  BY <3>1, <4>1, <1>8 DEF Ready
    <3> QED  BY <3>2, <3>3
  <2>2. ASSUME NEW i \in Ready(next, m, D) \ {cur} PROVE i \in Ready(next, m, E)
    <3>1. i \in (1 .. m) \ E /\ Waits(next, m, D, i) = {}  BY <2>2, <1>8 DEF Ready
    <3>2. Waits(next, m, E, i) = {}  BY <3>1, <1>9
    <3> QED  BY <3>1, <3>2 DEF Ready
  <2>3. ASSUME NEW i \in T PROVE i \in Ready(next, m, E)
    <3>1. i \in 1 .. m /\ i \in next[cur] /\ Waits(next, m, E, i) = {}  BY <1>18, <1>19
    <3>2. cur \in Waits(next, m, D, i)  BY <3>1, <1>9
    <3>3. i \notin D  BY <3>2 DEF ServeInv
    <3>4. i # cur  BY <3>1, <1>9
    <3> QED  BY <3>1, <3>3, <3>4, <1>8 DEF Ready
  <2> QED  BY <2>1, <2>2, <2>3
<1>22. Lists(SetToSeq(T), T)
  <2>1. IsFiniteSet(T)
    <3>1. IsFiniteSet(1 .. m)  BY <1>1, FS_Interval
    <3>2. T \in SUBSET (1 .. m)  BY <1>14, <1>18
    <3> QED  BY <3>1, <3>2, FS_Subset
  <2> QED  BY <2>1, SetToSeqLists
<1>23. Lists(Tail(queue) \o SetToSeq(T), Ready(next, m, E))
  BY <1>3, <1>4, <1>5, <1>20, <1>21, <1>22, QueueMoves
<1>24. Tail(queue) \o SetToSeq(T) \in Seq(1 .. m)
  <2>1. Tail(queue) \o SetToSeq(T) \in Seq(Ready(next, m, E))  BY <1>23 DEF Lists
  <2>2. Ready(next, m, E) \subseteq 1 .. m  BY DEF Ready
  <2> QED  BY <2>1, <2>2, SeqOfMore
<1>25. /\ deeper \in [1 .. m -> Nat]
       /\ \A i \in 1 .. m : i \notin next[cur] => deeper[i] = levels[i]
       /\ \A i \in 1 .. m : levels[i] <= deeper[i]
       /\ \A i \in next[cur] : levels[cur] < deeper[i]
  <2>1. deeper = [i \in 1 .. m |-> IF i \in next[cur] THEN Larger(levels[i], levels[cur] + 1) ELSE levels[i]]
    BY <1>15 DEF Deepened
  <2>2. levels[cur] \in Nat /\ \A i \in 1 .. m : levels[i] \in Nat  BY <1>7
  <2> QED  BY <1>18, <2>1, <2>2 DEF Larger
<1>26. \A i \in E : Waits(next, m, E, i) = {}
  <2>1. \A i \in D : Waits(next, m, D, i) = {}  BY DEF ServeInv
  <2> QED  BY <1>2, <1>7, <1>8, <1>9, <2>1
<1>27. \A i \in E : \A j \in next[i] : deeper[i] < deeper[j]
  <2> SUFFICES ASSUME NEW i \in E, NEW j \in next[i] PROVE deeper[i] < deeper[j]  OBVIOUS
  <2>1. i \in 1 .. m /\ j \in 1 .. m  BY <1>1, <1>2, <1>7, <1>8
  <2>2. i \notin next[cur]
    <3>1. CASE i = cur  BY <2>1, <3>1, <1>9
    <3>2. CASE i \in D
      <4>1. Waits(next, m, D, i) = {}  BY <3>2 DEF ServeInv
      <4> QED  BY <2>1, <4>1, <1>9
    <3> QED  BY <3>1, <3>2, <1>8
  <2>3. deeper[i] = levels[i] /\ levels[i] \in Nat /\ levels[j] \in Nat /\ deeper[j] \in Nat
    BY <2>1, <2>2, <1>25
  <2>4. CASE i = cur  BY <2>3, <2>4, <1>25
  <2>5. CASE i \in D
    <3>1. levels[i] < levels[j]  BY <2>5, <1>3 DEF ServeInv
    <3>2. levels[j] <= deeper[j]  BY <2>1, <1>25
    <3> QED  BY <2>3, <3>1, <3>2
  <2> QED  BY <1>8, <2>4, <2>5
<1>28. u \in ServeSet(m)  BY <1>13, <1>17, <1>24, <1>25 DEF ServeSet
<1>29. u.queue = Tail(queue) \o SetToSeq(T) /\ u.levels = deeper /\ u.degree = left  BY <1>17
<1>30. E \in SUBSET (1 .. m)  BY <1>2, <1>7, <1>8
<1>31. ServeInv(next, m, u, E)
  BY <1>12, <1>23, <1>26, <1>27, <1>28, <1>29, <1>30 DEF ServeInv
<1> QED  BY <1>3, <1>4, <1>7, <1>8, <1>16, <1>31

\* The queue runs empty only when all are served.
LEMMA AllAreServed ==
  ASSUME NEW next, NEW m, NEW t, NEW D, Descends(next, m), ServeInv(next, m, t, D), t.queue = << >>
  PROVE  D = 1 .. m
<1>1. m \in Nat /\ D \in SUBSET (1 .. m)  BY DEF Descends, ServeInv
<1> SUFFICES ASSUME (1 .. m) \ D # {} PROVE FALSE  BY <1>1
<1>2. PICK i \in (1 .. m) \ D : \A j \in (1 .. m) \ D : j <= i
  <2>1. PICK S : S = (1 .. m) \ D  OBVIOUS
  <2>2. S \in SUBSET Nat /\ S # {} /\ \A j \in S : j <= m  BY <1>1, <2>1
  <2>3. \E n \in S : \A j \in S : j <= n  BY <1>1, <2>2, Greatest
  <2> QED  BY <2>1, <2>3
<1>3. Waits(next, m, D, i) = {}
  <2> SUFFICES ASSUME NEW j \in Waits(next, m, D, i) PROVE FALSE  OBVIOUS
  <2>1. j \in (1 .. m) \ D /\ i \in next[j]  BY DEF Waits
  <2>2. i < j  BY <2>1 DEF Descends
  <2> QED  BY <1>1, <1>2, <2>1, <2>2
<1>4. i \in Ready(next, m, D)  BY <1>3 DEF Ready
<1>5. Lists(<< >>, Ready(next, m, D))  BY DEF ServeInv
<1> QED  BY <1>4, <1>5 DEF Lists

\* What the queue makes of the components, one served after the other.
Serve(next, t) == IF t.queue = << >> THEN t ELSE ServeHead(next, t)

KahnIs(next, m, serve) ==
  /\ serve[0] = NoneServed(next)
  /\ \A n \in Nat : serve[n + 1] = Serve(next, serve[n])
  /\ \A n \in Nat : \E D : /\ ServeInv(next, m, serve[n], D)
                           /\ serve[n].queue = << >> \/ Cardinality(D) = n

\* A round serves one component more, as long as one is in the queue.
LEMMA ServesOn ==
  ASSUME NEW next, NEW m, NEW t, NEW D, Descends(next, m), ServeInv(next, m, t, D)
  PROVE  \E E : /\ ServeInv(next, m, Serve(next, t), E)
                /\ (t.queue # << >> => Cardinality(E) = Cardinality(D) + 1)
                /\ (t.queue = << >> => Serve(next, t) = t)
<1>1. CASE t.queue = << >>  BY <1>1 DEF Serve
<1>2. CASE t.queue # << >>
  <2>1. PICK cur : cur = Head(t.queue)  OBVIOUS
  <2>2. cur \in (1 .. m) \ D /\ ServeInv(next, m, ServeHead(next, t), D \cup {cur})
    BY <1>2, <2>1, ServeHeadIsSound
  <2>3. IsFiniteSet(D)
    <3>1. m \in Nat /\ D \in SUBSET (1 .. m)  BY DEF Descends, ServeInv
    <3>2. IsFiniteSet(1 .. m)  BY <3>1, FS_Interval
    <3> QED  BY <3>1, <3>2, FS_Subset
  <2>4. Cardinality(D \cup {cur}) = Cardinality(D) + 1  BY <2>2, <2>3, FS_AddElement
  <2> QED  BY <1>2, <2>2, <2>4 DEF Serve
<1> QED  BY <1>1, <1>2

\* After as many rounds as there are components all are served.
LEMMA KahnServes ==
  ASSUME NEW next, NEW m, Descends(next, m)
  PROVE  KahnIs(next, m, KahnAfter(next))
<1> DEFINE Body(f) == [n \in Nat |-> IF n = 0 THEN NoneServed(next)
                                     ELSE IF f[n - 1].queue = << >> THEN f[n - 1]
                                     ELSE ServeHead(next, f[n - 1])]
           serve == CHOOSE f : f = Body(f)
<1>1. PICK X : X = {t \in ServeSet(m) : \E D : ServeInv(next, m, t, D)}  OBVIOUS
<1>2. \A t : t \in X <=> \E D : ServeInv(next, m, t, D)  BY <1>1 DEF ServeInv
<1>3. PICK first \in X : first = NoneServed(next)  BY <1>2, NoneServedIsSound
<1>4. \A t \in X : Serve(next, t) \in X
  <2> SUFFICES ASSUME NEW t \in X PROVE Serve(next, t) \in X  OBVIOUS
  <2>1. PICK D : ServeInv(next, m, t, D)  BY <1>2
  <2>2. \E E : ServeInv(next, m, Serve(next, t), E)  BY <2>1, ServesOn
  <2> QED  BY <1>2, <2>2
<1>5. PICK step \in [Nat \X X -> X] : \A n \in Nat, t \in X : step[<<n, t>>] = Serve(next, t)
  <2> DEFINE s == [a \in Nat \X X |-> Serve(next, a[2])]
  <2>1. s \in [Nat \X X -> X]  BY <1>4
  <2>2. \A n \in Nat, t \in X : s[<<n, t>>] = Serve(next, t)  OBVIOUS
  <2> HIDE DEF s
  <2> QED  BY <2>1, <2>2
<1>6. PICK f : Goes(f, first, step, X)  BY Iterates, Zenon
<1>7. f \in [Nat -> X] /\ f[0] = first /\ \A n \in Nat : f[n + 1] = step[<<n, f[n]>>]
  BY <1>6 DEF Goes
<1>8. \A n \in Nat : f[n + 1] = Serve(next, f[n])  BY <1>5, <1>7
<1>9. f = Body(f)
  <2> SUFFICES ASSUME NEW n \in Nat
               PROVE  f[n] = IF n = 0 THEN NoneServed(next)
                             ELSE IF f[n - 1].queue = << >> THEN f[n - 1]
                             ELSE ServeHead(next, f[n - 1])
    BY <1>7
  <2>1. CASE n = 0  BY <2>1, <1>3, <1>7
  <2>2. CASE n # 0
    <3>1. n - 1 \in Nat /\ (n - 1) + 1 = n  BY <2>2
    <3>2. f[(n - 1) + 1] = Serve(next, f[n - 1])  BY <3>1, <1>8
    <3> QED  BY <2>2, <3>1, <3>2 DEF Serve
  <2> QED  BY <2>1, <2>2
<1>10. serve = Body(serve)
  <2> HIDE DEF Body
  <2> QED  BY <1>9, Zenon
<1>11. KahnAfter(next) = serve  BY Zenon DEF KahnAfter
<1> HIDE DEF serve
<1>12. serve[0] = first  BY <1>10, <1>3
<1>13. ASSUME NEW n \in Nat PROVE serve[n + 1] = Serve(next, serve[n])
  <2>1. n + 1 \in Nat /\ n + 1 # 0 /\ (n + 1) - 1 = n  OBVIOUS
  <2>2. serve[n + 1] = IF n + 1 = 0 THEN NoneServed(next)
                       ELSE IF serve[(n + 1) - 1].queue = << >> THEN serve[(n + 1) - 1]
                       ELSE ServeHead(next, serve[(n + 1) - 1])
    BY <1>10, <2>1
  <2> QED  BY <2>1, <2>2 DEF Serve
<1> DEFINE Good == {n \in Nat : \E D : /\ ServeInv(next, m, serve[n], D)
                                       /\ serve[n].queue = << >> \/ Cardinality(D) = n}
<1>14. 0 \in Good
  <2>1. ServeInv(next, m, serve[0], {})  BY <1>3, <1>12, NoneServedIsSound
  <2>2. Cardinality({}) = 0  BY FS_EmptySet
  <2> QED  BY <2>1, <2>2
<1>15. ASSUME NEW n \in Nat, n \in Good PROVE n + 1 \in Good
  <2>1. PICK t : t = serve[n]  OBVIOUS
  <2>2. PICK D : ServeInv(next, m, t, D) /\ (t.queue = << >> \/ Cardinality(D) = n)  BY <1>15, <2>1
  <2>3. PICK E : /\ ServeInv(next, m, Serve(next, t), E)
                 /\ (t.queue # << >> => Cardinality(E) = Cardinality(D) + 1)
                 /\ (t.queue = << >> => Serve(next, t) = t)
    BY <2>2, ServesOn
  <2>4. PICK u : u = Serve(next, t) /\ u = serve[n + 1]  BY <1>13, <2>1
  <2>5. u.queue = << >> \/ Cardinality(E) = n + 1
    <3>1. CASE t.queue = << >>  BY <3>1, <2>3, <2>4
    <3>2. CASE t.queue # << >>  BY <3>2, <2>2, <2>3
    <3> QED  BY <3>1, <3>2
  <2> QED  BY <2>3, <2>4, <2>5
<1>16. \A n \in Nat : n \in Good
  <2> HIDE DEF Good
  <2> QED  BY <1>14, <1>15, AllNumbers
<1>17. \A n \in Nat : \E D : /\ ServeInv(next, m, serve[n], D)
                             /\ serve[n].queue = << >> \/ Cardinality(D) = n
  BY <1>16
<1> QED  BY <1>3, <1>11, <1>12, <1>13, <1>17 DEF KahnIs

\* What assignLevels returns: a caller's level is above those of what it calls.
LevelsAre(calls, sccs, levels) ==
  /\ levels \in [1 .. Len(sccs) -> Nat]
  /\ \A k \in DOMAIN calls :
       Ends(calls[k]) \subseteq OnBoard /\ SccOf(sccs, calls[k][1]) # SccOf(sccs, calls[k][2])
         => levels[SccOf(sccs, calls[k][1])] < levels[SccOf(sccs, calls[k][2])]

\* assignLevels puts a component on a higher level than each of its callers.
LEMMA LevelsIs ==
  ASSUME NEW calls, NEW sccs, calls \in Seq(GraphCalls), SccsAre(calls, sccs)
  PROVE  LevelsAre(calls, sccs, AssignLevels(sccs, calls))
<1>1. PICK m \in Nat : m = Len(sccs) /\ DOMAIN sccs = 1 .. m  BY DEF SccsAre
<1>2. PICK next : next = Successors(sccs, calls)  OBVIOUS
<1>3. /\ Descends(next, m)
      /\ \A k \in DOMAIN calls :
           Ends(calls[k]) \subseteq OnBoard /\ SccOf(sccs, calls[k][1]) # SccOf(sccs, calls[k][2])
             => SccOf(sccs, calls[k][2]) \in next[SccOf(sccs, calls[k][1])]
  BY <1>1, <1>2, SuccessorsDescend
<1>4. PICK serve : serve = KahnAfter(next)  OBVIOUS
<1>5. KahnIs(next, m, serve)  BY <1>3, <1>4, KahnServes
<1>6. PICK t : t = serve[m]  OBVIOUS
<1>7. PICK D : ServeInv(next, m, t, D) /\ (t.queue = << >> \/ Cardinality(D) = m)
  BY <1>5, <1>6 DEF KahnIs
<1>8. D = 1 .. m
  <2>1. CASE t.queue = << >>  BY <1>3, <1>7, <2>1, AllAreServed
  <2>2. CASE Cardinality(D) = m
    <3>1. IsFiniteSet(1 .. m) /\ Cardinality(1 .. m) = m  BY FS_Interval
    <3>2. D \in SUBSET (1 .. m)  BY <1>7 DEF ServeInv
    <3> QED  BY <2>2, <3>1, <3>2, FS_Subset
  <2> QED  BY <1>7, <2>1, <2>2
<1>9. t.levels \in [1 .. m -> Nat] /\ \A i \in 1 .. m : \A j \in next[i] : t.levels[i] < t.levels[j]
  BY <1>7, <1>8, ServeFields DEF ServeInv
<1>10. t.levels = AssignLevels(sccs, calls)  BY <1>1, <1>2, <1>4, <1>6 DEF AssignLevels
<1>11. ASSUME NEW k \in DOMAIN calls, Ends(calls[k]) \subseteq OnBoard,
              SccOf(sccs, calls[k][1]) # SccOf(sccs, calls[k][2])
       PROVE  t.levels[SccOf(sccs, calls[k][1])] < t.levels[SccOf(sccs, calls[k][2])]
  <2>1. SccOf(sccs, calls[k][2]) \in next[SccOf(sccs, calls[k][1])]  BY <1>3, <1>11
  <2>2. SccOf(sccs, calls[k][1]) \in 1 .. m
    <3>1. calls[k][1] \in OnBoard  BY <1>11 DEF Ends
    <3> QED  BY <1>1, <3>1, SccOfIs
  <2> QED  BY <1>9, <2>1, <2>2
<1> QED  BY <1>1, <1>9, <1>10, <1>11 DEF LevelsAre

-----------------------------------------------------------------------------
\* Arithmetic of cells: rows of cells do not overlap, and a box is centred in its cell.
LEMMA Spread ==
  ASSUME NEW a \in Nat, NEW b \in Nat, NEW c \in Nat, a < b
  PROVE  a * c + c <= b * c
<1>1. PICK d \in Nat : b = a + 1 + d
  <2>1. b - a - 1 \in Nat /\ b = a + 1 + (b - a - 1)  OBVIOUS
  <2> QED  BY <2>1
<1>2. b * c = a * c + c + d * c  BY <1>1
<1>3. d * c \in Nat /\ a * c \in Nat  OBVIOUS
<1> QED  BY <1>2, <1>3

LEMMA Divided ==
  ASSUME NEW k \in Nat, NEW c \in Nat, c # 0
  PROVE  \E q, r \in Nat : q = k \div c /\ r = k % c /\ r < c /\ k = q * c + r
<1>1. k \div c \in Nat /\ k % c \in Nat /\ k % c < c  OBVIOUS
<1>2. PICK q \in Nat, r \in Nat : q = k \div c /\ r = k % c  BY <1>1
<1>3. c > 0 /\ k \in Int /\ c \in Int  OBVIOUS
<1>4. k = c * q + r  BY <1>2, <1>3
<1>5. c * q = q * c  OBVIOUS
<1> QED  BY <1>1, <1>2, <1>4, <1>5

LEMMA Halved ==
  ASSUME NEW w \in Nat, NEW c \in Nat, w <= c
  PROVE  (c - w) \div 2 \in Nat /\ (c - w) \div 2 + w <= c
<1>1. c - w \in Nat  OBVIOUS
<1> QED  BY <1>1

\* The place of a component among the others of its level.
LEMMA PlacesDiffer ==
  ASSUME NEW m \in Nat, NEW levels, NEW i \in 1 .. m, levels \in [1 .. m -> Nat]
  PROVE  /\ IsFiniteSet(Members(levels, levels[i]))
         /\ Cardinality(Members(levels, levels[i])) \in Nat \ {0}
         /\ PlaceOf(levels, i) \in Nat
         /\ PlaceOf(levels, i) < Cardinality(Members(levels, levels[i]))
         /\ \A j \in 1 .. m : j < i /\ levels[j] = levels[i] => PlaceOf(levels, j) < PlaceOf(levels, i)
<1>1. PICK M : M = Members(levels, levels[i])  OBVIOUS
<1>2. M = {j \in 1 .. m : levels[j] = levels[i]}  BY <1>1 DEF Members
<1>3. IsFiniteSet(M)
  <2>1. IsFiniteSet(1 .. m)  BY FS_Interval
  <2>2. M \in SUBSET (1 .. m)  BY <1>2
  <2> QED  BY <2>1, <2>2, FS_Subset
<1> DEFINE Less(n) == {j \in M : j < n}
<1>4. ASSUME NEW n PROVE IsFiniteSet(Less(n)) /\ Cardinality(Less(n)) \in Nat
  <2>1. Less(n) \in SUBSET M  OBVIOUS
  <2> HIDE DEF Less
  <2> QED  BY <1>3, <2>1, FS_Subset, FS_CardinalityType
<1>5. ASSUME NEW n \in M, NEW S \in SUBSET M, n \in S, Less(n) \subseteq S
      PROVE  Cardinality(Less(n)) < Cardinality(S)
  <2>1. n \notin Less(n)  BY <1>2
  <2>2. IsFiniteSet(S) /\ Cardinality(S) \in Nat  BY <1>3, FS_Subset, FS_CardinalityType
  <2>3. IsFiniteSet(Less(n)) /\ Cardinality(Less(n)) \in Nat  BY <1>4
  <2>4. PICK L : L = Less(n)  OBVIOUS
  <2> HIDE DEF Less
  <2>5. L \cup {n} \in SUBSET S  BY <1>5, <2>4
  <2>6. Cardinality(L \cup {n}) <= Cardinality(S)  BY <2>2, <2>5, FS_Subset
  <2>7. Cardinality(L \cup {n}) = Cardinality(L) + 1  BY <2>1, <2>3, <2>4, FS_AddElement
  <2> QED  BY <2>2, <2>3, <2>4, <2>6, <2>7
<1>6. i \in M  BY <1>2
<1>7. PlaceOf(levels, i) = Cardinality(Less(i))  BY <1>1 DEF PlaceOf
<1>8. Cardinality(Less(i)) < Cardinality(M) /\ Cardinality(Less(i)) \in Nat
  <2>1. M \in SUBSET M /\ Less(i) \subseteq M  OBVIOUS
  <2> HIDE DEF Less
  <2> QED  BY <2>1, <1>4, <1>5, <1>6
<1>9. Cardinality(M) \in Nat  BY <1>3, FS_CardinalityType
<1>10. ASSUME NEW j \in 1 .. m, j < i, levels[j] = levels[i]
       PROVE  PlaceOf(levels, j) < PlaceOf(levels, i)
  <2>1. j \in M  BY <1>2, <1>10
  <2>2. PlaceOf(levels, j) = Cardinality(Less(j))  BY <1>1, <1>10 DEF PlaceOf
  <2>3. Less(i) \in SUBSET M /\ j \in Less(i) /\ Less(j) \subseteq Less(i)
    BY <1>2, <1>10, <2>1
  <2>4. Cardinality(Less(j)) < Cardinality(Less(i))
    <3> HIDE DEF Less
    <3> QED  BY <2>1, <2>3, <1>5
  <2> QED  BY <1>7, <2>2, <2>4
<1> QED  BY <1>1, <1>3, <1>7, <1>8, <1>9, <1>10

\* The sides of a component, bounded by the board.
LEMMA BoxIs ==
  ASSUME NEW scc, scc \in SUBSET OnBoard
  PROVE  /\ SccBoundingBox(scc).w \in Nat /\ SccBoundingBox(scc).h \in Nat
         /\ SccBoundingBox(scc).w <= 620 + 140 * Cardinality(OnBoard)
         /\ SccBoundingBox(scc).h <= 620 + 140 * Cardinality(OnBoard)
<1>1. IsFiniteSet(OnBoard)  BY BoardIsFinite
<1>2. PICK n, b \in Nat : n = Cardinality(scc) /\ b = Cardinality(OnBoard) /\ n <= b
  <2>1. Cardinality(scc) <= Cardinality(OnBoard)  BY <1>1, FS_Subset
  <2>2. Cardinality(scc) \in Nat /\ Cardinality(OnBoard) \in Nat
    BY <1>1, FS_Subset, FS_CardinalityType
  <2> QED  BY <2>1, <2>2
<1>3. PICK d : d = 2 * Larger(180, 70 * n) + NodeW  OBVIOUS
<1>4. SccBoundingBox(scc) = IF n = 1 THEN [w |-> NodeW, h |-> NodeH] ELSE [w |-> d, h |-> d]
  BY <1>2, <1>3 DEF SccBoundingBox
<1>5. d \in Nat /\ d <= 620 + 140 * b  BY <1>2, <1>3 DEF Larger, NodeW
<1>6. NodeW \in Nat /\ NodeH \in Nat /\ NodeW <= 620 + 140 * b /\ NodeH <= 620 + 140 * b
  BY DEF NodeW, NodeH
<1> QED  BY <1>2, <1>4, <1>5, <1>6

\* A cell has room for every component of its level.
LEMMA CellIs ==
  ASSUME NEW sccs, NEW M, sccs \in Seq(SUBSET OnBoard), M \in SUBSET (DOMAIN sccs), M # {}
  PROVE  /\ LevelCell(sccs, M).w \in Nat /\ LevelCell(sccs, M).h \in Nat
         /\ \A i \in M : /\ SccBoundingBox(sccs[i]).w <= LevelCell(sccs, M).w
                         /\ SccBoundingBox(sccs[i]).h <= LevelCell(sccs, M).h
<1>1. PICK bound \in Nat : bound = 620 + 140 * Cardinality(OnBoard)
  <2>1. Cardinality(OnBoard) \in Nat  BY BoardIsFinite, FS_CardinalityType
  <2> QED  BY <2>1
<1>2. \A i \in M : /\ SccBoundingBox(sccs[i]).w \in Nat /\ SccBoundingBox(sccs[i]).w <= bound
                   /\ SccBoundingBox(sccs[i]).h \in Nat /\ SccBoundingBox(sccs[i]).h <= bound
  <2> SUFFICES ASSUME NEW i \in M
               PROVE  /\ SccBoundingBox(sccs[i]).w \in Nat /\ SccBoundingBox(sccs[i]).w <= bound
                      /\ SccBoundingBox(sccs[i]).h \in Nat /\ SccBoundingBox(sccs[i]).h <= bound
    OBVIOUS
  <2>1. sccs[i] \in SUBSET OnBoard  OBVIOUS
  <2> QED  BY <1>1, <2>1, BoxIs
<1>3. PICK W, H : W = {SccBoundingBox(sccs[i]).w : i \in M} /\ H = {SccBoundingBox(sccs[i]).h : i \in M}
  OBVIOUS
<1>4. W \in SUBSET Nat /\ W # {} /\ \A n \in W : n <= bound  BY <1>2, <1>3
<1>5. H \in SUBSET Nat /\ H # {} /\ \A n \in H : n <= bound  BY <1>2, <1>3
<1>6. Max(W) \in W /\ \A n \in W : n <= Max(W)  BY <1>4, MaxIs
<1>7. Max(H) \in H /\ \A n \in H : n <= Max(H)  BY <1>5, MaxIs
<1>8. LevelCell(sccs, M).w = Max(W) /\ LevelCell(sccs, M).h = Max(H)  BY <1>3 DEF LevelCell
<1>9. \A i \in M : SccBoundingBox(sccs[i]).w \in W /\ SccBoundingBox(sccs[i]).h \in H  BY <1>3
<1> QED  BY <1>4, <1>5, <1>6, <1>7, <1>8, <1>9

\* The columns chosen are at least one and no more than the components.
LEMMA ColsAre ==
  ASSUME NEW count, NEW cell, NEW gap, count \in Nat \ {0}
  PROVE  ChooseGridCols(count, cell, gap) \in 1 .. count
<1> DEFINE Width(c) == GridWidth(c, cell, gap)
           Height(c) == GridHeight(CeilDiv(count, c), cell, gap)
           Long(c) == Larger(Width(c), Height(c))
           Short(c) == Smaller(Width(c), Height(c))
           Better(c, b) == Long(c) * Short(b) < Long(b) * Short(c)
           Body(f) == [c \in Nat |-> IF c <= 1 THEN 1
                                     ELSE IF Better(c, f[c - 1]) THEN c ELSE f[c - 1]]
           best == CHOOSE f : f = Body(f)
<1>1. ChooseGridCols(count, cell, gap) = best[count]  BY Zenon DEF ChooseGridCols
<1> HIDE DEF Better
<1>2. PICK step \in [Nat \X Nat -> Nat] :
        \A n \in Nat, b \in Nat : step[<<n, b>>] = IF n + 1 <= 1 THEN 1 ELSE IF Better(n + 1, b) THEN n + 1 ELSE b
  <2> DEFINE s == [a \in Nat \X Nat |-> IF a[1] + 1 <= 1 THEN 1 ELSE IF Better(a[1] + 1, a[2]) THEN a[1] + 1 ELSE a[2]]
  <2>1. s \in [Nat \X Nat -> Nat]  OBVIOUS
  <2>2. \A n \in Nat, b \in Nat :
          s[<<n, b>>] = IF n + 1 <= 1 THEN 1 ELSE IF Better(n + 1, b) THEN n + 1 ELSE b
    OBVIOUS
  <2> HIDE DEF s
  <2> QED  BY <2>1, <2>2
<1>3. PICK f : Goes(f, 1, step, Nat)
  <2>1. 1 \in Nat  OBVIOUS
  <2> QED  BY <2>1, Iterates, Zenon
<1>4. f \in [Nat -> Nat] /\ f[0] = 1 /\ \A n \in Nat : f[n + 1] = step[<<n, f[n]>>]
  BY <1>3 DEF Goes
<1>5. f = Body(f)
  <2> SUFFICES ASSUME NEW c \in Nat
               PROVE  f[c] = IF c <= 1 THEN 1 ELSE IF Better(c, f[c - 1]) THEN c ELSE f[c - 1]
    BY <1>4
  <2>1. CASE c = 0  BY <2>1, <1>4
  <2>2. CASE c # 0
    <3>1. c - 1 \in Nat /\ (c - 1) + 1 = c  BY <2>2
    <3>2. f[(c - 1) + 1] = step[<<c - 1, f[c - 1]>>] /\ f[c - 1] \in Nat  BY <3>1, <1>4
    <3>3. step[<<c - 1, f[c - 1]>>] = IF (c - 1) + 1 <= 1 THEN 1
                                      ELSE IF Better((c - 1) + 1, f[c - 1]) THEN (c - 1) + 1 ELSE f[c - 1]
      BY <3>1, <3>2, <1>2
    <3> QED  BY <3>1, <3>2, <3>3
  <2> QED  BY <2>1, <2>2
<1>6. best = Body(best)
  <2> HIDE DEF Body
  <2> QED  BY <1>5, Zenon
<1> HIDE DEF best
<1> DEFINE Good == {c \in Nat : best[c] \in Nat /\ best[c] >= 1 /\ (c # 0 => best[c] <= c)}
<1>7. 0 \in Good
  <2>1. best[0] = 1  BY <1>6
  <2> QED  BY <2>1
<1>8. ASSUME NEW c \in Nat, c \in Good PROVE c + 1 \in Good
  <2>1. c + 1 \in Nat /\ (c + 1) - 1 = c  OBVIOUS
  <2>2. best[c + 1] = IF c + 1 <= 1 THEN 1
                      ELSE IF Better(c + 1, best[(c + 1) - 1]) THEN c + 1 ELSE best[(c + 1) - 1]
    BY <1>6, <2>1
  <2>3. best[c + 1] = IF c + 1 <= 1 THEN 1 ELSE IF Better(c + 1, best[c]) THEN c + 1 ELSE best[c]
    BY <2>1, <2>2
  <2> QED  BY <1>8, <2>3
<1>9. \A c \in Nat : c \in Good
  <2> HIDE DEF Good
  <2> QED  BY <1>7, <1>8, AllNumbers
<1> QED  BY <1>1, <1>9

\* A grid is as wide as its cells and the gaps between them.
LEMMA WidthIs ==
  ASSUME NEW cols, NEW cell, NEW gap, cols \in Nat \ {0}, cell.w \in Nat, gap.x \in Nat
  PROVE  /\ GridWidth(cols, cell, gap) \in Nat
         /\ \A c \in 0 .. (cols - 1) : c * (cell.w + gap.x) + cell.w <= GridWidth(cols, cell, gap)
<1>1. PICK w \in Nat, g \in Nat, n \in Nat : w = cell.w /\ g = gap.x /\ n = cols - 1 /\ cols = n + 1
  <2>1. cols - 1 \in Nat  OBVIOUS
  <2> QED  BY <2>1
<1>2. PICK width : width = GridWidth(cols, cell, gap)  OBVIOUS
<1>3. width = n * (w + g) + w
  <2>1. width = cols * w + n * g  BY <1>1, <1>2 DEF GridWidth
  <2>2. cols * w = n * w + w  BY <1>1
  <2> QED  BY <2>1, <2>2
<1>4. n * (w + g) \in Nat  OBVIOUS
<1>5. \A c \in 0 .. n : c * (w + g) + w <= width
  <2> SUFFICES ASSUME NEW c \in 0 .. n PROVE c * (w + g) + w <= width  OBVIOUS
  <2>1. PICK s \in Nat : s = w + g  OBVIOUS
  <2>2. c * s <= n * s
    <3>1. CASE c = n  BY <3>1
    <3>2. CASE c < n
      <4>1. c * s + s <= n * s  BY <3>2, Spread
      <4>2. c * s \in Int /\ n * s \in Int  OBVIOUS
      <4> QED  BY <4>1, <4>2
    <3> QED  BY <3>1, <3>2
  <2>3. c * s \in Int /\ n * s \in Int  OBVIOUS
  <2>4. c * s + w <= n * s + w  BY <2>2, <2>3
  <2> QED  BY <1>3, <2>1, <2>4
<1> QED  BY <1>1, <1>2, <1>3, <1>4, <1>5

\* The left edges of the levels, from the widths of the levels.
CursorIs(levels, gap, W, left) ==
  /\ left \in [Nat -> Nat]
  /\ \A n \in Nat : left[n + 1] = IF Members(levels, n) = {} THEN left[n] ELSE left[n] + W[n] + gap.x

\* CursorX is defined for every level, and moves on by the width of the level.
LEMMA CursorMoves ==
  ASSUME NEW sccs, NEW levels, NEW gap, NEW W, gap.x \in Nat, W \in [Nat -> Nat],
         \A n \in Nat : Members(levels, n) # {} => W[n] = LevelWidth(sccs, Members(levels, n), gap)
  PROVE  CursorIs(levels, gap, W, CursorX(sccs, levels, gap))
<1> DEFINE Body(f) == [lv \in Nat |->
              IF lv = 0 THEN 0
              ELSE IF Members(levels, lv - 1) = {} THEN f[lv - 1]
              ELSE f[lv - 1] + LevelWidth(sccs, Members(levels, lv - 1), gap) + gap.x]
           left == CHOOSE f : f = Body(f)
<1>1. CursorX(sccs, levels, gap) = left  BY Zenon DEF CursorX
<1>2. PICK step \in [Nat \X Nat -> Nat] :
        \A n \in Nat, x \in Nat :
          step[<<n, x>>] = IF Members(levels, n) = {} THEN x ELSE x + W[n] + gap.x
  <2> DEFINE s == [a \in Nat \X Nat |-> IF Members(levels, a[1]) = {} THEN a[2] ELSE a[2] + W[a[1]] + gap.x]
  <2>1. s \in [Nat \X Nat -> Nat]  OBVIOUS
  <2>2. \A n \in Nat, x \in Nat : s[<<n, x>>] = IF Members(levels, n) = {} THEN x ELSE x + W[n] + gap.x
    OBVIOUS
  <2> HIDE DEF s
  <2> QED  BY <2>1, <2>2
<1>3. PICK f : Goes(f, 0, step, Nat)
  <2>1. 0 \in Nat  OBVIOUS
  <2> QED  BY <2>1, Iterates, Zenon
<1>4. f \in [Nat -> Nat] /\ f[0] = 0 /\ \A n \in Nat : f[n + 1] = step[<<n, f[n]>>]
  BY <1>3 DEF Goes
<1>5. f = Body(f)
  <2> SUFFICES ASSUME NEW n \in Nat
               PROVE  f[n] = IF n = 0 THEN 0
                             ELSE IF Members(levels, n - 1) = {} THEN f[n - 1]
                             ELSE f[n - 1] + LevelWidth(sccs, Members(levels, n - 1), gap) + gap.x
    BY <1>4
  <2>1. CASE n = 0  BY <2>1, <1>4
  <2>2. CASE n # 0
    <3>1. PICK l \in Nat : l = n - 1 /\ l + 1 = n  BY <2>2
    <3>2. f[l + 1] = step[<<l, f[l]>>] /\ f[l] \in Nat  BY <1>4
    <3>3. step[<<l, f[l]>>] = IF Members(levels, l) = {} THEN f[l] ELSE f[l] + W[l] + gap.x
      BY <3>2, <1>2
    <3>4. Members(levels, l) # {} => W[l] = LevelWidth(sccs, Members(levels, l), gap)  OBVIOUS
    <3> QED  BY <2>2, <3>1, <3>2, <3>3, <3>4
  <2> QED  BY <2>1, <2>2
<1>6. left = Body(left)
  <2> HIDE DEF Body
  <2> QED  BY <1>5, Zenon
<1> HIDE DEF left
<1>7. left[0] = 0  BY <1>6
<1>8. ASSUME NEW n \in Nat
      PROVE  left[n + 1] = IF Members(levels, n) = {} THEN left[n] ELSE left[n] + W[n] + gap.x
  <2>1. n + 1 \in Nat /\ (n + 1) - 1 = n /\ n + 1 # 0  OBVIOUS
  <2>2. left[n + 1] = IF n + 1 = 0 THEN 0
                      ELSE IF Members(levels, (n + 1) - 1) = {} THEN left[(n + 1) - 1]
                      ELSE left[(n + 1) - 1] + LevelWidth(sccs, Members(levels, (n + 1) - 1), gap) + gap.x
    BY <1>6, <2>1
  <2>3. Members(levels, n) # {} => W[n] = LevelWidth(sccs, Members(levels, n), gap)  OBVIOUS
  <2> QED  BY <2>1, <2>2, <2>3
<1> DEFINE Good == {n \in Nat : left[n] \in Nat}
<1>9. 0 \in Good  BY <1>7
<1>10. ASSUME NEW n \in Nat, n \in Good PROVE n + 1 \in Good
  <2>1. left[n] \in Nat /\ W[n] \in Nat  BY <1>10
  <2>2. left[n + 1] \in Nat  BY <1>8, <2>1
  <2> QED  BY <2>2
<1>11. \A n \in Nat : n \in Good
  <2> HIDE DEF Good
  <2> QED  BY <1>9, <1>10, AllNumbers
<1>12. left \in [Nat -> Nat]
  <2>1. left = [n \in Nat |-> left[n]]  BY <1>6
  <2> QED  BY <1>11, <2>1
<1> QED  BY <1>1, <1>8, <1>12 DEF CursorIs

\* A later level begins right of an earlier one that has members.
LEMMA CursorAdvances ==
  ASSUME NEW levels, NEW gap, NEW W, NEW left, NEW n \in Nat, NEW l \in Nat,
         CursorIs(levels, gap, W, left), gap.x \in Nat, W \in [Nat -> Nat],
         Members(levels, n) # {}, n < l
  PROVE  left[n] + W[n] + gap.x <= left[l]
<1> DEFINE Good == {d \in Nat : left[n + 1] <= left[n + 1 + d]}
<1>1. left \in [Nat -> Nat]  BY DEF CursorIs
<1>2. 0 \in Good
  <2>1. n + 1 + 0 = n + 1 /\ left[n + 1] \in Nat  BY <1>1
  <2> QED  BY <2>1
<1>3. ASSUME NEW d \in Nat, d \in Good PROVE d + 1 \in Good
  <2>1. PICK e \in Nat : e = n + 1 + d /\ e + 1 = n + 1 + (d + 1)  OBVIOUS
  <2>2. left[e + 1] = IF Members(levels, e) = {} THEN left[e] ELSE left[e] + W[e] + gap.x
    BY DEF CursorIs
  <2>3. left[e] \in Nat /\ W[e] \in Nat /\ left[e + 1] \in Nat /\ left[n + 1] \in Nat  BY <1>1
  <2>4. left[n + 1] <= left[e]  BY <1>3, <2>1
  <2>5. left[n + 1] <= left[e + 1]  BY <2>2, <2>3, <2>4
  <2> QED  BY <2>1, <2>5
<1>4. \A d \in Nat : d \in Good
  <2> HIDE DEF Good
  <2> QED  BY <1>2, <1>3, AllNumbers
<1>5. PICK d \in Nat : l = n + 1 + d
  <2>1. l - n - 1 \in Nat /\ l = n + 1 + (l - n - 1)  OBVIOUS
  <2> QED  BY <2>1
<1>6. left[n + 1] <= left[l]  BY <1>4, <1>5
<1>7. left[n + 1] = left[n] + W[n] + gap.x  BY DEF CursorIs
<1> QED  BY <1>6, <1>7

\* Where a component of a level stands: in a cell of the level, in column c and row r.
InCell(box, x0, top, cell, gap, c, r) ==
  /\ box.x \in Int /\ box.y \in Int /\ box.w \in Nat /\ box.h \in Nat
  /\ x0 + c * (cell.w + gap.x) <= box.x /\ box.x + box.w <= x0 + c * (cell.w + gap.x) + cell.w
  /\ top + r * (cell.h + gap.y) <= box.y /\ box.y + box.h <= top + r * (cell.h + gap.y) + cell.h

\* A box centred in its cell is inside it.
LEMMA CellOfBox ==
  ASSUME NEW b, NEW x0 \in Int, NEW top \in Int, NEW cell, NEW gap, NEW c \in Nat, NEW r \in Nat, NEW box,
         cell.w \in Nat, cell.h \in Nat, gap.x \in Nat, gap.y \in Nat,
         b.w \in Nat, b.h \in Nat, b.w <= cell.w, b.h <= cell.h,
         box = [x |-> x0 + c * (cell.w + gap.x) + (cell.w - b.w) \div 2,
                y |-> top + r * (cell.h + gap.y) + (cell.h - b.h) \div 2,
                w |-> b.w, h |-> b.h]
  PROVE  InCell(box, x0, top, cell, gap, c, r)
<1>1. PICK w, h, cw, ch, gx, gy \in Nat :
        /\ w = b.w /\ h = b.h /\ cw = cell.w /\ ch = cell.h /\ gx = gap.x /\ gy = gap.y
  OBVIOUS
<1>2. PICK dx, dy \in Nat : /\ dx = (cw - w) \div 2 /\ dy = (ch - h) \div 2
                            /\ dx + w <= cw /\ dy + h <= ch
  <2>1. w <= cw /\ h <= ch  BY <1>1
  <2>2. (cw - w) \div 2 \in Nat /\ (cw - w) \div 2 + w <= cw  BY <2>1, Halved
  <2>3. (ch - h) \div 2 \in Nat /\ (ch - h) \div 2 + h <= ch  BY <2>1, Halved
  <2> QED  BY <2>2, <2>3
<1>3. PICK X \in Nat, Y \in Nat : X = c * (cw + gx) /\ Y = r * (ch + gy)
  <2>1. c * (cw + gx) \in Nat /\ r * (ch + gy) \in Nat  OBVIOUS
  <2> QED  BY <2>1
<1>4. /\ box.x = x0 + X + dx /\ box.y = top + Y + dy /\ box.w = w /\ box.h = h
  BY <1>1, <1>2, <1>3
<1>5. /\ box.x \in Int /\ box.y \in Int /\ box.w \in Nat /\ box.h \in Nat
      /\ x0 + X <= box.x /\ box.x + box.w <= x0 + X + cw
      /\ top + Y <= box.y /\ box.y + box.h <= top + Y + ch
  BY <1>2, <1>4
<1> QED  BY <1>1, <1>3, <1>5 DEF InCell

\* Boxes in different columns, or in different rows, are a gap apart.
ColumnLeft(a, b, gap) == a.x + a.w + gap.x <= b.x
RowAbove(a, b, gap) == a.y + a.h + gap.y <= b.y

\* Boxes in different columns, or in different rows, of one level are apart.
LEMMA ColumnsApart ==
  ASSUME NEW a, NEW b, NEW x0 \in Int, NEW top \in Int, NEW cell, NEW gap,
         NEW c \in Nat, NEW r \in Nat, NEW cc \in Nat, NEW rr \in Nat,
         cell.w \in Nat, cell.h \in Nat, gap.x \in Nat, gap.y \in Nat,
         InCell(a, x0, top, cell, gap, c, r), InCell(b, x0, top, cell, gap, cc, rr)
  PROVE  (c < cc => ColumnLeft(a, b, gap)) /\ (r < rr => RowAbove(a, b, gap))
<1>1. PICK w, g, X, XX \in Nat : /\ w = cell.w /\ g = gap.x
                                 /\ X = c * (cell.w + gap.x) /\ XX = cc * (cell.w + gap.x)
  <2>1. c * (cell.w + gap.x) \in Nat /\ cc * (cell.w + gap.x) \in Nat  OBVIOUS
  <2> QED  BY <2>1
<1>2. PICK h, k, Y, YY \in Nat : /\ h = cell.h /\ k = gap.y
                                 /\ Y = r * (cell.h + gap.y) /\ YY = rr * (cell.h + gap.y)
  <2>1. r * (cell.h + gap.y) \in Nat /\ rr * (cell.h + gap.y) \in Nat  OBVIOUS
  <2> QED  BY <2>1
<1>3. /\ a.x \in Int /\ a.w \in Nat /\ b.x \in Int /\ a.x + a.w <= x0 + X + w /\ x0 + XX <= b.x
  BY <1>1 DEF InCell
<1>4. /\ a.y \in Int /\ a.h \in Nat /\ b.y \in Int /\ a.y + a.h <= top + Y + h /\ top + YY <= b.y
  BY <1>2 DEF InCell
<1>5. ASSUME c < cc PROVE ColumnLeft(a, b, gap)
  <2>1. PICK s \in Nat : s = cell.w + gap.x /\ s = w + g  BY <1>1
  <2>2. c * s + s <= cc * s  BY <1>5, Spread
  <2>3. X + s <= XX  BY <1>1, <2>1, <2>2
  <2>4. a.x + a.w + g <= b.x  BY <1>3, <2>1, <2>3
  <2> QED  BY <1>1, <2>4 DEF ColumnLeft
<1>6. ASSUME r < rr PROVE RowAbove(a, b, gap)
  <2>1. PICK s \in Nat : s = cell.h + gap.y /\ s = h + k  BY <1>2
  <2>2. r * s + s <= rr * s  BY <1>6, Spread
  <2>3. Y + s <= YY  BY <1>2, <2>1, <2>2
  <2>4. a.y + a.h + k <= b.y  BY <1>4, <2>1, <2>3
  <2> QED  BY <1>2, <2>4 DEF RowAbove
<1> QED  BY <1>5, <1>6

\* Boxes a gap apart stay apart whatever the jitter.
LEMMA GapsHoldJitter ==
  ASSUME NEW a, NEW b, NEW gap, gap.x \in Nat, gap.y \in Nat,
         a.x \in Int, a.y \in Int, a.w \in Nat, a.h \in Nat,
         b.x \in Int, b.y \in Int, b.w \in Nat, b.h \in Nat,
         \/ ColumnLeft(a, b, gap) \/ ColumnLeft(b, a, gap)
         \/ RowAbove(a, b, gap) \/ RowAbove(b, a, gap)
  PROVE  Apart(a, b, JitterLimit(gap))
<1>1. PICK jx, jy \in Nat : /\ jx = JitterLimit(gap).x /\ jy = JitterLimit(gap).y
                            /\ 2 * jx <= 100 * gap.x /\ 2 * jy <= 100 * gap.y
  <2>1. JitterLimit(gap).x = Smaller(2800, 18 * gap.x) /\ JitterLimit(gap).y = Smaller(5600, 35 * gap.y)
    BY DEF JitterLimit
  <2>2. /\ Smaller(2800, 18 * gap.x) \in Nat /\ 2 * Smaller(2800, 18 * gap.x) <= 100 * gap.x
        /\ Smaller(5600, 35 * gap.y) \in Nat /\ 2 * Smaller(5600, 35 * gap.y) <= 100 * gap.y
    BY DEF Smaller
  <2> QED  BY <2>1, <2>2
<1>2. CASE ColumnLeft(a, b, gap)
  <2>1. 100 * (a.x + a.w) + 2 * jx <= 100 * b.x  BY <1>1, <1>2 DEF ColumnLeft
  <2> QED  BY <1>1, <2>1 DEF Apart
<1>3. CASE ColumnLeft(b, a, gap)
  <2>1. 100 * (b.x + b.w) + 2 * jx <= 100 * a.x  BY <1>1, <1>3 DEF ColumnLeft
  <2> QED  BY <1>1, <2>1 DEF Apart
<1>4. CASE RowAbove(a, b, gap)
  <2>1. 100 * (a.y + a.h) + 2 * jy <= 100 * b.y  BY <1>1, <1>4 DEF RowAbove
  <2> QED  BY <1>1, <2>1 DEF Apart
<1>5. CASE RowAbove(b, a, gap)
  <2>1. 100 * (b.y + b.h) + 2 * jy <= 100 * a.y  BY <1>1, <1>5 DEF RowAbove
  <2> QED  BY <1>1, <2>1 DEF Apart
<1> QED  BY <1>2, <1>3, <1>4, <1>5

\* What the layout works with: components, their levels and a gap.
GridOf(sccs, levels, gap) ==
  /\ sccs \in Seq(SUBSET OnBoard) /\ levels \in [1 .. Len(sccs) -> Nat]
  /\ gap.x \in Nat /\ gap.y \in Nat

\* A level has cells that are large enough, and columns to put them in.
LEMMA LevelIs ==
  ASSUME NEW sccs, NEW levels, NEW gap, NEW n, GridOf(sccs, levels, gap), Members(levels, n) # {}
  PROVE  /\ LevelCell(sccs, Members(levels, n)).w \in Nat /\ LevelCell(sccs, Members(levels, n)).h \in Nat
         /\ \A i \in Members(levels, n) :
              /\ SccBoundingBox(sccs[i]).w <= LevelCell(sccs, Members(levels, n)).w
              /\ SccBoundingBox(sccs[i]).h <= LevelCell(sccs, Members(levels, n)).h
         /\ LevelCols(sccs, Members(levels, n), gap) \in Nat \ {0}
         /\ LevelWidth(sccs, Members(levels, n), gap) \in Nat
<1>1. PICK M : M = Members(levels, n)  OBVIOUS
<1>2. PICK m \in Nat : m = Len(sccs) /\ DOMAIN sccs = 1 .. m /\ DOMAIN levels = 1 .. m
  BY DEF GridOf
<1>3. M \in SUBSET (DOMAIN sccs) /\ M # {} /\ sccs \in Seq(SUBSET OnBoard)
  BY <1>1, <1>2 DEF Members, GridOf
<1>4. PICK cell : cell = LevelCell(sccs, M)  OBVIOUS
<1>5. /\ cell.w \in Nat /\ cell.h \in Nat
      /\ \A i \in M : SccBoundingBox(sccs[i]).w <= cell.w /\ SccBoundingBox(sccs[i]).h <= cell.h
  BY <1>3, <1>4, CellIs
<1>6. PICK count \in Nat \ {0} : count = Cardinality(M)
  <2>1. IsFiniteSet(1 .. m)  BY FS_Interval
  <2>2. IsFiniteSet(M)  BY <1>2, <1>3, <2>1, FS_Subset
  <2>3. Cardinality(M) \in Nat /\ Cardinality(M) # 0  BY <1>3, <2>2, FS_CardinalityType, FS_EmptySet
  <2> QED  BY <2>3
<1>7. PICK cols : cols = LevelCols(sccs, M, gap)  OBVIOUS
<1>8. cols \in 1 .. count
  <2>1. ChooseGridCols(count, cell, gap) \in 1 .. count  BY ColsAre
  <2> QED  BY <1>4, <1>6, <1>7, <2>1 DEF LevelCols
<1>9. cols \in Nat \ {0}  BY <1>8
<1>10. GridWidth(cols, cell, gap) \in Nat
  <2>1. gap.x \in Nat  BY DEF GridOf
  <2> QED  BY <1>5, <1>9, <2>1, WidthIs
<1>11. LevelWidth(sccs, M, gap) = GridWidth(cols, cell, gap)  BY <1>4, <1>7 DEF LevelWidth
<1> QED  BY <1>1, <1>4, <1>5, <1>7, <1>9, <1>10, <1>11

\* The widths of the levels, those nobody is on left out.
Widths(sccs, levels, gap) ==
  [n \in Nat |-> IF Members(levels, n) = {} THEN 0 ELSE LevelWidth(sccs, Members(levels, n), gap)]

\* The cursor of the levels of a layout.
LEMMA CursorOfLevels ==
  ASSUME NEW sccs, NEW levels, NEW gap, GridOf(sccs, levels, gap)
  PROVE  /\ Widths(sccs, levels, gap) \in [Nat -> Nat]
         /\ CursorIs(levels, gap, Widths(sccs, levels, gap), CursorX(sccs, levels, gap))
         /\ \A n \in Nat : Members(levels, n) # {} =>
              Widths(sccs, levels, gap)[n] = LevelWidth(sccs, Members(levels, n), gap)
<1>1. PICK W : W = Widths(sccs, levels, gap)  OBVIOUS
<1>2. ASSUME NEW n \in Nat, Members(levels, n) # {} PROVE LevelWidth(sccs, Members(levels, n), gap) \in Nat
  BY <1>2, LevelIs
<1>3. W \in [Nat -> Nat]  BY <1>1, <1>2 DEF Widths
<1>4. \A n \in Nat : Members(levels, n) # {} => W[n] = LevelWidth(sccs, Members(levels, n), gap)
  BY <1>1 DEF Widths
<1>5. gap.x \in Nat  BY DEF GridOf
<1>6. CursorIs(levels, gap, W, CursorX(sccs, levels, gap))  BY <1>3, <1>4, <1>5, CursorMoves
<1> QED  BY <1>1, <1>3, <1>4, <1>6

TopOf(sccs, M, gap) ==
  -(GridHeight(CeilDiv(Cardinality(M), LevelCols(sccs, M, gap)), LevelCell(sccs, M), gap) \div 2)

\* A component of a level is in the cell of its place.
Stands(sccs, levels, gap, i, c, r) ==
  /\ InCell(SccBox(sccs, levels, gap, i), CursorX(sccs, levels, gap)[levels[i]],
            TopOf(sccs, Members(levels, levels[i]), gap), LevelCell(sccs, Members(levels, levels[i])), gap, c, r)
  /\ c < LevelCols(sccs, Members(levels, levels[i]), gap)
  /\ PlaceOf(levels, i) = r * LevelCols(sccs, Members(levels, levels[i]), gap) + c

\* Where a level begins, from the top.
LEMMA TopIs ==
  ASSUME NEW sccs, NEW levels, NEW gap, NEW n, GridOf(sccs, levels, gap), Members(levels, n) # {}
  PROVE  TopOf(sccs, Members(levels, n), gap) \in Int
<1>1. PICK cols \in Nat \ {0} : cols = LevelCols(sccs, Members(levels, n), gap)  BY LevelIs
<1>2. PICK h \in Nat, g \in Nat : h = LevelCell(sccs, Members(levels, n)).h /\ g = gap.y
  BY LevelIs DEF GridOf
<1>3. PICK count \in Nat : count = Cardinality(Members(levels, n))
  <2>1. PICK m \in Nat : DOMAIN levels = 1 .. m  BY DEF GridOf
  <2>2. IsFiniteSet(1 .. m)  BY FS_Interval
  <2>3. Members(levels, n) \in SUBSET (1 .. m)  BY <2>1 DEF Members
  <2>4. IsFiniteSet(Members(levels, n))  BY <2>2, <2>3, FS_Subset
  <2> QED  BY <2>4, FS_CardinalityType
<1>4. PICK rows \in Int : rows = CeilDiv(count, cols)
  <2>1. count + cols - 1 \in Nat  OBVIOUS
  <2>2. (count + cols - 1) \div cols \in Int  BY <2>1
  <2> QED  BY <2>2 DEF CeilDiv
<1>5. PICK height \in Int : height = rows * h + (rows - 1) * g  OBVIOUS
<1>6. GridHeight(rows, LevelCell(sccs, Members(levels, n)), gap) = height
  BY <1>2, <1>5 DEF GridHeight
<1>7. -(height \div 2) \in Int  OBVIOUS
<1> QED  BY <1>1, <1>3, <1>4, <1>6, <1>7 DEF TopOf

\* A component stands in the cell computeLayout gives it.
LEMMA BoxStands ==
  ASSUME NEW sccs, NEW levels, NEW gap, NEW i, GridOf(sccs, levels, gap), i \in DOMAIN sccs
  PROVE  \E c, r \in Nat : Stands(sccs, levels, gap, i, c, r)
<1>1. PICK m \in Nat : m = Len(sccs) /\ DOMAIN sccs = 1 .. m /\ DOMAIN levels = 1 .. m
  BY DEF GridOf
<1>2. sccs \in Seq(SUBSET OnBoard) /\ levels \in [1 .. m -> Nat] /\ gap.x \in Nat /\ gap.y \in Nat
  BY <1>1 DEF GridOf
<1>3. PICK n \in Nat : n = levels[i]  BY <1>1, <1>2
<1>4. PICK M : M = Members(levels, n)  OBVIOUS
<1>5. i \in M  BY <1>1, <1>3, <1>4 DEF Members
<1>6. PICK cell : cell = LevelCell(sccs, M)  OBVIOUS
<1>7. PICK cols \in Nat \ {0} : cols = LevelCols(sccs, M, gap)  BY <1>4, <1>5, LevelIs
<1>8. PICK b : b = SccBoundingBox(sccs[i])  OBVIOUS
<1>9. cell.w \in Nat /\ cell.h \in Nat /\ b.w <= cell.w /\ b.h <= cell.h
  BY <1>4, <1>5, <1>6, <1>8, LevelIs
<1>10. b.w \in Nat /\ b.h \in Nat
  <2>1. sccs[i] \in SUBSET OnBoard  BY <1>2
  <2> QED  BY <1>8, <2>1, BoxIs
<1>11. PICK k \in Nat : k = PlaceOf(levels, i)  BY <1>1, <1>2, PlacesDiffer
<1>12. PICK r \in Nat, c \in Nat : r = k \div cols /\ c = k % cols /\ c < cols /\ k = r * cols + c
  BY Divided
<1>13. PICK x0 \in Int : x0 = CursorX(sccs, levels, gap)[n]
  <2>1. CursorX(sccs, levels, gap) \in [Nat -> Nat]  BY CursorOfLevels DEF CursorIs
  <2> QED  BY <2>1
<1>14. PICK top \in Int : top = TopOf(sccs, M, gap)  BY <1>4, <1>5, TopIs
<1>15. PICK box : box = SccBox(sccs, levels, gap, i)  OBVIOUS
<1>16. box = [x |-> x0 + c * (cell.w + gap.x) + (cell.w - b.w) \div 2,
              y |-> top + r * (cell.h + gap.y) + (cell.h - b.h) \div 2,
              w |-> b.w, h |-> b.h]
  BY <1>3, <1>4, <1>6, <1>7, <1>8, <1>11, <1>12, <1>13, <1>14, <1>15, Zenon DEF SccBox, TopOf
<1>17. InCell(box, x0, top, cell, gap, c, r)  BY <1>2, <1>9, <1>10, <1>16, CellOfBox
<1> QED  BY <1>3, <1>4, <1>6, <1>7, <1>11, <1>12, <1>13, <1>14, <1>15, <1>17 DEF Stands

\* A component of a lower level stands left of one of a higher level.
LEMMA LevelsAside ==
  ASSUME NEW sccs, NEW levels, NEW gap, NEW i, NEW j, GridOf(sccs, levels, gap),
         i \in DOMAIN sccs, j \in DOMAIN sccs, levels[i] < levels[j]
  PROVE  ColumnLeft(SccBox(sccs, levels, gap, i), SccBox(sccs, levels, gap, j), gap)
<1>1. PICK m \in Nat : m = Len(sccs) /\ DOMAIN sccs = 1 .. m /\ DOMAIN levels = 1 .. m
  BY DEF GridOf
<1>2. PICK n, l \in Nat : n = levels[i] /\ l = levels[j] /\ n < l  BY <1>1 DEF GridOf
<1>3. PICK a, b : a = SccBox(sccs, levels, gap, i) /\ b = SccBox(sccs, levels, gap, j)  OBVIOUS
<1>4. PICK M : M = Members(levels, n)  OBVIOUS
<1>5. i \in M  BY <1>1, <1>2, <1>4 DEF Members
<1>6. PICK W, left : W = Widths(sccs, levels, gap) /\ left = CursorX(sccs, levels, gap)  OBVIOUS
<1>7. W \in [Nat -> Nat] /\ CursorIs(levels, gap, W, left) /\ W[n] = LevelWidth(sccs, M, gap)
  BY <1>4, <1>5, <1>6, CursorOfLevels
<1>8. PICK gx \in Nat, x0 \in Nat, x1 \in Nat, w \in Nat :
        gx = gap.x /\ x0 = left[n] /\ x1 = left[l] /\ w = W[n]
  BY <1>7 DEF GridOf, CursorIs
<1>9. x0 + w + gx <= x1
  <2>1. left[n] + W[n] + gap.x <= left[l]  BY <1>2, <1>4, <1>5, <1>7, <1>8, CursorAdvances
  <2> QED  BY <1>8, <2>1
<1>10. PICK c \in Nat, r \in Nat : Stands(sccs, levels, gap, i, c, r)  BY BoxStands
<1>11. PICK cc \in Nat, rr \in Nat : Stands(sccs, levels, gap, j, cc, rr)  BY BoxStands
<1>12. PICK cell : cell = LevelCell(sccs, M)  OBVIOUS
<1>13. PICK cols \in Nat \ {0} : cols = LevelCols(sccs, M, gap)  BY <1>4, <1>5, LevelIs
<1>14. cell.w \in Nat  BY <1>4, <1>5, <1>12, LevelIs
<1>15. c * (cell.w + gap.x) + cell.w <= w
  <2>1. c < cols  BY <1>2, <1>4, <1>10, <1>13 DEF Stands
  <2>2. c \in 0 .. (cols - 1)  BY <2>1
  <2>3. c * (cell.w + gap.x) + cell.w <= GridWidth(cols, cell, gap)
    BY <1>8, <1>14, <2>2, WidthIs
  <2>4. LevelWidth(sccs, M, gap) = GridWidth(cols, cell, gap)  BY <1>12, <1>13 DEF LevelWidth
  <2> QED  BY <1>7, <1>8, <2>3, <2>4
<1>16. a.x \in Int /\ a.w \in Nat /\ a.x + a.w <= x0 + c * (cell.w + gap.x) + cell.w
  BY <1>2, <1>3, <1>4, <1>6, <1>8, <1>10, <1>12 DEF Stands, InCell
<1>17. PICK cw : cw = LevelCell(sccs, Members(levels, l)).w  OBVIOUS
<1>18. b.x \in Int /\ x1 + cc * (cw + gap.x) <= b.x
  BY <1>2, <1>3, <1>6, <1>8, <1>11, <1>17 DEF Stands, InCell
<1>19. cc * (cw + gap.x) \in Nat
  <2>1. j \in Members(levels, l)  BY <1>1, <1>2 DEF Members
  <2>2. cw \in Nat  BY <1>17, <2>1, LevelIs
  <2>3. cw + gap.x \in Nat  BY <1>8, <2>2
  <2> QED  BY <2>3
<1>20. PICK X \in Nat : X = c * (cell.w + gap.x)
  <2>1. cell.w + gap.x \in Nat  BY <1>8, <1>14
  <2> QED  BY <2>1
<1>21. PICK XX \in Nat : XX = cc * (cw + gap.x)  BY <1>19
<1>22. PICK v \in Nat : v = cell.w  BY <1>14
<1>23. X + v <= w /\ a.x + a.w <= x0 + X + v /\ x1 + XX <= b.x
  BY <1>15, <1>16, <1>18, <1>20, <1>21, <1>22
<1>24. a.x + a.w + gx <= b.x  BY <1>9, <1>16, <1>18, <1>23
<1> QED  BY <1>3, <1>8, <1>24 DEF ColumnLeft

\* No two components overlap, with the jitter that may be added to their places.
LEMMA BoxesApart ==
  ASSUME NEW sccs, NEW levels, NEW gap, NEW i, NEW j, GridOf(sccs, levels, gap),
         i \in DOMAIN sccs, j \in DOMAIN sccs, j < i
  PROVE  /\ Apart(SccBox(sccs, levels, gap, i), SccBox(sccs, levels, gap, j), JitterLimit(gap))
         /\ Apart(SccBox(sccs, levels, gap, j), SccBox(sccs, levels, gap, i), JitterLimit(gap))
<1>1. PICK m \in Nat : m = Len(sccs) /\ DOMAIN sccs = 1 .. m /\ DOMAIN levels = 1 .. m
  BY DEF GridOf
<1>2. PICK n, l \in Nat : n = levels[i] /\ l = levels[j]  BY <1>1 DEF GridOf
<1>3. PICK a, b : a = SccBox(sccs, levels, gap, i) /\ b = SccBox(sccs, levels, gap, j)  OBVIOUS
<1>4. PICK c \in Nat, r \in Nat : Stands(sccs, levels, gap, i, c, r)  BY BoxStands
<1>5. PICK cc \in Nat, rr \in Nat : Stands(sccs, levels, gap, j, cc, rr)  BY BoxStands
<1>6. /\ ColumnLeft(a, b, gap) \/ ColumnLeft(b, a, gap) \/ RowAbove(a, b, gap) \/ RowAbove(b, a, gap)
  <2>1. CASE n < l  BY <1>2, <1>3, <2>1, LevelsAside
  <2>2. CASE l < n  BY <1>2, <1>3, <2>2, LevelsAside
  <2>3. CASE n = l
    <3>1. PICK M : M = Members(levels, n)  OBVIOUS
    <3>2. i \in M  BY <1>1, <1>2, <3>1 DEF Members
    <3>3. PICK cell : cell = LevelCell(sccs, M)  OBVIOUS
    <3>4. PICK cols \in Nat \ {0} : cols = LevelCols(sccs, M, gap)  BY <3>1, <3>2, LevelIs
    <3>5. cell.w \in Nat /\ cell.h \in Nat  BY <3>1, <3>2, <3>3, LevelIs
    <3>6. PICK x0 \in Int : x0 = CursorX(sccs, levels, gap)[n]
      <4>1. CursorX(sccs, levels, gap) \in [Nat -> Nat]  BY CursorOfLevels DEF CursorIs
      <4> QED  BY <4>1
    <3>7. PICK top \in Int : top = TopOf(sccs, M, gap)  BY <3>1, <3>2, TopIs
    <3>8. InCell(a, x0, top, cell, gap, c, r) /\ PlaceOf(levels, i) = r * cols + c
      BY <1>2, <1>3, <1>4, <3>1, <3>3, <3>4, <3>6, <3>7 DEF Stands
    <3>9. InCell(b, x0, top, cell, gap, cc, rr) /\ PlaceOf(levels, j) = rr * cols + cc
      BY <1>2, <1>3, <1>5, <2>3, <3>1, <3>3, <3>4, <3>6, <3>7 DEF Stands
    <3>10. PlaceOf(levels, j) < PlaceOf(levels, i)
      BY <1>1, <1>2, <2>3, PlacesDiffer DEF GridOf
    <3>11. c # cc \/ r # rr
      <4> SUFFICES ASSUME c = cc, r = rr PROVE FALSE  OBVIOUS
      <4>1. PlaceOf(levels, i) = PlaceOf(levels, j)  BY <3>8, <3>9
      <4>2. PlaceOf(levels, i) \in Nat  BY <1>1, PlacesDiffer DEF GridOf
      <4> QED  BY <3>10, <4>1, <4>2
    <3>12. c < cc \/ cc < c \/ r < rr \/ rr < r  BY <3>11
    <3>13. gap.x \in Nat /\ gap.y \in Nat  BY DEF GridOf
    <3>14. (c < cc => ColumnLeft(a, b, gap)) /\ (r < rr => RowAbove(a, b, gap))
      BY <3>5, <3>8, <3>9, <3>13, ColumnsApart
    <3>15. (cc < c => ColumnLeft(b, a, gap)) /\ (rr < r => RowAbove(b, a, gap))
      BY <3>5, <3>8, <3>9, <3>13, ColumnsApart
    <3> QED  BY <3>12, <3>14, <3>15
  <2> QED  BY <1>2, <2>1, <2>2, <2>3
<1>7. /\ a.x \in Int /\ a.y \in Int /\ a.w \in Nat /\ a.h \in Nat
      /\ b.x \in Int /\ b.y \in Int /\ b.w \in Nat /\ b.h \in Nat
      /\ gap.x \in Nat /\ gap.y \in Nat
  BY <1>3, <1>4, <1>5 DEF Stands, InCell, GridOf
<1>8. Apart(a, b, JitterLimit(gap))  BY <1>6, <1>7, GapsHoldJitter
<1>9. Apart(b, a, JitterLimit(gap))  BY <1>6, <1>7, GapsHoldJitter
<1> QED  BY <1>3, <1>8, <1>9

\* What the grid promises of a graph, at a setting of the gaps.
Reads(calls, made) ==
  /\ \A i, j \in DOMAIN made.sccs :
       i # j => Apart(made.boxes[i], made.boxes[j], JitterLimit(made.gap))
  /\ \A k \in DOMAIN calls : Ends(calls[k]) \subseteq OnBoard =>
       \/ SccOf(made.sccs, calls[k][1]) = SccOf(made.sccs, calls[k][2])
       \/ ColumnLeft(made.boxes[SccOf(made.sccs, calls[k][1])],
                     made.boxes[SccOf(made.sccs, calls[k][2])], made.gap)

\* The grid of any graph is readable: boxes apart, callers left of what they call.
LEMMA GridReads ==
  ASSUME NEW calls, NEW gap, calls \in Seq(GraphCalls), gap \in Gaps
  PROVE  Reads(calls, ComputeLayout(calls, gap))
<1>1. PICK sccs : sccs = ComputeSCCs(calls)  OBVIOUS
<1>2. SccsAre(calls, sccs)  BY <1>1, SccsIs
<1>3. PICK levels : levels = AssignLevels(sccs, calls)  OBVIOUS
<1>4. LevelsAre(calls, sccs, levels)  BY <1>2, <1>3, LevelsIs
<1>5. PICK m \in Nat : m = Len(sccs) /\ DOMAIN sccs = 1 .. m  BY <1>2 DEF SccsAre
<1>6. GridOf(sccs, levels, gap)
  <2>1. gap.x \in 0 .. 420 /\ gap.y \in 0 .. 420  BY LayoutAssumption
  <2>2. gap.x \in Nat /\ gap.y \in Nat
    <3>1. \A n \in 0 .. 420 : n \in Nat  OBVIOUS
    <3> QED  BY <2>1, <3>1, Zenon
  <2>3. sccs \in Seq(SUBSET OnBoard)  BY <1>2 DEF SccsAre
  <2>4. levels \in [1 .. Len(sccs) -> Nat]  BY <1>4 DEF LevelsAre
  <2> QED  BY <2>2, <2>3, <2>4 DEF GridOf
<1>7. PICK made : made = ComputeLayout(calls, gap)  OBVIOUS
<1>8. /\ made.sccs = sccs /\ made.gap = gap
      /\ \A i \in DOMAIN sccs : made.boxes[i] = SccBox(sccs, levels, gap, i)
  BY <1>1, <1>3, <1>7 DEF ComputeLayout
<1>9. ASSUME NEW i \in DOMAIN sccs, NEW j \in DOMAIN sccs, i # j
      PROVE  Apart(SccBox(sccs, levels, gap, i), SccBox(sccs, levels, gap, j), JitterLimit(gap))
  <2>1. CASE j < i  BY <1>6, <2>1, BoxesApart
  <2>2. CASE i < j  BY <1>6, <2>2, BoxesApart
  <2> QED  BY <1>5, <1>9, <2>1, <2>2
<1>10. ASSUME NEW k \in DOMAIN calls, Ends(calls[k]) \subseteq OnBoard,
              NEW i, NEW j, i = SccOf(sccs, calls[k][1]), j = SccOf(sccs, calls[k][2]), i # j
       PROVE  ColumnLeft(SccBox(sccs, levels, gap, i), SccBox(sccs, levels, gap, j), gap)
  <2>1. calls[k][1] \in OnBoard /\ calls[k][2] \in OnBoard  BY <1>10 DEF Ends
  <2>2. i \in DOMAIN sccs /\ j \in DOMAIN sccs  BY <1>2, <1>10, <2>1, SccOfIs
  <2>3. levels[i] < levels[j]  BY <1>4, <1>10 DEF LevelsAre
  <2> QED  BY <1>6, <2>2, <2>3, LevelsAside
<1>11. \A i, j \in DOMAIN made.sccs : i # j => Apart(made.boxes[i], made.boxes[j], JitterLimit(made.gap))
  BY <1>8, <1>9
<1>12. ASSUME NEW k \in DOMAIN calls, Ends(calls[k]) \subseteq OnBoard,
              SccOf(made.sccs, calls[k][1]) # SccOf(made.sccs, calls[k][2])
       PROVE  ColumnLeft(made.boxes[SccOf(made.sccs, calls[k][1])],
                         made.boxes[SccOf(made.sccs, calls[k][2])], made.gap)
  <2>1. PICK i, j : i = SccOf(sccs, calls[k][1]) /\ j = SccOf(sccs, calls[k][2])  OBVIOUS
  <2>2. i # j  BY <1>8, <1>12, <2>1
  <2>3. i \in DOMAIN sccs /\ j \in DOMAIN sccs
    <3>1. calls[k][1] \in OnBoard /\ calls[k][2] \in OnBoard  BY <1>12 DEF Ends
    <3> QED  BY <1>2, <2>1, <3>1, SccOfIs
  <2>4. ColumnLeft(SccBox(sccs, levels, gap, i), SccBox(sccs, levels, gap, j), gap)
    BY <1>10, <1>12, <2>1, <2>2
  <2> QED  BY <1>8, <2>1, <2>3, <2>4
<1> QED  BY <1>7, <1>11, <1>12 DEF Reads

-----------------------------------------------------------------------------
\* Finitely many levels have a highest one.
LEMMA TopLevelIs ==
  ASSUME NEW m \in Nat \ {0}, NEW levels, levels \in [1 .. m -> Nat]
  PROVE  /\ Max(LevelsOf(levels)) \in Nat
         /\ \A i \in 1 .. m : levels[i] <= Max(LevelsOf(levels))
<1> DEFINE Good == {n \in Nat : \E b \in Nat : \A i \in 1 .. m : i <= n => levels[i] <= b}
<1>1. 0 \in Good  OBVIOUS
<1>2. ASSUME NEW n \in Nat, n \in Good PROVE n + 1 \in Good
  <2>1. PICK b \in Nat : \A i \in 1 .. m : i <= n => levels[i] <= b  BY <1>2
  <2>2. CASE n + 1 \in 1 .. m
    <3>1. levels[n + 1] \in Nat  BY <2>2
    <3>2. PICK c \in Nat : c = b + levels[n + 1]  BY <3>1
    <3>3. \A i \in 1 .. m : i <= n + 1 => levels[i] <= c
      <4> SUFFICES ASSUME NEW i \in 1 .. m, i <= n + 1 PROVE levels[i] <= c  OBVIOUS
      <4>1. levels[i] \in Nat  OBVIOUS
      <4>2. CASE i = n + 1  BY <4>2, <3>1, <3>2
      <4>3. CASE i <= n  BY <4>1, <4>3, <2>1, <3>1, <3>2
      <4> QED  BY <4>2, <4>3
    <3>4. n + 1 \in Nat  OBVIOUS
    <3> QED  BY <3>3, <3>4, Zenon
  <2>3. CASE n + 1 \notin 1 .. m
    <3>1. \A i \in 1 .. m : i <= n + 1 => i <= n  BY <2>3
    <3>2. \A i \in 1 .. m : i <= n + 1 => levels[i] <= b  BY <2>1, <3>1
    <3>3. n + 1 \in Nat  OBVIOUS
    <3> QED  BY <3>2, <3>3, Zenon
  <2> QED  BY <2>2, <2>3
<1>3. \A n \in Nat : n \in Good
  <2> HIDE DEF Good
  <2> QED  BY <1>1, <1>2, AllNumbers
<1>4. PICK b \in Nat : \A i \in 1 .. m : levels[i] <= b
  <2>1. m \in Good  BY <1>3
  <2>2. PICK b \in Nat : \A i \in 1 .. m : i <= m => levels[i] <= b  BY <2>1
  <2> QED  BY <2>2
<1>5. PICK S : S = LevelsOf(levels)  OBVIOUS
<1>6. S = {levels[i] : i \in 1 .. m}  BY <1>5 DEF LevelsOf
<1>7. S \in SUBSET Nat /\ S # {} /\ \A n \in S : n <= b  BY <1>4, <1>6
<1>8. Max(S) \in S /\ \A n \in S : n <= Max(S)  BY <1>7, MaxIs
<1> QED  BY <1>5, <1>6, <1>7, <1>8

\* Rounding up makes enough parts, and parts of at least one.
LEMMA RoundedUp ==
  ASSUME NEW a \in Nat \ {0}, NEW b \in Nat \ {0}
  PROVE  CeilDiv(a, b) \in Nat \ {0} /\ a <= CeilDiv(a, b) * b
<1>1. PICK k \in Nat : k = a + b - 1  OBVIOUS
<1>2. PICK q \in Nat, r \in Nat : q = k \div b /\ r = k % b /\ r < b /\ k = q * b + r  BY Divided
<1>3. CeilDiv(a, b) = q  BY <1>1, <1>2 DEF CeilDiv
<1>4. PICK p \in Nat : p = q * b  OBVIOUS
<1>5. a <= p  BY <1>1, <1>2, <1>4
<1>6. q # 0
  <2> SUFFICES ASSUME q = 0 PROVE FALSE  OBVIOUS
  <2>1. p = 0  BY <1>4
  <2> QED  BY <1>5, <2>1
<1> QED  BY <1>3, <1>4, <1>5, <1>6

\* The parts of a level: each of its components is in one of them.
Partition(M, parts) ==
  /\ parts \in [DOMAIN parts -> SUBSET M]
  /\ \A i \in M : \E v \in DOMAIN parts :
       i \in parts[v] /\ \A w \in DOMAIN parts \ {v} : i \notin parts[w]

Slices(levels, lv, per, subs, next) ==
  [v \in next .. (next + subs - 1) |-> Slice(levels, lv, per, v - next)]

\* The slices of a level: each of its components is in exactly one.
LEMMA SlicesPart ==
  ASSUME NEW m \in Nat, NEW levels, NEW lv, NEW per \in Nat \ {0}, NEW subs \in Nat, NEW next \in Nat,
         levels \in [1 .. m -> Nat], Cardinality(Members(levels, lv)) <= per * subs
  PROVE  Partition(Members(levels, lv), Slices(levels, lv, per, subs, next))
<1>1. PICK M : M = Members(levels, lv)  OBVIOUS
<1>2. PICK parts : parts = [v \in next .. (next + subs - 1) |-> Slice(levels, lv, per, v - next)]
  OBVIOUS
<1>3. DOMAIN parts = next .. (next + subs - 1)  BY <1>2
<1>4. \A v \in DOMAIN parts : parts[v] = Slice(levels, lv, per, v - next)  BY <1>2
<1>5. \A s : Slice(levels, lv, per, s) \subseteq M  BY <1>1 DEF Slice
<1>6. parts \in [DOMAIN parts -> SUBSET M]  BY <1>2, <1>4, <1>5
<1>7. ASSUME NEW i \in M
      PROVE  \E v \in DOMAIN parts : i \in parts[v] /\ \A w \in DOMAIN parts \ {v} : i \notin parts[w]
  <2>1. i \in 1 .. m /\ levels[i] = lv  BY <1>1, <1>7 DEF Members
  <2>2. PICK p \in Nat, count \in Nat :
          p = PlaceOf(levels, i) /\ count = Cardinality(M) /\ p < count
    BY <1>1, <2>1, PlacesDiffer
  <2>3. PICK q \in Nat, r \in Nat : q = p \div per /\ r = p % per /\ r < per /\ p = q * per + r
    BY Divided
  <2>4. \A s \in Nat : i \in Slice(levels, lv, per, s) <=> s * per <= p /\ p < (s + 1) * per
    <3> SUFFICES ASSUME NEW s \in Nat
                 PROVE  i \in Slice(levels, lv, per, s) <=> s * per <= p /\ p < (s + 1) * per
      OBVIOUS
    <3>1. PICK e \in Nat : e = (s + 1) * per  OBVIOUS
    <3>2. i \in Slice(levels, lv, per, s) <=> s * per <= p /\ p < Smaller(e, count)
      BY <1>1, <1>7, <2>2, <3>1 DEF Slice
    <3>3. p < Smaller(e, count) <=> p < e  BY <2>2 DEF Smaller
    <3> QED  BY <3>1, <3>2, <3>3
  <2>5. (q + 1) * per = q * per + per  OBVIOUS
  <2>6. PICK Q \in Nat : Q = q * per  OBVIOUS
  <2>7. q * per <= p /\ p < (q + 1) * per  BY <2>3, <2>5, <2>6
  <2>8. q < subs
    <3> SUFFICES ASSUME subs <= q PROVE FALSE  OBVIOUS
    <3>1. per * subs <= Q
      <4>1. CASE subs = q  BY <4>1, <2>6
      <4>2. CASE subs < q
        <5>1. subs * per + per <= q * per  BY <4>2, Spread
        <5>2. subs * per = per * subs /\ per * subs \in Nat  OBVIOUS
        <5> QED  BY <5>1, <5>2, <2>6
      <4> QED  BY <4>1, <4>2
    <3>2. PICK R \in Nat : R = per * subs  OBVIOUS
    <3>3. count <= R /\ R <= Q  BY <1>1, <2>2, <3>1, <3>2
    <3>4. p = Q + r  BY <2>3, <2>6
    <3> QED  BY <2>2, <3>3, <3>4
  <2>9. PICK v \in Nat : v = next + q  OBVIOUS
  <2>10. v \in DOMAIN parts /\ v - next = q  BY <1>3, <2>8, <2>9
  <2>11. i \in parts[v]  BY <1>4, <2>4, <2>7, <2>10
  <2>12. ASSUME NEW w \in DOMAIN parts \ {v} PROVE i \notin parts[w]
    <3>0. w \in next .. (next + subs - 1) /\ w # v  BY <1>3
    <3>1. PICK s \in Nat : s = w - next /\ s # q
      <4>1. w - next \in Nat /\ w - next # q  BY <2>9, <3>0
      <4> QED  BY <4>1
    <3>2. PICK T \in Nat : T = s * per  OBVIOUS
    <3>3. (s + 1) * per = T + per  BY <3>2
    <3>4. CASE s < q
      <4>1. T + per <= Q  BY <3>2, <3>4, <2>6, Spread
      <4>2. ~ (p < (s + 1) * per)  BY <3>3, <4>1, <2>3, <2>6
      <4> QED  BY <1>4, <2>4, <3>1, <4>2
    <3>5. CASE q < s
      <4>1. Q + per <= T  BY <3>2, <3>5, <2>6, Spread
      <4>2. ~ (s * per <= p)  BY <3>2, <4>1, <2>3, <2>6
      <4> QED  BY <1>4, <2>4, <3>1, <4>2
    <3> QED  BY <3>1, <3>4, <3>5
  <2> QED  BY <2>10, <2>11, <2>12
<1> QED  BY <1>1, <1>2, <1>6, <1>7 DEF Partition, Slices

\* A level is given rings of its own: its own number, or numbers not used yet.
Joined(map, part) ==
  [v \in DOMAIN map \cup DOMAIN part |-> IF v \in DOMAIN part THEN part[v] ELSE map[v]]

ExpandedTo(levels, t, lv, u) ==
  \E parts : /\ Partition(Members(levels, lv), parts) /\ DOMAIN parts \subseteq Nat
             /\ u.next \in Nat /\ t.next <= u.next
             /\ \A v \in DOMAIN parts : v < u.next /\ (v = lv \/ t.next <= v)
             /\ u = [next |-> u.next, map |-> Joined(t.map, parts)]

\* A level is given rings that no level before has, and that no level after will have.
LEMMA ExpandIs ==
  ASSUME NEW m \in Nat \ {0}, NEW levels, NEW ring, NEW t, NEW i \in 1 .. m,
         levels \in [1 .. m -> Nat], ring \in Rings, t.next \in Nat,
         Max(LevelsOf(levels)) < t.next
  PROVE  ExpandedTo(levels, t, levels[i], Expand(levels, ring, t, levels[i]))
<1>1. PICK top \in Nat : top = Max(LevelsOf(levels))  BY TopLevelIs
<1>2. PICK lv \in Nat : lv = levels[i] /\ lv <= top  BY <1>1, TopLevelIs
<1>3. PICK M : M = Members(levels, lv)  OBVIOUS
<1>4. i \in M  BY <1>2, <1>3 DEF Members
<1>5. PICK count \in Nat \ {0} : count = Cardinality(M)  BY <1>2, <1>3, PlacesDiffer
<1>6. PICK base \in Nat, dist \in Nat : base = ring.base /\ dist = ring.distance /\ base >= 100
  <2>1. ring.base \in 100 .. 2000 /\ ring.distance \in 50 .. 600  BY LayoutAssumption
  <2>2. PICK x : x = ring.base  OBVIOUS
  <2>2a. PICK y : y = ring.distance  OBVIOUS
  <2>2b. x \in 100 .. 2000 /\ y \in 50 .. 600  BY <2>1, <2>2, <2>2a
  <2>2c. x \in Nat /\ x >= 100 /\ y \in Nat  BY <2>2b
  <2>3. ring.base \in Nat /\ ring.base >= 100 /\ ring.distance \in Nat
    BY <2>2, <2>2a, <2>2c, Zenon
  <2> QED  BY <2>3, Zenon
<1>7. PICK radius \in Nat \ {0} : radius = Radius(ring, top, lv)
  <2>1. PICK x \in Nat : x = (top - lv) * dist
    <3>1. top - lv \in Nat  BY <1>2
    <3>2. (top - lv) * dist \in Nat  BY <3>1
    <3> QED  BY <3>2
  <2>2. Radius(ring, top, lv) = base + x  BY <1>6, <2>1 DEF Radius
  <2>3. base + x \in Nat \ {0}  BY <1>6
  <2> QED  BY <2>2, <2>3
<1>8. PICK u : u = Expand(levels, ring, t, lv)  OBVIOUS
<1>9. PICK next \in Nat : next = t.next  OBVIOUS
<1>10. CASE IsCrowded(count, radius)
  <2>1. PICK a \in Nat \ {0}, b \in Nat \ {0} : a = IdealArcLength * count * 113 /\ b = 710 * radius
    <3>1. IdealArcLength * count * 113 \in Nat \ {0} /\ 710 * radius \in Nat \ {0}  BY DEF IdealArcLength
    <3> QED  BY <3>1
  <2>2. PICK subs \in Nat \ {0} : subs = SubLayers(count, radius)
    <3>1. SubLayers(count, radius) = CeilDiv(a, b)  BY <2>1, Zenon DEF SubLayers
    <3>2. CeilDiv(a, b) \in Nat \ {0}  BY RoundedUp
    <3> QED  BY <3>1, <3>2
  <2>3. PICK per \in Nat \ {0} : per = CeilDiv(count, subs) /\ count <= per * subs  BY RoundedUp
  <2>4. PICK parts : parts = [v \in next .. (next + subs - 1) |-> Slice(levels, lv, per, v - next)]
    OBVIOUS
  <2>5. u = [next |-> next + subs, map |-> Joined(t.map, parts)]
    BY <1>1, <1>3, <1>5, <1>7, <1>8, <1>9, <1>10, <2>2, <2>3, <2>4 DEF Expand, Joined
  <2>6. Partition(M, parts)
    <3>1. Cardinality(Members(levels, lv)) <= per * subs  BY <1>3, <1>5, <2>3
    <3>2. parts = Slices(levels, lv, per, subs, next)  BY <2>4 DEF Slices
    <3>3. subs \in Nat  BY <2>2
    <3> QED  BY <1>3, <3>1, <3>2, <3>3, SlicesPart
  <2>7. DOMAIN parts = next .. (next + subs - 1)  BY <2>4
  <2>8. u.next = next + subs  BY <2>5
  <2>9. DOMAIN parts \subseteq Nat /\ \A v \in DOMAIN parts : v < u.next /\ (v = lv \/ t.next <= v)
    BY <1>9, <2>7, <2>8
  <2>10. u.next \in Nat /\ t.next <= u.next  BY <1>9, <2>8
  <2>11. u = [next |-> u.next, map |-> Joined(t.map, parts)]  BY <2>5, <2>8
  <2> QED  BY <1>2, <1>3, <1>8, <2>6, <2>9, <2>10, <2>11 DEF ExpandedTo
<1>11. CASE ~ IsCrowded(count, radius)
  <2>1. PICK parts : parts = [v \in {lv} |-> M]  OBVIOUS
  <2>2. u = [next |-> next, map |-> Joined(t.map, parts)]
    BY <1>1, <1>3, <1>5, <1>7, <1>8, <1>9, <1>11, <2>1 DEF Expand, Joined
  <2>3. DOMAIN parts = {lv} /\ parts[lv] = M  BY <2>1
  <2>4. Partition(M, parts)  BY <2>1, <2>3 DEF Partition
  <2>5. u.next = next  BY <2>2
  <2>6. DOMAIN parts \subseteq Nat /\ \A v \in DOMAIN parts : v < u.next /\ (v = lv \/ t.next <= v)
    BY <1>1, <1>2, <1>9, <2>3, <2>5
  <2>7. u.next \in Nat /\ t.next <= u.next  BY <1>9, <2>5
  <2>8. u = [next |-> u.next, map |-> Joined(t.map, parts)]  BY <2>2, <2>5
  <2> QED  BY <1>2, <1>3, <1>8, <2>4, <2>6, <2>7, <2>8 DEF ExpandedTo
<1> QED  BY <1>10, <1>11

\* A component is on exactly one ring.
OnOne(map, i) ==
  \E v \in DOMAIN map : i \in map[v] /\ \A w \in DOMAIN map \ {v} : i \notin map[w]

Maps(m) == UNION {[D -> SUBSET (1 .. m)] : D \in SUBSET Nat}

\* What is true when the levels of the first n components have their rings.
Seen(m, levels, n) == {i \in 1 .. m : \E j \in 1 .. m : j <= n /\ levels[j] = levels[i]}

RingsInv(m, levels, top, n, t) ==
  /\ t \in [next : Nat, map : Maps(m)] /\ top < t.next
  /\ \A v \in DOMAIN t.map :
       /\ v < t.next
       /\ v <= top => \E j \in 1 .. m : j <= n /\ levels[j] = v
       /\ \A i \in t.map[v] : v = levels[i] \/ top < v
  /\ \A i \in Seen(m, levels, n) : OnOne(t.map, i)
  /\ \A i \in (1 .. m) \ Seen(m, levels, n) : \A v \in DOMAIN t.map : i \notin t.map[v]

\* The rings filled so far, and what filling more of them does.
LEMMA MapIs ==
  ASSUME NEW m, NEW map, map \in Maps(m)
  PROVE  DOMAIN map \subseteq Nat /\ map \in [DOMAIN map -> SUBSET (1 .. m)]
  BY DEF Maps

IsJoined(m, M, map, part, new) ==
  /\ new \in Maps(m) /\ DOMAIN new = DOMAIN map \cup DOMAIN part
  /\ \A v \in DOMAIN part : new[v] = part[v] /\ part[v] \subseteq M
  /\ \A v \in DOMAIN map \ DOMAIN part : new[v] = map[v]

LEMMA JoinedIs ==
  ASSUME NEW m, NEW M, NEW map, NEW part, map \in Maps(m), Partition(M, part),
         M \subseteq 1 .. m, DOMAIN part \subseteq Nat
  PROVE  IsJoined(m, M, map, part, Joined(map, part))
<1>1. PICK u : u = Joined(map, part)  OBVIOUS
<1>2. u = [v \in DOMAIN map \cup DOMAIN part |-> IF v \in DOMAIN part THEN part[v] ELSE map[v]]
  BY <1>1 DEF Joined
<1>3. DOMAIN map \subseteq Nat /\ \A v \in DOMAIN map : map[v] \in SUBSET (1 .. m)  BY MapIs
<1>4. \A v \in DOMAIN part : part[v] \in SUBSET M  BY DEF Partition
<1>5. PICK D : D = DOMAIN map \cup DOMAIN part  OBVIOUS
<1>6. \A v \in D : u[v] \in SUBSET (1 .. m)  BY <1>2, <1>3, <1>4, <1>5
<1>7. u \in [D -> SUBSET (1 .. m)]  BY <1>2, <1>5, <1>6
<1>8. D \in SUBSET Nat  BY <1>3, <1>5
<1>9. u \in Maps(m)  BY <1>7, <1>8 DEF Maps
<1>10. DOMAIN u = D  BY <1>2, <1>5
<1>11. /\ \A v \in DOMAIN part : u[v] = part[v] /\ part[v] \subseteq M
       /\ \A v \in DOMAIN map \ DOMAIN part : u[v] = map[v]
  BY <1>2, <1>4
<1> QED  BY <1>1, <1>5, <1>9, <1>10, <1>11 DEF IsJoined

\* A level met again changes nothing.
LEMMA LevelAgain ==
  ASSUME NEW m \in Nat, NEW levels, NEW n \in Nat, levels \in [1 .. m -> Nat], n + 1 <= m,
         ~ IsFirst(levels, n + 1)
  PROVE  Seen(m, levels, n + 1) = Seen(m, levels, n)
<1>1. n + 1 \in 1 .. m /\ DOMAIN levels = 1 .. m  OBVIOUS
<1>2. PICK l \in 1 .. m : l < n + 1 /\ levels[l] = levels[n + 1]  BY <1>1 DEF IsFirst
<1>3. l <= n  BY <1>2
<1>4. ASSUME NEW i \in 1 .. m, NEW j \in 1 .. m, j <= n + 1, levels[j] = levels[i]
      PROVE  \E k \in 1 .. m : k <= n /\ levels[k] = levels[i]
  <2>1. CASE j = n + 1  BY <1>2, <1>3, <1>4, <2>1
  <2>2. CASE j <= n  BY <1>4, <2>2
  <2> QED  BY <1>4, <2>1, <2>2
<1>5. ASSUME NEW j \in 1 .. m, j <= n PROVE j <= n + 1  BY <1>5
<1> QED  BY <1>4, <1>5 DEF Seen

\* A new level is given rings nobody else is on.
LEMMA LevelFirst ==
  ASSUME NEW m \in Nat, NEW levels, NEW n \in Nat, NEW top \in Nat, NEW t, NEW u,
         levels \in [1 .. m -> Nat], n + 1 <= m, IsFirst(levels, n + 1),
         \A i \in 1 .. m : levels[i] <= top,
         RingsInv(m, levels, top, n, t), ExpandedTo(levels, t, levels[n + 1], u)
  PROVE  RingsInv(m, levels, top, n + 1, u)
<1>1. n + 1 \in 1 .. m /\ DOMAIN levels = 1 .. m  OBVIOUS
<1>2. PICK lv \in Nat : lv = levels[n + 1] /\ lv <= top  BY <1>1
<1>3. PICK M : M = Members(levels, lv)  OBVIOUS
<1>4. M = {i \in 1 .. m : levels[i] = lv}  BY <1>1, <1>3 DEF Members
<1>5. PICK S, SS : S = Seen(m, levels, n) /\ SS = Seen(m, levels, n + 1)  OBVIOUS
<1>6. SS = S \cup M
  <2>1. ASSUME NEW i \in SS, i \notin M PROVE i \in S
    <3>1. PICK j \in 1 .. m : i \in 1 .. m /\ j <= n + 1 /\ levels[j] = levels[i]  BY <1>5, <2>1 DEF Seen
    <3>2. j # n + 1  BY <1>2, <1>4, <2>1, <3>1
    <3>3. j <= n  BY <3>1, <3>2
    <3> QED  BY <1>5, <3>1, <3>3 DEF Seen
  <2>2. ASSUME NEW i \in S PROVE i \in SS
    <3>1. PICK j \in 1 .. m : i \in 1 .. m /\ j <= n /\ levels[j] = levels[i]  BY <1>5 DEF Seen
    <3>2. j <= n + 1  BY <3>1
    <3> QED  BY <1>5, <3>1, <3>2 DEF Seen
  <2>3. ASSUME NEW i \in M PROVE i \in SS
    <3>1. n + 1 <= n + 1  OBVIOUS
    <3> QED  BY <1>1, <1>2, <1>4, <1>5, <3>1 DEF Seen
  <2> QED  BY <2>1, <2>2, <2>3
<1>7. \A j \in 1 .. m : j <= n => levels[j] # lv
  <2> SUFFICES ASSUME NEW j \in 1 .. m, j <= n PROVE levels[j] # lv  OBVIOUS
  <2>1. j < n + 1  OBVIOUS
  <2> QED  BY <1>1, <1>2, <2>1 DEF IsFirst
<1>8. S \cap M = {}  BY <1>4, <1>5, <1>7 DEF Seen
<1>9. PICK map, next : map = t.map /\ next = t.next  OBVIOUS
<1>10. /\ next \in Nat /\ map \in Maps(m) /\ top < next
       /\ \A v \in DOMAIN map :
            /\ v < next
            /\ v <= top => \E j \in 1 .. m : j <= n /\ levels[j] = v
            /\ \A i \in map[v] : v = levels[i] \/ top < v
       /\ \A i \in S : OnOne(map, i)
       /\ \A i \in (1 .. m) \ S : \A v \in DOMAIN map : i \notin map[v]
  BY <1>5, <1>9 DEF RingsInv
<1>11. PICK parts : /\ Partition(M, parts) /\ DOMAIN parts \subseteq Nat
                    /\ u.next \in Nat /\ next <= u.next
                    /\ \A v \in DOMAIN parts : v < u.next /\ (v = lv \/ next <= v)
                    /\ u = [next |-> u.next, map |-> Joined(map, parts)]
  BY <1>2, <1>3, <1>9 DEF ExpandedTo
<1>12. PICK new : new = Joined(map, parts) /\ new = u.map
  <2>1. u.map = Joined(map, parts)  BY <1>11
  <2> QED  BY <2>1
<1>13. M \subseteq 1 .. m  BY <1>4
<1>14. /\ new \in Maps(m) /\ DOMAIN new = DOMAIN map \cup DOMAIN parts
       /\ \A v \in DOMAIN parts : new[v] = parts[v] /\ parts[v] \subseteq M
       /\ \A v \in DOMAIN map \ DOMAIN parts : new[v] = map[v]
  <2>1. map \in Maps(m) /\ Partition(M, parts) /\ DOMAIN parts \subseteq Nat  BY <1>10, <1>11
  <2>2. IsJoined(m, M, map, parts, Joined(map, parts))  BY <1>13, <2>1, JoinedIs, Zenon
  <2> QED  BY <1>12, <2>2 DEF IsJoined
<1>15. DOMAIN map \subseteq Nat  BY <1>10, MapIs
<1>16. \A v \in DOMAIN parts : v \notin DOMAIN map
  <2> SUFFICES ASSUME NEW v \in DOMAIN parts, v \in DOMAIN map PROVE FALSE  OBVIOUS
  <2>1. v \in Nat /\ v < next  BY <1>10, <1>15
  <2>2. v = lv  BY <1>10, <1>11, <2>1
  <2> QED  BY <1>2, <1>7, <1>10, <2>2
<1>17. u \in [next : Nat, map : Maps(m)] /\ top < u.next  BY <1>2, <1>10, <1>11, <1>12, <1>14
<1>18. ASSUME NEW v \in DOMAIN new
       PROVE  /\ v < u.next
              /\ v <= top => \E j \in 1 .. m : j <= n + 1 /\ levels[j] = v
              /\ \A i \in new[v] : v = levels[i] \/ top < v
  <2>1. CASE v \in DOMAIN parts
    <3>1. v \in Nat /\ v < u.next /\ (v = lv \/ next <= v)  BY <1>11, <2>1
    <3>2. v <= top => v = lv  BY <1>10, <3>1
    <3>3. v = lv => \E j \in 1 .. m : j <= n + 1 /\ levels[j] = v
      <4>1. n + 1 <= n + 1  OBVIOUS
      <4> QED  BY <1>1, <1>2, <4>1
    <3>4. \A i \in new[v] : levels[i] = lv  BY <1>4, <1>14, <2>1
    <3>5. \A i \in new[v] : v = levels[i] \/ top < v  BY <1>2, <1>10, <3>1, <3>4
    <3> QED  BY <3>1, <3>2, <3>3, <3>5
  <2>2. CASE v \in DOMAIN map /\ v \notin DOMAIN parts
    <3>1. v \in Nat /\ v < next /\ new[v] = map[v]  BY <1>10, <1>14, <1>15, <2>2
    <3>2. v < u.next  BY <1>10, <1>11, <3>1
    <3>3. ASSUME v <= top PROVE \E j \in 1 .. m : j <= n + 1 /\ levels[j] = v
      <4>1. PICK j \in 1 .. m : j <= n /\ levels[j] = v  BY <1>10, <2>2, <3>3
      <4>2. j <= n + 1  BY <4>1
      <4> QED  BY <4>1, <4>2
    <3> QED  BY <1>10, <2>2, <3>1, <3>2, <3>3
  <2> QED  BY <1>14, <2>1, <2>2
<1>19. ASSUME NEW i \in SS PROVE OnOne(new, i)
  <2>1. CASE i \in M
    <3>1. PICK v \in DOMAIN parts : i \in parts[v] /\ \A w \in DOMAIN parts \ {v} : i \notin parts[w]
      BY <1>11, <2>1 DEF Partition
    <3>2. i \in new[v] /\ v \in DOMAIN new  BY <1>14, <3>1
    <3>3. ASSUME NEW w \in DOMAIN new \ {v} PROVE i \notin new[w]
      <4>1. CASE w \in DOMAIN parts  BY <1>14, <3>1, <3>3, <4>1
      <4>2. CASE w \in DOMAIN map /\ w \notin DOMAIN parts
        <5>1. i \in (1 .. m) \ S  BY <1>8, <1>13, <2>1
        <5> QED  BY <1>10, <1>14, <4>2, <5>1
      <4> QED  BY <1>14, <4>1, <4>2
    <3> QED  BY <3>2, <3>3 DEF OnOne
  <2>2. CASE i \in S
    <3>1. PICK v \in DOMAIN map : i \in map[v] /\ \A w \in DOMAIN map \ {v} : i \notin map[w]
      BY <1>10, <2>2 DEF OnOne
    <3>2. i \in new[v] /\ v \in DOMAIN new  BY <1>14, <1>16, <3>1
    <3>3. ASSUME NEW w \in DOMAIN new \ {v} PROVE i \notin new[w]
      <4>1. CASE w \in DOMAIN parts
        <5>1. new[w] \subseteq M  BY <1>14, <4>1
        <5> QED  BY <1>8, <2>2, <5>1
      <4>2. CASE w \in DOMAIN map /\ w \notin DOMAIN parts  BY <1>14, <3>1, <3>3, <4>2
      <4> QED  BY <1>14, <4>1, <4>2
    <3> QED  BY <3>2, <3>3 DEF OnOne
  <2> QED  BY <1>6, <2>1, <2>2
<1>20. ASSUME NEW i \in (1 .. m) \ SS, NEW v \in DOMAIN new PROVE i \notin new[v]
  <2>1. i \in (1 .. m) \ S /\ i \notin M  BY <1>6
  <2>2. CASE v \in DOMAIN parts  BY <1>14, <2>1, <2>2
  <2>3. CASE v \in DOMAIN map /\ v \notin DOMAIN parts  BY <1>10, <1>14, <2>1, <2>3
  <2> QED  BY <1>14, <2>2, <2>3
<1> QED  BY <1>5, <1>12, <1>17, <1>18, <1>19, <1>20 DEF RingsInv

\* Expanding a level keeps the type, and the next free ring is virtual.
LEMMA ExpandedStays ==
  ASSUME NEW m \in Nat, NEW levels, NEW lv, NEW top \in Nat, NEW t, NEW u,
         levels \in [1 .. m -> Nat], t \in [next : Nat, map : Maps(m)], top < t.next,
         ExpandedTo(levels, t, lv, u)
  PROVE  u \in [next : Nat, map : Maps(m)] /\ top < u.next
<1>1. PICK M : M = Members(levels, lv)  OBVIOUS
<1>2. M \subseteq 1 .. m  BY <1>1 DEF Members
<1>3. PICK parts : /\ Partition(M, parts) /\ DOMAIN parts \subseteq Nat
                   /\ u.next \in Nat /\ t.next <= u.next
                   /\ u = [next |-> u.next, map |-> Joined(t.map, parts)]
  BY <1>1 DEF ExpandedTo
<1>4. PICK map : map = t.map  OBVIOUS
<1>5. map \in Maps(m)  BY <1>4
<1>6. Partition(M, parts) /\ DOMAIN parts \subseteq Nat  BY <1>3
<1>7. IsJoined(m, M, map, parts, Joined(map, parts))  BY <1>2, <1>5, <1>6, JoinedIs, Zenon
<1>8. Joined(map, parts) \in Maps(m)  BY <1>7 DEF IsJoined
<1>9. u \in [next : Nat, map : Maps(m)]  BY <1>3, <1>4, <1>8
<1>10. PICK a \in Nat, b \in Nat : a = t.next /\ b = u.next  BY <1>3
<1>11. top < b  BY <1>3, <1>10
<1> QED  BY <1>9, <1>10, <1>11

\* What expandLevels returns: every component on one ring, its level's own or one numbered
\* after all levels.
RingsAre(levels, top, rings) ==
  \E next : RingsInv(Len(levels), levels, top, Len(levels), [next |-> next, map |-> rings])

\* All levels are expanded: every component is on exactly one ring.
LEMMA RingsIs ==
  ASSUME NEW m \in Nat \ {0}, NEW levels, NEW ring, levels \in [1 .. m -> Nat], ring \in Rings
  PROVE  RingsAre(levels, Max(LevelsOf(levels)), ExpandLevels(levels, ring))
<1>1. PICK top \in Nat : top = Max(LevelsOf(levels)) /\ \A i \in 1 .. m : levels[i] <= top
  BY TopLevelIs
<1>2. Len(levels) = m /\ DOMAIN levels = 1 .. m
  <2>1. levels \in Seq(Nat)  OBVIOUS
  <2> QED  BY <2>1
<1>3. PICK first : first = [next |-> FirstVirtualLevel(top), map |-> << >>]  OBVIOUS
<1> DEFINE Body(f) == [i \in 0 .. Len(levels) |->
              IF i = 0 THEN [next |-> FirstVirtualLevel(Max(LevelsOf(levels))), map |-> << >>]
              ELSE IF IsFirst(levels, i) THEN Expand(levels, ring, f[i - 1], levels[i])
              ELSE f[i - 1]]
           upTo == CHOOSE f : f = Body(f)
<1>4. PICK X : X = {t \in [next : Nat, map : Maps(m)] : top < t.next}  OBVIOUS
<1>5. RingsInv(m, levels, top, 0, first) /\ first \in X
  <2>1. << >> \in Maps(m) /\ DOMAIN << >> = {}
    <3>1. << >> \in [{} -> SUBSET (1 .. m)]  OBVIOUS
    <3>2. {} \in SUBSET Nat  OBVIOUS
    <3> QED  BY <3>1, <3>2 DEF Maps
  <2>2. first.next = top + 1 /\ first.map = << >> /\ top + 1 \in Nat  BY <1>3 DEF FirstVirtualLevel
  <2>3. first \in [next : Nat, map : Maps(m)] /\ top < first.next  BY <1>3, <2>1, <2>2
  <2>4. Seen(m, levels, 0) = {}
    <3>1. \A j \in 1 .. m : ~ (j <= 0)  OBVIOUS
    <3> QED  BY <3>1 DEF Seen
  <2>5. RingsInv(m, levels, top, 0, first)  BY <2>1, <2>2, <2>3, <2>4 DEF RingsInv
  <2> QED  BY <1>4, <2>3, <2>5
<1>6. ASSUME NEW t \in X, NEW i \in 1 .. m
      PROVE  /\ ExpandedTo(levels, t, levels[i], Expand(levels, ring, t, levels[i]))
             /\ Expand(levels, ring, t, levels[i]) \in X
  <2>1. t \in [next : Nat, map : Maps(m)] /\ top < t.next /\ t.next \in Nat  BY <1>4
  <2>2. ExpandedTo(levels, t, levels[i], Expand(levels, ring, t, levels[i]))
    BY <1>1, <2>1, ExpandIs
  <2>3. PICK u : u = Expand(levels, ring, t, levels[i])  OBVIOUS
  <2>4. u \in [next : Nat, map : Maps(m)] /\ top < u.next  BY <2>1, <2>2, <2>3, ExpandedStays
  <2> QED  BY <1>4, <2>2, <2>3, <2>4
<1> DEFINE Step(n, t) ==
      IF n + 1 \in 1 .. m /\ IsFirst(levels, n + 1) THEN Expand(levels, ring, t, levels[n + 1]) ELSE t
<1>7. PICK step \in [Nat \X X -> X] : \A n \in Nat, t \in X : step[<<n, t>>] = Step(n, t)
  <2> DEFINE s == [a \in Nat \X X |-> Step(a[1], a[2])]
  <2>1. \A n \in Nat, t \in X : Step(n, t) \in X  BY <1>6
  <2> HIDE DEF Step
  <2>2. s \in [Nat \X X -> X]  BY <2>1
  <2>3. \A n \in Nat, t \in X : s[<<n, t>>] = Step(n, t)  OBVIOUS
  <2> HIDE DEF s
  <2> QED  BY <2>2, <2>3
<1>8. PICK f : Goes(f, first, step, X)  BY <1>5, Iterates, Zenon
<1>9. f \in [Nat -> X] /\ f[0] = first /\ \A n \in Nat : f[n + 1] = step[<<n, f[n]>>]
  BY <1>8 DEF Goes
<1>10. PICK g : g = [i \in 0 .. m |-> f[i]]  OBVIOUS
<1>11. g = Body(g)
  <2>1. \A i \in 0 .. m : g[i] = IF i = 0 THEN first
                               ELSE IF IsFirst(levels, i) THEN Expand(levels, ring, g[i - 1], levels[i])
                               ELSE g[i - 1]
    <3> SUFFICES ASSUME NEW i \in 0 .. m
                 PROVE  g[i] = IF i = 0 THEN first
                               ELSE IF IsFirst(levels, i) THEN Expand(levels, ring, g[i - 1], levels[i])
                               ELSE g[i - 1]
      OBVIOUS
    <3>1. CASE i = 0  BY <3>1, <1>9, <1>10
    <3>2. CASE i # 0
      <4>1. PICK n \in Nat : n = i - 1 /\ n + 1 = i /\ n \in 0 .. m /\ n + 1 \in 1 .. m  BY <3>2
      <4>2. g[i] = f[n + 1] /\ g[n] = f[n] /\ f[n] \in X  BY <1>9, <1>10, <4>1
      <4>3. f[n + 1] = Step(n, f[n])
        <5> HIDE DEF Step
        <5> QED  BY <1>7, <1>9, <4>2
      <4> QED  BY <3>2, <4>1, <4>2, <4>3
    <3> QED  BY <3>1, <3>2
  <2> QED  BY <1>1, <1>2, <1>3, <1>10, <2>1
<1>12. upTo = Body(upTo)
  <2> HIDE DEF Body
  <2> QED  BY <1>11, Zenon
<1>13. ExpandLevels(levels, ring) = upTo[Len(levels)].map  BY Zenon DEF ExpandLevels
<1> HIDE DEF upTo
<1>14. upTo[0] = first  BY <1>1, <1>2, <1>3, <1>12
<1>15. ASSUME NEW n \in Nat, n + 1 <= m
       PROVE  upTo[n + 1] = IF IsFirst(levels, n + 1) THEN Expand(levels, ring, upTo[n], levels[n + 1])
                            ELSE upTo[n]
  <2>1. n + 1 \in 0 .. m /\ (n + 1) - 1 = n /\ n + 1 # 0  BY <1>15
  <2>2. upTo[n + 1] = IF n + 1 = 0 THEN [next |-> FirstVirtualLevel(Max(LevelsOf(levels))), map |-> << >>]
                      ELSE IF IsFirst(levels, n + 1)
                             THEN Expand(levels, ring, upTo[(n + 1) - 1], levels[n + 1])
                      ELSE upTo[(n + 1) - 1]
    BY <1>2, <1>12, <2>1
  <2> QED  BY <2>1, <2>2
<1> DEFINE Good == {n \in Nat : n <= m => RingsInv(m, levels, top, n, upTo[n])}
<1>16. 0 \in Good  BY <1>5, <1>14
<1>17. ASSUME NEW n \in Nat, n \in Good PROVE n + 1 \in Good
  <2> SUFFICES ASSUME n + 1 <= m PROVE RingsInv(m, levels, top, n + 1, upTo[n + 1])  OBVIOUS
  <2>1. n <= m  OBVIOUS
  <2>2. PICK t : t = upTo[n]  OBVIOUS
  <2>3. RingsInv(m, levels, top, n, t)  BY <1>17, <2>1, <2>2
  <2>4. t \in X  BY <1>4, <2>3 DEF RingsInv
  <2>5. CASE IsFirst(levels, n + 1)
    <3>1. PICK u : u = upTo[n + 1] /\ u = Expand(levels, ring, t, levels[n + 1])  BY <1>15, <2>2, <2>5
    <3>2. n + 1 \in 1 .. m  OBVIOUS
    <3>3. ExpandedTo(levels, t, levels[n + 1], u)  BY <1>6, <2>4, <3>1, <3>2
    <3> QED  BY <1>1, <2>3, <2>5, <3>1, <3>3, LevelFirst
  <2>6. CASE ~ IsFirst(levels, n + 1)
    <3>1. upTo[n + 1] = t  BY <1>15, <2>2, <2>6
    <3>2. Seen(m, levels, n + 1) = Seen(m, levels, n)  BY <2>6, LevelAgain
    <3>3. \A j \in 1 .. m : j <= n => j <= n + 1  OBVIOUS
    <3>4. \A v \in DOMAIN t.map : v <= top => \E j \in 1 .. m : j <= n + 1 /\ levels[j] = v
      BY <2>3, <3>3 DEF RingsInv
    <3>5. RingsInv(m, levels, top, n + 1, t)  BY <2>3, <3>2, <3>4, Zenon DEF RingsInv
    <3> QED  BY <3>1, <3>5
  <2> QED  BY <2>5, <2>6
<1>18. \A n \in Nat : n \in Good
  <2> HIDE DEF Good
  <2> QED  BY <1>16, <1>17, AllNumbers
<1>19. PICK t : t = upTo[m]  OBVIOUS
<1>20. RingsInv(m, levels, top, m, t)
  <2>1. m \in Good /\ m <= m  BY <1>18
  <2> QED  BY <1>19, <2>1
<1>21. t = [next |-> t.next, map |-> t.map]  BY <1>20 DEF RingsInv
<1>22. ExpandLevels(levels, ring) = t.map  BY <1>2, <1>13, <1>19
<1> QED  BY <1>1, <1>2, <1>20, <1>21, <1>22 DEF RingsAre

\* What the rings promise of a graph, at a setting of the radii.
Holds(calls, made) ==
  /\ \A i \in DOMAIN made.sccs : OnOne(made.rings, i)
  /\ \A k \in DOMAIN calls : Ends(calls[k]) \subseteq OnBoard =>
       ((/\ SccOf(made.sccs, calls[k][1]) # SccOf(made.sccs, calls[k][2])
         /\ made.levels[SccOf(made.sccs, calls[k][1])] \in DOMAIN made.rings)
        => \E m \in DOMAIN made.rings :
             /\ SccOf(made.sccs, calls[k][2]) \in made.rings[m]
             /\ made.radii[m] < made.radii[made.levels[SccOf(made.sccs, calls[k][1])]])

\* A ring of a higher number is nearer to the centre.
LEMMA RadiiShrink ==
  ASSUME NEW ring, NEW last \in Nat, NEW v \in Nat, NEW w \in Nat, ring \in Rings,
         v < w, w <= last
  PROVE  Radius(ring, last, w) < Radius(ring, last, v)
<1>1. PICK base, dist : base = ring.base /\ dist = ring.distance  OBVIOUS
<1>2. base \in 100 .. 2000 /\ dist \in 50 .. 600  BY <1>1, LayoutAssumption
<1>3. base \in Nat /\ dist \in Nat /\ dist > 0  BY <1>2
<1>4. PICK a \in Nat, b \in Nat : a = last - w /\ b = last - v /\ a < b
  <2>1. last - w \in Nat /\ last - v \in Nat /\ last - w < last - v  OBVIOUS
  <2> QED  BY <2>1
<1>5. a * dist + dist <= b * dist  BY <1>3, <1>4, Spread
<1>6. PICK x \in Nat, y \in Nat : x = a * dist /\ y = b * dist
  <2>1. a * dist \in Nat /\ b * dist \in Nat  BY <1>3
  <2> QED  BY <2>1
<1>7. Radius(ring, last, w) = base + x /\ Radius(ring, last, v) = base + y
  BY <1>1, <1>4, <1>6 DEF Radius
<1>8. base + x < base + y  BY <1>3, <1>5, <1>6
<1> QED  BY <1>7, <1>8

\* The rings of any graph hold all of its components, callers of a level not split outside.
LEMMA RingsHold ==
  ASSUME NEW calls, NEW ring, calls \in Seq(GraphCalls), ring \in Rings
  PROVE  Holds(calls, ComputeCircularLayout(calls, ring))
<1>1. PICK sccs : sccs = ComputeSCCs(calls)  OBVIOUS
<1>2. SccsAre(calls, sccs)  BY <1>1, SccsIs
<1>3. PICK levels : levels = AssignLevels(sccs, calls)  OBVIOUS
<1>4. LevelsAre(calls, sccs, levels)  BY <1>2, <1>3, LevelsIs
<1>5. PICK m \in Nat : m = Len(sccs) /\ DOMAIN sccs = 1 .. m  BY <1>2 DEF SccsAre
<1>6. levels \in [1 .. m -> Nat]  BY <1>4, <1>5 DEF LevelsAre
<1>7. PICK made : made = ComputeCircularLayout(calls, ring)  OBVIOUS
<1>8. PICK rings : rings = ExpandLevels(levels, ring)  OBVIOUS
<1>9. /\ made.sccs = sccs /\ made.levels = levels /\ made.rings = rings
      /\ made.radii = [lv \in DOMAIN rings |-> Radius(ring, Max(DOMAIN rings), lv)]
  BY <1>1, <1>3, <1>7, <1>8 DEF ComputeCircularLayout
<1>10. \A k \in DOMAIN calls : Ends(calls[k]) \subseteq OnBoard =>
         SccOf(sccs, calls[k][1]) \in 1 .. m /\ SccOf(sccs, calls[k][2]) \in 1 .. m
  <2> SUFFICES ASSUME NEW k \in DOMAIN calls, Ends(calls[k]) \subseteq OnBoard
               PROVE  SccOf(sccs, calls[k][1]) \in 1 .. m /\ SccOf(sccs, calls[k][2]) \in 1 .. m
    OBVIOUS
  <2>1. calls[k][1] \in OnBoard /\ calls[k][2] \in OnBoard  BY DEF Ends
  <2> QED  BY <1>2, <1>5, <2>1, SccOfIs
<1>11. CASE m = 0
  <2>1. 1 .. m = {}  BY <1>11
  <2> QED  BY <1>5, <1>7, <1>9, <1>10, <2>1 DEF Holds
<1>12. CASE m # 0
  <2>1. m \in Nat \ {0}  BY <1>12
  <2>2. PICK top \in Nat : top = Max(LevelsOf(levels)) /\ \A i \in 1 .. m : levels[i] <= top
    BY <1>6, <2>1, TopLevelIs
  <2>3. RingsAre(levels, top, rings)  BY <1>6, <1>8, <2>1, <2>2, RingsIs
  <2>4. Len(levels) = m
    <3>1. levels \in Seq(Nat)  BY <1>6
    <3> QED  BY <1>6, <3>1
  <2>5. PICK next : RingsInv(m, levels, top, m, [next |-> next, map |-> rings])
    BY <2>3, <2>4 DEF RingsAre
  <2>6. Seen(m, levels, m) = 1 .. m
    <3>1. \A i \in 1 .. m : i <= m  OBVIOUS
    <3> QED  BY <3>1 DEF Seen
  <2>7. /\ rings \in Maps(m) /\ next \in Nat /\ top < next
        /\ \A v \in DOMAIN rings : v < next /\ \A i \in rings[v] : v = levels[i] \/ top < v
        /\ \A i \in 1 .. m : OnOne(rings, i)
    BY <2>5, <2>6 DEF RingsInv
  <2>8. DOMAIN rings \subseteq Nat  BY <2>7, MapIs
  <2>9. \A i \in DOMAIN made.sccs : OnOne(made.rings, i)  BY <1>5, <1>9, <2>7
  <2>10. ASSUME NEW k \in DOMAIN calls, Ends(calls[k]) \subseteq OnBoard,
                NEW i, NEW j, i = SccOf(sccs, calls[k][1]), j = SccOf(sccs, calls[k][2]), i # j,
                levels[i] \in DOMAIN rings
         PROVE  \E v \in DOMAIN rings : j \in rings[v] /\ made.radii[v] < made.radii[levels[i]]
    <3>1. i \in 1 .. m /\ j \in 1 .. m  BY <1>10, <2>10
    <3>2. PICK v \in DOMAIN rings : j \in rings[v]  BY <2>7, <3>1 DEF OnOne
    <3>3. levels[i] < levels[j]  BY <1>4, <2>10 DEF LevelsAre
    <3>4. PICK a \in Nat, b \in Nat : a = levels[i] /\ b = levels[j] /\ a <= top /\ b <= top
      BY <1>6, <2>2, <3>1
    <3>5. v \in Nat /\ v < next /\ (v = b \/ top < v)  BY <2>7, <2>8, <3>2, <3>4
    <3>6. a < v  BY <3>3, <3>4, <3>5
    <3>7. PICK D : D = DOMAIN rings  OBVIOUS
    <3>8. D \in SUBSET Nat /\ D # {} /\ \A n \in D : n <= next
      <4>1. \A n \in D : n \in Nat /\ n < next  BY <2>7, <2>8, <3>7
      <4>2. \A n \in D : n <= next  BY <2>7, <4>1
      <4> QED  BY <2>8, <3>2, <3>7, <4>2
    <3>9. Max(D) \in D /\ \A n \in D : n <= Max(D)  BY <2>7, <3>8, MaxIs
    <3>10. PICK last \in Nat : last = Max(D) /\ v <= last  BY <3>2, <3>7, <3>8, <3>9
    <3>11. Radius(ring, last, v) < Radius(ring, last, a)  BY <3>5, <3>6, <3>10, RadiiShrink
    <3>12. made.radii[v] = Radius(ring, last, v) /\ made.radii[a] = Radius(ring, last, a)
      BY <1>9, <2>10, <3>2, <3>4, <3>7, <3>10
    <3> QED  BY <3>2, <3>4, <3>11, <3>12
  <2>11. ASSUME NEW k \in DOMAIN calls, Ends(calls[k]) \subseteq OnBoard,
                SccOf(made.sccs, calls[k][1]) # SccOf(made.sccs, calls[k][2]),
                made.levels[SccOf(made.sccs, calls[k][1])] \in DOMAIN made.rings
         PROVE  \E v \in DOMAIN made.rings :
                  /\ SccOf(made.sccs, calls[k][2]) \in made.rings[v]
                  /\ made.radii[v] < made.radii[made.levels[SccOf(made.sccs, calls[k][1])]]
    <3>1. PICK i, j : i = SccOf(sccs, calls[k][1]) /\ j = SccOf(sccs, calls[k][2])  OBVIOUS
    <3>2. i # j /\ levels[i] \in DOMAIN rings  BY <1>9, <2>11, <3>1
    <3>3. \E v \in DOMAIN rings : j \in rings[v] /\ made.radii[v] < made.radii[levels[i]]
      BY <2>10, <2>11, <3>1, <3>2
    <3> QED  BY <1>9, <3>1, <3>3
  <2> QED  BY <1>7, <2>9, <2>11 DEF Holds
<1> QED  BY <1>11, <1>12

-----------------------------------------------------------------------------
\* What every state of the layout panel has: a graph, and what a layout made of it.
LayoutInv ==
  /\ callGraph \in Seq(GraphCalls)
  /\ \/ placed = Unplaced
     \/ \E gap \in Gaps : placed = ComputeLayout(callGraph, gap)
     \/ \E ring \in Rings : placed = ComputeCircularLayout(callGraph, ring)

\* Each step keeps it: a new call puts the board back to no layout.
LEMMA LayoutInductive ==
  ASSUME LayoutInv, [LayoutNext]_layoutVars
  PROVE  LayoutInv'
<1>1. CASE \E e \in GraphCalls : AddCall(e)
  <2>1. PICK e \in GraphCalls : AddCall(e)  BY <1>1
  <2>2. callGraph' = Append(callGraph, e) /\ placed' = Unplaced  BY <2>1 DEF AddCall
  <2>3. callGraph' \in Seq(GraphCalls)  BY <2>2 DEF LayoutInv
  <2> QED  BY <2>2, <2>3 DEF LayoutInv, Unplaced
<1>2. CASE \E gap \in Gaps : ArrangeInGrid(gap)
  <2>1. PICK gap \in Gaps : ArrangeInGrid(gap)  BY <1>2
  <2>2. callGraph' = callGraph /\ placed' = ComputeLayout(callGraph, gap)  BY <2>1 DEF ArrangeInGrid
  <2>3. placed' = ComputeLayout(callGraph', gap)  BY <2>2
  <2> QED  BY <2>2, <2>3 DEF LayoutInv
<1>3. CASE \E ring \in Rings : ArrangeInRings(ring)
  <2>1. PICK ring \in Rings : ArrangeInRings(ring)  BY <1>3
  <2>2. callGraph' = callGraph /\ placed' = ComputeCircularLayout(callGraph, ring)
    BY <2>1 DEF ArrangeInRings
  <2>3. placed' = ComputeCircularLayout(callGraph', ring)  BY <2>2
  <2> QED  BY <2>2, <2>3 DEF LayoutInv
<1>4. CASE UNCHANGED layoutVars
  <2>1. callGraph' = callGraph /\ placed' = placed  BY <1>4 DEF layoutVars
  <2> QED  BY <2>1 DEF LayoutInv, Unplaced
<1> QED  BY <1>1, <1>2, <1>3, <1>4 DEF LayoutNext

\* In every state the layout is one of the calls the graph has now.
LEMMA LayoutInvariant == LayoutSpec => []LayoutInv
<1>1. LayoutInit => LayoutInv  BY DEF LayoutInit, LayoutInv
<1>2. LayoutInv /\ [LayoutNext]_layoutVars => LayoutInv'  BY LayoutInductive
<1> QED  BY <1>1, <1>2, PTL DEF LayoutSpec

\* buildSccEdgeIds marks a call between two functions exactly when it is on a cycle: its
\* callee leads back to its caller.  Whatever the board and the calls, the stack, the numbers
\* and the low links of strongConnect find the components of the graph.
THEOREM CyclesAreMarked == LayoutSpec => []CycleCallsAreMarked
<1>1. LayoutInv => CycleCallsAreMarked
  <2> SUFFICES ASSUME LayoutInv, NEW k \in DOMAIN callGraph, callGraph[k][1] # callGraph[k][2]
               PROVE  k \in BuildSccEdgeIds(callGraph)
                        <=> /\ Ends(callGraph[k]) \subseteq OnBoard
                            /\ LeadsTo(callGraph, callGraph[k][2], callGraph[k][1])
    BY DEF CycleCallsAreMarked
  <2>1. PICK calls : calls = callGraph  OBVIOUS
  <2>2. calls \in Seq(GraphCalls)  BY <2>1 DEF LayoutInv
  <2>3. k \in BuildSccEdgeIds(calls)
          <=> Ends(calls[k]) \subseteq OnBoard /\ LeadsTo(calls, calls[k][2], calls[k][1])
    BY <2>1, <2>2, MarkedIs
  <2> QED  BY <2>1, <2>3
<1> QED  BY <1>1, LayoutInvariant, PTL

\* computeLayout never puts two components on each other, and puts a component to the
\* left of every other one that it calls, with the gap of the panel between, whatever the
\* graph, its components, the gap and the jitter.
THEOREM GridStaysReadable == LayoutSpec => []GridIsReadable
<1>1. LayoutInv => GridIsReadable
  <2> SUFFICES ASSUME LayoutInv, placed.mode = "grid"
               PROVE  GridIsReadable
    BY DEF GridIsReadable
  <2>1. PICK calls, made : calls = callGraph /\ made = placed  OBVIOUS
  <2>2. calls \in Seq(GraphCalls)  BY <2>1 DEF LayoutInv
  <2>3. made # Unplaced /\ \A ring \in Rings : made # ComputeCircularLayout(calls, ring)
    BY <2>1 DEF Unplaced, ComputeCircularLayout
  <2>4. PICK gap \in Gaps : made = ComputeLayout(calls, gap)  BY <2>1, <2>3 DEF LayoutInv
  <2>5. Reads(calls, made)  BY <2>2, <2>4, GridReads
  <2> QED  BY <2>1, <2>5 DEF GridIsReadable, Reads, ColumnLeft
<1> QED  BY <1>1, LayoutInvariant, PTL

\* computeCircularLayout puts every component on exactly one ring, however crowded
\* levels are split over virtual rings, and a component of a level that was not split stands
\* on a wider ring than every other one it calls.
THEOREM RingsKeepAll == LayoutSpec => []RingsHoldAll
<1>1. LayoutInv => RingsHoldAll
  <2> SUFFICES ASSUME LayoutInv, placed.mode = "circular"
               PROVE  RingsHoldAll
    BY DEF RingsHoldAll
  <2>1. PICK calls, made : calls = callGraph /\ made = placed  OBVIOUS
  <2>2. calls \in Seq(GraphCalls)  BY <2>1 DEF LayoutInv
  <2>3. made # Unplaced /\ \A gap \in Gaps : made # ComputeLayout(calls, gap)
    BY <2>1 DEF Unplaced, ComputeLayout
  <2>4. PICK ring \in Rings : made = ComputeCircularLayout(calls, ring)  BY <2>1, <2>3 DEF LayoutInv
  <2>5. Holds(calls, made)  BY <2>2, <2>4, RingsHold
  <2> QED  BY <2>1, <2>5 DEF RingsHoldAll, Holds, OnOne
<1> QED  BY <1>1, LayoutInvariant, PTL
=============================================================================
