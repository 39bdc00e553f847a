-------------------------- MODULE CodeViewer_proofs --------------------------
(***************************************************************************)
(* For any board, any files, any lines of code and any number of windows:  *)
(* a file is open in one place only, and a line typed into the text of a   *)
(* file lands in the function it was typed into.                           *)
(*                                                                         *)
(* The first needs that no tab is in two windows and that the next window  *)
(* has a number of its own (OpenOnce).  The second is about a text put     *)
(* together and taken apart, and rests on what a state holds (TextInv: a   *)
(* function is on the board once, and its code has no empty line at the    *)
(* end).  The way there: where the lines of each function are in the text  *)
(* (Laid), that its headers are found there again (FileHeaders), what a    *)
(* line more or less does under each header (UnderInserted, UnderRemoved), *)
(* what the person meant by it (MeantIs), and that both are one.           *)
(*                                                                         *)
(* Sequences laid end to end are defined by recursion (FlattenSeq), and    *)
(* what holds of them is proved from the least number for which it fails   *)
(* (Least, AllNumbers).                                                    *)
(***************************************************************************)
EXTENDS CodeViewer, Integers, FiniteSetTheorems, TLAPS

-----------------------------------------------------------------------------
\* Induction, as a fact about sets: every set of numbers has a least one.
LEMMA Least ==
  ASSUME NEW S \in SUBSET Nat, S # {}
  PROVE  \E n \in S : \A m \in S : n <= m
<1> DEFINE Less == {ss \in Nat \X Nat : ss[1] < ss[2]}
<1>1. IsWellFoundedOn(Less, Nat)  BY NatLessThanWellFounded DEF OpToRel
<1>2. \E n \in S : \A m \in S : ~ (<<m, n>> \in Less)
  <2> HIDE DEF Less
  <2> QED  BY <1>1, WFMin, Zenon
<1>3. PICK n \in S : \A m \in S : ~ (<<m, n>> \in Less)  BY <1>2
<1>4. \A m \in S : ~ (m < n)  BY <1>3
<1> QED  BY <1>4

\* What holds of 0 and of every next number holds of all.
LEMMA AllNumbers ==
  ASSUME NEW S, 0 \in S, \A n \in Nat : n \in S => n + 1 \in S
  PROVE  \A n \in Nat : n \in S
<1> SUFFICES ASSUME Nat \ S # {} PROVE FALSE  OBVIOUS
<1>1. PICK n \in Nat \ S : \A m \in Nat \ S : n <= m
  <2>1. Nat \ S \in SUBSET Nat  OBVIOUS
  <2> QED  BY <2>1, Least, Zenon
<1>2. n # 0 /\ n - 1 \in Nat  OBVIOUS
<1>3. n - 1 \in S  BY <1>1, <1>2
<1> QED  BY <1>2, <1>3, <1>1

-----------------------------------------------------------------------------
\* Sequences laid end to end.

\* One sequence after another: \o under a name, for the provers to leave it alone.
After(front, back) == front \o back

\* Flat is the result of flattening, step by step.
Flattens(flat, seqs) ==
  flat = [i \in 1 .. Len(seqs) |-> IF i = 1 THEN seqs[i] ELSE After(flat[i - 1], seqs[i])]

\* The recursion in FlattenSeq has a solution, which is built up step by step.
LEMMA FlattenExists ==
  ASSUME NEW S, NEW seqs \in Seq(Seq(S))
  PROVE  \E flat : Flattens(flat, seqs)
<1> DEFINE Part(n) == SubSeq(seqs, 1, n)
           Done == {n \in 0 .. Len(seqs) : \E flat : Flattens(flat, Part(n))}
           All == Done \cup {n \in Nat : n > Len(seqs)}
<1>1. 0 \in All
  <2>1. Flattens(<< >>, Part(0))  BY DEF Flattens
  <2> QED  BY <2>1
<1>2. ASSUME NEW n \in Nat, n \in All PROVE n + 1 \in All
  <2>1. CASE n + 1 > Len(seqs)  BY <2>1
  <2>2. CASE n + 1 <= Len(seqs)
    <3>1. PICK flat : Flattens(flat, Part(n))  BY <1>2, <2>2
    <3> DEFINE next == [i \in 1 .. (n + 1) |->
                          IF i = 1 THEN seqs[i] ELSE IF i <= n THEN flat[i] ELSE After(flat[n], seqs[i])]
    <3>2. /\ Len(Part(n)) = n /\ Len(Part(n + 1)) = n + 1
          /\ \A i \in 1 .. n : Part(n)[i] = seqs[i]
          /\ \A i \in 1 .. (n + 1) : Part(n + 1)[i] = seqs[i]
      BY <2>2
    <3>3. \A i \in 1 .. n : flat[i] = IF i = 1 THEN seqs[i] ELSE After(flat[i - 1], seqs[i])
      <4>1. flat = [i \in 1 .. n |-> IF i = 1 THEN Part(n)[i] ELSE After(flat[i - 1], Part(n)[i])]
        BY <3>1, <3>2 DEF Flattens
      <4> HIDE DEF Part
      <4> DEFINE Rest(i) == IF i = 1 THEN Part(n)[i] ELSE After(flat[i - 1], Part(n)[i])
      <4>2. flat = [i \in 1 .. n |-> Rest(i)]  BY <4>1, Zenon
      <4>3. ASSUME NEW i \in 1 .. n PROVE flat[i] = Rest(i)
        <5> HIDE DEF Rest
        <5> QED  BY <4>2
      <4>4. \A i \in 1 .. n : Part(n)[i] = seqs[i]  BY <3>2
      <4> QED  BY <4>3, <4>4
    <3>4. ASSUME NEW i \in 1 .. (n + 1)
          PROVE  next[i] = IF i = 1 THEN seqs[i] ELSE After(next[i - 1], seqs[i])
      <4> HIDE DEF Part
      <4>1. CASE i = 1  BY <4>1
      <4>2. CASE i > 1 /\ i <= n
        <5>1. flat[i] = After(flat[i - 1], seqs[i])  BY <4>2, <3>3, <3>2
        <5>2. i - 1 = 1 => flat[i - 1] = seqs[1]  BY <4>2, <3>3, <3>2
        <5> QED  BY <4>2, <5>1, <5>2
      <4>3. CASE i = n + 1 /\ i > 1
        <5>1. n = 1 => flat[n] = seqs[1]  BY <4>3, <3>3, <3>2
        <5> QED  BY <4>3, <5>1
      <4> QED  BY <4>1, <4>2, <4>3
    <3>5. Flattens(next, Part(n + 1))
      <4>1. next = [i \in 1 .. (n + 1) |-> IF i = 1 THEN seqs[i] ELSE After(next[i - 1], seqs[i])]
        BY <3>4
      <4> HIDE DEF next, Part
      <4> QED  BY <4>1, <3>2 DEF Flattens
    <3> QED  BY <3>5, <2>2
  <2> QED  BY <2>1, <2>2
<1>3. Len(seqs) \in Done
  <2> HIDE DEF Done
  <2>1. \A n \in Nat : n \in All  BY <1>1, <1>2, AllNumbers
  <2> QED  BY <2>1
<1>4. Part(Len(seqs)) = seqs  OBVIOUS
<1> QED  BY <1>3, <1>4

\* The places of one sequence after another.
LEMMA AfterPlaces ==
  ASSUME NEW S, NEW a \in Seq(S), NEW b \in Seq(S)
  PROVE  /\ After(a, b) \in Seq(S) /\ Len(After(a, b)) = Len(a) + Len(b)
         /\ \A i \in 1 .. Len(a) : After(a, b)[i] = a[i]
         /\ \A i \in 1 .. Len(b) : After(a, b)[Len(a) + i] = b[i]
  BY DEF After

\* The places of a part of a sequence.
LEMMA SubSeqPlaces ==
  ASSUME NEW S, NEW seq \in Seq(S), NEW m \in 1 .. (Len(seq) + 1), NEW n \in (m - 1) .. Len(seq)
  PROVE  /\ SubSeq(seq, m, n) \in Seq(S) /\ Len(SubSeq(seq, m, n)) = n - m + 1
         /\ \A i \in 1 .. (n - m + 1) : SubSeq(seq, m, n)[i] = seq[m + i - 1]
  OBVIOUS

\* The places left when one is taken out.
LEMMA RemovePlaces ==
  ASSUME NEW S, NEW seq \in Seq(S), NEW at \in 1 .. Len(seq)
  PROVE  /\ RemoveAt(seq, at) \in Seq(S) /\ Len(RemoveAt(seq, at)) = Len(seq) - 1
         /\ \A i \in 1 .. (Len(seq) - 1) : RemoveAt(seq, at)[i] = seq[IF i < at THEN i ELSE i + 1]
<1>1. PICK a \in Seq(S) : /\ a = SubSeq(seq, 1, at - 1) /\ Len(a) = at - 1
                          /\ \A i \in 1 .. (at - 1) : a[i] = seq[i]
  <2>1. 1 \in 1 .. (Len(seq) + 1) /\ at - 1 \in (1 - 1) .. Len(seq)  OBVIOUS
  <2>2. /\ SubSeq(seq, 1, at - 1) \in Seq(S) /\ Len(SubSeq(seq, 1, at - 1)) = at - 1 - 1 + 1
        /\ \A i \in 1 .. (at - 1 - 1 + 1) : SubSeq(seq, 1, at - 1)[i] = seq[1 + i - 1]
    BY <2>1, SubSeqPlaces
  <2>3. at - 1 - 1 + 1 = at - 1 /\ \A i \in 1 .. (at - 1) : 1 + i - 1 = i  OBVIOUS
  <2> QED  BY <2>2, <2>3
<1>2. PICK b \in Seq(S) : /\ b = SubSeq(seq, at + 1, Len(seq)) /\ Len(b) = Len(seq) - at
                          /\ \A i \in 1 .. (Len(seq) - at) : b[i] = seq[at + i]
  <2>1. at + 1 \in 1 .. (Len(seq) + 1) /\ Len(seq) \in (at + 1 - 1) .. Len(seq)  OBVIOUS
  <2>2. /\ SubSeq(seq, at + 1, Len(seq)) \in Seq(S)
        /\ Len(SubSeq(seq, at + 1, Len(seq))) = Len(seq) - (at + 1) + 1
        /\ \A i \in 1 .. (Len(seq) - (at + 1) + 1) : SubSeq(seq, at + 1, Len(seq))[i] = seq[at + 1 + i - 1]
    BY <2>1, SubSeqPlaces
  <2>3. Len(seq) - (at + 1) + 1 = Len(seq) - at /\ \A i \in Nat : at + 1 + i - 1 = at + i  OBVIOUS
  <2>4. PICK b : b = SubSeq(seq, at + 1, Len(seq))  OBVIOUS
  <2>5. b \in Seq(S) /\ Len(b) = Len(seq) - at  BY <2>2, <2>3, <2>4
  <2>6. ASSUME NEW i \in 1 .. (Len(seq) - at) PROVE b[i] = seq[at + i]
    <3>1. i \in 1 .. (Len(seq) - (at + 1) + 1) /\ at + 1 + i - 1 = at + i  OBVIOUS
    <3>2. b[i] = seq[at + 1 + i - 1]  BY <2>2, <2>4, <3>1
    <3> QED  BY <3>1, <3>2
  <2> QED  BY <2>4, <2>5, <2>6
<1>3. RemoveAt(seq, at) = After(a, b)  BY <1>1, <1>2 DEF RemoveAt, After
<1>4. After(a, b) \in Seq(S) /\ Len(After(a, b)) = Len(seq) - 1
  <2>1. After(a, b) \in Seq(S) /\ Len(After(a, b)) = Len(a) + Len(b)  BY AfterPlaces
  <2>2. Len(seq) \in Nat /\ Len(a) = at - 1 /\ Len(b) = Len(seq) - at  BY <1>1, <1>2
  <2>3. (at - 1) + (Len(seq) - at) = Len(seq) - 1  BY <2>2
  <2> QED  BY <2>1, <2>2, <2>3
<1>5. ASSUME NEW i \in 1 .. (Len(seq) - 1)
      PROVE  After(a, b)[i] = seq[IF i < at THEN i ELSE i + 1]
  <2>1. CASE i < at
    <3>1. i \in 1 .. Len(a)  BY <2>1, <1>1
    <3>2. After(a, b)[i] = a[i]  BY <3>1, AfterPlaces
    <3> QED  BY <2>1, <3>1, <3>2, <1>1
  <2>2. CASE i >= at
    <3>1. i - at + 1 \in 1 .. Len(b) /\ Len(a) + (i - at + 1) = i /\ at + (i - at + 1) = i + 1
      BY <2>2, <1>1, <1>2
    <3>2. PICK m \in 1 .. Len(b) : m = i - at + 1  BY <3>1
    <3>3. After(a, b)[Len(a) + m] = b[m]  BY AfterPlaces
    <3>4. Len(a) + m = i /\ at + m = i + 1  BY <3>1, <3>2
    <3>5. m \in 1 .. (Len(seq) - at)  BY <1>2, <3>2
    <3>6. b[m] = seq[at + m]  BY <3>5, <1>2
    <3> QED  BY <2>2, <3>3, <3>4, <3>6
  <2> QED  BY <2>1, <2>2
<1> QED  BY <1>3, <1>4, <1>5

\* FlattenSeq is the last step of flattening.
LEMMA FlattenIs ==
  ASSUME NEW S, NEW seqs \in Seq(Seq(S)), Len(seqs) # 0
  PROVE  \E flat : Flattens(flat, seqs) /\ FlattenSeq(seqs) = flat[Len(seqs)]
<1> DEFINE flat == CHOOSE f : f = [i \in 1 .. Len(seqs) |-> IF i = 1 THEN seqs[i] ELSE f[i - 1] \o seqs[i]]
<1>1. \E f : f = [i \in 1 .. Len(seqs) |-> IF i = 1 THEN seqs[i] ELSE f[i - 1] \o seqs[i]]
  BY FlattenExists, Zenon DEF Flattens, After
<1>2. flat = [i \in 1 .. Len(seqs) |-> IF i = 1 THEN seqs[i] ELSE flat[i - 1] \o seqs[i]]
  BY <1>1, Zenon
<1>3. FlattenSeq(seqs) = flat[Len(seqs)]  BY Zenon DEF FlattenSeq
<1> HIDE DEF flat
<1>4. Flattens(flat, seqs)  BY <1>2, Zenon DEF Flattens, After
<1> QED  BY <1>3, <1>4, Zenon

\* One step of flattening.
LEMMA FlattensAt ==
  ASSUME NEW seqs, NEW flat, Flattens(flat, seqs), NEW i \in 1 .. Len(seqs)
  PROVE  flat[i] = IF i = 1 THEN seqs[i] ELSE After(flat[i - 1], seqs[i])
<1> DEFINE Rest(k) == IF k = 1 THEN seqs[k] ELSE After(flat[k - 1], seqs[k])
<1>1. flat = [k \in 1 .. Len(seqs) |-> Rest(k)]  BY Zenon DEF Flattens
<1>2. flat[i] = Rest(i)
  <2> HIDE DEF Rest
  <2> QED  BY <1>1
<1> QED  BY <1>2, Zenon

\* Where each of the sequences begins: offsets that add up their lengths.
Offsets(off, seqs) ==
  /\ off \in [0 .. Len(seqs) -> Nat] /\ off[0] = 0
  /\ \A k \in 1 .. Len(seqs) : off[k] = off[k - 1] + Len(seqs[k])

\* A sequence begins after those before it.
LEMMA OffsetsGrow ==
  ASSUME NEW S, NEW seqs \in Seq(Seq(S)), NEW off, Offsets(off, seqs),
         NEW k \in 0 .. Len(seqs), NEW l \in k .. Len(seqs)
  PROVE  off[k] <= off[l]
<1> DEFINE Good == {n \in Nat : k + n <= Len(seqs) => off[k] <= off[k + n]}
<1>1. 0 \in Good
  <2>1. k + 0 = k /\ off[k] \in Nat  BY DEF Offsets
  <2> QED  BY <2>1
<1>2. ASSUME NEW n \in Nat, n \in Good PROVE n + 1 \in Good
  <2> SUFFICES ASSUME k + n + 1 <= Len(seqs) PROVE off[k] <= off[k + n + 1]  OBVIOUS
  <2>1. k + n + 1 \in 1 .. Len(seqs) /\ k + n \in 0 .. Len(seqs)  OBVIOUS
  <2>2. off[k + n + 1] = off[k + n] + Len(seqs[k + n + 1])  BY <2>1 DEF Offsets
  <2>3. Len(seqs[k + n + 1]) \in Nat  BY <2>1
  <2>4. off[k] \in Nat /\ off[k + n] \in Nat  BY <2>1 DEF Offsets
  <2> QED  BY <1>2, <2>1, <2>2, <2>3, <2>4
<1>3. \A n \in Nat : n \in Good
  <2> HIDE DEF Good
  <2> QED  BY <1>1, <1>2, AllNumbers
<1>4. l - k \in Nat /\ k + (l - k) = l  OBVIOUS
<1>5. l - k \in Good  BY <1>3, <1>4
<1> QED  BY <1>4, <1>5

\* The flat sequence holds each of the sequences from its offset, and no more.
Placed(flat, seqs, off) ==
  /\ \A k \in 1 .. Len(seqs) : \A j \in 1 .. Len(seqs[k]) : flat[off[k - 1] + j] = seqs[k][j]
  /\ \A n \in 1 .. Len(flat) : \E k \in 1 .. Len(seqs) : \E j \in 1 .. Len(seqs[k]) : n = off[k - 1] + j

LengthsOf(flat, seqs) == [k \in 0 .. Len(seqs) |-> IF k = 0 THEN 0 ELSE Len(flat[k])]

\* The same of the first n sequences, which is what the recursion has done by then.
PlacedUpTo(S, flat, seqs, off, n) ==
  /\ flat[n] \in Seq(S) /\ Len(flat[n]) = off[n] /\ off[n - 1] \in Nat
  /\ off[n] = off[n - 1] + Len(seqs[n])
  /\ \A k \in 1 .. n : \A j \in 1 .. Len(seqs[k]) :
       off[k - 1] + j \in 1 .. off[n] /\ flat[n][off[k - 1] + j] = seqs[k][j]
  /\ \A m \in 1 .. off[n] : \E k \in 1 .. n : \E j \in 1 .. Len(seqs[k]) : m = off[k - 1] + j

\* One more sequence has its place.
LEMMA PlacedStep ==
  ASSUME NEW S, NEW seqs \in Seq(Seq(S)), NEW flat, Flattens(flat, seqs), NEW off,
         off = LengthsOf(flat, seqs),
         NEW n \in 1 .. Len(seqs), n + 1 <= Len(seqs), PlacedUpTo(S, flat, seqs, off, n)
  PROVE  PlacedUpTo(S, flat, seqs, off, n + 1)
<1>1. n + 1 \in 1 .. Len(seqs) /\ n + 1 # 1 /\ n + 1 - 1 = n  OBVIOUS
<1>2. flat[n + 1] = After(flat[n], seqs[n + 1])
  <2>1. flat[n + 1] = IF n + 1 = 1 THEN seqs[n + 1] ELSE After(flat[n + 1 - 1], seqs[n + 1])
    BY <1>1, FlattensAt
  <2> QED  BY <2>1, <1>1
<1>3. seqs[n + 1] \in Seq(S) /\ Len(seqs[n + 1]) \in Nat  BY <1>1
<1>4. flat[n] \in Seq(S) /\ Len(flat[n]) = off[n] /\ off[n] \in Nat  BY DEF PlacedUpTo
<1>5. /\ flat[n + 1] \in Seq(S) /\ Len(flat[n + 1]) = off[n] + Len(seqs[n + 1])
      /\ \A i \in 1 .. off[n] : flat[n + 1][i] = flat[n][i]
      /\ \A i \in 1 .. Len(seqs[n + 1]) : flat[n + 1][off[n] + i] = seqs[n + 1][i]
  <2>1. PICK a \in Seq(S) : a = flat[n] /\ off[n] = Len(a)  BY <1>4
  <2>2. PICK b \in Seq(S) : b = seqs[n + 1]  BY <1>3
  <2>3. After(a, b) \in Seq(S) /\ Len(After(a, b)) = Len(a) + Len(b)  BY AfterPlaces
  <2>4. \A i \in 1 .. Len(a) : After(a, b)[i] = a[i]  BY AfterPlaces
  <2>5. \A i \in 1 .. Len(b) : After(a, b)[Len(a) + i] = b[i]  BY AfterPlaces
  <2>6. flat[n + 1] = After(a, b)  BY <2>1, <2>2, <1>2
  <2> QED  BY <2>1, <2>2, <2>3, <2>4, <2>5, <2>6, Zenon
<1>6. Len(flat[n + 1]) = off[n + 1] /\ off[n + 1] = off[n] + Len(seqs[n + 1])
  BY <1>1, <1>5 DEF LengthsOf
<1>sum. off[n] \in Nat /\ Len(seqs[n + 1]) \in Nat /\ off[n + 1] = off[n] + Len(seqs[n + 1])
  BY <1>3, <1>4, <1>6
<1>7. ASSUME NEW k \in 1 .. (n + 1), NEW j \in 1 .. Len(seqs[k])
      PROVE  off[k - 1] + j \in 1 .. off[n + 1] /\ flat[n + 1][off[k - 1] + j] = seqs[k][j]
  <2>1. CASE k = n + 1
    <3>1. off[k - 1] = off[n]  BY <2>1, <1>1
    <3>2. j \in 1 .. Len(seqs[n + 1])  BY <2>1
    <3>3. off[n] + j \in 1 .. off[n + 1]  BY <3>2, <1>sum
    <3>4. flat[n + 1][off[n] + j] = seqs[n + 1][j]  BY <3>2, <1>5
    <3> QED  BY <2>1, <3>1, <3>3, <3>4
  <2>2. CASE k \in 1 .. n
    <3>1. off[k - 1] + j \in 1 .. off[n] /\ flat[n][off[k - 1] + j] = seqs[k][j]
      BY <2>2 DEF PlacedUpTo
    <3>2. off[k - 1] + j \in 1 .. off[n + 1]  BY <3>1, <1>sum
    <3>3. \A i \in 1 .. off[n] : flat[n + 1][i] = flat[n][i]  BY <1>5
    <3> QED  BY <3>1, <3>2, <3>3
  <2> QED  BY <2>1, <2>2
<1>8. ASSUME NEW m \in 1 .. off[n + 1]
      PROVE  \E k \in 1 .. (n + 1) : \E j \in 1 .. Len(seqs[k]) : m = off[k - 1] + j
  <2>1. CASE m \in 1 .. off[n]
    <3>1. PICK k \in 1 .. n : \E j \in 1 .. Len(seqs[k]) : m = off[k - 1] + j
      BY <2>1 DEF PlacedUpTo
    <3> QED  BY <3>1
  <2>2. CASE m > off[n]
    <3>1. m - off[n] \in 1 .. Len(seqs[n + 1])  BY <2>2, <1>sum
    <3>2. m = off[n + 1 - 1] + (m - off[n])  BY <1>1, <1>4
    <3> QED  BY <3>1, <3>2, <1>1
  <2> QED  BY <2>1, <2>2, <1>4
<1>9. off[n + 1 - 1] = off[n]  BY <1>1
<1> QED  BY <1>4, <1>5, <1>6, <1>7, <1>8, <1>9 DEF PlacedUpTo

\* Each sequence is found in the result at its offset.
LEMMA FlattenPlaces ==
  ASSUME NEW S, NEW seqs \in Seq(Seq(S))
  PROVE  \E off : /\ Offsets(off, seqs)
                  /\ FlattenSeq(seqs) \in Seq(S)
                  /\ Len(FlattenSeq(seqs)) = off[Len(seqs)]
                  /\ Placed(FlattenSeq(seqs), seqs, off)
<1>1. CASE Len(seqs) = 0
  <2>1. FlattenSeq(seqs) = << >>  BY <1>1 DEF FlattenSeq
  <2>2. Offsets([k \in 0 .. 0 |-> 0], seqs)  BY <1>1 DEF Offsets
  <2>3. Placed(<< >>, seqs, [k \in 0 .. 0 |-> 0])  BY <1>1 DEF Placed
  <2>4. Len(<< >>) = [k \in 0 .. 0 |-> 0][Len(seqs)] /\ << >> \in Seq(S)  BY <1>1
  <2> QED  BY <2>1, <2>2, <2>3, <2>4
<1>2. CASE Len(seqs) # 0
  <2>1. PICK flat : Flattens(flat, seqs) /\ FlattenSeq(seqs) = flat[Len(seqs)]
    BY <1>2, FlattenIs
  <2>2. PICK off : off = LengthsOf(flat, seqs)  OBVIOUS
  <2> DEFINE So(n) == PlacedUpTo(S, flat, seqs, off, n)
             Good == {n \in Nat : n + 1 <= Len(seqs) => So(n + 1)}
  <2>3. So(1)
    <3>1. flat[1] = seqs[1]  BY <2>1, <1>2, FlattensAt
    <3>2. off[0] = 0 /\ off[1] = Len(flat[1]) /\ 1 - 1 = 0  BY <2>2, <1>2 DEF LengthsOf
    <3>3. seqs[1] \in Seq(S) /\ Len(seqs[1]) \in Nat  BY <1>2
    <3> QED  BY <3>1, <3>2, <3>3 DEF PlacedUpTo
  <2>4. ASSUME NEW n \in Nat, n \in Good PROVE n + 1 \in Good
    <3> SUFFICES ASSUME n + 1 + 1 <= Len(seqs) PROVE So(n + 1 + 1)
      <4> HIDE DEF So
      <4> QED  OBVIOUS
    <3>1. So(n + 1) /\ n + 1 \in 1 .. Len(seqs)
      <4>1. n + 1 <= Len(seqs)  OBVIOUS
      <4> HIDE DEF So
      <4> QED  BY <2>4, <4>1
    <3> QED  BY <3>1, <2>1, <2>2, PlacedStep
  <2>5. \A n \in Nat : n \in Good
    <3>1. 0 \in Good
      <4> HIDE DEF So
      <4> QED  BY <2>3
    <3> HIDE DEF Good
    <3> QED  BY <3>1, <2>4, AllNumbers
  <2>6. ASSUME NEW n \in 1 .. Len(seqs) PROVE So(n)
    <3>1. n - 1 \in Nat /\ (n - 1) + 1 = n /\ (n - 1) + 1 <= Len(seqs)  OBVIOUS
    <3> HIDE DEF So
    <3>2. n - 1 \in Good  BY <2>5, <3>1, Zenon
    <3>3. So((n - 1) + 1)  BY <3>1, <3>2
    <3> QED  BY <3>1, <3>3
  <2>7. Offsets(off, seqs)
    <3>1. off[0] = 0 /\ DOMAIN off = 0 .. Len(seqs)  BY <2>2 DEF LengthsOf
    <3>2. ASSUME NEW k \in 1 .. Len(seqs) PROVE off[k] \in Nat /\ off[k] = off[k - 1] + Len(seqs[k])
      BY <2>6 DEF PlacedUpTo
    <3>3. off \in [0 .. Len(seqs) -> Nat]  BY <3>1, <3>2, <2>2 DEF LengthsOf
    <3> QED  BY <3>1, <3>2, <3>3 DEF Offsets
  <2>8. So(Len(seqs))  BY <2>6, <1>2
  <2>9. FlattenSeq(seqs) \in Seq(S) /\ Len(FlattenSeq(seqs)) = off[Len(seqs)]
    BY <2>1, <2>8 DEF PlacedUpTo
  <2>10. Placed(flat[Len(seqs)], seqs, off)  BY <2>8 DEF PlacedUpTo, Placed
  <2> QED  BY <2>1, <2>7, <2>9, <2>10
<1> QED  BY <1>1, <1>2

-----------------------------------------------------------------------------
\* The elements kept are those at the places, in their order.
KeepsAt(kept, seq, places, p) ==
  /\ p \in [1 .. Len(kept) -> 1 .. Len(seq)]
  /\ \A n \in 1 .. Len(kept) : p[n] \in places /\ kept[n] = seq[p[n]]
  /\ \A m, n \in 1 .. Len(kept) : m < n => p[m] < p[n]
  /\ \A i \in 1 .. Len(seq) : i \in places => \E n \in 1 .. Len(kept) : p[n] = i

\* What Kept keeps is there at the places it was at, in their order.
LEMMA KeptPlaces ==
  ASSUME NEW S, NEW seq \in Seq(S), NEW places
  PROVE  /\ Kept(seq, places) \in Seq(S)
         /\ \E p : KeepsAt(Kept(seq, places), seq, places, p)
<1>1. PICK parts : parts = [i \in 1 .. Len(seq) |-> IF i \in places THEN << seq[i] >> ELSE << >>]
  OBVIOUS
<1>2. parts \in Seq(Seq(S)) /\ Len(parts) = Len(seq)
  <2>1. \A i \in 1 .. Len(seq) : parts[i] \in Seq(S)
    <3> SUFFICES ASSUME NEW i \in 1 .. Len(seq) PROVE parts[i] \in Seq(S)  OBVIOUS
    <3>1. << seq[i] >> \in Seq(S) /\ << >> \in Seq(S)  OBVIOUS
    <3> QED  BY <3>1, <1>1
  <2>2. Len(seq) \in Nat /\ DOMAIN parts = 1 .. Len(seq)  BY <1>1
  <2>3. parts \in [1 .. Len(seq) -> Seq(S)]  BY <1>1, <2>1
  <2> QED  BY <2>2, <2>3
<1>3. \A i \in 1 .. Len(seq) :
        /\ i \in places => parts[i] = << seq[i] >> /\ Len(parts[i]) = 1 /\ parts[i][1] = seq[i]
        /\ i \notin places => Len(parts[i]) = 0
  BY <1>1
<1>4. Kept(seq, places) = FlattenSeq(parts)  BY <1>1 DEF Kept
<1>5. PICK kept : kept = FlattenSeq(parts)  OBVIOUS
<1>6. PICK off : Offsets(off, parts) /\ kept \in Seq(S) /\ Len(kept) = off[Len(parts)] /\ Placed(kept, parts, off)
  BY <1>2, <1>5, FlattenPlaces
<1>7. \A k \in 0 .. Len(seq) : off[k] \in Nat  BY <1>2, <1>6 DEF Offsets
<1>8. \A k \in 1 .. Len(seq) : off[k] = off[k - 1] + (IF k \in places THEN 1 ELSE 0)
  BY <1>2, <1>3, <1>6 DEF Offsets
<1>9. \A k, l \in 0 .. Len(seq) : k <= l => off[k] <= off[l]
  <2>1. ASSUME NEW k \in 0 .. Len(seq), NEW l \in 0 .. Len(seq), k <= l PROVE off[k] <= off[l]
    <3>1. k \in 0 .. Len(parts) /\ l \in k .. Len(parts)  BY <2>1, <1>2
    <3> QED  BY <3>1, <1>2, <1>6, OffsetsGrow
  <2> QED  BY <2>1
<1>10. \A n \in 1 .. Len(kept) : \E k \in 1 .. Len(seq) : k \in places /\ off[k] = n /\ kept[n] = seq[k]
  <2> SUFFICES ASSUME NEW n \in 1 .. Len(kept)
               PROVE  \E k \in 1 .. Len(seq) : k \in places /\ off[k] = n /\ kept[n] = seq[k]
    OBVIOUS
  <2>1. PICK k \in 1 .. Len(seq) : \E j \in 1 .. Len(parts[k]) : n = off[k - 1] + j
    BY <1>2, <1>6 DEF Placed
  <2>2. PICK j \in 1 .. Len(parts[k]) : n = off[k - 1] + j  BY <2>1
  <2>3. k \in places /\ j = 1
    <3>1. /\ k \in places => Len(parts[k]) = 1
          /\ k \notin places => Len(parts[k]) = 0
      BY <1>3
    <3>2. CASE k \in places
      <4>1. j \in 1 .. 1  BY <3>1, <3>2
      <4> QED  BY <4>1, <3>2
    <3>3. CASE k \notin places
      <4>1. j \in 1 .. 0  BY <3>1, <3>3
      <4> QED  BY <4>1
    <3> QED  BY <3>2, <3>3
  <2>4. off[k] = n  BY <1>8, <2>2, <2>3
  <2>5. kept[off[k - 1] + j] = parts[k][j]  BY <1>2, <1>6, <2>2 DEF Placed
  <2> QED  BY <1>3, <2>2, <2>3, <2>4, <2>5
<1>11. PICK p : p = [n \in 1 .. Len(kept) |->
                      CHOOSE k \in 1 .. Len(seq) : k \in places /\ off[k] = n /\ kept[n] = seq[k]]
  OBVIOUS
<1>12. \A n \in 1 .. Len(kept) :
         p[n] \in 1 .. Len(seq) /\ p[n] \in places /\ off[p[n]] = n /\ kept[n] = seq[p[n]]
  BY <1>10, <1>11
<1>13. ASSUME NEW m \in 1 .. Len(kept), NEW n \in 1 .. Len(kept), m < n PROVE p[m] < p[n]
  <2> SUFFICES ASSUME p[n] <= p[m] PROVE FALSE  BY <1>12
  <2>1. off[p[n]] <= off[p[m]]  BY <1>9, <1>12
  <2> QED  BY <2>1, <1>12, <1>13
<1>14. ASSUME NEW i \in 1 .. Len(seq), i \in places PROVE \E n \in 1 .. Len(kept) : p[n] = i
  <2>1. off[i] = off[i - 1] + 1 /\ off[i - 1] \in Nat  BY <1>14, <1>8, <1>7
  <2>2. off[i] <= Len(kept) /\ Len(kept) \in Nat
    <3>1. off[i] <= off[Len(seq)]  BY <1>9
    <3> QED  BY <3>1, <1>6, <1>2
  <2>3. off[i] \in 1 .. Len(kept)  BY <2>1, <2>2
  <2>4. PICK k \in 1 .. Len(seq) : k = p[off[i]] /\ k \in places /\ off[k] = off[i]  BY <1>12, <2>3
  <2>5. off[k] = off[k - 1] + 1 /\ off[k - 1] \in Nat  BY <2>4, <1>8, <1>7
  <2>6. CASE k < i
    <3>1. off[k] <= off[i - 1]  BY <2>6, <1>9
    <3> QED  BY <3>1, <2>1, <2>4, <2>5
  <2>7. CASE i < k
    <3>1. off[i] <= off[k - 1]  BY <2>7, <1>9
    <3> QED  BY <3>1, <2>1, <2>4, <2>5
  <2> QED  BY <2>3, <2>4, <2>6, <2>7
<1>15. KeepsAt(kept, seq, places, p)
  <2>1. p \in [1 .. Len(kept) -> 1 .. Len(seq)]  BY <1>11, <1>12
  <2> QED  BY <2>1, <1>12, <1>13, <1>14 DEF KeepsAt
<1> QED  BY <1>4, <1>5, <1>6, <1>15

-----------------------------------------------------------------------------
\* Windows.

\* A list of files without repetition.
Single(tabs) == \A i, j \in 1 .. Len(tabs) : tabs[i] = tabs[j] => i = j
Holds(tabs) == {tabs[i] : i \in DOMAIN tabs}

ViewerWindow == [id : Nat, tabs : Seq(TreeFiles), active : TreeFiles]

\* A window shows one of its tabs and has no two of one file.
Tidy(win) == win.tabs # << >> /\ win.active \in Holds(win.tabs) /\ Single(win.tabs)

\* Ids have been given out in order, and no file is in two windows.
OpenOnce(wins, last) ==
  /\ wins \in Seq(ViewerWindow) /\ last \in Nat
  /\ \A w \in DOMAIN wins : Tidy(wins[w]) /\ wins[w].id <= last
  /\ \A v, w \in DOMAIN wins : v # w =>
       wins[v].id # wins[w].id /\ Holds(wins[v].tabs) \cap Holds(wins[w].tabs) = {}

WindowInv == OpenOnce(windows, lastWindow)

\* A file that goes takes only itself along.
LEMMA KeptWithout ==
  ASSUME NEW tabs \in Seq(TreeFiles), Single(tabs), NEW file,
         NEW next, next = Kept(tabs, {i \in DOMAIN tabs : tabs[i] # file})
  PROVE  next \in Seq(TreeFiles) /\ Single(next) /\ Holds(next) = Holds(tabs) \ {file}
<1>1. PICK places : places = {i \in DOMAIN tabs : tabs[i] # file}  OBVIOUS
<1>2. next \in Seq(TreeFiles) /\ \E p : KeepsAt(next, tabs, places, p)
  BY <1>1, KeptPlaces
<1>3. PICK p : KeepsAt(next, tabs, places, p)  BY <1>2
<1>4. \A n \in 1 .. Len(next) : p[n] \in 1 .. Len(tabs) /\ p[n] \in places /\ next[n] = tabs[p[n]]
  BY <1>3 DEF KeepsAt
<1>5. \A m, n \in 1 .. Len(next) : p[m] = p[n] => m = n
  <2>1. ASSUME NEW m \in 1 .. Len(next), NEW n \in 1 .. Len(next), p[m] = p[n], m # n PROVE FALSE
    <3>1. m < n => p[m] < p[n]  BY <1>3 DEF KeepsAt
    <3>2. n < m => p[n] < p[m]  BY <1>3 DEF KeepsAt
    <3> QED  BY <3>1, <3>2, <2>1, <1>4, <1>2
  <2> QED  BY <2>1
<1>6. Single(next)  BY <1>4, <1>5 DEF Single
<1>7. DOMAIN next = 1 .. Len(next) /\ DOMAIN tabs = 1 .. Len(tabs)  BY <1>2
<1>8. \A i \in DOMAIN tabs : tabs[i] # file => \E n \in 1 .. Len(next) : p[n] = i
  <2>1. \A i \in 1 .. Len(tabs) : i \in places => \E n \in 1 .. Len(next) : p[n] = i
    BY <1>3 DEF KeepsAt
  <2> QED  BY <2>1, <1>1, <1>7
<1>9. Holds(next) \subseteq Holds(tabs) \ {file}  BY <1>1, <1>4, <1>7 DEF Holds
<1>10. Holds(tabs) \ {file} \subseteq Holds(next)
  <2> SUFFICES ASSUME NEW i \in DOMAIN tabs, tabs[i] # file PROVE tabs[i] \in Holds(next)  BY DEF Holds
  <2>1. PICK n \in 1 .. Len(next) : p[n] = i  BY <1>8
  <2> QED  BY <2>1, <1>4, <1>7 DEF Holds
<1> QED  BY <1>2, <1>6, <1>9, <1>10

\* Dropping windows keeps what is left apart.
LEMMA KeptOpenOnce ==
  ASSUME NEW wins, NEW last, OpenOnce(wins, last), NEW left,
         NEW p \in [1 .. Len(left) -> 1 .. Len(wins)], left \in Seq(ViewerWindow),
         \A n \in 1 .. Len(left) : left[n] = wins[p[n]],
         \A m, n \in 1 .. Len(left) : m # n => p[m] # p[n]
  PROVE  OpenOnce(left, last)
<1>1. DOMAIN left = 1 .. Len(left) /\ DOMAIN wins = 1 .. Len(wins)  BY DEF OpenOnce
<1>2. ASSUME NEW w \in DOMAIN left PROVE Tidy(left[w]) /\ left[w].id <= last
  BY <1>1 DEF OpenOnce
<1>3. ASSUME NEW v \in DOMAIN left, NEW w \in DOMAIN left, v # w
      PROVE  left[v].id # left[w].id /\ Holds(left[v].tabs) \cap Holds(left[w].tabs) = {}
  <2>1. p[v] \in DOMAIN wins /\ p[w] \in DOMAIN wins /\ p[v] # p[w]  BY <1>1, <1>3
  <2>2. left[v] = wins[p[v]] /\ left[w] = wins[p[w]]  BY <1>1
  <2>3. wins[p[v]].id # wins[p[w]].id /\ Holds(wins[p[v]].tabs) \cap Holds(wins[p[w]].tabs) = {}
    BY <2>1, Zenon DEF OpenOnce
  <2> QED  BY <2>2, <2>3, Zenon
<1> QED  BY <1>2, <1>3 DEF OpenOnce

\* A window that changes to tabs it had keeps files open once.
LEMMA ChangedOpenOnce ==
  ASSUME NEW wins, NEW last, OpenOnce(wins, last), NEW w \in DOMAIN wins,
         NEW win \in ViewerWindow, Tidy(win), win.id = wins[w].id,
         \A v \in DOMAIN wins : v # w => Holds(wins[v].tabs) \cap Holds(win.tabs) = {}
  PROVE  OpenOnce([wins EXCEPT ![w] = win], last)
<1>1. PICK next : next = [wins EXCEPT ![w] = win]  OBVIOUS
<1>2. wins \in Seq(ViewerWindow) /\ last \in Nat  BY DEF OpenOnce
<1>3. next \in Seq(ViewerWindow) /\ DOMAIN next = DOMAIN wins /\ next[w] = win
  BY <1>1, <1>2
<1>4. \A v \in DOMAIN wins : v # w => next[v] = wins[v]  BY <1>1, <1>2
<1>5. ASSUME NEW v \in DOMAIN next PROVE Tidy(next[v]) /\ next[v].id <= last
  <2>1. Tidy(wins[v]) /\ wins[v].id <= last  BY <1>3, Zenon DEF OpenOnce
  <2> QED  BY <2>1, <1>3, <1>4
<1>6. ASSUME NEW v \in DOMAIN next, NEW u \in DOMAIN next, v # u
      PROVE  next[v].id # next[u].id /\ Holds(next[v].tabs) \cap Holds(next[u].tabs) = {}
  <2>1. wins[v].id # wins[u].id /\ Holds(wins[v].tabs) \cap Holds(wins[u].tabs) = {}
    BY <1>3, <1>6, Zenon DEF OpenOnce
  <2>2. CASE v = w  BY <2>1, <2>2, <1>3, <1>4, <1>6
  <2>3. CASE u = w  BY <2>1, <2>3, <1>3, <1>4, <1>6
  <2>4. CASE v # w /\ u # w  BY <2>1, <2>4, <1>3, <1>4
  <2> QED  BY <2>2, <2>3, <2>4
<1>7. OpenOnce(next, last)  BY <1>2, <1>3, <1>5, <1>6, Zenon DEF OpenOnce
<1> QED  BY <1>1, <1>7

\* So does a window more, of a file that was open nowhere.
LEMMA AddedOpenOnce ==
  ASSUME NEW wins, NEW last, OpenOnce(wins, last),
         NEW win \in ViewerWindow, Tidy(win), win.id = last + 1,
         \A v \in DOMAIN wins : Holds(wins[v].tabs) \cap Holds(win.tabs) = {}
  PROVE  OpenOnce(Append(wins, win), last + 1)
<1>1. PICK next : next = Append(wins, win)  OBVIOUS
<1>2. wins \in Seq(ViewerWindow) /\ last \in Nat  BY DEF OpenOnce
<1>3. /\ next \in Seq(ViewerWindow) /\ DOMAIN wins = 1 .. Len(wins) /\ Len(wins) \in Nat
      /\ DOMAIN next = 1 .. (Len(wins) + 1) /\ next[Len(wins) + 1] = win
      /\ \A v \in DOMAIN wins : next[v] = wins[v]
  BY <1>1, <1>2
<1>4. \A v \in DOMAIN next : v \in DOMAIN wins \/ v = Len(wins) + 1  BY <1>3
<1>5. \A v \in DOMAIN wins : Tidy(wins[v]) /\ wins[v].id <= last /\ wins[v].id \in Nat
  <2>1. ASSUME NEW v \in DOMAIN wins PROVE wins[v].id \in Nat
    <3>1. wins[v] \in ViewerWindow  BY <1>2
    <3> QED  BY <3>1 DEF ViewerWindow
  <2> QED  BY <2>1 DEF OpenOnce
<1>6. ASSUME NEW v \in DOMAIN next PROVE Tidy(next[v]) /\ next[v].id <= last + 1
  <2>1. CASE v \in DOMAIN wins  BY <2>1, <1>2, <1>3, <1>5
  <2>2. CASE v = Len(wins) + 1  BY <2>2, <1>2, <1>3
  <2> QED  BY <2>1, <2>2, <1>4
<1>7. ASSUME NEW v \in DOMAIN next, NEW u \in DOMAIN next, v # u
      PROVE  next[v].id # next[u].id /\ Holds(next[v].tabs) \cap Holds(next[u].tabs) = {}
  <2>1. CASE v \in DOMAIN wins /\ u \in DOMAIN wins
    <3>1. wins[v].id # wins[u].id /\ Holds(wins[v].tabs) \cap Holds(wins[u].tabs) = {}
      BY <2>1, <1>7, Zenon DEF OpenOnce
    <3> QED  BY <3>1, <2>1, <1>3
  <2>2. CASE v \in DOMAIN wins /\ u = Len(wins) + 1
    <3>1. next[v] = wins[v] /\ next[u] = win  BY <2>2, <1>3
    <3>2. wins[v].id # last + 1  BY <2>2, <1>2, <1>5
    <3> QED  BY <3>1, <3>2, <2>2
  <2>3. CASE u \in DOMAIN wins /\ v = Len(wins) + 1
    <3>1. next[u] = wins[u] /\ next[v] = win  BY <2>3, <1>3
    <3>2. wins[u].id # last + 1  BY <2>3, <1>2, <1>5
    <3> QED  BY <3>1, <3>2, <2>3
  <2> QED  BY <2>1, <2>2, <2>3, <1>4, <1>7
<1>8. last + 1 \in Nat  BY <1>2
<1> QED  BY <1>1, <1>3, <1>6, <1>7, <1>8 DEF OpenOnce

\* What a window is when a tab has left it.
LEMMA WithoutTabIs ==
  ASSUME NEW win \in ViewerWindow, Tidy(win), NEW file, NEW next, next = WithoutTab(win, file)
  PROVE  /\ next \in ViewerWindow /\ next.id = win.id
         /\ Holds(next.tabs) = Holds(win.tabs) \ {file}
         /\ next.tabs # << >> => Tidy(next)
<1>1. PICK tabs : tabs = Kept(win.tabs, {i \in DOMAIN win.tabs : win.tabs[i] # file})  OBVIOUS
<1>2. win.tabs \in Seq(TreeFiles) /\ win.active \in TreeFiles /\ win.id \in Nat  BY DEF ViewerWindow
<1>3. tabs \in Seq(TreeFiles) /\ Single(tabs) /\ Holds(tabs) = Holds(win.tabs) \ {file}
  BY <1>1, <1>2, KeptWithout DEF Tidy
<1>4. next = [win EXCEPT !.tabs = tabs,
                         !.active = IF @ # file \/ tabs = << >> THEN @ ELSE Last(tabs)]
  BY <1>1 DEF WithoutTab
<1>5. /\ next.id = win.id /\ next.tabs = tabs
      /\ next.active = IF win.active # file \/ tabs = << >> THEN win.active ELSE Last(tabs)
  BY <1>4 DEF ViewerWindow
<1>6. tabs # << >> => Last(tabs) \in TreeFiles /\ Last(tabs) \in Holds(tabs)
  <2>1. tabs # << >> => Len(tabs) \in DOMAIN tabs  BY <1>3
  <2> QED  BY <2>1, <1>3 DEF Last, Holds
<1>7. next.active \in TreeFiles  BY <1>2, <1>5, <1>6
<1>8. next \in ViewerWindow  BY <1>2, <1>3, <1>4, <1>6 DEF ViewerWindow
<1>9. tabs # << >> => next.active \in Holds(tabs)  BY <1>3, <1>5, <1>6 DEF Tidy
<1> QED  BY <1>3, <1>5, <1>8, <1>9 DEF Tidy

\* At first nothing is open.
LEMMA InitOpensNone == ViewerInit => WindowInv
  BY DEF ViewerInit, WindowInv, OpenOnce

\* TabsOf in terms of a sequence of tabs.
LEMMA TabsAreHeld == \A w : TabsOf(w) = Holds(windows[w].tabs)
  BY DEF TabsOf, Holds

\* A window in a state of the invariant.
LEMMA WindowIs ==
  ASSUME WindowInv, NEW w \in DOMAIN windows
  PROVE  windows[w] \in ViewerWindow /\ Tidy(windows[w]) /\ windows[w].id \in Nat
<1>1. windows \in Seq(ViewerWindow) /\ Tidy(windows[w])  BY DEF WindowInv, OpenOnce
<1>2. windows[w] \in ViewerWindow  BY <1>1
<1> QED  BY <1>1, <1>2 DEF ViewerWindow

\* A new window has one tab.
LEMMA NewWindowIs ==
  ASSUME WindowInv, NEW file \in TreeFiles
  PROVE  /\ NewWindow(file) \in ViewerWindow /\ NewWindow(file).id = lastWindow + 1
         /\ Tidy(NewWindow(file)) /\ Holds(NewWindow(file).tabs) = {file}
<1>1. lastWindow + 1 \in Nat  BY DEF WindowInv, OpenOnce
<1>2. << file >> \in Seq(TreeFiles) /\ Holds(<< file >>) = {file} /\ Single(<< file >>)
  BY DEF Holds, Single
<1> QED  BY <1>1, <1>2 DEF NewWindow, ViewerWindow, Tidy

\* Of two windows one at most has a file.
LEMMA Elsewhere ==
  ASSUME WindowInv, NEW w \in DOMAIN windows, NEW file \in TabsOf(w), NEW v \in DOMAIN windows, v # w
  PROVE  file \notin TabsOf(v)
<1>1. Holds(windows[v].tabs) \cap Holds(windows[w].tabs) = {}  BY Zenon DEF WindowInv, OpenOnce
<1> QED  BY <1>1, TabsAreHeld

\* A click on a tab that is there.
LEMMA SwitchOpensOnce ==
  ASSUME WindowInv, NEW w \in DOMAIN windows, NEW file \in TabsOf(w),
         windows' = [windows EXCEPT ![w].active = file], UNCHANGED lastWindow
  PROVE  WindowInv'
<1>1. PICK win : win = [windows[w] EXCEPT !.active = file]  OBVIOUS
<1>2. windows[w] \in ViewerWindow /\ Tidy(windows[w])  BY WindowIs
<1>3. windows[w].tabs \in Seq(TreeFiles)  BY <1>2 DEF ViewerWindow
<1>4. file \in TreeFiles  BY <1>3 DEF TabsOf
<1>5. /\ win \in ViewerWindow /\ win.tabs = windows[w].tabs
      /\ win.active = file /\ win.id = windows[w].id
  BY <1>1, <1>2, <1>4 DEF ViewerWindow
<1>6. Tidy(win)  BY <1>2, <1>5, TabsAreHeld DEF Tidy
<1>7. OpenOnce(windows, lastWindow)  BY DEF WindowInv
<1>8. \A v \in DOMAIN windows : v # w => Holds(windows[v].tabs) \cap Holds(win.tabs) = {}
  BY <1>5, <1>7, Zenon DEF OpenOnce
<1>9. OpenOnce([windows EXCEPT ![w] = win], lastWindow)
  BY <1>5, <1>6, <1>7, <1>8, ChangedOpenOnce
<1>10. windows' = [windows EXCEPT ![w] = win]  BY <1>1
<1> QED  BY <1>9, <1>10 DEF WindowInv

\* A click on a file in the tree.
LEMMA SelectOpensOnce ==
  ASSUME WindowInv, NEW file \in TreeFiles, HandleFileSelect(file)
  PROVE  WindowInv'
<1>1. CASE windows = << >> /\ Another /\ windows' = << NewWindow(file) >>
  <2>1. windows' = Append(windows, NewWindow(file))  BY <1>1
  <2>2. OpenOnce(Append(windows, NewWindow(file)), lastWindow + 1)
    <3>1. DOMAIN windows = {}  BY <1>1
    <3>2. OpenOnce(windows, lastWindow)  BY DEF WindowInv
    <3> QED  BY <3>1, <3>2, NewWindowIs, AddedOpenOnce
  <2> QED  BY <1>1, <2>1, <2>2 DEF WindowInv, Another
<1>2. ASSUME NEW w \in DOMAIN windows, file \in TabsOf(w),
             windows' = [windows EXCEPT ![w].active = file], UNCHANGED lastWindow
      PROVE  WindowInv'
  BY <1>2, SwitchOpensOnce
<1>3. CASE /\ windows # << >> /\ \A w \in DOMAIN windows : file \notin TabsOf(w)
           /\ windows' = [windows EXCEPT ![1].tabs = Append(@, file), ![1].active = file]
           /\ UNCHANGED lastWindow
  <2>1. 1 \in DOMAIN windows
    <3>1. windows \in Seq(ViewerWindow)  BY DEF WindowInv, OpenOnce
    <3> QED  BY <3>1, <1>3
  <2>2. PICK win : win = [windows[1] EXCEPT !.tabs = Append(@, file), !.active = file]  OBVIOUS
  <2>3. windows[1] \in ViewerWindow /\ Tidy(windows[1])  BY <2>1, WindowIs
  <2>4. PICK tabs \in Seq(TreeFiles) : tabs = windows[1].tabs /\ Single(tabs) /\ file \notin Holds(tabs)
    BY <2>3, <1>3, <2>1, TabsAreHeld DEF ViewerWindow, Tidy
  <2>5. PICK more : more = Append(tabs, file)  OBVIOUS
  <2>6. /\ more \in Seq(TreeFiles) /\ more # << >> /\ DOMAIN more = 1 .. (Len(tabs) + 1)
        /\ Len(tabs) \in Nat /\ DOMAIN tabs = 1 .. Len(tabs) /\ Len(more) = Len(tabs) + 1
        /\ more[Len(tabs) + 1] = file /\ \A i \in 1 .. Len(tabs) : more[i] = tabs[i]
    BY <2>5
  <2>7. Holds(more) = Holds(tabs) \cup {file}
    <3>1. ASSUME NEW i \in DOMAIN more PROVE more[i] \in Holds(tabs) \cup {file}
      BY <2>6 DEF Holds
    <3>2. ASSUME NEW i \in DOMAIN tabs PROVE tabs[i] \in Holds(more)
      <4>1. i \in DOMAIN more /\ more[i] = tabs[i]  BY <2>6
      <4> QED  BY <4>1 DEF Holds
    <3>3. file \in Holds(more)
      <4>1. Len(tabs) + 1 \in DOMAIN more  BY <2>6
      <4> QED  BY <4>1, <2>6 DEF Holds
    <3> QED  BY <3>1, <3>2, <3>3 DEF Holds
  <2>8. Single(more)
    <3>1. ASSUME NEW i \in 1 .. Len(tabs) PROVE tabs[i] # file
      BY <2>4, <2>6 DEF Holds
    <3>2. ASSUME NEW i \in 1 .. Len(more), NEW j \in 1 .. Len(more), more[i] = more[j] PROVE i = j
      <4>1. CASE i \in 1 .. Len(tabs) /\ j \in 1 .. Len(tabs)
        <5>1. tabs[i] = tabs[j]  BY <4>1, <2>6, <3>2
        <5> QED  BY <4>1, <5>1, <2>4 DEF Single
      <4>2. CASE i \in 1 .. Len(tabs) /\ j = Len(tabs) + 1
        <5>1. tabs[i] = file  BY <4>2, <2>6, <3>2
        <5> QED  BY <4>2, <5>1, <3>1
      <4>3. CASE i = Len(tabs) + 1 /\ j \in 1 .. Len(tabs)
        <5>1. tabs[j] = file  BY <4>3, <2>6, <3>2
        <5> QED  BY <4>3, <5>1, <3>1
      <4> QED  BY <4>1, <4>2, <4>3, <2>6
    <3> QED  BY <3>2 DEF Single
  <2>9. win \in ViewerWindow /\ win.tabs = more /\ win.active = file /\ win.id = windows[1].id
    BY <2>2, <2>3, <2>4, <2>5, <2>6 DEF ViewerWindow
  <2>10. Tidy(win)  BY <2>6, <2>7, <2>8, <2>9 DEF Tidy
  <2>11. ASSUME NEW v \in DOMAIN windows, v # 1
         PROVE  Holds(windows[v].tabs) \cap Holds(win.tabs) = {}
    <3>1. Holds(windows[v].tabs) \cap Holds(windows[1].tabs) = {}
      BY <2>1, <2>11, Zenon DEF WindowInv, OpenOnce
    <3>2. file \notin Holds(windows[v].tabs)  BY <1>3, <2>11, TabsAreHeld
    <3> QED  BY <3>1, <3>2, <2>4, <2>7, <2>9
  <2>12. OpenOnce([windows EXCEPT ![1] = win], lastWindow)
    <3>1. OpenOnce(windows, lastWindow)  BY DEF WindowInv
    <3> QED  BY <2>1, <2>9, <2>10, <2>11, <3>1, ChangedOpenOnce
  <2>13. windows' = [windows EXCEPT ![1] = win]
    <3>1. PICK first : first = [windows EXCEPT ![1].tabs = Append(@, file)]  OBVIOUS
    <3>2. /\ windows' = [first EXCEPT ![1].active = file]
          /\ first = [windows EXCEPT ![1] = [windows[1] EXCEPT !.tabs = Append(@, file)]]
      BY <1>3, <3>1, Zenon
    <3>3. windows' = [windows EXCEPT ![1] = [windows[1] EXCEPT !.tabs = Append(@, file), !.active = file]]
      BY <2>1, <3>2
    <3> QED  BY <2>2, <3>3, Zenon
  <2> QED  BY <1>3, <2>12, <2>13 DEF WindowInv
<1> QED  BY <1>1, <1>2, <1>3 DEF HandleFileSelect

\* A tab is activated.
LEMMA ChangeOpensOnce ==
  ASSUME WindowInv, NEW w \in DOMAIN windows, NEW file, TabChange(w, file)
  PROVE  WindowInv'
  BY SwitchOpensOnce DEF TabChange

\* Dropping the windows without tabs, when at most the changed one has none.
LEMMA CloseOpensOnce ==
  ASSUME WindowInv, NEW w \in DOMAIN windows, NEW file, TabClose(w, file)
  PROVE  WindowInv'
<1>1. PICK win : win = WithoutTab(windows[w], file)  OBVIOUS
<1>2. OpenOnce(windows, lastWindow) /\ windows \in Seq(ViewerWindow)  BY DEF WindowInv, OpenOnce
<1>3. windows[w] \in ViewerWindow /\ Tidy(windows[w])  BY WindowIs
<1>4. /\ win \in ViewerWindow /\ win.id = windows[w].id
      /\ Holds(win.tabs) = Holds(windows[w].tabs) \ {file}
      /\ win.tabs # << >> => Tidy(win)
  BY <1>1, <1>3, WithoutTabIs
<1>5. PICK wins : wins = [windows EXCEPT ![w] = win]  OBVIOUS
<1>6. /\ wins \in Seq(ViewerWindow) /\ DOMAIN wins = DOMAIN windows /\ wins[w] = win
      /\ \A v \in DOMAIN windows : v # w => wins[v] = windows[v]
      /\ Len(wins) = Len(windows) /\ DOMAIN windows = 1 .. Len(windows)
  BY <1>2, <1>4, <1>5
<1>7. PICK places : places = {v \in DOMAIN wins : wins[v].tabs # << >>}  OBVIOUS
<1>8. PICK left : left = Kept(wins, places)  OBVIOUS
<1>9. left \in Seq(ViewerWindow) /\ \E p : KeepsAt(left, wins, places, p)
  BY <1>6, <1>8, KeptPlaces
<1>10. PICK p : KeepsAt(left, wins, places, p)  BY <1>9
<1>11. /\ p \in [1 .. Len(left) -> 1 .. Len(wins)]
       /\ \A n \in 1 .. Len(left) : p[n] \in places /\ left[n] = wins[p[n]]
  BY <1>10 DEF KeepsAt
<1>12. \A m, n \in 1 .. Len(left) : m # n => p[m] # p[n]
  <2>1. ASSUME NEW m \in 1 .. Len(left), NEW n \in 1 .. Len(left), m # n PROVE p[m] # p[n]
    <3>1. (m < n => p[m] < p[n]) /\ (n < m => p[n] < p[m])  BY <1>10 DEF KeepsAt
    <3>2. p[m] \in Int /\ p[n] \in Int  BY <1>11
    <3> QED  BY <3>1, <3>2, <2>1
  <2> QED  BY <2>1
<1>13. windows' = left
  BY <1>1, <1>5, <1>7, <1>8, Zenon DEF TabClose, WithTabs
<1>14. OpenOnce(left, lastWindow)
  <2>1. CASE win.tabs # << >>
    <3>1. \A v \in DOMAIN windows : v # w => Holds(windows[v].tabs) \cap Holds(windows[w].tabs) = {}
      BY <1>2, Zenon DEF OpenOnce
    <3>2. \A v \in DOMAIN windows : v # w => Holds(windows[v].tabs) \cap Holds(win.tabs) = {}
      BY <3>1, <1>4
    <3>3. OpenOnce(wins, lastWindow)  BY <1>2, <1>4, <1>5, <2>1, <3>2, ChangedOpenOnce
    <3>4. \A n \in 1 .. Len(left) : left[n] = wins[p[n]]  BY <1>11
    <3>5. p \in [1 .. Len(left) -> 1 .. Len(wins)]  BY <1>11
    <3> QED  BY <1>9, <1>12, <3>3, <3>4, <3>5, KeptOpenOnce
  <2>2. CASE win.tabs = << >>
    <3>1. \A n \in 1 .. Len(left) : left[n] = windows[p[n]]
      <4>1. ASSUME NEW n \in 1 .. Len(left) PROVE left[n] = windows[p[n]]
        <5>1. p[n] \in DOMAIN windows /\ wins[p[n]].tabs # << >>  BY <1>6, <1>7, <1>11
        <5>2. p[n] # w  BY <5>1, <1>6, <2>2
        <5> QED  BY <5>1, <5>2, <1>6, <1>11
      <4> QED  BY <4>1
    <3>2. p \in [1 .. Len(left) -> 1 .. Len(windows)]  BY <1>6, <1>11
    <3> QED  BY <1>2, <1>9, <1>12, <3>1, <3>2, KeptOpenOnce
  <2> QED  BY <2>1, <2>2
<1> QED  BY <1>13, <1>14 DEF TabClose, WindowInv

\* A window is closed.
LEMMA CloseAllOpensOnce ==
  ASSUME WindowInv, NEW w \in DOMAIN windows, CloseAll(w)
  PROVE  WindowInv'
<1>1. OpenOnce(windows, lastWindow) /\ windows \in Seq(ViewerWindow)  BY DEF WindowInv, OpenOnce
<1>2. w \in 1 .. Len(windows) /\ Len(windows) \in Nat  BY <1>1
<1>3. PICK left : left = RemoveAt(windows, w)  OBVIOUS
<1>4. /\ left \in Seq(ViewerWindow) /\ Len(left) = Len(windows) - 1
      /\ \A n \in 1 .. Len(left) : left[n] = windows[IF n < w THEN n ELSE n + 1]
  BY <1>1, <1>2, <1>3, RemovePlaces
<1>5. PICK p : p = [n \in 1 .. Len(left) |-> IF n < w THEN n ELSE n + 1]  OBVIOUS
<1>6. /\ p \in [1 .. Len(left) -> 1 .. Len(windows)]
      /\ \A m, n \in 1 .. Len(left) : m # n => p[m] # p[n]
  BY <1>2, <1>4, <1>5
<1>7. \A n \in 1 .. Len(left) : left[n] = windows[p[n]]  BY <1>4, <1>5
<1>8. OpenOnce(left, lastWindow)
  <2>1. left \in Seq(ViewerWindow)  BY <1>4
  <2>2. p \in [1 .. Len(left) -> 1 .. Len(windows)]  BY <1>6
  <2>3. \A m, n \in 1 .. Len(left) : m # n => p[m] # p[n]  BY <1>6
  <2> QED  BY <1>1, <2>1, <2>2, <2>3, <1>7, KeptOpenOnce
<1> QED  BY <1>3, <1>8 DEF CloseAll, WindowInv

\* A tab goes to a window of its own.
LEMMA DetachOpensOnce ==
  ASSUME WindowInv, NEW w \in DOMAIN windows, NEW file, DetachTab(w, file)
  PROVE  WindowInv'
<1>1. PICK win : win = WithoutTab(windows[w], file)  OBVIOUS
<1>2. OpenOnce(windows, lastWindow) /\ windows \in Seq(ViewerWindow)  BY DEF WindowInv, OpenOnce
<1>3. windows[w] \in ViewerWindow /\ Tidy(windows[w])  BY WindowIs
<1>4. file \in Holds(windows[w].tabs) /\ Len(windows[w].tabs) > 1  BY TabsAreHeld DEF DetachTab
<1>5. windows[w].tabs \in Seq(TreeFiles)  BY <1>3 DEF ViewerWindow
<1>6. /\ win \in ViewerWindow /\ win.id = windows[w].id
      /\ Holds(win.tabs) = Holds(windows[w].tabs) \ {file}
      /\ win.tabs # << >> => Tidy(win)
  BY <1>1, <1>3, WithoutTabIs
<1>7. win.tabs # << >>
  <2>1. 1 \in DOMAIN windows[w].tabs /\ 2 \in DOMAIN windows[w].tabs  BY <1>4, <1>5
  <2>2. windows[w].tabs[1] # windows[w].tabs[2]  BY <1>3, <1>4, <1>5 DEF Tidy, Single
  <2>3. windows[w].tabs[1] \in Holds(windows[w].tabs) /\ windows[w].tabs[2] \in Holds(windows[w].tabs)
    BY <2>1 DEF Holds
  <2>4. Holds(win.tabs) # {}  BY <2>2, <2>3, <1>6
  <2> QED  BY <2>4 DEF Holds
<1>8. \A v \in DOMAIN windows : v # w => Holds(windows[v].tabs) \cap Holds(windows[w].tabs) = {}
  BY <1>2, Zenon DEF OpenOnce
<1>9. \A v \in DOMAIN windows : v # w => Holds(windows[v].tabs) \cap Holds(win.tabs) = {}
  BY <1>6, <1>8
<1>10. PICK wins : wins = [windows EXCEPT ![w] = win]  OBVIOUS
<1>11. OpenOnce(wins, lastWindow)
  BY <1>2, <1>6, <1>7, <1>9, <1>10, ChangedOpenOnce
<1>12. file \in TreeFiles  BY <1>4, <1>5 DEF Holds
<1>13. \A v \in DOMAIN wins : Holds(wins[v].tabs) \cap Holds(NewWindow(file).tabs) = {}
  <2>1. ASSUME NEW v \in DOMAIN wins PROVE file \notin Holds(wins[v].tabs)
    <3>1. DOMAIN wins = DOMAIN windows /\ wins[w] = win  BY <1>2, <1>10
    <3>2. v # w => wins[v] = windows[v]  BY <1>2, <1>10, <3>1
    <3>3. CASE v = w  BY <3>3, <3>1, <1>6
    <3>4. CASE v # w  BY <3>4, <3>1, <3>2, <1>4, <1>8
    <3> QED  BY <3>3, <3>4
  <2>2. Holds(NewWindow(file).tabs) = {file}  BY <1>12, NewWindowIs
  <2> QED  BY <2>1, <2>2
<1>14. OpenOnce(Append(wins, NewWindow(file)), lastWindow + 1)
  BY <1>11, <1>12, <1>13, NewWindowIs, AddedOpenOnce
<1>15. windows' = Append(wins, NewWindow(file)) /\ lastWindow' = lastWindow + 1
  BY <1>1, <1>10, Zenon DEF DetachTab, Another
<1> QED  BY <1>14, <1>15 DEF WindowInv

\* Every step keeps files open once.
LEMMA WindowStep ==
  ASSUME WindowInv, [ViewerNext]_viewerVars
  PROVE  WindowInv'
<1>1. ASSUME UNCHANGED <<windows, lastWindow>> PROVE WindowInv'
  BY <1>1 DEF WindowInv
<1>2. CASE UNCHANGED viewerVars  BY <1>1, <1>2, Zenon DEF viewerVars
<1>3. CASE ToggleTree  BY <1>1, <1>3, Zenon DEF ToggleTree, windowVars
<1>4. ASSUME NEW file \in TreeFiles, NEW i \in DOMAIN FoldersOf[file], ToggleFolder(FoldersOf[file][i])
      PROVE  WindowInv'
  BY <1>1, <1>4, Zenon DEF ToggleFolder, windowVars
<1>5. ASSUME NEW file \in TreeFiles, HandleFileSelect(file) PROVE WindowInv'
  BY <1>5, SelectOpensOnce
<1>6. ASSUME NEW w \in DOMAIN windows, NEW file \in TreeFiles,
             TabChange(w, file) \/ TabClose(w, file) \/ DetachTab(w, file)
      PROVE  WindowInv'
  BY <1>6, ChangeOpensOnce, CloseOpensOnce, DetachOpensOnce
<1>7. ASSUME NEW w \in DOMAIN windows, CloseAll(w) PROVE WindowInv'
  BY <1>7, CloseAllOpensOnce
<1>8. ASSUME NEW w \in DOMAIN windows, NEW key, ChangeModelContent(w, key) PROVE WindowInv'
  BY <1>1, <1>8, Zenon DEF ChangeModelContent, windowVars
<1>9. ASSUME NEW w \in DOMAIN windows, NEW after, AddPopup(w, after) PROVE WindowInv'
  BY <1>1, <1>9, Zenon DEF AddPopup
<1>10. ASSUME NEW p, CancelAdd(p) PROVE WindowInv'
  BY <1>1, <1>10, Zenon DEF CancelAdd
<1>11. ASSUME NEW w, NEW p, NEW title, HandleConfirmAdd(w, p, title) PROVE WindowInv'
  BY <1>1, <1>11, Zenon DEF HandleConfirmAdd
<1>12. ASSUME NEW a, NEW f, FunctionAdded(a, f) PROVE WindowInv'
  BY <1>1, <1>12, Zenon DEF FunctionAdded, windowVars
<1>13. ASSUME NEW a, FunctionNotAdded(a) PROVE WindowInv'
  BY <1>1, <1>13, Zenon DEF FunctionNotAdded, windowVars
<1> QED
  BY <1>2, <1>3, <1>4, <1>5, <1>6, <1>7, <1>8, <1>9, <1>10, <1>11, <1>12, <1>13, Zenon DEF ViewerNext

\* As many files as tabs, since none is there twice.
LEMMA SingleCounts ==
  ASSUME NEW tabs \in Seq(TreeFiles), Single(tabs)
  PROVE  Cardinality(Holds(tabs)) = Len(tabs)
<1>1. tabs \in Bijection(1 .. Len(tabs), Holds(tabs))
  <2>1. DOMAIN tabs = 1 .. Len(tabs)  OBVIOUS
  <2>2. tabs \in [1 .. Len(tabs) -> Holds(tabs)]  BY <2>1 DEF Holds
  <2> QED  BY <2>1, <2>2 DEF Bijection, Injection, Surjection, IsInjective, Single, Holds
<1>2. IsFiniteSet(1 .. Len(tabs)) /\ Cardinality(1 .. Len(tabs)) = Len(tabs)
  <2>1. Len(tabs) \in Nat  OBVIOUS
  <2> QED  BY <2>1, FS_Interval
<1>3. PICK n : n = Len(tabs)  OBVIOUS
<1> QED  BY <1>1, <1>2, <1>3, FS_Bijection DEF ExistsBijection

\* The invariant says it of every two windows.
LEMMA WindowInvSuffices == WindowInv => FilesOpenOnce
<1> SUFFICES ASSUME WindowInv, NEW w \in DOMAIN windows
             PROVE  /\ windows[w].active \in TabsOf(w)
                    /\ Cardinality(TabsOf(w)) = Len(windows[w].tabs)
                    /\ \A v \in DOMAIN windows \ {w} :
                         TabsOf(v) \cap TabsOf(w) = {} /\ windows[v].id # windows[w].id
  BY DEF FilesOpenOnce
<1>1. windows[w] \in ViewerWindow /\ Tidy(windows[w])  BY WindowIs
<1>2. windows[w].tabs \in Seq(TreeFiles)  BY <1>1 DEF ViewerWindow
<1>3. Cardinality(TabsOf(w)) = Len(windows[w].tabs)
  BY <1>1, <1>2, SingleCounts, TabsAreHeld DEF Tidy
<1>4. windows[w].active \in TabsOf(w)  BY <1>1, TabsAreHeld DEF Tidy
<1>5. ASSUME NEW v \in DOMAIN windows \ {w}
      PROVE  TabsOf(v) \cap TabsOf(w) = {} /\ windows[v].id # windows[w].id
  <2>1. windows[v].id # windows[w].id /\ Holds(windows[v].tabs) \cap Holds(windows[w].tabs) = {}
    BY <1>5, Zenon DEF WindowInv, OpenOnce
  <2> QED  BY <2>1, TabsAreHeld
<1> QED  BY <1>3, <1>4, <1>5

\* However many windows there are, and whatever is opened, moved between them
\* and closed: a file is in one window at most and there once, the tab a window
\* shows is one of its own, and no two windows have one id.
THEOREM OneEditorPerFile == ViewerSpec => []FilesOpenOnce
<1>1. ViewerInit => WindowInv  BY InitOpensNone
<1>2. WindowInv /\ [ViewerNext]_viewerVars => WindowInv'  BY WindowStep
<1> QED  BY <1>1, <1>2, WindowInvSuffices, PTL DEF ViewerSpec

-----------------------------------------------------------------------------
\* Code without the empty lines at its end.

\* The last line that is not empty, or 0.
LastLine(lines, n) ==
  /\ n \in 0 .. Len(lines) /\ (n > 0 => lines[n] # Blank)
  /\ \A k \in (n + 1) .. Len(lines) : lines[k] = Blank

\* There is a last line that is not empty, or none.
LEMMA LastLineExists ==
  ASSUME NEW S, NEW lines \in Seq(S)
  PROVE  \E n : LastLine(lines, n)
<1> DEFINE Rest == {n \in 0 .. Len(lines) : \A k \in (n + 1) .. Len(lines) : lines[k] = Blank}
<1>1. Len(lines) \in Nat /\ Rest \in SUBSET Nat /\ Len(lines) \in Rest  OBVIOUS
<1>2. PICK n \in Rest : \A m \in Rest : n <= m
  <2> HIDE DEF Rest
  <2>1. Rest # {}  BY <1>1
  <2> QED  BY <1>1, <2>1, Least
<1>3. n > 0 => lines[n] # Blank
  <2> SUFFICES ASSUME n > 0, lines[n] = Blank PROVE FALSE  OBVIOUS
  <2>1. n - 1 \in 0 .. Len(lines)  BY <1>1
  <2>2. \A k \in (n - 1 + 1) .. Len(lines) : k = n \/ k \in (n + 1) .. Len(lines)  BY <1>1
  <2>3. n - 1 \in Rest  BY <2>1, <2>2
  <2> QED  BY <1>2, <2>3
<1> QED  BY <1>3 DEF LastLine

\* There is only one.
LEMMA LastLineUnique ==
  ASSUME NEW S, NEW lines \in Seq(S), NEW m, NEW n, LastLine(lines, m), LastLine(lines, n)
  PROVE  m = n
<1>1. m \in Nat /\ n \in Nat /\ m <= Len(lines) /\ n <= Len(lines) /\ Len(lines) \in Nat
  BY DEF LastLine
<1>2. CASE m < n
  <2>1. n \in (m + 1) .. Len(lines) /\ n > 0  BY <1>1, <1>2
  <2> QED  BY <2>1 DEF LastLine
<1>3. CASE n < m
  <2>1. m \in (n + 1) .. Len(lines) /\ m > 0  BY <1>1, <1>3
  <2> QED  BY <2>1 DEF LastLine
<1> QED  BY <1>1, <1>2, <1>3

\* WithoutTrailing cuts there.
LEMMA WithoutTrailingIs ==
  ASSUME NEW S, NEW lines \in Seq(S), NEW n, LastLine(lines, n)
  PROVE  WithoutTrailing(lines) = SubSeq(lines, 1, n)
<1> DEFINE last == CHOOSE k \in 0 .. Len(lines) :
                     /\ k > 0 => lines[k] # Blank
                     /\ \A l \in (k + 1) .. Len(lines) : lines[l] = Blank
<1>1. LastLine(lines, last)  BY DEF LastLine
<1>2. last = n
  <2> HIDE DEF last
  <2> QED  BY <1>1, LastLineUnique
<1> QED  BY <1>2 DEF WithoutTrailing

Trimmed(code) == code # << >> => code[Len(code)] # Blank

\* What was cut stays, and what needs no cut is left alone.
LEMMA TrimmedStays ==
  ASSUME NEW S, NEW lines \in Seq(S)
  PROVE  /\ WithoutTrailing(lines) \in Seq(S) /\ Trimmed(WithoutTrailing(lines))
         /\ Trimmed(lines) => WithoutTrailing(lines) = lines
<1>1. PICK n : LastLine(lines, n)  BY LastLineExists
<1>2. n \in 0 .. Len(lines) /\ Len(lines) \in Nat  BY <1>1 DEF LastLine
<1>3. WithoutTrailing(lines) = SubSeq(lines, 1, n)  BY <1>1, WithoutTrailingIs
<1>4. /\ SubSeq(lines, 1, n) \in Seq(S) /\ Len(SubSeq(lines, 1, n)) = n
      /\ \A i \in 1 .. n : SubSeq(lines, 1, n)[i] = lines[i]
  BY <1>2
<1>5. Trimmed(SubSeq(lines, 1, n))
  <2> SUFFICES ASSUME SubSeq(lines, 1, n) # << >> PROVE n > 0  BY <1>1, <1>2, <1>4 DEF Trimmed, LastLine
  <2> QED  BY <1>2, <1>4
<1>6. ASSUME Trimmed(lines) PROVE SubSeq(lines, 1, n) = lines
  <2>1. LastLine(lines, Len(lines))
    <3>1. Len(lines) > 0 => lines # << >>  OBVIOUS
    <3> QED  BY <1>2, <1>6, <3>1 DEF LastLine, Trimmed
  <2>2. n = Len(lines)  BY <1>1, <2>1, LastLineUnique
  <2> QED  BY <2>2
<1> QED  BY <1>3, <1>4, <1>5, <1>6

\* Empty lines at the end make no difference.
LEMMA BlankEnd ==
  ASSUME NEW S, NEW lines \in Seq(S), NEW more \in Seq(S), Len(lines) <= Len(more),
         \A k \in 1 .. Len(lines) : more[k] = lines[k],
         \A k \in (Len(lines) + 1) .. Len(more) : more[k] = Blank
  PROVE  WithoutTrailing(more) = WithoutTrailing(lines)
<1>1. PICK n : LastLine(lines, n)  BY LastLineExists
<1>2. n \in 0 .. Len(lines) /\ Len(lines) \in Nat /\ Len(more) \in Nat  BY <1>1 DEF LastLine
<1>3. LastLine(more, n)
  <2>1. n \in 0 .. Len(more) /\ (n > 0 => more[n] # Blank)  BY <1>1, <1>2 DEF LastLine
  <2>2. ASSUME NEW k \in (n + 1) .. Len(more) PROVE more[k] = Blank
    <3>1. CASE k <= Len(lines)
      <4>1. k \in 1 .. Len(lines) /\ k \in (n + 1) .. Len(lines)  BY <3>1, <1>2
      <4> QED  BY <4>1, <1>1 DEF LastLine
    <3>2. CASE k > Len(lines)
      <4>1. k \in (Len(lines) + 1) .. Len(more)  BY <3>2, <1>2
      <4> QED  BY <4>1
    <3> QED  BY <3>1, <3>2, <1>2
  <2> QED  BY <2>1, <2>2 DEF LastLine
<1>4. SubSeq(more, 1, n) = SubSeq(lines, 1, n)
  <2>1. /\ SubSeq(more, 1, n) \in Seq(S) /\ Len(SubSeq(more, 1, n)) = n
        /\ \A i \in 1 .. n : SubSeq(more, 1, n)[i] = more[i]
    BY <1>2
  <2>2. /\ SubSeq(lines, 1, n) \in Seq(S) /\ Len(SubSeq(lines, 1, n)) = n
        /\ \A i \in 1 .. n : SubSeq(lines, 1, n)[i] = lines[i]
    BY <1>2
  <2>3. \A i \in 1 .. n : more[i] = lines[i]  BY <1>2
  <2>4. PICK a \in Seq(S), b \in Seq(S) : a = SubSeq(more, 1, n) /\ b = SubSeq(lines, 1, n)  BY <2>1, <2>2
  <2>5. Len(a) = n /\ Len(b) = n /\ \A i \in 1 .. n : a[i] = b[i]  BY <2>1, <2>2, <2>3, <2>4
  <2>6. a = b  BY <2>5
  <2> QED  BY <2>4, <2>6
<1> QED  BY <1>1, <1>3, <1>4, WithoutTrailingIs

-----------------------------------------------------------------------------
\* A line more, a line less.

\* Line p is one of the code of the i-th function, or one of them or the line after.
Of(h, L, p, i) == p \in (h[i] + 1) .. (h[i] + Len(L[i]))
Into(h, L, p, i) == p \in (h[i] + 1) .. (h[i] + Len(L[i]) + 1)

Inserted(new, old, at, elt) ==
  /\ Len(new) = Len(old) + 1
  /\ \A k \in 1 .. Len(new) : new[k] = IF k < at THEN old[k] ELSE IF k = at THEN elt ELSE old[k - 1]

Removed(new, old, at) ==
  /\ Len(new) = Len(old) - 1
  /\ \A k \in 1 .. Len(new) : new[k] = old[IF k < at THEN k ELSE k + 1]

\* InsertAt puts a line in.
LEMMA InsertPlaces ==
  ASSUME NEW S, NEW seq \in Seq(S), NEW at \in 1 .. (Len(seq) + 1), NEW elt \in S
  PROVE  InsertAt(seq, at, elt) \in Seq(S) /\ Inserted(InsertAt(seq, at, elt), seq, at, elt)
<1>0. Len(seq) \in Nat /\ at \in Nat  OBVIOUS
<1>1. PICK a \in Seq(S) : /\ a = SubSeq(seq, 1, at - 1) /\ Len(a) = at - 1
                          /\ \A i \in 1 .. (at - 1) : a[i] = seq[i]
  <2>1. 1 \in 1 .. (Len(seq) + 1) /\ at - 1 \in (1 - 1) .. Len(seq)  OBVIOUS
  <2>2. /\ SubSeq(seq, 1, at - 1) \in Seq(S) /\ Len(SubSeq(seq, 1, at - 1)) = at - 1 - 1 + 1
        /\ \A i \in 1 .. (at - 1 - 1 + 1) : SubSeq(seq, 1, at - 1)[i] = seq[1 + i - 1]
    BY <2>1, SubSeqPlaces
  <2>3. at - 1 - 1 + 1 = at - 1 /\ \A i \in 1 .. (at - 1) : 1 + i - 1 = i  OBVIOUS
  <2> QED  BY <2>2, <2>3
<1>2. PICK b \in Seq(S) : /\ b = SubSeq(seq, at, Len(seq)) /\ Len(b) = Len(seq) - at + 1
                          /\ \A i \in 1 .. (Len(seq) - at + 1) : b[i] = seq[at + i - 1]
  <2>1. at \in 1 .. (Len(seq) + 1) /\ Len(seq) \in (at - 1) .. Len(seq)  OBVIOUS
  <2>2. /\ SubSeq(seq, at, Len(seq)) \in Seq(S) /\ Len(SubSeq(seq, at, Len(seq))) = Len(seq) - at + 1
        /\ \A i \in 1 .. (Len(seq) - at + 1) : SubSeq(seq, at, Len(seq))[i] = seq[at + i - 1]
    BY <2>1, SubSeqPlaces
  <2> QED  BY <2>2, Zenon
<1>3. PICK one \in Seq(S) : one = << elt >> /\ Len(one) = 1 /\ one[1] = elt
  <2>1. << elt >> \in Seq(S) /\ Len(<< elt >>) = 1 /\ << elt >>[1] = elt  OBVIOUS
  <2> QED  BY <2>1
<1>4. PICK ab : ab = After(a, one)  OBVIOUS
<1>5. /\ ab \in Seq(S) /\ Len(ab) = Len(a) + Len(one)
      /\ \A i \in 1 .. Len(a) : ab[i] = a[i]
      /\ \A i \in 1 .. Len(one) : ab[Len(a) + i] = one[i]
  <2>1. After(a, one) \in Seq(S) /\ Len(After(a, one)) = Len(a) + Len(one)  BY AfterPlaces
  <2>2. \A i \in 1 .. Len(a) : After(a, one)[i] = a[i]  BY AfterPlaces
  <2>3. \A i \in 1 .. Len(one) : After(a, one)[Len(a) + i] = one[i]  BY AfterPlaces
  <2> QED  BY <1>4, <2>1, <2>2, <2>3, Zenon
<1>6. PICK new : new = After(ab, b)  OBVIOUS
<1>7. /\ new \in Seq(S) /\ Len(new) = Len(ab) + Len(b)
      /\ \A i \in 1 .. Len(ab) : new[i] = ab[i]
      /\ \A i \in 1 .. Len(b) : new[Len(ab) + i] = b[i]
  <2>0. ab \in Seq(S)  BY <1>5
  <2>1. After(ab, b) \in Seq(S) /\ Len(After(ab, b)) = Len(ab) + Len(b)  BY <2>0, AfterPlaces
  <2>2. \A i \in 1 .. Len(ab) : After(ab, b)[i] = ab[i]  BY <2>0, AfterPlaces
  <2>3. \A i \in 1 .. Len(b) : After(ab, b)[Len(ab) + i] = b[i]  BY <2>0, AfterPlaces
  <2> QED  BY <1>6, <2>1, <2>2, <2>3, Zenon
<1>8. new = InsertAt(seq, at, elt)  BY <1>1, <1>2, <1>3, <1>4, <1>6 DEF InsertAt, After
<1>9. Len(ab) = at /\ Len(a) = at - 1 /\ Len(b) = Len(seq) - at + 1
  <2>1. Len(a) = at - 1 /\ Len(one) = 1 /\ Len(ab) = Len(a) + Len(one)  BY <1>1, <1>3, <1>5
  <2> QED  BY <2>1, <1>0, <1>2
<1>10. Len(new) = Len(seq) + 1
  <2>1. Len(new) = Len(ab) + Len(b)  BY <1>7
  <2> QED  BY <2>1, <1>9, <1>0
<1>11. ASSUME NEW k \in 1 .. Len(new)
       PROVE  new[k] = IF k < at THEN seq[k] ELSE IF k = at THEN elt ELSE seq[k - 1]
  <2>1. CASE k < at
    <3>1. k \in 1 .. Len(ab) /\ k \in 1 .. Len(a) /\ k \in 1 .. (at - 1)  BY <2>1, <1>9, <1>0
    <3> QED  BY <2>1, <3>1, <1>1, <1>5, <1>7
  <2>2. CASE k = at
    <3>1. k \in 1 .. Len(ab) /\ 1 \in 1 .. Len(one) /\ Len(a) + 1 = k  BY <2>2, <1>9, <1>0, <1>3
    <3>2. ab[Len(a) + 1] = one[1]  BY <3>1, <1>5
    <3> QED  BY <2>2, <3>1, <3>2, <1>3, <1>7
  <2>3. CASE k > at
    <3>1. /\ k - at \in 1 .. Len(b) /\ k - at \in 1 .. (Len(seq) - at + 1)
          /\ Len(ab) + (k - at) = k /\ at + (k - at) - 1 = k - 1
      BY <2>3, <1>9, <1>10, <1>0
    <3>2. new[Len(ab) + (k - at)] = b[k - at]  BY <3>1, <1>7
    <3>3. b[k - at] = seq[at + (k - at) - 1]  BY <3>1, <1>2
    <3> QED  BY <2>3, <3>1, <3>2, <3>3, <1>0
  <2>4. k \in Nat  OBVIOUS
  <2> QED  BY <2>1, <2>2, <2>3, <2>4, <1>0
<1>12. Inserted(new, seq, at, elt)  BY <1>10, <1>11 DEF Inserted
<1> QED  BY <1>7, <1>8, <1>12

\* RemoveAt takes one out.
LEMMA RemoveIs ==
  ASSUME NEW S, NEW seq \in Seq(S), NEW at \in 1 .. Len(seq)
  PROVE  RemoveAt(seq, at) \in Seq(S) /\ Removed(RemoveAt(seq, at), seq, at)
<1>1. PICK new : new = RemoveAt(seq, at)  OBVIOUS
<1>2. /\ new \in Seq(S) /\ Len(new) = Len(seq) - 1
      /\ \A i \in 1 .. (Len(seq) - 1) : new[i] = seq[IF i < at THEN i ELSE i + 1]
  BY <1>1, RemovePlaces
<1>3. Removed(new, seq, at)  BY <1>2, Zenon DEF Removed
<1> QED  BY <1>1, <1>2, <1>3

-----------------------------------------------------------------------------
\* Lines of a text that hold some code, then nothing but empty lines.
Spans(text, a, e, code) ==
  /\ a \in 0 .. Len(text) /\ e \in a .. Len(text) /\ Len(code) <= e - a
  /\ \A k \in 1 .. Len(code) : text[a + k] = code[k]
  /\ \A k \in (Len(code) + 1) .. (e - a) : text[a + k] = Blank

\* The code of such lines is the code.
LEMMA SpanIs ==
  ASSUME NEW S, NEW text \in Seq(S), NEW code \in Seq(S), NEW a, NEW e, Spans(text, a, e, code)
  PROVE  WithoutTrailing(SubSeq(text, a + 1, e)) = WithoutTrailing(code)
<1>0. /\ Len(text) \in Nat /\ Len(code) \in Nat /\ a \in Nat /\ e \in Nat
      /\ a <= Len(text) /\ a <= e /\ e <= Len(text) /\ Len(code) <= e - a
  BY DEF Spans
<1>00. /\ \A k \in 1 .. Len(code) : text[a + k] = code[k]
       /\ \A k \in (Len(code) + 1) .. (e - a) : text[a + k] = Blank
  BY DEF Spans
<1>1. PICK span : span = SubSeq(text, a + 1, e)  OBVIOUS
<1>2. /\ span \in Seq(S) /\ Len(span) = e - a
      /\ \A i \in 1 .. (e - a) : span[i] = text[a + i]
  <2>1. a + 1 \in 1 .. (Len(text) + 1) /\ e \in (a + 1 - 1) .. Len(text)  BY <1>0
  <2>2. /\ SubSeq(text, a + 1, e) \in Seq(S) /\ Len(SubSeq(text, a + 1, e)) = e - (a + 1) + 1
        /\ \A i \in 1 .. (e - (a + 1) + 1) : SubSeq(text, a + 1, e)[i] = text[a + 1 + i - 1]
    <3>0. PICK m \in 1 .. (Len(text) + 1) : m = a + 1  BY <2>1
    <3>e. e \in (m - 1) .. Len(text)  BY <1>0, <3>0
    <3>1. PICK n \in (m - 1) .. Len(text) : n = e  BY <3>e
    <3>2. /\ SubSeq(text, m, n) \in Seq(S) /\ Len(SubSeq(text, m, n)) = n - m + 1
          /\ \A i \in 1 .. (n - m + 1) : SubSeq(text, m, n)[i] = text[m + i - 1]
      BY SubSeqPlaces
    <3> QED  BY <3>0, <3>1, <3>2
  <2>3. e - (a + 1) + 1 = e - a /\ \A i \in 1 .. (e - a) : a + 1 + i - 1 = a + i  BY <1>0
  <2>4. span \in Seq(S) /\ Len(span) = e - a  BY <1>1, <2>2, <2>3
  <2>5. ASSUME NEW i \in 1 .. (e - a) PROVE span[i] = text[a + i]
    BY <1>1, <2>2, <2>3
  <2> QED  BY <2>4, <2>5
<1>3. \A k \in 1 .. Len(code) : span[k] = code[k]
  <2>1. ASSUME NEW k \in 1 .. Len(code) PROVE span[k] = code[k]
    <3>1. k \in 1 .. (e - a)  BY <1>0
    <3> QED  BY <3>1, <1>2, <1>00
  <2> QED  BY <2>1
<1>4. \A k \in (Len(code) + 1) .. Len(span) : span[k] = Blank
  <2>1. ASSUME NEW k \in (Len(code) + 1) .. Len(span) PROVE span[k] = Blank
    <3>1. k \in 1 .. (e - a) /\ k \in (Len(code) + 1) .. (e - a)  BY <1>0, <1>2
    <3> QED  BY <3>1, <1>2, <1>00
  <2> QED  BY <2>1
<1>5. Len(code) <= Len(span)  BY <1>0, <1>2
<1> QED  BY <1>1, <1>2, <1>3, <1>4, <1>5, BlankEnd

-----------------------------------------------------------------------------
\* A text with headers.

\* The headers T are at h, in their order, and nowhere else.
HeadersAt(text, T, h) ==
  /\ h \in [1 .. Len(T) -> 1 .. Len(text)]
  /\ \A i \in 1 .. Len(T) : text[h[i]] = T[i]
  /\ \A i, j \in 1 .. Len(T) : i < j => h[i] < h[j]
  /\ \A n \in 1 .. Len(text), i \in 1 .. Len(T) : text[n] = T[i] => n = h[i]

\* Where the code under a header ends.
EndOf(text, T, h, i) == IF i < Len(T) THEN h[i + 1] - 1 ELSE Len(text)
Under(text, T, h, i) == WithoutTrailing(SubSeq(text, h[i] + 1, EndOf(text, T, h, i)))

\* A text made of functions: under each header the code, then an empty line.
Laid(text, T, L, h) ==
  /\ h \in [1 .. Len(T) -> Nat \ {0}]
  /\ \A i \in 1 .. Len(T) : /\ text[h[i]] = T[i]
                            /\ \A j \in 1 .. Len(L[i]) : text[h[i] + j] = L[i][j]
                            /\ h[i] + Len(L[i]) <= Len(text)
                            /\ i = Len(T) => h[i] + Len(L[i]) = Len(text)
  /\ \A i \in 1 .. Len(T) : i < Len(T) =>
       h[i + 1] = h[i] + Len(L[i]) + 2 /\ text[h[i] + Len(L[i]) + 1] = Blank
  /\ \A i, j \in 1 .. Len(T) : i < j => h[i] + Len(L[i]) + 2 <= h[j]

\* The headers after a line was put before line p.
Pushed(h, p) == [i \in DOMAIN h |-> IF h[i] < p THEN h[i] ELSE h[i] + 1]
Pulled(h, p) == [i \in DOMAIN h |-> IF h[i] < p THEN h[i] ELSE h[i] - 1]

\* The numbers about the i-th function of a text.
LEMMA LaidAt ==
  ASSUME NEW S, NEW text \in Seq(S), NEW T \in Seq(S), NEW L \in [1 .. Len(T) -> Seq(S)], NEW h,
         Laid(text, T, L, h), NEW i \in 1 .. Len(T)
  PROVE  /\ h[i] \in Nat \ {0} /\ Len(L[i]) \in Nat /\ Len(text) \in Nat /\ L[i] \in Seq(S)
         /\ text[h[i]] = T[i]
         /\ \A j \in 1 .. Len(L[i]) : text[h[i] + j] = L[i][j]
         /\ h[i] + Len(L[i]) <= Len(text)
         /\ i = Len(T) => h[i] + Len(L[i]) = Len(text)
         /\ i < Len(T) => /\ i + 1 \in 1 .. Len(T) /\ h[i + 1] \in Nat
                          /\ h[i + 1] = h[i] + Len(L[i]) + 2 /\ text[h[i] + Len(L[i]) + 1] = Blank
                          /\ h[i + 1] <= Len(text)
<1>1. Len(T) \in Nat /\ Len(text) \in Nat /\ L[i] \in Seq(S) /\ Len(L[i]) \in Nat  OBVIOUS
<1>2. h[i] \in Nat \ {0}  BY DEF Laid
<1>3. ASSUME i < Len(T) PROVE i + 1 \in 1 .. Len(T) /\ h[i + 1] \in Nat /\ h[i + 1] <= Len(text)
  <2>1. i + 1 \in 1 .. Len(T)  BY <1>3, <1>1
  <2>2. h[i + 1] \in Nat /\ h[i + 1] + Len(L[i + 1]) <= Len(text)  BY <2>1 DEF Laid
  <2>3. Len(L[i + 1]) \in Nat  BY <2>1
  <2> QED  BY <2>1, <2>2, <2>3, <1>1
<1> QED  BY <1>1, <1>2, <1>3 DEF Laid

\* A line put into a text lands in the code it is put into, or after it.
LEMMA UnderInserted ==
  ASSUME NEW S, NEW text \in Seq(S), NEW T \in Seq(S), NEW L \in [1 .. Len(T) -> Seq(S)], NEW h,
         Laid(text, T, L, h), NEW p \in 1 .. (Len(text) + 1), NEW line \in S,
         NEW new \in Seq(S), Inserted(new, text, p, line),
         NEW i \in 1 .. Len(T), i < Len(T) => new[Pushed(h, p)[i + 1] - 1] = Blank
  PROVE  /\ Into(h, L, p, i) =>
              Under(new, T, Pushed(h, p), i) = WithoutTrailing(InsertAt(L[i], p - h[i], line))
         /\ ~ Into(h, L, p, i) => Under(new, T, Pushed(h, p), i) = WithoutTrailing(L[i])
<1> DEFINE more == i < Len(T)
<1>1. PICK a \in Nat, z \in Nat, N \in Nat : a = h[i] /\ z = Len(L[i]) /\ N = Len(text)
  <2>1. h[i] \in Nat /\ Len(L[i]) \in Nat /\ Len(text) \in Nat  BY LaidAt
  <2> QED  BY <2>1
<1>2. PICK old \in Seq(S) : old = L[i]  BY LaidAt
<1>code. /\ \A j \in 1 .. z : text[a + j] = old[j]
         /\ Len(old) = z
  <2>1. \A j \in 1 .. Len(L[i]) : text[h[i] + j] = L[i][j]  BY DEF Laid
  <2> QED  BY <1>1, <1>2, <2>1
<1>new. /\ Len(new) = N + 1
        /\ \A k \in 1 .. (N + 1) : k < p => new[k] = text[k]
        /\ \A k \in 1 .. (N + 1) : k > p => new[k] = text[k - 1]
        /\ \A k \in 1 .. (N + 1) : k = p => new[k] = line
  <2>1. Len(new) = N + 1  BY <1>1 DEF Inserted
  <2>2. \A k \in 1 .. (N + 1) : new[k] = IF k < p THEN text[k] ELSE IF k = p THEN line ELSE text[k - 1]
    BY <2>1 DEF Inserted
  <2>3. ASSUME NEW k \in 1 .. (N + 1), k > p PROVE new[k] = text[k - 1]
    <3>1. ~ (k < p) /\ k # p  BY <2>3
    <3> QED  BY <2>2, <3>1, Zenon
  <2>4. ASSUME NEW k \in 1 .. (N + 1), k = p PROVE new[k] = line
    <3>1. ~ (k < p)  BY <2>4
    <3> QED  BY <2>2, <2>4, <3>1, Zenon
  <2> QED  BY <2>1, <2>2, <2>3, <2>4, Zenon
<1>3. a > 0 /\ a + z <= N /\ p \in Nat /\ 1 <= p /\ p <= N + 1
  <2>1. h[i] \in Nat \ {0} /\ h[i] + Len(L[i]) <= Len(text)  BY LaidAt
  <2>2. p \in 1 .. (N + 1)  BY <1>1
  <2> QED  BY <1>1, <2>1, <2>2
<1>last. ~ more => a + z = N
  <2>1. i = Len(T) => h[i] + Len(L[i]) = Len(text)  BY DEF Laid
  <2>2. ~ more => i = Len(T)
    <3>1. Len(T) \in Nat  OBVIOUS
    <3> QED  BY <1>1, <3>1
  <2> QED  BY <1>1, <2>1, <2>2
<1>mid. more => a + z + 2 <= N /\ text[a + z + 1] = Blank /\ h[i + 1] = a + z + 2 /\ i + 1 \in 1 .. Len(T)
  <2>1. i < Len(T) => /\ i + 1 \in 1 .. Len(T) /\ h[i + 1] \in Nat
                      /\ h[i + 1] = h[i] + Len(L[i]) + 2 /\ text[h[i] + Len(L[i]) + 1] = Blank
                      /\ h[i + 1] <= Len(text)
    BY LaidAt
  <2> QED  BY <1>1, <2>1
<1>4. PICK a2 \in Nat : a2 = Pushed(h, p)[i] /\ a2 = (IF a < p THEN a ELSE a + 1)
  <2>1. i \in DOMAIN h  BY DEF Laid
  <2>2. Pushed(h, p)[i] = IF a < p THEN a ELSE a + 1  BY <1>1, <2>1 DEF Pushed
  <2>3. (IF a < p THEN a ELSE a + 1) \in Nat  BY <1>3
  <2> QED  BY <2>2, <2>3
<1>5. PICK e \in Nat : /\ e = EndOf(new, T, Pushed(h, p), i)
                       /\ more /\ a + z + 2 < p => e = a + z + 1
                       /\ more /\ ~ (a + z + 2 < p) => e = a + z + 2
                       /\ ~ more => e = N + 1
  <2>1. CASE more
    <3>1. i + 1 \in DOMAIN h  BY <1>mid, <2>1 DEF Laid
    <3>2. Pushed(h, p)[i + 1] = IF a + z + 2 < p THEN a + z + 2 ELSE a + z + 2 + 1
      BY <1>mid, <2>1, <3>1 DEF Pushed
    <3>3. Pushed(h, p)[i + 1] - 1 = IF a + z + 2 < p THEN a + z + 1 ELSE a + z + 2
      BY <3>2, <1>3
    <3>4. EndOf(new, T, Pushed(h, p), i) = Pushed(h, p)[i + 1] - 1  BY <1>1, <2>1 DEF EndOf
    <3> QED  BY <2>1, <3>3, <3>4
  <2>2. CASE ~ more
    <3>1. EndOf(new, T, Pushed(h, p), i) = N + 1  BY <1>1, <1>new, <2>2 DEF EndOf
    <3> QED  BY <2>2, <3>1
  <2> QED  BY <2>1, <2>2
<1>sep. more /\ ~ (a + z + 2 < p) => new[a + z + 2] = Blank
  <2> SUFFICES ASSUME more, ~ (a + z + 2 < p) PROVE new[a + z + 2] = Blank  OBVIOUS
  <2>1. i + 1 \in DOMAIN h  BY <1>mid DEF Laid
  <2>2. Pushed(h, p)[i + 1] = a + z + 2 + 1
    BY <1>mid, <2>1 DEF Pushed
  <2>3. Pushed(h, p)[i + 1] - 1 = a + z + 2  BY <2>2, <1>3
  <2> QED  BY <1>1, <2>3
<1> HIDE DEF more
<1>6. a2 \in 0 .. Len(new) /\ e \in a2 .. Len(new)
  <2>1. a2 >= 0 /\ a2 <= e /\ e <= N + 1
    BY <1>3, <1>4, <1>5, <1>last, <1>mid
  <2> QED  BY <2>1, <1>new
<1>7. ASSUME p \in (a + 1) .. (a + z + 1)
      PROVE  Under(new, T, Pushed(h, p), i) = WithoutTrailing(InsertAt(L[i], p - h[i], line))
  <2>1. PICK ins : ins = InsertAt(old, p - a, line)  OBVIOUS
  <2>2. p - a \in 1 .. (Len(old) + 1) /\ p >= a + 1 /\ p <= a + z + 1
    <3>1. p >= a + 1 /\ p <= a + z + 1  BY <1>7
    <3> QED  BY <3>1, <1>code, <1>3
  <2>3. ins \in Seq(S) /\ Inserted(ins, old, p - a, line)  BY <2>1, <2>2, InsertPlaces
  <2>4. Len(ins) = z + 1 /\ \A k \in 1 .. (z + 1) :
          ins[k] = IF k < p - a THEN old[k] ELSE IF k = p - a THEN line ELSE old[k - 1]
    BY <2>3, <1>code DEF Inserted
  <2>a. a2 = a  BY <2>2, <1>4
  <2>6. /\ more => e = a + z + 2
        /\ ~ more => e = a + z + 1
    <3>1. ~ (a + z + 2 < p)  BY <2>2, <1>3
    <3>2. ~ more => N + 1 = a + z + 1  BY <1>last
    <3> QED  BY <3>1, <3>2, <1>5, Zenon
  <2>7. ASSUME NEW k \in 1 .. Len(ins) PROVE new[a2 + k] = ins[k]
    <3>1. k \in Nat /\ 1 <= k /\ k <= z + 1 /\ k \in 1 .. (z + 1)  BY <2>4
    <3>2. a + z <= N /\ a + k \in 1 .. (N + 1)  BY <3>1, <1>3
    <3>3. CASE k < p - a
      <4>1. a + k < p /\ k \in 1 .. z  BY <2>2, <3>1, <3>3, <1>3
      <4>2. new[a + k] = text[a + k]  BY <3>2, <4>1, <1>new
      <4>3. text[a + k] = old[k]  BY <4>1, <1>code
      <4>4. ins[k] = old[k]  BY <3>1, <3>3, <2>4
      <4> QED  BY <4>2, <4>3, <4>4, <2>a
    <3>4. CASE k = p - a
      <4>1. a + k = p /\ ~ (k < p - a)  BY <3>4, <1>3
      <4>2. new[a + k] = line  BY <3>2, <4>1, <1>new
      <4>3. ins[k] = line  BY <3>1, <3>4, <4>1, <2>4
      <4> QED  BY <4>2, <4>3, <2>a
    <3>5. CASE k > p - a
      <4>1. /\ a + k > p /\ k - 1 \in 1 .. z /\ a + k - 1 = a + (k - 1)
            /\ ~ (k < p - a) /\ k # p - a
        BY <2>2, <3>1, <3>5, <1>3
      <4>2. new[a + k] = text[a + k - 1]  BY <3>2, <4>1, <1>new
      <4>3. text[a + (k - 1)] = old[k - 1]  BY <4>1, <1>code
      <4>4. ins[k] = old[k - 1]  BY <3>1, <4>1, <2>4, Zenon
      <4> QED  BY <4>1, <4>2, <4>3, <4>4, <2>a
    <3>6. k < p - a \/ k = p - a \/ k > p - a  BY <3>1, <1>3
    <3> QED  BY <3>3, <3>4, <3>5, <3>6
  <2>8. ASSUME NEW k \in (Len(ins) + 1) .. (e - a2) PROVE new[a2 + k] = Blank
    <3>0. k \in Int /\ k >= z + 2 /\ k <= e - a  BY <2>4, <2>a
    <3>1. more /\ k = z + 2  BY <3>0, <2>6
    <3>2. a2 + k = a + z + 2 /\ ~ (a + z + 2 < p)  BY <3>1, <2>a, <2>2, <1>3
    <3> QED  BY <3>1, <3>2, <1>sep
  <2>9. Len(ins) <= e - a2  BY <2>4, <2>a, <2>6
  <2>10. WithoutTrailing(SubSeq(new, a2 + 1, e)) = WithoutTrailing(ins)
    <3>1. ins \in Seq(S)  BY <2>3
    <3>2. Spans(new, a2, e, ins)  BY <2>7, <2>8, <2>9, <1>6, Zenon DEF Spans
    <3> QED  BY <3>1, <3>2, SpanIs
  <2> QED  BY <2>1, <2>10, <1>1, <1>2, <1>4, <1>5, <1>7 DEF Under
<1>8. ASSUME ~ (p \in (a + 1) .. (a + z + 1))
      PROVE  Under(new, T, Pushed(h, p), i) = WithoutTrailing(L[i])
  <2>0. p <= a \/ p >= a + z + 2  BY <1>8, <1>3
  <2>1. p >= a + z + 2 => more  BY <1>3, <1>last
  <2>2. CASE p <= a
    <3>1. a2 = a + 1 /\ (more => e = a + z + 2) /\ (~ more => e = a + z + 1)
      BY <2>2, <1>3, <1>4, <1>5, <1>last
    <3>2. ASSUME NEW k \in 1 .. (z + 1), k <= z \/ more PROVE new[a2 + k] = text[a + k]
      <4>0. k \in Nat /\ 1 <= k /\ k <= z + 1  OBVIOUS
      <4>1. a + 1 + k \in 1 .. (N + 1) /\ a + 1 + k > p /\ a + 1 + k - 1 = a + k
        BY <2>2, <3>2, <4>0, <1>3, <1>mid
      <4>2. new[a + 1 + k] = text[a + 1 + k - 1]  BY <4>1, <1>new
      <4> QED  BY <3>1, <4>1, <4>2
    <3>3. ASSUME NEW k \in 1 .. Len(old) PROVE new[a2 + k] = old[k]
      <4>1. k \in 1 .. z /\ k \in 1 .. (z + 1) /\ k <= z  BY <1>code
      <4> QED  BY <4>1, <3>2, <1>code
    <3>4. ASSUME NEW k \in (Len(old) + 1) .. (e - a2) PROVE new[a2 + k] = Blank
      <4>0. k \in Int /\ k >= z + 1 /\ k <= e - a2  BY <1>code
      <4>1. more /\ k = z + 1  BY <4>0, <3>1
      <4>2. k \in 1 .. (z + 1)  BY <4>1
      <4>3. new[a2 + k] = text[a + k]  BY <4>1, <4>2, <3>2
      <4>4. a + k = a + z + 1  BY <4>1
      <4> QED  BY <4>1, <4>3, <4>4, <1>mid
    <3>5. Len(old) <= e - a2  BY <3>1, <1>code
    <3>6. WithoutTrailing(SubSeq(new, a2 + 1, e)) = WithoutTrailing(old)
      <4>1. Spans(new, a2, e, old)  BY <3>3, <3>4, <3>5, <1>6, Zenon DEF Spans
      <4> QED  BY <4>1, SpanIs
    <3> QED  BY <3>6, <1>1, <1>2, <1>4, <1>5, <1>8 DEF Under
  <2>3. CASE p >= a + z + 2
    <3>1. a2 = a /\ more /\ e = IF a + z + 2 < p THEN a + z + 1 ELSE a + z + 2
      BY <2>1, <2>3, <1>3, <1>4, <1>5
    <3>2. ASSUME NEW k \in 1 .. (z + 1) PROVE new[a2 + k] = text[a + k]
      <4>0. k \in Nat /\ 1 <= k /\ k <= z + 1  OBVIOUS
      <4>1. a + k \in 1 .. (N + 1) /\ a + k < p  BY <2>3, <4>0, <1>3
      <4> QED  BY <3>1, <4>1, <1>new
    <3>3. ASSUME NEW k \in 1 .. Len(old) PROVE new[a2 + k] = old[k]
      <4>1. k \in 1 .. z /\ k \in 1 .. (z + 1)  BY <1>code
      <4> QED  BY <4>1, <3>2, <1>code
    <3>4. ASSUME NEW k \in (Len(old) + 1) .. (e - a2) PROVE new[a2 + k] = Blank
      <4>0. k \in Int /\ k >= z + 1 /\ k <= e - a2  BY <1>code
      <4>1. CASE k = z + 1
        <5>1. k \in 1 .. (z + 1) /\ a + k = a + z + 1  BY <4>1
        <5> QED  BY <5>1, <3>1, <3>2, <1>mid
      <4>2. CASE k # z + 1
        <5>1. k = z + 2 /\ ~ (a + z + 2 < p)  BY <4>0, <4>2, <3>1
        <5>2. a2 + k = a + z + 2  BY <5>1, <3>1
        <5> QED  BY <5>1, <5>2, <3>1, <1>sep
      <4> QED  BY <4>1, <4>2
    <3>5. Len(old) <= e - a2  BY <3>1, <1>code
    <3>6. WithoutTrailing(SubSeq(new, a2 + 1, e)) = WithoutTrailing(old)
      <4>1. Spans(new, a2, e, old)  BY <3>3, <3>4, <3>5, <1>6, Zenon DEF Spans
      <4> QED  BY <4>1, SpanIs
    <3> QED  BY <3>6, <1>1, <1>2, <1>4, <1>5, <1>8 DEF Under
  <2> QED  BY <2>0, <2>2, <2>3
<1> QED  BY <1>1, <1>7, <1>8, Zenon DEF Into

\* A line was put into a text with headers.
PutInto(S, text, T, L, h, p, line, new) ==
  /\ text \in Seq(S) /\ T \in Seq(S) /\ L \in [1 .. Len(T) -> Seq(S)] /\ Laid(text, T, L, h)
  /\ p \in 1 .. (Len(text) + 1) /\ line \in S
  /\ new \in Seq(S) /\ Inserted(new, text, p, line)

\* What is under a header then.
LEMMA CodeAfterInsertion ==
  ASSUME NEW S, NEW text, NEW T, NEW L, NEW h, NEW p, NEW line, NEW new,
         PutInto(S, text, T, L, h, p, line, new),
         NEW i \in 1 .. Len(T), i < Len(T) => new[Pushed(h, p)[i + 1] - 1] = Blank
  PROVE  /\ Into(h, L, p, i) =>
              Under(new, T, Pushed(h, p), i) = WithoutTrailing(InsertAt(L[i], p - h[i], line))
         /\ ~ Into(h, L, p, i) => Under(new, T, Pushed(h, p), i) = WithoutTrailing(L[i])
<1>1. /\ text \in Seq(S) /\ T \in Seq(S) /\ L \in [1 .. Len(T) -> Seq(S)] /\ Laid(text, T, L, h)
      /\ p \in 1 .. (Len(text) + 1) /\ line \in S
      /\ new \in Seq(S) /\ Inserted(new, text, p, line)
  BY DEF PutInto
<1>2. ~ Into(h, L, p, i) => Under(new, T, Pushed(h, p), i) = WithoutTrailing(L[i])  BY <1>1, UnderInserted, SMTT(20)
<1>3. Into(h, L, p, i) => Under(new, T, Pushed(h, p), i) = WithoutTrailing(InsertAt(L[i], p - h[i], line))
  BY <1>1, UnderInserted, SMTT(20)
<1> QED  BY <1>2, <1>3

\* A line taken out of a text is taken out of the code it was in, if it was in any.
LEMMA UnderRemoved ==
  ASSUME NEW S, NEW text \in Seq(S), NEW T \in Seq(S), NEW L \in [1 .. Len(T) -> Seq(S)], NEW h,
         Laid(text, T, L, h), NEW p \in 1 .. Len(text), \A j \in 1 .. Len(T) : h[j] # p,
         NEW new \in Seq(S), Removed(new, text, p), NEW i \in 1 .. Len(T)
  PROVE  /\ Of(h, L, p, i) => Under(new, T, Pulled(h, p), i) = WithoutTrailing(RemoveAt(L[i], p - h[i]))
         /\ ~ Of(h, L, p, i) => Under(new, T, Pulled(h, p), i) = WithoutTrailing(L[i])
<1> DEFINE more == i < Len(T)
<1>1. PICK a \in Nat, z \in Nat, N \in Nat : a = h[i] /\ z = Len(L[i]) /\ N = Len(text)
  <2>1. h[i] \in Nat /\ Len(L[i]) \in Nat /\ Len(text) \in Nat  BY LaidAt
  <2> QED  BY <2>1
<1>2. PICK old \in Seq(S) : old = L[i]  BY LaidAt
<1>code. /\ \A j \in 1 .. z : text[a + j] = old[j]
         /\ Len(old) = z
  <2>1. \A j \in 1 .. Len(L[i]) : text[h[i] + j] = L[i][j]  BY DEF Laid
  <2> QED  BY <1>1, <1>2, <2>1
<1>3. /\ a > 0 /\ a + z <= N /\ p \in Nat /\ 1 <= p /\ p <= N /\ p # a
      /\ N - 1 \in Nat
  <2>1. h[i] \in Nat \ {0} /\ h[i] + Len(L[i]) <= Len(text)  BY LaidAt
  <2>2. p \in 1 .. N /\ p # a  BY <1>1
  <2> QED  BY <1>1, <2>1, <2>2
<1>new. /\ Len(new) = N - 1
        /\ \A k \in 1 .. (N - 1) : k < p => new[k] = text[k]
        /\ \A k \in 1 .. (N - 1) : k >= p => new[k] = text[k + 1]
  <2>1. Len(new) = N - 1  BY <1>1 DEF Removed
  <2>2. \A k \in 1 .. (N - 1) : new[k] = text[IF k < p THEN k ELSE k + 1]
    BY <2>1 DEF Removed
  <2>3. ASSUME NEW k \in 1 .. (N - 1), k >= p PROVE new[k] = text[k + 1]
    <3>1. ~ (k < p)  BY <2>3, <1>3
    <3> QED  BY <2>2, <3>1, Zenon
  <2> QED  BY <2>1, <2>2, <2>3, Zenon
<1>last. ~ more => a + z = N
  <2>1. i = Len(T) => h[i] + Len(L[i]) = Len(text)  BY DEF Laid
  <2>2. ~ more => i = Len(T)
    <3>1. Len(T) \in Nat  OBVIOUS
    <3> QED  BY <1>1, <3>1
  <2> QED  BY <1>1, <2>1, <2>2
<1>mid. more => /\ a + z + 2 <= N /\ text[a + z + 1] = Blank /\ h[i + 1] = a + z + 2
                /\ i + 1 \in 1 .. Len(T) /\ p # a + z + 2
  <2>1. i < Len(T) => /\ i + 1 \in 1 .. Len(T) /\ h[i + 1] \in Nat
                      /\ h[i + 1] = h[i] + Len(L[i]) + 2 /\ text[h[i] + Len(L[i]) + 1] = Blank
                      /\ h[i + 1] <= Len(text)
    BY LaidAt
  <2> QED  BY <1>1, <2>1
<1>4. PICK a2 \in Nat : a2 = Pulled(h, p)[i] /\ a2 = (IF a < p THEN a ELSE a - 1)
  <2>1. i \in DOMAIN h  BY DEF Laid
  <2>2. Pulled(h, p)[i] = IF a < p THEN a ELSE a - 1  BY <1>1, <2>1 DEF Pulled
  <2>3. (IF a < p THEN a ELSE a - 1) \in Nat  BY <1>3
  <2> QED  BY <2>2, <2>3
<1>5. PICK e \in Nat : /\ e = EndOf(new, T, Pulled(h, p), i)
                       /\ more /\ a + z + 2 < p => e = a + z + 1
                       /\ more /\ ~ (a + z + 2 < p) => e = a + z
                       /\ ~ more => e = N - 1
  <2>1. CASE more
    <3>1. i + 1 \in DOMAIN h  BY <1>mid, <2>1 DEF Laid
    <3>2. Pulled(h, p)[i + 1] = IF a + z + 2 < p THEN a + z + 2 ELSE a + z + 2 - 1
      BY <1>mid, <2>1, <3>1 DEF Pulled
    <3>3. Pulled(h, p)[i + 1] - 1 = IF a + z + 2 < p THEN a + z + 1 ELSE a + z
      BY <3>2, <1>3
    <3>4. EndOf(new, T, Pulled(h, p), i) = Pulled(h, p)[i + 1] - 1  BY <1>1, <2>1 DEF EndOf
    <3> QED  BY <2>1, <3>3, <3>4
  <2>2. CASE ~ more
    <3>1. EndOf(new, T, Pulled(h, p), i) = N - 1  BY <1>1, <1>new, <2>2 DEF EndOf
    <3> QED  BY <2>2, <3>1, <1>3
  <2> QED  BY <2>1, <2>2
<1> HIDE DEF more
<1>6. a2 \in 0 .. Len(new) /\ e \in a2 .. Len(new)
  <2>1. a2 >= 0 /\ a2 <= e /\ e <= N - 1
    <3>1. CASE more  BY <3>1, <1>3, <1>4, <1>5, <1>mid
    <3>2. CASE ~ more  BY <3>2, <1>3, <1>4, <1>5, <1>last
    <3> QED  BY <3>1, <3>2
  <2> QED  BY <2>1, <1>new
<1>7. ASSUME p \in (a + 1) .. (a + z)
      PROVE  Under(new, T, Pulled(h, p), i) = WithoutTrailing(RemoveAt(L[i], p - h[i]))
  <2>1. PICK rem : rem = RemoveAt(old, p - a)  OBVIOUS
  <2>2. p - a \in 1 .. Len(old) /\ p >= a + 1 /\ p <= a + z
    <3>1. p >= a + 1 /\ p <= a + z  BY <1>7
    <3> QED  BY <3>1, <1>code, <1>3
  <2>3. rem \in Seq(S) /\ Removed(rem, old, p - a)  BY <2>1, <2>2, RemoveIs
  <2>4. Len(rem) = z - 1 /\ \A k \in 1 .. (z - 1) : rem[k] = old[IF k < p - a THEN k ELSE k + 1]
    BY <2>3, <1>code DEF Removed
  <2>a. a2 = a  BY <2>2, <1>4
  <2>6. /\ more => e = a + z
        /\ ~ more => e = a + z - 1
    <3>1. ~ (a + z + 2 < p)  BY <2>2, <1>3
    <3>2. ~ more => N - 1 = a + z - 1  BY <1>last
    <3> QED  BY <3>1, <3>2, <1>5, Zenon
  <2>7. ASSUME NEW k \in 1 .. Len(rem) PROVE new[a2 + k] = rem[k]
    <3>1. k \in Nat /\ 1 <= k /\ k <= z - 1 /\ k \in 1 .. (z - 1)  BY <2>4
    <3>2. a + k \in 1 .. (N - 1)  BY <3>1, <1>3
    <3>3. CASE k < p - a
      <4>1. a + k < p /\ k \in 1 .. z  BY <2>2, <3>1, <3>3, <1>3
      <4>2. new[a + k] = text[a + k]  BY <3>2, <4>1, <1>new
      <4>3. text[a + k] = old[k]  BY <4>1, <1>code
      <4>4. rem[k] = old[k]  BY <3>1, <3>3, <2>4
      <4> QED  BY <4>2, <4>3, <4>4, <2>a
    <3>4. CASE ~ (k < p - a)
      <4>1. a + k >= p /\ k + 1 \in 1 .. z /\ a + k + 1 = a + (k + 1)
        BY <2>2, <3>1, <3>4, <1>3
      <4>2. new[a + k] = text[a + k + 1]  BY <3>2, <4>1, <1>new
      <4>3. text[a + (k + 1)] = old[k + 1]  BY <4>1, <1>code
      <4>4. rem[k] = old[k + 1]  BY <3>1, <3>4, <2>4, Zenon
      <4> QED  BY <4>1, <4>2, <4>3, <4>4, <2>a
    <3> QED  BY <3>3, <3>4
  <2>8. ASSUME NEW k \in (Len(rem) + 1) .. (e - a2) PROVE new[a2 + k] = Blank
    <3>0. k \in Int /\ k >= z /\ k <= e - a  BY <2>4, <2>a
    <3>1. more /\ k = z
      <4>1. ~ more => e - a = z - 1  BY <2>6
      <4>2. more => e - a = z  BY <2>6
      <4> QED  BY <3>0, <4>1, <4>2
    <3>2. a + z \in 1 .. (N - 1) /\ a + z >= p /\ a2 + k = a + z
      BY <3>1, <2>a, <2>2, <1>3, <1>mid
    <3>3. new[a + z] = text[a + z + 1]  BY <3>2, <1>new
    <3> QED  BY <3>1, <3>2, <3>3, <1>mid
  <2>9. Len(rem) <= e - a2
    <3>1. e = a + z \/ e = a + z - 1  BY <2>6
    <3> QED  BY <3>1, <2>4, <2>a
  <2>10. WithoutTrailing(SubSeq(new, a2 + 1, e)) = WithoutTrailing(rem)
    <3>1. rem \in Seq(S)  BY <2>3
    <3>2. Spans(new, a2, e, rem)  BY <2>7, <2>8, <2>9, <1>6, Zenon DEF Spans
    <3> QED  BY <3>1, <3>2, SpanIs
  <2> QED  BY <2>1, <2>10, <1>1, <1>2, <1>4, <1>5, <1>7 DEF Under
<1>8. ASSUME ~ (p \in (a + 1) .. (a + z))
      PROVE  Under(new, T, Pulled(h, p), i) = WithoutTrailing(L[i])
  <2>0. p < a \/ p >= a + z + 1  BY <1>8, <1>3
  <2>1. p >= a + z + 1 => more  BY <1>3, <1>last
  <2>2. CASE p < a
    <3>0. ~ (a < p) /\ ~ (a + z + 2 < p)  BY <2>2, <1>3
    <3>1. a2 = a - 1 /\ (more => e = a + z) /\ (~ more => e = a + z - 1)
      <4>1. ~ more => N - 1 = a + z - 1  BY <1>last
      <4> QED  BY <3>0, <4>1, <1>4, <1>5, Zenon
    <3>2. ASSUME NEW k \in 1 .. (z + 1), k <= z \/ more PROVE new[a2 + k] = text[a + k]
      <4>0. k \in Nat /\ 1 <= k /\ k <= z + 1  OBVIOUS
      <4>m. a + k <= N
        <5>1. CASE k <= z  BY <5>1, <4>0, <1>3
        <5>2. CASE more  BY <5>2, <4>0, <1>3, <1>mid
        <5> QED  BY <5>1, <5>2, <3>2
      <4>1. a - 1 + k \in 1 .. (N - 1) /\ a - 1 + k >= p /\ a - 1 + k + 1 = a + k
        BY <2>2, <4>m, <4>0, <1>3
      <4>2. new[a - 1 + k] = text[a - 1 + k + 1]  BY <4>1, <1>new
      <4> QED  BY <3>1, <4>1, <4>2
    <3>3. ASSUME NEW k \in 1 .. Len(old) PROVE new[a2 + k] = old[k]
      <4>1. k \in 1 .. z /\ k \in 1 .. (z + 1) /\ k <= z  BY <1>code
      <4> QED  BY <4>1, <3>2, <1>code
    <3>4. ASSUME NEW k \in (Len(old) + 1) .. (e - a2) PROVE new[a2 + k] = Blank
      <4>0. k \in Int /\ k >= z + 1 /\ k <= e - a2  BY <1>code
      <4>1. more /\ k = z + 1
        <5>1. ~ more => e - a2 = z  BY <3>1
        <5>2. more => e - a2 = z + 1  BY <3>1
        <5> QED  BY <4>0, <5>1, <5>2
      <4>2. k \in 1 .. (z + 1)  BY <4>1
      <4>3. new[a2 + k] = text[a + k]  BY <4>1, <4>2, <3>2
      <4>4. a + k = a + z + 1  BY <4>1
      <4> QED  BY <4>1, <4>3, <4>4, <1>mid
    <3>5. Len(old) <= e - a2
      <4>1. e = a + z \/ e = a + z - 1  BY <3>1
      <4> QED  BY <3>1, <4>1, <1>code, <1>3
    <3>6. WithoutTrailing(SubSeq(new, a2 + 1, e)) = WithoutTrailing(old)
      <4>1. Spans(new, a2, e, old)  BY <3>3, <3>4, <3>5, <1>6, Zenon DEF Spans
      <4> QED  BY <4>1, SpanIs
    <3> QED  BY <3>6, <1>1, <1>2, <1>4, <1>5, <1>8 DEF Under
  <2>3. CASE p >= a + z + 1
    <3>1. a2 = a /\ more /\ (a + z + 2 < p => e = a + z + 1) /\ (~ (a + z + 2 < p) => e = a + z)
      <4>1. a < p  BY <2>3, <1>3
      <4> QED  BY <4>1, <2>1, <2>3, <1>4, <1>5, Zenon
    <3>2. ASSUME NEW k \in 1 .. (z + 1), a + k < p PROVE new[a2 + k] = text[a + k]
      <4>0. k \in Nat /\ 1 <= k /\ k <= z + 1  OBVIOUS
      <4>1. a + k \in 1 .. (N - 1)  BY <2>3, <3>2, <4>0, <1>3
      <4> QED  BY <3>1, <3>2, <4>1, <1>new
    <3>3. ASSUME NEW k \in 1 .. Len(old) PROVE new[a2 + k] = old[k]
      <4>1. k \in 1 .. z /\ k \in 1 .. (z + 1) /\ a + k < p  BY <1>code, <2>3, <1>3
      <4> QED  BY <4>1, <3>2, <1>code
    <3>4. ASSUME NEW k \in (Len(old) + 1) .. (e - a2) PROVE new[a2 + k] = Blank
      <4>0. k \in Int /\ k >= z + 1 /\ k <= e - a2  BY <1>code
      <4>1. k = z + 1 /\ a + z + 2 < p
        <5>1. CASE a + z + 2 < p  BY <4>0, <5>1, <3>1
        <5>2. CASE ~ (a + z + 2 < p)  BY <4>0, <5>2, <3>1
        <5> QED  BY <5>1, <5>2
      <4>2. k \in 1 .. (z + 1) /\ a + k = a + z + 1 /\ a + k < p  BY <4>1, <1>3
      <4> QED  BY <4>2, <3>1, <3>2, <1>mid
    <3>5. Len(old) <= e - a2
      <4>1. e = a + z \/ e = a + z + 1  BY <3>1
      <4> QED  BY <3>1, <4>1, <1>code, <1>3
    <3>6. WithoutTrailing(SubSeq(new, a2 + 1, e)) = WithoutTrailing(old)
      <4>1. Spans(new, a2, e, old)  BY <3>3, <3>4, <3>5, <1>6, Zenon DEF Spans
      <4> QED  BY <4>1, SpanIs
    <3> QED  BY <3>6, <1>1, <1>2, <1>4, <1>5, <1>8 DEF Under
  <2> QED  BY <2>0, <2>2, <2>3
<1> QED  BY <1>1, <1>7, <1>8, Zenon DEF Of

\* A line that is no header was taken out of a text with headers.
TakenOut(S, text, T, L, h, p, new) ==
  /\ text \in Seq(S) /\ T \in Seq(S) /\ L \in [1 .. Len(T) -> Seq(S)] /\ Laid(text, T, L, h)
  /\ p \in 1 .. Len(text) /\ \A j \in 1 .. Len(T) : h[j] # p
  /\ new \in Seq(S) /\ Removed(new, text, p)

\* What is under a header then.
LEMMA CodeAfterRemoval ==
  ASSUME NEW S, NEW text, NEW T, NEW L, NEW h, NEW p, NEW new,
         TakenOut(S, text, T, L, h, p, new), NEW i \in 1 .. Len(T)
  PROVE  /\ Of(h, L, p, i) => Under(new, T, Pulled(h, p), i) = WithoutTrailing(RemoveAt(L[i], p - h[i]))
         /\ ~ Of(h, L, p, i) => Under(new, T, Pulled(h, p), i) = WithoutTrailing(L[i])
<1>1. /\ text \in Seq(S) /\ T \in Seq(S) /\ L \in [1 .. Len(T) -> Seq(S)] /\ Laid(text, T, L, h)
      /\ p \in 1 .. Len(text) /\ \A j \in 1 .. Len(T) : h[j] # p
      /\ new \in Seq(S) /\ Removed(new, text, p)
  BY DEF TakenOut
<1> QED  BY <1>1, UnderRemoved, Z3

\* A function in the text: a header over its code, after an empty line unless it is the first.
Part(T, L, i) ==
  IF i = 1 THEN After(<< T[i] >>, L[i]) ELSE After(<< Blank >>, After(<< T[i] >>, L[i]))

\* The lines of a part.
LEMMA PartPlaces ==
  ASSUME NEW S, Blank \in S, NEW T \in Seq(S), NEW L \in [1 .. Len(T) -> Seq(S)], NEW i \in 1 .. Len(T)
  PROVE  /\ Part(T, L, i) \in Seq(S)
         /\ i = 1 => /\ Len(Part(T, L, i)) = Len(L[i]) + 1 /\ Part(T, L, i)[1] = T[i]
                     /\ \A j \in 1 .. Len(L[i]) : Part(T, L, i)[1 + j] = L[i][j]
         /\ i # 1 => /\ Len(Part(T, L, i)) = Len(L[i]) + 2
                     /\ Part(T, L, i)[1] = Blank /\ Part(T, L, i)[2] = T[i]
                     /\ \A j \in 1 .. Len(L[i]) : Part(T, L, i)[2 + j] = L[i][j]
<1>1. PICK code \in Seq(S) : code = L[i]  OBVIOUS
<1>2. PICK head \in Seq(S) : head = << T[i] >> /\ Len(head) = 1 /\ head[1] = T[i]
  <2>1. << T[i] >> \in Seq(S) /\ Len(<< T[i] >>) = 1 /\ << T[i] >>[1] = T[i]  OBVIOUS
  <2> QED  BY <2>1
<1>3. PICK line \in Seq(S) : line = << Blank >> /\ Len(line) = 1 /\ line[1] = Blank
  <2>1. << Blank >> \in Seq(S) /\ Len(<< Blank >>) = 1 /\ << Blank >>[1] = Blank  OBVIOUS
  <2> QED  BY <2>1
<1>4. PICK first \in Seq(S) : first = After(head, code)  BY AfterPlaces
<1>5. /\ Len(first) = Len(code) + 1 /\ first[1] = T[i]
      /\ \A j \in 1 .. Len(code) : first[1 + j] = code[j]
  <2>1. Len(After(head, code)) = Len(head) + Len(code)  BY AfterPlaces
  <2>2. \A j \in 1 .. Len(head) : After(head, code)[j] = head[j]  BY AfterPlaces
  <2>3. \A j \in 1 .. Len(code) : After(head, code)[Len(head) + j] = code[j]  BY AfterPlaces
  <2>4. Len(code) \in Nat /\ 1 \in 1 .. Len(head)  BY <1>2
  <2> QED  BY <1>2, <1>4, <2>1, <2>2, <2>3, <2>4
<1>6. PICK next \in Seq(S) : next = After(line, first)  BY AfterPlaces
<1>7. /\ Len(next) = Len(code) + 2 /\ next[1] = Blank /\ next[2] = T[i]
      /\ \A j \in 1 .. Len(code) : next[2 + j] = code[j]
  <2>1. Len(After(line, first)) = Len(line) + Len(first)  BY AfterPlaces
  <2>2. \A j \in 1 .. Len(line) : After(line, first)[j] = line[j]  BY AfterPlaces
  <2>3. \A j \in 1 .. Len(first) : After(line, first)[Len(line) + j] = first[j]  BY AfterPlaces
  <2>4. Len(code) \in Nat /\ 1 \in 1 .. Len(line) /\ 1 \in 1 .. Len(first) /\ Len(line) + 1 = 2
    BY <1>3, <1>5
  <2>5. next[2] = first[1]  BY <2>3, <2>4, <1>6
  <2>6. ASSUME NEW j \in 1 .. Len(code) PROVE next[2 + j] = code[j]
    <3>1. 1 + j \in 1 .. Len(first) /\ Len(line) + (1 + j) = 2 + j  BY <1>3, <1>5, <2>4
    <3>2. next[2 + j] = first[1 + j]  BY <2>3, <3>1, <1>6
    <3> QED  BY <3>2, <1>5
  <2>7. Len(next) = Len(code) + 2  BY <2>1, <2>4, <1>3, <1>5, <1>6
  <2>8. next[1] = Blank  BY <2>2, <2>4, <1>3, <1>6
  <2> QED  BY <2>5, <2>6, <2>7, <2>8, <1>5
<1>8. Part(T, L, i) = IF i = 1 THEN first ELSE next  BY <1>1, <1>2, <1>3, <1>4, <1>6 DEF Part
<1>9. CASE i = 1  BY <1>1, <1>4, <1>5, <1>8, <1>9, Zenon
<1>10. CASE i # 1  BY <1>1, <1>6, <1>7, <1>8, <1>10, Zenon
<1> QED  BY <1>9, <1>10

\* The parts of a text laid end to end are a text with headers.
LEMMA LaidOut ==
  ASSUME NEW S, Blank \in S, NEW T \in Seq(S), NEW L \in [1 .. Len(T) -> Seq(S)],
         NEW text, text = FlattenSeq([i \in 1 .. Len(T) |-> Part(T, L, i)])
  PROVE  text \in Seq(S) /\ \E h : Laid(text, T, L, h)
<1>1. PICK parts : parts = [i \in 1 .. Len(T) |-> Part(T, L, i)]  OBVIOUS
<1>m. PICK m \in Nat : m = Len(T)  OBVIOUS
<1>2. parts \in Seq(Seq(S)) /\ Len(parts) = m
  <2>1. \A i \in 1 .. m : parts[i] \in Seq(S)  BY <1>1, <1>m, PartPlaces
  <2>2. parts \in [1 .. m -> Seq(S)]  BY <1>1, <1>m, <2>1
  <2> QED  BY <2>2
<1>3. PICK off : Offsets(off, parts) /\ text \in Seq(S) /\ Len(text) = off[Len(parts)] /\ Placed(text, parts, off)
  BY <1>1, <1>2, FlattenPlaces
<1>4. \A k \in 0 .. m : off[k] \in Nat  BY <1>2, <1>3 DEF Offsets
<1>5. off[0] = 0  BY <1>3 DEF Offsets
<1>6. \A k, l \in 0 .. m : k <= l => off[k] <= off[l]
  <2>1. ASSUME NEW k \in 0 .. m, NEW l \in 0 .. m, k <= l PROVE off[k] <= off[l]
    <3>1. k \in 0 .. Len(parts) /\ l \in k .. Len(parts)  BY <2>1, <1>2
    <3> QED  BY <3>1, <1>2, <1>3, OffsetsGrow
  <2> QED  BY <2>1
<1>7. \A k \in 1 .. m : off[k] = off[k - 1] + Len(parts[k])  BY <1>2, <1>3 DEF Offsets
<1>8. PICK h : h = [i \in 1 .. m |-> IF i = 1 THEN 1 ELSE off[i - 1] + 2]  OBVIOUS
<1>9. h \in [1 .. m -> Nat \ {0}]  BY <1>4, <1>8
<1>10. ASSUME NEW i \in 1 .. m
       PROVE  /\ Len(L[i]) \in Nat /\ h[i] + Len(L[i]) = off[i] /\ text[h[i]] = T[i]
              /\ \A j \in 1 .. Len(L[i]) : text[h[i] + j] = L[i][j]
              /\ i # 1 => h[i] = off[i - 1] + 2 /\ text[off[i - 1] + 1] = Blank
  <2>1. PICK z \in Nat : z = Len(L[i])
    <3>1. L[i] \in Seq(S)  BY <1>m
    <3> QED  BY <3>1
  <2>2. PICK before \in Nat : before = off[i - 1]  BY <1>4
  <2>3. parts[i] = Part(T, L, i)  BY <1>1, <1>m
  <2>4. \A j \in 1 .. Len(parts[i]) : text[before + j] = parts[i][j]  BY <1>2, <1>3, <2>2 DEF Placed
  <2>5. off[i] = before + Len(parts[i])  BY <1>7, <2>2
  <2>6. CASE i = 1
    <3>1. /\ Len(parts[i]) = z + 1 /\ parts[i][1] = T[i]
          /\ \A j \in 1 .. z : parts[i][1 + j] = L[i][j]
      BY <2>1, <2>3, <2>6, <1>m, PartPlaces
    <3>2. h[i] = 1 /\ before = 0  BY <2>2, <2>6, <1>5, <1>8
    <3>3. text[1] = T[i]
      <4>1. 1 \in 1 .. Len(parts[i]) /\ before + 1 = 1  BY <3>1, <3>2
      <4> QED  BY <4>1, <2>4, <3>1
    <3>4. ASSUME NEW j \in 1 .. z PROVE text[1 + j] = L[i][j]
      <4>1. 1 + j \in 1 .. Len(parts[i]) /\ before + (1 + j) = 1 + j  BY <3>1, <3>2
      <4>2. text[before + (1 + j)] = parts[i][1 + j]  BY <4>1, <2>4
      <4> QED  BY <4>1, <4>2, <3>1
    <3>5. 1 + z = off[i]  BY <2>5, <3>1, <3>2
    <3> QED  BY <2>1, <2>6, <3>2, <3>3, <3>4, <3>5
  <2>7. CASE i # 1
    <3>1. /\ Len(parts[i]) = z + 2 /\ parts[i][1] = Blank /\ parts[i][2] = T[i]
          /\ \A j \in 1 .. z : parts[i][2 + j] = L[i][j]
      BY <2>1, <2>3, <2>7, <1>m, PartPlaces
    <3>2. h[i] = before + 2  BY <2>2, <2>7, <1>8
    <3>3. text[before + 1] = Blank /\ text[before + 2] = T[i]
      <4>1. 1 \in 1 .. Len(parts[i]) /\ 2 \in 1 .. Len(parts[i])  BY <3>1
      <4> QED  BY <4>1, <2>4, <3>1
    <3>4. ASSUME NEW j \in 1 .. z PROVE text[before + 2 + j] = L[i][j]
      <4>0. j \in Nat /\ 1 <= j /\ j <= z /\ Len(parts[i]) = z + 2  BY <3>1
      <4>1. 2 + j \in 1 .. Len(parts[i]) /\ before + (2 + j) = before + 2 + j  BY <4>0
      <4>2. text[before + (2 + j)] = parts[i][2 + j]  BY <4>1, <2>4
      <4> QED  BY <4>1, <4>2, <3>1
    <3>5. before + 2 + z = off[i]  BY <2>5, <3>1
    <3> QED  BY <2>1, <2>2, <2>7, <3>2, <3>3, <3>4, <3>5
  <2> QED  BY <2>6, <2>7
<1>11. ASSUME NEW i \in 1 .. m
       PROVE  h[i] + Len(L[i]) <= Len(text) /\ (i = m => h[i] + Len(L[i]) = Len(text))
  <2>1. off[i] <= off[m] /\ Len(text) = off[m]  BY <1>2, <1>3, <1>6
  <2> QED  BY <2>1, <1>10
<1>12. ASSUME NEW i \in 1 .. m, i < m
       PROVE  h[i + 1] = h[i] + Len(L[i]) + 2 /\ text[h[i] + Len(L[i]) + 1] = Blank
  <2>1. PICK n \in 1 .. m : n = i + 1 /\ n # 1 /\ n - 1 = i
    <3>1. i + 1 \in 1 .. m /\ i + 1 # 1 /\ i + 1 - 1 = i  BY <1>12
    <3> QED  BY <3>1
  <2>2. h[n] = off[n - 1] + 2 /\ text[off[n - 1] + 1] = Blank  BY <2>1, <1>10
  <2>3. h[i] + Len(L[i]) = off[i]  BY <1>10
  <2> QED  BY <2>1, <2>2, <2>3
<1>13. ASSUME NEW i \in 1 .. m, NEW j \in 1 .. m, i < j PROVE h[i] + Len(L[i]) + 2 <= h[j]
  <2>1. j # 1 /\ j - 1 \in 0 .. m /\ i \in 0 .. m /\ i <= j - 1  BY <1>13
  <2>2. off[i] <= off[j - 1]  BY <2>1, <1>6
  <2>3. h[j] = off[j - 1] + 2 /\ off[j - 1] \in Nat /\ off[i] \in Nat  BY <2>1, <1>10, <1>4
  <2>4. h[i] + Len(L[i]) = off[i]  BY <1>10
  <2> QED  BY <2>2, <2>3, <2>4
<1>14. Laid(text, T, L, h)
  <2>1. \A i \in 1 .. m : /\ text[h[i]] = T[i] /\ (\A j \in 1 .. Len(L[i]) : text[h[i] + j] = L[i][j])
                          /\ h[i] + Len(L[i]) <= Len(text)
                          /\ i = m => h[i] + Len(L[i]) = Len(text)
    BY <1>10, <1>11
  <2>2. \A i \in 1 .. m : i < m => h[i + 1] = h[i] + Len(L[i]) + 2 /\ text[h[i] + Len(L[i]) + 1] = Blank
    BY <1>12
  <2>3. \A i, j \in 1 .. m : i < j => h[i] + Len(L[i]) + 2 <= h[j]  BY <1>13
  <2> QED  BY <1>m, <1>9, <2>1, <2>2, <2>3, Zenon DEF Laid
<1> QED  BY <1>3, <1>14

-----------------------------------------------------------------------------
\* A file and its text.

\* What lines there are.
Titles == {TitleOf[Opened[i]] : i \in DOMAIN Opened} \cup NewTitles
Line == Statements \cup Titles \cup {Blank, "func"}

TitlesIn(fs) == [i \in 1 .. Len(fs) |-> origin[fs[i]].title]
\* The functions of a file, in a text that has their headers.
FileHeaders(file, fs, T, text, h) ==
  /\ fs = FunctionsIn(file) /\ fs \in Seq(DOMAIN body)
  /\ \A i, j \in 1 .. Len(fs) : fs[i] = fs[j] => i = j
  /\ T = TitlesIn(fs) /\ Len(T) = Len(fs) /\ text \in Seq(Line)
  /\ HeadersAt(text, T, h)

\* A line is the header of the function whose title it shows.
LEMMA OwnerIs ==
  ASSUME NEW file, NEW fs, NEW T, NEW text, NEW h, FileHeaders(file, fs, T, text, h), NEW i \in 1 .. Len(fs)
  PROVE  OwnerOf(file, T[i]) = {fs[i]}
<1>0. Len(T) = Len(fs) /\ HeadersAt(text, T, h)  BY DEF FileHeaders
<1>1. \A j \in 1 .. Len(fs) : T[j] = T[i] => j = i
  <2>1. ASSUME NEW j \in 1 .. Len(fs), T[j] = T[i] PROVE j = i
    <3>1. h[j] \in 1 .. Len(text) /\ text[h[j]] = T[j]  BY <1>0 DEF HeadersAt
    <3>2. h[j] = h[i]  BY <2>1, <3>1, <1>0 DEF HeadersAt
    <3>3. (i < j => h[i] < h[j]) /\ (j < i => h[j] < h[i])  BY <1>0 DEF HeadersAt
    <3>4. i \in Int /\ j \in Int  OBVIOUS
    <3> QED  BY <3>1, <3>2, <3>3, <3>4
  <2> QED  BY <2>1
<1>2. DOMAIN FunctionsIn(file) = 1 .. Len(fs) /\ FunctionsIn(file) = fs  BY DEF FileHeaders
<1>3. \A j \in 1 .. Len(fs) : T[j] = origin[fs[j]].title  BY DEF FileHeaders, TitlesIn
<1> DEFINE with == {j \in DOMAIN FunctionsIn(file) : origin[FunctionsIn(file)[j]].title = T[i]}
<1>4. with = {i}  BY <1>1, <1>2, <1>3
<1>5. OwnerOf(file, T[i])
        = IF with = {} THEN {} ELSE {FunctionsIn(file)[CHOOSE j \in with : \A k \in with : k <= j]}
  BY DEF OwnerOf
<1>6. (CHOOSE j \in with : \A k \in with : k <= j) = i
  <2> HIDE DEF with
  <2>1. \A j \in with : j = i  BY <1>4
  <2>2. i \in with /\ \A k \in with : k <= i  BY <1>4
  <2>3. (CHOOSE j \in with : \A k \in with : k <= j) \in with  BY <2>2
  <2> QED  BY <2>1, <2>3
<1> HIDE DEF with
<1> QED  BY <1>2, <1>4, <1>5, <1>6

\* A line that is no header is nobody's.
LEMMA NobodyOwns ==
  ASSUME NEW file, NEW fs, NEW T, NEW text, NEW h, FileHeaders(file, fs, T, text, h),
         NEW line, \A i \in 1 .. Len(fs) : T[i] # line
  PROVE  OwnerOf(file, line) = {}
<1>1. DOMAIN FunctionsIn(file) = 1 .. Len(fs) /\ FunctionsIn(file) = fs  BY DEF FileHeaders
<1>2. \A j \in 1 .. Len(fs) : T[j] = origin[fs[j]].title  BY DEF FileHeaders, TitlesIn
<1>3. {j \in DOMAIN FunctionsIn(file) : origin[FunctionsIn(file)[j]].title = line} = {}
  BY <1>1, <1>2
<1> QED  BY <1>3 DEF OwnerOf

\* The owner of a line of the text, by where it is.
LEMMA OwnersAt ==
  ASSUME NEW file, NEW fs, NEW T, NEW text, NEW h, FileHeaders(file, fs, T, text, h),
         NEW n \in 1 .. Len(text)
  PROVE  /\ \A i \in 1 .. Len(fs) : fs[i] \in OwnerOf(file, text[n]) <=> n = h[i]
         /\ OwnerOf(file, text[n]) \subseteq {fs[i] : i \in 1 .. Len(fs)}
         /\ OwnerOf(file, text[n]) # {} <=> \E i \in 1 .. Len(fs) : n = h[i]
<1>0. Len(T) = Len(fs) /\ HeadersAt(text, T, h) /\ \A i, j \in 1 .. Len(fs) : fs[i] = fs[j] => i = j
  BY DEF FileHeaders
<1>1. CASE \E i \in 1 .. Len(fs) : text[n] = T[i]
  <2>1. PICK k \in 1 .. Len(fs) : text[n] = T[k]  BY <1>1
  <2>2. n = h[k]  BY <2>1, <1>0 DEF HeadersAt
  <2>3. OwnerOf(file, text[n]) = {fs[k]}
    <3>1. OwnerOf(file, T[k]) = {fs[k]}  BY OwnerIs
    <3> QED  BY <2>1, <3>1
  <2>4. \A i \in 1 .. Len(fs) : n = h[i] => i = k
    <3>1. ASSUME NEW i \in 1 .. Len(fs), h[i] = h[k] PROVE i = k
      <4>1. (i < k => h[i] < h[k]) /\ (k < i => h[k] < h[i]) /\ h[i] \in 1 .. Len(text)
        BY <1>0 DEF HeadersAt
      <4> QED  BY <3>1, <4>1
    <3> QED  BY <2>2, <3>1
  <2> QED  BY <1>0, <2>2, <2>3, <2>4
<1>2. CASE \A i \in 1 .. Len(fs) : text[n] # T[i]
  <2>1. OwnerOf(file, text[n]) = {}  BY <1>2, NobodyOwns
  <2>2. \A i \in 1 .. Len(fs) : n # h[i]
    <3>1. \A i \in 1 .. Len(fs) : text[h[i]] = T[i]  BY <1>0 DEF HeadersAt
    <3> QED  BY <1>2, <3>1
  <2> QED  BY <2>1, <2>2
<1> QED  BY <1>1, <1>2

\* What is under a header goes up to the next one.
LEMMA CodeUnderIs ==
  ASSUME NEW file, NEW fs, NEW T, NEW text, NEW h, FileHeaders(file, fs, T, text, h),
         NEW i \in 1 .. Len(fs)
  PROVE  CodeUnder(file, text, h[i]) = Under(text, T, h, i)
<1>0. /\ Len(T) = Len(fs) /\ Len(fs) \in Nat /\ Len(text) \in Nat
      /\ text \in Seq(Line)
      /\ h \in [1 .. Len(fs) -> 1 .. Len(text)]
      /\ \A k, l \in 1 .. Len(fs) : k < l => h[k] < h[l]
  BY DEF FileHeaders, HeadersAt
<1>1. PICK next : next = {k \in (h[i] + 1) .. Len(text) : OwnerOf(file, text[k]) # {}}  OBVIOUS
<1>2. \A k : k \in next <=> k \in (h[i] + 1) .. Len(text) /\ \E j \in 1 .. Len(fs) : k = h[j]
  <2>1. ASSUME NEW k \in (h[i] + 1) .. Len(text)
        PROVE  OwnerOf(file, text[k]) # {} <=> \E j \in 1 .. Len(fs) : k = h[j]
    <3>1. k \in 1 .. Len(text)  BY <1>0
    <3> QED  BY <3>1, OwnersAt
  <2> QED  BY <1>1, <2>1
<1>3. CodeUnder(file, text, h[i])
        = WithoutTrailing(SubSeq(text, h[i] + 1,
            IF next = {} THEN Len(text) ELSE (CHOOSE k \in next : \A l \in next : k <= l) - 1))
  BY <1>1 DEF CodeUnder
<1>4. CASE i < Len(T)
  <2>1. i + 1 \in 1 .. Len(fs) /\ h[i + 1] \in next
    <3>1. i + 1 \in 1 .. Len(fs) /\ i < i + 1  BY <1>0, <1>4
    <3>2. h[i + 1] > h[i] /\ h[i + 1] \in 1 .. Len(text)  BY <1>0, <3>1
    <3>3. h[i + 1] \in (h[i] + 1) .. Len(text)  BY <1>0, <3>2
    <3> QED  BY <1>2, <3>1, <3>3
  <2>2. \A l \in next : h[i + 1] <= l
    <3>1. ASSUME NEW l \in next PROVE h[i + 1] <= l
      <4>1. PICK j \in 1 .. Len(fs) : l = h[j] /\ l > h[i]
        <5>1. PICK j \in 1 .. Len(fs) : l = h[j]  BY <1>2
        <5>2. l \in (h[i] + 1) .. Len(text)  BY <1>2
        <5>3. l > h[i]  BY <5>2, <1>0
        <5> QED  BY <5>1, <5>3
      <4>2. ~ (j <= i)
        <5>1. j < i => h[j] < h[i]  BY <1>0
        <5>2. h[j] \in Nat /\ h[i] \in Nat  BY <1>0
        <5> QED  BY <4>1, <5>1, <5>2
      <4>3. j = i + 1 \/ i + 1 < j  BY <4>2, <1>0
      <4>4. i + 1 < j => h[i + 1] < h[j]  BY <1>0, <2>1
      <4>5. h[j] \in Nat /\ h[i + 1] \in Nat  BY <1>0, <2>1
      <4> QED  BY <4>1, <4>3, <4>4, <4>5
    <3> QED  BY <3>1
  <2>3. (CHOOSE k \in next : \A l \in next : k <= l) = h[i + 1]
    <3> DEFINE least == CHOOSE k \in next : \A l \in next : k <= l
    <3>1. least \in next /\ \A l \in next : least <= l  BY <2>1, <2>2
    <3>2. least \in (h[i] + 1) .. Len(text)  BY <1>2, <3>1
    <3>3. least <= h[i + 1] /\ h[i + 1] <= least  BY <2>1, <2>2, <3>1
    <3>4. h[i + 1] \in Nat /\ h[i] \in Nat  BY <1>0, <2>1
    <3> HIDE DEF least
    <3>5. least = h[i + 1]  BY <3>2, <3>3, <3>4
    <3> QED  BY <3>5 DEF least
  <2> QED  BY <1>3, <1>4, <2>1, <2>3 DEF Under, EndOf
<1>5. CASE ~ (i < Len(T))
  <2>1. next = {}
    <3>1. ASSUME NEW l \in next PROVE FALSE
      <4>1. PICK j \in 1 .. Len(fs) : l = h[j]  BY <1>2
      <4>2. l \in (h[i] + 1) .. Len(text)  BY <1>2
      <4>3. h[j] \in Nat /\ h[i] \in Nat /\ h[j] > h[i]  BY <4>1, <4>2, <1>0
      <4>4. j = i \/ j < i  BY <1>0, <1>5
      <4>5. j < i => h[j] < h[i]  BY <1>0
      <4> QED  BY <4>3, <4>4, <4>5
    <3> QED  BY <3>1
  <2> QED  BY <1>3, <1>5, <2>1 DEF Under, EndOf
<1> QED  BY <1>4, <1>5

\* Taken apart, the text gives every function what is under its header.
LEMMA SyncIs ==
  ASSUME NEW file, NEW fs, NEW T, NEW text, NEW h, FileHeaders(file, fs, T, text, h)
  PROVE  /\ DOMAIN CodeSync(file, text) = DOMAIN body
         /\ CodeSync(file, text) = [f \in DOMAIN body |-> CodeSync(file, text)[f]]
         /\ \A i \in 1 .. Len(fs) : CodeSync(file, text)[fs[i]] = Under(text, T, h, i)
         /\ \A f \in DOMAIN body : (\A i \in 1 .. Len(fs) : fs[i] # f) => CodeSync(file, text)[f] = body[f]
<1>0. \A n \in 1 .. Len(text) : \A g \in OwnerOf(file, text[n]) : \E i \in 1 .. Len(fs) : g = fs[i]
  <2>1. ASSUME NEW n \in 1 .. Len(text)
        PROVE  \A g \in OwnerOf(file, text[n]) : \E i \in 1 .. Len(fs) : g = fs[i]
    <3>1. OwnerOf(file, text[n]) \subseteq {fs[i] : i \in 1 .. Len(fs)}  BY OwnersAt
    <3> QED  BY <3>1
  <2> QED  BY <2>1
<1> DEFINE Mine(f) == {n \in DOMAIN text : f \in OwnerOf(file, text[n])}
<1>1. \A f \in DOMAIN body :
        CodeSync(file, text)[f]
          = IF Mine(f) = {} THEN body[f]
            ELSE CodeUnder(file, text, CHOOSE n \in Mine(f) : \A k \in Mine(f) : k <= n)
  BY DEF CodeSync
<1>2. DOMAIN text = 1 .. Len(text)  BY DEF FileHeaders
<1>3. ASSUME NEW i \in 1 .. Len(fs) PROVE CodeSync(file, text)[fs[i]] = Under(text, T, h, i)
  <2>1. fs[i] \in DOMAIN body /\ h[i] \in 1 .. Len(text)  BY DEF FileHeaders, HeadersAt
  <2>2. Mine(fs[i]) = {h[i]}
    <3>1. \A n \in 1 .. Len(text) : fs[i] \in OwnerOf(file, text[n]) <=> n = h[i]  BY OwnersAt
    <3> QED  BY <1>2, <2>1, <3>1
  <2>3. (CHOOSE n \in Mine(fs[i]) : \A k \in Mine(fs[i]) : k <= n) = h[i]
    <3>1. PICK mine : mine = Mine(fs[i])  OBVIOUS
    <3>2. mine = {h[i]}  BY <2>2, <3>1
    <3>3. h[i] \in mine /\ \A k \in mine : k <= h[i]  BY <2>1, <3>2
    <3>4. (CHOOSE n \in mine : \A k \in mine : k <= n) \in mine  BY <3>3
    <3>5. (CHOOSE n \in mine : \A k \in mine : k <= n) = h[i]  BY <3>2, <3>4
    <3> QED  BY <3>1, <3>5
  <2>4. CodeSync(file, text)[fs[i]]
          = IF Mine(fs[i]) = {} THEN body[fs[i]]
            ELSE CodeUnder(file, text, CHOOSE n \in Mine(fs[i]) : \A k \in Mine(fs[i]) : k <= n)
    BY <1>1, <2>1
  <2> HIDE DEF Mine
  <2>5. CodeSync(file, text)[fs[i]] = CodeUnder(file, text, h[i])  BY <2>2, <2>3, <2>4
  <2> QED  BY <2>5, CodeUnderIs
<1>4. ASSUME NEW f \in DOMAIN body, \A i \in 1 .. Len(fs) : fs[i] # f
      PROVE  CodeSync(file, text)[f] = body[f]
  <2>1. Mine(f) = {}
    <3>1. ASSUME NEW n \in 1 .. Len(text) PROVE f \notin OwnerOf(file, text[n])
      <4> QED  BY <1>0, <1>4
    <3> QED  BY <1>2, <3>1
  <2> HIDE DEF Mine
  <2> QED  BY <1>1, <2>1
<1>5. DOMAIN CodeSync(file, text) = DOMAIN body  BY DEF CodeSync
<1>6. CodeSync(file, text) = [f \in DOMAIN body |-> CodeSync(file, text)[f]]
  <2> DEFINE Code(f) == IF Mine(f) = {} THEN body[f]
                        ELSE CodeUnder(file, text, CHOOSE n \in Mine(f) : \A k \in Mine(f) : k <= n)
  <2>1. CodeSync(file, text) = [f \in DOMAIN body |-> Code(f)]  BY DEF CodeSync
  <2> HIDE DEF Code
  <2> QED  BY <2>1
<1> QED  BY <1>3, <1>4, <1>5, <1>6

\* A header is found where it is.
LEMMA FirstIs ==
  ASSUME NEW file, NEW fs, NEW T, NEW text, NEW h, FileHeaders(file, fs, T, text, h),
         NEW i \in 1 .. Len(fs)
  PROVE  /\ h[i] \in 1 .. Len(text) /\ text[h[i]] = T[i]
         /\ FirstWith(text, T[i]) = h[i]
<1>1. HeadersAt(text, T, h) /\ Len(T) = Len(fs) /\ text \in Seq(Line)  BY DEF FileHeaders
<1>2. /\ h[i] \in 1 .. Len(text) /\ text[h[i]] = T[i]
      /\ \A n \in 1 .. Len(text) : text[n] = T[i] => n = h[i]
  BY <1>1 DEF HeadersAt
<1>3. DOMAIN text = 1 .. Len(text) /\ Len(text) \in Nat  BY <1>1
<1>4. ASSUME NEW k \in 1 .. (h[i] - 1) PROVE text[k] # T[i]
  <2>1. k \in 1 .. Len(text) /\ k # h[i]  BY <1>2, <1>3
  <2> QED  BY <2>1, <1>2
<1> DEFINE First(n) == text[n] = T[i] /\ \A k \in 1 .. (n - 1) : text[k] # T[i]
<1>5. First(h[i]) /\ \A n \in DOMAIN text : First(n) => n = h[i]  BY <1>2, <1>3, <1>4
<1>6. FirstWith(text, T[i]) = CHOOSE n \in DOMAIN text : First(n)  BY DEF FirstWith
<1> HIDE DEF First
<1>7. h[i] \in DOMAIN text  BY <1>2, <1>3
<1> QED  BY <1>2, <1>5, <1>6, <1>7

\* HeadersKept in terms of the places of the headers.
LEMMA KeptIs ==
  ASSUME NEW file, NEW fs, NEW T, NEW text, NEW h, FileHeaders(file, fs, T, text, h)
  PROVE  HeadersKept(file, text) <=>
           \A i \in 1 .. Len(fs) : i > 1 => h[i] > 1 /\ text[h[i] - 1] = Blank
<1>1. /\ FunctionsIn(file) = fs /\ DOMAIN fs = 1 .. Len(fs)
      /\ \A i \in 1 .. Len(fs) : T[i] = origin[fs[i]].title
  BY DEF FileHeaders, TitlesIn
<1>2. \A i \in 1 .. Len(fs) : /\ h[i] \in DOMAIN text /\ text[h[i]] = T[i]
                              /\ FirstWith(text, T[i]) = h[i]
  <2>1. ASSUME NEW i \in 1 .. Len(fs)
        PROVE  h[i] \in 1 .. Len(text) /\ text[h[i]] = T[i] /\ FirstWith(text, T[i]) = h[i]
    <3>1. h[i] \in 1 .. Len(text)  BY FirstIs
    <3>2. text[h[i]] = T[i]  BY FirstIs
    <3>3. FirstWith(text, T[i]) = h[i]  BY <3>1, FirstIs, Z3
    <3> QED  BY <3>1, <3>2, <3>3
  <2>2. DOMAIN text = 1 .. Len(text)  BY DEF FileHeaders
  <2> QED  BY <2>1, <2>2
<1>3. HeadersKept(file, text) <=>
        \A i \in 1 .. Len(fs) :
          /\ \E n \in DOMAIN text : text[n] = T[i]
          /\ i > 1 => FirstWith(text, T[i]) > 1 /\ text[FirstWith(text, T[i]) - 1] = Blank
  <2> DEFINE There(line) == \E n \in DOMAIN text : text[n] = line
             Spaced(line) == FirstWith(text, line) > 1 /\ text[FirstWith(text, line) - 1] = Blank
  <2>1. HeadersKept(file, text) <=>
          \A i \in DOMAIN FunctionsIn(file) :
            /\ There(origin[FunctionsIn(file)[i]].title)
            /\ i > 1 => Spaced(origin[FunctionsIn(file)[i]].title)
    BY Zenon DEF HeadersKept
  <2> HIDE DEF There, Spaced
  <2>2. HeadersKept(file, text) <=> \A i \in 1 .. Len(fs) : There(T[i]) /\ (i > 1 => Spaced(T[i]))
    BY <1>1, <2>1
  <2> QED  BY <2>2 DEF There, Spaced
<1> QED  BY <1>2, <1>3, Zenon

\* Headers that are where they should be, in a text that has no line twice
\* that is like a header.
LEMMA HeadersFound ==
  ASSUME NEW file, NEW fs, NEW T, NEW text \in Seq(Line), NEW h,
         fs = FunctionsIn(file), fs \in Seq(DOMAIN body),
         \A i, j \in 1 .. Len(fs) : fs[i] = fs[j] => i = j,
         T = TitlesIn(fs), Len(T) = Len(fs), HeadersDistinct(text, file),
         h \in [1 .. Len(T) -> 1 .. Len(text)],
         \A i \in 1 .. Len(T) : text[h[i]] = T[i],
         \A i, j \in 1 .. Len(T) : i < j => h[i] < h[j]
  PROVE  FileHeaders(file, fs, T, text, h)
<1>1. /\ DOMAIN FunctionsIn(file) = 1 .. Len(T) /\ DOMAIN text = 1 .. Len(text)
      /\ \A i \in 1 .. Len(T) : origin[FunctionsIn(file)[i]].title = T[i]
  BY DEF TitlesIn
<1>2. ASSUME NEW n \in 1 .. Len(text), NEW i \in 1 .. Len(T), text[n] = T[i] PROVE n = h[i]
  <2>1. T[i] \in {origin[FunctionsIn(file)[j]].title : j \in DOMAIN FunctionsIn(file)}
    BY <1>1
  <2>2. h[i] \in DOMAIN text /\ n \in DOMAIN text /\ text[n] = text[h[i]]
    BY <1>1, <1>2
  <2> QED  BY <2>1, <2>2, <1>2 DEF HeadersDistinct
<1>3. HeadersAt(text, T, h)  BY <1>2, Zenon DEF HeadersAt
<1> QED  BY <1>3, Zenon DEF FileHeaders

-----------------------------------------------------------------------------
\* The text invariant.

\* The board has a function once, and the code of each ends with a line that is not empty.
TextInv ==
  /\ functions \in Seq(DOMAIN origin)
  /\ \A i, j \in 1 .. Len(functions) : functions[i] = functions[j] => i = j
  /\ body \in [DOMAIN origin -> Seq(Line)]
  /\ \A f \in DOMAIN origin : origin[f].title \in Line /\ Trimmed(body[f])
  /\ \A a \in additions : a.title \in Line

\* The functions of a file, each once.
LEMMA FunctionsInIs ==
  ASSUME TextInv, NEW file, NEW fs, fs = FunctionsIn(file)
  PROVE  fs \in Seq(DOMAIN body) /\ \A i, j \in 1 .. Len(fs) : fs[i] = fs[j] => i = j
<1>1. PICK all \in Seq(DOMAIN body) : all = functions
  BY DEF TextInv
<1>2. PICK places : places = {i \in DOMAIN all : origin[all[i]].file = file}  OBVIOUS
<1>3. fs = Kept(all, places)  BY <1>1, <1>2 DEF FunctionsIn
<1>4. fs \in Seq(DOMAIN body) /\ \E p : KeepsAt(fs, all, places, p)  BY <1>3, KeptPlaces
<1>5. PICK p : KeepsAt(fs, all, places, p)  BY <1>4
<1>6. ASSUME NEW i \in 1 .. Len(fs), NEW j \in 1 .. Len(fs), fs[i] = fs[j] PROVE i = j
  <2>1. p[i] \in 1 .. Len(all) /\ p[j] \in 1 .. Len(all) /\ fs[i] = all[p[i]] /\ fs[j] = all[p[j]]
    BY <1>5 DEF KeepsAt
  <2>2. p[i] = p[j]  BY <2>1, <1>1, <1>6 DEF TextInv
  <2>3. (i < j => p[i] < p[j]) /\ (j < i => p[j] < p[i])  BY <1>5 DEF KeepsAt
  <2>4. i \in Int /\ j \in Int  OBVIOUS
  <2> QED  BY <2>1, <2>2, <2>3, <2>4
<1> QED  BY <1>4, <1>6

\* The code of a function and the lines shown of it.
LEMMA LinesAre ==
  ASSUME TextInv, NEW f \in DOMAIN body
  PROVE  Lines(f) \in Seq(Line) /\ Len(Lines(f)) >= 1 /\ WithoutTrailing(Lines(f)) = body[f]
<1>1. body[f] \in Seq(Line) /\ Trimmed(body[f]) /\ Blank \in Line  BY DEF TextInv, Line
<1>2. CASE body[f] = << >>
  <2>1. Lines(f) = << Blank >>  BY <1>2 DEF Lines
  <2>2. PICK one \in Seq(Line) : one = << Blank >>
    <3>1. << Blank >> \in Seq(Line)  BY <1>1
    <3> QED  BY <3>1
  <2>3. Len(one) = 1 /\ one[1] = Blank  BY <2>2
  <2>4. LastLine(one, 0)  BY <2>3 DEF LastLine
  <2>5. WithoutTrailing(one) = SubSeq(one, 1, 0)  BY <2>4, WithoutTrailingIs
  <2>6. SubSeq(one, 1, 0) = << >>  OBVIOUS
  <2> QED  BY <1>2, <2>1, <2>2, <2>3, <2>5, <2>6
<1>3. CASE body[f] # << >>
  <2>1. Lines(f) = body[f]  BY <1>3 DEF Lines
  <2>2. WithoutTrailing(body[f]) = body[f]  BY <1>1, TrimmedStays
  <2>3. Len(body[f]) >= 1  BY <1>1, <1>3
  <2> QED  BY <1>1, <2>1, <2>2, <2>3
<1> QED  BY <1>2, <1>3

\* The text of a file has the headers of its functions, each over its code.
Content(file, fs, T, L) ==
  /\ fs \in Seq(DOMAIN body) /\ \A i, j \in 1 .. Len(fs) : fs[i] = fs[j] => i = j
  /\ T \in Seq(Line) /\ Len(T) = Len(fs) /\ L \in [1 .. Len(T) -> Seq(Line)]
  /\ FileContent(file) \in Seq(Line) /\ \E h : Laid(FileContent(file), T, L, h)

\* FileContent is laid out so.
LEMMA ContentIs ==
  ASSUME TextInv, NEW file
  PROVE  \E fs, T, L : /\ fs = FunctionsIn(file) /\ T = TitlesIn(fs)
                       /\ L = [i \in 1 .. Len(T) |-> Lines(fs[i])]
                       /\ Content(file, fs, T, L)
<1> SUFFICES ASSUME NEW fs, fs = FunctionsIn(file), NEW T, T = TitlesIn(fs),
                    NEW L, L = [i \in 1 .. Len(T) |-> Lines(fs[i])]
             PROVE  Content(file, fs, T, L)
  OBVIOUS
<1>1. fs \in Seq(DOMAIN body) /\ \A i, j \in 1 .. Len(fs) : fs[i] = fs[j] => i = j
  BY FunctionsInIs
<1>2. T \in Seq(Line) /\ Len(T) = Len(fs)
  <2>1. \A i \in 1 .. Len(fs) : origin[fs[i]].title \in Line  BY <1>1 DEF TextInv
  <2>2. Len(fs) \in Nat  BY <1>1
  <2> QED  BY <2>1, <2>2 DEF TitlesIn
<1>3. L \in [1 .. Len(T) -> Seq(Line)]
  <2>1. \A i \in 1 .. Len(T) : Lines(fs[i]) \in Seq(Line)
    <3>1. ASSUME NEW i \in 1 .. Len(T) PROVE Lines(fs[i]) \in Seq(Line)
      <4>1. fs[i] \in DOMAIN body  BY <1>1, <1>2
      <4> QED  BY <4>1, LinesAre
    <3> QED  BY <3>1
  <2> QED  BY <2>1
<1>4. FileContent(file) = FlattenSeq([i \in 1 .. Len(T) |-> Part(T, L, i)])
  <2>1. DOMAIN fs = 1 .. Len(T)  BY <1>1, <1>2
  <2>2. \A i \in 1 .. Len(T) : origin[fs[i]].title = T[i] /\ Lines(fs[i]) = L[i]  BY <1>2 DEF TitlesIn
  <2>3. FileContent(file) = FlattenSeq([i \in DOMAIN fs |->
           IF i = 1 THEN << origin[fs[i]].title >> \o Lines(fs[i])
                    ELSE << Blank >> \o (<< origin[fs[i]].title >> \o Lines(fs[i]))])
    BY DEF FileContent
  <2>4. FileContent(file) = FlattenSeq([i \in DOMAIN fs |->
           IF i = 1 THEN After(<< origin[fs[i]].title >>, Lines(fs[i]))
                    ELSE After(<< Blank >>, After(<< origin[fs[i]].title >>, Lines(fs[i])))])
    BY <2>3, Zenon DEF After
  <2>5. \A i \in 1 .. Len(T) :
          (IF i = 1 THEN After(<< origin[fs[i]].title >>, Lines(fs[i]))
                    ELSE After(<< Blank >>, After(<< origin[fs[i]].title >>, Lines(fs[i]))))
            = Part(T, L, i)
    BY <2>2, Zenon DEF Part
  <2>6. [i \in DOMAIN fs |->
           IF i = 1 THEN After(<< origin[fs[i]].title >>, Lines(fs[i]))
                    ELSE After(<< Blank >>, After(<< origin[fs[i]].title >>, Lines(fs[i])))]
          = [i \in 1 .. Len(T) |-> Part(T, L, i)]
    BY <2>1, <2>5
  <2> QED  BY <2>4, <2>6, Zenon
<1>5. Blank \in Line  BY DEF Line
<1>6. PICK text : text = FileContent(file)  OBVIOUS
<1>7. text \in Seq(Line) /\ \E h : Laid(text, T, L, h)  BY <1>2, <1>3, <1>4, <1>5, <1>6, LaidOut
<1> QED  BY <1>1, <1>2, <1>3, <1>6, <1>7 DEF Content

-----------------------------------------------------------------------------
\* What is meant by a keystroke.

\* CodeLines in terms of the places of the headers.
LEMMA CodeLinesAre ==
  ASSUME NEW file, NEW fs, NEW T, NEW text, text = FileContent(file), NEW h,
         FileHeaders(file, fs, T, text, h), NEW i \in 1 .. Len(fs)
  PROVE  CodeLines(file, i) = (h[i] + 1) .. (h[i] + Len(Lines(fs[i])))
<1>1. /\ FunctionsIn(file) = fs /\ origin[fs[i]].title = T[i]
  BY DEF FileHeaders, TitlesIn
<1>2. h[i] \in 1 .. Len(text)  BY FirstIs
<1>3. FirstWith(text, T[i]) = h[i]  BY <1>2, FirstIs, Z3
<1> QED  BY <1>1, <1>3, Zenon DEF CodeLines

\* The parts Meant is made of.
AtOf(file, f) == {i \in DOMAIN FunctionsIn(file) : FunctionsIn(file)[i] = f}
LinesOf(file, f) == IF AtOf(file, f) = {} THEN {} ELSE CodeLines(file, CHOOSE i \in AtOf(file, f) : TRUE)
ThereOf(put, lines) ==
  IF put = << >> THEN lines
  ELSE IF lines = {} THEN {} ELSE lines \cup {CHOOSE n \in {k + 1 : k \in lines} : n \notin lines}
FirstOf(lines) == CHOOSE n \in lines : \A k \in lines : n <= k
ResultOf(put, code, at) == IF put = << >> THEN RemoveAt(code, at) ELSE InsertAt(code, at, put[1])

\* Meant, function by function.
LEMMA MeantParts ==
  ASSUME NEW file, NEW key
  PROVE  /\ Meant(file, key) = [f \in DOMAIN body |-> Meant(file, key)[f]]
         /\ DOMAIN Meant(file, key) = DOMAIN body
         /\ \A f \in DOMAIN body :
              Meant(file, key)[f]
                = IF key.at \in ThereOf(key.put, LinesOf(file, f))
                  THEN WithoutTrailing(ResultOf(key.put, Lines(f), key.at - FirstOf(LinesOf(file, f)) + 1))
                  ELSE body[f]
<1> DEFINE Code(f) == IF key.at \in ThereOf(key.put, LinesOf(file, f))
                      THEN WithoutTrailing(ResultOf(key.put, Lines(f), key.at - FirstOf(LinesOf(file, f)) + 1))
                      ELSE body[f]
<1>1. Meant(file, key) = [f \in DOMAIN body |-> Code(f)]
  BY Zenon DEF Meant, AtOf, LinesOf, ThereOf, FirstOf, ResultOf
<1> HIDE DEF Code
<1>2. PICK m : m = Meant(file, key)  OBVIOUS
<1>3. m = [f \in DOMAIN body |-> Code(f)]  BY <1>1, <1>2
<1>4. m = [f \in DOMAIN body |-> m[f]] /\ DOMAIN m = DOMAIN body /\ \A f \in DOMAIN body : m[f] = Code(f)
  BY <1>3
<1> QED  BY <1>2, <1>4 DEF Code

\* The lines of a function are its own and, for a line more, the one after them.
LEMMA ThereIs ==
  ASSUME NEW a \in Nat, NEW z \in Nat, z >= 1, NEW lines, lines = (a + 1) .. (a + z), NEW put
  PROVE  /\ FirstOf(lines) = a + 1
         /\ put = << >> => ThereOf(put, lines) = (a + 1) .. (a + z)
         /\ put # << >> => ThereOf(put, lines) = (a + 1) .. (a + z + 1)
<1>1. a + 1 \in lines /\ \A k \in lines : a + 1 <= k  OBVIOUS
<1>2. FirstOf(lines) = a + 1
  <2>1. FirstOf(lines) \in lines /\ \A k \in lines : FirstOf(lines) <= k  BY <1>1 DEF FirstOf
  <2>2. FirstOf(lines) \in Int  BY <2>1
  <2> QED  BY <1>1, <2>1, <2>2
<1>3. \A n \in {k + 1 : k \in lines} : n \notin lines <=> n = a + z + 1
  <2>1. ASSUME NEW k \in lines PROVE k + 1 \notin lines <=> k + 1 = a + z + 1
    <3>1. k \in Int /\ a + 1 <= k /\ k <= a + z  OBVIOUS
    <3>2. k + 1 \in lines <=> k + 1 <= a + z  BY <3>1
    <3> QED  BY <3>1, <3>2
  <2> QED  BY <2>1
<1>4. a + z + 1 \in {k + 1 : k \in lines} /\ a + z + 1 \notin lines
  <2>1. a + z \in lines  OBVIOUS
  <2>2. a + z + 1 \notin lines  OBVIOUS
  <2> QED  BY <2>1, <2>2
<1>5. (CHOOSE n \in {k + 1 : k \in lines} : n \notin lines) = a + z + 1
  <2>1. PICK after : after = {k + 1 : k \in lines}  OBVIOUS
  <2>2. a + z + 1 \in after /\ a + z + 1 \notin lines  BY <1>4, <2>1
  <2>3. \A n \in after : n \notin lines <=> n = a + z + 1  BY <1>3, <2>1
  <2>4. (CHOOSE n \in after : n \notin lines) = a + z + 1  BY <2>2, <2>3
  <2> QED  BY <2>1, <2>4
<1>6. lines \cup {a + z + 1} = (a + 1) .. (a + z + 1)  OBVIOUS
<1>7. put # << >> => ThereOf(put, lines) = lines \cup {a + z + 1}
  <2>1. lines # {}  BY <1>1
  <2> QED  BY <2>1, <1>5, Zenon DEF ThereOf
<1>8. put = << >> => ThereOf(put, lines) = lines  BY Zenon DEF ThereOf
<1> QED  BY <1>2, <1>6, <1>7, <1>8

\* What is meant for the i-th function of the file.
LEMMA MeantIs ==
  ASSUME NEW file, NEW fs, NEW T, NEW text, text = FileContent(file), NEW h,
         FileHeaders(file, fs, T, text, h), NEW i \in 1 .. Len(fs), NEW code \in Seq(Line),
         code = Lines(fs[i]), Len(code) >= 1, NEW key, key.at \in Nat
  PROVE  /\ key.put = << >> /\ key.at \in (h[i] + 1) .. (h[i] + Len(code)) =>
              Meant(file, key)[fs[i]] = WithoutTrailing(RemoveAt(code, key.at - h[i]))
         /\ key.put = << >> /\ key.at \notin (h[i] + 1) .. (h[i] + Len(code)) =>
              Meant(file, key)[fs[i]] = body[fs[i]]
         /\ key.put # << >> /\ key.at \in (h[i] + 1) .. (h[i] + Len(code) + 1) =>
              Meant(file, key)[fs[i]] = WithoutTrailing(InsertAt(code, key.at - h[i], key.put[1]))
         /\ key.put # << >> /\ key.at \notin (h[i] + 1) .. (h[i] + Len(code) + 1) =>
              Meant(file, key)[fs[i]] = body[fs[i]]
<1>1. /\ FunctionsIn(file) = fs /\ DOMAIN fs = 1 .. Len(fs) /\ fs[i] \in DOMAIN body
      /\ \A j \in 1 .. Len(fs) : fs[j] = fs[i] => j = i
  BY DEF FileHeaders
<1>2. AtOf(file, fs[i]) = {i}  BY <1>1 DEF AtOf
<1>3. (CHOOSE j \in AtOf(file, fs[i]) : TRUE) = i  BY <1>2
<1>4. PICK a \in Nat, z \in Nat : a = h[i] /\ z = Len(code) /\ z >= 1
  <2>1. h[i] \in 1 .. Len(text)  BY FirstIs
  <2>2. h[i] \in Nat /\ Len(code) \in Nat  BY <2>1
  <2> QED  BY <2>2
<1>5. PICK lines : lines = LinesOf(file, fs[i])  OBVIOUS
<1>6. lines = (a + 1) .. (a + z)
  <2>1. lines = CodeLines(file, i)  BY <1>2, <1>3, <1>5 DEF LinesOf
  <2>2. CodeLines(file, i) = (h[i] + 1) .. (h[i] + Len(Lines(fs[i])))  BY CodeLinesAre
  <2> QED  BY <2>1, <2>2, <1>4
<1>7. FirstOf(lines) = a + 1 /\ key.at - (a + 1) + 1 = key.at - a
  <2>1. FirstOf(lines) = a + 1  BY <1>4, <1>6, ThereIs
  <2> QED  BY <2>1
<1>8. Meant(file, key)[fs[i]]
        = IF key.at \in ThereOf(key.put, lines)
          THEN WithoutTrailing(ResultOf(key.put, code, key.at - a)) ELSE body[fs[i]]
  <2>1. Meant(file, key)[fs[i]]
          = IF key.at \in ThereOf(key.put, LinesOf(file, fs[i]))
            THEN WithoutTrailing(ResultOf(key.put, Lines(fs[i]), key.at - FirstOf(LinesOf(file, fs[i])) + 1))
            ELSE body[fs[i]]
    BY <1>1, MeantParts, Z3
  <2> QED  BY <2>1, <1>5, <1>7, Zenon
<1>9. ASSUME key.put = << >>
      PROVE  Meant(file, key)[fs[i]]
                = IF key.at \in (h[i] + 1) .. (h[i] + Len(code))
                  THEN WithoutTrailing(RemoveAt(code, key.at - h[i])) ELSE body[fs[i]]
  <2>1. ThereOf(key.put, lines) = (a + 1) .. (a + z)  BY <1>4, <1>6, <1>9, ThereIs
  <2>2. ResultOf(key.put, code, key.at - a) = RemoveAt(code, key.at - a)  BY <1>9 DEF ResultOf
  <2> QED  BY <1>4, <1>8, <2>1, <2>2, Zenon
<1>10. ASSUME key.put # << >>
       PROVE  Meant(file, key)[fs[i]]
                = IF key.at \in (h[i] + 1) .. (h[i] + Len(code) + 1)
                  THEN WithoutTrailing(InsertAt(code, key.at - h[i], key.put[1])) ELSE body[fs[i]]
  <2>1. ThereOf(key.put, lines) = (a + 1) .. (a + z + 1)  BY <1>4, <1>6, <1>10, ThereIs, Z3
  <2>2. ResultOf(key.put, code, key.at - a) = InsertAt(code, key.at - a, key.put[1])  BY <1>10, Zenon DEF ResultOf
  <2> QED  BY <1>4, <1>8, <2>1, <2>2, Zenon
<1> QED  BY <1>9, <1>10, Zenon

\* Nothing is meant for a function of another file.
LEMMA MeantElsewhere ==
  ASSUME NEW file, NEW fs, fs = FunctionsIn(file), DOMAIN fs = 1 .. Len(fs),
         NEW f \in DOMAIN body, \A i \in 1 .. Len(fs) : fs[i] # f, NEW key
  PROVE  Meant(file, key)[f] = body[f]
<1>1. AtOf(file, f) = {}  BY DEF AtOf
<1>2. LinesOf(file, f) = {}  BY <1>1 DEF LinesOf
<1>3. ThereOf(key.put, {}) = {}  BY Zenon DEF ThereOf
<1>4. Meant(file, key)[f]
        = IF key.at \in ThereOf(key.put, LinesOf(file, f))
          THEN WithoutTrailing(ResultOf(key.put, Lines(f), key.at - FirstOf(LinesOf(file, f)) + 1))
          ELSE body[f]
  BY MeantParts, Z3
<1> QED  BY <1>2, <1>3, <1>4, Zenon

\* A file as it is shown, with its headers.
Shown(file, fs, T, L, text, h) ==
  /\ FileHeaders(file, fs, T, text, h) /\ Laid(text, T, L, h)
  /\ text = FileContent(file) /\ text \in Seq(Line)
  /\ T \in Seq(Line) /\ Len(T) = Len(fs) /\ L \in [1 .. Len(T) -> Seq(Line)]
  /\ \A i \in 1 .. Len(fs) : L[i] = Lines(fs[i])

\* The numbers about a function of a file.
LEMMA ShownAt ==
  ASSUME NEW file, NEW fs, NEW T, NEW L, NEW text, NEW h, Shown(file, fs, T, L, text, h),
         NEW i \in 1 .. Len(fs)
  PROVE  /\ h[i] \in 1 .. Len(text) /\ Len(L[i]) \in Nat /\ L[i] \in Seq(Line) /\ text[h[i]] = T[i]
         /\ i > 1 => h[i] - 1 \in 1 .. Len(text) /\ text[h[i] - 1] = Blank
         /\ \A j \in 1 .. Len(fs) : i < j => h[i] + Len(L[i]) + 2 <= h[j]
<1>1. /\ text \in Seq(Line) /\ T \in Seq(Line) /\ L \in [1 .. Len(T) -> Seq(Line)]
      /\ Laid(text, T, L, h) /\ Len(T) = Len(fs) /\ Len(T) \in Nat
  BY DEF Shown
<1>2. h[i] \in 1 .. Len(text) /\ text[h[i]] = T[i]  BY <1>1 DEF Shown, FileHeaders, HeadersAt
<1>3. Len(L[i]) \in Nat /\ L[i] \in Seq(Line)  BY <1>1
<1>4. ASSUME i > 1 PROVE h[i] - 1 \in 1 .. Len(text) /\ text[h[i] - 1] = Blank
  <2>1. PICK n \in 1 .. Len(T) : n = i - 1 /\ n < Len(T) /\ n + 1 = i
    <3>1. i - 1 \in 1 .. Len(T) /\ i - 1 < Len(T) /\ (i - 1) + 1 = i  BY <1>1, <1>4
    <3> QED  BY <3>1
  <2>2. h[n + 1] = h[n] + Len(L[n]) + 2 /\ text[h[n] + Len(L[n]) + 1] = Blank
    BY <1>1, <2>1 DEF Laid
  <2>3. h[n] \in Nat \ {0} /\ Len(L[n]) \in Nat
    <3>1. L[n] \in Seq(Line) /\ h[n] \in Nat \ {0}  BY <1>1 DEF Laid
    <3> QED  BY <3>1
  <2>4. h[i] = h[n] + Len(L[n]) + 2 /\ h[i] - 1 = h[n] + Len(L[n]) + 1  BY <2>1, <2>2, <2>3
  <2>5. Len(text) \in Nat  BY <1>1
  <2>6. h[i] - 1 \in 1 .. Len(text)  BY <2>3, <2>4, <2>5, <1>2
  <2> QED  BY <2>2, <2>4, <2>6
<1>5. \A j \in 1 .. Len(fs) : i < j => h[i] + Len(L[i]) + 2 <= h[j]  BY <1>1 DEF Laid
<1> QED  BY <1>2, <1>3, <1>4, <1>5

\* Two assignments of code to the functions are one if they agree in the file
\* and neither changes anything outside.
IsCode(a) == a = [f \in DOMAIN body |-> a[f]]

Agree(fs, a, b) ==
  /\ \A i \in 1 .. Len(fs) : a[fs[i]] = b[fs[i]]
  /\ \A f \in DOMAIN body : (\A i \in 1 .. Len(fs) : fs[i] # f) => a[f] = b[f]

\* Two that agree are one.
LEMMA SameCode ==
  ASSUME NEW fs, NEW a, NEW b, IsCode(a), IsCode(b), Agree(fs, a, b)
  PROVE  a = b
<1>1. ASSUME NEW f \in DOMAIN body PROVE a[f] = b[f]
  <2>1. CASE \A i \in 1 .. Len(fs) : fs[i] # f  BY <2>1 DEF Agree
  <2>2. CASE \E i \in 1 .. Len(fs) : fs[i] = f  BY <2>2 DEF Agree
  <2> QED  BY <2>1, <2>2
<1>2. a = [f \in DOMAIN body |-> a[f]] /\ b = [f \in DOMAIN body |-> b[f]]  BY DEF IsCode
<1>3. [f \in DOMAIN body |-> a[f]] = [f \in DOMAIN body |-> b[f]]  BY <1>1
<1> QED  BY <1>2, <1>3, Zenon

IsInsertion(key, text, p, line) ==
  /\ key = [at |-> p, put |-> << line >>, text |-> InsertAt(text, p, line)]
  /\ p \in 1 .. (Len(text) + 1) /\ line \in Line
IsDeletion(key, text, p) ==
  /\ key = [at |-> p, put |-> << >>, text |-> RemoveAt(text, p)]
  /\ p \in 1 .. Len(text)

\* A header is not among the lines of another function.
LEMMA Apart ==
  ASSUME NEW a \in Int, NEW z \in Int, NEW b \in Int, NEW p \in Int,
         a + 1 <= p, p <= a + z + 1, a + z + 2 <= b \/ b <= a
  PROVE  b # p
OBVIOUS

\* An insertion lands in the code of one function, or between two and changes nothing.
LEMMA InsertionLands ==
  ASSUME TextInv, NEW file, NEW fs, NEW T, NEW L, NEW text, NEW h, Shown(file, fs, T, L, text, h),
         NEW p, NEW line, NEW key, IsInsertion(key, text, p, line),
         HeadersDistinct(key.text, file)
  PROVE  AfterTyping(file, key.text) = Meant(file, key)
<1>0. text \in Seq(Line) /\ T \in Seq(Line) /\ L \in [1 .. Len(T) -> Seq(Line)]  BY DEF Shown
<1>1. PICK new : new = key.text /\ new \in Seq(Line) /\ Inserted(new, text, p, line)
  BY <1>0, InsertPlaces DEF IsInsertion
<1>2. /\ Laid(text, T, L, h) /\ Len(T) = Len(fs) /\ FileHeaders(file, fs, T, text, h)
      /\ text = FileContent(file)
  BY DEF Shown
<1>4. PICK N \in Nat : N = Len(text) /\ Len(new) = N + 1 /\ p \in 1 .. (N + 1)
  <2>1. Len(text) \in Nat  BY <1>0
  <2> QED  BY <1>1, <2>1 DEF Inserted, IsInsertion
<1>new. /\ \A k \in 1 .. (N + 1) : k < p => new[k] = text[k]
        /\ \A k \in 1 .. (N + 1) : k > p => new[k] = text[k - 1]
  <2>2. \A k \in 1 .. (N + 1) : new[k] = IF k < p THEN text[k] ELSE IF k = p THEN line ELSE text[k - 1]
    BY <1>1, <1>4 DEF Inserted
  <2>3. ASSUME NEW k \in 1 .. (N + 1), k > p PROVE new[k] = text[k - 1]
    <3>1. ~ (k < p) /\ k # p  BY <2>3, <1>4
    <3> QED  BY <2>2, <3>1, Zenon
  <2> QED  BY <2>2, <2>3, Zenon
<1>5. PICK hp : hp = Pushed(h, p)  OBVIOUS
<1>6. DOMAIN h = 1 .. Len(fs)  BY <1>2 DEF Laid
<1>7. hp \in [1 .. Len(fs) -> Int] /\ \A i \in 1 .. Len(fs) : hp[i] = IF h[i] < p THEN h[i] ELSE h[i] + 1
  <2>1. \A i \in 1 .. Len(fs) : h[i] \in Nat  BY <1>2 DEF Laid
  <2> QED  BY <2>1, <1>5, <1>6 DEF Pushed
<1>8. FileHeaders(file, fs, T, new, hp)
  <2>1. ASSUME NEW i \in 1 .. Len(fs) PROVE hp[i] \in 1 .. Len(new) /\ new[hp[i]] = T[i]
    <3>1. h[i] \in 1 .. N /\ text[h[i]] = T[i]  BY <1>4, ShownAt
    <3>2. CASE h[i] < p
      <4>1. hp[i] = h[i] /\ h[i] \in 1 .. (N + 1)  BY <1>7, <3>1, <3>2
      <4> QED  BY <1>4, <1>new, <3>1, <3>2, <4>1
    <3>3. CASE ~ (h[i] < p)
      <4>1. hp[i] = h[i] + 1 /\ h[i] + 1 \in 1 .. (N + 1) /\ h[i] + 1 > p /\ h[i] + 1 - 1 = h[i]
        BY <1>4, <1>7, <3>1, <3>3
      <4>2. PICK k \in 1 .. (N + 1) : k = h[i] + 1 /\ k > p /\ k - 1 = h[i]
        BY <3>1, <4>1, <1>4
      <4>3. new[k] = text[k - 1]  BY <4>2, <1>new
      <4> QED  BY <1>4, <3>1, <4>1, <4>2, <4>3
    <3> QED  BY <3>2, <3>3
  <2>2. ASSUME NEW i \in 1 .. Len(fs), NEW j \in 1 .. Len(fs), i < j PROVE hp[i] < hp[j]
    <3>1. h[i] \in 1 .. N /\ h[j] \in 1 .. N  BY <1>4, ShownAt
    <3>2. h[i] < h[j]  BY <1>2, <2>2 DEF FileHeaders, HeadersAt
    <3> QED  BY <3>1, <3>2, <1>4, <1>7
  <2>3. hp \in [1 .. Len(T) -> 1 .. Len(new)]  BY <1>2, <1>7, <2>1
  <2>4. \A i \in 1 .. Len(T) : new[hp[i]] = T[i]  BY <1>2, <2>1
  <2>5. \A i, j \in 1 .. Len(T) : i < j => hp[i] < hp[j]  BY <1>2, <2>2
  <2>6. /\ fs = FunctionsIn(file) /\ fs \in Seq(DOMAIN body) /\ T = TitlesIn(fs)
        /\ \A i, j \in 1 .. Len(fs) : fs[i] = fs[j] => i = j
    BY <1>2 DEF FileHeaders
  <2> QED  BY <1>1, <1>2, <2>3, <2>4, <2>5, <2>6, HeadersFound
<1>9. /\ IsCode(CodeSync(file, new))
      /\ \A i \in 1 .. Len(fs) : CodeSync(file, new)[fs[i]] = Under(new, T, hp, i)
      /\ \A f \in DOMAIN body : (\A i \in 1 .. Len(fs) : fs[i] # f) => CodeSync(file, new)[f] = body[f]
  <2>1. IsCode(CodeSync(file, new))  BY <1>8, SyncIs DEF IsCode
  <2>2. \A i \in 1 .. Len(fs) : CodeSync(file, new)[fs[i]] = Under(new, T, hp, i)  BY <1>8, SyncIs
  <2>3. \A f \in DOMAIN body : (\A i \in 1 .. Len(fs) : fs[i] # f) => CodeSync(file, new)[f] = body[f]
    BY <1>8, SyncIs
  <2> QED  BY <2>1, <2>2, <2>3
<1>10. HeadersKept(file, new) <=> \A i \in 1 .. Len(fs) : i > 1 => hp[i] > 1 /\ new[hp[i] - 1] = Blank
  BY <1>8, KeptIs
<1>11. /\ IsCode(Meant(file, key))
       /\ \A f \in DOMAIN body : (\A i \in 1 .. Len(fs) : fs[i] # f) => Meant(file, key)[f] = body[f]
  <2>1. fs = FunctionsIn(file) /\ DOMAIN fs = 1 .. Len(fs)  BY <1>2 DEF FileHeaders
  <2>2. ASSUME NEW f \in DOMAIN body, \A i \in 1 .. Len(fs) : fs[i] # f PROVE Meant(file, key)[f] = body[f]
    BY <2>1, <2>2, MeantElsewhere
  <2>3. IsCode(Meant(file, key))  BY MeantParts DEF IsCode
  <2> QED  BY <2>2, <2>3
<1>12. ASSUME NEW i \in 1 .. Len(fs)
       PROVE  /\ WithoutTrailing(L[i]) = body[fs[i]]
              /\ Into(h, L, p, i) => Meant(file, key)[fs[i]] = WithoutTrailing(InsertAt(L[i], p - h[i], line))
              /\ ~ Into(h, L, p, i) => Meant(file, key)[fs[i]] = body[fs[i]]
  <2>1. L[i] = Lines(fs[i]) /\ fs[i] \in DOMAIN body  BY DEF Shown, FileHeaders
  <2>2. PICK code \in Seq(Line) : code = L[i] /\ Len(code) >= 1 /\ WithoutTrailing(code) = body[fs[i]]
    BY <2>1, LinesAre
  <2>3. key.at = p /\ key.at \in Nat /\ key.put = << line >> /\ key.put # << >> /\ key.put[1] = line
    BY <1>4 DEF IsInsertion
  <2>4. /\ key.put # << >> /\ key.at \in (h[i] + 1) .. (h[i] + Len(code) + 1) =>
             Meant(file, key)[fs[i]] = WithoutTrailing(InsertAt(code, key.at - h[i], key.put[1]))
        /\ key.put # << >> /\ key.at \notin (h[i] + 1) .. (h[i] + Len(code) + 1) =>
             Meant(file, key)[fs[i]] = body[fs[i]]
    <3>1. code = Lines(fs[i])  BY <2>1, <2>2
    <3>2. FileHeaders(file, fs, T, text, h) /\ text = FileContent(file)  BY <1>2
    <3> QED  BY <2>2, <2>3, <3>1, <3>2, MeantIs, Z3
  <2>5. Into(h, L, p, i) <=> key.at \in (h[i] + 1) .. (h[i] + Len(code) + 1)
    BY <2>2, <2>3, Zenon DEF Into
  <2>6. key.at - h[i] = p - h[i]  BY <2>3, Zenon
  <2> QED  BY <2>2, <2>3, <2>4, <2>5, <2>6, Zenon
<1>13. CASE HeadersKept(file, new)
  <2>1. ASSUME NEW i \in 1 .. Len(fs) PROVE CodeSync(file, new)[fs[i]] = Meant(file, key)[fs[i]]
    <3>1. i < Len(T) => new[Pushed(h, p)[i + 1] - 1] = Blank
      <4> SUFFICES ASSUME i < Len(T) PROVE new[Pushed(h, p)[i + 1] - 1] = Blank  OBVIOUS
      <4>1. i + 1 \in 1 .. Len(fs) /\ i + 1 > 1  BY <1>2
      <4> QED  BY <4>1, <1>5, <1>10, <1>13
    <3>2. i \in 1 .. Len(T)  BY <1>2
    <3>3. /\ Into(h, L, p, i) =>
               Under(new, T, Pushed(h, p), i) = WithoutTrailing(InsertAt(L[i], p - h[i], line))
          /\ ~ Into(h, L, p, i) => Under(new, T, Pushed(h, p), i) = WithoutTrailing(L[i])
      <4>1. p \in 1 .. (Len(text) + 1) /\ line \in Line  BY DEF IsInsertion
      <4>2. Laid(text, T, L, h) /\ new \in Seq(Line) /\ Inserted(new, text, p, line)  BY <1>1, <1>2
      <4>3. PutInto(Line, text, T, L, h, p, line, new)  BY <1>0, <4>1, <4>2 DEF PutInto
      <4> QED  BY <4>3, <3>1, <3>2, CodeAfterInsertion
    <3>4. CodeSync(file, new)[fs[i]] = Under(new, T, Pushed(h, p), i)  BY <1>5, <1>9
    <3> QED  BY <3>3, <3>4, <1>12, Zenon
  <2>2. AfterTyping(file, new) = CodeSync(file, new)  BY <1>13 DEF AfterTyping
  <2>3. CodeSync(file, new) = Meant(file, key)
    <3>1. PICK a, b : a = CodeSync(file, new) /\ b = Meant(file, key)  OBVIOUS
    <3>2. IsCode(a) /\ IsCode(b)  BY <1>9, <1>11, <3>1
    <3>3. \A i \in 1 .. Len(fs) : a[fs[i]] = b[fs[i]]  BY <2>1, <3>1
    <3>4. \A f \in DOMAIN body : (\A i \in 1 .. Len(fs) : fs[i] # f) => a[f] = b[f]
      BY <1>9, <1>11, <3>1
    <3>5. Agree(fs, a, b)  BY <3>3, <3>4 DEF Agree
    <3>6. a = b  BY <3>2, <3>5, SameCode
    <3> QED  BY <3>1, <3>6
  <2> QED  BY <1>1, <2>2, <2>3, Zenon
<1>14. CASE ~ HeadersKept(file, new)
  <2>1. ASSUME NEW i \in 1 .. Len(fs) PROVE body[fs[i]] = Meant(file, key)[fs[i]]
    <3> SUFFICES ASSUME Into(h, L, p, i) PROVE FALSE  BY <1>12
    <3>1. PICK a \in Nat, z \in Nat : a = h[i] /\ z = Len(L[i]) /\ a + 1 <= p /\ p <= a + z + 1
      <4>1. h[i] \in 1 .. N /\ Len(L[i]) \in Nat  BY <1>4, ShownAt
      <4> QED  BY <4>1, <1>4 DEF Into
    <3>2. ASSUME NEW j \in 1 .. Len(fs), j > 1 PROVE hp[j] > 1 /\ new[hp[j] - 1] = Blank
      <4>1. h[j] \in 1 .. N /\ h[j] - 1 \in 1 .. N /\ text[h[j] - 1] = Blank  BY <1>4, <3>2, ShownAt
      <4>2. h[j] # p
        <5>1. i < j => a + z + 2 <= h[j]  BY <3>1, ShownAt
        <5>2. j < i => h[j] < a  BY <3>1, <1>2 DEF FileHeaders, HeadersAt
        <5>3. i \in Int /\ j \in Int  OBVIOUS
        <5>4. j = i => h[j] = a  BY <3>1
        <5>5. PICK b \in Int : b = h[j]  BY <4>1
        <5>6. i < j \/ i = j \/ j < i  BY <5>3
        <5>7. a + z + 2 <= b \/ b <= a  BY <5>1, <5>2, <5>4, <5>5, <5>6, <3>1
        <5>8. p \in Int /\ a + 1 <= p /\ p <= a + z + 1  BY <3>1, <1>4
        <5>9. b # p  BY <5>7, <5>8, <3>1, Apart
        <5> QED  BY <5>5, <5>9
      <4>3. CASE h[j] < p
        <5>1. hp[j] = h[j] /\ h[j] - 1 \in 1 .. (N + 1) /\ h[j] - 1 < p /\ h[j] > 1
          BY <1>4, <1>7, <4>1, <4>3
        <5> QED  BY <5>1, <4>1, <1>new
      <4>4. CASE h[j] > p
        <5>1. hp[j] = h[j] + 1 /\ hp[j] - 1 = h[j] /\ h[j] \in 1 .. (N + 1) /\ hp[j] > 1
          BY <1>4, <1>7, <4>1, <4>4
        <5>2. new[h[j]] = text[h[j] - 1]  BY <5>1, <4>4, <1>new
        <5> QED  BY <5>1, <5>2, <4>1
      <4> QED  BY <4>1, <4>2, <4>3, <4>4, <1>4
    <3> QED  BY <3>2, <1>10, <1>14
  <2>2. AfterTyping(file, new) = body  BY <1>14 DEF AfterTyping
  <2>3. IsCode(body)  BY DEF TextInv, IsCode
  <2>4. body = Meant(file, key)
    <3>1. PICK a, b : a = body /\ b = Meant(file, key)  OBVIOUS
    <3>2. IsCode(a) /\ IsCode(b)  BY <1>11, <2>3, <3>1
    <3>3. \A i \in 1 .. Len(fs) : a[fs[i]] = b[fs[i]]  BY <2>1, <3>1
    <3>4. \A f \in DOMAIN body : (\A i \in 1 .. Len(fs) : fs[i] # f) => a[f] = b[f]
      BY <1>11, <3>1
    <3>5. Agree(fs, a, b)  BY <3>3, <3>4 DEF Agree
    <3>6. a = b  BY <3>2, <3>5, SameCode
    <3> QED  BY <3>1, <3>6
  <2> QED  BY <1>1, <2>2, <2>4, Zenon
<1> QED  BY <1>13, <1>14

\* A deletion lands: a header's is undone, any other line goes from the code it
\* was in, and if it was a line between two functions nothing changes.
LEMMA DeletionLands ==
  ASSUME TextInv, NEW file, NEW fs, NEW T, NEW L, NEW text, NEW h, Shown(file, fs, T, L, text, h),
         NEW p, NEW key, IsDeletion(key, text, p),
         HeadersDistinct(key.text, file)
  PROVE  AfterTyping(file, key.text) = Meant(file, key)
<1>0. text \in Seq(Line) /\ T \in Seq(Line) /\ L \in [1 .. Len(T) -> Seq(Line)]  BY DEF Shown
<1>1. PICK new : new = key.text /\ new \in Seq(Line) /\ Removed(new, text, p)
  BY <1>0, RemoveIs DEF IsDeletion
<1>2. /\ Laid(text, T, L, h) /\ Len(T) = Len(fs) /\ FileHeaders(file, fs, T, text, h)
      /\ text = FileContent(file)
  BY DEF Shown
<1>4. PICK N \in Nat : N = Len(text) /\ Len(new) = N - 1 /\ p \in 1 .. N
  <2>1. Len(text) \in Nat  BY <1>0
  <2> QED  BY <1>1, <2>1 DEF Removed, IsDeletion
<1>new. /\ \A k \in 1 .. (N - 1) : k < p => new[k] = text[k]
        /\ \A k \in 1 .. (N - 1) : k >= p => new[k] = text[k + 1]
  <2>2. \A k \in 1 .. (N - 1) : new[k] = text[IF k < p THEN k ELSE k + 1]
    BY <1>1, <1>4 DEF Removed
  <2>3. ASSUME NEW k \in 1 .. (N - 1), k >= p PROVE new[k] = text[k + 1]
    <3>1. ~ (k < p)  BY <2>3, <1>4
    <3> QED  BY <2>2, <3>1, Zenon
  <2> QED  BY <2>2, <2>3, Zenon
<1>11. /\ IsCode(Meant(file, key))
       /\ \A f \in DOMAIN body : (\A i \in 1 .. Len(fs) : fs[i] # f) => Meant(file, key)[f] = body[f]
  <2>1. fs = FunctionsIn(file) /\ DOMAIN fs = 1 .. Len(fs)  BY <1>2 DEF FileHeaders
  <2>2. ASSUME NEW f \in DOMAIN body, \A i \in 1 .. Len(fs) : fs[i] # f PROVE Meant(file, key)[f] = body[f]
    BY <2>1, <2>2, MeantElsewhere
  <2>3. IsCode(Meant(file, key))  BY MeantParts DEF IsCode
  <2> QED  BY <2>2, <2>3
<1>12. ASSUME NEW i \in 1 .. Len(fs)
       PROVE  /\ WithoutTrailing(L[i]) = body[fs[i]]
              /\ Of(h, L, p, i) => Meant(file, key)[fs[i]] = WithoutTrailing(RemoveAt(L[i], p - h[i]))
              /\ ~ Of(h, L, p, i) => Meant(file, key)[fs[i]] = body[fs[i]]
  <2>1. L[i] = Lines(fs[i]) /\ fs[i] \in DOMAIN body  BY DEF Shown, FileHeaders
  <2>2. PICK code \in Seq(Line) : code = L[i] /\ Len(code) >= 1 /\ WithoutTrailing(code) = body[fs[i]]
    BY <2>1, LinesAre
  <2>3. key.at = p /\ key.at \in Nat /\ key.put = << >>
    BY <1>4 DEF IsDeletion
  <2>4. /\ key.put = << >> /\ key.at \in (h[i] + 1) .. (h[i] + Len(code)) =>
             Meant(file, key)[fs[i]] = WithoutTrailing(RemoveAt(code, key.at - h[i]))
        /\ key.put = << >> /\ key.at \notin (h[i] + 1) .. (h[i] + Len(code)) =>
             Meant(file, key)[fs[i]] = body[fs[i]]
    <3>1. code = Lines(fs[i])  BY <2>1, <2>2
    <3>2. FileHeaders(file, fs, T, text, h) /\ text = FileContent(file)  BY <1>2
    <3> QED  BY <2>2, <2>3, <3>1, <3>2, MeantIs, Z3
  <2>5. Of(h, L, p, i) <=> key.at \in (h[i] + 1) .. (h[i] + Len(code))
    BY <2>2, <2>3, Zenon DEF Of
  <2>6. key.at - h[i] = p - h[i]  BY <2>3, Zenon
  <2> QED  BY <2>2, <2>3, <2>4, <2>5, <2>6, Zenon
<1>same. ASSUME \A i \in 1 .. Len(fs) : ~ Of(h, L, p, i) PROVE body = Meant(file, key)
  <2>1. PICK a, b : a = body /\ b = Meant(file, key)  OBVIOUS
  <2>2. IsCode(a) /\ IsCode(b)
    <3>1. IsCode(body)  BY DEF TextInv, IsCode
    <3> QED  BY <1>11, <2>1, <3>1
  <2>3. \A i \in 1 .. Len(fs) : a[fs[i]] = b[fs[i]]  BY <1>12, <1>same, <2>1
  <2>4. \A f \in DOMAIN body : (\A i \in 1 .. Len(fs) : fs[i] # f) => a[f] = b[f]  BY <1>11, <2>1
  <2>5. Agree(fs, a, b)  BY <2>3, <2>4 DEF Agree
  <2>6. a = b  BY <2>2, <2>5, SameCode
  <2> QED  BY <2>1, <2>6
<1>13. CASE \E i \in 1 .. Len(fs) : h[i] = p
  <2>1. PICK m \in 1 .. Len(fs) : h[m] = p  BY <1>13
  <2>2. ASSUME NEW k \in 1 .. (N - 1) PROVE new[k] # T[m]
    <3>1. \A n \in 1 .. N : text[n] = T[m] => n = p  BY <1>2, <1>4, <2>1 DEF FileHeaders, HeadersAt
    <3>2. CASE k < p
      <4>1. k \in 1 .. N /\ k # p  BY <1>4, <3>2
      <4> QED  BY <3>1, <3>2, <4>1, <1>new
    <3>3. CASE k >= p
      <4>1. k + 1 \in 1 .. N /\ k + 1 # p  BY <1>4, <3>3
      <4> QED  BY <3>1, <3>3, <4>1, <1>new
    <3>4. k \in Int /\ p \in Int  BY <1>4
    <3> QED  BY <3>2, <3>3, <3>4
  <2>3. ~ HeadersKept(file, new)
    <3>1. /\ fs = FunctionsIn(file) /\ DOMAIN fs = 1 .. Len(fs) /\ origin[fs[m]].title = T[m]
      BY <1>2 DEF FileHeaders, TitlesIn
    <3>2. DOMAIN new = 1 .. (N - 1)  BY <1>1, <1>4
    <3>3. HeadersKept(file, new) => \E n \in DOMAIN new : new[n] = origin[fs[m]].title
      BY <3>1, Zenon DEF HeadersKept
    <3> QED  BY <2>2, <3>1, <3>2, <3>3
  <2>4. AfterTyping(file, new) = body  BY <2>3 DEF AfterTyping
  <2>5. ASSUME NEW i \in 1 .. Len(fs) PROVE ~ Of(h, L, p, i)
    <3>1. PICK a \in Nat, z \in Nat : a = h[i] /\ z = Len(L[i])
      <4>1. h[i] \in 1 .. N /\ Len(L[i]) \in Nat  BY <1>4, ShownAt
      <4> QED  BY <4>1, <1>4
    <3>2. i < m => a + z + 2 <= p  BY <2>1, <3>1, ShownAt
    <3>3. m < i => p < a  BY <2>1, <3>1, <1>2 DEF FileHeaders, HeadersAt
    <3>4. m = i => p = a  BY <2>1, <3>1
    <3>5. i \in Int /\ m \in Int /\ p \in Int  BY <1>4
    <3>6. a + z + 2 <= p \/ p <= a
      <4>1. i < m \/ i = m \/ m < i  BY <3>5
      <4>2. p < a => p <= a  BY <3>5
      <4>3. p = a => p <= a  BY <3>5
      <4> QED  BY <3>2, <3>3, <3>4, <4>1, <4>2, <4>3, Zenon
    <3>7. p \notin (a + 1) .. (a + z)  BY <3>5, <3>6
    <3> QED  BY <3>1, <3>7 DEF Of
  <2> QED  BY <1>1, <1>same, <2>4, <2>5
<1>14. CASE \A i \in 1 .. Len(fs) : h[i] # p
  <2>1. PICK hp : hp = Pulled(h, p)  OBVIOUS
  <2>2. DOMAIN h = 1 .. Len(fs)  BY <1>2 DEF Laid
  <2>3. hp \in [1 .. Len(fs) -> Int] /\ \A i \in 1 .. Len(fs) : hp[i] = IF h[i] < p THEN h[i] ELSE h[i] - 1
    <3>1. \A i \in 1 .. Len(fs) : h[i] \in Nat  BY <1>2 DEF Laid
    <3> QED  BY <2>1, <2>2, <3>1 DEF Pulled
  <2>4. FileHeaders(file, fs, T, new, hp)
    <3>1. ASSUME NEW i \in 1 .. Len(fs) PROVE hp[i] \in 1 .. Len(new) /\ new[hp[i]] = T[i]
      <4>1. h[i] \in 1 .. N /\ text[h[i]] = T[i] /\ h[i] # p  BY <1>4, <1>14, ShownAt
      <4>2. CASE h[i] < p
        <5>1. hp[i] = h[i] /\ h[i] \in 1 .. (N - 1)  BY <1>4, <2>3, <4>1, <4>2
        <5> QED  BY <1>4, <1>new, <4>1, <4>2, <5>1
      <4>3. CASE ~ (h[i] < p)
        <5>1. hp[i] = h[i] - 1 /\ h[i] - 1 \in 1 .. (N - 1) /\ h[i] - 1 >= p /\ h[i] - 1 + 1 = h[i]
          BY <1>4, <2>3, <4>1, <4>3
        <5>2. PICK k \in 1 .. (N - 1) : k = h[i] - 1 /\ k >= p /\ k + 1 = h[i]
          BY <4>1, <5>1, <1>4
        <5>3. new[k] = text[k + 1]  BY <5>2, <1>new
        <5> QED  BY <1>4, <4>1, <5>1, <5>2, <5>3
      <4> QED  BY <4>2, <4>3
    <3>2. ASSUME NEW i \in 1 .. Len(fs), NEW j \in 1 .. Len(fs), i < j PROVE hp[i] < hp[j]
      <4>1. h[i] \in 1 .. N /\ h[j] \in 1 .. N /\ h[i] # p /\ h[j] # p  BY <1>4, <1>14, ShownAt
      <4>2. h[i] < h[j]  BY <1>2, <3>2 DEF FileHeaders, HeadersAt
      <4>3. /\ hp[i] = IF h[i] < p THEN h[i] ELSE h[i] - 1
            /\ hp[j] = IF h[j] < p THEN h[j] ELSE h[j] - 1
        BY <2>3
      <4>4. PICK a \in Int, b \in Int, c \in Int : a = h[i] /\ b = h[j] /\ c = p  BY <4>1, <1>4
      <4> QED  BY <4>1, <4>2, <4>3, <4>4
    <3>3. hp \in [1 .. Len(T) -> 1 .. Len(new)]  BY <1>2, <2>3, <3>1
    <3>4. \A i \in 1 .. Len(T) : new[hp[i]] = T[i]  BY <1>2, <3>1
    <3>5. \A i, j \in 1 .. Len(T) : i < j => hp[i] < hp[j]  BY <1>2, <3>2
    <3>6. /\ fs = FunctionsIn(file) /\ fs \in Seq(DOMAIN body) /\ T = TitlesIn(fs)
          /\ \A i, j \in 1 .. Len(fs) : fs[i] = fs[j] => i = j
      BY <1>2 DEF FileHeaders
    <3> QED  BY <1>1, <1>2, <3>3, <3>4, <3>5, <3>6, HeadersFound
  <2>5. IsCode(CodeSync(file, new))  BY <2>4, SyncIs DEF IsCode
  <2>6. \A i \in 1 .. Len(fs) : CodeSync(file, new)[fs[i]] = Under(new, T, hp, i)  BY <2>4, SyncIs
  <2>7. \A f \in DOMAIN body : (\A i \in 1 .. Len(fs) : fs[i] # f) => CodeSync(file, new)[f] = body[f]
    BY <2>4, SyncIs
  <2>8. CASE HeadersKept(file, new)
    <3>1. ASSUME NEW i \in 1 .. Len(fs) PROVE CodeSync(file, new)[fs[i]] = Meant(file, key)[fs[i]]
      <4>1. i \in 1 .. Len(T)  BY <1>2
      <4>2. TakenOut(Line, text, T, L, h, p, new)  BY <1>0, <1>1, <1>2, <1>4, <1>14 DEF TakenOut
      <4>3. /\ Of(h, L, p, i) => Under(new, T, Pulled(h, p), i) = WithoutTrailing(RemoveAt(L[i], p - h[i]))
            /\ ~ Of(h, L, p, i) => Under(new, T, Pulled(h, p), i) = WithoutTrailing(L[i])
        BY <4>1, <4>2, CodeAfterRemoval
      <4>4. CodeSync(file, new)[fs[i]] = Under(new, T, Pulled(h, p), i)  BY <2>1, <2>6
      <4> QED  BY <4>3, <4>4, <1>12, Zenon
    <3>2. AfterTyping(file, new) = CodeSync(file, new)  BY <2>8 DEF AfterTyping
    <3>3. PICK a, b : a = CodeSync(file, new) /\ b = Meant(file, key)  OBVIOUS
    <3>4. IsCode(a) /\ IsCode(b)  BY <1>11, <2>5, <3>3
    <3>5. \A i \in 1 .. Len(fs) : a[fs[i]] = b[fs[i]]  BY <3>1, <3>3
    <3>6. \A f \in DOMAIN body : (\A i \in 1 .. Len(fs) : fs[i] # f) => a[f] = b[f]
      BY <1>11, <2>7, <3>3
    <3>7. Agree(fs, a, b)  BY <3>5, <3>6 DEF Agree
    <3>8. a = b  BY <3>4, <3>7, SameCode
    <3> QED  BY <1>1, <3>2, <3>3, <3>8
  <2>9. CASE ~ HeadersKept(file, new)
    <3>1. ASSUME NEW i \in 1 .. Len(fs) PROVE ~ Of(h, L, p, i)
      <4> SUFFICES ASSUME Of(h, L, p, i) PROVE FALSE  OBVIOUS
      <4>1. PICK a \in Nat, z \in Nat : a = h[i] /\ z = Len(L[i]) /\ a + 1 <= p /\ p <= a + z
        <5>1. h[i] \in 1 .. N /\ Len(L[i]) \in Nat  BY <1>4, ShownAt
        <5> QED  BY <5>1, <1>4 DEF Of
      <4>2. ASSUME NEW j \in 1 .. Len(fs), j > 1 PROVE hp[j] > 1 /\ new[hp[j] - 1] = Blank
        <5>1. h[j] \in 1 .. N /\ h[j] - 1 \in 1 .. N /\ text[h[j] - 1] = Blank /\ h[j] # p
          BY <1>4, <1>14, <4>2, ShownAt
        <5>2. PICK b \in Int : b = h[j]  BY <5>1
        <5>3. b - 1 # p
          <6>1. i < j => a + z + 2 <= b  BY <4>1, <5>2, ShownAt
          <6>2. j < i => b < a  BY <4>1, <5>2, <1>2 DEF FileHeaders, HeadersAt
          <6>3. i \in Int /\ j \in Int  OBVIOUS
          <6>4. j = i => b = a  BY <4>1, <5>2
          <6>5. i < j \/ i = j \/ j < i  BY <6>3
          <6>6. a + z + 2 <= b \/ b <= a  BY <6>1, <6>2, <6>4, <6>5, <4>1
          <6>7. p \in Int /\ a + 1 <= p /\ p <= a + z  BY <4>1, <1>4
          <6> QED  BY <6>6, <6>7
        <5>4. CASE b < p
          <6>1. hp[j] = b /\ b - 1 \in 1 .. (N - 1) /\ b - 1 < p /\ b > 1
            BY <1>4, <2>3, <5>1, <5>2, <5>4
          <6> QED  BY <6>1, <5>1, <5>2, <1>new
        <5>5. CASE b > p
          <6>1. hp[j] = b - 1 /\ b - 1 > 1 /\ b - 1 - 1 \in 1 .. (N - 1) /\ b - 1 - 1 >= p
                /\ b - 1 - 1 + 1 = b - 1
            BY <1>4, <2>3, <5>1, <5>2, <5>3, <5>5
          <6>2. PICK k \in 1 .. (N - 1) : k = b - 1 - 1 /\ k >= p /\ k + 1 = b - 1
            BY <6>1, <1>4
          <6>3. new[k] = text[k + 1]  BY <6>2, <1>new
          <6> QED  BY <6>1, <6>2, <6>3, <5>1, <5>2
        <5>6. p \in Int /\ b # p  BY <1>4, <5>1, <5>2
        <5> QED  BY <5>4, <5>5, <5>6, <5>2
      <4>3. HeadersKept(file, new) <=> \A j \in 1 .. Len(fs) : j > 1 => hp[j] > 1 /\ new[hp[j] - 1] = Blank
        BY <2>4, KeptIs
      <4> QED  BY <4>2, <4>3, <2>9
    <3>2. AfterTyping(file, new) = body  BY <2>9 DEF AfterTyping
    <3> QED  BY <1>1, <1>same, <3>1, <3>2
  <2> QED  BY <2>8, <2>9
<1> QED  BY <1>13, <1>14

\* A file whose headers are distinct is shown with them.
LEMMA ShownIs ==
  ASSUME TextInv, NEW file, HeadersDistinct(FileContent(file), file)
  PROVE  \E fs, T, L, text, h : Shown(file, fs, T, L, text, h)
<1>1. PICK text : text = FileContent(file)  OBVIOUS
<1>2. PICK fs, T, L : /\ fs = FunctionsIn(file) /\ T = TitlesIn(fs)
                      /\ L = [i \in 1 .. Len(T) |-> Lines(fs[i])]
                      /\ Content(file, fs, T, L)
  BY ContentIs
<1>3. fs = FunctionsIn(file) /\ T = TitlesIn(fs) /\ L = [i \in 1 .. Len(T) |-> Lines(fs[i])]  BY <1>2
<1>4. /\ fs \in Seq(DOMAIN body) /\ \A i, j \in 1 .. Len(fs) : fs[i] = fs[j] => i = j
      /\ T \in Seq(Line) /\ Len(T) = Len(fs) /\ L \in [1 .. Len(T) -> Seq(Line)]
      /\ text \in Seq(Line) /\ \E h : Laid(text, T, L, h)
  BY <1>1, <1>2 DEF Content
<1>5. PICK h : Laid(text, T, L, h)  BY <1>4
<1>6. \A i \in 1 .. Len(T) : h[i] \in 1 .. Len(text) /\ text[h[i]] = T[i]
  <2>1. ASSUME NEW i \in 1 .. Len(T) PROVE h[i] \in 1 .. Len(text) /\ text[h[i]] = T[i]
    <3>1. /\ h[i] \in Nat \ {0} /\ Len(L[i]) \in Nat /\ Len(text) \in Nat
          /\ text[h[i]] = T[i] /\ h[i] + Len(L[i]) <= Len(text)
      BY <1>4, <1>5, LaidAt
    <3> QED  BY <3>1
  <2> QED  BY <2>1
<1>7. \A i, j \in 1 .. Len(T) : i < j => h[i] < h[j]
  <2>1. ASSUME NEW i \in 1 .. Len(T), NEW j \in 1 .. Len(T), i < j PROVE h[i] < h[j]
    <3>1. h[i] + Len(L[i]) + 2 <= h[j] /\ h[i] \in Nat /\ h[j] \in Nat  BY <1>5, <2>1 DEF Laid
    <3>2. Len(L[i]) \in Nat
      <4>1. L[i] \in Seq(Line)  BY <1>4
      <4> QED  BY <4>1
    <3> QED  BY <3>1, <3>2
  <2> QED  BY <2>1
<1>8. h \in [1 .. Len(T) -> 1 .. Len(text)]
  <2>1. h \in [1 .. Len(T) -> Nat \ {0}]  BY <1>5 DEF Laid
  <2> QED  BY <2>1, <1>6
<1>9. \A i \in 1 .. Len(T) : text[h[i]] = T[i]  BY <1>6
<1>10. FileHeaders(file, fs, T, text, h)
  BY <1>1, <1>2, <1>4, <1>7, <1>8, <1>9, HeadersFound
<1>11. \A i \in 1 .. Len(fs) : L[i] = Lines(fs[i])  BY <1>3, <1>4
<1>12. Shown(file, fs, T, L, text, h)  BY <1>1, <1>4, <1>5, <1>10, <1>11 DEF Shown
<1> QED  BY <1>12

\* A keystroke puts in a line or takes one out.
LEMMA KeysAre ==
  ASSUME TextInv, NEW file, NEW key \in Keystrokes(file), NEW text, text = FileContent(file),
         text \in Seq(Line)
  PROVE  (\E p, line : IsInsertion(key, text, p, line)) \/ (\E p : IsDeletion(key, text, p))
<1>1. PICK lines : lines = Statements \cup {Blank} \cup {origin[f].title : f \in DOMAIN origin}  OBVIOUS
<1>2. \A line \in lines : line \in Line
  <2>1. \A f \in DOMAIN origin : origin[f].title \in Line  BY DEF TextInv
  <2>2. \A line \in Statements \cup {Blank} : line \in Line  BY DEF Line
  <2> QED  BY <1>1, <2>1, <2>2
<1>3. key \in Insertions(text, lines) \cup Deletions(text)  BY <1>1 DEF Keystrokes
<1>4. CASE key \in Insertions(text, lines)
  <2>1. PICK p \in 1 .. (Len(text) + 1), line \in lines :
          key = [at |-> p, put |-> << line >>, text |-> InsertAt(text, p, line)]
    BY <1>4 DEF Insertions
  <2>2. IsInsertion(key, text, p, line)  BY <1>2, <2>1, Zenon DEF IsInsertion
  <2> QED  BY <2>2
<1>5. CASE key \in Deletions(text)
  <2>1. PICK p \in DOMAIN text : key = [at |-> p, put |-> << >>, text |-> RemoveAt(text, p)]
    BY <1>5 DEF Deletions
  <2>2. p \in 1 .. Len(text)  BY <2>1
  <2>3. IsDeletion(key, text, p)  BY <2>1, <2>2, Zenon DEF IsDeletion
  <2> QED  BY <2>3
<1> QED  BY <1>3, <1>4, <1>5

\* What holds of the text is enough for every keystroke to land.
LEMMA TextInvSuffices == TextInv => TypedTextLands
<1> SUFFICES ASSUME TextInv, NEW w \in DOMAIN windows, NEW file, file = windows[w].active,
                    HeadersDistinct(FileContent(file), file),
                    NEW key \in Keystrokes(file), HeadersDistinct(key.text, file)
             PROVE  AfterTyping(file, key.text) = Meant(file, key)
  BY DEF TypedTextLands
<1>1. PICK fs, T, L, text, h : Shown(file, fs, T, L, text, h)  BY ShownIs
<1>2. text = FileContent(file) /\ text \in Seq(Line)  BY <1>1 DEF Shown
<1>3. (\E p, line : IsInsertion(key, text, p, line)) \/ (\E p : IsDeletion(key, text, p))
  BY <1>2, KeysAre
<1>4. ASSUME NEW p, NEW line, IsInsertion(key, text, p, line)
      PROVE  AfterTyping(file, key.text) = Meant(file, key)
  BY <1>1, <1>4, InsertionLands
<1>5. ASSUME NEW p, IsDeletion(key, text, p) PROVE AfterTyping(file, key.text) = Meant(file, key)
  BY <1>1, <1>5, DeletionLands
<1> QED  BY <1>3, <1>4, <1>5, Zenon

-----------------------------------------------------------------------------
\* The text invariant holds in every state.

\* A bounded set of numbers has a greatest one.
LEMMA Greatest ==
  ASSUME NEW N \in Nat, NEW S \in SUBSET (1 .. N), S # {}
  PROVE  \E n \in S : \A m \in S : m <= n
<1> DEFINE Rests == {k \in Nat : \E n \in S : k = N - n}
<1>1. Rests \in SUBSET Nat /\ Rests # {}
  <2>1. PICK n \in S : TRUE  OBVIOUS
  <2>2. N - n \in Nat  OBVIOUS
  <2> QED  BY <2>1, <2>2
<1>2. PICK k \in Rests : \A l \in Rests : k <= l
  <2> HIDE DEF Rests
  <2> QED  BY <1>1, Least
<1>3. PICK n \in S : k = N - n  BY <1>2
<1>4. ASSUME NEW m \in S PROVE m <= n
  <2>1. N - m \in Nat /\ m \in Nat /\ n \in Nat  OBVIOUS
  <2>2. N - m \in Rests  BY <2>1
  <2>3. N - n <= N - m  BY <1>2, <1>3, <2>2
  <2> QED  BY <2>1, <2>3
<1> QED  BY <1>4

\* The functions of the board and their first line.
LEMMA InitText == ViewerInit => TextInv
<1> SUFFICES ASSUME ViewerInit PROVE TextInv  OBVIOUS
<1>1. PICK s \in Statements : s = CHOOSE t \in Statements : TRUE  BY ViewerAssumption
<1>2. s \in Line /\ s # Blank  BY ViewerAssumption DEF Line
<1>3. PICK all : all = {Opened[i] : i \in DOMAIN Opened}  OBVIOUS
<1>4. /\ functions = Opened /\ DOMAIN origin = all /\ additions = {}
      /\ body = [f \in all |-> << s >>]
      /\ \A f \in all : origin[f].title = TitleOf[f]
  BY <1>1, <1>3 DEF ViewerInit
<1>5. /\ functions \in Seq(DOMAIN origin)
      /\ \A i, j \in 1 .. Len(functions) : functions[i] = functions[j] => i = j
  <2>1. Opened \in Seq(all)  BY <1>3, ViewerAssumption
  <2>2. DOMAIN Opened = 1 .. Len(Opened)  BY <2>1
  <2> QED  BY <1>4, <2>1, <2>2, ViewerAssumption
<1>6. << s >> \in Seq(Line) /\ Trimmed(<< s >>)
  <2>1. PICK one : one = << s >> /\ one \in Seq(Line) /\ Len(one) = 1 /\ one[1] = s
    <3>1. << s >> \in Seq(Line) /\ Len(<< s >>) = 1 /\ << s >>[1] = s  BY <1>2
    <3> QED  BY <3>1
  <2>2. Trimmed(one)  BY <2>1, <1>2 DEF Trimmed
  <2> QED  BY <2>1, <2>2
<1>7. body \in [DOMAIN origin -> Seq(Line)]  BY <1>4, <1>6
<1>8. \A f \in DOMAIN origin : origin[f].title \in Line /\ Trimmed(body[f])
  <2>1. ASSUME NEW f \in all PROVE TitleOf[f] \in Line
    <3>1. PICK i \in DOMAIN Opened : f = Opened[i]  BY <1>3
    <3> QED  BY <3>1 DEF Line, Titles
  <2>2. \A f \in all : body[f] = << s >>  BY <1>4
  <2> QED  BY <1>4, <1>6, <2>1, <2>2
<1> QED  BY <1>4, <1>5, <1>7, <1>8 DEF TextInv

\* The code under a header is lines of the text, less the empty ones at the end.
LEMMA CodeUnderTrimmed ==
  ASSUME NEW file, NEW text \in Seq(Line), NEW n \in 1 .. Len(text)
  PROVE  CodeUnder(file, text, n) \in Seq(Line) /\ Trimmed(CodeUnder(file, text, n))
<1> DEFINE next == {k \in (n + 1) .. Len(text) : OwnerOf(file, text[k]) # {}}
           end == IF next = {} THEN Len(text) ELSE (CHOOSE k \in next : \A l \in next : k <= l) - 1
<1>1. CodeUnder(file, text, n) = WithoutTrailing(SubSeq(text, n + 1, end))  BY Zenon DEF CodeUnder
<1>2. Len(text) \in Nat /\ n \in Nat /\ n <= Len(text) /\ 1 <= n  OBVIOUS
<1>3. end \in n .. Len(text)
  <2>1. CASE next = {}  BY <2>1, <1>2
  <2>2. CASE next # {}
    <3>1. next \in SUBSET Nat /\ \A k \in next : k \in (n + 1) .. Len(text)  BY <1>2
    <3> HIDE DEF next
    <3>2. PICK least : least = CHOOSE k \in next : \A l \in next : k <= l  OBVIOUS
    <3>3. least \in next  BY <2>2, <3>1, <3>2, Least
    <3>4. end = least - 1  BY <2>2, <3>2
    <3> QED  BY <1>2, <3>1, <3>3, <3>4
  <2> QED  BY <2>1, <2>2
<1> HIDE DEF end
<1>4. PICK m \in 1 .. (Len(text) + 1) : m = n + 1  BY <1>2
<1>5. end \in (m - 1) .. Len(text)  BY <1>3, <1>4, <1>2
<1>6. SubSeq(text, m, end) \in Seq(Line)  BY <1>5, SubSeqPlaces
<1>7. WithoutTrailing(SubSeq(text, m, end)) \in Seq(Line) /\ Trimmed(WithoutTrailing(SubSeq(text, m, end)))
  BY <1>6, TrimmedStays
<1> QED  BY <1>1, <1>4, <1>7

\* So is the code every function gets.
LEMMA SyncTrimmed ==
  ASSUME TextInv, NEW file, NEW text \in Seq(Line), NEW f \in DOMAIN body
  PROVE  CodeSync(file, text)[f] \in Seq(Line) /\ Trimmed(CodeSync(file, text)[f])
<1> DEFINE mine == {n \in DOMAIN text : f \in OwnerOf(file, text[n])}
<1>1. CodeSync(file, text)[f]
        = IF mine = {} THEN body[f] ELSE CodeUnder(file, text, CHOOSE n \in mine : \A k \in mine : k <= n)
  BY DEF CodeSync
<1>2. mine \in SUBSET (1 .. Len(text)) /\ Len(text) \in Nat  OBVIOUS
<1> HIDE DEF mine
<1>3. CASE mine = {}  BY <1>1, <1>3 DEF TextInv
<1>4. CASE mine # {}
  <2>1. PICK n : n = CHOOSE m \in mine : \A k \in mine : k <= m  OBVIOUS
  <2>2. n \in mine  BY <1>2, <1>4, <2>1, Greatest
  <2>3. n \in 1 .. Len(text)  BY <1>2, <2>2
  <2>4. CodeSync(file, text)[f] = CodeUnder(file, text, n)  BY <1>1, <1>4, <2>1
  <2> QED  BY <2>3, <2>4, CodeUnderTrimmed
<1> QED  BY <1>3, <1>4

\* A keystroke.
LEMMA TypingKeepsText ==
  ASSUME TextInv, NEW w \in DOMAIN windows, NEW key \in Keystrokes(windows[w].active),
         ChangeModelContent(w, key)
  PROVE  TextInv'
<1>1. PICK file, text, new : file = windows[w].active /\ text = FileContent(file) /\ new = key.text
  OBVIOUS
<1>2. text \in Seq(Line)
  <2>1. \E fs, T, L : Content(file, fs, T, L)  BY ContentIs
  <2> QED  BY <1>1, <2>1 DEF Content
<1>3. new \in Seq(Line)
  <2>1. key \in Keystrokes(file)  BY <1>1
  <2>2. (\E p, line : IsInsertion(key, text, p, line)) \/ (\E p : IsDeletion(key, text, p))
    BY <1>1, <1>2, <2>1, KeysAre
  <2>3. ASSUME NEW p, NEW line, IsInsertion(key, text, p, line) PROVE new \in Seq(Line)
    BY <1>1, <1>2, <2>3, InsertPlaces DEF IsInsertion
  <2>4. ASSUME NEW p, IsDeletion(key, text, p) PROVE new \in Seq(Line)
    BY <1>1, <1>2, <2>4, RemoveIs DEF IsDeletion
  <2> QED  BY <2>2, <2>3, <2>4
<1>4. PICK after : after = AfterTyping(file, new)  OBVIOUS
<1>5. after \in [DOMAIN body -> Seq(Line)] /\ \A f \in DOMAIN body : Trimmed(after[f])
  <2>1. CASE after = body  BY <2>1 DEF TextInv
  <2>2. CASE after = CodeSync(file, new)
    <3>1. DOMAIN after = DOMAIN body /\ after = [f \in DOMAIN body |-> after[f]]  BY <2>2 DEF CodeSync
    <3>2. \A f \in DOMAIN body : after[f] \in Seq(Line) /\ Trimmed(after[f])
      BY <1>3, <2>2, SyncTrimmed
    <3> QED  BY <3>1, <3>2
  <2> QED  BY <1>4, <2>1, <2>2 DEF AfterTyping
<1>6. body' = after /\ UNCHANGED <<functions, origin, additions>>
  BY <1>1, <1>4 DEF ChangeModelContent
<1>7. DOMAIN body = DOMAIN origin  BY DEF TextInv
<1> QED  BY <1>5, <1>6, <1>7 DEF TextInv

\* A new function goes to a place among those of the board.
LEMMA PlaceIs ==
  ASSUME TextInv, NEW a
  PROVE  Place(a) \in 1 .. (Len(functions) + 1)
<1> DEFINE fits(i) == IF a.after = Top THEN origin[functions[i]].file = a.file ELSE functions[i] = a.after
           found == {i \in DOMAIN functions : fits(i)}
<1>1. Place(a) = IF found = {} THEN Len(functions) + 1
                 ELSE IF a.after = Top THEN (CHOOSE i \in found : \A j \in found : i <= j)
                 ELSE (CHOOSE i \in found : \A j \in found : i <= j) + 1
  BY Zenon DEF Place
<1>2. PICK N \in Nat : N = Len(functions) /\ DOMAIN functions = 1 .. N
  <2>1. Len(functions) \in Nat /\ DOMAIN functions = 1 .. Len(functions)  BY DEF TextInv
  <2> QED  BY <2>1
<1>3. found \in SUBSET (1 .. N)  BY <1>2
<1> HIDE DEF found
<1>4. PICK first : first = CHOOSE i \in found : \A j \in found : i <= j  OBVIOUS
<1>5. ASSUME found # {} PROVE first \in 1 .. N
  <2>1. found \in SUBSET Nat  BY <1>3
  <2>2. first \in found  BY <1>4, <1>5, <2>1, Least
  <2> QED  BY <1>3, <2>2
<1>6. Place(a) = N + 1 \/ (found # {} /\ (Place(a) = first \/ Place(a) = first + 1))
  BY <1>1, <1>2, <1>4
<1>7. Place(a) \in 1 .. (N + 1)
  <2>1. CASE Place(a) = N + 1  BY <2>1
  <2>2. CASE found # {} /\ (Place(a) = first \/ Place(a) = first + 1)
    <3>1. first \in 1 .. N  BY <1>5, <2>2
    <3>2. first \in 1 .. (N + 1) /\ first + 1 \in 1 .. (N + 1)  BY <3>1
    <3> QED  BY <2>2, <3>2
  <2> QED  BY <1>6, <2>1, <2>2
<1> QED  BY <1>2, <1>7

\* A function more.
LEMMA AddingKeepsText ==
  ASSUME TextInv, NEW a, NEW f, FunctionAdded(a, f)
  PROVE  TextInv'
<1>1. PICK all, at : all = functions /\ at = Place(a)  OBVIOUS
<1>2. /\ functions' = InsertAt(all, at, f) /\ a \in additions /\ f \notin DOMAIN origin
      /\ additions' = additions \ {a}
  BY <1>1 DEF FunctionAdded
<1>3. PICK old, known : old = DOMAIN origin /\ known = old \cup {f}  OBVIOUS
<1>4. /\ origin' = [g \in known |-> IF g = f THEN [file |-> a.file, title |-> a.title] ELSE origin[g]]
      /\ body' = [g \in known |-> IF g = f THEN Skeleton ELSE body[g]]
  <2>1. DOMAIN body = DOMAIN origin  BY DEF TextInv
  <2>2. origin' = [g \in DOMAIN origin \cup {f} |-> IF g = f THEN [file |-> a.file, title |-> a.title] ELSE origin[g]]
    BY DEF FunctionAdded
  <2>3. body' = [g \in DOMAIN body \cup {f} |-> IF g = f THEN Skeleton ELSE body[g]]
    BY DEF FunctionAdded
  <2> QED  BY <1>3, <2>1, <2>2, <2>3, Zenon
<1>5. /\ all \in Seq(known) /\ at \in 1 .. (Len(all) + 1) /\ f \in known
      /\ \A i \in 1 .. Len(all) : all[i] \in old
      /\ \A i, j \in 1 .. Len(all) : all[i] = all[j] => i = j
  <2>1. functions \in Seq(old) /\ \A i, j \in 1 .. Len(functions) : functions[i] = functions[j] => i = j
    BY <1>3 DEF TextInv
  <2>2. at \in 1 .. (Len(all) + 1)  BY <1>1, PlaceIs
  <2>3. functions \in Seq(known)  BY <1>3, <2>1
  <2> QED  BY <1>1, <1>3, <2>1, <2>2, <2>3
<1>6. PICK new : new = functions' /\ new \in Seq(known) /\ Inserted(new, all, at, f)
  BY <1>2, <1>5, InsertPlaces
<1>7. \A i, j \in 1 .. Len(new) : new[i] = new[j] => i = j
  <2>1. PICK N \in Nat, p \in Nat : N = Len(all) /\ p = at /\ Len(new) = N + 1 /\ p \in 1 .. (N + 1)
    <3>1. Len(all) \in Nat /\ at \in Nat  BY <1>5
    <3> QED  BY <1>5, <1>6, <3>1 DEF Inserted
  <2>2. \A k \in 1 .. (N + 1) : new[k] = IF k < p THEN all[k] ELSE IF k = p THEN f ELSE all[k - 1]
    BY <1>6, <2>1 DEF Inserted
  <2>3. ASSUME NEW k \in 1 .. (N + 1)
        PROVE  /\ k < p => k \in 1 .. N /\ new[k] = all[k]
               /\ k = p => new[k] = f
               /\ k > p => k - 1 \in 1 .. N /\ new[k] = all[k - 1]
    <3>1. k < p => k \in 1 .. N  BY <2>1
    <3>2. k > p => k - 1 \in 1 .. N /\ ~ (k < p) /\ k # p  BY <2>1
    <3>3. k = p => ~ (k < p)  BY <2>1
    <3> QED  BY <2>2, <3>1, <3>2, <3>3, Zenon
  <2>4. f \notin old  BY <1>2, <1>3
  <2>5. ASSUME NEW i \in 1 .. (N + 1), NEW j \in 1 .. (N + 1), new[i] = new[j] PROVE i = j
    <3>1. \A m, n \in 1 .. N : all[m] = all[n] => m = n  BY <1>5, <2>1
    <3>2. \A m \in 1 .. N : all[m] # f  BY <1>5, <2>1, <2>4
    <3>3. i \in Int /\ j \in Int  OBVIOUS
    <3>4. CASE i = p
      <4>1. j = p  BY <2>1, <2>3, <2>5, <3>2, <3>3, <3>4
      <4> QED  BY <3>4, <4>1
    <3>5. CASE j = p
      <4>1. i = p  BY <2>1, <2>3, <2>5, <3>2, <3>3, <3>5
      <4> QED  BY <3>5, <4>1
    <3>6. CASE i < p
      <4>1. i \in 1 .. N /\ new[i] = all[i]  BY <2>3, <3>6
      <4>2. j < p => i = j  BY <2>3, <2>5, <3>1, <4>1
      <4>3. j > p => i = j - 1  BY <2>3, <2>5, <3>1, <4>1
      <4> QED  BY <2>1, <3>3, <3>5, <3>6, <4>2, <4>3
    <3>7. CASE i > p
      <4>1. i - 1 \in 1 .. N /\ new[i] = all[i - 1]  BY <2>3, <3>7
      <4>2. j < p => i - 1 = j  BY <2>3, <2>5, <3>1, <4>1
      <4>3. j > p => i - 1 = j - 1  BY <2>3, <2>5, <3>1, <4>1
      <4> QED  BY <2>1, <3>3, <3>5, <3>7, <4>2, <4>3
    <3> QED  BY <2>1, <3>3, <3>4, <3>6, <3>7
  <2> QED  BY <2>1, <2>5
<1>8. Skeleton \in Seq(Line) /\ Trimmed(Skeleton)
  <2>1. "func" \in Line /\ "func" # Blank  BY DEF Line, Blank
  <2>2. PICK one : one = Skeleton /\ one \in Seq(Line) /\ Len(one) = 1 /\ one[1] = "func"
    <3>1. << "func" >> \in Seq(Line) /\ Len(<< "func" >>) = 1 /\ << "func" >>[1] = "func"  BY <2>1
    <3> QED  BY <3>1 DEF Skeleton
  <2>3. Trimmed(one)  BY <2>1, <2>2 DEF Trimmed
  <2> QED  BY <2>2, <2>3
<1>9. body' \in [known -> Seq(Line)]
  <2>1. \A g \in known : (IF g = f THEN Skeleton ELSE body[g]) \in Seq(Line)
    BY <1>3, <1>8 DEF TextInv
  <2> QED  BY <1>4, <2>1
<1>10. \A g \in known : origin'[g].title \in Line /\ Trimmed(body'[g])
  <2>1. ASSUME NEW g \in known PROVE origin'[g].title \in Line /\ Trimmed(body'[g])
    <3>1. CASE g = f
      <4>1. origin'[g] = [file |-> a.file, title |-> a.title] /\ body'[g] = Skeleton  BY <1>4, <3>1
      <4>2. a.title \in Line  BY <1>2 DEF TextInv
      <4> QED  BY <1>8, <4>1, <4>2
    <3>2. CASE g # f
      <4>1. origin'[g] = origin[g] /\ body'[g] = body[g] /\ g \in DOMAIN origin  BY <1>3, <1>4, <3>2
      <4>2. origin[g].title \in Line /\ Trimmed(body[g])  BY <4>1 DEF TextInv
      <4> QED  BY <4>1, <4>2
    <3> QED  BY <3>1, <3>2
  <2> QED  BY <2>1
<1>11. DOMAIN origin' = known  BY <1>4
<1>12. \A b \in additions' : b.title \in Line  BY <1>2 DEF TextInv
<1> QED  BY <1>6, <1>7, <1>9, <1>10, <1>11, <1>12 DEF TextInv

\* Every step keeps it.
LEMMA TextStep ==
  ASSUME TextInv, [ViewerNext]_viewerVars
  PROVE  TextInv'
<1>1. ASSUME UNCHANGED textVars PROVE TextInv'
  BY <1>1 DEF TextInv, textVars
<1>2. CASE UNCHANGED viewerVars  BY <1>1, <1>2, Zenon DEF viewerVars, textVars
<1>3. CASE ToggleTree  BY <1>1, <1>3, Zenon DEF ToggleTree
<1>4. ASSUME NEW file \in TreeFiles, NEW i \in DOMAIN FoldersOf[file], ToggleFolder(FoldersOf[file][i])
      PROVE  TextInv'
  BY <1>1, <1>4, Zenon DEF ToggleFolder
<1>5. ASSUME NEW file \in TreeFiles, HandleFileSelect(file) PROVE TextInv'
  BY <1>1, <1>5, Zenon DEF HandleFileSelect
<1>6. ASSUME NEW w \in DOMAIN windows, NEW file \in TreeFiles,
             TabChange(w, file) \/ TabClose(w, file) \/ DetachTab(w, file)
      PROVE  TextInv'
  BY <1>1, <1>6, Zenon DEF TabChange, TabClose, DetachTab
<1>7. ASSUME NEW w \in DOMAIN windows, CloseAll(w) PROVE TextInv'
  BY <1>1, <1>7, Zenon DEF CloseAll
<1>8. ASSUME NEW w \in DOMAIN windows, NEW key \in Keystrokes(windows[w].active), ChangeModelContent(w, key)
      PROVE  TextInv'
  BY <1>8, TypingKeepsText
<1>9. ASSUME NEW w \in DOMAIN windows, NEW after, AddPopup(w, after) PROVE TextInv'
  BY <1>1, <1>9, Zenon DEF AddPopup
<1>10. ASSUME NEW p, CancelAdd(p) PROVE TextInv'
  BY <1>1, <1>10, Zenon DEF CancelAdd
<1>11. ASSUME NEW w, NEW p, NEW title \in NewTitles, HandleConfirmAdd(w, p, title) PROVE TextInv'
  <2>1. UNCHANGED <<functions, origin, body>>  BY <1>11 DEF HandleConfirmAdd
  <2>2. \A a \in additions' : a \in additions \/ a.title = title  BY <1>11 DEF HandleConfirmAdd
  <2>3. title \in Line  BY DEF Line, Titles
  <2> QED  BY <2>1, <2>2, <2>3 DEF TextInv
<1>12. ASSUME NEW a, NEW f, FunctionAdded(a, f) PROVE TextInv'
  BY <1>12, AddingKeepsText
<1>13. ASSUME NEW a, FunctionNotAdded(a) PROVE TextInv'
  <2>1. UNCHANGED <<functions, origin, body>> /\ additions' \in SUBSET additions
    BY <1>13 DEF FunctionNotAdded
  <2> QED  BY <2>1 DEF TextInv
<1> QED
  BY <1>2, <1>3, <1>4, <1>5, <1>6, <1>7, <1>8, <1>9, <1>10, <1>11, <1>12, <1>13, Zenon DEF ViewerNext

\* A file put together and taken apart again is the same but for the line typed
\* (FileContent, CodeSync): for any functions, any titles and any code of any
\* length, in a text with no two like headers.
THEOREM TypingLands == ViewerSpec => []TypedTextLands
<1>1. ViewerInit => TextInv  BY InitText
<1>2. TextInv /\ [ViewerNext]_viewerVars => TextInv'  BY TextStep
<1>3. TextInv => TypedTextLands  BY TextInvSuffices
<1> QED  BY <1>1, <1>2, <1>3, PTL DEF ViewerSpec

=============================================================================
