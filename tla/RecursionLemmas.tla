---------------------------- MODULE RecursionLemmas ---------------------------
(* Facts the other proofs share: recursion over the positions of a sequence *)
(* without an induction theorem, and what a sequence holds.                 *)
EXTENDS Naturals, Integers, Sequences, SequencesExt, SequenceTheorems,
        WellFoundedInduction, TLAPS

(* What holds of 0 and passes from i - 1 to i holds up to n. *)
LEMMA UpTo ==
    ASSUME NEW n \in Nat, NEW S, 0 \in S, \A i \in 1..n : i - 1 \in S => i \in S
    PROVE  0..n \subseteq S
  <1> DEFINE R == {ss \in Nat \X Nat : ss[1] < ss[2]}
             bad == 0..n \ S
  <1>1. IsWellFoundedOn(R, Nat)
    BY NatLessThanWellFounded DEF OpToRel
  <1>2. \A x, y \in Nat : x < y => <<x, y>> \in R
    OBVIOUS
  <1>3. bad \subseteq Nat /\ bad \subseteq 0..n
    OBVIOUS
  <1> HIDE DEF R
  <1>4. ASSUME bad # {} PROVE FALSE
    <2> HIDE DEF bad
    <2>1. PICK b \in bad : \A y \in bad : <<y, b>> \notin R
      BY <1>1, <1>3, <1>4, WFMin
    <2>2. b \in 0..n /\ b \notin S
      BY <2>1 DEF bad
    <2>3. b \in 1..n /\ b - 1 \in Nat
      BY <2>2
    <2>4. b \in Nat /\ b - 1 < b
      BY <2>3
    <2>5. b - 1 \notin bad
      BY <1>2, <2>1, <2>3, <2>4
    <2>6. b - 1 \in 0..n
      BY <2>3
    <2>7. b - 1 \in S
      BY <2>5, <2>6 DEF bad
    <2> QED
      BY <2>2, <2>3, <2>7
  <1> QED
    BY <1>4

(* A set of positions has a first one. *)
LEMMA Least ==
    ASSUME NEW n \in Nat, NEW S, S \subseteq 1..n, S # {}
    PROVE  \E x \in S : \A y \in S : x <= y
  <1> DEFINE R == {ss \in Nat \X Nat : ss[1] < ss[2]}
  <1>1. IsWellFoundedOn(R, Nat)
    BY NatLessThanWellFounded DEF OpToRel
  <1>2. \A x, y \in Nat : <<y, x>> \notin R => x <= y
    OBVIOUS
  <1> HIDE DEF R
  <1>3. S \subseteq Nat
    OBVIOUS
  <1>4. PICK x \in S : \A y \in S : <<y, x>> \notin R
    BY <1>1, <1>3, WFMin
  <1> QED
    BY <1>2, <1>3, <1>4

(* The functions a recursive definition over 1..n may mean: there is one.   *)
Runs(f, n, x0, step) == f[0] = x0 /\ \A i \in 1..n : f[i] = step[i][f[i - 1]]

LEMMA Recursion ==
    ASSUME NEW X, NEW x0 \in X, NEW n \in Nat, NEW step \in [1..n -> [X -> X]]
    PROVE  \E f \in [0..n -> X] : Runs(f, n, x0, step)
  <1> DEFINE S == {m \in 0..n : \E f \in [0..m -> X] : Runs(f, m, x0, step)}
  <1>1. 0 \in S
    <2> DEFINE f == [i \in 0..0 |-> x0]
    <2>1. f \in [0..0 -> X] /\ Runs(f, 0, x0, step)
      BY DEF Runs
    <2> HIDE DEF f
    <2> QED
      BY <2>1
  <1>2. ASSUME NEW m \in 1..n, m - 1 \in S PROVE m \in S
    <2>1. PICK f \in [0..(m - 1) -> X] : Runs(f, m - 1, x0, step)
      BY <1>2
    <2> DEFINE g == [i \in 0..m |-> IF i = m THEN step[m][f[m - 1]] ELSE f[i]]
    <2>2. step[m][f[m - 1]] \in X
      BY <2>1
    <2>3. g \in [0..m -> X]
      BY <2>1, <2>2
    <2>4. Runs(g, m, x0, step)
      <3>1. g[0] = x0
        BY <2>1 DEF Runs
      <3>2. ASSUME NEW i \in 1..m PROVE g[i] = step[i][g[i - 1]]
        BY <2>1, <3>2 DEF Runs
      <3> QED
        BY <3>1, <3>2 DEF Runs
    <2> HIDE DEF g
    <2> QED
      BY <2>3, <2>4
  <1>3. n \in S
    <2> HIDE DEF S
    <2>1. 0..n \subseteq S
      BY <1>1, <1>2, UpTo
    <2> QED
      BY <2>1
  <1> QED
    BY <1>3

-----------------------------------------------------------------------------
(* The elements of a sequence. *)

LEMMA ToSetIs ==
    ASSUME NEW L, NEW s \in Seq(L)
    PROVE  /\ Len(s) \in Nat /\ ToSet(s) = {s[i] : i \in 1..Len(s)} /\ ToSet(s) \subseteq L
           /\ \A i \in 1..Len(s) : s[i] \in L
  <1>1. Len(s) \in Nat /\ DOMAIN s = 1..Len(s) /\ \A i \in 1..Len(s) : s[i] \in L
    BY LenProperties, ElementOfSeq
  <1> QED
    BY <1>1 DEF ToSet

LEMMA ConcatSet ==
    ASSUME NEW L, NEW a \in Seq(L), NEW b \in Seq(L)
    PROVE  a \o b \in Seq(L) /\ ToSet(a \o b) = ToSet(a) \cup ToSet(b)
  <1> DEFINE c == a \o b
  <1>3. /\ c \in Seq(L) /\ Len(c) = Len(a) + Len(b) /\ Len(a) \in Nat /\ Len(b) \in Nat
        /\ \A i \in 1..Len(a) : c[i] = a[i]
        /\ \A i \in 1..Len(b) : c[Len(a) + i] = b[i]
    BY ConcatProperties, LenProperties
  <1> HIDE DEF c
  <1>5. /\ ToSet(a) = {a[i] : i \in 1..Len(a)} /\ ToSet(b) = {b[i] : i \in 1..Len(b)}
        /\ ToSet(c) = {c[i] : i \in 1..Len(c)}
    BY <1>3, ToSetIs
  <1>6. ToSet(c) = ToSet(a) \cup ToSet(b)
    <2>1. ASSUME NEW i \in 1..Len(c) PROVE c[i] \in ToSet(a) \cup ToSet(b)
      <3>1. CASE i \in 1..Len(a)
        BY <1>3, <1>5, <3>1
      <3>2. CASE i \notin 1..Len(a)
        <4>1. PICK j \in 1..Len(b) : i = Len(a) + j
          <5>1. i - Len(a) \in 1..Len(b) /\ i = Len(a) + (i - Len(a))
            BY <1>3, <3>2
          <5> QED
            BY <5>1
        <4> QED
          BY <1>3, <1>5, <4>1
      <3> QED
        BY <3>1, <3>2
    <2>2. ASSUME NEW i \in 1..Len(a) PROVE a[i] \in ToSet(c)
      <3>1. i \in 1..Len(c) /\ c[i] = a[i]
        BY <1>3
      <3> QED
        BY <1>5, <3>1
    <2>3. ASSUME NEW i \in 1..Len(b) PROVE b[i] \in ToSet(c)
      <3>1. Len(a) + i \in 1..Len(c) /\ c[Len(a) + i] = b[i]
        BY <1>3
      <3> QED
        BY <1>5, <3>1
    <2> QED
      BY <1>5, <2>1, <2>2, <2>3
  <1> QED
    BY <1>3, <1>6 DEF c
=============================================================================
