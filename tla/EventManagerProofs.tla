-------------------------- MODULE EventManagerProofs --------------------------
(* What is proved of EventManager, for any managers, events, listeners and  *)
(* bounds: its arrays stay well formed, an emission calls nobody twice and  *)
(* awaits what it forwards, cancelling and extending do what they promise.  *)
EXTENDS EventManager, RecursionLemmas, SequenceTheorems, FiniteSetTheorems, TLAPS

-----------------------------------------------------------------------------
(* Listeners without repetition. *)

(* The rounds of Distinct. *)
Round(before, l) == IF Contains(before, l) THEN before ELSE Append(before, l)

LEMMA DistinctRuns ==
    ASSUME NEW L, NEW s \in Seq(L)
    PROVE  \E d \in [0..Len(s) -> Seq(L)] :
             /\ d[0] = <<>> /\ Distinct(s) = d[Len(s)]
             /\ \A i \in 1..Len(s) : d[i] = Round(d[i - 1], s[i])
  <1> DEFINE n == Len(s)
             eq(f) == f = [i \in 0..n |-> IF i = 0 THEN <<>> ELSE Round(f[i - 1], s[i])]
             d == CHOOSE f : eq(f)
  <1>1. n \in Nat /\ \A i \in 1..n : s[i] \in L
    BY LenProperties, ElementOfSeq
  <1>2. Distinct(s) = d[n]
    BY DEF Distinct, Round
  <1>3. PICK f \in [0..n -> Seq(L)] :
          f[0] = <<>> /\ \A i \in 1..n : f[i] = Round(f[i - 1], s[i])
    <2> DEFINE step == [i \in 1..n |-> [b \in Seq(L) |-> Round(b, s[i])]]
    <2>1. \A i \in 1..n : \A b \in Seq(L) : Round(b, s[i]) \in Seq(L)
      BY <1>1, AppendProperties DEF Round
    <2> HIDE DEF n
    <2>2. step \in [1..n -> [Seq(L) -> Seq(L)]] /\ <<>> \in Seq(L)
      BY <2>1
    <2>3. \A i \in 1..n : \A b \in Seq(L) : step[i][b] = Round(b, s[i])
      OBVIOUS
    <2> HIDE DEF step
    <2> DEFINE X == Seq(L)
               x0 == <<>>
    <2>4. PICK f \in [0..n -> X] : Runs(f, n, x0, step)
      <3>1. step \in [1..n -> [X -> X]] /\ x0 \in X /\ n \in Nat
        BY <1>1, <2>2
      <3> HIDE DEF X, x0
      <3> QED
        BY <3>1, Recursion
    <2>5. \A i \in 1..n : f[i - 1] \in Seq(L)
      BY <1>1, <2>4
    <2> DEFINE good(g) == g[0] = <<>> /\ \A i \in 1..n : g[i] = Round(g[i - 1], s[i])
    <2>6. good(f)
      BY <2>3, <2>4, <2>5 DEF Runs
    <2> HIDE DEF good
    <2>7. \E g \in [0..n -> X] : good(g)
      BY <2>4, <2>6
    <2> QED
      BY <2>7 DEF good
  <1> HIDE DEF n
  <1>4. eq(f)
    BY <1>1, <1>3
  <1>5. eq(d)
    <2> HIDE DEF eq
    <2> QED
      BY <1>4, Zenon
  <1> HIDE DEF d
  <1>6. d[0] = <<>> /\ \A i \in 1..n : d[i] = Round(d[i - 1], s[i])
    BY <1>1, <1>5
  <1>7. d = f
    <2> DEFINE S == {i \in 0..n : d[i] = f[i]}
    <2>1. 0 \in S
      BY <1>1, <1>3, <1>6
    <2>2. \A i \in 1..n : i - 1 \in S => i \in S
      BY <1>1, <1>3, <1>6
    <2> HIDE DEF S
    <2>3. 0..n \subseteq S
      BY <1>1, <2>1, <2>2, UpTo
    <2> USE DEF S
    <2> QED
      BY <1>3, <1>5, <2>3
  <1> QED
    BY <1>2, <1>3, <1>7 DEF n

Once(s) == \A i, j \in 1..Len(s) : i # j => s[i] # s[j]

LEMMA RoundIs ==
    ASSUME NEW L, NEW b \in Seq(L), NEW l \in L
    PROVE  /\ Round(b, l) \in Seq(L) /\ ToSet(Round(b, l)) = ToSet(b) \cup {l}
           /\ Once(b) => Once(Round(b, l))
           /\ Len(Round(b, l)) >= Len(b)
           /\ \A k \in 1..Len(b) : Round(b, l)[k] = b[k]
           /\ l \notin ToSet(b) => Len(Round(b, l)) = Len(b) + 1
                                    /\ Round(b, l)[Len(b) + 1] = l
  <1> DEFINE r == Append(b, l)
  <1>1. Len(b) \in Nat /\ ToSet(b) = {b[i] : i \in 1..Len(b)}
    BY ToSetIs
  <1>2. Contains(b, l) <=> l \in ToSet(b)
    BY <1>1 DEF Contains
  <1>3. CASE l \in ToSet(b)
    BY <1>1, <1>2, <1>3 DEF Round
  <1>4. CASE l \notin ToSet(b)
    <2>1. /\ r \in Seq(L) /\ Len(r) = Len(b) + 1 /\ r[Len(b) + 1] = l
          /\ \A k \in 1..Len(b) : r[k] = b[k]
      BY AppendProperties
    <2>2. Round(b, l) = r
      BY <1>2, <1>4 DEF Round
    <2> HIDE DEF r
    <2>3. ToSet(r) = {r[i] : i \in 1..Len(r)}
      BY <2>1, ToSetIs
    <2>4. ToSet(r) = ToSet(b) \cup {l}
      <3>1. \A i \in 1..Len(r) : i \in 1..Len(b) \/ i = Len(b) + 1
        BY <1>1, <2>1
      <3>2. ASSUME NEW x \in ToSet(r) PROVE x \in ToSet(b) \cup {l}
        BY <1>1, <2>1, <2>3, <3>1
      <3>3. ASSUME NEW x \in ToSet(b) \cup {l} PROVE x \in ToSet(r)
        <4>1. CASE x = l
          BY <1>1, <2>1, <2>3, <4>1
        <4>2. CASE x \in ToSet(b)
          <5>1. PICK i \in 1..Len(b) : x = b[i]
            BY <1>1, <4>2
          <5>2. i \in 1..Len(r) /\ r[i] = x
            BY <1>1, <2>1, <5>1
          <5> QED
            BY <2>3, <5>2
        <4> QED
          BY <3>3, <4>1, <4>2
      <3> QED
        BY <3>2, <3>3
    <2>5. ASSUME Once(b) PROVE Once(r)
      <3> SUFFICES ASSUME NEW i \in 1..Len(r), NEW j \in 1..Len(r), i # j PROVE r[i] # r[j]
        BY DEF Once
      <3>1. ASSUME NEW k \in 1..Len(b) PROVE b[k] # l /\ r[k] = b[k]
        BY <1>1, <1>4, <2>1
      <3>2. CASE i \in 1..Len(b) /\ j \in 1..Len(b)
        BY <2>5, <3>1, <3>2 DEF Once
      <3>3. CASE i = Len(b) + 1 \/ j = Len(b) + 1
        BY <1>1, <2>1, <3>1, <3>3
      <3> QED
        BY <1>1, <2>1, <3>2, <3>3
    <2> QED
      BY <1>1, <1>4, <2>1, <2>2, <2>4, <2>5
  <1> QED
    BY <1>3, <1>4

(* Distinct has the same elements, each once ... *)
LEMMA DistinctIs ==
    ASSUME NEW L, NEW s \in Seq(L)
    PROVE  Distinct(s) \in Seq(L) /\ ToSet(Distinct(s)) = ToSet(s) /\ Once(Distinct(s))
  <1> DEFINE n == Len(s)
             Heads(i) == {s[j] : j \in 1..i}
  <1>1. n \in Nat /\ ToSet(s) = Heads(n) /\ \A i \in 1..n : s[i] \in L
    BY ToSetIs
  <1>2. PICK d \in [0..n -> Seq(L)] : /\ d[0] = <<>> /\ Distinct(s) = d[n]
                                      /\ \A i \in 1..n : d[i] = Round(d[i - 1], s[i])
    BY DistinctRuns
  <1> DEFINE S == {i \in 0..n : Once(d[i]) /\ ToSet(d[i]) = Heads(i)}
  <1>3. 0 \in S
    <2> DEFINE e == <<>>
    <2>1. e \in Seq(L) /\ Len(e) = 0
      BY EmptySeq
    <2>2. d[0] = e
      BY <1>2
    <2> HIDE DEF e
    <2>3. Once(d[0]) /\ ToSet(d[0]) = {}
      BY <2>1, <2>2, ToSetIs DEF Once
    <2>4. Heads(0) = {}
      OBVIOUS
    <2> QED
      BY <1>1, <2>3, <2>4
  <1>4. ASSUME NEW i \in 1..n, i - 1 \in S PROVE i \in S
    <2> DEFINE b == d[i - 1]
    <2>1. b \in Seq(L) /\ d[i] = Round(b, s[i]) /\ s[i] \in L
      BY <1>1, <1>2
    <2>2. Once(b) /\ ToSet(b) = Heads(i - 1)
      BY <1>4
    <2> HIDE DEF b
    <2> DEFINE l == s[i]
               r == Round(b, l)
    <2>3. Once(d[i]) /\ ToSet(d[i]) = Heads(i - 1) \cup {s[i]}
      <3>1. l \in L /\ d[i] = r
        BY <2>1
      <3> HIDE DEF l, Heads
      <3>2. Once(r) /\ ToSet(r) = ToSet(b) \cup {l}
        BY <2>1, <2>2, <3>1, RoundIs
      <3> HIDE DEF r
      <3> QED
        BY <2>2, <3>1, <3>2 DEF l
    <2>4. Heads(i - 1) \cup {s[i]} = Heads(i)
      <3>1. \A j \in 1..i : j \in 1..(i - 1) \/ j = i
        BY <1>1
      <3>2. \A j \in 1..(i - 1) : j \in 1..i
        BY <1>1
      <3>3. i \in 1..i
        BY <1>1
      <3> QED
        BY <3>1, <3>2, <3>3
    <2> QED
      BY <1>1, <2>3, <2>4
  <1>5. n \in S
    <2> HIDE DEF S, n
    <2>1. 0..n \subseteq S
      BY <1>1, <1>3, <1>4, UpTo
    <2> QED
      BY <1>1, <2>1
  <1>6. Distinct(s) \in Seq(L)
    BY <1>1, <1>2
  <1> QED
    BY <1>1, <1>2, <1>5, <1>6

(* ... and begins with what precedes the first repetition. *)
LEMMA DistinctPrefix ==
    ASSUME NEW L, NEW s \in Seq(L), NEW u \in Seq(L), Once(s)
    PROVE  /\ Len(Distinct(s \o u)) >= Len(s)
           /\ \A k \in 1..Len(s) : Distinct(s \o u)[k] = s[k]
  <1> DEFINE t == s \o u
             n == Len(t)
             m == Len(s)
  <1>1. /\ t \in Seq(L) /\ n \in Nat /\ m \in Nat /\ m <= n
        /\ \A k \in 1..m : t[k] = s[k]
        /\ \A k \in 1..n : t[k] \in L
    BY ConcatProperties, LenProperties, ElementOfSeq
  <1> HIDE DEF t
  <1>2. PICK d \in [0..n -> Seq(L)] : /\ d[0] = <<>> /\ Distinct(t) = d[n]
                                      /\ \A i \in 1..n : d[i] = Round(d[i - 1], t[i])
    BY <1>1, DistinctRuns
  <1> HIDE DEF n
  <1> DEFINE Begun(i) == /\ i <= m => Len(d[i]) = i
                         /\ i >= m => Len(d[i]) >= m
                         /\ \A k \in 1..m : k <= i => d[i][k] = s[k]
             S == {i \in 0..n : Begun(i)}
  <1>3. 0 \in S
    <2> DEFINE e == <<>>
    <2>1. Len(e) = 0 /\ d[0] = e
      BY <1>2, EmptySeq
    <2> HIDE DEF e
    <2> QED
      BY <1>1, <2>1
  <1>4. ASSUME NEW i \in 1..n, i - 1 \in S PROVE i \in S
    <2> DEFINE b == d[i - 1]
    <2>1. b \in Seq(L) /\ d[i] = Round(b, t[i]) /\ t[i] \in L
      BY <1>1, <1>2
    <2>2. /\ i - 1 <= m => Len(b) = i - 1
          /\ i - 1 >= m => Len(b) >= m
          /\ \A k \in 1..m : k <= i - 1 => b[k] = s[k]
      BY <1>4
    <2> HIDE DEF b
    <2>3. /\ Len(d[i]) >= Len(b) /\ \A k \in 1..Len(b) : d[i][k] = b[k]
          /\ t[i] \notin ToSet(b) => Len(d[i]) = Len(b) + 1 /\ d[i][Len(b) + 1] = t[i]
          /\ ToSet(b) = {b[k] : k \in 1..Len(b)} /\ Len(b) \in Nat
          /\ d[i] \in Seq(L) /\ Len(d[i]) \in Nat
      <3> DEFINE l == t[i]
                 r == Round(b, l)
      <3>1. l \in L /\ d[i] = r
        BY <2>1
      <3> HIDE DEF l
      <3>2. /\ Len(r) >= Len(b) /\ \A k \in 1..Len(b) : r[k] = b[k]
            /\ l \notin ToSet(b) => Len(r) = Len(b) + 1 /\ r[Len(b) + 1] = l
            /\ r \in Seq(L)
        BY <2>1, <3>1, RoundIs
      <3> HIDE DEF r
      <3>3. ToSet(b) = {b[k] : k \in 1..Len(b)} /\ Len(b) \in Nat /\ Len(r) \in Nat
        BY <2>1, <3>2, ToSetIs
      <3> QED
        BY <3>1, <3>2, <3>3 DEF l
    <2>4. CASE i <= m
      <3>1. Len(b) = i - 1 /\ i \in 1..m /\ t[i] = s[i]
        BY <1>1, <2>2, <2>4
      <3>2. t[i] \notin ToSet(b)
        <4>1. ASSUME NEW k \in 1..Len(b) PROVE b[k] # t[i]
          <5>1. k \in 1..m /\ k # i /\ b[k] = s[k]
            BY <1>1, <2>2, <2>4, <3>1
          <5> QED
            BY <3>1, <5>1 DEF Once
        <4> QED
          BY <2>3, <4>1
      <3>3. Len(d[i]) = i /\ d[i][i] = s[i]
        BY <1>1, <2>3, <3>1, <3>2
      <3>4. ASSUME NEW k \in 1..m, k <= i PROVE d[i][k] = s[k]
        <4>1. CASE k = i
          BY <3>3, <4>1
        <4>2. CASE k # i
          <5>1. k \in 1..Len(b) /\ k <= i - 1
            BY <1>1, <3>1, <3>4, <4>2
          <5> QED
            BY <2>2, <2>3, <5>1
        <4> QED
          BY <4>1, <4>2
      <3> QED
        BY <1>1, <2>4, <3>3, <3>4
    <2>5. CASE i > m
      <3>1. Len(b) >= m /\ Len(d[i]) >= m
        BY <1>1, <2>2, <2>3, <2>5
      <3>2. ASSUME NEW k \in 1..m PROVE d[i][k] = s[k]
        <4>1. k \in 1..Len(b) /\ k <= i - 1
          BY <1>1, <2>3, <2>5, <3>1
        <4> QED
          BY <2>2, <2>3, <4>1
      <3> QED
        BY <1>1, <2>5, <3>1, <3>2
    <2> QED
      BY <1>1, <2>4, <2>5
  <1>5. n \in S
    <2> HIDE DEF S
    <2>1. 0..n \subseteq S
      BY <1>1, <1>3, <1>4, UpTo
    <2> QED
      BY <1>1, <2>1
  <1> QED
    BY <1>1, <1>2, <1>5 DEF t

-----------------------------------------------------------------------------
(* Emissions. *)

Statuses == {"unused", "between", "calling", "parallel", "done", "failed"}

Emission == [on : Managers \cup {NoTarget}, event : Keys, todo : Seq(Listeners),
             got : Seq(Listeners), kids : Seq(Emits), status : Statuses]

Disjoint(g, r) == \A i \in 1..Len(g), j \in 1..Len(r) : g[i] # r[j]

(* No listener was called twice, and none that was called is to be called.  *)
Shaped(x) ==
    /\ Once(x.got)
    /\ x.status = "between" => Once(x.todo) /\ Disjoint(x.got, x.todo)
    /\ x.status = "calling" => /\ x.todo # <<>>
                               /\ Once(Tail(x.todo)) /\ Disjoint(x.got, Tail(x.todo))

(* What x forwarded is done, except the emission it waits for.              *)
KidsOk(ems, x) ==
    /\ \A k \in 1..Len(x.kids) : ems[x.kids[k]].status # "unused"
    /\ x.status \in {"between", "done"} =>
         \A k \in 1..Len(x.kids) : ems[x.kids[k]].status = "done"
    /\ x.status = "failed" => \A k \in 1..Len(x.kids) : ems[x.kids[k]].status \in Over
    /\ x.status = "calling" =>
         IF Target[Head(x.todo)] = NoTarget
         THEN \A k \in 1..Len(x.kids) : ems[x.kids[k]].status = "done"
         ELSE /\ Len(x.kids) >= 1
              /\ \A k \in 1..(Len(x.kids) - 1) : ems[x.kids[k]].status = "done"
    /\ x.status \in {"unused", "parallel"} => Len(x.kids) = 0

EmitsSound ==
    /\ emits \in [Emits -> Emission]
    /\ \A e \in Emits : Shaped(emits[e]) /\ KidsOk(emits, emits[e])

(* An emission that was started is not started again, one that is over stays *)
(* as it is.                                                                 *)
Ahead(old, new) ==
    /\ old.status # "unused" => new.status # "unused"
    /\ old.status \in Over => new.status = old.status

LEMMA EmissionIs ==
    ASSUME NEW x \in Emission
    PROVE  /\ x.todo \in Seq(Listeners) /\ x.got \in Seq(Listeners) /\ x.kids \in Seq(Emits)
           /\ Len(x.todo) \in Nat /\ Len(x.got) \in Nat /\ Len(x.kids) \in Nat
           /\ \A k \in 1..Len(x.kids) : x.kids[k] \in Emits
           /\ x.todo # <<>> => /\ Head(x.todo) \in Listeners /\ Head(x.todo) = x.todo[1]
                               /\ Tail(x.todo) \in Seq(Listeners)
                               /\ Len(Tail(x.todo)) = Len(x.todo) - 1 /\ Len(x.todo) >= 1
                               /\ \A i \in 1..(Len(x.todo) - 1) : Tail(x.todo)[i] = x.todo[i + 1]
  <1>1. x.todo \in Seq(Listeners) /\ x.got \in Seq(Listeners) /\ x.kids \in Seq(Emits)
    BY DEF Emission
  <1>2. \A k \in 1..Len(x.kids) : x.kids[k] \in Emits
    BY <1>1, ElementOfSeq
  <1>3. Len(x.todo) \in Nat /\ Len(x.got) \in Nat /\ Len(x.kids) \in Nat
    BY <1>1, LenProperties
  <1> DEFINE s == x.todo
  <1>4. ASSUME s # <<>>
        PROVE  /\ Head(s) \in Listeners /\ Head(s) = s[1] /\ Tail(s) \in Seq(Listeners)
               /\ Len(Tail(s)) = Len(s) - 1 /\ Len(s) >= 1
               /\ \A i \in 1..(Len(s) - 1) : Tail(s)[i] = s[i + 1]
    <2>1. s \in Seq(Listeners) /\ Len(s) \in Nat
      BY <1>1, <1>3
    <2> HIDE DEF s
    <2> QED
      BY <1>4, <2>1, HeadTailProperties
  <1> QED
    BY <1>1, <1>2, <1>3, <1>4

LEMMA KidsKept ==
    ASSUME NEW ems \in [Emits -> Emission], NEW after \in [Emits -> Emission],
           \A e \in Emits : Ahead(ems[e], after[e]), NEW x \in Emission, KidsOk(ems, x)
    PROVE  KidsOk(after, x)
  <1>1. \A k \in 1..Len(x.kids) : x.kids[k] \in Emits
    BY EmissionIs
  <1>2. ASSUME NEW f \in Emits
        PROVE  /\ ems[f].status # "unused" => after[f].status # "unused"
               /\ ems[f].status = "done" => after[f].status = "done"
               /\ ems[f].status \in Over => after[f].status \in Over
    BY DEF Ahead, Over
  <1>3. Len(x.kids) \in Nat
    BY EmissionIs
  <1> QED
    BY <1>1, <1>2, <1>3 DEF KidsOk

LEMMA EmitsKept ==
    ASSUME EmitsSound, NEW after \in [Emits -> Emission],
           \A e \in Emits : Ahead(emits[e], after[e]),
           \A e \in Emits : after[e] # emits[e] =>
                              Shaped(after[e]) /\ KidsOk(after, after[e])
    PROVE  \A e \in Emits : Shaped(after[e]) /\ KidsOk(after, after[e])
  <1>1. emits \in [Emits -> Emission]
    BY DEF EmitsSound
  <1>2. ASSUME NEW e \in Emits, after[e] = emits[e]
        PROVE  Shaped(after[e]) /\ KidsOk(after, after[e])
    BY <1>1, <1>2, KidsKept DEF EmitsSound
  <1> QED
    BY <1>2

(* One emission goes on. *)
LEMMA OneEmission ==
    ASSUME EmitsSound, NEW e \in Emits, NEW new \in Emission,
           emits' = [emits EXCEPT ![e] = new],
           new.status # "unused", emits[e].status \notin Over,
           Shaped(new), KidsOk(emits, new)
    PROVE  EmitsSound'
  <1>1. emits' \in [Emits -> Emission] /\ emits'[e] = new
        /\ \A f \in Emits : f # e => emits'[f] = emits[f]
    BY DEF EmitsSound
  <1>2. \A f \in Emits : Ahead(emits[f], emits'[f])
    BY <1>1 DEF Ahead
  <1>3. KidsOk(emits', new)
    BY <1>1, <1>2, KidsKept DEF EmitsSound
  <1>4. \A f \in Emits : Shaped(emits'[f]) /\ KidsOk(emits', emits'[f])
    BY <1>1, <1>2, <1>3, EmitsKept
  <1> QED
    BY <1>1, <1>4 DEF EmitsSound

-----------------------------------------------------------------------------
(* The arrays of a manager. *)

Arrays == UNION {[D -> Seq(Listeners)] : D \in SUBSET Keys}

LEMMA ArraysAre ==
    ASSUME NEW as \in Arrays
    PROVE  /\ DOMAIN as \subseteq Keys /\ as = [t \in DOMAIN as |-> as[t]]
           /\ \A t \in DOMAIN as : as[t] \in Seq(Listeners)
           /\ \A t : ArrayIn(as, t) \in Seq(Listeners)
  <1>1. PICK D \in SUBSET Keys : as \in [D -> Seq(Listeners)]
    BY DEF Arrays
  <1>2. <<>> \in Seq(Listeners)
    OBVIOUS
  <1> QED
    BY <1>1, <1>2 DEF ArrayIn

LEMMA InArrays ==
    ASSUME NEW D \in SUBSET Keys, NEW as \in [D -> Seq(Listeners)]
    PROVE  as \in Arrays
  BY DEF Arrays

LEMMA PutArrayIs ==
    ASSUME NEW as \in Arrays, NEW t \in Keys, NEW s \in Seq(Listeners)
    PROVE  /\ PutArray(as, t, s) \in Arrays
           /\ ArrayIn(PutArray(as, t, s), t) = s
           /\ \A k : k # t => ArrayIn(PutArray(as, t, s), k) = ArrayIn(as, k)
  <1> DEFINE D == DOMAIN as \cup {t}
             p == [k \in D |-> IF k = t THEN s ELSE as[k]]
  <1>1. D \in SUBSET Keys /\ \A k \in D : k # t => as[k] \in Seq(Listeners)
    BY ArraysAre
  <1>2. p \in [D -> Seq(Listeners)]
    BY <1>1
  <1>3. p \in Arrays
    <2> HIDE DEF D, p
    <2> QED
      BY <1>1, <1>2, InArrays
  <1>4. ArrayIn(p, t) = s /\ \A k : k # t => ArrayIn(p, k) = ArrayIn(as, k)
    BY DEF ArrayIn
  <1> QED
    BY <1>3, <1>4 DEF PutArray

LEMMA TouchIs ==
    ASSUME NEW as \in Arrays, NEW t \in Keys
    PROVE  Touch(as, t) \in Arrays /\ \A k : ArrayIn(Touch(as, t), k) = ArrayIn(as, k)
  <1> DEFINE s == ArrayIn(as, t)
             p == PutArray(as, t, s)
  <1>1. s \in Seq(Listeners) /\ Touch(as, t) = p
    BY ArraysAre DEF Touch
  <1> HIDE DEF s
  <1>2. p \in Arrays /\ ArrayIn(p, t) = s /\ \A k : k # t => ArrayIn(p, k) = ArrayIn(as, k)
    BY <1>1, PutArrayIs
  <1> QED
    BY <1>1, <1>2 DEF s

LEMMA GetListenersAre ==
    ASSUME NEW as \in Arrays, NEW t
    PROVE  /\ GetListeners(as, t) \in Seq(Listeners) /\ Once(GetListeners(as, t))
           /\ ToSet(GetListeners(as, t)) = ToSet(ArrayIn(as, t)) \cup ToSet(ArrayIn(as, Star))
           /\ Once(ArrayIn(as, t)) =>
                /\ Len(GetListeners(as, t)) >= Len(ArrayIn(as, t))
                /\ \A i \in 1..Len(ArrayIn(as, t)) :
                     GetListeners(as, t)[i] = ArrayIn(as, t)[i]
  <1> DEFINE a == ArrayIn(as, t)
             b == ArrayIn(as, Star)
             c == a \o b
  <1>1. a \in Seq(Listeners) /\ b \in Seq(Listeners)
    BY ArraysAre
  <1>2. GetListeners(as, t) = Distinct(a \o b)
    BY DEF GetListeners
  <1> HIDE DEF a, b
  <1>3. /\ c \in Seq(Listeners) /\ Len(c) = Len(a) + Len(b) /\ Len(a) \in Nat /\ Len(b) \in Nat
        /\ \A i \in 1..Len(a) : c[i] = a[i]
        /\ \A i \in 1..Len(b) : c[Len(a) + i] = b[i]
    BY <1>1, ConcatProperties, LenProperties
  <1> HIDE DEF c
  <1>4. Distinct(c) \in Seq(Listeners) /\ Once(Distinct(c)) /\ ToSet(Distinct(c)) = ToSet(c)
    BY <1>3, DistinctIs
  <1>6. ToSet(c) = ToSet(a) \cup ToSet(b)
    BY <1>1, ConcatSet DEF c
  <1>7. Once(a) => /\ Len(Distinct(c)) >= Len(a)
                   /\ \A i \in 1..Len(a) : Distinct(c)[i] = a[i]
    BY <1>1, DistinctPrefix DEF c
  <1>8. GetListeners(as, t) = Distinct(c)
    BY <1>2 DEF c
  <1> QED
    BY <1>4, <1>6, <1>7, <1>8 DEF a, b

LEMMA PushedIs ==
    ASSUME NEW as \in Arrays, NEW ts \in Seq(Keys), NEW l \in Listeners
    PROVE  Pushed(as, ts, l) \in Arrays
  <1> DEFINE D == DOMAIN as \cup ToSet(ts)
             times(t) == Cardinality({j \in 1..Len(ts) : ts[j] = t})
             new(t) == [i \in 1..times(t) |-> l]
             p == [t \in D |-> ArrayIn(as, t) \o new(t)]
  <1>1. D \in SUBSET Keys
    BY ArraysAre, ToSetIs
  <1>2. ASSUME NEW t PROVE new(t) \in Seq(Listeners)
    <2>1. times(t) \in Nat
      <3>1. Len(ts) \in Nat
        BY LenProperties
      <3>2. IsFiniteSet(1..Len(ts))
        BY <3>1, FS_Interval
      <3>3. IsFiniteSet({j \in 1..Len(ts) : ts[j] = t})
        BY <3>2, FS_Subset
      <3> QED
        BY <3>3, FS_CardinalityType
    <2> HIDE DEF times
    <2> QED
      BY <2>1
  <1>3. ASSUME NEW t PROVE ArrayIn(as, t) \o new(t) \in Seq(Listeners)
    <2>1. ArrayIn(as, t) \in Seq(Listeners)
      BY ArraysAre
    <2> HIDE DEF new
    <2> QED
      BY <1>2, <2>1, ConcatProperties
  <1> HIDE DEF D, new
  <1>4. p \in [D -> Seq(Listeners)]
    BY <1>3
  <1>5. p \in Arrays
    <2> HIDE DEF p
    <2> QED
      BY <1>1, <1>4, InArrays
  <1> QED
    BY <1>5 DEF Pushed, D, new

(* Removing the i-th element. *)
LEMMA RemoveAtIs ==
    ASSUME NEW L, NEW a \in Seq(L), NEW i \in 1..Len(a)
    PROVE  /\ RemoveAt(a, i) \in Seq(L)
           /\ Len(RemoveAt(a, i)) = Len(a) - 1
           /\ \A k \in 1..(i - 1) : RemoveAt(a, i)[k] = a[k]
           /\ \A k \in i..(Len(a) - 1) : RemoveAt(a, i)[k] = a[k + 1]
  <1> DEFINE n == Len(a)
             u == SubSeq(a, 1, i - 1)
             v == SubSeq(a, i + 1, n)
             w == u \o v
  <1>1. n \in Nat /\ i \in Nat /\ 1 <= i /\ i <= n
    BY LenProperties
  <1>2. u \in Seq(L) /\ Len(u) = i - 1 /\ \A k \in 1..(i - 1) : u[k] = a[k]
    <2>1. \A j \in 1..(i - 1) : a[j] \in L
      BY <1>1, ElementOfSeq
    <2> QED
      BY <1>1, <2>1, SubSeqProperties
  <1>3. v \in Seq(L) /\ Len(v) = n - i /\ \A k \in 1..(n - i) : v[k] = a[i + k]
    <2>1. \A j \in (i + 1)..n : a[j] \in L
      BY <1>1, ElementOfSeq
    <2> QED
      BY <1>1, <2>1, SubSeqProperties
  <1> HIDE DEF u, v
  <1>4. /\ w \in Seq(L) /\ Len(w) = n - 1
        /\ \A k \in 1..(i - 1) : w[k] = u[k]
        /\ \A k \in i..(n - 1) : w[k] = v[k - (i - 1)]
    <2>1. /\ w \in Seq(L) /\ Len(w) = Len(u) + Len(v)
          /\ \A k \in 1..(Len(u) + Len(v)) :
               w[k] = IF k <= Len(u) THEN u[k] ELSE v[k - Len(u)]
      BY <1>2, <1>3, ConcatProperties
    <2> HIDE DEF w, n
    <2> QED
      BY <1>1, <1>2, <1>3, <2>1
  <1> HIDE DEF w
  <1>5. ASSUME NEW k \in i..(n - 1) PROVE w[k] = a[k + 1]
    <2>1. k - (i - 1) \in 1..(n - i) /\ i + (k - (i - 1)) = k + 1
      BY <1>1
    <2> QED
      BY <1>3, <1>4, <2>1
  <1>6. RemoveAt(a, i) = w
    BY DEF RemoveAt, w, u, v
  <1> QED
    BY <1>2, <1>4, <1>5, <1>6

LEMMA RemoveOnce ==
    ASSUME NEW L, NEW a \in Seq(L), NEW i \in 1..Len(a), Once(a)
    PROVE  Once(RemoveAt(a, i)) /\ ToSet(RemoveAt(a, i)) = ToSet(a) \ {a[i]}
  <1> DEFINE r == RemoveAt(a, i)
             n == Len(a)
             from(k) == IF k < i THEN k ELSE k + 1
  <1>1. /\ n \in Nat /\ r \in Seq(L) /\ Len(r) = n - 1
        /\ \A k \in 1..(n - 1) : r[k] = a[from(k)] /\ from(k) \in 1..n /\ from(k) # i
    <2>1. n \in Nat /\ i \in 1..n
      BY LenProperties
    <2>2. /\ r \in Seq(L) /\ Len(r) = n - 1 /\ \A k \in 1..(i - 1) : r[k] = a[k]
          /\ \A k \in i..(n - 1) : r[k] = a[k + 1]
      BY RemoveAtIs
    <2> HIDE DEF r, n
    <2>3. ASSUME NEW k \in 1..(n - 1)
          PROVE  r[k] = a[from(k)] /\ from(k) \in 1..n /\ from(k) # i
      <3>1. CASE k < i
        BY <2>1, <2>2, <3>1
      <3>2. CASE ~(k < i)
        BY <2>1, <2>2, <3>2
      <3> QED
        BY <3>1, <3>2
    <2> QED
      BY <2>1, <2>2, <2>3
  <1> HIDE DEF r
  <1>2. ToSet(r) = {r[k] : k \in 1..(n - 1)} /\ ToSet(a) = {a[k] : k \in 1..n}
    BY <1>1, ToSetIs
  <1>3. Once(r)
    <2> SUFFICES ASSUME NEW j \in 1..(n - 1), NEW k \in 1..(n - 1), j # k PROVE r[j] # r[k]
      BY <1>1 DEF Once
    <2>1. from(j) # from(k)
      BY <1>1
    <2> HIDE DEF from
    <2> QED
      BY <1>1, <2>1 DEF Once
  <1>4. ASSUME NEW k \in 1..(n - 1) PROVE r[k] \in ToSet(a) \ {a[i]}
    <2> HIDE DEF from
    <2> QED
      BY <1>1, <1>2 DEF Once
  <1>5. ASSUME NEW k \in 1..n, a[k] # a[i] PROVE a[k] \in ToSet(r)
    <2> DEFINE j == IF k < i THEN k ELSE k - 1
    <2>1. k # i
      BY <1>5
    <2>2. j \in 1..(n - 1) /\ from(j) = k
      BY <1>1, <2>1
    <2> HIDE DEF j, from
    <2> QED
      BY <1>1, <1>2, <2>2
  <1> QED
    BY <1>2, <1>3, <1>4, <1>5 DEF r

LEMMA IndexOfIs ==
    ASSUME NEW L, NEW s \in Seq(L), NEW l
    PROVE  /\ IndexOf(s, l) \in 0..Len(s)
           /\ IndexOf(s, l) # 0 => s[IndexOf(s, l)] = l
           /\ l \in ToSet(s) => IndexOf(s, l) # 0
  <1> DEFINE I == {i \in 1..Len(s) : s[i] = l}
             n == Len(s)
  <1>1. n \in Nat /\ ToSet(s) = {s[i] : i \in 1..n}
    BY ToSetIs
  <1>2. IndexOf(s, l) = IF I # {} THEN Min(I) ELSE 0
    BY DEF IndexOf, SelectInSeq
  <1>3. I # {} => Min(I) \in I
    <2>1. I \subseteq 1..n
      OBVIOUS
    <2> HIDE DEF I, n
    <2>2. I # {} => \E x \in I : \A y \in I : x <= y
      BY <1>1, <2>1, Least
    <2> QED
      BY <2>2 DEF Min
  <1> HIDE DEF n
  <1> QED
    BY <1>1, <1>2, <1>3 DEF n

LEMMA SpliceIs ==
    ASSUME NEW as \in Arrays, NEW t \in Keys, NEW l
    PROVE  /\ Splice(as, t, l) \in Arrays
           /\ \A k : k # t => ArrayIn(Splice(as, t, l), k) = ArrayIn(as, k)
           /\ Once(ArrayIn(as, t)) =>
                /\ Once(ArrayIn(Splice(as, t, l), t))
                /\ ToSet(ArrayIn(Splice(as, t, l), t)) = ToSet(ArrayIn(as, t)) \ {l}
  <1> DEFINE a == ArrayIn(as, t)
             g == GetListeners(as, t)
             i == IndexOf(g, l)
             r == RemoveAt(a, i)
             new == IF i \in 1..Len(a) THEN PutArray(as, t, r) ELSE Touch(as, t)
  <1>1. a \in Seq(Listeners) /\ Len(a) \in Nat /\ g \in Seq(Listeners) /\ Len(g) \in Nat
    BY ArraysAre, GetListenersAre, LenProperties
  <1>2. /\ i \in 0..Len(g) /\ (i # 0 => g[i] = l) /\ (l \in ToSet(g) => i # 0)
    <2> HIDE DEF g
    <2> QED
      BY <1>1, IndexOfIs
  <1>3. Splice(as, t, l) = new
    BY DEF Splice
  <1>4. ToSet(g) = ToSet(a) \cup ToSet(ArrayIn(as, Star)) /\ Once(g)
        /\ (Once(a) => Len(g) >= Len(a) /\ \A k \in 1..Len(a) : g[k] = a[k])
    BY GetListenersAre
  <1> HIDE DEF g, i, a
  <1>5. ToSet(a) = {a[k] : k \in 1..Len(a)} /\ ToSet(g) = {g[k] : k \in 1..Len(g)}
    BY <1>1, ToSetIs
  <1>6. CASE i \in 1..Len(a)
    <2>1. r \in Seq(Listeners)
      BY <1>1, <1>6, RemoveAtIs
    <2>2. Once(a) => Once(r) /\ ToSet(r) = ToSet(a) \ {a[i]}
      BY <1>1, <1>6, RemoveOnce
    <2> HIDE DEF r
    <2>3. /\ PutArray(as, t, r) \in Arrays /\ ArrayIn(PutArray(as, t, r), t) = r
          /\ \A k : k # t => ArrayIn(PutArray(as, t, r), k) = ArrayIn(as, k)
      BY <2>1, PutArrayIs
    <2>4. Once(a) => a[i] = l
      BY <1>2, <1>4, <1>6
    <2> QED
      BY <1>3, <1>6, <2>2, <2>3, <2>4 DEF a
  <1>7. CASE i \notin 1..Len(a)
    <2>1. Touch(as, t) \in Arrays /\ \A k : ArrayIn(Touch(as, t), k) = ArrayIn(as, k)
      BY TouchIs
    <2>2. ASSUME Once(a) PROVE l \notin ToSet(a)
      <3> SUFFICES ASSUME NEW k \in 1..Len(a), a[k] = l PROVE FALSE
        BY <1>5
      <3>1. g[k] = l /\ k \in 1..Len(g)
        BY <1>1, <1>4, <2>2
      <3>2. l \in ToSet(g)
        BY <1>5, <3>1
      <3>3. i \in 1..Len(g) /\ g[i] = l
        BY <1>1, <1>2, <3>2
      <3>4. i = k
        BY <1>4, <3>1, <3>3 DEF Once
      <3> QED
        BY <1>7, <3>4
    <2> QED
      BY <1>3, <1>7, <2>1, <2>2 DEF a
  <1> QED
    BY <1>6, <1>7

LEMMA SplicedRuns ==
    ASSUME NEW ar \in Arrays, NEW ts \in Seq(Keys), NEW l \in Listeners
    PROVE  \E d \in [0..Len(ts) -> Arrays] :
             /\ d[0] = ar /\ Spliced(ar, ts, l) = d[Len(ts)]
             /\ \A i \in 1..Len(ts) : d[i] = Splice(d[i - 1], ts[i], l)
  <1> DEFINE n == Len(ts)
             eq(f) == f = [i \in 0..n |-> IF i = 0 THEN ar ELSE Splice(f[i - 1], ts[i], l)]
             d == CHOOSE f : eq(f)
  <1>1. n \in Nat /\ \A i \in 1..n : ts[i] \in Keys
    BY LenProperties, ElementOfSeq
  <1>2. Spliced(ar, ts, l) = d[n]
    BY DEF Spliced
  <1>3. PICK f \in [0..n -> Arrays] :
          f[0] = ar /\ \A i \in 1..n : f[i] = Splice(f[i - 1], ts[i], l)
    <2> DEFINE step == [i \in 1..n |-> [b \in Arrays |-> Splice(b, ts[i], l)]]
    <2>1. ASSUME NEW i \in 1..n, NEW b \in Arrays PROVE Splice(b, ts[i], l) \in Arrays
      <3> DEFINE t == ts[i]
      <3>1. t \in Keys
        BY <1>1
      <3> HIDE DEF t
      <3>2. Splice(b, t, l) \in Arrays
        BY <3>1, SpliceIs
      <3> QED
        BY <3>2 DEF t
    <2> HIDE DEF n
    <2>2. step \in [1..n -> [Arrays -> Arrays]]
      BY <2>1
    <2>3. \A i \in 1..n : \A b \in Arrays : step[i][b] = Splice(b, ts[i], l)
      OBVIOUS
    <2> HIDE DEF step
    <2> DEFINE X == Arrays
               x0 == ar
    <2>4. PICK f \in [0..n -> X] : Runs(f, n, x0, step)
      <3>1. step \in [1..n -> [X -> X]] /\ x0 \in X /\ n \in Nat
        BY <1>1, <2>2
      <3> HIDE DEF X, x0
      <3> QED
        BY <3>1, Recursion
    <2>5. \A i \in 1..n : f[i - 1] \in Arrays
      BY <1>1, <2>4
    <2> DEFINE good(g) == g[0] = ar /\ \A i \in 1..n : g[i] = Splice(g[i - 1], ts[i], l)
    <2>6. good(f)
      BY <2>3, <2>4, <2>5 DEF Runs
    <2> HIDE DEF good
    <2>7. \E g \in [0..n -> X] : good(g)
      BY <2>4, <2>6
    <2> QED
      BY <2>7 DEF good
  <1> HIDE DEF n
  <1>4. eq(f)
    BY <1>1, <1>3
  <1>5. eq(d)
    <2> HIDE DEF eq
    <2> QED
      BY <1>4, Zenon
  <1> HIDE DEF d
  <1>6. d[0] = ar /\ \A i \in 1..n : d[i] = Splice(d[i - 1], ts[i], l)
    BY <1>1, <1>5
  <1>7. d = f
    <2> DEFINE S == {i \in 0..n : d[i] = f[i]}
    <2>1. 0 \in S
      BY <1>1, <1>3, <1>6
    <2>2. \A i \in 1..n : i - 1 \in S => i \in S
      BY <1>1, <1>3, <1>6
    <2> HIDE DEF S
    <2>3. 0..n \subseteq S
      BY <1>1, <2>1, <2>2, UpTo
    <2> USE DEF S
    <2> QED
      BY <1>3, <1>5, <2>3
  <1> QED
    BY <1>2, <1>3, <1>7 DEF n

(* The cancel function: when no array holds a listener twice, the listener  *)
(* leaves the arrays of its events and nothing else leaves any array.       *)
LEMMA SplicedIs ==
    ASSUME NEW ar \in Arrays, NEW ts \in Seq(Keys), NEW l \in Listeners
    PROVE  /\ Spliced(ar, ts, l) \in Arrays
           /\ (\A t \in Keys : Once(ArrayIn(ar, t))) =>
                \A t \in Keys :
                   ToSet(ArrayIn(Spliced(ar, ts, l), t)) =
                      ToSet(ArrayIn(ar, t)) \ (IF t \in ToSet(ts) THEN {l} ELSE {})
  <1> DEFINE n == Len(ts)
             gone(i, t) == IF \E j \in 1..i : ts[j] = t THEN {l} ELSE {}
             All(b) == \A t \in Keys : Once(ArrayIn(b, t))
             Left(i, b) == \A t \in Keys :
                             ToSet(ArrayIn(b, t)) = ToSet(ArrayIn(ar, t)) \ gone(i, t)
  <1>1. n \in Nat /\ (\A i \in 1..n : ts[i] \in Keys) /\ ToSet(ts) = {ts[i] : i \in 1..n}
    BY ToSetIs
  <1>2. PICK d \in [0..n -> Arrays] : /\ d[0] = ar /\ Spliced(ar, ts, l) = d[n]
                                      /\ \A i \in 1..n : d[i] = Splice(d[i - 1], ts[i], l)
    BY SplicedRuns
  <1> HIDE DEF n
  <1>3. ASSUME All(ar) PROVE Left(n, d[n])
    <2> DEFINE S == {i \in 0..n : All(d[i]) /\ Left(i, d[i])}
    <2>1. 0 \in S
      <3>1. \A t : gone(0, t) = {}
        OBVIOUS
      <3> HIDE DEF gone
      <3> QED
        BY <1>1, <1>2, <1>3, <3>1
    <2>2. ASSUME NEW i \in 1..n, i - 1 \in S PROVE i \in S
      <3> DEFINE b == d[i - 1]
                 c == d[i]
                 t == ts[i]
      <3>1. b \in Arrays /\ c = Splice(b, t, l) /\ t \in Keys
        BY <1>1, <1>2
      <3>2. All(b) /\ Left(i - 1, b)
        BY <2>2
      <3>3. \A k : gone(i, k) = gone(i - 1, k) \cup (IF k = t THEN {l} ELSE {})
        <4>1. \A j \in 1..i : j \in 1..(i - 1) \/ j = i
          BY <1>1
        <4>2. i \in 1..i /\ \A j \in 1..(i - 1) : j \in 1..i
          BY <1>1
        <4> QED
          BY <4>1, <4>2
      <3> HIDE DEF b, c, t, gone
      <3>4. /\ \A k : k # t => ArrayIn(c, k) = ArrayIn(b, k)
            /\ Once(ArrayIn(b, t)) =>
                 Once(ArrayIn(c, t)) /\ ToSet(ArrayIn(c, t)) = ToSet(ArrayIn(b, t)) \ {l}
        BY <3>1, SpliceIs
      <3>5. ASSUME NEW k \in Keys
            PROVE  /\ Once(ArrayIn(c, k))
                   /\ ToSet(ArrayIn(c, k)) = ToSet(ArrayIn(ar, k)) \ gone(i, k)
        <4>1. CASE k = t
          BY <3>1, <3>2, <3>3, <3>4, <4>1
        <4>2. CASE k # t
          BY <3>1, <3>2, <3>3, <3>4, <4>2
        <4> QED
          BY <4>1, <4>2
      <3>6. All(c) /\ Left(i, c)
        BY <3>5
      <3> HIDE DEF All, Left
      <3> QED
        BY <3>6 DEF c
    <2> HIDE DEF S
    <2>3. 0..n \subseteq S
      BY <1>1, <2>1, <2>2, UpTo
    <2>4. n \in S
      BY <1>1, <2>3
    <2> HIDE DEF All, Left
    <2> QED
      BY <2>4 DEF S
  <1>4. \A t : (\E j \in 1..n : ts[j] = t) <=> t \in ToSet(ts)
    BY <1>1
  <1>5. Spliced(ar, ts, l) \in Arrays
    BY <1>1, <1>2
  <1> QED
    BY <1>2, <1>3, <1>4, <1>5

(* What a manager delivers after it has extended another. *)
LEMMA ExtendedIs ==
    ASSUME NEW ar \in Arrays, NEW dr \in Arrays
    PROVE  /\ Extended(ar, dr) \in Arrays
           /\ \A t : ToSet(GetListeners(Extended(ar, dr), t)) =
                       ToSet(GetListeners(ar, t)) \cup ToSet(GetListeners(dr, t))
  <1> DEFINE D == DOMAIN ar \cup DOMAIN dr
             more(t) == IF t \in DOMAIN dr THEN GetListeners(dr, t) ELSE <<>>
             p == [t \in D |-> ArrayIn(ar, t) \o more(t)]
  <1>1. D \in SUBSET Keys
    BY ArraysAre
  <1>2. ASSUME NEW t
        PROVE  /\ more(t) \in Seq(Listeners)
               /\ t \in DOMAIN dr => ToSet(more(t)) = ToSet(ArrayIn(dr, t)) \cup ToSet(ArrayIn(dr, Star))
               /\ t \notin DOMAIN dr => ToSet(more(t)) = {} /\ ToSet(ArrayIn(dr, t)) = {}
    <2> DEFINE e == <<>>
               g == GetListeners(dr, t)
    <2>1. e \in Seq(Listeners) /\ ToSet(e) = {}
      BY DEF ToSet
    <2>2. g \in Seq(Listeners) /\ ToSet(g) = ToSet(ArrayIn(dr, t)) \cup ToSet(ArrayIn(dr, Star))
      BY GetListenersAre
    <2>3. t \notin DOMAIN dr => ArrayIn(dr, t) = e
      BY DEF ArrayIn
    <2>4. more(t) = IF t \in DOMAIN dr THEN g ELSE e
      OBVIOUS
    <2> HIDE DEF e, g, more
    <2> QED
      BY <2>1, <2>2, <2>3, <2>4
  <1>3. \A t : ArrayIn(ar, t) \in Seq(Listeners)
    BY ArraysAre
  <1> HIDE DEF more
  <1>4. ASSUME NEW t
        PROVE  /\ ArrayIn(ar, t) \o more(t) \in Seq(Listeners)
               /\ ToSet(ArrayIn(ar, t) \o more(t)) = ToSet(ArrayIn(ar, t)) \cup ToSet(more(t))
    <2> DEFINE a == ArrayIn(ar, t)
               b == more(t)
    <2>1. a \in Seq(Listeners) /\ b \in Seq(Listeners)
      BY <1>2, <1>3
    <2> HIDE DEF a, b
    <2>2. a \o b \in Seq(Listeners) /\ ToSet(a \o b) = ToSet(a) \cup ToSet(b)
      BY <2>1, ConcatSet
    <2> QED
      BY <2>2 DEF a, b
  <1>5. Extended(ar, dr) = p
    BY DEF Extended, more
  <1>6. p \in [D -> Seq(Listeners)]
    BY <1>4
  <1>7. p \in Arrays
    <2> HIDE DEF D, p
    <2> QED
      BY <1>1, <1>6, InArrays
  <1>8. ASSUME NEW t
        PROVE  ToSet(ArrayIn(p, t)) = ToSet(ArrayIn(ar, t)) \cup ToSet(more(t))
    <2>1. CASE t \in D
      BY <1>4, <2>1 DEF ArrayIn
    <2>2. CASE t \notin D
      <3>1. ArrayIn(p, t) = ArrayIn(ar, t)
        BY <2>2 DEF ArrayIn
      <3> HIDE DEF p
      <3> QED
        BY <1>2, <2>2, <3>1
    <2> QED
      BY <2>1, <2>2
  <1> HIDE DEF p, D
  <1>9. ASSUME NEW t
        PROVE  ToSet(GetListeners(p, t)) =
                 ToSet(GetListeners(ar, t)) \cup ToSet(GetListeners(dr, t))
    <2>1. /\ ToSet(GetListeners(p, t)) = ToSet(ArrayIn(p, t)) \cup ToSet(ArrayIn(p, Star))
          /\ ToSet(GetListeners(ar, t)) = ToSet(ArrayIn(ar, t)) \cup ToSet(ArrayIn(ar, Star))
          /\ ToSet(GetListeners(dr, t)) = ToSet(ArrayIn(dr, t)) \cup ToSet(ArrayIn(dr, Star))
      BY <1>7, GetListenersAre
    <2>2. ToSet(more(Star)) = ToSet(ArrayIn(dr, Star))
      BY <1>2
    <2>3. ToSet(more(t)) \cup ToSet(more(Star)) = ToSet(ArrayIn(dr, t)) \cup ToSet(ArrayIn(dr, Star))
      BY <1>2, <2>2
    <2>4. /\ ToSet(ArrayIn(p, t)) = ToSet(ArrayIn(ar, t)) \cup ToSet(more(t))
          /\ ToSet(ArrayIn(p, Star)) = ToSet(ArrayIn(ar, Star)) \cup ToSet(more(Star))
      BY <1>8
    <2> QED
      BY <2>1, <2>3, <2>4
  <1> QED
    BY <1>5, <1>7, <1>9

-----------------------------------------------------------------------------
(* The inductive invariant. *)

Sub == [on : Managers \cup {NoTarget}, events : Seq(Keys),
        listener : Listeners \cup {NoTarget},
        status : {"unused", "active", "cancelled"}]

SubsSound ==
    /\ subs \in [Subs -> Sub]
    /\ \A s \in Subs : subs[s].status # "unused" =>
                          subs[s].on \in Managers /\ subs[s].listener \in Listeners

EventInv == arrays \in [Managers -> Arrays] /\ SubsSound /\ EmitsSound

LEMMA InitInv == ASSUME EventManagerAssumption, Init PROVE EventInv
  <1> DEFINE none == <<>>
  <1>1. /\ none \in Seq(Listeners) /\ none \in Seq(Emits) /\ none \in Seq(Keys)
        /\ Len(none) = 0 /\ DOMAIN none = {} /\ none \in [{} -> Seq(Listeners)]
    OBVIOUS
  <1>2. none \in Arrays
    <2> HIDE DEF none
    <2> QED
      BY <1>1, InArrays
  <1>3. arrays = [m \in Managers |-> none]
    BY DEF Init
  <1>4. /\ NoSub = [on |-> NoTarget, events |-> none, listener |-> NoTarget, status |-> "unused"]
        /\ NoEmit = [on |-> NoTarget, event |-> Star, todo |-> none, got |-> none,
                     kids |-> none, status |-> "unused"]
    BY DEF NoSub, NoEmit
  <1> HIDE DEF none
  <1>5. arrays \in [Managers -> Arrays]
    BY <1>2, <1>3
  <1>6. NoSub \in Sub /\ NoSub.status = "unused"
    BY <1>1, <1>4 DEF Sub
  <1>7. SubsSound
    BY <1>6 DEF Init, SubsSound
  <1>8. NoEmit \in Emission /\ NoEmit.status = "unused" /\ NoEmit.got = none /\ NoEmit.kids = none
    BY <1>1, <1>4 DEF Emission, Keys, Statuses
  <1>9. \A e \in Emits : emits[e] = NoEmit
    BY DEF Init
  <1>10. Shaped(NoEmit)
    BY <1>1, <1>8 DEF Shaped, Once
  <1>11. KidsOk(emits, NoEmit)
    BY <1>1, <1>8 DEF KidsOk
  <1>12. emits \in [Emits -> Emission]
    BY <1>8 DEF Init
  <1> QED
    BY <1>5, <1>7, <1>9, <1>10, <1>11, <1>12 DEF EventInv, EmitsSound

LEMMA SubscribeInv ==
    ASSUME EventManagerAssumption, EventInv, NEW m \in Managers, NEW l \in Listeners,
           NEW ts \in Seq(Keys), Subscribe(m, l, ts)
    PROVE  EventInv'
  <1> DEFINE p == Pushed(arrays[m], ts, l)
             sub == [on |-> m, events |-> ts, listener |-> l, status |-> "active"]
  <1>1. arrays \in [Managers -> Arrays] /\ SubsSound /\ EmitsSound
    BY DEF EventInv
  <1>2. p \in Arrays
    <2> DEFINE ar == arrays[m]
    <2>1. ar \in Arrays
      BY <1>1
    <2> HIDE DEF ar
    <2>2. Pushed(ar, ts, l) \in Arrays
      BY <2>1, PushedIs
    <2> QED
      BY <2>2 DEF ar
  <1>3. arrays' = [arrays EXCEPT ![m] = p]
    BY DEF Subscribe
  <1> HIDE DEF p
  <1>4. arrays' \in [Managers -> Arrays]
    BY <1>1, <1>2, <1>3
  <1>5. PICK s \in Subs : subs' = [subs EXCEPT ![s] = sub]
    BY Zenon DEF Subscribe
  <1>6. sub \in Sub
    BY DEF Sub
  <1>7. SubsSound'
    BY <1>1, <1>5, <1>6 DEF SubsSound
  <1>8. EmitsSound'
    BY <1>1 DEF Subscribe, EmitsSound
  <1> QED
    BY <1>4, <1>7, <1>8 DEF EventInv

LEMMA CancelInv == ASSUME EventInv, NEW s \in Subs, Cancel(s) PROVE EventInv'
  <1> DEFINE m == subs[s].on
             ts == subs[s].events
             l == subs[s].listener
             p == Spliced(arrays[m], ts, l)
  <1>1. arrays \in [Managers -> Arrays] /\ SubsSound /\ EmitsSound
    BY DEF EventInv
  <1>2. m \in Managers /\ ts \in Seq(Keys) /\ l \in Listeners
    BY <1>1 DEF Cancel, SubsSound, Sub
  <1>3. arrays' = [arrays EXCEPT ![m] = p]
    BY DEF Cancel
  <1>4. p \in Arrays
    <2> DEFINE ar == arrays[m]
    <2>1. ar \in Arrays
      BY <1>1, <1>2
    <2> HIDE DEF ar, ts, l
    <2>2. Spliced(ar, ts, l) \in Arrays
      BY <1>2, <2>1, SplicedIs
    <2> QED
      BY <2>2 DEF ar
  <1> HIDE DEF p, m
  <1>5. arrays' \in [Managers -> Arrays]
    BY <1>1, <1>2, <1>3, <1>4
  <1>6. SubsSound'
    BY <1>1 DEF Cancel, SubsSound, Sub
  <1>7. EmitsSound'
    BY <1>1 DEF Cancel, EmitsSound
  <1> QED
    BY <1>5, <1>6, <1>7 DEF EventInv

LEMMA ExtendInv ==
    ASSUME EventInv, NEW m \in Managers, NEW d \in Managers, Extend(m, d) PROVE EventInv'
  <1> DEFINE ar == arrays[m]
             dr == arrays[d]
             p == Extended(ar, dr)
  <1>1. arrays \in [Managers -> Arrays] /\ SubsSound /\ EmitsSound
    BY DEF EventInv
  <1>2. arrays' = [arrays EXCEPT ![m] = p]
    BY DEF Extend
  <1>3. ar \in Arrays /\ dr \in Arrays
    BY <1>1
  <1> HIDE DEF ar, dr
  <1>4. p \in Arrays
    BY <1>3, ExtendedIs
  <1> HIDE DEF p
  <1>5. arrays' \in [Managers -> Arrays]
    BY <1>1, <1>2, <1>4
  <1>6. SubsSound' /\ EmitsSound'
    BY <1>1 DEF Extend, SubsSound, EmitsSound
  <1> QED
    BY <1>5, <1>6 DEF EventInv

(* The snapshot an emission starts with. *)
LEMMA StartedIs ==
    ASSUME arrays \in [Managers -> Arrays], NEW m \in Managers, NEW t \in Keys,
           NEW status \in Statuses
    PROVE  /\ GetListeners(arrays[m], t) \in Seq(Listeners) /\ Once(GetListeners(arrays[m], t))
           /\ Started(m, t, status) \in Emission
           /\ Started(m, t, status).todo = GetListeners(arrays[m], t)
           /\ Started(m, t, status).status = status
           /\ Len(Started(m, t, status).got) = 0 /\ Len(Started(m, t, status).kids) = 0
  <1> DEFINE ar == arrays[m]
             g == GetListeners(ar, t)
             none == <<>>
             x == [on |-> m, event |-> t, todo |-> g, got |-> none, kids |-> none,
                   status |-> status]
  <1>1. ar \in Arrays
    OBVIOUS
  <1>2. Started(m, t, status) = x
    BY DEF Started
  <1>3. none \in Seq(Listeners) /\ none \in Seq(Emits) /\ Len(none) = 0
    OBVIOUS
  <1> HIDE DEF ar, none
  <1>4. g \in Seq(Listeners) /\ Once(g)
    BY <1>1, GetListenersAre
  <1> HIDE DEF g
  <1>5. x \in Emission /\ x.todo = g /\ x.status = status /\ x.got = none /\ x.kids = none
    BY <1>3, <1>4 DEF Emission
  <1> HIDE DEF x
  <1> QED
    BY <1>2, <1>3, <1>4, <1>5 DEF g, ar

LEMMA SnapshotInv ==
    ASSUME arrays \in [Managers -> Arrays], NEW m \in Managers, NEW t \in Keys,
           arrays' = [arrays EXCEPT ![m] = Touch(@, t)]
    PROVE  arrays' \in [Managers -> Arrays]
  <1> DEFINE ar == arrays[m]
             p == Touch(ar, t)
  <1>1. ar \in Arrays /\ arrays' = [arrays EXCEPT ![m] = p]
    OBVIOUS
  <1> HIDE DEF ar
  <1>2. p \in Arrays
    BY <1>1, TouchIs
  <1> HIDE DEF p
  <1> QED
    BY <1>1, <1>2

(* A new emission, whose listeners are called now or later. *)
LEMMA StartInv ==
    ASSUME EventInv, NEW m \in Managers, NEW t \in Events, NEW e \in Emits, NEW new \in Emission,
           Snapshot(m, t, e), emits' = [emits EXCEPT ![e] = new], UNCHANGED subs,
           new.status \in {"between", "parallel", "done", "failed"}, Len(new.kids) = 0,
           Once(new.got), new.status = "between" => Once(new.todo) /\ Len(new.got) = 0
    PROVE  EventInv'
  <1>1. arrays \in [Managers -> Arrays] /\ SubsSound /\ EmitsSound /\ t \in Keys
    BY DEF EventInv, Keys
  <1>2. arrays' \in [Managers -> Arrays]
    BY <1>1, SnapshotInv DEF Snapshot
  <1>3. Shaped(new)
    BY DEF Shaped, Disjoint
  <1>4. KidsOk(emits, new)
    BY DEF KidsOk
  <1>5. emits[e].status \notin Over /\ new.status # "unused"
    BY DEF Snapshot, Over
  <1>6. EmitsSound'
    BY <1>1, <1>3, <1>4, <1>5, OneEmission
  <1>7. SubsSound'
    BY <1>1 DEF SubsSound
  <1> QED
    BY <1>2, <1>6, <1>7 DEF EventInv

LEMMA EmitAsyncInv ==
    ASSUME EventInv, NEW m \in Managers, NEW t \in Events, EmitAsync(m, t) PROVE EventInv'
  <1>1. PICK e \in Emits : /\ Snapshot(m, t, e)
                           /\ emits' = [emits EXCEPT ![e] = Started(m, t, "between")]
    BY Zenon DEF EmitAsync
  <1> DEFINE new == Started(m, t, "between")
  <1>2. UNCHANGED subs /\ arrays \in [Managers -> Arrays] /\ t \in Keys /\ "between" \in Statuses
    BY DEF EmitAsync, EventInv, Keys, Statuses
  <1>3. /\ GetListeners(arrays[m], t) \in Seq(Listeners) /\ Once(GetListeners(arrays[m], t))
        /\ new \in Emission /\ new.todo = GetListeners(arrays[m], t) /\ new.status = "between"
        /\ Len(new.got) = 0 /\ Len(new.kids) = 0
    BY <1>2, StartedIs
  <1> HIDE DEF new
  <1>4. Once(new.got) /\ Once(new.todo)
    BY <1>3 DEF Once
  <1> QED
    BY <1>1, <1>2, <1>3, <1>4, StartInv DEF new

LEMMA EmitAllInv ==
    ASSUME EventInv, NEW m \in Managers, NEW t \in Events, EmitAll(m, t) PROVE EventInv'
  <1> DEFINE x == Started(m, t, "parallel")
             g == GetListeners(arrays[m], t)
             new == [x EXCEPT !.got = g]
  <1>1. PICK e \in Emits : Snapshot(m, t, e) /\ emits' = [emits EXCEPT ![e] = new]
    BY Zenon DEF EmitAll
  <1>2. UNCHANGED subs /\ arrays \in [Managers -> Arrays] /\ t \in Keys /\ "parallel" \in Statuses
    BY DEF EmitAll, EventInv, Keys, Statuses
  <1>3. /\ g \in Seq(Listeners) /\ Once(g)
        /\ x \in Emission /\ x.status = "parallel" /\ Len(x.kids) = 0
    BY <1>2, StartedIs
  <1> HIDE DEF x, g
  <1>4. /\ new \in Emission /\ new.status = "parallel" /\ new.kids = x.kids /\ new.got = g
    BY <1>3 DEF Emission
  <1> HIDE DEF new
  <1> QED
    BY <1>1, <1>2, <1>3, <1>4, StartInv

LEMMA OncePrefix ==
    ASSUME NEW L, NEW s \in Seq(L), NEW n \in 0..Len(s), Once(s)
    PROVE  SubSeq(s, 1, n) \in Seq(L) /\ Once(SubSeq(s, 1, n))
  <1> DEFINE u == SubSeq(s, 1, n)
  <1>1. Len(s) \in Nat /\ \A j \in 1..Len(s) : s[j] \in L
    BY LenProperties, ElementOfSeq
  <1>2. n \in Nat /\ n <= Len(s) /\ \A j \in 1..n : s[j] \in L
    BY <1>1
  <1>3. u \in Seq(L) /\ Len(u) = n /\ \A k \in 1..n : u[k] = s[k]
    BY <1>2, SubSeqProperties
  <1> HIDE DEF u
  <1>4. Once(u)
    BY <1>1, <1>2, <1>3 DEF Once
  <1> QED
    BY <1>3, <1>4 DEF u

LEMMA EmitInv ==
    ASSUME EventInv, NEW m \in Managers, NEW t \in Events, Emit(m, t) PROVE EventInv'
  <1> DEFINE g == GetListeners(arrays[m], t)
  <1>1. PICK e \in Emits, n \in 0..Len(g), status \in {"done", "failed"} :
          /\ Snapshot(m, t, e)
          /\ IF status = "done" THEN n = Len(g) ELSE n > 0 /\ g[n] \in Faulty
          /\ emits' = [emits EXCEPT ![e] =
               [Started(m, t, status) EXCEPT !.todo = <<>>, !.got = SubSeq(g, 1, n)]]
    BY Zenon DEF Emit
  <1> DEFINE x == Started(m, t, status)
             u == SubSeq(g, 1, n)
             none == <<>>
             new == [x EXCEPT !.todo = none, !.got = u]
  <1>2. /\ UNCHANGED subs /\ arrays \in [Managers -> Arrays] /\ t \in Keys
        /\ status \in Statuses /\ emits' = [emits EXCEPT ![e] = new]
        /\ none \in Seq(Listeners) /\ n \in 0..Len(g)
    <2>1. UNCHANGED subs /\ arrays \in [Managers -> Arrays] /\ t \in Keys
      BY DEF Emit, EventInv, Keys
    <2>2. status \in Statuses /\ none \in Seq(Listeners)
      BY DEF Statuses
    <2>3. emits' = [emits EXCEPT ![e] = new]
      BY <1>1, Zenon
    <2> QED
      BY <2>1, <2>2, <2>3
  <1>3. /\ g \in Seq(Listeners) /\ Once(g)
        /\ x \in Emission /\ x.status = status /\ Len(x.kids) = 0
    BY <1>2, StartedIs
  <1> HIDE DEF x, g, none
  <1>4. u \in Seq(Listeners) /\ Once(u)
    BY <1>2, <1>3, OncePrefix
  <1> HIDE DEF u
  <1>5. /\ new \in Emission /\ new.status = status /\ new.kids = x.kids /\ new.got = u
    BY <1>2, <1>3, <1>4 DEF Emission
  <1> HIDE DEF new
  <1>6. Snapshot(m, t, e)
    BY <1>1
  <1> QED
    BY <1>2, <1>3, <1>4, <1>5, <1>6, StartInv

(* A listener is called. *)
LEMMA CalledIs ==
    ASSUME NEW x \in Emission, Shaped(x), x.status = "between", x.todo # <<>>
    PROVE  LET g == Append(x.got, Head(x.todo))
           IN  /\ g \in Seq(Listeners) /\ Once(g)
               /\ Once(Tail(x.todo)) /\ Disjoint(g, Tail(x.todo))
  <1> DEFINE s == x.todo
             h == Head(s)
             r == Tail(s)
             a == x.got
             g == Append(a, h)
  <1>1. /\ a \in Seq(Listeners) /\ Len(a) \in Nat /\ Len(s) \in Nat
        /\ h \in Listeners /\ h = s[1] /\ Len(r) = Len(s) - 1 /\ Len(s) >= 1
        /\ \A i \in 1..(Len(s) - 1) : r[i] = s[i + 1]
    BY EmissionIs
  <1>2. Once(a) /\ Once(s) /\ Disjoint(a, s)
    BY DEF Shaped
  <1> HIDE DEF s, h, r, a
  <1>3. g \in Seq(Listeners) /\ Len(g) = Len(a) + 1 /\ g[Len(a) + 1] = h
        /\ \A k \in 1..Len(a) : g[k] = a[k]
    BY <1>1, AppendProperties
  <1> HIDE DEF g
  <1>4. \A k \in 1..Len(a) : a[k] # h
    <2>1. 1 \in 1..Len(s)
      BY <1>1
    <2> QED
      BY <1>1, <1>2, <2>1 DEF Disjoint
  <1>5. Once(g)
    <2> SUFFICES ASSUME NEW i \in 1..Len(g), NEW j \in 1..Len(g), i # j PROVE g[i] # g[j]
      BY DEF Once
    <2>1. CASE i \in 1..Len(a) /\ j \in 1..Len(a)
      BY <1>2, <1>3, <2>1 DEF Once
    <2>2. CASE i = Len(a) + 1 \/ j = Len(a) + 1
      BY <1>1, <1>3, <1>4, <2>2
    <2> QED
      BY <1>1, <1>3, <2>1, <2>2
  <1>6. ASSUME NEW i \in 1..Len(r) PROVE i + 1 \in 1..Len(s) /\ r[i] = s[i + 1] /\ i + 1 # 1
    BY <1>1
  <1>7. Once(r)
    <2> SUFFICES ASSUME NEW i \in 1..Len(r), NEW j \in 1..Len(r), i # j PROVE r[i] # r[j]
      BY DEF Once
    <2>1. i + 1 # j + 1
      OBVIOUS
    <2> QED
      BY <1>2, <1>6, <2>1 DEF Once
  <1>8. Disjoint(g, r)
    <2> SUFFICES ASSUME NEW i \in 1..Len(g), NEW j \in 1..Len(r) PROVE g[i] # r[j]
      BY DEF Disjoint
    <2>1. CASE i \in 1..Len(a)
      BY <1>2, <1>3, <1>6, <2>1 DEF Disjoint
    <2>2. CASE i = Len(a) + 1
      <3>1. 1 \in 1..Len(s) /\ g[i] = s[1]
        BY <1>1, <1>3, <2>2
      <3> QED
        BY <1>2, <1>6, <3>1 DEF Once
    <2> QED
      BY <1>1, <1>3, <2>1, <2>2
  <1> QED
    BY <1>3, <1>5, <1>7, <1>8 DEF g, s, h, r, a

LEMMA CallInv == ASSUME EventInv, NEW e \in Emits, Call(e) PROVE EventInv'
  <1> DEFINE x == emits[e]
             g == Append(x.got, Head(x.todo))
             new == [x EXCEPT !.status = "calling", !.got = g]
  <1>1. /\ arrays \in [Managers -> Arrays] /\ SubsSound /\ EmitsSound
        /\ x \in Emission /\ Shaped(x) /\ KidsOk(emits, x)
    BY DEF EventInv, EmitsSound
  <1>2. /\ x.status = "between" /\ x.todo # <<>> /\ Target[Head(x.todo)] = NoTarget
        /\ emits' = [emits EXCEPT ![e] = new] /\ UNCHANGED <<arrays, subs>>
    BY DEF Call
  <1> HIDE DEF x
  <1>3. /\ g \in Seq(Listeners) /\ Once(g) /\ Once(Tail(x.todo)) /\ Disjoint(g, Tail(x.todo))
    BY <1>1, <1>2, CalledIs
  <1> HIDE DEF g
  <1>4. /\ new \in Emission /\ new.status = "calling" /\ new.got = g /\ new.todo = x.todo
        /\ new.kids = x.kids
    BY <1>1, <1>3 DEF Emission, Statuses
  <1> HIDE DEF new
  <1>5. Shaped(new)
    BY <1>2, <1>3, <1>4 DEF Shaped
  <1>6. KidsOk(emits, new)
    BY <1>1, <1>2, <1>4 DEF KidsOk
  <1>7. EmitsSound'
    BY <1>1, <1>2, <1>4, <1>5, <1>6, OneEmission DEF Over, x
  <1> QED
    BY <1>1, <1>2, <1>7 DEF EventInv, SubsSound

LEMMA ForwardInv ==
    ASSUME EventManagerAssumption, EventInv, NEW e \in Emits, Forward(e)
    PROVE  EventInv'
  <1> DEFINE x == emits[e]
             d == Target[Head(x.todo)]
             t == x.event
  <1>1. PICK f \in Emits :
          /\ Snapshot(d, t, f)
          /\ emits' = [emits EXCEPT
               ![e].status = "calling", ![e].kids = Append(@, f),
               ![e].got = Append(@, Head(x.todo)),
               ![f] = Started(d, t, "between")]
    BY Zenon DEF Forward
  <1> DEFINE g == Append(x.got, Head(x.todo))
             ks == Append(x.kids, f)
             new == [x EXCEPT !.status = "calling", !.kids = ks, !.got = g]
             kid == Started(d, t, "between")
  <1>2. /\ arrays \in [Managers -> Arrays] /\ SubsSound /\ EmitsSound
        /\ emits \in [Emits -> Emission] /\ x \in Emission /\ Shaped(x) /\ KidsOk(emits, x)
        /\ t \in Keys
    BY DEF EventInv, EmitsSound, Emission
  <1>3. /\ x.status = "between" /\ x.todo # <<>> /\ d # NoTarget /\ UNCHANGED subs
    BY DEF Forward
  <1>4. d \in Managers
    <2>1. Head(x.todo) \in Listeners
      BY <1>2, <1>3, EmissionIs
    <2> HIDE DEF x
    <2> QED
      BY <1>3, <2>1 DEF EventManagerAssumption
  <1>5. arrays' \in [Managers -> Arrays]
    BY <1>1, <1>2, <1>4, SnapshotInv DEF Snapshot
  <1>6. /\ kid \in Emission /\ kid.status = "between" /\ Once(kid.todo)
        /\ Len(kid.got) = 0 /\ Len(kid.kids) = 0
    <2>1. "between" \in Statuses
      BY DEF Statuses
    <2> HIDE DEF d, t
    <2> QED
      BY <1>2, <1>4, <2>1, StartedIs
  <1>7. emits[f].status = "unused" /\ f # e
    BY <1>1, <1>3 DEF Snapshot
  <1>8. /\ emits' = [o \in Emits |-> emits'[o]]
        /\ emits'[e] = new /\ emits'[f] = kid
        /\ \A o \in Emits \ {e, f} : emits'[o] = emits[o]
    <2> DEFINE y == [x EXCEPT !.status = "calling"]
               z == [y EXCEPT !.kids = ks]
               c == [emits EXCEPT ![e].status = "calling"]
               k == [c EXCEPT ![e].kids = Append(@, f)]
               h == [k EXCEPT ![e].got = Append(@, Head(x.todo))]
    <2>1. c = [emits EXCEPT ![e] = y]
      OBVIOUS
    <2>2. c[e] = y /\ c \in [Emits -> {c[o] : o \in Emits}] /\ \A o \in Emits \ {e} : c[o] = emits[o]
      BY <1>2, <2>1
    <2>3. y.kids = x.kids /\ y.got = x.got /\ z.got = x.got
      BY <1>2 DEF Emission
    <2> HIDE DEF c
    <2>4. k[e] = z /\ k \in [Emits -> {k[o] : o \in Emits}] /\ \A o \in Emits \ {e} : k[o] = emits[o]
      BY <2>2, <2>3
    <2> HIDE DEF k, ks, y
    <2>5. h[e] = [z EXCEPT !.got = g] /\ h \in [Emits -> {h[o] : o \in Emits}]
          /\ \A o \in Emits \ {e} : h[o] = emits[o]
      BY <2>3, <2>4
    <2>6. emits' = [h EXCEPT ![f] = kid]
      BY <1>1, Zenon DEF h, k, c
    <2> HIDE DEF h, z, kid, g
    <2>7. emits'[e] = h[e] /\ emits'[f] = kid /\ \A o \in Emits \ {e, f} : emits'[o] = emits[o]
      BY <1>7, <2>5, <2>6
    <2>8. new = [z EXCEPT !.got = g]
      BY DEF z, y
    <2>9. emits' = [o \in Emits |-> emits'[o]]
      BY <2>5, <2>6
    <2> QED
      BY <2>5, <2>7, <2>8, <2>9
  <1>9. /\ g \in Seq(Listeners) /\ Once(g) /\ Once(Tail(x.todo)) /\ Disjoint(g, Tail(x.todo))
    <2> HIDE DEF x
    <2> QED
      BY <1>2, <1>3, CalledIs
  <1>10. /\ ks \in Seq(Emits) /\ Len(ks) = Len(x.kids) + 1 /\ ks[Len(x.kids) + 1] = f
         /\ \A k \in 1..Len(x.kids) : ks[k] = x.kids[k] /\ x.kids[k] \in Emits
         /\ Len(x.kids) \in Nat
    <2> DEFINE kk == x.kids
    <2>1. kk \in Seq(Emits) /\ Len(kk) \in Nat /\ \A k \in 1..Len(kk) : kk[k] \in Emits
      BY <1>2, EmissionIs
    <2> HIDE DEF kk
    <2>2. Append(kk, f) \in Seq(Emits) /\ Len(Append(kk, f)) = Len(kk) + 1
          /\ Append(kk, f)[Len(kk) + 1] = f /\ \A k \in 1..Len(kk) : Append(kk, f)[k] = kk[k]
      BY <2>1, AppendProperties
    <2> QED
      BY <2>1, <2>2 DEF kk
  <1> HIDE DEF g, ks, kid, d, t, x
  <1>11. /\ new \in Emission /\ new.status = "calling" /\ new.got = g /\ new.todo = x.todo
         /\ new.kids = ks
    BY <1>2, <1>9, <1>10 DEF Emission, Statuses
  <1> HIDE DEF new
  <1>12. emits' \in [Emits -> Emission]
    <2>1. \A o \in Emits : emits'[o] \in Emission
      BY <1>2, <1>6, <1>8, <1>11
    <2> QED
      BY <1>8, <2>1
  <1>13. \A o \in Emits : Ahead(emits[o], emits'[o])
    <2>1. Ahead(x, new) /\ Ahead(emits[f], kid)
      BY <1>3, <1>6, <1>7, <1>11 DEF Ahead, Over
    <2>2. \A o \in Emits : Ahead(emits[o], emits[o])
      BY DEF Ahead
    <2> QED
      BY <1>8, <2>1, <2>2 DEF x
  <1>14. Shaped(new) /\ Shaped(kid)
    <2>1. Shaped(new)
      BY <1>3, <1>9, <1>11 DEF Shaped
    <2>2. Shaped(kid)
      BY <1>6 DEF Shaped, Once, Disjoint
    <2> QED
      BY <2>1, <2>2
  <1>15. KidsOk(emits', kid)
    BY <1>6 DEF KidsOk
  <1>16. KidsOk(emits', new)
    <2>1. ASSUME NEW k \in 1..Len(x.kids)
          PROVE  ks[k] = x.kids[k] /\ emits'[ks[k]].status = "done"
      <3>1. emits[x.kids[k]].status = "done" /\ x.kids[k] \in Emits /\ ks[k] = x.kids[k]
        BY <1>2, <1>3, <1>10 DEF KidsOk
      <3> QED
        BY <1>13, <3>1 DEF Ahead, Over
    <2>2. ASSUME NEW k \in 1..Len(ks) PROVE k \in 1..Len(x.kids) \/ ks[k] = f
      BY <1>10
    <2>3. \A k \in 1..Len(ks) : emits'[ks[k]].status # "unused"
      BY <1>6, <1>8, <2>1, <2>2
    <2>4. Len(ks) >= 1 /\ \A k \in 1..(Len(ks) - 1) : emits'[ks[k]].status = "done"
      BY <1>10, <2>1
    <2>5. Target[Head(new.todo)] # NoTarget
      BY <1>3, <1>11 DEF d
    <2> QED
      BY <1>11, <2>3, <2>4, <2>5 DEF KidsOk
  <1>17. \A o \in Emits : Shaped(emits'[o]) /\ KidsOk(emits', emits'[o])
    <2>1. \A o \in Emits : emits'[o] # emits[o] => Shaped(emits'[o]) /\ KidsOk(emits', emits'[o])
      BY <1>8, <1>14, <1>15, <1>16
    <2> QED
      BY <1>2, <1>12, <1>13, <2>1, EmitsKept
  <1> QED
    BY <1>2, <1>3, <1>5, <1>12, <1>17 DEF EventInv, EmitsSound, SubsSound

LEMMA ReturnInv == ASSUME EventInv, NEW e \in Emits, Return(e) PROVE EventInv'
  <1> DEFINE x == emits[e]
             r == Tail(x.todo)
             new == [x EXCEPT !.status = "between", !.todo = r]
  <1>1. /\ arrays \in [Managers -> Arrays] /\ SubsSound /\ EmitsSound
        /\ x \in Emission /\ Shaped(x) /\ KidsOk(emits, x)
    BY DEF EventInv, EmitsSound
  <1>2. /\ x.status = "calling" /\ emits' = [emits EXCEPT ![e] = new] /\ UNCHANGED <<arrays, subs>>
        /\ Target[Head(x.todo)] # NoTarget => emits[Last(x.kids)].status = "done"
    BY DEF Return, Forwarding
  <1> HIDE DEF x
  <1>3. x.todo # <<>> /\ Once(x.got) /\ Once(r) /\ Disjoint(x.got, r)
    BY <1>1, <1>2 DEF Shaped
  <1>4. r \in Seq(Listeners)
    BY <1>1, <1>3, EmissionIs
  <1> HIDE DEF r
  <1>5. /\ new \in Emission /\ new.status = "between" /\ new.got = x.got /\ new.todo = r
        /\ new.kids = x.kids
    BY <1>1, <1>4 DEF Emission, Statuses
  <1> HIDE DEF new
  <1>6. Shaped(new)
    BY <1>3, <1>5 DEF Shaped
  <1>7. \A k \in 1..Len(x.kids) : emits[x.kids[k]].status = "done"
    <2>1. CASE Target[Head(x.todo)] = NoTarget
      BY <1>1, <1>2, <2>1 DEF KidsOk
    <2>2. CASE Target[Head(x.todo)] # NoTarget
      <3>1. /\ Len(x.kids) >= 1 /\ emits[x.kids[Len(x.kids)]].status = "done"
            /\ \A k \in 1..(Len(x.kids) - 1) : emits[x.kids[k]].status = "done"
        BY <1>1, <1>2, <2>2 DEF KidsOk, Last
      <3>2. Len(x.kids) \in Nat
        BY <1>1, EmissionIs
      <3>3. ASSUME NEW k \in 1..Len(x.kids)
            PROVE  k \in 1..(Len(x.kids) - 1) \/ k = Len(x.kids)
        BY <3>2
      <3> QED
        BY <3>1, <3>3
    <2> QED
      BY <2>1, <2>2
  <1>8. KidsOk(emits, new)
    BY <1>1, <1>5, <1>7 DEF KidsOk
  <1>9. EmitsSound'
    BY <1>1, <1>2, <1>5, <1>6, <1>8, OneEmission DEF Over, x
  <1> QED
    BY <1>1, <1>2, <1>9 DEF EventInv, SubsSound

LEMMA FailInv == ASSUME EventInv, NEW e \in Emits, Fail(e) PROVE EventInv'
  <1> DEFINE x == emits[e]
             none == <<>>
             new == [x EXCEPT !.status = "failed", !.todo = none]
  <1>1. /\ arrays \in [Managers -> Arrays] /\ SubsSound /\ EmitsSound
        /\ x \in Emission /\ Shaped(x) /\ KidsOk(emits, x) /\ none \in Seq(Listeners)
    BY DEF EventInv, EmitsSound
  <1>2. /\ x.status = "calling" /\ emits' = [emits EXCEPT ![e] = new] /\ UNCHANGED <<arrays, subs>>
        /\ Target[Head(x.todo)] # NoTarget => emits[Last(x.kids)].status = "failed"
    BY DEF Fail, Forwarding
  <1> HIDE DEF x, none
  <1>3. /\ new \in Emission /\ new.status = "failed" /\ new.got = x.got /\ new.kids = x.kids
    BY <1>1 DEF Emission, Statuses
  <1> HIDE DEF new
  <1>4. Shaped(new)
    BY <1>1, <1>3 DEF Shaped
  <1>5. \A k \in 1..Len(x.kids) : emits[x.kids[k]].status \in Over
    <2>1. CASE Target[Head(x.todo)] = NoTarget
      BY <1>1, <1>2, <2>1 DEF KidsOk, Over
    <2>2. CASE Target[Head(x.todo)] # NoTarget
      <3>1. /\ Len(x.kids) >= 1 /\ emits[x.kids[Len(x.kids)]].status = "failed"
            /\ \A k \in 1..(Len(x.kids) - 1) : emits[x.kids[k]].status = "done"
        BY <1>1, <1>2, <2>2 DEF KidsOk, Last
      <3>2. Len(x.kids) \in Nat
        BY <1>1, EmissionIs
      <3>3. ASSUME NEW k \in 1..Len(x.kids)
            PROVE  k \in 1..(Len(x.kids) - 1) \/ k = Len(x.kids)
        BY <3>2
      <3> QED
        BY <3>1, <3>3 DEF Over
    <2> QED
      BY <2>1, <2>2
  <1>6. KidsOk(emits, new)
    BY <1>1, <1>3, <1>5 DEF KidsOk
  <1>7. EmitsSound'
    BY <1>1, <1>2, <1>3, <1>4, <1>6, OneEmission DEF Over, x
  <1> QED
    BY <1>1, <1>2, <1>7 DEF EventInv, SubsSound

LEMMA FinishInv == ASSUME EventInv, NEW e \in Emits, Finish(e) PROVE EventInv'
  <1> DEFINE x == emits[e]
             new == [x EXCEPT !.status = "done"]
  <1>1. /\ arrays \in [Managers -> Arrays] /\ SubsSound /\ EmitsSound
        /\ x \in Emission /\ Shaped(x) /\ KidsOk(emits, x)
    BY DEF EventInv, EmitsSound
  <1>2. /\ x.status = "between" /\ emits' = [emits EXCEPT ![e] = new] /\ UNCHANGED <<arrays, subs>>
    BY DEF Finish
  <1> HIDE DEF x
  <1>3. /\ new \in Emission /\ new.status = "done" /\ new.got = x.got /\ new.kids = x.kids
    BY <1>1 DEF Emission, Statuses
  <1> HIDE DEF new
  <1>4. Shaped(new)
    BY <1>1, <1>3 DEF Shaped
  <1>5. KidsOk(emits, new)
    BY <1>1, <1>2, <1>3 DEF KidsOk
  <1>6. EmitsSound'
    BY <1>1, <1>2, <1>3, <1>4, <1>5, OneEmission DEF Over, x
  <1> QED
    BY <1>1, <1>2, <1>6 DEF EventInv, SubsSound

LEMMA SettleOneInv == ASSUME EventInv, NEW e \in Emits, SettleOne(e) PROVE EventInv'
  <1> DEFINE x == emits[e]
  <1>1. /\ arrays \in [Managers -> Arrays] /\ SubsSound /\ EmitsSound
        /\ x \in Emission /\ Shaped(x) /\ KidsOk(emits, x)
    BY DEF EventInv, EmitsSound
  <1>2. x.status = "parallel" /\ UNCHANGED <<arrays, subs>>
    BY DEF SettleOne
  <1>3. ASSUME NEW new \in Emission, emits' = [emits EXCEPT ![e] = new], new.got = x.got,
               new.kids = x.kids, new.status \in {"parallel", "done", "failed"}
        PROVE  EventInv'
    <2> HIDE DEF x
    <2>1. Len(x.kids) = 0
      BY <1>1, <1>2 DEF KidsOk
    <2>2. Shaped(new)
      BY <1>1, <1>3 DEF Shaped
    <2>3. KidsOk(emits, new)
      BY <1>3, <2>1 DEF KidsOk
    <2>4. EmitsSound'
      BY <1>1, <1>2, <1>3, <2>2, <2>3, OneEmission DEF Over, x
    <2> QED
      BY <1>1, <1>2, <2>4 DEF EventInv, SubsSound
  <1>4. CASE emits' = [emits EXCEPT ![e].status = "done"]
    <2> DEFINE new == [x EXCEPT !.status = "done"]
    <2>1. emits' = [emits EXCEPT ![e] = new]
      BY <1>4
    <2> HIDE DEF x
    <2>2. new \in Emission /\ new.status = "done" /\ new.got = x.got /\ new.kids = x.kids
      BY <1>1 DEF Emission, Statuses
    <2> HIDE DEF new
    <2> QED
      BY <1>3, <2>1, <2>2
  <1>5. ASSUME NEW i \in 1..Len(x.todo),
               emits' = [emits EXCEPT ![e].todo = RemoveAt(@, i)]
        PROVE  EventInv'
    <2> DEFINE r == RemoveAt(x.todo, i)
               new == [x EXCEPT !.todo = r]
    <2>1. emits' = [emits EXCEPT ![e] = new]
      BY <1>5
    <2> HIDE DEF x
    <2>2. r \in Seq(Listeners)
      <3> DEFINE s == x.todo
      <3>1. s \in Seq(Listeners) /\ i \in 1..Len(s)
        BY <1>1, EmissionIs
      <3> HIDE DEF s
      <3>2. RemoveAt(s, i) \in Seq(Listeners)
        BY <3>1, RemoveAtIs
      <3> QED
        BY <3>2 DEF s
    <2> HIDE DEF r
    <2>3. new \in Emission /\ new.status = "parallel" /\ new.got = x.got /\ new.kids = x.kids
      BY <1>1, <1>2, <2>2 DEF Emission, Statuses
    <2> HIDE DEF new
    <2> QED
      BY <1>3, <2>1, <2>3
  <1>6. CASE emits' = [emits EXCEPT ![e].status = "failed", ![e].todo = <<>>]
    <2> DEFINE none == <<>>
               new == [x EXCEPT !.status = "failed", !.todo = none]
    <2>0. none \in Seq(Listeners)
      OBVIOUS
    <2>1. emits' = [emits EXCEPT ![e] = new] /\ none \in Seq(Listeners)
      BY <1>1, <1>6, <2>0 DEF EmitsSound
    <2> HIDE DEF x, none
    <2>2. new \in Emission /\ new.status = "failed" /\ new.got = x.got /\ new.kids = x.kids
      BY <1>1, <2>1 DEF Emission, Statuses
    <2> HIDE DEF new
    <2> QED
      BY <1>3, <2>1, <2>2
  <1>7. CASE x.todo = <<>>
    <2>1. emits' = [emits EXCEPT ![e].status = "done"]
      BY <1>7, Zenon DEF SettleOne
    <2> QED
      BY <1>4, <2>1
  <1>8. CASE x.todo # <<>>
    <2>1. PICK i \in 1..Len(emits[e].todo) :
              \/ emits' = [emits EXCEPT ![e].todo = RemoveAt(@, i)]
              \/ /\ emits[e].todo[i] \in Faulty
                 /\ emits' = [emits EXCEPT ![e].status = "failed", ![e].todo = <<>>]
      BY <1>8, Zenon DEF SettleOne
    <2> QED
      BY <1>5, <1>6, <2>1
  <1> QED
    BY <1>7, <1>8

LEMMA NextInv == ASSUME EventManagerAssumption, EventInv, [Next]_vars PROVE EventInv'
  <1>1. ASSUME NEW m \in Managers, NEW l \in Listeners, NEW ts \in EventLists, On(m, l, ts)
        PROVE  EventInv'
    <2>1. ts \in Seq(Keys)
      BY DEF EventManagerAssumption
    <2> QED
      BY <1>1, <2>1, SubscribeInv DEF On
  <1>2. ASSUME NEW m \in Managers, NEW l \in Listeners, ForwardTo(m, l) PROVE EventInv'
    <2> DEFINE ts == <<Star>>
    <2>1. ts \in Seq(Keys) /\ Subscribe(m, l, ts)
      BY <1>2 DEF ForwardTo, Keys
    <2> HIDE DEF ts
    <2> QED
      BY <2>1, SubscribeInv
  <1>3. ASSUME NEW e \in Emits, Progress(e) PROVE EventInv'
    BY <1>3, CallInv, ForwardInv, ReturnInv, FailInv, FinishInv, SettleOneInv DEF Progress
  <1>4. ASSUME NEW m \in Managers, NEW t \in Events,
               EmitAsync(m, t) \/ EmitAll(m, t) \/ Emit(m, t)
        PROVE  EventInv'
    BY <1>4, EmitAsyncInv, EmitAllInv, EmitInv
  <1>5. CASE UNCHANGED vars
    BY <1>5 DEF vars, EventInv, SubsSound, EmitsSound, KidsOk
  <1> QED
    BY <1>1, <1>2, <1>3, <1>4, <1>5, CancelInv, ExtendInv DEF Next

THEOREM EventInvAlways == Spec => []EventInv
  <1>1. Init => EventInv
    BY InitInv, EventManagerAssumption
  <1>2. EventInv /\ [Next]_vars => EventInv'
    BY NextInv, EventManagerAssumption
  <1> QED
    BY <1>1, <1>2, PTL DEF Spec

-----------------------------------------------------------------------------
(* What follows from it. *)

(* Whatever is registered, emitted, cancelled or extended, the state stays  *)
(* well formed and an emission that waits for a listener has one.           *)
THEOREM TypeAlways == Spec => []TypeOK
  <1>1. EventInv => TypeOK
    <2> SUFFICES ASSUME EventInv PROVE TypeOK
      OBVIOUS
    <2>1. /\ arrays \in [Managers -> Arrays] /\ SubsSound /\ emits \in [Emits -> Emission]
          /\ \A e \in Emits : Shaped(emits[e])
      BY DEF EventInv, EmitsSound
    <2>2. ASSUME NEW m \in Managers
          PROVE  /\ DOMAIN arrays[m] \subseteq Keys
                 /\ \A t \in DOMAIN arrays[m] : arrays[m][t] \in Seq(Listeners)
      <3> DEFINE ar == arrays[m]
      <3>1. ar \in Arrays
        BY <2>1
      <3> HIDE DEF ar
      <3>2. DOMAIN ar \subseteq Keys /\ \A t \in DOMAIN ar : ar[t] \in Seq(Listeners)
        BY <3>1, ArraysAre
      <3> QED
        BY <3>2 DEF ar
    <2>3. \A s \in Subs : subs[s].status \in {"unused", "active", "cancelled"}
      BY <2>1 DEF SubsSound, Sub
    <2>4. ASSUME NEW e \in Emits
          PROVE  /\ emits[e].status \in Statuses
                 /\ emits[e].todo \in Seq(Listeners) /\ emits[e].got \in Seq(Listeners)
                 /\ emits[e].status = "calling" => emits[e].todo # <<>>
      BY <2>1 DEF Emission, Shaped
    <2> QED
      BY <2>1, <2>2, <2>3, <2>4 DEF TypeOK, Statuses
  <1> QED
    BY <1>1, EventInvAlways, PTL

(* An emission calls a listener at most once, however often and for         *)
(* whichever events it is registered (getListeners).                        *)
THEOREM AtMostOnceAlways == Spec => []AtMostOnce
  <1>1. EventInv => AtMostOnce
    BY DEF EventInv, EmitsSound, Shaped, Once, AtMostOnce
  <1> QED
    BY <1>1, EventInvAlways, PTL

(* An emission that forwards goes on only when what it forwarded is over,   *)
(* and succeeds only if all of it did, along any chain or cycle of managers.*)
THEOREM ForwardAwaitedAlways == Spec => []ForwardAwaited
  <1>1. EventInv => ForwardAwaited
    <2> SUFFICES ASSUME EventInv, NEW e \in Emits, NEW f \in ToSet(emits[e].kids)
                 PROVE  /\ emits[f].status \notin Over => emits[e].status = "calling"
                        /\ emits[e].status = "done" => emits[f].status = "done"
      BY DEF ForwardAwaited
    <2> DEFINE x == emits[e]
               kk == x.kids
    <2>1. x \in Emission /\ KidsOk(emits, x) /\ x.status \in Statuses
      BY DEF EventInv, EmitsSound, Emission
    <2> HIDE DEF x
    <2>2. kk \in Seq(Emits)
      BY <2>1, EmissionIs
    <2> HIDE DEF kk
    <2>3. ToSet(kk) = {kk[k] : k \in 1..Len(kk)} /\ Len(kk) \in Nat
      BY <2>2, ToSetIs
    <2>4. PICK k \in 1..Len(kk) : f = kk[k]
      BY <2>3 DEF kk, x
    <2>5. Len(kk) # 0
      BY <2>3, <2>4
    <2> QED
      BY <2>1, <2>4, <2>5 DEF KidsOk, Statuses, Over, kk, x
  <1> QED
    BY <1>1, EventInvAlways, PTL

(* As long as no array of its manager holds a listener twice, the function  *)
(* on returned takes its listener off the arrays of its events and nothing  *)
(* else off any array, whatever happened in between.                        *)
THEOREM CancelExactAlways == Spec => CancelExact
  <1> DEFINE Exact(s) ==
               (Cancel(s) /\ \A t \in Keys : IsInjective(ArrayIn(arrays[subs[s].on], t))) =>
                  \A t \in Keys :
                      ToSet(ArrayIn(arrays'[subs[s].on], t)) =
                          ToSet(ArrayIn(arrays[subs[s].on], t))
                              \ (IF t \in ToSet(subs[s].events)
                                 THEN {subs[s].listener} ELSE {})
  <1>1. ASSUME EventInv, NEW s \in Subs PROVE Exact(s)
    <2> SUFFICES ASSUME Cancel(s),
                        \A t \in Keys : IsInjective(ArrayIn(arrays[subs[s].on], t)),
                        NEW k \in Keys
                 PROVE  ToSet(ArrayIn(arrays'[subs[s].on], k)) =
                          ToSet(ArrayIn(arrays[subs[s].on], k))
                              \ (IF k \in ToSet(subs[s].events)
                                 THEN {subs[s].listener} ELSE {})
      OBVIOUS
    <2> DEFINE m == subs[s].on
               ts == subs[s].events
               l == subs[s].listener
               ar == arrays[m]
               p == Spliced(ar, ts, l)
    <2>1. arrays \in [Managers -> Arrays] /\ m \in Managers /\ ts \in Seq(Keys) /\ l \in Listeners
      BY <1>1 DEF EventInv, Cancel, SubsSound, Sub
    <2>2. ar \in Arrays /\ arrays'[m] = p /\ \A t \in Keys : IsInjective(ArrayIn(ar, t))
      BY <2>1 DEF Cancel
    <2> HIDE DEF ar, ts, l
    <2>3. ASSUME NEW t \in Keys PROVE Once(ArrayIn(ar, t))
      <3> DEFINE a == ArrayIn(ar, t)
      <3>1. a \in Seq(Listeners) /\ IsInjective(a)
        BY <2>2, ArraysAre
      <3> HIDE DEF a
      <3>2. DOMAIN a = 1..Len(a)
        BY <3>1, LenProperties
      <3>3. Once(a)
        BY <3>1, <3>2 DEF IsInjective, Once
      <3> QED
        BY <3>3 DEF a
    <2>4. ToSet(ArrayIn(p, k)) = ToSet(ArrayIn(ar, k)) \ (IF k \in ToSet(ts) THEN {l} ELSE {})
      BY <2>1, <2>2, <2>3, SplicedIs
    <2> HIDE DEF p, m
    <2> QED
      BY <2>2, <2>4 DEF ar, ts, l, m
  <1>2. EventInv => [\A s \in Subs : Exact(s)]_vars
    <2> HIDE DEF Exact
    <2> QED
      BY <1>1
  <1>3. [][\A s \in Subs : Exact(s)]_vars => CancelExact
    BY DEF CancelExact
  <1> HIDE DEF Exact
  <1> QED
    BY <1>2, <1>3, EventInvAlways, PTL

(* A manager that extends another delivers, for every event, what either of *)
(* them delivered, however deep either is in a hierarchy.                   *)
THEOREM ExtendDeliversAlways == Spec => ExtendDelivers
  <1> DEFINE Delivers(m, d) ==
               (Extend(m, d) /\ m # d) =>
                 \A t \in DOMAIN arrays[m] \cup DOMAIN arrays[d] :
                    ToSet(GetListeners(arrays'[m], t)) =
                       ToSet(GetListeners(arrays[m], t)) \cup ToSet(GetListeners(arrays[d], t))
  <1>1. ASSUME EventInv, NEW m \in Managers, NEW d \in Managers PROVE Delivers(m, d)
    <2> SUFFICES ASSUME Extend(m, d), NEW t
                 PROVE  ToSet(GetListeners(arrays'[m], t)) =
                          ToSet(GetListeners(arrays[m], t)) \cup ToSet(GetListeners(arrays[d], t))
      OBVIOUS
    <2> DEFINE ar == arrays[m]
               dr == arrays[d]
               p == Extended(ar, dr)
    <2>1. ar \in Arrays /\ dr \in Arrays /\ arrays'[m] = p
      BY <1>1 DEF EventInv, Extend
    <2> HIDE DEF ar, dr
    <2>2. ToSet(GetListeners(p, t)) = ToSet(GetListeners(ar, t)) \cup ToSet(GetListeners(dr, t))
      BY <2>1, ExtendedIs
    <2> HIDE DEF p
    <2> QED
      BY <2>1, <2>2 DEF ar, dr
  <1>2. EventInv => [\A m, d \in Managers : Delivers(m, d)]_vars
    <2> HIDE DEF Delivers
    <2> QED
      BY <1>1
  <1>3. [][\A m, d \in Managers : Delivers(m, d)]_vars => ExtendDelivers
    BY DEF ExtendDelivers
  <1> HIDE DEF Delivers
  <1> QED
    BY <1>2, <1>3, EventInvAlways, PTL
=============================================================================
