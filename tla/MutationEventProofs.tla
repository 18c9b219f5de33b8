-------------------------- MODULE MutationEventProofs -------------------------
(* What is proved of MutationEvent, for any keys, number of entries and     *)
(* number of steps: the index of an event agrees with its entries, a key    *)
(* sticks, and the service writes and returns what subscribers left.        *)
EXTENDS MutationEvent, RecursionLemmas, SequenceTheorems, TLAPS

-----------------------------------------------------------------------------
(* Entries and their keys. *)

LEMMA FirstKeyIs ==
    ASSUME NEW a \in AllIds, NEW b \in AllIds, NEW c \in AllIds, NEW d \in AllIds,
           NEW e \in AllIds
    PROVE  /\ FirstKey(<<a, b, c, d, e>>) \in AllIds
           /\ a # NoKey => FirstKey(<<a, b, c, d, e>>) = a
  <1> DEFINE ks == <<a, b, c, d, e>>
             known == {i \in 1..5 : ks[i] # NoKey}
  <1>1. Len(ks) = 5 /\ (\A i \in 1..5 : ks[i] \in AllIds) /\ ks[1] = a
    OBVIOUS
  <1> HIDE DEF ks
  <1>2. FirstKey(ks) = IF known = {} THEN NoKey ELSE ks[Min(known)]
    BY <1>1 DEF FirstKey
  <1>3. NoKey \in AllIds
    BY DEF AllIds, Ids
  <1>4. ASSUME known # {} PROVE Min(known) \in known /\ \A i \in known : Min(known) <= i
    <2>1. known \subseteq 1..5
      OBVIOUS
    <2> HIDE DEF known
    <2>2. \E x \in known : \A y \in known : x <= y
      BY <1>4, <2>1, Least
    <2> QED
      BY <2>2 DEF Min
  <1>5. FirstKey(ks) \in AllIds
    BY <1>1, <1>2, <1>3, <1>4
  <1>6. ASSUME a # NoKey PROVE FirstKey(ks) = a
    <2>1. 1 \in known
      BY <1>1, <1>6
    <2>2. Min(known) \in known /\ Min(known) <= 1
      BY <1>4, <2>1
    <2>3. Min(known) = 1
      BY <2>2
    <2> HIDE DEF known
    <2> QED
      BY <1>1, <1>2, <2>1, <2>3
  <1> QED
    BY <1>5, <1>6 DEF ks

LEMMA KeyOfIs ==
    ASSUME NEW x \in Entry
    PROVE  KeyOf(x) \in AllIds /\ (x.key # NoKey => KeyOf(x) = x.key)
  <1>1. /\ x.key \in AllIds /\ x.result.id \in AllIds /\ x.existing.id \in AllIds
        /\ x.lookup.id \in AllIds /\ x.input.id \in AllIds
    BY DEF Entry, Document
  <1> QED
    BY <1>1, FirstKeyIs DEF KeyOf

LEMMA FilledIs ==
    ASSUME NEW h \in Seq(Entry), NEW d
    PROVE  /\ Filled(h, d) \in Seq(Entry) /\ Len(Filled(h, d)) = Len(h)
           /\ \A i \in 1..Len(h) :
                /\ Filled(h, d)[i].existing = h[i].existing
                /\ Filled(h, d)[i].input = h[i].input
                /\ Filled(h, d)[i].result = h[i].result
                /\ h[i].key # NoKey => Filled(h, d)[i].key = h[i].key
  <1> DEFINE n == Len(h)
             R == Range(d)
             new(i) == IF i \in R THEN [h[i] EXCEPT !.key = KeyOf(h[i])] ELSE h[i]
             f == [i \in 1..n |-> new(i)]
  <1>1. n \in Nat /\ DOMAIN h = 1..n /\ \A i \in 1..n : h[i] \in Entry
    BY LenProperties, ElementOfSeq
  <1>2. Filled(h, d) = f
    BY <1>1 DEF Filled
  <1>3. ASSUME NEW i \in 1..n
        PROVE  /\ new(i) \in Entry /\ new(i).existing = h[i].existing
               /\ new(i).input = h[i].input /\ new(i).result = h[i].result
               /\ h[i].key # NoKey => new(i).key = h[i].key
    <2> DEFINE x == h[i]
               k == KeyOf(x)
    <2>1. x \in Entry
      BY <1>1
    <2> HIDE DEF x
    <2>2. k \in AllIds /\ (x.key # NoKey => k = x.key)
      BY <2>1, KeyOfIs
    <2> HIDE DEF k, R
    <2>3. LET y == [x EXCEPT !.key = k]
          IN  /\ y \in Entry /\ y.existing = x.existing /\ y.input = x.input
              /\ y.result = x.result /\ y.key = k
      BY <2>1, <2>2 DEF Entry
    <2>4. new(i) = IF i \in R THEN [x EXCEPT !.key = k] ELSE x
      BY DEF x, k
    <2> HIDE DEF new
    <2>5. /\ new(i) \in Entry /\ new(i).existing = x.existing
          /\ new(i).input = x.input /\ new(i).result = x.result
          /\ x.key # NoKey => new(i).key = x.key
      BY <2>1, <2>2, <2>3, <2>4
    <2> QED
      BY <2>5 DEF x
  <1> HIDE DEF new
  <1>4. f \in Seq(Entry) /\ Len(f) = n /\ \A i \in 1..n : f[i] = new(i)
    <2> HIDE DEF n
    <2>1. f \in [1..n -> Entry] /\ \A i \in 1..n : f[i] = new(i)
      BY <1>3 DEF n
    <2> HIDE DEF f
    <2> QED
      BY <1>1, <2>1, SeqDef, LenProperties
  <1> HIDE DEF f
  <1> QED
    BY <1>1, <1>2, <1>3, <1>4 DEF n

-----------------------------------------------------------------------------
(* The entries of an event. *)

Kept(p, h, before, i) == IF Carried(p, h[i]) THEN Append(before, i) ELSE before

LEMMA GroupRuns ==
    ASSUME NEW p, NEW h \in Seq(Entry)
    PROVE  \E f \in [0..Len(h) -> Seq(Nat)] :
             /\ f[0] = <<>> /\ Group(p, h) = f[Len(h)]
             /\ \A i \in 1..Len(h) : f[i] = Kept(p, h, f[i - 1], i)
  <1> DEFINE n == Len(h)
             eq(g) == g = [i \in 0..n |-> IF i = 0 THEN <<>> ELSE Kept(p, h, g[i - 1], i)]
             c == CHOOSE g : eq(g)
             good(g) == g[0] = <<>> /\ \A i \in 1..n : g[i] = Kept(p, h, g[i - 1], i)
  <1>1. n \in Nat
    BY LenProperties
  <1>2. Group(p, h) = c[n]
    BY DEF Group, Kept
  <1>3. PICK f \in [0..n -> Seq(Nat)] : good(f)
    <2> DEFINE step == [i \in 1..n |-> [b \in Seq(Nat) |-> Kept(p, h, b, i)]]
    <2>1. \A i \in 1..n : \A b \in Seq(Nat) : Kept(p, h, b, i) \in Seq(Nat)
      BY <1>1, AppendProperties DEF Kept
    <2> HIDE DEF n
    <2>2. step \in [1..n -> [Seq(Nat) -> Seq(Nat)]] /\ <<>> \in Seq(Nat)
      BY <2>1
    <2>3. \A i \in 1..n : \A b \in Seq(Nat) : step[i][b] = Kept(p, h, b, i)
      OBVIOUS
    <2> HIDE DEF step
    <2> DEFINE X == Seq(Nat)
               x0 == <<>>
    <2>4. PICK f \in [0..n -> X] : Runs(f, n, x0, step)
      <3>1. step \in [1..n -> [X -> X]] /\ x0 \in X /\ n \in Nat
        BY <1>1, <2>2
      <3> HIDE DEF X, x0
      <3> QED
        BY <3>1, Recursion
    <2>5. \A i \in 1..n : f[i - 1] \in Seq(Nat)
      BY <1>1, <2>4
    <2>6. good(f)
      BY <2>3, <2>4, <2>5 DEF Runs
    <2> HIDE DEF good
    <2> QED
      BY <2>4, <2>6
  <1> HIDE DEF n
  <1>4. eq(f)
    BY <1>1, <1>3
  <1>5. eq(c)
    <2> HIDE DEF eq
    <2> QED
      BY <1>4, Zenon
  <1> HIDE DEF c
  <1>6. good(c)
    BY <1>1, <1>5
  <1>7. c = f
    <2> DEFINE S == {i \in 0..n : c[i] = f[i]}
    <2>1. 0 \in S
      BY <1>1, <1>3, <1>6
    <2>2. \A i \in 1..n : i - 1 \in S => i \in S
      BY <1>1, <1>3, <1>6
    <2> HIDE DEF S
    <2>3. 0..n \subseteq S
      BY <1>1, <2>1, <2>2, UpTo
    <2> USE DEF S
    <2> QED
      BY <1>3, <1>5, <2>3
  <1> QED
    BY <1>2, <1>3, <1>7 DEF n

(* They are the places of the entries it carries. *)
LEMMA GroupIs ==
    ASSUME NEW p, NEW h \in Seq(Entry)
    PROVE  /\ Group(p, h) \in Seq(Nat)
           /\ ToSet(Group(p, h)) = {i \in 1..Len(h) : Carried(p, h[i])}
  <1> DEFINE n == Len(h)
             Heads(i) == {j \in 1..i : Carried(p, h[j])}
  <1>1. n \in Nat
    BY LenProperties
  <1>2. PICK f \in [0..n -> Seq(Nat)] : /\ f[0] = <<>> /\ Group(p, h) = f[n]
                                        /\ \A i \in 1..n : f[i] = Kept(p, h, f[i - 1], i)
    BY GroupRuns
  <1> HIDE DEF n
  <1> DEFINE S == {i \in 0..n : ToSet(f[i]) = Heads(i)}
  <1>3. 0 \in S
    <2>1. ToSet(f[0]) = {}
      BY <1>2 DEF ToSet
    <2>2. Heads(0) = {}
      OBVIOUS
    <2> QED
      BY <1>1, <2>1, <2>2
  <1>4. ASSUME NEW i \in 1..n, i - 1 \in S PROVE i \in S
    <2> DEFINE b == f[i - 1]
               a == Append(b, i)
    <2>1. b \in Seq(Nat) /\ ToSet(b) = Heads(i - 1) /\ i \in Nat
          /\ f[i] = IF Carried(p, h[i]) THEN a ELSE b
      BY <1>1, <1>2, <1>4 DEF Kept
    <2> HIDE DEF b, Heads
    <2>2. ToSet(a) = ToSet(b) \cup {i}
      <3>1. /\ a \in Seq(Nat) /\ Len(a) = Len(b) + 1 /\ a[Len(b) + 1] = i /\ Len(b) \in Nat
            /\ \A k \in 1..Len(b) : a[k] = b[k]
        BY <2>1, AppendProperties, LenProperties
      <3> HIDE DEF a
      <3>2. ToSet(a) = {a[k] : k \in 1..Len(a)} /\ ToSet(b) = {b[k] : k \in 1..Len(b)}
        <4>1. a \in Seq(Nat) /\ b \in Seq(Nat)
          BY <2>1, <3>1
        <4> HIDE DEF b
        <4> QED
          BY <4>1, ToSetIs
      <3>3. \A k \in 1..Len(a) : k \in 1..Len(b) \/ k = Len(b) + 1
        BY <3>1
      <3>4. Len(b) + 1 \in 1..Len(a) /\ \A k \in 1..Len(b) : k \in 1..Len(a)
        BY <3>1
      <3> QED
        BY <3>1, <3>2, <3>3, <3>4
    <2>3. Heads(i) = Heads(i - 1) \cup (IF Carried(p, h[i]) THEN {i} ELSE {})
      <3> USE DEF Heads
      <3>1. \A j \in 1..i : j \in 1..(i - 1) \/ j = i
        BY <1>1
      <3>2. i \in 1..i /\ \A j \in 1..(i - 1) : j \in 1..i
        BY <1>1
      <3> QED
        BY <3>1, <3>2
    <2> HIDE DEF Heads, a
    <2>4. ToSet(f[i]) = Heads(i)
      BY <2>1, <2>2, <2>3
    <2> QED
      BY <1>1, <2>4
  <1>5. n \in S
    <2> HIDE DEF S
    <2>1. 0..n \subseteq S
      BY <1>1, <1>3, <1>4, UpTo
    <2> QED
      BY <1>1, <2>1
  <1> QED
    BY <1>1, <1>2, <1>5 DEF n

Phases == {"start", "failed"} \cup {Order[i] : i \in 1..6}

(* The phases that may come next. *)
Later(p) == CASE p = "start"        -> {"beforeCreate", "beforeUpdate", "write"}
              [] p = "beforeCreate" -> {"beforeUpdate", "write"}
              [] p = "beforeUpdate" -> {"write"}
              [] p = "write"        -> {"afterCreate", "afterUpdate", "returned"}
              [] p = "afterCreate"  -> {"afterUpdate", "returned"}
              [] OTHER              -> {"returned"}

LEMMA ProceedIs ==
    ASSUME NEW p \in {"start", "write"} \cup Befores \cup Afters, NEW h \in Seq(Entry),
           Proceed(p, h)
    PROVE  /\ phase' \in Later(p)
           /\ phase' \in Befores \cup Afters => data' # <<>>
           /\ data' \in Seq(Nat)
           /\ ToSet(data') = {i \in 1..Len(h) : Carried(phase', h[i])}
           /\ heap' = Filled(h, data')
           /\ index' = NoIndex /\ assigned' = FALSE /\ regrouped' = FALSE
  <1> DEFINE place == IF p = "start" THEN 0 ELSE CHOOSE x \in 1..6 : Order[x] = p
             Waits(q) == Order[q] \in {"write", "returned"} \/ Group(Order[q], h) # <<>>
             after == {q \in 1..Len(Order) : q > place}
             cand == {q \in after : Waits(q)}
             m == Min(cand)
             next == Order[m]
  <1>1. phase' = next /\ regrouped' = FALSE /\ FillKeys(h, Group(next, h))
    BY DEF Proceed
  <1>2. /\ Len(Order) = 6 /\ Order[1] = "beforeCreate" /\ Order[2] = "beforeUpdate"
        /\ Order[3] = "write" /\ Order[4] = "afterCreate" /\ Order[5] = "afterUpdate"
        /\ Order[6] = "returned"
    BY DEF Order
  <1>3. /\ p = "start" => place = 0
        /\ p = "beforeCreate" => place = 1
        /\ p = "beforeUpdate" => place = 2
        /\ p = "write" => place = 3
        /\ p = "afterCreate" => place = 4
        /\ p = "afterUpdate" => place = 5
    <2>1. \A x \in 1..6 : x = 1 \/ x = 2 \/ x = 3 \/ x = 4 \/ x = 5 \/ x = 6
      OBVIOUS
    <2>2. \A x, y \in 1..6 : Order[x] = Order[y] => x = y
      BY <1>2, <2>1
    <2>3. ASSUME NEW y \in 1..6, p = Order[y], p # "start" PROVE place = y
      BY <2>2, <2>3
    <2> QED
      BY <1>2, <2>3
  <1> HIDE DEF place
  <1>4. p \in {"start", "beforeCreate", "beforeUpdate", "write", "afterCreate", "afterUpdate"}
    BY DEF Befores, Afters
  <1>5. /\ cand \subseteq 1..6 /\ (\A q \in cand : q > place /\ Waits(q))
        /\ 6 \in cand /\ (place < 3 => 3 \in cand)
    BY <1>2, <1>3, <1>4
  <1>6. m \in cand /\ \A q \in cand : m <= q
    <2> HIDE DEF cand
    <2>1. \E x \in cand : \A y \in cand : x <= y
      BY <1>5, Least
    <2> QED
      BY <2>1 DEF Min
  <1> HIDE DEF cand, m
  <1>7. m \in 1..6 /\ m > place /\ Waits(m) /\ (place < 3 => m <= 3)
    BY <1>5, <1>6
  <1>8. next \in Later(p)
    <2>1. CASE p = "start"
      <3>1. m = 1 \/ m = 2 \/ m = 3
        BY <1>3, <1>7, <2>1
      <3> QED
        BY <1>2, <2>1, <3>1 DEF Later
    <2>2. CASE p = "beforeCreate"
      <3>1. m = 2 \/ m = 3
        BY <1>3, <1>7, <2>2
      <3> QED
        BY <1>2, <2>2, <3>1 DEF Later
    <2>3. CASE p = "beforeUpdate"
      <3>1. m = 3
        BY <1>3, <1>7, <2>3
      <3> QED
        BY <1>2, <2>3, <3>1 DEF Later
    <2>4. CASE p = "write"
      <3>1. m = 4 \/ m = 5 \/ m = 6
        BY <1>3, <1>7, <2>4
      <3> QED
        BY <1>2, <2>4, <3>1 DEF Later
    <2>5. CASE p = "afterCreate"
      <3>1. m = 5 \/ m = 6
        BY <1>3, <1>7, <2>5
      <3> QED
        BY <1>2, <2>5, <3>1 DEF Later
    <2>6. CASE p = "afterUpdate"
      <3>1. m = 6
        BY <1>3, <1>7, <2>6
      <3> QED
        BY <1>2, <2>6, <3>1 DEF Later
    <2> QED
      BY <1>4, <2>1, <2>2, <2>3, <2>4, <2>5, <2>6
  <1>9. next \in Befores \cup Afters => Group(next, h) # <<>>
    BY <1>7 DEF Befores, Afters
  <1>10. /\ Group(next, h) \in Seq(Nat)
         /\ ToSet(Group(next, h)) = {i \in 1..Len(h) : Carried(next, h[i])}
    BY GroupIs
  <1>11. /\ heap' = Filled(h, Group(next, h)) /\ data' = Group(next, h)
         /\ index' = NoIndex /\ assigned' = FALSE
    BY <1>1 DEF FillKeys
  <1> HIDE DEF next
  <1> QED
    BY <1>1, <1>8, <1>9, <1>10, <1>11

-----------------------------------------------------------------------------
(* What the subscribers may do. *)

Types ==
    /\ phase \in Phases
    /\ heap \in Seq(Entry) /\ basis \in Seq(Document) /\ told \in Seq(Document)
    /\ data \in Seq(Nat) /\ ToSet(data) \subseteq 1..Len(heap)
    /\ Len(basis) <= Len(heap) /\ Len(basis) <= MaxEntries /\ Len(told) = Len(basis)
    /\ phase = "start" => Len(heap) = 0
    /\ single => Len(basis) = 1

KeysKept ==
    \A i \in (1..Len(heap)) \cap (1..Len(heap')) :
        heap[i].key # NoKey => heap'[i].key = heap[i].key

(* They add entries, leave entries out, and change those of the event.      *)
Heeded ==
    /\ phase \in Befores \cup Afters
    /\ UNCHANGED <<single, phase, basis, written, told>>
    /\ heap' \in Seq(Entry) /\ Len(heap') >= Len(heap)
    /\ data' \in Seq(Nat) /\ ToSet(data') \subseteq 1..Len(heap')
    /\ \A i \in ToSet(data') : i \in ToSet(data) \/ i > Len(heap)
    /\ \A i \in 1..Len(heap) :
         /\ heap'[i].existing = heap[i].existing
         /\ i \notin ToSet(data) => /\ heap'[i].input = heap[i].input
                                    /\ heap'[i].result = heap[i].result
    /\ regrouped' \/ (regrouped' = regrouped /\ ToSet(data') = ToSet(data))

LEMMA DocumentsAre ==
    /\ Nothing \in Document
    /\ \A k \in AllIds : Own(k) \in Document /\ Theirs(k) \in Document
    /\ Ids \subseteq AllIds /\ Keys \subseteq Ids /\ NoKey \in Ids
    /\ \A l, x, i \in Document : EntryOf(l, x, i) \in Entry
    /\ \A l, x, i \in Document : /\ EntryOf(l, x, i).existing = x
                                 /\ EntryOf(l, x, i).input = i
  <1>1. NoKey \in AllIds /\ Nothing \in Document
    BY DEF AllIds, Ids, Document, Nothing
  <1> QED
    BY <1>1 DEF AllIds, Ids, Document, Own, Theirs, EntryOf, Entry

LEMMA HeapIs ==
    ASSUME Types
    PROVE  /\ Len(heap) \in Nat /\ Len(basis) \in Nat /\ Len(told) \in Nat /\ Len(data) \in Nat
           /\ DOMAIN heap = 1..Len(heap)
           /\ \A i \in 1..Len(heap) : heap[i] \in Entry
           /\ \A j \in 1..Len(data) : data[j] \in 1..Len(heap) /\ data[j] \in ToSet(data)
           /\ ToSet(data) = {data[j] : j \in 1..Len(data)} /\ DOMAIN data = 1..Len(data)
  <1>1. heap \in Seq(Entry) /\ basis \in Seq(Document) /\ told \in Seq(Document)
        /\ data \in Seq(Nat) /\ ToSet(data) \subseteq 1..Len(heap)
    BY DEF Types
  <1>2. /\ Len(heap) \in Nat /\ Len(basis) \in Nat /\ Len(told) \in Nat /\ Len(data) \in Nat
        /\ DOMAIN heap = 1..Len(heap) /\ DOMAIN data = 1..Len(data)
    BY <1>1, LenProperties
  <1>3. \A i \in 1..Len(heap) : heap[i] \in Entry
    BY <1>1, ElementOfSeq
  <1>4. ToSet(data) = {data[j] : j \in 1..Len(data)}
    BY <1>2 DEF ToSet
  <1> QED
    BY <1>1, <1>2, <1>3, <1>4

(* One entry is changed in one field. *)
LEMMA OneEntry ==
    ASSUME NEW h \in Seq(Entry), NEW i \in 1..Len(h), NEW x \in Entry, NEW g,
           g = [h EXCEPT ![i] = x]
    PROVE  /\ g \in Seq(Entry) /\ Len(g) = Len(h) /\ g[i] = x
           /\ \A o \in 1..Len(h) : o # i => g[o] = h[o]
  <1>1. g \in Seq(Entry) /\ Len(g) = Len(h)
    BY ExceptSeq
  <1>2. DOMAIN h = 1..Len(h)
    BY LenProperties
  <1> QED
    BY <1>1, <1>2

LEMMA QuestionsAre ==
    ASSUME Types, Ask \/ Reindex
    PROVE  Heeded /\ KeysKept /\ (IndexAgrees => IndexAgrees')
  <1>1. heap' = heap /\ data' = data /\ regrouped' = regrouped /\ Subscriber
    BY DEF Ask, Reindex
  <1>2. Heeded /\ KeysKept
    BY <1>1, HeapIs DEF Subscriber, Heeded, KeysKept, Types
  <1>3. IndexAgrees => IndexAgrees'
    <2>1. CASE Ask
      <3>1. assigned' = assigned /\ index' = IF index = NoIndex THEN Indexed(heap, data) ELSE index
        BY <2>1 DEF Ask
      <3> QED
        BY <1>1, <3>1 DEF IndexAgrees
    <2>2. CASE Reindex
      BY <2>2 DEF Reindex, IndexAgrees
    <2> QED
      BY <2>1, <2>2
  <1> QED
    BY <1>2, <1>3

(* The index depends on the keys alone. *)
LEMMA SameIndex ==
    ASSUME Types, NEW g, \A i \in 1..Len(heap) : KeyOf(g[i]) = KeyOf(heap[i])
    PROVE  Indexed(g, data) = Indexed(heap, data)
  <1>1. \A j \in 1..Len(data) : KeyOf(g[data[j]]) = KeyOf(heap[data[j]])
    BY HeapIs
  <1>2. ASSUME NEW k
        PROVE  {j \in 1..Len(data) : KeyOf(g[data[j]]) = k}
                  = {j \in 1..Len(data) : KeyOf(heap[data[j]]) = k}
    BY <1>1
  <1>3. {KeyOf(g[data[j]]) : j \in 1..Len(data)} = {KeyOf(heap[data[j]]) : j \in 1..Len(data)}
    BY <1>1
  <1> QED
    BY <1>2, <1>3 DEF Indexed, FirstOf

LEMMA AssignKeyIs ==
    ASSUME MutationEventAssumption, Types, NEW j \in 1..Len(data), NEW k \in Keys, AssignKey(j, k)
    PROVE  Heeded /\ IndexAgrees'
  <1> DEFINE i == data[j]
             x == [heap[i] EXCEPT !.key = k]
  <1>1. /\ heap \in Seq(Entry) /\ i \in 1..Len(heap) /\ i \in ToSet(data) /\ heap[i] \in Entry
        /\ k \in AllIds /\ Len(heap) \in Nat
    BY HeapIs, DocumentsAre DEF Types
  <1>2. /\ heap' = [heap EXCEPT ![i] = x] /\ assigned' = TRUE /\ Subscriber
        /\ data' = data /\ regrouped' = regrouped
    BY DEF AssignKey
  <1>3. x \in Entry /\ x.existing = heap[i].existing
    BY <1>1 DEF Entry
  <1> HIDE DEF i, x
  <1>4. /\ heap' \in Seq(Entry) /\ Len(heap') = Len(heap) /\ heap'[i] = x
        /\ \A o \in 1..Len(heap) : o # i => heap'[o] = heap[o]
    BY <1>1, <1>2, <1>3, OneEntry
  <1>5. IndexAgrees'
    BY <1>2 DEF IndexAgrees
  <1>6. Heeded
    BY <1>1, <1>2, <1>3, <1>4 DEF Heeded, Subscriber, Types
  <1> QED
    BY <1>5, <1>6

LEMMA ReplaceIs ==
    ASSUME Types, NEW j \in 1..Len(data), NEW k \in Ids, Replace(j, k)
    PROVE  Heeded /\ KeysKept /\ (IndexAgrees => IndexAgrees')
  <1> DEFINE i == data[j]
             e == heap[i]
             doc == Theirs(k)
             x == IF phase \in Befores THEN [e EXCEPT !.input = doc] ELSE [e EXCEPT !.result = doc]
  <1>1. /\ heap \in Seq(Entry) /\ i \in 1..Len(heap) /\ i \in ToSet(data) /\ e \in Entry
        /\ doc \in Document /\ Len(heap) \in Nat
    BY HeapIs, DocumentsAre DEF Types
  <1>2. /\ heap' = [heap EXCEPT ![i] = x] /\ Subscriber
        /\ data' = data /\ index' = index /\ regrouped' = regrouped
        /\ assigned' = (assigned \/ e.key = NoKey)
    BY DEF Replace
  <1> HIDE DEF doc, e
  <1>3. x \in Entry /\ x.existing = e.existing /\ x.key = e.key
    BY <1>1 DEF Entry
  <1> HIDE DEF i, x
  <1>4. /\ heap' \in Seq(Entry) /\ Len(heap') = Len(heap) /\ heap'[i] = x
        /\ \A o \in 1..Len(heap) : o # i => heap'[o] = heap[o]
    BY <1>1, <1>2, <1>3, OneEntry
  <1>5. Heeded
    BY <1>1, <1>2, <1>3, <1>4 DEF Heeded, Subscriber, Types, e
  <1>6. KeysKept
    BY <1>1, <1>3, <1>4 DEF KeysKept, e
  <1>7. ASSUME IndexAgrees, index' # NoIndex, ~assigned' PROVE index' = Indexed(heap', data')
    <2>1. ~assigned /\ e.key # NoKey
      BY <1>2, <1>7
    <2>2. KeyOf(x) = KeyOf(e)
      BY <1>1, <1>3, <2>1, KeyOfIs
    <2> DEFINE g == heap'
    <2>3. \A o \in 1..Len(heap) : KeyOf(g[o]) = KeyOf(heap[o])
      BY <1>4, <2>2 DEF e
    <2> HIDE DEF g
    <2>4. Indexed(g, data) = Indexed(heap, data)
      BY <2>3, SameIndex
    <2> QED
      BY <1>2, <1>7, <2>1, <2>4 DEF IndexAgrees, g
  <1> QED
    BY <1>5, <1>6, <1>7 DEF IndexAgrees

(* fillKeys ends every setter: what it needs of the heap it is given. *)
LEMMA FillingIs ==
    ASSUME Types, Subscriber, NEW h \in Seq(Entry), NEW d \in Seq(Nat), FillKeys(h, d),
           Len(h) >= Len(heap), ToSet(d) \subseteq 1..Len(h),
           \A i \in ToSet(d) : i \in ToSet(data) \/ i > Len(heap),
           \A i \in 1..Len(heap) :
             /\ h[i].existing = heap[i].existing /\ h[i].key = heap[i].key
             /\ i \notin ToSet(data) => /\ h[i].input = heap[i].input
                                        /\ h[i].result = heap[i].result,
           regrouped' \/ (regrouped' = regrouped /\ ToSet(d) = ToSet(data))
    PROVE  Heeded /\ KeysKept /\ IndexAgrees'
  <1> DEFINE f == Filled(h, d)
  <1>1. heap' = f /\ data' = d /\ index' = NoIndex
    BY DEF FillKeys
  <1>2. /\ f \in Seq(Entry) /\ Len(f) = Len(h)
        /\ \A i \in 1..Len(h) :
             /\ f[i].existing = h[i].existing /\ f[i].input = h[i].input
             /\ f[i].result = h[i].result /\ (h[i].key # NoKey => f[i].key = h[i].key)
    BY FilledIs
  <1> HIDE DEF f
  <1>3. Len(heap) \in Nat /\ Len(h) \in Nat /\ \A i \in 1..Len(heap) : i \in 1..Len(h)
    BY HeapIs, LenProperties
  <1>4. ASSUME NEW i \in 1..Len(heap)
        PROVE  /\ heap'[i].existing = heap[i].existing
               /\ i \notin ToSet(data) => /\ heap'[i].input = heap[i].input
                                          /\ heap'[i].result = heap[i].result
               /\ heap[i].key # NoKey => heap'[i].key = heap[i].key
    BY <1>1, <1>2, <1>3
  <1>5. Heeded
    BY <1>1, <1>2, <1>4 DEF Heeded, Subscriber
  <1>6. KeysKept
    BY <1>4 DEF KeysKept
  <1>7. IndexAgrees'
    BY <1>1 DEF IndexAgrees
  <1> QED
    BY <1>5, <1>6, <1>7

LEMMA AddIs ==
    ASSUME Types, NEW k \in Ids, Add(k)
    PROVE  Heeded /\ KeysKept /\ IndexAgrees'
  <1> DEFINE x == EntryOf(Nothing, Nothing, Theirs(k))
             n == Len(heap) + 1
             h == Append(heap, x)
             d == Append(data, n)
  <1>1. Subscriber /\ FillKeys(h, d) /\ regrouped'
    BY DEF Add
  <1>2. /\ heap \in Seq(Entry) /\ Len(heap) \in Nat /\ n \in Nat
        /\ data \in Seq(Nat) /\ Len(data) \in Nat
        /\ ToSet(data) = {data[j] : j \in 1..Len(data)} /\ ToSet(data) \subseteq 1..Len(heap)
    <2>1. /\ Len(heap) \in Nat /\ Len(data) \in Nat
          /\ ToSet(data) = {data[j] : j \in 1..Len(data)}
      BY HeapIs
    <2> QED
      BY <2>1 DEF Types
  <1>3. x \in Entry
    BY DocumentsAre
  <1> HIDE DEF x
  <1>4. h \in Seq(Entry) /\ Len(h) = n /\ \A i \in 1..Len(heap) : h[i] = heap[i]
    BY <1>2, <1>3, AppendProperties
  <1>5. /\ d \in Seq(Nat) /\ Len(d) = Len(data) + 1 /\ d[Len(data) + 1] = n
        /\ \A j \in 1..Len(data) : d[j] = data[j]
    BY <1>2, AppendProperties
  <1> HIDE DEF h, d
  <1>6. ToSet(d) = {d[j] : j \in 1..Len(d)}
    BY <1>5, ToSetIs
  <1>7. ASSUME NEW i \in ToSet(d) PROVE i \in ToSet(data) \/ i = n
    <2>1. PICK j \in 1..Len(d) : i = d[j]
      BY <1>6
    <2>2. j \in 1..Len(data) \/ j = Len(data) + 1
      BY <1>2, <1>5, <2>1
    <2> QED
      BY <1>2, <1>5, <2>1, <2>2
  <1>8. ToSet(d) \subseteq 1..Len(h) /\ \A i \in ToSet(d) : i \in ToSet(data) \/ i > Len(heap)
    <2> HIDE DEF n
    <2>1. ASSUME NEW i \in ToSet(d)
          PROVE  i \in 1..n /\ (i \in ToSet(data) \/ i > Len(heap))
      <3>1. CASE i \in ToSet(data)
        <4>1. i \in 1..Len(heap)
          BY <1>2, <3>1
        <4> QED
          BY <1>2, <3>1, <4>1 DEF n
      <3>2. CASE i = n
        BY <1>2, <3>2 DEF n
      <3> QED
        BY <1>7, <3>1, <3>2
    <2> QED
      BY <1>4, <2>1
  <1>9. Len(h) >= Len(heap)
    BY <1>2, <1>4
  <1> QED
    BY <1>1, <1>4, <1>5, <1>8, <1>9, FillingIs

(* Reversing or shortening the list of entries brings no other entry in. *)
LEMMA RegroupedIs ==
    ASSUME Types, data # <<>>, NEW d \in {Reverse(data), Tail(data)}
    PROVE  d \in Seq(Nat) /\ ToSet(d) \subseteq ToSet(data)
  <1> DEFINE s == data
             n == Len(s)
  <1>1. s \in Seq(Nat) /\ n \in Nat /\ s # <<>> /\ ToSet(s) = {s[j] : j \in 1..n}
        /\ \A j \in 1..n : s[j] \in Nat
    BY HeapIs, ElementOfSeq DEF Types
  <1>2. CASE d = Reverse(data)
    <2> DEFINE r == [i \in 1..n |-> s[(n - i) + 1]]
    <2>1. d = r
      BY <1>2 DEF Reverse
    <2> HIDE DEF s, n
    <2>2. \A i \in 1..n : (n - i) + 1 \in 1..n
      BY <1>1
    <2>3. r \in [1..n -> Nat] /\ \A i \in 1..n : r[i] \in ToSet(s)
      BY <1>1, <2>2
    <2> HIDE DEF r
    <2>4. r \in Seq(Nat) /\ Len(r) = n
      BY <1>1, <2>3, SeqDef, LenProperties
    <2>5. ToSet(r) = {r[i] : i \in 1..n}
      BY <2>4, ToSetIs
    <2>6. ToSet(r) \subseteq ToSet(s)
      BY <2>3, <2>5
    <2> QED
      BY <2>1, <2>4, <2>6 DEF s
  <1>3. CASE d = Tail(data)
    <2> DEFINE t == Tail(s)
    <2> HIDE DEF s, n
    <2>1. t \in Seq(Nat) /\ Len(t) = n - 1 /\ \A i \in 1..(n - 1) : t[i] = s[i + 1]
      BY <1>1, HeadTailProperties DEF n
    <2> HIDE DEF t
    <2>2. ToSet(t) = {t[i] : i \in 1..Len(t)}
      BY <2>1, ToSetIs
    <2>3. ASSUME NEW i \in 1..(n - 1) PROVE t[i] \in ToSet(s)
      <3>1. i + 1 \in 1..n
        BY <1>1
      <3> QED
        BY <1>1, <2>1, <3>1
    <2>4. ToSet(t) \subseteq ToSet(s)
      BY <2>1, <2>2, <2>3
    <2> QED
      BY <1>3, <2>1, <2>4 DEF t, s
  <1> QED
    BY <1>2, <1>3

LEMMA SetEntriesIs ==
    ASSUME Types, data # <<>>, NEW d \in {Reverse(data), Tail(data)}, SetEntries(d)
    PROVE  Heeded /\ KeysKept /\ IndexAgrees'
  <1>1. Subscriber /\ FillKeys(heap, d) /\ regrouped'
    BY DEF SetEntries
  <1>2. d \in Seq(Nat) /\ ToSet(d) \subseteq ToSet(data)
    BY RegroupedIs
  <1>3. /\ heap \in Seq(Entry) /\ ToSet(data) \subseteq 1..Len(heap) /\ Len(heap) \in Nat
    BY HeapIs DEF Types
  <1> QED
    BY <1>1, <1>2, <1>3, FillingIs

LEMMA SetResultsIs ==
    ASSUME Types, NEW rs \in [1..Len(data) -> Keys], SetResults(rs)
    PROVE  Heeded /\ KeysKept /\ IndexAgrees'
  <1> DEFINE at(i) == CHOOSE j \in 1..Len(data) : data[j] = i
             doc(i) == Theirs(rs[at(i)])
             x(i) == IF i \in Range(data) THEN [heap[i] EXCEPT !.result = doc(i)] ELSE heap[i]
             n == Len(heap)
             h == [i \in 1..n |-> x(i)]
  <1>1. /\ heap \in Seq(Entry) /\ n \in Nat /\ DOMAIN heap = 1..n
        /\ data \in Seq(Nat) /\ Range(data) = ToSet(data)
        /\ ToSet(data) = {data[j] : j \in 1..Len(data)} /\ ToSet(data) \subseteq 1..n
        /\ \A i \in 1..n : heap[i] \in Entry
    BY HeapIs DEF Types, Range
  <1>2. Subscriber /\ FillKeys(h, data) /\ regrouped' = regrouped
    BY <1>1 DEF SetResults
  <1>3. ASSUME NEW i \in ToSet(data) PROVE doc(i) \in Document
    <2>1. at(i) \in 1..Len(data)
      BY <1>1
    <2>2. rs[at(i)] \in Keys
      BY <2>1
    <2> HIDE DEF at
    <2> QED
      BY <2>2, DocumentsAre
  <1> HIDE DEF doc
  <1>4. ASSUME NEW i \in 1..n
        PROVE  /\ x(i) \in Entry /\ x(i).existing = heap[i].existing /\ x(i).key = heap[i].key
               /\ i \notin ToSet(data) => x(i).input = heap[i].input /\ x(i).result = heap[i].result
    <2>1. CASE i \in ToSet(data)
      BY <1>1, <1>3, <2>1 DEF Entry
    <2>2. CASE i \notin ToSet(data)
      BY <1>1, <2>2
    <2> QED
      BY <2>1, <2>2
  <1> HIDE DEF x, n
  <1>5. h \in Seq(Entry) /\ Len(h) = n /\ \A i \in 1..n : h[i] = x(i)
    <2>1. h \in [1..n -> Entry] /\ \A i \in 1..n : h[i] = x(i)
      BY <1>4
    <2> HIDE DEF h
    <2> QED
      BY <1>1, <2>1, SeqDef, LenProperties
  <1> HIDE DEF h
  <1>6. \A i \in 1..Len(heap) :
             /\ h[i].existing = heap[i].existing /\ h[i].key = heap[i].key
             /\ i \notin ToSet(data) => /\ h[i].input = heap[i].input
                                        /\ h[i].result = heap[i].result
    BY <1>4, <1>5 DEF n
  <1>7. Len(h) >= Len(heap) /\ ToSet(data) \subseteq 1..Len(h)
    BY <1>1, <1>5 DEF n
  <1> QED
    BY <1>1, <1>2, <1>5, <1>6, <1>7, FillingIs

-----------------------------------------------------------------------------
(* The inductive invariant. *)

Creates == {"beforeCreate", "afterCreate"}
Dispatching == Befores \cup Afters
ValueAt(p, e) == IF p \in Befores THEN e.input ELSE e.result

(* While an event is out, what is told of an entry is told by an event      *)
(* before it, and the event that is out carries other entries.              *)
Told ==
    /\ phase \in Creates => \A i \in 1..Len(told) : told[i] = Nothing
    /\ phase \in Dispatching =>
         /\ \A i \in ToSet(data) : i <= Len(basis) => Carried(phase, heap[i])
         /\ regrouped \/ ToSet(data) \subseteq 1..Len(basis)
         /\ single => Carried(phase, heap[1])
         /\ \A i \in 1..Len(told) : told[i] # Nothing =>
               ~Carried(phase, heap[i]) /\ ValueAt(phase, heap[i]) = told[i]

LEMMA HeededKeeps ==
    ASSUME Types, Told, Heeded
    PROVE  Types' /\ Told' /\ Honoured'
  <1>1. /\ phase \in Dispatching /\ phase' = phase /\ single' = single /\ basis' = basis
        /\ told' = told /\ heap' \in Seq(Entry) /\ Len(heap') >= Len(heap)
        /\ data' \in Seq(Nat) /\ ToSet(data') \subseteq 1..Len(heap')
        /\ \A i \in ToSet(data') : i \in ToSet(data) \/ i > Len(heap)
    BY DEF Heeded, Dispatching
  <1>2. /\ Len(heap) \in Nat /\ Len(basis) \in Nat /\ Len(heap') \in Nat
        /\ Len(basis) <= Len(heap) /\ Len(told) = Len(basis)
    BY <1>1, HeapIs, LenProperties DEF Types
  <1>3. phase # "start" /\ phase # "write" /\ phase # "returned"
    BY <1>1 DEF Dispatching, Befores, Afters
  <1>4. Types'
    BY <1>1, <1>2, <1>3 DEF Types
  <1>5. ASSUME NEW i \in 1..Len(heap) PROVE Carried(phase, heap'[i]) = Carried(phase, heap[i])
    BY <1>5 DEF Heeded, Carried
  <1>6. ASSUME NEW i \in ToSet(data'), i <= Len(basis) PROVE Carried(phase, heap'[i])
    <2>1. i \in 1..Len(heap') /\ i \in ToSet(data)
      BY <1>1, <1>2, <1>6
    <2>2. i \in 1..Len(heap)
      BY <1>2, <1>6, <2>1
    <2> QED
      BY <1>1, <1>5, <1>6, <2>1, <2>2 DEF Told
  <1>7. regrouped' \/ ToSet(data') \subseteq 1..Len(basis)
    BY <1>1 DEF Told, Heeded
  <1>8. ASSUME single PROVE Carried(phase, heap'[1])
    <2>1. Len(basis) = 1 /\ Carried(phase, heap[1])
      BY <1>1, <1>8 DEF Types, Told
    <2>2. 1 \in 1..Len(heap)
      BY <1>2, <2>1
    <2> QED
      BY <1>5, <2>1, <2>2
  <1>9. ASSUME NEW i \in 1..Len(told), told[i] # Nothing
        PROVE  ~Carried(phase, heap'[i]) /\ ValueAt(phase, heap'[i]) = told[i]
    <2>1. i \in 1..Len(heap) /\ i <= Len(basis)
      BY <1>2
    <2>2. ~Carried(phase, heap[i]) /\ ValueAt(phase, heap[i]) = told[i]
      BY <1>1, <1>9 DEF Told
    <2>3. i \notin ToSet(data)
      BY <1>1, <2>1, <2>2 DEF Told
    <2>4. heap'[i].input = heap[i].input /\ heap'[i].result = heap[i].result
      BY <2>1, <2>3 DEF Heeded
    <2> QED
      BY <1>5, <2>1, <2>2, <2>4 DEF ValueAt
  <1>10. Told'
    <2>1. phase \in Creates => \A i \in 1..Len(told) : told[i] = Nothing
      BY DEF Told
    <2> QED
      BY <1>1, <1>6, <1>7, <1>8, <1>9, <2>1 DEF Told
  <1>11. Honoured'
    BY <1>1, <1>3 DEF Honoured
  <1> QED
    BY <1>4, <1>10, <1>11

(* The service goes on with the entries in h. *)
LEMMA ProceedKeeps ==
    ASSUME NEW p \in {"start", "write"} \cup Befores \cup Afters, NEW h \in Seq(Entry),
           Proceed(p, h), Len(h) <= MaxEntries, basis' \in Seq(Document), Len(basis') = Len(h),
           told' \in Seq(Document), Len(told') = Len(h), single' => Len(h) = 1,
           \A i \in 1..Len(h) : told'[i] # Nothing =>
              /\ phase' \notin Creates
              /\ phase' \in Dispatching =>
                    ~Carried(phase', h[i]) /\ ValueAt(phase', h[i]) = told'[i]
              /\ phase' = "write" => h[i].input = told'[i]
              /\ phase' = "returned" => h[i].result = told'[i]
    PROVE  /\ Types' /\ Told' /\ Honoured' /\ IndexAgrees' /\ Len(heap') = Len(h)
           /\ \A i \in 1..Len(h) : h[i].key # NoKey => heap'[i].key = h[i].key
  <1> DEFINE q == phase'
             d == data'
             f == Filled(h, d)
  <1>1. /\ q \in Later(p) /\ (q \in Befores \cup Afters => d # <<>>) /\ d \in Seq(Nat)
        /\ ToSet(d) = {i \in 1..Len(h) : Carried(q, h[i])}
        /\ heap' = f /\ index' = NoIndex
    BY ProceedIs
  <1>2. /\ f \in Seq(Entry) /\ Len(f) = Len(h)
        /\ \A i \in 1..Len(h) :
             /\ f[i].existing = h[i].existing /\ f[i].input = h[i].input
             /\ f[i].result = h[i].result /\ (h[i].key # NoKey => f[i].key = h[i].key)
    BY FilledIs
  <1> HIDE DEF f, q, d
  <1>3. Len(h) \in Nat
    BY LenProperties
  <1>4. q \in Phases /\ q # "start"
    <2>1. /\ Order[1] = "beforeCreate" /\ Order[2] = "beforeUpdate" /\ Order[3] = "write"
          /\ Order[4] = "afterCreate" /\ Order[5] = "afterUpdate" /\ Order[6] = "returned"
      BY DEF Order
    <2>2. \A i \in {1, 2, 3, 4, 5, 6} : i \in 1..6 /\ Order[i] \in Phases
      BY DEF Phases
    <2>3. q \in {"beforeCreate", "beforeUpdate", "write", "afterCreate", "afterUpdate", "returned"}
      BY <1>1 DEF Later, Befores, Afters
    <2> QED
      BY <2>1, <2>2, <2>3
  <1>5. Types'
    BY <1>1, <1>2, <1>3, <1>4 DEF Types, q, d
  <1>6. \A i \in 1..Len(h) : Carried(q, f[i]) = Carried(q, h[i])
    BY <1>2 DEF Carried
  <1>7. \A i \in ToSet(d) : i \in 1..Len(h) /\ Carried(q, f[i])
    BY <1>1, <1>6
  <1>8. ASSUME single', q \in Dispatching PROVE Carried(q, f[1])
    <2>1. d # <<>> /\ Len(d) \in Nat /\ ToSet(d) = {d[j] : j \in 1..Len(d)}
      BY <1>1, <1>8, ToSetIs DEF Dispatching
    <2>2. Len(d) # 0
      BY <1>1, <2>1, EmptySeq
    <2>3. 1 \in 1..Len(d)
      BY <2>1, <2>2
    <2>4. d[1] \in ToSet(d)
      BY <2>1, <2>3
    <2>5. d[1] = 1
      BY <1>7, <1>8, <2>4
    <2> QED
      BY <1>7, <2>4, <2>5
  <1>9. ASSUME NEW i \in 1..Len(h), told'[i] # Nothing
        PROVE  /\ q \notin Creates
               /\ q \in Dispatching => ~Carried(q, f[i]) /\ ValueAt(q, f[i]) = told'[i]
               /\ q = "write" => f[i].input = told'[i]
               /\ q = "returned" => f[i].result = told'[i]
    BY <1>2, <1>6, <1>9 DEF ValueAt, q
  <1>10. Told'
    BY <1>1, <1>7, <1>8, <1>9 DEF Told, q, d
  <1>11. Honoured'
    BY <1>1, <1>9 DEF Honoured, Taken, q
  <1>12. IndexAgrees'
    BY <1>1 DEF IndexAgrees
  <1> QED
    BY <1>1, <1>2, <1>5, <1>10, <1>11, <1>12

ServiceStep == Types' /\ Told' /\ Honoured' /\ IndexAgrees' /\ KeysKept

LEMMA CallKeeps ==
    ASSUME MutationEventAssumption, Types, NEW s \in BOOLEAN, NEW ks \in Inputs, Call(s, ks)
    PROVE  ServiceStep
  <1> DEFINE Found(k) == IF k \in Stored THEN Own(k) ELSE Nothing
             Asked(k) == IF k # NoKey THEN Own(k) ELSE Nothing
             x(i) == EntryOf(Asked(ks[i]), Found(ks[i]), Own(ks[i]))
             m == Len(ks)
             h == [i \in 1..m |-> x(i)]
             b == [i \in 1..m |-> Own(ks[i])]
             t == [i \in 1..m |-> Nothing]
  <1>1. PICK n \in 1..MaxEntries : ks \in [1..n -> Ids]
    BY DEF Inputs
  <1>2. n \in Nat /\ n <= MaxEntries
    BY <1>1 DEF MutationEventAssumption
  <1>3. m = n
    BY <1>1, <1>2, LenProperties, SeqDef
  <1>4. phase = "start" /\ (s => m = 1) /\ Proceed("start", h) /\ single' = s /\ basis' = b /\ told' = t
    BY DEF Call
  <1> HIDE DEF m
  <1>5. ASSUME NEW i \in 1..m PROVE x(i) \in Entry /\ Own(ks[i]) \in Document
    <2> DEFINE k == ks[i]
    <2>1. k \in Ids
      BY <1>1, <1>3
    <2> HIDE DEF k
    <2>2. Own(k) \in Document /\ Found(k) \in Document /\ Asked(k) \in Document
      BY <2>1, DocumentsAre
    <2> HIDE DEF Found, Asked
    <2>3. EntryOf(Asked(k), Found(k), Own(k)) \in Entry
      BY <2>2, DocumentsAre
    <2> QED
      BY <2>2, <2>3 DEF k
  <1> HIDE DEF x
  <1>6. Nothing \in Document /\ m \in Nat /\ m <= MaxEntries
    BY <1>2, <1>3, DocumentsAre
  <1>7. h \in [1..m -> Entry] /\ b \in [1..m -> Document] /\ t \in [1..m -> Document]
        /\ \A i \in 1..m : t[i] = Nothing
    BY <1>5, <1>6
  <1> HIDE DEF h, b, t
  <1>8. /\ h \in Seq(Entry) /\ b \in Seq(Document) /\ t \in Seq(Document)
        /\ Len(h) = m /\ Len(b) = m /\ Len(t) = m
    BY <1>6, <1>7, SeqDef, LenProperties
  <1>9. Types' /\ Told' /\ Honoured' /\ IndexAgrees'
    BY <1>4, <1>6, <1>7, <1>8, ProceedKeeps
  <1>10. KeysKept
    <2>1. Len(heap) = 0
      BY <1>4 DEF Types
    <2> QED
      BY <2>1 DEF KeysKept
  <1> QED
    BY <1>9, <1>10 DEF ServiceStep

LEMMA WriteKeeps ==
    ASSUME MutationEventAssumption, Types, Write PROVE ServiceStep
  <1> DEFINE n == Len(basis)
             id(i) == IF Taken(i).id # NoKey THEN Taken(i).id
                      ELSE IF heap[i].existing # Nothing THEN heap[i].existing.id
                      ELSE FreshKey(i)
             r(i) == Own(id(i))
             x(i) == [heap[i] EXCEPT !.result = r(i)]
             h == [i \in 1..n |-> x(i)]
             b == [i \in 1..n |-> r(i)]
             t == [i \in 1..n |-> Nothing]
  <1>1. /\ phase = "write" /\ Proceed("write", h) /\ single' = single /\ basis' = b /\ told' = t
    BY DEF Write
  <1>2. /\ n \in Nat /\ Len(heap) \in Nat /\ n <= Len(heap) /\ n <= MaxEntries
        /\ (single => n = 1) /\ \A i \in 1..Len(heap) : heap[i] \in Entry
    BY HeapIs DEF Types
  <1> HIDE DEF n
  <1>3. ASSUME NEW i \in 1..n
        PROVE  r(i) \in Document /\ x(i) \in Entry /\ x(i).key = heap[i].key
    <2>1. heap[i] \in Entry /\ i \in 1..MaxEntries
      BY <1>2 DEF MutationEventAssumption
    <2>2. FreshKey(i) \in AllIds
      BY <2>1 DEF AllIds
    <2>3. heap[i].existing.id \in AllIds /\ Taken(i).id \in AllIds
      BY <2>1 DEF Entry, Document, Taken
    <2>4. id(i) \in AllIds
      BY <2>2, <2>3
    <2> HIDE DEF id
    <2>5. r(i) \in Document
      BY <2>4, DocumentsAre
    <2> HIDE DEF r
    <2> QED
      BY <2>1, <2>5 DEF Entry
  <1> HIDE DEF x, r
  <1>4. Nothing \in Document
    BY DocumentsAre
  <1>5. h \in [1..n -> Entry] /\ b \in [1..n -> Document] /\ t \in [1..n -> Document]
        /\ (\A i \in 1..n : t[i] = Nothing) /\ \A i \in 1..n : h[i] = x(i)
    BY <1>3, <1>4
  <1> HIDE DEF h, b, t
  <1>6. /\ h \in Seq(Entry) /\ b \in Seq(Document) /\ t \in Seq(Document)
        /\ Len(h) = n /\ Len(b) = n /\ Len(t) = n
    BY <1>2, <1>5, SeqDef, LenProperties
  <1>7. single' => Len(h) = 1
    BY <1>1, <1>2, <1>6
  <1>8. /\ Types' /\ Told' /\ Honoured' /\ IndexAgrees' /\ Len(heap') = Len(h)
        /\ \A i \in 1..Len(h) : h[i].key # NoKey => heap'[i].key = h[i].key
    BY <1>1, <1>2, <1>5, <1>6, <1>7, ProceedKeeps
  <1>9. KeysKept
    BY <1>2, <1>3, <1>5, <1>6, <1>8 DEF KeysKept
  <1> QED
    BY <1>8, <1>9 DEF ServiceStep

(* After the events of the creations come those of the updates. *)
LEMMA LaterIs ==
    ASSUME phase \in Dispatching, NEW q \in Later(phase)
    PROVE  /\ q \notin Creates
           /\ q \in Dispatching => /\ phase \in Creates /\ q \in {"beforeUpdate", "afterUpdate"}
                                   /\ (q \in Befores <=> phase \in Befores)
           /\ q = "write" => phase \in Befores
           /\ q = "returned" => phase \notin Befores
  BY DEF Dispatching, Befores, Afters, Creates, Later

LEMMA SingleDispatch ==
    ASSUME MutationEventAssumption, Types, Told, EndDispatch, single
    PROVE  ServiceStep
  <1> DEFINE y == IF phase \in Befores THEN [heap[1] EXCEPT !.input = ReadBack]
                                       ELSE [heap[1] EXCEPT !.result = ReadBack]
             h == <<y>>
             tv(i) == IF data # <<>> THEN Value(heap[data[1]])
                      ELSE IF regrouped THEN Nothing
                      ELSE IF i \in Range(data) THEN Value(heap[i]) ELSE told[i]
             t == [i \in 1..Len(told) |-> tv(i)]
  <1>1. /\ phase \in Dispatching /\ single' = single /\ basis' = basis
        /\ told' = t
    BY DEF EndDispatch, Dispatching
  <1>2. Proceed(phase, h)
    BY DEF EndDispatch
  <1>3. /\ Len(basis) = 1 /\ Len(told) = 1 /\ 1 \in 1..Len(heap) /\ heap[1] \in Entry
        /\ basis \in Seq(Document) /\ told \in Seq(Document) /\ 1 <= MaxEntries
        /\ basis[1] \in Document /\ told[1] \in Document
        /\ data # <<>> => heap[data[1]] \in Entry
    <2>1. /\ Len(heap) \in Nat /\ Len(basis) \in Nat
          /\ \A i \in 1..Len(heap) : heap[i] \in Entry
      BY HeapIs
    <2>5. /\ Len(basis) = 1 /\ Len(told) = Len(basis) /\ Len(basis) <= Len(heap)
          /\ basis \in Seq(Document) /\ told \in Seq(Document)
      BY DEF Types
    <2>2. /\ Len(basis) = 1 /\ Len(told) = 1 /\ 1 \in 1..Len(heap)
          /\ basis \in Seq(Document) /\ told \in Seq(Document) /\ 1 <= MaxEntries
      BY <2>1, <2>5 DEF MutationEventAssumption
    <2>4. \A i \in 1..1 : basis[i] \in Document /\ told[i] \in Document
      BY <2>2, ToSetIs
    <2>3. ASSUME data # <<>> PROVE heap[data[1]] \in Entry
      <3>1. Len(data) # 0 /\ Len(data) \in Nat
        BY <2>3, HeapIs, EmptySeq DEF Types
      <3>2. 1 \in 1..Len(data)
        BY <3>1
      <3> QED
        BY <2>1, <3>2, HeapIs
    <2> QED
      BY <2>1, <2>2, <2>3, <2>4
  <1>4. /\ ReadBack \in Document
        /\ data # <<>> => Value(heap[data[1]]) \in Document
        /\ data # <<>> /\ Value(heap[data[1]]) # Nothing => ReadBack = Value(heap[data[1]])
    BY <1>3 DEF ReadBack, Or, Value, Entry
  <1>5. /\ y \in Entry /\ y.key = heap[1].key /\ y.existing = heap[1].existing
        /\ phase \in Befores => y.input = ReadBack
        /\ phase \notin Befores => y.result = ReadBack
    BY <1>3, <1>4 DEF Entry
  <1> HIDE DEF y
  <1>6. h \in Seq(Entry) /\ Len(h) = 1 /\ h[1] = y
    BY <1>5
  <1>7. 1 \notin Range(data) \/ data # <<>>
    BY DEF Range
  <1>8. tv(1) \in Document
    BY <1>3, <1>4, <1>7, DocumentsAre
  <1>9. ASSUME tv(1) # Nothing PROVE data # <<>> /\ tv(1) = ReadBack
    <2>1. CASE data # <<>>
      BY <1>4, <1>9, <2>1
    <2>2. CASE data = <<>>
      <3>1. told[1] # Nothing
        BY <1>7, <1>9, <2>2
      <3>2. Carried(phase, heap[1]) /\ ~Carried(phase, heap[1])
        BY <1>1, <1>3, <3>1 DEF Told
      <3> QED
        BY <3>2
    <2> QED
      BY <2>1, <2>2
  <1> HIDE DEF tv
  <1>10. t \in Seq(Document) /\ Len(t) = 1 /\ t[1] = tv(1)
    <2> DEFINE n == Len(told)
    <2>1. n = 1 /\ t[1] = tv(1)
      BY <1>3
    <2>2. n \in Nat /\ t \in [1..n -> Document]
      BY <1>3, <1>8
    <2> HIDE DEF t, n
    <2>3. t \in Seq(Document)
      BY <2>2, SeqDef
    <2>4. Len(t) = n
      BY <2>2, <2>3, LenProperties
    <2> QED
      BY <2>1, <2>3, <2>4
  <1> HIDE DEF t, h
  <1>11. /\ phase' \in Later(phase) /\ data' \in Seq(Nat)
         /\ phase' \in Befores \cup Afters => data' # <<>>
         /\ ToSet(data') = {i \in 1..1 : Carried(phase', h[i])}
    BY <1>1, <1>2, <1>6, ProceedIs DEF Dispatching
  <1>12. phase' \notin Dispatching
    <2> SUFFICES ASSUME phase' \in Dispatching PROVE FALSE
      OBVIOUS
    <2> DEFINE d == data'
               q == phase'
    <2>1. d # <<>> /\ d \in Seq(Nat)
      BY <1>11 DEF Dispatching
    <2>2. ToSet(d) = {i \in 1..1 : Carried(q, h[i])} /\ q \in Later(phase) /\ q \in Dispatching
      BY <1>11
    <2> HIDE DEF d, q
    <2>3. Len(d) \in Nat /\ Len(d) # 0 /\ ToSet(d) = {d[j] : j \in 1..Len(d)}
      BY <2>1, EmptySeq, ToSetIs
    <2>4. 1 \in 1..Len(d) /\ d[1] \in ToSet(d)
      BY <2>3
    <2>5. Carried(q, h[1])
      BY <2>2, <2>4
    <2>6. Carried(phase, heap[1])
      BY <1>1 DEF Told
    <2>7. phase \in Creates /\ q \in {"beforeUpdate", "afterUpdate"}
      BY <1>1, <2>2, LaterIs
    <2> QED
      BY <1>5, <1>6, <2>5, <2>6, <2>7 DEF Carried, Creates
  <1>13. /\ phase' \notin Creates
         /\ phase' = "write" => phase \in Befores
         /\ phase' = "returned" => phase \notin Befores
    BY <1>1, <1>11, LaterIs
  <1>14. \A i \in 1..Len(h) : told'[i] # Nothing =>
              /\ phase' \notin Creates
              /\ phase' \in Dispatching =>
                    ~Carried(phase', h[i]) /\ ValueAt(phase', h[i]) = told'[i]
              /\ phase' = "write" => h[i].input = told'[i]
              /\ phase' = "returned" => h[i].result = told'[i]
    BY <1>1, <1>5, <1>6, <1>9, <1>10, <1>12, <1>13
  <1>15. phase \in {"start", "write"} \cup Befores \cup Afters
    BY <1>1 DEF Dispatching
  <1>16. /\ Types' /\ Told' /\ Honoured' /\ IndexAgrees' /\ Len(heap') = Len(h)
         /\ \A i \in 1..Len(h) : h[i].key # NoKey => heap'[i].key = h[i].key
    BY <1>1, <1>2, <1>3, <1>6, <1>10, <1>14, <1>15, ProceedKeeps
  <1>17. KeysKept
    <2>1. \A i \in 1..Len(heap') : i = 1
      BY <1>6, <1>16
    <2> QED
      BY <1>5, <1>6, <1>16, <2>1 DEF KeysKept
  <1> QED
    BY <1>16, <1>17 DEF ServiceStep

LEMMA BatchDispatch ==
    ASSUME MutationEventAssumption, Types, Told, EndDispatch, ~single
    PROVE  ServiceStep
  <1> DEFINE n == Len(basis)
             h == SubSeq(heap, 1, n)
             tv(i) == IF regrouped THEN Nothing
                      ELSE IF i \in Range(data) THEN Value(heap[i]) ELSE told[i]
             t == [i \in 1..n |-> tv(i)]
  <1>1. /\ Len(heap) \in Nat /\ n \in Nat /\ \A i \in 1..Len(heap) : heap[i] \in Entry
    BY HeapIs
  <1>2. /\ n <= Len(heap) /\ Len(told) = n /\ n <= MaxEntries /\ heap \in Seq(Entry)
        /\ basis \in Seq(Document) /\ told \in Seq(Document)
    BY DEF Types
  <1>3. /\ phase \in Dispatching /\ single' = single /\ basis' = basis
        /\ told' = t /\ Proceed(phase, h)
    BY <1>2 DEF EndDispatch, Dispatching
  <1>4. h \in Seq(Entry) /\ Len(h) = n /\ \A i \in 1..n : h[i] = heap[i]
    <2>1. /\ SubSeq(heap, 1, n) \in Seq(Entry)
          /\ Len(SubSeq(heap, 1, n)) = IF 1 <= n THEN n - 1 + 1 ELSE 0
          /\ \A i \in 1..(n - 1 + 1) : SubSeq(heap, 1, n)[i] = heap[1 + i - 1]
      BY <1>1, <1>2, SubSeqProperties
    <2> HIDE DEF n, h
    <2>2. \A i \in 1..n : heap[1 + i - 1] = heap[i]
      BY <1>1
    <2>3. n - 1 + 1 = n
      BY <1>1
    <2> QED
      BY <1>1, <2>1, <2>2, <2>3 DEF h
  <1> HIDE DEF h, n
  <1>5. Range(data) = ToSet(data)
    BY DEF Range, ToSet
  <1>6. ASSUME NEW i \in 1..n
        PROVE  tv(i) \in Document
    <2>1. heap[i] \in Entry /\ told[i] \in Document /\ Nothing \in Document
      BY <1>1, <1>2, <1>6, ElementOfSeq, DocumentsAre
    <2> QED
      BY <2>1 DEF Value, Entry
  <1>7. ASSUME NEW i \in 1..n, tv(i) # Nothing
        PROVE  /\ ~regrouped /\ tv(i) = ValueAt(phase, heap[i])
               /\ i \in ToSet(data) => Carried(phase, heap[i])
               /\ phase \in Creates => i \in ToSet(data)
    <2>1. ~regrouped
      BY <1>7
    <2>2. CASE i \in ToSet(data)
      <3>1. tv(i) = Value(heap[i])
        BY <1>5, <2>1, <2>2
      <3>2. i <= n
        BY <1>1
      <3>3. Carried(phase, heap[i])
        BY <1>3, <2>2, <3>2 DEF Told, n
      <3> QED
        BY <2>1, <2>2, <3>1, <3>3 DEF Value, ValueAt
    <2>3. CASE i \notin ToSet(data)
      <3>1. tv(i) = told[i] /\ told[i] # Nothing
        BY <1>5, <1>7, <2>1, <2>3
      <3>2. i \in 1..Len(told)
        BY <1>2
      <3>3. ValueAt(phase, heap[i]) = told[i] /\ phase \notin Creates
        BY <1>3, <3>1, <3>2 DEF Told
      <3> QED
        BY <2>1, <2>3, <3>1, <3>3
    <2> QED
      BY <2>2, <2>3
  <1> HIDE DEF tv
  <1>8. t \in Seq(Document) /\ Len(t) = n /\ \A i \in 1..n : t[i] = tv(i)
    <2>1. t \in [1..n -> Document] /\ \A i \in 1..n : t[i] = tv(i)
      BY <1>6
    <2> HIDE DEF t
    <2>2. t \in Seq(Document)
      BY <1>1, <2>1, SeqDef
    <2>3. Len(t) = n
      BY <1>1, <2>1, <2>2, LenProperties
    <2> QED
      BY <2>1, <2>2, <2>3
  <1> HIDE DEF t
  <1>9. phase \in {"start", "write"} \cup Befores \cup Afters
    BY <1>3 DEF Dispatching
  <1>10. phase' \in Later(phase)
    BY <1>3, <1>4, <1>9, ProceedIs
  <1>11. /\ phase' \notin Creates
         /\ phase' \in Dispatching =>
               /\ phase \in Creates /\ phase' \in {"beforeUpdate", "afterUpdate"}
               /\ (phase' \in Befores <=> phase \in Befores)
         /\ phase' = "write" => phase \in Befores
         /\ phase' = "returned" => phase \notin Befores
    BY <1>3, <1>10, LaterIs
  <1>12. ASSUME NEW i \in 1..Len(h), told'[i] # Nothing
         PROVE  /\ phase' \notin Creates
                /\ phase' \in Dispatching =>
                      ~Carried(phase', h[i]) /\ ValueAt(phase', h[i]) = told'[i]
                /\ phase' = "write" => h[i].input = told'[i]
                /\ phase' = "returned" => h[i].result = told'[i]
    <2> DEFINE q == phase'
    <2>1. /\ told'[i] = tv(i) /\ h[i] = heap[i] /\ i \in 1..n /\ tv(i) # Nothing
      BY <1>3, <1>4, <1>8, <1>12
    <2>2. /\ told'[i] = ValueAt(phase, h[i])
          /\ i \in ToSet(data) => Carried(phase, h[i])
          /\ phase \in Creates => i \in ToSet(data)
      BY <1>7, <2>1
    <2>3. ASSUME q \in Dispatching
          PROVE  ~Carried(q, h[i]) /\ ValueAt(q, h[i]) = told'[i]
      <3>1. /\ phase \in Creates /\ q \in {"beforeUpdate", "afterUpdate"}
            /\ (q \in Befores <=> phase \in Befores) /\ Carried(phase, h[i])
        BY <1>11, <2>2, <2>3
      <3> HIDE DEF q
      <3>2. ~Carried(q, h[i])
        BY <3>1 DEF Carried, Creates
      <3>3. ValueAt(q, h[i]) = ValueAt(phase, h[i])
        BY <3>1 DEF ValueAt
      <3> QED
        BY <2>2, <3>2, <3>3
    <2> QED
      BY <1>11, <2>2, <2>3 DEF ValueAt
  <1>13. /\ Types' /\ Told' /\ Honoured' /\ IndexAgrees' /\ Len(heap') = Len(h)
         /\ \A i \in 1..Len(h) : h[i].key # NoKey => heap'[i].key = h[i].key
    <2>1. Len(h) <= MaxEntries /\ Len(basis') = Len(h) /\ Len(told') = Len(h)
          /\ basis' \in Seq(Document) /\ told' \in Seq(Document) /\ ~single'
      BY <1>2, <1>3, <1>4, <1>8 DEF n
    <2> QED
      BY <1>3, <1>4, <1>9, <1>12, <2>1, ProceedKeeps
  <1>14. KeysKept
    BY <1>4, <1>13 DEF KeysKept
  <1> QED
    BY <1>13, <1>14 DEF ServiceStep

LEMMA FailKeeps ==
    ASSUME Types, Fail, IndexAgrees
    PROVE  ServiceStep
  <1>1. /\ phase \in Dispatching /\ phase' = "failed" /\ heap' = heap /\ data' = data
        /\ basis' = basis /\ told' = told /\ single' = single /\ index' = index
        /\ assigned' = assigned
    BY DEF Fail, Dispatching
  <1>2. phase # "start" /\ "failed" \in Phases /\ "failed" \notin Dispatching
        /\ "failed" \notin Creates
    BY <1>1 DEF Dispatching, Creates, Befores, Afters, Phases
  <1>3. Types'
    BY <1>1, <1>2 DEF Types
  <1>4. Told' /\ Honoured'
    BY <1>1, <1>2 DEF Told, Honoured
  <1>5. IndexAgrees' /\ KeysKept
    BY <1>1 DEF IndexAgrees, KeysKept
  <1> QED
    BY <1>3, <1>4, <1>5 DEF ServiceStep

MutationInv == Types /\ Told /\ Honoured /\ IndexAgrees

LEMMA MutationInvInit ==
    ASSUME MutationEventAssumption, Init PROVE MutationInv
  <1>1. /\ single = FALSE /\ phase = "start" /\ heap = <<>> /\ basis = <<>> /\ data = <<>>
        /\ index = NoIndex /\ told = <<>>
    BY DEF Init
  <1>2. Len(<<>>) = 0 /\ <<>> \in Seq(Entry) /\ <<>> \in Seq(Document) /\ <<>> \in Seq(Nat)
        /\ ToSet(<<>>) = {}
    BY EmptySeq DEF ToSet
  <1>3. phase \in Phases /\ phase \notin Dispatching /\ phase \notin Creates
    BY <1>1 DEF Phases, Dispatching, Creates, Befores, Afters
  <1>4. Types
    BY <1>1, <1>2, <1>3, MutationEventAssumption DEF Types, MutationEventAssumption
  <1> QED
    BY <1>1, <1>2, <1>3, <1>4 DEF MutationInv, Told, Honoured, IndexAgrees

(* What a step is: the service's, or a subscriber's that changes no key but *)
(* by assignment.                                                           *)
LEMMA NextKeeps ==
    ASSUME MutationEventAssumption, MutationInv, Next
    PROVE  /\ MutationInv'
           /\ KeysKept \/ \E j \in 1..Len(data), k \in Keys : AssignKey(j, k)
  <1> DEFINE Good == /\ MutationInv'
                     /\ KeysKept \/ \E j \in 1..Len(data), k \in Keys : AssignKey(j, k)
  <1>1. Types /\ Told /\ Honoured /\ IndexAgrees
    BY DEF MutationInv
  <1>2. ASSUME Heeded, IndexAgrees' PROVE MutationInv'
    BY <1>1, <1>2, HeededKeeps DEF MutationInv
  <1>3. ASSUME ServiceStep PROVE Good
    BY <1>3 DEF ServiceStep, MutationInv
  <1>4. ASSUME NEW s \in BOOLEAN, NEW ks \in Inputs, Call(s, ks) PROVE Good
    BY <1>1, <1>3, <1>4, CallKeeps
  <1>5. ASSUME EndDispatch PROVE Good
    <2>1. CASE single
      BY <1>1, <1>3, <1>5, <2>1, SingleDispatch
    <2>2. CASE ~single
      BY <1>1, <1>3, <1>5, <2>2, BatchDispatch
    <2> QED
      BY <2>1, <2>2
  <1>6. ASSUME Write PROVE Good
    BY <1>1, <1>3, <1>6, WriteKeeps
  <1>7. ASSUME Fail PROVE Good
    BY <1>1, <1>3, <1>7, FailKeeps
  <1>8. ASSUME Ask \/ Reindex PROVE Good
    BY <1>1, <1>2, <1>8, QuestionsAre
  <1>9. ASSUME NEW j \in 1..Len(data), NEW k \in Keys, AssignKey(j, k)
        PROVE  Good
    BY <1>1, <1>2, <1>9, AssignKeyIs
  <1>10. ASSUME NEW j \in 1..Len(data), NEW k \in Ids, Replace(j, k)
         PROVE  Good
    BY <1>1, <1>2, <1>10, ReplaceIs
  <1>11. ASSUME NEW k \in Ids, Add(k) PROVE Good
    BY <1>1, <1>2, <1>11, AddIs
  <1>12. ASSUME data # <<>>, NEW d \in {Reverse(data), Tail(data)}, SetEntries(d)
         PROVE  Good
    BY <1>1, <1>2, <1>12, SetEntriesIs
  <1>13. ASSUME NEW rs \in [1..Len(data) -> Keys], SetResults(rs)
         PROVE  Good
    BY <1>1, <1>2, <1>13, SetResultsIs
  <1> HIDE DEF Good
  <1>14. Good
    BY <1>4, <1>5, <1>6, <1>7, <1>8, <1>9, <1>10, <1>11, <1>12, <1>13 DEF Next
  <1> QED
    BY <1>14 DEF Good

LEMMA StuttersKeep ==
    ASSUME MutationInv, UNCHANGED vars PROVE MutationInv'
  BY DEF MutationInv, Types, Told, Honoured, IndexAgrees, Taken, vars

(* What the proofs keep: the event carries entries of one kind, and what was*)
(* told of an entry stays on it until the service uses it.                  *)
THEOREM MutationInvAlways == Spec => []MutationInv
  <1>1. Init => MutationInv
    BY MutationEventAssumption, MutationInvInit
  <1>2. MutationInv /\ [Next]_vars => MutationInv'
    BY MutationEventAssumption, NextKeeps, StuttersKeep
  <1> QED
    BY <1>1, <1>2, PTL DEF Spec

(* Whatever setters, replacements and questions came before, has and get of *)
(* an event answer from its entries as they are.                            *)
THEOREM IndexAgreesAlways == Spec => []IndexAgrees
  <1>1. MutationInv => IndexAgrees
    BY DEF MutationInv
  <1> QED
    BY <1>1, MutationInvAlways, PTL

(* The service writes and returns each entry as its event left it.          *)
THEOREM HonouredAlways == Spec => []Honoured
  <1>1. MutationInv => Honoured
    BY DEF MutationInv
  <1> QED
    BY <1>1, MutationInvAlways, PTL

(* A key an entry has is kept whatever its records become.                  *)
THEOREM KeySticksAlways == Spec => KeySticks
  <1> DEFINE Sticks == \/ \E j \in 1..Len(data), k \in Keys : AssignKey(j, k)
                       \/ \A i \in DOMAIN heap \cap DOMAIN heap' :
                             heap[i].key # NoKey => heap'[i].key = heap[i].key
  <1>1. ASSUME MutationInv, MutationInv', Next PROVE Sticks
    <2>1. heap \in Seq(Entry) /\ heap' \in Seq(Entry)
      BY <1>1 DEF MutationInv, Types
    <2>2. DOMAIN heap = 1..Len(heap) /\ DOMAIN heap' = 1..Len(heap')
      BY <2>1, LenProperties
    <2>3. KeysKept \/ \E j \in 1..Len(data), k \in Keys : AssignKey(j, k)
      BY <1>1, MutationEventAssumption, NextKeeps
    <2> QED
      BY <2>2, <2>3 DEF KeysKept
  <1>2. MutationInv /\ MutationInv' /\ [Next]_vars => [Sticks]_vars
    BY <1>1
  <1> QED
    BY <1>2, MutationInvAlways, PTL DEF Spec, KeySticks
=============================================================================
