------------------------- MODULE WrappedRecordsProofs -------------------------
(* What is proved of WrappedRecords, for any documents, models, records and *)
(* number of calls.                                                         *)
EXTENDS WrappedRecords, RecursionLemmas, FiniteSetTheorems, TLAPS

(* A function defined by recursion on a height exists, and its values are   *)
(* of their types.                                                          *)
Steps(n, X, step) == \A i \in 1..n : \A x \in X[i - 1] : step[i][x] \in X[i]
Climbs(f, n, X, x0, step) ==
    /\ f[0] = x0 /\ \A i \in 1..n : f[i] = step[i][f[i - 1]]
    /\ \A i \in 0..n : f[i] \in X[i]

LEMMA Climb ==
    ASSUME NEW n \in Nat, NEW R, NEW X \in [0..n -> SUBSET R], NEW x0 \in X[0], NEW step,
           Steps(n, X, step)
    PROVE  \E f \in [0..n -> R] : Climbs(f, n, X, x0, step)
  <1> USE DEF Steps, Climbs
  <1> DEFINE good(f, m) == /\ f[0] = x0 /\ \A i \in 1..m : f[i] = step[i][f[i - 1]]
                           /\ \A i \in 0..m : f[i] \in X[i]
             S == {m \in 0..n : \E f : good(f, m)}
  <1>1. 0 \in S
    <2> DEFINE f == [i \in 0..0 |-> x0]
    <2>1. good(f, 0)
      OBVIOUS
    <2> HIDE DEF f, good
    <2> QED
      BY <2>1
  <1>2. ASSUME NEW m \in 1..n, m - 1 \in S PROVE m \in S
    <2>1. PICK f : good(f, m - 1)
      BY <1>2
    <2> DEFINE g == [i \in 0..m |-> IF i = m THEN step[m][f[m - 1]] ELSE f[i]]
    <2>2. step[m][f[m - 1]] \in X[m]
      BY <2>1
    <2>3. \A i \in 0..m : g[i] \in X[i]
      BY <2>1, <2>2
    <2>4. g[0] = x0
      BY <2>1
    <2>5. ASSUME NEW i \in 1..m PROVE g[i] = step[i][g[i - 1]]
      <3>1. i - 1 \in 0..m /\ i - 1 # m /\ g[i - 1] = f[i - 1]
        OBVIOUS
      <3>2. CASE i = m
        BY <3>1, <3>2
      <3>3. CASE i # m
        <4>1. i \in 1..(m - 1) /\ g[i] = f[i]
          BY <3>3
        <4> QED
          BY <2>1, <3>1, <4>1
      <3> QED
        BY <3>2, <3>3
    <2> HIDE DEF g
    <2>6. good(g, m)
      BY <2>3, <2>4, <2>5
    <2> HIDE DEF good
    <2> QED
      BY <2>6
  <1>3. n \in S
    <2> HIDE DEF S
    <2>1. 0..n \subseteq S
      BY <1>1, <1>2, UpTo
    <2> QED
      BY <2>1
  <1>4. PICK f : good(f, n)
    BY <1>3
  <1> DEFINE g == [i \in 0..n |-> f[i]]
  <1>5. g \in [0..n -> R] /\ good(g, n)
    BY <1>4
  <1> HIDE DEF g
  <1> QED
    BY <1>5

-----------------------------------------------------------------------------
(* Values. *)

Heights == 0..MaxDepth
Fields(h) == IF h = 0 THEN {} ELSE [name : Names, value : Trees[h - 1]]

LEMMA HeightsAre ==
    /\ MaxDepth \in Nat /\ MaxDepth # 0 /\ 0 \in Heights /\ MaxDepth \in Heights
    /\ MaxDepth - 1 \in Heights /\ Heights \subseteq Nat
    /\ \A h \in Heights : h # 0 => h - 1 \in Heights /\ h \in 1..MaxDepth
    /\ \A h \in 1..MaxDepth : h \in Heights /\ h - 1 \in Heights /\ h # 0
  BY RecordsAssumption DEF Heights

LEMMA TreesAre ==
    \A h \in Heights : Trees[h] = [kind : Kinds, wrap : Wraps, kids : SUBSET Fields(h)]
  <1> DEFINE next(h, below) ==
               [kind : Kinds, wrap : Wraps,
                kids : SUBSET IF h = 0 THEN {} ELSE [name : Names, value : below]]
             eq(f, m) == f = [h \in 0..m |-> next(h, f[h - 1])]
             S == {m \in Heights : \E f : eq(f, m)}
             c == CHOOSE f : eq(f, MaxDepth)
  <1>1. 0 \in S
    <2> DEFINE f == [h \in 0..0 |-> next(h, {})]
    <2>1. \A x : next(0, x) = next(0, {})
      OBVIOUS
    <2>2. eq(f, 0)
      BY <2>1
    <2> HIDE DEF f, eq
    <2> QED
      BY <2>2, HeightsAre
  <1>2. ASSUME NEW m \in 1..MaxDepth, m - 1 \in S PROVE m \in S
    <2>1. PICK f : eq(f, m - 1)
      BY <1>2
    <2> HIDE DEF next
    <2> DEFINE g == [h \in 0..m |-> IF h = m THEN next(m, f[m - 1]) ELSE f[h]]
    <2>2. ASSUME NEW h \in 0..m PROVE g[h] = next(h, g[h - 1])
      <3>1. CASE h = 0
        <4>1. \A x : next(0, x) = next(0, {})
          BY DEF next
        <4>2. f[0] = next(0, f[0 - 1]) /\ g[0] = f[0]
          BY <2>1
        <4> QED
          BY <3>1, <4>1, <4>2
      <3>2. CASE h # 0 /\ h # m
        <4>1. f[h] = next(h, f[h - 1]) /\ g[h] = f[h] /\ g[h - 1] = f[h - 1]
          BY <2>1, <3>2
        <4> QED
          BY <4>1
      <3>3. CASE h = m
        <4>1. g[h - 1] = f[h - 1] /\ g[h] = next(m, f[m - 1])
          BY <3>3
        <4> QED
          BY <3>3, <4>1
      <3> QED
        BY <3>1, <3>2, <3>3
    <2>3. eq(g, m)
      <3>1. g = [h \in 0..m |-> g[h]]
        OBVIOUS
      <3> HIDE DEF g
      <3> QED
        BY <3>1, <2>2
    <2> HIDE DEF g, eq
    <2> QED
      BY <2>3, HeightsAre
  <1>3. \E f : eq(f, MaxDepth)
    <2> HIDE DEF S, eq
    <2>1. 0..MaxDepth \subseteq S
      BY <1>1, <1>2, UpTo, HeightsAre
    <2>2. MaxDepth \in S
      BY <2>1, HeightsAre
    <2> QED
      BY <2>2 DEF S
  <1>4. eq(c, MaxDepth)
    <2> HIDE DEF eq
    <2> QED
      BY <1>3, Zenon
  <1>5. Trees = [h \in Heights |-> c[h]]
    BY DEF Trees, Heights
  <1> HIDE DEF c
  <1>6. \A h \in Heights : Trees[h] = c[h]
    BY <1>5
  <1>7. \A h \in Heights : c[h] = next(h, c[h - 1])
    BY <1>4 DEF Heights
  <1>8. ASSUME NEW h \in Heights PROVE next(h, c[h - 1]) = next(h, Trees[h - 1])
    <2>1. CASE h = 0
      BY <2>1
    <2>2. CASE h # 0
      <3>1. Trees[h - 1] = c[h - 1]
        BY <1>6, <2>2, HeightsAre
      <3> QED
        BY <3>1
    <2> QED
      BY <2>1, <2>2
  <1> QED
    BY <1>6, <1>7, <1>8 DEF Fields

(* A tree by its parts. *)
LEMMA TreeParts ==
    ASSUME NEW h \in Heights, NEW v \in Trees[h]
    PROVE  /\ v.kind \in Kinds /\ v.wrap \in Wraps /\ v.kids \subseteq Fields(h)
           /\ v = Tree(v.kind, v.wrap, v.kids)
           /\ \A f \in v.kids : /\ h # 0 /\ h - 1 \in Heights
                                /\ f.name \in Names /\ f.value \in Trees[h - 1]
                                /\ f = Field(f.name, f.value)
  <1>1. v \in [kind : Kinds, wrap : Wraps, kids : SUBSET Fields(h)]
    BY TreesAre
  <1>2. ASSUME NEW f \in Fields(h)
        PROVE  /\ h # 0 /\ h - 1 \in Heights /\ f.name \in Names /\ f.value \in Trees[h - 1]
               /\ f = Field(f.name, f.value)
    BY HeightsAre DEF Fields, Field
  <1> QED
    BY <1>1, <1>2 DEF Tree

LEMMA TreeFrom ==
    ASSUME NEW h \in Heights, NEW k \in Kinds, NEW w \in Wraps, NEW K \in SUBSET Fields(h)
    PROVE  Tree(k, w, K) \in Trees[h]
  BY TreesAre DEF Tree

(* A set of fields whose values are parts of a value is one of its height.  *)
LEMMA FieldsFrom ==
    ASSUME NEW h \in Heights, h # 0, NEW k \in Names, NEW v \in Trees[h - 1]
    PROVE  Field(k, v) \in Fields(h)
  BY DEF Fields, Field
LEMMA NoKids == \A v \in Trees[0] : v.kids = {}
  BY HeightsAre, TreeParts

LEMMA LeafIs ==
    \A h \in Heights : \A k \in Labels \cup {"error"} :
       /\ Leaf(k) \in Trees[h] /\ IsLeaf(Leaf(k)) /\ Leaf(k).kind = k
       /\ Leaf(k).kids = {} /\ Leaf(k).wrap = NoWrap
  <1>1. ASSUME NEW h \in Heights, NEW k \in Labels \cup {"error"} PROVE Leaf(k) \in Trees[h]
    <2>1. k \in Kinds /\ NoWrap \in Wraps /\ {} \in SUBSET Fields(h)
      BY DEF Kinds, Wraps
    <2> QED
      BY <2>1, TreeFrom DEF Leaf
  <1>2. ASSUME NEW k \in Labels \cup {"error"} PROVE IsLeaf(Leaf(k))
    BY DEF IsLeaf, Leaf, Tree, Labels
  <1>3. \A k : Leaf(k).kind = k /\ Leaf(k).kids = {} /\ Leaf(k).wrap = NoWrap
    BY DEF Leaf, Tree
  <1> QED
    BY <1>1, <1>2, <1>3

-----------------------------------------------------------------------------
(* What the recursive functions are. *)

LEMMA MapDeepIs ==
    ASSUME NEW o \in Wraps
    PROVE  \A h \in Heights : \A v \in Trees[h] :
              /\ MapDeep(o)[h][v] \in Trees[h]
              /\ MapDeep(o)[h][v] =
                    IF IsLeaf(v) THEN v
                    ELSE Tree(v.kind, Mapped(v.wrap, o),
                              {Field(f.name, MapDeep(o)[h - 1][f.value]) : f \in v.kids})
  <1> DEFINE body(v, below) ==
               IF IsLeaf(v) THEN v
               ELSE Tree(v.kind, Mapped(v.wrap, o),
                         {Field(f.name, below[f.value]) : f \in v.kids})
             next(h, below) == [v \in Trees[h] |-> body(v, below)]
             X == [h \in 0..MaxDepth |-> [Trees[h] -> Trees[h]]]
             R == UNION {X[h] : h \in 0..MaxDepth}
             step == [h \in 1..MaxDepth |-> [x \in X[h - 1] |-> next(h, x)]]
             x0 == next(0, {})
             eq(f) == f = [h \in 0..MaxDepth |-> next(h, f[h - 1])]
             c == CHOOSE f : eq(f)
  <1>1. ASSUME NEW v \in Trees[0], NEW below PROVE body(v, below) = body(v, {})
    BY NoKids
  <1>2. ASSUME NEW h \in Heights, NEW v \in Trees[h], NEW below,
               h # 0 => below \in [Trees[h - 1] -> Trees[h - 1]]
        PROVE  body(v, below) \in Trees[h]
    <2> DEFINE K == {Field(f.name, below[f.value]) : f \in v.kids}
    <2>1. K \in SUBSET Fields(h)
      BY <1>2, TreeParts, FieldsFrom
    <2>2. Mapped(v.wrap, o) \in Wraps
      BY TreeParts DEF Mapped, Wraps, Options, NoWrap
    <2>3. v.kind \in Kinds
      BY TreeParts
    <2> HIDE DEF K
    <2>4. Tree(v.kind, Mapped(v.wrap, o), K) \in Trees[h]
      BY <2>1, <2>2, <2>3, TreeFrom
    <2> QED
      BY <2>4 DEF K
  <1> HIDE DEF body
  <1>3. \A x : next(0, x) = x0
    BY <1>1
  <1>4. \A h \in 0..MaxDepth : \A x : (h # 0 => x \in X[h - 1]) => next(h, x) \in X[h]
    BY <1>2, HeightsAre DEF Heights
  <1>5. c = [h \in 0..MaxDepth |-> next(h, c[h - 1])]
    <2> HIDE DEF next
    <2>1. X \in [0..MaxDepth -> SUBSET R] /\ MaxDepth \in Nat
      BY HeightsAre
    <2> HIDE DEF X, R
    <2>2. x0 \in X[0]
      BY <1>4, HeightsAre
    <2>3. \A h \in 1..MaxDepth : \A x \in X[h - 1] : step[h][x] = next(h, x)
      OBVIOUS
    <2>4. Steps(MaxDepth, X, step)
      BY <1>4, <2>3 DEF Steps
    <2> HIDE DEF step, x0
    <2>5. PICK f \in [0..MaxDepth -> R] : Climbs(f, MaxDepth, X, x0, step)
      BY <2>1, <2>2, <2>4, Climb
    <2>6. ASSUME NEW h \in 0..MaxDepth PROVE f[h] = next(h, f[h - 1])
      <3>1. CASE h = 0
        BY <1>3, <2>5, <3>1 DEF Climbs
      <3>2. CASE h # 0
        BY <2>3, <2>5, <3>2, HeightsAre DEF Climbs
      <3> QED
        BY <3>1, <3>2
    <2>7. eq(f)
      BY <2>5, <2>6
    <2> HIDE DEF eq
    <2>8. eq(c)
      BY <2>7, Zenon
    <2> QED
      BY <2>8 DEF eq
  <1>6. MapDeep(o) = c
    BY DEF MapDeep, Each, next, body
  <1> HIDE DEF c
  <1>7. \A h \in 0..MaxDepth : c[h] = next(h, c[h - 1])
    BY <1>5
  <1>8. \A h \in Heights : c[h] \in X[h]
    <2> DEFINE S == {h \in 0..MaxDepth : c[h] \in X[h]}
    <2> HIDE DEF next, X
    <2>1. 0 \in S /\ \A h \in 1..MaxDepth : h - 1 \in S => h \in S
      BY <1>4, <1>7, HeightsAre
    <2> HIDE DEF S
    <2>2. 0..MaxDepth \subseteq S
      BY <2>1, UpTo, HeightsAre
    <2> QED
      BY <2>2 DEF S, Heights
  <1>9. \A h \in Heights : \A v \in Trees[h] : c[h][v] = body(v, c[h - 1]) /\ c[h][v] \in Trees[h]
    BY <1>7, <1>8 DEF next, X, Heights
  <1>10. \A h \in Heights : \A v \in Trees[h] :
            /\ MapDeep(o)[h][v] \in Trees[h]
            /\ MapDeep(o)[h][v] = body(v, MapDeep(o)[h - 1])
    BY <1>6, <1>9
  <1> QED
    BY <1>10 DEF body

LEMMA KidPlaceIs ==
    \A at \in Places : \A v, k : KidPlace(at, v, k) \in Places
  <1>1. ASSUME NEW at \in Places, NEW v, NEW k PROVE KidPlace(at, v, k) \in Places
    <2> DEFINE S == Closure(at.schemas)
    <2>1. at.label \in Labels
      BY DEF Places
    <2>2. ItemNodes(S) \subseteq Nodes /\ FieldNodes(S, k) \subseteq Nodes
      BY DEF ItemNodes, FieldNodes
    <2>3. Label(S, k, at.label) \in Labels
      BY <2>1 DEF Label, Labels
    <2> QED
      BY <2>1, <2>2, <2>3 DEF KidPlace, Places
  <1> QED
    BY <1>1

LEMMA LabelledIs ==
    \A h \in Heights : \A at \in Places : \A v \in Trees[h] :
              /\ Labelled[h][at][v] \in Trees[h]
              /\ Labelled[h][at][v] =
                    IF IsLeaf(v) THEN Leaf(at.label)
                    ELSE Tree(v.kind, v.wrap,
                              {Field(f.name, Labelled[h - 1][KidPlace(at, v, f.name)][f.value]) : f \in v.kids})
  <1> DEFINE body(at, v, below) ==
               IF IsLeaf(v) THEN Leaf(at.label)
               ELSE Tree(v.kind, v.wrap,
                         {Field(f.name, below[KidPlace(at, v, f.name)][f.value]) : f \in v.kids})
             next(h, below) == [at \in Places |-> [v \in Trees[h] |-> body(at, v, below)]]
             X == [h \in 0..MaxDepth |-> [Places -> [Trees[h] -> Trees[h]]]]
             R == UNION {X[h] : h \in 0..MaxDepth}
             step == [h \in 1..MaxDepth |-> [x \in X[h - 1] |-> next(h, x)]]
             x0 == next(0, {})
             eq(f) == f = [h \in 0..MaxDepth |-> next(h, f[h - 1])]
             c == CHOOSE f : eq(f)
  <1>1. ASSUME NEW at \in Places, NEW v \in Trees[0], NEW below
        PROVE  body(at, v, below) = body(at, v, {})
    BY NoKids
  <1>2. ASSUME NEW h \in Heights, NEW at \in Places, NEW v \in Trees[h], NEW below,
               h # 0 => below \in [Places -> [Trees[h - 1] -> Trees[h - 1]]]
        PROVE  body(at, v, below) \in Trees[h]
    <2> DEFINE K == {Field(f.name, below[KidPlace(at, v, f.name)][f.value]) : f \in v.kids}
    <2>1. K \in SUBSET Fields(h)
      BY <1>2, TreeParts, FieldsFrom, KidPlaceIs
    <2>2. v.kind \in Kinds /\ v.wrap \in Wraps
      BY TreeParts
    <2> HIDE DEF K
    <2>3. Tree(v.kind, v.wrap, K) \in Trees[h]
      BY <2>1, <2>2, TreeFrom
    <2>4. Leaf(at.label) \in Trees[h]
      BY LeafIs DEF Places
    <2> QED
      BY <2>3, <2>4 DEF K
  <1> HIDE DEF body
  <1>3. \A x : next(0, x) = x0
    BY <1>1
  <1>4. \A h \in 0..MaxDepth : \A x : (h # 0 => x \in X[h - 1]) => next(h, x) \in X[h]
    BY <1>2, HeightsAre DEF Heights
  <1>5. c = [h \in 0..MaxDepth |-> next(h, c[h - 1])]
    <2> HIDE DEF next
    <2>1. X \in [0..MaxDepth -> SUBSET R] /\ MaxDepth \in Nat
      BY HeightsAre
    <2> HIDE DEF X, R
    <2>2. x0 \in X[0]
      BY <1>4, HeightsAre
    <2>3. \A h \in 1..MaxDepth : \A x \in X[h - 1] : step[h][x] = next(h, x)
      OBVIOUS
    <2>4. Steps(MaxDepth, X, step)
      BY <1>4, <2>3 DEF Steps
    <2> HIDE DEF step, x0
    <2>5. PICK f \in [0..MaxDepth -> R] : Climbs(f, MaxDepth, X, x0, step)
      BY <2>1, <2>2, <2>4, Climb
    <2>6. ASSUME NEW h \in 0..MaxDepth PROVE f[h] = next(h, f[h - 1])
      <3>1. CASE h = 0
        BY <1>3, <2>5, <3>1 DEF Climbs
      <3>2. CASE h # 0
        BY <2>3, <2>5, <3>2, HeightsAre DEF Climbs
      <3> QED
        BY <3>1, <3>2
    <2>7. eq(f)
      BY <2>5, <2>6
    <2> HIDE DEF eq
    <2>8. eq(c)
      BY <2>7, Zenon
    <2> QED
      BY <2>8 DEF eq
  <1>6. Labelled = c
    BY DEF Labelled, next, body
  <1> HIDE DEF c
  <1>7. \A h \in 0..MaxDepth : c[h] = next(h, c[h - 1])
    BY <1>5
  <1>8. \A h \in Heights : c[h] \in X[h]
    <2> DEFINE S == {h \in 0..MaxDepth : c[h] \in X[h]}
    <2> HIDE DEF next, X
    <2>1. 0 \in S /\ \A h \in 1..MaxDepth : h - 1 \in S => h \in S
      BY <1>4, <1>7, HeightsAre
    <2> HIDE DEF S
    <2>2. 0..MaxDepth \subseteq S
      BY <2>1, UpTo, HeightsAre
    <2> QED
      BY <2>2 DEF S, Heights
  <1>9. ASSUME NEW h \in Heights, NEW at \in Places, NEW v \in Trees[h]
        PROVE  c[h][at][v] = body(at, v, c[h - 1]) /\ c[h][at][v] \in Trees[h]
    <2>1. c[h] = next(h, c[h - 1]) /\ c[h] \in [Places -> [Trees[h] -> Trees[h]]]
      BY <1>7, <1>8 DEF Heights
    <2> HIDE DEF X
    <2> QED
      BY <2>1
  <1>10. QED
    <2> SUFFICES ASSUME NEW h \in Heights, NEW at \in Places, NEW v \in Trees[h]
                 PROVE  Labelled[h][at][v] = body(at, v, Labelled[h - 1]) /\ Labelled[h][at][v] \in Trees[h]
      BY DEF body
    <2> QED
      BY <1>6, <1>9

LEMMA LeavesAre ==
    \A h \in Heights : \A v \in Trees[h] :
              /\ Leaves[h][v] \subseteq Kinds
              /\ Leaves[h][v] =
                    IF IsLeaf(v) THEN {v.kind} ELSE UNION {Leaves[h - 1][f.value] : f \in v.kids}
  <1> DEFINE body(v, below) ==
               IF IsLeaf(v) THEN {v.kind} ELSE UNION {below[f.value] : f \in v.kids}
             next(h, below) == [v \in Trees[h] |-> body(v, below)]
             X == [h \in 0..MaxDepth |-> [Trees[h] -> SUBSET Kinds]]
             R == UNION {X[h] : h \in 0..MaxDepth}
             step == [h \in 1..MaxDepth |-> [x \in X[h - 1] |-> next(h, x)]]
             x0 == next(0, {})
             eq(f) == f = [h \in 0..MaxDepth |-> next(h, f[h - 1])]
             c == CHOOSE f : eq(f)
  <1>1. ASSUME NEW v \in Trees[0], NEW below PROVE body(v, below) = body(v, {})
    BY NoKids
  <1>2. ASSUME NEW h \in Heights, NEW v \in Trees[h], NEW below,
               h # 0 => below \in [Trees[h - 1] -> SUBSET Kinds]
        PROVE  body(v, below) \in SUBSET Kinds
    BY <1>2, TreeParts
  <1> HIDE DEF body
  <1>3. \A x : next(0, x) = x0
    BY <1>1
  <1>4. \A h \in 0..MaxDepth : \A x : (h # 0 => x \in X[h - 1]) => next(h, x) \in X[h]
    BY <1>2, HeightsAre DEF Heights
  <1>5. c = [h \in 0..MaxDepth |-> next(h, c[h - 1])]
    <2> HIDE DEF next
    <2>1. X \in [0..MaxDepth -> SUBSET R] /\ MaxDepth \in Nat
      BY HeightsAre
    <2> HIDE DEF X, R
    <2>2. x0 \in X[0]
      BY <1>4, HeightsAre
    <2>3. \A h \in 1..MaxDepth : \A x \in X[h - 1] : step[h][x] = next(h, x)
      OBVIOUS
    <2>4. Steps(MaxDepth, X, step)
      BY <1>4, <2>3 DEF Steps
    <2> HIDE DEF step, x0
    <2>5. PICK f \in [0..MaxDepth -> R] : Climbs(f, MaxDepth, X, x0, step)
      BY <2>1, <2>2, <2>4, Climb
    <2>6. ASSUME NEW h \in 0..MaxDepth PROVE f[h] = next(h, f[h - 1])
      <3>1. CASE h = 0
        BY <1>3, <2>5, <3>1 DEF Climbs
      <3>2. CASE h # 0
        BY <2>3, <2>5, <3>2, HeightsAre DEF Climbs
      <3> QED
        BY <3>1, <3>2
    <2>7. eq(f)
      BY <2>5, <2>6
    <2> HIDE DEF eq
    <2>8. eq(c)
      BY <2>7, Zenon
    <2> QED
      BY <2>8 DEF eq
  <1>6. Leaves = c
    BY DEF Leaves, next, body
  <1> HIDE DEF c
  <1>7. \A h \in 0..MaxDepth : c[h] = next(h, c[h - 1])
    BY <1>5
  <1>8. \A h \in Heights : c[h] \in X[h]
    <2> DEFINE S == {h \in 0..MaxDepth : c[h] \in X[h]}
    <2> HIDE DEF next, X
    <2>1. 0 \in S /\ \A h \in 1..MaxDepth : h - 1 \in S => h \in S
      BY <1>4, <1>7, HeightsAre
    <2> HIDE DEF S
    <2>2. 0..MaxDepth \subseteq S
      BY <2>1, UpTo, HeightsAre
    <2> QED
      BY <2>2 DEF S, Heights
  <1>9. ASSUME NEW h \in Heights, NEW v \in Trees[h]
        PROVE  c[h][v] = body(v, c[h - 1]) /\ c[h][v] \subseteq Kinds
    <2>1. c[h] = next(h, c[h - 1]) /\ c[h] \in [Trees[h] -> SUBSET Kinds]
      BY <1>7, <1>8 DEF Heights
    <2> HIDE DEF X
    <2> QED
      BY <2>1
  <1>10. QED
    <2> SUFFICES ASSUME NEW h \in Heights, NEW v \in Trees[h]
                 PROVE  Leaves[h][v] = body(v, Leaves[h - 1]) /\ Leaves[h][v] \subseteq Kinds
      BY DEF body
    <2> QED
      BY <1>6, <1>9

LEMMA RebuiltIs ==
    ASSUME NEW h \in Heights, NEW v \in Trees[h], NEW K \in SUBSET Fields(h)
    PROVE  /\ Rebuilt(v, K) \in Trees[h] /\ Rebuilt(v, K).kind = v.kind /\ Rebuilt(v, K).kids = K
           /\ Rebuilt(v, K).wrap \in {v.wrap, NoWrap}
  <1>1. v.kind \in Kinds /\ NoWrap \in Wraps
    BY TreeParts DEF Wraps
  <1>2. Tree(v.kind, NoWrap, K) \in Trees[h]
    BY <1>1, TreeFrom
  <1> QED
    BY <1>2 DEF Rebuilt, Tree

LEMMA BelowIs ==
    ASSUME NEW h \in Heights, NEW v \in Trees[h], NEW reading, DOMAIN reading \subseteq Nat,
           NEW below, h # 0 => below \in [Nat -> [Trees[h - 1] -> Trees[h - 1]]],
           NEW f \in v.kids, NEW s
    PROVE  Below(below, reading, f, s) \in Fields(h)
  <1>1. /\ h # 0 /\ f.name \in Names /\ f.value \in Trees[h - 1] /\ f = Field(f.name, f.value)
        /\ f \in Fields(h)
    BY TreeParts
  <1>2. ASSUME s \in DOMAIN reading PROVE Field(f.name, below[s][f.value]) \in Fields(h)
    <2>1. below[s][f.value] \in Trees[h - 1]
      BY <1>1, <1>2
    <2> QED
      BY <1>1, <2>1, FieldsFrom
  <1> QED
    BY <1>1, <1>2 DEF Below

(* The fields that stripping a value leaves. *)
Stripped(become, reading, n, v, keepPrivate) ==
    {Below(become, reading, f, KidSchema(reading[n], v, f.name)) :
       f \in {x \in v.kids : StripKeeps(reading[n], v, x.name, keepPrivate)}}

LEMMA StripIs ==
    ASSUME NEW reading, DOMAIN reading \subseteq Nat, NEW keepPrivate
    PROVE  \A h \in Heights : \A n \in Nat : \A v \in Trees[h] :
              /\ Strip(reading, keepPrivate)[h][n][v] =
                    IF IsLeaf(v) THEN v
                    ELSE Rebuilt(v, Stripped(Strip(reading, keepPrivate)[h - 1], reading, n, v, keepPrivate))
              /\ Strip(reading, keepPrivate)[h][n][v] \in Trees[h]
  <1> DEFINE body(n, v, below) ==
               IF IsLeaf(v) THEN v
               ELSE Rebuilt(v, Stripped(below, reading, n, v, keepPrivate))
             next(h, below) == [n \in Nat |-> [v \in Trees[h] |-> body(n, v, below)]]
             X == [h \in 0..MaxDepth |-> [Nat -> [Trees[h] -> Trees[h]]]]
             R == UNION {X[h] : h \in 0..MaxDepth}
             step == [h \in 1..MaxDepth |-> [x \in X[h - 1] |-> next(h, x)]]
             x0 == next(0, {})
             eq(f) == f = [h \in 0..MaxDepth |-> next(h, f[h - 1])]
             c == CHOOSE f : eq(f)
  <1>1. ASSUME NEW n \in Nat, NEW v \in Trees[0], NEW below
        PROVE  body(n, v, below) = body(n, v, {})
    BY NoKids DEF Stripped
  <1>2. ASSUME NEW h \in Heights, NEW n \in Nat, NEW v \in Trees[h], NEW below,
               h # 0 => below \in [Nat -> [Trees[h - 1] -> Trees[h - 1]]]
        PROVE  body(n, v, below) \in Trees[h]
    <2> DEFINE K == Stripped(below, reading, n, v, keepPrivate)
    <2>1. K \in SUBSET Fields(h)
      <3>1. ASSUME NEW f \in v.kids, NEW s PROVE Below(below, reading, f, s) \in Fields(h)
        BY <1>2, BelowIs
      <3> QED
        BY <3>1 DEF Stripped
    <2> HIDE DEF K
    <2>2. Rebuilt(v, K) \in Trees[h]
      BY <2>1, RebuiltIs
    <2> QED
      BY <2>2 DEF K
  <1> HIDE DEF body
  <1>3. \A x : next(0, x) = x0
    BY <1>1
  <1>4. \A h \in 0..MaxDepth : \A x : (h # 0 => x \in X[h - 1]) => next(h, x) \in X[h]
    BY <1>2, HeightsAre DEF Heights
  <1>5. c = [h \in 0..MaxDepth |-> next(h, c[h - 1])]
    <2> HIDE DEF next
    <2>1. X \in [0..MaxDepth -> SUBSET R] /\ MaxDepth \in Nat
      BY HeightsAre
    <2> HIDE DEF X, R
    <2>2. x0 \in X[0]
      BY <1>4, HeightsAre
    <2>3. \A h \in 1..MaxDepth : \A x \in X[h - 1] : step[h][x] = next(h, x)
      OBVIOUS
    <2>4. Steps(MaxDepth, X, step)
      BY <1>4, <2>3 DEF Steps
    <2> HIDE DEF step, x0
    <2>5. PICK f \in [0..MaxDepth -> R] : Climbs(f, MaxDepth, X, x0, step)
      BY <2>1, <2>2, <2>4, Climb
    <2>6. ASSUME NEW h \in 0..MaxDepth PROVE f[h] = next(h, f[h - 1])
      <3>1. CASE h = 0
        BY <1>3, <2>5, <3>1 DEF Climbs
      <3>2. CASE h # 0
        BY <2>3, <2>5, <3>2, HeightsAre DEF Climbs
      <3> QED
        BY <3>1, <3>2
    <2>7. eq(f)
      BY <2>5, <2>6
    <2> HIDE DEF eq
    <2>8. eq(c)
      BY <2>7, Zenon
    <2> QED
      BY <2>8 DEF eq
  <1>6. Strip(reading, keepPrivate) = c
    BY DEF Strip, Stripped, next, body
  <1> HIDE DEF c
  <1>7. \A h \in 0..MaxDepth : c[h] = next(h, c[h - 1])
    BY <1>5
  <1>8. \A h \in Heights : c[h] \in X[h]
    <2> DEFINE S == {h \in 0..MaxDepth : c[h] \in X[h]}
    <2> HIDE DEF next, X
    <2>1. 0 \in S /\ \A h \in 1..MaxDepth : h - 1 \in S => h \in S
      BY <1>4, <1>7, HeightsAre
    <2> HIDE DEF S
    <2>2. 0..MaxDepth \subseteq S
      BY <2>1, UpTo, HeightsAre
    <2> QED
      BY <2>2 DEF S, Heights
  <1>9. ASSUME NEW h \in Heights, NEW n \in Nat, NEW v \in Trees[h]
        PROVE  c[h][n][v] = body(n, v, c[h - 1]) /\ c[h][n][v] \in Trees[h]
    <2>1. c[h] = next(h, c[h - 1]) /\ c[h] \in [Nat -> [Trees[h] -> Trees[h]]]
      BY <1>7, <1>8 DEF Heights
    <2> HIDE DEF X
    <2> QED
      BY <2>1
  <1>10. QED
    <2> SUFFICES ASSUME NEW h \in Heights, NEW n \in Nat, NEW v \in Trees[h]
                 PROVE  /\ Strip(reading, keepPrivate)[h][n][v] = body(n, v, Strip(reading, keepPrivate)[h - 1])
                        /\ Strip(reading, keepPrivate)[h][n][v] \in Trees[h]
      BY DEF body
    <2> QED
      BY <1>6, <1>9

LEMMA ToldDomain == DOMAIN Told = Nodes /\ DOMAIN Told \subseteq Nat
  BY RecordsAssumption DEF Told, Reading, Nodes

(* The fields that zod leaves. *)
ParsedKids(become, n, v) ==
    {Below(become, Told, f, KidSchema(Told[n], v, f.name)) :
       f \in {x \in v.kids : v.kind = "list" \/ Described(Told[n], x.name)}}

LEMMA ParsedIs ==
    \A h \in Heights : \A n \in Nat : \A v \in Trees[h] :
       /\ Parsed[h][n][v] =
            IF IsLeaf(v) \/ (v.kind = "object" /\ ~Told[n].shaped) THEN v
            ELSE Tree(v.kind, NoWrap, ParsedKids(Parsed[h - 1], n, v))
       /\ Parsed[h][n][v] \in Trees[h]
  <1> DEFINE body(n, v, below) ==
               IF IsLeaf(v) \/ (v.kind = "object" /\ ~Told[n].shaped) THEN v
               ELSE Tree(v.kind, NoWrap, ParsedKids(below, n, v))
             next(h, below) == [n \in Nat |-> [v \in Trees[h] |-> body(n, v, below)]]
             X == [h \in 0..MaxDepth |-> [Nat -> [Trees[h] -> Trees[h]]]]
             R == UNION {X[h] : h \in 0..MaxDepth}
             step == [h \in 1..MaxDepth |-> [x \in X[h - 1] |-> next(h, x)]]
             x0 == next(0, {})
             eq(f) == f = [h \in 0..MaxDepth |-> next(h, f[h - 1])]
             c == CHOOSE f : eq(f)
  <1>1. ASSUME NEW n \in Nat, NEW v \in Trees[0], NEW below
        PROVE  body(n, v, below) = body(n, v, {})
    BY NoKids DEF ParsedKids
  <1>2. ASSUME NEW h \in Heights, NEW n \in Nat, NEW v \in Trees[h], NEW below,
               h # 0 => below \in [Nat -> [Trees[h - 1] -> Trees[h - 1]]]
        PROVE  body(n, v, below) \in Trees[h]
    <2> DEFINE K == ParsedKids(below, n, v)
    <2>1. K \in SUBSET Fields(h)
      <3>1. ASSUME NEW f \in v.kids, NEW s PROVE Below(below, Told, f, s) \in Fields(h)
        BY <1>2, BelowIs, ToldDomain
      <3> QED
        BY <3>1 DEF ParsedKids
    <2>2. v.kind \in Kinds /\ NoWrap \in Wraps
      BY TreeParts DEF Wraps
    <2> HIDE DEF K
    <2>3. Tree(v.kind, NoWrap, K) \in Trees[h]
      BY <2>1, <2>2, TreeFrom
    <2> QED
      BY <2>3 DEF K
  <1> HIDE DEF body
  <1>3. \A x : next(0, x) = x0
    BY <1>1
  <1>4. \A h \in 0..MaxDepth : \A x : (h # 0 => x \in X[h - 1]) => next(h, x) \in X[h]
    BY <1>2, HeightsAre DEF Heights
  <1>5. c = [h \in 0..MaxDepth |-> next(h, c[h - 1])]
    <2> HIDE DEF next
    <2>1. X \in [0..MaxDepth -> SUBSET R] /\ MaxDepth \in Nat
      BY HeightsAre
    <2> HIDE DEF X, R
    <2>2. x0 \in X[0]
      BY <1>4, HeightsAre
    <2>3. \A h \in 1..MaxDepth : \A x \in X[h - 1] : step[h][x] = next(h, x)
      OBVIOUS
    <2>4. Steps(MaxDepth, X, step)
      BY <1>4, <2>3 DEF Steps
    <2> HIDE DEF step, x0
    <2>5. PICK f \in [0..MaxDepth -> R] : Climbs(f, MaxDepth, X, x0, step)
      BY <2>1, <2>2, <2>4, Climb
    <2>6. ASSUME NEW h \in 0..MaxDepth PROVE f[h] = next(h, f[h - 1])
      <3>1. CASE h = 0
        BY <1>3, <2>5, <3>1 DEF Climbs
      <3>2. CASE h # 0
        BY <2>3, <2>5, <3>2, HeightsAre DEF Climbs
      <3> QED
        BY <3>1, <3>2
    <2>7. eq(f)
      BY <2>5, <2>6
    <2> HIDE DEF eq
    <2>8. eq(c)
      BY <2>7, Zenon
    <2> QED
      BY <2>8 DEF eq
  <1>6. Parsed = c
    BY DEF Parsed, ParsedKids, next, body
  <1> HIDE DEF c
  <1>7. \A h \in 0..MaxDepth : c[h] = next(h, c[h - 1])
    BY <1>5
  <1>8. \A h \in Heights : c[h] \in X[h]
    <2> DEFINE S == {h \in 0..MaxDepth : c[h] \in X[h]}
    <2> HIDE DEF next, X
    <2>1. 0 \in S /\ \A h \in 1..MaxDepth : h - 1 \in S => h \in S
      BY <1>4, <1>7, HeightsAre
    <2> HIDE DEF S
    <2>2. 0..MaxDepth \subseteq S
      BY <2>1, UpTo, HeightsAre
    <2> QED
      BY <2>2 DEF S, Heights
  <1>9. ASSUME NEW h \in Heights, NEW n \in Nat, NEW v \in Trees[h]
        PROVE  c[h][n][v] = body(n, v, c[h - 1]) /\ c[h][n][v] \in Trees[h]
    <2>1. c[h] = next(h, c[h - 1]) /\ c[h] \in [Nat -> [Trees[h] -> Trees[h]]]
      BY <1>7, <1>8 DEF Heights
    <2> HIDE DEF X
    <2> QED
      BY <2>1
  <1>10. QED
    <2> SUFFICES ASSUME NEW h \in Heights, NEW n \in Nat, NEW v \in Trees[h]
                 PROVE  /\ Parsed[h][n][v] = body(n, v, Parsed[h - 1])
                        /\ Parsed[h][n][v] \in Trees[h]
      BY DEF body
    <2> QED
      BY <1>6, <1>9

LEMMA ValidatedIs ==
    ASSUME NEW h \in Heights, NEW m \in Models, NEW v \in Trees[h], NEW keepPrivate, NEW ok
    PROVE  StripExcluded(h, m, v, keepPrivate) \in Trees[h] /\ Validated(h, m, v, keepPrivate, ok) \in Trees[h]
  <1>1. Roots[m] \in Nat
    BY RecordsAssumption
  <1>2. StripExcluded(h, m, v, keepPrivate) \in Trees[h]
    BY <1>1, StripIs, ToldDomain DEF StripExcluded
  <1> QED
    BY <1>1, <1>2, ParsedIs, LeafIs DEF Validated, Error

LEMMA UnwrappedIs ==
    \A h \in Heights : \A v \in Trees[h] :
       /\ Unwrapped(v) \in Trees[h] /\ Unwrapped(v).kind = v.kind
       /\ Unwrapped(v).kids = v.kids /\ Unwrapped(v).wrap = NoWrap
       /\ v.wrap = NoWrap => Unwrapped(v) = v
  <1>1. ASSUME NEW h \in Heights, NEW v \in Trees[h] PROVE Unwrapped(v) \in Trees[h]
    <2>1. v.kind \in Kinds /\ NoWrap \in Wraps /\ v.kids \in SUBSET Fields(h)
      BY TreeParts DEF Wraps
    <2> QED
      BY <2>1, TreeFrom DEF Unwrapped
  <1>2. \A v : /\ Unwrapped(v).kind = v.kind /\ Unwrapped(v).kids = v.kids
               /\ Unwrapped(v).wrap = NoWrap
    BY DEF Unwrapped, Tree
  <1>3. \A h \in Heights : \A v \in Trees[h] : v.wrap = NoWrap => Unwrapped(v) = v
    BY TreeParts DEF Unwrapped
  <1> QED
    BY <1>1, <1>2, <1>3

LEMMA ToJSONIs ==
    ASSUME NEW h \in Heights, NEW v \in Trees[h], v.wrap # NoWrap, NEW ok
    PROVE  v.wrap.model \in Models /\ Source(h, v, ok) \in Trees[h] /\ ToJSON(h, v, ok) \in Trees[h]
  <1>1. v.wrap.model \in Models
    BY TreeParts DEF Wraps, Options
  <1>2. Source(h, v, ok) \in Trees[h]
    BY <1>1, UnwrappedIs, ValidatedIs DEF Source
  <1> QED
    BY <1>1, <1>2, ValidatedIs DEF ToJSON

LEMMA SentIs ==
    ASSUME NEW ok
    PROVE  \A h \in Heights : \A v \in Trees[h] : Sent(h, v, ok) \in Trees[h]
  BY ToJSONIs DEF Sent

LEMMA JsonIs ==
    ASSUME NEW ok
    PROVE  \A h \in Heights : \A v \in Trees[h] :
              /\ \A w : w = Sent(h, v, ok) =>
                    Json(ok)[h][v] =
                      IF IsLeaf(w) THEN w
                      ELSE Tree(w.kind, w.wrap, Each(Json(ok)[h - 1], w))
              /\ Json(ok)[h][v] \in Trees[h]
  <1> DEFINE body(w, below) ==
               IF IsLeaf(w) THEN w
               ELSE Tree(w.kind, w.wrap, Each(below, w))
             next(h, below) == [v \in Trees[h] |-> body(Sent(h, v, ok), below)]
             X == [h \in 0..MaxDepth |-> [Trees[h] -> Trees[h]]]
             R == UNION {X[h] : h \in 0..MaxDepth}
             step == [h \in 1..MaxDepth |-> [x \in X[h - 1] |-> next(h, x)]]
             x0 == next(0, {})
             eq(f) == f = [h \in 0..MaxDepth |-> next(h, f[h - 1])]
             c == CHOOSE f : eq(f)
  <1>1. ASSUME NEW v \in Trees[0], NEW below
        PROVE  body(Sent(0, v, ok), below) = body(Sent(0, v, ok), {})
    <2>1. Sent(0, v, ok).kids = {}
      BY SentIs, NoKids, HeightsAre
    <2> QED
      BY <2>1 DEF Each
  <1>2. ASSUME NEW h \in Heights, NEW v \in Trees[h], NEW below,
               h # 0 => below \in [Trees[h - 1] -> Trees[h - 1]]
        PROVE  body(Sent(h, v, ok), below) \in Trees[h]
    <2> DEFINE w == Sent(h, v, ok)
               K == Each(below, w)
    <2>1. w \in Trees[h]
      BY SentIs
    <2> HIDE DEF w
    <2>2. K \in SUBSET Fields(h)
      BY <1>2, <2>1, TreeParts, FieldsFrom DEF Each
    <2>3. w.kind \in Kinds /\ w.wrap \in Wraps
      BY <2>1, TreeParts
    <2> HIDE DEF K
    <2>4. Tree(w.kind, w.wrap, K) \in Trees[h]
      BY <2>2, <2>3, TreeFrom
    <2> QED
      BY <2>1, <2>4 DEF K, w
  <1> HIDE DEF body
  <1>3. \A x : next(0, x) = x0
    BY <1>1
  <1>4. \A h \in 0..MaxDepth : \A x : (h # 0 => x \in X[h - 1]) => next(h, x) \in X[h]
    BY <1>2, HeightsAre DEF Heights
  <1>5. c = [h \in 0..MaxDepth |-> next(h, c[h - 1])]
    <2> HIDE DEF next
    <2>1. X \in [0..MaxDepth -> SUBSET R] /\ MaxDepth \in Nat
      BY HeightsAre
    <2> HIDE DEF X, R
    <2>2. x0 \in X[0]
      BY <1>4, HeightsAre
    <2>3. \A h \in 1..MaxDepth : \A x \in X[h - 1] : step[h][x] = next(h, x)
      OBVIOUS
    <2>4. Steps(MaxDepth, X, step)
      BY <1>4, <2>3 DEF Steps
    <2> HIDE DEF step, x0
    <2>5. PICK f \in [0..MaxDepth -> R] : Climbs(f, MaxDepth, X, x0, step)
      BY <2>1, <2>2, <2>4, Climb
    <2>6. ASSUME NEW h \in 0..MaxDepth PROVE f[h] = next(h, f[h - 1])
      <3>1. CASE h = 0
        BY <1>3, <2>5, <3>1 DEF Climbs
      <3>2. CASE h # 0
        BY <2>3, <2>5, <3>2, HeightsAre DEF Climbs
      <3> QED
        BY <3>1, <3>2
    <2>7. eq(f)
      BY <2>5, <2>6
    <2> HIDE DEF eq
    <2>8. eq(c)
      BY <2>7, Zenon
    <2> QED
      BY <2>8 DEF eq
  <1>6. Json(ok) = c
    BY DEF Json, next, body
  <1> HIDE DEF c
  <1>7. \A h \in 0..MaxDepth : c[h] = next(h, c[h - 1])
    BY <1>5
  <1>8. \A h \in Heights : c[h] \in X[h]
    <2> DEFINE S == {h \in 0..MaxDepth : c[h] \in X[h]}
    <2> HIDE DEF next, X
    <2>1. 0 \in S /\ \A h \in 1..MaxDepth : h - 1 \in S => h \in S
      BY <1>4, <1>7, HeightsAre
    <2> HIDE DEF S
    <2>2. 0..MaxDepth \subseteq S
      BY <2>1, UpTo, HeightsAre
    <2> QED
      BY <2>2 DEF S, Heights
  <1>9. ASSUME NEW h \in Heights, NEW v \in Trees[h]
        PROVE  c[h][v] = body(Sent(h, v, ok), c[h - 1]) /\ c[h][v] \in Trees[h]
    <2>1. c[h] = next(h, c[h - 1]) /\ c[h] \in [Trees[h] -> Trees[h]]
      BY <1>7, <1>8 DEF Heights
    <2> HIDE DEF X
    <2> QED
      BY <2>1
  <1>10. QED
    <2> SUFFICES ASSUME NEW h \in Heights, NEW v \in Trees[h], NEW w, w = Sent(h, v, ok)
                 PROVE  /\ Json(ok)[h][v] = body(w, Json(ok)[h - 1])
                        /\ Json(ok)[h][v] \in Trees[h]
      BY DEF body
    <2> QED
      BY <1>6, <1>9

LEMMA KeepsIs ==
    \A h \in Heights : \A json, v \in Trees[h] :
       Keeps[h][json][v] <=>
               IF IsLeaf(v) THEN v.kind = "open" => json = v
               ELSE /\ ~IsLeaf(json)
                    /\ \A f \in v.kids : "open" \in Leaves[h - 1][f.value] =>
                         \E g \in json.kids : g.name = f.name /\ Keeps[h - 1][g.value][f.value]
  <1> DEFINE body(h, json, v, below) ==
               IF IsLeaf(v) THEN v.kind = "open" => json = v
               ELSE /\ ~IsLeaf(json)
                    /\ \A f \in v.kids : "open" \in Leaves[h - 1][f.value] =>
                         \E g \in json.kids : g.name = f.name /\ below[g.value][f.value]
             next(h, below) == [json \in Trees[h] |-> [v \in Trees[h] |-> body(h, json, v, below)]]
             X == [h \in 0..MaxDepth |-> [Trees[h] -> [Trees[h] -> BOOLEAN]]]
             R == UNION {X[h] : h \in 0..MaxDepth}
             step == [h \in 1..MaxDepth |-> [x \in X[h - 1] |-> next(h, x)]]
             x0 == next(0, {})
             eq(f) == f = [h \in 0..MaxDepth |-> next(h, f[h - 1])]
             c == CHOOSE f : eq(f)
  <1>1. ASSUME NEW json \in Trees[0], NEW v \in Trees[0], NEW below
        PROVE  body(0, json, v, below) = body(0, json, v, {})
    BY NoKids
  <1>2. ASSUME NEW h \in Heights, NEW json, NEW v, NEW below
        PROVE  body(h, json, v, below) \in BOOLEAN
    OBVIOUS
  <1> HIDE DEF body
  <1>3. \A x : next(0, x) = x0
    BY <1>1
  <1>4. \A h \in 0..MaxDepth : \A x : (h # 0 => x \in X[h - 1]) => next(h, x) \in X[h]
    BY <1>2, HeightsAre DEF Heights
  <1>5. c = [h \in 0..MaxDepth |-> next(h, c[h - 1])]
    <2> HIDE DEF next
    <2>1. X \in [0..MaxDepth -> SUBSET R] /\ MaxDepth \in Nat
      BY HeightsAre
    <2> HIDE DEF X, R
    <2>2. x0 \in X[0]
      BY <1>4, HeightsAre
    <2>3. \A h \in 1..MaxDepth : \A x \in X[h - 1] : step[h][x] = next(h, x)
      OBVIOUS
    <2>4. Steps(MaxDepth, X, step)
      BY <1>4, <2>3 DEF Steps
    <2> HIDE DEF step, x0
    <2>5. PICK f \in [0..MaxDepth -> R] : Climbs(f, MaxDepth, X, x0, step)
      BY <2>1, <2>2, <2>4, Climb
    <2>6. ASSUME NEW h \in 0..MaxDepth PROVE f[h] = next(h, f[h - 1])
      <3>1. CASE h = 0
        BY <1>3, <2>5, <3>1 DEF Climbs
      <3>2. CASE h # 0
        BY <2>3, <2>5, <3>2, HeightsAre DEF Climbs
      <3> QED
        BY <3>1, <3>2
    <2>7. eq(f)
      BY <2>5, <2>6
    <2> HIDE DEF eq
    <2>8. eq(c)
      BY <2>7, Zenon
    <2> QED
      BY <2>8 DEF eq
  <1>6. Keeps = c
    BY DEF Keeps, next, body
  <1> HIDE DEF c
  <1>7. \A h \in 0..MaxDepth : c[h] = next(h, c[h - 1])
    BY <1>5
  <1>8. \A h \in Heights : c[h] \in X[h]
    <2> DEFINE S == {h \in 0..MaxDepth : c[h] \in X[h]}
    <2> HIDE DEF next, X
    <2>1. 0 \in S /\ \A h \in 1..MaxDepth : h - 1 \in S => h \in S
      BY <1>4, <1>7, HeightsAre
    <2> HIDE DEF S
    <2>2. 0..MaxDepth \subseteq S
      BY <2>1, UpTo, HeightsAre
    <2> QED
      BY <2>2 DEF S, Heights
  <1>9. ASSUME NEW h \in Heights, NEW json \in Trees[h], NEW v \in Trees[h]
        PROVE  c[h][json][v] = body(h, json, v, c[h - 1])
    <2>1. c[h] = next(h, c[h - 1])
      BY <1>7 DEF Heights
    <2> QED
      BY <2>1
  <1>10. QED
    <2> SUFFICES ASSUME NEW h \in Heights, NEW json \in Trees[h], NEW v \in Trees[h]
                 PROVE  Keeps[h][json][v] <=> body(h, json, v, Keeps[h - 1])
      BY DEF body
    <2>1. Keeps[h][json][v] = body(h, json, v, Keeps[h - 1])
      BY <1>6, <1>9
    <2>2. body(h, json, v, Keeps[h - 1]) \in BOOLEAN
      BY <1>2
    <2> QED
      BY <2>1, <2>2

LEMMA OnHeights ==
    ASSUME NEW S, \A h \in Heights : (h # 0 => h - 1 \in S) => h \in S
    PROVE  Heights \subseteq S
  <1>1. 0 \in S /\ \A h \in 1..MaxDepth : h - 1 \in S => h \in S
    BY HeightsAre
  <1>2. 0..MaxDepth \subseteq S
    BY <1>1, UpTo, HeightsAre
  <1> QED
    BY <1>2 DEF Heights

LEMMA TreeIs ==
    \A k, w, K : Tree(k, w, K).kind = k /\ Tree(k, w, K).wrap = w /\ Tree(k, w, K).kids = K
  BY DEF Tree

LEMMA FieldIs == \A k, v : Field(k, v).name = k /\ Field(k, v).value = v
  BY DEF Field

-----------------------------------------------------------------------------
(* Values that have their labels. *)

Fixed(h, at, v) == Labelled[h][at][v] = v

LEMMA KidPlaceKind ==
    \A at, v, w, k : v.kind = w.kind => KidPlace(at, v, k) = KidPlace(at, w, k)
  BY DEF KidPlace

LEMMA LabelledTwice ==
    \A h \in Heights : \A at \in Places : \A v \in Trees[h] : Fixed(h, at, Labelled[h][at][v])
  <1> DEFINE P(h) == \A at \in Places : \A v \in Trees[h] : Fixed(h, at, Labelled[h][at][v])
             S == {h \in Heights : P(h)}
  <1>1. ASSUME NEW h \in Heights, h # 0 => P(h - 1),
               NEW at \in Places, NEW v \in Trees[h]
        PROVE  Fixed(h, at, Labelled[h][at][v])
    <2> DEFINE w == Labelled[h][at][v]
    <2>1. w \in Trees[h]
      BY LabelledIs
    <2>2. CASE IsLeaf(v)
      <3>1. w = Leaf(at.label) /\ at.label \in Labels
        BY <2>2, LabelledIs DEF Places
      <3>2. IsLeaf(w)
        BY <3>1, LeafIs
      <3> QED
        BY <2>1, <3>1, <3>2, LabelledIs DEF Fixed
    <2>3. CASE ~IsLeaf(v)
      <3> DEFINE K == {Field(f.name, Labelled[h - 1][KidPlace(at, v, f.name)][f.value]) : f \in v.kids}
      <3>1. w = Tree(v.kind, v.wrap, K)
        BY <2>3, LabelledIs
      <3>2. w.kind = v.kind /\ w.wrap = v.wrap /\ w.kids = K /\ ~IsLeaf(w)
        BY <2>3, <3>1, TreeIs DEF IsLeaf
      <3>3. ASSUME NEW g \in K
            PROVE  Field(g.name, Labelled[h - 1][KidPlace(at, w, g.name)][g.value]) = g
        <4>1. PICK f \in v.kids : g = Field(f.name, Labelled[h - 1][KidPlace(at, v, f.name)][f.value])
          OBVIOUS
        <4> DEFINE kp == KidPlace(at, v, f.name)
        <4>2. kp \in Places /\ h # 0 /\ f.value \in Trees[h - 1]
          BY KidPlaceIs, TreeParts
        <4>3. Fixed(h - 1, kp, Labelled[h - 1][kp][f.value])
          BY <1>1, <4>2
        <4>4. KidPlace(at, w, g.name) = kp /\ g.name = f.name
          BY <3>2, <4>1, KidPlaceKind, FieldIs
        <4> QED
          BY <4>1, <4>3, <4>4, FieldIs DEF Fixed
      <3> HIDE DEF K, w
      <3>4. K = {Field(g.name, Labelled[h - 1][KidPlace(at, w, g.name)][g.value]) : g \in K}
        BY <3>3
      <3>5. Labelled[h][at][w] = Tree(w.kind, w.wrap, K)
        <4>1. Labelled[h][at][w] = Tree(w.kind, w.wrap,
                {Field(g.name, Labelled[h - 1][KidPlace(at, w, g.name)][g.value]) : g \in w.kids})
          BY <2>1, <3>2, LabelledIs
        <4> QED
          BY <3>2, <3>4, <4>1
      <3> QED
        BY <3>1, <3>2, <3>5 DEF Fixed, w
    <2> QED
      BY <2>2, <2>3
  <1> HIDE DEF P
  <1>2. \A h \in Heights : (h # 0 => h - 1 \in S) => h \in S
    BY <1>1 DEF P
  <1> HIDE DEF S
  <1> QED
    BY <1>2, OnHeights DEF S, P

LEMMA FixedParts ==
    ASSUME NEW h \in Heights, NEW at \in Places, NEW v \in Trees[h], Fixed(h, at, v)
    PROVE  /\ IsLeaf(v) => v = Leaf(at.label)
           /\ ~IsLeaf(v) => \A f \in v.kids : Fixed(h - 1, KidPlace(at, v, f.name), f.value)
  <1>1. IsLeaf(v) => v = Leaf(at.label)
    BY LabelledIs DEF Fixed
  <1>2. ASSUME ~IsLeaf(v), NEW g \in v.kids PROVE Fixed(h - 1, KidPlace(at, v, g.name), g.value)
    <2> DEFINE K == {Field(f.name, Labelled[h - 1][KidPlace(at, v, f.name)][f.value]) : f \in v.kids}
    <2>1. v = Tree(v.kind, v.wrap, K)
      BY <1>2, LabelledIs DEF Fixed
    <2>2. v.kids = K
      BY <2>1, TreeIs
    <2>3. PICK f \in v.kids : g = Field(f.name, Labelled[h - 1][KidPlace(at, v, f.name)][f.value])
      BY <1>2, <2>2
    <2>4. /\ KidPlace(at, v, f.name) \in Places /\ h - 1 \in Heights /\ f.value \in Trees[h - 1]
          /\ g.name = f.name /\ g.value = Labelled[h - 1][KidPlace(at, v, f.name)][f.value]
      BY <2>3, KidPlaceIs, TreeParts, FieldIs
    <2> QED
      BY <2>4, LabelledTwice
  <1> QED
    BY <1>1, <1>2

LEMMA FixedFrom ==
    ASSUME NEW h \in Heights, NEW at \in Places, NEW v \in Trees[h],
           IsLeaf(v) => v = Leaf(at.label),
           ~IsLeaf(v) => \A f \in v.kids : Fixed(h - 1, KidPlace(at, v, f.name), f.value)
    PROVE  Fixed(h, at, v)
  <1>1. CASE IsLeaf(v)
    BY <1>1, LabelledIs DEF Fixed
  <1>2. CASE ~IsLeaf(v)
    <2> DEFINE K == {Field(f.name, Labelled[h - 1][KidPlace(at, v, f.name)][f.value]) : f \in v.kids}
    <2>1. ASSUME NEW f \in v.kids
          PROVE  Field(f.name, Labelled[h - 1][KidPlace(at, v, f.name)][f.value]) = f
      BY <1>2, TreeParts DEF Fixed
    <2>2. K = v.kids
      BY <2>1
    <2>3. Labelled[h][at][v] = Tree(v.kind, v.wrap, K)
      BY <1>2, LabelledIs
    <2> HIDE DEF K
    <2> QED
      BY <2>2, <2>3, TreeParts DEF Fixed
  <1> QED
    BY <1>1, <1>2

-----------------------------------------------------------------------------
(* Values without wrappers. *)

Bare(h, v) == MapDeep(NoWrap)[h][v] = v

LEMMA NoWrapIs == NoWrap \in Wraps
  BY DEF Wraps

(* Unwrapping undoes any replacement of wrappers, so it does it once for all. *)
LEMMA UnwrapMapped ==
    ASSUME NEW o \in Wraps
    PROVE  \A h \in Heights : \A v \in Trees[h] :
              MapDeep(NoWrap)[h][MapDeep(o)[h][v]] = MapDeep(NoWrap)[h][v]
  <1> DEFINE P(h) == \A v \in Trees[h] : MapDeep(NoWrap)[h][MapDeep(o)[h][v]] = MapDeep(NoWrap)[h][v]
             S == {h \in Heights : P(h)}
  <1>1. ASSUME NEW h \in Heights, h # 0 => P(h - 1), NEW v \in Trees[h]
        PROVE  MapDeep(NoWrap)[h][MapDeep(o)[h][v]] = MapDeep(NoWrap)[h][v]
    <2>1. CASE IsLeaf(v)
      BY <2>1, MapDeepIs, NoWrapIs
    <2>2. CASE ~IsLeaf(v)
      <3> DEFINE w == MapDeep(o)[h][v]
                 K == {Field(f.name, MapDeep(o)[h - 1][f.value]) : f \in v.kids}
                 U == {Field(f.name, MapDeep(NoWrap)[h - 1][f.value]) : f \in v.kids}
                 UK == {Field(g.name, MapDeep(NoWrap)[h - 1][g.value]) : g \in K}
      <3>1. w = Tree(v.kind, Mapped(v.wrap, o), K) /\ w \in Trees[h]
        BY <2>2, MapDeepIs
      <3>2. w.kind = v.kind /\ w.kids = K /\ ~IsLeaf(w)
        BY <2>2, <3>1, TreeIs DEF IsLeaf
      <3>3. ASSUME NEW f \in v.kids
            PROVE  LET g == Field(f.name, MapDeep(o)[h - 1][f.value]) IN
                   Field(g.name, MapDeep(NoWrap)[h - 1][g.value])
                     = Field(f.name, MapDeep(NoWrap)[h - 1][f.value])
        BY <1>1, TreeParts, FieldIs
      <3>4. UK = U
        BY <3>3
      <3> HIDE DEF w, K
      <3>5. MapDeep(NoWrap)[h][w] = Tree(w.kind, Mapped(w.wrap, NoWrap), UK)
        BY <3>1, <3>2, MapDeepIs, NoWrapIs
      <3>6. MapDeep(NoWrap)[h][v] = Tree(v.kind, Mapped(v.wrap, NoWrap), U)
        BY <2>2, MapDeepIs, NoWrapIs
      <3>7. \A x : Mapped(x, NoWrap) = NoWrap
        BY DEF Mapped
      <3> QED
        BY <3>2, <3>4, <3>5, <3>6, <3>7 DEF w
    <2> QED
      BY <2>1, <2>2
  <1> HIDE DEF P
  <1>2. \A h \in Heights : (h # 0 => h - 1 \in S) => h \in S
    BY <1>1 DEF P
  <1> HIDE DEF S
  <1> QED
    BY <1>2, OnHeights DEF S, P

LEMMA UnwrapTwice ==
    \A h \in Heights : \A v \in Trees[h] :
       /\ MapDeep(NoWrap)[h][v] \in Trees[h] /\ Bare(h, MapDeep(NoWrap)[h][v])
  BY UnwrapMapped, NoWrapIs, MapDeepIs DEF Bare

LEMMA BareParts ==
    ASSUME NEW h \in Heights, NEW v \in Trees[h], Bare(h, v), ~IsLeaf(v)
    PROVE  v.wrap = NoWrap /\ \A f \in v.kids : Bare(h - 1, f.value)
  <1> DEFINE K == {Field(f.name, MapDeep(NoWrap)[h - 1][f.value]) : f \in v.kids}
  <1>1. v = Tree(v.kind, Mapped(v.wrap, NoWrap), K)
    BY MapDeepIs, NoWrapIs DEF Bare
  <1>2. v.wrap = NoWrap
    BY <1>1, TreeIs DEF Mapped
  <1>3. v.kids = K
    BY <1>1, TreeIs
  <1>4. ASSUME NEW g \in v.kids PROVE Bare(h - 1, g.value)
    <2>1. PICK f \in v.kids : g = Field(f.name, MapDeep(NoWrap)[h - 1][f.value])
      BY <1>3
    <2>2. h - 1 \in Heights /\ f.value \in Trees[h - 1] /\ g.value = MapDeep(NoWrap)[h - 1][f.value]
      BY <2>1, TreeParts, FieldIs
    <2> QED
      BY <2>2, UnwrapTwice
  <1> QED
    BY <1>2, <1>4

LEMMA BareFrom ==
    ASSUME NEW h \in Heights, NEW v \in Trees[h],
           ~IsLeaf(v) => v.wrap = NoWrap /\ \A f \in v.kids : Bare(h - 1, f.value)
    PROVE  Bare(h, v)
  <1>1. CASE IsLeaf(v)
    BY <1>1, MapDeepIs, NoWrapIs DEF Bare
  <1>2. CASE ~IsLeaf(v)
    <2> DEFINE K == {Field(f.name, MapDeep(NoWrap)[h - 1][f.value]) : f \in v.kids}
    <2>1. ASSUME NEW f \in v.kids PROVE Field(f.name, MapDeep(NoWrap)[h - 1][f.value]) = f
      BY <1>2, TreeParts DEF Bare
    <2>2. K = v.kids
      BY <2>1
    <2>3. MapDeep(NoWrap)[h][v] = Tree(v.kind, NoWrap, K)
      <3>1. MapDeep(NoWrap)[h][v] = Tree(v.kind, Mapped(v.wrap, NoWrap), K)
        BY <1>2, MapDeepIs, NoWrapIs
      <3>2. Mapped(v.wrap, NoWrap) = NoWrap
        BY DEF Mapped
      <3> QED
        BY <3>1, <3>2
    <2> HIDE DEF K
    <2> QED
      BY <1>2, <2>2, <2>3, TreeParts DEF Bare
  <1> QED
    BY <1>1, <1>2

(* A value without wrappers is not changed by other wrappers either.        *)
LEMMA MapBare ==
    ASSUME NEW o \in Wraps
    PROVE  \A h \in Heights : \A v \in Trees[h] : Bare(h, v) => MapDeep(o)[h][v] = v
  <1> DEFINE P(h) == \A v \in Trees[h] : Bare(h, v) => MapDeep(o)[h][v] = v
             S == {h \in Heights : P(h)}
  <1>1. ASSUME NEW h \in Heights, h # 0 => P(h - 1), NEW v \in Trees[h], Bare(h, v)
        PROVE  MapDeep(o)[h][v] = v
    <2>1. CASE IsLeaf(v)
      BY <2>1, MapDeepIs
    <2>2. CASE ~IsLeaf(v)
      <3> DEFINE K == {Field(f.name, MapDeep(o)[h - 1][f.value]) : f \in v.kids}
      <3>1. v.wrap = NoWrap /\ \A f \in v.kids : Bare(h - 1, f.value)
        BY <1>1, <2>2, BareParts
      <3>2. ASSUME NEW f \in v.kids PROVE Field(f.name, MapDeep(o)[h - 1][f.value]) = f
        BY <1>1, <3>1, TreeParts
      <3>3. K = v.kids
        BY <3>2
      <3>4. MapDeep(o)[h][v] = Tree(v.kind, NoWrap, K)
        BY <2>2, <3>1, MapDeepIs DEF Mapped
      <3> HIDE DEF K
      <3> QED
        BY <3>1, <3>3, <3>4, TreeParts
    <2> QED
      BY <2>1, <2>2
  <1> HIDE DEF P
  <1>2. \A h \in Heights : (h # 0 => h - 1 \in S) => h \in S
    BY <1>1 DEF P
  <1> HIDE DEF S
  <1> QED
    BY <1>2, OnHeights DEF S, P

LEMMA JsonPlain ==
    ASSUME NEW ok, NEW h \in Heights, NEW v \in Trees[h], v.wrap = NoWrap
    PROVE  Json(ok)[h][v] =
             IF IsLeaf(v) THEN v ELSE Tree(v.kind, v.wrap, Each(Json(ok)[h - 1], v))
  <1>1. v = Sent(h, v, ok)
    BY DEF Sent
  <1> QED
    BY <1>1, JsonIs

(* A record without wrappers serialises to itself. *)
LEMMA JsonBare ==
    ASSUME NEW ok
    PROVE  \A h \in Heights : \A at \in Places : \A v \in Trees[h] :
              Fixed(h, at, v) /\ Bare(h, v) => Json(ok)[h][v] = v
  <1> DEFINE P(h) == \A at \in Places : \A v \in Trees[h] :
                        Fixed(h, at, v) /\ Bare(h, v) => Json(ok)[h][v] = v
             S == {h \in Heights : P(h)}
  <1>1. ASSUME NEW h \in Heights, h # 0 => P(h - 1), NEW at \in Places, NEW v \in Trees[h],
               Fixed(h, at, v), Bare(h, v)
        PROVE  Json(ok)[h][v] = v
    <2>1. CASE IsLeaf(v)
      <3>1. at.label \in Labels /\ v = Leaf(at.label)
        BY <1>1, <2>1, FixedParts DEF Places
      <3>2. v.wrap = NoWrap
        BY <3>1, LeafIs
      <3> QED
        BY <2>1, <3>2, JsonPlain
    <2>2. CASE ~IsLeaf(v)
      <3> DEFINE K == Each(Json(ok)[h - 1], v)
      <3>1. v.wrap = NoWrap /\ \A f \in v.kids : Bare(h - 1, f.value)
        BY <1>1, <2>2, BareParts
      <3>2. ASSUME NEW f \in v.kids PROVE Field(f.name, Json(ok)[h - 1][f.value]) = f
        <4>1. Fixed(h - 1, KidPlace(at, v, f.name), f.value) /\ KidPlace(at, v, f.name) \in Places
          BY <1>1, <2>2, FixedParts, KidPlaceIs
        <4> QED
          BY <1>1, <3>1, <4>1, TreeParts
      <3>3. K = v.kids
        BY <3>2 DEF Each
      <3>4. Json(ok)[h][v] = Tree(v.kind, v.wrap, K)
        BY <2>2, <3>1, JsonPlain
      <3> HIDE DEF K
      <3> QED
        BY <3>3, <3>4, TreeParts
    <2> QED
      BY <2>1, <2>2
  <1> HIDE DEF P
  <1>2. \A h \in Heights : (h # 0 => h - 1 \in S) => h \in S
    BY <1>1 DEF P
  <1> HIDE DEF S
  <1> QED
    BY <1>2, OnHeights DEF S, P

-----------------------------------------------------------------------------
(* The leaves of a labelled value. *)

LEMMA LabelledLeaves ==
    ASSUME NEW h \in Heights, NEW at \in Places, NEW v \in Trees[h]
    PROVE  /\ IsLeaf(v) => Leaves[h][Labelled[h][at][v]] = {at.label}
           /\ ~IsLeaf(v) =>
                \A l : l \in Leaves[h][Labelled[h][at][v]] <=>
                         \E f \in v.kids :
                            l \in Leaves[h - 1][Labelled[h - 1][KidPlace(at, v, f.name)][f.value]]
  <1> DEFINE w == Labelled[h][at][v]
  <1>1. w \in Trees[h]
    BY LabelledIs
  <1>2. ASSUME IsLeaf(v) PROVE Leaves[h][w] = {at.label}
    <2>1. w = Leaf(at.label) /\ at.label \in Labels
      BY <1>2, LabelledIs DEF Places
    <2>2. IsLeaf(w) /\ w.kind = at.label
      BY <2>1, LeafIs
    <2> HIDE DEF w
    <2> QED
      BY <1>1, <2>2, LeavesAre
  <1>3. ASSUME ~IsLeaf(v), NEW l
        PROVE  l \in Leaves[h][w] <=>
                 \E f \in v.kids : l \in Leaves[h - 1][Labelled[h - 1][KidPlace(at, v, f.name)][f.value]]
    <2> DEFINE K == {Field(f.name, Labelled[h - 1][KidPlace(at, v, f.name)][f.value]) : f \in v.kids}
    <2>1. w = Tree(v.kind, v.wrap, K)
      BY <1>3, LabelledIs
    <2>2. w.kids = K /\ ~IsLeaf(w)
      BY <1>3, <2>1, TreeIs DEF IsLeaf
    <2> HIDE DEF w
    <2>3. Leaves[h][w] = UNION {Leaves[h - 1][g.value] : g \in w.kids}
      BY <1>1, <2>2, LeavesAre
    <2>4. l \in Leaves[h][w] <=> \E g \in K : l \in Leaves[h - 1][g.value]
      BY <2>2, <2>3
    <2>5. ASSUME NEW g \in K, l \in Leaves[h - 1][g.value]
          PROVE  \E f \in v.kids : l \in Leaves[h - 1][Labelled[h - 1][KidPlace(at, v, f.name)][f.value]]
      <3>1. PICK f \in v.kids : g = Field(f.name, Labelled[h - 1][KidPlace(at, v, f.name)][f.value])
        OBVIOUS
      <3>2. g.value = Labelled[h - 1][KidPlace(at, v, f.name)][f.value]
        BY <3>1, FieldIs
      <3> QED
        BY <2>5, <3>2
    <2>6. ASSUME NEW f \in v.kids, l \in Leaves[h - 1][Labelled[h - 1][KidPlace(at, v, f.name)][f.value]]
          PROVE  \E g \in K : l \in Leaves[h - 1][g.value]
      <3> DEFINE g == Field(f.name, Labelled[h - 1][KidPlace(at, v, f.name)][f.value])
      <3>1. g \in K
        OBVIOUS
      <3>2. g.value = Labelled[h - 1][KidPlace(at, v, f.name)][f.value]
        BY FieldIs
      <3> HIDE DEF g, K
      <3> QED
        BY <2>6, <3>1, <3>2
    <2> HIDE DEF K
    <2> QED
      BY <2>4, <2>5, <2>6
  <1> QED
    BY <1>2, <1>3 DEF w

(* Below a field that is not open, or that no schema describes, nothing     *)
(* changes.                                                                 *)
Settled(at) == at.label # "open" \/ at.schemas = {}

LEMMA SettledBelow ==
    ASSUME NEW at \in Places, Settled(at), NEW v, NEW k
    PROVE  Settled(KidPlace(at, v, k)) /\ KidPlace(at, v, k).label = at.label
  <1>1. Closure({}) = {}
    BY DEF Closure
  <1>2. PropertyNodes({}, k) = {} /\ PatternNodes({}, k) = {} /\ FurtherNodes({}) = {}
    BY DEF PropertyNodes, PatternNodes, FurtherNodes
  <1>3. ItemNodes({}) = {} /\ FieldNodes({}, k) = {}
    BY <1>2 DEF ItemNodes, FieldNodes
  <1>4. ~Secret({}, k) /\ Known({}, k)
    BY <1>1, <1>2 DEF Secret, Known
  <1>5. CASE at.label # "open"
    BY <1>5 DEF Settled, KidPlace, Label
  <1>6. CASE at.label = "open" /\ at.schemas = {}
    BY <1>1, <1>3, <1>4, <1>6 DEF Settled, KidPlace, Label
  <1> QED
    BY <1>5, <1>6 DEF Settled

LEMMA SettledLeaves ==
    \A h \in Heights : \A at \in Places : \A v \in Trees[h] :
       Settled(at) => Leaves[h][Labelled[h][at][v]] \subseteq {at.label}
  <1> DEFINE P(h) == \A at \in Places : \A v \in Trees[h] :
                        Settled(at) => Leaves[h][Labelled[h][at][v]] \subseteq {at.label}
             S == {h \in Heights : P(h)}
  <1>1. ASSUME NEW h \in Heights, h # 0 => P(h - 1), NEW at \in Places, NEW v \in Trees[h], Settled(at)
        PROVE  Leaves[h][Labelled[h][at][v]] \subseteq {at.label}
    <2>1. CASE IsLeaf(v)
      BY <2>1, LabelledLeaves
    <2>2. CASE ~IsLeaf(v)
      <3>1. ASSUME NEW f \in v.kids
            PROVE  Leaves[h - 1][Labelled[h - 1][KidPlace(at, v, f.name)][f.value]] \subseteq {at.label}
        <4>1. /\ KidPlace(at, v, f.name) \in Places /\ f.value \in Trees[h - 1] /\ h # 0
              /\ Settled(KidPlace(at, v, f.name)) /\ KidPlace(at, v, f.name).label = at.label
          BY <1>1, KidPlaceIs, TreeParts, SettledBelow
        <4> QED
          BY <1>1, <4>1
      <3> QED
        BY <2>2, <3>1, LabelledLeaves
    <2> QED
      BY <2>1, <2>2
  <1> HIDE DEF P
  <1>2. \A h \in Heights : (h # 0 => h - 1 \in S) => h \in S
    BY <1>1 DEF P
  <1> HIDE DEF S
  <1> QED
    BY <1>2, OnHeights DEF S, P

-----------------------------------------------------------------------------
(* Reducing a value. *)

(* A part of a value: whatever labels the value has, the part has no other  *)
(* leaves, the labels are still right, and no wrapper is new.               *)
Part(h, w, v) ==
    /\ \A at \in Places : Leaves[h][Labelled[h][at][w]] \subseteq Leaves[h][Labelled[h][at][v]]
    /\ \A at \in Places : Fixed(h, at, v) => Fixed(h, at, w)
    /\ Bare(h, v) => Bare(h, w)

LEMMA PartFrom ==
    ASSUME NEW h \in Heights, NEW v \in Trees[h], NEW w \in Trees[h], ~IsLeaf(v),
           w.kind = v.kind, w.wrap \in {v.wrap, NoWrap},
           \A g \in w.kids : \E f \in v.kids : g.name = f.name /\ Part(h - 1, g.value, f.value)
    PROVE  Part(h, w, v)
  <1>1. ~IsLeaf(w)
    BY DEF IsLeaf
  <1>2. ASSUME NEW g \in w.kids
        PROVE  \E f \in v.kids :
                  /\ g.name = f.name /\ Part(h - 1, g.value, f.value)
                  /\ \A at \in Places : /\ KidPlace(at, w, g.name) = KidPlace(at, v, f.name)
                                        /\ KidPlace(at, v, f.name) \in Places
    <2>1. PICK f \in v.kids : g.name = f.name /\ Part(h - 1, g.value, f.value)
      OBVIOUS
    <2> QED
      BY <2>1, KidPlaceKind, KidPlaceIs
  <1>3. ASSUME NEW at \in Places, NEW l \in Leaves[h][Labelled[h][at][w]]
        PROVE  l \in Leaves[h][Labelled[h][at][v]]
    <2>1. PICK g \in w.kids : l \in Leaves[h - 1][Labelled[h - 1][KidPlace(at, w, g.name)][g.value]]
      BY <1>1, <1>3, LabelledLeaves
    <2>2. PICK f \in v.kids :
             /\ g.name = f.name /\ Part(h - 1, g.value, f.value)
             /\ KidPlace(at, w, g.name) = KidPlace(at, v, f.name)
             /\ KidPlace(at, v, f.name) \in Places
      BY <1>2
    <2>3. l \in Leaves[h - 1][Labelled[h - 1][KidPlace(at, v, f.name)][f.value]]
      BY <2>1, <2>2 DEF Part
    <2> QED
      BY <2>3, LabelledLeaves
  <1>4. ASSUME NEW at \in Places, Fixed(h, at, v) PROVE Fixed(h, at, w)
    <2>1. \A f \in v.kids : Fixed(h - 1, KidPlace(at, v, f.name), f.value)
      BY <1>4, FixedParts
    <2>2. ASSUME NEW g \in w.kids PROVE Fixed(h - 1, KidPlace(at, w, g.name), g.value)
      BY <1>2, <2>1 DEF Part
    <2> QED
      BY <1>1, <2>2, FixedFrom
  <1>5. ASSUME Bare(h, v) PROVE Bare(h, w)
    <2>1. v.wrap = NoWrap /\ \A f \in v.kids : Bare(h - 1, f.value)
      BY <1>5, BareParts
    <2>2. w.wrap = NoWrap /\ \A g \in w.kids : Bare(h - 1, g.value)
      BY <2>1 DEF Part
    <2> QED
      BY <2>2, BareFrom
  <1> QED
    BY <1>3, <1>4, <1>5 DEF Part

LEMMA PartSelf == \A h, v : Part(h, v, v)
  BY DEF Part

LEMMA PartOfPart == \A h, u, v, w : Part(h, u, v) /\ Part(h, v, w) => Part(h, u, w)
  BY DEF Part

(* What becomes of a field is a part of it, where what becomes of values is. *)
LEMMA BelowPart ==
    ASSUME NEW h, NEW reading, DOMAIN reading \subseteq Nat, NEW become, NEW f, NEW s,
           \A n \in Nat : Part(h, become[n][f.value], f.value)
    PROVE  /\ Below(become, reading, f, s).name = f.name
           /\ Part(h, Below(become, reading, f, s).value, f.value)
  BY PartSelf, FieldIs DEF Below

LEMMA StripPart ==
    ASSUME NEW reading, DOMAIN reading \subseteq Nat, NEW keepPrivate
    PROVE  \A h \in Heights : \A n \in Nat : \A v \in Trees[h] :
              Part(h, Strip(reading, keepPrivate)[h][n][v], v)
  <1> DEFINE strip(h) == Strip(reading, keepPrivate)[h]
             P(h) == \A n \in Nat : \A v \in Trees[h] : Part(h, strip(h)[n][v], v)
             S == {h \in Heights : P(h)}
  <1>1. ASSUME NEW h \in Heights, h # 0 => P(h - 1), NEW n \in Nat, NEW v \in Trees[h]
        PROVE  Part(h, strip(h)[n][v], v)
    <2>1. CASE IsLeaf(v)
      <3>1. strip(h)[n][v] = v
        BY <2>1, StripIs
      <3> HIDE DEF strip
      <3> QED
        BY <3>1, PartSelf
    <2>2. CASE ~IsLeaf(v)
      <3> DEFINE K == Stripped(strip(h - 1), reading, n, v, keepPrivate)
                 w == strip(h)[n][v]
      <3>1. w = Rebuilt(v, K) /\ w \in Trees[h]
        BY <2>2, StripIs
      <3>2. w.kind = v.kind /\ w.kids = K /\ w.wrap \in {v.wrap, NoWrap}
        BY <3>1 DEF Rebuilt, Tree
      <3>3. ASSUME NEW f \in v.kids, NEW s
            PROVE  /\ Below(strip(h - 1), reading, f, s).name = f.name
                   /\ Part(h - 1, Below(strip(h - 1), reading, f, s).value, f.value)
        <4>1. h # 0 /\ f.value \in Trees[h - 1]
          BY TreeParts
        <4>2. \A m \in Nat : Part(h - 1, strip(h - 1)[m][f.value], f.value)
          BY <1>1, <4>1
        <4> HIDE DEF strip
        <4> QED
          BY <4>2, BelowPart
      <3>4. \A g \in K : \E f \in v.kids : g.name = f.name /\ Part(h - 1, g.value, f.value)
        BY <3>3 DEF Stripped
      <3> HIDE DEF w, K
      <3>5. Part(h, w, v)
        BY <2>2, <3>1, <3>2, <3>4, PartFrom
      <3> QED
        BY <3>5 DEF w
    <2> QED
      BY <2>1, <2>2
  <1> HIDE DEF P
  <1>2. \A h \in Heights : (h # 0 => h - 1 \in S) => h \in S
    BY <1>1 DEF P
  <1> HIDE DEF S
  <1> QED
    BY <1>2, OnHeights DEF S, P

LEMMA ParsedPart ==
    \A h \in Heights : \A n \in Nat : \A v \in Trees[h] : Part(h, Parsed[h][n][v], v)
  <1> DEFINE P(h) == \A n \in Nat : \A v \in Trees[h] : Part(h, Parsed[h][n][v], v)
             S == {h \in Heights : P(h)}
  <1>1. ASSUME NEW h \in Heights, h # 0 => P(h - 1), NEW n \in Nat, NEW v \in Trees[h]
        PROVE  Part(h, Parsed[h][n][v], v)
    <2>1. CASE IsLeaf(v) \/ (v.kind = "object" /\ ~Told[n].shaped)
      BY <2>1, ParsedIs, PartSelf
    <2>2. CASE ~(IsLeaf(v) \/ (v.kind = "object" /\ ~Told[n].shaped))
      <3> DEFINE K == ParsedKids(Parsed[h - 1], n, v)
                 w == Parsed[h][n][v]
      <3>1. w = Tree(v.kind, NoWrap, K) /\ w \in Trees[h]
        BY <2>2, ParsedIs
      <3>2. w.kind = v.kind /\ w.kids = K /\ w.wrap = NoWrap
        BY <3>1, TreeIs
      <3>3. ASSUME NEW f \in v.kids, NEW s
            PROVE  /\ Below(Parsed[h - 1], Told, f, s).name = f.name
                   /\ Part(h - 1, Below(Parsed[h - 1], Told, f, s).value, f.value)
        <4>1. h # 0 /\ f.value \in Trees[h - 1]
          BY TreeParts
        <4>2. \A m \in Nat : Part(h - 1, Parsed[h - 1][m][f.value], f.value)
          BY <1>1, <4>1
        <4> QED
          BY <4>2, BelowPart, ToldDomain
      <3>4. \A g \in K : \E f \in v.kids : g.name = f.name /\ Part(h - 1, g.value, f.value)
        BY <3>3 DEF ParsedKids
      <3> HIDE DEF w, K
      <3>5. Part(h, w, v)
        BY <2>2, <3>1, <3>2, <3>4, PartFrom
      <3> QED
        BY <3>5 DEF w
    <2> QED
      BY <2>1, <2>2
  <1> HIDE DEF P
  <1>2. \A h \in Heights : (h # 0 => h - 1 \in S) => h \in S
    BY <1>1 DEF P
  <1> HIDE DEF S
  <1> QED
    BY <1>2, OnHeights DEF S, P

LEMMA UnwrappedPart ==
    \A h \in Heights : \A v \in Trees[h] : ~IsLeaf(v) => Part(h, Unwrapped(v), v)
  <1>1. ASSUME NEW h \in Heights, NEW v \in Trees[h], ~IsLeaf(v) PROVE Part(h, Unwrapped(v), v)
    BY <1>1, UnwrappedIs, PartFrom, PartSelf
  <1> QED
    BY <1>1

-----------------------------------------------------------------------------
(* A record at the schema it is described by. *)

Exactly(n) == [schemas |-> {n}, label |-> "open"]

LEMMA ExactlyIs ==
    ASSUME NEW n \in Nodes
    PROVE  Exactly(n) \in Places /\ Closure(Exactly(n).schemas) = Near[n]
  BY DEF Exactly, Places, Labels, Closure

(* The place of a field at such a schema, by what is read there. *)
KidAt(at, s, fields, v, k) ==
    /\ at \in Places /\ at.schemas = {s} \cap Nodes
    /\ at.label = "open" => /\ s \in Nodes => at = Exactly(s)
                            /\ s \notin Nodes => Settled(at)
    /\ v.kind = "list" => at.label = "open"
    /\ v.kind # "list" =>
         /\ at.label = "private" <=> k \in fields.private
         /\ at.label = "extra" => ~Described(fields, k)
         /\ at.label = "open" => Described(fields, k)

LEMMA KidExactly ==
    ASSUME AllLegible, NEW n \in Nodes, NEW v, NEW k \in Names
    PROVE  KidAt(KidPlace(Exactly(n), v, k), KidSchema(Told[n], v, k), Told[n], v, k)
  <1> DEFINE at == KidPlace(Exactly(n), v, k)
             s == KidSchema(Told[n], v, k)
             S == Near[n]
  <1>1. /\ k \in Told[n].private <=> Secret(S, k)
        /\ Described(Told[n], k) <=> Known(S, k)
        /\ FieldNodes(S, k) = {SchemaOf(Told[n], k)} \cap Nodes
        /\ ItemNodes(S) = {Told[n].items} \cap Nodes
    BY DEF AllLegible, Legible
  <1>2. Closure(Exactly(n).schemas) = S /\ Exactly(n).label = "open" /\ Exactly(n) \in Places
    BY ExactlyIs DEF Exactly
  <1>3. at \in Places
    BY <1>2, KidPlaceIs
  <1>4. CASE v.kind = "list"
    <2>1. at = [schemas |-> {s} \cap Nodes, label |-> "open"]
      BY <1>1, <1>2, <1>4 DEF KidPlace, KidSchema
    <2>2. at.label = "open" /\ at.schemas = {s} \cap Nodes
      BY <2>1
    <2>3. ASSUME s \in Nodes PROVE at = Exactly(s)
      <3> HIDE DEF s, at
      <3>1. {s} \cap Nodes = {s}
        BY <2>3
      <3> QED
        BY <2>1, <3>1 DEF Exactly
    <2>4. s \notin Nodes => Settled(at)
      BY <2>2 DEF Settled
    <2> HIDE DEF at, s
    <2>5. KidAt(at, s, Told[n], v, k)
      BY <1>3, <1>4, <2>2, <2>3, <2>4 DEF KidAt
    <2> QED
      BY <2>5 DEF at, s
  <1>5. CASE v.kind # "list"
    <2>1. at = [schemas |-> {s} \cap Nodes, label |-> Label(S, k, "open")]
      BY <1>1, <1>2, <1>5 DEF KidPlace, KidSchema
    <2>2. at.label = Label(S, k, "open") /\ at.schemas = {s} \cap Nodes
      BY <2>1
    <2>3. ASSUME at.label = "open", s \in Nodes PROVE at = Exactly(s)
      <3>1. Label(S, k, "open") = "open"
        BY <2>2, <2>3
      <3> HIDE DEF s, at
      <3>2. {s} \cap Nodes = {s}
        BY <2>3
      <3> QED
        BY <2>1, <3>1, <3>2 DEF Exactly
    <2>4. s \notin Nodes => Settled(at)
      BY <2>2 DEF Settled
    <2>5. /\ at.label = "private" <=> Secret(S, k)
          /\ at.label = "extra" => ~Known(S, k)
          /\ at.label = "open" => Known(S, k)
      <3> HIDE DEF at
      <3> QED
        BY <2>2 DEF Label
    <2> HIDE DEF at, s
    <2>6. KidAt(at, s, Told[n], v, k)
      BY <1>1, <1>3, <1>5, <2>2, <2>3, <2>4, <2>5 DEF KidAt
    <2> QED
      BY <2>6 DEF at, s
  <1> QED
    BY <1>4, <1>5

(* Stripping takes away every private leaf, and of a value without wrappers *)
(* every leaf that is unknown.                                              *)
Clean(h, n, l, w) == l \notin Leaves[h][Labelled[h][Exactly(n)][w]]

LEMMA StripHides ==
    ASSUME AllLegible, NEW keepPrivate, ~keepPrivate
    PROVE  \A h \in Heights : \A n \in Nodes : \A v \in Trees[h] :
              /\ Clean(h, n, "private", Strip(Told, keepPrivate)[h][n][v])
              /\ Bare(h, v) => Clean(h, n, "extra", Strip(Told, keepPrivate)[h][n][v])
  <1> DEFINE strip(h) == Strip(Told, keepPrivate)[h]
             bad(h, l, v) == l = "private" \/ (l = "extra" /\ Bare(h, v))
             P(h) == \A n \in Nodes : \A v \in Trees[h] : \A l :
                        bad(h, l, v) => Clean(h, n, l, strip(h)[n][v])
             S == {h \in Heights : P(h)}
  <1>1. ASSUME NEW h \in Heights, h # 0 => P(h - 1), NEW n \in Nodes, NEW v \in Trees[h], NEW l,
               bad(h, l, v)
        PROVE  Clean(h, n, l, strip(h)[n][v])
    <2> DEFINE w == strip(h)[n][v]
    <2>1. n \in Nat /\ Exactly(n) \in Places /\ Exactly(n).label = "open" /\ DOMAIN Told \subseteq Nat
      BY ToldDomain, ExactlyIs DEF Exactly
    <2>2. CASE IsLeaf(v)
      <3>1. w = v
        BY <2>1, <2>2, StripIs
      <3> HIDE DEF w
      <3>2. Clean(h, n, l, w)
        <4>1. Leaves[h][Labelled[h][Exactly(n)][v]] = {"open"}
          BY <2>1, <2>2, LabelledLeaves
        <4>2. l # "open"
          BY <1>1
        <4> QED
          BY <3>1, <4>1, <4>2 DEF Clean
      <3> QED
        BY <3>2 DEF w
    <2>3. CASE ~IsLeaf(v)
      <3> DEFINE K == Stripped(strip(h - 1), Told, n, v, keepPrivate)
      <3>1. w = Rebuilt(v, K) /\ w \in Trees[h]
        BY <2>1, <2>3, StripIs
      <3>2. w.kind = v.kind /\ w.kids = K /\ ~IsLeaf(w)
        BY <2>3, <3>1 DEF Rebuilt, Tree, IsLeaf
      <3>3. ASSUME NEW g \in K
            PROVE  l \notin Leaves[h - 1][Labelled[h - 1][KidPlace(Exactly(n), w, g.name)][g.value]]
        <4>1. PICK f \in v.kids :
                 /\ StripKeeps(Told[n], v, f.name, keepPrivate)
                 /\ g = Below(strip(h - 1), Told, f, KidSchema(Told[n], v, f.name))
          BY DEF Stripped
        <4> DEFINE s == KidSchema(Told[n], v, f.name)
                   at == KidPlace(Exactly(n), v, f.name)
        <4>2. h # 0 /\ h - 1 \in Heights /\ f.name \in Names /\ f.value \in Trees[h - 1]
          BY TreeParts
        <4>3. KidAt(at, s, Told[n], v, f.name)
          BY <4>2, KidExactly
        <4>4. g.name = f.name /\ KidPlace(Exactly(n), w, g.name) = at
          BY <3>2, <4>1, FieldIs, KidPlaceKind DEF Below
        <4> HIDE DEF at, s
        <4> USE DEF KidAt
        <4>5. CASE at.label # "open"
          <5>1. v.kind = "object" /\ at.label = "extra"
            <6>1. v.kind # "list" /\ v.kind = "object"
              BY <2>3, <4>3, <4>5 DEF IsLeaf
            <6>2. at.label # "private"
              BY <4>1, <4>3, <6>1 DEF StripKeeps
            <6> QED
              BY <4>3, <4>5, <6>1, <6>2 DEF Places, Labels
          <5>2. l # "extra"
            <6>1. ASSUME Bare(h, v) PROVE FALSE
              <7>1. v.wrap = NoWrap
                BY <2>3, <6>1, BareParts
              <7> QED
                BY <4>1, <4>3, <5>1, <7>1 DEF StripKeeps, Described
            <6> QED
              BY <1>1, <6>1
          <5>3. g.value \in Trees[h - 1]
            BY <3>1, <3>2, TreeParts
          <5> QED
            BY <4>2, <4>3, <4>4, <4>5, <5>1, <5>2, <5>3, SettledLeaves DEF Settled
        <4>6. CASE at.label = "open" /\ s \in Nodes
          <5>1. g.value = strip(h - 1)[s][f.value]
            BY <4>1, <4>6, ToldDomain, FieldIs DEF Below, s
          <5>2. bad(h - 1, l, f.value)
            BY <1>1, <2>3, BareParts
          <5>3. Clean(h - 1, s, l, g.value)
            BY <1>1, <4>2, <4>6, <5>1, <5>2
          <5> QED
            BY <4>3, <4>4, <4>6, <5>3 DEF Clean
        <4>7. CASE at.label = "open" /\ s \notin Nodes
          <5>1. g = f
            BY <4>1, <4>7, ToldDomain DEF Below, s
          <5>2. Leaves[h - 1][Labelled[h - 1][at][f.value]] \subseteq {"open"}
            BY <4>2, <4>3, <4>7, SettledLeaves
          <5> QED
            BY <1>1, <4>4, <5>1, <5>2
        <4> QED
          BY <4>5, <4>6, <4>7
      <3> HIDE DEF w, K
      <3>4. Clean(h, n, l, w)
        <4>1. \A f \in w.kids :
                l \notin Leaves[h - 1][Labelled[h - 1][KidPlace(Exactly(n), w, f.name)][f.value]]
          BY <3>2, <3>3
        <4>2. l \notin Leaves[h][Labelled[h][Exactly(n)][w]]
          BY <2>1, <3>1, <3>2, <4>1, LabelledLeaves
        <4> QED
          BY <4>2 DEF Clean
      <3> QED
        BY <3>4 DEF w
    <2> QED
      BY <2>2, <2>3
  <1> HIDE DEF P
  <1>2. \A h \in Heights : (h # 0 => h - 1 \in S) => h \in S
    BY <1>1 DEF P
  <1> HIDE DEF S
  <1> QED
    BY <1>2, OnHeights DEF S, P

-----------------------------------------------------------------------------
(* What keeps all public leaves. *)

KeepsField(h, w, f) == \E g \in w.kids : g.name = f.name /\ Keeps[h][g.value][f.value]

LEMMA KeepsCases ==
    ASSUME NEW h \in Heights, NEW w \in Trees[h], NEW v \in Trees[h]
    PROVE  /\ IsLeaf(v) => (Keeps[h][w][v] <=> (v.kind = "open" => w = v))
           /\ ~IsLeaf(v) =>
                (Keeps[h][w][v] <=>
                   /\ ~IsLeaf(w)
                   /\ \A f \in v.kids : "open" \in Leaves[h - 1][f.value] => KeepsField(h - 1, w, f))
  BY KeepsIs DEF KeepsField

LEMMA KeepsSelf == \A h \in Heights : \A v \in Trees[h] : Keeps[h][v][v]
  <1> DEFINE P(h) == \A v \in Trees[h] : Keeps[h][v][v]
             S == {h \in Heights : P(h)}
  <1>1. ASSUME NEW h \in Heights, h # 0 => P(h - 1), NEW v \in Trees[h]
        PROVE  Keeps[h][v][v]
    <2>1. CASE IsLeaf(v)
      BY <2>1, KeepsCases
    <2>2. CASE ~IsLeaf(v)
      <3>1. ASSUME NEW f \in v.kids PROVE KeepsField(h - 1, v, f)
        BY <1>1, TreeParts DEF KeepsField
      <3> QED
        BY <2>2, <3>1, KeepsCases
    <2> QED
      BY <2>1, <2>2
  <1> HIDE DEF P
  <1>2. \A h \in Heights : (h # 0 => h - 1 \in S) => h \in S
    BY <1>1 DEF P
  <1> HIDE DEF S
  <1> QED
    BY <1>2, OnHeights DEF S, P

LEMMA OpenKept ==
    \A h \in Heights : \A w, v \in Trees[h] :
       Keeps[h][w][v] /\ "open" \in Leaves[h][v] => "open" \in Leaves[h][w]
  <1> DEFINE P(h) == \A w, v \in Trees[h] :
                        Keeps[h][w][v] /\ "open" \in Leaves[h][v] => "open" \in Leaves[h][w]
             S == {h \in Heights : P(h)}
  <1>1. ASSUME NEW h \in Heights, h # 0 => P(h - 1), NEW w \in Trees[h], NEW v \in Trees[h],
               Keeps[h][w][v], "open" \in Leaves[h][v]
        PROVE  "open" \in Leaves[h][w]
    <2>1. CASE IsLeaf(v)
      <3>1. v.kind = "open"
        <4>1. Leaves[h][v] = {v.kind}
          BY <2>1, LeavesAre
        <4> QED
          BY <1>1, <4>1
      <3>2. w = v
        BY <1>1, <2>1, <3>1, KeepsCases
      <3> QED
        BY <1>1, <3>2
    <2>2. CASE ~IsLeaf(v)
      <3>1. Leaves[h][v] = UNION {Leaves[h - 1][f.value] : f \in v.kids}
        BY <2>2, LeavesAre
      <3>2. PICK f \in v.kids : "open" \in Leaves[h - 1][f.value]
        BY <1>1, <3>1
      <3>3. ~IsLeaf(w) /\ KeepsField(h - 1, w, f)
        BY <1>1, <2>2, <3>2, KeepsCases
      <3>4. PICK g \in w.kids : Keeps[h - 1][g.value][f.value]
        BY <3>3 DEF KeepsField
      <3>5. h # 0 /\ g.value \in Trees[h - 1] /\ f.value \in Trees[h - 1]
        BY TreeParts
      <3>6. "open" \in Leaves[h - 1][g.value]
        BY <1>1, <3>2, <3>4, <3>5
      <3>7. Leaves[h][w] = UNION {Leaves[h - 1][x.value] : x \in w.kids}
        BY <3>3, LeavesAre
      <3> QED
        BY <3>6, <3>7
    <2> QED
      BY <2>1, <2>2
  <1> HIDE DEF P
  <1>2. \A h \in Heights : (h # 0 => h - 1 \in S) => h \in S
    BY <1>1 DEF P
  <1> HIDE DEF S
  <1> QED
    BY <1>2, OnHeights DEF S, P

LEMMA KeepsKept ==
    \A h \in Heights : \A u, v, w \in Trees[h] : Keeps[h][u][v] /\ Keeps[h][v][w] => Keeps[h][u][w]
  <1> DEFINE P(h) == \A u, v, w \in Trees[h] : Keeps[h][u][v] /\ Keeps[h][v][w] => Keeps[h][u][w]
             S == {h \in Heights : P(h)}
  <1>1. ASSUME NEW h \in Heights, h # 0 => P(h - 1),
               NEW u \in Trees[h], NEW v \in Trees[h], NEW w \in Trees[h],
               Keeps[h][u][v], Keeps[h][v][w]
        PROVE  Keeps[h][u][w]
    <2>1. CASE IsLeaf(w)
      <3>1. ASSUME w.kind = "open" PROVE u = w
        <4>1. v = w
          BY <1>1, <2>1, <3>1, KeepsCases
        <4> QED
          BY <1>1, <2>1, <3>1, <4>1, KeepsCases
      <3> QED
        BY <2>1, <3>1, KeepsCases
    <2>2. CASE ~IsLeaf(w)
      <3>1. ~IsLeaf(v)
        BY <1>1, <2>2, KeepsCases
      <3>2. ~IsLeaf(u)
        BY <1>1, <3>1, KeepsCases
      <3>3. ASSUME NEW f \in w.kids, "open" \in Leaves[h - 1][f.value]
            PROVE  KeepsField(h - 1, u, f)
        <4>1. KeepsField(h - 1, v, f)
          BY <1>1, <2>2, <3>3, KeepsCases
        <4>2. PICK g \in v.kids : g.name = f.name /\ Keeps[h - 1][g.value][f.value]
          BY <4>1 DEF KeepsField
        <4>3. h # 0 /\ h - 1 \in Heights /\ g.value \in Trees[h - 1] /\ f.value \in Trees[h - 1]
          BY TreeParts
        <4>4. "open" \in Leaves[h - 1][g.value]
          BY <3>3, <4>2, <4>3, OpenKept
        <4>5. KeepsField(h - 1, u, g)
          BY <1>1, <3>1, <4>4, KeepsCases
        <4>6. PICK e \in u.kids : e.name = g.name /\ Keeps[h - 1][e.value][g.value]
          BY <4>5 DEF KeepsField
        <4>7. e.value \in Trees[h - 1]
          BY TreeParts
        <4>8. Keeps[h - 1][e.value][f.value]
          BY <1>1, <4>2, <4>3, <4>6, <4>7
        <4> QED
          BY <4>2, <4>6, <4>8 DEF KeepsField
      <3> QED
        BY <2>2, <3>2, <3>3, KeepsCases
    <2> QED
      BY <2>1, <2>2
  <1> HIDE DEF P
  <1>2. \A h \in Heights : (h # 0 => h - 1 \in S) => h \in S
    BY <1>1 DEF P
  <1> HIDE DEF S
  <1> QED
    BY <1>2, OnHeights DEF S, P

LEMMA UnwrappedKeeps ==
    \A h \in Heights : \A v \in Trees[h] : ~IsLeaf(v) => Keeps[h][Unwrapped(v)][v]
  <1>1. ASSUME NEW h \in Heights, NEW v \in Trees[h], ~IsLeaf(v) PROVE Keeps[h][Unwrapped(v)][v]
    <2>1. Unwrapped(v) \in Trees[h] /\ Unwrapped(v).kids = v.kids /\ ~IsLeaf(Unwrapped(v))
      BY <1>1, UnwrappedIs DEF IsLeaf
    <2>2. ASSUME NEW f \in v.kids PROVE KeepsField(h - 1, Unwrapped(v), f)
      BY <2>1, TreeParts, KeepsSelf DEF KeepsField
    <2> QED
      BY <1>1, <2>1, <2>2, KeepsCases
  <1> QED
    BY <1>1

(* A field with a public leaf is described and not private.                 *)
LEMMA OpenField ==
    ASSUME AllLegible, NEW h \in Heights, NEW n \in Nodes, NEW v \in Trees[h], ~IsLeaf(v),
           Fixed(h, Exactly(n), v), NEW f \in v.kids, "open" \in Leaves[h - 1][f.value]
    PROVE  /\ v.kind = "object" => f.name \notin Told[n].private /\ Described(Told[n], f.name)
           /\ KidSchema(Told[n], v, f.name) \in Nodes =>
                Fixed(h - 1, Exactly(KidSchema(Told[n], v, f.name)), f.value)
  <1> DEFINE at == KidPlace(Exactly(n), v, f.name)
             s == KidSchema(Told[n], v, f.name)
  <1>1. h - 1 \in Heights /\ f.name \in Names /\ f.value \in Trees[h - 1] /\ Exactly(n) \in Places
    BY TreeParts, ExactlyIs
  <1>2. KidAt(at, s, Told[n], v, f.name)
    BY <1>1, KidExactly
  <1>3. Fixed(h - 1, at, f.value)
    BY <1>1, FixedParts
  <1> HIDE DEF at, s
  <1>4. at.label = "open"
    <2>1. ASSUME at.label # "open" PROVE FALSE
      <3>1. Leaves[h - 1][f.value] \subseteq {at.label}
        BY <1>1, <1>2, <1>3, <2>1, SettledLeaves DEF Settled, Fixed, KidAt
      <3> QED
        BY <2>1, <3>1
    <2> QED
      BY <2>1
  <1>5. v.kind = "object" => f.name \notin Told[n].private /\ Described(Told[n], f.name)
    BY <1>2, <1>4 DEF KidAt
  <1>6. s \in Nodes => Fixed(h - 1, Exactly(s), f.value)
    BY <1>2, <1>3, <1>4 DEF KidAt
  <1> QED
    BY <1>5, <1>6 DEF s

LEMMA StripKeepsOpen ==
    ASSUME AllLegible, NEW keepPrivate
    PROVE  \A h \in Heights : \A n \in Nodes : \A v \in Trees[h] :
              Fixed(h, Exactly(n), v) => Keeps[h][Strip(Told, keepPrivate)[h][n][v]][v]
  <1> DEFINE strip(h) == Strip(Told, keepPrivate)[h]
             P(h) == \A n \in Nodes : \A v \in Trees[h] :
                        Fixed(h, Exactly(n), v) => Keeps[h][strip(h)[n][v]][v]
             S == {h \in Heights : P(h)}
  <1>1. ASSUME NEW h \in Heights, h # 0 => P(h - 1), NEW n \in Nodes, NEW v \in Trees[h],
               Fixed(h, Exactly(n), v)
        PROVE  Keeps[h][strip(h)[n][v]][v]
    <2> DEFINE w == strip(h)[n][v]
    <2>1. n \in Nat /\ DOMAIN Told \subseteq Nat
      BY ToldDomain
    <2>2. CASE IsLeaf(v)
      <3>1. w = v
        BY <2>1, <2>2, StripIs
      <3> HIDE DEF w
      <3>2. Keeps[h][w][v]
        BY <3>1, KeepsSelf
      <3> QED
        BY <3>2 DEF w
    <2>3. CASE ~IsLeaf(v)
      <3> DEFINE K == Stripped(strip(h - 1), Told, n, v, keepPrivate)
      <3>1. w = Rebuilt(v, K) /\ w \in Trees[h]
        BY <2>1, <2>3, StripIs
      <3>2. w.kids = K /\ ~IsLeaf(w)
        BY <2>3, <3>1 DEF Rebuilt, Tree, IsLeaf
      <3>3. ASSUME NEW f \in v.kids, "open" \in Leaves[h - 1][f.value]
            PROVE  KeepsField(h - 1, w, f)
        <4> DEFINE s == KidSchema(Told[n], v, f.name)
                   g == Below(strip(h - 1), Told, f, s)
        <4>1. h # 0 /\ h - 1 \in Heights /\ f.name \in Names /\ f.value \in Trees[h - 1]
          BY TreeParts
        <4>2. /\ v.kind = "object" => f.name \notin Told[n].private /\ Described(Told[n], f.name)
              /\ s \in Nodes => Fixed(h - 1, Exactly(s), f.value)
          BY <1>1, <2>3, <3>3, OpenField
        <4>3. StripKeeps(Told[n], v, f.name, keepPrivate)
          BY <4>2 DEF StripKeeps
        <4>4. g \in K
          BY <4>3 DEF Stripped
        <4> HIDE DEF s
        <4>5. CASE s \in Nodes
          <5>1. g.name = f.name /\ g.value = strip(h - 1)[s][f.value]
            BY <4>5, ToldDomain, FieldIs DEF Below
          <5>2. Keeps[h - 1][strip(h - 1)[s][f.value]][f.value]
            BY <1>1, <4>1, <4>2, <4>5
          <5> HIDE DEF g, K, w
          <5> QED
            BY <3>2, <4>4, <5>1, <5>2 DEF KeepsField
        <4>6. CASE s \notin Nodes
          <5>1. g = f
            BY <4>6, ToldDomain DEF Below
          <5> HIDE DEF g, K, w
          <5> QED
            BY <3>2, <4>1, <4>4, <5>1, KeepsSelf DEF KeepsField
        <4> QED
          BY <4>5, <4>6
      <3> HIDE DEF w, K
      <3>4. Keeps[h][w][v]
        BY <2>3, <3>1, <3>2, <3>3, KeepsCases
      <3> QED
        BY <3>4 DEF w
    <2> QED
      BY <2>2, <2>3
  <1> HIDE DEF P
  <1>2. \A h \in Heights : (h # 0 => h - 1 \in S) => h \in S
    BY <1>1 DEF P
  <1> HIDE DEF S
  <1> QED
    BY <1>2, OnHeights DEF S, P

LEMMA ParsedKeepsOpen ==
    ASSUME AllLegible
    PROVE  \A h \in Heights : \A n \in Nodes : \A v \in Trees[h] :
              Fixed(h, Exactly(n), v) => Keeps[h][Parsed[h][n][v]][v]
  <1> DEFINE P(h) == \A n \in Nodes : \A v \in Trees[h] :
                        Fixed(h, Exactly(n), v) => Keeps[h][Parsed[h][n][v]][v]
             S == {h \in Heights : P(h)}
  <1>1. ASSUME NEW h \in Heights, h # 0 => P(h - 1), NEW n \in Nodes, NEW v \in Trees[h],
               Fixed(h, Exactly(n), v)
        PROVE  Keeps[h][Parsed[h][n][v]][v]
    <2> DEFINE w == Parsed[h][n][v]
    <2>1. n \in Nat
      BY ToldDomain
    <2>2. CASE IsLeaf(v) \/ (v.kind = "object" /\ ~Told[n].shaped)
      <3>1. w = v
        BY <2>1, <2>2, ParsedIs
      <3> HIDE DEF w
      <3>2. Keeps[h][w][v]
        BY <3>1, KeepsSelf
      <3> QED
        BY <3>2 DEF w
    <2>3. CASE ~(IsLeaf(v) \/ (v.kind = "object" /\ ~Told[n].shaped))
      <3> DEFINE K == ParsedKids(Parsed[h - 1], n, v)
      <3>1. w = Tree(v.kind, NoWrap, K) /\ w \in Trees[h]
        BY <2>1, <2>3, ParsedIs
      <3>2. w.kids = K /\ ~IsLeaf(w)
        BY <2>3, <3>1, TreeIs DEF IsLeaf
      <3>3. ASSUME NEW f \in v.kids, "open" \in Leaves[h - 1][f.value]
            PROVE  KeepsField(h - 1, w, f)
        <4> DEFINE s == KidSchema(Told[n], v, f.name)
                   g == Below(Parsed[h - 1], Told, f, s)
        <4>1. h # 0 /\ h - 1 \in Heights /\ f.name \in Names /\ f.value \in Trees[h - 1]
          BY TreeParts
        <4>2. /\ v.kind = "object" => f.name \notin Told[n].private /\ Described(Told[n], f.name)
              /\ s \in Nodes => Fixed(h - 1, Exactly(s), f.value)
          BY <1>1, <2>3, <3>3, OpenField
        <4>3. g \in K
          BY <2>3, <4>2 DEF ParsedKids, IsLeaf
        <4> HIDE DEF s
        <4>4. CASE s \in Nodes
          <5>1. g.name = f.name /\ g.value = Parsed[h - 1][s][f.value]
            BY <4>4, ToldDomain, FieldIs DEF Below
          <5>2. Keeps[h - 1][Parsed[h - 1][s][f.value]][f.value]
            BY <1>1, <4>1, <4>2, <4>4
          <5> HIDE DEF g, K, w
          <5> QED
            BY <3>2, <4>3, <5>1, <5>2 DEF KeepsField
        <4>5. CASE s \notin Nodes
          <5>1. g = f
            BY <4>5, ToldDomain DEF Below
          <5> HIDE DEF g, K, w
          <5> QED
            BY <3>2, <4>1, <4>3, <5>1, KeepsSelf DEF KeepsField
        <4> QED
          BY <4>4, <4>5
      <3> HIDE DEF w, K
      <3>4. Keeps[h][w][v]
        BY <2>3, <3>1, <3>2, <3>3, KeepsCases
      <3> QED
        BY <3>4 DEF w
    <2> QED
      BY <2>2, <2>3
  <1> HIDE DEF P
  <1>2. \A h \in Heights : (h # 0 => h - 1 \in S) => h \in S
    BY <1>1 DEF P
  <1> HIDE DEF S
  <1> QED
    BY <1>2, OnHeights DEF S, P

-----------------------------------------------------------------------------
(* A value may stand deeper or less deep. *)

LEMMA TreesGrow == \A h \in Heights : h # 0 => Trees[h - 1] \subseteq Trees[h]
  <1> DEFINE S == {h \in Heights : h # 0 => Trees[h - 1] \subseteq Trees[h]}
  <1>1. ASSUME NEW h \in Heights, h # 0 => h - 1 \in S, h # 0, NEW v \in Trees[h - 1] PROVE v \in Trees[h]
    <2>1. h - 1 \in Heights /\ (h - 1 # 0 => Trees[h - 1 - 1] \subseteq Trees[h - 1])
      BY <1>1, HeightsAre
    <2>2. /\ v.kind \in Kinds /\ v.wrap \in Wraps /\ v = Tree(v.kind, v.wrap, v.kids)
          /\ v.kids \subseteq Fields(h - 1)
          /\ \A f \in v.kids : /\ h - 1 # 0 /\ f.name \in Names /\ f.value \in Trees[h - 1 - 1]
                               /\ f = Field(f.name, f.value)
      BY <1>1, <2>1, TreeParts
    <2>3. \A f \in v.kids : f \in Fields(h)
      BY <1>1, <2>1, <2>2, FieldsFrom
    <2> QED
      BY <2>2, <2>3, TreeFrom
  <1>2. \A h \in Heights : (h # 0 => h - 1 \in S) => h \in S
    BY <1>1
  <1> HIDE DEF S
  <1> QED
    BY <1>2, OnHeights DEF S

LEMMA LabelledGrow ==
    \A h \in Heights : h # 0 =>
       \A at \in Places : \A v \in Trees[h - 1] : Labelled[h][at][v] = Labelled[h - 1][at][v]
  <1> DEFINE P(h) == h # 0 => \A at \in Places : \A v \in Trees[h - 1] :
                                 Labelled[h][at][v] = Labelled[h - 1][at][v]
             S == {h \in Heights : P(h)}
  <1>1. ASSUME NEW h \in Heights, h # 0 => P(h - 1), h # 0, NEW at \in Places, NEW v \in Trees[h - 1]
        PROVE  Labelled[h][at][v] = Labelled[h - 1][at][v]
    <2>1. h - 1 \in Heights /\ v \in Trees[h]
      BY <1>1, HeightsAre, TreesGrow
    <2>2. CASE IsLeaf(v)
      BY <2>1, <2>2, LabelledIs
    <2>3. CASE ~IsLeaf(v)
      <3> DEFINE K == {Field(f.name, Labelled[h - 1][KidPlace(at, v, f.name)][f.value]) : f \in v.kids}
                 L == {Field(f.name, Labelled[h - 1 - 1][KidPlace(at, v, f.name)][f.value]) : f \in v.kids}
      <3>1. ASSUME NEW f \in v.kids
            PROVE  Labelled[h - 1][KidPlace(at, v, f.name)][f.value]
                     = Labelled[h - 1 - 1][KidPlace(at, v, f.name)][f.value]
        <4>1. h - 1 # 0 /\ f.value \in Trees[h - 1 - 1] /\ KidPlace(at, v, f.name) \in Places
          BY <2>1, TreeParts, KidPlaceIs
        <4> QED
          BY <1>1, <4>1
      <3>2. K = L
        BY <3>1
      <3>3. Labelled[h][at][v] = Tree(v.kind, v.wrap, K)
        BY <2>1, <2>3, LabelledIs
      <3>4. Labelled[h - 1][at][v] = Tree(v.kind, v.wrap, L)
        BY <2>1, <2>3, LabelledIs
      <3> HIDE DEF K, L
      <3> QED
        BY <3>2, <3>3, <3>4
    <2> QED
      BY <2>2, <2>3
  <1> HIDE DEF P
  <1>2. \A h \in Heights : (h # 0 => h - 1 \in S) => h \in S
    BY <1>1 DEF P
  <1> HIDE DEF S
  <1> QED
    BY <1>2, OnHeights DEF S, P

LEMMA MapGrow ==
    ASSUME NEW o \in Wraps
    PROVE  \A h \in Heights : h # 0 => \A v \in Trees[h - 1] : MapDeep(o)[h][v] = MapDeep(o)[h - 1][v]
  <1> DEFINE P(h) == h # 0 => \A v \in Trees[h - 1] : MapDeep(o)[h][v] = MapDeep(o)[h - 1][v]
             S == {h \in Heights : P(h)}
  <1>1. ASSUME NEW h \in Heights, h # 0 => P(h - 1), h # 0, NEW v \in Trees[h - 1]
        PROVE  MapDeep(o)[h][v] = MapDeep(o)[h - 1][v]
    <2>1. h - 1 \in Heights /\ v \in Trees[h]
      BY <1>1, HeightsAre, TreesGrow
    <2>2. CASE IsLeaf(v)
      BY <2>1, <2>2, MapDeepIs
    <2>3. CASE ~IsLeaf(v)
      <3> DEFINE K == {Field(f.name, MapDeep(o)[h - 1][f.value]) : f \in v.kids}
                 L == {Field(f.name, MapDeep(o)[h - 1 - 1][f.value]) : f \in v.kids}
      <3>1. ASSUME NEW f \in v.kids PROVE MapDeep(o)[h - 1][f.value] = MapDeep(o)[h - 1 - 1][f.value]
        <4>1. h - 1 # 0 /\ f.value \in Trees[h - 1 - 1]
          BY <2>1, TreeParts
        <4> QED
          BY <1>1, <4>1
      <3>2. K = L
        BY <3>1
      <3>3. MapDeep(o)[h][v] = Tree(v.kind, Mapped(v.wrap, o), K)
        BY <2>1, <2>3, MapDeepIs
      <3>4. MapDeep(o)[h - 1][v] = Tree(v.kind, Mapped(v.wrap, o), L)
        BY <2>1, <2>3, MapDeepIs
      <3> HIDE DEF K, L
      <3> QED
        BY <3>2, <3>3, <3>4
    <2> QED
      BY <2>2, <2>3
  <1> HIDE DEF P
  <1>2. \A h \in Heights : (h # 0 => h - 1 \in S) => h \in S
    BY <1>1 DEF P
  <1> HIDE DEF S
  <1> QED
    BY <1>2, OnHeights DEF S, P

LEMMA LabelledBare ==
    \A h \in Heights : \A at \in Places : \A v \in Trees[h] :
       Bare(h, v) => Bare(h, Labelled[h][at][v])
  <1> DEFINE P(h) == \A at \in Places : \A v \in Trees[h] : Bare(h, v) => Bare(h, Labelled[h][at][v])
             S == {h \in Heights : P(h)}
  <1>1. ASSUME NEW h \in Heights, h # 0 => P(h - 1), NEW at \in Places, NEW v \in Trees[h], Bare(h, v)
        PROVE  Bare(h, Labelled[h][at][v])
    <2> DEFINE w == Labelled[h][at][v]
    <2>1. w \in Trees[h]
      BY LabelledIs
    <2>2. CASE IsLeaf(v)
      <3>1. w = Leaf(at.label) /\ at.label \in Labels
        BY <2>2, LabelledIs DEF Places
      <3>2. IsLeaf(w)
        BY <3>1, LeafIs
      <3> HIDE DEF w
      <3>3. Bare(h, w)
        BY <2>1, <3>2, BareFrom
      <3> QED
        BY <3>3 DEF w
    <2>3. CASE ~IsLeaf(v)
      <3> DEFINE K == {Field(f.name, Labelled[h - 1][KidPlace(at, v, f.name)][f.value]) : f \in v.kids}
      <3>1. w = Tree(v.kind, v.wrap, K)
        BY <2>3, LabelledIs
      <3>2. w.wrap = NoWrap /\ w.kids = K /\ \A f \in v.kids : Bare(h - 1, f.value)
        BY <1>1, <2>3, <3>1, BareParts, TreeIs
      <3>3. ASSUME NEW g \in K PROVE Bare(h - 1, g.value)
        <4>1. PICK f \in v.kids : g = Field(f.name, Labelled[h - 1][KidPlace(at, v, f.name)][f.value])
          OBVIOUS
        <4>2. /\ h # 0 /\ f.value \in Trees[h - 1] /\ KidPlace(at, v, f.name) \in Places
              /\ g.value = Labelled[h - 1][KidPlace(at, v, f.name)][f.value]
          BY <4>1, TreeParts, KidPlaceIs, FieldIs
        <4> QED
          BY <1>1, <3>2, <4>2
      <3> HIDE DEF w, K
      <3>4. Bare(h, w)
        BY <2>1, <3>2, <3>3, BareFrom
      <3> QED
        BY <3>4 DEF w
    <2> QED
      BY <2>2, <2>3
  <1> HIDE DEF P
  <1>2. \A h \in Heights : (h # 0 => h - 1 \in S) => h \in S
    BY <1>1 DEF P
  <1> HIDE DEF S
  <1> QED
    BY <1>2, OnHeights DEF S, P

-----------------------------------------------------------------------------
(* Records, and the payloads they are put in. *)

(* The height of a record: a payload is one higher.                         *)
Height == MaxDepth - 1

(* A record of a model: every leaf has its label, and the record itself has *)
(* a wrapper of the model or none, and nothing in it has any.               *)
IsRecord(h, m, r) ==
    /\ r \in Trees[h] /\ Fixed(h, At(m), r) /\ Bare(h, Unwrapped(r))
    /\ r.wrap # NoWrap => r.wrap \in Options /\ r.wrap.model = m /\ r.kind = "object"

(* What a service returns: a record, or a payload with a record in a field. *)
Payload(field, w, r) ==
    IF field = "alone" THEN r
    ELSE IF field = "first" THEN List({Field("first", r)})
    ELSE Tree("object", w, {Field("id", Leaf("open")), Field("sub", r)})

LEMMA AtIs == \A m \in Models : At(m) = Exactly(Roots[m]) /\ Roots[m] \in Nodes /\ At(m) \in Places
  BY RecordsAssumption, ExactlyIs DEF At, Exactly

LEMMA HeightIs == Height \in Heights /\ Height = MaxDepth - 1 /\ MaxDepth \in Heights /\ MaxDepth # 0
  BY HeightsAre DEF Height

IsPayload(v, field, w, r) ==
    /\ v \in Trees[MaxDepth] /\ ~IsLeaf(v)
    /\ v.kind = IF field = "first" THEN "list" ELSE "object"
    /\ v.wrap = IF field = "first" THEN NoWrap ELSE w
    /\ v.kids = IF field = "first" THEN {Field("first", r)}
                ELSE {Field("id", Leaf("open")), Field("sub", r)}
    /\ (CHOOSE f \in v.kids : f.name = field).value = r

LEMMA PayloadIs ==
    ASSUME NEW w \in Wraps, NEW r \in Trees[Height], NEW field \in {"first", "sub"}
    PROVE  IsPayload(Payload(field, w, r), field, w, r)
  <1> DEFINE k == IF field = "first" THEN "list" ELSE "object"
             x == IF field = "first" THEN NoWrap ELSE w
             K == IF field = "first" THEN {Field("first", r)}
                  ELSE {Field("id", Leaf("open")), Field("sub", r)}
             v == Payload(field, w, r)
  <1>1. v = Tree(k, x, K)
    BY DEF Payload, List
  <1>2. k \in Kinds /\ x \in Wraps /\ K \in SUBSET Fields(MaxDepth)
    <2>1. "first" \in Names /\ "id" \in Names /\ "sub" \in Names
      BY RecordsAssumption
    <2>2. Leaf("open") \in Trees[Height]
      BY HeightIs, LeafIs DEF Labels
    <2>3. /\ Field("first", r) \in Fields(MaxDepth) /\ Field("sub", r) \in Fields(MaxDepth)
          /\ Field("id", Leaf("open")) \in Fields(MaxDepth)
      BY <2>1, <2>2, HeightIs, FieldsFrom
    <2> QED
      BY <2>3, NoWrapIs DEF Kinds
  <1>3. v \in Trees[MaxDepth] /\ v.kind = k /\ v.wrap = x /\ v.kids = K
    <2> HIDE DEF v, k, x, K
    <2> QED
      BY <1>1, <1>2, TreeFrom, TreeIs, HeightIs
  <1>4. ~IsLeaf(v)
    BY <1>3 DEF IsLeaf
  <1>5. (CHOOSE f \in K : f.name = field).value = r
    <2>1. \A f \in K : f.name = field <=> f = Field(field, r)
      BY FieldIs
    <2>2. Field(field, r) \in K
      OBVIOUS
    <2> HIDE DEF K
    <2>3. (CHOOSE f \in K : f.name = field) = Field(field, r)
      BY <2>1, <2>2
    <2>4. Field(field, r).value = r
      BY FieldIs
    <2> QED
      BY <2>3, <2>4
  <1> HIDE DEF v
  <1>6. IsPayload(v, field, w, r)
    BY <1>3, <1>4, <1>5 DEF IsPayload
  <1> QED
    BY <1>6 DEF v

(* What becomes of the fields of a payload. *)
LEMMA EachPayload ==
    ASSUME NEW w \in Wraps, NEW r \in Trees[Height], NEW x \in Wraps, NEW become,
           NEW field \in {"first", "sub"}, become[Leaf("open")] = Leaf("open")
    PROVE  Tree(Payload(field, w, r).kind, IF field = "first" THEN NoWrap ELSE x,
                Each(become, Payload(field, w, r))) = Payload(field, x, become[r])
  <1> DEFINE v == Payload(field, w, r)
             K == IF field = "first" THEN {Field("first", become[r])}
                  ELSE {Field("id", Leaf("open")), Field("sub", become[r])}
  <1>1. /\ v.kind = IF field = "first" THEN "list" ELSE "object"
        /\ v.kids = IF field = "first" THEN {Field("first", r)}
                    ELSE {Field("id", Leaf("open")), Field("sub", r)}
    <2>1. IsPayload(v, field, w, r)
      BY PayloadIs
    <2> HIDE DEF v
    <2> QED
      BY <2>1 DEF IsPayload
  <1> HIDE DEF v
  <1>2. CASE field = "first"
    <2>1. Each(become, v) = {Field("first", become[r])}
      BY <1>1, <1>2, FieldIs DEF Each
    <2> QED
      BY <1>1, <1>2, <2>1 DEF Payload, List, v
  <1>3. CASE field = "sub"
    <2>1. Each(become, v) = {Field("id", become[Leaf("open")]), Field("sub", become[r])}
      <3>1. v.kids = {Field("id", Leaf("open")), Field("sub", r)}
        BY <1>1, <1>3
      <3>2. \A y : y \in Each(become, v) <=> \E f \in v.kids : y = Field(f.name, become[f.value])
        BY DEF Each
      <3>3. \A y : (\E f \in v.kids : y = Field(f.name, become[f.value])) <=>
                      y = Field("id", become[Leaf("open")]) \/ y = Field("sub", become[r])
        BY <3>1, FieldIs
      <3> QED
        BY <3>2, <3>3
    <2> QED
      BY <1>1, <1>3, <2>1 DEF Payload, v
  <1> QED
    BY <1>2, <1>3

LEMMA RecordParts ==
    ASSUME NEW m \in Models, NEW r, IsRecord(Height, m, r)
    PROVE  /\ r \in Trees[Height] /\ r \in Trees[MaxDepth]
           /\ Fixed(Height, At(m), r) /\ Fixed(MaxDepth, At(m), r)
           /\ IsLeaf(r) => r.wrap = NoWrap /\ Bare(Height, r)
           /\ r.wrap = NoWrap => Bare(Height, r) /\ Bare(MaxDepth, r)
           /\ Bare(Height, Unwrapped(r)) /\ Bare(MaxDepth, Unwrapped(r))
           /\ r.wrap # NoWrap => ~IsLeaf(r) /\ r.wrap \in Options /\ r.wrap.model = m
  <1>1. r \in Trees[Height] /\ Fixed(Height, At(m), r) /\ Bare(Height, Unwrapped(r))
    BY DEF IsRecord
  <1>2. r \in Trees[MaxDepth]
    BY <1>1, TreesGrow, HeightIs
  <1>3. Fixed(MaxDepth, At(m), r)
    <2>1. Labelled[MaxDepth][At(m)][r] = Labelled[MaxDepth - 1][At(m)][r]
      BY <1>1, LabelledGrow, HeightIs, AtIs DEF Height
    <2> QED
      BY <1>1, <2>1 DEF Fixed, Height
  <1>4. Unwrapped(r) \in Trees[Height]
    BY <1>1, UnwrappedIs, HeightIs
  <1>5. Bare(MaxDepth, Unwrapped(r))
    <2>1. MapDeep(NoWrap)[MaxDepth][Unwrapped(r)] = MapDeep(NoWrap)[MaxDepth - 1][Unwrapped(r)]
      BY <1>4, MapGrow, NoWrapIs, HeightIs DEF Height
    <2> QED
      BY <1>1, <2>1 DEF Bare, Height
  <1>6. r.wrap = NoWrap => Bare(Height, r) /\ Bare(MaxDepth, r)
    BY <1>1, <1>5, UnwrappedIs, HeightIs
  <1>7. r.wrap # NoWrap => ~IsLeaf(r) /\ r.wrap \in Options /\ r.wrap.model = m
    BY DEF IsRecord, IsLeaf
  <1> QED
    BY <1>1, <1>2, <1>3, <1>5, <1>6, <1>7

(* A record with another wrapper of its model, or none, is a record.        *)
LEMMA Rewrapped ==
    ASSUME NEW m \in Models, NEW r, IsRecord(Height, m, r), NEW w,
           w = NoWrap \/ (w \in Options /\ w.model = m /\ r.kind = "object"), ~IsLeaf(r)
    PROVE  IsRecord(Height, m, Tree(r.kind, w, r.kids))
  <1> DEFINE x == Tree(r.kind, w, r.kids)
  <1>1. /\ r \in Trees[Height] /\ Fixed(Height, At(m), r) /\ Bare(Height, Unwrapped(r))
        /\ Height \in Heights /\ At(m) \in Places
    BY RecordParts, HeightIs, AtIs
  <1>2. x \in Trees[Height] /\ x.kind = r.kind /\ x.wrap = w /\ x.kids = r.kids
    <2>1. r.kind \in Kinds /\ r.kids \in SUBSET Fields(Height) /\ w \in Wraps
      BY <1>1, TreeParts, NoWrapIs DEF Wraps
    <2> QED
      BY <1>1, <2>1, TreeFrom, TreeIs
  <1> HIDE DEF x
  <1>3. Fixed(Height, At(m), x)
    <2>1. ~IsLeaf(x)
      BY <1>2 DEF IsLeaf
    <2>2. ASSUME NEW f \in x.kids PROVE Fixed(Height - 1, KidPlace(At(m), x, f.name), f.value)
      BY <1>1, <1>2, FixedParts, KidPlaceKind
    <2> QED
      BY <1>1, <1>2, <2>1, <2>2, FixedFrom
  <1>4. Unwrapped(x) = Unwrapped(r)
    BY <1>2 DEF Unwrapped
  <1>5. IsRecord(Height, m, x)
    BY <1>1, <1>2, <1>3, <1>4 DEF IsRecord
  <1> QED
    BY <1>5 DEF x

(* What rewrapping and unwrapping make of a record.                         *)
LEMMA MapRecord ==
    ASSUME NEW m \in Models, NEW r, IsRecord(Height, m, r), NEW o,
           o = NoWrap \/ (o \in Options /\ o.model = m)
    PROVE  /\ IsRecord(Height, m, MapDeep(o)[Height][r])
           /\ MapDeep(o)[Height][r].wrap = IF r.wrap = NoWrap THEN NoWrap ELSE o
           /\ MapDeep(o)[MaxDepth][r] = MapDeep(o)[Height][r]
  <1>1. r \in Trees[Height] /\ Height \in Heights /\ o \in Wraps /\ Bare(Height, Unwrapped(r))
    BY RecordParts, HeightIs DEF Wraps
  <1>2. MapDeep(o)[MaxDepth][r] = MapDeep(o)[Height][r]
    BY <1>1, MapGrow, HeightIs DEF Height
  <1>3. CASE IsLeaf(r)
    <2>1. MapDeep(o)[Height][r] = r
      BY <1>1, <1>3, MapDeepIs
    <2> QED
      BY <1>2, <1>3, <2>1, RecordParts
  <1>4. CASE ~IsLeaf(r)
    <2> DEFINE w == Mapped(r.wrap, o)
    <2>1. w = IF r.wrap = NoWrap THEN NoWrap ELSE o
      <3>1. CASE r.wrap = NoWrap \/ o = NoWrap
        BY <3>1 DEF Mapped
      <3>2. CASE r.wrap # NoWrap /\ o # NoWrap
        <4>1. r.wrap.model = m /\ o \in Options /\ o.model = m
          BY <3>2 DEF IsRecord
        <4>2. [o EXCEPT !.model = m] = o
          BY <4>1 DEF Options
        <4> QED
          BY <3>2, <4>1, <4>2 DEF Mapped
      <3> QED
        BY <3>1, <3>2
    <2>2. MapDeep(o)[Height][r] = Tree(r.kind, w, r.kids)
      <3> DEFINE u == Unwrapped(r)
      <3>1. u \in Trees[Height] /\ u.kids = r.kids /\ u.kind = r.kind /\ ~IsLeaf(u)
        BY <1>1, <1>4, UnwrappedIs DEF IsLeaf
      <3> HIDE DEF u
      <3>2. \A f \in r.kids : Bare(Height - 1, f.value)
        BY <1>1, <3>1, BareParts DEF u
      <3>3. ASSUME NEW f \in r.kids PROVE Field(f.name, MapDeep(o)[Height - 1][f.value]) = f
        BY <1>1, <3>2, MapBare, TreeParts
      <3> DEFINE K == {Field(f.name, MapDeep(o)[Height - 1][f.value]) : f \in r.kids}
      <3>4. K = r.kids
        BY <3>3
      <3>5. MapDeep(o)[Height][r] = Tree(r.kind, w, K)
        BY <1>1, <1>4, MapDeepIs
      <3> HIDE DEF K, w
      <3> QED
        BY <3>4, <3>5
    <2>3. w = NoWrap \/ (w \in Options /\ w.model = m /\ r.kind = "object")
      BY <2>1 DEF IsRecord
    <2> HIDE DEF w
    <2>4. IsRecord(Height, m, Tree(r.kind, w, r.kids)) /\ Tree(r.kind, w, r.kids).wrap = w
      BY <1>4, <2>3, Rewrapped, TreeIs
    <2> QED
      BY <1>2, <2>1, <2>2, <2>4
  <1> QED
    BY <1>3, <1>4

(* What rewrapping and unwrapping make of what a service returns.           *)
LEMMA MapPayload ==
    ASSUME NEW m \in Models, NEW r, IsRecord(Height, m, r), NEW w \in Wraps, NEW o,
           o = NoWrap \/ (o \in Options /\ o.model = m), NEW field \in {"alone", "first", "sub"}
    PROVE  /\ MapDeep(o)[MaxDepth][Payload(field, w, r)]
                = Payload(field, Mapped(w, o), MapDeep(o)[Height][r])
           /\ Mapped(w, o) \in Wraps
  <1>1. r \in Trees[Height] /\ o \in Wraps
    BY RecordParts DEF Wraps
  <1>2. Mapped(w, o) \in Wraps
    BY <1>1, NoWrapIs DEF Mapped, Wraps, Options
  <1>3. CASE field = "alone"
    BY <1>2, <1>3, MapRecord DEF Payload
  <1>4. CASE field \in {"first", "sub"}
    <2> DEFINE v == Payload(field, w, r)
               x == IF field = "first" THEN NoWrap ELSE Mapped(w, o)
    <2>1. IsPayload(v, field, w, r)
      BY <1>1, <1>4, PayloadIs
    <2>2. MapDeep(o)[Height][Leaf("open")] = Leaf("open")
      <3>1. Leaf("open") \in Trees[Height] /\ IsLeaf(Leaf("open"))
        BY LeafIs, HeightIs DEF Labels
      <3> QED
        BY <1>1, <3>1, MapDeepIs, HeightIs
    <2>3. Tree(v.kind, x, Each(MapDeep(o)[Height], v))
            = Payload(field, Mapped(w, o), MapDeep(o)[Height][r])
      BY <1>1, <1>2, <1>4, <2>2, EachPayload
    <2> HIDE DEF v
    <2>4. v \in Trees[MaxDepth] /\ ~IsLeaf(v) /\ Mapped(v.wrap, o) = x
      BY <2>1 DEF IsPayload, Mapped
    <2>5. MapDeep(o)[MaxDepth][v] = Tree(v.kind, Mapped(v.wrap, o), Each(MapDeep(o)[MaxDepth - 1], v))
      <3>1. MapDeep(o)[MaxDepth][v] =
              Tree(v.kind, Mapped(v.wrap, o),
                   {Field(f.name, MapDeep(o)[MaxDepth - 1][f.value]) : f \in v.kids})
        BY <1>1, <2>4, MapDeepIs, HeightIs
      <3> QED
        BY <3>1 DEF Each
    <2>6. MapDeep(o)[MaxDepth][v] = Payload(field, Mapped(w, o), MapDeep(o)[Height][r])
      BY <2>3, <2>4, <2>5 DEF Height
    <2> QED
      BY <1>2, <2>6 DEF v
  <1> QED
    BY <1>3, <1>4

-----------------------------------------------------------------------------
(* What every step preserves. *)

IsValue(m, field, v) ==
    \E r, w : w \in Wraps /\ IsRecord(Height, m, r) /\ v = Payload(field, w, r)

ValueInv ==
    /\ own \in Models /\ place \in {"alone", "first", "sub"} /\ steps \in Nat
    /\ IsValue(own, place, value)
    /\ steps = 0 => place = "alone" /\ value.wrap = NoWrap

(* What left the application, or entered it, is of the value that is there. *)
Sealing(json, ok) ==
    \E keepPrivate : ~keepPrivate /\ json = Validated(MaxDepth, own, value, keepPrivate, ok)

OutInv ==
    \/ out = NoOut
    \/ out.as = "json" /\ out.json = Json(out.ok)[MaxDepth][value]
    \/ /\ out.as = "input" /\ place = "alone" /\ value.wrap = NoWrap
       /\ Sealing(out.json, out.ok)

RecordsInv == ValueInv /\ OutInv

(* The record a payload was made with.                                      *)
LEMMA RecordIs ==
    ASSUME NEW m \in Models, NEW r, IsRecord(Height, m, r), NEW w \in Wraps,
           NEW v, v = Payload(place, w, r), place \in {"alone", "first", "sub"}
    PROVE  InPlace(v) = r /\ (place = "alone" => v = r) /\ v \in Trees[MaxDepth]
  <1>1. r \in Trees[Height] /\ r \in Trees[MaxDepth]
    BY RecordParts
  <1>2. CASE place = "alone"
    BY <1>1, <1>2 DEF InPlace, Payload
  <1>3. CASE place \in {"first", "sub"}
    <2>1. IsPayload(v, place, w, r)
      BY <1>1, <1>3, PayloadIs
    <2> QED
      BY <1>3, <2>1 DEF InPlace, IsPayload
  <1> QED
    BY <1>2, <1>3

LEMMA InitRecords ==
    ASSUME Init
    PROVE  RecordsInv
  <1>1. PICK v \in Plain : value = Labelled[MaxDepth][At(own)][v]
    BY DEF Init
  <1>2. /\ own \in Models /\ At(own) \in Places /\ v \in Trees[Height]
        /\ Height \in Heights /\ MapDeep(NoWrap)[MaxDepth][v] = v
    BY HeightIs, AtIs, RecordsAssumption DEF Init, Height, UnwrapDeep
  <1>3. value = Labelled[Height][At(own)][v]
    BY <1>1, <1>2, LabelledGrow, HeightIs DEF Height
  <1>4. Bare(Height, v)
    <2>1. MapDeep(NoWrap)[MaxDepth][v] = MapDeep(NoWrap)[Height][v]
      BY <1>2, MapGrow, HeightIs, NoWrapIs DEF Height
    <2> QED
      BY <1>2, <2>1 DEF Bare
  <1>5. value \in Trees[Height] /\ Fixed(Height, At(own), value) /\ Bare(Height, value)
    BY <1>2, <1>3, <1>4, LabelledIs, LabelledTwice, LabelledBare
  <1>6. value.wrap = NoWrap
    <2>1. CASE IsLeaf(value)
      <3>1. own \in Models /\ At(own).label \in Labels /\ value = Leaf(At(own).label)
        BY <1>2, <1>5, <2>1, FixedParts DEF Places
      <3> QED
        BY <1>2, <3>1, LeafIs
    <2>2. CASE ~IsLeaf(value)
      BY <1>2, <1>5, <2>2, BareParts
    <2> QED
      BY <2>1, <2>2
  <1>7. IsRecord(Height, own, value)
    BY <1>2, <1>5, <1>6, UnwrappedIs DEF IsRecord
  <1>8. IsValue(own, "alone", value)
    BY <1>7, NoWrapIs DEF IsValue, Payload
  <1> QED
    BY <1>2, <1>6, <1>8 DEF Init, RecordsInv, ValueInv, OutInv

LEMMA NextRecords ==
    ASSUME RecordsInv, [Next]_vars
    PROVE  RecordsInv'
  <1> USE DEF RecordsInv
  <1>1. /\ own \in Models /\ place \in {"alone", "first", "sub"} /\ steps \in Nat
        /\ At(own) \in Places /\ Height \in Heights /\ MaxDepth \in Heights
    BY HeightIs, AtIs DEF ValueInv
  <1>2. PICK r, w : w \in Wraps /\ IsRecord(Height, own, r) /\ value = Payload(place, w, r)
    BY DEF ValueInv, IsValue
  <1>3. ASSUME NEW field \in {"alone", "first", "sub"}, NEW w2 \in Wraps, NEW r2,
               IsRecord(Height, own, r2), Do, place' = field, value' = Payload(field, w2, r2),
               UNCHANGED out
        PROVE  RecordsInv'
    <2>1. own' = own /\ steps' \in Nat /\ steps' # 0 /\ out' = NoOut
      BY <1>1, <1>3 DEF Do
    <2>2. IsValue(own, field, Payload(field, w2, r2))
      BY <1>3 DEF IsValue
    <2>3. ValueInv'
      BY <1>1, <1>3, <2>1, <2>2 DEF ValueInv
    <2>4. OutInv'
      BY <2>1 DEF OutInv
    <2> QED
      BY <2>3, <2>4
  <1>4. ASSUME NEW o \in Options, Wrap(o)
        PROVE  RecordsInv'
    <2>1. Do /\ value.kind = "object" /\ value' = Tree("object", o, value.kids)
          /\ place' = place /\ UNCHANGED out
      BY <1>4 DEF Wrap, Wrapped
    <2>2. CASE place = "alone"
      <3>1. value = r /\ o.model = own /\ ~IsLeaf(r)
        BY <1>2, <1>4, <2>1, <2>2 DEF Payload, Wrap, IsLeaf
      <3>2. IsRecord(Height, own, Tree(r.kind, o, r.kids))
        BY <1>1, <1>2, <2>1, <3>1, Rewrapped
      <3>3. value' = Payload("alone", w, Tree(r.kind, o, r.kids))
        BY <2>1, <3>1 DEF Payload
      <3> QED
        BY <1>2, <1>3, <2>1, <2>2, <3>2, <3>3
    <2>3. CASE place \in {"first", "sub"}
      <3>1. IsPayload(value, place, w, r)
        BY <1>1, <1>2, <2>3, PayloadIs, RecordParts
      <3>2. place = "sub" /\ value.kids = {Field("id", Leaf("open")), Field("sub", r)}
        BY <2>1, <2>3, <3>1 DEF IsPayload
      <3>3. value' = Payload("sub", o, r) /\ o \in Wraps
        BY <2>1, <3>2 DEF Payload, Wraps
      <3> QED
        BY <1>2, <1>3, <2>1, <3>2, <3>3
    <2> QED
      BY <1>1, <2>2, <2>3
  <1>5. ASSUME NEW field \in {"first", "sub"}, Embed(field, Payload(field, NoWrap, value))
        PROVE  RecordsInv'
    <2>1. Do /\ place = "alone" /\ value' = Payload(field, NoWrap, value) /\ place' = field
          /\ UNCHANGED out
      BY <1>5 DEF Embed
    <2>2. value = r
      BY <1>2, <2>1 DEF Payload
    <2> QED
      BY <1>2, <1>3, <2>1, <2>2, NoWrapIs
  <1>6. ASSUME NEW o, o = NoWrap \/ (o \in Options /\ o.model = own),
               Do, value' = MapDeep(o)[MaxDepth][value], UNCHANGED <<place, out>>
        PROVE  RecordsInv'
    <2>1. /\ value' = Payload(place, Mapped(w, o), MapDeep(o)[Height][r])
          /\ Mapped(w, o) \in Wraps /\ IsRecord(Height, own, MapDeep(o)[Height][r])
      BY <1>1, <1>2, <1>6, MapPayload, MapRecord
    <2> QED
      BY <1>1, <1>3, <1>6, <2>1
  <1>7. ASSUME Do, UNCHANGED <<value, place>>, out'.as = "json",
               out'.json = Json(out'.ok)[MaxDepth][value]
        PROVE  RecordsInv'
    <2>1. own' = own /\ value' = value /\ place' = place /\ steps' \in Nat /\ steps' # 0
      BY <1>1, <1>7 DEF Do
    <2>2. ValueInv'
      BY <2>1 DEF ValueInv
    <2>3. OutInv'
      BY <1>7, <2>1 DEF OutInv
    <2> QED
      BY <2>2, <2>3
  <1>8. ASSUME NEW ok, Serialise(ok)
        PROVE  RecordsInv'
    <2>1. /\ Do /\ UNCHANGED <<value, place>> /\ out'.as = "json" /\ out'.ok = ok
          /\ out'.json = Json(ok)[MaxDepth][value]
      BY <1>8 DEF Serialise
    <2> QED
      BY <1>7, <2>1
  <1>9. ASSUME NEW ok, Validate(ok)
        PROVE  RecordsInv'
    <2>1. /\ Do /\ steps = 0 /\ value' = value /\ place' = place /\ own' = own
          /\ out'.as = "input" /\ out'.ok = ok
          /\ out'.json = Validated(MaxDepth, own, value, FALSE, ok)
      BY <1>9 DEF Validate, Do
    <2>2. steps' \in Nat /\ steps' # 0
      BY <1>1, <2>1 DEF Do
    <2>3. ValueInv'
      BY <2>1, <2>2 DEF ValueInv
    <2>4. \E keepPrivate : /\ ~keepPrivate
                           /\ out'.json = Validated(MaxDepth, own, value, keepPrivate, ok)
      <3> WITNESS FALSE
      <3> QED
        BY <2>1
    <2>5. OutInv'
      BY <2>1, <2>4 DEF OutInv, Sealing, ValueInv
    <2> QED
      BY <2>3, <2>5
  <1>10. ASSUME UNCHANGED vars
         PROVE  RecordsInv'
    <2>1. own' = own /\ value' = value /\ place' = place /\ out' = out /\ steps' = steps
      BY <1>10 DEF vars
    <2> QED
      BY <2>1 DEF ValueInv, OutInv, Sealing
  <1>11. CASE \E o \in Options : Wrap(o)
    BY <1>4, <1>11
  <1>12. CASE Embed("first", List({Field("first", value)}))
    <2>1. Embed("first", Payload("first", NoWrap, value))
      BY <1>12 DEF Payload
    <2> QED
      BY <1>5, <2>1
  <1>13. CASE Embed("sub", Object({Field("id", Leaf("open")), Field("sub", value)}))
    <2>1. Embed("sub", Payload("sub", NoWrap, value))
      BY <1>13 DEF Payload, Object
    <2> QED
      BY <1>5, <2>1
  <1>14. CASE \E o \in Options : o.model = own /\ Rewrap(o)
    BY <1>6, <1>14 DEF Rewrap, RewrapDeep
  <1>15. CASE Unwrap
    BY <1>6, <1>15 DEF Unwrap, UnwrapDeep
  <1>16. CASE \E ok \in {{}, Models, {own}} : Serialise(ok) \/ Validate(ok)
    BY <1>8, <1>9, <1>16
  <1> QED
    BY <1>10, <1>11, <1>12, <1>13, <1>14, <1>15, <1>16 DEF Next

(* In every reachable state the value is a record of its model, or a        *)
(* payload with one in it, every leaf of it with the label its model gives  *)
(* it; and what went out or came in was made of that value.                 *)
THEOREM RecordsAlways == Spec => []RecordsInv
  BY InitRecords, NextRecords, PTL DEF Spec

-----------------------------------------------------------------------------
(* Unwrapping and rewrapping. *)

(* A payload without a wrapper serialises field by field. *)
LEMMA JsonPayload ==
    ASSUME NEW w \in Wraps, NEW r \in Trees[Height], NEW field \in {"first", "sub"}, NEW ok,
           field = "sub" => w = NoWrap
    PROVE  Json(ok)[MaxDepth][Payload(field, w, r)] = Payload(field, w, Json(ok)[Height][r])
  <1> DEFINE v == Payload(field, w, r)
             x == IF field = "first" THEN NoWrap ELSE w
  <1>1. IsPayload(v, field, w, r)
    BY PayloadIs
  <1>2. Json(ok)[Height][Leaf("open")] = Leaf("open")
    <2>1. Leaf("open") \in Trees[Height] /\ IsLeaf(Leaf("open")) /\ Leaf("open").wrap = NoWrap
      BY LeafIs, HeightIs DEF Labels
    <2> QED
      BY <2>1, JsonPlain, HeightIs
  <1>3. Tree(v.kind, x, Each(Json(ok)[Height], v)) = Payload(field, w, Json(ok)[Height][r])
    BY <1>2, EachPayload
  <1> HIDE DEF v
  <1>4. v \in Trees[MaxDepth] /\ ~IsLeaf(v) /\ v.wrap = NoWrap /\ x = NoWrap
    BY <1>1 DEF IsPayload
  <1>5. Json(ok)[MaxDepth][v] = Tree(v.kind, v.wrap, Each(Json(ok)[Height], v))
    BY <1>4, JsonPlain, HeightIs
  <1>6. Json(ok)[MaxDepth][v] = Payload(field, w, Json(ok)[Height][r])
    BY <1>3, <1>4, <1>5
  <1> QED
    BY <1>6 DEF v

(* A record without a wrapper serialises to itself. *)
LEMMA JsonRecord ==
    ASSUME NEW m \in Models, NEW r, IsRecord(Height, m, r), r.wrap = NoWrap, NEW ok
    PROVE  Json(ok)[Height][r] = r /\ Json(ok)[MaxDepth][r] = r
  BY RecordParts, JsonBare, HeightIs, AtIs

LEMMA RecordsTrusted ==
    ASSUME ValueInv
    PROVE  Trusted
  <1>1. own \in Models /\ place \in {"alone", "first", "sub"}
    BY DEF ValueInv
  <1>2. PICK r, w : w \in Wraps /\ IsRecord(Height, own, r) /\ value = Payload(place, w, r)
    BY DEF ValueInv, IsValue
  <1>3. r \in Trees[Height] /\ value \in Trees[MaxDepth] /\ Record = r
    BY <1>1, <1>2, RecordParts, RecordIs DEF Record
  <1>4. ASSUME NEW o, o = NoWrap \/ (o \in Options /\ o.model = own)
        PROVE  /\ MapDeep(o)[MaxDepth][value]
                    = Payload(place, Mapped(w, o), MapDeep(o)[Height][r])
               /\ Mapped(w, o) \in Wraps /\ IsRecord(Height, own, MapDeep(o)[Height][r])
               /\ MapDeep(o)[Height][r].wrap = IF r.wrap = NoWrap THEN NoWrap ELSE o
    BY <1>1, <1>2, <1>4, MapPayload, MapRecord
  <1>5. Json({})[MaxDepth][UnwrapDeep(value)] = UnwrapDeep(value)
    <2> DEFINE u == MapDeep(NoWrap)[Height][r]
    <2>1. /\ UnwrapDeep(value) = Payload(place, NoWrap, u)
          /\ IsRecord(Height, own, u) /\ u.wrap = NoWrap
      BY <1>4 DEF UnwrapDeep, Mapped
    <2> HIDE DEF u
    <2>2. u \in Trees[Height] /\ Json({})[Height][u] = u /\ Json({})[MaxDepth][u] = u
      BY <1>1, <2>1, RecordParts, JsonRecord
    <2>3. CASE place = "alone"
      BY <2>1, <2>2, <2>3 DEF Payload
    <2>4. CASE place \in {"first", "sub"}
      BY <2>1, <2>2, <2>4, JsonPayload, NoWrapIs
    <2> QED
      BY <1>1, <2>3, <2>4
  <1>6. ASSUME NEW o \in Options, o.model = own
        PROVE  /\ UnwrapDeep(RewrapDeep(value, o)) = UnwrapDeep(value)
               /\ InPlace(RewrapDeep(value, o)).wrap = IF Record.wrap = NoWrap THEN NoWrap ELSE o
    <2>1. UnwrapDeep(RewrapDeep(value, o)) = UnwrapDeep(value)
      <3>1. o \in Wraps
        BY DEF Wraps
      <3> QED
        BY <1>3, <3>1, UnwrapMapped, HeightIs DEF UnwrapDeep, RewrapDeep
    <2> DEFINE x == RewrapDeep(value, o)
               y == MapDeep(o)[Height][r]
    <2>2. /\ x = Payload(place, Mapped(w, o), y) /\ Mapped(w, o) \in Wraps
          /\ IsRecord(Height, own, y) /\ y.wrap = IF r.wrap = NoWrap THEN NoWrap ELSE o
      BY <1>4, <1>6 DEF RewrapDeep
    <2> HIDE DEF x, y
    <2>3. InPlace(x) = y
      BY <1>1, <2>2, RecordIs
    <2>4. InPlace(x).wrap = IF Record.wrap = NoWrap THEN NoWrap ELSE o
      BY <1>3, <2>2, <2>3
    <2> QED
      BY <2>1, <2>4 DEF x
  <1> QED
    BY <1>5, <1>6 DEF Trusted

(* What is unwrapped to be stored, or rewrapped for a trusted consumer,     *)
(* keeps all its data however deep the wrappers are.                        *)
THEOREM TrustedAlways == Spec => []Trusted
  <1>1. RecordsInv => Trusted
    BY RecordsTrusted DEF RecordsInv
  <1> QED
    BY <1>1, RecordsAlways, PTL

-----------------------------------------------------------------------------
(* What the model of a record makes of it. *)

(* What is left of a record when it is reduced, or an error: the labels are *)
(* right, there is no wrapper, and all public leaves are kept.              *)
Sound(h, m, x, u) ==
    /\ x \in Trees[h]
    /\ x = Error \/ (Fixed(h, At(m), x) /\ Bare(h, x) /\ Keeps[h][x][u] /\ Part(h, x, u))

LEMMA ErrorIs ==
    \A h \in Heights :
       /\ Error \in Trees[h] /\ IsLeaf(Error) /\ Error.kind = "error" /\ Error.wrap = NoWrap
       /\ Bare(h, Error)
  <1>1. \A h \in Heights : /\ Error \in Trees[h] /\ IsLeaf(Error) /\ Error.kind = "error"
                           /\ Error.wrap = NoWrap
    BY LeafIs DEF Error
  <1> QED
    BY <1>1, BareFrom

LEMMA StripSound ==
    ASSUME AllLegible, NEW h \in Heights, NEW m \in Models, NEW x, NEW u \in Trees[h],
           Sound(h, m, x, u), NEW keepPrivate
    PROVE  /\ Sound(h, m, StripExcluded(h, m, x, keepPrivate), u)
           /\ ~keepPrivate => /\ Clean(h, Roots[m], "private", StripExcluded(h, m, x, keepPrivate))
                              /\ Clean(h, Roots[m], "extra", StripExcluded(h, m, x, keepPrivate))
  <1> DEFINE y == StripExcluded(h, m, x, keepPrivate)
  <1>1. /\ x \in Trees[h] /\ Bare(h, x) /\ At(m) = Exactly(Roots[m]) /\ At(m) \in Places
        /\ Roots[m] \in Nodes /\ Roots[m] \in Nat /\ DOMAIN Told \subseteq Nat
    BY ErrorIs, AtIs, ToldDomain DEF Sound
  <1>2. y = Strip(Told, keepPrivate)[h][Roots[m]][x] /\ y \in Trees[h]
    BY <1>1, ValidatedIs DEF StripExcluded
  <1>3. ~keepPrivate => Clean(h, Roots[m], "private", y) /\ Clean(h, Roots[m], "extra", y)
    BY <1>1, <1>2, StripHides
  <1>4. Sound(h, m, y, u)
    <2>1. CASE x = Error
      <3>1. y = Error
        BY <1>1, <1>2, <2>1, ErrorIs, StripIs
      <3> HIDE DEF y
      <3> QED
        BY <1>2, <3>1 DEF Sound
    <2>2. CASE Fixed(h, At(m), x) /\ Bare(h, x) /\ Keeps[h][x][u] /\ Part(h, x, u)
      <3>1. Part(h, y, x)
        BY <1>1, <1>2, StripPart
      <3>2. Keeps[h][y][x]
        BY <1>1, <1>2, <2>2, StripKeepsOpen
      <3> HIDE DEF y
      <3>3. Fixed(h, At(m), y) /\ Bare(h, y)
        BY <1>1, <2>2, <3>1 DEF Part
      <3>4. Keeps[h][y][u] /\ Part(h, y, u)
        BY <1>1, <1>2, <2>2, <3>1, <3>2, KeepsKept, PartOfPart
      <3> QED
        BY <1>2, <3>3, <3>4 DEF Sound
    <2> QED
      BY <2>1, <2>2 DEF Sound
  <1> QED
    BY <1>3, <1>4

LEMMA ParsedSound ==
    ASSUME AllLegible, NEW h \in Heights, NEW m \in Models, NEW x, NEW u \in Trees[h],
           Sound(h, m, x, u)
    PROVE  Sound(h, m, Parsed[h][Roots[m]][x], u)
  <1> DEFINE y == Parsed[h][Roots[m]][x]
  <1>1. /\ x \in Trees[h] /\ At(m) = Exactly(Roots[m]) /\ At(m) \in Places
        /\ Roots[m] \in Nodes /\ Roots[m] \in Nat
    BY AtIs, ToldDomain DEF Sound
  <1>2. y \in Trees[h]
    BY <1>1, ParsedIs
  <1>3. CASE x = Error
    <2>1. y = Error
      BY <1>1, <1>3, ErrorIs, ParsedIs
    <2> HIDE DEF y
    <2>2. Sound(h, m, y, u)
      BY <1>2, <2>1 DEF Sound
    <2> QED
      BY <2>2 DEF y
  <1>4. CASE Fixed(h, At(m), x) /\ Bare(h, x) /\ Keeps[h][x][u] /\ Part(h, x, u)
    <2>1. Part(h, y, x)
      BY <1>1, ParsedPart
    <2>2. Keeps[h][y][x]
      BY <1>1, <1>4, ParsedKeepsOpen
    <2> HIDE DEF y
    <2>3. Fixed(h, At(m), y) /\ Bare(h, y)
      BY <1>1, <1>4, <2>1 DEF Part
    <2>4. Keeps[h][y][u] /\ Part(h, y, u)
      BY <1>1, <1>2, <1>4, <2>1, <2>2, KeepsKept, PartOfPart
    <2>5. Sound(h, m, y, u)
      BY <1>2, <2>3, <2>4 DEF Sound
    <2> QED
      BY <2>5 DEF y
  <1> QED
    BY <1>3, <1>4 DEF Sound

LEMMA ValidatedSound ==
    ASSUME AllLegible, NEW h \in Heights, NEW m \in Models, NEW u \in Trees[h],
           Fixed(h, At(m), u), Bare(h, u), NEW keepPrivate, NEW ok
    PROVE  Sound(h, m, Validated(h, m, u, keepPrivate, ok), u)
  <1>1. Sound(h, m, u, u)
    BY KeepsSelf, PartSelf DEF Sound
  <1> DEFINE y == StripExcluded(h, m, u, keepPrivate)
  <1>2. Sound(h, m, y, u)
    BY <1>1, StripSound
  <1> HIDE DEF y
  <1>3. Sound(h, m, Parsed[h][Roots[m]][y], u)
    BY <1>2, ParsedSound
  <1>4. Sound(h, m, Error, u)
    BY ErrorIs DEF Sound
  <1> QED
    BY <1>3, <1>4 DEF Validated, y

(* What a wrapped record is sent as. *)
SentAs(h, m, r, ok, y) ==
    /\ y = Sent(h, r, ok) /\ Sound(h, m, y, Unwrapped(r)) /\ Json(ok)[h][r] = y
    /\ ~r.wrap.private => Clean(h, Roots[m], "private", y) /\ Clean(h, Roots[m], "extra", y)

LEMMA SentRecord ==
    ASSUME AllLegible, NEW h \in Heights, NEW m \in Models, NEW r \in Trees[h], ~IsLeaf(r),
           r.wrap # NoWrap, r.wrap.model = m, Fixed(h, At(m), r), Bare(h, Unwrapped(r)), NEW ok
    PROVE  SentAs(h, m, r, ok, Sent(h, r, ok))
  <1> DEFINE u == Unwrapped(r)
             x == Source(h, r, ok)
             y == Sent(h, r, ok)
  <1>1. u \in Trees[h] /\ Bare(h, u) /\ At(m) \in Places
    BY UnwrappedIs, AtIs
  <1>2. Fixed(h, At(m), u)
    BY <1>1, UnwrappedPart DEF Part
  <1> HIDE DEF u
  <1>3. Sound(h, m, x, u)
    <2>1. PICK keepPrivate : keepPrivate = TRUE
      OBVIOUS
    <2>2. Sound(h, m, Validated(h, m, u, keepPrivate, ok), u)
      BY <1>1, <1>2, ValidatedSound
    <2>3. Sound(h, m, u, u)
      BY <1>1, <1>2, KeepsSelf, PartSelf DEF Sound
    <2>4. x = Validated(h, m, u, keepPrivate, ok) \/ x = u
      BY <2>1 DEF Source, u
    <2> QED
      BY <2>2, <2>3, <2>4
  <1>4. y = StripExcluded(h, m, x, r.wrap.private)
    BY DEF Sent, ToJSON
  <1> HIDE DEF x, y
  <1>5. /\ Sound(h, m, y, u)
        /\ ~r.wrap.private => Clean(h, Roots[m], "private", y) /\ Clean(h, Roots[m], "extra", y)
    BY <1>1, <1>3, <1>4, StripSound
  <1>6. Json(ok)[h][r] = y
    <2>1. Json(ok)[h][r] = IF IsLeaf(y) THEN y ELSE Tree(y.kind, y.wrap, Each(Json(ok)[h - 1], y))
      BY JsonIs DEF y
    <2>2. CASE y = Error
      BY <2>1, <2>2, ErrorIs
    <2>3. CASE Fixed(h, At(m), y) /\ Bare(h, y)
      <3>1. y \in Trees[h]
        BY <1>5 DEF Sound
      <3>2. Json(ok)[h][y] = y
        BY <1>1, <2>3, <3>1, JsonBare
      <3>3. ~IsLeaf(y) => y.wrap = NoWrap
        BY <2>3, <3>1, BareParts
      <3>4. ~IsLeaf(y) => Json(ok)[h][y] = Tree(y.kind, y.wrap, Each(Json(ok)[h - 1], y))
        BY <3>1, <3>3, JsonPlain
      <3> QED
        BY <2>1, <3>2, <3>4
    <2> QED
      BY <1>5, <2>2, <2>3 DEF Sound
  <1>7. SentAs(h, m, r, ok, y)
    BY <1>5, <1>6 DEF SentAs, u, y
  <1> QED
    BY <1>7 DEF y

(* Completeness. *)
LEMMA RecordsComplete ==
    ASSUME AllLegible, RecordsInv
    PROVE  Complete
  <1>1. SUFFICES ASSUME out.as = "json", place = "alone", out.json # Error
                 PROVE  Keeps[MaxDepth][out.json][value]
    BY DEF Complete
  <1>2. out.json = Json(out.ok)[MaxDepth][value]
    BY <1>1 DEF RecordsInv, OutInv, NoOut
  <1>3. own \in Models /\ IsRecord(Height, own, value)
    BY <1>1 DEF RecordsInv, ValueInv, IsValue, Payload
  <1>4. value \in Trees[MaxDepth] /\ MaxDepth \in Heights
    BY <1>3, RecordParts, HeightIs
  <1>5. CASE value.wrap = NoWrap
    <2>1. out.json = value
      BY <1>2, <1>3, <1>5, JsonRecord
    <2> QED
      BY <1>4, <2>1, KeepsSelf
  <1>6. CASE value.wrap # NoWrap
    <2> DEFINE y == Sent(MaxDepth, value, out.ok)
    <2>1. /\ ~IsLeaf(value) /\ Fixed(MaxDepth, At(own), value)
          /\ Bare(MaxDepth, Unwrapped(value)) /\ value.wrap.model = own
      BY <1>3, <1>6, RecordParts
    <2>2. SentAs(MaxDepth, own, value, out.ok, y)
      BY <1>3, <1>4, <1>6, <2>1, SentRecord
    <2> HIDE DEF y
    <2>3. out.json = y /\ y \in Trees[MaxDepth] /\ Keeps[MaxDepth][y][Unwrapped(value)]
      BY <1>1, <1>2, <2>2 DEF SentAs, Sound
    <2>4. Unwrapped(value) \in Trees[MaxDepth] /\ Keeps[MaxDepth][Unwrapped(value)][value]
      BY <1>4, <2>1, UnwrappedIs, UnwrappedKeeps
    <2> QED
      BY <1>4, <2>3, <2>4, KeepsKept
  <1> QED
    BY <1>5, <1>6

(* A record that goes out wrapped keeps every field its model lets out, if  *)
(* what is read of every schema is what the document means.                 *)
THEOREM CompleteAlways ==
    ASSUME AllLegible
    PROVE  Spec => []Complete
  <1>1. RecordsInv => Complete
    BY RecordsComplete
  <1> QED
    BY <1>1, RecordsAlways, PTL

-----------------------------------------------------------------------------
(* What the model of a payload makes of the record in it. *)

(* Stripped or parsed by any schema, a record is a record still: one that   *)
(* loses something loses its wrapper.                                       *)
LEMMA ReducedRecord ==
    ASSUME NEW m \in Models, NEW r, IsRecord(Height, m, r), ~IsLeaf(r), NEW x,
           Part(Height, x, r), x \in Trees[Height], x.wrap = NoWrap,
           ~IsLeaf(x) => \A g \in x.kids : \E f \in r.kids : Part(Height - 1, g.value, f.value)
    PROVE  IsRecord(Height, m, x)
  <1>1. /\ r \in Trees[Height] /\ Height \in Heights /\ At(m) \in Places
        /\ Fixed(Height, At(m), r) /\ Bare(Height, Unwrapped(r))
    BY RecordParts, HeightIs, AtIs
  <1>2. \A f \in r.kids : Bare(Height - 1, f.value)
    <2> DEFINE u == Unwrapped(r)
    <2>1. u \in Trees[Height] /\ ~IsLeaf(u) /\ u.kids = r.kids
      BY <1>1, UnwrappedIs DEF IsLeaf
    <2>2. Bare(Height, u)
      BY <1>1
    <2> HIDE DEF u
    <2> QED
      BY <1>1, <2>1, <2>2, BareParts
  <1>3. Bare(Height, x)
    BY <1>1, <1>2, BareFrom DEF Part
  <1>4. Unwrapped(x) = x /\ Fixed(Height, At(m), x)
    BY <1>1, UnwrappedIs DEF Part
  <1> QED
    BY <1>3, <1>4 DEF IsRecord

LEMMA StripRecord ==
    ASSUME NEW m \in Models, NEW r, IsRecord(Height, m, r), NEW n \in Nat, NEW keepPrivate
    PROVE  IsRecord(Height, m, Strip(Told, keepPrivate)[Height][n][r])
  <1> DEFINE x == Strip(Told, keepPrivate)[Height][n][r]
             below == Strip(Told, keepPrivate)[Height - 1]
             K == Stripped(below, Told, n, r, keepPrivate)
  <1>1. r \in Trees[Height] /\ Height \in Heights /\ DOMAIN Told \subseteq Nat
    BY RecordParts, HeightIs, ToldDomain
  <1>2. CASE IsLeaf(r)
    <2>1. x = r
      BY <1>1, <1>2, StripIs
    <2> HIDE DEF x
    <2>2. IsRecord(Height, m, x)
      BY <2>1
    <2> QED
      BY <2>2 DEF x
  <1>3. CASE ~IsLeaf(r)
    <2>1. x = Rebuilt(r, K) /\ x \in Trees[Height] /\ Part(Height, x, r)
      BY <1>1, <1>3, StripIs, StripPart
    <2>2. ASSUME NEW g \in K PROVE \E f \in r.kids : Part(Height - 1, g.value, f.value)
      <3>1. PICK f \in r.kids : g = Below(below, Told, f, KidSchema(Told[n], r, f.name))
        BY DEF Stripped
      <3>2. Height - 1 \in Heights /\ f.value \in Trees[Height - 1]
        BY <1>1, TreeParts
      <3>3. \A i \in Nat : Part(Height - 1, below[i][f.value], f.value)
        BY <1>1, <3>2, StripPart
      <3> QED
        BY <1>1, <3>1, <3>3, BelowPart
    <2> HIDE DEF x, K
    <2>3. CASE K = r.kids
      <3>1. x = r
        BY <2>1, <2>3 DEF Rebuilt
      <3>2. IsRecord(Height, m, x)
        BY <3>1
      <3> QED
        BY <3>2 DEF x
    <2>4. CASE K # r.kids
      <3>1. x.wrap = NoWrap /\ x.kids = K
        BY <2>1, <2>4, TreeIs DEF Rebuilt
      <3>2. IsRecord(Height, m, x)
        BY <1>3, <2>1, <2>2, <3>1, ReducedRecord
      <3> QED
        BY <3>2 DEF x
    <2> QED
      BY <2>3, <2>4
  <1> QED
    BY <1>2, <1>3

LEMMA ParsedRecord ==
    ASSUME NEW m \in Models, NEW r, IsRecord(Height, m, r), NEW n \in Nat
    PROVE  IsRecord(Height, m, Parsed[Height][n][r])
  <1> DEFINE x == Parsed[Height][n][r]
             below == Parsed[Height - 1]
             K == ParsedKids(below, n, r)
  <1>1. r \in Trees[Height] /\ Height \in Heights /\ DOMAIN Told \subseteq Nat
    BY RecordParts, HeightIs, ToldDomain
  <1>2. CASE x = r
    <2> HIDE DEF x
    <2>2. IsRecord(Height, m, x)
      BY <1>2
    <2> QED
      BY <2>2 DEF x
  <1>3. CASE x # r
    <2>1. x = Tree(r.kind, NoWrap, K) /\ ~IsLeaf(r) /\ x \in Trees[Height] /\ Part(Height, x, r)
      BY <1>1, <1>3, ParsedIs, ParsedPart
    <2>2. ASSUME NEW g \in K PROVE \E f \in r.kids : Part(Height - 1, g.value, f.value)
      <3>1. PICK f \in r.kids : g = Below(below, Told, f, KidSchema(Told[n], r, f.name))
        BY DEF ParsedKids
      <3>2. Height - 1 \in Heights /\ f.value \in Trees[Height - 1]
        BY <1>1, TreeParts
      <3>3. \A i \in Nat : Part(Height - 1, below[i][f.value], f.value)
        BY <1>1, <3>2, ParsedPart
      <3> QED
        BY <1>1, <3>1, <3>3, BelowPart
    <2> HIDE DEF x, K
    <2>3. x.wrap = NoWrap /\ x.kids = K
      BY <2>1, TreeIs
    <2>4. IsRecord(Height, m, x)
      BY <2>1, <2>2, <2>3, ReducedRecord
    <2> QED
      BY <2>4 DEF x
  <1> QED
    BY <1>2, <1>3

(* Values that the schema of the field "sub" of a node turns into one of    *)
(* them.                                                                    *)
Stable(n, R) ==
    SchemaOf(Told[n], "sub") \in Nodes =>
       \A z \in R : /\ Parsed[Height][SchemaOf(Told[n], "sub")][z] \in R
                    /\ \A keepPrivate :
                         Strip(Told, keepPrivate)[Height][SchemaOf(Told[n], "sub")][z] \in R

(* What is left of a payload with one of them, or an error.                 *)
IsIn(f, R) == f = Field("id", Leaf("open")) \/ (f.name = "sub" /\ f.value \in R)
Carries(x, R) ==
    /\ x \in Trees[MaxDepth] /\ x.wrap = NoWrap
    /\ x = Error \/ (x.kind = "object" /\ \A f \in x.kids : IsIn(f, R))

LEMMA BelowIn ==
    ASSUME NEW R, NEW f, IsIn(f, R), NEW become, NEW n \in Nodes,
           \A s \in Nodes : become[s][Leaf("open")] = Leaf("open"),
           SchemaOf(Told[n], "sub") \in Nodes =>
             \A z \in R : become[SchemaOf(Told[n], "sub")][z] \in R
    PROVE  IsIn(Below(become, Told, f, SchemaOf(Told[n], f.name)), R)
  <1>1. CASE SchemaOf(Told[n], f.name) \notin Nodes
    BY <1>1, ToldDomain DEF Below
  <1>2. CASE SchemaOf(Told[n], f.name) \in Nodes
    <2> DEFINE s == SchemaOf(Told[n], f.name)
    <2>1. Below(become, Told, f, s) = Field(f.name, become[s][f.value])
      BY <1>2, ToldDomain DEF Below
    <2>2. CASE f = Field("id", Leaf("open"))
      BY <1>2, <2>1, <2>2, FieldIs DEF IsIn
    <2>3. CASE f.name = "sub" /\ f.value \in R
      BY <1>2, <2>1, <2>3, FieldIs DEF IsIn
    <2> QED
      BY <2>2, <2>3 DEF IsIn
  <1> QED
    BY <1>1, <1>2

LEMMA StripCarries ==
    ASSUME NEW n \in Nodes, NEW R, Stable(n, R), NEW x, Carries(x, R), NEW keepPrivate
    PROVE  Carries(Strip(Told, keepPrivate)[MaxDepth][n][x], R)
  <1> DEFINE y == Strip(Told, keepPrivate)[MaxDepth][n][x]
             below == Strip(Told, keepPrivate)[Height]
             K == Stripped(below, Told, n, x, keepPrivate)
  <1>1. /\ x \in Trees[MaxDepth] /\ x.wrap = NoWrap /\ n \in Nat /\ DOMAIN Told \subseteq Nat
        /\ Nodes \subseteq Nat
    BY ToldDomain DEF Carries
  <1>2. CASE IsLeaf(x)
    <2>1. y = x
      BY <1>1, <1>2, StripIs, HeightIs
    <2> HIDE DEF y
    <2>2. Carries(y, R)
      BY <2>1
    <2> QED
      BY <2>2 DEF y
  <1>3. CASE ~IsLeaf(x)
    <2>1. y = Rebuilt(x, K) /\ y \in Trees[MaxDepth]
      BY <1>1, <1>3, StripIs, HeightIs
    <2>2. x.kind = "object" /\ \A f \in x.kids : IsIn(f, R)
      BY <1>3, ErrorIs, HeightIs DEF Carries
    <2>3. \A s \in Nodes : below[s][Leaf("open")] = Leaf("open")
      <3>1. Leaf("open") \in Trees[Height] /\ IsLeaf(Leaf("open"))
        BY LeafIs, HeightIs DEF Labels
      <3> QED
        BY <1>1, <3>1, StripIs, HeightIs
    <2>4. SchemaOf(Told[n], "sub") \in Nodes => \A z \in R : below[SchemaOf(Told[n], "sub")][z] \in R
      BY DEF Stable
    <2> HIDE DEF below
    <2>5. ASSUME NEW g \in K PROVE IsIn(g, R)
      <3>1. PICK f \in x.kids : g = Below(below, Told, f, KidSchema(Told[n], x, f.name))
        BY DEF Stripped
      <3>2. g = Below(below, Told, f, SchemaOf(Told[n], f.name))
        BY <2>2, <3>1 DEF KidSchema
      <3> QED
        BY <2>2, <2>3, <2>4, <3>2, BelowIn
    <2> HIDE DEF K, y
    <2>6. y.kind = "object" /\ y.kids = K /\ y.wrap = NoWrap
      BY <1>1, <2>1, <2>2, TreeIs DEF Rebuilt
    <2>7. Carries(y, R)
      BY <2>1, <2>5, <2>6 DEF Carries
    <2> QED
      BY <2>7 DEF y
  <1> QED
    BY <1>2, <1>3

LEMMA ParsedCarries ==
    ASSUME NEW n \in Nodes, NEW R, Stable(n, R), NEW x, Carries(x, R)
    PROVE  Carries(Parsed[MaxDepth][n][x], R)
  <1> DEFINE y == Parsed[MaxDepth][n][x]
             below == Parsed[Height]
             K == ParsedKids(below, n, x)
  <1>1. x \in Trees[MaxDepth] /\ x.wrap = NoWrap /\ n \in Nat /\ Nodes \subseteq Nat
    BY ToldDomain DEF Carries
  <1>2. CASE y = x
    <2> HIDE DEF y
    <2>2. Carries(y, R)
      BY <1>2
    <2> QED
      BY <2>2 DEF y
  <1>3. CASE y # x
    <2>1. y = Tree(x.kind, NoWrap, K) /\ y \in Trees[MaxDepth] /\ ~IsLeaf(x)
      BY <1>1, <1>3, ParsedIs, HeightIs
    <2>2. x.kind = "object" /\ \A f \in x.kids : IsIn(f, R)
      BY <2>1, ErrorIs, HeightIs DEF Carries
    <2>3. \A s \in Nodes : below[s][Leaf("open")] = Leaf("open")
      <3>1. Leaf("open") \in Trees[Height] /\ IsLeaf(Leaf("open"))
        BY LeafIs, HeightIs DEF Labels
      <3> QED
        BY <1>1, <3>1, ParsedIs, HeightIs
    <2>4. SchemaOf(Told[n], "sub") \in Nodes => \A z \in R : below[SchemaOf(Told[n], "sub")][z] \in R
      BY DEF Stable
    <2> HIDE DEF below
    <2>5. ASSUME NEW g \in K PROVE IsIn(g, R)
      <3>1. PICK f \in x.kids : g = Below(below, Told, f, KidSchema(Told[n], x, f.name))
        BY DEF ParsedKids
      <3>2. g = Below(below, Told, f, SchemaOf(Told[n], f.name))
        BY <2>2, <3>1 DEF KidSchema
      <3> QED
        BY <2>2, <2>3, <2>4, <3>2, BelowIn
    <2> HIDE DEF K, y
    <2>6. y.kind = "object" /\ y.kids = K /\ y.wrap = NoWrap
      BY <2>1, <2>2, TreeIs
    <2>7. Carries(y, R)
      BY <2>1, <2>5, <2>6 DEF Carries
    <2> QED
      BY <2>7 DEF y
  <1> QED
    BY <1>2, <1>3

(* What a wrapped payload is sent as, before what is in it is: a payload    *)
(* with one of them, stripped.                                              *)
LEMMA SentCarries ==
    ASSUME NEW w \in Options, w # NoWrap, NEW r \in Trees[Height], NEW R, r \in R,
           Stable(Roots[w.model], R), NEW ok, NEW p, p = Payload("sub", w, r)
    PROVE  \E x : /\ Carries(x, R) /\ Carries(Sent(MaxDepth, p, ok), R)
                  /\ Sent(MaxDepth, p, ok) = Strip(Told, w.private)[MaxDepth][Roots[w.model]][x]
  <1> DEFINE n == Roots[w.model]
             u == Unwrapped(p)
             x == Source(MaxDepth, p, ok)
  <1>1. w \in Wraps /\ w.model \in Models /\ n \in Nodes
    BY AtIs DEF Wraps, Options
  <1>2. /\ p \in Trees[MaxDepth] /\ p.kind = "object" /\ p.wrap = w
        /\ p.kids = {Field("id", Leaf("open")), Field("sub", r)}
    <2>1. IsPayload(p, "sub", w, r)
      BY <1>1, PayloadIs
    <2> QED
      BY <2>1 DEF IsPayload
  <1>3. Carries(u, R)
    <2>1. u \in Trees[MaxDepth] /\ u.wrap = NoWrap /\ u.kind = "object" /\ u.kids = p.kids
      BY <1>2, UnwrappedIs, HeightIs
    <2> HIDE DEF u
    <2> QED
      BY <1>2, <2>1, FieldIs DEF Carries, IsIn
  <1>4. Carries(Error, R)
    BY ErrorIs, HeightIs DEF Carries
  <1>5. Carries(x, R)
    <2>1. PICK keepPrivate : keepPrivate = TRUE
      OBVIOUS
    <2> DEFINE y == Strip(Told, keepPrivate)[MaxDepth][n][u]
    <2>2. Carries(y, R)
      BY <1>1, <1>3, StripCarries
    <2> HIDE DEF y
    <2>3. Carries(Parsed[MaxDepth][n][y], R)
      BY <1>1, <2>2, ParsedCarries
    <2>4. x \in {Parsed[MaxDepth][n][y], u, Error}
      BY <1>2, <2>1 DEF Source, Validated, StripExcluded, y
    <2> HIDE DEF x, u
    <2> QED
      BY <1>3, <1>4, <2>3, <2>4
  <1>6. Sent(MaxDepth, p, ok) = Strip(Told, w.private)[MaxDepth][n][x]
    BY <1>2 DEF Sent, ToJSON, StripExcluded
  <1> HIDE DEF x
  <1>7. Carries(Strip(Told, w.private)[MaxDepth][n][x], R)
    BY <1>1, <1>5, StripCarries
  <1> QED
    BY <1>5, <1>6, <1>7

-----------------------------------------------------------------------------
(* What can be reached in a graph. *)

Edges == [Nodes -> SUBSET Nodes]
Closes(edges, C) == \A m \in C : edges[m] \subseteq C

(* What is reached from a node is the least set with it that is closed: a   *)
(* set that is not closed grows by the next step, and cannot grow as often  *)
(* as there are nodes.                                                      *)
LEMMA ReachedIs ==
    ASSUME NEW edges \in Edges, NEW n \in Nodes
    PROVE  /\ n \in Reached(edges, {n}) /\ Reached(edges, {n}) \subseteq Nodes
           /\ Closes(edges, Reached(edges, {n}))
           /\ \A C : n \in C /\ (\A m \in C \cap Nodes : edges[m] \subseteq C) => Reached(edges, {n}) \subseteq C
  <1> DEFINE more(W) == W \cup UNION {edges[m] : m \in W}
             c == Cardinality(DOMAIN edges)
             eq(g) == g = [i \in 0..c |-> IF i = 0 THEN {n} ELSE more(g[i - 1])]
             within == CHOOSE g : eq(g)
  <1>1. c \in Nat /\ c = Cardinality(Nodes) /\ IsFiniteSet(Nodes)
    BY RecordsAssumption, FS_CardinalityType DEF Edges
  <1>2. \A W \in SUBSET Nodes : more(W) \in SUBSET Nodes /\ W \subseteq more(W)
    <2>1. \A m \in Nodes : edges[m] \subseteq Nodes
      BY DEF Edges
    <2> QED
      BY <2>1
  <1>3. Reached(edges, {n}) = within[c]
    BY DEF Reached
  <1>a. \A W \in SUBSET Nodes : more(W) = W => Closes(edges, W)
    BY DEF Closes
  <1>b. \A C, W : W \subseteq C /\ W \subseteq Nodes /\ (\A m \in C \cap Nodes : edges[m] \subseteq C) => more(W) \subseteq C
    BY DEF Closes
  <1> HIDE DEF more, c
  <1>4. \E g : eq(g)
    <2> DEFINE X == SUBSET Nodes
               x0 == {n}
               step == [i \in 1..c |-> [W \in X |-> more(W)]]
    <2>1. step \in [1..c -> [X -> X]] /\ x0 \in X
      BY <1>1, <1>2
    <2>2. \A i \in 1..c : \A W \in X : step[i][W] = more(W)
      OBVIOUS
    <2> HIDE DEF X, x0, step
    <2>3. PICK f \in [0..c -> X] : Runs(f, c, x0, step)
      BY <1>1, <2>1, Recursion
    <2>4. f[0] = x0 /\ \A i \in 1..c : f[i] = more(f[i - 1])
      <3>1. \A i \in 1..c : f[i - 1] \in X
        BY <1>1, <2>3
      <3> QED
        BY <2>2, <2>3, <3>1 DEF Runs
    <2>5. eq(f)
      BY <1>1, <2>3, <2>4 DEF x0
    <2> HIDE DEF eq
    <2> QED
      BY <2>5
  <1>5. eq(within)
    <2> HIDE DEF eq
    <2> QED
      BY <1>4, Zenon
  <1> HIDE DEF within
  <1>6. within[0] = {n} /\ \A i \in 1..c : within[i] = more(within[i - 1])
    <2>1. \A i \in 0..c : within[i] = IF i = 0 THEN {n} ELSE more(within[i - 1])
      BY <1>5
    <2> QED
      BY <1>1, <2>1
  <1>7. \A i \in 0..c : within[i] \subseteq Nodes /\ n \in within[i]
    <2> DEFINE S == {i \in 0..c : within[i] \subseteq Nodes /\ n \in within[i]}
    <2>1. 0 \in S
      BY <1>1, <1>6
    <2>2. \A i \in 1..c : i - 1 \in S => i \in S
      BY <1>2, <1>6
    <2> HIDE DEF S
    <2>3. 0..c \subseteq S
      BY <1>1, <2>1, <2>2, UpTo
    <2> QED
      BY <2>3 DEF S
  <1>8. ASSUME NEW C, n \in C, (\A m \in C \cap Nodes : edges[m] \subseteq C) PROVE within[c] \subseteq C
    <2> DEFINE S == {i \in 0..c : within[i] \subseteq C}
    <2>1. 0 \in S
      BY <1>1, <1>6, <1>8
    <2>2. ASSUME NEW i \in 1..c, i - 1 \in S PROVE i \in S
      BY <1>1, <1>6, <1>7, <1>8, <1>b, <2>2
    <2> HIDE DEF S
    <2>3. 0..c \subseteq S
      BY <1>1, <2>1, <2>2, UpTo
    <2> QED
      BY <1>1, <2>3 DEF S
  <1>9. Closes(edges, within[c])
    <2> DEFINE S == {i \in 0..c : Closes(edges, within[i]) \/ Cardinality(within[i]) > i}
    <2>1. 0 \in S
      <3>1. Cardinality(within[0]) = 1
        BY <1>6, FS_Singleton
      <3> QED
        BY <1>1, <3>1
    <2>2. ASSUME NEW i \in 1..c, i - 1 \in S PROVE i \in S
      <3> DEFINE W == within[i - 1]
      <3>1. i - 1 \in 0..c /\ W \subseteq Nodes /\ within[i] = more(W)
        BY <1>1, <1>6, <1>7
      <3>2. W \subseteq more(W) /\ more(W) \subseteq Nodes
        BY <1>2, <3>1
      <3>3. CASE more(W) = W
        <4>1. Closes(edges, within[i])
          BY <1>a, <3>1, <3>3
        <4> QED
          BY <4>1
      <3>4. CASE more(W) # W /\ ~Closes(edges, W)
        <4>1. Cardinality(W) > i - 1
          BY <2>2, <3>4
        <4>2. IsFiniteSet(more(W)) /\ IsFiniteSet(W)
          BY <1>1, <3>1, <3>2, FS_Subset
        <4>3. Cardinality(W) \in Nat /\ Cardinality(more(W)) \in Nat
          BY <4>2, FS_CardinalityType
        <4>4. Cardinality(W) <= Cardinality(more(W)) /\ Cardinality(W) # Cardinality(more(W))
          BY <3>2, <3>4, <4>2, FS_Subset
        <4>5. Cardinality(within[i]) > i
          BY <3>1, <4>1, <4>3, <4>4
        <4> QED
          BY <4>5
      <3>5. CASE Closes(edges, W)
        <4>1. more(W) = W
          BY <3>1, <3>2, <3>5, <1>b DEF Closes
        <4> QED
          BY <3>3, <4>1
      <3> QED
        BY <3>3, <3>4, <3>5
    <2> HIDE DEF S
    <2>3. 0..c \subseteq S
      BY <1>1, <2>1, <2>2, UpTo
    <2>4. Closes(edges, within[c]) \/ Cardinality(within[c]) > c
      BY <1>1, <2>3 DEF S
    <2>5. within[c] \subseteq Nodes
      BY <1>1, <1>7
    <2>6. CASE ~Closes(edges, within[c])
      <3>1. Cardinality(within[c]) <= Cardinality(Nodes)
        BY <1>1, <2>5, FS_Subset
      <3>2. Cardinality(within[c]) \in Nat
        BY <1>1, <2>5, FS_Subset, FS_CardinalityType
      <3> QED
        BY <1>1, <2>4, <2>6, <3>1, <3>2
    <2> QED
      BY <2>6
  <1>10. within[c] \subseteq Nodes /\ n \in within[c]
    BY <1>1, <1>7
  <1>11. \A C : n \in C /\ (\A m \in C \cap Nodes : edges[m] \subseteq C) => within[c] \subseteq C
    BY <1>8
  <1> QED
    BY <1>3, <1>9, <1>10, <1>11

(* The schemas near one: it is near, and so is what is beside one that is.  *)
LEMMA NearIs ==
    ASSUME NEW n \in Nodes
    PROVE  /\ n \in Near[n] /\ Near[n] \subseteq Nodes
           /\ \A m \in Near[n] : Besides[m] \subseteq Near[n]
           /\ \A C : n \in C /\ (\A m \in C \cap Nodes : Besides[m] \subseteq C) => Near[n] \subseteq C
  <1>1. Besides \in Edges
    BY DEF Besides, Edges
  <1>2. Near[n] = Reached(Besides, {n})
    BY DEF Near
  <1>3. /\ n \in Near[n] /\ Near[n] \subseteq Nodes /\ Closes(Besides, Near[n])
        /\ \A C : n \in C /\ (\A m \in C \cap Nodes : Besides[m] \subseteq C) => Near[n] \subseteq C
    BY <1>1, <1>2, ReachedIs
  <1> QED
    BY <1>3 DEF Closes

-----------------------------------------------------------------------------
(* Schemas that say nothing. *)

(* Where no schema says anything of the fields of an object, none is        *)
(* private, unknown or described by a schema.                               *)
Mute(S) == S \subseteq Nodes /\ \A n \in S : ~Says(n)

LEMMA MuteFields ==
    ASSUME NEW S, Mute(S), NEW k
    PROVE  ~Secret(S, k) /\ Known(S, k) /\ FieldNodes(S, k) = {}
  <1>1. \A n \in S : /\ n \in Nodes /\ ~Document[n].object /\ Document[n].patterns = <<>>
                     /\ Document[n].additional = Unsaid
    BY DEF Mute, Says
  <1>2. PropertyNodes(S, k) = {}
    BY <1>1, RecordsAssumption DEF PropertyNodes
  <1>3. PatternNodes(S, k) = {}
    <2>1. \A n \in S : Range(Document[n].patterns) = {}
      BY <1>1 DEF Range
    <2> QED
      BY <2>1 DEF PatternNodes
  <1>4. FieldNodes(S, k) = {}
    <2>1. Unsaid \notin Nodes
      BY RecordsAssumption DEF Unsaid
    <2>2. FurtherNodes(S) \subseteq {Unsaid}
      BY <1>1 DEF FurtherNodes
    <2> QED
      BY <1>2, <1>3, <2>1, <2>2 DEF FieldNodes
  <1>5. ~Secret(S, k)
    BY <1>2 DEF Secret, Closure
  <1>6. Known(S, k)
    <2>1. Unsaid # Never
      BY DEF Unsaid, Never
    <2> QED
      BY <1>1, <2>1 DEF Known
  <1> QED
    BY <1>4, <1>5, <1>6

(* A schema that says nothing of the fields of an object leaves it alone.   *)
LEMMA MuteSchema ==
    ASSUME AllLegible, NEW s \in Nodes, Mute(Near[s]), NEW v \in Trees[Height], v.kind = "object",
           NEW keepPrivate
    PROVE  Strip(Told, keepPrivate)[Height][s][v] = v /\ Parsed[Height][s][v] = v
  <1>1. Height \in Heights /\ s \in Nat /\ DOMAIN Told = Nodes /\ DOMAIN Told \subseteq Nat
    BY HeightIs, ToldDomain
  <1>2. ~IsLeaf(v)
    BY DEF IsLeaf
  <1>3. ASSUME NEW f \in v.kids
        PROVE  /\ StripKeeps(Told[s], v, f.name, keepPrivate)
               /\ KidSchema(Told[s], v, f.name) \notin Nodes
    <2>1. f.name \in Names
      BY <1>1, TreeParts
    <2>2. /\ f.name \in Told[s].private <=> Secret(Near[s], f.name)
          /\ Described(Told[s], f.name) <=> Known(Near[s], f.name)
          /\ FieldNodes(Near[s], f.name) = {SchemaOf(Told[s], f.name)} \cap Nodes
      BY <2>1 DEF AllLegible, Legible
    <2>3. /\ f.name \notin Told[s].private /\ Described(Told[s], f.name)
          /\ SchemaOf(Told[s], f.name) \notin Nodes
      BY <2>2, MuteFields
    <2> QED
      BY <2>3 DEF StripKeeps, KidSchema
  <1>4. Parsed[Height][s][v] = v
    <2>1. ~Told[s].shaped
      <3>1. Told[s].shaped => \E m \in Near[s] : Says(m)
        BY DEF AllLegible, Legible
      <3> QED
        BY <3>1 DEF Mute
    <2> QED
      BY <1>1, <2>1, ParsedIs
  <1>5. Strip(Told, keepPrivate)[Height][s][v] = v
    <2> DEFINE below == Strip(Told, keepPrivate)[Height - 1]
               K == Stripped(below, Told, s, v, keepPrivate)
    <2>1. Strip(Told, keepPrivate)[Height][s][v] = Rebuilt(v, K)
      BY <1>1, <1>2, StripIs
    <2> HIDE DEF below
    <2>2. \A f \in v.kids : Below(below, Told, f, KidSchema(Told[s], v, f.name)) = f
      BY <1>1, <1>3 DEF Below
    <2>3. K = v.kids
      <3>1. {x \in v.kids : StripKeeps(Told[s], v, x.name, keepPrivate)} = v.kids
        BY <1>3
      <3>2. K = {Below(below, Told, f, KidSchema(Told[s], v, f.name)) : f \in v.kids}
        BY <3>1 DEF Stripped
      <3> QED
        BY <2>2, <3>2
    <2> HIDE DEF K
    <2> QED
      BY <2>1, <2>3 DEF Rebuilt
  <1> QED
    BY <1>4, <1>5

LEMMA StableUnruled ==
    ASSUME AllLegible, NEW n \in Nodes, NEW r \in Trees[Height], r.kind = "object",
           \A i \in Closure({SchemaOf(Told[n], "sub")} \cap Nodes) : ~Says(i)
    PROVE  Stable(n, {r})
  <1> DEFINE s == SchemaOf(Told[n], "sub")
  <1>1. SUFFICES ASSUME s \in Nodes
                 PROVE  /\ Parsed[Height][s][r] = r
                        /\ \A keepPrivate : Strip(Told, keepPrivate)[Height][s][r] = r
    BY DEF Stable
  <1>2. Closure({s} \cap Nodes) = Near[s]
    BY <1>1 DEF Closure
  <1>3. Mute(Near[s])
    BY <1>1, <1>2, NearIs DEF Mute
  <1> HIDE DEF s
  <1> QED
    BY <1>1, <1>3, MuteSchema

LEMMA StableRecords ==
    ASSUME NEW n \in Nodes, NEW m \in Models
    PROVE  Stable(n, {z \in Trees[Height] : IsRecord(Height, m, z)})
  <1>1. \A z : IsRecord(Height, m, z) => z \in Trees[Height]
    BY DEF IsRecord
  <1>2. Nodes \subseteq Nat
    BY ToldDomain
  <1> QED
    BY <1>1, <1>2, ParsedRecord, StripRecord DEF Stable

-----------------------------------------------------------------------------
(* Nothing hidden leaves. *)

Hides(h, v) == Leaves[h][v] \cap {"private", "extra"} = {}

LEMMA LeafHides ==
    \A h \in Heights : \A v \in Trees[h] :
       IsLeaf(v) => Leaves[h][v] = {v.kind} /\ (v.kind \notin {"private", "extra"} => Hides(h, v))
  BY LeavesAre DEF Hides

(* What is left of a record hides nothing when its labels do not.           *)
LEMMA SoundLeaves ==
    ASSUME NEW h \in Heights, NEW m \in Models, NEW y, NEW u, Sound(h, m, y, u),
           Clean(h, Roots[m], "private", y), Clean(h, Roots[m], "extra", y)
    PROVE  Hides(h, y)
  <1>1. CASE y = Error
    <2>1. y \in Trees[h] /\ IsLeaf(y) /\ y.kind = "error"
      BY <1>1, ErrorIs
    <2> QED
      BY <2>1, LeafHides
  <1>2. CASE Fixed(h, At(m), y)
    BY <1>2, AtIs DEF Fixed, Clean, Hides
  <1> QED
    BY <1>1, <1>2 DEF Sound

(* What a model makes of input. *)
LEMMA InputSealed ==
    ASSUME AllLegible, NEW h \in Heights, NEW m \in Models, NEW u \in Trees[h],
           Fixed(h, At(m), u), Bare(h, u), NEW keepPrivate, ~keepPrivate, NEW ok
    PROVE  Hides(h, Validated(h, m, u, keepPrivate, ok))
  <1> DEFINE y == StripExcluded(h, m, u, keepPrivate)
             z == Parsed[h][Roots[m]][y]
  <1>1. Sound(h, m, u, u)
    BY KeepsSelf, PartSelf DEF Sound
  <1>2. Sound(h, m, y, u) /\ Clean(h, Roots[m], "private", y) /\ Clean(h, Roots[m], "extra", y)
    BY <1>1, StripSound
  <1> HIDE DEF y
  <1>3. Sound(h, m, z, u)
    BY <1>2, ParsedSound
  <1>4. Part(h, z, y)
    <2>1. y \in Trees[h] /\ Roots[m] \in Nat
      BY <1>2, AtIs, ToldDomain DEF Sound
    <2> QED
      BY <2>1, ParsedPart
  <1> HIDE DEF z
  <1>5. Clean(h, Roots[m], "private", z) /\ Clean(h, Roots[m], "extra", z)
    BY <1>2, <1>4, AtIs DEF Clean, Part
  <1>6. Hides(h, z)
    BY <1>3, <1>5, SoundLeaves
  <1>7. Hides(h, Error)
    BY ErrorIs, LeafHides
  <1> QED
    BY <1>6, <1>7 DEF Validated, y, z

(* What a record is sent as, by its own model. *)
LEMMA RecordSealed ==
    ASSUME AllLegible, NEW h \in {Height, MaxDepth}, NEW m \in Models, NEW r,
           IsRecord(Height, m, r), r.wrap # NoWrap, ~r.wrap.private, NEW ok
    PROVE  Hides(h, Json(ok)[h][r]) /\ Clean(h, Roots[m], "private", Json(ok)[h][r])
  <1> DEFINE y == Sent(h, r, ok)
  <1>1. /\ h \in Heights /\ r \in Trees[h] /\ ~IsLeaf(r) /\ r.wrap.model = m
        /\ Fixed(h, At(m), r) /\ Bare(h, Unwrapped(r))
    BY RecordParts, HeightIs
  <1>2. SentAs(h, m, r, ok, y)
    BY <1>1, SentRecord
  <1> HIDE DEF y
  <1>3. /\ Json(ok)[h][r] = y /\ Sound(h, m, y, Unwrapped(r))
        /\ Clean(h, Roots[m], "private", y) /\ Clean(h, Roots[m], "extra", y)
    BY <1>2 DEF SentAs
  <1> QED
    BY <1>1, <1>3, SoundLeaves

(* A payload hides what its fields hide. *)
LEMMA PayloadHides ==
    ASSUME NEW v \in Trees[MaxDepth], ~IsLeaf(v), \A f \in v.kids : Hides(Height, f.value)
    PROVE  Hides(MaxDepth, v)
  <1>1. \A l : l \in Leaves[MaxDepth][v] => \E f \in v.kids : l \in Leaves[Height][f.value]
    <2>1. Leaves[MaxDepth][v] = UNION {Leaves[MaxDepth - 1][f.value] : f \in v.kids}
      BY LeavesAre, HeightIs
    <2> QED
      BY <2>1 DEF Height
  <1> QED
    BY <1>1 DEF Hides

LEMMA OpenHides == /\ Hides(Height, Leaf("open"))
                   /\ \A ok : Json(ok)[Height][Leaf("open")] = Leaf("open")
  <1>1. /\ Leaf("open") \in Trees[Height] /\ IsLeaf(Leaf("open")) /\ Leaf("open").kind = "open"
        /\ Leaf("open").wrap = NoWrap
    BY LeafIs, HeightIs DEF Labels
  <1> QED
    BY <1>1, LeafHides, JsonPlain, HeightIs

(* What a wrapped payload is sent as: an error, or an object of which every *)
(* field is sent.                                                           *)
LEMMA JsonCarries ==
    ASSUME NEW p \in Trees[MaxDepth], NEW ok, NEW R, NEW y, y = Sent(MaxDepth, p, ok), Carries(y, R)
    PROVE  /\ Json(ok)[MaxDepth][p] \in Trees[MaxDepth]
           /\ \/ y = Error /\ Json(ok)[MaxDepth][p] = y
              \/ /\ ~IsLeaf(y) /\ ~IsLeaf(Json(ok)[MaxDepth][p]) /\ y \in Trees[MaxDepth]
                 /\ Json(ok)[MaxDepth][p].kind = y.kind
                 /\ Json(ok)[MaxDepth][p].kids = Each(Json(ok)[Height], y)
  <1>1. /\ Json(ok)[MaxDepth][p] \in Trees[MaxDepth]
        /\ Json(ok)[MaxDepth][p] =
             IF IsLeaf(y) THEN y ELSE Tree(y.kind, y.wrap, Each(Json(ok)[MaxDepth - 1], y))
    BY JsonIs, HeightIs
  <1>2. CASE IsLeaf(y)
    <2>1. y = Error
      BY <1>2 DEF Carries, IsLeaf
    <2> QED
      BY <1>1, <1>2, <2>1
  <1>3. CASE ~IsLeaf(y)
    <2>1. Json(ok)[MaxDepth][p] = Tree(y.kind, y.wrap, Each(Json(ok)[Height], y))
      BY <1>1, <1>3 DEF Height
    <2> QED
      BY <1>1, <1>3, <2>1, TreeIs DEF Carries, IsLeaf
  <1> QED
    BY <1>2, <1>3

(* A payload that says nothing of the record in it lets the record's own    *)
(* model decide.                                                            *)
LEMMA UnruledSealed ==
    ASSUME AllLegible, NEW m \in Models, NEW r, IsRecord(Height, m, r),
           r.wrap # NoWrap, ~r.wrap.private, NEW ok, NEW w \in Options, w # NoWrap,
           \A i \in Closure({SchemaOf(Told[Roots[w.model]], "sub")} \cap Nodes) : ~Says(i),
           NEW p, p = Payload("sub", w, r)
    PROVE  Hides(MaxDepth, Json(ok)[MaxDepth][p])
  <1> DEFINE y == Sent(MaxDepth, p, ok)
             J == Json(ok)[MaxDepth][p]
  <1>1. /\ r \in Trees[Height] /\ r.kind = "object" /\ w \in Wraps /\ Roots[w.model] \in Nodes
        /\ p \in Trees[MaxDepth]
    <2>1. r \in Trees[Height] /\ r.kind = "object" /\ w \in Wraps /\ Roots[w.model] \in Nodes
      BY AtIs DEF IsRecord, Wraps, Options
    <2> QED
      BY <2>1, PayloadIs DEF IsPayload
  <1>2. Stable(Roots[w.model], {r})
    BY <1>1, StableUnruled
  <1>3. Carries(y, {r})
    BY <1>1, <1>2, SentCarries
  <1> HIDE DEF y
  <1>4. /\ J \in Trees[MaxDepth]
        /\ \/ y = Error /\ J = y
           \/ /\ ~IsLeaf(y) /\ ~IsLeaf(J) /\ y \in Trees[MaxDepth] /\ J.kids = Each(Json(ok)[Height], y)
    BY <1>1, <1>3, JsonCarries DEF y
  <1>5. Hides(Height, Json(ok)[Height][r])
    BY RecordSealed
  <1> HIDE DEF J
  <1>6. ASSUME J = Error PROVE Hides(MaxDepth, J)
    BY <1>6, ErrorIs, LeafHides, HeightIs
  <1>7. ASSUME ~IsLeaf(y), ~IsLeaf(J), J.kids = Each(Json(ok)[Height], y)
        PROVE  Hides(MaxDepth, J)
    <2>1. \A f \in y.kids : IsIn(f, {r})
      BY <1>3, <1>7, ErrorIs, HeightIs DEF Carries
    <2>2. ASSUME NEW g \in J.kids PROVE Hides(Height, g.value)
      <3>1. PICK f \in y.kids : g = Field(f.name, Json(ok)[Height][f.value])
        BY <1>7 DEF Each
      <3>2. f.value = Leaf("open") \/ f.value = r
        BY <2>1, FieldIs DEF IsIn
      <3> QED
        BY <1>5, <3>1, <3>2, FieldIs, OpenHides
    <2> QED
      BY <1>4, <1>7, <2>2, PayloadHides
  <1>8. Hides(MaxDepth, J)
    BY <1>4, <1>6, <1>7
  <1> QED
    BY <1>8 DEF J

(* A wrapped payload keeps to itself what its own model calls private, in   *)
(* the record too.                                                          *)
LEMMA PayloadSealed ==
    ASSUME AllLegible, NEW m \in Models, NEW r, IsRecord(Height, m, r), NEW ok,
           NEW w \in Options, w # NoWrap, ~w.private, NEW p, p = Payload("sub", w, r)
    PROVE  Clean(MaxDepth, Roots[w.model], "private", Json(ok)[MaxDepth][p])
  <1> DEFINE n == Roots[w.model]
             R == {z \in Trees[Height] : IsRecord(Height, m, z)}
             y == Sent(MaxDepth, p, ok)
             J == Json(ok)[MaxDepth][p]
  <1>1. /\ r \in Trees[Height] /\ r \in R /\ w \in Wraps /\ n \in Nodes /\ n \in Nat
        /\ p \in Trees[MaxDepth] /\ DOMAIN Told \subseteq Nat
        /\ Exactly(n) \in Places /\ Exactly(n).label = "open"
    <2>1. r \in Trees[Height] /\ w \in Wraps /\ n \in Nodes
      BY AtIs DEF IsRecord, Wraps, Options
    <2> QED
      BY <2>1, PayloadIs, ToldDomain, ExactlyIs DEF IsPayload, Exactly
  <1>2. \A z \in R : IsRecord(Height, m, z) /\ z \in Trees[Height]
    OBVIOUS
  <1>3. Stable(n, R)
    BY <1>1, StableRecords
  <1> HIDE DEF R
  <1>4. PICK x : /\ Carries(x, R) /\ Carries(y, R) /\ y = Strip(Told, w.private)[MaxDepth][n][x]
    BY <1>1, <1>3, SentCarries
  <1>5. x \in Trees[MaxDepth]
    BY <1>4 DEF Carries
  <1>6. Clean(MaxDepth, n, "private", y)
    BY <1>1, <1>4, <1>5, StripHides, HeightIs
  <1>7. \A g \in y.kids : ~IsLeaf(y) => g.name \notin Told[n].private
    <2>0. Strip(Told, w.private)[MaxDepth][n][x] =
            IF IsLeaf(x) THEN x
            ELSE Rebuilt(x, Stripped(Strip(Told, w.private)[MaxDepth - 1], Told, n, x, w.private))
      <3>1. n \in Nat /\ MaxDepth \in Heights /\ DOMAIN Told \subseteq Nat
        BY <1>1, HeightIs
      <3> HIDE DEF y, n
      <3> QED
        BY <1>5, <3>1, StripIs
    <2>1. CASE IsLeaf(x)
      BY <1>4, <2>0, <2>1
    <2>2. CASE ~IsLeaf(x)
      <3> DEFINE below == Strip(Told, w.private)[MaxDepth - 1]
                 K == Stripped(below, Told, n, x, w.private)
      <3>1. y = Rebuilt(x, K)
        BY <1>4, <2>0, <2>2 DEF below, K
      <3>2. x.kind = "object"
        BY <1>4, <2>2, ErrorIs, HeightIs DEF Carries
      <3>3. ASSUME NEW g \in K PROVE g.name \notin Told[n].private
        <4>1. PICK f \in x.kids :
                 /\ StripKeeps(Told[n], x, f.name, w.private)
                 /\ g = Below(below, Told, f, KidSchema(Told[n], x, f.name))
          BY DEF Stripped
        <4>2. g.name = f.name
          BY <4>1, FieldIs DEF Below
        <4> QED
          BY <3>2, <4>1, <4>2 DEF StripKeeps
      <3> HIDE DEF K, y
      <3>4. y.kids = K
        BY <3>1, TreeIs DEF Rebuilt
      <3> QED
        BY <3>3, <3>4
    <2> QED
      BY <2>1, <2>2
  <1> HIDE DEF y
  <1>8. /\ J \in Trees[MaxDepth]
        /\ \/ y = Error /\ J = y
           \/ /\ ~IsLeaf(y) /\ ~IsLeaf(J) /\ y \in Trees[MaxDepth] /\ J.kind = y.kind
              /\ J.kids = Each(Json(ok)[Height], y)
    BY <1>1, <1>4, JsonCarries DEF y
  <1> HIDE DEF J
  <1>9. CASE J = y
    <2>1. Clean(MaxDepth, n, "private", J)
      BY <1>6, <1>9
    <2> QED
      BY <2>1 DEF J
  <1>10. CASE /\ ~IsLeaf(y) /\ ~IsLeaf(J) /\ y \in Trees[MaxDepth] /\ J.kind = y.kind
              /\ J.kids = Each(Json(ok)[Height], y)
    <2>1. y.kind = "object" /\ \A f \in y.kids : IsIn(f, R)
      BY <1>4, <1>10, ErrorIs, HeightIs DEF Carries
    <2>2. ASSUME NEW g \in J.kids
          PROVE  "private" \notin
                   Leaves[Height][Labelled[Height][KidPlace(Exactly(n), J, g.name)][g.value]]
      <3>1. PICK f \in y.kids : g = Field(f.name, Json(ok)[Height][f.value])
        BY <1>10 DEF Each
      <3> DEFINE at == KidPlace(Exactly(n), y, f.name)
                 j == Json(ok)[Height][f.value]
      <3>2. g.name = f.name /\ g.value = j /\ KidPlace(Exactly(n), J, g.name) = at
        BY <1>10, <3>1, FieldIs, KidPlaceKind
      <3>3. f.name \in Names /\ f.value \in Trees[Height] /\ at \in Places
        BY <1>1, <1>10, TreeParts, HeightIs, KidPlaceIs
      <3>4. at.label # "private"
        <4>1. KidAt(at, KidSchema(Told[n], y, f.name), Told[n], y, f.name)
          BY <1>1, <3>3, KidExactly
        <4> HIDE DEF at
        <4> QED
          BY <1>7, <1>10, <2>1, <4>1 DEF KidAt
      <3>5. "private" \notin Leaves[Height][Labelled[Height][at][f.value]]
        <4>1. "private" \notin Leaves[MaxDepth - 1][Labelled[MaxDepth - 1][at][f.value]]
          BY <1>1, <1>6, <1>10, LabelledLeaves, HeightIs DEF Clean
        <4> QED
          BY <4>1 DEF Height
      <3> HIDE DEF at, j
      <3>6. j = f.value \/ j = Error \/ Part(Height, j, f.value)
        <4>1. CASE f.value = Leaf("open")
          BY <4>1, OpenHides DEF j
        <4>2. CASE f.value \in R
          <5> DEFINE z == f.value
          <5>1. IsRecord(Height, m, z)
            BY <1>2, <4>2
          <5> HIDE DEF z
          <5>2. CASE z.wrap = NoWrap
            <6>1. j = z
              BY <5>1, <5>2, JsonRecord DEF j, z
            <6> QED
              BY <6>1 DEF z
          <5>3. CASE z.wrap # NoWrap
            <6> DEFINE s == Sent(Height, z, ok)
            <6>1. /\ z \in Trees[Height] /\ ~IsLeaf(z) /\ z.wrap.model = m
                  /\ Fixed(Height, At(m), z) /\ Bare(Height, Unwrapped(z))
              BY <5>1, <5>3, RecordParts
            <6>2. SentAs(Height, m, z, ok, s)
              BY <5>3, <6>1, SentRecord, HeightIs
            <6> HIDE DEF s
            <6>3. j = s /\ (s = Error \/ Part(Height, s, Unwrapped(z)))
              BY <6>2 DEF SentAs, Sound, j, z
            <6>4. Part(Height, Unwrapped(z), z)
              BY <6>1, UnwrappedPart, HeightIs
            <6> QED
              BY <6>3, <6>4, PartOfPart DEF z
          <5> QED
            BY <5>2, <5>3
        <4> QED
          BY <2>1, <4>1, <4>2, FieldIs DEF IsIn
      <3>7. "private" \notin Leaves[Height][Labelled[Height][at][j]]
        <4>1. CASE j = Error
          <5>1. Error \in Trees[Height] /\ IsLeaf(Error) /\ Height \in Heights
            BY ErrorIs, HeightIs
          <5> QED
            BY <3>3, <3>4, <4>1, <5>1, LabelledLeaves
        <4>2. CASE Part(Height, j, f.value)
          BY <3>3, <3>5, <4>2 DEF Part
        <4> QED
          BY <3>5, <3>6, <4>1, <4>2
      <3> QED
        BY <3>2, <3>7
    <2>3. "private" \notin Leaves[MaxDepth][Labelled[MaxDepth][Exactly(n)][J]]
      <3>1. \A g \in J.kids : "private" \notin
              Leaves[MaxDepth - 1][Labelled[MaxDepth - 1][KidPlace(Exactly(n), J, g.name)][g.value]]
        BY <2>2 DEF Height
      <3> QED
        <4>1. \A f \in J.kids : "private" \notin
                Leaves[MaxDepth - 1][Labelled[MaxDepth - 1][KidPlace(Exactly(n), J, f.name)][f.value]]
          BY <3>1
        <4>2. MaxDepth \in Heights /\ J \in Trees[MaxDepth] /\ Exactly(n) \in Places /\ ~IsLeaf(J)
          BY <1>1, <1>8, <1>10, HeightIs
        <4> HIDE DEF n
        <4> QED
          BY <4>1, <4>2, LabelledLeaves
    <2> QED
      BY <2>3 DEF Clean, J
  <1> QED
    BY <1>8, <1>9, <1>10

LEMMA RecordsSealed ==
    ASSUME AllLegible, RecordsInv
    PROVE  Sealed
  <1> DEFINE hidden == Leaves[MaxDepth][out.json] \cap {"private", "extra"}
  <1>1. own \in Models /\ place \in {"alone", "first", "sub"} /\ MaxDepth \in Heights
    BY HeightIs DEF RecordsInv, ValueInv
  <1>2. PICK r, w : w \in Wraps /\ IsRecord(Height, own, r) /\ value = Payload(place, w, r)
    BY DEF RecordsInv, ValueInv, IsValue
  <1>3. r \in Trees[Height] /\ value \in Trees[MaxDepth] /\ Record = r
    BY <1>1, <1>2, RecordParts, RecordIs DEF Record
  <1>4. out.as = "json" => out.json = Json(out.ok)[MaxDepth][value]
    BY DEF RecordsInv, OutInv, NoOut
  <1>5. place = "alone" => value = r
    BY <1>2 DEF Payload
  <1>6. place \in {"first", "sub"} => IsPayload(value, place, w, r)
    BY <1>2, <1>3, PayloadIs
  <1>7. ASSUME out.as = "input"
        PROVE  hidden = {}
    <2>1. place = "alone" /\ value.wrap = NoWrap /\ Sealing(out.json, out.ok)
      BY <1>7 DEF RecordsInv, OutInv, NoOut
    <2>2. PICK keepPrivate :
            /\ ~keepPrivate
            /\ out.json = Validated(MaxDepth, own, value, keepPrivate, out.ok)
      BY <2>1 DEF Sealing
    <2>3. /\ IsRecord(Height, own, value) /\ Fixed(MaxDepth, At(own), value)
          /\ Bare(MaxDepth, value)
      BY <1>1, <1>2, <1>5, <2>1, RecordParts
    <2>4. Hides(MaxDepth, out.json)
      BY <1>1, <1>3, <2>2, <2>3, InputSealed
    <2> QED
      BY <2>4 DEF Hides
  <1>8. ASSUME out.as = "json", Record.wrap # NoWrap, ~Record.wrap.private, ~Overruled
        PROVE  hidden = {}
    <2> DEFINE J == Json(out.ok)[MaxDepth][value]
    <2>1. r.wrap # NoWrap /\ ~r.wrap.private
      BY <1>3, <1>8
    <2>2. ASSUME place = "alone" PROVE Hides(MaxDepth, J)
      BY <1>1, <1>2, <1>5, <2>1, <2>2, RecordSealed
    <2>3. ASSUME place \in {"first", "sub"}, value.wrap = NoWrap PROVE Hides(MaxDepth, J)
      <3> DEFINE x == IF place = "first" THEN NoWrap ELSE w
                 j == Json(out.ok)[Height][r]
      <3>1. Hides(Height, j) /\ j \in Trees[Height]
        BY <1>1, <1>2, <1>3, <2>1, RecordSealed, JsonIs, HeightIs
      <3>2. place = "sub" => w = NoWrap
        BY <1>6, <2>3 DEF IsPayload
      <3>3. J = Payload(place, w, j)
        BY <1>2, <1>3, <2>3, <3>2, JsonPayload
      <3>4. IsPayload(Payload(place, w, j), place, w, j)
        BY <1>2, <2>3, <3>1, PayloadIs
      <3> HIDE DEF J, j
      <3>5. J \in Trees[MaxDepth] /\ ~IsLeaf(J)
            /\ J.kids = IF place = "first" THEN {Field("first", j)}
                        ELSE {Field("id", Leaf("open")), Field("sub", j)}
        BY <3>3, <3>4 DEF IsPayload
      <3>6. \A f \in J.kids : Hides(Height, f.value)
        BY <3>1, <3>5, FieldIs, OpenHides
      <3> QED
        BY <3>5, <3>6, PayloadHides
    <2>4. ASSUME place \in {"first", "sub"}, value.wrap # NoWrap PROVE Hides(MaxDepth, J)
      <3>1. place = "sub" /\ value.wrap = w
        BY <1>6, <2>4 DEF IsPayload
      <3>2. w \in Options /\ w # NoWrap
        BY <1>2, <2>4, <3>1 DEF Wraps
      <3>3. \A i \in Closure({SchemaOf(Told[Roots[w.model]], "sub")} \cap Nodes) : ~Says(i)
        BY <1>8, <2>4, <3>1 DEF Overruled
      <3>4. value = Payload("sub", w, r)
        BY <1>2, <3>1
      <3> HIDE DEF J
      <3> QED
        BY <1>1, <1>2, <2>1, <3>2, <3>3, <3>4, UnruledSealed DEF J
    <2>5. Hides(MaxDepth, J)
      BY <1>1, <2>2, <2>3, <2>4
    <2> HIDE DEF J
    <2>6. out.json = J
      BY <1>4, <1>8 DEF J
    <2> QED
      BY <2>5, <2>6 DEF Hides
  <1>9. ASSUME out.as = "json", value.wrap # NoWrap, ~value.wrap.private
        PROVE  "private" \notin
                 Leaves[MaxDepth][Labelled[MaxDepth][At(value.wrap.model)][out.json]]
    <2> DEFINE m == value.wrap.model
               J == Json(out.ok)[MaxDepth][value]
    <2>1. ASSUME place = "alone" PROVE m \in Models /\ Clean(MaxDepth, Roots[m], "private", J)
      <3>1. IsRecord(Height, own, value) /\ m = own
        BY <1>1, <1>2, <1>5, <1>9, <2>1, RecordParts
      <3>2. Clean(MaxDepth, Roots[own], "private", J)
        BY <1>1, <1>9, <3>1, RecordSealed
      <3> QED
        BY <1>1, <3>1, <3>2
    <2>2. ASSUME place \in {"first", "sub"}
          PROVE  m \in Models /\ Clean(MaxDepth, Roots[m], "private", J)
      <3>1. place = "sub" /\ value.wrap = w
        BY <1>6, <1>9, <2>2 DEF IsPayload
      <3>2. w \in Options /\ w # NoWrap /\ ~w.private /\ w.model \in Models
        BY <1>2, <1>9, <3>1 DEF Wraps, Options
      <3>3. value = Payload("sub", w, r)
        BY <1>2, <3>1
      <3>4. Clean(MaxDepth, Roots[w.model], "private", J)
        BY <1>1, <1>2, <3>2, <3>3, PayloadSealed
      <3> QED
        BY <3>1, <3>2, <3>4
    <2>3. m \in Models /\ Clean(MaxDepth, Roots[m], "private", J)
      BY <1>1, <2>1, <2>2
    <2>4. out.json = J
      BY <1>4, <1>9
    <2> HIDE DEF J, m
    <2>5. "private" \notin Leaves[MaxDepth][Labelled[MaxDepth][At(m)][out.json]]
      BY <2>3, <2>4, AtIs DEF Clean
    <2> QED
      BY <2>5 DEF m
  <1> QED
    BY <1>7, <1>8, <1>9 DEF Sealed

(* No private field and no undeclared field goes out or comes in, if what   *)
(* is read of every schema is what the document means.                      *)
THEOREM SealedAlways ==
    ASSUME AllLegible
    PROVE  Spec => []Sealed
  <1>1. RecordsInv => Sealed
    BY RecordsSealed
  <1> QED
    BY <1>1, RecordsAlways, PTL

-----------------------------------------------------------------------------
(* Following references. *)

Referred(doc, m) == IF doc[m].ref \in DOMAIN doc THEN doc[m].ref ELSE m
Chain(doc, n, at) ==
    /\ at \in [0..MaxDepth -> DOMAIN doc] /\ at[0] = n
    /\ \A i \in 1..MaxDepth : at[i] = Referred(doc, at[i - 1])

(* dereference is what such a chain ends in. *)
LEMMA DereferenceIs ==
    ASSUME NEW doc, NEW n \in DOMAIN doc
    PROVE  \E at : Chain(doc, n, at) /\ Dereference(doc, n) = at[MaxDepth]
  <1> DEFINE eq(g) == g = [i \in 0..MaxDepth |-> IF i = 0 THEN n ELSE Referred(doc, g[i - 1])]
             within == CHOOSE g : eq(g)
  <1>1. Dereference(doc, n) = within[MaxDepth]
    BY DEF Dereference, Referred
  <1>2. \A m \in DOMAIN doc : Referred(doc, m) \in DOMAIN doc
    BY DEF Referred
  <1>3. \E g : eq(g)
    <2> DEFINE X == DOMAIN doc
               step == [i \in 1..MaxDepth |-> [m \in X |-> Referred(doc, m)]]
    <2>1. step \in [1..MaxDepth -> [X -> X]] /\ n \in X
      BY <1>2
    <2>2. \A i \in 1..MaxDepth : \A m \in X : step[i][m] = Referred(doc, m)
      OBVIOUS
    <2> HIDE DEF X, step
    <2>3. PICK f \in [0..MaxDepth -> X] : Runs(f, MaxDepth, n, step)
      BY <2>1, Recursion, HeightsAre
    <2>4. f[0] = n /\ \A i \in 1..MaxDepth : f[i] = Referred(doc, f[i - 1])
      <3>1. \A i \in 1..MaxDepth : f[i - 1] \in X
        BY <2>3, HeightsAre
      <3> QED
        BY <2>2, <2>3, <3>1 DEF Runs
    <2>5. eq(f)
      BY <2>3, <2>4, HeightsAre
    <2> HIDE DEF eq
    <2> QED
      BY <2>5
  <1>4. eq(within)
    <2> HIDE DEF eq
    <2> QED
      BY <1>3, Zenon
  <1> HIDE DEF within
  <1>5. within[0] = n /\ \A i \in 1..MaxDepth : within[i] = Referred(doc, within[i - 1])
    <2>1. \A i \in 0..MaxDepth : within[i] = IF i = 0 THEN n ELSE Referred(doc, within[i - 1])
      BY <1>4
    <2>2. 0 \in 0..MaxDepth /\ \A i \in 1..MaxDepth : i \in 0..MaxDepth /\ i # 0
      BY HeightsAre
    <2> QED
      BY <2>1, <2>2
  <1>6. \A i \in 0..MaxDepth : within[i] \in DOMAIN doc
    <2> DEFINE S == {i \in 0..MaxDepth : within[i] \in DOMAIN doc}
    <2>1. 0 \in S
      BY <1>5, HeightsAre
    <2>2. \A i \in 1..MaxDepth : i - 1 \in S => i \in S
      BY <1>2, <1>5, HeightsAre
    <2> HIDE DEF S
    <2>3. 0..MaxDepth \subseteq S
      BY <2>1, <2>2, UpTo, HeightsAre
    <2> QED
      BY <2>3 DEF S
  <1>7. within = [i \in 0..MaxDepth |-> within[i]]
    BY <1>4
  <1> QED
    BY <1>1, <1>5, <1>6, <1>7 DEF Chain

(* A schema that is none itself refers to what the one it names refers to.  *)
LEMMA DereferenceNext ==
    ASSUME NEW doc, NEW n \in DOMAIN doc, doc[Dereference(doc, n)].ref \notin DOMAIN doc
    PROVE  /\ doc[n].ref \notin DOMAIN doc => Dereference(doc, n) = n
           /\ doc[n].ref \in DOMAIN doc => Dereference(doc, doc[n].ref) = Dereference(doc, n)
  <1>1. PICK at : Chain(doc, n, at) /\ Dereference(doc, n) = at[MaxDepth]
    BY DereferenceIs
  <1>2. ASSUME doc[n].ref \notin DOMAIN doc PROVE at[MaxDepth] = n
    <2> DEFINE S == {i \in 0..MaxDepth : at[i] = n}
    <2>1. 0 \in S
      BY <1>1, HeightsAre DEF Chain
    <2>2. \A i \in 1..MaxDepth : i - 1 \in S => i \in S
      BY <1>1, <1>2, HeightsAre DEF Chain, Referred
    <2> HIDE DEF S
    <2>3. 0..MaxDepth \subseteq S
      BY <2>1, <2>2, UpTo, HeightsAre
    <2> QED
      BY <2>3, HeightsAre DEF S
  <1>3. ASSUME doc[n].ref \in DOMAIN doc
        PROVE  Dereference(doc, doc[n].ref) = at[MaxDepth]
    <2>1. PICK b : Chain(doc, doc[n].ref, b) /\ Dereference(doc, doc[n].ref) = b[MaxDepth]
      BY <1>3, DereferenceIs
    <2> DEFINE S == {i \in 0..(MaxDepth - 1) : b[i] = at[i + 1]}
    <2>2. 0 \in S
      <3>1. at[1] = doc[n].ref
        BY <1>1, <1>3, HeightsAre DEF Chain, Referred
      <3> QED
        BY <2>1, <3>1, HeightsAre DEF Chain
    <2>3. \A i \in 1..(MaxDepth - 1) : i - 1 \in S => i \in S
      <3> SUFFICES ASSUME NEW i \in 1..(MaxDepth - 1), b[i - 1] = at[i] PROVE b[i] = at[i + 1]
        BY HeightsAre
      <3>1. i \in 1..MaxDepth /\ i + 1 \in 1..MaxDepth /\ (i + 1) - 1 = i
        BY HeightsAre
      <3>2. b[i] = Referred(doc, b[i - 1])
        BY <2>1, <3>1 DEF Chain
      <3>3. at[i + 1] = Referred(doc, at[(i + 1) - 1])
        BY <1>1, <3>1 DEF Chain
      <3> QED
        BY <3>1, <3>2, <3>3
    <2> HIDE DEF S
    <2>4. 0..(MaxDepth - 1) \subseteq S
      BY <2>2, <2>3, UpTo, HeightsAre
    <2>5. b[MaxDepth - 1] = at[MaxDepth]
      BY <2>4, HeightsAre DEF S
    <2>6. b[MaxDepth] = Referred(doc, b[MaxDepth - 1])
      BY <2>1, HeightsAre DEF Chain
    <2> QED
      BY <1>1, <2>1, <2>5, <2>6 DEF Referred
  <1> QED
    BY <1>1, <1>2, <1>3

(* Two documents with the same references.                                  *)
LEMMA DereferenceSame ==
    ASSUME NEW doc, NEW other, DOMAIN other = DOMAIN doc, NEW n \in DOMAIN doc,
           \A m \in DOMAIN doc : other[m].ref = doc[m].ref
    PROVE  Dereference(other, n) = Dereference(doc, n)
  <1>1. PICK a : Chain(doc, n, a) /\ Dereference(doc, n) = a[MaxDepth]
    BY DereferenceIs
  <1>2. PICK b : Chain(other, n, b) /\ Dereference(other, n) = b[MaxDepth]
    BY DereferenceIs
  <1> DEFINE S == {i \in 0..MaxDepth : b[i] = a[i]}
  <1>3. 0 \in S
    BY <1>1, <1>2, HeightsAre DEF Chain
  <1>4. ASSUME NEW i \in 1..MaxDepth, i - 1 \in S PROVE i \in S
    <2>1. i - 1 \in 0..MaxDepth /\ i \in 0..MaxDepth
      BY HeightsAre
    <2>2. a[i - 1] \in DOMAIN doc /\ b[i - 1] = a[i - 1]
      BY <1>1, <1>4, <2>1 DEF Chain
    <2>3. Referred(other, b[i - 1]) = Referred(doc, a[i - 1])
      BY <2>2 DEF Referred
    <2> QED
      BY <1>1, <1>2, <2>1, <2>3 DEF Chain
  <1> HIDE DEF S
  <1>5. 0..MaxDepth \subseteq S
    BY <1>3, <1>4, UpTo, HeightsAre
  <1> QED
    BY <1>1, <1>2, <1>5, HeightsAre DEF S

(* The definition a schema refers to is near it, and is itself or named by  *)
(* one that is near.                                                        *)
LEMMA DereferenceNear ==
    ASSUME NEW n \in Nodes
    PROVE  LET m == Dereference(Document, n)
           IN  /\ m \in Near[n]
               /\ m = n \/ \E x \in Near[n] : Document[x].ref = m
  <1>1. PICK at : Chain(Document, n, at) /\ Dereference(Document, n) = at[MaxDepth]
    BY DereferenceIs DEF Nodes
  <1>2. /\ n \in Near[n] /\ Near[n] \subseteq Nodes
        /\ \A m \in Near[n] : Besides[m] \subseteq Near[n]
    BY NearIs
  <1> DEFINE S == {i \in 0..MaxDepth : /\ at[i] \in Near[n]
                                       /\ at[i] = n \/ \E x \in Near[n] : Document[x].ref = at[i]}
  <1>3. 0 \in S
    BY <1>1, <1>2, HeightsAre DEF Chain
  <1>4. ASSUME NEW i \in 1..MaxDepth, i - 1 \in S PROVE i \in S
    <2>1. i - 1 \in 0..MaxDepth /\ i \in 0..MaxDepth /\ at[i] = Referred(Document, at[i - 1])
      BY <1>1, HeightsAre DEF Chain
    <2>2. at[i - 1] \in Near[n] /\ at[i - 1] \in Nodes
      BY <1>2, <1>4
    <2>3. CASE Document[at[i - 1]].ref \in Nodes
      <3>1. at[i] = Document[at[i - 1]].ref
        BY <2>1, <2>3 DEF Referred, Nodes
      <3>2. at[i] \in Besides[at[i - 1]]
        BY <2>2, <2>3, <3>1 DEF Besides
      <3> QED
        BY <1>2, <2>1, <2>2, <3>1, <3>2
    <2>4. CASE Document[at[i - 1]].ref \notin Nodes
      <3>1. at[i] = at[i - 1]
        BY <2>1, <2>4 DEF Referred, Nodes
      <3> QED
        BY <1>4, <2>1, <3>1
    <2> QED
      BY <2>3, <2>4
  <1> HIDE DEF S
  <1>5. 0..MaxDepth \subseteq S
    BY <1>3, <1>4, UpTo, HeightsAre
  <1> QED
    BY <1>1, <1>5, HeightsAre DEF S

-----------------------------------------------------------------------------
(* Collecting the schemas that describe a value. *)

(* The branches of a schema, one after the other.                           *)
Visited(below, dom, branches, start) ==
    LET after[i \in 0..Len(branches)] ==
          IF i = 0 THEN start
          ELSE IF branches[i] \in dom THEN below[branches[i]][after[i - 1]] ELSE after[i - 1]
    IN  after[Len(branches)]

Follows(f, below, dom, branches, start) ==
    /\ f \in [0..Len(branches) -> Seq(dom)] /\ f[0] = start
    /\ \A i \in 1..Len(branches) :
          f[i] = IF branches[i] \in dom THEN below[branches[i]][f[i - 1]] ELSE f[i - 1]

Visits(dom) == [dom -> [Seq(dom) -> Seq(dom)]]

LEMMA VisitedIs ==
    ASSUME NEW dom, NEW below \in Visits(dom), NEW branches, Len(branches) \in Nat,
           NEW start \in Seq(dom)
    PROVE  \E f : Follows(f, below, dom, branches, start)
                    /\ Visited(below, dom, branches, start) = f[Len(branches)]
  <1> DEFINE n == Len(branches)
             next(i, s) == IF branches[i] \in dom THEN below[branches[i]][s] ELSE s
             eq(g) == g = [i \in 0..n |-> IF i = 0 THEN start ELSE next(i, g[i - 1])]
             within == CHOOSE g : eq(g)
             X == Seq(dom)
  <1>1. Visited(below, dom, branches, start) = within[n]
    BY DEF Visited
  <1>2. \A i : \A s \in X : next(i, s) \in X
    BY DEF Visits
  <1>3. n \in Nat /\ start \in X
    OBVIOUS
  <1>9. \A i, s : next(i, s) = IF branches[i] \in dom THEN below[branches[i]][s] ELSE s
    OBVIOUS
  <1> HIDE DEF next, n
  <1>4. \E g : eq(g)
    <2> HIDE DEF X
    <2> DEFINE step == [i \in 1..n |-> [s \in X |-> next(i, s)]]
    <2>1. step \in [1..n -> [X -> X]]
      BY <1>2
    <2>2. \A i \in 1..n : \A s \in X : step[i][s] = next(i, s)
      OBVIOUS
    <2> HIDE DEF step
    <2>3. PICK f \in [0..n -> X] : Runs(f, n, start, step)
      BY <1>3, <2>1, Recursion
    <2>4. f[0] = start /\ \A i \in 1..n : f[i] = next(i, f[i - 1])
      <3>1. \A i \in 1..n : f[i - 1] \in X
        BY <1>3, <2>3
      <3> QED
        BY <2>2, <2>3, <3>1 DEF Runs
    <2>5. eq(f)
      BY <1>3, <2>3, <2>4
    <2> HIDE DEF eq
    <2> QED
      BY <2>5
  <1>5. eq(within)
    <2> HIDE DEF eq
    <2> QED
      BY <1>4, Zenon
  <1> HIDE DEF within, X
  <1>6. within[0] = start /\ \A i \in 1..n : within[i] = next(i, within[i - 1])
    <2>1. \A i \in 0..n : within[i] = IF i = 0 THEN start ELSE next(i, within[i - 1])
      BY <1>5
    <2> QED
      BY <1>3, <2>1
  <1>7. \A i \in 0..n : within[i] \in X
    <2> DEFINE S == {i \in 0..n : within[i] \in X}
    <2>1. 0 \in S
      BY <1>3, <1>6
    <2>2. \A i \in 1..n : i - 1 \in S => i \in S
      BY <1>2, <1>3, <1>6
    <2> HIDE DEF S
    <2>3. 0..n \subseteq S
      BY <1>3, <2>1, <2>2, UpTo
    <2> QED
      BY <2>3 DEF S
  <1>8. within = [i \in 0..n |-> within[i]]
    BY <1>5
  <1>10. Follows(within, below, dom, branches, start)
    BY <1>6, <1>7, <1>8, <1>9 DEF Follows, X, n
  <1> QED
    BY <1>1, <1>10 DEF n

(* What a visit collects, for the height that is left.                      *)
VisitOf(h, below, doc, n, s) ==
    IF h = 0 \/ Dereference(doc, n) \in Range(s) THEN s
    ELSE Visited(below, DOMAIN doc, doc[Dereference(doc, n)].branches, Append(s, Dereference(doc, n)))

Sequenced(doc) == \A n \in DOMAIN doc : Len(doc[n].branches) \in Nat

LEMMA CollectIs ==
    ASSUME NEW doc, Sequenced(doc)
    PROVE  \E f \in [Heights -> Visits(DOMAIN doc)] :
              /\ Collect(doc) = f[MaxDepth]
              /\ \A h \in Heights : \A n \in DOMAIN doc : \A s \in Seq(DOMAIN doc) :
                    f[h][n][s] = VisitOf(h, f[h - 1], doc, n, s)
  <1> DEFINE X == Visits(DOMAIN doc)
             next(h, below) == [n \in DOMAIN doc |-> [s \in Seq(DOMAIN doc) |->
                                  VisitOf(h, below, doc, n, s)]]
             eq(g) == g = [h \in 0..MaxDepth |-> next(h, g[h - 1])]
             c == CHOOSE g : eq(g)
             x0 == next(0, {})
  <1>1. Collect(doc) = c[MaxDepth]
    BY DEF Collect, VisitOf, Visited
  <1>2. \A below : next(0, below) = x0
    BY DEF VisitOf
  <1>3. ASSUME NEW h \in Heights, NEW below, h # 0 => below \in X PROVE next(h, below) \in X
    <2> SUFFICES ASSUME NEW n \in DOMAIN doc, NEW s \in Seq(DOMAIN doc)
                 PROVE  VisitOf(h, below, doc, n, s) \in Seq(DOMAIN doc)
      BY DEF Visits
    <2> DEFINE m == Dereference(doc, n)
    <2>1. CASE h = 0 \/ m \in Range(s)
      BY <2>1 DEF VisitOf
    <2>2. CASE h # 0 /\ m \notin Range(s)
      <3>0. PICK at : Chain(doc, n, at) /\ m = at[MaxDepth]
        BY DereferenceIs
      <3>1. m \in DOMAIN doc
        BY <3>0, HeightsAre DEF Chain
      <3>2. Append(s, m) \in Seq(DOMAIN doc) /\ Len(doc[m].branches) \in Nat
        BY <3>1, AppendProperties DEF Sequenced
      <3> HIDE DEF m
      <3>3. below \in Visits(DOMAIN doc)
        BY <1>3, <2>2
      <3>4. \E f : Follows(f, below, DOMAIN doc, doc[m].branches, Append(s, m))
                     /\ Visited(below, DOMAIN doc, doc[m].branches, Append(s, m)) = f[Len(doc[m].branches)]
        BY <3>2, <3>3, VisitedIs
      <3>5. Visited(below, DOMAIN doc, doc[m].branches, Append(s, m)) \in Seq(DOMAIN doc)
        <4> DEFINE len == Len(doc[m].branches)
        <4>1. PICK f : /\ Follows(f, below, DOMAIN doc, doc[m].branches, Append(s, m))
                       /\ Visited(below, DOMAIN doc, doc[m].branches, Append(s, m)) = f[len]
          BY <3>4
        <4>2. len \in 0..len
          BY <3>2
        <4>3. f \in [0..len -> Seq(DOMAIN doc)]
          BY <4>1 DEF Follows
        <4> HIDE DEF len
        <4>4. f[len] \in Seq(DOMAIN doc)
          BY <4>2, <4>3
        <4> QED
          BY <4>1, <4>4
      <3> QED
        BY <2>2, <3>5 DEF VisitOf, m
    <2> QED
      BY <2>1, <2>2
  <1> HIDE DEF X
  <1>4. \A h \in 0..MaxDepth : \A x : (h # 0 => x \in X) => next(h, x) \in X
    BY <1>3 DEF Heights
  <1>8. \A h, below : \A n \in DOMAIN doc : \A s \in Seq(DOMAIN doc) :
           next(h, below)[n][s] = VisitOf(h, below, doc, n, s)
    OBVIOUS
  <1>5. eq(c)
    <2> HIDE DEF next
    <2> DEFINE step == [h \in 1..MaxDepth |-> [x \in X |-> next(h, x)]]
    <2>1. step \in [1..MaxDepth -> [X -> X]] /\ x0 \in X
      BY <1>4, HeightsAre
    <2>2. \A h \in 1..MaxDepth : \A x \in X : step[h][x] = next(h, x)
      OBVIOUS
    <2> HIDE DEF step, x0
    <2>3. PICK f \in [0..MaxDepth -> X] : Runs(f, MaxDepth, x0, step)
      BY <2>1, Recursion, HeightsAre
    <2>4. f[0] = x0 /\ \A h \in 1..MaxDepth : f[h] = next(h, f[h - 1])
      <3>1. \A h \in 1..MaxDepth : f[h - 1] \in X
        BY <2>3, HeightsAre
      <3> QED
        BY <2>2, <2>3, <3>1 DEF Runs
    <2>5. \A h \in 0..MaxDepth : f[h] = next(h, f[h - 1])
      BY <1>2, <2>4, HeightsAre
    <2>6. eq(f)
      BY <2>3, <2>5
    <2> HIDE DEF eq
    <2> QED
      BY <2>6, Zenon
  <1> HIDE DEF c, next, x0
  <1>6. \A h \in 0..MaxDepth : c[h] = next(h, c[h - 1])
    BY <1>5
  <1>7. \A h \in 0..MaxDepth : c[h] \in X
    <2> DEFINE S == {h \in 0..MaxDepth : c[h] \in X}
    <2>1. 0 \in S
      BY <1>4, <1>6, HeightsAre
    <2>2. \A h \in 1..MaxDepth : h - 1 \in S => h \in S
      BY <1>4, <1>6, HeightsAre
    <2> HIDE DEF S
    <2>3. 0..MaxDepth \subseteq S
      BY <2>1, <2>2, UpTo, HeightsAre
    <2> QED
      BY <2>3 DEF S
  <1>9. c \in [Heights -> X]
    BY <1>5, <1>7 DEF Heights
  <1>10. \A h \in Heights : \A n \in DOMAIN doc : \A s \in Seq(DOMAIN doc) :
           c[h][n][s] = VisitOf(h, c[h - 1], doc, n, s)
    BY <1>6, <1>8 DEF Heights
  <1> HIDE DEF eq
  <1> QED
    BY <1>1, <1>9, <1>10 DEF X

(* What a visit adds: schemas near the one it starts from, of which the     *)
(* branches are there too.                                                  *)
Found(n) == Dereference(Document, n)
Branches(m) == {b \in Nodes : b \in Range(Document[m].branches)}
BranchesIn(m, s) == \A b \in Branches(m) : Found(b) \in Range(s)
Gathers(n, a, s) ==
    /\ s \in Seq(Nodes) /\ Range(a) \subseteq Range(s)
    /\ Range(s) \subseteq Range(a) \cup Near[n]
    /\ Found(n) \in Range(s)
    /\ \A m \in Range(s) \ Range(a) : BranchesIn(m, s)

(* What is near a branch of a schema is near the schema. *)
LEMMA BranchNear ==
    ASSUME NEW n \in Nodes, NEW b \in Branches(Found(n))
    PROVE  b \in Nodes /\ Near[b] \subseteq Near[n]
  <1>1. Found(n) \in Near[n] /\ Near[n] \subseteq Nodes
    BY DereferenceNear, NearIs DEF Found
  <1>2. b \in Besides[Found(n)]
    BY <1>1 DEF Besides, Branches
  <1>3. b \in Near[n] /\ b \in Nodes
    BY <1>1, <1>2, NearIs
  <1>4. \A m \in Near[n] : Besides[m] \subseteq Near[n]
    BY NearIs
  <1> DEFINE C == Near[n]
  <1>5. b \in C /\ \A m \in C \cap Nodes : Besides[m] \subseteq C
    BY <1>3, <1>4
  <1> HIDE DEF C
  <1>6. Near[b] \subseteq C
    BY <1>3, <1>5, NearIs
  <1> QED
    BY <1>3, <1>6 DEF C

(* What is left to visit.                                                   *)
Left(n, a) == Cardinality(Near[n] \ Range(a))

LEMMA LeftIs ==
    ASSUME NEW n \in Nodes, NEW a
    PROVE  /\ Left(n, a) \in Nat
           /\ Left(n, a) = 0 => Near[n] \subseteq Range(a)
           /\ \A b, s : /\ b \in Nodes /\ Near[b] \subseteq Near[n]
                        /\ Range(a) \cup {Found(n)} \subseteq Range(s) /\ Found(n) \notin Range(a)
                        => Left(b, s) < Left(n, a)
  <1> DEFINE S == Near[n] \ Range(a)
  <1>1. IsFiniteSet(Near[n])
    BY NearIs, RecordsAssumption, FS_Subset
  <1>2. IsFiniteSet(S) /\ Cardinality(S) \in Nat
    BY <1>1, FS_Subset, FS_CardinalityType
  <1>3. Cardinality(S) = 0 => S = {}
    BY <1>2, FS_EmptySet
  <1>4. ASSUME NEW b, NEW s, b \in Nodes, Near[b] \subseteq Near[n],
               Range(a) \cup {Found(n)} \subseteq Range(s), Found(n) \notin Range(a)
        PROVE  Left(b, s) < Left(n, a)
    <2> DEFINE T == Near[b] \ Range(s)
    <2>1. Found(n) \in S /\ Found(n) \notin T /\ T \subseteq S
      BY <1>4, DereferenceNear DEF Found
    <2>2. IsFiniteSet(T) /\ Cardinality(T) \in Nat
      BY <1>2, <2>1, FS_Subset, FS_CardinalityType
    <2>3. Cardinality(T) <= Cardinality(S) /\ Cardinality(T) # Cardinality(S)
      <3> HIDE DEF S, T
      <3> QED
        BY <1>2, <2>1, FS_Subset
    <2> QED
      BY <1>2, <2>2, <2>3 DEF Left
  <1> QED
    BY <1>2, <1>3, <1>4 DEF Left

(* The branches and patterns of a document are sequences. *)
LEMMA DocumentIs ==
    /\ Sequenced(Document) /\ DOMAIN Document = Nodes
    /\ \A m \in Nodes : /\ Len(Document[m].branches) \in Nat
                        /\ DOMAIN Document[m].branches = 1..Len(Document[m].branches)
                        /\ DOMAIN Document[m].patterns = 1..Len(Document[m].patterns)
                        /\ Len(Document[m].patterns) \in Nat
                        /\ Range(Document[m].branches)
                             = {Document[m].branches[i] : i \in 1..Len(Document[m].branches)}
                        /\ Range(Document[m].patterns)
                             = {Document[m].patterns[i] : i \in 1..Len(Document[m].patterns)}
  <1>1. DOMAIN Document = Nodes
    BY DEF Nodes
  <1>2. ASSUME NEW m \in Nodes, NEW s \in {Document[m].branches, Document[m].patterns}
        PROVE  Len(s) \in Nat /\ DOMAIN s = 1..Len(s) /\ Range(s) = {s[i] : i \in 1..Len(s)}
    <2>1. \E R : s \in Seq(R)
      BY <1>2, DocumentAssumption
    <2>2. Len(s) \in Nat /\ DOMAIN s = 1..Len(s)
      BY <2>1, LenProperties
    <2> QED
      BY <2>2 DEF Range
  <1> QED
    BY <1>1, <1>2 DEF Sequenced

LEMMA BranchesAre ==
    ASSUME NEW m \in Nodes
    PROVE  Branches(m) = {Document[m].branches[i] : i \in 1..Len(Document[m].branches)} \cap Nodes
  BY DocumentIs DEF Branches

LEMMA AppendRange ==
    ASSUME NEW D, NEW s \in Seq(D), NEW m \in D
    PROVE  Append(s, m) \in Seq(D) /\ Range(Append(s, m)) = Range(s) \cup {m}
  <1>1. /\ Append(s, m) \in Seq(D) /\ Len(Append(s, m)) = Len(s) + 1 /\ Len(s) \in Nat
        /\ DOMAIN Append(s, m) = 1..(Len(s) + 1) /\ DOMAIN s = 1..Len(s)
        /\ \A i \in 1..Len(s) : Append(s, m)[i] = s[i]
        /\ Append(s, m)[Len(s) + 1] = m
    BY AppendProperties, LenProperties
  <1>2. Range(Append(s, m)) \subseteq Range(s) \cup {m}
    BY <1>1 DEF Range
  <1>3. Range(s) \subseteq Range(Append(s, m)) /\ m \in Range(Append(s, m))
    BY <1>1 DEF Range
  <1> QED
    BY <1>1, <1>2, <1>3

(* After some branches of a schema: they are there, and what was added is   *)
(* near the schema.                                                         *)
Branched(n, a, i, s) ==
    LET m == Found(n) IN
    /\ s \in Seq(Nodes) /\ Range(a) \cup {m} \subseteq Range(s)
    /\ Range(s) \subseteq Range(a) \cup Near[n]
    /\ \A j \in 1..i : Document[m].branches[j] \in Nodes => Found(Document[m].branches[j]) \in Range(s)
    /\ \A x \in Range(s) \ (Range(a) \cup {m}) : BranchesIn(x, s)

Gathering(h, below) ==
    \A n \in Nodes : \A a \in Seq(Nodes) : Left(n, a) <= h => Gathers(n, a, below[n][a])

(* One more branch is visited. *)
LEMMA BranchedNext ==
    ASSUME NEW h \in Nat, NEW below \in Visits(Nodes), Gathering(h, below),
           NEW n \in Nodes, NEW a \in Seq(Nodes), Left(n, a) <= h + 1, Found(n) \notin Range(a),
           NEW i \in 1..Len(Document[Found(n)].branches), NEW s, Branched(n, a, i - 1, s),
           NEW t, t = IF Document[Found(n)].branches[i] \in Nodes
                      THEN below[Document[Found(n)].branches[i]][s] ELSE s
    PROVE  Branched(n, a, i, t)
  <1> DEFINE m == Found(n)
             b == Document[m].branches[i]
  <1>1. m \in Nodes
    BY DereferenceNear, NearIs DEF Found
  <1>2. /\ s \in Seq(Nodes) /\ Range(a) \cup {m} \subseteq Range(s)
        /\ Range(s) \subseteq Range(a) \cup Near[n]
        /\ \A j \in 1..(i - 1) : Document[m].branches[j] \in Nodes => Found(Document[m].branches[j]) \in Range(s)
        /\ \A x \in Range(s) \ (Range(a) \cup {m}) : BranchesIn(x, s)
    BY DEF Branched
  <1>3. i \in Nat /\ \A j \in 1..i : j = i \/ j \in 1..(i - 1)
    BY <1>1, DocumentIs
  <1>4. CASE b \notin Nodes
    BY <1>2, <1>3, <1>4 DEF Branched
  <1>5. CASE b \in Nodes
    <2>1. b \in Branches(m)
      BY <1>1, <1>5, BranchesAre
    <2>2. Near[b] \subseteq Near[n]
      BY <2>1, BranchNear
    <2>3. Left(b, s) < Left(n, a) /\ Left(b, s) \in Nat /\ Left(n, a) \in Nat
      BY <1>2, <1>5, <2>2, LeftIs
    <2>4. t = below[b][s] /\ Left(b, s) <= h
      BY <1>5, <2>3
    <2>5. Gathers(b, s, t)
      BY <1>2, <1>5, <2>4 DEF Gathering
    <2> HIDE DEF b
    <2>6. /\ t \in Seq(Nodes) /\ Range(s) \subseteq Range(t)
          /\ Range(t) \subseteq Range(s) \cup Near[n]
          /\ Found(b) \in Range(t)
          /\ \A x \in Range(t) \ Range(s) : BranchesIn(x, t)
      BY <2>2, <2>5 DEF Gathers
    <2>7. \A x : BranchesIn(x, s) => BranchesIn(x, t)
      BY <2>6 DEF BranchesIn
    <2>8. \A x \in Range(t) \ (Range(a) \cup {m}) : BranchesIn(x, t)
      BY <1>2, <2>6, <2>7
    <2>9. \A j \in 1..i : Document[m].branches[j] \in Nodes => Found(Document[m].branches[j]) \in Range(t)
      BY <1>2, <1>3, <2>6 DEF b
    <2>10. Range(a) \cup {m} \subseteq Range(t) /\ Range(t) \subseteq Range(a) \cup Near[n]
      BY <1>2, <2>6
    <2> QED
      BY <2>6, <2>8, <2>9, <2>10 DEF Branched
  <1> QED
    BY <1>4, <1>5

(* A visit from a schema gathers, if visits with less to do gather. *)
LEMMA VisitGathers ==
    ASSUME NEW h \in Nat, h # 0, NEW below \in Visits(Nodes), Gathering(h - 1, below),
           NEW n \in Nodes, NEW a \in Seq(Nodes), Left(n, a) <= h
    PROVE  Gathers(n, a, VisitOf(h, below, Document, n, a))
  <1> DEFINE m == Found(n)
             s == VisitOf(h, below, Document, n, a)
             len == Len(Document[m].branches)
  <1>1. m \in Nodes /\ m \in Near[n] /\ len \in Nat
    BY DereferenceNear, NearIs, DocumentIs DEF Found
  <1>2. CASE m \in Range(a)
    <2>1. s = a
      BY <1>2 DEF VisitOf, Found
    <2> QED
      BY <1>1, <1>2, <2>1 DEF Gathers
  <1>3. CASE m \notin Range(a)
    <2>1. s = Visited(below, Nodes, Document[m].branches, Append(a, m))
      BY <1>3, DocumentIs DEF VisitOf, Found
    <2>2. Append(a, m) \in Seq(Nodes) /\ Range(Append(a, m)) = Range(a) \cup {m}
      BY <1>1, AppendRange
    <2>3. PICK f : Follows(f, below, Nodes, Document[m].branches, Append(a, m)) /\ s = f[len]
      <3> HIDE DEF m, s
      <3>1. Append(a, m) \in Seq(Nodes) /\ Len(Document[m].branches) \in Nat
        BY <1>1, <2>2, DocumentIs
      <3>2. \E f : /\ Follows(f, below, Nodes, Document[m].branches, Append(a, m))
                   /\ Visited(below, Nodes, Document[m].branches, Append(a, m))
                        = f[Len(Document[m].branches)]
        BY <3>1, VisitedIs
      <3> QED
        BY <2>1, <3>2
    <2>4. /\ f[0] = Append(a, m)
          /\ \A i \in 1..len : f[i] = IF Document[m].branches[i] \in Nodes
                                      THEN below[Document[m].branches[i]][f[i - 1]] ELSE f[i - 1]
      BY <2>3, DocumentIs DEF Follows
    <2> DEFINE S == {i \in 0..len : Branched(n, a, i, f[i])}
    <2>5. 0 \in S
      <3>1. Branched(n, a, 0, Append(a, m))
        BY <1>1, <2>2 DEF Branched
      <3>2. Branched(n, a, 0, f[0])
        BY <2>4, <3>1
      <3>3. 0 \in 0..len
        BY <1>1
      <3> QED
        BY <3>2, <3>3
    <2>6. ASSUME NEW i \in 1..len, i - 1 \in S PROVE i \in S
      <3>1. h - 1 \in Nat /\ (h - 1) + 1 = h /\ i \in 0..len
        BY <1>1
      <3>2. Branched(n, a, i - 1, f[i - 1])
        BY <2>6
      <3>3. Branched(n, a, i, f[i])
        <4>1. f[i] = IF Document[m].branches[i] \in Nodes
                     THEN below[Document[m].branches[i]][f[i - 1]] ELSE f[i - 1]
          BY <2>4
        <4> QED
          BY <1>1, <1>3, <3>1, <3>2, <4>1, BranchedNext DEF len
      <3> QED
        BY <3>1, <3>3
    <2> HIDE DEF S
    <2>7. 0..len \subseteq S
      BY <1>1, <2>5, <2>6, UpTo
    <2>8. Branched(n, a, len, s)
      BY <1>1, <2>3, <2>7 DEF S
    <2> HIDE DEF s
    <2>9. /\ s \in Seq(Nodes) /\ Range(a) \cup {m} \subseteq Range(s)
          /\ Range(s) \subseteq Range(a) \cup Near[n]
          /\ \A j \in 1..len : Document[m].branches[j] \in Nodes => Found(Document[m].branches[j]) \in Range(s)
          /\ \A x \in Range(s) \ (Range(a) \cup {m}) : BranchesIn(x, s)
      BY <2>8 DEF Branched
    <2>10. BranchesIn(m, s)
      <3> SUFFICES ASSUME NEW b \in Branches(m) PROVE Found(b) \in Range(s)
        BY DEF BranchesIn
      <3> HIDE DEF m
      <3>1. b \in Nodes /\ \E i \in 1..Len(Document[m].branches) : b = Document[m].branches[i]
        BY <1>1, BranchesAre
      <3> QED
        BY <2>9, <3>1
    <2>11. \A x \in Range(s) \ Range(a) : BranchesIn(x, s)
      BY <2>9, <2>10
    <2>12. Gathers(n, a, s)
      BY <2>9, <2>11 DEF Gathers
    <2> QED
      BY <2>12 DEF s
  <1> QED
    BY <1>2, <1>3

(* The schemas collected for a value, of a document that is orderly: those  *)
(* near its schema that refer to no other.                                  *)
Gathered(n) == Collect(Document)[n][<<>>]

LEMMA GatheredIs ==
    ASSUME AllOrderly, NEW n \in Nodes
    PROVE  /\ Gathered(n) \in Seq(Nodes) /\ Range(Gathered(n)) \subseteq Near[n]
           /\ \A x \in Near[n] : Found(x) \in Range(Gathered(n))
           /\ \A x \in Near[n] : Document[x].ref \notin Nodes => x \in Range(Gathered(n))
  <1>1. PICK f \in [Heights -> Visits(Nodes)] :
           /\ Collect(Document) = f[MaxDepth]
           /\ \A h \in Heights : \A m \in Nodes : \A s \in Seq(Nodes) :
                 f[h][m][s] = VisitOf(h, f[h - 1], Document, m, s)
    BY CollectIs, DocumentIs
  <1> DEFINE S == {h \in Heights : Gathering(h, f[h])}
  <1>2. 0 \in S
    <2> SUFFICES ASSUME NEW m \in Nodes, NEW a \in Seq(Nodes), Left(m, a) <= 0
                 PROVE  Gathers(m, a, f[0][m][a])
      BY HeightsAre DEF Gathering
    <2>1. f[0][m][a] = a
      BY <1>1, HeightsAre DEF VisitOf
    <2>2. Near[m] \subseteq Range(a)
      BY LeftIs
    <2>3. Found(m) \in Range(a)
      BY <2>2, DereferenceNear DEF Found
    <2> QED
      BY <2>1, <2>3 DEF Gathers
  <1>3. ASSUME NEW h \in 1..MaxDepth, h - 1 \in S PROVE h \in S
    <2>1. h \in Heights /\ h - 1 \in Heights /\ h # 0 /\ h \in Nat
      BY HeightsAre
    <2>2. Gathering(h - 1, f[h - 1]) /\ f[h - 1] \in Visits(Nodes)
      BY <1>3, <2>1
    <2> SUFFICES ASSUME NEW m \in Nodes, NEW a \in Seq(Nodes), Left(m, a) <= h
                 PROVE  Gathers(m, a, f[h][m][a])
      BY <2>1 DEF Gathering
    <2>3. f[h][m][a] = VisitOf(h, f[h - 1], Document, m, a)
      BY <1>1, <2>1
    <2>4. Gathers(m, a, VisitOf(h, f[h - 1], Document, m, a))
      BY <2>1, <2>2, VisitGathers
    <2> QED
      BY <2>3, <2>4
  <1> HIDE DEF S
  <1>4. 0..MaxDepth \subseteq S
    BY <1>2, <1>3, UpTo, HeightsAre
  <1>5. Gathering(MaxDepth, Collect(Document))
    BY <1>1, <1>4, HeightsAre DEF S
  <1>6. <<>> \in Seq(Nodes) /\ Range(<<>>) = {}
    BY DEF Range
  <1>7. Left(n, <<>>) <= MaxDepth
    <2>1. Near[n] \ Range(<<>>) = Near[n]
      BY <1>6
    <2>2. Cardinality(Near[n]) < MaxDepth
      BY DEF AllOrderly, Orderly
    <2>3. Left(n, <<>>) = Cardinality(Near[n]) /\ Left(n, <<>>) \in Nat
      BY <2>1, LeftIs DEF Left
    <2> QED
      BY <2>2, <2>3, HeightsAre
  <1>8. Gathers(n, <<>>, Gathered(n))
    BY <1>5, <1>6, <1>7 DEF Gathering, Gathered
  <1> DEFINE R == Range(Gathered(n))
             C == {x \in Near[n] : Found(x) \in R}
  <1>9. /\ Gathered(n) \in Seq(Nodes) /\ R \subseteq Near[n] /\ Found(n) \in R
        /\ \A m \in R : \A b \in Branches(m) : Found(b) \in R
    BY <1>6, <1>8 DEF Gathers, BranchesIn
  <1> HIDE DEF R
  <1>10. /\ n \in Near[n] /\ Near[n] \subseteq Nodes
         /\ \A m \in Near[n] : Besides[m] \subseteq Near[n]
    BY NearIs
  <1>11. ASSUME NEW x \in C, NEW y \in Besides[x] PROVE y \in C
    <2>1. x \in Nodes /\ y \in Near[n] /\ y \in Nodes
      BY <1>10, <1>11
    <2>2. Document[Found(x)].ref \notin Nodes /\ Orderly(x)
      BY <2>1 DEF AllOrderly, Orderly, Found
    <2>3. CASE y = Document[x].ref
      <3>1. Found(y) = Found(x)
        BY <2>1, <2>2, <2>3, DereferenceNext, DocumentIs DEF Found
      <3> QED
        BY <2>1, <3>1
    <2>4. CASE y \in Range(Document[x].branches)
      <3>1. Document[x].branches # <<>>
        BY <2>4 DEF Range
      <3>2. Document[x].ref \notin Nodes
        BY <2>2, <3>1 DEF Orderly
      <3>3. Found(x) = x
        BY <2>1, <2>2, <3>2, DereferenceNext, DocumentIs DEF Found
      <3>4. y \in Branches(x) /\ x \in R
        BY <2>1, <2>4, <3>3 DEF Branches
      <3> QED
        BY <1>9, <2>1, <3>4
    <2> QED
      BY <2>1, <2>3, <2>4 DEF Besides
  <1>12. n \in C
    BY <1>9, <1>10
  <1>13. Near[n] \subseteq C
    <2> HIDE DEF C
    <2>1. \A x \in C \cap Nodes : Besides[x] \subseteq C
      BY <1>11
    <2> QED
      BY <1>12, <2>1, NearIs
  <1>14. ASSUME NEW x \in Near[n], Document[x].ref \notin Nodes PROVE x \in R
    <2>1. x \in Nodes /\ Document[Found(x)].ref \notin Nodes
      BY <1>10 DEF AllOrderly, Orderly, Found
    <2>2. Found(x) = x
      BY <1>14, <2>1, DereferenceNext, DocumentIs DEF Found
    <2> QED
      BY <1>13, <2>2
  <1> QED
    BY <1>9, <1>13, <1>14 DEF R

-----------------------------------------------------------------------------
(* What is first in a sequence. *)

LEMMA FirstAtIs ==
    ASSUME NEW n \in Nat, NEW s, NEW I, I \subseteq 1..n, I # {}, NEW default
    PROVE  \E i \in I : FirstAt(s, I, default) = s[i]
  <1>1. \E x \in I : \A y \in I : x <= y
    BY Least
  <1>2. Min(I) \in I
    BY <1>1, Zenon DEF Min
  <1> QED
    BY <1>2 DEF FirstAt

(* The values of a sequence.                                                *)
Values(s) == {s[i] : i \in DOMAIN s}

LEMMA FirstSchemaIs ==
    ASSUME NEW n \in Nat, NEW s, DOMAIN s = 1..n, Single(Values(s) \cap Nodes)
    PROVE  {FirstSchema(Document, s)} \cap Nodes = Values(s) \cap Nodes
  <1> DEFINE I == {i \in DOMAIN s : s[i] \in DOMAIN Document}
  <1>1. I \subseteq 1..n /\ DOMAIN Document = Nodes /\ \A i \in I : s[i] \in Values(s) \cap Nodes
    BY DEF Nodes, Values
  <1>2. FirstSchema(Document, s) = FirstAt(s, I, Nothing)
    BY DEF FirstSchema
  <1>3. CASE I = {}
    <2>1. FirstSchema(Document, s) = Nothing
      BY <1>2, <1>3 DEF FirstAt
    <2>2. Nothing \notin Nodes
      BY RecordsAssumption DEF Nothing
    <2>3. Values(s) \cap Nodes = {}
      BY <1>1, <1>3 DEF Values
    <2> QED
      BY <2>1, <2>2, <2>3
  <1>4. CASE I # {}
    <2> HIDE DEF I
    <2>1. PICK i \in I : FirstAt(s, I, Nothing) = s[i]
      BY <1>1, <1>4, FirstAtIs
    <2>2. FirstSchema(Document, s) \in Values(s) \cap Nodes
      BY <1>1, <1>2, <2>1
    <2> QED
      BY <2>2 DEF Single
  <1> QED
    BY <1>3, <1>4

LEMMA FirstSaidIs ==
    ASSUME NEW n \in Nat, NEW s, DOMAIN s = 1..n
    PROVE  /\ FirstSaid(s) # Never => FirstSaid(s) \in Values(s)
           /\ FirstSaid(s) = Never => Values(s) \subseteq {Never}
  <1> DEFINE I == {i \in DOMAIN s : s[i] # Never}
  <1>1. I \subseteq 1..n /\ \A i \in I : s[i] \in Values(s) /\ s[i] # Never
    BY DEF Values
  <1>2. FirstSaid(s) = FirstAt(s, I, Never)
    BY DEF FirstSaid
  <1>3. CASE I = {}
    <2>1. FirstSaid(s) = Never
      BY <1>2, <1>3 DEF FirstAt
    <2>2. Values(s) \subseteq {Never}
      BY <1>3 DEF Values
    <2> QED
      BY <2>1, <2>2
  <1>4. CASE I # {}
    <2> HIDE DEF I
    <2>1. PICK i \in I : FirstAt(s, I, Never) = s[i]
      BY <1>1, <1>4, FirstAtIs
    <2> QED
      BY <1>1, <1>2, <2>1
  <1> QED
    BY <1>3, <1>4

-----------------------------------------------------------------------------
(* Reading the schemas that were gathered. *)

LEMMA ToldIs ==
    ASSUME NEW n \in Nodes
    PROVE  /\ Told[n] = Read(Document, Applicable(Document, n))
           /\ Applicable(Document, n) = [i \in DOMAIN Gathered(n) |-> Document[Gathered(n)[i]]]
  BY DEF Told, Reading, Nodes, Applicable, Gathered

(* A schema that refers to another says nothing else.                       *)
LEMMA ReferenceIs ==
    ASSUME AllOrderly, NEW x \in Nodes, Document[x].ref \in Nodes
    PROVE  /\ ~Document[x].object /\ DOMAIN Document[x].props = {}
           /\ Document[x].patterns = <<>> /\ Document[x].additional = Unsaid
           /\ Document[x].branches = <<>> /\ Document[x].items \notin Nodes
  <1>1. ~Says(x) /\ Document[x].branches = <<>> /\ Document[x].items \notin Nodes
    BY DEF AllOrderly, Orderly
  <1> QED
    BY <1>1, RecordsAssumption DEF Says

(* What the schemas that are gathered say is what those that are near say.  *)
LEMMA GatheredSay ==
    ASSUME AllOrderly, NEW n \in Nodes
    PROVE  LET S == Near[n]
               R == Range(Gathered(n))
           IN  /\ R \subseteq S /\ S \subseteq Nodes /\ n \in S
               /\ \A x \in S \ R : Document[x].ref \in Nodes
               /\ \A k : PropertyNodes(S, k) =
                           {Document[x].props[k] : x \in {y \in R : k \in DOMAIN Document[y].props}}
               /\ \A k : PatternNodes(S, k) =
                           UNION {{p.schema : p \in {q \in Range(Document[x].patterns) : k \in q.names}} : x \in R}
               /\ FurtherNodes(S) \ {Unsaid} = {Document[x].additional : x \in R} \ {Unsaid}
               /\ ItemNodes(S) = {Document[x].items : x \in R} \cap Nodes
  <1> DEFINE S == Near[n]
             R == Range(Gathered(n))
  <1>1. R \subseteq S /\ S \subseteq Nodes /\ n \in S
    BY GatheredIs, NearIs
  <1>2. \A x \in S \ R : Document[x].ref \in Nodes
    BY GatheredIs
  <1> HIDE DEF R, S
  <1>3. \A x \in S \ R : /\ ~Document[x].object /\ DOMAIN Document[x].props = {}
                         /\ Document[x].patterns = <<>> /\ Document[x].additional = Unsaid
                         /\ Document[x].items \notin Nodes
    BY <1>1, <1>2, ReferenceIs
  <1>4. \A k : PropertyNodes(S, k) =
                 {Document[x].props[k] : x \in {y \in R : k \in DOMAIN Document[y].props}}
    <2> SUFFICES ASSUME NEW k
                 PROVE  {y \in S : k \in DOMAIN Document[y].props} = {y \in R : k \in DOMAIN Document[y].props}
      BY DEF PropertyNodes
    <2> QED
      BY <1>1, <1>3
  <1>5. Range(<<>>) = {}
    BY DEF Range
  <1>6. \A k : PatternNodes(S, k) =
                 UNION {{p.schema : p \in {q \in Range(Document[x].patterns) : k \in q.names}} : x \in R}
    <2> SUFFICES ASSUME NEW k
                 PROVE  UNION {{p.schema : p \in {q \in Range(Document[x].patterns) : k \in q.names}} : x \in S}
                          = UNION {{p.schema : p \in {q \in Range(Document[x].patterns) : k \in q.names}} : x \in R}
      BY DEF PatternNodes
    <2> DEFINE T(x) == {p.schema : p \in {q \in Range(Document[x].patterns) : k \in q.names}}
    <2>1. \A x \in S \ R : T(x) = {}
      BY <1>3, <1>5
    <2> HIDE DEF T
    <2>2. UNION {T(x) : x \in S} = UNION {T(x) : x \in R}
      BY <1>1, <2>1
    <2> QED
      BY <2>2 DEF T
  <1>7. FurtherNodes(S) \ {Unsaid} = {Document[x].additional : x \in R} \ {Unsaid}
    BY <1>1, <1>3 DEF FurtherNodes
  <1>8. ItemNodes(S) = {Document[x].items : x \in R} \cap Nodes
    BY <1>1, <1>3 DEF ItemNodes
  <1> QED
    BY <1>1, <1>2, <1>4, <1>6, <1>7, <1>8 DEF R, S

(* What is read of a schema, by what those that are near say.               *)
LEMMA FieldsTold ==
    ASSUME AllOrderly, NEW n \in Nodes, NEW k \in Names
    PROVE  LET S == Near[n]
               P == PropertyNodes(S, k)
               T == PatternNodes(S, k)
           IN  /\ k \in Told[n].private <=> \E p \in P : IsPrivate(Document, p)
               /\ k \in Told[n].named <=> P \ {Never} # {}
               /\ {Told[n].schema[k]} \cap Nodes = P \cap Nodes
               /\ Told[n].pattern[k] # Never => Told[n].pattern[k] \in T
               /\ Told[n].pattern[k] = Never => T \subseteq {Never}
               /\ {Told[n].additional} \cap Nodes = FurtherNodes(S) \cap Nodes
               /\ {Told[n].items} \cap Nodes = ItemNodes(S)
  <1> DEFINE S == Near[n]
             P == PropertyNodes(S, k)
             T == PatternNodes(S, k)
             s == Gathered(n)
             R == Range(s)
             nodes == [i \in DOMAIN s |-> Document[s[i]]]
             all == Range(nodes)
  <1>1. Told[n] = Read(Document, nodes)
    BY ToldIs
  <1>2. s \in Seq(Nodes) /\ R \subseteq Nodes
    BY GatheredIs, NearIs
  <1>3. Len(s) \in Nat /\ DOMAIN s = 1..Len(s) /\ \A i \in DOMAIN s : s[i] \in Nodes
    BY <1>2, LenProperties
  <1>4. R = {s[i] : i \in DOMAIN s}
    BY DEF Range
  <1>5. DOMAIN nodes = DOMAIN s /\ \A i \in DOMAIN s : nodes[i] = Document[s[i]]
    OBVIOUS
  <1>6. all = {nodes[i] : i \in DOMAIN nodes}
    BY DEF Range
  <1>7. all = {Document[x] : x \in R}
    <2> HIDE DEF nodes, all, R, s
    <2> QED
      BY <1>4, <1>5, <1>6
  <1>8. /\ P = {Document[x].props[k] : x \in {y \in R : k \in DOMAIN Document[y].props}}
        /\ T = UNION {{p.schema : p \in {q \in Range(Document[x].patterns) : k \in q.names}} : x \in R}
        /\ FurtherNodes(S) \ {Unsaid} = {Document[x].additional : x \in R} \ {Unsaid}
        /\ ItemNodes(S) = {Document[x].items : x \in R} \cap Nodes
    BY GatheredSay
  <1>9. /\ Single(ItemNodes(S)) /\ Single(FurtherNodes(S) \cap Nodes)
        /\ Single(P \ {Never}) /\ Single(T \ {Never})
    BY DEF AllOrderly, Orderly
  <1>10. Nodes \subseteq Nat \ {0} /\ Never \notin Nodes /\ Unsaid \notin Nodes /\ Nothing \notin Nodes
    BY RecordsAssumption DEF Never, Unsaid, Nothing
  <1>11. /\ Told[n].private = {j \in Names : \E x \in all : IsPrivate(Document, Property(x, j))}
         /\ Told[n].named = {j \in Names : \E x \in all : Property(x, j) # Never}
         /\ Told[n].schema[k] = FirstSchema(Document, [i \in DOMAIN nodes |-> Property(nodes[i], k)])
         /\ Told[n].pattern[k] = FirstSaid([i \in DOMAIN nodes |-> Pattern(nodes[i], k)])
         /\ Told[n].additional = FirstSchema(Document, [i \in DOMAIN nodes |-> nodes[i].additional])
         /\ Told[n].items = FirstSchema(Document, [i \in DOMAIN nodes |-> nodes[i].items])
    <2> HIDE DEF nodes
    <2> QED
      BY <1>1 DEF Read
  <1>12. DOMAIN Document = Nodes
    BY DEF Nodes
  <1> HIDE DEF nodes, all, R, s, S, P, T
  <1>13. P \subseteq {Property(x, k) : x \in all} /\ \A x \in all : Property(x, k) \in P \cup {Never}
    BY <1>7, <1>8 DEF Property
  <1>14. \A p : IsPrivate(Document, p) => p \in Nodes
    BY <1>12 DEF IsPrivate
  <1>15. k \in Told[n].private <=> \E p \in P : IsPrivate(Document, p)
    BY <1>10, <1>11, <1>13, <1>14
  <1>16. k \in Told[n].named <=> P \ {Never} # {}
    BY <1>11, <1>13
  <1>17. {Told[n].schema[k]} \cap Nodes = P \cap Nodes
    <2> DEFINE t == [i \in DOMAIN nodes |-> Property(nodes[i], k)]
    <2>1. DOMAIN t = 1..Len(s)
      BY <1>3, <1>5
    <2>2. Values(t) = {Property(x, k) : x \in all}
      BY <1>6 DEF Values
    <2>3. Values(t) \cap Nodes = P \cap Nodes
      BY <1>10, <1>13, <2>2
    <2>4. Single(Values(t) \cap Nodes)
      BY <1>9, <1>10, <2>3 DEF Single
    <2> HIDE DEF t
    <2>5. {FirstSchema(Document, t)} \cap Nodes = P \cap Nodes
      BY <1>3, <2>1, <2>3, <2>4, FirstSchemaIs
    <2> QED
      BY <1>11, <2>5 DEF t
  <1>18. {Told[n].additional} \cap Nodes = FurtherNodes(S) \cap Nodes
    <2> DEFINE t == [i \in DOMAIN nodes |-> nodes[i].additional]
    <2>1. DOMAIN t = 1..Len(s)
      BY <1>3, <1>5
    <2>2. Values(t) = {x.additional : x \in all}
      BY <1>6 DEF Values
    <2>3. Values(t) \cap Nodes = FurtherNodes(S) \cap Nodes
      BY <1>7, <1>8, <1>10, <2>2
    <2> HIDE DEF t
    <2>4. {FirstSchema(Document, t)} \cap Nodes = FurtherNodes(S) \cap Nodes
      BY <1>3, <1>9, <2>1, <2>3, FirstSchemaIs
    <2> QED
      BY <1>11, <2>4 DEF t
  <1>19. {Told[n].items} \cap Nodes = ItemNodes(S)
    <2> DEFINE t == [i \in DOMAIN nodes |-> nodes[i].items]
    <2>1. DOMAIN t = 1..Len(s)
      BY <1>3, <1>5
    <2>2. Values(t) = {x.items : x \in all}
      BY <1>6 DEF Values
    <2>3. Values(t) \cap Nodes = ItemNodes(S)
      BY <1>7, <1>8, <2>2
    <2> HIDE DEF t
    <2>4. {FirstSchema(Document, t)} \cap Nodes = ItemNodes(S)
      BY <1>3, <1>9, <2>1, <2>3, FirstSchemaIs
    <2> QED
      BY <1>11, <2>4 DEF t
  <1>20. ASSUME NEW x \in R
         PROVE  LET M == {p.schema : p \in {q \in Range(Document[x].patterns) : k \in q.names}}
                    first == Pattern(Document[x], k)
                IN  (first # Never => first \in M) /\ (first = Never => M \subseteq {Never})
    <2> DEFINE f == Document[x].patterns
               M == {p.schema : p \in {q \in Range(f) : k \in q.names}}
               t == [j \in DOMAIN f |-> IF k \in f[j].names THEN f[j].schema ELSE Never]
    <2>1. x \in Nodes
      BY <1>2, <1>20
    <2>2. DOMAIN f = 1..Len(f) /\ Len(f) \in Nat /\ Range(f) = {f[j] : j \in 1..Len(f)}
      BY <2>1, DocumentIs
    <2>3. Pattern(Document[x], k) = FirstSaid(t)
      BY DEF Pattern
    <2> HIDE DEF f
    <2>4. DOMAIN t = 1..Len(f)
      BY <2>2
    <2>5. Values(t) \subseteq M \cup {Never} /\ M \subseteq Values(t)
      BY <2>2 DEF Values
    <2> HIDE DEF t, M
    <2>6. /\ FirstSaid(t) # Never => FirstSaid(t) \in Values(t)
          /\ FirstSaid(t) = Never => Values(t) \subseteq {Never}
      BY <2>2, <2>4, FirstSaidIs
    <2> QED
      BY <2>3, <2>5, <2>6 DEF M, f
  <1>21. LET first == Told[n].pattern[k]
         IN  (first # Never => first \in T) /\ (first = Never => T \subseteq {Never})
    <2> DEFINE t == [i \in DOMAIN nodes |-> Pattern(nodes[i], k)]
               M(x) == {p.schema : p \in {q \in Range(Document[x].patterns) : k \in q.names}}
    <2>1. DOMAIN t = 1..Len(s)
      BY <1>3, <1>5
    <2>2. Values(t) = {Pattern(x, k) : x \in all}
      BY <1>6 DEF Values
    <2>3. Values(t) = {Pattern(Document[x], k) : x \in R}
      BY <1>7, <2>2
    <2>4. \A x \in R : /\ Pattern(Document[x], k) # Never => Pattern(Document[x], k) \in M(x)
                       /\ Pattern(Document[x], k) = Never => M(x) \subseteq {Never}
      BY <1>20
    <2>5. T = UNION {M(x) : x \in R}
      BY <1>8
    <2> HIDE DEF t, M
    <2>6. /\ FirstSaid(t) # Never => FirstSaid(t) \in Values(t)
          /\ FirstSaid(t) = Never => Values(t) \subseteq {Never}
      BY <1>3, <2>1, FirstSaidIs
    <2>7. FirstSaid(t) # Never => FirstSaid(t) \in T
      BY <2>3, <2>4, <2>5, <2>6
    <2>8. FirstSaid(t) = Never => T \subseteq {Never}
      BY <2>3, <2>4, <2>5, <2>6
    <2> QED
      BY <1>11, <2>7, <2>8 DEF t
  <1> QED
    BY <1>15, <1>16, <1>17, <1>18, <1>19, <1>21 DEF S, P, T

(* Whether a schema is shaped and whether it is closed, by the same. *)
LEMMA ShapeTold ==
    ASSUME AllOrderly, NEW n \in Nodes
    PROVE  LET S == Near[n] IN
           /\ Told[n].shaped => \E m \in S : Says(m)
           /\ ~Told[n].closed <=>
                 \/ FurtherNodes(S) \ {Unsaid, Never} # {}
                 \/ \A m \in S : /\ ~Document[m].object /\ Document[m].patterns = <<>>
                                 /\ Document[m].additional # Never
  <1> DEFINE S == Near[n]
             s == Gathered(n)
             R == Range(s)
             nodes == [i \in DOMAIN s |-> Document[s[i]]]
             all == Range(nodes)
  <1>1. Told[n] = Read(Document, nodes)
    BY ToldIs
  <1>2. all = {Document[x] : x \in R}
    BY DEF Range
  <1>3. /\ R \subseteq S /\ S \subseteq Nodes
        /\ \A x \in S \ R : Document[x].ref \in Nodes
        /\ FurtherNodes(S) \ {Unsaid} = {Document[x].additional : x \in R} \ {Unsaid}
    BY GatheredSay
  <1>4. /\ Told[n].shaped = \E x \in all : x.object \/ x.additional # Unsaid
        /\ Told[n].closed = Closed(all)
    <2> HIDE DEF nodes
    <2> QED
      BY <1>1 DEF Read
  <1> HIDE DEF nodes, all, R, s, S
  <1>5. \A x \in S \ R : ~Document[x].object /\ Document[x].patterns = <<>> /\ Document[x].additional = Unsaid
    BY <1>3, ReferenceIs
  <1>6. Told[n].shaped => \E m \in S : Says(m)
    BY <1>2, <1>3, <1>4 DEF Says
  <1>7. Closed(all) <=>
           /\ \A x \in R : Document[x].additional \in {Unsaid, Never}
           /\ \E x \in R : Document[x].object \/ Document[x].patterns # <<>> \/ Document[x].additional = Never
    BY <1>2 DEF Closed
  <1>8. (\A x \in R : Document[x].additional \in {Unsaid, Never})
           <=> FurtherNodes(S) \ {Unsaid, Never} = {}
    BY <1>3
  <1>9. Unsaid # Never
    BY DEF Unsaid, Never
  <1>10. (\E x \in R : Document[x].object \/ Document[x].patterns # <<>> \/ Document[x].additional = Never)
           <=> ~ \A m \in S : /\ ~Document[m].object /\ Document[m].patterns = <<>>
                              /\ Document[m].additional # Never
    BY <1>3, <1>5, <1>9
  <1>11. ~Closed(all) <=>
            \/ FurtherNodes(S) \ {Unsaid, Never} # {}
            \/ \A m \in S : /\ ~Document[m].object /\ Document[m].patterns = <<>>
                            /\ Document[m].additional # Never
    BY <1>7, <1>8, <1>10
  <1> QED
    BY <1>4, <1>6, <1>11 DEF S

(* Of a document that is orderly, what the code reads of every schema is    *)
(* what the document means (schema-utils.ts).                               *)
THEOREM OrderlyLegible == ASSUME AllOrderly PROVE AllLegible
  <1> SUFFICES ASSUME NEW n \in Nodes PROVE Legible(n)
    BY DEF AllLegible
  <1> DEFINE S == Near[n]
  <1>1. S \subseteq Nodes
    BY NearIs
  <1>2. Never \notin Nodes
    BY RecordsAssumption DEF Never
  <1>3. ASSUME NEW k \in Names
        PROVE  /\ k \in Told[n].private <=> Secret(S, k)
               /\ Described(Told[n], k) <=> Known(S, k)
               /\ FieldNodes(S, k) = {SchemaOf(Told[n], k)} \cap Nodes
    <2> DEFINE P == PropertyNodes(S, k)
               T == PatternNodes(S, k)
    <2>1. /\ k \in Told[n].private <=> \E p \in P : IsPrivate(Document, p)
          /\ k \in Told[n].named <=> P \ {Never} # {}
          /\ {Told[n].schema[k]} \cap Nodes = P \cap Nodes
          /\ Told[n].pattern[k] # Never => Told[n].pattern[k] \in T
          /\ Told[n].pattern[k] = Never => T \subseteq {Never}
          /\ {Told[n].additional} \cap Nodes = FurtherNodes(S) \cap Nodes
      BY FieldsTold
    <2>2. /\ ~Told[n].closed <=>
                \/ FurtherNodes(S) \ {Unsaid, Never} # {}
                \/ \A m \in S : /\ ~Document[m].object /\ Document[m].patterns = <<>>
                                /\ Document[m].additional # Never
      BY ShapeTold
    <2>3. \A p \in P \cap Nodes : (\E q \in Near[p] : Document[q].private) => IsPrivate(Document, p)
      BY DEF AllOrderly, Orderly
    <2>4. Single(T \ {Never})
      BY DEF AllOrderly, Orderly
    <2>5. Secret(S, k) <=> \E p \in P \cap Nodes : \E q \in Near[p] : Document[q].private
      BY DEF Secret, Closure
    <2>6. ASSUME NEW p, IsPrivate(Document, p) PROVE p \in Nodes /\ \E q \in Near[p] : Document[q].private
      <3>1. p \in Nodes
        BY <2>6 DEF IsPrivate, Nodes
      <3>2. p \in Near[p] /\ Dereference(Document, p) \in Near[p]
        BY <3>1, NearIs, DereferenceNear
      <3> QED
        BY <2>6, <3>1, <3>2 DEF IsPrivate
    <2> HIDE DEF S, P, T
    <2>7. k \in Told[n].private <=> Secret(S, k)
      BY <2>1, <2>3, <2>5, <2>6
    <2>8. Described(Told[n], k) <=> Known(S, k)
      BY <2>1, <2>2 DEF Described, Known, P, T
    <2>9. FieldNodes(S, k) = {SchemaOf(Told[n], k)} \cap Nodes
      <3>1. CASE k \in Told[n].named
        BY <2>1, <3>1 DEF FieldNodes, SchemaOf, P
      <3>2. CASE k \notin Told[n].named /\ Told[n].pattern[k] # Never
        <4>1. T \cap Nodes = {Told[n].pattern[k]} \cap Nodes
          BY <1>2, <2>1, <2>4, <3>2 DEF Single
        <4>2. T \ {Never} # {} /\ P \ {Never} = {}
          BY <2>1, <3>2
        <4> QED
          BY <3>2, <4>1, <4>2 DEF FieldNodes, SchemaOf, Unnamed, P, T
      <3>3. CASE k \notin Told[n].named /\ Told[n].pattern[k] = Never
        <4>1. T \ {Never} = {} /\ P \ {Never} = {}
          BY <2>1, <3>3
        <4> QED
          BY <2>1, <3>3, <4>1 DEF FieldNodes, SchemaOf, Unnamed, P, T
      <3> QED
        BY <3>1, <3>2, <3>3
    <2> QED
      BY <2>7, <2>8, <2>9
  <1>4. ItemNodes(S) = {Told[n].items} \cap Nodes
    <2>1. \E k : k \in Names
      BY RecordsAssumption
    <2> QED
      BY <2>1, FieldsTold
  <1>5. Told[n].shaped => \E m \in S : Says(m)
    BY ShapeTold
  <1> HIDE DEF S
  <1> QED
    BY <1>3, <1>4, <1>5 DEF Legible, S

-----------------------------------------------------------------------------
(* The published documents. *)

(* The walk over the schemas below a root comes to all of them, if they are *)
(* fewer than the depth it goes to.                                         *)
Nexts == [n \in Nodes |-> Walked(Document, n) \cap Nodes]

LEMMA UnderIs ==
    ASSUME NEW root \in Nodes
    PROVE  /\ Nexts \in Edges
           /\ root \in Under(root) /\ Under(root) \subseteq Nodes /\ Closes(Nexts, Under(root))
           /\ \A C : root \in C /\ (\A m \in C \cap Nodes : Nexts[m] \subseteq C) => Under(root) \subseteq C
  <1>1. Nexts \in Edges
    BY DEF Nexts, Edges
  <1>2. Under(root) = Reached(Nexts, {root})
    BY DEF Under, Nexts, Walked
  <1> DEFINE U == Reached(Nexts, {root})
  <1> HIDE DEF Nexts
  <1>3. /\ root \in U /\ U \subseteq Nodes /\ Closes(Nexts, U)
        /\ \A C : root \in C /\ (\A m \in C \cap Nodes : Nexts[m] \subseteq C) => U \subseteq C
    BY <1>1, ReachedIs
  <1> HIDE DEF U
  <1>4. Under(root) = U
    BY <1>2 DEF U
  <1> QED
    BY <1>1, <1>3, <1>4

LEMMA WalkedAll ==
    ASSUME NEW root \in Nodes, Cardinality(Under(root)) < MaxDepth
    PROVE  Under(root) \subseteq WalkedFrom(Document, root)
  <1> DEFINE more(W) == {root} \cup UNION {Nexts[n] : n \in W}
             eq(g) == g = [d \in 0..MaxDepth |-> IF d = 0 THEN {} ELSE more(g[d - 1])]
             raw(g) == g = [d \in 0..MaxDepth |-> IF d = 0 THEN {}
                              ELSE {root} \cup ((UNION {Walked(Document, n) : n \in g[d - 1]}) \cap DOMAIN Document)]
             within == CHOOSE g : raw(g)
  <1>1. WalkedFrom(Document, root) = within[MaxDepth]
    BY DEF WalkedFrom
  <1>2. \A W \in SUBSET Nodes : more(W) \in SUBSET Nodes
    BY UnderIs DEF Edges
  <1>3. \A W \in SUBSET Nodes :
           more(W) = {root} \cup ((UNION {Walked(Document, n) : n \in W}) \cap DOMAIN Document)
    <2> SUFFICES ASSUME NEW W \in SUBSET Nodes
                 PROVE  UNION {Nexts[n] : n \in W} = (UNION {Walked(Document, n) : n \in W}) \cap Nodes
      BY DEF Nodes
    <2>1. \A n \in W : Nexts[n] = Walked(Document, n) \cap Nodes
      BY DEF Nexts
    <2> QED
      BY <2>1
  <1>a. \A W, V : W \subseteq V => more(W) \subseteq more(V)
    OBVIOUS
  <1>b. \A C, W : W \subseteq C /\ W \subseteq Nodes /\ root \in C /\ (\A m \in C \cap Nodes : Nexts[m] \subseteq C)
                    => more(W) \subseteq C
    OBVIOUS
  <1>c. \A W : more(W) = W => root \in W /\ \A m \in W \cap Nodes : Nexts[m] \subseteq W
    OBVIOUS
  <1> HIDE DEF more
  <1>4. PICK f : /\ f \in [0..MaxDepth -> SUBSET Nodes] /\ f[0] = {}
                 /\ \A d \in 1..MaxDepth : f[d] = more(f[d - 1])
    <2> DEFINE X == SUBSET Nodes
               step == [d \in 1..MaxDepth |-> [W \in X |-> more(W)]]
    <2>1. step \in [1..MaxDepth -> [X -> X]] /\ {} \in X
      BY <1>2
    <2>2. \A d \in 1..MaxDepth : \A W \in X : step[d][W] = more(W)
      OBVIOUS
    <2> HIDE DEF X, step
    <2>3. PICK f \in [0..MaxDepth -> X] : Runs(f, MaxDepth, {}, step)
      BY <2>1, Recursion, HeightsAre
    <2>4. \A d \in 1..MaxDepth : f[d - 1] \in X
      BY <2>3, HeightsAre
    <2>5. f[0] = {} /\ \A d \in 1..MaxDepth : f[d] = more(f[d - 1])
      BY <2>2, <2>3, <2>4 DEF Runs
    <2> QED
      BY <2>3, <2>5 DEF X
  <1>5. raw(f)
    <2>1. ASSUME NEW d \in 0..MaxDepth
          PROVE  f[d] = IF d = 0 THEN {}
                        ELSE {root} \cup ((UNION {Walked(Document, n) : n \in f[d - 1]}) \cap DOMAIN Document)
      <3>1. CASE d = 0
        BY <1>4, <3>1
      <3>2. CASE d # 0
        <4>1. d \in 1..MaxDepth /\ d - 1 \in 0..MaxDepth
          BY <3>2, HeightsAre
        <4>2. f[d - 1] \in SUBSET Nodes /\ f[d] = more(f[d - 1])
          BY <1>4, <4>1
        <4>3. more(f[d - 1]) = {root} \cup ((UNION {Walked(Document, n) : n \in f[d - 1]}) \cap DOMAIN Document)
          BY <1>3, <4>2
        <4> QED
          BY <3>2, <4>2, <4>3
      <3> QED
        BY <3>1, <3>2
    <2> QED
      BY <1>4, <2>1
  <1>6. raw(within)
    <2> HIDE DEF raw
    <2> QED
      BY <1>5, Zenon
  <1> HIDE DEF within
  <1>7. \A d \in 0..MaxDepth : within[d] = f[d]
    <2> DEFINE S == {d \in 0..MaxDepth : within[d] = f[d]}
    <2>1. 0 \in S
      BY <1>4, <1>6, HeightsAre
    <2>2. ASSUME NEW d \in 1..MaxDepth, d - 1 \in S PROVE d \in S
      <3>1. d \in 0..MaxDepth /\ d # 0 /\ within[d - 1] = f[d - 1]
        BY <2>2, HeightsAre
      <3>2. within[d] = {root} \cup ((UNION {Walked(Document, n) : n \in within[d - 1]}) \cap DOMAIN Document)
        BY <1>6, <3>1
      <3>3. f[d] = {root} \cup ((UNION {Walked(Document, n) : n \in f[d - 1]}) \cap DOMAIN Document)
        BY <1>5, <3>1
      <3> QED
        BY <3>1, <3>2, <3>3
    <2> HIDE DEF S, raw
    <2>3. 0..MaxDepth \subseteq S
      BY <2>1, <2>2, UpTo, HeightsAre
    <2> QED
      BY <2>3 DEF S
  <1> HIDE DEF raw
  <1>8. \A d \in 1..MaxDepth : f[d - 1] \subseteq f[d]
    <2> DEFINE S == {d \in 0..MaxDepth : d # 0 => f[d - 1] \subseteq f[d]}
    <2>1. 0 \in S
      BY HeightsAre
    <2>2. ASSUME NEW d \in 1..MaxDepth, d - 1 \in S PROVE d \in S
      <3>1. CASE d = 1
        BY <1>4, <3>1, HeightsAre
      <3>2. CASE d # 1
        <4>1. d - 1 \in 1..MaxDepth /\ d \in 0..MaxDepth
          BY <3>2, HeightsAre
        <4>2. f[(d - 1) - 1] \subseteq f[d - 1]
          BY <2>2, <4>1
        <4>3. f[d] = more(f[d - 1]) /\ f[d - 1] = more(f[(d - 1) - 1])
          BY <1>4, <4>1
        <4>4. f[d - 1] \subseteq f[d]
          BY <1>a, <4>2, <4>3
        <4> QED
          BY <4>1, <4>4
      <3> QED
        BY <3>1, <3>2
    <2> HIDE DEF S
    <2>3. 0..MaxDepth \subseteq S
      BY <2>1, <2>2, UpTo, HeightsAre
    <2> QED
      BY <2>3, HeightsAre DEF S
  <1>9. \A d \in 0..MaxDepth : f[d] \subseteq Under(root)
    <2> DEFINE S == {d \in 0..MaxDepth : f[d] \subseteq Under(root)}
    <2>1. 0 \in S
      BY <1>4, HeightsAre
    <2>2. ASSUME NEW d \in 1..MaxDepth, d - 1 \in S PROVE d \in S
      <3>1. root \in Under(root) /\ \A m \in Under(root) \cap Nodes : Nexts[m] \subseteq Under(root)
        BY UnderIs DEF Closes
      <3>2. f[d - 1] \subseteq Under(root) /\ f[d - 1] \subseteq Nodes
        BY <1>4, <2>2, HeightsAre
      <3>3. more(f[d - 1]) \subseteq Under(root)
        BY <1>b, <3>1, <3>2
      <3> QED
        BY <1>4, <3>3, HeightsAre
    <2> HIDE DEF S
    <2>3. 0..MaxDepth \subseteq S
      BY <2>1, <2>2, UpTo, HeightsAre
    <2> QED
      BY <2>3 DEF S
  <1> DEFINE whole(W) == root \in W /\ \A m \in W \cap Nodes : Nexts[m] \subseteq W
  <1>10. \A d \in 0..MaxDepth : whole(f[d]) \/ Cardinality(f[d]) >= d
    <2> DEFINE S == {d \in 0..MaxDepth : whole(f[d]) \/ Cardinality(f[d]) >= d}
    <2>0. \A d \in 0..MaxDepth : IsFiniteSet(f[d]) /\ Cardinality(f[d]) \in Nat
      BY <1>4, RecordsAssumption, FS_Subset, FS_CardinalityType
    <2>1. 0 \in S
      BY <2>0, HeightsAre
    <2>2. ASSUME NEW d \in 1..MaxDepth, d - 1 \in S PROVE d \in S
      <3>1. d \in 0..MaxDepth /\ d - 1 \in 0..MaxDepth /\ d \in Nat
        BY HeightsAre
      <3>2. f[d] = more(f[d - 1]) /\ f[d - 1] \subseteq f[d] /\ f[d - 1] \subseteq Nodes
        BY <1>4, <1>8, <3>1
      <3>3. CASE f[d] = f[d - 1]
        <4>1. whole(f[d])
          BY <1>c, <3>2, <3>3
        <4> QED
          BY <3>1, <4>1
      <3>4. CASE f[d] # f[d - 1] /\ ~whole(f[d - 1])
        <4>1. Cardinality(f[d - 1]) >= d - 1
          BY <2>2, <3>4
        <4>2. Cardinality(f[d - 1]) <= Cardinality(f[d]) /\ Cardinality(f[d - 1]) # Cardinality(f[d])
          BY <2>0, <3>1, <3>2, <3>4, FS_Subset
        <4>3. Cardinality(f[d]) >= d
          BY <2>0, <3>1, <4>1, <4>2
        <4> QED
          BY <3>1, <4>3
      <3>5. CASE whole(f[d - 1])
        <4>1. more(f[d - 1]) \subseteq f[d - 1]
          BY <1>b, <3>2, <3>5
        <4> QED
          BY <3>2, <3>3, <4>1
      <3> QED
        BY <3>3, <3>4, <3>5
    <2> HIDE DEF S, whole
    <2>3. 0..MaxDepth \subseteq S
      BY <2>1, <2>2, UpTo, HeightsAre
    <2> QED
      BY <2>3 DEF S
  <1>11. whole(f[MaxDepth])
    <2>1. f[MaxDepth] \subseteq Under(root) /\ IsFiniteSet(Under(root))
      BY <1>9, UnderIs, RecordsAssumption, FS_Subset, HeightsAre
    <2>2. Cardinality(f[MaxDepth]) <= Cardinality(Under(root))
      BY <2>1, FS_Subset
    <2>3. Cardinality(f[MaxDepth]) \in Nat /\ Cardinality(Under(root)) \in Nat
      BY <2>1, FS_Subset, FS_CardinalityType
    <2>4. ~(Cardinality(f[MaxDepth]) >= MaxDepth)
      BY <2>2, <2>3, HeightsAre
    <2> QED
      BY <1>10, <2>4, HeightsAre
  <1>12. Under(root) \subseteq f[MaxDepth]
    BY <1>11, UnderIs
  <1> QED
    BY <1>1, <1>7, <1>12, HeightsAre

(* What a model publishes differs from its document only in the properties  *)
(* of the nodes that the walk comes to.                                     *)
LEMMA PublishedIs ==
    ASSUME NEW m \in Models
    PROVE  /\ DOMAIN Published[m] = Nodes
           /\ \A n \in Nodes :
                 LET x == Published[m][n]
                     y == Document[n]
                 IN  /\ x.ref = y.ref /\ x.private = y.private /\ x.object = y.object
                     /\ x.branches = y.branches /\ x.items = y.items
                     /\ x.patterns = y.patterns /\ x.additional = y.additional
                     /\ x.props = IF n \in WalkedFrom(Document, Roots[m])
                                  THEN [k \in Public(Document, n) |-> y.props[k]] ELSE y.props
  <1>1. Published[m] = StripSchema(Document, Roots[m])
    BY DEF Published
  <1>2. DOMAIN Published[m] = Nodes
    BY <1>1 DEF StripSchema, Nodes
  <1> SUFFICES ASSUME NEW n \in Nodes
               PROVE  LET x == Published[m][n]
                          y == Document[n]
                      IN  /\ x.ref = y.ref /\ x.private = y.private /\ x.object = y.object
                          /\ x.branches = y.branches /\ x.items = y.items
                          /\ x.patterns = y.patterns /\ x.additional = y.additional
                          /\ x.props = IF n \in WalkedFrom(Document, Roots[m])
                                       THEN [k \in Public(Document, n) |-> y.props[k]] ELSE y.props
    BY <1>2
  <1>3. DOMAIN Document[n] = {"ref", "private", "object", "props", "branches", "items",
                              "patterns", "additional", "defs"}
    BY DocumentAssumption DEF Node
  <1> DEFINE e == [k \in Public(Document, n) |-> Document[n].props[k]]
  <1>4. Published[m][n] = IF n \in WalkedFrom(Document, Roots[m])
                          THEN [Document[n] EXCEPT !.props = e] ELSE Document[n]
    BY <1>1 DEF StripSchema, Nodes
  <1> HIDE DEF e
  <1>5. LET x == [Document[n] EXCEPT !.props = e]
            y == Document[n]
        IN  /\ x.ref = y.ref /\ x.private = y.private /\ x.object = y.object
            /\ x.branches = y.branches /\ x.items = y.items
            /\ x.patterns = y.patterns /\ x.additional = y.additional
            /\ x.props = e
    BY <1>3
  <1> QED
    BY <1>4, <1>5 DEF e

(* The walk deletes no schema: the same are collected.                      *)
LEMMA PublishedGathers ==
    ASSUME NEW m \in Models, NEW n \in Nodes
    PROVE  Collect(Published[m])[n][<<>>] = Gathered(n)
  <1> DEFINE D == Published[m]
  <1>1. /\ DOMAIN D = Nodes /\ DOMAIN Document = Nodes
        /\ \A x \in Nodes : D[x].ref = Document[x].ref /\ D[x].branches = Document[x].branches
    BY PublishedIs DEF Nodes
  <1> HIDE DEF D
  <1>2. Sequenced(D) /\ Sequenced(Document)
    BY <1>1, DocumentIs DEF Sequenced
  <1>3. PICK f \in [Heights -> Visits(Nodes)] :
           /\ Collect(Document) = f[MaxDepth]
           /\ \A h \in Heights : \A x \in Nodes : \A s \in Seq(Nodes) :
                 f[h][x][s] = VisitOf(h, f[h - 1], Document, x, s)
    BY <1>1, <1>2, CollectIs
  <1>4. PICK g \in [Heights -> Visits(Nodes)] :
           /\ Collect(D) = g[MaxDepth]
           /\ \A h \in Heights : \A x \in Nodes : \A s \in Seq(Nodes) :
                 g[h][x][s] = VisitOf(h, g[h - 1], D, x, s)
    BY <1>1, <1>2, CollectIs
  <1>5. ASSUME NEW x \in Nodes PROVE Dereference(D, x) = Found(x) /\ Found(x) \in Nodes
    BY <1>1, DereferenceSame, DereferenceNear, NearIs DEF Found
  <1>6. ASSUME NEW h, NEW below, NEW x \in Nodes, NEW s
        PROVE  VisitOf(h, below, D, x, s) = VisitOf(h, below, Document, x, s)
    BY <1>1, <1>5 DEF VisitOf, Found
  <1> DEFINE S == {h \in Heights : \A x \in Nodes : \A s \in Seq(Nodes) : f[h][x][s] = g[h][x][s]}
  <1>7. 0 \in S
    <2>1. \A x \in Nodes : \A s \in Seq(Nodes) : \A below : VisitOf(0, below, Document, x, s) = s
      BY DEF VisitOf
    <2> QED
      BY <1>3, <1>4, <1>6, <2>1, HeightsAre
  <1>8. ASSUME NEW h \in 1..MaxDepth, h - 1 \in S PROVE h \in S
    <2>1. h \in Heights /\ h - 1 \in Heights
      BY HeightsAre
    <2>2. f[h - 1] \in Visits(Nodes) /\ g[h - 1] \in Visits(Nodes)
      BY <2>1
    <2>3. f[h - 1] = g[h - 1]
      <3>1. \A x \in Nodes : \A s \in Seq(Nodes) : f[h - 1][x][s] = g[h - 1][x][s]
        BY <1>8
      <3> DEFINE Q == Seq(Nodes)
      <3>2. /\ f[h - 1] \in [Nodes -> [Q -> Q]] /\ g[h - 1] \in [Nodes -> [Q -> Q]]
            /\ \A x \in Nodes : \A s \in Q : f[h - 1][x][s] = g[h - 1][x][s]
        BY <2>2, <3>1 DEF Visits
      <3> HIDE DEF Q
      <3>3. \A x \in Nodes : f[h - 1][x] = g[h - 1][x]
        BY <3>2
      <3> QED
        BY <3>2, <3>3
    <2> QED
      BY <1>3, <1>4, <1>6, <2>1, <2>3
  <1> HIDE DEF S
  <1>9. 0..MaxDepth \subseteq S
    BY <1>7, <1>8, UpTo, HeightsAre
  <1>10. <<>> \in Seq(Nodes)
    OBVIOUS
  <1>11. f[MaxDepth][n][<<>>] = g[MaxDepth][n][<<>>]
    <2>1. \A s \in Seq(Nodes) : f[MaxDepth][n][s] = g[MaxDepth][n][s]
      BY <1>9, HeightsAre DEF S
    <2> QED
      BY <1>10, <2>1
  <1> QED
    BY <1>3, <1>4, <1>11 DEF Gathered, D

LEMMA ToldPublishedIs ==
    ASSUME NEW m \in Models
    PROVE  /\ DOMAIN ToldPublished[m] = Nodes
           /\ \A n \in Nodes : ToldPublished[m][n] =
                 Read(Published[m], [i \in DOMAIN Gathered(n) |-> Published[m][Gathered(n)[i]]])
  <1>1. ToldPublished[m] = Reading(Published[m]) /\ DOMAIN Published[m] = Nodes
    BY PublishedIs DEF ToldPublished
  <1> QED
    BY <1>1, PublishedGathers DEF Reading, Applicable

(* The schemas of what a model sends.                                       *)
Shows == [n \in Nodes |->
            Besides[n] \cup (({Document[n].props[k] : k \in Public(Document, n)} \cup {Document[n].items})
                              \cap Nodes)]

LEMMA ShownIs ==
    ASSUME NEW root \in Nodes
    PROVE  /\ root \in Shown(root) /\ Shown(root) \subseteq Nodes
           /\ \A n \in Shown(root) :
                 /\ Near[n] \subseteq Shown(root)
                 /\ {Document[n].items} \cap Nodes \subseteq Shown(root)
                 /\ \A k \in Public(Document, n) : {Document[n].props[k]} \cap Nodes \subseteq Shown(root)
  <1>1. Shows \in Edges
    BY DEF Shows, Edges, Besides
  <1>2. Shown(root) = Reached(Shows, {root})
    BY DEF Shown, Shows
  <1> DEFINE U == Reached(Shows, {root})
  <1>3. root \in U /\ U \subseteq Nodes /\ Closes(Shows, U)
    BY <1>1, ReachedIs
  <1> HIDE DEF U
  <1>4. ASSUME NEW n \in U
        PROVE  /\ Besides[n] \subseteq U /\ {Document[n].items} \cap Nodes \subseteq U
               /\ \A k \in Public(Document, n) : {Document[n].props[k]} \cap Nodes \subseteq U
    <2>1. Shows[n] \subseteq U /\ n \in Nodes
      BY <1>3 DEF Closes
    <2> QED
      BY <2>1 DEF Shows
  <1>5. \A n \in U : Near[n] \subseteq U
    BY <1>3, <1>4, NearIs
  <1>6. Shown(root) = U
    BY <1>2 DEF U
  <1> QED
    BY <1>3, <1>4, <1>5, <1>6

(* What a model that lists its fields publishes of a schema: it names the   *)
(* fields that are not private, and says the same of them and of the rest.  *)
Reduced(pub, all, k) ==
    /\ pub.closed = all.closed /\ pub.items = all.items
    /\ pub.additional = all.additional /\ pub.pattern[k] = all.pattern[k]
    /\ k \in pub.named <=> k \in all.named /\ k \notin all.private
    /\ k \in pub.named => {pub.schema[k]} \cap Nodes = {all.schema[k]} \cap Nodes
    /\ ~all.closed => k \notin all.private
    /\ all.pattern[k] = Never

(* What the nodes that are walked name: the public properties.              *)
LEMMA PublicProperty ==
    ASSUME NEW m \in Listing, AllUnder, NEW x \in Shown(Roots[m]), NEW k
    PROVE  Property(Published[m][x], k)
             = IF k \in Public(Document, x) THEN Document[x].props[k] ELSE Never
  <1>1. m \in Models /\ Roots[m] \in Nodes /\ x \in Nodes
    BY ShownIs, RecordsAssumption DEF Listing
  <1>2. Cardinality(Under(Roots[m])) < MaxDepth /\ (Document[x].object => x \in Under(Roots[m]))
    BY DEF AllUnder
  <1>3. Under(Roots[m]) \subseteq WalkedFrom(Document, Roots[m])
    BY <1>1, <1>2, WalkedAll
  <1>4. Published[m][x].props = IF x \in WalkedFrom(Document, Roots[m])
                                THEN [j \in Public(Document, x) |-> Document[x].props[j]]
                                ELSE Document[x].props
    BY <1>1, PublishedIs
  <1>5. Public(Document, x) \subseteq DOMAIN Document[x].props
    BY DEF Public
  <1>6. CASE Document[x].object
    <2>1. Published[m][x].props = [j \in Public(Document, x) |-> Document[x].props[j]]
      BY <1>2, <1>3, <1>4, <1>6
    <2> QED
      BY <2>1 DEF Property
  <1>7. CASE ~Document[x].object
    <2>1. DOMAIN Document[x].props = {}
      BY <1>1, <1>7, RecordsAssumption
    <2>2. k \notin DOMAIN Published[m][x].props /\ k \notin Public(Document, x)
      BY <1>4, <1>5, <2>1
    <2> QED
      BY <2>2 DEF Property
  <1> QED
    BY <1>6, <1>7

(* A property that is published is not private by its definition either.    *)
LEMMA PublicShown ==
    ASSUME NEW m \in Listing, NEW x \in Shown(Roots[m]), NEW k \in Public(Document, x),
           Document[x].props[k] \in Nodes
    PROVE  Document[x].props[k] \in Shown(Roots[m]) /\ ~IsPrivate(Document, Document[x].props[k])
  <1> DEFINE p == Document[x].props[k]
  <1>1. m \in Models /\ Roots[m] \in Nodes
    BY RecordsAssumption DEF Listing
  <1>2. p \in Shown(Roots[m])
    BY <1>1, ShownIs
  <1>3. Near[p] \subseteq Shown(Roots[m])
    BY <1>1, <1>2, ShownIs
  <1>4. ~Document[p].private
    BY DEF Public, Nodes
  <1>5. \A y \in Shown(Roots[m]) : Document[y].ref \in Nodes => ~Document[Document[y].ref].private
    BY DEF Listing, Listed
  <1> HIDE DEF p
  <1>6. p \in Nodes
    BY <1>1, <1>2, ShownIs
  <1>7. Dereference(Document, p) = p \/ \E y \in Near[p] : Document[y].ref = Dereference(Document, p)
    BY <1>6, DereferenceNear
  <1>8. Dereference(Document, p) \in Nodes
    BY <1>6, DereferenceNear, NearIs
  <1>9. ~Document[Dereference(Document, p)].private
    BY <1>3, <1>4, <1>5, <1>7, <1>8
  <1>10. ~IsPrivate(Document, p)
    BY <1>4, <1>9 DEF IsPrivate
  <1> QED
    BY <1>2, <1>10 DEF p

(* Of the schemas a model sends, what is published is reduced so. *)
LEMMA PublishedFields ==
    ASSUME AllOrderly, AllUnder, NEW m \in Listing, NEW n \in Shown(Roots[m]), NEW k \in Names
    PROVE  /\ Reduced(ToldPublished[m][n], Told[n], k)
           /\ {Told[n].items} \cap Nodes \subseteq Shown(Roots[m])
           /\ {Told[n].additional} \cap Nodes = {}
           /\ k \in ToldPublished[m][n].named => {Told[n].schema[k]} \cap Nodes \subseteq Shown(Roots[m])
  <1> DEFINE D == Published[m]
             Sh == Shown(Roots[m])
             s == Gathered(n)
             R == Range(s)
             nodes == [i \in DOMAIN s |-> Document[s[i]]]
             pubs == [i \in DOMAIN s |-> D[s[i]]]
             F == Told[n]
             G == ToldPublished[m][n]
             P == PropertyNodes(Near[n], k)
             Q == {Document[x].props[k] : x \in {y \in R : k \in Public(Document, y)}}
  <1>1. /\ m \in Models /\ Roots[m] \in Nodes /\ n \in Nodes /\ Sh \subseteq Nodes
        /\ Near[n] \subseteq Sh
    BY ShownIs, RecordsAssumption DEF Listing
  <1>2. s \in Seq(Nodes) /\ R \subseteq Near[n] /\ R \subseteq Sh /\ R \subseteq Nodes
    BY <1>1, GatheredIs, NearIs
  <1>3. Len(s) \in Nat /\ DOMAIN s = 1..Len(s) /\ (\A i \in DOMAIN s : s[i] \in R)
        /\ R = {s[i] : i \in DOMAIN s}
    BY <1>2, LenProperties DEF Range
  <1>4. F = Read(Document, nodes) /\ G = Read(D, pubs)
    BY <1>1, ToldIs, ToldPublishedIs
  <1>5. DOMAIN D = Nodes /\ DOMAIN Document = Nodes
    BY <1>1, PublishedIs DEF Nodes
  <1>6. \A x \in R : /\ D[x].object = Document[x].object /\ D[x].items = Document[x].items
                     /\ D[x].patterns = Document[x].patterns
                     /\ D[x].additional = Document[x].additional
    <2>1. \A x \in Nodes : /\ D[x].object = Document[x].object /\ D[x].items = Document[x].items
                           /\ D[x].patterns = Document[x].patterns
                           /\ D[x].additional = Document[x].additional
      BY <1>1, PublishedIs
    <2> QED
      BY <1>2, <2>1
  <1>7. \A x \in R : Property(D[x], k) = IF k \in Public(Document, x) THEN Document[x].props[k] ELSE Never
    <2>1. ASSUME NEW x \in Shown(Roots[m])
          PROVE  Property(Published[m][x], k)
                   = IF k \in Public(Document, x) THEN Document[x].props[k] ELSE Never
      BY PublicProperty
    <2>2. \A x \in R : x \in Shown(Roots[m])
      BY <1>2
    <2> HIDE DEF R
    <2> QED
      BY <2>1, <2>2, ZenonT(30)
  <1>8. \A x \in R : Document[x].additional \in {Unsaid, Never} /\ Document[x].patterns = <<>>
    BY <1>2 DEF Listing, Listed
  <1>9. P = {Document[x].props[k] : x \in {y \in R : k \in DOMAIN Document[y].props}}
    BY <1>1, GatheredSay
  <1>10. /\ k \in F.private <=> \E p \in P : IsPrivate(Document, p)
         /\ k \in F.named <=> P \ {Never} # {}
         /\ {F.schema[k]} \cap Nodes = P \cap Nodes
         /\ {F.additional} \cap Nodes = FurtherNodes(Near[n]) \cap Nodes
         /\ {F.items} \cap Nodes = ItemNodes(Near[n])
         /\ F.pattern[k] # Never => F.pattern[k] \in PatternNodes(Near[n], k)
    BY <1>1, FieldsTold
  <1>11. Nodes \subseteq Nat \ {0} /\ Never \notin Nodes /\ Unsaid \notin Nodes
    BY RecordsAssumption DEF Never, Unsaid
  <1>12. Single(P \ {Never})
    BY <1>1 DEF AllOrderly, Orderly
  <1>13. /\ F.closed = Closed(Range(nodes)) /\ G.closed = Closed(Range(pubs))
         /\ F.items = FirstSchema(Document, [i \in DOMAIN nodes |-> nodes[i].items])
         /\ G.items = FirstSchema(D, [i \in DOMAIN pubs |-> pubs[i].items])
         /\ F.additional = FirstSchema(Document, [i \in DOMAIN nodes |-> nodes[i].additional])
         /\ G.additional = FirstSchema(D, [i \in DOMAIN pubs |-> pubs[i].additional])
         /\ F.pattern[k] = FirstSaid([i \in DOMAIN nodes |-> Pattern(nodes[i], k)])
         /\ G.pattern[k] = FirstSaid([i \in DOMAIN pubs |-> Pattern(pubs[i], k)])
         /\ G.schema[k] = FirstSchema(D, [i \in DOMAIN pubs |-> Property(pubs[i], k)])
         /\ G.named = {j \in Names : \E x \in Range(pubs) : Property(x, j) # Never}
    <2> HIDE DEF nodes, pubs, D, F, G
    <2> QED
      BY <1>4 DEF Read
  <1>14. /\ DOMAIN nodes = DOMAIN s /\ DOMAIN pubs = DOMAIN s
         /\ \A i \in DOMAIN s : nodes[i] = Document[s[i]] /\ pubs[i] = D[s[i]]
    OBVIOUS
  <1>15. Range(nodes) = {Document[x] : x \in R} /\ Range(pubs) = {D[x] : x \in R}
    BY <1>3 DEF Range
  <1> HIDE DEF nodes, pubs, D, R, s, P, Q, F, G, Sh
  <1>16. \A t : FirstSchema(D, t) = FirstSchema(Document, t)
    BY <1>5 DEF FirstSchema
  <1>17. G.closed = F.closed
    <2>1. /\ \A x \in Range(nodes) : \E y \in Range(pubs) :
                /\ x.object = y.object /\ x.patterns = y.patterns
                /\ x.additional = y.additional
          /\ \A y \in Range(pubs) : \E x \in Range(nodes) :
                /\ x.object = y.object /\ x.patterns = y.patterns
                /\ x.additional = y.additional
      BY <1>6, <1>15
    <2>2. Closed(Range(pubs)) = Closed(Range(nodes))
      BY <2>1 DEF Closed
    <2> QED
      BY <1>13, <2>2
  <1>18. G.items = F.items
    <2>1. [i \in DOMAIN pubs |-> pubs[i].items] = [i \in DOMAIN nodes |-> nodes[i].items]
      BY <1>3, <1>6, <1>14
    <2> QED
      BY <1>13, <1>16, <2>1
  <1>19. G.additional = F.additional
    <2>1. [i \in DOMAIN pubs |-> pubs[i].additional] = [i \in DOMAIN nodes |-> nodes[i].additional]
      BY <1>3, <1>6, <1>14
    <2> QED
      BY <1>13, <1>16, <2>1
  <1>20. G.pattern[k] = F.pattern[k]
    <2>1. \A x, y : x.patterns = y.patterns => Pattern(x, k) = Pattern(y, k)
      BY DEF Pattern
    <2>2. [i \in DOMAIN pubs |-> Pattern(pubs[i], k)] = [i \in DOMAIN nodes |-> Pattern(nodes[i], k)]
      BY <1>3, <1>6, <1>14, <2>1
    <2> QED
      BY <1>13, <2>2
  <1>21. Q \subseteq P /\ \A x \in R : k \in Public(Document, x) => k \in DOMAIN Document[x].props
    BY <1>9 DEF Public, Q
  <1>22. \A p \in Q \cap Nodes : p \in Sh /\ ~IsPrivate(Document, p)
    BY <1>2, PublicShown DEF Q, Sh
  <1>23. \A p \in P : p \in Q \/ IsPrivate(Document, p)
    BY <1>5, <1>9 DEF Public, Q, IsPrivate
  <1>24. \A p : IsPrivate(Document, p) => p \in Nodes
    BY <1>5 DEF IsPrivate
  <1>25. k \in G.named <=> Q \ {Never} # {}
    <2>1. k \in G.named <=> \E x \in Range(pubs) : Property(x, k) # Never
      BY <1>13
    <2>2. k \in G.named <=> \E x \in R : Property(D[x], k) # Never
      BY <1>15, <2>1
    <2>3. k \in G.named <=> \E x \in R : k \in Public(Document, x) /\ Document[x].props[k] # Never
      BY <1>7, <2>2
    <2> QED
      BY <2>3 DEF Q
  <1>26. k \in G.named <=> k \in F.named /\ k \notin F.private
    <2>1. ASSUME NEW q \in Q \ {Never}, NEW p \in P, IsPrivate(Document, p) PROVE FALSE
      <3>1. p \in Nodes /\ p \in P \ {Never} /\ q \in P \ {Never}
        BY <1>11, <1>21, <1>24, <2>1
      <3>2. p = q
        BY <1>12, <3>1 DEF Single
      <3> QED
        BY <1>22, <2>1, <3>1, <3>2
    <2> QED
      BY <1>10, <1>21, <1>23, <1>25, <2>1
  <1>27. k \in G.named => Q \ {Never} = P \ {Never}
    BY <1>12, <1>21, <1>25 DEF Single
  <1>28. k \in G.named => {G.schema[k]} \cap Nodes = {F.schema[k]} \cap Nodes /\ P \cap Nodes \subseteq Sh
    <2> SUFFICES ASSUME k \in G.named
                 PROVE  {G.schema[k]} \cap Nodes = P \cap Nodes /\ P \cap Nodes \subseteq Sh
      BY <1>10
    <2> DEFINE t == [i \in DOMAIN pubs |-> Property(pubs[i], k)]
    <2>1. DOMAIN t = 1..Len(s)
      BY <1>3, <1>14
    <2>2. Values(t) = {Property(D[x], k) : x \in R}
      <3>1. \A i \in DOMAIN pubs : t[i] = Property(D[s[i]], k)
        BY <1>14
      <3>2. R = {s[i] : i \in DOMAIN pubs}
        BY <1>3, <1>14
      <3>3. DOMAIN t = DOMAIN pubs
        OBVIOUS
      <3> HIDE DEF t
      <3> QED
        BY <3>1, <3>2, <3>3 DEF Values
    <2>3. Values(t) \subseteq Q \cup {Never} /\ Q \subseteq Values(t)
      BY <1>7, <2>2 DEF Q
    <2>4. Values(t) \cap Nodes = P \cap Nodes
      BY <1>11, <1>27, <2>3
    <2>5. Single(Values(t) \cap Nodes)
      BY <1>11, <1>12, <2>4 DEF Single
    <2> HIDE DEF t
    <2>6. {FirstSchema(Document, t)} \cap Nodes = P \cap Nodes
      BY <1>3, <2>1, <2>4, <2>5, FirstSchemaIs
    <2>7. P \cap Nodes \subseteq Sh
      BY <1>11, <1>22, <1>27
    <2> QED
      BY <1>13, <1>16, <2>6, <2>7 DEF t
  <1>29. ~F.closed => k \notin F.private
    <2>1. ASSUME ~F.closed PROVE P = {}
      <3>1. \A x \in R : ~Document[x].object
        BY <1>8, <1>13, <1>15, <2>1 DEF Closed
      <3>2. \A x \in R : DOMAIN Document[x].props = {}
        BY <1>2, <3>1, RecordsAssumption
      <3> QED
        BY <1>9, <3>2
    <2> QED
      BY <1>10, <2>1
  <1>30. F.pattern[k] = Never
    <2>1. \A x \in Near[n] : Document[x].patterns = <<>>
      BY <1>1 DEF Listing, Listed, Sh
    <2>2. Range(<<>>) = {}
      BY DEF Range
    <2>3. PatternNodes(Near[n], k) = {}
      BY <2>1, <2>2 DEF PatternNodes
    <2> QED
      BY <1>10, <2>3
  <1>31. {F.items} \cap Nodes \subseteq Sh
    <2>1. ItemNodes(Near[n]) \subseteq Sh
      <3>1. \A x \in Sh : {Document[x].items} \cap Nodes \subseteq Sh
        BY <1>1, ShownIs DEF Sh
      <3> QED
        BY <1>1, <3>1 DEF ItemNodes
    <2> QED
      BY <1>10, <2>1
  <1>32. {F.additional} \cap Nodes = {}
    <2>1. \A x \in Near[n] : Document[x].additional \in {Unsaid, Never}
      BY <1>1 DEF Listing, Listed, Sh
    <2>2. FurtherNodes(Near[n]) \cap Nodes = {}
      BY <1>11, <2>1 DEF FurtherNodes
    <2> QED
      BY <1>10, <2>2
  <1>33. Reduced(G, F, k)
    BY <1>17, <1>18, <1>19, <1>20, <1>26, <1>28, <1>29, <1>30 DEF Reduced
  <1>34. k \in G.named => {F.schema[k]} \cap Nodes \subseteq Sh
    BY <1>10, <1>28
  <1> QED
    BY <1>31, <1>32, <1>33, <1>34 DEF F, G, Sh

(* Reducing a value without wrappers to the published schema, private fields*)
(* kept, is stripping its private fields.                                   *)
LEMMA StripAgrees ==
    ASSUME AllOrderly, AllUnder, NEW m \in Listing
    PROVE  \A h \in Heights : \A n \in Shown(Roots[m]) : \A v \in Trees[h] :
              Bare(h, v) => Strip(ToldPublished[m], TRUE)[h][n][v] = Strip(Told, FALSE)[h][n][v]
  <1> DEFINE yes == TRUE
             no == FALSE
             pub == ToldPublished[m]
             Sh == Shown(Roots[m])
             same(h, n, v) == Strip(pub, yes)[h][n][v] = Strip(Told, no)[h][n][v]
             P(h) == \A n \in Sh : \A v \in Trees[h] : Bare(h, v) => same(h, n, v)
             S == {h \in Heights : P(h)}
  <1>1. /\ m \in Models /\ Roots[m] \in Nodes /\ Sh \subseteq Nodes /\ Nodes \subseteq Nat
        /\ DOMAIN pub = Nodes /\ DOMAIN Told = Nodes /\ DOMAIN pub \subseteq Nat
    BY ShownIs, RecordsAssumption, ToldDomain, ToldPublishedIs DEF Listing
  <1>0. yes /\ ~no
    OBVIOUS
  <1> HIDE DEF pub, Sh, yes, no
  <1>2. ASSUME NEW h \in Heights, h # 0 => P(h - 1), NEW n \in Sh, NEW v \in Trees[h], Bare(h, v)
        PROVE  same(h, n, v)
    <2>0. n \in Nat /\ DOMAIN Told \subseteq Nat
      BY <1>1
    <2>1. CASE IsLeaf(v)
      <3>1. Strip(pub, yes)[h][n][v] = v
        BY <1>1, <2>0, <2>1, StripIs
      <3>2. Strip(Told, no)[h][n][v] = v
        BY <2>0, <2>1, StripIs
      <3> QED
        BY <3>1, <3>2
    <2>2. CASE ~IsLeaf(v)
      <3> DEFINE G == pub[n]
                 F == Told[n]
                 A == Stripped(Strip(pub, yes)[h - 1], pub, n, v, yes)
                 B == Stripped(Strip(Told, no)[h - 1], Told, n, v, no)
      <3>1. /\ Strip(pub, yes)[h][n][v] = Rebuilt(v, A)
            /\ Strip(Told, no)[h][n][v] = Rebuilt(v, B)
        <4>1. Strip(pub, yes)[h][n][v] = Rebuilt(v, A)
          BY <1>1, <2>0, <2>2, StripIs
        <4>2. Strip(Told, no)[h][n][v] = Rebuilt(v, B)
          BY <2>0, <2>2, StripIs
        <4> QED
          BY <4>1, <4>2
      <3>2. v.wrap = NoWrap /\ \A f \in v.kids : Bare(h - 1, f.value)
        BY <1>2, <2>2, BareParts
      <3>3. v.kind \in {"object", "list"}
        BY <2>2 DEF IsLeaf
      <3>4. ASSUME NEW f \in v.kids
            PROVE  LET k == f.name IN
                   /\ StripKeeps(G, v, k, yes) <=> StripKeeps(F, v, k, no)
                   /\ StripKeeps(F, v, k, no) =>
                         Below(Strip(pub, yes)[h - 1], pub, f, KidSchema(G, v, k))
                           = Below(Strip(Told, no)[h - 1], Told, f, KidSchema(F, v, k))
        <4> DEFINE k == f.name
        <4>1. k \in Names /\ h # 0 /\ f.value \in Trees[h - 1]
          BY TreeParts
        <4>2. /\ Reduced(G, F, k) /\ {F.items} \cap Nodes \subseteq Sh
              /\ {F.additional} \cap Nodes = {}
              /\ k \in G.named => {F.schema[k]} \cap Nodes \subseteq Sh
          BY <4>1, PublishedFields DEF pub, Sh
        <4> HIDE DEF F, G
        <4>3. Described(G, k) <=> ~F.closed \/ (k \in F.named /\ k \notin F.private)
          BY <4>2 DEF Reduced, Described
        <4>4. Described(F, k) <=> ~F.closed \/ k \in F.named
          BY <4>2 DEF Reduced, Described
        <4>5. StripKeeps(G, v, k, yes) <=> StripKeeps(F, v, k, no)
          BY <1>0, <3>2, <4>2, <4>3, <4>4 DEF StripKeeps, Reduced
        <4>6. ASSUME StripKeeps(F, v, k, no)
              PROVE  /\ {KidSchema(G, v, k)} \cap Nodes = {KidSchema(F, v, k)} \cap Nodes
                     /\ {KidSchema(F, v, k)} \cap Nodes \subseteq Sh
          <5>1. CASE v.kind = "list"
            BY <4>2, <5>1 DEF KidSchema, Reduced
          <5>2. CASE v.kind = "object" /\ k \in G.named
            <6>1. k \in F.named
              BY <4>2, <5>2 DEF Reduced
            <6>2. KidSchema(G, v, k) = G.schema[k] /\ KidSchema(F, v, k) = F.schema[k]
              BY <5>2, <6>1 DEF KidSchema, SchemaOf
            <6> QED
              BY <4>2, <5>2, <6>2 DEF Reduced
          <5>3. CASE v.kind = "object" /\ k \notin G.named
            <6>1. k \notin F.private
              BY <1>0, <4>6, <5>3 DEF StripKeeps
            <6>2. k \notin F.named
              BY <4>2, <5>3, <6>1 DEF Reduced
            <6>3. KidSchema(G, v, k) = F.additional /\ KidSchema(F, v, k) = F.additional
              BY <4>2, <5>3, <6>2 DEF KidSchema, SchemaOf, Unnamed, Reduced
            <6> QED
              BY <4>2, <6>3
          <5> QED
            BY <3>3, <5>1, <5>2, <5>3
        <4>7. ASSUME NEW x, NEW y, {x} \cap Nodes = {y} \cap Nodes, {y} \cap Nodes \subseteq Sh
              PROVE  Below(Strip(pub, yes)[h - 1], pub, f, x)
                       = Below(Strip(Told, no)[h - 1], Told, f, y)
          <5>1. CASE y \in Nodes
            <6>1. x = y /\ x \in Sh
              BY <4>7, <5>1
            <6>2. same(h - 1, x, f.value)
              BY <1>2, <3>2, <4>1, <6>1
            <6> QED
              BY <1>1, <5>1, <6>1, <6>2 DEF Below
          <5>2. CASE y \notin Nodes
            <6>1. x \notin Nodes
              BY <4>7, <5>2
            <6> QED
              BY <1>1, <5>2, <6>1 DEF Below
          <5> QED
            BY <5>1, <5>2
        <4> QED
          BY <4>5, <4>6, <4>7
      <3>5. A = B
        <4>1. {x \in v.kids : StripKeeps(G, v, x.name, yes)} = {x \in v.kids : StripKeeps(F, v, x.name, no)}
          BY <3>4
        <4> QED
          BY <3>4, <4>1 DEF Stripped
      <3> HIDE DEF A, B
      <3> QED
        BY <3>1, <3>5
    <2> QED
      BY <2>1, <2>2
  <1> HIDE DEF P
  <1>3. \A h \in Heights : (h # 0 => h - 1 \in S) => h \in S
    BY <1>2 DEF P
  <1> HIDE DEF S
  <1> QED
    BY <1>3, OnHeights DEF S, P, pub, Sh, yes, no

(* A payload is never wrapped with the model of the record that is in it.   *)
OwnInv == value.wrap.model = own => place = "alone"

LEMMA NoWrapModel == \A m \in Models : NoWrap.model # m
  BY RecordsAssumption DEF NoWrap

LEMMA MappedOwn ==
    ASSUME ValueInv, OwnInv, NEW o \in Wraps, value' = MapDeep(o)[MaxDepth][value],
           UNCHANGED <<own, place>>
    PROVE  OwnInv'
  <1>1. own \in Models /\ value \in Trees[MaxDepth]
    BY RecordIs DEF ValueInv, IsValue
  <1>2. CASE IsLeaf(value)
    <2>1. value' = value
      BY <1>1, <1>2, MapDeepIs, HeightsAre
    <2> QED
      BY <2>1 DEF OwnInv
  <1>3. CASE ~IsLeaf(value)
    <2>1. value'.wrap = Mapped(value.wrap, o)
      <3> DEFINE K == {Field(f.name, MapDeep(o)[MaxDepth - 1][f.value]) : f \in value.kids}
      <3>1. MapDeep(o)[MaxDepth][value] = Tree(value.kind, Mapped(value.wrap, o), K)
        BY <1>1, <1>3, MapDeepIs, HeightsAre
      <3> HIDE DEF K
      <3> QED
        BY <3>1, TreeIs
    <2>2. Mapped(value.wrap, o) = NoWrap \/ Mapped(value.wrap, o).model = value.wrap.model
      BY DEF Mapped, Wraps, Options
    <2> QED
      BY <1>1, <2>1, <2>2, NoWrapModel DEF OwnInv
  <1> QED
    BY <1>2, <1>3

(* No step wraps a payload with the model of its record. *)
LEMMA NextOwn ==
    ASSUME RecordsInv, OwnInv, [Next]_vars
    PROVE  OwnInv'
  <1>1. ValueInv /\ own \in Models
    BY DEF RecordsInv, ValueInv
  <1>2. CASE UNCHANGED vars
    BY <1>2 DEF vars, OwnInv
  <1>3. CASE \E o \in Options : Wrap(o)
    <2>1. PICK o \in Options : Wrap(o)
      BY <1>3
    <2>2. /\ (o.model = own) = (place = "alone") /\ place' = place /\ own' = own
          /\ value'.wrap = o
      BY <2>1, TreeIs DEF Wrap, Do, Wrapped
    <2> QED
      BY <2>2 DEF OwnInv
  <1>4. CASE \/ Embed("first", List({Field("first", value)}))
             \/ Embed("sub", Object({Field("id", Leaf("open")), Field("sub", value)}))
    <2>1. value'.wrap = NoWrap /\ own' = own
      BY <1>4, TreeIs DEF Embed, Do, List, Object
    <2> QED
      BY <1>1, <2>1, NoWrapModel DEF OwnInv
  <1>5. CASE \E o \in Options : o.model = own /\ Rewrap(o)
    <2>1. PICK o \in Options : Rewrap(o)
      BY <1>5
    <2>2. o \in Wraps /\ value' = MapDeep(o)[MaxDepth][value] /\ UNCHANGED <<own, place>>
      BY <2>1 DEF Rewrap, RewrapDeep, Do, Wraps
    <2> QED
      BY <1>1, <2>2, MappedOwn
  <1>6. CASE Unwrap
    <2>1. value' = MapDeep(NoWrap)[MaxDepth][value] /\ UNCHANGED <<own, place>>
      BY <1>6 DEF Unwrap, UnwrapDeep, Do
    <2> QED
      BY <1>1, <2>1, NoWrapIs, MappedOwn
  <1>7. CASE \E ok \in {{}, Models, {own}} : Serialise(ok) \/ Validate(ok)
    <2>1. UNCHANGED <<own, value, place>>
      BY <1>7 DEF Serialise, Validate, Do
    <2> QED
      BY <2>1 DEF OwnInv
  <1> QED
    BY <1>2, <1>3, <1>4, <1>5, <1>6, <1>7 DEF Next

(* What every reachable state of an orderly document gives. *)
LEMMA RecordsAgreed ==
    ASSUME AllOrderly, AllUnder, ValueInv, OwnInv
    PROVE  Agreed
  <1> SUFFICES ASSUME value.wrap.model = own, own \in Listing
               PROVE  Strip(ToldPublished[own], TRUE)[MaxDepth][Roots[own]][Unwrapped(value)]
                        = Strip(Told, FALSE)[MaxDepth][Roots[own]][Unwrapped(value)]
    BY DEF Agreed, StripExcluded
  <1>1. place = "alone" /\ own \in Models
    BY DEF OwnInv, ValueInv
  <1>2. PICK r, w : IsRecord(Height, own, r) /\ value = Payload(place, w, r)
    BY DEF ValueInv, IsValue
  <1>3. value = r
    BY <1>1, <1>2 DEF Payload
  <1>4. Bare(MaxDepth, Unwrapped(value)) /\ value \in Trees[MaxDepth]
    BY <1>1, <1>2, <1>3, RecordParts
  <1>5. Unwrapped(value) \in Trees[MaxDepth]
    BY <1>4, UnwrappedIs, HeightsAre
  <1>6. Roots[own] \in Shown(Roots[own])
    BY <1>1, ShownIs, RecordsAssumption
  <1>7. \A n \in Shown(Roots[own]) : \A v \in Trees[MaxDepth] : Bare(MaxDepth, v) =>
           Strip(ToldPublished[own], TRUE)[MaxDepth][n][v] = Strip(Told, FALSE)[MaxDepth][n][v]
    <2>1. MaxDepth \in Heights
      BY HeightsAre
    <2> QED
      BY <2>1, StripAgrees
  <1> QED
    BY <1>4, <1>5, <1>6, <1>7

(* The schema a model publishes describes what it sends and no more: of a   *)
(* document that is orderly and whose walk is not cut short, reducing a     *)
(* record to the published schema is stripping its private fields.          *)
THEOREM AgreedAlways ==
    ASSUME AllOrderly, AllUnder
    PROVE  Spec => []Agreed
  <1>1. Init => OwnInv
    BY DEF Init, OwnInv
  <1>2. RecordsInv /\ OwnInv /\ [Next]_vars => OwnInv'
    BY NextOwn
  <1>3. RecordsInv /\ OwnInv => Agreed
    BY RecordsAgreed DEF RecordsInv
  <1> QED
    BY <1>1, <1>2, <1>3, RecordsAlways, PTL DEF Spec

=============================================================================
