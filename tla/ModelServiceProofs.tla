--------------------------- MODULE ModelServiceProofs ---------------------------
(* What is proved of ModelService, for any callers, subscribers, keys and   *)
(* number of calls. Of the store: whatever mutations interleave, a record   *)
(* is in one place, is not lost, stays deleted once it is deleted, and was  *)
(* announced. Of the events: a call that no other overlaps announces the    *)
(* record it overwrites, the key it announces is that of its result, and a  *)
(* batch keeps the last input of each key.                                  *)
EXTENDS ModelService, RecursionLemmas, SequenceTheorems, TLAPS

-----------------------------------------------------------------------------
(* Types. *)

EventNames == Mutations \cup Queries \cup {"none"}
Early == {"free", "load", "before"}
Phases == Early \cup {"generate", "after", "done", "failed"}
Scopes == {"live", "removed", "all"}

Call == [kind : EventNames, silent : BOOLEAN, scope : Scopes,
         entries : Seq(Entry), phase : Phases, todo : Seq(EventNames),
         read : SUBSET Record, vetoed : BOOLEAN, alone : BOOLEAN]

(* The entries of call o are its own, and name what its method needs.       *)
Fits(o, kind, entries) ==
    /\ entries \in Seq(Entry)
    /\ \A i \in 1..Len(entries) :
          entries[i].input.op = o /\ entries[i].input.pos = i
    /\ kind \in Trashing => Len(entries) = 1 /\ entries[1].input.id \in Keys
    /\ kind = "update" => Len(entries) = 1 /\ entries[1].lookup \in Keys

(* A call that has not written was not vetoed and has no results; one that  *)
(* waits for generated keys has an entry that does.                         *)
Sound(o, op) ==
    /\ op \in Call /\ Fits(o, op.kind, op.entries)
    /\ op.phase \in Early \cup {"generate"} => ~op.vetoed
    /\ op.phase \in Early => \A i \in 1..Len(op.entries) : op.entries[i].result = NoRecord
    /\ op.phase = "generate" => \E i \in 1..Len(op.entries) : op.entries[i].result = NoRecord

(* Once a call has come to its write, its inputs and its approval stay.     *)
Keeps(old, new) ==
    old.phase \notin Early =>
        /\ new.phase \notin Early /\ new.vetoed = old.vetoed
        /\ Len(new.entries) = Len(old.entries)
        /\ \A i \in 1..Len(old.entries) : new.entries[i].input = old.entries[i].input

OpsSound == ops \in [Ops -> Call] /\ \A o \in Ops : Sound(o, ops[o])

StoreTypes ==
    /\ live \in [Keys -> Record] /\ trash \in [Keys -> Record]
    /\ nextId \in 0..MaxKey /\ purged \subseteq Keys /\ client \in Clients

(* What every step does to the calls. *)
Steps ==
    /\ ops' \in [Ops -> Call]
    /\ \A p \in Ops : Sound(p, ops'[p]) /\ Keeps(ops[p], ops'[p])

LEMMA Constants ==
    /\ MaxKey \in Nat \ {0} /\ MaxOps \in Nat \ {0} /\ FirstId \in 0..MaxKey
    /\ Keys = 1..MaxKey /\ NoKey = 0 /\ NoKey \notin Keys
    /\ Keys \subseteq 0..MaxKey /\ Ops = 1..MaxOps /\ Ops \subseteq 0..MaxOps
    /\ \A c \in Clients :
         /\ c.given \subseteq Keys /\ c.seeded \subseteq Keys
         /\ c.kinds \subseteq Mutations \cup Queries
         /\ c.silent \subseteq BOOLEAN
         /\ \A ks \in c.batches : Len(ks) \in Nat /\ \A i \in 1..Len(ks) : ks[i] \in 0..MaxKey
  <1>1. MaxKey \in Nat \ {0} /\ MaxOps \in Nat \ {0} /\ FirstId \in 0..MaxKey
    BY ModelServiceAssumption DEF ModelServiceAssumption
  <1>2. /\ Keys = 1..MaxKey /\ NoKey = 0 /\ NoKey \notin Keys
        /\ Keys \subseteq 0..MaxKey /\ Ops = 1..MaxOps /\ Ops \subseteq 0..MaxOps
    BY <1>1 DEF Keys, Ops, NoKey
  <1>3. ASSUME NEW c \in Clients
        PROVE  /\ c.given \subseteq Keys /\ c.seeded \subseteq Keys
               /\ c.kinds \subseteq Mutations \cup Queries
               /\ c.batches \subseteq Seq(c.given \cup {NoKey})
               /\ c.silent \subseteq BOOLEAN
    BY ModelServiceAssumption DEF ModelServiceAssumption
  <1>4. ASSUME NEW c \in Clients, NEW ks \in c.batches
        PROVE  Len(ks) \in Nat /\ \A i \in 1..Len(ks) : ks[i] \in 0..MaxKey
    <2>1. ks \in Seq(c.given \cup {NoKey})
      BY <1>3
    <2>2. \A i \in 1..Len(ks) : ks[i] \in c.given \cup {NoKey}
      BY <2>1, ElementOfSeq
    <2>3. 0 \in 0..MaxKey
      BY <1>1
    <2> QED
      BY <1>2, <1>3, <2>1, <2>2, <2>3, LenProperties
  <1> QED
    BY <1>1, <1>2, <1>3, <1>4

LEMMA RecordsAre ==
    /\ NoRecord \in Record /\ NoRecord.op = 0 /\ NoRecord.id = NoKey
    /\ \A k \in Keys : Seed(k) \in Record /\ Seed(k) # NoRecord /\ Seed(k).op = 0
  <1>1. NoRecord \in Record /\ NoRecord.op = 0 /\ NoRecord.id = NoKey
    <2>1. 0 \in 0..MaxKey /\ 0 \in 0..MaxOps /\ NoKey = 0
      BY Constants
    <2> QED
      BY <2>1 DEF Record, NoRecord
  <1>2. ASSUME NEW k \in Keys
        PROVE  Seed(k) \in Record /\ Seed(k) # NoRecord /\ Seed(k).op = 0
    <2>1. k \in 0..MaxKey /\ 0 \in 0..MaxOps
      BY Constants
    <2>2. Seed(k) \in Record /\ Seed(k).op = 0 /\ Seed(k).id = k
      BY <2>1 DEF Record, Seed
    <2> QED
      BY <1>1, <2>2, Constants
  <1> QED
    BY <1>1, <1>2

LEMMA NewEntries ==
    ASSUME NEW o \in Ops, NEW i \in Nat, NEW k \in 0..MaxKey, NEW lookup \in 0..MaxKey
    PROVE  /\ NewEntry(o, i, k, lookup) \in Entry
           /\ NewEntry(o, i, k, lookup).input.op = o
           /\ NewEntry(o, i, k, lookup).input.pos = i
           /\ NewEntry(o, i, k, lookup).input.id = k
           /\ NewEntry(o, i, k, lookup).lookup = lookup
           /\ NewEntry(o, i, k, lookup).result = NoRecord
  <1>1. [id |-> k, op |-> o, pos |-> i, replaced |-> "no"] \in Record
    BY Constants DEF Record
  <1>2. NoKey \in 0..MaxKey
    BY Constants
  <1> QED
    BY <1>1, <1>2, RecordsAre DEF NewEntry, Entry

LEMMA Greatest ==
    ASSUME NEW n \in Nat, NEW S, S \subseteq 1..n, S # {}
    PROVE  \E x \in S : \A y \in S : y <= x
  <1> DEFINE T == {n + 1 - x : x \in S}
  <1>1. \A x \in S : x \in 1..n /\ n + 1 - x \in 1..n
    OBVIOUS
  <1>2. T \subseteq 1..n /\ T # {}
    BY <1>1
  <1>3. PICK t \in T : \A u \in T : t <= u
    <2> HIDE DEF T
    <2> QED
      BY <1>2, Least
  <1>4. PICK x \in S : t = n + 1 - x
    OBVIOUS
  <1>5. ASSUME NEW y \in S PROVE y <= x
    <2>1. n + 1 - y \in T
      OBVIOUS
    <2>2. t <= n + 1 - y
      BY <1>3, <2>1
    <2>3. n + 1 - x <= n + 1 - y
      BY <1>4, <2>2
    <2>4. x \in 1..n /\ y \in 1..n
      BY <1>1
    <2> HIDE DEF T
    <2> QED
      BY <2>3, <2>4, SMT
  <1> QED
    BY <1>5

LEMMA KeyOfType == \A e \in Entry : KeyOf(e) \in 0..MaxKey
  <1> SUFFICES ASSUME NEW e \in Entry PROVE KeyOf(e) \in 0..MaxKey
    OBVIOUS
  <1> DEFINE ks == <<e.key, e.result.id, e.existing.id, e.lookup, e.input.id>>
             known == {i \in 1..Len(ks) : ks[i] # NoKey}
  <1>1. Len(ks) = 5 /\ \A i \in 1..5 : ks[i] \in 0..MaxKey
    BY DEF Entry, Record
  <1> HIDE DEF ks
  <1>2. known # {} => Min(known) \in known
    <2>1. known \subseteq 1..5
      BY <1>1
    <2>2. known # {} => \E x \in known : \A y \in known : x =< y
      <3> HIDE DEF known
      <3>1. CASE 1 \in known
        BY <2>1, <3>1
      <3>2. CASE 1 \notin known /\ 2 \in known
        BY <2>1, <3>2
      <3>3. CASE 1 \notin known /\ 2 \notin known /\ 3 \in known
        BY <2>1, <3>3
      <3>4. CASE 1 \notin known /\ 2 \notin known /\ 3 \notin known /\ 4 \in known
        BY <2>1, <3>4
      <3>5. CASE 1 \notin known /\ 2 \notin known /\ 3 \notin known /\ 4 \notin known
        <4>1. \A y \in known : y = 5
          BY <2>1, <3>5
        <4> QED
          BY <4>1
      <3> QED
        BY <3>1, <3>2, <3>3, <3>4, <3>5
    <2> QED
      BY <2>2 DEF Min
  <1>3. KeyOf(e) = IF known = {} THEN NoKey ELSE ks[Min(known)]
    BY DEF KeyOf, FirstKey, ks
  <1> QED
    BY <1>1, <1>2, <1>3, Constants

LEMMA EventsType ==
    ASSUME NEW op \in Call
    PROVE  Events(op) \in Seq(EventNames) /\ Reverse(Events(op)) \in Seq(EventNames)
  <1>1. op.kind \in EventNames /\ {"create", "update", "duplicate"} \subseteq EventNames
    BY DEF Call, EventNames, Mutations, Creating
  <1>2. ASSUME NEW a \in EventNames, NEW b \in EventNames
        PROVE  /\ <<>> \in Seq(EventNames) /\ <<a>> \in Seq(EventNames)
               /\ <<a, b>> \in Seq(EventNames)
    BY <1>2
  <1>3. ASSUME NEW s \in Seq(EventNames), NEW t \in Seq(EventNames)
        PROVE  s \o t \in Seq(EventNames)
    BY ConcatProperties
  <1>4. Events(op) \in Seq(EventNames)
    BY <1>1, <1>2, <1>3 DEF Events
  <1>5. ASSUME NEW s \in Seq(EventNames) PROVE Reverse(s) \in Seq(EventNames)
    <2>1. Len(s) \in Nat /\ \A i \in 1..Len(s) : s[i] \in EventNames
      BY LenProperties, ElementOfSeq
    <2>2. \A i \in 1..Len(s) : s[Len(s) - i + 1] \in EventNames
      BY <2>1
    <2> QED
      BY <2>1, <2>2 DEF Reverse
  <1> QED
    BY <1>4, <1>5

LEMMA BeforeIs ==
    ASSUME NEW op \in Call
    PROVE  /\ Before(op) \in Call /\ Before(op).phase = "before"
           /\ Before(op).kind = op.kind /\ Before(op).entries = op.entries
           /\ Before(op).vetoed = op.vetoed /\ Before(op).read = op.read
  BY EventsType DEF Before, Call, Phases, Early

LEMMA AfterWriteIs ==
    ASSUME NEW o \in Ops, ops[o] \in Call
    PROVE  /\ AfterWrite(o) \in Call /\ AfterWrite(o).phase = "after"
           /\ AfterWrite(o).kind = ops[o].kind /\ AfterWrite(o).entries = ops[o].entries
           /\ AfterWrite(o).vetoed = ops[o].vetoed /\ AfterWrite(o).read = ops[o].read
  <1>1. Events(ops[o]) \in Seq(EventNames) /\ Reverse(Events(ops[o])) \in Seq(EventNames)
    BY EventsType
  <1> QED
    BY <1>1 DEF AfterWrite, Call, Phases, Early

LEMMA OneOp ==
    ASSUME OpsSound, NEW o \in Ops, NEW new, ops' = [ops EXCEPT ![o] = new],
           Sound(o, new), Keeps(ops[o], new)
    PROVE  Steps
  <1>1. new \in Call /\ ops \in [Ops -> Call]
    BY DEF OpsSound, Sound
  <1>2. \A p \in Ops \ {o} : Keeps(ops[p], ops'[p])
    BY <1>1 DEF Keeps
  <1> QED
    BY <1>1, <1>2 DEF Steps, OpsSound

(* No call comes to know more than it did. *)
ReadsOld == \A p \in Ops : ops'[p].read \subseteq ops[p].read

-----------------------------------------------------------------------------
(* What the steps do to the calls. *)

LEMMA LaunchSteps ==
    ASSUME OpsSound, NEW scope \in Scopes, NEW o \in Ops, NEW kind \in EventNames,
           NEW entries, NEW phase \in {"load", "before"}, client \in Clients,
           Fits(o, kind, entries), \A i \in 1..Len(entries) : entries[i].result = NoRecord,
           LaunchIn(scope, o, kind, entries, phase)
    PROVE  Steps /\ ReadsOld /\ UNCHANGED store
  <1> DEFINE idle == Active = {}
             Op(silent) == [NoOp EXCEPT !.kind = kind, !.silent = silent, !.scope = scope,
                                        !.entries = entries, !.phase = phase, !.alone = idle]
             After(silent) == [p \in Ops |->
                       IF p = o THEN IF phase = "load" THEN Op(silent) ELSE Before(Op(silent))
                       ELSE IF p \in Active THEN [ops[p] EXCEPT !.alone = FALSE]
                       ELSE ops[p]]
  <1>1. PICK silent \in BOOLEAN : ops' = After(silent)
    <2>1. \E silent \in IF kind \in Unsilenced THEN {FALSE} ELSE client.silent :
            ops' = After(silent)
      BY DEF LaunchIn
    <2> HIDE DEF After
    <2> QED
      BY <2>1, Constants
  <1> DEFINE op == Op(silent)
             new == IF phase = "load" THEN op ELSE Before(op)
  <1>2. /\ op \in Call /\ op.kind = kind /\ op.entries = entries /\ op.phase = phase
        /\ op.vetoed = FALSE /\ op.read = {}
    <2>1. entries \in Seq(Entry) /\ <<>> \in Seq(EventNames) /\ idle \in BOOLEAN
      BY DEF Fits
    <2> HIDE DEF idle
    <2>2. NoOp \in [kind : {"none"}, silent : BOOLEAN, scope : Scopes, entries : {<<>>},
                    phase : {"free"}, todo : {<<>>}, read : {{}}, vetoed : {FALSE},
                    alone : BOOLEAN]
      BY DEF NoOp, Scopes
    <2> QED
      BY <2>1, <2>2 DEF Call, Phases, Early
  <1> HIDE DEF op
  <1>3. Before(op) \in Call /\ Before(op).phase = "before" /\ Before(op).kind = kind
        /\ Before(op).entries = entries /\ Before(op).vetoed = FALSE /\ Before(op).read = {}
    BY <1>2, BeforeIs
  <1>4. Sound(o, new) /\ new.read = {}
    <2>1. /\ new \in Call /\ new.kind = kind /\ new.entries = entries /\ new.phase \in Early
          /\ new.vetoed = FALSE /\ new.read = {}
      BY <1>2, <1>3 DEF Early
    <2> HIDE DEF new
    <2>2. new.phase # "generate"
      BY <2>1 DEF Early
    <2> QED
      BY <2>1, <2>2 DEF Sound
  <1> HIDE DEF new
  <1>5. ops' = [p \in Ops |-> IF p = o THEN new
                              ELSE IF p \in Active THEN [ops[p] EXCEPT !.alone = FALSE]
                              ELSE ops[p]]
    BY <1>1 DEF new, op
  <1>6. ASSUME NEW p \in Ops, p # o
        PROVE  /\ ops'[p] \in Call /\ ops'[p].kind = ops[p].kind
               /\ ops'[p].entries = ops[p].entries /\ ops'[p].phase = ops[p].phase
               /\ ops'[p].vetoed = ops[p].vetoed /\ ops'[p].read = ops[p].read
    <2>1. ops[p] \in Call
      BY DEF OpsSound
    <2> QED
      BY <1>5, <1>6, <2>1 DEF Call
  <1>7. ASSUME NEW p \in Ops, p # o PROVE Sound(p, ops'[p]) /\ Keeps(ops[p], ops'[p])
    BY <1>6, <1>7 DEF OpsSound, Sound, Keeps
  <1>8. ops[o].phase = "free"
    BY DEF LaunchIn
  <1>9. Keeps(ops[o], new)
    BY <1>8 DEF Keeps, Early
  <1>10. ops'[o] = new /\ new \in Call
    BY <1>4, <1>5 DEF Sound
  <1>11. ops' \in [Ops -> Call]
    BY <1>5, <1>6, <1>10
  <1>12. UNCHANGED store
    BY DEF LaunchIn
  <1>13. Steps
    BY <1>4, <1>7, <1>9, <1>10, <1>11 DEF Steps
  <1>14. ReadsOld
    BY <1>4, <1>6, <1>10 DEF ReadsOld
  <1> QED
    BY <1>12, <1>13, <1>14

(* The entries of a call on one record, and of one on a batch.              *)
LEMMA OneEntry ==
    ASSUME NEW o \in Ops, NEW kind, NEW k \in 0..MaxKey, NEW lookup \in 0..MaxKey,
           kind \in Trashing => k \in Keys, kind = "update" => lookup \in Keys
    PROVE  /\ Fits(o, kind, <<NewEntry(o, 1, k, lookup)>>)
           /\ \A i \in 1..Len(<<NewEntry(o, 1, k, lookup)>>) :
                <<NewEntry(o, 1, k, lookup)>>[i].result = NoRecord
  <1> DEFINE e == NewEntry(o, 1, k, lookup)
             s == <<e>>
  <1>1. /\ e \in Entry /\ e.input.op = o /\ e.input.pos = 1
        /\ e.input.id = k /\ e.lookup = lookup /\ e.result = NoRecord
    BY NewEntries
  <1> HIDE DEF e
  <1>2. s \in Seq(Entry) /\ Len(s) = 1 /\ s[1] = e
    BY <1>1
  <1> HIDE DEF s
  <1>3. Fits(o, kind, s) /\ \A i \in 1..Len(s) : s[i].result = NoRecord
    BY <1>1, <1>2 DEF Fits
  <1> QED
    BY <1>3 DEF s, e

LEMMA ManyEntries ==
    ASSUME NEW o \in Ops, NEW kind, kind \notin Trashing \cup {"update"}, NEW ks,
           Len(ks) \in Nat, \A i \in 1..Len(ks) : ks[i] \in 0..MaxKey
    PROVE  LET s == [i \in 1..Len(ks) |-> NewEntry(o, i, ks[i], ks[i])]
           IN  Fits(o, kind, s) /\ \A i \in 1..Len(s) : s[i].result = NoRecord
  <1> DEFINE s == [i \in 1..Len(ks) |-> NewEntry(o, i, ks[i], ks[i])]
  <1>1. \A i \in 1..Len(ks) : /\ NewEntry(o, i, ks[i], ks[i]) \in Entry
                              /\ NewEntry(o, i, ks[i], ks[i]).input.op = o
                              /\ NewEntry(o, i, ks[i], ks[i]).input.pos = i
                              /\ NewEntry(o, i, ks[i], ks[i]).result = NoRecord
    BY NewEntries
  <1>2. s \in Seq(Entry) /\ Len(s) = Len(ks)
    BY <1>1
  <1>3. \A i \in 1..Len(s) : s[i].input.op = o /\ s[i].input.pos = i /\ s[i].result = NoRecord
    BY <1>1, <1>2
  <1> HIDE DEF s
  <1>4. Fits(o, kind, s)
    BY <1>2, <1>3 DEF Fits
  <1> QED
    BY <1>3, <1>4 DEF s

(* A call that may go on, and an entry whose key no subscriber exchanged.   *)
Busy(op) == op.phase \notin {"free", "done", "failed"}
Plain(e) == e.input.replaced # "key"

(* How a call begins. *)
Begun(kind, entries, phase) ==
    /\ kind \in Mutations \cup Queries /\ phase \in {"load", "before"}
    /\ kind \notin Upserting \cup Queries => Len(entries) <= 1
    /\ kind = "emptyTrash" => Len(entries) = 0
    /\ kind = "update" => phase = "load"
    /\ \A i \in 1..Len(entries) :
         LET e == entries[i]
         IN /\ e.existing = NoRecord /\ e.result = NoRecord /\ e.key = NoKey
            /\ e.input.replaced = "no" /\ e.input.id \in client.given \cup {NoKey}
            /\ kind \in Upserting \cup Trashing => e.input.id = e.lookup
            /\ kind = "update" => e.input.id = NoKey
            /\ kind = "create" \/ (kind \in Upserting /\ phase = "before") => e.lookup = NoKey

LEMMA NewEntryIs ==
    ASSUME NEW o, NEW i, NEW k, NEW lookup
    PROVE  LET e == NewEntry(o, i, k, lookup)
           IN  /\ e.existing = NoRecord /\ e.result = NoRecord /\ e.key = NoKey
               /\ e.input.replaced = "no" /\ e.input.id = k /\ e.lookup = lookup
  BY DEF NewEntry

LEMMA OneBegun ==
    ASSUME NEW o \in Ops, NEW kind \in (Mutations \ {"emptyTrash"}), NEW k, NEW lookup,
           NEW phase \in {"load", "before"}, kind \notin Upserting,
           k \in client.given \cup {NoKey},
           kind \in Trashing => k = lookup,
           kind = "update" => phase = "load" /\ k = NoKey,
           kind = "create" => lookup = NoKey
    PROVE  Begun(kind, <<NewEntry(o, 1, k, lookup)>>, phase)
  <1> DEFINE e == NewEntry(o, 1, k, lookup)
             s == <<e>>
  <1>1. /\ e.existing = NoRecord /\ e.result = NoRecord /\ e.key = NoKey
        /\ e.input.replaced = "no" /\ e.input.id = k /\ e.lookup = lookup
    BY NewEntryIs
  <1> HIDE DEF e
  <1>2. Len(s) = 1 /\ \A i \in 1..Len(s) : s[i] = e
    OBVIOUS
  <1> HIDE DEF s
  <1>3. Begun(kind, s, phase)
    BY <1>1, <1>2 DEF Begun
  <1> QED
    BY <1>3 DEF s, e

LEMMA ManyBegun ==
    ASSUME NEW o \in Ops, NEW kind \in Upserting \cup Queries, NEW ks,
           NEW phase \in {"load", "before"},
           Len(ks) \in Nat, \A i \in 1..Len(ks) : ks[i] \in client.given \cup {NoKey},
           kind \in Upserting /\ phase = "before" => \A i \in 1..Len(ks) : ks[i] = NoKey
    PROVE  Begun(kind, [i \in 1..Len(ks) |-> NewEntry(o, i, ks[i], ks[i])], phase)
  <1> DEFINE s == [i \in 1..Len(ks) |-> NewEntry(o, i, ks[i], ks[i])]
  <1>1. ASSUME NEW i \in 1..Len(ks)
        PROVE  LET e == s[i]
               IN  /\ e.existing = NoRecord /\ e.result = NoRecord /\ e.key = NoKey
                   /\ e.input.replaced = "no" /\ e.input.id = ks[i] /\ e.lookup = ks[i]
    <2>1. s[i] = NewEntry(o, i, ks[i], ks[i])
      OBVIOUS
    <2> HIDE DEF s
    <2> QED
      BY <2>1, NewEntryIs
  <1>2. Len(s) = Len(ks)
    OBVIOUS
  <1> HIDE DEF s
  <1>3. /\ kind \in Mutations \cup Queries /\ kind # "emptyTrash" /\ kind # "update"
        /\ kind # "create" /\ kind \notin Trashing
    BY DEF Mutations, Queries, Upserting, Trashing
  <1>4. Begun(kind, s, phase)
    BY <1>1, <1>2, <1>3 DEF Begun
  <1> QED
    BY <1>4 DEF s

LEMMA CallIs ==
    ASSUME client \in Clients, NEW o \in Ops, CallService(o)
    PROVE  \E scope \in Scopes, kind \in EventNames, phase \in {"load", "before"},
              entries \in Seq(Entry) :
             /\ LaunchIn(scope, o, kind, entries, phase)
             /\ Fits(o, kind, entries) /\ Begun(kind, entries, phase)
             /\ \A i \in 1..Len(entries) : entries[i].result = NoRecord
  <1> DEFINE Is(scope, kind, phase, entries) ==
               /\ LaunchIn(scope, o, kind, entries, phase)
               /\ Fits(o, kind, entries) /\ Begun(kind, entries, phase)
               /\ \A i \in 1..Len(entries) : entries[i].result = NoRecord
             Goal == \E scope \in Scopes, kind \in EventNames, phase \in {"load", "before"},
                        entries \in Seq(Entry) : Is(scope, kind, phase, entries)
  <1>0. /\ Mutations \subseteq EventNames /\ Queries \subseteq EventNames
        /\ "live" \in Scopes /\ NoKey \in 0..MaxKey
    BY Constants DEF EventNames, Scopes
  <1>1. \A k \in client.given \cup {NoKey} : k \in 0..MaxKey
    BY Constants
  <1>a. ASSUME NEW scope \in Scopes, NEW kind \in EventNames, NEW phase \in {"load", "before"},
               NEW entries, LaunchIn(scope, o, kind, entries, phase),
               Fits(o, kind, entries), Begun(kind, entries, phase),
               \A i \in 1..Len(entries) : entries[i].result = NoRecord
        PROVE  Goal
    <2>1. Is(scope, kind, phase, entries)
      BY <1>a
    <2>2. entries \in Seq(Entry)
      BY <1>a DEF Fits
    <2> HIDE DEF Is
    <2> QED
      BY <2>1, <2>2
  <1>b. ASSUME NEW kind \in (Mutations \ {"emptyTrash"}), NEW k \in client.given \cup {NoKey},
               NEW lookup \in 0..MaxKey, NEW phase \in {"load", "before"},
               LaunchIn("live", o, kind, <<NewEntry(o, 1, k, lookup)>>, phase),
               kind \notin Upserting, kind \in Trashing => k = lookup /\ k \in Keys,
               kind = "update" => phase = "load" /\ k = NoKey /\ lookup \in Keys,
               kind = "create" => lookup = NoKey
        PROVE  Goal
    <2> DEFINE s == <<NewEntry(o, 1, k, lookup)>>
    <2>1. k \in 0..MaxKey /\ kind \in EventNames
      BY <1>0, <1>1
    <2>2. Fits(o, kind, s) /\ \A i \in 1..Len(s) : s[i].result = NoRecord
      BY <1>b, <2>1, OneEntry
    <2>3. Begun(kind, s, phase)
      BY <1>b, OneBegun
    <2>4. LaunchIn("live", o, kind, s, phase)
      BY <1>b
    <2> HIDE DEF s, Goal
    <2> QED
      BY <1>0, <1>a, <2>1, <2>2, <2>3, <2>4
  <1>c. ASSUME NEW kind \in Upserting \cup Queries, NEW ks, NEW scope \in Scopes,
               NEW phase \in {"load", "before"},
               Len(ks) \in Nat, \A i \in 1..Len(ks) : ks[i] \in client.given \cup {NoKey},
               kind \in Upserting /\ phase = "before" => \A i \in 1..Len(ks) : ks[i] = NoKey,
               LaunchIn(scope, o, kind, [i \in 1..Len(ks) |-> NewEntry(o, i, ks[i], ks[i])], phase)
        PROVE  Goal
    <2> DEFINE s == [i \in 1..Len(ks) |-> NewEntry(o, i, ks[i], ks[i])]
    <2>1. kind \in EventNames /\ kind \notin Trashing \cup {"update"}
      BY DEF EventNames, Mutations, Queries, Upserting, Trashing
    <2>2. \A i \in 1..Len(ks) : ks[i] \in 0..MaxKey
      BY <1>1, <1>c
    <2>3. Fits(o, kind, s) /\ \A i \in 1..Len(s) : s[i].result = NoRecord
      BY <1>c, <2>1, <2>2, ManyEntries
    <2>4. Begun(kind, s, phase)
      BY <1>c, ManyBegun
    <2>5. LaunchIn(scope, o, kind, s, phase)
      BY <1>c
    <2> HIDE DEF s, Goal
    <2> QED
      BY <1>a, <2>1, <2>3, <2>4, <2>5
  <1>d. \A ks \in client.batches : Len(ks) \in Nat
                                /\ \A i \in 1..Len(ks) : ks[i] \in client.given \cup {NoKey}
    <2> SUFFICES ASSUME NEW ks \in client.batches
                 PROVE  Len(ks) \in Nat /\ \A i \in 1..Len(ks) : ks[i] \in client.given \cup {NoKey}
      OBVIOUS
    <2>1. ks \in Seq(client.given \cup {NoKey})
      BY ModelServiceAssumption DEF ModelServiceAssumption
    <2> QED
      BY <2>1, LenProperties, ElementOfSeq
  <1> HIDE DEF Goal
  <1>2. ASSUME Create(o) PROVE Goal
    <2>1. PICK k \in client.given \cup {NoKey} :
            LaunchIn("live", o, "create", <<NewEntry(o, 1, k, NoKey)>>, "before")
      BY <1>2 DEF Create, Launch
    <2>2. "create" \in (Mutations \ {"emptyTrash"}) /\ "create" \notin Trashing \cup Upserting
      BY DEF Mutations, Creating, Trashing, Upserting
    <2> QED
      BY <1>0, <1>b, <2>1, <2>2
  <1>3. ASSUME Update(o) PROVE Goal
    <2>1. PICK k \in Keys :
            LaunchIn("live", o, "update", <<NewEntry(o, 1, NoKey, k)>>, "load")
      BY <1>3, Constants DEF Update, Launch
    <2>2. "update" \in (Mutations \ {"emptyTrash"}) /\ "update" \notin Trashing \cup Upserting
      BY DEF Mutations, Trashing, Upserting
    <2>3. k \in 0..MaxKey
      BY Constants
    <2> QED
      BY <1>b, <2>1, <2>2, <2>3
  <1>4. ASSUME Duplicate(o) PROVE Goal
    <2>1. PICK k \in Keys :
            LaunchIn("live", o, "duplicate", <<NewEntry(o, 1, NoKey, k)>>, "load")
      BY <1>4, Constants DEF Duplicate, Launch
    <2>2. /\ "duplicate" \in (Mutations \ {"emptyTrash"})
          /\ "duplicate" \notin Trashing \cup Upserting
      BY DEF Mutations, Creating, Trashing, Upserting
    <2>3. k \in 0..MaxKey
      BY Constants
    <2> QED
      BY <1>b, <2>1, <2>2, <2>3
  <1>5. ASSUME OnRecord(o) PROVE Goal
    <2>1. PICK kind \in Trashing, k \in client.given :
            LaunchIn("live", o, kind, <<NewEntry(o, 1, k, k)>>, "before")
      BY <1>5 DEF OnRecord, Launch
    <2>2. kind \in (Mutations \ {"emptyTrash"}) /\ kind \notin Upserting /\ kind # "update"
          /\ kind # "create"
      BY DEF Mutations, Trashing, Upserting
    <2>3. k \in Keys /\ k \in 0..MaxKey
      BY Constants
    <2> QED
      BY <1>b, <2>1, <2>2, <2>3
  <1>6. ASSUME NEW kind \in Upserting, NEW ks, UpsertAll(o, kind, ks), Len(ks) \in Nat,
               \A i \in 1..Len(ks) : ks[i] \in client.given \cup {NoKey}
        PROVE  Goal
    <2> DEFINE phase == IF \A i \in 1..Len(ks) : ks[i] = NoKey THEN "before" ELSE "load"
    <2>1. LaunchIn("live", o, kind, [i \in 1..Len(ks) |-> NewEntry(o, i, ks[i], ks[i])], phase)
      BY <1>6 DEF UpsertAll, Launch
    <2>2. phase \in {"load", "before"}
          /\ (phase = "before" => \A i \in 1..Len(ks) : ks[i] = NoKey)
      OBVIOUS
    <2> HIDE DEF phase
    <2> QED
      BY <1>0, <1>6, <1>c, <2>1, <2>2
  <1>7. ASSUME Upsert(o) PROVE Goal
    <2>1. PICK k \in client.given \cup {NoKey} : UpsertAll(o, "upsert", <<k>>)
      BY <1>7 DEF Upsert
    <2> DEFINE ks == <<k>>
    <2>2. Len(ks) = 1 /\ ks[1] = k /\ UpsertAll(o, "upsert", ks)
      BY <2>1
    <2> HIDE DEF ks
    <2> QED
      BY <1>6, <2>2 DEF Upserting
  <1>8. ASSUME BulkUpsert(o) PROVE Goal
    <2>1. PICK ks \in client.batches : UpsertAll(o, "bulkUpsert", ks)
      BY <1>8 DEF BulkUpsert
    <2> QED
      BY <1>6, <1>d, <2>1 DEF Upserting
  <1>9. ASSUME EmptyTrash(o) PROVE Goal
    <2> DEFINE s == <<>>
    <2>1. s \in Seq(Entry) /\ Len(s) = 0
      BY EmptySeq
    <2>2. LaunchIn("live", o, "emptyTrash", s, "before")
      BY <1>9 DEF EmptyTrash, Launch
    <2> HIDE DEF s
    <2>3. /\ "emptyTrash" \in EventNames /\ "emptyTrash" \notin Trashing \cup {"update"}
          /\ "emptyTrash" \in Mutations
      BY DEF EventNames, Mutations, Trashing
    <2>4. Fits(o, "emptyTrash", s) /\ \A i \in 1..Len(s) : s[i].result = NoRecord
      BY <2>1, <2>3 DEF Fits
    <2>5. Begun("emptyTrash", s, "before")
      BY <2>1, <2>3 DEF Begun
    <2> QED
      BY <1>0, <1>a, <2>2, <2>3, <2>4, <2>5
  <1>10. ASSUME Query(o) PROVE Goal
    <2>1. PICK kind \in Queries, scope \in Scopes :
            \E ks \in CASE kind = "load"     -> {<<k>> : k \in client.given}
                        [] kind = "loadMany" -> client.batches
                        [] OTHER             -> {<<>>} :
              LaunchIn(scope, o, kind, [i \in 1..Len(ks) |-> NewEntry(o, i, ks[i], ks[i])],
                       "before")
      BY <1>10 DEF Query, Scopes
    <2>2. ASSUME NEW ks, ks \in CASE kind = "load"     -> {<<k>> : k \in client.given}
                                  [] kind = "loadMany" -> client.batches
                                  [] OTHER             -> {<<>>}
          PROVE  Len(ks) \in Nat /\ \A i \in 1..Len(ks) : ks[i] \in client.given \cup {NoKey}
      <3>1. CASE kind = "load"
        <4>1. PICK k \in client.given : ks = <<k>>
          BY <2>2, <3>1
        <4> QED
          BY <4>1
      <3>2. CASE kind = "loadMany"
        <4>1. ks \in client.batches
          BY <2>2, <3>2
        <4> QED
          BY <1>d, <4>1
      <3>3. CASE kind \notin {"load", "loadMany"}
        <4>1. ks = <<>>
          BY <2>2, <3>3
        <4> QED
          BY <4>1, EmptySeq
      <3> QED
        BY <3>1, <3>2, <3>3
    <2>3. PICK ks :
            /\ Len(ks) \in Nat /\ \A i \in 1..Len(ks) : ks[i] \in client.given \cup {NoKey}
            /\ LaunchIn(scope, o, kind, [i \in 1..Len(ks) |-> NewEntry(o, i, ks[i], ks[i])],
                        "before")
      BY <2>1, <2>2
    <2>4. kind \notin Upserting
      BY DEF Queries, Upserting
    <2> QED
      BY <1>c, <2>3, <2>4
  <1> QED
    BY <1>2, <1>3, <1>4, <1>5, <1>7, <1>8, <1>9, <1>10 DEF CallService, Goal

LEMMA CallSteps ==
    ASSUME OpsSound, client \in Clients, NEW o \in Ops, CallService(o)
    PROVE  Steps /\ ReadsOld /\ UNCHANGED store
  <1>1. PICK scope \in Scopes, kind \in EventNames, phase \in {"load", "before"},
             entries \in Seq(Entry) :
          /\ LaunchIn(scope, o, kind, entries, phase)
          /\ Fits(o, kind, entries)
          /\ \A i \in 1..Len(entries) : entries[i].result = NoRecord
    BY CallIs
  <1> QED
    BY <1>1, LaunchSteps

(* A call that changes its phase and what is left of its events. *)
LEMMA PhaseSteps ==
    ASSUME OpsSound, NEW o \in Ops, NEW new,
           ops' = [ops EXCEPT ![o] = new],
           new \in Call, new.kind = ops[o].kind, new.entries = ops[o].entries,
           new.read = ops[o].read,
           \/ new.phase \in {"done", "failed", "after"} /\ new.vetoed = ops[o].vetoed
           \/ new.phase = "failed" /\ ops[o].phase \in Early
           \/ new.phase = ops[o].phase /\ new.vetoed = ops[o].vetoed
    PROVE  Steps /\ ReadsOld
  <1>1. ops[o] \in Call /\ Sound(o, ops[o]) /\ ops \in [Ops -> Call]
    BY DEF OpsSound
  <1>2. Sound(o, new)
    BY <1>1 DEF Sound, Early
  <1>3. Keeps(ops[o], new)
    BY <1>1 DEF Keeps, Early
  <1>4. ReadsOld
    BY <1>1 DEF ReadsOld
  <1> QED
    BY <1>2, <1>3, <1>4, OneOp

(* A call that changes its entries, but not the inputs it has written.      *)
LEMMA EntrySteps ==
    ASSUME OpsSound, NEW o \in Ops, NEW new, NEW entries,
           ops' = [ops EXCEPT ![o] = new],
           new \in Call, new.kind = ops[o].kind, new.entries = entries,
           new.read = ops[o].read, new.vetoed = ops[o].vetoed,
           entries \in Seq(Entry), Len(entries) = Len(ops[o].entries),
           \A i \in 1..Len(entries) :
             /\ entries[i].input.op = ops[o].entries[i].input.op
             /\ entries[i].input.pos = ops[o].entries[i].input.pos
             /\ entries[i].lookup = ops[o].entries[i].lookup
             /\ \/ entries[i].input.id = ops[o].entries[i].input.id
                \/ entries[i].input.id \in Keys,
           \/ /\ new.phase \in Early \cup {"failed"} /\ ops[o].phase \in Early
              /\ \A i \in 1..Len(entries) : entries[i].result = ops[o].entries[i].result
           \/ /\ new.phase \in {"generate", "after"}
              /\ new.phase = "generate" =>
                   /\ ops[o].phase \in Early \cup {"generate"}
                   /\ \E i \in 1..Len(entries) : entries[i].result = NoRecord
              /\ \A i \in 1..Len(entries) : entries[i].input = ops[o].entries[i].input
    PROVE  Steps /\ ReadsOld
  <1>1. ops[o] \in Call /\ Sound(o, ops[o]) /\ ops \in [Ops -> Call]
    BY DEF OpsSound
  <1>2. Fits(o, new.kind, entries)
    <2>1. Fits(o, ops[o].kind, ops[o].entries)
      BY <1>1 DEF Sound
    <2> QED
      BY <2>1 DEF Fits
  <1>3. ops[o].phase \in Early => \A i \in 1..Len(ops[o].entries) : ops[o].entries[i].result = NoRecord
    BY <1>1 DEF Sound
  <1>4. ops[o].phase \in Early \cup {"generate"} => ~ops[o].vetoed
    BY <1>1 DEF Sound
  <1>5. ReadsOld
    BY <1>1 DEF ReadsOld
  <1>6. CASE /\ new.phase \in Early \cup {"failed"} /\ ops[o].phase \in Early
             /\ \A i \in 1..Len(entries) : entries[i].result = ops[o].entries[i].result
    <2>1. Sound(o, new)
      BY <1>2, <1>3, <1>4, <1>6 DEF Sound, Early
    <2>2. Keeps(ops[o], new)
      BY <1>6 DEF Keeps
    <2> QED
      BY <1>5, <2>1, <2>2, OneOp
  <1>7. CASE /\ new.phase \in {"generate", "after"}
             /\ new.phase = "generate" =>
                  /\ ops[o].phase \in Early \cup {"generate"}
                  /\ \E i \in 1..Len(entries) : entries[i].result = NoRecord
             /\ \A i \in 1..Len(entries) : entries[i].input = ops[o].entries[i].input
    <2>1. Sound(o, new)
      BY <1>2, <1>4, <1>7 DEF Sound, Early
    <2>2. Keeps(ops[o], new)
      BY <1>7 DEF Keeps, Early
    <2> QED
      BY <1>5, <2>1, <2>2, OneOp
  <1> QED
    BY <1>6, <1>7

LEMMA FieldsAre ==
    ASSUME OpsSound, NEW o \in Ops
    PROVE  /\ ops[o] \in Call /\ Entries(o) = ops[o].entries /\ Entries(o) \in Seq(Entry)
           /\ Len(Entries(o)) \in Nat
           /\ \A i \in 1..Len(Entries(o)) :
                Entries(o)[i] \in Entry /\ Input(o, i) = Entries(o)[i].input
           /\ ops[o].todo \in Seq(EventNames)
           /\ ops[o].todo # <<>> => Tail(ops[o].todo) \in Seq(EventNames)
  <1>1. ops[o] \in Call
    BY DEF OpsSound
  <1>2. ops[o].entries \in Seq(Entry) /\ ops[o].todo \in Seq(EventNames)
    BY <1>1 DEF Call
  <1>3. \A i \in 1..Len(ops[o].entries) : ops[o].entries[i] \in Entry
    BY <1>2, ElementOfSeq
  <1>4. Len(ops[o].entries) \in Nat
    BY <1>2, LenProperties
  <1>5. ops[o].todo # <<>> => Tail(ops[o].todo) \in Seq(EventNames)
    BY <1>2, HeadTailProperties
  <1> QED
    BY <1>1, <1>2, <1>3, <1>4, <1>5 DEF Entries, Input

LEMMA LoadSteps ==
    ASSUME OpsSound, StoreTypes, NEW o \in Ops, Load(o)
    PROVE  Steps /\ ReadsOld
  <1> DEFINE s == Loaded(o)
             op == [ops[o] EXCEPT !.entries = s]
  <1>1. /\ ops[o] \in Call /\ Entries(o) = ops[o].entries /\ Len(Entries(o)) \in Nat
        /\ \A i \in 1..Len(Entries(o)) : Entries(o)[i] \in Entry
    BY FieldsAre
  <1>2. /\ s \in Seq(Entry) /\ Len(s) = Len(Entries(o))
        /\ \A i \in 1..Len(s) : /\ s[i].input = Entries(o)[i].input
                                /\ s[i].lookup = Entries(o)[i].lookup
                                /\ s[i].result = Entries(o)[i].result
    <2> DEFINE found(e) == IF e.lookup = NoKey THEN NoRecord ELSE live[e.lookup]
               loaded(e) == [e EXCEPT !.existing = found(e)]
    <2>1. s = [i \in 1..Len(Entries(o)) |-> loaded(Entries(o)[i])]
      BY DEF Loaded
    <2>2. ASSUME NEW e \in Entry
          PROVE  /\ loaded(e) \in Entry /\ loaded(e).input = e.input
                 /\ loaded(e).lookup = e.lookup /\ loaded(e).result = e.result
      <3>1. e.lookup # NoKey => e.lookup \in Keys
        BY Constants DEF Entry
      <3>2. found(e) \in Record
        BY <3>1, RecordsAre DEF StoreTypes
      <3> HIDE DEF found
      <3> QED
        BY <3>2 DEF Entry
    <2> HIDE DEF loaded, s
    <2> QED
      BY <1>1, <2>1, <2>2
  <1> HIDE DEF s
  <1>3. /\ op \in Call /\ op.kind = ops[o].kind /\ op.entries = s /\ op.read = ops[o].read
        /\ op.vetoed = ops[o].vetoed /\ op.phase = ops[o].phase
    BY <1>1, <1>2 DEF Call
  <1> DEFINE new == IF op.kind = "duplicate" /\ op.entries[1].existing = NoRecord
                    THEN [op EXCEPT !.phase = "failed"] ELSE Before(op)
  <1>4. op.phase = "load" /\ ops' = [ops EXCEPT ![o] = new]
    BY DEF Load, s
  <1> HIDE DEF op
  <1>5. /\ [op EXCEPT !.phase = "failed"] \in Call
        /\ [op EXCEPT !.phase = "failed"].kind = ops[o].kind
        /\ [op EXCEPT !.phase = "failed"].entries = s
        /\ [op EXCEPT !.phase = "failed"].read = ops[o].read
        /\ [op EXCEPT !.phase = "failed"].vetoed = ops[o].vetoed
        /\ [op EXCEPT !.phase = "failed"].phase = "failed"
    BY <1>3 DEF Call, Phases
  <1>6. /\ new \in Call /\ new.kind = ops[o].kind /\ new.entries = s /\ new.read = ops[o].read
        /\ new.vetoed = ops[o].vetoed /\ new.phase \in {"before", "failed"}
    BY <1>3, <1>5, BeforeIs
  <1> HIDE DEF new
  <1>7. new.phase \in Early \cup {"failed"} /\ ops[o].phase \in Early
    BY <1>3, <1>4, <1>6 DEF Early
  <1> QED
    BY <1>1, <1>2, <1>4, <1>6, <1>7, EntrySteps

LEMMA AnnounceBeforeSteps ==
    ASSUME OpsSound, client \in Clients, NEW o \in Ops, AnnounceBefore(o)
    PROVE  Steps /\ ReadsOld
  <1> DEFINE group == Group(ops[o], Head(ops[o].todo))
             Left(i, S, R, k) == IF i \in group THEN Heard(Entries(o)[i], i, S, R, k)
                                 ELSE Entries(o)[i]
  <1>1. PICK S \in SUBSET (IF "replace" \in client.subscribers THEN group ELSE {}) :
          \E R \in SUBSET (IF "rekey" \in client.subscribers THEN S ELSE {}),
             k \in client.given :
            /\ Cardinality(R) <= 1
            /\ ops' = [ops EXCEPT
                 ![o].todo = Tail(@),
                 ![o].entries = [i \in 1..Len(Entries(o)) |-> Left(i, S, R, k)]]
    BY Zenon DEF AnnounceBefore
  <1>2. PICK R \in SUBSET (IF "rekey" \in client.subscribers THEN S ELSE {}),
             k \in client.given :
          ops' = [ops EXCEPT
                    ![o].todo = Tail(@),
                    ![o].entries = [i \in 1..Len(Entries(o)) |-> Left(i, S, R, k)]]
    BY <1>1, Zenon
  <1> DEFINE s == [i \in 1..Len(Entries(o)) |-> Left(i, S, R, k)]
             new == [ops[o] EXCEPT !.todo = Tail(@), !.entries = s]
  <1>3. /\ ops[o] \in Call /\ Entries(o) = ops[o].entries /\ Len(Entries(o)) \in Nat
        /\ \A i \in 1..Len(Entries(o)) : Entries(o)[i] \in Entry
        /\ Tail(ops[o].todo) \in Seq(EventNames) /\ ops[o].phase = "before"
    BY FieldsAre DEF AnnounceBefore
  <1>4. ASSUME NEW e \in Entry, NEW i
        PROVE  LET f == Heard(e, i, S, R, k)
               IN  /\ f \in Entry /\ f.lookup = e.lookup /\ f.result = e.result
                   /\ f.input.op = e.input.op /\ f.input.pos = e.input.pos
                   /\ f.input.id = e.input.id \/ f.input.id \in Keys
    <2> DEFINE f == Heard(e, i, S, R, k)
    <2>1. /\ f \in Entry /\ f.lookup = e.lookup /\ f.result = e.result
          /\ f.input.op = e.input.op /\ f.input.pos = e.input.pos
          /\ f.input.id = e.input.id \/ f.input.id \in Keys
      <3> DEFINE replaced == CASE i \in R -> "key"
                               [] i \in S \ R /\ e.input.replaced = "no" -> "content"
                               [] OTHER -> e.input.replaced
                 id == IF i \in R THEN k ELSE e.input.id
                 input == [e.input EXCEPT !.replaced = replaced, !.id = id]
      <3>1. k \in Keys /\ k \in 0..MaxKey
        BY Constants
      <3>2. e.input \in Record /\ KeyOf(e) \in 0..MaxKey
        BY KeyOfType DEF Entry
      <3>3. replaced \in {"no", "content", "key"}
        BY <3>2 DEF Record
      <3>4. id \in 0..MaxKey /\ (id = e.input.id \/ id \in Keys)
        BY <3>1, <3>2 DEF Record
      <3>5. f = [e EXCEPT !.key = KeyOf(e), !.input = input]
        BY DEF Heard, Filled, Entry, Record
      <3> HIDE DEF f, replaced, id
      <3>6. /\ input \in Record /\ input.op = e.input.op /\ input.pos = e.input.pos
            /\ input.id = id
        BY <3>2, <3>3, <3>4 DEF Record
      <3> HIDE DEF input
      <3>7. f \in Entry /\ f.lookup = e.lookup /\ f.result = e.result /\ f.input = input
        BY <3>2, <3>5, <3>6 DEF Entry
      <3> QED
        BY <3>4, <3>6, <3>7
    <2> QED
      BY <2>1
  <1>5. ops' = [ops EXCEPT ![o] = new]
    BY <1>2, <1>3
  <1>6. /\ s \in Seq(Entry) /\ Len(s) = Len(Entries(o))
        /\ \A i \in 1..Len(s) : s[i] = Left(i, S, R, k)
    BY <1>3, <1>4
  <1> HIDE DEF s
  <1>7. /\ new \in Call /\ new.kind = ops[o].kind /\ new.entries = s /\ new.read = ops[o].read
        /\ new.vetoed = ops[o].vetoed /\ new.phase = "before"
    BY <1>3, <1>6 DEF Call
  <1> HIDE DEF new
  <1>8. new.phase \in Early \cup {"failed"} /\ ops[o].phase \in Early
    BY <1>3, <1>7 DEF Early
  <1>9. \A i \in 1..Len(s) : /\ s[i].lookup = ops[o].entries[i].lookup
                             /\ s[i].result = ops[o].entries[i].result
                             /\ s[i].input.op = ops[o].entries[i].input.op
                             /\ s[i].input.pos = ops[o].entries[i].input.pos
                             /\ \/ s[i].input.id = ops[o].entries[i].input.id
                                \/ s[i].input.id \in Keys
    BY <1>3, <1>4, <1>6
  <1> QED
    BY <1>3, <1>5, <1>6, <1>7, <1>8, <1>9, EntrySteps

(* The other steps that write nothing. *)
LEMMA QuietSteps ==
    ASSUME OpsSound, NEW o \in Ops,
           Veto(o) \/ Refuse(o) \/ AnnounceAfter(o) \/ Reject(o) \/ Finish(o)
    PROVE  Steps /\ ReadsOld
  <1>1. /\ ops[o] \in Call /\ ops \in [Ops -> Call]
        /\ Entries(o) = ops[o].entries /\ Len(Entries(o)) \in Nat
        /\ \A i \in 1..Len(Entries(o)) : Entries(o)[i] \in Entry
        /\ ops[o].todo # <<>> => Tail(ops[o].todo) \in Seq(EventNames)
    BY FieldsAre DEF OpsSound
  <1>2. CASE Veto(o)
    <2> DEFINE new == [ops[o] EXCEPT !.phase = "failed", !.vetoed = TRUE]
    <2>1. ops' = [ops EXCEPT ![o] = new] /\ ops[o].phase \in Early
      BY <1>1, <1>2 DEF Veto, Early
    <2>2. /\ new \in Call /\ new.kind = ops[o].kind /\ new.entries = ops[o].entries
          /\ new.read = ops[o].read /\ new.phase = "failed"
      BY <1>1 DEF Call, Phases
    <2> HIDE DEF new
    <2> QED
      BY <2>1, <2>2, PhaseSteps
  <1>3. ASSUME NEW phase \in {"failed", "done"}, ops' = [ops EXCEPT ![o].phase = phase]
        PROVE  Steps /\ ReadsOld
    <2> DEFINE new == [ops[o] EXCEPT !.phase = phase]
    <2>1. ops' = [ops EXCEPT ![o] = new]
      BY <1>3
    <2>2. /\ new \in Call /\ new.kind = ops[o].kind /\ new.entries = ops[o].entries
          /\ new.read = ops[o].read /\ new.vetoed = ops[o].vetoed /\ new.phase = phase
      BY <1>1 DEF Call, Phases
    <2> HIDE DEF new
    <2> QED
      BY <2>1, <2>2, PhaseSteps
  <1>4. CASE AnnounceAfter(o)
    <2> DEFINE group == Group(ops[o], Head(ops[o].todo))
               told(e) == [e EXCEPT !.told = KeyOf(e)]
               s == [i \in 1..Len(Entries(o)) |->
                       IF i \in group THEN told(Entries(o)[i]) ELSE Entries(o)[i]]
               new == [ops[o] EXCEPT !.todo = Tail(@), !.entries = s]
    <2>1. ops' = [ops EXCEPT ![o] = new] /\ ops[o].phase = "after" /\ ops[o].todo # <<>>
      BY <1>1, <1>4 DEF AnnounceAfter
    <2>2. ASSUME NEW e \in Entry
          PROVE  /\ told(e) \in Entry /\ told(e).input = e.input
                 /\ told(e).lookup = e.lookup
      BY KeyOfType DEF Entry
    <2> HIDE DEF told, group
    <2>3. /\ s \in Seq(Entry) /\ Len(s) = Len(Entries(o))
          /\ \A i \in 1..Len(s) : /\ s[i].input = Entries(o)[i].input
                                  /\ s[i].lookup = Entries(o)[i].lookup
      BY <1>1, <2>2
    <2> HIDE DEF s
    <2>4. /\ new \in Call /\ new.kind = ops[o].kind /\ new.entries = s
          /\ new.read = ops[o].read /\ new.vetoed = ops[o].vetoed /\ new.phase = "after"
      BY <1>1, <2>1, <2>3 DEF Call
    <2> HIDE DEF new
    <2> QED
      BY <1>1, <2>1, <2>3, <2>4, EntrySteps
  <1>5. CASE Refuse(o)
    BY <1>3, <1>5 DEF Refuse
  <1>6. CASE Reject(o)
    BY <1>3, <1>6 DEF Reject
  <1>7. CASE Finish(o)
    BY <1>3, <1>7 DEF Finish
  <1> QED
    BY <1>2, <1>4, <1>5, <1>6, <1>7

(* A query comes to know what is stored. *)
LEMMA ReadSteps ==
    ASSUME OpsSound, StoreTypes, NEW o \in Ops, Read(o)
    PROVE  /\ Steps
           /\ \A p \in Ops : \A r \in ops'[p].read : r \in ops[p].read \cup Stored
  <1>1. ops[o] \in Call /\ ops \in [Ops -> Call]
    BY DEF OpsSound
  <1>2. PICK found \in Found(ops[o]) :
          ops' = [ops EXCEPT ![o] = [AfterWrite(o) EXCEPT !.read = found]]
    BY DEF Read
  <1>3. found \subseteq Stored
    <2>1. \A k \in Keys : live[k] \in Stored /\ trash[k] \in Stored
      BY DEF Stored
    <2>2. Sources(ops[o].scope) \subseteq Stored
      BY <2>1 DEF Sources
    <2>3. CASE ops[o].kind \in {"search", "count"}
      <3>1. found \in SUBSET (Sources(ops[o].scope) \ {NoRecord})
        BY <1>2, <2>3 DEF Found
      <3> QED
        BY <2>2, <3>1
    <2>4. CASE ops[o].kind \notin {"search", "count"}
      <3> DEFINE ks == {ops[o].entries[i].lookup : i \in 1..Len(ops[o].entries)} \ {NoKey}
      <3>1. found = {LoadOne(ops[o].scope, k) : k \in ks} \ {NoRecord}
        BY <1>2, <2>4 DEF Found
      <3>2. ks \subseteq Keys
        <4>1. ASSUME NEW i \in 1..Len(ops[o].entries), ops[o].entries[i].lookup # NoKey
              PROVE  ops[o].entries[i].lookup \in Keys
          <5>1. ops[o].entries[i] \in Entry
            BY FieldsAre
          <5> QED
            BY <4>1, <5>1, Constants DEF Entry
        <4> QED
          BY <4>1
      <3> HIDE DEF ks
      <3>3. ASSUME NEW k \in ks, LoadOne(ops[o].scope, k) # NoRecord
            PROVE  LoadOne(ops[o].scope, k) \in Stored
        BY <2>1, <3>2, <3>3 DEF LoadOne
      <3> QED
        BY <3>1, <3>3
    <2> QED
      BY <2>3, <2>4
  <1>4. Stored \subseteq Record
    BY DEF Stored, StoreTypes
  <1> DEFINE new == [AfterWrite(o) EXCEPT !.read = found]
  <1>5. /\ new \in Call /\ new.kind = ops[o].kind /\ new.entries = ops[o].entries
        /\ new.read = found /\ new.vetoed = ops[o].vetoed /\ new.phase = "after"
    <2> DEFINE a == AfterWrite(o)
    <2>1. /\ a \in Call /\ a.phase = "after" /\ a.kind = ops[o].kind
          /\ a.entries = ops[o].entries /\ a.vetoed = ops[o].vetoed
      BY <1>1, AfterWriteIs
    <2> HIDE DEF a
    <2>2. LET n == [a EXCEPT !.read = found]
          IN  /\ n \in Call /\ n.kind = ops[o].kind /\ n.entries = ops[o].entries
              /\ n.read = found /\ n.vetoed = ops[o].vetoed /\ n.phase = "after"
      BY <1>3, <1>4, <2>1 DEF Call
    <2> QED
      BY <2>2 DEF a
  <1> HIDE DEF new
  <1>6. ops' = [ops EXCEPT ![o] = new]
    BY <1>2 DEF new
  <1>7. Sound(o, ops[o])
    BY DEF OpsSound
  <1>8. Sound(o, new) /\ Keeps(ops[o], new)
    BY <1>5, <1>7 DEF Sound, Keeps, Early
  <1>9. Steps
    BY <1>6, <1>8, OneOp
  <1>10. \A p \in Ops : \A r \in ops'[p].read : r \in ops[p].read \cup Stored
    BY <1>1, <1>3, <1>5, <1>6
  <1> QED
    BY <1>9, <1>10

-----------------------------------------------------------------------------
(* What the writes do to the calls and to the maps of the repository. *)

(* The records call o may write: its inputs, under any key. *)
Fresh(o) ==
    {r \in Record : /\ r.op = o /\ r.pos \in 1..Len(ops[o].entries)
                    /\ r.replaced = ops[o].entries[r.pos].input.replaced}

(* Call o has written: its inputs stand and nobody vetoed it. *)
Written(o) ==
    /\ Steps /\ ReadsOld
    /\ ops[o].phase \in Early \cup {"generate"} /\ ops'[o].phase \notin Early
    /\ ~ops'[o].vetoed /\ Len(ops'[o].entries) = Len(ops[o].entries)
    /\ \A i \in 1..Len(ops[o].entries) :
         ops'[o].entries[i].input = ops[o].entries[i].input

(* Records move, vanish, or are those call o writes. *)
Effect(o) ==
    /\ live' \in [Keys -> Record] /\ trash' \in [Keys -> Record]
    /\ nextId' \in 0..MaxKey /\ purged' \subseteq Keys /\ client' = client
    /\ \A k \in Keys : live'[k] \in Stored \cup {NoRecord} \cup Fresh(o)
    /\ \A k \in Keys : trash'[k] \in Stored \cup {NoRecord}

Places == OneCopy /\ GoneForGood /\ NeverLost

LEMMA WriteSteps ==
    ASSUME OpsSound, NEW o \in Ops, NEW new, NEW entries,
           ops' = [ops EXCEPT ![o] = new],
           new \in Call, new.kind = ops[o].kind, new.entries = entries,
           new.read = ops[o].read, new.vetoed = ops[o].vetoed,
           entries \in Seq(Entry), Len(entries) = Len(ops[o].entries),
           \A i \in 1..Len(entries) :
             /\ entries[i].input = ops[o].entries[i].input
             /\ entries[i].lookup = ops[o].entries[i].lookup,
           new.phase \in {"generate", "after"}, ops[o].phase \in Early \cup {"generate"},
           new.phase = "generate" => \E i \in 1..Len(entries) : entries[i].result = NoRecord
    PROVE  Written(o)
  <1>1. Steps /\ ReadsOld
    BY EntrySteps
  <1>2. ops'[o] = new
    BY DEF OpsSound
  <1>3. ~ops[o].vetoed
    BY DEF OpsSound, Sound
  <1> QED
    BY <1>1, <1>2, <1>3 DEF Written, Early

LEMMA ReturnedSteps ==
    ASSUME OpsSound, NEW o \in Ops, NEW r \in Record, NEW overwrote \in Record, NEW new,
           Len(Entries(o)) = 1, ops[o].phase \in Early,
           \/ new = [AfterWrite(o) EXCEPT !.entries[1].result = r]
           \/ new = [AfterWrite(o) EXCEPT !.entries[1].result = r,
                                          !.entries[1].overwrote = overwrote],
           ops' = [ops EXCEPT ![o] = new]
    PROVE  Written(o)
  <1>1. /\ ops[o] \in Call /\ ops[o].entries \in Seq(Entry) /\ Len(ops[o].entries) = 1
        /\ ops[o].entries[1] \in Entry
    BY FieldsAre
  <1> DEFINE a == AfterWrite(o)
             e == ops[o].entries[1]
             b == IF new = [a EXCEPT !.entries[1].result = r]
                  THEN [e EXCEPT !.result = r]
                  ELSE [e EXCEPT !.result = r, !.overwrote = overwrote]
             s == [ops[o].entries EXCEPT ![1] = b]
  <1>2. /\ a \in Call /\ a.phase = "after" /\ a.kind = ops[o].kind
        /\ a.entries = ops[o].entries /\ a.vetoed = ops[o].vetoed /\ a.read = ops[o].read
    BY <1>1, AfterWriteIs
  <1> HIDE DEF a
  <1>3. b \in Entry /\ b.input = e.input /\ b.lookup = e.lookup
    BY <1>1 DEF Entry
  <1>4. new = [a EXCEPT !.entries = s]
    <2>1. CASE new = [a EXCEPT !.entries[1].result = r]
      <3>1. s = [a.entries EXCEPT ![1] = [a.entries[1] EXCEPT !.result = r]]
        BY <1>2, <2>1
      <3> QED
        BY <2>1, <3>1
    <2>2. CASE new # [a EXCEPT !.entries[1].result = r]
      <3>1. new = [a EXCEPT !.entries[1].result = r, !.entries[1].overwrote = overwrote]
        BY <2>2 DEF a
      <3>2. s = [a.entries EXCEPT ![1] = [a.entries[1] EXCEPT !.result = r,
                                                               !.overwrote = overwrote]]
        BY <1>2, <2>2
      <3>3. a.entries \in Seq(Entry) /\ 1 \in DOMAIN a.entries /\ a.entries[1] \in Entry
        BY <1>1, <1>2
      <3>4. s = [a.entries EXCEPT ![1].result = r, ![1].overwrote = overwrote]
        BY <3>2, <3>3 DEF Entry
      <3> HIDE DEF s
      <3> QED
        BY <1>2, <3>1, <3>3, <3>4 DEF Call
    <2> QED
      BY <2>1, <2>2
  <1> HIDE DEF b
  <1>5. /\ s \in Seq(Entry) /\ Len(s) = 1 /\ s[1] = b
    BY <1>1, <1>3
  <1> HIDE DEF s
  <1>6. /\ new \in Call /\ new.kind = ops[o].kind /\ new.entries = s
        /\ new.read = ops[o].read /\ new.vetoed = ops[o].vetoed /\ new.phase = "after"
    BY <1>2, <1>4, <1>5 DEF Call
  <1>7. \A i \in 1..Len(s) : /\ s[i].input = ops[o].entries[i].input
                             /\ s[i].lookup = ops[o].entries[i].lookup
    BY <1>3, <1>5
  <1> HIDE DEF e
  <1> QED
    BY <1>1, <1>5, <1>6, <1>7, WriteSteps

(* A call on one record that writes has one entry and has written nothing.  *)
LEMMA OneTarget ==
    ASSUME OpsSound, NEW o \in Ops, NEW kinds \in SUBSET (Trashing \cup {"update"}),
           Writing(o, kinds)
    PROVE  /\ Len(Entries(o)) = 1 /\ ops[o].phase \in Early
           /\ ops[o].kind \in Trashing => Target(o) \in Keys
           /\ ops[o].kind = "update" => Entries(o)[1].lookup \in Keys
  <1>1. Fits(o, ops[o].kind, Entries(o))
    BY DEF OpsSound, Sound, Entries
  <1>2. ops[o].kind \in Trashing \cup {"update"} /\ ops[o].phase = "before"
    BY DEF Writing, Ready
  <1> QED
    BY <1>1, <1>2 DEF Fits, Target, Input, Early

LEMMA StoredAre ==
    ASSUME StoreTypes, NEW k \in Keys
    PROVE  live[k] \in Record /\ live[k] \in Stored /\ trash[k] \in Record /\ trash[k] \in Stored
  BY DEF StoreTypes, Stored

LEMMA MoveToTrashWrites ==
    ASSUME OpsSound, StoreTypes, Places, NEW o \in Ops, MoveToTrash(o)
    PROVE  Written(o) /\ Effect(o) /\ Places'
  <1> DEFINE k == Target(o)
  <1>1. Writing(o, {"remove"}) /\ ops[o].kind = "remove" /\ live[k] # NoRecord
    BY DEF MoveToTrash, Writing, Throws, Creating
  <1>2. k \in Keys /\ Len(Entries(o)) = 1 /\ ops[o].phase \in Early
    BY <1>1, OneTarget DEF Trashing
  <1>3. live[k] \in Record /\ live[k] \in Stored
    BY <1>2, StoredAre
  <1>4. Written(o)
    BY <1>2, <1>3, ReturnedSteps, RecordsAre DEF MoveToTrash, Returned
  <1>5. /\ live' = [live EXCEPT ![k] = NoRecord] /\ trash' = [trash EXCEPT ![k] = live[k]]
        /\ nextId' = nextId /\ purged' = purged /\ doubled' = doubled /\ client' = client
    BY DEF MoveToTrash, history
  <1> HIDE DEF k
  <1>6. Effect(o)
    BY <1>2, <1>3, <1>5, StoredAre, RecordsAre DEF Effect, StoreTypes
  <1>7. OneCopy' /\ GoneForGood' /\ NeverLost'
    BY <1>1, <1>2, <1>5, Constants DEF StoreTypes, Places, OneCopy, GoneForGood, NeverLost
  <1> QED
    BY <1>4, <1>6, <1>7 DEF Places

LEMMA RestoreWrites ==
    ASSUME OpsSound, StoreTypes, Places, NEW o \in Ops, Restore(o)
    PROVE  Written(o) /\ Effect(o) /\ Places'
  <1> DEFINE k == Target(o)
  <1>1. Writing(o, {"restore"}) /\ ops[o].kind = "restore" /\ trash[k] # NoRecord
    BY DEF Restore, Writing, Throws, Creating
  <1>2. k \in Keys /\ Len(Entries(o)) = 1 /\ ops[o].phase \in Early
    BY <1>1, OneTarget DEF Trashing
  <1>3. trash[k] \in Record /\ trash[k] \in Stored
    BY <1>2, StoredAre
  <1>4. Written(o)
    BY <1>2, <1>3, ReturnedSteps, RecordsAre DEF Restore, Returned
  <1>5. /\ live' = [live EXCEPT ![k] = trash[k]] /\ trash' = [trash EXCEPT ![k] = NoRecord]
        /\ nextId' = nextId /\ purged' = purged /\ doubled' = doubled /\ client' = client
    BY DEF Restore, history
  <1> HIDE DEF k
  <1>6. Effect(o)
    BY <1>2, <1>3, <1>5, StoredAre, RecordsAre DEF Effect, StoreTypes
  <1>7. OneCopy' /\ GoneForGood' /\ NeverLost'
    BY <1>1, <1>2, <1>5, Constants DEF StoreTypes, Places, OneCopy, GoneForGood, NeverLost
  <1> QED
    BY <1>4, <1>6, <1>7 DEF Places

LEMMA DeleteFromTrashWrites ==
    ASSUME OpsSound, StoreTypes, Places, NEW o \in Ops, DeleteFromTrash(o)
    PROVE  Written(o) /\ Effect(o) /\ Places'
  <1> DEFINE k == Target(o)
  <1>1. Writing(o, {"permanentlyDeleteFromTrash"}) /\ ops[o].kind = "permanentlyDeleteFromTrash"
    BY DEF DeleteFromTrash, Writing
  <1>2. k \in Keys /\ Len(Entries(o)) = 1 /\ ops[o].phase \in Early
    BY <1>1, OneTarget DEF Trashing
  <1>3. trash[k] \in Record
    BY <1>2, StoredAre
  <1>4. Written(o)
    BY <1>2, <1>3, ReturnedSteps, RecordsAre DEF DeleteFromTrash, Returned
  <1>5. /\ live' = live /\ trash' = [trash EXCEPT ![k] = NoRecord]
        /\ purged' = IF live[k] = NoRecord THEN purged \cup {k} ELSE purged
        /\ nextId' = nextId /\ doubled' = doubled /\ client' = client
    BY DEF DeleteFromTrash
  <1> HIDE DEF k
  <1>6. Effect(o)
    BY <1>2, <1>5, StoredAre, RecordsAre DEF Effect, StoreTypes
  <1>7. OneCopy' /\ GoneForGood' /\ NeverLost'
    BY <1>2, <1>5, Constants DEF StoreTypes, Places, OneCopy, GoneForGood, NeverLost
  <1> QED
    BY <1>4, <1>6, <1>7 DEF Places

LEMMA DeleteWrites ==
    ASSUME OpsSound, StoreTypes, Places, NEW o \in Ops, Delete(o)
    PROVE  Written(o) /\ Effect(o) /\ Places'
  <1> DEFINE k == Target(o)
  <1>1. Writing(o, {"permanentlyDelete"}) /\ ops[o].kind = "permanentlyDelete"
    BY DEF Delete, Writing
  <1>2. k \in Keys /\ Len(Entries(o)) = 1 /\ ops[o].phase \in Early
    BY <1>1, OneTarget DEF Trashing
  <1>3. live[k] \in Record /\ trash[k] \in Record
    BY <1>2, StoredAre
  <1>4. Written(o)
    BY <1>2, <1>3, ReturnedSteps, RecordsAre DEF Delete, Returned
  <1>5. /\ purged' = purged \cup {k} /\ nextId' = nextId /\ doubled' = doubled
        /\ client' = client
    BY DEF Delete
  <1>6. CASE live[k] # NoRecord
    <2>1. live' = [live EXCEPT ![k] = NoRecord] /\ trash' = trash
      BY <1>6 DEF Delete
    <2> HIDE DEF k
    <2>2. Effect(o)
      BY <1>2, <1>5, <2>1, StoredAre, RecordsAre DEF Effect, StoreTypes
    <2>3. OneCopy' /\ GoneForGood' /\ NeverLost'
      BY <1>2, <1>5, <1>6, <2>1, Constants
      DEF StoreTypes, Places, OneCopy, GoneForGood, NeverLost
    <2> QED
      BY <1>4, <2>2, <2>3 DEF Places
  <1>7. CASE live[k] = NoRecord
    <2>1. live' = live /\ trash' = [trash EXCEPT ![k] = NoRecord]
      BY <1>7 DEF Delete
    <2> HIDE DEF k
    <2>2. Effect(o)
      BY <1>2, <1>5, <2>1, StoredAre, RecordsAre DEF Effect, StoreTypes
    <2>3. OneCopy' /\ GoneForGood' /\ NeverLost'
      BY <1>2, <1>5, <1>7, <2>1, Constants
      DEF StoreTypes, Places, OneCopy, GoneForGood, NeverLost
    <2> QED
      BY <1>4, <2>2, <2>3 DEF Places
  <1> QED
    BY <1>6, <1>7

LEMMA ClearTrashWrites ==
    ASSUME OpsSound, StoreTypes, Places, NEW o \in Ops, ClearTrash(o)
    PROVE  Written(o) /\ Effect(o) /\ Places'
  <1>1. ops[o].phase \in Early
    BY DEF ClearTrash, Writing, Ready, Early
  <1>2. Written(o)
    <2> DEFINE a == AfterWrite(o)
    <2>1. /\ a \in Call /\ a.phase = "after" /\ a.kind = ops[o].kind
          /\ a.entries = ops[o].entries /\ a.vetoed = ops[o].vetoed /\ a.read = ops[o].read
      BY FieldsAre, AfterWriteIs
    <2>2. ops' = [ops EXCEPT ![o] = a]
      BY DEF ClearTrash
    <2>3. ops[o].entries \in Seq(Entry)
      BY FieldsAre
    <2> HIDE DEF a
    <2> QED
      BY <1>1, <2>1, <2>2, <2>3, WriteSteps
  <1>3. PICK S \in SUBSET {k \in Keys : trash[k] # NoRecord} :
          /\ trash' = [k \in Keys |-> IF k \in S THEN NoRecord ELSE trash[k]]
          /\ purged' = purged \cup {k \in S : live[k] = NoRecord}
    BY DEF ClearTrash
  <1>4. live' = live /\ nextId' = nextId /\ doubled' = doubled /\ client' = client
    BY DEF ClearTrash
  <1>5. Effect(o)
    BY <1>3, <1>4, StoredAre, RecordsAre DEF Effect, StoreTypes
  <1>6. OneCopy' /\ GoneForGood' /\ NeverLost'
    BY <1>3, <1>4, Constants DEF StoreTypes, Places, OneCopy, GoneForGood, NeverLost
  <1> QED
    BY <1>2, <1>5, <1>6 DEF Places

(* The inputs of a call are its own. *)
LEMMA InputsAre ==
    ASSUME OpsSound, NEW o \in Ops, NEW i \in 1..Len(Entries(o)), NEW id \in 0..MaxKey
    PROVE  /\ Input(o, i) \in Fresh(o) /\ [Input(o, i) EXCEPT !.id = id] \in Fresh(o)
           /\ Input(o, i) # NoRecord /\ [Input(o, i) EXCEPT !.id = id] # NoRecord
           /\ HasKey(o, i) => Input(o, i).id \in Keys
  <1> DEFINE r == Input(o, i)
             q == [r EXCEPT !.id = id]
  <1>1. Entries(o)[i] \in Entry /\ r = Entries(o)[i].input /\ Entries(o) = ops[o].entries
    BY FieldsAre
  <1>2. r \in Record
    BY <1>1 DEF Entry
  <1>3. r.op = o /\ r.pos = i
    BY <1>1 DEF OpsSound, Sound, Fits
  <1>4. HasKey(o, i) => r.id \in Keys
    BY <1>2, Constants DEF Record, HasKey
  <1>5. o # 0
    BY Constants
  <1> HIDE DEF r
  <1>6. q \in Record /\ q.op = o /\ q.pos = i /\ q.replaced = r.replaced
    BY <1>2, <1>3 DEF Record
  <1> HIDE DEF q
  <1>7. r \in Fresh(o) /\ q \in Fresh(o)
    BY <1>1, <1>2, <1>3, <1>6 DEF Fresh
  <1>8. r # NoRecord /\ q # NoRecord
    BY <1>3, <1>5, <1>6, RecordsAre
  <1> QED
    BY <1>4, <1>7, <1>8 DEF r, q

LEMMA UpdateWrites ==
    ASSUME OpsSound, StoreTypes, Places, NEW o \in Ops, UpdateLive(o)
    PROVE  Written(o) /\ Effect(o) /\ Places'
  <1> DEFINE k == Entries(o)[1].lookup
             r == IF HasKey(o, 1) THEN Input(o, 1) ELSE [Input(o, 1) EXCEPT !.id = live[k].id]
  <1>1. Writing(o, {"update"}) /\ ops[o].kind = "update" /\ live[k] # NoRecord
    BY DEF UpdateLive, Writing, Throws, Creating
  <1>2. k \in Keys /\ Len(Entries(o)) = 1 /\ ops[o].phase \in Early
    BY <1>1, OneTarget DEF Trashing
  <1>3. live[k] \in Record /\ live[k].id \in 0..MaxKey
    BY <1>2, StoredAre DEF Record
  <1>4. r \in Fresh(o) /\ r # NoRecord
    <2> DEFINE id == live[k].id
    <2>1. id \in 0..MaxKey /\ 1 \in 1..Len(Entries(o))
      BY <1>2, <1>3
    <2> HIDE DEF id
    <2>2. /\ Input(o, 1) \in Fresh(o) /\ [Input(o, 1) EXCEPT !.id = id] \in Fresh(o)
          /\ Input(o, 1) # NoRecord /\ [Input(o, 1) EXCEPT !.id = id] # NoRecord
      BY <2>1, InputsAre
    <2> QED
      BY <2>2 DEF id
  <1>5. r \in Record
    BY <1>4 DEF Fresh
  <1>6. ops' = [ops EXCEPT ![o] = [AfterWrite(o) EXCEPT !.entries[1].result = r,
                                                        !.entries[1].overwrote = live[k]]]
    BY DEF UpdateLive, InputOf
  <1>7. live' = [live EXCEPT ![k] = r] /\ trash' = trash /\ nextId' = nextId
        /\ purged' = purged /\ doubled' = doubled /\ client' = client
    BY DEF UpdateLive, InputOf, history
  <1> HIDE DEF r, k
  <1>8. Written(o)
    BY <1>2, <1>3, <1>5, <1>6, ReturnedSteps
  <1>9. Effect(o)
    BY <1>2, <1>4, <1>5, <1>7, StoredAre, RecordsAre DEF Effect, StoreTypes
  <1>10. OneCopy' /\ GoneForGood' /\ NeverLost'
    BY <1>1, <1>2, <1>4, <1>7, Constants
    DEF StoreTypes, Places, OneCopy, GoneForGood, NeverLost
  <1> QED
    BY <1>8, <1>9, <1>10 DEF Places

(* Writing new records at the keys ks leaves every record in one place.     *)
LEMMA WroteKeeps ==
    ASSUME StoreTypes, Places, NEW ks, Wrote(ks), trash' = trash,
           \A k \in Keys : IF k \in ks THEN live'[k] # NoRecord ELSE live'[k] = live[k]
    PROVE  Places' /\ purged' \subseteq Keys /\ client' = client
  <1>1. /\ purged' = purged \ ks /\ client' = client
        /\ doubled' = doubled \cup {k \in ks \ {NoKey} : trash[k] # NoRecord}
    BY DEF Wrote
  <1>2. purged' \subseteq Keys /\ client.seeded \subseteq Keys
    BY <1>1, Constants DEF StoreTypes
  <1>3. ASSUME NEW k \in Keys \ doubled', live'[k] # NoRecord PROVE trash'[k] = NoRecord
    <2>1. k \notin doubled /\ (k \in ks => trash[k] = NoRecord)
      BY <1>1, <1>3, Constants
    <2> QED
      BY <1>3, <2>1 DEF Places, OneCopy
  <1>4. ASSUME NEW k \in purged' \ doubled'
        PROVE  live'[k] = NoRecord /\ trash'[k] = NoRecord
    <2>1. k \in Keys /\ k \in purged \ doubled /\ k \notin ks
      BY <1>1, <1>2, <1>4
    <2> QED
      BY <2>1 DEF Places, GoneForGood
  <1>5. ASSUME NEW k \in client.seeded \ purged', live'[k] = NoRecord
        PROVE  trash'[k] # NoRecord
    <2>1. k \in Keys /\ k \notin ks /\ k \notin purged
      BY <1>1, <1>2, <1>5
    <2> QED
      BY <1>5, <2>1 DEF Places, NeverLost
  <1>6. OneCopy'
    BY <1>3 DEF OneCopy
  <1>7. GoneForGood'
    BY <1>4 DEF GoneForGood
  <1>8. NeverLost'
    BY <1>1, <1>5 DEF NeverLost
  <1> QED
    BY <1>1, <1>2, <1>6, <1>7, <1>8 DEF Places

LEMMA PutGeneratedWrites ==
    ASSUME OpsSound, StoreTypes, Places, NEW o \in Ops, PutGenerated(o)
    PROVE  Written(o) /\ Effect(o) /\ Places'
  <1> DEFINE n == Len(Entries(o))
             waiting == {i \in 1..n : Entries(o)[i].result = NoRecord}
             i == CHOOSE i \in waiting : \A j \in waiting : i <= j
             k == nextId + 1
             r == [Input(o, i) EXCEPT !.id = k]
             base == IF waiting = {i} THEN AfterWrite(o) ELSE ops[o]
             new == [base EXCEPT !.entries[i].result = r, !.entries[i].overwrote = live[k]]
  <1>1. /\ ops[o] \in Call /\ Entries(o) = ops[o].entries /\ Entries(o) \in Seq(Entry)
        /\ n \in Nat /\ \A j \in 1..n : Entries(o)[j] \in Entry
    BY FieldsAre
  <1>2. ops[o].phase = "generate" /\ k \in Keys /\ k \in 0..MaxKey
    BY Constants DEF PutGenerated
  <1>3. /\ nextId' = k /\ live' = [live EXCEPT ![k] = r] /\ Wrote({k}) /\ trash' = trash
        /\ ops' = [ops EXCEPT ![o] = new]
    BY DEF PutGenerated, InputOf
  <1>4. i \in waiting
    <2>1. waiting # {}
      BY <1>1, <1>2 DEF OpsSound, Sound
    <2>2. waiting \subseteq 1..n
      OBVIOUS
    <2>3. n \in Nat
      BY <1>1
    <2> HIDE DEF waiting, n
    <2>4. \E j \in waiting : \A l \in waiting : j <= l
      BY <2>1, <2>2, <2>3, Least
    <2> QED
      BY <2>4
  <1>5. r \in Fresh(o) /\ r # NoRecord
    BY <1>2, <1>4, InputsAre
  <1>6. r \in Record
    BY <1>5 DEF Fresh
  <1>7. live[k] \in Record
    BY <1>2, StoredAre
  <1>8. /\ base \in Call /\ base.kind = ops[o].kind /\ base.entries = ops[o].entries
        /\ base.vetoed = ops[o].vetoed /\ base.read = ops[o].read
        /\ base.phase = IF waiting = {i} THEN "after" ELSE "generate"
    BY <1>1, <1>2, AfterWriteIs
  <1> DEFINE e == ops[o].entries[i]
             b == [e EXCEPT !.result = r, !.overwrote = live[k]]
             s == [ops[o].entries EXCEPT ![i] = b]
  <1> HIDE DEF i, r, base, waiting, k
  <1>9. i \in 1..n /\ Len(ops[o].entries) = n
    BY <1>1, <1>4 DEF waiting
  <1>10. b \in Entry /\ b.input = e.input /\ b.lookup = e.lookup
    BY <1>1, <1>6, <1>7, <1>9 DEF Entry
  <1>11. new = [base EXCEPT !.entries = s]
    <2>1. s = [base.entries EXCEPT ![i].result = r, ![i].overwrote = live[k]]
      <3>1. e = base.entries[i] /\ base.entries = ops[o].entries /\ e \in Entry
            /\ i \in DOMAIN base.entries
        BY <1>1, <1>8, <1>9
      <3> QED
        BY <3>1 DEF Entry
    <2> HIDE DEF s
    <2> QED
      BY <1>1, <1>8, <1>9, <2>1 DEF Call
  <1>12. /\ s \in Seq(Entry) /\ Len(s) = n /\ s[i] = b
         /\ \A j \in 1..n : j # i => s[j] = ops[o].entries[j]
    BY <1>1, <1>9, <1>10
  <1> HIDE DEF b, s, new
  <1>13. /\ new \in Call /\ new.kind = ops[o].kind /\ new.entries = s
         /\ new.read = ops[o].read /\ new.vetoed = ops[o].vetoed /\ new.phase = base.phase
    BY <1>8, <1>11, <1>12 DEF Call
  <1>14. new.phase = "generate" => \E j \in 1..Len(s) : s[j].result = NoRecord
    <2> HAVE new.phase = "generate"
    <2>1. waiting # {i}
      BY <1>8, <1>13
    <2>2. PICK j \in waiting : j # i
      BY <1>4, <2>1
    <2>3. j \in 1..n /\ Entries(o)[j].result = NoRecord
      BY <2>2 DEF waiting
    <2> QED
      BY <1>1, <1>12, <2>2, <2>3
  <1>15. \A j \in 1..Len(s) : /\ s[j].input = ops[o].entries[j].input
                              /\ s[j].lookup = ops[o].entries[j].lookup
    BY <1>10, <1>12
  <1>16. Written(o)
    <2> HIDE DEF e, n
    <2>1. new.phase \in {"generate", "after"} /\ ops[o].phase \in Early \cup {"generate"}
      BY <1>2, <1>8, <1>13
    <2> QED
      BY <1>3, <1>9, <1>12, <1>13, <1>14, <1>15, <2>1, WriteSteps
  <1>17. Places' /\ purged' \subseteq Keys /\ client' = client
    <2>1. \A j \in Keys : IF j \in {k} THEN live'[j] # NoRecord ELSE live'[j] = live[j]
      BY <1>3, <1>5 DEF StoreTypes
    <2> QED
      BY <1>3, <2>1, WroteKeeps
  <1>18. Effect(o)
    BY <1>2, <1>3, <1>5, <1>6, <1>17, StoredAre DEF Effect, StoreTypes
  <1> QED
    BY <1>16, <1>17, <1>18

LEMMA PutGivenWrites ==
    ASSUME OpsSound, StoreTypes, Places, NEW o \in Ops, PutGiven(o)
    PROVE  Written(o) /\ Effect(o) /\ Places'
  <1> DEFINE n == Len(Entries(o))
             earlier(k, i) == {j \in 1..(i - 1) : Input(o, j).id = k}
             latest(k, i) == CHOOSE j \in earlier(k, i) : \A l \in earlier(k, i) : l <= j
             at(k, i) == IF earlier(k, i) = {} THEN live[k] ELSE Input(o, latest(k, i))
             b(i) == [Entries(o)[i] EXCEPT !.result = Input(o, i),
                                           !.overwrote = at(Input(o, i).id, i)]
             put == [i \in 1..n |-> IF HasKey(o, i) THEN b(i) ELSE Entries(o)[i]]
             new == IF \A i \in 1..n : HasKey(o, i)
                    THEN [AfterWrite(o) EXCEPT !.entries = put]
                    ELSE [ops[o] EXCEPT !.entries = put, !.phase = "generate"]
             ks == {Input(o, i).id : i \in 1..n}
  <1>1. /\ ops[o] \in Call /\ Entries(o) = ops[o].entries /\ Entries(o) \in Seq(Entry)
        /\ n \in Nat /\ \A j \in 1..n : /\ Entries(o)[j] \in Entry
                                        /\ Input(o, j) = Entries(o)[j].input
    BY FieldsAre
  <1>2. ops[o].phase = "before"
    BY DEF PutGiven, Writing, Ready
  <1>3. /\ live' = [k \in Keys |-> at(k, n + 1)] /\ ops' = [ops EXCEPT ![o] = new]
        /\ Wrote(ks) /\ trash' = trash /\ nextId' = nextId
    BY DEF PutGiven, InputOf
  <1>4. ASSUME NEW k, NEW i \in 1..(n + 1), earlier(k, i) # {}
        PROVE  latest(k, i) \in 1..n /\ Input(o, latest(k, i)).id = k
    <2> DEFINE S == earlier(k, i)
               m == n
    <2>1. m \in Nat /\ S \subseteq 1..m
      BY <1>1
    <2>2. S # {}
      BY <1>4
    <2> HIDE DEF S, m
    <2>3. \E j \in S : \A l \in S : l <= j
      BY <2>1, <2>2, Greatest
    <2>4. latest(k, i) \in S
      BY <2>3 DEF S
    <2>5. latest(k, i) \in 1..m
      BY <2>1, <2>4
    <2> USE DEF S, m
    <2> HIDE DEF latest
    <2> QED
      BY <2>4, <2>5
  <1>5. ASSUME NEW i \in 1..n
        PROVE  Input(o, i) \in Fresh(o) /\ Input(o, i) \in Record /\ Input(o, i) # NoRecord
               /\ (HasKey(o, i) => Input(o, i).id \in Keys)
    <2>1. 0 \in 0..MaxKey
      BY Constants
    <2> QED
      BY <2>1, InputsAre DEF Fresh
  <1>6. ASSUME NEW k \in Keys, NEW i \in 1..(n + 1)
        PROVE  /\ at(k, i) \in Record /\ at(k, i) \in Stored \cup Fresh(o)
               /\ (earlier(k, i) # {} => at(k, i) # NoRecord)
               /\ (earlier(k, i) = {} => at(k, i) = live[k])
    <2>1. live[k] \in Record /\ live[k] \in Stored
      BY StoredAre
    <2> DEFINE j == latest(k, i)
    <2>2. earlier(k, i) # {} => j \in 1..n
      BY <1>4
    <2> HIDE DEF j, earlier, n
    <2>3. at(k, i) = IF earlier(k, i) = {} THEN live[k] ELSE Input(o, j)
      BY DEF j
    <2> HIDE DEF at
    <2> QED
      BY <1>5, <2>1, <2>2, <2>3
  <1> HIDE DEF at
  <1>7. ASSUME NEW i \in 1..n, HasKey(o, i)
        PROVE  b(i) \in Entry /\ b(i).input = Entries(o)[i].input
               /\ b(i).lookup = Entries(o)[i].lookup
    <2> DEFINE e == Entries(o)[i]
               overwrote == at(Input(o, i).id, i)
               r == Input(o, i)
    <2>1. i \in 1..(n + 1)
      BY <1>1
    <2>2. overwrote \in Record /\ e \in Entry /\ r \in Record
      BY <1>1, <1>5, <1>6, <1>7, <2>1
    <2> HIDE DEF e, r, overwrote
    <2>3. LET f == [e EXCEPT !.result = r, !.overwrote = overwrote]
          IN  f \in Entry /\ f.input = e.input /\ f.lookup = e.lookup
      BY <2>2 DEF Entry
    <2> QED
      BY <2>3 DEF e, r, overwrote
  <1> HIDE DEF b
  <1>8. /\ put \in Seq(Entry) /\ Len(put) = n
        /\ \A i \in 1..n : /\ put[i].input = Entries(o)[i].input
                           /\ put[i].lookup = Entries(o)[i].lookup
                           /\ ~HasKey(o, i) => put[i].result = Entries(o)[i].result
    BY <1>1, <1>7
  <1> HIDE DEF put
  <1>9. /\ new \in Call /\ new.kind = ops[o].kind /\ new.entries = put
        /\ new.read = ops[o].read /\ new.vetoed = ops[o].vetoed
        /\ new.phase = IF \A i \in 1..n : HasKey(o, i) THEN "after" ELSE "generate"
    <2> DEFINE a == AfterWrite(o)
               u == [a EXCEPT !.entries = put]
               v == [ops[o] EXCEPT !.entries = put, !.phase = "generate"]
    <2>1. /\ a \in Call /\ a.phase = "after" /\ a.kind = ops[o].kind
          /\ a.vetoed = ops[o].vetoed /\ a.read = ops[o].read
      BY <1>1, AfterWriteIs
    <2> HIDE DEF a
    <2>2. /\ u \in Call /\ u.phase = "after" /\ u.kind = ops[o].kind /\ u.entries = put
          /\ u.vetoed = ops[o].vetoed /\ u.read = ops[o].read
      BY <1>8, <2>1 DEF Call
    <2>3. /\ v \in Call /\ v.phase = "generate" /\ v.kind = ops[o].kind /\ v.entries = put
          /\ v.vetoed = ops[o].vetoed /\ v.read = ops[o].read
      BY <1>1, <1>8 DEF Call, Phases
    <2>4. new = IF \A i \in 1..n : HasKey(o, i) THEN u ELSE v
      BY DEF a
    <2> HIDE DEF u, v, new, n
    <2> QED
      BY <2>2, <2>3, <2>4
  <1> HIDE DEF new
  <1>10. new.phase = "generate" => \E i \in 1..Len(put) : put[i].result = NoRecord
    <2> HAVE new.phase = "generate"
    <2>1. PICK i \in 1..n : ~HasKey(o, i)
      BY <1>9
    <2>2. Entries(o)[i].result = NoRecord
      BY <1>1, <1>2, <2>1 DEF OpsSound, Sound, Early
    <2> QED
      BY <1>8, <2>1, <2>2
  <1>11. Written(o)
    <2>1. new.phase \in {"generate", "after"} /\ ops[o].phase \in Early \cup {"generate"}
      BY <1>2, <1>9 DEF Early
    <2>2. Len(put) = Len(ops[o].entries)
      BY <1>1, <1>8
    <2>3. \A i \in 1..Len(put) : /\ put[i].input = ops[o].entries[i].input
                                 /\ put[i].lookup = ops[o].entries[i].lookup
      BY <1>1, <1>8
    <2> QED
      BY <1>3, <1>8, <1>9, <1>10, <2>1, <2>2, <2>3, WriteSteps
  <1>12. n + 1 \in 1..(n + 1)
    BY <1>1
  <1>13. \A k \in Keys : live'[k] = at(k, n + 1)
    BY <1>3
  <1>14. \A k \in Keys : IF k \in ks THEN live'[k] # NoRecord ELSE live'[k] = live[k]
    <2>1. ASSUME NEW k \in Keys PROVE k \in ks <=> earlier(k, n + 1) # {}
      BY <1>1
    <2> HIDE DEF ks, earlier
    <2> QED
      BY <1>6, <1>12, <1>13, <2>1
  <1>15. Places' /\ purged' \subseteq Keys /\ client' = client
    <2> HIDE DEF ks
    <2> QED
      BY <1>3, <1>14, WroteKeeps
  <1>16. Effect(o)
    <2>1. live' \in [Keys -> Record] /\ \A k \in Keys : live'[k] \in Stored \cup Fresh(o)
      BY <1>3, <1>6, <1>12, <1>13
    <2> QED
      BY <1>3, <1>15, <2>1, StoredAre DEF Effect, StoreTypes
  <1> QED
    BY <1>11, <1>15, <1>16

-----------------------------------------------------------------------------
(* The inductive invariant.  A record is known when the call that wrote it  *)
(* came to its write without a veto and left this input; that stays so,     *)
(* whatever happens to the record.                                          *)

Known(r, calls) ==
    r.op # 0 => /\ r.op \in Ops /\ r.pos \in 1..Len(calls[r.op].entries)
                /\ ~calls[r.op].vetoed /\ calls[r.op].phase \notin Early
                /\ r.replaced = calls[r.op].entries[r.pos].input.replaced

AllKnown ==
    /\ \A k \in Keys : Known(live[k], ops) /\ Known(trash[k], ops)
    /\ \A o \in Ops : \A r \in ops[o].read : Known(r, ops)

ServiceInv == OpsSound /\ StoreTypes /\ AllKnown /\ Places

LEMMA KnownKept ==
    ASSUME Steps, NEW r, Known(r, ops)
    PROVE  Known(r, ops')
  <1> SUFFICES ASSUME r.op # 0
               PROVE  /\ r.op \in Ops /\ r.pos \in 1..Len(ops'[r.op].entries)
                      /\ ~ops'[r.op].vetoed /\ ops'[r.op].phase \notin Early
                      /\ r.replaced = ops'[r.op].entries[r.pos].input.replaced
    BY DEF Known
  <1>1. /\ r.op \in Ops /\ r.pos \in 1..Len(ops[r.op].entries)
        /\ ~ops[r.op].vetoed /\ ops[r.op].phase \notin Early
        /\ r.replaced = ops[r.op].entries[r.pos].input.replaced
    BY DEF Known
  <1>2. Keeps(ops[r.op], ops'[r.op])
    BY <1>1 DEF Steps
  <1> QED
    BY <1>1, <1>2 DEF Keeps

LEMMA FreshKnown ==
    ASSUME NEW o \in Ops, Written(o), NEW r \in Fresh(o)
    PROVE  Known(r, ops')
  BY DEF Fresh, Written, Known

(* What a step leaves in the maps and in the answers is known, when the     *)
(* records it puts there are.                                               *)
LEMMA AllKnownKept ==
    ASSUME ServiceInv, Steps,
           \A k \in Keys : Known(live'[k], ops') /\ Known(trash'[k], ops'),
           \A p \in Ops : \A r \in ops'[p].read : r \in ops[p].read \cup Stored
    PROVE  AllKnown'
  <1>1. ASSUME NEW p \in Ops, NEW r \in ops'[p].read PROVE Known(r, ops')
    <2>1. Known(r, ops)
      BY DEF ServiceInv, AllKnown, Stored
    <2> QED
      BY <2>1, KnownKept
  <1> QED
    BY <1>1 DEF AllKnown

LEMMA StepsSound ==
    ASSUME Steps PROVE OpsSound'
  BY DEF Steps, OpsSound

LEMMA StoreKept ==
    ASSUME ServiceInv, Steps, UNCHANGED store,
           \A p \in Ops : \A r \in ops'[p].read : r \in ops[p].read \cup Stored
    PROVE  ServiceInv'
  <1>1. /\ live' = live /\ trash' = trash /\ nextId' = nextId /\ purged' = purged
        /\ doubled' = doubled /\ client' = client
    BY DEF store, history
  <1>2. StoreTypes'
    BY <1>1 DEF ServiceInv, StoreTypes
  <1>3. Places'
    BY <1>1 DEF ServiceInv, Places, OneCopy, GoneForGood, NeverLost
  <1>4. \A k \in Keys : Known(live'[k], ops') /\ Known(trash'[k], ops')
    BY <1>1, KnownKept DEF ServiceInv, AllKnown
  <1>5. AllKnown'
    BY <1>4, AllKnownKept
  <1> QED
    BY <1>2, <1>3, <1>5, StepsSound DEF ServiceInv

LEMMA WritesKeep ==
    ASSUME ServiceInv, NEW o \in Ops, Written(o), Effect(o), Places'
    PROVE  ServiceInv'
  <1>1. Steps /\ ReadsOld
    BY DEF Written
  <1>2. ASSUME NEW r \in Stored \cup {NoRecord} \cup Fresh(o) PROVE Known(r, ops')
    <2>1. CASE r \in Stored
      BY <1>1, <2>1, KnownKept DEF ServiceInv, AllKnown, Stored
    <2>2. CASE r = NoRecord
      BY <2>2, RecordsAre DEF Known
    <2>3. CASE r \in Fresh(o)
      BY <2>3, FreshKnown
    <2> QED
      BY <2>1, <2>2, <2>3
  <1>3. \A k \in Keys : Known(live'[k], ops') /\ Known(trash'[k], ops')
    BY <1>2 DEF Effect
  <1>4. \A p \in Ops : \A r \in ops'[p].read : r \in ops[p].read \cup Stored
    BY <1>1 DEF ReadsOld
  <1>5. AllKnown'
    BY <1>1, <1>3, <1>4, AllKnownKept
  <1>6. StoreTypes'
    BY DEF Effect, ServiceInv, StoreTypes
  <1> QED
    BY <1>1, <1>5, <1>6, StepsSound DEF ServiceInv

LEMMA ServiceInit ==
    Init => ServiceInv
  <1> HAVE Init
  <1>1. /\ client \in Clients /\ nextId = FirstId /\ purged = {} /\ doubled = {}
        /\ live = [k \in Keys |-> IF k \in client.seeded THEN Seed(k) ELSE NoRecord]
        /\ trash = [k \in Keys |-> NoRecord] /\ ops = [o \in Ops |-> NoOp]
    BY DEF Init
  <1>2. client.seeded \subseteq Keys /\ FirstId \in 0..MaxKey
    BY <1>1, Constants
  <1>3. /\ NoOp \in Call /\ NoOp.entries = <<>> /\ NoOp.phase = "free" /\ NoOp.read = {}
        /\ NoOp.kind = "none" /\ NoOp.vetoed = FALSE
    <2>1. <<>> \in Seq(Entry) /\ <<>> \in Seq(EventNames)
      OBVIOUS
    <2> QED
      BY <2>1 DEF NoOp, Call, EventNames, Scopes, Phases, Early
  <1> DEFINE es == NoOp.entries
  <1>4. es \in Seq(Entry) /\ Len(es) = 0
    BY <1>3, EmptySeq
  <1>5. ASSUME NEW o \in Ops PROVE Sound(o, NoOp)
    <2> HIDE DEF es
    <2>1. "none" \notin Trashing \cup {"update"}
      BY DEF Trashing
    <2>2. Fits(o, NoOp.kind, es)
      BY <1>3, <1>4, <2>1 DEF Fits
    <2>3. \A i \in 1..Len(es) : es[i].result = NoRecord
      BY <1>4
    <2> QED
      BY <1>3, <2>2, <2>3 DEF Sound, es
  <1>6. OpsSound
    BY <1>1, <1>3, <1>5 DEF OpsSound
  <1>7. StoreTypes
    BY <1>1, <1>2, RecordsAre DEF StoreTypes
  <1>8. AllKnown
    <2>1. \A k \in Keys : Known(Seed(k), ops) /\ Known(NoRecord, ops)
      BY RecordsAre DEF Known
    <2> QED
      BY <1>1, <1>3, <2>1 DEF AllKnown
  <1>9. Places
    BY <1>1, <1>2, RecordsAre DEF Places, OneCopy, GoneForGood, NeverLost
  <1> QED
    BY <1>6, <1>7, <1>8, <1>9 DEF ServiceInv

LEMMA ServiceNext ==
    ServiceInv /\ [Next]_vars => ServiceInv'
  <1> SUFFICES ASSUME ServiceInv, [Next]_vars PROVE ServiceInv'
    OBVIOUS
  <1>0. OpsSound /\ StoreTypes /\ Places /\ client \in Clients
    BY DEF ServiceInv, StoreTypes
  <1>1. ASSUME Steps, ReadsOld, UNCHANGED store PROVE ServiceInv'
    BY <1>1, StoreKept DEF ReadsOld
  <1>2. ASSUME NEW o \in Ops, CallService(o) PROVE ServiceInv'
    BY <1>0, <1>1, <1>2, CallSteps
  <1>3. ASSUME NEW o \in Ops, Load(o) PROVE ServiceInv'
    <2>1. UNCHANGED store
      BY <1>3 DEF Load
    <2> QED
      BY <1>0, <1>1, <1>3, <2>1, LoadSteps
  <1>4. ASSUME NEW o \in Ops, AnnounceBefore(o) PROVE ServiceInv'
    <2>1. UNCHANGED store
      BY <1>4 DEF AnnounceBefore
    <2> QED
      BY <1>0, <1>1, <1>4, <2>1, AnnounceBeforeSteps
  <1>5. ASSUME NEW o \in Ops, Veto(o) \/ Refuse(o) \/ AnnounceAfter(o) \/ Reject(o) \/ Finish(o)
        PROVE  ServiceInv'
    <2>1. UNCHANGED store
      BY <1>5 DEF Veto, Refuse, AnnounceAfter, Reject, Finish
    <2> QED
      BY <1>0, <1>1, <1>5, <2>1, QuietSteps
  <1>6. ASSUME NEW o \in Ops, Read(o) PROVE ServiceInv'
    <2>1. UNCHANGED store
      BY <1>6 DEF Read
    <2> QED
      BY <1>0, <1>6, <2>1, ReadSteps, StoreKept
  <1>7. ASSUME NEW o \in Ops, Write(o) PROVE ServiceInv'
    <2>1. Written(o) /\ Effect(o) /\ Places'
      BY <1>0, <1>7, PutGivenWrites, PutGeneratedWrites, UpdateWrites, MoveToTrashWrites,
         RestoreWrites, DeleteFromTrashWrites, DeleteWrites, ClearTrashWrites DEF Write
    <2> QED
      BY <2>1, WritesKeep
  <1>8. CASE UNCHANGED vars
    <2>1. /\ live' = live /\ trash' = trash /\ nextId' = nextId /\ purged' = purged
          /\ doubled' = doubled /\ client' = client /\ ops' = ops
      BY <1>8 DEF vars, history
    <2> QED
      BY <2>1 DEF ServiceInv, OpsSound, StoreTypes, AllKnown, Stored, Places, OneCopy,
                  GoneForGood, NeverLost
  <1> QED
    BY <1>2, <1>3, <1>4, <1>5, <1>6, <1>7, <1>8 DEF Next, Progress

LEMMA ServiceInvAlways == Spec => []ServiceInv
  BY ServiceInit, ServiceNext, PTL DEF Spec

-----------------------------------------------------------------------------
(* Results. *)

(* Whatever calls interleave, a record is live or in the trash, never both, *)
(* unless its key was written while a removed record had it (the maps data  *)
(* and trash of mock-memory-repository.ts).                                 *)
THEOREM OneCopyAlways == Spec => []OneCopy
  <1>1. ServiceInv => OneCopy
    BY DEF ServiceInv, Places
  <1> QED
    BY <1>1, ServiceInvAlways, PTL

(* What was deleted permanently stays so until it is written anew           *)
(* (permanentlyDelete, permanentlyDeleteFromTrash and emptyTrash of the     *)
(* service over the repository).                                            *)
THEOREM GoneForGoodAlways == Spec => []GoneForGood
  <1>1. ServiceInv => GoneForGood
    BY DEF ServiceInv, Places
  <1> QED
    BY <1>1, ServiceInvAlways, PTL

(* A record that was there at the start and not deleted permanently is live *)
(* or in the trash, whatever removals and restorations interleave (remove   *)
(* and restore).                                                            *)
THEOREM NeverLostAlways == Spec => []NeverLost
  <1>1. ServiceInv => NeverLost
    BY DEF ServiceInv, Places
  <1> QED
    BY <1>1, ServiceInvAlways, PTL

(* Everything stored, and everything a query answers, is what subscribers   *)
(* left of the input of a mutation they did not veto (the before-events of  *)
(* create, update, upsert and bulkUpsert).                                  *)
THEOREM StoredAsAnnouncedAlways == Spec => []StoredAsAnnounced
  <1>1. ASSUME ServiceInv PROVE StoredAsAnnounced
    <2>1. \A r \in Stored \cup UNION {ops[o].read : o \in Ops} : Known(r, ops)
      BY <1>1 DEF ServiceInv, AllKnown, Stored
    <2> QED
      BY <2>1 DEF StoredAsAnnounced, Known, Early, Input, Entries
  <1> QED
    BY <1>1, ServiceInvAlways, PTL

-----------------------------------------------------------------------------
(* What each step does to the call that takes it, field by field. *)

(* A call that another one joins is not alone any more; nothing else of it  *)
(* changes.                                                                 *)
Aside(old, new) ==
    /\ new.kind = old.kind /\ new.silent = old.silent /\ new.phase = old.phase
    /\ new.entries = old.entries /\ new.todo = old.todo
    /\ new.alone => old.alone /\ ~Busy(old)

Started(o, kind, entries, phase) ==
    /\ ops[o].phase = "free" /\ ops'[o].kind = kind
    /\ ops'[o].entries = entries /\ ops'[o].phase = phase
    /\ ops'[o].alone => \A p \in Ops : ~Busy(ops[p])
    /\ \A p \in Ops \ {o} : Aside(ops[p], ops'[p])

LEMMA LaunchIs ==
    ASSUME OpsSound, NEW scope \in Scopes, NEW o \in Ops, NEW kind \in EventNames,
           NEW entries \in Seq(Entry), NEW phase \in {"load", "before"}, client \in Clients,
           LaunchIn(scope, o, kind, entries, phase)
    PROVE  Started(o, kind, entries, phase)
  <1> DEFINE idle == Active = {}
             Op(silent) == [NoOp EXCEPT !.kind = kind, !.silent = silent, !.scope = scope,
                                        !.entries = entries, !.phase = phase, !.alone = idle]
             After(silent) == [p \in Ops |->
                       IF p = o THEN IF phase = "load" THEN Op(silent) ELSE Before(Op(silent))
                       ELSE IF p \in Active THEN [ops[p] EXCEPT !.alone = FALSE]
                       ELSE ops[p]]
  <1>1. PICK silent \in BOOLEAN : ops' = After(silent)
    <2>1. \E silent \in IF kind \in Unsilenced THEN {FALSE} ELSE client.silent :
            ops' = After(silent)
      BY DEF LaunchIn
    <2> HIDE DEF After
    <2> QED
      BY <2>1, Constants
  <1> DEFINE op == Op(silent)
  <1>2. /\ op.kind = kind /\ op.entries = entries /\ op.phase = phase /\ op.alone = idle
    <2> HIDE DEF idle
    <2> QED
      BY DEF NoOp
  <1>3. /\ Before(op).kind = op.kind /\ Before(op).entries = op.entries
        /\ Before(op).phase = "before" /\ Before(op).alone = op.alone
    <2>1. idle \in BOOLEAN
      OBVIOUS
    <2> HIDE DEF idle
    <2>2. NoOp \in [kind : {"none"}, silent : BOOLEAN, scope : Scopes, entries : {<<>>},
                    phase : {"free"}, todo : {<<>>}, read : {{}}, vetoed : {FALSE},
                    alone : BOOLEAN]
      BY DEF NoOp, Scopes
    <2>3. <<>> \in Seq(EventNames)
      OBVIOUS
    <2>4. op \in Call
      BY <2>1, <2>2, <2>3 DEF Call, Phases, Early
    <2> HIDE DEF op
    <2> QED
      BY <2>4 DEF Before, Call
  <1>4. ops' = [p \in Ops |-> IF p = o THEN IF phase = "load" THEN op ELSE Before(op)
                              ELSE IF p \in Active THEN [ops[p] EXCEPT !.alone = FALSE]
                              ELSE ops[p]]
    BY <1>1
  <1> HIDE DEF op
  <1>5. /\ ops'[o].kind = kind /\ ops'[o].entries = entries /\ ops'[o].phase = phase
        /\ ops'[o].alone = idle
    BY <1>2, <1>3, <1>4
  <1>6. \A p \in Ops : p \in Active <=> Busy(ops[p])
    BY DEF Active, Busy
  <1>7. idle => \A p \in Ops : ~Busy(ops[p])
    BY <1>6
  <1>8. ASSUME NEW p \in Ops \ {o} PROVE Aside(ops[p], ops'[p])
    <2>1. ops[p] \in Call
      BY DEF OpsSound
    <2>2. ops'[p] = IF p \in Active THEN [ops[p] EXCEPT !.alone = FALSE] ELSE ops[p]
      BY <1>4
    <2> QED
      BY <1>6, <2>1, <2>2 DEF Aside, Call
  <1>9. ops[o].phase = "free"
    BY DEF LaunchIn
  <1> QED
    BY <1>5, <1>7, <1>8, <1>9 DEF Started

(* Every other step is that of one call, which stays what it is. *)
Alike(old, new) ==
    /\ new.kind = old.kind /\ new.silent = old.silent /\ new.alone = old.alone
    /\ Len(new.entries) = Len(old.entries)
    /\ \A i \in 1..Len(old.entries) : new.entries[i].lookup = old.entries[i].lookup

Goes(o) == Alike(ops[o], ops'[o]) /\ \A p \in Ops \ {o} : ops'[p] = ops[p]

(* What subscribers left of e. *)
HeardAs(e, f) ==
    /\ f.existing = e.existing /\ f.result = e.result
    /\ f.overwrote = e.overwrote /\ f.told = e.told
    /\ f.key \in {e.key, KeyOf(e)}
    /\ \/ f.input.id = e.input.id /\ (Plain(f) <=> Plain(e))
       \/ f.input.id \in client.given /\ ~Plain(f)

(* Each entry learns what is live at the key it looks up. *)
Fetched(o) ==
    /\ Goes(o) /\ ops[o].phase = "load" /\ ops'[o].phase \in {"before", "failed"}
    /\ \A i \in 1..Len(ops[o].entries) :
         LET e == ops[o].entries[i]
         IN  ops'[o].entries[i] = [e EXCEPT !.existing = IF e.lookup = NoKey THEN NoRecord
                                                         ELSE live[e.lookup]]

LEMMA LoadIs ==
    ASSUME OpsSound, StoreTypes, NEW o \in Ops, Load(o)
    PROVE  Fetched(o)
  <1> DEFINE s == Loaded(o)
             op == [ops[o] EXCEPT !.entries = s]
             found(e) == IF e.lookup = NoKey THEN NoRecord ELSE live[e.lookup]
             loaded(e) == [e EXCEPT !.existing = found(e)]
             n == Len(ops[o].entries)
  <1>1. /\ ops[o] \in Call /\ Entries(o) = ops[o].entries /\ n \in Nat
        /\ \A i \in 1..n : ops[o].entries[i] \in Entry
    BY FieldsAre
  <1>2. Len(s) = n /\ \A i \in 1..n : s[i] = loaded(ops[o].entries[i])
    BY <1>1 DEF Loaded
  <1>3. ASSUME NEW e \in Entry PROVE loaded(e).lookup = e.lookup
    BY DEF Entry
  <1> HIDE DEF s, loaded
  <1>4. /\ op.kind = ops[o].kind /\ op.entries = s /\ op.silent = ops[o].silent
        /\ op.alone = ops[o].alone
        /\ op = [op EXCEPT !.phase = ops[o].phase]
    BY <1>1 DEF Call
  <1> DEFINE fail == [op EXCEPT !.phase = "failed"]
             new == IF op.kind = "duplicate" /\ op.entries[1].existing = NoRecord
                    THEN fail ELSE Before(op)
  <1>5. ops[o].phase = "load" /\ ops' = [ops EXCEPT ![o] = new]
    BY DEF Load, s
  <1>6. /\ fail.kind = ops[o].kind /\ fail.entries = s /\ fail.silent = ops[o].silent
        /\ fail.alone = ops[o].alone /\ fail.phase = "failed"
    BY <1>1 DEF Call
  <1>7. /\ Before(op).kind = ops[o].kind /\ Before(op).entries = s
        /\ Before(op).silent = ops[o].silent
        /\ Before(op).alone = ops[o].alone /\ Before(op).phase = "before"
    BY <1>1 DEF Call, Before
  <1> HIDE DEF op, fail
  <1>8. /\ new.kind = ops[o].kind /\ new.entries = s /\ new.silent = ops[o].silent
        /\ new.alone = ops[o].alone /\ new.phase \in {"before", "failed"}
    BY <1>6, <1>7
  <1> HIDE DEF new
  <1>9. ops'[o] = new /\ \A p \in Ops \ {o} : ops'[p] = ops[p]
    BY <1>5 DEF OpsSound
  <1>10. Goes(o)
    BY <1>1, <1>2, <1>3, <1>8, <1>9 DEF Goes, Alike
  <1>11. \A i \in 1..n : ops'[o].entries[i] = loaded(ops[o].entries[i])
    BY <1>2, <1>8, <1>9
  <1> QED
    BY <1>5, <1>8, <1>9, <1>10, <1>11 DEF loaded, Fetched

Asked(o) ==
    /\ Goes(o) /\ ops[o].phase = "before" /\ ops'[o].phase = "before"
    /\ \A i \in 1..Len(ops[o].entries) : HeardAs(ops[o].entries[i], ops'[o].entries[i])

LEMMA AnnounceBeforeIs ==
    ASSUME OpsSound, client \in Clients, NEW o \in Ops, AnnounceBefore(o)
    PROVE  Asked(o)
  <1> DEFINE group == Group(ops[o], Head(ops[o].todo))
             Left(i, S, R, k) == IF i \in group THEN Heard(Entries(o)[i], i, S, R, k)
                                 ELSE Entries(o)[i]
  <1>1. PICK S \in SUBSET (IF "replace" \in client.subscribers THEN group ELSE {}) :
          \E R \in SUBSET (IF "rekey" \in client.subscribers THEN S ELSE {}),
             k \in client.given :
            /\ Cardinality(R) <= 1
            /\ ops' = [ops EXCEPT
                 ![o].todo = Tail(@),
                 ![o].entries = [i \in 1..Len(Entries(o)) |-> Left(i, S, R, k)]]
    BY Zenon DEF AnnounceBefore
  <1>2. PICK R \in SUBSET (IF "rekey" \in client.subscribers THEN S ELSE {}),
             k \in client.given :
          ops' = [ops EXCEPT
                    ![o].todo = Tail(@),
                    ![o].entries = [i \in 1..Len(Entries(o)) |-> Left(i, S, R, k)]]
    BY <1>1, Zenon
  <1> DEFINE s == [i \in 1..Len(Entries(o)) |-> Left(i, S, R, k)]
             new == [ops[o] EXCEPT !.todo = Tail(@), !.entries = s]
             n == Len(ops[o].entries)
  <1>3. /\ ops[o] \in Call /\ Entries(o) = ops[o].entries /\ n \in Nat
        /\ \A i \in 1..n : ops[o].entries[i] \in Entry
        /\ ops[o].phase = "before"
    BY FieldsAre DEF AnnounceBefore
  <1>4. ASSUME NEW e \in Entry, NEW i
        PROVE  LET f == Heard(e, i, S, R, k)
               IN  HeardAs(e, f) /\ f.lookup = e.lookup
    <2> DEFINE f == Heard(e, i, S, R, k)
               replaced == CASE i \in R -> "key"
                             [] i \in S \ R /\ e.input.replaced = "no" -> "content"
                             [] OTHER -> e.input.replaced
               id == IF i \in R THEN k ELSE e.input.id
               input == [e.input EXCEPT !.replaced = replaced, !.id = id]
    <2>1. k \in client.given /\ e.input \in Record
      BY DEF Entry
    <2>2. f = [e EXCEPT !.key = KeyOf(e), !.input = input]
      BY DEF Heard, Filled, Entry, Record
    <2>3. input.id = id /\ input.replaced = replaced
      <3> HIDE DEF replaced, id
      <3> QED
        BY <2>1 DEF Record
    <2>4. \/ id = e.input.id /\ (replaced = "key" <=> e.input.replaced = "key")
          \/ id \in client.given /\ replaced = "key"
      <3>1. CASE i \in R
        BY <2>1, <3>1
      <3>2. CASE i \notin R
        BY <3>2
      <3> QED
        BY <3>1, <3>2
    <2> HIDE DEF f, replaced, id, input
    <2>5. /\ f.existing = e.existing /\ f.result = e.result /\ f.lookup = e.lookup
          /\ f.overwrote = e.overwrote /\ f.told = e.told /\ f.key = KeyOf(e)
          /\ f.input = input
      BY <2>2 DEF Entry
    <2>6. HeardAs(e, f) /\ f.lookup = e.lookup
      BY <2>3, <2>4, <2>5 DEF HeardAs, Plain
    <2> QED
      BY <2>6 DEF f
  <1>5. ops' = [ops EXCEPT ![o] = new]
    BY <1>2, <1>3
  <1>6. Len(s) = n /\ \A i \in 1..n : s[i] = Left(i, S, R, k)
    BY <1>3
  <1> HIDE DEF s
  <1>7. /\ new.kind = ops[o].kind /\ new.entries = s /\ new.silent = ops[o].silent
        /\ new.alone = ops[o].alone /\ new.phase = "before"
    BY <1>3 DEF Call
  <1> HIDE DEF new
  <1>8. ops'[o] = new /\ \A p \in Ops \ {o} : ops'[p] = ops[p]
    BY <1>5 DEF OpsSound
  <1>9. \A i \in 1..n : HeardAs(ops[o].entries[i], s[i]) /\ s[i].lookup = ops[o].entries[i].lookup
    <2> SUFFICES ASSUME NEW i \in 1..n
                 PROVE  /\ HeardAs(ops[o].entries[i], s[i])
                        /\ s[i].lookup = ops[o].entries[i].lookup
      OBVIOUS
    <2>1. CASE i \in group
      BY <1>3, <1>4, <1>6, <2>1
    <2>2. CASE i \notin group
      <3>1. s[i] = ops[o].entries[i]
        BY <1>3, <1>6, <2>2
      <3> QED
        BY <3>1 DEF HeardAs
    <2> QED
      BY <2>1, <2>2
  <1>10. Goes(o)
    BY <1>6, <1>7, <1>8, <1>9 DEF Goes, Alike
  <1> QED
    BY <1>3, <1>7, <1>8, <1>9, <1>10 DEF Asked

(* The call ends. *)
Ended(o) ==
    /\ Goes(o) /\ ops'[o].entries = ops[o].entries
    /\ \/ ops'[o].phase = "failed"
       \/ ops'[o].phase = "done" /\ ops[o].phase = "after" /\ ops[o].todo = <<>>

LEMMA QuietIs ==
    ASSUME OpsSound, NEW o \in Ops, Veto(o) \/ Refuse(o) \/ Reject(o) \/ Finish(o)
    PROVE  Ended(o)
  <1>1. ops[o] \in Call
    BY DEF OpsSound
  <1>2. ASSUME NEW phase, NEW vetoed,
               ops' = [ops EXCEPT ![o].phase = phase, ![o].vetoed = vetoed]
               \/ ops' = [ops EXCEPT ![o].phase = phase]
        PROVE  Goes(o) /\ ops'[o].entries = ops[o].entries /\ ops'[o].phase = phase
    <2> DEFINE new == ops'[o]
    <2>1. /\ new.kind = ops[o].kind /\ new.silent = ops[o].silent /\ new.alone = ops[o].alone
          /\ new.entries = ops[o].entries /\ new.phase = phase
          /\ \A p \in Ops \ {o} : ops'[p] = ops[p]
      BY <1>1, <1>2 DEF OpsSound, Call
    <2> HIDE DEF new
    <2>2. Alike(ops[o], new)
      BY <2>1 DEF Alike
    <2> QED
      BY <2>1, <2>2 DEF Goes, new
  <1>3. CASE Veto(o)
    BY <1>2, <1>3 DEF Veto, Ended
  <1>4. CASE Refuse(o)
    BY <1>2, <1>4 DEF Refuse, Ended
  <1>5. CASE Reject(o)
    BY <1>2, <1>5 DEF Reject, Ended
  <1>6. CASE Finish(o)
    <2>1. ops' = [ops EXCEPT ![o].phase = "done"] /\ ops[o].phase = "after" /\ ops[o].todo = <<>>
      BY <1>6 DEF Finish
    <2> QED
      BY <1>2, <2>1 DEF Ended
  <1> QED
    BY <1>3, <1>4, <1>5, <1>6

(* The next after-event tells the keys of its entries. *)
Tells(o) ==
    /\ Goes(o) /\ ops[o].phase = "after" /\ ops'[o].phase = "after"
    /\ ops[o].todo # <<>> /\ ops'[o].todo = Tail(ops[o].todo)
    /\ \A i \in 1..Len(ops[o].entries) :
         LET e == ops[o].entries[i]
         IN  ops'[o].entries[i] = IF i \in Group(ops[o], Head(ops[o].todo))
                                  THEN [e EXCEPT !.told = KeyOf(e)] ELSE e

LEMMA AnnounceAfterIs ==
    ASSUME OpsSound, NEW o \in Ops, AnnounceAfter(o)
    PROVE  Tells(o)
  <1> DEFINE group == Group(ops[o], Head(ops[o].todo))
             told(e) == [e EXCEPT !.told = KeyOf(e)]
             n == Len(ops[o].entries)
             s == [i \in 1..n |-> IF i \in group THEN told(ops[o].entries[i])
                                  ELSE ops[o].entries[i]]
             new == [ops[o] EXCEPT !.todo = Tail(@), !.entries = s]
  <1>1. /\ ops[o] \in Call /\ Entries(o) = ops[o].entries /\ n \in Nat
        /\ \A i \in 1..n : ops[o].entries[i] \in Entry
    BY FieldsAre
  <1>2. ops' = [ops EXCEPT ![o] = new] /\ ops[o].phase = "after" /\ ops[o].todo # <<>>
    BY <1>1 DEF AnnounceAfter
  <1>3. ASSUME NEW e \in Entry PROVE told(e).lookup = e.lookup
    BY DEF Entry
  <1> HIDE DEF told, group
  <1>4. /\ Len(s) = n
        /\ \A i \in 1..n : s[i] = IF i \in group THEN told(ops[o].entries[i])
                                  ELSE ops[o].entries[i]
    BY <1>1
  <1> HIDE DEF s
  <1>5. /\ new.kind = ops[o].kind /\ new.entries = s /\ new.silent = ops[o].silent
        /\ new.alone = ops[o].alone /\ new.phase = "after" /\ new.todo = Tail(ops[o].todo)
    BY <1>1, <1>2 DEF Call
  <1> HIDE DEF new
  <1>6. ops'[o] = new /\ \A p \in Ops \ {o} : ops'[p] = ops[p]
    BY <1>2 DEF OpsSound
  <1>7. Goes(o)
    BY <1>1, <1>3, <1>4, <1>5, <1>6 DEF Goes, Alike
  <1>8. \A i \in 1..n : ops'[o].entries[i] = IF i \in group THEN told(ops[o].entries[i])
                                             ELSE ops[o].entries[i]
    BY <1>4, <1>5, <1>6
  <1> QED
    BY <1>2, <1>5, <1>6, <1>7, <1>8 DEF told, group, Tells

(* What a write leaves alone, and which events it leaves to dispatch. *)
Kept(e, f) ==
    /\ f.input = e.input /\ f.existing = e.existing /\ f.key = e.key /\ f.told = e.told

AfterEvents(old) == IF old.kind = "duplicate" THEN Reverse(Events(old)) ELSE Events(old)

LEMMA AfterWriteHas ==
    ASSUME NEW o \in Ops, ops[o] \in Call
    PROVE  /\ AfterWrite(o).silent = ops[o].silent /\ AfterWrite(o).alone = ops[o].alone
           /\ AfterWrite(o).todo = AfterEvents(ops[o])
  <1> DEFINE events == Events(ops[o])
  <1>1. AfterWrite(o) = [ops[o] EXCEPT !.phase = "after",
                              !.todo = IF ops[o].kind = "duplicate" THEN Reverse(events)
                                       ELSE events]
    BY DEF AfterWrite
  <1> HIDE DEF events
  <1> QED
    BY <1>1 DEF AfterEvents, Call, events

Answered(o) ==
    /\ Goes(o) /\ ops[o].kind \in Queries /\ ops'[o].entries = ops[o].entries
    /\ ops[o].phase = "before" /\ ops'[o].phase = "after"

LEMMA ReadIs ==
    ASSUME OpsSound, NEW o \in Ops, Read(o)
    PROVE  Answered(o)
  <1>1. PICK found \in Found(ops[o]) :
          ops' = [ops EXCEPT ![o] = [AfterWrite(o) EXCEPT !.read = found]]
    BY DEF Read
  <1> DEFINE a == AfterWrite(o)
             new == [a EXCEPT !.read = found]
  <1>2. /\ a \in Call /\ a.phase = "after" /\ a.kind = ops[o].kind
        /\ a.entries = ops[o].entries /\ a.silent = ops[o].silent /\ a.alone = ops[o].alone
    BY FieldsAre, AfterWriteIs, AfterWriteHas
  <1> HIDE DEF a
  <1>3. /\ new.phase = "after" /\ new.kind = ops[o].kind /\ new.entries = ops[o].entries
        /\ new.silent = ops[o].silent /\ new.alone = ops[o].alone
    BY <1>2 DEF Call
  <1>4. ops'[o] = new /\ \A p \in Ops \ {o} : ops'[p] = ops[p]
    BY <1>1 DEF OpsSound, a
  <1> HIDE DEF new
  <1>5. Goes(o)
    BY <1>3, <1>4 DEF Goes, Alike
  <1> QED
    BY <1>3, <1>4, <1>5 DEF Read, Ready, Answered

(* A write that ends one call on one record. *)
WithResult(op, r) == [op EXCEPT !.entries[1].result = r]
Replacing(op, r, old) == [op EXCEPT !.entries[1].result = r, !.entries[1].overwrote = old]

LEMMA OneResult ==
    ASSUME OpsSound, NEW o \in Ops, NEW r \in Record, NEW overwrote \in Record, NEW new,
           Len(Entries(o)) = 1,
           \/ new = WithResult(AfterWrite(o), r) /\ overwrote = Entries(o)[1].overwrote
           \/ new = Replacing(AfterWrite(o), r, overwrote),
           ops' = [ops EXCEPT ![o] = new]
    PROVE  /\ Goes(o) /\ ops'[o].phase = "after" /\ ops'[o].todo = AfterEvents(ops[o])
           /\ ops'[o].entries[1].result = r /\ ops'[o].entries[1].overwrote = overwrote
           /\ Kept(ops[o].entries[1], ops'[o].entries[1])
  <1>1. /\ ops[o] \in Call /\ ops[o].entries \in Seq(Entry) /\ Len(ops[o].entries) = 1
        /\ ops[o].entries[1] \in Entry /\ Entries(o) = ops[o].entries
    BY FieldsAre
  <1> DEFINE a == AfterWrite(o)
             e == ops[o].entries[1]
             b == [e EXCEPT !.result = r, !.overwrote = overwrote]
             s == [ops[o].entries EXCEPT ![1] = b]
  <1>2. /\ a \in Call /\ a.phase = "after" /\ a.kind = ops[o].kind
        /\ a.entries = ops[o].entries /\ a.silent = ops[o].silent /\ a.alone = ops[o].alone
        /\ a.todo = AfterEvents(ops[o])
    BY <1>1, AfterWriteIs, AfterWriteHas
  <1> HIDE DEF a
  <1>3. /\ Kept(e, b) /\ b.lookup = e.lookup /\ b.result = r /\ b.overwrote = overwrote
        /\ b \in Entry
    BY <1>1 DEF Entry, Kept
  <1>4. new = [a EXCEPT !.entries = s]
    <2>1. CASE new = [a EXCEPT !.entries[1].result = r] /\ overwrote = e.overwrote
      <3>1. b = [e EXCEPT !.result = r]
        BY <1>1, <2>1 DEF Entry
      <3> HIDE DEF b
      <3>2. s = [a.entries EXCEPT ![1] = [a.entries[1] EXCEPT !.result = r]]
        BY <1>2, <3>1
      <3> QED
        BY <2>1, <3>2
    <2>2. CASE new = [a EXCEPT !.entries[1].result = r, !.entries[1].overwrote = overwrote]
      <3>1. s = [a.entries EXCEPT ![1] = [a.entries[1] EXCEPT !.result = r,
                                                               !.overwrote = overwrote]]
        BY <1>2
      <3>2. a.entries \in Seq(Entry) /\ 1 \in DOMAIN a.entries /\ a.entries[1] \in Entry
        BY <1>1, <1>2
      <3>3. s = [a.entries EXCEPT ![1].result = r, ![1].overwrote = overwrote]
        BY <3>1, <3>2 DEF Entry
      <3> HIDE DEF s
      <3> QED
        BY <1>2, <2>2, <3>2, <3>3 DEF Call
    <2> QED
      BY <1>1, <2>1, <2>2 DEF a, WithResult, Replacing
  <1> HIDE DEF b
  <1>5. /\ Len(s) = 1 /\ s[1] = b
    BY <1>1, <1>3
  <1> HIDE DEF s
  <1>6. /\ new.kind = ops[o].kind /\ new.entries = s /\ new.silent = ops[o].silent
        /\ new.alone = ops[o].alone /\ new.phase = "after" /\ new.todo = AfterEvents(ops[o])
    BY <1>2, <1>4 DEF Call
  <1>7. ops'[o] = new /\ \A p \in Ops \ {o} : ops'[p] = ops[p]
    BY DEF OpsSound
  <1> HIDE DEF e
  <1>8. Goes(o)
    BY <1>1, <1>3, <1>5, <1>6, <1>7 DEF Goes, Alike, e
  <1> QED
    BY <1>3, <1>5, <1>6, <1>7, <1>8 DEF e

(* A move to or from the trash, or a deletion, returns the record it finds. *)
Moved(o) ==
    /\ Goes(o) /\ ops[o].kind \in Trashing /\ ops[o].phase = "before"
    /\ ops'[o].phase = "after" /\ ops'[o].todo = AfterEvents(ops[o])
    /\ Len(ops[o].entries) = 1 /\ ops[o].entries[1].input.id \in Keys
    /\ Kept(ops[o].entries[1], ops'[o].entries[1])
    /\ ops'[o].entries[1].result # NoRecord
    /\ ops'[o].entries[1].result \in {live[ops[o].entries[1].input.id],
                                      trash[ops[o].entries[1].input.id]}

(* Records are moved or deleted, none is written. *)
Shuffled ==
    /\ nextId' = nextId /\ client' = client
    /\ \A k \in Keys : /\ live'[k] \in {NoRecord, live[k], trash[k]}
                       /\ trash'[k] \in {NoRecord, live[k], trash[k]}

LEMMA MovedIs ==
    ASSUME OpsSound, StoreTypes, NEW o \in Ops,
           MoveToTrash(o) \/ Restore(o) \/ DeleteFromTrash(o) \/ Delete(o)
    PROVE  Moved(o) /\ Shuffled
  <1> DEFINE k == Target(o)
             e == ops[o].entries[1]
  <1>1. Writing(o, Trashing)
    BY DEF MoveToTrash, Restore, DeleteFromTrash, Delete, Writing, Trashing
  <1>2. k \in Keys /\ Len(Entries(o)) = 1 /\ ops[o].phase = "before" /\ ops[o].kind \in Trashing
    BY <1>1, OneTarget DEF Writing, Ready
  <1>3. Entries(o) = ops[o].entries /\ k = e.input.id /\ e \in Entry
    BY <1>2, FieldsAre DEF Target
  <1>4. live[k] \in Record /\ trash[k] \in Record
    BY <1>2, StoredAre
  <1>5. ASSUME NEW r \in Record, r # NoRecord, r \in {live[k], trash[k]}, Returned(o, r)
        PROVE  Moved(o)
    <2> DEFINE new == WithResult(AfterWrite(o), r)
               w == Entries(o)[1].overwrote
    <2>1. ops' = [ops EXCEPT ![o] = new]
      BY <1>5 DEF Returned, WithResult
    <2>2. w \in Record
      BY <1>3 DEF Entry
    <2>3. /\ Goes(o) /\ ops'[o].phase = "after" /\ ops'[o].todo = AfterEvents(ops[o])
          /\ ops'[o].entries[1].result = r
          /\ Kept(ops[o].entries[1], ops'[o].entries[1])
      <3> HIDE DEF e, k
      <3> QED
        BY <1>2, <2>1, <2>2, OneResult
    <2> QED
      BY <1>2, <1>3, <1>5, <2>3 DEF Moved
  <1>6. ASSUME MoveToTrash(o) PROVE Moved(o) /\ Shuffled
    <2>1. live[k] # NoRecord /\ Returned(o, live[k])
      BY <1>6 DEF MoveToTrash, Writing, Throws, Creating
    <2>2. /\ live' = [live EXCEPT ![k] = NoRecord] /\ trash' = [trash EXCEPT ![k] = live[k]]
          /\ nextId' = nextId /\ client' = client
      BY <1>6 DEF MoveToTrash, history
    <2>3. Shuffled
      <3> HIDE DEF k
      <3> QED
        BY <1>2, <2>2 DEF Shuffled, StoreTypes
    <2> QED
      BY <1>4, <1>5, <2>1, <2>3
  <1>7. ASSUME Restore(o) PROVE Moved(o) /\ Shuffled
    <2>1. trash[k] # NoRecord /\ Returned(o, trash[k])
      BY <1>7 DEF Restore, Writing, Throws, Creating
    <2>2. /\ live' = [live EXCEPT ![k] = trash[k]] /\ trash' = [trash EXCEPT ![k] = NoRecord]
          /\ nextId' = nextId /\ client' = client
      BY <1>7 DEF Restore, history
    <2>3. Shuffled
      <3> HIDE DEF k
      <3> QED
        BY <1>2, <2>2 DEF Shuffled, StoreTypes
    <2> QED
      BY <1>4, <1>5, <2>1, <2>3
  <1>8. ASSUME DeleteFromTrash(o) PROVE Moved(o) /\ Shuffled
    <2>1. trash[k] # NoRecord /\ Returned(o, trash[k])
      BY <1>8 DEF DeleteFromTrash, Writing, Throws, Creating
    <2>2. /\ live' = live /\ trash' = [trash EXCEPT ![k] = NoRecord]
          /\ nextId' = nextId /\ client' = client
      BY <1>8 DEF DeleteFromTrash
    <2>3. Shuffled
      <3> HIDE DEF k
      <3> QED
        BY <1>2, <2>2 DEF Shuffled, StoreTypes
    <2> QED
      BY <1>4, <1>5, <2>1, <2>3
  <1>9. ASSUME Delete(o) PROVE Moved(o) /\ Shuffled
    <2>1. ~(live[k] = NoRecord /\ trash[k] = NoRecord) /\ nextId' = nextId /\ client' = client
      BY <1>9 DEF Delete, Writing, Throws, Creating
    <2>2. CASE live[k] # NoRecord
      <3>1. live' = [live EXCEPT ![k] = NoRecord] /\ trash' = trash /\ Returned(o, live[k])
        BY <1>9, <2>2 DEF Delete
      <3>2. Shuffled
        <4> HIDE DEF k
        <4> QED
          BY <1>2, <2>1, <3>1 DEF Shuffled, StoreTypes
      <3> QED
        BY <1>4, <1>5, <2>2, <3>1, <3>2
    <2>3. CASE live[k] = NoRecord
      <3>1. live' = live /\ trash' = [trash EXCEPT ![k] = NoRecord] /\ Returned(o, trash[k])
        BY <1>9, <2>3 DEF Delete
      <3>2. Shuffled
        <4> HIDE DEF k
        <4> QED
          BY <1>2, <2>1, <3>1 DEF Shuffled, StoreTypes
      <3> QED
        BY <1>4, <1>5, <2>1, <2>3, <3>1, <3>2
    <2> QED
      BY <2>2, <2>3
  <1> QED
    BY <1>6, <1>7, <1>8, <1>9

Emptied(o) ==
    /\ Goes(o) /\ ops[o].kind = "emptyTrash" /\ ops'[o].entries = ops[o].entries
    /\ ops[o].phase = "before" /\ ops'[o].phase = "after"

LEMMA ClearTrashIs ==
    ASSUME OpsSound, StoreTypes, NEW o \in Ops, ClearTrash(o)
    PROVE  Emptied(o) /\ Shuffled
  <1>1. /\ AfterWrite(o).phase = "after" /\ AfterWrite(o).kind = ops[o].kind
        /\ AfterWrite(o).entries = ops[o].entries /\ AfterWrite(o).silent = ops[o].silent
        /\ AfterWrite(o).alone = ops[o].alone
    BY FieldsAre, AfterWriteIs, AfterWriteHas
  <1>2. ops'[o] = AfterWrite(o) /\ \A p \in Ops \ {o} : ops'[p] = ops[p]
    BY DEF ClearTrash, OpsSound
  <1>3. Goes(o)
    BY <1>1, <1>2 DEF Goes, Alike
  <1>4. PICK S \in SUBSET {k \in Keys : trash[k] # NoRecord} :
          trash' = [k \in Keys |-> IF k \in S THEN NoRecord ELSE trash[k]]
    BY DEF ClearTrash
  <1>5. Shuffled
    BY <1>4 DEF Shuffled, ClearTrash
  <1> QED
    BY <1>1, <1>2, <1>3, <1>5 DEF ClearTrash, Writing, Ready, Emptied

Updated(o) ==
    LET e == ops[o].entries[1]
        f == ops'[o].entries[1]
    IN  /\ Goes(o) /\ ops[o].kind = "update" /\ ops[o].phase = "before"
        /\ ops'[o].phase = "after" /\ ops'[o].todo = AfterEvents(ops[o])
        /\ Len(ops[o].entries) = 1 /\ e.lookup \in Keys /\ live[e.lookup] # NoRecord
        /\ Kept(e, f) /\ f.overwrote = live[e.lookup]
        /\ f.result = IF e.input.id # NoKey THEN e.input
                      ELSE [e.input EXCEPT !.id = live[e.lookup].id]
        /\ live' = [live EXCEPT ![e.lookup] = f.result]
        /\ trash' = trash /\ nextId' = nextId /\ client' = client

LEMMA UpdatedIs ==
    ASSUME OpsSound, StoreTypes, NEW o \in Ops, UpdateLive(o)
    PROVE  Updated(o)
  <1> DEFINE e == ops[o].entries[1]
             k == Entries(o)[1].lookup
             r == IF HasKey(o, 1) THEN Input(o, 1) ELSE [Input(o, 1) EXCEPT !.id = live[k].id]
  <1>1. /\ Writing(o, {"update"}) /\ ops[o].kind = "update" /\ ops[o].phase = "before"
        /\ live[k] # NoRecord
    BY DEF UpdateLive, Writing, Ready, Throws, Creating
  <1>2. k \in Keys /\ Len(Entries(o)) = 1
    BY <1>1, OneTarget DEF Trashing
  <1>3. /\ Entries(o) = ops[o].entries /\ e \in Entry /\ Input(o, 1) = e.input /\ k = e.lookup
        /\ e.input \in Record
    BY <1>2, FieldsAre DEF Entry
  <1>4. live[k] \in Record /\ live[k].id \in 0..MaxKey
    BY <1>2, StoredAre DEF Record
  <1>5. r = IF e.input.id # NoKey THEN e.input ELSE [e.input EXCEPT !.id = live[k].id]
    BY <1>3 DEF HasKey
  <1>6. r \in Record
    <2> DEFINE id == live[k].id
    <2>1. id \in 0..MaxKey
      BY <1>4
    <2> HIDE DEF id
    <2>2. [e.input EXCEPT !.id = id] \in Record
      BY <1>3, <2>1 DEF Record
    <2> QED
      BY <1>3, <1>5, <2>2 DEF id
  <1> DEFINE new == Replacing(AfterWrite(o), r, live[k])
  <1>7. ops' = [ops EXCEPT ![o] = new]
    BY DEF UpdateLive, InputOf, Replacing
  <1>8. /\ live' = [live EXCEPT ![k] = r] /\ trash' = trash /\ nextId' = nextId
        /\ client' = client
    BY DEF UpdateLive, InputOf, history
  <1>9. /\ Goes(o) /\ ops'[o].phase = "after" /\ ops'[o].todo = AfterEvents(ops[o])
        /\ ops'[o].entries[1].result = r /\ ops'[o].entries[1].overwrote = live[k]
        /\ Kept(ops[o].entries[1], ops'[o].entries[1])
    <2> HIDE DEF r, k, e
    <2> QED
      BY <1>2, <1>4, <1>6, <1>7, OneResult
  <1> QED
    BY <1>1, <1>2, <1>3, <1>5, <1>8, <1>9 DEF Updated

(* The i-th entry of call o, which waited for a key, gets the next one.     *)
Generated(o, i) ==
    LET n == Len(ops[o].entries)
        r == ops'[o].entries[i].result
        k == nextId + 1
    IN  /\ Goes(o) /\ ops[o].phase = "generate" /\ ops'[o].phase \in {"generate", "after"}
        /\ ops'[o].phase = "after" =>
             /\ ops'[o].todo = AfterEvents(ops[o])
             /\ \A j \in 1..n : j # i => ops[o].entries[j].result # NoRecord
        /\ i \in 1..n /\ ops[o].entries[i].result = NoRecord
        /\ \A j \in 1..n : j # i => ops'[o].entries[j] = ops[o].entries[j]
        /\ Kept(ops[o].entries[i], ops'[o].entries[i])
        /\ ops'[o].entries[i].overwrote = live[k]
        /\ r \in Record /\ r # NoRecord /\ r.op = o /\ r.pos = i /\ r.id = k
        /\ k \in Keys /\ nextId' = k /\ live' = [live EXCEPT ![k] = r]
        /\ trash' = trash /\ client' = client

LEMMA GeneratedIs ==
    ASSUME OpsSound, StoreTypes, NEW o \in Ops, PutGenerated(o)
    PROVE  \E i \in 1..Len(ops[o].entries) : Generated(o, i)
  <1> DEFINE n == Len(Entries(o))
             waiting == {i \in 1..n : Entries(o)[i].result = NoRecord}
             i == CHOOSE i \in waiting : \A j \in waiting : i <= j
             k == nextId + 1
             r == [Input(o, i) EXCEPT !.id = k]
             base == IF waiting = {i} THEN AfterWrite(o) ELSE ops[o]
             new == [base EXCEPT !.entries[i].result = r, !.entries[i].overwrote = live[k]]
  <1>1. /\ ops[o] \in Call /\ Entries(o) = ops[o].entries /\ Entries(o) \in Seq(Entry)
        /\ n \in Nat /\ \A j \in 1..n : Entries(o)[j] \in Entry
    BY FieldsAre
  <1>2. ops[o].phase = "generate" /\ k \in Keys /\ k \in 0..MaxKey
    BY Constants DEF PutGenerated
  <1>3. /\ nextId' = k /\ live' = [live EXCEPT ![k] = r] /\ trash' = trash /\ client' = client
        /\ ops' = [ops EXCEPT ![o] = new]
    BY DEF PutGenerated, InputOf, Wrote
  <1>4. i \in waiting
    <2>1. waiting # {}
      BY <1>1, <1>2 DEF OpsSound, Sound
    <2>2. waiting \subseteq 1..n
      OBVIOUS
    <2>3. n \in Nat
      BY <1>1
    <2> HIDE DEF waiting, n
    <2>4. \E j \in waiting : \A l \in waiting : j <= l
      BY <2>1, <2>2, <2>3, Least
    <2> QED
      BY <2>4
  <1>5. r \in Fresh(o) /\ r # NoRecord
    BY <1>2, <1>4, InputsAre
  <1>6. r \in Record /\ r.op = o
    BY <1>5 DEF Fresh
  <1> DEFINE e == ops[o].entries[i]
  <1>7. e \in Entry /\ e.input \in Record /\ Input(o, i) = e.input /\ e.input.pos = i
        /\ e.result = NoRecord
    BY <1>1, <1>4 DEF Entry, Input, OpsSound, Sound, Fits
  <1>8. r.pos = i /\ r.id = k
    <2> HIDE DEF i, k
    <2> QED
      BY <1>7 DEF Record
  <1>9. live[k] \in Record
    BY <1>2, StoredAre
  <1>10. /\ base \in Call /\ base.kind = ops[o].kind /\ base.entries = ops[o].entries
         /\ base.silent = ops[o].silent /\ base.alone = ops[o].alone
         /\ base.phase = IF waiting = {i} THEN "after" ELSE "generate"
         /\ waiting = {i} => base.todo = AfterEvents(ops[o])
    BY <1>1, <1>2, AfterWriteIs, AfterWriteHas
  <1> DEFINE b == [e EXCEPT !.result = r, !.overwrote = live[k]]
             s == [ops[o].entries EXCEPT ![i] = b]
  <1> HIDE DEF i, r, base, waiting, k
  <1>11. i \in 1..n /\ Len(ops[o].entries) = n
    BY <1>1, <1>4 DEF waiting
  <1>12. /\ b \in Entry /\ Kept(e, b) /\ b.lookup = e.lookup
         /\ b.result = r /\ b.overwrote = live[k]
    BY <1>6, <1>7, <1>9 DEF Entry, Kept
  <1>13. new = [base EXCEPT !.entries = s]
    <2>1. s = [base.entries EXCEPT ![i].result = r, ![i].overwrote = live[k]]
      <3>1. e = base.entries[i] /\ base.entries = ops[o].entries /\ e \in Entry
            /\ i \in DOMAIN base.entries
        BY <1>1, <1>7, <1>10, <1>11
      <3> QED
        BY <3>1 DEF Entry
    <2> HIDE DEF s
    <2> QED
      BY <1>1, <1>10, <1>11, <2>1 DEF Call
  <1>14. /\ Len(s) = n /\ s[i] = b /\ \A j \in 1..n : j # i => s[j] = ops[o].entries[j]
    BY <1>1, <1>11, <1>12
  <1> HIDE DEF b, s, new, e
  <1>15. /\ new.kind = ops[o].kind /\ new.entries = s /\ new.silent = ops[o].silent
         /\ new.alone = ops[o].alone /\ new.phase = base.phase /\ new.todo = base.todo
    BY <1>10, <1>13 DEF Call
  <1>16. ops'[o] = new /\ \A p \in Ops \ {o} : ops'[p] = ops[p]
    BY <1>3 DEF OpsSound
  <1>17. \A j \in 1..n : s[j].lookup = ops[o].entries[j].lookup
    BY <1>12, <1>14 DEF e
  <1>18. Goes(o)
    BY <1>11, <1>14, <1>15, <1>16, <1>17 DEF Goes, Alike
  <1>19. waiting = {i} => \A j \in 1..n : j # i => ops[o].entries[j].result # NoRecord
    BY <1>1 DEF waiting
  <1>20. /\ ops'[o].phase \in {"generate", "after"}
         /\ ops'[o].phase = "after" =>
              /\ ops'[o].todo = AfterEvents(ops[o])
              /\ \A j \in 1..n : j # i => ops[o].entries[j].result # NoRecord
    BY <1>10, <1>15, <1>16, <1>19
  <1>21. \A j \in 1..n : j # i => ops'[o].entries[j] = ops[o].entries[j]
    BY <1>14, <1>15, <1>16
  <1>22. ops'[o].entries[i] = b
    BY <1>14, <1>15, <1>16
  <1>23. /\ Kept(ops[o].entries[i], ops'[o].entries[i])
         /\ ops'[o].entries[i].result = r /\ ops'[o].entries[i].overwrote = live[k]
    BY <1>12, <1>22 DEF e
  <1>24. ops[o].entries[i].result = NoRecord
    BY <1>7 DEF e
  <1> HIDE DEF n
  <1>25. Generated(o, i)
    BY <1>2, <1>3, <1>5, <1>6, <1>8, <1>11, <1>18, <1>20, <1>21, <1>23, <1>24
       DEF Generated, k
  <1> QED
    BY <1>11, <1>25

(* Call o puts every input that has a key: of those with the same key the   *)
(* last one stays.                                                          *)
Put(o) ==
    LET n == Len(ops[o].entries)
        e(i) == ops[o].entries[i]
        f(i) == ops'[o].entries[i]
    IN  /\ Goes(o) /\ ops[o].kind \in Creating \cup Upserting /\ ops[o].phase = "before"
        /\ IF \A i \in 1..n : e(i).input.id # NoKey
           THEN ops'[o].phase = "after" /\ ops'[o].todo = AfterEvents(ops[o])
           ELSE ops'[o].phase = "generate"
        /\ \A i \in 1..n : Kept(e(i), f(i))
        /\ \A i \in 1..n :
             IF e(i).input.id = NoKey THEN f(i) = e(i)
             ELSE /\ e(i).input.id \in Keys /\ f(i).result = e(i).input
                  /\ (\A j \in 1..(i - 1) : e(j).input.id # e(i).input.id) =>
                        f(i).overwrote = live[e(i).input.id]
        /\ \A k \in Keys :
             \/ live'[k] = live[k] /\ \A i \in 1..n : e(i).input.id # k
             \/ \E j \in 1..n : /\ live'[k] = e(j).input /\ e(j).input.id = k
                                /\ \A i \in 1..n : e(i).input.id = k => i <= j
        /\ ops[o].kind \in Creating /\ e(1).input.id # NoKey => live[e(1).input.id] = NoRecord
        /\ trash' = trash /\ nextId' = nextId /\ client' = client

LEMMA PutIs ==
    ASSUME OpsSound, StoreTypes, NEW o \in Ops, PutGiven(o)
    PROVE  Put(o)
  <1> DEFINE n == Len(Entries(o))
             earlier(k, i) == {j \in 1..(i - 1) : Input(o, j).id = k}
             latest(k, i) == CHOOSE j \in earlier(k, i) : \A l \in earlier(k, i) : l <= j
             at(k, i) == IF earlier(k, i) = {} THEN live[k] ELSE Input(o, latest(k, i))
             b(i) == [Entries(o)[i] EXCEPT !.result = Input(o, i),
                                           !.overwrote = at(Input(o, i).id, i)]
             put == [i \in 1..n |-> IF HasKey(o, i) THEN b(i) ELSE Entries(o)[i]]
             new == IF \A i \in 1..n : HasKey(o, i)
                    THEN [AfterWrite(o) EXCEPT !.entries = put]
                    ELSE [ops[o] EXCEPT !.entries = put, !.phase = "generate"]
  <1>1. /\ ops[o] \in Call /\ Entries(o) = ops[o].entries /\ Entries(o) \in Seq(Entry)
        /\ n \in Nat /\ \A j \in 1..n : /\ Entries(o)[j] \in Entry
                                        /\ Input(o, j) = Entries(o)[j].input
    BY FieldsAre
  <1>a. ops[o].phase = "before" /\ ops[o].kind \in Creating \cup Upserting /\ ~Throws(o)
    BY DEF PutGiven, Writing, Ready
  <1>b. ASSUME ops[o].kind \in Creating, Target(o) # NoKey PROVE live[Target(o)] = NoRecord
    BY <1>a, <1>b DEF Throws, Creating
  <1>2. /\ ops[o].phase = "before" /\ ops[o].kind \in Creating \cup Upserting
        /\ (ops[o].kind \in Creating /\ Target(o) # NoKey => live[Target(o)] = NoRecord)
    BY <1>a, <1>b
  <1>3. /\ live' = [k \in Keys |-> at(k, n + 1)] /\ ops' = [ops EXCEPT ![o] = new]
        /\ trash' = trash /\ nextId' = nextId /\ client' = client
    BY DEF PutGiven, InputOf, Wrote
  <1>4. ASSUME NEW k, NEW i \in 1..(n + 1), earlier(k, i) # {}
        PROVE  /\ latest(k, i) \in 1..n /\ Input(o, latest(k, i)).id = k
               /\ \A j \in earlier(k, i) : j <= latest(k, i)
    <2> DEFINE S == earlier(k, i)
               m == n
    <2>1. m \in Nat /\ S \subseteq 1..m
      BY <1>1
    <2>2. S # {}
      BY <1>4
    <2> HIDE DEF S, m
    <2>3. \E j \in S : \A l \in S : l <= j
      BY <2>1, <2>2, Greatest
    <2>4. latest(k, i) \in S /\ \A j \in S : j <= latest(k, i)
      BY <2>3 DEF S
    <2>5. latest(k, i) \in 1..m
      BY <2>1, <2>4
    <2> USE DEF S, m
    <2> HIDE DEF latest
    <2> QED
      BY <2>4, <2>5
  <1>5. ASSUME NEW i \in 1..n PROVE HasKey(o, i) => Input(o, i).id \in Keys
    <2>1. 0 \in 0..MaxKey
      BY Constants
    <2> QED
      BY <2>1, InputsAre
  <1>6. ASSUME NEW k \in Keys
        PROVE  \/ live'[k] = live[k] /\ \A i \in 1..n : Input(o, i).id # k
               \/ \E j \in 1..n : /\ live'[k] = Input(o, j) /\ Input(o, j).id = k
                                  /\ \A i \in 1..n : Input(o, i).id = k => i <= j
    <2>1. live'[k] = at(k, n + 1) /\ n + 1 \in 1..(n + 1)
      <3>1. n + 1 \in 1..(n + 1)
        BY <1>1
      <3> HIDE DEF at, n
      <3>2. live'[k] = at(k, n + 1)
        BY <1>3
      <3> QED
        BY <3>1, <3>2
    <2>2. \A i \in 1..n : Input(o, i).id = k => i \in earlier(k, n + 1)
      BY <1>1
    <2>3. CASE earlier(k, n + 1) = {}
      BY <2>1, <2>2, <2>3
    <2>4. CASE earlier(k, n + 1) # {}
      <3> DEFINE j == latest(k, n + 1)
      <3>1. j \in 1..n /\ Input(o, j).id = k /\ \A i \in earlier(k, n + 1) : i <= j
        BY <1>4, <2>1, <2>4
      <3>2. live'[k] = Input(o, j)
        BY <2>1, <2>4
      <3> HIDE DEF j, earlier
      <3> QED
        BY <2>2, <3>1, <3>2
    <2> QED
      BY <2>3, <2>4
  <1>7. ASSUME NEW i \in 1..n, \A j \in 1..(i - 1) : Input(o, j).id # Input(o, i).id
        PROVE  at(Input(o, i).id, i) = live[Input(o, i).id]
    BY <1>7
  <1> HIDE DEF at
  <1>8. ASSUME NEW i \in 1..n
        PROVE  /\ Kept(Entries(o)[i], b(i)) /\ b(i).lookup = Entries(o)[i].lookup
               /\ b(i).result = Input(o, i) /\ b(i).overwrote = at(Input(o, i).id, i)
    <2> DEFINE x == Entries(o)[i]
               overwrote == at(Input(o, i).id, i)
               r == Input(o, i)
    <2>1. x \in Entry
      BY <1>1
    <2> HIDE DEF x, r, overwrote
    <2>2. LET f == [x EXCEPT !.result = r, !.overwrote = overwrote]
          IN  /\ Kept(x, f) /\ f.lookup = x.lookup
              /\ f.result = r /\ f.overwrote = overwrote
      BY <2>1 DEF Entry, Kept
    <2> QED
      BY <2>2 DEF x, r, overwrote
  <1> HIDE DEF b
  <1>9. /\ Len(put) = n
        /\ \A i \in 1..n : put[i] = IF HasKey(o, i) THEN b(i) ELSE Entries(o)[i]
    BY <1>1
  <1> HIDE DEF put
  <1>10. /\ new.kind = ops[o].kind /\ new.entries = put
         /\ new.silent = ops[o].silent /\ new.alone = ops[o].alone
         /\ IF \A i \in 1..n : HasKey(o, i)
            THEN new.phase = "after" /\ new.todo = AfterEvents(ops[o])
            ELSE new.phase = "generate"
    <2> DEFINE a == AfterWrite(o)
               u == [a EXCEPT !.entries = put]
               v == [ops[o] EXCEPT !.entries = put, !.phase = "generate"]
    <2>1. /\ a \in Call /\ a.phase = "after" /\ a.kind = ops[o].kind
          /\ a.silent = ops[o].silent /\ a.alone = ops[o].alone
          /\ a.todo = AfterEvents(ops[o])
      BY <1>1, AfterWriteIs, AfterWriteHas
    <2> HIDE DEF a
    <2>2. /\ u.phase = "after" /\ u.kind = ops[o].kind /\ u.entries = put
          /\ u.silent = ops[o].silent /\ u.alone = ops[o].alone
          /\ u.todo = AfterEvents(ops[o])
      BY <2>1 DEF Call
    <2>3. /\ v.phase = "generate" /\ v.kind = ops[o].kind /\ v.entries = put
          /\ v.silent = ops[o].silent /\ v.alone = ops[o].alone
      BY <1>1 DEF Call
    <2>4. new = IF \A i \in 1..n : HasKey(o, i) THEN u ELSE v
      BY DEF a
    <2> HIDE DEF u, v, new, n
    <2> QED
      BY <2>2, <2>3, <2>4
  <1> HIDE DEF new
  <1>11. ops'[o] = new /\ \A p \in Ops \ {o} : ops'[p] = ops[p]
    BY <1>3 DEF OpsSound
  <1>12. \A i \in 1..n : Kept(Entries(o)[i], put[i]) /\ put[i].lookup = Entries(o)[i].lookup
    BY <1>8, <1>9 DEF Kept
  <1>13. Goes(o)
    BY <1>1, <1>9, <1>10, <1>11, <1>12 DEF Goes, Alike
  <1>14. ASSUME NEW i \in 1..n
         PROVE  IF Input(o, i).id = NoKey THEN put[i] = Entries(o)[i]
                ELSE /\ Input(o, i).id \in Keys /\ put[i].result = Input(o, i)
                     /\ (\A j \in 1..(i - 1) : Input(o, j).id # Input(o, i).id) =>
                            put[i].overwrote = live[Input(o, i).id]
    BY <1>5, <1>7, <1>8, <1>9 DEF HasKey
  <1> DEFINE e(i) == ops[o].entries[i]
  <1>15. n = Len(ops[o].entries) /\ \A i \in 1..n : Input(o, i) = e(i).input
    BY <1>1
  <1>16. ASSUME NEW i \in 1..n
         PROVE  IF e(i).input.id = NoKey THEN put[i] = e(i)
                ELSE /\ e(i).input.id \in Keys /\ put[i].result = e(i).input
                     /\ (\A j \in 1..(i - 1) : e(j).input.id # e(i).input.id) =>
                            put[i].overwrote = live[e(i).input.id]
    <2>1. \A j \in 1..(i - 1) : Input(o, j) = e(j).input
      BY <1>1, <1>15
    <2>2. Input(o, i) = e(i).input
      BY <1>15
    <2> QED
      BY <1>1, <1>14, <2>1, <2>2
  <1>17. ASSUME NEW k \in Keys
         PROVE  \/ live'[k] = live[k] /\ \A i \in 1..n : e(i).input.id # k
                \/ \E j \in 1..n : /\ live'[k] = e(j).input /\ e(j).input.id = k
                                   /\ \A i \in 1..n : e(i).input.id = k => i <= j
    BY <1>6, <1>15
  <1>18. IF \A i \in 1..n : e(i).input.id # NoKey
         THEN ops'[o].phase = "after" /\ ops'[o].todo = AfterEvents(ops[o])
         ELSE ops'[o].phase = "generate"
    BY <1>10, <1>11, <1>15 DEF HasKey
  <1>19. ops[o].kind \in Creating /\ e(1).input.id # NoKey => live[e(1).input.id] = NoRecord
    BY <1>1, <1>2 DEF Target, Input
  <1>20. \A i \in 1..n : put[i] = ops'[o].entries[i]
    BY <1>10, <1>11
  <1>21. \A i \in 1..n : Kept(e(i), ops'[o].entries[i])
    BY <1>1, <1>12, <1>20
  <1> HIDE DEF n
  <1> QED
    BY <1>2, <1>3, <1>13, <1>15, <1>16, <1>17, <1>18, <1>19, <1>20, <1>21 DEF Put

(* A call begins. *)
Launched(o) ==
    \E kind \in EventNames, phase \in {"load", "before"}, entries \in Seq(Entry) :
       Started(o, kind, entries, phase) /\ Begun(kind, entries, phase)

(* What each step of call o does. *)
Silent(o) ==
    /\ Launched(o) \/ Fetched(o) \/ Asked(o) \/ Ended(o) \/ Tells(o) \/ Answered(o)
    /\ live' = live /\ trash' = trash /\ nextId' = nextId /\ client' = client

Writes(o) ==
    \/ Moved(o) /\ Shuffled
    \/ Emptied(o) /\ Shuffled
    \/ Updated(o) \/ Put(o)
    \/ \E i \in 1..Len(ops[o].entries) : Generated(o, i)

LEMMA StepIs ==
    ASSUME OpsSound, StoreTypes, NEW o \in Ops, CallService(o) \/ Progress(o)
    PROVE  Silent(o) \/ Writes(o)
  <1>1. client \in Clients
    BY DEF StoreTypes
  <1>2. CASE CallService(o)
    <2>1. PICK scope \in Scopes, kind \in EventNames, phase \in {"load", "before"},
               entries \in Seq(Entry) :
             /\ LaunchIn(scope, o, kind, entries, phase)
             /\ Fits(o, kind, entries) /\ Begun(kind, entries, phase)
      BY <1>1, <1>2, CallIs
    <2>2. Started(o, kind, entries, phase)
      BY <1>1, <2>1, LaunchIs
    <2>3. live' = live /\ trash' = trash /\ nextId' = nextId /\ client' = client
      BY <2>1 DEF LaunchIn, store, history
    <2>4. Launched(o)
      BY <2>1, <2>2 DEF Launched
    <2> QED
      BY <2>3, <2>4 DEF Silent
  <1>3. ASSUME Load(o) \/ AnnounceBefore(o) \/ Veto(o) \/ Refuse(o) \/ Reject(o) \/ Finish(o)
               \/ AnnounceAfter(o) \/ Read(o)
        PROVE  live' = live /\ trash' = trash /\ nextId' = nextId /\ client' = client
    <2>1. UNCHANGED store
      BY <1>3 DEF Load, AnnounceBefore, Veto, Refuse, Reject, Finish, AnnounceAfter, Read
    <2> QED
      BY <2>1 DEF store, history
  <1>4. CASE Load(o)
    BY <1>3, <1>4, LoadIs DEF Silent
  <1>5. CASE AnnounceBefore(o)
    BY <1>1, <1>3, <1>5, AnnounceBeforeIs DEF Silent
  <1>6. CASE Veto(o) \/ Refuse(o) \/ Reject(o) \/ Finish(o)
    BY <1>3, <1>6, QuietIs DEF Silent
  <1>7. CASE AnnounceAfter(o)
    BY <1>3, <1>7, AnnounceAfterIs DEF Silent
  <1>8. CASE Read(o)
    BY <1>3, <1>8, ReadIs DEF Silent
  <1>9. CASE MoveToTrash(o) \/ Restore(o) \/ DeleteFromTrash(o) \/ Delete(o)
    BY <1>9, MovedIs DEF Writes
  <1>10. CASE ClearTrash(o)
    BY <1>10, ClearTrashIs DEF Writes
  <1>11. CASE UpdateLive(o)
    BY <1>11, UpdatedIs DEF Writes
  <1>12. CASE PutGiven(o)
    BY <1>12, PutIs DEF Writes
  <1>13. CASE PutGenerated(o)
    BY <1>13, GeneratedIs DEF Writes
  <1> QED
    BY <1>2, <1>4, <1>5, <1>6, <1>7, <1>8, <1>9, <1>10, <1>11, <1>12, <1>13
       DEF Progress, Write

-----------------------------------------------------------------------------
(* The shape of the entries of call o, whatever its subscribers do. *)

EntryForm(o, kind, e) ==
    /\ kind \in Upserting \cup Trashing /\ Plain(e) => e.input.id = e.lookup
    /\ kind = "update" /\ Plain(e) => e.input.id = NoKey
    /\ ~Plain(e) => e.input.id # NoKey
    /\ kind = "create" => e.lookup = NoKey
    /\ e.lookup = NoKey => e.existing = NoRecord
    /\ kind \in Queries => e.result = NoRecord
    /\ kind \in Upserting /\ e.result # NoRecord =>
         e.result.op = o /\ e.result.pos = e.input.pos

Form(o, op) ==
    /\ op.phase = "free" => Len(op.entries) = 0
    /\ op.kind \notin Upserting \cup Queries => Len(op.entries) <= 1
    /\ op.kind = "emptyTrash" => Len(op.entries) = 0
    /\ \A i \in 1..Len(op.entries) : EntryForm(o, op.kind, op.entries[i])
    /\ op.phase = "generate" =>
         /\ op.kind \in Creating \cup Upserting
         /\ \A i \in 1..Len(op.entries) :
              op.entries[i].input.id # NoKey => op.entries[i].result # NoRecord

FormInv == \A o \in Ops : Form(o, ops[o])

(* A step that keeps the entries, or changes none of what Form tells.       *)
LEMMA FormKept ==
    ASSUME NEW o, NEW old, NEW new, Form(o, old), Alike(old, new),
           new.phase \notin {"free", "generate"},
           \A i \in 1..Len(old.entries) :
              EntryForm(o, old.kind, old.entries[i]) => EntryForm(o, old.kind, new.entries[i])
    PROVE  Form(o, new)
  BY DEF Form, Alike

LEMMA FormNext ==
    ASSUME OpsSound, StoreTypes, FormInv, NEW o \in Ops, Silent(o) \/ Writes(o)
    PROVE  FormInv'
  <1> DEFINE e(i) == ops[o].entries[i]
             f(i) == ops'[o].entries[i]
             n == Len(ops[o].entries)
             kind == ops[o].kind
  <1>1. /\ n \in Nat /\ \A i \in 1..n : e(i) \in Entry /\ e(i).input \in Record
        /\ \A i \in 1..n : e(i).input.op = o /\ e(i).input.pos = i
    BY FieldsAre DEF OpsSound, Sound, Fits, Entry
  <1>2. Form(o, ops[o]) /\ client.given \subseteq Keys /\ NoKey \notin Keys
    BY Constants DEF FormInv, StoreTypes
  <1>3. ASSUME Goes(o), Form(o, ops'[o]) PROVE FormInv'
    BY <1>3 DEF FormInv, Goes
  <1>4. ASSUME Goes(o), ops'[o].phase \notin {"free", "generate"},
               \A i \in 1..n : EntryForm(o, kind, e(i)) => EntryForm(o, kind, f(i))
        PROVE  FormInv'
    <2>1. Alike(ops[o], ops'[o])
      BY <1>4 DEF Goes
    <2>2. Form(o, ops'[o])
      BY <1>2, <1>4, <2>1, FormKept
    <2> QED
      BY <1>3, <1>4, <2>2
  <1>5. ASSUME Goes(o) PROVE \A i \in 1..n : f(i).lookup = e(i).lookup
    BY <1>5 DEF Goes, Alike
  <1>6. CASE Launched(o)
    <2>1. PICK k \in EventNames, phase \in {"load", "before"}, entries \in Seq(Entry) :
             Started(o, k, entries, phase) /\ Begun(k, entries, phase)
      BY <1>6 DEF Launched
    <2>2. \A i \in 1..Len(entries) : EntryForm(o, k, entries[i])
      BY <2>1, RecordsAre DEF Begun, EntryForm, Plain
    <2>3. Form(o, ops'[o])
      BY <2>1, <2>2 DEF Form, Started, Begun
    <2>4. ASSUME NEW p \in Ops \ {o} PROVE Form(p, ops'[p])
      <3>1. Form(p, ops[p]) /\ Aside(ops[p], ops'[p])
        BY <2>1 DEF FormInv, Started
      <3> QED
        BY <3>1 DEF Form, Aside
    <2> QED
      BY <2>3, <2>4 DEF FormInv
  <1>7. CASE Fetched(o)
    <2>1. ASSUME NEW i \in 1..n, EntryForm(o, kind, e(i)) PROVE EntryForm(o, kind, f(i))
      <3>1. f(i) = [e(i) EXCEPT !.existing = IF e(i).lookup = NoKey THEN NoRecord
                                             ELSE live[e(i).lookup]]
        BY <1>7 DEF Fetched
      <3> DEFINE x == e(i)
      <3>2. x \in Entry
        BY <1>1
      <3> HIDE DEF x
      <3> QED
        BY <2>1, <3>1, <3>2 DEF Entry, EntryForm, Plain, x
    <2> QED
      BY <1>4, <1>7, <2>1 DEF Fetched
  <1>8. CASE Asked(o)
    <2>1. ASSUME NEW i \in 1..n, EntryForm(o, kind, e(i)) PROVE EntryForm(o, kind, f(i))
      <3>1. HeardAs(e(i), f(i)) /\ f(i).lookup = e(i).lookup
        BY <1>5, <1>8 DEF Asked
      <3>2. e(i).result = NoRecord
        BY <1>8 DEF Asked, OpsSound, Sound, Early
      <3> QED
        BY <1>2, <2>1, <3>1, <3>2 DEF HeardAs, EntryForm, Plain
    <2> QED
      BY <1>4, <1>8, <2>1 DEF Asked
  <1>9. CASE Ended(o)
    BY <1>4, <1>9 DEF Ended
  <1>10. CASE Tells(o)
    <2>1. ASSUME NEW i \in 1..n, EntryForm(o, kind, e(i)) PROVE EntryForm(o, kind, f(i))
      <3> DEFINE x == e(i)
      <3>1. f(i) = x \/ f(i) = [x EXCEPT !.told = KeyOf(x)]
        BY <1>10 DEF Tells
      <3>2. x \in Entry
        BY <1>1
      <3> HIDE DEF x
      <3> QED
        BY <2>1, <3>1, <3>2 DEF Entry, EntryForm, Plain, x
    <2> QED
      BY <1>4, <1>10, <2>1 DEF Tells
  <1>11. CASE Answered(o)
    BY <1>4, <1>11 DEF Answered
  <1>12. ASSUME NEW i \in 1..n, Kept(e(i), f(i)), f(i).lookup = e(i).lookup,
                EntryForm(o, kind, e(i)),
                \/ kind \notin Upserting \cup Queries
                \/ f(i).result = e(i).input /\ kind \notin Queries
                \/ f(i).result = e(i).result
                \/ f(i).result.op = o /\ f(i).result.pos = i /\ kind \notin Queries
         PROVE  EntryForm(o, kind, f(i))
    BY <1>1, <1>12 DEF Kept, EntryForm, Plain
  <1>13. CASE Moved(o)
    <2>1. kind \notin Upserting \cup Queries
      BY <1>13 DEF Moved, Trashing, Upserting, Queries
    <2>2. n = 1 /\ Goes(o) /\ ops'[o].phase = "after" /\ Kept(e(1), f(1))
      BY <1>13 DEF Moved
    <2> QED
      BY <1>4, <1>5, <1>12, <2>1, <2>2
  <1>14. CASE Emptied(o)
    BY <1>4, <1>14 DEF Emptied
  <1>15. CASE Updated(o)
    <2>1. kind \notin Upserting \cup Queries
      BY <1>15 DEF Updated, Upserting, Queries
    <2>2. n = 1 /\ Goes(o) /\ ops'[o].phase = "after" /\ Kept(e(1), f(1))
      BY <1>15 DEF Updated
    <2> QED
      BY <1>4, <1>5, <1>12, <2>1, <2>2
  <1>16. CASE Put(o)
    <2>1. /\ Goes(o) /\ kind \in Creating \cup Upserting
          /\ ops'[o].phase \in {"after", "generate"}
          /\ \A i \in 1..n : /\ Kept(e(i), f(i))
                             /\ IF e(i).input.id = NoKey THEN f(i) = e(i)
                                ELSE f(i).result = e(i).input
      BY <1>16 DEF Put
    <2>2. kind \notin Queries
      BY <2>1 DEF Creating, Upserting, Queries
    <2>3. \A i \in 1..n : EntryForm(o, kind, f(i))
      BY <1>2, <1>5, <1>12, <2>1, <2>2 DEF Form
    <2>4. \A i \in 1..n : f(i).input.id # NoKey => f(i).result # NoRecord
      BY <2>1, RecordsAre DEF Kept
    <2>5. Len(ops'[o].entries) = n /\ ops'[o].kind = kind
      BY <2>1 DEF Goes, Alike
    <2>6. /\ kind \notin Upserting \cup Queries => n <= 1
          /\ kind = "emptyTrash" => n = 0
      BY <1>2 DEF Form
    <2>7. Form(o, ops'[o])
      BY <2>1, <2>3, <2>4, <2>5, <2>6 DEF Form
    <2> QED
      BY <1>3, <2>1, <2>7
  <1>17. ASSUME NEW i \in 1..n, Generated(o, i) PROVE FormInv'
    <2>1. /\ Goes(o) /\ ops[o].phase = "generate" /\ ops'[o].phase \in {"after", "generate"}
          /\ \A j \in 1..n : j # i => f(j) = e(j)
          /\ Kept(e(i), f(i)) /\ f(i).result # NoRecord
          /\ f(i).result.op = o /\ f(i).result.pos = i
      BY <1>17 DEF Generated
    <2>2. /\ kind \in Creating \cup Upserting
          /\ \A j \in 1..n : e(j).input.id # NoKey => e(j).result # NoRecord
          /\ \A j \in 1..n : EntryForm(o, kind, e(j))
          /\ kind \notin Upserting \cup Queries => n <= 1
          /\ kind = "emptyTrash" => n = 0
      BY <1>2, <2>1 DEF Form
    <2>3. kind \notin Queries
      BY <2>2 DEF Creating, Upserting, Queries
    <2>4. EntryForm(o, kind, f(i))
      BY <1>5, <1>12, <2>1, <2>2, <2>3
    <2>5. Len(ops'[o].entries) = n /\ ops'[o].kind = kind
      BY <2>1 DEF Goes, Alike
    <2>6. \A j \in 1..n : /\ EntryForm(o, kind, f(j))
                          /\ f(j).input.id # NoKey => f(j).result # NoRecord
      BY <2>1, <2>2, <2>4
    <2>7. Form(o, ops'[o])
      BY <2>1, <2>2, <2>5, <2>6 DEF Form
    <2> QED
      BY <1>3, <2>1, <2>7
  <1> QED
    BY <1>6, <1>7, <1>8, <1>9, <1>10, <1>11, <1>13, <1>14, <1>15, <1>16, <1>17
       DEF Silent, Writes

-----------------------------------------------------------------------------
(* What a call that no other call overlaps has seen stays true until it     *)
(* writes; what the generator of keys has not reached is free.              *)

(* Callers name no key the generator of primary keys gives out. *)
Named == \A c \in Clients : \A k \in c.given \cup c.seeded : k <= FirstId

(* The record that is live at the key an entry looks up. *)
Looked(e) == IF e.lookup = NoKey THEN NoRecord ELSE live[e.lookup]

LowInv ==
    /\ FirstId <= nextId
    /\ \A o \in Ops : \A i \in 1..Len(ops[o].entries) :
         /\ ops[o].entries[i].input.id <= FirstId
         /\ ops[o].kind \in Upserting => ops[o].entries[i].result.id <= nextId

AboveInv == \A k \in Keys : k > nextId => live[k] = NoRecord /\ trash[k] = NoRecord

AloneInv ==
    \A o, p \in Ops : ops[o].alone /\ Busy(ops[o]) /\ Busy(ops[p]) => p = o

SeenInv ==
    \A o \in Ops :
       (ops[o].alone /\ ops[o].phase = "before" /\ ops[o].kind \in Upserting \cup {"update"}) =>
          \A i \in 1..Len(ops[o].entries) :
             ops[o].entries[i].existing = Looked(ops[o].entries[i])

LEMMA StepGoes ==
    ASSUME OpsSound, NEW o \in Ops, Silent(o) \/ Writes(o)
    PROVE  /\ Launched(o) \/ (Goes(o) /\ (Busy(ops'[o]) => Busy(ops[o])))
           /\ Writes(o) => /\ Goes(o) /\ Busy(ops[o])
                           /\ ops'[o].phase \in {"generate", "after"}
           /\ Silent(o) => nextId' = nextId
           /\ nextId' = nextId \/ (nextId' = nextId + 1 /\ nextId' \in Keys)
           /\ client' = client
  <1>1. ASSUME Silent(o)
        PROVE  /\ Launched(o) \/ (Goes(o) /\ (Busy(ops'[o]) => Busy(ops[o])))
               /\ nextId' = nextId /\ client' = client
    BY <1>1 DEF Silent, Fetched, Asked, Ended, Tells, Answered, Busy
  <1>2. ASSUME Writes(o)
        PROVE  /\ Goes(o) /\ ops[o].phase \in {"before", "generate"} /\ client' = client
               /\ ops'[o].phase \in {"generate", "after"}
               /\ nextId' = nextId \/ (nextId' = nextId + 1 /\ nextId' \in Keys)
    <2>1. CASE Moved(o) /\ Shuffled
      BY <2>1 DEF Moved, Shuffled
    <2>2. CASE Emptied(o) /\ Shuffled
      BY <2>2 DEF Emptied, Shuffled
    <2>3. CASE Updated(o)
      BY <2>3 DEF Updated
    <2>4. CASE Put(o)
      BY <2>4 DEF Put
    <2>5. CASE \E i \in 1..Len(ops[o].entries) : Generated(o, i)
      BY <2>5 DEF Generated
    <2> QED
      BY <1>2, <2>1, <2>2, <2>3, <2>4, <2>5 DEF Writes
  <1> QED
    BY <1>1, <1>2 DEF Busy

LEMMA AloneNext ==
    ASSUME OpsSound, AloneInv, NEW o \in Ops, Silent(o) \/ Writes(o)
    PROVE  AloneInv'
  <1>1. CASE Launched(o)
    <2>1. PICK k \in EventNames, phase \in {"load", "before"}, entries \in Seq(Entry) :
             Started(o, k, entries, phase)
      BY <1>1 DEF Launched
    <2>2. \A p \in Ops \ {o} : Aside(ops[p], ops'[p])
      BY <2>1 DEF Started
    <2>3. \A p \in Ops \ {o} : /\ Busy(ops'[p]) <=> Busy(ops[p])
                               /\ ops'[p].alone => ~Busy(ops'[p])
      BY <2>2 DEF Aside, Busy
    <2>4. ops'[o].alone => \A p \in Ops : ~Busy(ops[p])
      BY <2>1 DEF Started
    <2> QED
      BY <2>3, <2>4 DEF AloneInv
  <1>2. CASE Goes(o) /\ (Busy(ops'[o]) => Busy(ops[o]))
    <2>1. ops'[o].alone = ops[o].alone /\ \A p \in Ops \ {o} : ops'[p] = ops[p]
      BY <1>2 DEF Goes, Alike
    <2>2. ASSUME NEW a \in Ops, NEW b \in Ops, ops'[a].alone, Busy(ops'[a]), Busy(ops'[b])
          PROVE  a = b
      <3>1. ops[a].alone /\ Busy(ops[a]) /\ Busy(ops[b])
        BY <1>2, <2>1, <2>2
      <3> QED
        BY <3>1 DEF AloneInv
    <2> QED
      BY <2>2 DEF AloneInv
  <1> QED
    BY <1>1, <1>2, StepGoes

LEMMA LowNext ==
    ASSUME Named, OpsSound, StoreTypes, LowInv, NEW o \in Ops, Silent(o) \/ Writes(o)
    PROVE  LowInv'
  <1> DEFINE e(i) == ops[o].entries[i]
             f(i) == ops'[o].entries[i]
             n == Len(ops[o].entries)
             kind == ops[o].kind
             LowIn(k, x, m) == x.input.id <= FirstId /\ (k \in Upserting => x.result.id <= m)
  <1>1. /\ n \in Nat /\ \A p \in Ops : \A i \in 1..Len(ops[p].entries) :
             /\ ops[p].entries[i] \in Entry /\ ops[p].entries[i].input.id \in 0..MaxKey
             /\ ops[p].entries[i].result.id \in 0..MaxKey
    BY FieldsAre DEF Entry, Record
  <1>2. /\ FirstId \in Nat /\ nextId \in Nat /\ FirstId <= nextId /\ MaxKey \in Nat
        /\ nextId' \in Nat /\ nextId <= nextId'
    BY Constants, StepGoes DEF StoreTypes, LowInv
  <1>3. \A k \in client.given \cup {NoKey} : k \in Nat /\ k <= FirstId
    BY <1>2, Constants DEF Named, StoreTypes
  <1>4. \A p \in Ops : \A i \in 1..Len(ops[p].entries) :
           LowIn(ops[p].kind, ops[p].entries[i], nextId)
    BY DEF LowInv
  <1>5. \A p \in Ops : \A i \in 1..Len(ops[p].entries) :
           LowIn(ops[p].kind, ops[p].entries[i], nextId')
    BY <1>1, <1>2, <1>4
  <1>6. ASSUME Goes(o), \A i \in 1..n : LowIn(kind, f(i), nextId') PROVE LowInv'
    <2>1. ops'[o].kind = kind /\ Len(ops'[o].entries) = n /\ \A p \in Ops \ {o} : ops'[p] = ops[p]
      BY <1>6 DEF Goes, Alike
    <2>2. FirstId <= nextId'
      BY <1>2
    <2>3. \A p \in Ops : \A i \in 1..Len(ops'[p].entries) :
             LowIn(ops'[p].kind, ops'[p].entries[i], nextId')
      BY <1>5, <1>6, <2>1
    <2> QED
      BY <2>2, <2>3 DEF LowInv
  <1>7. CASE Launched(o)
    <2>1. PICK k \in EventNames, phase \in {"load", "before"}, entries \in Seq(Entry) :
             Started(o, k, entries, phase) /\ Begun(k, entries, phase)
      BY <1>7 DEF Launched
    <2>2. \A i \in 1..Len(entries) : entries[i].input.id <= FirstId /\ entries[i].result.id = NoKey
      BY <1>3, <2>1, RecordsAre DEF Begun
    <2>3. \A i \in 1..Len(entries) : LowIn(k, entries[i], nextId')
      BY <1>2, <2>2, Constants
    <2>4. ops'[o].kind = k /\ ops'[o].entries = entries
      BY <2>1 DEF Started
    <2>5. \A p \in Ops \ {o} : ops'[p].kind = ops[p].kind /\ ops'[p].entries = ops[p].entries
      BY <2>1 DEF Started, Aside
    <2>6. FirstId <= nextId'
      BY <1>2
    <2>7. ASSUME NEW p \in Ops, NEW i \in 1..Len(ops'[p].entries)
          PROVE  LowIn(ops'[p].kind, ops'[p].entries[i], nextId')
      <3>1. CASE p = o
        BY <2>3, <2>4, <3>1
      <3>2. CASE p # o
        BY <1>5, <2>5, <3>2
      <3> QED
        BY <3>1, <3>2
    <2> QED
      BY <2>6, <2>7 DEF LowInv
  <1>8. CASE Fetched(o)
    <2>1. ASSUME NEW i \in 1..n PROVE LowIn(kind, f(i), nextId')
      <3> DEFINE x == e(i)
      <3>1. f(i) = [x EXCEPT !.existing = Looked(x)]
        BY <1>8 DEF Fetched, Looked
      <3>2. x \in Entry /\ LowIn(kind, x, nextId')
        BY <1>1, <1>5
      <3> HIDE DEF x
      <3> QED
        BY <3>1, <3>2 DEF Entry
    <2> QED
      BY <1>6, <1>8, <2>1 DEF Fetched
  <1>9. CASE Asked(o)
    <2>1. ASSUME NEW i \in 1..n PROVE LowIn(kind, f(i), nextId')
      <3>1. f(i).result = e(i).result /\ f(i).input.id \in {e(i).input.id} \cup client.given
        BY <1>9 DEF Asked, HeardAs
      <3> QED
        BY <1>3, <1>5, <3>1
    <2> QED
      BY <1>6, <1>9, <2>1 DEF Asked
  <1>10. ASSUME Goes(o), ops'[o].entries = ops[o].entries PROVE LowInv'
    BY <1>5, <1>6, <1>10
  <1>11. CASE Ended(o) \/ Answered(o) \/ Emptied(o)
    BY <1>10, <1>11 DEF Ended, Answered, Emptied
  <1>12. CASE Tells(o)
    <2>1. ASSUME NEW i \in 1..n PROVE LowIn(kind, f(i), nextId')
      <3> DEFINE x == e(i)
      <3>1. f(i) = x \/ f(i) = [x EXCEPT !.told = KeyOf(x)]
        BY <1>12 DEF Tells
      <3>2. x \in Entry /\ LowIn(kind, x, nextId')
        BY <1>1, <1>5
      <3> HIDE DEF x
      <3> QED
        BY <3>1, <3>2 DEF Entry
    <2> QED
      BY <1>6, <1>12, <2>1 DEF Tells
  <1>13. CASE Moved(o) \/ Updated(o)
    <2>1. /\ Goes(o) /\ kind \notin Upserting /\ n = 1 /\ f(1).input = e(1).input
      BY <1>13 DEF Moved, Updated, Kept, Trashing, Upserting
    <2>2. \A i \in 1..n : LowIn(kind, f(i), nextId')
      BY <1>5, <2>1
    <2> QED
      BY <1>6, <2>1, <2>2
  <1>14. CASE Put(o)
    <2>1. Goes(o) /\ \A i \in 1..n : /\ Kept(e(i), f(i))
                                     /\ f(i) = e(i) \/ f(i).result = e(i).input
      BY <1>14 DEF Put
    <2>2. ASSUME NEW i \in 1..n PROVE LowIn(kind, f(i), nextId')
      <3>1. /\ f(i).input = e(i).input /\ f(i).result \in {e(i).result, e(i).input}
            /\ e(i).input.id \in 0..MaxKey /\ LowIn(kind, e(i), nextId')
        BY <1>1, <1>5, <2>1 DEF Kept
      <3> HIDE DEF e, f, kind
      <3> QED
        BY <1>2, <3>1
    <2> QED
      BY <1>6, <2>1, <2>2
  <1>15. ASSUME NEW i \in 1..n, Generated(o, i) PROVE LowInv'
    <2>1. /\ Goes(o) /\ \A j \in 1..n : j # i => f(j) = e(j)
          /\ f(i).input = e(i).input /\ f(i).result.id = nextId'
      BY <1>15 DEF Generated, Kept
    <2>2. \A j \in 1..n : LowIn(kind, e(j), nextId')
      BY <1>5
    <2>3. LowIn(kind, f(i), nextId')
      <3> HIDE DEF e, f, kind
      <3> QED
        BY <1>2, <2>1, <2>2
    <2>4. \A j \in 1..n : LowIn(kind, f(j), nextId')
      <3> HIDE DEF e, f, kind, LowIn, n
      <3> QED
        BY <2>1, <2>2, <2>3
    <2> QED
      BY <1>6, <2>1, <2>4
  <1> QED
    BY <1>7, <1>8, <1>9, <1>11, <1>12, <1>13, <1>14, <1>15 DEF Silent, Writes

LEMMA AboveNext ==
    ASSUME OpsSound, StoreTypes, LowInv, AboveInv, NEW o \in Ops, Silent(o) \/ Writes(o)
    PROVE  AboveInv'
  <1> DEFINE n == Len(ops[o].entries)
             free(k) == live[k] = NoRecord /\ trash[k] = NoRecord
  <1>1. nextId \in Nat /\ nextId' \in Nat /\ nextId <= nextId' /\ FirstId \in Nat
        /\ FirstId <= nextId /\ Keys \subseteq Nat
    BY Constants, StepGoes DEF StoreTypes, LowInv
  <1>2. \A k \in Keys : k > nextId' => k > nextId /\ free(k)
    BY <1>1 DEF AboveInv
  <1>3. ASSUME NEW k \in Keys, k > nextId' PROVE live'[k] = NoRecord /\ trash'[k] = NoRecord
    <2>1. free(k) /\ k > nextId /\ k \in Nat
      BY <1>1, <1>2, <1>3
    <2>2. CASE Silent(o)
      BY <2>1, <2>2 DEF Silent
    <2>3. CASE Shuffled
      BY <2>1, <2>3 DEF Shuffled
    <2>4. CASE Updated(o)
      <3> DEFINE x == ops[o].entries[1].lookup
                 r == ops'[o].entries[1].result
      <3>1. live' = [live EXCEPT ![x] = r] /\ live[x] # NoRecord /\ trash' = trash
        BY <2>4 DEF Updated
      <3> HIDE DEF x, r
      <3>2. live'[k] = live[k]
        BY <2>1, <3>1 DEF StoreTypes
      <3> QED
        BY <2>1, <3>1, <3>2
    <2>5. CASE Put(o)
      <3>1. /\ trash' = trash
            /\ live'[k] = live[k] \/ \E j \in 1..n : ops[o].entries[j].input.id = k
        BY <2>5 DEF Put
      <3>2. \A j \in 1..n : ops[o].entries[j].input.id <= FirstId
        BY DEF LowInv
      <3>3. ~(k <= FirstId)
        BY <1>1, <2>1
      <3> QED
        BY <2>1, <3>1, <3>2, <3>3
    <2>6. ASSUME NEW i \in 1..n, Generated(o, i)
          PROVE  live'[k] = NoRecord /\ trash'[k] = NoRecord
      <3>1. PICK r : live' = [live EXCEPT ![nextId'] = r] /\ trash' = trash
        BY <2>6 DEF Generated
      <3>2. live'[k] = live[k]
        BY <1>1, <1>3, <2>1, <3>1 DEF StoreTypes
      <3> QED
        BY <2>1, <3>1, <3>2
    <2> QED
      BY <2>2, <2>3, <2>4, <2>5, <2>6 DEF Writes
  <1> QED
    BY <1>3 DEF AboveInv

LEMMA SeenNext ==
    ASSUME OpsSound, StoreTypes, AloneInv, SeenInv, NEW o \in Ops, Silent(o) \/ Writes(o)
    PROVE  SeenInv'
  <1> DEFINE Sees(op, l) ==
               (op.alone /\ op.phase = "before" /\ op.kind \in Upserting \cup {"update"}) =>
                  \A i \in 1..Len(op.entries) : op.entries[i].existing =
                     IF op.entries[i].lookup = NoKey THEN NoRecord ELSE l[op.entries[i].lookup]
             n == Len(ops[o].entries)
             e(i) == ops[o].entries[i]
             f(i) == ops'[o].entries[i]
  <1>1. \A p \in Ops : Sees(ops[p], live)
    BY DEF SeenInv, Looked
  <1>2. ASSUME \A p \in Ops : Sees(ops'[p], live') PROVE SeenInv'
    BY <1>2 DEF SeenInv, Looked
  <1> HIDE DEF Sees
  <1>3. ASSUME Goes(o), live' = live, Sees(ops'[o], live) PROVE SeenInv'
    <2>1. \A p \in Ops \ {o} : Sees(ops'[p], live')
      BY <1>1, <1>3 DEF Goes
    <2> QED
      BY <1>2, <1>3, <2>1
  <1>4. ASSUME Goes(o), ops'[o].phase # "before", live' = live PROVE SeenInv'
    BY <1>3, <1>4 DEF Sees
  <1>5. CASE Writes(o)
    <2>1. Goes(o) /\ Busy(ops[o]) /\ ops'[o].phase # "before"
      BY <1>5, StepGoes
    <2>2. Sees(ops'[o], live')
      BY <2>1 DEF Sees
    <2>3. ASSUME NEW p \in Ops \ {o} PROVE Sees(ops'[p], live')
      <3>1. ops'[p] = ops[p]
        BY <2>1 DEF Goes
      <3>2. ~(ops[p].alone /\ ops[p].phase = "before")
        <4>1. ops[p].phase = "before" => Busy(ops[p])
          BY DEF Busy
        <4> QED
          BY <2>1, <4>1 DEF AloneInv
      <3> QED
        BY <3>1, <3>2 DEF Sees
    <2> QED
      BY <1>2, <2>2, <2>3
  <1>6. ASSUME Launched(o), live' = live PROVE SeenInv'
    <2>1. PICK k \in EventNames, phase \in {"load", "before"}, entries \in Seq(Entry) :
             Started(o, k, entries, phase) /\ Begun(k, entries, phase)
      BY <1>6 DEF Launched
    <2>2. ops'[o].kind = k /\ ops'[o].phase = phase /\ ops'[o].entries = entries
      BY <2>1 DEF Started
    <2>3. Sees(ops'[o], live')
      BY <2>1, <2>2 DEF Sees, Begun
    <2>4. ASSUME NEW p \in Ops \ {o} PROVE Sees(ops'[p], live')
      <3>1. Aside(ops[p], ops'[p])
        BY <2>1 DEF Started
      <3> QED
        BY <3>1 DEF Aside, Sees, Busy
    <2> QED
      BY <1>2, <2>3, <2>4
  <1>7. ASSUME Fetched(o), live' = live PROVE SeenInv'
    <2>1. ASSUME NEW i \in 1..n
          PROVE  f(i).existing = IF f(i).lookup = NoKey THEN NoRecord ELSE live[f(i).lookup]
      <3> DEFINE x == e(i)
      <3>1. f(i) = [x EXCEPT !.existing = IF x.lookup = NoKey THEN NoRecord ELSE live[x.lookup]]
        BY <1>7 DEF Fetched
      <3>2. x \in Entry
        BY FieldsAre
      <3> HIDE DEF x
      <3> QED
        BY <3>1, <3>2 DEF Entry
    <2>2. Goes(o) /\ Len(ops'[o].entries) = n
      BY <1>7 DEF Fetched, Goes, Alike
    <2>3. Sees(ops'[o], live)
      BY <2>1, <2>2 DEF Sees
    <2> QED
      BY <1>3, <1>7, <2>2, <2>3
  <1>8. ASSUME Asked(o), live' = live PROVE SeenInv'
    <2>1. Goes(o) /\ ops[o].phase = "before" /\ ops'[o].phase = "before" /\ Alike(ops[o], ops'[o])
      BY <1>8 DEF Asked, Goes
    <2>2. \A i \in 1..n : f(i).existing = e(i).existing /\ f(i).lookup = e(i).lookup
      BY <1>8, <2>1 DEF Asked, HeardAs, Alike
    <2>3. Sees(ops'[o], live)
      BY <1>1, <2>1, <2>2 DEF Sees, Alike
    <2> QED
      BY <1>3, <1>8, <2>1, <2>3
  <1>9. ASSUME Ended(o) \/ Tells(o) \/ Answered(o), live' = live PROVE SeenInv'
    BY <1>4, <1>9 DEF Ended, Tells, Answered
  <1> QED
    BY <1>5, <1>6, <1>7, <1>8, <1>9 DEF Silent

-----------------------------------------------------------------------------
(* What an event shows as existing is what the write finds in its place.    *)

(* Another entry of the batch has the key of the i-th. *)
Again(op, i) ==
    \E j \in 1..Len(op.entries) : /\ j # i /\ op.entries[i].input.id # NoKey
                                  /\ op.entries[j].input.id = op.entries[i].input.id

Promised(op, i) ==
    \/ op.kind = "create"
    \/ op.alone /\ ~Again(op, i) /\ Plain(op.entries[i])

Truth(op) ==
    op.kind \in {"create", "update"} \cup Upserting =>
       \A i \in 1..Len(op.entries) :
          op.entries[i].result # NoRecord /\ Promised(op, i) =>
             op.entries[i].overwrote = op.entries[i].existing

TruthInv == \A o \in Ops : Truth(ops[o])

LEMMA TruthNext ==
    ASSUME OpsSound, StoreTypes, FormInv, LowInv, AboveInv, SeenInv, TruthInv,
           NEW o \in Ops, Silent(o) \/ Writes(o)
    PROVE  TruthInv'
  <1> DEFINE e(i) == ops[o].entries[i]
             f(i) == ops'[o].entries[i]
             n == Len(ops[o].entries)
             kind == ops[o].kind
             early == ops[o].phase \in Early
  <1>1. /\ n \in Nat /\ \A i \in 1..n : e(i) \in Entry /\ e(i).input \in Record
        /\ early => \A i \in 1..n : e(i).result = NoRecord
    BY FieldsAre DEF OpsSound, Sound, Entry
  <1>2. Truth(ops[o]) /\ Form(o, ops[o])
    BY DEF TruthInv, FormInv
  <1>3. ASSUME Goes(o), Truth(ops'[o]) PROVE TruthInv'
    BY <1>3 DEF TruthInv, Goes
  <1>4. ASSUME Goes(o)
        PROVE  /\ ops'[o].kind = kind /\ ops'[o].alone = ops[o].alone
               /\ Len(ops'[o].entries) = n /\ \A i \in 1..n : f(i).lookup = e(i).lookup
    BY <1>4 DEF Goes, Alike
  <1>5. ASSUME Goes(o), \A i \in 1..n : f(i).result = NoRecord PROVE TruthInv'
    <2>1. Truth(ops'[o])
      BY <1>4, <1>5 DEF Truth
    <2> QED
      BY <1>3, <1>5, <2>1
  <1>6. ASSUME Goes(o), \A i \in 1..n : f(i).input = e(i).input, NEW i \in 1..n
        PROVE  Promised(ops'[o], i) <=> Promised(ops[o], i)
    BY <1>4, <1>6 DEF Promised, Again, Plain
  <1>7. ASSUME Goes(o),
               \A i \in 1..n : /\ f(i).input = e(i).input /\ f(i).result = e(i).result
                               /\ f(i).existing = e(i).existing
                               /\ f(i).overwrote = e(i).overwrote
        PROVE  TruthInv'
    <2>1. Truth(ops'[o])
      <3>1. \A i \in 1..n : Promised(ops'[o], i) => Promised(ops[o], i)
        BY <1>6, <1>7
      <3> QED
        BY <1>2, <1>4, <1>7, <3>1 DEF Truth
    <2> QED
      BY <1>3, <1>7, <2>1
  <1>8. CASE Launched(o)
    <2>1. PICK k \in EventNames, phase \in {"load", "before"}, entries \in Seq(Entry) :
             Started(o, k, entries, phase) /\ Begun(k, entries, phase)
      BY <1>8 DEF Launched
    <2>2. Truth(ops'[o])
      BY <2>1 DEF Started, Begun, Truth
    <2>3. ASSUME NEW p \in Ops \ {o} PROVE Truth(ops'[p])
      <3>1. Aside(ops[p], ops'[p]) /\ Truth(ops[p])
        BY <2>1 DEF Started, TruthInv
      <3> QED
        BY <3>1 DEF Aside, Truth, Promised, Again
    <2> QED
      BY <2>2, <2>3 DEF TruthInv
  <1>9. CASE Fetched(o)
    <2>1. ASSUME NEW i \in 1..n PROVE f(i).result = NoRecord
      <3> DEFINE x == e(i)
      <3>1. f(i) = [x EXCEPT !.existing = Looked(x)]
        BY <1>9 DEF Fetched, Looked
      <3>2. x \in Entry /\ x.result = NoRecord
        BY <1>1, <1>9 DEF Fetched, Early
      <3> HIDE DEF x
      <3> QED
        BY <3>1, <3>2 DEF Entry
    <2> QED
      BY <1>5, <1>9, <2>1 DEF Fetched
  <1>10. CASE Asked(o)
    <2>1. early /\ Goes(o) /\ \A i \in 1..n : f(i).result = e(i).result
      BY <1>10 DEF Asked, Early, HeardAs
    <2> QED
      BY <1>1, <1>5, <2>1
  <1>11. CASE Ended(o) \/ Answered(o) \/ Emptied(o)
    BY <1>7, <1>11 DEF Ended, Answered, Emptied
  <1>12. CASE Tells(o)
    <2>1. ASSUME NEW i \in 1..n
          PROVE  /\ f(i).input = e(i).input /\ f(i).result = e(i).result
                 /\ f(i).existing = e(i).existing /\ f(i).overwrote = e(i).overwrote
      <3> DEFINE x == e(i)
      <3>1. f(i) = x \/ f(i) = [x EXCEPT !.told = KeyOf(x)]
        BY <1>12 DEF Tells
      <3>2. x \in Entry
        BY <1>1
      <3> HIDE DEF x
      <3> QED
        BY <3>1, <3>2 DEF Entry, x
    <2> QED
      BY <1>7, <1>12, <2>1 DEF Tells
  <1>13. CASE Moved(o)
    <2>1. Goes(o) /\ kind \notin {"create", "update"} \cup Upserting
      BY <1>13 DEF Moved, Trashing, Upserting
    <2>2. Truth(ops'[o])
      BY <1>4, <2>1 DEF Truth
    <2> QED
      BY <1>3, <2>1, <2>2
  <1>14. CASE Updated(o)
    <2>1. /\ Goes(o) /\ kind = "update" /\ ops[o].phase = "before" /\ n = 1
          /\ e(1).lookup \in Keys /\ f(1).overwrote = live[e(1).lookup]
          /\ f(1).existing = e(1).existing
      BY <1>14 DEF Updated, Kept
    <2>2. ops[o].alone => e(1).existing = live[e(1).lookup]
      <3>1. e(1).lookup # NoKey
        BY <2>1, Constants
      <3> QED
        BY <2>1, <3>1 DEF SeenInv, Looked
    <2>3. Promised(ops'[o], 1) => ops[o].alone
      BY <1>4, <2>1 DEF Promised
    <2>4. Truth(ops'[o])
      BY <1>4, <2>1, <2>2, <2>3 DEF Truth
    <2> QED
      BY <1>3, <2>1, <2>4
  <1>15. CASE Put(o)
    <2>1. /\ Goes(o) /\ kind \in Creating \cup Upserting /\ ops[o].phase = "before" /\ early
          /\ \A i \in 1..n : Kept(e(i), f(i))
          /\ \A i \in 1..n :
               IF e(i).input.id = NoKey THEN f(i) = e(i)
               ELSE (\A j \in 1..(i - 1) : e(j).input.id # e(i).input.id) =>
                       f(i).overwrote = live[e(i).input.id]
          /\ kind \in Creating /\ e(1).input.id # NoKey => live[e(1).input.id] = NoRecord
      BY <1>15 DEF Put, Early
    <2>2. \A i \in 1..n : f(i).input = e(i).input /\ f(i).existing = e(i).existing
      BY <2>1 DEF Kept
    <2>3. ASSUME NEW i \in 1..n, f(i).result # NoRecord, Promised(ops[o], i),
                 kind \in {"create", "update"} \cup Upserting
          PROVE  f(i).overwrote = f(i).existing
      <3>1. e(i).input.id # NoKey
        BY <1>1, <2>1, <2>3
      <3>2. CASE kind = "create"
        <4>1. n <= 1 /\ kind \in Creating
          BY <1>2, <3>2 DEF Form, Upserting, Queries, Creating
        <4>2. i = 1 /\ \A j \in 1..(i - 1) : FALSE
          BY <1>1, <4>1
        <4>3. f(1).overwrote = live[e(1).input.id] /\ live[e(1).input.id] = NoRecord
          BY <2>1, <3>1, <4>1, <4>2
        <4>4. e(1).existing = NoRecord
          BY <1>2, <3>2, <4>2 DEF Form, EntryForm
        <4> QED
          BY <2>2, <4>2, <4>3, <4>4
      <3>3. CASE kind # "create"
        <4>1. ops[o].alone /\ ~Again(ops[o], i) /\ Plain(e(i)) /\ kind \in Upserting
          BY <2>1, <2>3, <3>3 DEF Promised, Creating, Upserting
        <4>2. \A j \in 1..(i - 1) : j \in 1..n /\ j # i
          BY <1>1
        <4>3. \A j \in 1..(i - 1) : e(j).input.id # e(i).input.id
          BY <3>1, <4>1, <4>2 DEF Again
        <4>4. f(i).overwrote = live[e(i).input.id]
          BY <2>1, <3>1, <4>3
        <4>5. e(i).lookup = e(i).input.id
          BY <1>2, <4>1 DEF Form, EntryForm
        <4>6. e(i).existing = live[e(i).lookup]
          BY <2>1, <3>1, <4>1, <4>5 DEF SeenInv, Looked
        <4> QED
          BY <2>2, <4>4, <4>5, <4>6
      <3> QED
        BY <3>2, <3>3
    <2>4. \A i \in 1..n : Promised(ops'[o], i) => Promised(ops[o], i)
      BY <1>6, <2>1, <2>2
    <2>5. Truth(ops'[o])
      BY <1>4, <2>1, <2>3, <2>4 DEF Truth
    <2> QED
      BY <1>3, <2>1, <2>5
  <1>16. ASSUME NEW i \in 1..n, Generated(o, i) PROVE TruthInv'
    <2>1. /\ Goes(o) /\ ops[o].phase = "generate" /\ e(i).result = NoRecord
          /\ \A j \in 1..n : j # i => f(j) = e(j)
          /\ Kept(e(i), f(i)) /\ f(i).overwrote = live[nextId + 1] /\ nextId + 1 \in Keys
      BY <1>16 DEF Generated
    <2>2. \A j \in 1..n : f(j).input = e(j).input /\ f(j).existing = e(j).existing
      BY <2>1 DEF Kept
    <2>3. live[nextId + 1] = NoRecord
      <3>1. nextId \in Nat
        BY Constants DEF StoreTypes
      <3>2. nextId + 1 > nextId
        BY <3>1
      <3> QED
        BY <2>1, <3>2 DEF AboveInv
    <2>4. ASSUME Promised(ops[o], i), kind \in {"create", "update"} \cup Upserting
          PROVE  e(i).existing = NoRecord
      <3>1. /\ kind \in Creating \cup Upserting /\ e(i).input.id = NoKey
            /\ EntryForm(o, kind, e(i))
        BY <1>2, <2>1 DEF Form
      <3>2. CASE kind = "create"
        BY <3>1, <3>2 DEF EntryForm
      <3>3. CASE kind # "create"
        <4>1. Plain(e(i)) /\ kind \in Upserting
          BY <2>4, <3>1, <3>3 DEF Promised, Creating, Upserting
        <4> QED
          BY <3>1, <4>1 DEF EntryForm
      <3> QED
        BY <3>2, <3>3
    <2>5. \A j \in 1..n : Promised(ops'[o], j) => Promised(ops[o], j)
      BY <1>6, <2>1, <2>2
    <2>6. Truth(ops'[o])
      BY <1>2, <1>4, <2>1, <2>2, <2>3, <2>4, <2>5 DEF Truth
    <2> QED
      BY <1>3, <2>1, <2>6
  <1> QED
    BY <1>8, <1>9, <1>10, <1>11, <1>12, <1>13, <1>14, <1>15, <1>16 DEF Silent, Writes

-----------------------------------------------------------------------------
(* Entries of one batch that share a key. *)

BatchInv ==
    \A o \in Ops : \A j \in 1..Len(ops[o].entries) : \A i \in 1..(j - 1) :
       LET a == ops[o].entries[i]
           b == ops[o].entries[j]
       IN (a.result # NoRecord /\ b.result # NoRecord /\ a.result.id = b.result.id) =>
             a.input.id # NoKey /\ b.input.id # NoKey /\ a.result \notin Stored

(* What a step of call o adds to the maps is its own. *)
LEMMA OwnStored ==
    ASSUME OpsSound, StoreTypes, NEW o \in Ops, Silent(o) \/ Writes(o), NEW r \in Stored'
    PROVE  /\ r \in Stored \/ r = NoRecord \/ r.op = o
           /\ Silent(o) \/ Shuffled => r \in Stored \/ r = NoRecord
  <1> DEFINE n == Len(ops[o].entries)
             e(i) == ops[o].entries[i]
  <1>1. PICK k \in Keys : r = live'[k] \/ r = trash'[k]
    BY DEF Stored
  <1>2. live[k] \in Stored /\ trash[k] \in Stored
    BY StoredAre
  <1>3. \A i \in 1..n : e(i) \in Entry /\ e(i).input \in Record /\ e(i).input.op = o
    BY FieldsAre DEF OpsSound, Sound, Fits, Entry
  <1>4. ASSUME Silent(o) \/ Shuffled PROVE r \in Stored \/ r = NoRecord
    BY <1>1, <1>2, <1>4 DEF Silent, Shuffled
  <1>5. ASSUME Updated(o) PROVE r \in Stored \/ r.op = o
    <2> DEFINE x == e(1).lookup
               w == ops'[o].entries[1].result
               id == live[x].id
    <2>1. /\ live' = [live EXCEPT ![x] = w] /\ trash' = trash /\ n = 1
          /\ w = e(1).input \/ w = [e(1).input EXCEPT !.id = id]
      BY <1>5 DEF Updated
    <2> HIDE DEF w, x, id
    <2>2. w.op = o
      BY <1>3, <2>1 DEF Record
    <2>3. live'[k] \in {live[k], w}
      BY <2>1 DEF StoreTypes
    <2> QED
      BY <1>1, <1>2, <2>1, <2>2, <2>3
  <1>6. ASSUME Put(o) PROVE r \in Stored \/ r.op = o
    <2>1. /\ live'[k] = live[k] \/ \E j \in 1..n : live'[k] = e(j).input
          /\ trash' = trash
      BY <1>6 DEF Put
    <2> QED
      BY <1>1, <1>2, <1>3, <2>1
  <1>7. ASSUME NEW i \in 1..n, Generated(o, i) PROVE r \in Stored \/ r.op = o
    <2> DEFINE w == ops'[o].entries[i].result
               x == nextId + 1
    <2>1. live' = [live EXCEPT ![x] = w] /\ trash' = trash /\ w.op = o
      BY <1>7 DEF Generated
    <2> HIDE DEF w, x
    <2>2. live'[k] \in {live[k], w}
      BY <2>1 DEF StoreTypes
    <2> QED
      BY <1>1, <1>2, <2>1, <2>2
  <1> QED
    BY <1>4, <1>5, <1>6, <1>7 DEF Writes

(* Two results in one batch are those of an upsert, and tell which is which. *)
LEMMA TwoResults ==
    ASSUME NEW o, NEW op, Form(o, op), Len(op.entries) \in Nat,
           NEW j \in 1..Len(op.entries), NEW i \in 1..(j - 1),
           op.entries[i].result # NoRecord
    PROVE  /\ i \in 1..Len(op.entries) /\ op.kind \in Upserting
           /\ op.entries[i].result.op = o
           /\ op.entries[i].result.pos = op.entries[i].input.pos
  <1>1. i \in 1..Len(op.entries) /\ ~(Len(op.entries) <= 1)
    OBVIOUS
  <1>2. EntryForm(o, op.kind, op.entries[i])
    BY <1>1 DEF Form
  <1>3. op.kind \in Upserting \cup Queries
    BY <1>1 DEF Form
  <1>4. op.kind \notin Queries
    BY <1>2 DEF EntryForm
  <1> QED
    BY <1>1, <1>2, <1>3, <1>4 DEF EntryForm

LEMMA BatchNext ==
    ASSUME OpsSound, OpsSound', StoreTypes, AllKnown, FormInv, FormInv', LowInv, BatchInv,
           NEW o \in Ops, Silent(o) \/ Writes(o)
    PROVE  BatchInv'
  <1> DEFINE e(i) == ops[o].entries[i]
             f(i) == ops'[o].entries[i]
             n == Len(ops[o].entries)
             Clear(op, S) ==
               \A j \in 1..Len(op.entries) : \A i \in 1..(j - 1) :
                  LET a == op.entries[i]
                      b == op.entries[j]
                  IN (a.result # NoRecord /\ b.result # NoRecord /\ a.result.id = b.result.id) =>
                        a.input.id # NoKey /\ b.input.id # NoKey /\ a.result \notin S
  <1>1. /\ \A p \in Ops : Clear(ops[p], Stored)
        /\ (\A p \in Ops : Clear(ops'[p], Stored')) => BatchInv'
    BY DEF BatchInv
  <1>2. \A p \in Ops : /\ Len(ops[p].entries) \in Nat /\ Len(ops'[p].entries) \in Nat
                       /\ Form(p, ops[p]) /\ Form(p, ops'[p])
    <2>1. \A p \in Ops : ops[p].entries \in Seq(Entry) /\ ops'[p].entries \in Seq(Entry)
      BY DEF OpsSound, Call
    <2> QED
      BY <2>1, LenProperties DEF FormInv
  <1>3. /\ n \in Nat
        /\ \A i \in 1..n : e(i) \in Entry /\ e(i).input.op = o /\ e(i).input.pos = i
        /\ ops[o].phase \in Early => \A i \in 1..n : e(i).result = NoRecord
    BY FieldsAre DEF OpsSound, Sound, Fits
  <1>4. ASSUME NEW p \in Ops, ops'[p].kind = ops[p].kind, ops'[p].entries = ops[p].entries,
               p # o \/ Silent(o) \/ Shuffled
        PROVE  Clear(ops'[p], Stored')
    <2> SUFFICES ASSUME NEW j \in 1..Len(ops[p].entries), NEW i \in 1..(j - 1),
                        ops[p].entries[i].result # NoRecord,
                        ops[p].entries[j].result # NoRecord,
                        ops[p].entries[i].result.id = ops[p].entries[j].result.id
                 PROVE  /\ ops[p].entries[i].input.id # NoKey
                        /\ ops[p].entries[j].input.id # NoKey
                        /\ ops[p].entries[i].result \notin Stored'
      BY <1>4
    <2> DEFINE a == ops[p].entries[i].result
    <2>1. /\ ops[p].entries[i].input.id # NoKey /\ ops[p].entries[j].input.id # NoKey
          /\ a \notin Stored
      BY <1>1
    <2>2. a.op = p
      BY <1>2, TwoResults
    <2>3. a \notin Stored'
      <3> HIDE DEF a
      <3>1. a # NoRecord
        BY DEF a
      <3>2. \A r \in Stored' : r \in Stored \/ r = NoRecord \/ (p # o /\ r.op = o)
        BY <1>4, OwnStored
      <3> QED
        BY <2>1, <2>2, <3>1, <3>2
    <2> QED
      BY <2>1, <2>3
  <1>5. ASSUME Goes(o), Clear(ops'[o], Stored') PROVE BatchInv'
    <2>1. \A p \in Ops \ {o} : ops'[p] = ops[p]
      BY <1>5 DEF Goes
    <2>2. \A p \in Ops \ {o} : Clear(ops'[p], Stored')
      <3> HIDE DEF Clear
      <3> QED
        BY <1>4, <2>1
    <2> HIDE DEF Clear
    <2> QED
      BY <1>1, <1>5, <2>2
  <1>6. ASSUME Goes(o), \A i \in 1..n : f(i).result = NoRecord PROVE BatchInv'
    <2>1. Len(ops'[o].entries) = n
      BY <1>6 DEF Goes, Alike
    <2>2. Clear(ops'[o], Stored')
      BY <1>6, <2>1
    <2> HIDE DEF Clear
    <2> QED
      BY <1>5, <1>6, <2>2
  <1>7. CASE Launched(o)
    <2>1. PICK k \in EventNames, phase \in {"load", "before"}, entries \in Seq(Entry) :
             Started(o, k, entries, phase) /\ Begun(k, entries, phase)
      BY <1>7 DEF Launched
    <2>2. ops'[o].entries = entries /\ \A i \in 1..Len(entries) : entries[i].result = NoRecord
      BY <2>1 DEF Started, Begun
    <2>3. Clear(ops'[o], Stored')
      BY <2>2
    <2>4. \A p \in Ops \ {o} : ops'[p].kind = ops[p].kind /\ ops'[p].entries = ops[p].entries
      BY <2>1 DEF Started, Aside
    <2> HIDE DEF Clear
    <2> QED
      BY <1>1, <1>4, <2>3, <2>4
  <1>8. CASE Fetched(o)
    <2>1. ASSUME NEW i \in 1..n PROVE f(i).result = NoRecord
      <3> DEFINE x == e(i)
      <3>1. f(i) = [x EXCEPT !.existing = Looked(x)]
        BY <1>8 DEF Fetched, Looked
      <3>2. x \in Entry /\ x.result = NoRecord
        BY <1>3, <1>8 DEF Fetched, Early
      <3> HIDE DEF x
      <3> QED
        BY <3>1, <3>2 DEF Entry
    <2> QED
      BY <1>6, <1>8, <2>1 DEF Fetched
  <1>9. CASE Asked(o)
    <2>1. Goes(o) /\ \A i \in 1..n : f(i).result = e(i).result /\ e(i).result = NoRecord
      BY <1>3, <1>9 DEF Asked, Early, HeardAs
    <2> QED
      BY <1>6, <2>1
  <1>10. ASSUME Ended(o) \/ Answered(o), Silent(o) PROVE BatchInv'
    <2>1. Goes(o) /\ ops'[o].kind = ops[o].kind /\ ops'[o].entries = ops[o].entries
      BY <1>10 DEF Ended, Answered, Goes, Alike
    <2> HIDE DEF Clear
    <2> QED
      BY <1>4, <1>5, <1>10, <2>1
  <1>11. ASSUME Emptied(o), Shuffled PROVE BatchInv'
    <2>1. Goes(o) /\ ops'[o].kind = ops[o].kind /\ ops'[o].entries = ops[o].entries
      BY <1>11 DEF Emptied, Goes, Alike
    <2> HIDE DEF Clear
    <2> QED
      BY <1>4, <1>5, <1>11, <2>1
  <1>12. ASSUME Tells(o), Silent(o) PROVE BatchInv'
    <2>1. ASSUME NEW i \in 1..n
          PROVE  f(i).input = e(i).input /\ f(i).result = e(i).result
      <3> DEFINE x == e(i)
      <3>1. f(i) = x \/ f(i) = [x EXCEPT !.told = KeyOf(x)]
        BY <1>12 DEF Tells
      <3>2. x \in Entry
        BY <1>3
      <3> HIDE DEF x
      <3> QED
        BY <3>1, <3>2 DEF Entry, x
    <2>2. Goes(o) /\ Len(ops'[o].entries) = n
      BY <1>12 DEF Tells, Goes, Alike
    <2>3. Stored' = Stored
      BY <1>12 DEF Silent, Stored
    <2>4. \A j \in 1..n : \A i \in 1..(j - 1) : i \in 1..n
      BY <1>3
    <2>a. ASSUME NEW j \in 1..n, NEW i \in 1..(j - 1), f(i).result # NoRecord,
                 f(j).result # NoRecord, f(i).result.id = f(j).result.id
          PROVE  f(i).input.id # NoKey /\ f(j).input.id # NoKey /\ f(i).result \notin Stored
      <3>1. i \in 1..n
        BY <2>4
      <3>2. /\ f(i).input = e(i).input /\ f(i).result = e(i).result
            /\ f(j).input = e(j).input /\ f(j).result = e(j).result
        BY <2>1, <3>1
      <3>3. Clear(ops[o], Stored)
        BY <1>1
      <3>4. e(i).input.id # NoKey /\ e(j).input.id # NoKey /\ e(i).result \notin Stored
        BY <2>a, <3>2, <3>3
      <3> QED
        BY <3>2, <3>4
    <2>5. Clear(ops'[o], Stored)
      BY <2>2, <2>a
    <2> HIDE DEF Clear
    <2> QED
      BY <1>5, <2>2, <2>3, <2>5
  <1>13. CASE Moved(o) \/ Updated(o)
    <2>1. Goes(o) /\ ops'[o].kind \notin Upserting
      BY <1>13 DEF Moved, Updated, Goes, Alike, Trashing, Upserting
    <2>2. ASSUME NEW j \in 1..Len(ops'[o].entries), NEW i \in 1..(j - 1)
          PROVE  ops'[o].entries[i].result = NoRecord
      BY <1>2, <2>1, TwoResults
    <2>3. Clear(ops'[o], Stored')
      BY <2>2
    <2> HIDE DEF Clear
    <2> QED
      BY <1>5, <2>1, <2>3
  <1>14. CASE Put(o)
    <2>1. /\ Goes(o) /\ ops[o].phase \in Early
          /\ trash' = trash
          /\ \A i \in 1..n : /\ Kept(e(i), f(i))
                             /\ IF e(i).input.id = NoKey THEN f(i) = e(i)
                                ELSE f(i).result = e(i).input
          /\ \A k \in Keys :
               \/ live'[k] = live[k]
               \/ \E j \in 1..n : /\ live'[k] = e(j).input /\ e(j).input.id = k
                                  /\ \A i \in 1..n : e(i).input.id = k => i <= j
      BY <1>14 DEF Put, Early
    <2>2. Len(ops'[o].entries) = n
      BY <2>1 DEF Goes, Alike
    <2>3. \A k \in Keys : live[k].op # o /\ trash[k].op # o
      <3>1. o # 0
        BY Constants
      <3> QED
        BY <2>1, <3>1 DEF AllKnown, Known
    <2>4. ASSUME NEW j \in 1..n, NEW i \in 1..(j - 1), f(i).result # NoRecord,
                 f(j).result # NoRecord, f(i).result.id = f(j).result.id
          PROVE  /\ f(i).input.id # NoKey /\ f(j).input.id # NoKey /\ f(i).result \notin Stored'
      <3>1. i \in 1..n /\ i < j
        BY <1>3
      <3>2. /\ e(i).input.id # NoKey /\ f(i).result = e(i).input /\ f(i).input = e(i).input
            /\ e(j).input.id # NoKey /\ f(j).result = e(j).input /\ f(j).input = e(j).input
        BY <1>3, <2>1, <2>4, <3>1 DEF Kept
      <3>3. e(i).input.op = o /\ e(i).input.pos = i
        BY <1>3, <3>1
      <3>4. ASSUME NEW k \in Keys PROVE live'[k] # e(i).input /\ trash'[k] # e(i).input
        <4>1. trash'[k] # e(i).input
          BY <2>1, <2>3, <3>3
        <4>2. ASSUME NEW l \in 1..n, live'[k] = e(l).input, e(l).input.id = k,
                     \A m \in 1..n : e(m).input.id = k => m <= l,
                     live'[k] = e(i).input
              PROVE  FALSE
          <5>1. e(l).input.pos = l /\ l = i
            BY <1>3, <3>3, <4>2
          <5>2. j <= l
            BY <2>4, <3>2, <4>2
          <5> QED
            BY <3>1, <5>1, <5>2
        <4>3. CASE live'[k] = live[k]
          BY <2>3, <3>3, <4>1, <4>3
        <4> QED
          BY <2>1, <4>1, <4>2, <4>3
      <3> QED
        BY <3>2, <3>4 DEF Stored
    <2>5. Clear(ops'[o], Stored')
      BY <2>2, <2>4
    <2> HIDE DEF Clear
    <2> QED
      BY <1>5, <2>1, <2>5
  <1>15. ASSUME NEW m \in 1..n, Generated(o, m) PROVE BatchInv'
    <2> DEFINE w == f(m).result
               x == nextId + 1
    <2>1. /\ Goes(o) /\ trash' = trash /\ live' = [live EXCEPT ![x] = w]
          /\ \A j \in 1..n : j # m => f(j) = e(j)
          /\ Kept(e(m), f(m)) /\ w.op = o /\ w.pos = m /\ w.id = x
      BY <1>15 DEF Generated
    <2>2. Len(ops'[o].entries) = n
      BY <2>1 DEF Goes, Alike
    <2>3. \A r \in Stored' : r \in Stored \/ r = w
      <3> HIDE DEF w, x
      <3>1. \A k \in Keys : live'[k] \in {live[k], w}
        BY <2>1 DEF StoreTypes
      <3> QED
        BY <2>1, <3>1 DEF Stored
    <2>4. ASSUME NEW j \in 1..n, NEW i \in 1..(j - 1), f(i).result # NoRecord,
                 f(j).result # NoRecord, f(i).result.id = f(j).result.id
          PROVE  f(i).input.id # NoKey /\ f(j).input.id # NoKey /\ f(i).result \notin Stored'
      <3>1. i \in 1..n /\ i # j /\ ops'[o].kind = ops[o].kind
        BY <1>3, <2>1 DEF Goes, Alike
      <3>2. ops[o].kind \in Upserting /\ f(i).result.pos = f(i).input.pos
        BY <1>2, <2>2, <2>4, <3>1, TwoResults
      <3>3. \A l \in 1..n : l # m => f(l).result.id # x
        <4>1. \A l \in 1..n : e(l).result.id <= nextId /\ e(l).result.id \in 0..MaxKey
          BY <1>3, <3>2 DEF LowInv, Entry, Record
        <4>2. nextId \in Nat
          BY Constants DEF StoreTypes
        <4>3. \A l \in 1..n : e(l).result.id # x
          BY <4>1, <4>2, Constants
        <4> QED
          BY <2>1, <4>3
      <3>4. i # m /\ j # m
        BY <2>1, <2>4, <3>1, <3>3
      <3>5. f(i) = e(i) /\ f(j) = e(j)
        BY <2>1, <3>1, <3>4
      <3>6. f(i).input.id # NoKey /\ f(j).input.id # NoKey /\ f(i).result \notin Stored
        BY <1>1, <2>4, <3>5
      <3>7. f(i).result # w
        BY <1>3, <2>1, <3>1, <3>2, <3>4, <3>5
      <3> QED
        BY <2>3, <3>6, <3>7
    <2>5. Clear(ops'[o], Stored')
      BY <2>2, <2>4
    <2> HIDE DEF Clear
    <2> QED
      BY <1>5, <2>1, <2>5
  <1> HIDE DEF Clear
  <1> QED
    BY <1>7, <1>8, <1>9, <1>10, <1>11, <1>12, <1>13, <1>14, <1>15 DEF Silent, Writes

-----------------------------------------------------------------------------
(* The keys of the entries, as long as no subscriber exchanges one. *)

LEMMA KeyOfIs ==
    ASSUME NEW e \in Entry
    PROVE  KeyOf(e) = IF e.key # NoKey THEN e.key
                      ELSE IF e.result.id # NoKey THEN e.result.id
                      ELSE IF e.existing.id # NoKey THEN e.existing.id
                      ELSE IF e.lookup # NoKey THEN e.lookup
                      ELSE e.input.id
  <1> DEFINE ks == <<e.key, e.result.id, e.existing.id, e.lookup, e.input.id>>
             known == {i \in 1..Len(ks) : ks[i] # NoKey}
  <1>1. /\ Len(ks) = 5 /\ ks[1] = e.key /\ ks[2] = e.result.id /\ ks[3] = e.existing.id
        /\ ks[4] = e.lookup /\ ks[5] = e.input.id
    OBVIOUS
  <1>2. KeyOf(e) = IF known = {} THEN NoKey ELSE ks[Min(known)]
    BY DEF KeyOf, FirstKey, ks
  <1> HIDE DEF ks
  <1>3. ASSUME NEW i \in 1..5, ks[i] # NoKey, \A j \in 1..(i - 1) : ks[j] = NoKey
        PROVE  KeyOf(e) = ks[i]
    <2>1. i \in known /\ \A j \in known : j \in 1..5 /\ i <= j
      BY <1>1, <1>3
    <2> DEFINE m == Min(known)
    <2> HIDE DEF known
    <2>2. m \in known /\ \A j \in known : m <= j
      BY <2>1 DEF Min
    <2> HIDE DEF m
    <2>3. m \in 1..5 /\ i <= m /\ m <= i
      BY <2>1, <2>2
    <2>4. m = i
      BY <2>3
    <2>5. known # {}
      BY <2>1
    <2> QED
      BY <1>2, <2>4, <2>5 DEF m
  <1>4. (\A i \in 1..5 : ks[i] = NoKey) => KeyOf(e) = NoKey
    BY <1>1, <1>2
  <1> HIDE DEF known
  <1>5. CASE ks[1] # NoKey
    BY <1>1, <1>3, <1>5
  <1>6. CASE ks[1] = NoKey /\ ks[2] # NoKey
    <2>1. \A j \in 1..(2 - 1) : ks[j] = NoKey
      BY <1>6
    <2> QED
      BY <1>1, <1>3, <1>6, <2>1
  <1>7. CASE ks[1] = NoKey /\ ks[2] = NoKey /\ ks[3] # NoKey
    <2>1. \A j \in 1..(3 - 1) : ks[j] = NoKey
      BY <1>7
    <2> QED
      BY <1>1, <1>3, <1>7, <2>1
  <1>8. CASE ks[1] = NoKey /\ ks[2] = NoKey /\ ks[3] = NoKey /\ ks[4] # NoKey
    <2>1. \A j \in 1..(4 - 1) : ks[j] = NoKey
      BY <1>8
    <2> QED
      BY <1>1, <1>3, <1>8, <2>1
  <1>9. CASE /\ ks[1] = NoKey /\ ks[2] = NoKey /\ ks[3] = NoKey /\ ks[4] = NoKey
             /\ ks[5] # NoKey
    <2>1. \A j \in 1..(5 - 1) : ks[j] = NoKey
      BY <1>9
    <2> QED
      BY <1>1, <1>3, <1>9, <2>1
  <1>10. CASE /\ ks[1] = NoKey /\ ks[2] = NoKey /\ ks[3] = NoKey /\ ks[4] = NoKey
              /\ ks[5] = NoKey
    <2>1. \A j \in 1..5 : ks[j] = NoKey
      BY <1>10
    <2> QED
      BY <1>1, <1>4, <1>10, <2>1
  <1> QED
    BY <1>5, <1>6, <1>7, <1>8, <1>9, <1>10

(* The mutations whose after-events show the keys of all their entries. *)
Telling == Mutations \ {"duplicate"}

(* The key a caller named, or NoKey. *)
Base(e) == IF e.lookup # NoKey THEN e.lookup ELSE e.input.id

NoneRekeyed ==
    \A o \in Ops : \A i \in 1..Len(ops[o].entries) : Plain(ops[o].entries[i])

KeyedStore ==
    \A k \in Keys : /\ live[k] # NoRecord => live[k].id = k
                    /\ trash[k] # NoRecord => trash[k].id = k

EntryKeyed(e) ==
    /\ e.existing.id \in {NoKey, Base(e)} /\ e.key \in {NoKey, Base(e)}
    /\ e.result # NoRecord => e.result.id # NoKey /\ Base(e) \in {NoKey, e.result.id}

Keyed(op) == op.kind \in Telling => \A i \in 1..Len(op.entries) : EntryKeyed(op.entries[i])

KeyedOps == \A o \in Ops : Keyed(ops[o])

(* What is written is told, or an event that will tell it is outstanding.   *)
Awaits(op, i) == op.phase = "after" /\ \E n \in 1..Len(op.todo) : i \in Group(op, op.todo[n])

ToldOrAwaits(op) ==
    (op.kind \in Telling /\ ~op.silent /\ op.phase \in {"after", "done"}) =>
       \A i \in 1..Len(op.entries) :
          /\ op.entries[i].result # NoRecord
          /\ op.entries[i].told = op.entries[i].result.id \/ Awaits(op, i)

ToldOps == \A o \in Ops : ToldOrAwaits(ops[o])

KeyInv == NoneRekeyed => KeyedStore /\ KeyedOps /\ ToldOps

(* The events of a mutation carry all its entries. *)
LEMMA Covered ==
    ASSUME NEW op \in Call, op.kind \in Telling, ~op.silent, NEW i \in 1..Len(op.entries)
    PROVE  \E n \in 1..Len(Events(op)) : i \in Group(op, Events(op)[n])
  <1>1. op.kind \notin Queries /\ op.kind # "duplicate"
    BY DEF Telling, Mutations, Queries, Creating, Upserting, Trashing
  <1>2. CASE op.kind \notin Upserting
    <2>1. i \in Group(op, op.kind)
      BY <1>1, <1>2 DEF Group
    <2>2. Events(op) = <<op.kind>>
      BY <1>1, <1>2 DEF Events
    <2> DEFINE es == <<op.kind>>
    <2>3. Len(es) = 1 /\ es[1] = op.kind
      OBVIOUS
    <2> HIDE DEF es
    <2> QED
      BY <2>1, <2>2, <2>3 DEF es
  <1>3. CASE op.kind \in Upserting
    <2> DEFINE c == IF Group(op, "create") # {} THEN <<"create">> ELSE <<>>
               u == IF Group(op, "update") # {} THEN <<"update">> ELSE <<>>
    <2>1. Events(op) = c \o u
      BY <1>1, <1>3, Zenon DEF Events
    <2>2. /\ Group(op, "create") # {} => Len(c) = 1 /\ c[1] = "create"
          /\ Group(op, "create") = {} => Len(c) = 0
          /\ Group(op, "update") # {} => Len(u) = 1 /\ u[1] = "update"
          /\ Group(op, "update") = {} => Len(u) = 0
          /\ c \in Seq(EventNames) /\ u \in Seq(EventNames)
      <3>1. ASSUME NEW a \in EventNames
            PROVE  /\ <<a>> \in Seq(EventNames) /\ Len(<<a>>) = 1 /\ <<a>>[1] = a
                   /\ <<>> \in Seq(EventNames) /\ Len(<<>>) = 0
        OBVIOUS
      <3>2. "create" \in EventNames /\ "update" \in EventNames
        BY DEF EventNames, Mutations, Creating
      <3> DEFINE a == <<"create">>
                 b == <<"update">>
      <3>3. /\ a \in Seq(EventNames) /\ Len(a) = 1 /\ a[1] = "create"
            /\ b \in Seq(EventNames) /\ Len(b) = 1 /\ b[1] = "update"
            /\ <<>> \in Seq(EventNames) /\ Len(<<>>) = 0
        BY <3>1, <3>2
      <3> HIDE DEF a, b
      <3>4. /\ c = IF Group(op, "create") # {} THEN a ELSE <<>>
            /\ u = IF Group(op, "update") # {} THEN b ELSE <<>>
        BY DEF a, b
      <3> HIDE DEF c, u
      <3> QED
        BY <3>3, <3>4
    <2> DEFINE es == c \o u
    <2> HIDE DEF c, u
    <2>3. /\ Len(es) = Len(c) + Len(u)
          /\ \A n \in 1..(Len(c) + Len(u)) : es[n] = IF n <= Len(c) THEN c[n] ELSE u[n - Len(c)]
      BY <2>2, ConcatProperties
    <2> HIDE DEF es
    <2>4. CASE op.entries[i].existing = NoRecord
      <3>1. i \in Group(op, "create")
        BY <1>1, <2>4 DEF Group
      <3>2. 1 \in 1..Len(es) /\ es[1] = "create"
        <4>1. Len(c) = 1 /\ c[1] = "create" /\ Len(u) \in Nat
          BY <2>2, <3>1
        <4> QED
          BY <2>3, <4>1
      <3> QED
        BY <2>1, <3>1, <3>2 DEF es
    <2>5. CASE op.entries[i].existing # NoRecord
      <3>1. i \in Group(op, "update")
        BY <1>1, <2>5 DEF Group
      <3>2. Len(u) = 1 /\ u[1] = "update" /\ Len(c) \in {0, 1}
        BY <2>2, <3>1
      <3>3. Len(c) + 1 \in 1..Len(es) /\ es[Len(c) + 1] = "update"
        BY <2>3, <3>2
      <3> QED
        BY <2>1, <3>1, <3>3 DEF es
    <2> QED
      BY <2>4, <2>5
  <1> QED
    BY <1>2, <1>3

(* A key that was exchanged stays exchanged. *)
LEMMA PlainBack ==
    ASSUME OpsSound, FormInv, NEW o \in Ops, Silent(o) \/ Writes(o), NoneRekeyed'
    PROVE  NoneRekeyed
  <1> DEFINE e(i) == ops[o].entries[i]
             f(i) == ops'[o].entries[i]
             n == Len(ops[o].entries)
  <1>1. \A i \in 1..n : e(i) \in Entry
    BY FieldsAre
  <1>2. CASE Launched(o)
    <2>1. PICK k \in EventNames, phase \in {"load", "before"}, entries \in Seq(Entry) :
             Started(o, k, entries, phase)
      BY <1>2 DEF Launched
    <2>2. n = 0
      BY <2>1 DEF Started, FormInv, Form
    <2>3. \A p \in Ops \ {o} : ops'[p].entries = ops[p].entries
      BY <2>1 DEF Started, Aside
    <2> QED
      BY <2>2, <2>3 DEF NoneRekeyed
  <1>3. ASSUME Goes(o), \A i \in 1..n : Plain(f(i)) => Plain(e(i)) PROVE NoneRekeyed
    <2>1. Len(ops'[o].entries) = n /\ \A p \in Ops \ {o} : ops'[p] = ops[p]
      BY <1>3 DEF Goes, Alike
    <2>2. \A i \in 1..n : Plain(e(i))
      BY <1>3, <2>1 DEF NoneRekeyed
    <2>3. \A p \in Ops \ {o} : \A i \in 1..Len(ops[p].entries) : Plain(ops[p].entries[i])
      BY <2>1 DEF NoneRekeyed
    <2> QED
      BY <2>2, <2>3 DEF NoneRekeyed
  <1>4. CASE Fetched(o) \/ Tells(o)
    <2>1. ASSUME NEW i \in 1..n PROVE f(i).input = e(i).input
      <3> DEFINE x == e(i)
      <3>1. \/ f(i) = x \/ f(i) = [x EXCEPT !.told = KeyOf(x)]
            \/ f(i) = [x EXCEPT !.existing = Looked(x)]
        BY <1>4 DEF Fetched, Tells, Looked
      <3>2. x \in Entry
        BY <1>1
      <3> HIDE DEF x
      <3>3. f(i).input = x.input
        BY <3>1, <3>2 DEF Entry
      <3> QED
        BY <3>3 DEF x
    <2> QED
      BY <1>3, <1>4, <2>1 DEF Plain, Fetched, Tells
  <1>5. CASE Asked(o)
    BY <1>3, <1>5 DEF Asked, HeardAs
  <1>6. CASE Ended(o) \/ Answered(o) \/ Emptied(o)
    BY <1>3, <1>6 DEF Ended, Answered, Emptied
  <1>7. CASE Moved(o) \/ Updated(o)
    <2>1. Goes(o) /\ n = 1 /\ f(1).input = e(1).input
      BY <1>7 DEF Moved, Updated, Kept
    <2>2. \A i \in 1..n : Plain(f(i)) => Plain(e(i))
      BY <2>1 DEF Plain
    <2> QED
      BY <1>3, <2>1, <2>2
  <1>8. CASE Put(o)
    <2>1. Goes(o) /\ \A i \in 1..n : f(i).input = e(i).input
      BY <1>8 DEF Put, Kept
    <2> QED
      BY <1>3, <2>1 DEF Plain
  <1>9. ASSUME NEW i \in 1..n, Generated(o, i) PROVE NoneRekeyed
    <2>1. Goes(o) /\ \A j \in 1..n : f(j).input = e(j).input
      BY <1>9 DEF Generated, Kept
    <2> QED
      BY <1>3, <2>1 DEF Plain
  <1> QED
    BY <1>2, <1>4, <1>5, <1>6, <1>7, <1>8, <1>9 DEF Silent, Writes

LEMMA KeyedStoreNext ==
    ASSUME OpsSound, StoreTypes, FormInv, NoneRekeyed, KeyedStore,
           NEW o \in Ops, Silent(o) \/ Writes(o)
    PROVE  KeyedStore'
  <1> DEFINE e(i) == ops[o].entries[i]
             n == Len(ops[o].entries)
  <1>1. \A i \in 1..n : e(i) \in Entry /\ e(i).input \in Record /\ Plain(e(i))
    BY FieldsAre DEF NoneRekeyed, Entry
  <1>2. ASSUME NEW k \in Keys
        PROVE  /\ live'[k] # NoRecord => live'[k].id = k
               /\ trash'[k] # NoRecord => trash'[k].id = k
    <2>1. /\ live[k] # NoRecord => live[k].id = k
          /\ trash[k] # NoRecord => trash[k].id = k
      BY DEF KeyedStore
    <2>2. CASE Silent(o) \/ Shuffled
      BY <2>1, <2>2 DEF Silent, Shuffled
    <2>3. CASE Updated(o)
      <3> DEFINE x == e(1).lookup
                 w == ops'[o].entries[1].result
                 id == live[x].id
      <3>1. /\ live' = [live EXCEPT ![x] = w] /\ trash' = trash /\ n = 1
            /\ x \in Keys /\ live[x] # NoRecord /\ ops[o].kind = "update"
            /\ e(1).input.id = NoKey => w = [e(1).input EXCEPT !.id = id]
        BY <2>3 DEF Updated
      <3>2. e(1).input.id = NoKey
        BY <1>1, <3>1 DEF FormInv, Form, EntryForm
      <3>3. id = x
        BY <3>1 DEF KeyedStore
      <3> HIDE DEF w, x, id
      <3>4. w.id = x
        BY <1>1, <3>1, <3>2, <3>3 DEF Record
      <3>5. live'[k] = IF k = x THEN w ELSE live[k]
        BY <3>1 DEF StoreTypes
      <3> QED
        BY <2>1, <3>1, <3>4, <3>5
    <2>4. CASE Put(o)
      <3>1. /\ trash' = trash
            /\ live'[k] = live[k] \/ \E j \in 1..n : live'[k] = e(j).input /\ e(j).input.id = k
        BY <2>4 DEF Put
      <3> QED
        BY <2>1, <3>1
    <2>5. ASSUME NEW i \in 1..n, Generated(o, i)
          PROVE  /\ live'[k] # NoRecord => live'[k].id = k
                 /\ trash'[k] # NoRecord => trash'[k].id = k
      <3> DEFINE w == ops'[o].entries[i].result
                 x == nextId + 1
      <3>1. live' = [live EXCEPT ![x] = w] /\ trash' = trash /\ w.id = x
        BY <2>5 DEF Generated
      <3> HIDE DEF w, x
      <3>2. live'[k] = IF k = x THEN w ELSE live[k]
        BY <3>1 DEF StoreTypes
      <3> QED
        BY <2>1, <3>1, <3>2
    <2> QED
      BY <2>2, <2>3, <2>4, <2>5 DEF Writes
  <1> QED
    BY <1>2 DEF KeyedStore

LEMMA KeyedOpsNext ==
    ASSUME OpsSound, StoreTypes, FormInv, NoneRekeyed, NoneRekeyed', KeyedStore, KeyedOps,
           NEW o \in Ops, Silent(o) \/ Writes(o)
    PROVE  KeyedOps'
  <1> DEFINE e(i) == ops[o].entries[i]
             f(i) == ops'[o].entries[i]
             n == Len(ops[o].entries)
             kind == ops[o].kind
  <1>1. \A i \in 1..n : /\ e(i) \in Entry /\ e(i).input \in Record /\ Plain(e(i))
                        /\ e(i).lookup \in 0..MaxKey /\ EntryForm(o, kind, e(i))
    BY FieldsAre DEF NoneRekeyed, Entry, FormInv, Form
  <1>2. \A k \in 0..MaxKey : k # NoKey => k \in Keys
    BY Constants
  <1>3. \A p \in Ops : Keyed(ops[p])
    BY DEF KeyedOps
  <1>4. ASSUME Goes(o)
        PROVE  /\ ops'[o].kind = kind /\ Len(ops'[o].entries) = n
               /\ \A i \in 1..n : f(i).lookup = e(i).lookup /\ Plain(f(i))
               /\ \A p \in Ops \ {o} : ops'[p] = ops[p]
    BY <1>4 DEF Goes, Alike, NoneRekeyed
  <1>5. ASSUME Goes(o), kind \in Telling => \A i \in 1..n : EntryKeyed(f(i)) PROVE KeyedOps'
    <2>1. Keyed(ops'[o])
      BY <1>4, <1>5 DEF Keyed
    <2> QED
      BY <1>3, <1>4, <1>5, <2>1 DEF KeyedOps
  <1>6. kind \in Telling => \A i \in 1..n : EntryKeyed(e(i))
    BY <1>3 DEF Keyed
  <1>7. CASE Launched(o)
    <2>1. PICK k \in EventNames, phase \in {"load", "before"}, entries \in Seq(Entry) :
             Started(o, k, entries, phase) /\ Begun(k, entries, phase)
      BY <1>7 DEF Launched
    <2>2. \A i \in 1..Len(entries) : EntryKeyed(entries[i])
      BY <2>1, RecordsAre DEF Begun, EntryKeyed
    <2>3. ops'[o].entries = entries
      BY <2>1 DEF Started
    <2>4. Keyed(ops'[o])
      BY <2>2, <2>3 DEF Keyed
    <2>5. \A p \in Ops \ {o} : ops'[p].kind = ops[p].kind /\ ops'[p].entries = ops[p].entries
      BY <2>1 DEF Started, Aside
    <2>6. \A p \in Ops \ {o} : Keyed(ops'[p])
      BY <1>3, <2>5 DEF Keyed
    <2> QED
      BY <2>4, <2>6 DEF KeyedOps
  <1>8. CASE Fetched(o)
    <2>1. ASSUME NEW i \in 1..n, EntryKeyed(e(i)) PROVE EntryKeyed(f(i))
      <3> DEFINE x == e(i)
                 found == Looked(x)
      <3>1. f(i) = [x EXCEPT !.existing = found]
        BY <1>8 DEF Fetched, Looked
      <3>2. x \in Entry
        BY <1>1
      <3>3. found.id \in {NoKey, Base(x)}
        <4>1. CASE x.lookup = NoKey
          BY <4>1, RecordsAre DEF Looked
        <4>2. CASE x.lookup # NoKey
          <5>1. x.lookup \in Keys /\ Base(x) = x.lookup /\ found = live[x.lookup]
            BY <1>1, <1>2, <4>2 DEF Base, Looked
          <5> QED
            BY <5>1, RecordsAre DEF KeyedStore
        <4> QED
          BY <4>1, <4>2
      <3> HIDE DEF x, found
      <3>4. /\ f(i).existing = found /\ f(i).key = x.key /\ f(i).result = x.result
            /\ f(i).lookup = x.lookup /\ f(i).input = x.input
        BY <3>1, <3>2 DEF Entry
      <3> QED
        BY <2>1, <3>3, <3>4 DEF EntryKeyed, Base, x
    <2> QED
      BY <1>5, <1>6, <1>8, <2>1 DEF Fetched
  <1>9. CASE Asked(o)
    <2>1. Goes(o) /\ ops[o].phase \in Early
      BY <1>9 DEF Asked, Early
    <2>2. ASSUME NEW i \in 1..n, EntryKeyed(e(i)) PROVE EntryKeyed(f(i))
      <3> DEFINE x == e(i)
                 y == f(i)
      <3>1. HeardAs(x, y) /\ Plain(y) /\ y.lookup = x.lookup
        BY <1>4, <1>9, <2>1 DEF Asked
      <3>2. x \in Entry /\ x.result = NoRecord /\ EntryKeyed(x)
        BY <1>1, <2>1, <2>2 DEF OpsSound, Sound
      <3> HIDE DEF x, y
      <3>3. y.existing = x.existing /\ y.result = NoRecord /\ Base(y) = Base(x)
        BY <3>1, <3>2 DEF HeardAs, Base
      <3>4. KeyOf(x) \in {NoKey, Base(x)}
        <4>1. x.key \in {NoKey, Base(x)} /\ x.existing.id \in {NoKey, Base(x)}
              /\ x.result.id = NoKey
          BY <3>2, RecordsAre DEF EntryKeyed
        <4> QED
          BY <3>2, <4>1, KeyOfIs DEF Base
      <3>5. y.key \in {NoKey, Base(x)}
        BY <3>1, <3>2, <3>4 DEF HeardAs, EntryKeyed
      <3>6. EntryKeyed(y)
        BY <3>2, <3>3, <3>5 DEF EntryKeyed
      <3> QED
        BY <3>6 DEF y
    <2> QED
      BY <1>5, <1>6, <2>1, <2>2
  <1>10. CASE Ended(o) \/ Answered(o) \/ Emptied(o)
    BY <1>5, <1>6, <1>10 DEF Ended, Answered, Emptied
  <1>11. CASE Tells(o)
    <2>1. ASSUME NEW i \in 1..n, EntryKeyed(e(i)) PROVE EntryKeyed(f(i))
      <3> DEFINE x == e(i)
      <3>1. f(i) = x \/ f(i) = [x EXCEPT !.told = KeyOf(x)]
        BY <1>11 DEF Tells
      <3>2. x \in Entry
        BY <1>1
      <3> HIDE DEF x
      <3>3. /\ f(i).existing = x.existing /\ f(i).key = x.key /\ f(i).result = x.result
            /\ f(i).lookup = x.lookup /\ f(i).input = x.input
        BY <3>1, <3>2 DEF Entry
      <3> QED
        BY <2>1, <3>3 DEF EntryKeyed, Base, x
    <2> QED
      BY <1>5, <1>6, <1>11, <2>1 DEF Tells
  <1>12. ASSUME Goes(o), NEW i \in 1..n, EntryKeyed(e(i)), Kept(e(i), f(i)),
                f(i).result # NoRecord =>
                   f(i).result.id # NoKey /\ Base(e(i)) \in {NoKey, f(i).result.id}
         PROVE  EntryKeyed(f(i))
    <2>1. Base(f(i)) = Base(e(i))
      BY <1>4, <1>12 DEF Base, Kept
    <2> QED
      BY <1>12, <2>1 DEF EntryKeyed, Kept
  <1>13. CASE Moved(o)
    <2> DEFINE x == e(1)
               k == x.input.id
               w == f(1).result
    <2>0. n = 1
      BY <1>13 DEF Moved
    <2>1. /\ Goes(o) /\ kind \in Trashing /\ n = 1 /\ Kept(e(1), f(1)) /\ k \in Keys
          /\ w # NoRecord /\ w \in {live[k], trash[k]}
      BY <1>13 DEF Moved
    <2>2. w.id = k
      <3> HIDE DEF w, k
      <3> QED
        BY <2>1 DEF KeyedStore
    <2>3. x.lookup = k /\ k # NoKey
      <3>1. 1 \in 1..n
        BY <2>0
      <3> HIDE DEF e, n, kind
      <3>2. EntryForm(o, kind, x) /\ Plain(x)
        BY <1>1, <3>1
      <3> HIDE DEF x
      <3> QED
        BY <2>1, <3>2, Constants DEF EntryForm
    <2>4. Base(x) = k
      BY <2>3 DEF Base
    <2>5. EntryKeyed(e(1)) => EntryKeyed(f(1))
      <3>1. 1 \in 1..n
        BY <2>0
      <3> HIDE DEF k, w, e, f, n
      <3> QED
        BY <1>12, <2>1, <2>2, <2>3, <2>4, <3>1 DEF w
    <2>6. Goes(o)
      BY <2>1
    <2> QED
      BY <1>5, <1>6, <2>0, <2>5, <2>6
  <1>14. CASE Updated(o)
    <2> DEFINE x == e(1).lookup
               w == f(1).result
               id == live[x].id
    <2>1. /\ Goes(o) /\ kind = "update" /\ n = 1 /\ Kept(e(1), f(1))
          /\ x \in Keys /\ live[x] # NoRecord
          /\ e(1).input.id = NoKey => w = [e(1).input EXCEPT !.id = id]
      BY <1>14 DEF Updated
    <2>2. e(1).input.id = NoKey
      BY <1>1, <2>1 DEF EntryForm
    <2>3. id = x /\ x # NoKey
      BY <2>1, Constants DEF KeyedStore
    <2>4. Base(e(1)) = x
      BY <2>3 DEF Base
    <2> HIDE DEF w, x, id
    <2>5. w.id = x
      BY <1>1, <2>1, <2>2, <2>3 DEF Record
    <2>6. EntryKeyed(e(1)) => EntryKeyed(f(1))
      BY <1>12, <2>1, <2>3, <2>4, <2>5 DEF w
    <2> QED
      BY <1>5, <1>6, <2>1, <2>6
  <1>15. CASE Put(o)
    <2>1. /\ Goes(o) /\ kind \in Creating \cup Upserting
          /\ \A i \in 1..n : /\ Kept(e(i), f(i))
                             /\ IF e(i).input.id = NoKey THEN f(i) = e(i)
                                ELSE f(i).result = e(i).input
      BY <1>15 DEF Put
    <2>2. ASSUME NEW i \in 1..n, EntryKeyed(e(i)), kind \in Telling PROVE EntryKeyed(f(i))
      <3>1. CASE e(i).input.id = NoKey
        <4>1. f(i) = e(i)
          BY <2>1, <3>1
        <4> QED
          BY <2>2, <4>1
      <3>2. CASE e(i).input.id # NoKey
        <4>1. f(i).result = e(i).input
          BY <2>1, <3>2
        <4>2. Base(e(i)) = e(i).input.id
          BY <1>1, <2>1, <2>2 DEF EntryForm, Base, Telling, Creating
        <4> QED
          BY <1>12, <2>1, <2>2, <3>2, <4>1, <4>2
      <3> QED
        BY <3>1, <3>2
    <2> QED
      BY <1>5, <1>6, <2>1, <2>2
  <1>16. ASSUME NEW i \in 1..n, Generated(o, i) PROVE KeyedOps'
    <2>1. /\ Goes(o) /\ ops[o].phase = "generate" /\ e(i).result = NoRecord
          /\ \A j \in 1..n : j # i => f(j) = e(j)
          /\ Kept(e(i), f(i)) /\ f(i).result.id \in Keys
      BY <1>16 DEF Generated
    <2>2. kind \in Creating \cup Upserting /\ e(i).input.id = NoKey
      BY <2>1 DEF FormInv, Form
    <2>3. kind \in Telling => Base(e(i)) = NoKey
      BY <1>1, <2>2 DEF EntryForm, Base, Telling, Creating
    <2>4. kind \in Telling /\ EntryKeyed(e(i)) => EntryKeyed(f(i))
      BY <1>12, <2>1, <2>3, Constants
    <2> QED
      BY <1>5, <1>6, <2>1, <2>4
  <1> QED
    BY <1>7, <1>8, <1>9, <1>10, <1>11, <1>13, <1>14, <1>15, <1>16 DEF Silent, Writes

LEMMA ToldOpsNext ==
    ASSUME OpsSound, StoreTypes, FormInv, NoneRekeyed, KeyedOps, ToldOps,
           NEW o \in Ops, Silent(o) \/ Writes(o)
    PROVE  ToldOps'
  <1> DEFINE e(i) == ops[o].entries[i]
             f(i) == ops'[o].entries[i]
             n == Len(ops[o].entries)
             kind == ops[o].kind
             todo == ops[o].todo
             telling == kind \in Telling /\ ~ops[o].silent
  <1>1. /\ ops[o] \in Call /\ n \in Nat /\ \A i \in 1..n : e(i) \in Entry
        /\ todo \in Seq(EventNames)
    BY FieldsAre
  <1>2. \A p \in Ops : ToldOrAwaits(ops[p])
    BY DEF ToldOps
  <1>3. ASSUME Goes(o)
        PROVE  /\ ops'[o].kind = kind /\ ops'[o].silent = ops[o].silent
               /\ Len(ops'[o].entries) = n
               /\ \A p \in Ops \ {o} : ops'[p] = ops[p]
    BY <1>3 DEF Goes, Alike
  <1>4. ASSUME Goes(o),
               telling /\ ops'[o].phase \in {"after", "done"} =>
                  \A i \in 1..n : /\ f(i).result # NoRecord
                                  /\ f(i).told = f(i).result.id \/ Awaits(ops'[o], i)
        PROVE  ToldOps'
    <2>1. ToldOrAwaits(ops'[o])
      BY <1>3, <1>4 DEF ToldOrAwaits
    <2> QED
      BY <1>2, <1>3, <1>4, <2>1 DEF ToldOps
  <1>5. ASSUME Goes(o), \A i \in 1..n : f(i).existing = e(i).existing, NEW event
        PROVE  Group(ops'[o], event) = Group(ops[o], event)
    BY <1>3, <1>5 DEF Group
  <1>6. ASSUME Goes(o), kind # "duplicate", ops'[o].phase = "after",
               ops'[o].todo = AfterEvents(ops[o]),
               \A i \in 1..n : f(i).existing = e(i).existing /\ f(i).result # NoRecord
        PROVE  ToldOps'
    <2>1. ASSUME telling, NEW i \in 1..n PROVE Awaits(ops'[o], i)
      <3>1. PICK m \in 1..Len(Events(ops[o])) : i \in Group(ops[o], Events(ops[o])[m])
        BY <1>1, <2>1, Covered
      <3>2. ops'[o].todo = Events(ops[o])
        BY <1>6 DEF AfterEvents
      <3>3. i \in Group(ops'[o], ops'[o].todo[m]) /\ m \in 1..Len(ops'[o].todo)
        BY <1>5, <1>6, <3>1, <3>2
      <3> QED
        BY <1>6, <3>3 DEF Awaits
    <2> QED
      BY <1>4, <1>6, <2>1
  <1>7. CASE Launched(o)
    <2>1. PICK k \in EventNames, phase \in {"load", "before"}, entries \in Seq(Entry) :
             Started(o, k, entries, phase)
      BY <1>7 DEF Launched
    <2>2. ToldOrAwaits(ops'[o])
      BY <2>1 DEF Started, ToldOrAwaits
    <2>3. ASSUME NEW p \in Ops \ {o} PROVE ToldOrAwaits(ops'[p])
      <3>1. Aside(ops[p], ops'[p])
        BY <2>1 DEF Started
      <3>2. \A event : Group(ops'[p], event) = Group(ops[p], event)
        BY <3>1 DEF Aside, Group
      <3>3. \A i \in 1..Len(ops[p].entries) : Awaits(ops[p], i) => Awaits(ops'[p], i)
        BY <3>1, <3>2 DEF Aside, Awaits
      <3> QED
        BY <1>2, <3>1, <3>3 DEF Aside, ToldOrAwaits
    <2> QED
      BY <2>2, <2>3 DEF ToldOps
  <1>8. CASE Fetched(o) \/ Asked(o)
    <2>1. Goes(o) /\ ops'[o].phase \notin {"after", "done"}
      BY <1>8 DEF Fetched, Asked
    <2> QED
      BY <1>4, <2>1
  <1>9. CASE Ended(o)
    <2>1. /\ Goes(o) /\ ops'[o].entries = ops[o].entries
          /\ ops'[o].phase \in {"after", "done"} => ops[o].phase = "after" /\ todo = <<>>
      BY <1>9 DEF Ended
    <2>2. todo = <<>> => \A i \in 1..n : ~Awaits(ops[o], i)
      BY DEF Awaits
    <2> QED
      BY <1>2, <1>4, <2>1, <2>2 DEF ToldOrAwaits
  <1>10. CASE Tells(o)
    <2> DEFINE group == Group(ops[o], Head(todo))
    <2>1. /\ Goes(o) /\ ops[o].phase = "after" /\ ops'[o].phase = "after"
          /\ todo # <<>> /\ ops'[o].todo = Tail(todo)
      BY <1>10 DEF Tells
    <2>2. ASSUME NEW i \in 1..n
          PROVE  /\ f(i).existing = e(i).existing /\ f(i).result = e(i).result
                 /\ f(i).told = IF i \in group THEN KeyOf(e(i)) ELSE e(i).told
      <3> DEFINE x == e(i)
      <3>1. f(i) = IF i \in group THEN [x EXCEPT !.told = KeyOf(x)] ELSE x
        BY <1>10 DEF Tells
      <3>2. x \in Entry
        BY <1>1
      <3> HIDE DEF x, group
      <3>3. /\ f(i).existing = x.existing /\ f(i).result = x.result
            /\ f(i).told = IF i \in group THEN KeyOf(x) ELSE x.told
        BY <3>1, <3>2 DEF Entry
      <3> QED
        BY <3>3 DEF x
    <2>3. ASSUME telling, NEW i \in 1..n
          PROVE  /\ f(i).result # NoRecord
                 /\ f(i).told = f(i).result.id \/ Awaits(ops'[o], i)
      <3>1. /\ e(i).result # NoRecord
            /\ e(i).told = e(i).result.id \/ Awaits(ops[o], i)
        BY <1>2, <2>1, <2>3 DEF ToldOrAwaits
      <3>2. CASE i \in group
        <4>1. EntryKeyed(e(i))
          BY <2>3 DEF KeyedOps, Keyed
        <4>2. KeyOf(e(i)) = e(i).result.id
          <5> DEFINE x == e(i)
          <5>1. /\ x \in Entry /\ x.result # NoRecord /\ EntryKeyed(x)
            BY <1>1, <3>1, <4>1
          <5> HIDE DEF x
          <5>2. KeyOf(x) = x.result.id
            BY <5>1, KeyOfIs DEF EntryKeyed
          <5> QED
            BY <5>2 DEF x
        <4> QED
          BY <2>2, <3>1, <3>2, <4>2
      <3>3. CASE i \notin group /\ Awaits(ops[o], i)
        <4>1. PICK m \in 1..Len(todo) : i \in Group(ops[o], todo[m])
          BY <3>3 DEF Awaits
        <4>2. /\ Head(todo) = todo[1] /\ Len(todo) \in Nat
              /\ Len(Tail(todo)) = Len(todo) - 1
              /\ \A l \in 1..Len(Tail(todo)) : Tail(todo)[l] = todo[l + 1]
          BY <1>1, <2>1, HeadTailProperties, LenProperties
        <4>3. m # 1
          BY <3>3, <4>1, <4>2
        <4> DEFINE t == Tail(todo)
                   l == m - 1
        <4>4. l \in 1..Len(t) /\ t[l] = todo[m]
          BY <4>1, <4>2, <4>3
        <4>5. ops'[o].todo = t
          BY <2>1
        <4> HIDE DEF t, l
        <4>6. i \in Group(ops'[o], ops'[o].todo[l])
          BY <1>5, <2>1, <2>2, <4>1, <4>4, <4>5
        <4>7. Awaits(ops'[o], i)
          BY <2>1, <4>4, <4>5, <4>6 DEF Awaits
        <4> QED
          BY <2>2, <3>1, <4>7
      <3>4. CASE i \notin group /\ e(i).told = e(i).result.id
        BY <2>2, <3>1, <3>4
      <3> QED
        BY <3>1, <3>2, <3>3, <3>4
    <2> QED
      BY <1>4, <2>1, <2>3
  <1>11. CASE Answered(o)
    <2>1. Goes(o) /\ kind \notin Telling
      BY <1>11 DEF Answered, Telling, Queries, Mutations, Creating, Upserting, Trashing
    <2> QED
      BY <1>4, <2>1
  <1>12. CASE Emptied(o)
    <2>1. Goes(o) /\ n = 0
      BY <1>12 DEF Emptied, FormInv, Form
    <2> QED
      BY <1>4, <2>1
  <1>13. CASE Moved(o) \/ Updated(o)
    <2>1. /\ Goes(o) /\ kind # "duplicate" /\ ops'[o].phase = "after" /\ n = 1
          /\ ops'[o].todo = AfterEvents(ops[o]) /\ f(1).existing = e(1).existing
      BY <1>13 DEF Moved, Updated, Kept, Trashing
    <2>2. f(1).result # NoRecord
      <3>1. CASE Moved(o)
        BY <3>1 DEF Moved
      <3>2. CASE Updated(o)
        <4> DEFINE w == f(1).result
                   id == live[e(1).lookup].id
        <4>1. w = e(1).input \/ w = [e(1).input EXCEPT !.id = id]
          BY <3>2 DEF Updated
        <4>2. e(1).input \in Record /\ e(1).input.op = o
          <5>1. e(1) \in Entry
            BY <1>1, <2>1
          <5>2. Fits(o, ops[o].kind, ops[o].entries)
            BY DEF OpsSound, Sound
          <5>3. e(1).input.op = o
            BY <2>1, <5>2 DEF Fits
          <5> HIDE DEF e
          <5> QED
            BY <5>1, <5>3 DEF Entry
        <4> HIDE DEF w, id
        <4>3. w.op = o
          BY <4>1, <4>2 DEF Record
        <4>4. w # NoRecord
          BY <4>3, RecordsAre, Constants
        <4> QED
          BY <4>4 DEF w
      <3> QED
        BY <1>13, <3>1, <3>2
    <2> QED
      BY <1>6, <2>1, <2>2
  <1>14. CASE Put(o)
    <2>1. /\ Goes(o) /\ \A i \in 1..n : f(i).existing = e(i).existing
          /\ IF \A i \in 1..n : e(i).input.id # NoKey
             THEN ops'[o].phase = "after" /\ ops'[o].todo = AfterEvents(ops[o])
             ELSE ops'[o].phase = "generate"
          /\ \A i \in 1..n : e(i).input.id # NoKey => f(i).result = e(i).input
      BY <1>14 DEF Put, Kept
    <2>2. CASE ops'[o].phase = "generate"
      BY <1>4, <2>1, <2>2
    <2>3. CASE ops'[o].phase # "generate" /\ kind # "duplicate"
      <3>1. \A i \in 1..n : f(i).result # NoRecord
        BY <2>1, <2>3, RecordsAre
      <3> QED
        BY <1>6, <2>1, <2>3, <3>1
    <2>4. CASE kind = "duplicate"
      BY <1>4, <2>1, <2>4 DEF Telling
    <2> QED
      BY <2>2, <2>3, <2>4
  <1>15. ASSUME NEW i \in 1..n, Generated(o, i) PROVE ToldOps'
    <2>1. /\ Goes(o) /\ \A j \in 1..n : f(j).existing = e(j).existing
          /\ ops'[o].phase \in {"generate", "after"}
          /\ ops'[o].phase = "after" =>
               /\ ops'[o].todo = AfterEvents(ops[o])
               /\ \A j \in 1..n : j # i => e(j).result # NoRecord
          /\ f(i).result # NoRecord /\ \A j \in 1..n : j # i => f(j) = e(j)
      BY <1>15 DEF Generated, Kept
    <2>2. CASE ops'[o].phase = "generate"
      BY <1>4, <2>1, <2>2
    <2>3. CASE ops'[o].phase = "after" /\ kind # "duplicate"
      <3>1. \A j \in 1..n : f(j).result # NoRecord
        BY <2>1, <2>3
      <3> QED
        BY <1>6, <2>1, <2>3, <3>1
    <2>4. CASE kind = "duplicate"
      BY <1>4, <2>1, <2>4 DEF Telling
    <2> QED
      BY <2>1, <2>2, <2>3, <2>4
  <1> QED
    BY <1>7, <1>8, <1>9, <1>10, <1>11, <1>12, <1>13, <1>14, <1>15 DEF Silent, Writes

-----------------------------------------------------------------------------
(* The second inductive invariant, and what follows from it. *)

LEMMA OneStep ==
    ASSUME ServiceInv, [Next]_vars
    PROVE  UNCHANGED vars \/ \E o \in Ops : Silent(o) \/ Writes(o)
  BY StepIs DEF Next, ServiceInv

LEMMA FormInit == Init => FormInv
  <1> HAVE Init
  <1> DEFINE es == NoOp.entries
  <1>1. /\ ops = [o \in Ops |-> NoOp] /\ NoOp.kind = "none" /\ NoOp.phase = "free"
        /\ es = <<>>
    BY DEF Init, NoOp
  <1>2. Len(es) = 0
    BY <1>1
  <1> HIDE DEF es
  <1>3. \A o \in Ops : Form(o, NoOp)
    BY <1>1, <1>2 DEF Form, es
  <1> QED
    BY <1>1, <1>3 DEF FormInv

LEMMA FormInvAlways == Spec => []FormInv
  <1>1. ServiceInv /\ FormInv /\ [Next]_vars => FormInv'
    <2> SUFFICES ASSUME ServiceInv, FormInv, [Next]_vars PROVE FormInv'
      OBVIOUS
    <2>1. CASE UNCHANGED vars
      BY <2>1 DEF vars, FormInv
    <2>2. ASSUME NEW o \in Ops, Silent(o) \/ Writes(o) PROVE FormInv'
      BY <2>2, FormNext DEF ServiceInv
    <2> QED
      BY <2>1, <2>2, OneStep
  <1> QED
    BY <1>1, FormInit, ServiceInvAlways, PTL DEF Spec

EventInv == LowInv /\ AboveInv /\ AloneInv /\ SeenInv /\ TruthInv /\ BatchInv

LEMMA EventInit ==
    ASSUME Named, Init
    PROVE  EventInv
  <1>1. /\ client \in Clients /\ nextId = FirstId /\ ops = [o \in Ops |-> NoOp]
        /\ live = [k \in Keys |-> IF k \in client.seeded THEN Seed(k) ELSE NoRecord]
        /\ trash = [k \in Keys |-> NoRecord]
    BY DEF Init
  <1> DEFINE es == NoOp.entries
  <1>2. es = <<>> /\ NoOp.phase = "free"
    BY DEF NoOp
  <1>3. Len(es) = 0
    BY <1>2
  <1> HIDE DEF es
  <1>4. \A o \in Ops : Len(ops[o].entries) = 0 /\ ops[o].phase = "free"
    BY <1>1, <1>2, <1>3 DEF es
  <1>5. FirstId \in Nat /\ Keys \subseteq Nat
    BY Constants
  <1>6. AboveInv
    <2> SUFFICES ASSUME NEW k \in Keys, k > nextId PROVE live[k] = NoRecord /\ trash[k] = NoRecord
      BY DEF AboveInv
    <2>1. k \notin client.seeded
      <3>1. ~(k <= FirstId)
        BY <1>1, <1>5
      <3> QED
        BY <1>1, <3>1 DEF Named
    <2> QED
      BY <1>1, <2>1
  <1>7. LowInv
    BY <1>1, <1>4, <1>5 DEF LowInv
  <1>8. AloneInv /\ SeenInv /\ TruthInv /\ BatchInv
    BY <1>4 DEF AloneInv, SeenInv, TruthInv, Truth, BatchInv, Busy
  <1> QED
    BY <1>6, <1>7, <1>8 DEF EventInv

LEMMA EventNext ==
    ASSUME Named, ServiceInv, ServiceInv', FormInv, FormInv', EventInv, [Next]_vars
    PROVE  EventInv'
  <1>1. CASE UNCHANGED vars
    <2>1. live' = live /\ trash' = trash /\ nextId' = nextId /\ ops' = ops
      BY <1>1 DEF vars
    <2> QED
      BY <2>1 DEF EventInv, LowInv, AboveInv, AloneInv, SeenInv, Looked, TruthInv, BatchInv,
                  Stored
  <1>2. ASSUME NEW o \in Ops, Silent(o) \/ Writes(o) PROVE EventInv'
    <2>1. /\ OpsSound /\ OpsSound' /\ StoreTypes /\ AllKnown
          /\ LowInv /\ AboveInv /\ AloneInv /\ SeenInv /\ TruthInv /\ BatchInv
      BY DEF ServiceInv, EventInv
    <2>2. LowInv'
      BY <1>2, <2>1, LowNext
    <2>3. AboveInv'
      BY <1>2, <2>1, AboveNext
    <2>4. AloneInv'
      BY <1>2, <2>1, AloneNext
    <2>5. SeenInv'
      BY <1>2, <2>1, SeenNext
    <2>6. TruthInv'
      BY <1>2, <2>1, TruthNext
    <2>7. BatchInv'
      BY <1>2, <2>1, BatchNext
    <2> QED
      BY <2>2, <2>3, <2>4, <2>5, <2>6, <2>7 DEF EventInv
  <1> QED
    BY <1>1, <1>2, OneStep

LEMMA EventInvAlways ==
    ASSUME Named PROVE Spec => []EventInv
  <1>1. Init => EventInv
    BY EventInit
  <1>2. ServiceInv /\ ServiceInv' /\ FormInv /\ FormInv' /\ EventInv /\ [Next]_vars => EventInv'
    BY EventNext
  <1> QED
    BY <1>1, <1>2, ServiceInvAlways, FormInvAlways, PTL DEF Spec

LEMMA KeyInit == Init => KeyInv
  <1> HAVE Init
  <1>1. /\ client \in Clients /\ ops = [o \in Ops |-> NoOp]
        /\ live = [k \in Keys |-> IF k \in client.seeded THEN Seed(k) ELSE NoRecord]
        /\ trash = [k \in Keys |-> NoRecord]
    BY DEF Init
  <1>2. NoOp.kind = "none" /\ \A k \in Keys : Seed(k).id = k
    BY DEF NoOp, Seed
  <1>3. KeyedStore
    BY <1>1, <1>2 DEF KeyedStore
  <1>4. "none" \notin Telling
    BY DEF Telling, Mutations, Creating, Upserting, Trashing
  <1> QED
    BY <1>1, <1>2, <1>3, <1>4 DEF KeyInv, KeyedOps, Keyed, ToldOps, ToldOrAwaits

LEMMA KeyInvAlways == Spec => []KeyInv
  <1>1. ServiceInv /\ FormInv /\ KeyInv /\ [Next]_vars => KeyInv'
    <2> SUFFICES ASSUME ServiceInv, FormInv, KeyInv, [Next]_vars, NoneRekeyed'
                 PROVE  KeyedStore' /\ KeyedOps' /\ ToldOps'
      BY DEF KeyInv
    <2>1. CASE UNCHANGED vars
      <3>1. live' = live /\ trash' = trash /\ ops' = ops
        BY <2>1 DEF vars
      <3> QED
        BY <3>1 DEF KeyInv, NoneRekeyed, KeyedStore, KeyedOps, ToldOps
    <2>2. ASSUME NEW o \in Ops, Silent(o) \/ Writes(o)
          PROVE  KeyedStore' /\ KeyedOps' /\ ToldOps'
      <3>1. OpsSound /\ StoreTypes
        BY DEF ServiceInv
      <3>2. NoneRekeyed
        BY <2>2, <3>1, PlainBack
      <3>3. KeyedStore /\ KeyedOps /\ ToldOps
        BY <3>2 DEF KeyInv
      <3>4. KeyedStore'
        BY <2>2, <3>1, <3>2, <3>3, KeyedStoreNext
      <3>5. KeyedOps'
        BY <2>2, <3>1, <3>2, <3>3, KeyedOpsNext
      <3>6. ToldOps'
        BY <2>2, <3>1, <3>2, <3>3, ToldOpsNext
      <3> QED
        BY <3>4, <3>5, <3>6
    <2> QED
      BY <2>1, <2>2, OneStep
  <1> QED
    BY <1>1, KeyInit, ServiceInvAlways, FormInvAlways, PTL DEF Spec

-----------------------------------------------------------------------------
(* Results on the events. *)

(* As long as no subscriber gives an input another key, the key an          *)
(* after-event shows is that of the record it shows (key and result of the  *)
(* entries ModelService dispatches in its after-events).                    *)
THEOREM KeysTruthfulAlways == Spec => []KeysTruthful
  <1>1. KeyInv => KeysTruthful
    <2> SUFFICES ASSUME KeyInv, \A o \in Ops : \A i \in 1..Len(Entries(o)) : ~Rekeyed(o, i),
                        NEW o \in Ops, ops[o].phase = "done", ~ops[o].silent,
                        ops[o].kind \in Mutations \ {"duplicate"},
                        NEW i \in 1..Len(Entries(o))
                 PROVE  Entries(o)[i].told = Entries(o)[i].result.id
      BY DEF KeysTruthful
    <2>1. NoneRekeyed
      BY DEF NoneRekeyed, Plain, Rekeyed, Input, Entries
    <2>2. ToldOrAwaits(ops[o])
      BY <2>1 DEF KeyInv, ToldOps
    <2> QED
      BY <2>2 DEF ToldOrAwaits, Telling, Awaits, Entries
  <1> QED
    BY <1>1, KeyInvAlways, PTL

(* When callers name no key the generator gives out, the record that an     *)
(* event shows as existing is the one the write overwrote, and a create     *)
(* overwrites none, in every call that promises so (create, update, upsert  *)
(* and bulkUpsert of ModelService).                                         *)
THEOREM TruthfulEventsAlways ==
    ASSUME Named PROVE Spec => []TruthfulEvents
  <1>1. EventInv => TruthfulEvents
    <2> SUFFICES ASSUME EventInv, NEW o \in Ops, NEW i \in 1..Len(Entries(o)),
                        ops[o].kind \in {"create", "update"} \cup Upserting,
                        Entries(o)[i].result # NoRecord,
                        ops[o].kind = "create"
                          \/ (ops[o].alone /\ ~Repeated(o, i) /\ ~Rekeyed(o, i))
                 PROVE  Entries(o)[i].overwrote = IF Announced(o, i) = "create" THEN NoRecord
                                                  ELSE Entries(o)[i].existing
      BY DEF TruthfulEvents
    <2>1. Truth(ops[o])
      BY DEF EventInv, TruthInv
    <2>2. Promised(ops[o], i)
      BY DEF Promised, Again, Repeated, Plain, Rekeyed, HasKey, Input, Entries
    <2>3. Entries(o)[i].overwrote = Entries(o)[i].existing
      BY <2>1, <2>2 DEF Truth, Entries
    <2> QED
      BY <2>3 DEF Announced
  <1> QED
    BY <1>1, EventInvAlways, PTL

(* When callers name no key the generator gives out, of the inputs of a     *)
(* batch with the same key the last one wins, and inputs without a key get  *)
(* records of their own (bulkUpsert of ModelService).                       *)
THEOREM BatchKeptAlways ==
    ASSUME Named PROVE Spec => []BatchKept
  <1>1. EventInv => BatchKept
    BY DEF EventInv, BatchInv, BatchKept, HasKey, Input, Entries
  <1> QED
    BY <1>1, EventInvAlways, PTL
=============================================================================
