----------------------------- MODULE ModelService -----------------------------
(***************************************************************************)
(* The services of @declaro/data: the class ModelService of                *)
(* lib/data/src/domain/services/model-service.ts with the events of        *)
(* lib/data/src/domain/events/model-mutation-event.ts, over the repository *)
(* of lib/data/src/test/mock/repositories/mock-memory-repository.ts.       *)
(*                                                                         *)
(* A mutation is an asynchronous function: it loads what exists, announces *)
(* what it is about to do, writes, and announces what it did.  It awaits   *)
(* between these, so mutations in flight interleave.  Subscribers of a     *)
(* before-event may replace the input of an entry, give it another primary *)
(* key, or reject; subscribers of an after-event may reject.  The queries  *)
(* of read-only-model-service.ts announce, read and announce likewise.     *)
(*                                                                         *)
(* The content of a record is the name of the input it was written from:   *)
(* which mutation, which entry, and whether a subscriber replaced it.      *)
(*                                                                         *)
(* The operators whose names end in Mut are slips the properties are there *)
(* to catch; no definition uses them.                                      *)
(***************************************************************************)
EXTENDS Naturals, Sequences, SequencesExt

CONSTANTS
    MaxKey,         \* primary keys are the numbers 1..MaxKey
    FirstId,        \* the generator of primary keys starts above this number
    MaxOps,         \* bound: calls in a behaviour
    Clients         \* what the callers and subscribers of a behaviour do

Keys == 1..MaxKey
NoKey == 0
Ops == 1..MaxOps
Creating == {"create", "duplicate"}
Upserting == {"upsert", "bulkUpsert"}
Trashing == {"remove", "restore", "permanentlyDeleteFromTrash",
             "permanentlyDelete"}
Mutations == Creating \cup Upserting \cup Trashing \cup {"update", "emptyTrash"}
Queries == {"load", "loadMany", "search", "count"}

(* given: the primary keys callers name; seeded: the keys of the records at *)
(* the start; kinds: the methods called; batches: the keys of the inputs of *)
(* bulkUpsert; silent: the values of options.doNotDispatchEvents; calls and *)
(* active: bounds on the calls made and on those in flight.                 *)
ASSUME ModelServiceAssumption ==
    /\ MaxKey \in Nat \ {0} /\ MaxOps \in Nat \ {0}
    /\ FirstId \in 0..MaxKey
    /\ \A c \in Clients :
         /\ c.given \subseteq Keys /\ c.seeded \subseteq Keys
         /\ c.kinds \subseteq Mutations \cup Queries
         /\ c.batches \subseteq Seq(c.given \cup {NoKey})
         /\ c.silent \subseteq BOOLEAN
         /\ c.calls \in Ops /\ c.active \in Ops

VARIABLES
    live,     \* live[k]: the record at key k of the map data, or NoRecord
    trash,    \* trash[k]: the record at key k of the map trash, or NoRecord
    nextId,   \* the last primary key that was generated
    ops,      \* ops[o]: one call of a method of the service
    purged,   \* the keys deleted permanently and not written since
    doubled,  \* the keys written while a removed record had them
    client    \* the member of Clients at work

history == <<purged, doubled, client>>
vars == <<live, trash, nextId, ops, history>>
store == <<live, trash, nextId, history>>

-----------------------------------------------------------------------------
(* Data. *)

Record == [id : 0..MaxKey, op : 0..MaxOps, pos : Nat,
           replaced : {"no", "content", "key"}]

NoRecord == [id |-> NoKey, op |-> 0, pos |-> 0, replaced |-> "no"]
Seed(k)  == [id |-> k,     op |-> 0, pos |-> 1, replaced |-> "no"]

(* IMutationEntry.  overwrote is what the write found in its place; told is *)
(* the key the after-event shows.                                           *)
Entry == [lookup : 0..MaxKey, input : Record, existing : Record,
          key : 0..MaxKey, result : Record, overwrote : Record,
          told : 0..MaxKey]

(* The i-th input of mutation o; a lookup is an input with nothing but a    *)
(* key.                                                                     *)
NewEntry(o, i, k, lookup) ==
    [lookup |-> lookup, key |-> NoKey, told |-> NoKey,
     input |-> [id |-> k, op |-> o, pos |-> i, replaced |-> "no"],
     existing |-> NoRecord, result |-> NoRecord, overwrote |-> NoRecord]

(* A call: its options and entries, how far it is and which events it has   *)
(* yet to dispatch; vetoed and alone (no other call overlapped it) are      *)
(* history; read is what a query found.                                     *)
NoOp == [kind |-> "none", silent |-> FALSE, scope |-> "live", entries |-> <<>>,
         phase |-> "free", todo |-> <<>>, read |-> {},
         vetoed |-> FALSE, alone |-> TRUE]

Init ==
    /\ client \in Clients
    /\ live = [k \in Keys |-> IF k \in client.seeded THEN Seed(k) ELSE NoRecord]
    /\ trash = [k \in Keys |-> NoRecord]
    /\ nextId = FirstId
    /\ ops = [o \in Ops |-> NoOp]
    /\ purged = {} /\ doubled = {}

Entries(o) == ops[o].entries
Input(o, i) == Entries(o)[i].input
Target(o) == Input(o, 1).id

Active == {o \in Ops : ops[o].phase \notin {"free", "done", "failed"}}

-----------------------------------------------------------------------------
(* The events of a mutation. *)

(* The entries an event carries: an upsert splits its batch into the        *)
(* entries that found a record and those that did not.  The event of a      *)
(* query carries a copy of what it asks for: replacing that changes nothing.*)
Group(op, event) ==
    {i \in 1..Len(op.entries) :
        /\ op.kind \notin Queries
        /\ op.kind \in Upserting =>
               (event = "update") = (op.entries[i].existing # NoRecord)}

(* Before-events in order; an event without entries is not dispatched.      *)
Events(op) ==
    CASE op.silent            -> <<>>
      [] op.kind \in Upserting ->
            (IF Group(op, "create") # {} THEN <<"create">> ELSE <<>>)
              \o (IF Group(op, "update") # {} THEN <<"update">> ELSE <<>>)
      [] op.kind = "duplicate" -> <<"duplicate", "create">>
      [] OTHER                -> <<op.kind>>

FirstKey(ks) ==
    LET known == {i \in 1..Len(ks) : ks[i] # NoKey}
    IN IF known = {} THEN NoKey ELSE ks[Min(known)]

KeyOfMut(e) == FirstKey(<<e.key, e.existing.id, e.lookup, e.input.id>>)

(* keyOf: the key set before, or that of the result, the existing record,   *)
(* the lookup or the input.  (The entry of a duplicate proper always has    *)
(* the key of its source and is left out.)                                  *)
KeyOf(e) == FirstKey(<<e.key, e.result.id, e.existing.id, e.lookup, e.input.id>>)

Filled(e) == [e EXCEPT !.key = KeyOf(e)]

-----------------------------------------------------------------------------
(* Calls of the service. *)

Unsilenced == {"permanentlyDelete", "permanentlyDeleteFromTrash", "emptyTrash"}

Before(op) == [op EXCEPT !.phase = "before", !.todo = Events(op)]

LaunchIn(scope, o, kind, entries, phase) ==
    /\ kind \in client.kinds
    /\ ops[o].phase = "free" /\ \A p \in Ops : p < o => ops[p].phase # "free"
    /\ o <= client.calls /\ Cardinality(Active) < client.active
    /\ \E silent \in IF kind \in Unsilenced THEN {FALSE} ELSE client.silent :
         LET op == [NoOp EXCEPT !.kind = kind, !.silent = silent, !.scope = scope,
                                !.entries = entries, !.phase = phase,
                                !.alone = Active = {}]
         IN ops' = [p \in Ops |->
                      IF p = o THEN IF phase = "load" THEN op ELSE Before(op)
                      ELSE IF p \in Active THEN [ops[p] EXCEPT !.alone = FALSE]
                      ELSE ops[p]]
    /\ UNCHANGED store

Launch(o, kind, entries, phase) == LaunchIn("live", o, kind, entries, phase)

Create(o) == \E k \in client.given \cup {NoKey} :
    Launch(o, "create", <<NewEntry(o, 1, k, NoKey)>>, "before")

Update(o) == \E k \in client.given :
    Launch(o, "update", <<NewEntry(o, 1, NoKey, k)>>, "load")

(* upsert and bulkUpsert: an input without a primary key looks nothing up.  *)
UpsertAll(o, kind, ks) ==
    Launch(o, kind, [i \in 1..Len(ks) |-> NewEntry(o, i, ks[i], ks[i])],
           IF \A i \in 1..Len(ks) : ks[i] = NoKey THEN "before" ELSE "load")

Upsert(o) == \E k \in client.given \cup {NoKey} : UpsertAll(o, "upsert", <<k>>)

BulkUpsert(o) == \E ks \in client.batches : UpsertAll(o, "bulkUpsert", ks)

(* duplicate: the primary key of the copy is removed.                       *)
Duplicate(o) == \E k \in client.given :
    Launch(o, "duplicate", <<NewEntry(o, 1, NoKey, k)>>, "load")

(* remove, restore, permanentlyDelete, permanentlyDeleteFromTrash           *)
OnRecord(o) == \E kind \in Trashing, k \in client.given :
    Launch(o, kind, <<NewEntry(o, 1, k, k)>>, "before")

EmptyTrash(o) ==
    Launch(o, "emptyTrash", <<>>, "before")

(* load, search and count look among the live records, the removed ones     *)
(* (removedOnly) or both (includeRemoved); loadMany among the live ones.    *)
Query(o) == \E kind \in Queries, scope \in {"live", "removed", "all"} :
    /\ kind = "loadMany" => scope = "live"
    /\ \E ks \in CASE kind = "load"     -> {<<k>> : k \in client.given}
                   [] kind = "loadMany" -> client.batches
                   [] OTHER             -> {<<>>} :
         LaunchIn(scope, o, kind, [i \in 1..Len(ks) |-> NewEntry(o, i, ks[i], ks[i])],
                  "before")

-----------------------------------------------------------------------------
(* The course of a mutation. *)

LoadedMut(o) ==
    [i \in 1..Len(Entries(o)) |->
        LET e == Entries(o)[i]
        IN [e EXCEPT !.existing = IF e.lookup = NoKey THEN NoRecord
                                  ELSE IF live[e.lookup] # NoRecord THEN live[e.lookup]
                                  ELSE trash[e.lookup]]]

(* load and loadMany read the live records, and the event is built.  update *)
(* goes on without a record; a duplicate needs its source.                  *)
Loaded(o) ==
    [i \in 1..Len(Entries(o)) |->
        LET e == Entries(o)[i]
        IN [e EXCEPT !.existing = IF e.lookup = NoKey THEN NoRecord
                                  ELSE live[e.lookup]]]

Load(o) ==
    LET op == [ops[o] EXCEPT !.entries = Loaded(o)]
    IN /\ ops[o].phase = "load"
       /\ ops' = [ops EXCEPT ![o] =
            IF op.kind = "duplicate" /\ op.entries[1].existing = NoRecord
            THEN [op EXCEPT !.phase = "failed"] ELSE Before(op)]
       /\ UNCHANGED store

(* What subscribers leave of entry i, when they replaced the inputs S and    *)
(* gave the inputs R the key k.                                             *)
Heard(e, i, S, R, k) ==
    [Filled(e) EXCEPT !.input.replaced = CASE i \in R -> "key"
                                           [] i \in S \ R /\ @ = "no" -> "content"
                                           [] OTHER -> @,
                      !.input.id = IF i \in R THEN k ELSE @]

(* The subscribers of the next before-event have run.  They may have        *)
(* replaced the inputs of some of its entries, or the key of one.           *)
AnnounceBefore(o) ==
    LET group == Group(ops[o], Head(ops[o].todo))
    IN /\ ops[o].phase = "before" /\ ops[o].todo # <<>>
       /\ \E S \in SUBSET (IF "replace" \in client.subscribers THEN group ELSE {}) :
          \E R \in SUBSET (IF "rekey" \in client.subscribers THEN S ELSE {}),
             k \in client.given :
            /\ Cardinality(R) <= 1
            /\ ops' = [ops EXCEPT
                 ![o].todo = Tail(@),
                 ![o].entries = [i \in 1..Len(Entries(o)) |->
                    IF i \in group THEN Heard(Entries(o)[i], i, S, R, k)
                    ELSE Entries(o)[i]]]
       /\ UNCHANGED store

(* A subscriber of a before-event rejects: the call does.  The load of a    *)
(* duplicate dispatches the events of load.                                 *)
Veto(o) ==
    /\ \/ ops[o].phase = "before" /\ ops[o].todo # <<>>
       \/ ops[o].phase = "load" /\ ops[o].kind = "duplicate"
    /\ "veto" \in client.subscribers
    /\ ops' = [ops EXCEPT ![o].phase = "failed", ![o].vetoed = TRUE]
    /\ UNCHANGED store

AnnounceAfter(o) ==
    LET group == Group(ops[o], Head(ops[o].todo))
    IN /\ ops[o].phase = "after" /\ ops[o].todo # <<>>
       /\ ops' = [ops EXCEPT
            ![o].todo = Tail(@),
            ![o].entries = [i \in 1..Len(Entries(o)) |->
               LET e == Entries(o)[i]
               IN IF i \in group THEN [e EXCEPT !.told = KeyOf(e)] ELSE e]]
       /\ UNCHANGED store

(* A subscriber of an after-event rejects: so does the mutation, after its  *)
(* write.                                                                   *)
Reject(o) ==
    /\ ops[o].phase = "after" /\ ops[o].todo # <<>>
    /\ "reject" \in client.subscribers
    /\ ops' = [ops EXCEPT ![o].phase = "failed"]
    /\ UNCHANGED store

Finish(o) ==
    /\ ops[o].phase = "after" /\ ops[o].todo = <<>>
    /\ ops' = [ops EXCEPT ![o].phase = "done"]
    /\ UNCHANGED store

-----------------------------------------------------------------------------
(* The repository. *)

Ready(o) == ops[o].phase = "before" /\ ops[o].todo = <<>>

(* When the repository throws. *)
Throws(o) ==
    CASE ops[o].kind \in Creating -> Target(o) # NoKey /\ live[Target(o)] # NoRecord
      [] ops[o].kind = "update"   -> live[Entries(o)[1].lookup] = NoRecord
      [] ops[o].kind = "remove"   -> live[Target(o)] = NoRecord
      [] ops[o].kind \in {"restore", "permanentlyDeleteFromTrash"}
                                  -> trash[Target(o)] = NoRecord
      [] ops[o].kind = "permanentlyDelete"
            -> live[Target(o)] = NoRecord /\ trash[Target(o)] = NoRecord
      [] OTHER                    -> FALSE

RefuseMut(o) ==
    /\ Ready(o) /\ Throws(o) /\ ops[o].kind # "update"
    /\ ops' = [ops EXCEPT ![o].phase = "failed"]
    /\ UNCHANGED store

Refuse(o) ==
    /\ Ready(o) /\ Throws(o)
    /\ ops' = [ops EXCEPT ![o].phase = "failed"]
    /\ UNCHANGED store

(* The repository does what a method of this kind asks for.                 *)
Writing(o, kinds) == Ready(o) /\ ops[o].kind \in kinds /\ ~Throws(o)

(* The after-events follow the order of the before-events; the create inside *)
(* a duplicate ends before the duplicate does.                              *)
AfterWrite(o) ==
    [ops[o] EXCEPT !.phase = "after",
                   !.todo = IF ops[o].kind = "duplicate" THEN Reverse(Events(ops[o]))
                            ELSE Events(ops[o])]

(* One record was found and returned.                                       *)
Returned(o, r) ==
    ops' = [ops EXCEPT ![o] = [AfterWrite(o) EXCEPT !.entries[1].result = r]]

(* History: records were written at the keys ks. *)
Wrote(ks) ==
    /\ purged' = purged \ ks
    /\ doubled' = doubled \cup {k \in ks \ {NoKey} : trash[k] # NoRecord}
    /\ UNCHANGED client

HasKey(o, i) == Input(o, i).id # NoKey

InputOfMut(o, i) == [Input(o, i) EXCEPT !.replaced = "no"]

InputOf(o, i) == Input(o, i)

PutGivenMut(o) ==
    LET n == Len(Entries(o))
        earlier(k, i) == {j \in 1..(i - 1) : Input(o, j).id = k}
        at(k, i) == IF earlier(k, i) = {} THEN live[k]
                    ELSE InputOf(o, CHOOSE j \in earlier(k, i) :
                                        \A l \in earlier(k, i) : j <= l)
        put == [i \in 1..n |->
                  IF HasKey(o, i)
                  THEN [Entries(o)[i] EXCEPT !.result = InputOf(o, i),
                                             !.overwrote = at(Input(o, i).id, i)]
                  ELSE Entries(o)[i]]
    IN /\ Writing(o, Creating \cup Upserting)
       /\ live' = [k \in Keys |-> at(k, n + 1)]
       /\ ops' = [ops EXCEPT ![o] =
            IF \A i \in 1..n : HasKey(o, i)
            THEN [AfterWrite(o) EXCEPT !.entries = put]
            ELSE [ops[o] EXCEPT !.entries = put, !.phase = "generate"]]
       /\ Wrote({Input(o, i).id : i \in 1..n})
       /\ UNCHANGED <<trash, nextId>>

(* create, upsert and bulkUpsert put every input that has a primary key, in *)
(* order and in one go; the others wait for generated keys.                 *)
PutGiven(o) ==
    LET n == Len(Entries(o))
        earlier(k, i) == {j \in 1..(i - 1) : Input(o, j).id = k}
        at(k, i) == IF earlier(k, i) = {} THEN live[k]
                    ELSE InputOf(o, CHOOSE j \in earlier(k, i) :
                                        \A l \in earlier(k, i) : l <= j)
        put == [i \in 1..n |->
                  IF HasKey(o, i)
                  THEN [Entries(o)[i] EXCEPT !.result = InputOf(o, i),
                                             !.overwrote = at(Input(o, i).id, i)]
                  ELSE Entries(o)[i]]
    IN /\ Writing(o, Creating \cup Upserting)
       /\ live' = [k \in Keys |-> at(k, n + 1)]
       /\ ops' = [ops EXCEPT ![o] =
            IF \A i \in 1..n : HasKey(o, i)
            THEN [AfterWrite(o) EXCEPT !.entries = put]
            ELSE [ops[o] EXCEPT !.entries = put, !.phase = "generate"]]
       /\ Wrote({Input(o, i).id : i \in 1..n})
       /\ UNCHANGED <<trash, nextId>>

(* The first input without a primary key gets a generated one.              *)
PutGenerated(o) ==
    LET waiting == {i \in 1..Len(Entries(o)) : Entries(o)[i].result = NoRecord}
        i == CHOOSE i \in waiting : \A j \in waiting : i <= j
        k == nextId + 1
        r == [InputOf(o, i) EXCEPT !.id = k]
    IN /\ ops[o].phase = "generate"
       /\ k \in Keys
       /\ nextId' = k
       /\ live' = [live EXCEPT ![k] = r]
       /\ ops' = [ops EXCEPT ![o] =
            [IF waiting = {i} THEN AfterWrite(o) ELSE ops[o]
               EXCEPT !.entries[i].result = r, !.entries[i].overwrote = live[k]]]
       /\ Wrote({k})
       /\ UNCHANGED trash

(* update assigns the input to the live record and keeps its place.         *)
UpdateLive(o) ==
    LET k == Entries(o)[1].lookup
        r == IF HasKey(o, 1) THEN InputOf(o, 1)
             ELSE [InputOf(o, 1) EXCEPT !.id = live[k].id]
    IN /\ Writing(o, {"update"})
       /\ live' = [live EXCEPT ![k] = r]
       /\ ops' = [ops EXCEPT ![o] =
            [AfterWrite(o) EXCEPT !.entries[1].result = r,
                                  !.entries[1].overwrote = live[k]]]
       /\ UNCHANGED <<trash, nextId, history>>

MoveToTrashMut(o) ==
    /\ Writing(o, {"remove"})
    /\ live' = [live EXCEPT ![Target(o)] = NoRecord]
    /\ trash' = [trash EXCEPT ![Target(o)] = live'[Target(o)]]
    /\ Returned(o, live[Target(o)])
    /\ UNCHANGED <<nextId, history>>

MoveToTrash(o) ==
    /\ Writing(o, {"remove"})
    /\ trash' = [trash EXCEPT ![Target(o)] = live[Target(o)]]
    /\ live' = [live EXCEPT ![Target(o)] = NoRecord]
    /\ Returned(o, live[Target(o)])
    /\ UNCHANGED <<nextId, history>>

RestoreMut(o) ==
    /\ Writing(o, {"restore"})
    /\ live' = [live EXCEPT ![Target(o)] = trash[Target(o)]]
    /\ Returned(o, trash[Target(o)])
    /\ UNCHANGED <<trash, nextId, history>>

Restore(o) ==
    /\ Writing(o, {"restore"})
    /\ live' = [live EXCEPT ![Target(o)] = trash[Target(o)]]
    /\ trash' = [trash EXCEPT ![Target(o)] = NoRecord]
    /\ Returned(o, trash[Target(o)])
    /\ UNCHANGED <<nextId, history>>

DeleteFromTrash(o) ==
    /\ Writing(o, {"permanentlyDeleteFromTrash"})
    /\ trash' = [trash EXCEPT ![Target(o)] = NoRecord]
    /\ Returned(o, trash[Target(o)])
    /\ purged' = IF live[Target(o)] = NoRecord THEN purged \cup {Target(o)} ELSE purged
    /\ UNCHANGED <<live, nextId, doubled, client>>

(* permanentlyDelete deletes the live record or, without one, the removed.  *)
Delete(o) ==
    /\ Writing(o, {"permanentlyDelete"})
    /\ IF live[Target(o)] # NoRecord
       THEN /\ live' = [live EXCEPT ![Target(o)] = NoRecord]
            /\ Returned(o, live[Target(o)])
            /\ UNCHANGED trash
       ELSE /\ trash' = [trash EXCEPT ![Target(o)] = NoRecord]
            /\ Returned(o, trash[Target(o)])
            /\ UNCHANGED live
    /\ purged' = purged \cup {Target(o)}
    /\ UNCHANGED <<nextId, doubled, client>>

(* emptyTrash deletes what the filters select.                              *)
ClearTrash(o) ==
    /\ Writing(o, {"emptyTrash"})
    /\ \E S \in SUBSET {k \in Keys : trash[k] # NoRecord} :
         /\ trash' = [k \in Keys |-> IF k \in S THEN NoRecord ELSE trash[k]]
         /\ purged' = purged \cup {k \in S : live[k] = NoRecord}
    /\ ops' = [ops EXCEPT ![o] = AfterWrite(o)]
    /\ UNCHANGED <<live, nextId, doubled, client>>

(* load finds the live record first; the filters of search and count may    *)
(* select any records.                                                      *)
LoadOne(scope, k) ==
    IF scope # "removed" /\ live[k] # NoRecord THEN live[k]
    ELSE IF scope # "live" THEN trash[k] ELSE NoRecord

Sources(scope) ==
    (IF scope # "removed" THEN {live[k] : k \in Keys} ELSE {})
      \cup (IF scope # "live" THEN {trash[k] : k \in Keys} ELSE {})

Found(op) ==
    IF op.kind \in {"search", "count"} THEN SUBSET (Sources(op.scope) \ {NoRecord})
    ELSE {{LoadOne(op.scope, k) : k \in {op.entries[i].lookup : i \in 1..Len(op.entries)}
                                         \ {NoKey}} \ {NoRecord}}

Read(o) ==
    /\ Ready(o) /\ ops[o].kind \in Queries
    /\ \E found \in Found(ops[o]) :
         ops' = [ops EXCEPT ![o] = [AfterWrite(o) EXCEPT !.read = found]]
    /\ UNCHANGED store

Write(o) == \/ PutGiven(o) \/ PutGenerated(o) \/ UpdateLive(o) \/ MoveToTrash(o)
            \/ Restore(o) \/ DeleteFromTrash(o) \/ Delete(o) \/ ClearTrash(o)

-----------------------------------------------------------------------------
CallService(o) == Create(o) \/ Update(o) \/ Upsert(o) \/ BulkUpsert(o)
                    \/ Duplicate(o) \/ OnRecord(o) \/ EmptyTrash(o) \/ Query(o)

Progress(o) == \/ Load(o) \/ AnnounceBefore(o) \/ Veto(o) \/ Refuse(o)
               \/ Write(o) \/ Read(o) \/ AnnounceAfter(o) \/ Reject(o) \/ Finish(o)

Next == \E o \in Ops : CallService(o) \/ Progress(o)

(* Subscribers and the repository answer, and continuations are run.        *)
Spec == Init /\ [][Next]_vars /\ \A o \in Ops : WF_vars(Progress(o))

-----------------------------------------------------------------------------
(* Properties. *)

Stored == {live[k] : k \in Keys} \cup {trash[k] : k \in Keys}

(* What is stored, and what a query was answered, was announced: every      *)
(* subscriber of the before-events of its mutation has had its say, none    *)
(* has vetoed it, and what they left on the entry is what was written       *)
(* (docs/model-mutation-events.md, lines 81-82).                            *)
StoredAsAnnounced ==
    \A r \in Stored \cup UNION {ops[o].read : o \in Ops} : r.op # 0 =>
        /\ ~ops[r.op].vetoed
        /\ ops[r.op].phase \notin {"free", "load", "before"}
        /\ r.replaced = Input(r.op, r.pos).replaced

(* Of the inputs of a batch that name the same key the last one wins, and   *)
(* inputs without a key get a record each, also while other mutations       *)
(* generate keys (bulkUpsert, with the test "last one should win").         *)
BatchKept ==
    \A o \in Ops : \A j \in 1..Len(Entries(o)) : \A i \in 1..(j - 1) :
        LET a == Entries(o)[i].result
            b == Entries(o)[j].result
        IN (a # NoRecord /\ b # NoRecord /\ a.id = b.id) =>
               /\ HasKey(o, i) /\ HasKey(o, j)
               /\ a \notin Stored

Rekeyed(o, i) == Input(o, i).replaced = "key"

Repeated(o, i) ==
    \E j \in 1..Len(Entries(o)) : j # i /\ HasKey(o, i) /\ Input(o, j).id = Input(o, i).id

(* A create is announced only for a key that was free, and the record that  *)
(* an update shows as existing is the one it overwrote (IMutationEntry.     *)
(* existing, "the record as it stood before the write").  An upsert that    *)
(* another call overlaps, whose batch repeats the key, or whose key a       *)
(* subscriber exchanges, makes no such promise.                             *)
Announced(o, i) == IF ops[o].kind = "update" \/ Entries(o)[i].existing # NoRecord
                   THEN "update" ELSE "create"

TruthfulEvents ==
    \A o \in Ops : ops[o].kind \in {"create", "update"} \cup Upserting =>
        \A i \in 1..Len(Entries(o)) :
            (/\ Entries(o)[i].result # NoRecord
             /\ ops[o].kind = "create"
                  \/ (ops[o].alone /\ ~Repeated(o, i) /\ ~Rekeyed(o, i)))
            => Entries(o)[i].overwrote = IF Announced(o, i) = "create" THEN NoRecord
                                         ELSE Entries(o)[i].existing

(* The key an after-event shows is known and is the key of the record it    *)
(* shows (IMutationEntry.key, lines 24-25), as long as no subscriber gives   *)
(* an input another key: the entry keeps the old one.                       *)
KeysTruthful ==
    (\A o \in Ops : \A i \in 1..Len(Entries(o)) : ~Rekeyed(o, i)) => \A o \in Ops :
        (/\ ops[o].phase = "done" /\ ~ops[o].silent
         /\ ops[o].kind \in Mutations \ {"duplicate"}) =>
            \A i \in 1..Len(Entries(o)) :
                Entries(o)[i].told = Entries(o)[i].result.id

(* What was deleted permanently is neither live nor in the trash until it   *)
(* is written anew (IRepository.permanentlyDelete, emptyTrash), unless its  *)
(* key was written while a removed record had it.                           *)
GoneForGood ==
    \A k \in purged \ doubled : live[k] = NoRecord /\ trash[k] = NoRecord

(* A record is live or in the trash, never both, unless its key was written *)
(* while a removed record had it, whatever calls interleave.                *)
OneCopy == \A k \in Keys \ doubled : live[k] = NoRecord \/ trash[k] = NoRecord

(* Whatever removals, restorations, creations and deletions interleave, a   *)
(* record that was not deleted permanently can be found with includeRemoved *)
(* (ILoadOptions, lines 17-26).                                             *)
NeverLost ==
    \A k \in client.seeded \ purged : live[k] # NoRecord \/ trash[k] # NoRecord

(* Every call of the service ends.                                          *)
OperationsEnd ==
    \A o \in Ops : ops[o].phase # "free" ~> ops[o].phase \in {"done", "failed"}
=============================================================================
