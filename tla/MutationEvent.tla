----------------------------- MODULE MutationEvent ----------------------------
(***************************************************************************)
(* One announced mutation of @declaro/data, seen from its subscribers: the *)
(* class ModelMutationEvent of                                             *)
(* lib/data/src/domain/events/model-mutation-event.ts, and how ModelService*)
(* (lib/data/src/domain/services/model-service.ts) reads back what they    *)
(* did to the entries.  ModelService has the same methods with their       *)
(* concurrency; this module has what that one leaves out, the operations   *)
(* of the event between two awaits of its dispatch.                        *)
(*                                                                         *)
(* heap holds the entry objects, which the service and the event share:    *)
(* the entries of the call are 1..Len(basis), the ones subscribers made    *)
(* come after them.                                                        *)
(***************************************************************************)
EXTENDS Naturals, Sequences, SequencesExt, FiniteSetsExt

CONSTANTS
    Keys,       \* the primary keys callers and subscribers name, numbers
    Stored,     \* those of the records that exist at the start
    MaxEntries, \* bound: inputs of a call
    MaxSteps    \* bound: steps of the subscribers

NoKey == 0
Ids == Keys \cup {NoKey}
FreshKey(i) == Max(Ids) + i         \* the i-th input without a key gets this

ASSUME MutationEventAssumption ==
    /\ Keys \subseteq Nat \ {NoKey} /\ Keys # {} /\ Stored \subseteq Keys
    /\ MaxEntries \in Nat \ {0} /\ MaxSteps \in Nat

VARIABLES
    single,    \* the call is one of create, update, upsert; else bulkUpsert
    phase,     \* how far the call is
    heap,      \* the entry objects
    basis,     \* what the service itself gave: inputs, then results
    data,      \* the entries of the event, as places in heap
    index,     \* the map from keys to entries, or NoIndex
    written,   \* what the service handed to the repository
    steps,     \* steps of the subscribers so far
    assigned,  \* history: keys were assigned since the index was built
    regrouped, \* history: a subscriber called setEntries or add
    told       \* history: what the event of each entry held in the end

vars == <<single, phase, heap, basis, data, index, written, steps, assigned,
          regrouped, told>>

(* A record: its primary key, and who made it. *)
AllIds == Ids \cup {FreshKey(i) : i \in 1..MaxEntries}
Document == [id : AllIds, by : {"nobody", "service", "subscriber"}]
Nothing == [id |-> NoKey, by |-> "nobody"]
Own(k) == [id |-> k, by |-> "service"]
Theirs(k) == [id |-> k, by |-> "subscriber"]

Entry == [key : AllIds, lookup : Document, existing : Document,
          input : Document, result : Document]
EntryOf(lookup, existing, input) ==
    [key |-> NoKey, lookup |-> lookup, existing |-> existing, input |-> input,
     result |-> Nothing]

Or(a, b) == IF a # Nothing THEN a ELSE b

-----------------------------------------------------------------------------
(* The event. *)

NoIndex == [k \in {NoKey} |-> 0]

FirstKey(ks) ==
    LET known == {i \in 1..Len(ks) : ks[i] # NoKey}
    IN  IF known = {} THEN NoKey ELSE ks[Min(known)]

KeyOfMut(e) ==      \* the records first
    FirstKey(<<e.result.id, e.existing.id, e.lookup.id, e.input.id, e.key>>)

(* keyOf: the key of the entry, else of the first of its records that has   *)
(* one.                                                                     *)
KeyOf(e) ==
    FirstKey(<<e.key, e.result.id, e.existing.id, e.lookup.id, e.input.id>>)

(* fillKeys: every entry of the event learns its key; the index is dropped. *)
Filled(h, d) ==
    [i \in DOMAIN h |-> IF i \in Range(d) THEN [h[i] EXCEPT !.key = KeyOf(h[i])]
                                          ELSE h[i]]

FillKeysMut(h, d) ==        \* the index outlives what it was built from
    /\ heap' = Filled(h, d) /\ data' = d
    /\ UNCHANGED index /\ assigned' = FALSE

FillKeys(h, d) ==
    /\ heap' = Filled(h, d) /\ data' = d
    /\ index' = NoIndex /\ assigned' = FALSE

(* getIndex: the first entry of each key. *)
FirstOf(h, d, k) == d[Min({j \in 1..Len(d) : KeyOf(h[d[j]]) = k})]
Indexed(h, d) ==
    [k \in {KeyOf(h[d[j]]) : j \in 1..Len(d)} \ {NoKey} |-> FirstOf(h, d, k)]

-----------------------------------------------------------------------------
(* The service. *)

Order == <<"beforeCreate", "beforeUpdate", "write",
           "afterCreate", "afterUpdate", "returned">>
Befores == {"beforeCreate", "beforeUpdate"}
Afters == {"afterCreate", "afterUpdate"}

(* dispatchMutation: an event carries the entries that found a record, or   *)
(* those that did not, and none is dispatched for no entries.               *)
Carried(p, e) ==
    /\ p \in Befores \cup Afters
    /\ (p \in {"beforeUpdate", "afterUpdate"}) = (e.existing # Nothing)

Group(p, h) ==
    LET upTo[i \in 0..Len(h)] ==
          IF i = 0 THEN <<>>
          ELSE IF Carried(p, h[i]) THEN Append(upTo[i - 1], i) ELSE upTo[i - 1]
    IN  upTo[Len(h)]

Proceed(p, h) ==
    LET after == {q \in 1..Len(Order) : q > (IF p = "start" THEN 0 ELSE
                                             CHOOSE x \in 1..6 : Order[x] = p)}
        next == Order[Min({q \in after : \/ Order[q] \in {"write", "returned"}
                                         \/ Group(Order[q], h) # <<>>})]
    IN  /\ phase' = next /\ regrouped' = FALSE
        /\ FillKeys(h, Group(next, h))

Inputs == UNION {[1..n -> Ids] : n \in 1..MaxEntries}

Init ==
    /\ single = FALSE /\ phase = "start" /\ heap = <<>> /\ basis = <<>>
    /\ data = <<>> /\ index = NoIndex /\ written = <<>> /\ steps = 0
    /\ assigned = FALSE /\ regrouped = FALSE /\ told = <<>>

(* create, update and upsert make one entry, bulkUpsert one for each input; *)
(* what was found is in existing, a lookup accompanies a known key.         *)
Call(s, ks) ==
    /\ phase = "start" /\ (s => Len(ks) = 1)
    /\ LET Found(k) == IF k \in Stored THEN Own(k) ELSE Nothing
           Asked(k) == IF k # NoKey THEN Own(k) ELSE Nothing
       IN  Proceed("start", [i \in 1..Len(ks) |->
               EntryOf(Asked(ks[i]), Found(ks[i]), Own(ks[i]))])
    /\ single' = s
    /\ basis' = [i \in 1..Len(ks) |-> Own(ks[i])]
    /\ told' = [i \in 1..Len(ks) |-> Nothing]
    /\ UNCHANGED <<written, steps>>

Value(e) == IF phase \in Befores THEN e.input ELSE e.result

(* What a call on one record reads back: the first entry of the event, or   *)
(* what the service itself has.                                             *)
ReadBack == IF data = <<>> THEN basis[1] ELSE Or(Value(heap[data[1]]), basis[1])

(* Every subscriber has run. *)
EndDispatch ==
    /\ phase \in Befores \cup Afters
    /\ told' = [i \in 1..Len(told) |->
          IF single /\ data # <<>> THEN Value(heap[data[1]])
          ELSE IF regrouped THEN Nothing
          ELSE IF i \in Range(data) THEN Value(heap[i]) ELSE told[i]]
    /\ Proceed(phase,
          IF ~single THEN SubSeq(heap, 1, Len(basis))
          ELSE IF phase \in Befores THEN <<[heap[1] EXCEPT !.input = ReadBack]>>
          ELSE <<[heap[1] EXCEPT !.result = ReadBack]>>)
    /\ UNCHANGED <<single, basis, written, steps>>

TakenMut(i) == basis[i]             \* the inputs of the call

Taken(i) == heap[i].input

(* The repository returns a record for each input, and the after-events get *)
(* copies of the entries with these results.                                *)
Write ==
    LET Result(i) == Own(IF Taken(i).id # NoKey THEN Taken(i).id
                         ELSE IF heap[i].existing # Nothing THEN heap[i].existing.id
                         ELSE FreshKey(i))
    IN
    /\ phase = "write"
    /\ written' = [i \in 1..Len(basis) |-> Taken(i)]
    /\ basis' = [i \in 1..Len(basis) |-> Result(i)]
    /\ told' = [i \in 1..Len(basis) |-> Nothing]
    /\ Proceed("write", [i \in 1..Len(basis) |-> [heap[i] EXCEPT !.result = Result(i)]])
    /\ UNCHANGED <<single, steps>>

-----------------------------------------------------------------------------
(* The subscribers. *)

Subscriber ==
    /\ phase \in Befores \cup Afters /\ steps < MaxSteps /\ steps' = steps + 1
    /\ UNCHANGED <<single, phase, basis, written, told>>

(* has, get, getInput, getResult, getExisting. *)
Ask ==
    /\ Subscriber
    /\ index' = IF index = NoIndex THEN Indexed(heap, data) ELSE index
    /\ UNCHANGED <<heap, data, assigned, regrouped>>

(* entry.input = ... before the write, entry.result = ... after it. *)
Replace(j, k) ==
    LET i == data[j] IN
    /\ Subscriber
    /\ heap' = IF phase \in Befores THEN [heap EXCEPT ![i].input = Theirs(k)]
                                    ELSE [heap EXCEPT ![i].result = Theirs(k)]
    /\ assigned' = (assigned \/ heap[i].key = NoKey)
    /\ UNCHANGED <<data, index, regrouped>>

(* entry.key = ... *)
AssignKey(j, k) ==
    /\ Subscriber
    /\ heap' = [heap EXCEPT ![data[j]].key = k]
    /\ assigned' = TRUE
    /\ UNCHANGED <<data, index, regrouped>>

Reindex ==
    /\ Subscriber
    /\ index' = NoIndex /\ assigned' = FALSE
    /\ UNCHANGED <<heap, data, regrouped>>

Add(k) ==
    /\ Subscriber
    /\ FillKeys(Append(heap, EntryOf(Nothing, Nothing, Theirs(k))),
                Append(data, Len(heap) + 1))
    /\ regrouped' = TRUE

(* With the entries in another order, or with fewer of them. *)
SetEntries(d) ==
    /\ Subscriber
    /\ FillKeys(heap, d)
    /\ regrouped' = TRUE

(* setResults with one result for each entry. *)
SetResults(rs) ==
    /\ Subscriber
    /\ Len(rs) = Len(data)
    /\ FillKeys([i \in DOMAIN heap |->
                   IF i \in Range(data)
                   THEN [heap[i] EXCEPT !.result = Theirs(rs[CHOOSE j \in 1..Len(data) : data[j] = i])]
                   ELSE heap[i]], data)
    /\ UNCHANGED regrouped

(* setResults with another number of results throws, which fails the call. *)
Fail ==
    /\ phase \in Befores \cup Afters /\ steps < MaxSteps
    /\ phase' = "failed"
    /\ UNCHANGED <<single, heap, basis, data, index, written, steps, assigned,
                   regrouped, told>>

Next ==
    \/ \E s \in BOOLEAN, ks \in Inputs : Call(s, ks)
    \/ EndDispatch
    \/ Write
    \/ Ask \/ Reindex \/ Fail
    \/ \E j \in 1..Len(data), k \in Keys : AssignKey(j, k)
    \/ \E j \in 1..Len(data), k \in Ids : Replace(j, k)
    \/ \E k \in Ids : Add(k)
    \/ data # <<>> /\ \E d \in {Reverse(data), Tail(data)} : SetEntries(d)
    \/ \E rs \in [1..Len(data) -> Keys] : SetResults(rs)

Spec == Init /\ [][Next]_vars

-----------------------------------------------------------------------------
(* Properties. *)

(* "The primary-key index is built lazily and rebuilt after the event's own *)
(* setters run": whatever setters, replacements and questions came before,  *)
(* has and get answer from the entries as they are, the first entry of each *)
(* key, unless a subscriber gave an entry its key by assignment since.      *)
IndexAgrees ==
    index # NoIndex /\ ~assigned => index = Indexed(heap, data)

(* "The service writes whatever is on the entries once every subscriber has *)
(* run" and "returns whatever is here to its caller": each entry is written *)
(* and returned as its event left it.  A call on one record reads the first *)
(* entry of the event even when setEntries put another one there; bulkUpsert*)
(* does not see the entries of setEntries and add.                          *)
Honoured ==
    \A i \in 1..Len(told) : told[i] # Nothing =>
        /\ phase = "write"    => Taken(i) = told[i]
        /\ phase = "returned" => heap[i].result = told[i]

(* A key an entry has is kept whatever its records become, so the events    *)
(* before and after the write name the entry alike, until a subscriber      *)
(* assigns another.                                                         *)
KeySticks ==
    [][ \/ \E j \in 1..Len(data), k \in Keys : AssignKey(j, k)
        \/ \A i \in DOMAIN heap \cap DOMAIN heap' :
               heap[i].key # NoKey => heap'[i].key = heap[i].key ]_vars
=============================================================================
