----------------------------- MODULE EventManager -----------------------------
(***************************************************************************)
(* Listeners and emissions: the class EventManager of                      *)
(* lib/core/src/events/event-manager.ts.                                   *)
(*                                                                         *)
(* A manager keeps one array of listeners per event and one for "*".  An   *)
(* emission takes a snapshot of the listeners and calls them: in order,    *)
(* each after the previous one has settled (emitAsync), all at once        *)
(* (emitAll), or synchronously (emit).  Between two listeners of an        *)
(* asynchronous emission the arrays may change.  A listener that forwards  *)
(* to another manager settles when the emission it causes there does.      *)
(*                                                                         *)
(* The operators whose names contain Mut are slips the properties are      *)
(* there to catch; no definition uses them.                                *)
(***************************************************************************)
EXTENDS Naturals, Sequences, SequencesExt

CONSTANTS
    Managers,
    Events,         \* the event types
    Star,           \* the pseudo event "*"
    Listeners,      \* functions; one function may be registered repeatedly
    Target,         \* Target[l]: the manager l forwards to, or NoTarget
    NoTarget,
    Faulty,         \* listeners that may throw or reject
    Subscribable,   \* the pairs <<m, l>> such that l may be registered with m
    EventLists,     \* the sequences of events on() is called with
    Extends,        \* the pairs <<m, d>> such that m may extend d
    Repeat,         \* TRUE if a function may be registered repeatedly
    Populated,      \* TRUE if a manager that has listeners may extend another
    MaxSubs,        \* bound: calls of on
    MaxEmits,       \* bound: emissions
    Spare,          \* bound: emissions kept free for forwarding
    MaxLen          \* bound: length of an array

Subs == 1..MaxSubs
Emits == 1..MaxEmits
Keys == Events \cup {Star}

ASSUME EventManagerAssumption ==
    /\ Star \notin Events
    /\ Target \in [Listeners -> Managers \cup {NoTarget}]
    /\ NoTarget \notin Managers
    /\ Faulty \subseteq Listeners
    /\ Subscribable \subseteq Managers \X Listeners
    /\ EventLists \subseteq Seq(Keys)
    /\ Extends \subseteq Managers \X Managers
    /\ \A m \in Managers : <<m, m>> \notin Extends
    /\ Repeat \in BOOLEAN /\ Populated \in BOOLEAN
    /\ MaxSubs \in Nat /\ MaxEmits \in Nat /\ Spare \in Nat /\ MaxLen \in Nat

VARIABLES
    arrays,   \* arrays[m]: the object listeners of m, events to arrays
    subs,     \* subs[s]: a call of on and the cancel function it returned
    emits     \* emits[e]: a call of emitAsync, emitAll or emit

vars == <<arrays, subs, emits>>

-----------------------------------------------------------------------------
NoSub == [on |-> NoTarget, events |-> <<>>, listener |-> NoTarget,
          status |-> "unused"]

(* todo: the listeners still to call; got: those called; kids: the emissions *)
(* that its forwarding listeners caused.                                     *)
NoEmit == [on |-> NoTarget, event |-> Star, todo |-> <<>>, got |-> <<>>,
           kids |-> <<>>, status |-> "unused"]

Init ==
    /\ arrays = [m \in Managers |-> <<>>]
    /\ subs = [s \in Subs |-> NoSub]
    /\ emits = [e \in Emits |-> NoEmit]

(* Reading an array that does not exist creates it (getListenerArray).      *)
ArrayIn(as, t) == IF t \in DOMAIN as THEN as[t] ELSE <<>>

PutArray(as, t, s) == [k \in DOMAIN as \cup {t} |-> IF k = t THEN s ELSE as[k]]

Touch(as, t) == PutArray(as, t, ArrayIn(as, t))

(* The Set of getListeners keeps the first occurrence of every listener.    *)
Distinct(s) ==
    LET seen[i \in 0..Len(s)] ==
          IF i = 0 THEN <<>>
          ELSE LET before == seen[i - 1]
               IN  IF Contains(before, s[i]) THEN before ELSE Append(before, s[i])
    IN  seen[Len(s)]

GetListenersMut(as, t) == ArrayIn(as, t) \o ArrayIn(as, Star)

GetListeners(as, t) == Distinct(ArrayIn(as, t) \o ArrayIn(as, Star))

IndexOf(s, l) == SelectInSeq(s, LAMBDA x : x = l)    \* 0 if absent

-----------------------------------------------------------------------------
(* on: the listener is pushed on the array of every event named, as often as *)
(* it is named.                                                              *)
Pushed(as, ts, l) ==
    [t \in DOMAIN as \cup ToSet(ts) |->
        ArrayIn(as, t) \o [i \in 1..Cardinality({j \in 1..Len(ts) : ts[j] = t}) |-> l]]

(* Context.on wraps every listener in a new function, so it never repeats    *)
(* one.                                                                      *)
Subscribe(m, l, ts) ==
    /\ <<m, l>> \in Subscribable
    /\ Repeat \/ \A r \in Subs : subs[r].listener # l
    /\ \A t \in ToSet(ts) : Len(ArrayIn(arrays[m], t)) < MaxLen
    /\ arrays' = [arrays EXCEPT ![m] = Pushed(@, ts, l)]
    /\ \E s \in Subs :
         /\ subs[s].status = "unused"
         /\ \A r \in Subs : subs[r].status = "unused" => s <= r
         /\ subs' = [subs EXCEPT ![s] = [on |-> m, events |-> ts, listener |-> l,
                                         status |-> "active"]]
    /\ UNCHANGED emits

On(m, l, ts) == Target[l] = NoTarget /\ Subscribe(m, l, ts)

(* forwardTo: a new listener for "*" that emits on another manager.         *)
ForwardTo(m, l) == Target[l] # NoTarget /\ Subscribe(m, l, <<Star>>)

(* One round of the cancel function: the position of the listener in the    *)
(* list getListeners returns is removed from the array of the event.        *)
SpliceMutGlobal(as, t, l) ==
    LET i == IndexOf(Distinct(ArrayIn(as, Star) \o ArrayIn(as, t)), l)
    IN IF i \in 1..Len(ArrayIn(as, t))
       THEN PutArray(as, t, RemoveAt(ArrayIn(as, t), i)) ELSE Touch(as, t)

Splice(as, t, l) ==
    LET i == IndexOf(GetListeners(as, t), l)
    IN IF i \in 1..Len(ArrayIn(as, t))
       THEN PutArray(as, t, RemoveAt(ArrayIn(as, t), i)) ELSE Touch(as, t)

(* One round for each event named, in this order.                           *)
Spliced(as, ts, l) ==
    LET after[i \in 0..Len(ts)] ==
          IF i = 0 THEN as ELSE Splice(after[i - 1], ts[i], l)
    IN  after[Len(ts)]

(* The function on returned is called, possibly again.                      *)
Cancel(s) ==
    /\ subs[s].status # "unused"
    /\ arrays' = [arrays EXCEPT ![subs[s].on] = Spliced(@, subs[s].events, subs[s].listener)]
    /\ subs' = [subs EXCEPT ![s].status = "cancelled"]
    /\ UNCHANGED emits

(* extend: what d delivers for an event it knows is pushed on m's array.    *)
ExtendedMut(as, ds) ==
    [t \in DOMAIN as \cup DOMAIN ds |->
        IF t \in DOMAIN ds THEN GetListeners(ds, t) ELSE as[t]]

Extended(as, ds) ==
    [t \in DOMAIN as \cup DOMAIN ds |->
        ArrayIn(as, t) \o IF t \in DOMAIN ds THEN GetListeners(ds, t) ELSE <<>>]

Extend(m, d) ==
    /\ <<m, d>> \in Extends
    /\ Populated \/ DOMAIN arrays[m] = {}
    /\ \A t \in Keys : Len(ArrayIn(Extended(arrays[m], arrays[d]), t)) <= MaxLen
    /\ arrays' = [arrays EXCEPT ![m] = Extended(@, arrays[d])]
    /\ UNCHANGED <<subs, emits>>

-----------------------------------------------------------------------------
(* A call of one of the emitters starts with a snapshot of the listeners.   *)
Room == Cardinality({e \in Emits : emits[e].status = "unused"}) > Spare

Snapshot(m, t, e) ==
    /\ emits[e].status = "unused"
    /\ \A f \in Emits : emits[f].status = "unused" => e <= f
    /\ arrays' = [arrays EXCEPT ![m] = Touch(@, t)]

Started(m, t, status) ==
    [on |-> m, event |-> t, todo |-> GetListeners(arrays[m], t), got |-> <<>>,
     kids |-> <<>>, status |-> status]

EmitAsync(m, t) ==
    /\ Room
    /\ \E e \in Emits :
         /\ Snapshot(m, t, e)
         /\ emits' = [emits EXCEPT ![e] = Started(m, t, "between")]
    /\ UNCHANGED subs

(* emitAll calls every listener; their promises settle in any order.        *)
EmitAll(m, t) ==
    /\ Room
    /\ \A i \in 1..Len(GetListeners(arrays[m], t)) :
          Target[GetListeners(arrays[m], t)[i]] = NoTarget
    /\ \E e \in Emits :
         /\ Snapshot(m, t, e)
         /\ emits' = [emits EXCEPT ![e] =
                [Started(m, t, "parallel") EXCEPT !.got = GetListeners(arrays[m], t)]]
    /\ UNCHANGED subs

(* emit calls the listeners in a row; one that throws ends the call.        *)
Emit(m, t) ==
    LET ls == GetListeners(arrays[m], t)
    IN /\ Room
       /\ \A i \in 1..Len(ls) : Target[ls[i]] = NoTarget
       /\ \E e \in Emits, n \in 0..Len(ls), status \in {"done", "failed"} :
            /\ Snapshot(m, t, e)
            /\ IF status = "done" THEN n = Len(ls) ELSE n > 0 /\ ls[n] \in Faulty
            /\ emits' = [emits EXCEPT ![e] =
                 [Started(m, t, status) EXCEPT !.todo = <<>>, !.got = SubSeq(ls, 1, n)]]
       /\ UNCHANGED subs

(* emitAsync: the next listener is called once the previous one settled.    *)
Call(e) ==
    /\ emits[e].status = "between" /\ emits[e].todo # <<>>
    /\ Target[Head(emits[e].todo)] = NoTarget
    /\ emits' = [emits EXCEPT ![e].status = "calling",
                              ![e].got = Append(@, Head(emits[e].todo))]
    /\ UNCHANGED <<arrays, subs>>

(* A forwarding listener emits the event on its target and awaits that.     *)
Forward(e) ==
    /\ emits[e].status = "between" /\ emits[e].todo # <<>>
    /\ LET d == Target[Head(emits[e].todo)]
       IN /\ d # NoTarget
          /\ \E f \in Emits :
               /\ Snapshot(d, emits[e].event, f)
               /\ emits' = [emits EXCEPT
                    ![e].status = "calling", ![e].kids = Append(@, f),
                    ![e].got = Append(@, Head(emits[e].todo)),
                    ![f] = Started(d, emits[e].event, "between")]
    /\ UNCHANGED subs

Over == {"done", "failed"}

Forwarding(e) == Target[Head(emits[e].todo)] # NoTarget

ReturnMut(e) ==
    /\ emits[e].status = "calling"
    /\ emits' = [emits EXCEPT ![e].status = "between", ![e].todo = Tail(@)]
    /\ UNCHANGED <<arrays, subs>>

ReturnMutCalling(e) ==
    /\ emits[e].status = "calling"
    /\ Forwarding(e) => emits[Last(emits[e].kids)].status = "done"
    /\ emits' = [emits EXCEPT ![e].todo = Tail(@)]
    /\ UNCHANGED <<arrays, subs>>

Return(e) ==
    /\ emits[e].status = "calling"
    /\ Forwarding(e) => emits[Last(emits[e].kids)].status = "done"
    /\ emits' = [emits EXCEPT ![e].status = "between", ![e].todo = Tail(@)]
    /\ UNCHANGED <<arrays, subs>>

FailMut(e) ==
    /\ emits[e].status = "calling"
    /\ ~Forwarding(e) /\ Head(emits[e].todo) \in Faulty
    /\ emits' = [emits EXCEPT ![e].status = "failed", ![e].todo = <<>>]
    /\ UNCHANGED <<arrays, subs>>

(* A listener rejects: the rest of the chain is skipped.                    *)
Fail(e) ==
    /\ emits[e].status = "calling"
    /\ IF Forwarding(e) THEN emits[Last(emits[e].kids)].status = "failed"
       ELSE Head(emits[e].todo) \in Faulty
    /\ emits' = [emits EXCEPT ![e].status = "failed", ![e].todo = <<>>]
    /\ UNCHANGED <<arrays, subs>>

Finish(e) ==
    /\ emits[e].status = "between" /\ emits[e].todo = <<>>
    /\ emits' = [emits EXCEPT ![e].status = "done"]
    /\ UNCHANGED <<arrays, subs>>

(* emitAll: some promise settles; the first rejection rejects the call, and *)
(* the other listeners go on unobserved.                                    *)
SettleOne(e) ==
    /\ emits[e].status = "parallel"
    /\ IF emits[e].todo = <<>>
       THEN emits' = [emits EXCEPT ![e].status = "done"]
       ELSE \E i \in 1..Len(emits[e].todo) :
              \/ emits' = [emits EXCEPT ![e].todo = RemoveAt(@, i)]
              \/ /\ emits[e].todo[i] \in Faulty
                 /\ emits' = [emits EXCEPT ![e].status = "failed", ![e].todo = <<>>]
    /\ UNCHANGED <<arrays, subs>>

Progress(e) == Call(e) \/ Forward(e) \/ Return(e) \/ Fail(e) \/ Finish(e)
                 \/ SettleOne(e)

Next ==
    \/ \E m \in Managers, l \in Listeners, ts \in EventLists : On(m, l, ts)
    \/ \E m \in Managers, l \in Listeners : ForwardTo(m, l)
    \/ \E s \in Subs : Cancel(s)
    \/ \E m, d \in Managers : Extend(m, d)
    \/ \E m \in Managers, t \in Events :
          EmitAsync(m, t) \/ EmitAll(m, t) \/ Emit(m, t)
    \/ \E e \in Emits : Progress(e)

(* Every listener settles and every settled promise has its continuation    *)
(* run.                                                                     *)
Spec == Init /\ [][Next]_vars /\ \A e \in Emits : WF_vars(Progress(e))

-----------------------------------------------------------------------------
(* Properties. *)

(* The state is well formed and every running emission has a listener.      *)
TypeOK ==
    /\ DOMAIN arrays = Managers
    /\ \A m \in Managers : /\ DOMAIN arrays[m] \subseteq Keys
                           /\ \A t \in DOMAIN arrays[m] : arrays[m][t] \in Seq(Listeners)
    /\ \A s \in Subs : subs[s].status \in {"unused", "active", "cancelled"}
    /\ \A e \in Emits :
         /\ emits[e].status \in {"unused", "between", "calling", "parallel",
                                 "done", "failed"}
         /\ emits[e].todo \in Seq(Listeners) /\ emits[e].got \in Seq(Listeners)
         /\ emits[e].status = "calling" => emits[e].todo # <<>>

(* An emission calls a listener at most once, be it registered repeatedly,  *)
(* for "*" as well, or inherited from several managers (getListeners).      *)
AtMostOnce ==
    \A e \in Emits : \A i, j \in 1..Len(emits[e].got) :
        i # j => emits[e].got[i] # emits[e].got[j]

(* As long as no array of the manager holds a listener twice, cancelling    *)
(* takes the listener off the arrays of its events, whatever was subscribed *)
(* and inherited since, and takes nothing else off (lines 45-52).           *)
CancelExact ==
    [][\A s \in Subs :
         (Cancel(s) /\ \A t \in Keys : IsInjective(ArrayIn(arrays[subs[s].on], t))) =>
            \A t \in Keys :
                ToSet(ArrayIn(arrays'[subs[s].on], t)) =
                    ToSet(ArrayIn(arrays[subs[s].on], t))
                        \ (IF t \in ToSet(subs[s].events)
                           THEN {subs[s].listener} ELSE {})]_vars

(* A manager that extends another delivers what it delivered before and     *)
(* what the other one delivers, for every event either of them knows.       *)
ExtendDelivers ==
    [][\A m, d \in Managers : (Extend(m, d) /\ m # d) =>
         \A t \in DOMAIN arrays[m] \cup DOMAIN arrays[d] :
            ToSet(GetListeners(arrays'[m], t)) =
               ToSet(GetListeners(arrays[m], t)) \cup ToSet(GetListeners(arrays[d], t))
         ]_vars

(* An emission goes on to its next listener only when what it forwarded has *)
(* been handled completely, and it succeeds only if that did (forwardTo,    *)
(* lines 30-36).                                                            *)
ForwardAwaited ==
    \A e \in Emits : \A f \in ToSet(emits[e].kids) :
        /\ emits[f].status \notin Over => emits[e].status = "calling"
        /\ emits[e].status = "done" => emits[f].status = "done"

(* Every emission ends, with all its listeners called or with the failure   *)
(* of one.                                                                  *)
EmissionEnds ==
    \A e \in Emits : (emits[e].status \notin {"unused"} \cup Over)
                        ~> (emits[e].status \in Over)
=============================================================================
