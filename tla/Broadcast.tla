------------------------------- MODULE Broadcast ------------------------------
(***************************************************************************)
(* What the processes of an application can rely on when their events go   *)
(* through Redis: an event is heard where it is announced, is published at *)
(* most once and only then, and every process hears copies of published    *)
(* events in the order of their publication, each at most once.  Copies    *)
(* may be missed.                                                          *)
(***************************************************************************)
EXTENDS Naturals, Sequences, SequencesExt

CONSTANTS Nodes, Events

VARIABLES
    heard,  \* heard[n]: what the listeners of n were called with
    log,    \* the events published
    place   \* place[n]: how much of the log n has heard or missed

Own(e)  == [event |-> e, copy |-> FALSE]
Copy(e) == [event |-> e, copy |-> TRUE]

Announced == {e \in Events : \E n \in Nodes : Own(e) \in Range(heard[n])}

Init ==
    /\ heard = [n \in Nodes |-> <<>>]
    /\ log = <<>>
    /\ place = [n \in Nodes |-> 0]

Announce(n, e) ==
    /\ e \notin Announced
    /\ heard' = [heard EXCEPT ![n] = Append(@, Own(e))]
    /\ UNCHANGED <<log, place>>

Publish(e) ==
    /\ e \in Announced /\ e \notin Range(log)
    /\ log' = Append(log, e)
    /\ UNCHANGED <<heard, place>>

Receive(n, i) ==
    /\ i > place[n] /\ i <= Len(log)
    /\ heard' = [heard EXCEPT ![n] = Append(@, Copy(log[i]))]
    /\ place' = [place EXCEPT ![n] = i]
    /\ UNCHANGED log

Next ==
    \/ \E n \in Nodes, e \in Events : Announce(n, e)
    \/ \E e \in Events : Publish(e)
    \/ \E n \in Nodes, i \in 1..Len(log) : Receive(n, i)

Spec == Init /\ [][Next]_<<heard, log, place>>
=============================================================================
