----------------------------- MODULE MCContainer -----------------------------
(* Instances of Container: each is a small dependency graph and the calls   *)
(* an application makes on it.                                              *)
EXTENDS Container

CONSTANTS app, req     \* contexts
CONSTANTS a, b, d, e   \* keys

Fac(inject, mode) == [inject |-> inject, async |-> FALSE, mode |-> mode,
                      strict |-> FALSE, yields |-> "object"]
AsyncFac(inject, mode) == [Fac(inject, mode) EXCEPT !.async = TRUE]

OneContext == {app}
TwoContexts == {app, req}
ThreeKeys == {a, b, d}
FourKeys == {a, b, d, e}
NoPairs == {}

(* No registration after start. *)
RegistersNothing == [c \in Contexts |-> [k \in Keys |-> {}]]

(* A diamond: the eager async root a needs a transient b and a singleton    *)
(* async d, and both need the singleton e.                                  *)
Diamond == [k \in Keys |->
    CASE k = a -> AsyncFac(<<b, d>>, "eager")
      [] k = b -> Fac(<<e>>, "transient")
      [] k = d -> AsyncFac(<<e>>, "singleton")
      [] k = e -> Fac(<<>>, "singleton")]

(* The leaf, and the middle of the diamond, may be registered again.        *)
DiamondAgain == [c \in Contexts |-> [k \in Keys |->
    IF k = e THEN {Fac(<<>>, "singleton")}
    ELSE IF k = d THEN {AsyncFac(<<e>>, "singleton"), Fac(<<>>, "transient")}
    ELSE {}]]

(* A request context: it extends the application and registers the request  *)
(* e, which the strict transient b needs; a is strict by default.           *)
Requests == [k \in {a, b, d} |->
    CASE k = a -> Fac(<<b, d>>, "singleton")
      [] k = b -> [Fac(<<e>>, "transient") EXCEPT !.strict = TRUE]
      [] k = d -> AsyncFac(<<e>>, "singleton")]

RequestRegisters == [c \in Contexts |-> [k \in Keys |->
    IF k = e /\ c = req THEN {Fac(<<>>, "singleton"),
                              [Fac(<<>>, "transient") EXCEPT !.yields = "nil"]}
    ELSE {}]]

RequestExtends == {<<req, app>>}

(* Cycles through asynchronous singletons (a - d), a transient (a - b) and  *)
(* both (d - b - a); e is a consumer outside the cycles.                    *)
Cycle == [k \in Keys |->
    CASE k = a -> AsyncFac(<<b, d>>, "singleton")
      [] k = b -> Fac(<<a>>, "transient")
      [] k = d -> AsyncFac(<<a, b>>, "eager")
      [] k = e -> AsyncFac(<<b, d>>, "transient")]

(* A chain with a transient in the middle; e may be provided again.         *)
Chain == [k \in Keys |->
    CASE k = a -> Fac(<<b>>, "singleton")
      [] k = b -> Fac(<<d>>, "transient")
      [] k = d -> Fac(<<e>>, "singleton")
      [] k = e -> ValueRecipe]

ProvideLeaf == {<<app, e>>}

(* Three synchronous singletons that inject each other.                     *)
Triangle == [k \in ThreeKeys |->
    CASE k = a -> Fac(<<b, d>>, "singleton")
      [] k = b -> Fac(<<a>>, "singleton")
      [] k = d -> Fac(<<a, b>>, "singleton")]

Leaves == {d, e}      \* the keys whose factories may fail

(* An acyclic graph of which the synchronous leaf e and the asynchronous    *)
(* factory d may fail.                                                      *)
Fragile == [k \in Keys |->
    CASE k = a -> AsyncFac(<<d, b>>, "eager")
      [] k = b -> [Fac(<<e>>, "singleton") EXCEPT !.strict = TRUE]
      [] k = d -> AsyncFac(<<e>>, "singleton")
      [] k = e -> Fac(<<>>, "transient")]

(* The programs of the runs. *)
Graphs == {Diamond, Fragile}
Cycles == {Cycle, Chain, Fragile}
OnlyRequests == {Requests}
OnlyTriangle == {Triangle}
=============================================================================
