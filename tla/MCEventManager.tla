---------------------------- MODULE MCEventManager ----------------------------
(* Instances of EventManager: an application manager, managers of requests  *)
(* that extend it, and a manager that is forwarded to.                      *)
EXTENDS EventManager

CONSTANTS app, base, req     \* managers
CONSTANTS x, y               \* events
CONSTANTS f, g, h, fwd       \* listeners

Two == {app, req}
Three == {base, app, req}
OnlyX == {x}
None == {}

FH == {f, h}
FGFwd == {f, g, fwd}
OnlyG == {g}

NoForward == [l \in Listeners |-> NoTarget]
FwdToReq == [l \in Listeners |-> IF l = fwd THEN req ELSE NoTarget]

SingleOrBoth == {<<x>>, <<x, Star>>}
JustX == {<<x>>}

ForwardApp == {<<app, fwd>>, <<app, f>>, <<req, g>>}
FOnBase == {<<base, f>>, <<req, h>>}

AppFromReq == {<<app, req>>}
ReqFromBoth == {<<app, base>>, <<req, app>>, <<req, base>>}
=============================================================================
