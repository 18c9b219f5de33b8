-------------------------------- MODULE MCNodes -------------------------------
(* Instances of Nodes: two processes; one goes through its life and serves  *)
(* two requests, the other serves one, and all requests change settings.    *)
EXTENDS Nodes, TLC

CONSTANTS p, q      \* processes

Job(kind, at) == [kind |-> kind, at |-> at]
Request(at, field) == [kind |-> "request", at |-> at, field |-> field]

MCProcesses == {p, q}
MCJobs == ("init" :> Job("init", p)) @@ ("start" :> Job("start", p))
             @@ ("destroy" :> Job("destroy", p))
             @@ ("r1" :> Request(p, "theme")) @@ ("r2" :> Request(p, "lang"))
             @@ ("r3" :> Request(q, "theme"))
MCLoads == { {"init", "r1", "r2"}, {"init", "r1", "r3"}, {"init", "start", "destroy"} }
=============================================================================
