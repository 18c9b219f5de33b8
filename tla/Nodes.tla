--------------------------------- MODULE Nodes --------------------------------
(***************************************************************************)
(* The processes of an application: their requests, each in a context of   *)
(* its own (lib/core/src/application/create-request-context.ts), that code *)
(* finds again after an await (lib/core/src/context/async-context.ts, and  *)
(* lib/core/src/shims/async-local-storage.ts in the browser); the events   *)
(* that go from process to process                                         *)
(* (lib/redis/src/redis/redis-event-adapter.ts); the settings they share   *)
(* (lib/redis/src/settings/setting.ts); and the events of their life       *)
(* (lib/core/src/app/app.ts), which reach the other processes like any     *)
(* other.                                                                  *)
(*                                                                         *)
(* A job is a request, or one of init, start and destroy.  A step of a job *)
(* is what it does between two awaits; jobs of one process interleave      *)
(* there.  In the browser there is no Redis: a process stands for a page.   *)
(* The event redis:connect, which follows every init, is left out.          *)
(***************************************************************************)
EXTENDS Naturals, Sequences, SequencesExt, FiniteSets, FiniteSetsExt

CONSTANTS
    Processes,
    Jobs,       \* Jobs[j]: its kind, its process, the field a request sets
    Loads,      \* sets of jobs: those of one of them take place
    Runtimes,   \* "node", "browser" or both
    MaxFaults   \* bound: connections lost and publications refused

ASSUME NodesAssumption ==
    /\ \A j \in DOMAIN Jobs :
         /\ Jobs[j].kind \in {"request", "init", "start", "destroy"}
         /\ Jobs[j].at \in Processes
    /\ "none" \notin DOMAIN Jobs          \* the name stands for no job
    /\ \A load \in Loads : load \subseteq DOMAIN Jobs
    /\ Runtimes \subseteq {"node", "browser"} /\ MaxFaults \in Nat

JobNames == DOMAIN Jobs
Kind(j) == Jobs[j].kind
At(j) == Jobs[j].at
Fields == {Jobs[j].field : j \in {i \in JobNames : Kind(i) = "request"}}
None == "none"

VARIABLES
    runtime,     \* where the processes run
    frame,       \* frame[p]: _activeFrame of the shim between two steps
    clients,     \* clients[p]: the Redis clients p has opened
    step,        \* step[j]: what the job does next
    client,      \* client[j]: its context has a Redis client
    seen,        \* seen[j]: what useContext returned in the job
    read,        \* read[j]: the settings the job has read
    settings,    \* the settings in Redis: who set each field last
    subscribed,  \* subscribed[p]: Redis sends p the events
    inbox,       \* inbox[p]: the events on their way to p
    heard,       \* heard[p]: what the listeners of p were called with
    log,         \* history: the events published, in the order of Redis
    writers,     \* history: the jobs that wrote settings, in this order
    alone,       \* history: no other job read or wrote during set of j
    faults       \* faults so far

redis == <<settings, subscribed, inbox, log>>
vars == <<runtime, frame, clients, step, client, seen, read, redis, heard,
          writers, alone, faults>>

Own(j)  == [event |-> j, copy |-> FALSE]
Copy(j) == [event |-> j, copy |-> TRUE]
Ended(j) == step[j] \in {"absent", "done", "failed"}

Init ==
    /\ runtime \in Runtimes
    /\ frame = [p \in Processes |-> None]
    /\ clients = [p \in Processes |-> 0]
    /\ \E load \in Loads :
         step = [j \in JobNames |-> IF j \in load THEN "new" ELSE "absent"]
    /\ client = [j \in JobNames |-> FALSE]
    /\ seen = [j \in JobNames |-> {}]
    /\ settings = [f \in Fields |-> None]
    /\ read = [j \in JobNames |-> settings]
    /\ subscribed = [p \in Processes |-> FALSE]
    /\ inbox = [p \in Processes |-> <<>>]
    /\ heard = [p \in Processes |-> <<>>]
    /\ log = <<>> /\ writers = <<>>
    /\ alone = [j \in JobNames |-> TRUE]
    /\ faults = 0

-----------------------------------------------------------------------------
(* The context of running code. *)

RestoredMut(before, j) == j             \* run does not restore the frame

(* run of the shim: its frame is active while the callback runs, until the  *)
(* callback returns, at its first await.                                    *)
Restored(before, j) == before

Run(j) == frame' = [frame EXCEPT ![At(j)] = Restored(@, j)]

(* useContext in code of j that continues after an await.  When it finds    *)
(* none, a listener gets the context it was registered in.                  *)
Current(j) == IF runtime = "node" THEN j ELSE frame[At(j)]

See(j, c) == seen' = [seen EXCEPT ![j] = @ \cup {c}]
Goto(j, s) == step' = [step EXCEPT ![j] = s]

-----------------------------------------------------------------------------
(* Requests. *)

(* createRequestContext copies what the context of the application has, and *)
(* withContext runs the request in it.                                      *)
Enter(j) ==
    /\ Kind(j) = "request" /\ step[j] = "new"
    /\ client' = [client EXCEPT ![j] = clients[At(j)] > 0]
    /\ Run(j)
    /\ See(j, j)
    /\ Goto(j, IF runtime = "node" THEN "read" ELSE "emit")
    /\ UNCHANGED <<runtime, clients, read, redis, heard, writers, alone, faults>>

Setting == {j \in JobNames : step[j] = "write"}

(* Config.set, first half: get, by the client of the context. *)
Read(j) ==
    /\ step[j] = "read"
    /\ See(j, Current(j))
    /\ IF client[j]
       THEN /\ Goto(j, "write")
            /\ read' = [read EXCEPT ![j] = settings]
            /\ alone' = [i \in JobNames |->
                  IF i = j THEN Setting = {} ELSE alone[i] /\ i \notin Setting]
       ELSE Goto(j, "failed") /\ UNCHANGED <<read, alone>>
    /\ UNCHANGED <<runtime, frame, clients, client, redis, heard, writers, faults>>

MergedMut(values, j) ==             \* what is stored prevails
    [values EXCEPT ![Jobs[j].field] = IF @ = None THEN j ELSE @]

(* merge.all: defaults, what was read, and the new values on top. *)
Merged(values, j) == [values EXCEPT ![Jobs[j].field] = j]

(* Config.set, second half: the merged settings replace what is there now.  *)
Write(j) ==
    /\ step[j] = "write"
    /\ See(j, Current(j))
    /\ settings' = Merged(read[j], j)
    /\ writers' = Append(writers, j)
    /\ Goto(j, "emit")
    /\ UNCHANGED <<runtime, frame, clients, client, read, subscribed, inbox, log,
                   heard, alone, faults>>

-----------------------------------------------------------------------------
(* Events. *)

(* init, start and destroy of the application, in this order.               *)
Live(j) ==
    /\ Kind(j) # "request" /\ step[j] = "new"
    /\ \A i \in JobNames :
         /\ At(i) = At(j)
         /\ \/ Kind(j) = "start" /\ Kind(i) = "init"
            \/ Kind(j) = "destroy" /\ Kind(i) \in {"init", "start"}
         => Ended(i)
    /\ Goto(j, "emit")
    /\ UNCHANGED <<runtime, frame, clients, client, seen, read, redis, heard,
                   writers, alone, faults>>

ListenMut(p, e) ==                  \* what comes from Redis is ignored here
    /\ heard' = IF e.copy THEN heard ELSE [heard EXCEPT ![p] = Append(@, e)]
    /\ UNCHANGED clients

(* The type of the event: destroy emits that of start. *)
Type(j) == IF Kind(j) = "destroy" THEN "start" ELSE Kind(j)

(* The listeners of an event at p: redisMiddleware opens a client on init,  *)
(* and closes it on the event of destruction.                               *)
Listen(p, e) ==
    /\ heard' = [heard EXCEPT ![p] = Append(@, e)]
    /\ clients' = [clients EXCEPT ![p] = CASE Type(e.event) = "init" -> @ + 1
                                           [] Type(e.event) = "destroy" -> @ - 1
                                           [] OTHER -> @]

(* Context.emit: the listeners run one after the other, the first after an  *)
(* await already, the one of the adapter last.                              *)
Emit(j) ==
    /\ step[j] = "emit"
    /\ Run(j)
    /\ Listen(At(j), Own(j))
    /\ See(j, Current(j))
    /\ Goto(j, IF runtime = "node" THEN "publish" ELSE "done")
    /\ UNCHANGED <<runtime, client, read, redis, writers, alone, faults>>

(* A listener throws: the ones after it, the adapter's too, do not run.     *)
Throw(j) ==
    /\ step[j] = "emit"
    /\ Run(j)
    /\ Goto(j, "failed")
    /\ See(j, Current(j))
    /\ UNCHANGED <<runtime, clients, client, read, redis, heard, writers,
                   alone, faults>>

ToAll(e) == [p \in Processes |-> IF subscribed[p] THEN Append(inbox[p], e)
                                                  ELSE inbox[p]]

(* The adapter publishes; Redis passes the event on to whoever is           *)
(* subscribed, the process it comes from included.                          *)
Publish(j) ==
    /\ step[j] = "publish"
    /\ log' = Append(log, j) /\ inbox' = ToAll(j)
    /\ Goto(j, "done")
    /\ UNCHANGED <<runtime, frame, clients, client, seen, read, settings,
                   subscribed, heard, writers, alone, faults>>

Fault == faults < MaxFaults /\ faults' = faults + 1

(* Publication fails: the adapter catches the error, and the job goes on.   *)
Refuse(j) ==
    /\ step[j] = "publish" /\ Fault
    /\ Goto(j, "done")
    /\ UNCHANGED <<runtime, frame, clients, client, seen, read, redis, heard,
                   writers, alone>>

EchoMut(p, e) ==                    \* __fromRedis is not looked at
    log' = Append(log, e) /\ inbox' = [ToAll(e) EXCEPT ![p] = Tail(@)]

(* The adapter's own listener ignores what comes from Redis. *)
Echo(p, e) == inbox' = [inbox EXCEPT ![p] = Tail(@)] /\ UNCHANGED log

(* onMessage: the listeners of the process run, in no job. *)
Hear(p) ==
    /\ inbox[p] # <<>>
    /\ Listen(p, Copy(inbox[p][1]))
    /\ Echo(p, inbox[p][1])
    /\ UNCHANGED <<runtime, frame, step, client, seen, read, settings,
                   subscribed, writers, alone, faults>>

(* psubscribe, which nobody awaits, and again after a lost connection.      *)
Subscribe(p) ==
    /\ runtime = "node" /\ ~subscribed[p]
    /\ subscribed' = [subscribed EXCEPT ![p] = TRUE]
    /\ UNCHANGED <<runtime, frame, clients, step, client, seen, read, settings,
                   inbox, log, heard, writers, alone, faults>>

Disconnect(p) ==
    /\ subscribed[p] /\ Fault
    /\ subscribed' = [subscribed EXCEPT ![p] = FALSE]
    /\ inbox' = [inbox EXCEPT ![p] = <<>>]
    /\ UNCHANGED <<runtime, frame, clients, step, client, seen, read, settings,
                   log, heard, writers, alone>>

Work(j) == Enter(j) \/ Read(j) \/ Write(j) \/ Live(j) \/ Emit(j) \/ Throw(j)
              \/ Publish(j) \/ Refuse(j)

Next ==
    \/ \E j \in JobNames : Work(j)
    \/ \E p \in Processes : Hear(p) \/ Subscribe(p) \/ Disconnect(p)

(* A process runs whatever is due, and Redis sends what it has. *)
Fairness ==
    /\ \A j \in JobNames : WF_vars(Work(j))
    /\ \A p \in Processes : WF_vars(Hear(p))

Spec == Init /\ [][Next]_vars /\ Fairness

-----------------------------------------------------------------------------
(* Properties. *)

(* What the processes hear of each other is a broadcast: how far a process  *)
(* is in the log is the last copy it heard.                                 *)
Places == [p \in Processes |->
    Max({0} \cup {i \in 1..Len(log) : Copy(log[i]) \in Range(heard[p])})]

Promised == INSTANCE Broadcast WITH
    Nodes <- Processes, Events <- JobNames, place <- Places

(* Events are heard once where they happen, published at most once, and     *)
(* never by who got them from Redis; copies arrive in the order of          *)
(* publication, each at most once (redis-event-adapter.ts).                 *)
Broadcasts == Promised!Spec

(* What a request triggers finds the context of this request across awaits  *)
(* (async-context.ts:43-45); in the browser it may find none after an       *)
(* await, but never the one of another request that was active meanwhile.   *)
OwnContext ==
    \A j \in JobNames :
        /\ seen[j] \subseteq {j, None}
        /\ runtime = "node" => None \notin seen[j]

After(i, j) == \E a, b \in 1..Len(writers) : a > b /\ writers[a] = i /\ writers[b] = j

(* A change of a setting that no other one overlapped is not lost: it stays *)
(* until a later request sets the same field, however these overlap.        *)
SettingKept ==
    \A j \in Range(writers) : alone[j] =>
        LET last == settings[Jobs[j].field] IN
        last = j \/ (last # None /\ After(last, j))

(* The init of an application is heard by every process it is on its way to *)
(* (the listener of redisMiddleware opens a client in each of them), unless *)
(* that process loses its connection: nothing ahead of it in the queue      *)
(* holds it up.                                                             *)
Delivered ==
    \A p \in Processes, j \in {i \in JobNames : Kind(i) = "init"} :
        j \in Range(inbox[p]) ~> (Copy(j) \in Range(heard[p]) \/ ~subscribed[p])
=============================================================================
