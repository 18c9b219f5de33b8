------------------------------ MODULE Container ------------------------------
(***************************************************************************)
(* The dependency-injection container of @declaro/core: the class Context  *)
(* of lib/core/src/context/context.ts.                                     *)
(*                                                                         *)
(* A context maps keys to attributes.  An attribute holds a registration   *)
(* (what to call and which keys to inject into it) and a cached value.     *)
(* Resolving a key is a depth-first walk of the inject lists on the        *)
(* JavaScript call stack, one frame per call of _resolveValue; it runs to  *)
(* completion.  Asynchronous factories leave the stack with a promise and  *)
(* are settled later, one at a time, when the stack is empty.              *)
(***************************************************************************)
EXTENDS Naturals, Sequences

CONSTANTS
    Contexts,       \* the contexts of the process (application, requests)
    App,            \* the context that is populated at start
    Keys,           \* the keys of the scope
    Boots,          \* programs: what App registers at start, recipes for keys
    Registers,      \* Registers[c][k]: the recipes c may register for k later
    Provides,       \* the pairs <<c, k>> such that c may call provide(k, value)
    Extends,        \* the pairs <<c, d>> such that c may extend d
    Merging,        \* TRUE if extend may also be called on a populated context
    MayFail,        \* the keys whose factory may throw or reject
    StrictDefault,  \* defaultResolveOptions.strict
    MaxJobs,        \* bound: constructions in a behaviour
    Reserve,        \* bound: constructions kept free for one call of resolve
    MaxRegs         \* bound: registrations in a behaviour

Recipe == [inject : Seq(Keys),          \* keys injected, in order
           async  : BOOLEAN,            \* registerAsyncFactory / AsyncClass
           mode   : {"transient", "singleton", "eager"},
           strict : BOOLEAN,
           yields : {"object", "nil"}]  \* what the factory returns

ValueRecipe == [inject |-> <<>>, async |-> FALSE, mode |-> "singleton",
                strict |-> FALSE, yields |-> "object"]

ASSUME ContainerAssumption ==
    /\ App \in Contexts /\ Keys # {}
    /\ \A boot \in Boots : \A k \in DOMAIN boot : k \in Keys /\ boot[k] \in Recipe
    /\ \A c \in Contexts, k \in Keys : \A r \in Registers[c][k] : r \in Recipe
    /\ Provides \subseteq Contexts \X Keys
    /\ Extends \subseteq Contexts \X Contexts
    /\ Merging \in BOOLEAN
    /\ MayFail \subseteq Keys
    /\ StrictDefault \in BOOLEAN
    /\ MaxJobs \in Nat /\ Reserve \in Nat
    /\ MaxRegs \in Nat \ {0}

VARIABLES
    attrs,     \* attrs[c][k]: the attribute of key k in context c
    nextReg,   \* the number the next registration gets
    jobs,      \* jobs[j]: one construction, i.e. one call of attribute.value
    agenda,    \* the <<c, k>> a running call of the API has still to resolve
    stack,     \* the calls of _resolveValue in progress, innermost first
    throwing   \* TRUE while an exception unwinds the stack

vars == <<attrs, nextReg, jobs, agenda, stack, throwing>>

-----------------------------------------------------------------------------
(* Data.  A construction stands for its circular-dependency proxy, for the  *)
(* promise it returns when it is asynchronous and for the object it builds. *)

Jobs == 1..MaxJobs

Value == [tag : {"nil", "proxy", "promise", "object"}, job : 0..MaxJobs]

Nil        == [tag |-> "nil",     job |-> 0]
ProxyMut(j) == [tag |-> "promise", job |-> j]
Proxy(j)   == [tag |-> "proxy",   job |-> j]
Promise(j) == [tag |-> "promise", job |-> j]
Object(j)  == [tag |-> "object",  job |-> j]

Attribute == [reg    : 0..MaxRegs,      \* which registration; 0 if none
              recipe : Recipe,
              cached : Value]           \* cachedValue

Unregistered == [reg |-> 0, recipe |-> ValueRecipe, cached |-> Nil]

Job == [on     : Contexts,
        key    : Keys,
        status : {"free", "resolving", "awaiting", "built", "failed"},
        needs  : SUBSET Keys,           \* the keys injected
        seen   : [Keys -> 0..MaxRegs],  \* the registrations at that time
        args   : Seq(Value)]            \* the arguments the factory got

Frame == [on      : Contexts,
          key     : Keys,
          scratch : [Keys -> Value],    \* resolutionContext
          job     : 0..MaxJobs,         \* 0 before attribute.value is called
          args    : Seq(Value)]

Elems(s) == {s[i] : i \in 1..Len(s)}

-----------------------------------------------------------------------------
(* Reading the state. *)

Idle == stack = <<>> /\ agenda = {}

Registered(c, k) == attrs[c][k].reg # 0

(* The inject list of k among the attributes as of one context. *)
Injects(as, k) == IF as[k].reg # 0 THEN Elems(as[k].recipe.inject) ELSE {}

Caching(c, k) == /\ Registered(c, k)
                 /\ attrs[c][k].recipe.mode \in {"singleton", "eager"}

Strict(c, k) == IF Registered(c, k) THEN attrs[c][k].recipe.strict
                                    ELSE StrictDefault

DependentsMut(as, k) == {m \in Keys : k \in Injects(as, m)}

(* getAllDependents: the keys that inject k, directly or not. *)
Dependents(as, k) ==
    {m \in Keys : \A S \in SUBSET Keys :
        (\A n \in Keys : Injects(as, n) \cap (S \cup {k}) # {} => n \in S)
            => m \in S}

(* The keys _cacheIsValid visits from k: it goes through the inject list of *)
(* singletons and stops at every other dependency.                          *)
Visited(c, k) ==
    {m \in Keys : \A S \in SUBSET Keys :
        (/\ k \in S
         /\ \A n \in S : Caching(c, n) => Injects(attrs[c], n) \subseteq S)
            => m \in S}

CacheIsValidMut(c, k) == \A m \in Visited(c, k) : attrs[c][m].cached # Nil

CacheIsValid(c, k) ==
    \A m \in Visited(c, k) : Caching(c, m) => attrs[c][m].cached # Nil

ServableMut(c, k) == /\ Caching(c, k)
                     /\ attrs[c][k].cached.tag \in {"object", "proxy"}
                     /\ \A m \in Injects(attrs[c], k) : CacheIsValid(c, m)

(* What lets line 767 serve the cached value. *)
Servable(c, k) == /\ Caching(c, k)
                  /\ attrs[c][k].cached # Nil
                  /\ \A m \in Injects(attrs[c], k) : CacheIsValid(c, m)

-----------------------------------------------------------------------------
NoJob == [on |-> App, key |-> CHOOSE k \in Keys : TRUE, status |-> "free",
          needs |-> {}, seen |-> [k \in Keys |-> 0], args |-> <<>>]

Init ==
    /\ \E boot \in Boots :
         attrs = [c \in Contexts |-> [k \in Keys |->
                    IF c = App /\ k \in DOMAIN boot
                    THEN [reg |-> 1, recipe |-> boot[k], cached |-> Nil]
                    ELSE Unregistered]]
    /\ nextReg = 2
    /\ jobs = [j \in Jobs |-> NoJob]
    /\ agenda = {}
    /\ stack = <<>>
    /\ throwing = FALSE

-----------------------------------------------------------------------------
(* Calls of the API, made by the application when nothing else runs. *)

Room == \A j \in Jobs : j + Reserve > MaxJobs => jobs[j].status = "free"

(* resolve, inject and the getters of scope. *)
Resolve(c, k) ==
    /\ Idle /\ Room
    /\ agenda' = {<<c, k>>}
    /\ UNCHANGED <<attrs, nextReg, jobs, stack, throwing>>

(* initializeEagerDependencies *)
InitializeEager(c) ==
    /\ Idle /\ Room
    /\ agenda' = {<<c, k>> : k \in {k \in Keys :
                     Registered(c, k) /\ attrs[c][k].recipe.mode = "eager"}}
    /\ agenda' # {}
    /\ UNCHANGED <<attrs, nextReg, jobs, stack, throwing>>

(* addDep: the new attribute has no cached value. *)
AddDep(c, k, r) ==
    [attrs[c] EXCEPT ![k] = [reg |-> nextReg, recipe |-> r, cached |-> Nil]]

(* Its dependents lose theirs if the key was registered before.             *)
Invalidate(c, k, as) ==
    [m \in Keys |-> IF Registered(c, k) /\ m \in Dependents(as, k)
                    THEN [as[m] EXCEPT !.cached = Nil] ELSE as[m]]

(* register and the five methods built on it *)
Register(c, k) ==
    /\ Idle /\ nextReg <= MaxRegs
    /\ \E r \in Registers[c][k] :
         attrs' = [attrs EXCEPT ![c] = Invalidate(c, k, AddDep(c, k, r))]
    /\ nextReg' = nextReg + 1
    /\ UNCHANGED <<jobs, agenda, stack, throwing>>

(* provide (deprecated): a singleton value, and nothing is invalidated. *)
Provide(c, k) ==
    /\ Idle /\ nextReg <= MaxRegs
    /\ <<c, k>> \in Provides
    /\ attrs' = [attrs EXCEPT ![c] = AddDep(c, k, ValueRecipe)]
    /\ nextReg' = nextReg + 1
    /\ UNCHANGED <<jobs, agenda, stack, throwing>>

(* extend: every attribute of d is copied into c, its cached value too. *)
Extend(c, d) ==
    /\ Idle /\ <<c, d>> \in Extends
    /\ Merging \/ \A k \in Keys : ~Registered(c, k)
    /\ attrs' = [attrs EXCEPT ![c] = [k \in Keys |->
                    IF Registered(d, k) THEN attrs[d][k] ELSE attrs[c][k]]]
    /\ UNCHANGED <<nextReg, jobs, agenda, stack, throwing>>

-----------------------------------------------------------------------------
(* The synchronous walk: one call of _resolveValue is one frame. *)

Top == Head(stack)

Running == stack # <<>> /\ ~throwing

Entered == Running /\ Top.job = 0            \* before line 763

Constructing == Running /\ Top.job # 0       \* inside attribute.value

Call(c, k, scratch) == [on |-> c, key |-> k, scratch |-> scratch, job |-> 0,
                        args |-> <<>>]

(* The call on top of the stack returns v to the call that injects it. *)
Returned(v) ==
    LET rest == Tail(stack)
    IN IF rest = <<>> THEN <<>>
       ELSE <<[Head(rest) EXCEPT !.args = Append(@, v)]>> \o Tail(rest)

(* Line 807: the value of a singleton is kept, wherever it came from. *)
MemoMutFirst(c, k, v) ==
    IF Caching(c, k) /\ attrs[c][k].cached = Nil
    THEN [attrs EXCEPT ![c][k].cached = v] ELSE attrs

MemoMutShared(c, k, v) ==
    [x \in Contexts |-> IF Caching(c, k) /\ attrs[x][k].reg = attrs[c][k].reg
                        THEN [attrs[x] EXCEPT ![k].cached = v] ELSE attrs[x]]

Memo(c, k, v) ==
    IF Caching(c, k) THEN [attrs EXCEPT ![c][k].cached = v] ELSE attrs

(* Lines 807-815: v is memoized, then returned, or refused if the key is    *)
(* strict and v is undefined.                                               *)
Deliver(v) ==
    LET c == Top.on
        k == Top.key
        refused == Strict(c, k) /\ v = Nil
    IN /\ attrs' = Memo(c, k, v)
       /\ throwing' = refused
       /\ stack' = IF refused THEN stack ELSE Returned(v)

(* A call of the API starts with its next root; a root has an empty         *)
(* resolution context.                                                      *)
Begin ==
    /\ stack = <<>>
    /\ \E c \in Contexts, k \in Keys :
         /\ <<c, k>> \in agenda
         /\ agenda' = agenda \ {<<c, k>>}
         /\ stack' = <<Call(c, k, [m \in Keys |-> Nil])>>
    /\ UNCHANGED <<attrs, nextReg, jobs, throwing>>

(* An unregistered key is undefined, or throws where strict is the default. *)
Missing ==
    /\ Entered /\ ~Registered(Top.on, Top.key)
    /\ Deliver(Nil)
    /\ UNCHANGED <<nextReg, jobs, agenda>>

(* A key under construction further down the stack: its proxy is served. *)
ServeProxy ==
    /\ Entered /\ Registered(Top.on, Top.key)
    /\ Top.scratch[Top.key] # Nil
    /\ Deliver(Top.scratch[Top.key])
    /\ UNCHANGED <<nextReg, jobs, agenda>>

ServeCached ==
    /\ Entered /\ Registered(Top.on, Top.key)
    /\ Top.scratch[Top.key] = Nil
    /\ Servable(Top.on, Top.key)
    /\ Deliver(attrs[Top.on][Top.key].cached)
    /\ UNCHANGED <<nextReg, jobs, agenda>>

(* Otherwise attribute.value is called, with a fresh proxy for the key in   *)
(* the resolution context that its own injections will copy.                *)
Construct ==
    /\ Entered /\ Registered(Top.on, Top.key)
    /\ Top.scratch[Top.key] = Nil
    /\ ~Servable(Top.on, Top.key)
    /\ \E j \in Jobs :
         /\ jobs[j].status = "free"
         /\ \A i \in Jobs : jobs[i].status = "free" => j <= i
         /\ jobs' = [jobs EXCEPT ![j] =
              [on |-> Top.on, key |-> Top.key, status |-> "resolving",
               needs |-> Injects(attrs[Top.on], Top.key),
               seen |-> [m \in Keys |-> attrs[Top.on][m].reg], args |-> <<>>]]
         /\ stack' = <<[Top EXCEPT !.job = j,
                                   !.scratch[Top.key] = Proxy(j)]>> \o Tail(stack)
    /\ UNCHANGED <<attrs, nextReg, agenda, throwing>>

InjectList == attrs[Top.on][Top.key].recipe.inject

(* The next key of the inject list is resolved by a nested call. *)
InjectNext ==
    /\ Constructing /\ Len(Top.args) < Len(InjectList)
    /\ stack' = <<Call(Top.on, InjectList[Len(Top.args) + 1], Top.scratch)>>
                  \o stack
    /\ UNCHANGED <<attrs, nextReg, jobs, agenda, throwing>>

AllInjected == Constructing /\ Len(Top.args) = Len(InjectList)

(* A synchronous factory or constructor returns; its proxy gets a target. *)
BuildSync ==
    /\ AllInjected /\ ~attrs[Top.on][Top.key].recipe.async
    /\ jobs' = [jobs EXCEPT ![Top.job].status = "built",
                            ![Top.job].args = Top.args]
    /\ Deliver(IF attrs[Top.on][Top.key].recipe.yields = "nil"
               THEN Nil ELSE Object(Top.job))
    /\ UNCHANGED <<nextReg, agenda>>

(* A synchronous factory or constructor throws. *)
ThrowSync ==
    /\ AllInjected /\ ~attrs[Top.on][Top.key].recipe.async
    /\ Top.key \in MayFail
    /\ throwing' = TRUE
    /\ UNCHANGED <<attrs, nextReg, jobs, agenda, stack>>

(* An asynchronous factory has resolved its injections and waits for the    *)
(* promises among them (Promise.all); its own promise is the value.         *)
Launch ==
    /\ AllInjected /\ attrs[Top.on][Top.key].recipe.async
    /\ jobs' = [jobs EXCEPT ![Top.job].status = "awaiting",
                            ![Top.job].args = Top.args]
    /\ Deliver(Promise(Top.job))
    /\ UNCHANGED <<nextReg, agenda>>

Abandoned == IF Top.job # 0 /\ jobs[Top.job].status = "resolving"
             THEN [jobs EXCEPT ![Top.job].status = "failed"] ELSE jobs

UnwindMut ==
    /\ throwing
    /\ Top.job = 0 \/ ~attrs[Top.on][Top.key].recipe.async
    /\ jobs' = Abandoned
    /\ stack' = Tail(stack)
    /\ UNCHANGED <<attrs, nextReg, agenda, throwing>>

(* An exception ends every synchronous call; the caller of the API gets it. *)
Unwind ==
    /\ throwing
    /\ Top.job = 0 \/ ~attrs[Top.on][Top.key].recipe.async
    /\ jobs' = Abandoned
    /\ stack' = Tail(stack)
    /\ throwing' = (Tail(stack) # <<>>)
    /\ UNCHANGED <<attrs, nextReg, agenda>>

(* The async function of an asynchronous factory turns an exception of its  *)
(* injections into a rejected promise, which is its value.                  *)
Catch ==
    /\ throwing
    /\ Top.job # 0 /\ attrs[Top.on][Top.key].recipe.async
    /\ jobs' = Abandoned
    /\ Deliver(Promise(Top.job))
    /\ UNCHANGED <<nextReg, agenda>>

SyncStep == \/ Begin \/ Missing \/ ServeProxy \/ ServeCached \/ Construct
            \/ InjectNext \/ BuildSync \/ ThrowSync \/ Launch \/ Unwind \/ Catch

-----------------------------------------------------------------------------
(* The event loop: continuations of promises, run when the stack is empty.  *)

(* The jobs whose promise j waits for. *)
AwaitedBy(j) == {v.job : v \in {v \in Elems(jobs[j].args) : v.tag = "promise"}}

(* Every injected promise is fulfilled and the factory's own work is done:  *)
(* the promise is fulfilled and the proxy gets its target.                  *)
Fulfil(j) ==
    /\ Idle /\ jobs[j].status = "awaiting"
    /\ \A i \in AwaitedBy(j) : jobs[i].status = "built"
    /\ jobs' = [jobs EXCEPT ![j].status = "built"]
    /\ UNCHANGED <<attrs, nextReg, agenda, stack, throwing>>

RejectMut(j) ==
    /\ Idle /\ jobs[j].status = "awaiting"
    /\ jobs[j].key \in MayFail
    /\ \A i \in AwaitedBy(j) : jobs[i].status = "built"
    /\ jobs' = [jobs EXCEPT ![j].status = "failed"]
    /\ UNCHANGED <<attrs, nextReg, agenda, stack, throwing>>

(* An injected promise was rejected, or the factory fails. *)
Reject(j) ==
    /\ Idle /\ jobs[j].status = "awaiting"
    /\ \/ \E i \in AwaitedBy(j) : jobs[i].status = "failed"
       \/ /\ jobs[j].key \in MayFail
          /\ \A i \in AwaitedBy(j) : jobs[i].status = "built"
    /\ jobs' = [jobs EXCEPT ![j].status = "failed"]
    /\ UNCHANGED <<attrs, nextReg, agenda, stack, throwing>>

Settle(j) == Fulfil(j) \/ Reject(j)

(* Between calls the process may stay as it is. *)
Rest == Idle /\ UNCHANGED vars

-----------------------------------------------------------------------------
Next ==
    \/ \E c \in Contexts, k \in Keys : Resolve(c, k) \/ Register(c, k) \/ Provide(c, k)
    \/ \E c \in Contexts : InitializeEager(c)
    \/ \E c, d \in Contexts : Extend(c, d)
    \/ SyncStep
    \/ \E j \in Jobs : Settle(j)
    \/ Rest

(* The walk is synchronous code; every pending promise gets its turn of the *)
(* event loop even if calls keep coming in between (strong fairness).       *)
Fairness == WF_vars(SyncStep) /\ \A j \in Jobs : SF_vars(Settle(j))

Spec == Init /\ [][Next]_vars /\ Fairness

-----------------------------------------------------------------------------
(* Properties. *)

(* The state is well formed; a frame under construction has a job.          *)
TypeOK ==
    /\ attrs \in [Contexts -> [Keys -> Attribute]]
    /\ nextReg \in 1..(MaxRegs + 1)
    /\ jobs \in [Jobs -> Job]
    /\ agenda \in SUBSET (Contexts \X Keys)
    /\ stack \in Seq(Frame)
    /\ throwing \in BOOLEAN
    /\ throwing => stack # <<>>

(* The jobs whose proxy, promise or object is reachable from that of j.     *)
ArgJobs(j) == {v.job : v \in Elems(jobs[j].args)} \ {0}

Parts(j) ==
    LET reach[n \in 0..MaxJobs] ==
          IF n = 0 THEN {j}
          ELSE reach[n - 1] \cup UNION {ArgJobs(i) : i \in reach[n - 1]}
    IN reach[MaxJobs]

(* Construction j of context c went through a registration that has been    *)
(* replaced in c since; keys that were missing at the time do not count.    *)
Replaced(c, j) ==
    \E i \in Parts(j) : \E m \in jobs[i].needs \cup {jobs[i].key} :
        jobs[i].seen[m] \notin {0, attrs[c][m].reg}

(* As Replaced, but a key that was missing and is registered now counts.    *)
Outdated(c, j) ==
    \E i \in Parts(j) : \E m \in jobs[i].needs \cup {jobs[i].key} :
        jobs[i].seen[m] # attrs[c][m].reg

(* Registering a key again kills every cached value made by its previous    *)
(* registration, through any chain of singletons, transients, promises and  *)
(* proxies (register, lines 347-359).                                       *)
CacheFresh ==
    Idle => \A c \in Contexts, k \in Keys :
        attrs[c][k].cached # Nil => ~Replaced(c, attrs[c][k].cached.job)

(* Two holders of a singleton hold the same instance: what a cached value   *)
(* got injected for a singleton key is what that key has in its own cache.  *)
SharedInstances ==
    Idle => \A c \in Contexts, k, m \in Keys :
        (attrs[c][k].cached # Nil /\ Caching(c, m) /\ attrs[c][m].cached # Nil) =>
            LET inject == attrs[c][k].recipe.inject
                args   == jobs[attrs[c][k].cached.job].args
            IN \A i \in 1..Len(args) :
                 (inject[i] = m /\ args[i] # Nil)
                    => args[i].job = attrs[c][m].cached.job

(* The contexts c extends, directly or through others, and c itself.        *)
Origins(c) ==
    {d \in Contexts : \A S \in SUBSET Contexts :
        (/\ c \in S
         /\ \A x \in S, y \in Contexts : <<x, y>> \in Extends => y \in S)
            => d \in S}

(* What a context caches was built by itself or by a context it extends:    *)
(* resolving in a request leaves nothing of the request in the application  *)
(* (extend copies the attributes, line 890).                                *)
Isolated ==
    Idle => \A c \in Contexts, k \in Keys : attrs[c][k].cached # Nil =>
        \A j \in Parts(attrs[c][k].cached.job) : jobs[j].on \in Origins(c)

(* A cached singleton is never exchanged for another instance while every   *)
(* registration it was made from is still in place and nothing it was made  *)
(* from has failed (ResolveOptions.singleton, lines 205-209).               *)
SingletonStep ==
    \A c \in Contexts, k \in Keys :
        LET old == attrs[c][k]
            new == attrs'[c][k]
        IN (/\ old.cached # Nil /\ new.cached # Nil
            /\ old.reg = new.reg /\ old.cached.job # new.cached.job)
                => \/ Outdated(c, old.cached.job)
                   \/ \E i \in Parts(old.cached.job) : jobs[i].status = "failed"

SingletonStable == [][SingletonStep]_vars

(* The asynchronous factories of a dependency graph, cyclic or not, never   *)
(* wait for each other in a circle (the proxies of lines 776-780 break it). *)
Awaiting == {j \in Jobs : jobs[j].status = "awaiting"}

NoAwaitCycle ==
    \A S \in SUBSET Awaiting :
        S # {} => \E j \in S : AwaitedBy(j) \cap S = {}

(* Why the waiting is acyclic: a promise leaves its call of _resolveValue   *)
(* only when its asynchronous function has left the stack, so nothing that  *)
(* is still on the stack can be waited for.                                 *)
Out == {"awaiting", "built", "failed"}

Launched(v) ==
    v.tag = "promise" => v.job \in Jobs /\ jobs[v.job].status \in Out

CachesLaunched ==
    \A c \in Contexts, k \in Keys : Launched(attrs[c][k].cached)

ArgsLaunched == \A j \in Jobs : \A v \in Elems(jobs[j].args) : Launched(v)

FrameOK(f) ==
    /\ \A v \in Elems(f.args) : Launched(v)
    /\ \A k \in Keys : f.scratch[k].tag # "promise"
    /\ f.job # 0 => jobs[f.job].status # "free"

FramesOK == \A n \in 1..Len(stack) : FrameOK(stack[n])

FramesResolving ==
    \A n \in 1..Len(stack) : (stack[n].job # 0 /\ (n = 1 => ~throwing))
        => jobs[stack[n].job].status = "resolving"

FramesDistinct ==
    \A m, n \in 1..Len(stack) : (m # n /\ stack[n].job # 0)
        => stack[m].job # stack[n].job

FrameInv == FramesOK /\ FramesResolving /\ FramesDistinct

AwaitInv == NoAwaitCycle /\ CachesLaunched /\ ArgsLaunched /\ FrameInv

(* Every promise the container hands out is settled.                        *)
EverySettles ==
    \A j \in Jobs : jobs[j].status = "awaiting"
                        ~> jobs[j].status \in {"built", "failed"}

(* When nothing runs, nothing is pending and no construction has failed, no *)
(* cache holds a placeholder and every placeholder an instance was built    *)
(* with has its target (createProxy, lines 643-648).                        *)
PlaceholdersResolved ==
    (Idle /\ \A j \in Jobs : jobs[j].status \in {"free", "built"}) =>
        /\ \A c \in Contexts, k \in Keys : attrs[c][k].cached.tag # "proxy"
        /\ \A j \in Jobs : \A v \in Elems(jobs[j].args) :
             v.tag = "proxy" => jobs[v.job].status = "built"

(* Why contexts stay apart: whatever a context caches, injects or has in    *)
(* hand was started by a construction of that context or of one it extends, *)
(* and one walk stays in one context.                                       *)
Made(js, v, c) ==
    v = Nil \/ /\ v.job \in Jobs
               /\ js[v.job].status # "free"
               /\ js[v.job].on \in Origins(c)

CachesMade ==
    \A c \in Contexts, k \in Keys : Made(jobs, attrs[c][k].cached, c)

ArgsMade ==
    \A j \in Jobs : \A v \in Elems(jobs[j].args) : Made(jobs, v, jobs[j].on)

FrameMade(js, f) ==
    /\ \A v \in Elems(f.args) : Made(js, v, f.on)
    /\ \A k \in Keys : Made(js, f.scratch[k], f.on)
    /\ f.job # 0 => js[f.job].on = f.on

FramesMade ==
    /\ \A n \in 1..Len(stack) : FrameMade(jobs, stack[n])
    /\ \A m, n \in 1..Len(stack) : stack[m].on = stack[n].on

MadeInv == CachesMade /\ ArgsMade /\ FramesMade

(* Why no placeholder survives: one in a resolution context belongs to a    *)
(* call further down the stack, and one in a cache to a construction still  *)
(* on the stack, which overwrites it, unless something has failed.          *)
Below(s, n, c, k) == \E m \in n..Len(s) : s[m].on = c /\ s[m].key = k /\ s[m].job # 0

ScratchBelow ==
    \A n \in 1..Len(stack) : \A k \in Keys :
        stack[n].scratch[k] # Nil => Below(stack, n, stack[n].on, k)

OnlySingletons ==
    \A c \in Contexts, k \in Keys : attrs[c][k].cached # Nil => Caching(c, k)

Resolving(js, s, c, k) ==
    \E n \in 1..Len(s) : /\ s[n].on = c /\ s[n].key = k /\ s[n].job # 0
                         /\ js[s[n].job].status = "resolving"

ProxiesBelow ==
    (\A j \in Jobs : jobs[j].status # "failed") =>
        \A c \in Contexts, k \in Keys :
            attrs[c][k].cached.tag = "proxy" => Resolving(jobs, stack, c, k)

PlaceInv == ScratchBelow /\ OnlySingletons /\ ProxiesBelow

(* Why no cached value is stale: the constructions it came from are closed  *)
(* under what they got injected, and each went through registrations that   *)
(* are still in place.  as stands for attrs, js for jobs.                   *)
Current(as, job) ==
    /\ as[job.key].reg # 0 /\ job.needs = Injects(as, job.key)
    /\ \A m \in job.needs \cup {job.key} : job.seen[m] \in {0, as[m].reg}

Clean(as, js, c, S) ==
    \A i \in S :
        /\ js[i].status # "free" /\ Current(as[c], js[i])
        /\ js[i].status = "resolving" => js[i].on = c
        /\ \A v \in Elems(js[i].args) :
             v = Nil \/ (v.job \in S /\ js[v.job].key \in js[i].needs)

Fresh(as, js, c) == UNION {S \in SUBSET Jobs : Clean(as, js, c, S)}

Holds(as, js, c, v, keys) ==
    v = Nil \/ (v.job \in Fresh(as, js, c) /\ js[v.job].key \in keys)

FreshCaches ==
    \A c \in Contexts, k \in Keys : Holds(attrs, jobs, c, attrs[c][k].cached, {k})

FreshFrame(as, js, f) ==
    /\ \A k \in Keys : Holds(as, js, f.on, f.scratch[k], {k})
    /\ IF f.job = 0 THEN f.args = <<>>
       ELSE /\ f.job \in Fresh(as, js, f.on) /\ js[f.job].key = f.key
            /\ \A v \in Elems(f.args) : Holds(as, js, f.on, v, js[f.job].needs)

FreshFrames ==
    /\ \A n \in 1..Len(stack) : FreshFrame(attrs, jobs, stack[n])
    /\ \A n \in 2..Len(stack) :
         stack[n].job # 0 /\ stack[n - 1].key \in jobs[stack[n].job].needs

ResolvingOnStack ==
    \A j \in Jobs : jobs[j].status = "resolving" => \E n \in 1..Len(stack) : stack[n].job = j

FreshInv == FreshCaches /\ FreshFrames /\ ResolvingOnStack
=============================================================================
