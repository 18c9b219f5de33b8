--------------------------- MODULE ContainerProofs ---------------------------
(* Type correctness of Container, that asynchronous factories never wait    *)
(* for each other in a circle, that contexts stay apart, that no            *)
(* placeholder survives and that no cached value is stale, for every        *)
(* dependency graph; that singletons are kept and shared, for every graph   *)
(* without circles.                                                         *)
EXTENDS Container, RecursionLemmas, FiniteSetTheorems, TLAPS

(* Pushing on and popping from the call stack.                              *)
LEMMA PushFrame ==
    ASSUME NEW S, NEW x \in S, NEW t \in Seq(S)
    PROVE  /\ <<x>> \o t \in Seq(S)
           /\ <<x>> \o t # <<>>
           /\ Len(<<x>> \o t) = Len(t) + 1
           /\ (<<x>> \o t)[1] = x
           /\ \A n \in 1..Len(t) : (<<x>> \o t)[n + 1] = t[n]
  OBVIOUS

LEMMA PopFrame ==
    ASSUME NEW S, NEW s \in Seq(S), s # <<>>
    PROVE  /\ Head(s) \in S
           /\ Head(s) = s[1]
           /\ Tail(s) \in Seq(S)
           /\ Len(s) \in Nat \ {0}
           /\ Len(Tail(s)) = Len(s) - 1
           /\ \A n \in 1..Len(Tail(s)) : Tail(s)[n] = s[n + 1]
  OBVIOUS

LEMMA ValueTypes ==
    /\ Nil \in Value
    /\ \A j \in Jobs : Proxy(j) \in Value /\ Promise(j) \in Value /\ Object(j) \in Value
  BY ContainerAssumption DEF Nil, Value, Proxy, Promise, Object, Jobs,
                             ContainerAssumption

LEMMA ValueRecipeType == ValueRecipe \in Recipe
  BY DEF ValueRecipe, Recipe

LEMMA UnregisteredType == Unregistered \in Attribute
  BY ValueTypes, ValueRecipeType, ContainerAssumption
     DEF Unregistered, Attribute, ContainerAssumption

LEMMA NoJobType == NoJob \in Job
  BY ContainerAssumption DEF NoJob, Job, ContainerAssumption

LEMMA StatusType ==
    ASSUME TypeOK, NEW j \in Jobs,
           NEW s \in {"free", "resolving", "awaiting", "built", "failed"}
    PROVE  [jobs EXCEPT ![j].status = s] \in [Jobs -> Job]
  <1>1. [jobs[j] EXCEPT !.status = s] \in Job
    BY DEF TypeOK, Job
  <1> QED
    BY <1>1 DEF TypeOK

(* The top of the stack is a frame with a context, a key and arguments.     *)
LEMMA TopType ==
    ASSUME TypeOK, stack # <<>>
    PROVE  /\ Top \in Frame
           /\ Tail(stack) \in Seq(Frame)
           /\ attrs[Top.on][Top.key] \in Attribute
           /\ InjectList \in Seq(Keys)
  <1>1. Top \in Frame /\ Tail(stack) \in Seq(Frame)
    BY PopFrame DEF TypeOK, Top
  <1>2. attrs[Top.on][Top.key] \in Attribute
    BY <1>1 DEF TypeOK, Frame
  <1> QED
    BY <1>1, <1>2 DEF InjectList, Attribute, Recipe

(* Returning a value to the caller keeps the stack well formed.             *)
LEMMA ReturnedType ==
    ASSUME TypeOK, stack # <<>>, NEW v \in Value
    PROVE  Returned(v) \in Seq(Frame)
  <1> DEFINE rest == Tail(stack)
  <1>1. rest \in Seq(Frame)
    BY TopType
  <1>2. CASE rest = <<>>
    BY <1>2 DEF Returned
  <1>3. CASE rest # <<>>
    <2>1. Head(rest) \in Frame /\ Tail(rest) \in Seq(Frame)
      BY <1>1, <1>3, PopFrame
    <2>2. [Head(rest) EXCEPT !.args = Append(@, v)] \in Frame
      <3>1. Append(Head(rest).args, v) \in Seq(Value)
        BY <2>1 DEF Frame
      <3> QED
        BY <2>1, <3>1 DEF Frame
    <2>3. <<[Head(rest) EXCEPT !.args = Append(@, v)]>> \o Tail(rest) \in Seq(Frame)
      BY <2>1, <2>2, PushFrame
    <2> QED
      BY <2>3, <1>3 DEF Returned
  <1> QED
    BY <1>2, <1>3

LEMMA DeliverType ==
    ASSUME TypeOK, stack # <<>>, NEW v \in Value, Deliver(v)
    PROVE  /\ attrs' \in [Contexts -> [Keys -> Attribute]]
           /\ stack' \in Seq(Frame)
           /\ throwing' \in BOOLEAN
           /\ throwing' => stack' # <<>>
  <1>1. Top.on \in Contexts /\ Top.key \in Keys
    BY TopType DEF Frame
  <1>2. attrs' \in [Contexts -> [Keys -> Attribute]]
    <2>1. CASE ~Caching(Top.on, Top.key)
      BY <2>1 DEF Deliver, Memo, TypeOK
    <2>2. CASE Caching(Top.on, Top.key)
      <3>1. [attrs[Top.on][Top.key] EXCEPT !.cached = v] \in Attribute
        BY TopType DEF Attribute
      <3>2. attrs' = [attrs EXCEPT ![Top.on] = [@ EXCEPT ![Top.key] =
                        [attrs[Top.on][Top.key] EXCEPT !.cached = v]]]
        BY <1>1, <2>2 DEF Deliver, Memo, TypeOK
      <3> QED
        BY <1>1, <3>1, <3>2 DEF TypeOK
    <2> QED
      BY <2>1, <2>2
  <1>3. stack' \in Seq(Frame)
    BY ReturnedType DEF Deliver, TypeOK
  <1>4. throwing' \in BOOLEAN /\ (throwing' => stack' # <<>>)
    BY DEF Deliver
  <1> QED
    BY <1>2, <1>3, <1>4
(* A call of the API changes registrations or sets the agenda.              *)
LEMMA CallTypes ==
    ASSUME TypeOK, NEW c \in Contexts, NEW k \in Keys, NEW d \in Contexts,
           \/ Resolve(c, k) \/ InitializeEager(c) \/ Register(c, k)
           \/ Provide(c, k) \/ Extend(c, d)
    PROVE  TypeOK'
  <1>1. CASE Resolve(c, k)
    BY <1>1 DEF Resolve, TypeOK
  <1>2. CASE InitializeEager(c)
    BY <1>2 DEF InitializeEager, TypeOK
  <1>3. ASSUME NEW r \in Recipe, nextReg <= MaxRegs
        PROVE  AddDep(c, k, r) \in [Keys -> Attribute]
    <2>1. [reg |-> nextReg, recipe |-> r, cached |-> Nil] \in Attribute
      BY <1>3, ContainerAssumption, ValueTypes
         DEF TypeOK, Attribute, ContainerAssumption
    <2> QED
      BY <2>1 DEF AddDep, TypeOK
  <1>4. CASE Register(c, k)
    <2>1. PICK r \in Registers[c][k] :
             attrs' = [attrs EXCEPT ![c] = Invalidate(c, k, AddDep(c, k, r))]
      BY <1>4 DEF Register
    <2>2. AddDep(c, k, r) \in [Keys -> Attribute]
      BY <1>3, <1>4, ContainerAssumption DEF Register, ContainerAssumption
    <2>3. \A m \in Keys :
             [AddDep(c, k, r)[m] EXCEPT !.cached = Nil] \in Attribute
      BY <2>2, ValueTypes DEF Attribute
    <2>4. Invalidate(c, k, AddDep(c, k, r)) \in [Keys -> Attribute]
      BY <2>2, <2>3 DEF Invalidate
    <2>5. attrs' \in [Contexts -> [Keys -> Attribute]]
      BY <2>1, <2>4 DEF TypeOK
    <2> QED
      BY <1>4, <2>5, ContainerAssumption
         DEF Register, TypeOK, ContainerAssumption
  <1>5. CASE Provide(c, k)
    <2>1. attrs' \in [Contexts -> [Keys -> Attribute]]
      BY <1>3, <1>5, ValueRecipeType DEF Provide, TypeOK
    <2> QED
      BY <1>5, <2>1, ContainerAssumption
         DEF Provide, TypeOK, ContainerAssumption
  <1>6. CASE Extend(c, d)
    BY <1>6 DEF Extend, TypeOK
  <1> QED
    BY <1>1, <1>2, <1>4, <1>5, <1>6

(* A step of the synchronous walk moves the stack and settles nothing.      *)
LEMMA WalkTypes ==
    ASSUME TypeOK, SyncStep
    PROVE  TypeOK'
  <1>1. CASE Begin
    <2>1. PICK c \in Contexts, k \in Keys :
             /\ agenda' = agenda \ {<<c, k>>}
             /\ stack' = <<Call(c, k, [m \in Keys |-> Nil])>>
      BY <1>1 DEF Begin
    <2>2. Call(c, k, [m \in Keys |-> Nil]) \in Frame
      BY ValueTypes, ContainerAssumption DEF Call, Frame, ContainerAssumption
    <2> QED
      BY <1>1, <2>1, <2>2 DEF Begin, TypeOK
  <1>2. CASE Missing
    BY <1>2, DeliverType, ValueTypes DEF Missing, Entered, Running, TypeOK
  <1>3. CASE ServeProxy
    <2>1. stack # <<>>
      BY <1>3 DEF ServeProxy, Entered, Running
    <2>2. Top.scratch[Top.key] \in Value
      BY <2>1, TopType DEF Frame
    <2> QED
      BY <1>3, <2>1, <2>2, DeliverType DEF ServeProxy, TypeOK
  <1>4. CASE ServeCached
    <2>1. stack # <<>>
      BY <1>4 DEF ServeCached, Entered, Running
    <2>2. attrs[Top.on][Top.key].cached \in Value
      BY <2>1, TopType DEF Attribute
    <2> QED
      BY <1>4, <2>1, <2>2, DeliverType DEF ServeCached, TypeOK
  <1>5. CASE Construct
    <2>0. stack # <<>>
      BY <1>5 DEF Construct, Entered, Running
    <2>1. PICK j \in Jobs :
            /\ jobs' = [jobs EXCEPT ![j] =
                 [on |-> Top.on, key |-> Top.key, status |-> "resolving",
                  needs |-> Injects(attrs[Top.on], Top.key),
                  seen |-> [m \in Keys |-> attrs[Top.on][m].reg],
                  args |-> <<>>]]
            /\ stack' = <<[Top EXCEPT !.job = j,
                             !.scratch[Top.key] = Proxy(j)]>> \o Tail(stack)
      BY <1>5 DEF Construct
    <2>2. Top.on \in Contexts /\ Top.key \in Keys /\ Top.scratch \in [Keys -> Value]
      BY <2>0, TopType DEF Frame
    <2>3. Injects(attrs[Top.on], Top.key) \subseteq Keys
      BY <2>0, TopType DEF Injects, Elems, Attribute, Recipe
    <2>4. [m \in Keys |-> attrs[Top.on][m].reg] \in [Keys -> 0..MaxRegs]
      BY <2>2 DEF TypeOK, Attribute
    <2>5. jobs' \in [Jobs -> Job]
      BY <2>1, <2>2, <2>3, <2>4 DEF TypeOK, Job
    <2>6. [Top EXCEPT !.job = j, !.scratch[Top.key] = Proxy(j)] \in Frame
      <3>1. j \in 0..MaxJobs /\ Proxy(j) \in Value
        BY ValueTypes, ContainerAssumption DEF Jobs, ContainerAssumption
      <3>2. [Top.scratch EXCEPT ![Top.key] = Proxy(j)] \in [Keys -> Value]
        BY <2>2, <3>1
      <3> QED
        BY <2>0, <3>1, <3>2, TopType DEF Frame
    <2>7. stack' \in Seq(Frame) /\ stack' # <<>>
      BY <2>0, <2>1, <2>6, TopType, PushFrame
    <2> QED
      BY <1>5, <2>5, <2>7 DEF Construct, TypeOK
  <1>6. CASE InjectNext
    <2>0. stack # <<>> /\ Len(Top.args) < Len(InjectList)
      BY <1>6 DEF InjectNext, Constructing, Running
    <2>1. Top.args \in Seq(Value) /\ Top.on \in Contexts
              /\ Top.scratch \in [Keys -> Value]
      BY <2>0, TopType DEF Frame
    <2>2. InjectList[Len(Top.args) + 1] \in Keys
      BY <2>0, <2>1, TopType
    <2>3. Call(Top.on, InjectList[Len(Top.args) + 1], Top.scratch) \in Frame
      BY <2>1, <2>2, ContainerAssumption DEF Call, Frame, ContainerAssumption
    <2>4. stack' \in Seq(Frame) /\ stack' # <<>>
      BY <1>6, <2>3, PushFrame DEF InjectNext, TypeOK
    <2> QED
      BY <1>6, <2>4 DEF InjectNext, TypeOK
  <1>7. CASE BuildSync \/ Launch
    <2>0. stack # <<>> /\ Top.job # 0
      BY <1>7 DEF BuildSync, Launch, AllInjected, Constructing, Running
    <2>1. Top.job \in Jobs /\ Top.args \in Seq(Value)
      BY <2>0, TopType, ContainerAssumption DEF Frame, Jobs, ContainerAssumption
    <2>2. jobs[Top.job] \in Job
      BY <2>1 DEF TypeOK
    <2>3. \A s \in {"built", "awaiting"} :
             [jobs EXCEPT ![Top.job].status = s,
                          ![Top.job].args = Top.args] \in [Jobs -> Job]
      BY <2>1, <2>2 DEF TypeOK, Job
    <2>4. CASE BuildSync
      BY <2>0, <2>1, <2>3, <2>4, DeliverType, ValueTypes DEF BuildSync, TypeOK
    <2>5. CASE Launch
      BY <2>0, <2>1, <2>3, <2>5, DeliverType, ValueTypes DEF Launch, TypeOK
    <2> QED
      BY <1>7, <2>4, <2>5
  <1>8. CASE ThrowSync
    BY <1>8 DEF ThrowSync, AllInjected, Constructing, Running, TypeOK
  <1>9. CASE Unwind \/ Catch
    <2>0. stack # <<>>
      BY <1>9 DEF Unwind, Catch, TypeOK
    <2>1. Abandoned \in [Jobs -> Job]
      <3>1. Top.job # 0 => Top.job \in Jobs
        BY <2>0, TopType, ContainerAssumption DEF Frame, Jobs, ContainerAssumption
      <3> QED
        BY <3>1, StatusType DEF Abandoned, TypeOK
    <2>2. CASE Unwind
      BY <2>0, <2>1, <2>2, TopType DEF Unwind, TypeOK
    <2>3. CASE Catch
      <3>1. Top.job \in Jobs
        BY <2>0, <2>3, TopType, ContainerAssumption
           DEF Catch, Frame, Jobs, ContainerAssumption
      <3> QED
        BY <2>0, <2>1, <2>3, <3>1, DeliverType, ValueTypes DEF Catch, TypeOK
    <2> QED
      BY <1>9, <2>2, <2>3
  <1> QED
    BY <1>1, <1>2, <1>3, <1>4, <1>5, <1>6, <1>7, <1>8, <1>9 DEF SyncStep

(* The state is well formed for every dependency graph and every sequence   *)
(* of calls (the shape of Context.state and of the resolution stack).       *)
THEOREM TypeCorrect == Spec => []TypeOK
  <1>1. Init => TypeOK
    <2> SUFFICES ASSUME Init PROVE TypeOK
      OBVIOUS
    <2>1. \A boot \in Boots : \A k \in DOMAIN boot :
             [reg |-> 1, recipe |-> boot[k], cached |-> Nil] \in Attribute
      BY ValueTypes, ContainerAssumption DEF Attribute, ContainerAssumption
    <2>2. attrs \in [Contexts -> [Keys -> Attribute]]
      BY <2>1, UnregisteredType DEF Init
    <2>3. nextReg \in 1..(MaxRegs + 1)
      BY ContainerAssumption DEF Init, ContainerAssumption
    <2>4. jobs \in [Jobs -> Job]
      BY NoJobType DEF Init
    <2>5. stack \in Seq(Frame)
      BY DEF Init
    <2> QED
      BY <2>2, <2>3, <2>4, <2>5 DEF Init, TypeOK
  <1>2. TypeOK /\ [Next]_vars => TypeOK'
    <2> SUFFICES ASSUME TypeOK, [Next]_vars PROVE TypeOK'
      OBVIOUS
    <2>1. ASSUME NEW c \in Contexts, NEW k \in Keys,
                 Resolve(c, k) \/ Register(c, k) \/ Provide(c, k)
          PROVE  TypeOK'
      BY <2>1, CallTypes
    <2>2. ASSUME NEW c \in Contexts, InitializeEager(c)
          PROVE  TypeOK'
      BY <2>2, CallTypes, ContainerAssumption DEF ContainerAssumption
    <2>3. ASSUME NEW c \in Contexts, NEW d \in Contexts, Extend(c, d)
          PROVE  TypeOK'
      BY <2>3, CallTypes, ContainerAssumption DEF ContainerAssumption
    <2>4. ASSUME NEW j \in Jobs, Settle(j)
          PROVE  TypeOK'
      <3>1. \A s \in {"built", "failed"} :
               [jobs EXCEPT ![j].status = s] \in [Jobs -> Job]
        BY StatusType
      <3>2. jobs' \in [Jobs -> Job]
        BY <2>4, <3>1 DEF Settle, Fulfil, Reject
      <3> QED
        BY <2>4, <3>2 DEF Settle, Fulfil, Reject, TypeOK
    <2>5. CASE Rest \/ UNCHANGED vars
      BY <2>5 DEF Rest, vars, TypeOK
    <2> QED
      BY <2>1, <2>2, <2>3, <2>4, <2>5, WalkTypes DEF Next
  <1> QED
    BY <1>1, <1>2, PTL DEF Spec
-----------------------------------------------------------------------------
(* Asynchronous factories do not wait in a circle.                          *)

(* What "status' of no settled job is taken back" means for promises.       *)
Kept == \A j \in Jobs : jobs[j].status \in Out => jobs'[j].status \in Out

LEMMA LaunchedStays ==
    ASSUME Kept, NEW CONSTANT v, Launched(v)
    PROVE  Launched(v)'
  BY DEF Kept, Launched

LEMMA AppendElems ==
    ASSUME NEW S, NEW s \in Seq(S), NEW v \in S
    PROVE  Append(s, v) \in Seq(S) /\ Elems(Append(s, v)) \subseteq Elems(s) \cup {v}
  <1>1. /\ Append(s, v) \in Seq(S)
        /\ Len(Append(s, v)) = Len(s) + 1
        /\ Append(s, v)[Len(s) + 1] = v
        /\ \A i \in 1..Len(s) : Append(s, v)[i] = s[i]
    OBVIOUS
  <1>2. ASSUME NEW i \in 1..Len(Append(s, v))
        PROVE  Append(s, v)[i] \in Elems(s) \cup {v}
    <2>1. i \in 1..Len(s) \/ i = Len(s) + 1
      BY <1>1
    <2> QED
      BY <1>1, <2>1 DEF Elems
  <1> QED
    BY <1>1, <1>2 DEF Elems

(* The frames after a return are the callers, the first with one more       *)
(* argument.                                                                *)
LEMMA ReturnedFrames ==
    ASSUME TypeOK, stack # <<>>, NEW v \in Value
    PROVE  /\ Len(Returned(v)) = Len(stack) - 1
           /\ \A n \in 1..Len(Returned(v)) :
                 /\ n + 1 \in 1..Len(stack)
                 /\ Returned(v)[n].job = stack[n + 1].job
                 /\ Returned(v)[n].scratch = stack[n + 1].scratch
                 /\ Returned(v)[n].on = stack[n + 1].on
                 /\ Returned(v)[n].key = stack[n + 1].key
                 /\ n # 1 => Returned(v)[n] = stack[n + 1]
                 /\ Elems(Returned(v)[n].args)
                       \subseteq Elems(stack[n + 1].args) \cup {v}
  <1> DEFINE rest == Tail(stack)
             first == [Head(rest) EXCEPT !.args = Append(@, v)]
  <1>1. /\ rest \in Seq(Frame)
        /\ Len(rest) = Len(stack) - 1
        /\ Len(stack) \in Nat \ {0}
        /\ \A n \in 1..Len(rest) : rest[n] = stack[n + 1]
    BY PopFrame DEF TypeOK
  <1>2. CASE rest = <<>>
    <2>1. Returned(v) = <<>>
      BY <1>2 DEF Returned
    <2>2. Len(Returned(v)) = 0 /\ Len(rest) = 0
      BY <1>2, <2>1
    <2> HIDE DEF rest
    <2> QED
      BY <1>1, <2>2
  <1>3. CASE rest # <<>>
    <2>1. /\ Head(rest) \in Frame
          /\ Head(rest) = rest[1]
          /\ Tail(rest) \in Seq(Frame)
          /\ Len(Tail(rest)) = Len(rest) - 1
          /\ \A n \in 1..Len(Tail(rest)) : Tail(rest)[n] = rest[n + 1]
          /\ Len(rest) \in Nat \ {0}
      BY <1>1, <1>3, PopFrame
    <2>2. /\ first \in Frame
          /\ first.job = rest[1].job
          /\ first.scratch = rest[1].scratch
          /\ first.on = rest[1].on /\ first.key = rest[1].key
          /\ Elems(first.args) \subseteq Elems(rest[1].args) \cup {v}
      <3>1. /\ Append(Head(rest).args, v) \in Seq(Value)
            /\ Elems(Append(Head(rest).args, v))
                  \subseteq Elems(Head(rest).args) \cup {v}
        BY <2>1, AppendElems DEF Frame
      <3> QED
        BY <2>1, <3>1 DEF Frame
    <2>3. Returned(v) = <<first>> \o Tail(rest)
      BY <1>3 DEF Returned
    <2> HIDE DEF first, rest
    <2>4. /\ Len(Returned(v)) = Len(rest)
          /\ Returned(v)[1] = first
          /\ \A n \in 1..Len(Tail(rest)) : Returned(v)[n + 1] = Tail(rest)[n]
      BY <2>1, <2>2, <2>3, PushFrame
    <2>5. \A n \in 2..Len(rest) : Returned(v)[n] = rest[n]
      <3> TAKE n \in 2..Len(rest)
      <3>1. n - 1 \in 1..Len(Tail(rest)) /\ (n - 1) + 1 = n
        BY <2>1
      <3> QED
        BY <2>1, <2>4, <3>1
    <2> QED
      BY <1>1, <2>1, <2>2, <2>4, <2>5
  <1> QED
    BY <1>2, <1>3

(* Delivering a launched value, or one that is no promise, keeps the        *)
(* invariant of the frames and of the caches.                               *)
LEMMA DeliverFrames ==
    ASSUME TypeOK, stack # <<>>, FrameInv, CachesLaunched, Kept,
           NEW v \in Value, Deliver(v), Launched(v)',
           \A j \in Jobs : j # Top.job => jobs'[j].status = jobs[j].status,
           Top.job # 0 => jobs'[Top.job].status # "free"
    PROVE  CachesLaunched' /\ FrameInv'
  <1>0. /\ Top = stack[1]
        /\ Len(stack) \in Nat \ {0}
        /\ \A n \in 1..Len(stack) : stack[n] \in Frame
        /\ Top.on \in Contexts /\ Top.key \in Keys
    <2>1. stack \in Seq(Frame)
      BY DEF TypeOK
    <2>2. Top = stack[1] /\ Len(stack) \in Nat \ {0}
      BY <2>1, PopFrame DEF Top
    <2>3. \A n \in 1..Len(stack) : stack[n] \in Frame
      BY <2>1
    <2>4. Top.on \in Contexts /\ Top.key \in Keys
      BY TopType DEF Frame
    <2> QED
      BY <2>2, <2>3, <2>4
  <1>1. CachesLaunched'
    <2> SUFFICES ASSUME NEW c \in Contexts, NEW k \in Keys
                 PROVE  Launched(attrs[c][k].cached)'
      BY DEF CachesLaunched
    <2>1. attrs'[c][k].cached \in {attrs[c][k].cached, v}
      BY <1>0 DEF Deliver, Memo, TypeOK, Attribute
    <2>2. Launched(attrs[c][k].cached)
      BY DEF CachesLaunched
    <2> QED
      BY <2>1, <2>2 DEF Launched, Kept
  <1>2. \A n \in 2..Len(stack) :
           /\ FrameOK(stack[n])
           /\ stack[n].job # 0 =>
                 /\ stack[n].job \in Jobs
                 /\ jobs'[stack[n].job].status = "resolving"
    <2> TAKE n \in 2..Len(stack)
    <2>1. n \in 1..Len(stack) /\ 1 \in 1..Len(stack) /\ n # 1
      BY <1>0
    <2>2. stack[n].job # 0 => stack[n].job \in Jobs
      BY <1>0, <2>1, ContainerAssumption DEF Frame, Jobs, ContainerAssumption
    <2>3. stack[n].job # 0 => stack[n].job # Top.job
      BY <1>0, <2>1 DEF FrameInv, FramesDistinct
    <2> QED
      BY <2>1, <2>2, <2>3 DEF FrameInv, FramesOK, FramesResolving
  <1>3. \A w : Launched(w) => (w.tag = "promise" =>
                  w.job \in Jobs /\ jobs'[w.job].status \in Out)
    BY DEF Launched, Kept
  <1>4. CASE throwing'
    <2>1. stack' = stack
      BY <1>4 DEF Deliver
    <2>2. FramesOK'
      BY <1>0, <1>2, <1>3, <2>1 DEF FramesOK, FrameOK, FrameInv, Launched
    <2>3. FramesResolving'
      BY <1>0, <1>2, <1>4, <2>1 DEF FramesResolving
    <2>4. FramesDistinct'
      BY <2>1 DEF FramesDistinct, FrameInv
    <2> QED
      BY <1>1, <2>2, <2>3, <2>4 DEF FrameInv
  <1>5. CASE ~throwing'
    <2>1. stack' = Returned(v)
      BY <1>5 DEF Deliver
    <2>2. /\ Len(stack') = Len(stack) - 1
          /\ \A n \in 1..Len(stack') :
               /\ n + 1 \in 2..Len(stack)
               /\ stack'[n].job = stack[n + 1].job
               /\ stack'[n].scratch = stack[n + 1].scratch
               /\ Elems(stack'[n].args) \subseteq Elems(stack[n + 1].args) \cup {v}
      <3>1. \A n \in 1..(Len(stack) - 1) : n + 1 \in 2..Len(stack)
        BY <1>0
      <3>2. Len(Returned(v)) = Len(stack) - 1
        BY ReturnedFrames
      <3>3. \A n \in 1..Len(Returned(v)) :
               /\ Returned(v)[n].job = stack[n + 1].job
               /\ Returned(v)[n].scratch = stack[n + 1].scratch
               /\ Elems(Returned(v)[n].args)
                     \subseteq Elems(stack[n + 1].args) \cup {v}
        BY ReturnedFrames
      <3> QED
        BY <2>1, <3>1, <3>2, <3>3
    <2>3. FramesOK'
      <3> SUFFICES ASSUME NEW n \in 1..Len(stack') PROVE FrameOK(stack[n])'
        BY DEF FramesOK
      <3>1. FrameOK(stack[n + 1])
        BY <1>2, <2>2
      <3>2. \A w \in Elems(stack'[n].args) : Launched(w)'
        BY <1>3, <2>2, <3>1 DEF FrameOK, Launched
      <3>3. stack'[n].job # 0 => jobs'[stack'[n].job].status = "resolving"
        BY <1>2, <2>2
      <3> QED
        BY <2>2, <3>1, <3>2, <3>3 DEF FrameOK
    <2>4. FramesResolving'
      BY <1>2, <2>2 DEF FramesResolving
    <2>5. FramesDistinct'
      <3> SUFFICES ASSUME NEW m \in 1..Len(stack'), NEW n \in 1..Len(stack'),
                          m # n, stack'[n].job # 0
                   PROVE  stack'[m].job # stack'[n].job
        BY DEF FramesDistinct
      <3>1. m + 1 \in 1..Len(stack) /\ n + 1 \in 1..Len(stack) /\ m + 1 # n + 1
        BY <1>0, <2>2
      <3> QED
        BY <2>2, <3>1 DEF FrameInv, FramesDistinct
    <2> QED
      BY <1>1, <2>3, <2>4, <2>5 DEF FrameInv
  <1> QED
    BY <1>4, <1>5 DEF Deliver

(* The initial state has no promise and no frame.                           *)
LEMMA AwaitInit == Init => AwaitInv
  <1> SUFFICES ASSUME Init PROVE AwaitInv
    OBVIOUS
  <1>1. stack = <<>> /\ Len(stack) = 0
    BY DEF Init
  <1>2. \A j \in Jobs : jobs[j].status = "free" /\ jobs[j].args = <<>>
    BY DEF Init, NoJob
  <1>3. NoAwaitCycle
    BY <1>2 DEF NoAwaitCycle, Awaiting
  <1>4. CachesLaunched
    BY DEF Init, CachesLaunched, Launched, Unregistered, Nil
  <1>5. ArgsLaunched
    BY <1>2 DEF ArgsLaunched, Elems
  <1>6. FrameInv
    BY <1>1 DEF FrameInv, FramesOK, FramesResolving, FramesDistinct
  <1> QED
    BY <1>3, <1>4, <1>5, <1>6 DEF AwaitInv

(* The step a circle would need: j starts to wait, but nobody waits for j.  *)
LEMMA LaunchAwaits ==
    ASSUME NoAwaitCycle, ArgsLaunched, NEW j \in Jobs, NEW args,
           jobs \in [Jobs -> Job],
           jobs[j].status = "resolving",
           \A v \in Elems(args) : Launched(v),
           jobs' = [jobs EXCEPT ![j].status = "awaiting", ![j].args = args]
    PROVE  NoAwaitCycle'
  <1>1. /\ jobs'[j].status = "awaiting" /\ jobs'[j].args = args
        /\ \A i \in Jobs : i # j => jobs'[i] = jobs[i]
    BY DEF Job
  <1> SUFFICES ASSUME NEW S \in SUBSET (Awaiting'), S # {}
               PROVE  \E i \in S : AwaitedBy(i)' \cap S = {}
    BY DEF NoAwaitCycle
  <1>2. \A i \in Jobs : j \notin AwaitedBy(i)'
    <2> SUFFICES ASSUME NEW i \in Jobs, j \in AwaitedBy(i)' PROVE FALSE
      OBVIOUS
    <2>1. PICK v \in Elems(jobs'[i].args) : v.tag = "promise" /\ v.job = j
      BY DEF AwaitedBy
    <2>2. Launched(v)
      BY <1>1 DEF ArgsLaunched
    <2> QED
      BY <2>1, <2>2 DEF Launched, Out
  <1>3. CASE S \subseteq {j}
    BY <1>2, <1>3 DEF Awaiting
  <1>4. CASE ~(S \subseteq {j})
    <2>1. S \ {j} \in SUBSET Awaiting /\ S \ {j} # {}
      BY <1>1, <1>4 DEF Awaiting
    <2>2. PICK i \in S \ {j} : AwaitedBy(i) \cap (S \ {j}) = {}
      BY <2>1 DEF NoAwaitCycle
    <2>3. AwaitedBy(i)' = AwaitedBy(i)
      BY <1>1, <2>1, <2>2 DEF AwaitedBy, Awaiting
    <2> QED
      BY <1>2, <2>1, <2>2, <2>3 DEF Awaiting
  <1> QED
    BY <1>3, <1>4

(* A step that lets nobody start to wait and changes no argument of a job   *)
(* that waits cannot close a circle.                                        *)
LEMMA NobodyWaits ==
    ASSUME NoAwaitCycle, Awaiting' \subseteq Awaiting,
           \A i \in Awaiting' : jobs'[i].args = jobs[i].args
    PROVE  NoAwaitCycle'
  <1> SUFFICES ASSUME NEW S \in SUBSET (Awaiting'), S # {}
               PROVE  \E i \in S : AwaitedBy(i)' \cap S = {}
    BY DEF NoAwaitCycle
  <1>1. PICK i \in S : AwaitedBy(i) \cap S = {}
    BY DEF NoAwaitCycle
  <1>2. AwaitedBy(i)' = AwaitedBy(i)
    BY DEF AwaitedBy
  <1> QED
    BY <1>1, <1>2
(* Calls of the API touch neither the stack nor the jobs.                   *)
LEMMA CallsAwait ==
    ASSUME AwaitInv, UNCHANGED <<jobs, stack, throwing>>,
           \A c \in Contexts, k \in Keys :
              \/ attrs'[c][k].cached = Nil
              \/ \E d \in Contexts : attrs'[c][k].cached = attrs[d][k].cached
    PROVE  AwaitInv'
  <1>1. CachesLaunched'
    BY DEF AwaitInv, CachesLaunched, Launched, Nil
  <1>2. NoAwaitCycle'
    BY DEF AwaitInv, NoAwaitCycle, Awaiting, AwaitedBy
  <1>3. ArgsLaunched'
    BY DEF AwaitInv, ArgsLaunched, Launched
  <1>4. FrameInv'
    BY DEF AwaitInv, FrameInv, FramesOK, FrameOK, FramesResolving,
           FramesDistinct, Launched
  <1> QED
    BY <1>1, <1>2, <1>3, <1>4 DEF AwaitInv

(* Serving a value builds nothing.                                          *)
LEMMA ServeAwait ==
    ASSUME TypeOK, AwaitInv, stack # <<>>, NEW v \in Value, Deliver(v),
           Launched(v), UNCHANGED jobs,
           Top.job # 0 => jobs[Top.job].status # "free"
    PROVE  AwaitInv'
  <1>1. Kept
    BY DEF Kept
  <1>2. Launched(v)'
    BY DEF Launched
  <1>3. CachesLaunched' /\ FrameInv'
    BY <1>1, <1>2, DeliverFrames DEF AwaitInv
  <1>4. NoAwaitCycle' /\ ArgsLaunched'
    BY DEF AwaitInv, NoAwaitCycle, Awaiting, AwaitedBy, ArgsLaunched, Launched
  <1> QED
    BY <1>3, <1>4 DEF AwaitInv

(* The frame on top of the stack, as the invariant knows it.                *)
LEMMA TopAwait ==
    ASSUME TypeOK, AwaitInv, stack # <<>>
    PROVE  /\ Top = stack[1] /\ 1 \in 1..Len(stack)
           /\ FrameOK(Top)
           /\ Top.job # 0 => Top.job \in Jobs
           /\ Top.job # 0 /\ ~throwing => jobs[Top.job].status = "resolving"
  <1>1. Top = stack[1] /\ Len(stack) \in Nat \ {0} /\ Top \in Frame
    BY PopFrame DEF TypeOK, Top
  <1>2. 1 \in 1..Len(stack)
    BY <1>1
  <1>3. Top.job # 0 => Top.job \in Jobs
    BY <1>1, ContainerAssumption DEF Frame, Jobs, ContainerAssumption
  <1> QED
    BY <1>1, <1>2, <1>3 DEF AwaitInv, FrameInv, FramesOK, FramesResolving

(* Ending the construction on top of the stack: its job gets the status s,  *)
(* and the arguments args or those it had.                                  *)
LEMMA EndAwait ==
    ASSUME TypeOK, AwaitInv, stack # <<>>, NEW j \in Jobs, j = Top.job,
           NEW v \in Value, Deliver(v),
           jobs' \in [Jobs -> Job],
           \A i \in Jobs : i # j => jobs'[i] = jobs[i],
           jobs'[j].status \in Out,
           \A w \in Elems(jobs'[j].args) : Launched(w),
           v.tag = "promise" => v.job = j,
           NoAwaitCycle'
    PROVE  AwaitInv'
  <1>1. Kept
    BY DEF Kept
  <1>2. Launched(v)'
    BY DEF Launched
  <1>3. CachesLaunched' /\ FrameInv'
    BY <1>1, <1>2, DeliverFrames DEF AwaitInv, Out
  <1>4. ArgsLaunched'
    <2> SUFFICES ASSUME NEW i \in Jobs, NEW w \in Elems(jobs'[i].args)
                 PROVE  Launched(w)'
      BY DEF ArgsLaunched
    <2>1. Launched(w)
      BY DEF AwaitInv, ArgsLaunched
    <2> QED
      BY <1>1, <2>1 DEF Launched, Kept
  <1> QED
    BY <1>3, <1>4 DEF AwaitInv

(* What the steps of the walk do to the stack and to the jobs.              *)
(* A construction starts a free job for the frame on top of the stack.      *)
LEMMA ConstructIs ==
    ASSUME TypeOK, Construct
    PROVE  /\ stack # <<>> /\ Top.job = 0 /\ attrs' = attrs
           /\ Len(stack) \in Nat \ {0} /\ Top = stack[1] /\ Len(stack') = Len(stack)
           /\ \A n \in 1..Len(stack) : stack[n] \in Frame
           /\ \A n \in 2..Len(stack) : stack'[n] = stack[n]
           /\ stack'[1].args = Top.args
           /\ stack'[1].on = Top.on /\ stack'[1].key = Top.key
           /\ \E j \in Jobs :
                /\ jobs[j].status = "free"
                /\ jobs'[j].status = "resolving" /\ jobs'[j].args = <<>>
                /\ jobs'[j].on = Top.on /\ jobs'[j].key = Top.key
                /\ Registered(Top.on, Top.key)
                /\ jobs'[j].needs = Injects(attrs[Top.on], Top.key)
                /\ \A m \in Keys : jobs'[j].seen[m] = attrs[Top.on][m].reg
                /\ \A i \in Jobs : i # j => jobs'[i] = jobs[i]
                /\ stack'[1].job = j
                /\ \A k \in Keys : stack'[1].scratch[k] =
                      IF k = Top.key THEN Proxy(j) ELSE Top.scratch[k]
  <1>0. stack # <<>> /\ Top.job = 0 /\ attrs' = attrs
    BY DEF Construct, Entered, Running
  <1>1. PICK j \in Jobs :
          /\ jobs[j].status = "free"
          /\ jobs' = [jobs EXCEPT ![j] =
               [on |-> Top.on, key |-> Top.key, status |-> "resolving",
                needs |-> Injects(attrs[Top.on], Top.key),
                seen |-> [m \in Keys |-> attrs[Top.on][m].reg],
                args |-> <<>>]]
          /\ stack' = <<[Top EXCEPT !.job = j,
                           !.scratch[Top.key] = Proxy(j)]>> \o Tail(stack)
    BY DEF Construct
  <1>2. /\ jobs'[j].status = "resolving" /\ jobs'[j].args = <<>>
        /\ jobs'[j].on = Top.on /\ jobs'[j].key = Top.key
        /\ Registered(Top.on, Top.key)
        /\ jobs'[j].needs = Injects(attrs[Top.on], Top.key)
        /\ \A m \in Keys : jobs'[j].seen[m] = attrs[Top.on][m].reg
        /\ \A i \in Jobs : i # j => jobs'[i] = jobs[i]
    BY <1>1 DEF TypeOK, Construct
  <1> DEFINE f == [Top EXCEPT !.job = j, !.scratch[Top.key] = Proxy(j)]
  <1>3. /\ Top \in Frame /\ Tail(stack) \in Seq(Frame)
        /\ Top = stack[1] /\ Len(stack) \in Nat \ {0}
        /\ \A n \in 1..Len(stack) : stack[n] \in Frame
    <2>1. stack \in Seq(Frame)
      BY DEF TypeOK
    <2> QED
      BY <1>0, <2>1, PopFrame DEF Top
  <1>4. /\ f.job = j /\ f.args = Top.args /\ f.on = Top.on /\ f.key = Top.key
        /\ \A k \in Keys : f.scratch[k] = IF k = Top.key THEN Proxy(j) ELSE Top.scratch[k]
    BY <1>3 DEF Frame
  <1>5. stack' = <<f>> \o Tail(stack)
    BY <1>1
  <1> HIDE DEF f
  <1>6. /\ Len(stack') = Len(stack)
        /\ stack'[1] = f
        /\ \A n \in 2..Len(stack) : stack'[n] = stack[n]
    <2>1. /\ Len(Tail(stack)) = Len(stack) - 1
          /\ \A n \in 1..Len(Tail(stack)) : Tail(stack)[n] = stack[n + 1]
      BY <1>0, PopFrame DEF TypeOK
    <2>2. /\ Len(stack') = Len(stack)
          /\ stack'[1] = f
          /\ \A n \in 1..Len(Tail(stack)) : stack'[n + 1] = Tail(stack)[n]
      BY <1>3, <1>5, <2>1
    <2>3. \A n \in 2..Len(stack) : n - 1 \in 1..Len(Tail(stack)) /\ (n - 1) + 1 = n
      BY <1>3, <2>1
    <2> QED
      BY <2>1, <2>2, <2>3
  <1> QED
    BY <1>0, <1>1, <1>2, <1>3, <1>4, <1>6

(* A nested call pushes a frame with the resolution context of its caller.  *)
LEMMA InjectIs ==
    ASSUME TypeOK, InjectNext
    PROVE  /\ stack # <<>> /\ jobs' = jobs /\ attrs' = attrs
           /\ Len(stack) \in Nat \ {0} /\ Top = stack[1]
           /\ Len(stack') = Len(stack) + 1
           /\ stack'[1].job = 0 /\ stack'[1].args = <<>>
           /\ stack'[1].scratch = Top.scratch /\ stack'[1].on = Top.on
           /\ stack'[1].key \in Elems(InjectList)
           /\ \A n \in 1..Len(stack) : stack'[n + 1] = stack[n]
           /\ \A n \in 1..Len(stack') : n # 1 =>
                 n - 1 \in 1..Len(stack) /\ stack'[n] = stack[n - 1]
  <1>0. stack # <<>> /\ stack \in Seq(Frame) /\ jobs' = jobs /\ attrs' = attrs
    BY DEF InjectNext, Constructing, Running, TypeOK
  <1> DEFINE f == Call(Top.on, InjectList[Len(Top.args) + 1], Top.scratch)
  <1>1. /\ f.job = 0 /\ f.args = <<>> /\ f.scratch = Top.scratch /\ f.on = Top.on
        /\ f.key \in Elems(InjectList)
    <2>1. Len(Top.args) < Len(InjectList) /\ Top.args \in Seq(Value)
            /\ InjectList \in Seq(Keys)
      BY <1>0, TopType DEF InjectNext, Frame
    <2>2. Len(Top.args) + 1 \in 1..Len(InjectList)
      BY <2>1
    <2> QED
      BY <2>2 DEF Call, Elems
  <1>2. stack' = <<f>> \o stack
    BY DEF InjectNext
  <1> HIDE DEF f
  <1>3. /\ Len(stack) \in Nat \ {0} /\ Top = stack[1]
        /\ Len(stack') = Len(stack) + 1
        /\ stack'[1] = f
        /\ \A n \in 1..Len(stack) : stack'[n + 1] = stack[n]
    BY <1>0, <1>2, PopFrame DEF Top
  <1>4. ASSUME NEW n \in 1..Len(stack'), n # 1
        PROVE  n - 1 \in 1..Len(stack) /\ stack'[n] = stack[n - 1]
    <2>1. n - 1 \in 1..Len(stack) /\ (n - 1) + 1 = n
      BY <1>3, <1>4
    <2> QED
      BY <1>3, <2>1
  <1> QED
    BY <1>0, <1>1, <1>3, <1>4

(* A construction that an exception ends is marked failed, once.             *)
LEMMA AbandonedIs ==
    ASSUME TypeOK, AwaitInv, stack # <<>>, NEW i \in Jobs
    PROVE  /\ Abandoned[i].args = jobs[i].args /\ Abandoned[i].on = jobs[i].on
           /\ Abandoned[i].key = jobs[i].key /\ Abandoned[i].needs = jobs[i].needs
           /\ Abandoned[i].seen = jobs[i].seen
           /\ i # Top.job => Abandoned[i] = jobs[i]
           /\ Abandoned[i].status =
                IF i = Top.job /\ jobs[i].status = "resolving"
                THEN "failed" ELSE jobs[i].status
  <1>1. jobs[i] \in Job /\ jobs \in [Jobs -> Job] /\ (Top.job # 0 => Top.job \in Jobs)
    BY TopAwait DEF TypeOK
  <1>2. i # 0
    BY DEF Jobs
  <1>3. CASE Top.job # 0 /\ jobs[Top.job].status = "resolving"
    <2>1. Abandoned = [jobs EXCEPT ![Top.job].status = "failed"]
      BY <1>3 DEF Abandoned
    <2> QED
      BY <1>1, <1>3, <2>1 DEF Job
  <1>4. CASE ~(Top.job # 0 /\ jobs[Top.job].status = "resolving")
    <2>1. Abandoned = jobs
      BY <1>4 DEF Abandoned
    <2> QED
      BY <1>2, <1>4, <2>1
  <1> QED
    BY <1>3, <1>4

LEMMA BeginAwait == ASSUME TypeOK, AwaitInv, Begin PROVE AwaitInv'
  <1>1. PICK c \in Contexts, k \in Keys :
           stack' = <<Call(c, k, [m \in Keys |-> Nil])>>
    BY DEF Begin
  <1>2. /\ Len(stack') = 1
        /\ stack'[1].job = 0
        /\ stack'[1].args = <<>>
        /\ \A m \in Keys : stack'[1].scratch[m] = Nil
    BY <1>1 DEF Call
  <1>3. FrameInv'
    BY <1>2 DEF FrameInv, FramesOK, FrameOK, FramesResolving, FramesDistinct,
                Elems, Nil
  <1>4. NoAwaitCycle' /\ ArgsLaunched' /\ CachesLaunched'
    BY DEF Begin, AwaitInv, NoAwaitCycle, Awaiting, AwaitedBy, ArgsLaunched,
           CachesLaunched, Launched
  <1> QED
    BY <1>3, <1>4 DEF AwaitInv

LEMMA ConstructAwait == ASSUME TypeOK, AwaitInv, Construct PROVE AwaitInv'
  <1>0. stack # <<>> /\ ~throwing /\ ~throwing' /\ Top.job = 0
    BY DEF Construct, Entered, Running
  <1>1. PICK j \in Jobs :
          /\ jobs[j].status = "free"
          /\ jobs'[j].status = "resolving" /\ jobs'[j].args = <<>>
          /\ \A i \in Jobs : i # j => jobs'[i] = jobs[i]
          /\ stack'[1].job = j
          /\ \A k \in Keys : stack'[1].scratch[k] =
                IF k = Top.key THEN Proxy(j) ELSE Top.scratch[k]
    BY ConstructIs
  <1>2. /\ jobs'[j].status = "resolving" /\ jobs'[j].args = <<>>
        /\ \A i \in Jobs : i # j => jobs'[i] = jobs[i]
    BY <1>1
  <1>3. Kept
    BY <1>1, <1>2 DEF Kept, Out
  <1>4. CachesLaunched'
    BY <1>3, LaunchedStays DEF Construct, AwaitInv, CachesLaunched
  <1>5. ArgsLaunched'
    BY <1>2, <1>3, LaunchedStays DEF AwaitInv, ArgsLaunched, Elems
  <1>6. NoAwaitCycle'
    BY <1>1, <1>2, NobodyWaits DEF AwaitInv, Awaiting
  <1> DEFINE f == stack'[1]
  <1>7. Top = stack[1] /\ Len(stack) \in Nat \ {0}
    BY ConstructIs
  <1>8. /\ f.job = j /\ f.args = Top.args
        /\ \A k \in Keys : f.scratch[k] \in {Top.scratch[k], Proxy(j)}
    BY <1>1, ConstructIs
  <1>9. /\ Len(stack') = Len(stack)
        /\ stack'[1] = f
        /\ \A n \in 2..Len(stack) : stack'[n] = stack[n]
    BY ConstructIs
  <1>10. \A n \in 2..Len(stack) : stack[n].job # 0 =>
             /\ stack[n].job \in Jobs
             /\ stack[n].job # j
             /\ jobs'[stack[n].job].status = "resolving"
    <2> SUFFICES ASSUME NEW n \in 2..Len(stack), stack[n].job # 0
                 PROVE  /\ stack[n].job \in Jobs
                        /\ stack[n].job # j
                        /\ jobs'[stack[n].job].status = "resolving"
      OBVIOUS
    <2>1. n \in 1..Len(stack) /\ n # 1
      BY <1>7
    <2>2. stack[n] \in Frame
      BY <2>1 DEF TypeOK
    <2>3. stack[n].job \in Jobs
      BY <2>2, ContainerAssumption DEF Frame, Jobs, ContainerAssumption
    <2>4. jobs[stack[n].job].status = "resolving"
      BY <2>1 DEF AwaitInv, FrameInv, FramesResolving
    <2> QED
      BY <1>1, <1>2, <2>3, <2>4
  <1> HIDE DEF f
  <1>11. FramesOK'
    <2> SUFFICES ASSUME NEW n \in 1..Len(stack') PROVE FrameOK(stack[n])'
      BY DEF FramesOK
    <2>1. FrameOK(stack[n])
      BY <1>9 DEF AwaitInv, FrameInv, FramesOK
    <2>2. stack'[n].args = stack[n].args
      BY <1>7, <1>8, <1>9
    <2>3. \A w \in Elems(stack'[n].args) : Launched(w)'
      BY <1>3, <2>1, <2>2, LaunchedStays DEF FrameOK
    <2>4. \A k \in Keys : stack'[n].scratch[k].tag # "promise"
      BY <1>7, <1>8, <1>9, <2>1 DEF FrameOK, Proxy
    <2>5. stack'[n].job # 0 => jobs'[stack'[n].job].status # "free"
      BY <1>2, <1>7, <1>8, <1>9, <1>10
    <2> QED
      BY <2>3, <2>4, <2>5 DEF FrameOK
  <1>12. FramesResolving'
    BY <1>2, <1>7, <1>8, <1>9, <1>10 DEF FramesResolving
  <1>13. FramesDistinct'
    <2> SUFFICES ASSUME NEW m \in 1..Len(stack'), NEW n \in 1..Len(stack'),
                        m # n, stack'[n].job # 0
                 PROVE  stack'[m].job # stack'[n].job
      BY DEF FramesDistinct
    <2>1. CASE m = 1
      BY <1>7, <1>8, <1>9, <1>10, <2>1
    <2>2. CASE n = 1
      BY <1>7, <1>8, <1>9, <1>10, <2>2
    <2>3. CASE m # 1 /\ n # 1
      BY <1>7, <1>9, <2>3 DEF AwaitInv, FrameInv, FramesDistinct
    <2> QED
      BY <2>1, <2>2, <2>3
  <1> QED
    BY <1>4, <1>5, <1>6, <1>11, <1>12, <1>13 DEF AwaitInv, FrameInv
LEMMA InjectAwait == ASSUME TypeOK, AwaitInv, InjectNext PROVE AwaitInv'
  <1>0. stack # <<>> /\ ~throwing /\ ~throwing' /\ stack \in Seq(Frame)
            /\ jobs' = jobs
    BY DEF InjectNext, Constructing, Running, TypeOK
  <1> DEFINE f == stack'[1]
  <1>1. f.job = 0 /\ f.args = <<>> /\ f.scratch = Top.scratch
    BY InjectIs
  <1>3. /\ Len(stack) \in Nat \ {0}
        /\ Len(stack') = Len(stack) + 1
        /\ stack'[1] = f
    BY InjectIs
  <1>4. \A n \in 1..Len(stack') : n = 1 \/
           (/\ n - 1 \in 1..Len(stack)
            /\ stack'[n] = stack[n - 1])
    BY InjectIs
  <1>5. FrameOK(Top)
    BY <1>0, TopAwait
  <1>6. FramesOK'
    <2> SUFFICES ASSUME NEW n \in 1..Len(stack') PROVE FrameOK(stack[n])'
      BY DEF FramesOK
    <2>1. CASE n = 1
      BY <1>1, <1>3, <1>5, <2>1 DEF FrameOK, Elems
    <2>2. CASE n # 1
      BY <1>0, <1>4, <2>2
         DEF AwaitInv, FrameInv, FramesOK, FrameOK, Launched
    <2> QED
      BY <2>1, <2>2
  <1>7. FramesResolving'
    BY <1>0, <1>1, <1>3, <1>4 DEF AwaitInv, FrameInv, FramesResolving
  <1>8. FramesDistinct'
    <2> SUFFICES ASSUME NEW m \in 1..Len(stack'), NEW n \in 1..Len(stack'),
                        m # n, stack'[n].job # 0
                 PROVE  stack'[m].job # stack'[n].job
      BY DEF FramesDistinct
    <2>1. n # 1
      BY <1>1, <1>3
    <2>2. CASE m = 1
      BY <1>1, <1>3, <2>2
    <2>3. CASE m # 1
      <3>1. m - 1 # n - 1
        OBVIOUS
      <3> QED
        BY <1>4, <2>1, <2>3, <3>1 DEF AwaitInv, FrameInv, FramesDistinct
    <2> QED
      BY <2>2, <2>3
  <1>9. NoAwaitCycle' /\ ArgsLaunched' /\ CachesLaunched'
    BY <1>0 DEF InjectNext, AwaitInv, NoAwaitCycle, Awaiting, AwaitedBy,
                ArgsLaunched, CachesLaunched, Launched
  <1> QED
    BY <1>6, <1>7, <1>8, <1>9 DEF AwaitInv, FrameInv

LEMMA BuildAwait == ASSUME TypeOK, TypeOK', AwaitInv, BuildSync PROVE AwaitInv'
  <1>0. stack # <<>> /\ ~throwing /\ Top.job # 0
    BY DEF BuildSync, AllInjected, Constructing, Running
  <1> DEFINE j == Top.job
             v == IF attrs[Top.on][Top.key].recipe.yields = "nil"
                  THEN Nil ELSE Object(j)
  <1>1. j \in Jobs /\ jobs[j].status = "resolving" /\ FrameOK(Top)
    BY <1>0, TopAwait
  <1>2. v \in Value /\ v.tag # "promise"
    BY <1>1, ValueTypes DEF Nil, Object
  <1>3. Deliver(v)
    BY DEF BuildSync
  <1>4. jobs' \in [Jobs -> Job] /\ jobs \in [Jobs -> Job]
    BY DEF TypeOK
  <1>5. /\ jobs'[j].status = "built" /\ jobs'[j].args = Top.args
        /\ \A i \in Jobs : i # j => jobs'[i] = jobs[i]
    BY <1>1, <1>4 DEF BuildSync, Job
  <1>6. NoAwaitCycle'
    BY <1>1, <1>5, NobodyWaits DEF AwaitInv, Awaiting
  <1>7. \A w \in Elems(jobs'[j].args) : Launched(w)
    BY <1>1, <1>5 DEF FrameOK
  <1> HIDE DEF v
  <1> QED
    BY <1>0, <1>1, <1>2, <1>3, <1>4, <1>5, <1>6, <1>7, EndAwait DEF Out

LEMMA LaunchAwait == ASSUME TypeOK, TypeOK', AwaitInv, Launch PROVE AwaitInv'
  <1>0. stack # <<>> /\ ~throwing /\ Top.job # 0
    BY DEF Launch, AllInjected, Constructing, Running
  <1> DEFINE j == Top.job
  <1>1. j \in Jobs /\ jobs[j].status = "resolving" /\ FrameOK(Top)
    BY <1>0, TopAwait
  <1>2. Promise(j) \in Value /\ Promise(j).job = j
    BY <1>1, ValueTypes DEF Promise
  <1>3. jobs' \in [Jobs -> Job] /\ jobs \in [Jobs -> Job]
    BY DEF TypeOK
  <1>4. jobs' = [jobs EXCEPT ![j].status = "awaiting", ![j].args = Top.args]
            /\ Deliver(Promise(j))
    BY DEF Launch
  <1>5. /\ jobs'[j].status = "awaiting" /\ jobs'[j].args = Top.args
        /\ \A i \in Jobs : i # j => jobs'[i] = jobs[i]
    BY <1>1, <1>3, <1>4 DEF Job
  <1>6. \A w \in Elems(Top.args) : Launched(w)
    BY <1>1 DEF FrameOK
  <1>7. NoAwaitCycle'
    BY <1>1, <1>3, <1>4, <1>6, LaunchAwaits DEF AwaitInv
  <1> QED
    BY <1>0, <1>1, <1>2, <1>3, <1>4, <1>5, <1>6, <1>7, EndAwait DEF Out

LEMMA CatchAwait == ASSUME TypeOK, TypeOK', AwaitInv, Catch PROVE AwaitInv'
  <1>0. stack # <<>> /\ Top.job # 0
    BY DEF Catch, TypeOK
  <1> DEFINE j == Top.job
  <1>1. j \in Jobs /\ jobs[j].status # "free"
    BY <1>0, TopAwait DEF FrameOK
  <1>2. Promise(j) \in Value /\ Promise(j).job = j
    BY <1>1, ValueTypes DEF Promise
  <1>3. jobs' \in [Jobs -> Job] /\ jobs \in [Jobs -> Job]
    BY DEF TypeOK
  <1>4. jobs' = Abandoned /\ Deliver(Promise(j))
    BY DEF Catch
  <1>5. /\ jobs'[j].status \in Out /\ jobs'[j].args = jobs[j].args
        /\ \A i \in Jobs : i # j => jobs'[i] = jobs[i]
    <2>1. jobs[j] \in Job
      BY <1>1, <1>3
    <2> QED
      BY <1>0, <1>1, <1>4, <2>1, AbandonedIs DEF Job, Out
  <1>6. \A w \in Elems(jobs'[j].args) : Launched(w)
    BY <1>1, <1>5 DEF AwaitInv, ArgsLaunched
  <1>7. NoAwaitCycle'
    <2>1. Awaiting' \subseteq Awaiting
      BY <1>1, <1>3, <1>4, <1>5 DEF Awaiting, Abandoned, Job
    <2>2. \A i \in Jobs : jobs'[i].args = jobs[i].args
      BY <1>5
    <2> QED
      BY <2>1, <2>2, NobodyWaits DEF AwaitInv, Awaiting
  <1> QED
    BY <1>0, <1>1, <1>2, <1>3, <1>4, <1>5, <1>6, <1>7, EndAwait

LEMMA UnwindAwait == ASSUME TypeOK, TypeOK', AwaitInv, Unwind PROVE AwaitInv'
  <1>0. stack # <<>> /\ stack' = Tail(stack) /\ jobs' = Abandoned
            /\ UNCHANGED attrs
    BY DEF Unwind, TypeOK
  <1>1. /\ stack \in Seq(Frame)
        /\ Top = stack[1] /\ Len(stack) \in Nat \ {0}
        /\ Len(stack') = Len(stack) - 1
        /\ \A n \in 1..Len(stack') : stack'[n] = stack[n + 1]
    BY <1>0, PopFrame DEF TypeOK, Top
  <1>2. \A n \in 1..Len(stack') : n + 1 \in 1..Len(stack) /\ n + 1 # 1
    BY <1>1
  <1>3. Top.job # 0 => Top.job \in Jobs
    BY <1>0, TopAwait
  <1>4. /\ \A i \in Jobs : jobs'[i].args = jobs[i].args
        /\ \A i \in Jobs : i # Top.job => jobs'[i].status = jobs[i].status
        /\ \A i \in Jobs : jobs'[i].status \in {jobs[i].status, "failed"}
        /\ \A i \in Jobs : jobs'[i].status # jobs[i].status =>
                              jobs[i].status = "resolving"
    BY <1>0, AbandonedIs
  <1>5. Kept
    BY <1>4 DEF Kept, Out
  <1>6. CachesLaunched' /\ ArgsLaunched'
    BY <1>0, <1>4, <1>5, LaunchedStays DEF AwaitInv, CachesLaunched, ArgsLaunched
  <1>7. NoAwaitCycle'
    BY <1>4, NobodyWaits DEF AwaitInv, Awaiting
  <1>8. \A n \in 1..Len(stack') : stack'[n].job # 0 =>
           /\ stack'[n].job \in Jobs
           /\ jobs'[stack'[n].job].status = "resolving"
    <2> SUFFICES ASSUME NEW n \in 1..Len(stack'), stack'[n].job # 0
                 PROVE  /\ stack'[n].job \in Jobs
                        /\ jobs'[stack'[n].job].status = "resolving"
      OBVIOUS
    <2>1. stack'[n] = stack[n + 1] /\ n + 1 \in 1..Len(stack) /\ n + 1 # 1
      BY <1>1, <1>2
    <2>2. stack[n + 1].job \in Jobs
      <3>1. stack[n + 1] \in Frame /\ stack[n + 1].job # 0
        BY <1>1, <2>1
      <3> QED
        BY <3>1, ContainerAssumption DEF Frame, Jobs, ContainerAssumption
    <2>3. jobs[stack[n + 1].job].status = "resolving"
      BY <2>1 DEF AwaitInv, FrameInv, FramesResolving
    <2>4. stack[n + 1].job # Top.job
      <3>1. 1 \in 1..Len(stack)
        BY <1>1
      <3> QED
        BY <1>1, <2>1, <3>1 DEF AwaitInv, FrameInv, FramesDistinct
    <2> QED
      BY <1>4, <2>1, <2>2, <2>3, <2>4
  <1>9. FramesOK'
    <2> SUFFICES ASSUME NEW n \in 1..Len(stack') PROVE FrameOK(stack[n])'
      BY DEF FramesOK
    <2>1. FrameOK(stack[n + 1])
      BY <1>2 DEF AwaitInv, FrameInv, FramesOK
    <2> QED
      BY <1>1, <1>5, <1>8, <2>1, LaunchedStays DEF FrameOK
  <1>10. FramesResolving'
    BY <1>8 DEF FramesResolving
  <1>11. FramesDistinct'
    <2> SUFFICES ASSUME NEW m \in 1..Len(stack'), NEW n \in 1..Len(stack'),
                        m # n, stack'[n].job # 0
                 PROVE  stack'[m].job # stack'[n].job
      BY DEF FramesDistinct
    <2>1. m + 1 # n + 1
      OBVIOUS
    <2> QED
      BY <1>1, <1>2, <2>1 DEF AwaitInv, FrameInv, FramesDistinct
  <1> QED
    BY <1>6, <1>7, <1>9, <1>10, <1>11 DEF AwaitInv, FrameInv

LEMMA WalkAwait == ASSUME TypeOK, TypeOK', AwaitInv, SyncStep PROVE AwaitInv'
  <1>1. CASE Missing
    <2>1. stack # <<>> /\ Top.job = 0 /\ Deliver(Nil) /\ UNCHANGED jobs
      BY <1>1 DEF Missing, Entered, Running
    <2>2. Launched(Nil)
      BY DEF Launched, Nil
    <2> QED
      BY <2>1, <2>2, ValueTypes, ServeAwait
  <1>2. CASE ServeProxy
    <2>1. stack # <<>> /\ Top.job = 0 /\ UNCHANGED jobs
              /\ Deliver(Top.scratch[Top.key])
      BY <1>2 DEF ServeProxy, Entered, Running
    <2>2. Top.key \in Keys /\ Top.scratch[Top.key] \in Value
      BY <2>1, TopType DEF Frame
    <2>3. Launched(Top.scratch[Top.key])
      BY <2>1, <2>2, TopAwait DEF FrameOK, Launched
    <2> QED
      BY <2>1, <2>2, <2>3, ServeAwait
  <1>3. CASE ServeCached
    <2>1. stack # <<>> /\ Top.job = 0 /\ UNCHANGED jobs
              /\ Deliver(attrs[Top.on][Top.key].cached)
      BY <1>3 DEF ServeCached, Entered, Running
    <2>2. /\ Top.on \in Contexts /\ Top.key \in Keys
          /\ attrs[Top.on][Top.key].cached \in Value
      BY <2>1, TopType DEF Frame, Attribute
    <2>3. Launched(attrs[Top.on][Top.key].cached)
      BY <2>2 DEF AwaitInv, CachesLaunched
    <2> QED
      BY <2>1, <2>2, <2>3, ServeAwait
  <1>4. CASE ThrowSync
    BY <1>4 DEF ThrowSync, AwaitInv, NoAwaitCycle, Awaiting, AwaitedBy,
                CachesLaunched, ArgsLaunched, FrameInv, FramesOK, FrameOK,
                FramesResolving, FramesDistinct, Launched
  <1> QED
    BY <1>1, <1>2, <1>3, <1>4, BeginAwait, ConstructAwait, InjectAwait,
       BuildAwait, LaunchAwait, UnwindAwait, CatchAwait DEF SyncStep

LEMMA SettleAwait ==
    ASSUME TypeOK, AwaitInv, NEW j \in Jobs, Settle(j) PROVE AwaitInv'
  <1>1. stack = <<>> /\ stack' = stack /\ attrs' = attrs /\ Len(stack) = 0
    BY DEF Settle, Fulfil, Reject, Idle
  <1>2. /\ jobs[j].status = "awaiting" /\ jobs'[j].status \in {"built", "failed"}
        /\ \A i \in Jobs : jobs'[i].args = jobs[i].args
        /\ \A i \in Jobs : i # j => jobs'[i].status = jobs[i].status
    <2>1. PICK s \in {"built", "failed"} : jobs' = [jobs EXCEPT ![j].status = s]
      BY DEF Settle, Fulfil, Reject
    <2>2. jobs[j].status = "awaiting" /\ jobs[j] \in Job
      BY DEF Settle, Fulfil, Reject, TypeOK
    <2> QED
      BY <2>1, <2>2 DEF TypeOK, Job
  <1>3. Kept
    BY <1>2 DEF Kept, Out
  <1>4. CachesLaunched' /\ ArgsLaunched'
    BY <1>1, <1>2, <1>3, LaunchedStays DEF AwaitInv, CachesLaunched, ArgsLaunched
  <1>5. NoAwaitCycle'
    BY <1>2, NobodyWaits DEF AwaitInv, Awaiting
  <1>6. FrameInv'
    BY <1>1 DEF FrameInv, FramesOK, FramesResolving, FramesDistinct
  <1> QED
    BY <1>4, <1>5, <1>6 DEF AwaitInv

(* What the stack, the caches and the arguments hold has been launched.     *)
THEOREM AwaitInvAlways == Spec => []AwaitInv
  <1>1. TypeOK /\ TypeOK' /\ AwaitInv /\ [Next]_vars => AwaitInv'
    <2> SUFFICES ASSUME TypeOK, TypeOK', AwaitInv, [Next]_vars PROVE AwaitInv'
      OBVIOUS
    <2>1. ASSUME NEW c \in Contexts, NEW k \in Keys, Resolve(c, k)
          PROVE  AwaitInv'
      BY <2>1, CallsAwait DEF Resolve
    <2>2. ASSUME NEW c \in Contexts, InitializeEager(c)
          PROVE  AwaitInv'
      BY <2>2, CallsAwait DEF InitializeEager
    <2>3. ASSUME NEW c \in Contexts, NEW k \in Keys, NEW r,
                 NEW x \in Contexts, NEW m \in Keys
          PROVE  /\ \/ AddDep(c, k, r)[m].cached = Nil
                    \/ AddDep(c, k, r)[m].cached = attrs[c][m].cached
                 /\ \/ Invalidate(c, k, AddDep(c, k, r))[m].cached = Nil
                    \/ Invalidate(c, k, AddDep(c, k, r))[m].cached = attrs[c][m].cached
      <3>1. \/ AddDep(c, k, r)[m].cached = Nil
            \/ AddDep(c, k, r)[m].cached = attrs[c][m].cached
        BY <2>3 DEF AddDep, TypeOK
      <3>2. \/ Invalidate(c, k, AddDep(c, k, r))[m] = AddDep(c, k, r)[m]
            \/ Invalidate(c, k, AddDep(c, k, r))[m]
                  = [AddDep(c, k, r)[m] EXCEPT !.cached = Nil]
        BY DEF Invalidate
      <3>3. [AddDep(c, k, r)[m] EXCEPT !.cached = Nil].cached
               \in {Nil, AddDep(c, k, r)[m].cached}
        OBVIOUS
      <3> QED
        BY <3>1, <3>2, <3>3
    <2>4. ASSUME NEW c \in Contexts, NEW k \in Keys, Register(c, k)
          PROVE  AwaitInv'
      <3>1. PICK r \in Registers[c][k] :
               attrs' = [attrs EXCEPT ![c] = Invalidate(c, k, AddDep(c, k, r))]
        BY <2>4 DEF Register
      <3>2. \A x \in Contexts : attrs'[x] =
               IF x = c THEN Invalidate(c, k, AddDep(c, k, r)) ELSE attrs[x]
        BY <3>1 DEF TypeOK
      <3> QED
        BY <2>3, <2>4, <3>2, CallsAwait DEF Register
    <2>5. ASSUME NEW c \in Contexts, NEW k \in Keys, Provide(c, k)
          PROVE  AwaitInv'
      <3>1. \A x \in Contexts : attrs'[x] =
               IF x = c THEN AddDep(c, k, ValueRecipe) ELSE attrs[x]
        BY <2>5 DEF Provide, TypeOK
      <3> QED
        BY <2>3, <2>5, <3>1, CallsAwait DEF Provide
    <2>6. ASSUME NEW c \in Contexts, NEW d \in Contexts, Extend(c, d)
          PROVE  AwaitInv'
      <3>1. \A x \in Contexts, m \in Keys :
               attrs'[x][m] = attrs[x][m] \/ attrs'[x][m] = attrs[d][m]
        BY <2>6 DEF Extend, TypeOK
      <3> QED
        BY <2>6, <3>1, CallsAwait DEF Extend
    <2>7. CASE Rest \/ UNCHANGED vars
      BY <2>7, CallsAwait DEF Rest, vars
    <2> QED
      BY <2>1, <2>2, <2>4, <2>5, <2>6, <2>7, WalkAwait, SettleAwait DEF Next
  <1> QED
    BY <1>1, AwaitInit, TypeCorrect, PTL DEF Spec

(* For every dependency graph, with any cycles, every sequence of calls and *)
(* every failure, the asynchronous factories that wait for injected         *)
(* promises never wait for each other in a circle.                          *)
THEOREM NoDeadlock == Spec => []NoAwaitCycle
  <1>1. AwaitInv => NoAwaitCycle
    BY DEF AwaitInv
  <1> QED
    BY <1>1, AwaitInvAlways, PTL
-----------------------------------------------------------------------------
(* Contexts stay apart.                                                     *)

LEMMA OriginsFacts ==
    /\ \A c \in Contexts : c \in Origins(c)
    /\ \A c \in Contexts : Origins(c) \subseteq Contexts
    /\ \A c, d \in Contexts : d \in Origins(c) => Origins(d) \subseteq Origins(c)
    /\ \A c, d \in Contexts : <<c, d>> \in Extends => d \in Origins(c)
  BY DEF Origins

(* A step never takes a construction back or moves it to another context.   *)
Grown(js, ks) ==
    \A j \in Jobs : js[j].status # "free" =>
        ks[j].status # "free" /\ ks[j].on = js[j].on

LEMMA MadeStays ==
    ASSUME NEW js, NEW ks, Grown(js, ks), NEW v, NEW c, Made(js, v, c)
    PROVE  Made(ks, v, c)
  BY DEF Grown, Made

LEMMA MadeAbove ==
    ASSUME NEW js, NEW c \in Contexts, NEW d \in Origins(c), NEW v, Made(js, v, d)
    PROVE  Made(js, v, c)
  BY OriginsFacts DEF Made

LEMMA FrameMadeStays ==
    ASSUME NEW js, NEW ks, Grown(js, ks), NEW f \in Frame, FrameMade(js, f),
           f.job # 0 => js[f.job].status # "free"
    PROVE  FrameMade(ks, f)
  <1>1. f.job # 0 => f.job \in Jobs
    BY ContainerAssumption DEF Frame, Jobs, ContainerAssumption
  <1>2. f.job # 0 => ks[f.job].on = f.on
    BY <1>1 DEF Grown, FrameMade
  <1>3. \A v \in Elems(f.args) : Made(ks, v, f.on)
    BY MadeStays DEF FrameMade
  <1>4. \A k \in Keys : Made(ks, f.scratch[k], f.on)
    BY MadeStays DEF FrameMade
  <1> QED
    BY <1>2, <1>3, <1>4 DEF FrameMade

(* What delivering a value does to the caches: one entry gets it.           *)
LEMMA DeliverCaches ==
    ASSUME TypeOK, stack # <<>>, NEW v \in Value, Deliver(v),
           NEW c \in Contexts, NEW k \in Keys
    PROVE  /\ attrs'[c][k].reg = attrs[c][k].reg
           /\ attrs'[c][k].recipe = attrs[c][k].recipe
           /\ attrs'[c][k].cached =
                IF c = Top.on /\ k = Top.key /\ Caching(c, k)
                THEN v ELSE attrs[c][k].cached
  <1>1. Top.on \in Contexts /\ Top.key \in Keys
    BY TopType DEF Frame
  <1>2. attrs[c][k] \in Attribute
    BY DEF TypeOK
  <1>3. CASE ~Caching(Top.on, Top.key)
    BY <1>3 DEF Deliver, Memo
  <1>4. CASE Caching(Top.on, Top.key)
    <2>1. attrs' = [attrs EXCEPT ![Top.on] = [@ EXCEPT ![Top.key] =
                      [attrs[Top.on][Top.key] EXCEPT !.cached = v]]]
      BY <1>1, <1>4 DEF Deliver, Memo, TypeOK
    <2>2. attrs'[c][k] = IF c = Top.on /\ k = Top.key
                         THEN [attrs[Top.on][Top.key] EXCEPT !.cached = v]
                         ELSE attrs[c][k]
      BY <1>1, <2>1 DEF TypeOK
    <2> QED
      BY <1>2, <1>4, <2>2 DEF Attribute
  <1> QED
    BY <1>3, <1>4

(* What it does to the stack: the call on top is left, unless it is refused. *)
Shifted(s, t, d, v) ==
    /\ Len(t) = Len(s) - d
    /\ \A n \in 1..Len(t) :
         /\ n + d \in 1..Len(s)
         /\ t[n].on = s[n + d].on /\ t[n].key = s[n + d].key
         /\ t[n].job = s[n + d].job /\ t[n].scratch = s[n + d].scratch
         /\ Elems(t[n].args) \subseteq Elems(s[n + d].args) \cup {v}
         /\ (n # 1 \/ d = 0) => t[n] = s[n + d]

LEMMA DeliverStack ==
    ASSUME TypeOK, stack # <<>>, NEW v \in Value, Deliver(v)
    PROVE  \E d \in {0, 1} : Shifted(stack, stack', d, v)
  <1>1. Len(stack) \in Nat \ {0}
    BY PopFrame DEF TypeOK
  <1>2. CASE throwing'
    <2>1. stack' = stack
      BY <1>2 DEF Deliver
    <2>2. Shifted(stack, stack', 0, v)
      BY <1>1, <2>1 DEF Shifted
    <2> QED
      BY <2>2
  <1>3. CASE ~throwing'
    <2>1. stack' = Returned(v)
      BY <1>3 DEF Deliver
    <2>2. Shifted(stack, stack', 1, v)
      BY <1>1, <2>1, ReturnedFrames DEF Shifted
    <2> QED
      BY <2>2
  <1> QED
    BY <1>2, <1>3

(* The frames of a stack in which nothing but the arguments has changed.    *)
LEMMA DeliverFramesMade ==
    ASSUME TypeOK, stack # <<>>, FramesOK, FramesMade, Grown(jobs, jobs'),
           NEW v \in Value, Deliver(v), Made(jobs', v, Top.on), TypeOK'
    PROVE  FramesMade'
  <1>1. PICK d \in {0, 1} : Shifted(stack, stack', d, v)
    BY DeliverStack
  <1>2. /\ Len(stack) \in Nat \ {0} /\ Top = stack[1]
        /\ \A n \in 1..Len(stack) : stack[n] \in Frame
    <2>1. stack \in Seq(Frame)
      BY DEF TypeOK
    <2> QED
      BY <2>1, PopFrame DEF Top
  <1>3. \A n \in 1..Len(stack) : FrameMade(jobs', stack[n]) /\ stack[n].on = Top.on
    <2> TAKE n \in 1..Len(stack)
    <2>1. FrameMade(jobs, stack[n]) /\ stack[n] \in Frame
      BY <1>2 DEF FramesMade
    <2>2. stack[n].job # 0 => jobs[stack[n].job].status # "free"
      BY DEF FramesOK, FrameOK
    <2>3. stack[n].on = Top.on
      BY <1>2 DEF FramesMade
    <2> QED
      BY <2>1, <2>2, <2>3, FrameMadeStays
  <1>4. ASSUME NEW n \in 1..Len(stack')
        PROVE  FrameMade(jobs', stack'[n]) /\ stack'[n].on = Top.on
    <2>1. /\ n + d \in 1..Len(stack)
          /\ stack'[n].on = stack[n + d].on
          /\ stack'[n].job = stack[n + d].job
          /\ stack'[n].scratch = stack[n + d].scratch
          /\ Elems(stack'[n].args) \subseteq Elems(stack[n + d].args) \cup {v}
      BY <1>1, <1>4 DEF Shifted
    <2>2. FrameMade(jobs', stack[n + d]) /\ stack[n + d].on = Top.on
      BY <1>3, <2>1
    <2> QED
      BY <2>1, <2>2 DEF FrameMade
  <1> QED
    BY <1>4 DEF FramesMade

(* A call of _resolveValue returns v, or is refused; the construction on    *)
(* top of the stack, if there is one, may end and keeps its context.        *)
LEMMA EndMade ==
    ASSUME TypeOK, TypeOK', AwaitInv, MadeInv, stack # <<>>,
           NEW v \in Value, Deliver(v), Made(jobs', v, Top.on),
           Grown(jobs, jobs'), \A i \in Jobs : jobs'[i].on = jobs[i].on,
           \A i \in Jobs : \/ jobs'[i].args = jobs[i].args
                           \/ i = Top.job /\ jobs'[i].args = Top.args
    PROVE  MadeInv'
  <1>1. /\ Top = stack[1] /\ 1 \in 1..Len(stack)
        /\ Top.on \in Contexts /\ Top.key \in Keys
    <2>1. Top.on \in Contexts /\ Top.key \in Keys
      BY TopType DEF Frame
    <2> QED
      BY <2>1, TopAwait
  <1>2. FrameMade(jobs, Top)
    BY <1>1 DEF MadeInv, FramesMade
  <1>3. FramesMade'
    BY DeliverFramesMade DEF AwaitInv, FrameInv, MadeInv
  <1>4. ASSUME NEW c \in Contexts, NEW k \in Keys
        PROVE  Made(jobs', attrs'[c][k].cached, c)
    <2>1. \/ c = Top.on /\ attrs'[c][k].cached = v
          \/ attrs'[c][k].cached = attrs[c][k].cached
      BY DeliverCaches
    <2>2. Made(jobs, attrs[c][k].cached, c)
      BY DEF MadeInv, CachesMade
    <2>3. Made(jobs', attrs[c][k].cached, c)
      BY <2>2, MadeStays
    <2> QED
      BY <2>1, <2>3
  <1>5. ASSUME NEW i \in Jobs, NEW w \in Elems(jobs'[i].args)
        PROVE  Made(jobs', w, jobs'[i].on)
    <2>1. Made(jobs, w, jobs[i].on)
      <3>1. CASE jobs'[i].args = jobs[i].args
        BY <1>5, <3>1 DEF MadeInv, ArgsMade
      <3>2. CASE i = Top.job /\ jobs'[i].args = Top.args
        <4>1. Top.job # 0
          BY <3>2 DEF Jobs
        <4> QED
          BY <1>2, <1>5, <3>2, <4>1 DEF FrameMade
      <3> QED
        BY <3>1, <3>2
    <2> QED
      BY <2>1, MadeStays
  <1> QED
    BY <1>3, <1>4, <1>5 DEF MadeInv, CachesMade, ArgsMade

(* Calls of the API and continuations: nothing is on the stack, and a cached *)
(* value is dropped or copied from a context that is extended.              *)
LEMMA IdleMade ==
    ASSUME MadeInv, stack' = <<>>, Grown(jobs, jobs'),
           \A i \in Jobs : jobs'[i].on = jobs[i].on /\ jobs'[i].args = jobs[i].args,
           \A c \in Contexts, k \in Keys :
              \/ attrs'[c][k].cached = Nil
              \/ \E d \in Origins(c) : d \in Contexts
                                       /\ attrs'[c][k].cached = attrs[d][k].cached
    PROVE  MadeInv'
  <1>1. FramesMade'
    BY DEF FramesMade
  <1>2. ASSUME NEW c \in Contexts, NEW k \in Keys
        PROVE  Made(jobs', attrs'[c][k].cached, c)
    <2>1. CASE attrs'[c][k].cached = Nil
      BY <2>1 DEF Made
    <2>2. CASE attrs'[c][k].cached # Nil
      <3>1. PICK d \in Origins(c) : d \in Contexts
                                    /\ attrs'[c][k].cached = attrs[d][k].cached
        BY <2>2
      <3>2. Made(jobs, attrs[d][k].cached, d)
        BY <3>1 DEF MadeInv, CachesMade
      <3>3. Made(jobs, attrs[d][k].cached, c)
        BY <3>1, <3>2, MadeAbove
      <3> QED
        BY <3>1, <3>3, MadeStays
    <2> QED
      BY <2>1, <2>2
  <1>3. ASSUME NEW i \in Jobs, NEW w \in Elems(jobs'[i].args)
        PROVE  Made(jobs', w, jobs'[i].on)
    <2>1. Made(jobs, w, jobs[i].on)
      BY <1>3 DEF MadeInv, ArgsMade
    <2> QED
      BY <2>1, MadeStays
  <1> QED
    BY <1>1, <1>2, <1>3 DEF MadeInv, CachesMade, ArgsMade

(* The caches and the arguments when only the stack has changed.            *)
LEMMA SameMade ==
    ASSUME MadeInv, UNCHANGED <<attrs, jobs>>, FramesMade'
    PROVE  MadeInv'
  BY DEF MadeInv, CachesMade, ArgsMade

LEMMA BeginMade == ASSUME TypeOK, MadeInv, Begin PROVE MadeInv'
  <1>1. PICK c \in Contexts, k \in Keys :
           stack' = <<Call(c, k, [m \in Keys |-> Nil])>>
    BY DEF Begin
  <1> DEFINE f == Call(c, k, [m \in Keys |-> Nil])
  <1>2. f.job = 0 /\ f.args = <<>> /\ \A m \in Keys : f.scratch[m] = Nil
    BY DEF Call
  <1> HIDE DEF f
  <1>3. Len(stack') = 1 /\ stack'[1] = f
    BY <1>1 DEF f
  <1>4. FrameMade(jobs', f)
    BY <1>2 DEF FrameMade, Made, Elems
  <1>5. FramesMade'
    BY <1>3, <1>4 DEF FramesMade
  <1> QED
    BY <1>5, SameMade DEF Begin

LEMMA InjectMade == ASSUME TypeOK, MadeInv, InjectNext PROVE MadeInv'
  <1>1. FrameMade(jobs, Top) /\ \A n \in 1..Len(stack) : stack[n].on = Top.on
    <2>1. 1 \in 1..Len(stack) /\ Top = stack[1]
      BY InjectIs
    <2> QED
      BY <2>1 DEF MadeInv, FramesMade
  <1>2. FrameMade(jobs', stack'[1])
    BY <1>1, InjectIs DEF FrameMade, Elems
  <1>3. ASSUME NEW n \in 1..Len(stack')
        PROVE  FrameMade(jobs', stack'[n]) /\ stack'[n].on = Top.on
    <2>1. CASE n = 1
      BY <1>2, <2>1, InjectIs
    <2>2. CASE n # 1
      <3>1. n - 1 \in 1..Len(stack) /\ stack'[n] = stack[n - 1] /\ jobs' = jobs
        BY <2>2, InjectIs
      <3> QED
        BY <1>1, <3>1 DEF MadeInv, FramesMade
    <2> QED
      BY <2>1, <2>2
  <1>4. FramesMade'
    BY <1>3 DEF FramesMade
  <1> QED
    BY <1>4, InjectIs, SameMade

LEMMA UnwindMade == ASSUME TypeOK, TypeOK', AwaitInv, MadeInv, Unwind PROVE MadeInv'
  <1>0. stack # <<>> /\ stack' = Tail(stack) /\ jobs' = Abandoned
            /\ UNCHANGED attrs
    BY DEF Unwind, TypeOK
  <1>1. /\ stack \in Seq(Frame)
        /\ Len(stack) \in Nat \ {0}
        /\ Len(stack') = Len(stack) - 1
        /\ \A n \in 1..Len(stack') : stack'[n] = stack[n + 1]
    BY <1>0, PopFrame DEF TypeOK, Top
  <1>2. \A n \in 1..Len(stack') : n + 1 \in 1..Len(stack)
    BY <1>1
  <1>4. \A i \in Jobs : /\ jobs'[i].args = jobs[i].args /\ jobs'[i].on = jobs[i].on
                        /\ jobs'[i].status \in {jobs[i].status, "failed"}
    BY <1>0, AbandonedIs
  <1>5. Grown(jobs, jobs')
    BY <1>4 DEF Grown
  <1>6. ASSUME NEW n \in 1..Len(stack') PROVE FrameMade(jobs', stack'[n])
    <2>1. FrameMade(jobs, stack[n + 1]) /\ stack[n + 1] \in Frame
      BY <1>1, <1>2 DEF MadeInv, FramesMade
    <2>2. stack[n + 1].job # 0 => jobs[stack[n + 1].job].status # "free"
      BY <1>2 DEF AwaitInv, FrameInv, FramesOK, FrameOK
    <2>3. FrameMade(jobs', stack[n + 1])
      BY <1>5, <2>1, <2>2, FrameMadeStays
    <2> QED
      BY <1>1, <2>3
  <1>7. \A m, n \in 1..Len(stack') : stack'[m].on = stack'[n].on
    BY <1>1, <1>2 DEF MadeInv, FramesMade
  <1>8. FramesMade'
    BY <1>6, <1>7 DEF FramesMade
  <1>9. CachesMade'
    BY <1>0, <1>5, MadeStays DEF MadeInv, CachesMade
  <1>10. ArgsMade'
    BY <1>4, <1>5, MadeStays DEF MadeInv, ArgsMade
  <1> QED
    BY <1>8, <1>9, <1>10 DEF MadeInv

LEMMA ConstructMade == ASSUME TypeOK, AwaitInv, MadeInv, Construct PROVE MadeInv'
  <1>1. /\ attrs' = attrs /\ Top = stack[1] /\ Len(stack) \in Nat \ {0}
        /\ Len(stack') = Len(stack)
        /\ \A n \in 1..Len(stack) : stack[n] \in Frame
        /\ \A n \in 2..Len(stack) : stack'[n] = stack[n]
        /\ stack'[1].args = Top.args /\ stack'[1].on = Top.on
    BY ConstructIs
  <1>2. PICK j \in Jobs :
          /\ jobs[j].status = "free"
          /\ jobs'[j].status = "resolving" /\ jobs'[j].args = <<>>
          /\ jobs'[j].on = Top.on
          /\ \A i \in Jobs : i # j => jobs'[i] = jobs[i]
          /\ stack'[1].job = j
          /\ \A k \in Keys : stack'[1].scratch[k] =
                IF k = Top.key THEN Proxy(j) ELSE Top.scratch[k]
    BY ConstructIs
  <1>3. Grown(jobs, jobs')
    BY <1>2 DEF Grown
  <1>4. CachesMade'
    BY <1>1, <1>3, MadeStays DEF MadeInv, CachesMade
  <1>5. ArgsMade'
    <2> SUFFICES ASSUME NEW i \in Jobs, NEW w \in Elems(jobs'[i].args)
                 PROVE  Made(jobs', w, jobs'[i].on)
      BY DEF ArgsMade
    <2>1. i # j
      BY <1>2 DEF Elems
    <2>2. Made(jobs, w, jobs[i].on)
      BY <1>2, <2>1 DEF MadeInv, ArgsMade
    <2> QED
      BY <1>2, <1>3, <2>1, <2>2, MadeStays
  <1>6. ASSUME NEW n \in 1..Len(stack)
        PROVE  FrameMade(jobs', stack[n]) /\ stack[n].on = Top.on
    <2>1. FrameMade(jobs, stack[n]) /\ stack[n].on = Top.on
      BY <1>1 DEF MadeInv, FramesMade
    <2>2. stack[n].job # 0 => jobs[stack[n].job].status # "free"
      BY DEF AwaitInv, FrameInv, FramesOK, FrameOK
    <2> QED
      BY <1>1, <1>3, <2>1, <2>2, FrameMadeStays
  <1>7. FrameMade(jobs', stack'[1])
    <2>1. Made(jobs', Proxy(j), Top.on)
      <3>1. Top.on \in Contexts
        BY <1>1 DEF Frame
      <3> QED
        BY <1>2, <3>1, OriginsFacts DEF Made, Proxy
    <2>2. FrameMade(jobs', Top)
      BY <1>1, <1>6
    <2> QED
      BY <1>1, <1>2, <2>1, <2>2 DEF FrameMade
  <1>8. ASSUME NEW n \in 1..Len(stack')
        PROVE  FrameMade(jobs', stack'[n]) /\ stack'[n].on = Top.on
    <2>1. CASE n = 1
      BY <1>1, <1>7, <2>1
    <2>2. CASE n # 1
      BY <1>1, <1>6, <2>2
    <2> QED
      BY <2>1, <2>2
  <1>9. FramesMade'
    BY <1>8 DEF FramesMade
  <1> QED
    BY <1>4, <1>5, <1>9 DEF MadeInv

LEMMA BuildMade ==
    ASSUME TypeOK, TypeOK', AwaitInv, MadeInv, BuildSync \/ Launch PROVE MadeInv'
  <1>0. stack # <<>> /\ Top.job # 0
    BY DEF BuildSync, Launch, AllInjected, Constructing, Running
  <1>1. /\ Top.job \in Jobs /\ FrameOK(Top) /\ Top = stack[1] /\ 1 \in 1..Len(stack)
        /\ Top.on \in Contexts
    <2>1. Top.on \in Contexts
      BY <1>0, TopType DEF Frame
    <2> QED
      BY <1>0, <2>1, TopAwait
  <1>2. jobs[Top.job].status # "free" /\ jobs[Top.job].on = Top.on
    BY <1>0, <1>1 DEF FrameOK, MadeInv, FramesMade, FrameMade
  <1>3. PICK s \in {"built", "awaiting"}, v \in {Nil, Object(Top.job), Promise(Top.job)} :
           /\ jobs' = [jobs EXCEPT ![Top.job].status = s, ![Top.job].args = Top.args]
           /\ Deliver(v)
    <2>1. CASE BuildSync
      BY <2>1 DEF BuildSync
    <2>2. CASE Launch
      BY <2>2 DEF Launch
    <2> QED
      BY <2>1, <2>2
  <1>4. /\ jobs'[Top.job].status = s /\ jobs'[Top.job].args = Top.args
        /\ \A i \in Jobs : i # Top.job => jobs'[i] = jobs[i]
        /\ \A i \in Jobs : jobs'[i].on = jobs[i].on
    BY <1>1, <1>3 DEF TypeOK, Job
  <1>5. Grown(jobs, jobs')
    BY <1>4 DEF Grown
  <1>6. v \in Value /\ Made(jobs', v, Top.on)
    <2>1. v \in Value
      BY <1>1, <1>3, ValueTypes
    <2>2. v = Nil \/ v.job = Top.job
      BY <1>3 DEF Object, Promise
    <2> QED
      BY <1>1, <1>2, <1>4, <2>1, <2>2, OriginsFacts DEF Made
  <1> QED
    BY <1>0, <1>3, <1>4, <1>5, <1>6, EndMade

LEMMA CatchMade == ASSUME TypeOK, TypeOK', AwaitInv, MadeInv, Catch PROVE MadeInv'
  <1>0. stack # <<>> /\ Top.job # 0 /\ jobs' = Abandoned /\ Deliver(Promise(Top.job))
    BY DEF Catch, TypeOK
  <1>1. /\ Top.job \in Jobs /\ FrameOK(Top) /\ Top = stack[1] /\ 1 \in 1..Len(stack)
        /\ Top.on \in Contexts
    <2>1. Top.on \in Contexts
      BY <1>0, TopType DEF Frame
    <2> QED
      BY <1>0, <2>1, TopAwait
  <1>2. jobs[Top.job].status # "free" /\ jobs[Top.job].on = Top.on
    BY <1>0, <1>1 DEF FrameOK, MadeInv, FramesMade, FrameMade
  <1>3. \A i \in Jobs : /\ jobs'[i].args = jobs[i].args /\ jobs'[i].on = jobs[i].on
                        /\ jobs'[i].status \in {jobs[i].status, "failed"}
    BY <1>0, AbandonedIs
  <1>4. Grown(jobs, jobs')
    BY <1>3 DEF Grown
  <1>5. Promise(Top.job) \in Value /\ Made(jobs', Promise(Top.job), Top.on)
    BY <1>1, <1>2, <1>3, ValueTypes, OriginsFacts DEF Made, Promise
  <1> QED
    BY <1>0, <1>3, <1>4, <1>5, EndMade

LEMMA WalkMade ==
    ASSUME TypeOK, TypeOK', AwaitInv, MadeInv, SyncStep PROVE MadeInv'
  <1>1. ASSUME NEW v \in Value, stack # <<>>, UNCHANGED jobs, Deliver(v),
               Made(jobs, v, Top.on)
        PROVE  MadeInv'
    <2>1. Grown(jobs, jobs')
      BY <1>1 DEF Grown
    <2> QED
      BY <1>1, <2>1, EndMade
  <1>2. CASE Missing
    <2>1. stack # <<>> /\ Deliver(Nil) /\ UNCHANGED jobs
      BY <1>2 DEF Missing, Entered, Running
    <2>2. Made(jobs, Nil, Top.on)
      BY DEF Made
    <2> QED
      BY <1>1, <2>1, <2>2, ValueTypes
  <1>3. CASE ServeProxy
    <2>1. stack # <<>> /\ UNCHANGED jobs /\ Deliver(Top.scratch[Top.key])
      BY <1>3 DEF ServeProxy, Entered, Running
    <2>2. Top.key \in Keys /\ Top.scratch[Top.key] \in Value
      BY <2>1, TopType DEF Frame
    <2>3. Made(jobs, Top.scratch[Top.key], Top.on)
      BY <2>1, <2>2, TopAwait DEF MadeInv, FramesMade, FrameMade
    <2> QED
      BY <1>1, <2>1, <2>2, <2>3
  <1>4. CASE ServeCached
    <2>1. stack # <<>> /\ UNCHANGED jobs /\ Deliver(attrs[Top.on][Top.key].cached)
      BY <1>4 DEF ServeCached, Entered, Running
    <2>2. /\ Top.on \in Contexts /\ Top.key \in Keys
          /\ attrs[Top.on][Top.key].cached \in Value
      BY <2>1, TopType DEF Frame, Attribute
    <2>3. Made(jobs, attrs[Top.on][Top.key].cached, Top.on)
      BY <2>2 DEF MadeInv, CachesMade
    <2> QED
      BY <1>1, <2>1, <2>2, <2>3
  <1>5. CASE ThrowSync
    <2>1. UNCHANGED <<attrs, jobs, stack>>
      BY <1>5 DEF ThrowSync
    <2>2. FramesMade'
      BY <2>1 DEF MadeInv, FramesMade
    <2> QED
      BY <2>1, <2>2, SameMade
  <1> QED
    BY <1>2, <1>3, <1>4, <1>5, BeginMade, ConstructMade, InjectMade, BuildMade,
       UnwindMade, CatchMade DEF SyncStep

(* What a call of the API leaves in the caches: fewer values, or those of a *)
(* context that is extended.                                                *)
LEMMA CallCaches ==
    ASSUME TypeOK, NEW x \in Contexts, NEW m \in Keys, NEW c \in Contexts, NEW k \in Keys
    PROVE  /\ Register(c, k) \/ Provide(c, k) =>
                  (attrs'[x][m].cached = Nil \/ attrs'[x][m] = attrs[x][m])
           /\ \A d \in Contexts : Extend(c, d) =>
                  \/ attrs'[x][m] = attrs[x][m]
                  \/ x = c /\ <<c, d>> \in Extends /\ attrs'[x][m] = attrs[d][m]
  <1>1. ASSUME NEW r
        PROVE  AddDep(c, k, r)[m].cached = Nil \/ AddDep(c, k, r)[m] = attrs[c][m]
    BY <1>1 DEF AddDep, TypeOK
  <1>2. ASSUME Register(c, k)
        PROVE  attrs'[x][m].cached = Nil \/ attrs'[x][m] = attrs[x][m]
    <2>1. PICK r \in Registers[c][k] :
             attrs' = [attrs EXCEPT ![c] = Invalidate(c, k, AddDep(c, k, r))]
      BY <1>2 DEF Register
    <2>2. attrs'[x] = IF x = c THEN Invalidate(c, k, AddDep(c, k, r)) ELSE attrs[x]
      BY <2>1 DEF TypeOK
    <2>3. \/ Invalidate(c, k, AddDep(c, k, r))[m] = AddDep(c, k, r)[m]
          \/ Invalidate(c, k, AddDep(c, k, r))[m]
                = [AddDep(c, k, r)[m] EXCEPT !.cached = Nil]
      BY DEF Invalidate
    <2>4. AddDep(c, k, r)[m] \in [reg : {nextReg} \cup (0..MaxRegs), recipe : {r} \cup Recipe,
                                  cached : Value]
      BY ValueTypes DEF AddDep, TypeOK, Attribute
    <2>5. [AddDep(c, k, r)[m] EXCEPT !.cached = Nil].cached = Nil
      BY <2>4
    <2>6. \/ Invalidate(c, k, AddDep(c, k, r))[m].cached = Nil
          \/ Invalidate(c, k, AddDep(c, k, r))[m] = attrs[c][m]
      BY <1>1, <2>3, <2>5
    <2> QED
      BY <2>2, <2>6
  <1>3. ASSUME Provide(c, k)
        PROVE  attrs'[x][m].cached = Nil \/ attrs'[x][m] = attrs[x][m]
    <2>1. attrs'[x] = IF x = c THEN AddDep(c, k, ValueRecipe) ELSE attrs[x]
      BY <1>3 DEF Provide, TypeOK
    <2> QED
      BY <1>1, <2>1
  <1>4. ASSUME NEW d \in Contexts, Extend(c, d)
        PROVE  \/ attrs'[x][m] = attrs[x][m]
               \/ x = c /\ <<c, d>> \in Extends /\ attrs'[x][m] = attrs[d][m]
    BY <1>4 DEF Extend, TypeOK
  <1> QED
    BY <1>2, <1>3, <1>4

LEMMA SettleJobs ==
    ASSUME TypeOK, NEW j \in Jobs, Settle(j)
    PROVE  /\ stack = <<>> /\ UNCHANGED <<attrs, nextReg, agenda, stack, throwing>>
           /\ jobs[j].status = "awaiting" /\ jobs'[j].status \in {"built", "failed"}
           /\ \A i \in Jobs : i # j => jobs'[i] = jobs[i]
           /\ jobs'[j].on = jobs[j].on /\ jobs'[j].args = jobs[j].args
           /\ jobs'[j].key = jobs[j].key /\ jobs'[j].needs = jobs[j].needs
           /\ jobs'[j].seen = jobs[j].seen
  <1>1. PICK s \in {"built", "failed"} : jobs' = [jobs EXCEPT ![j].status = s]
    BY DEF Settle, Fulfil, Reject
  <1>2. jobs[j].status = "awaiting" /\ jobs[j] \in Job
    BY DEF Settle, Fulfil, Reject, TypeOK
  <1> QED
    BY <1>1, <1>2 DEF Settle, Fulfil, Reject, Idle, TypeOK, Job

LEMMA StepMade ==
    ASSUME TypeOK, TypeOK', AwaitInv, MadeInv, [Next]_vars PROVE MadeInv'
  <1>1. ASSUME stack = <<>>, UNCHANGED <<stack, jobs>>,
               \A c \in Contexts, k \in Keys :
                  \/ attrs'[c][k].cached = Nil
                  \/ \E d \in Origins(c) : d \in Contexts
                                           /\ attrs'[c][k].cached = attrs[d][k].cached
        PROVE  MadeInv'
    <2>1. Grown(jobs, jobs')
      BY <1>1 DEF Grown
    <2> QED
      BY <1>1, <2>1, IdleMade
  <1>2. ASSUME UNCHANGED <<attrs, stack, jobs>>
        PROVE  MadeInv'
    BY <1>2 DEF MadeInv, CachesMade, ArgsMade, FramesMade
  <1>3. ASSUME NEW c \in Contexts, NEW k \in Keys, Register(c, k) \/ Provide(c, k)
        PROVE  MadeInv'
    <2>1. stack = <<>> /\ UNCHANGED <<stack, jobs>>
      BY <1>3 DEF Register, Provide, Idle
    <2>2. \A x \in Contexts, m \in Keys : attrs'[x][m].cached = Nil \/ attrs'[x][m] = attrs[x][m]
      BY <1>3, CallCaches
    <2> QED
      BY <1>1, <2>1, <2>2, OriginsFacts
  <1>4. ASSUME NEW c \in Contexts, NEW d \in Contexts, Extend(c, d)
        PROVE  MadeInv'
    <2>1. stack = <<>> /\ UNCHANGED <<stack, jobs>>
      BY <1>4 DEF Extend, Idle
    <2>2. ASSUME NEW x \in Contexts, NEW m \in Keys
          PROVE  \E y \in Origins(x) : y \in Contexts
                                       /\ attrs'[x][m].cached = attrs[y][m].cached
      <3>1. \/ attrs'[x][m] = attrs[x][m]
            \/ x = c /\ <<c, d>> \in Extends /\ attrs'[x][m] = attrs[d][m]
        BY <1>4, CallCaches
      <3> QED
        BY <3>1, OriginsFacts
    <2> QED
      BY <1>1, <2>1, <2>2
  <1>5. ASSUME NEW j \in Jobs, Settle(j)
        PROVE  MadeInv'
    <2>1. /\ stack' = <<>> /\ attrs' = attrs
          /\ jobs[j].status = "awaiting" /\ jobs'[j].status \in {"built", "failed"}
          /\ \A i \in Jobs : i # j => jobs'[i] = jobs[i]
          /\ jobs'[j].on = jobs[j].on /\ jobs'[j].args = jobs[j].args
      BY <1>5, SettleJobs
    <2>2. Grown(jobs, jobs')
      BY <2>1 DEF Grown
    <2>3. \A i \in Jobs : jobs'[i].on = jobs[i].on /\ jobs'[i].args = jobs[i].args
      BY <2>1
    <2> QED
      BY <2>1, <2>2, <2>3, OriginsFacts, IdleMade
  <1>6. ASSUME NEW c \in Contexts, NEW k \in Keys, Resolve(c, k) \/ InitializeEager(c)
        PROVE  MadeInv'
    BY <1>2, <1>6 DEF Resolve, InitializeEager
  <1>7. CASE Rest \/ UNCHANGED vars
    BY <1>2, <1>7 DEF Rest, vars
  <1>8. Keys # {}
    BY ContainerAssumption DEF ContainerAssumption
  <1> QED
    BY <1>3, <1>4, <1>5, <1>6, <1>7, <1>8, WalkMade DEF Next

THEOREM MadeInvAlways == Spec => []MadeInv
  <1>1. Init => MadeInv
    <2> SUFFICES ASSUME Init PROVE MadeInv
      OBVIOUS
    <2>1. stack = <<>> /\ Len(stack) = 0
      BY DEF Init
    <2>2. \A j \in Jobs : jobs[j].args = <<>>
      BY DEF Init, NoJob
    <2>3. \A c \in Contexts, k \in Keys : attrs[c][k].cached = Nil
      BY DEF Init, Unregistered
    <2>4. CachesMade
      BY <2>3 DEF CachesMade, Made
    <2>5. ArgsMade
      BY <2>2 DEF ArgsMade, Elems
    <2>6. FramesMade
      BY <2>1 DEF FramesMade
    <2> QED
      BY <2>4, <2>5, <2>6 DEF MadeInv
  <1> QED
    BY <1>1, StepMade, AwaitInvAlways, TypeCorrect, PTL DEF Spec

(* Everything reachable from a construction through arguments is in every   *)
(* set that is closed under them.                                           *)
LEMMA PartsReach ==
    ASSUME NEW Good \in SUBSET Jobs, NEW j \in Good,
           \A i \in Good : ArgJobs(i) \subseteq Good
    PROVE  \E reach \in [0..MaxJobs -> SUBSET Good] :
              /\ reach[0] = {j} /\ Parts(j) = reach[MaxJobs]
              /\ \A n \in 1..MaxJobs :
                    reach[n] = reach[n - 1] \cup UNION {ArgJobs(i) : i \in reach[n - 1]}
  <1> DEFINE more(s) == s \cup UNION {ArgJobs(i) : i \in s}
             eq(g) == g = [n \in 0..MaxJobs |-> IF n = 0 THEN {j} ELSE more(g[n - 1])]
             reach == CHOOSE g : eq(g)
  <1>1. MaxJobs \in Nat
    BY ContainerAssumption DEF ContainerAssumption
  <1>2. \A s \in SUBSET Good : more(s) \in SUBSET Good
    OBVIOUS
  <1>3. Parts(j) = reach[MaxJobs]
    BY DEF Parts
  <1> HIDE DEF more
  <1>4. \E g : eq(g)
    <2> DEFINE X == SUBSET Good
               x0 == {j}
               step == [n \in 1..MaxJobs |-> [s \in X |-> more(s)]]
    <2>1. step \in [1..MaxJobs -> [X -> X]] /\ x0 \in X
      BY <1>1, <1>2
    <2>2. \A n \in 1..MaxJobs : \A s \in X : step[n][s] = more(s)
      OBVIOUS
    <2> HIDE DEF X, x0, step
    <2>3. PICK f \in [0..MaxJobs -> X] : Runs(f, MaxJobs, x0, step)
      BY <1>1, <2>1, Recursion
    <2>4. f[0] = x0 /\ \A n \in 1..MaxJobs : f[n] = more(f[n - 1])
      <3>1. \A n \in 1..MaxJobs : f[n - 1] \in X
        BY <1>1, <2>3
      <3> QED
        BY <2>2, <2>3, <3>1 DEF Runs
    <2>5. eq(f)
      BY <1>1, <2>3, <2>4 DEF x0
    <2> HIDE DEF eq
    <2> QED
      BY <2>5
  <1>5. eq(reach)
    <2> HIDE DEF eq
    <2> QED
      BY <1>4, Zenon
  <1> HIDE DEF reach
  <1>6. reach[0] = {j} /\ \A n \in 1..MaxJobs : reach[n] = more(reach[n - 1])
    <2>1. \A n \in 0..MaxJobs : reach[n] = IF n = 0 THEN {j} ELSE more(reach[n - 1])
      BY <1>5
    <2>2. 0 \in 0..MaxJobs /\ \A n \in 1..MaxJobs : n \in 0..MaxJobs /\ n # 0
      BY <1>1
    <2> QED
      BY <2>1, <2>2
  <1> DEFINE S == {n \in 0..MaxJobs : reach[n] \subseteq Good}
  <1>7. 0 \in S
    BY <1>1, <1>6
  <1>8. \A n \in 1..MaxJobs : n - 1 \in S => n \in S
    BY <1>1, <1>2, <1>6
  <1> HIDE DEF S
  <1>9. 0..MaxJobs \subseteq S
    BY <1>1, <1>7, <1>8, UpTo
  <1>10. reach \in [0..MaxJobs -> SUBSET Good]
    <2>1. reach = [n \in 0..MaxJobs |-> reach[n]]
      BY <1>5
    <2> QED
      BY <1>9, <2>1 DEF S
  <1> QED
    BY <1>3, <1>6, <1>10 DEF more

LEMMA PartsClosed ==
    ASSUME NEW Good \in SUBSET Jobs, NEW j \in Good,
           \A i \in Good : ArgJobs(i) \subseteq Good
    PROVE  Parts(j) \subseteq Good
  <1>1. MaxJobs \in 0..MaxJobs
    BY ContainerAssumption DEF ContainerAssumption
  <1>2. PICK reach \in [0..MaxJobs -> SUBSET Good] : Parts(j) = reach[MaxJobs]
    BY PartsReach
  <1> QED
    BY <1>1, <1>2

(* Everything a construction of a context c extends was built from was      *)
(* started by such a context.                                               *)
LEMMA PartsMade ==
    ASSUME MadeInv, NEW c \in Contexts, NEW j \in Jobs,
           jobs[j].status # "free", jobs[j].on \in Origins(c)
    PROVE  \A i \in Parts(j) : jobs[i].on \in Origins(c)
  <1> DEFINE Good == {i \in Jobs : jobs[i].status # "free" /\ jobs[i].on \in Origins(c)}
  <1>1. ASSUME NEW i \in Good, NEW p \in ArgJobs(i) PROVE p \in Good
    <2>1. PICK v \in Elems(jobs[i].args) : v.job = p /\ p # 0
      BY DEF ArgJobs
    <2>2. jobs[i].on \in Origins(c) /\ Made(jobs, v, jobs[i].on)
      BY DEF MadeInv, ArgsMade
    <2>3. Made(jobs, v, c)
      BY <2>2, MadeAbove
    <2>4. v # Nil
      BY <2>1 DEF Nil
    <2> QED
      BY <2>1, <2>3, <2>4 DEF Made
  <1>2. Good \subseteq Jobs /\ j \in Good
    OBVIOUS
  <1> HIDE DEF Good
  <1>3. Parts(j) \subseteq Good
    BY <1>1, <1>2, PartsClosed
  <1> QED
    BY <1>3 DEF Good

(* Nothing that a request registers or resolves becomes part of an instance *)
(* that the application, or another context it does not extend, has cached. *)
THEOREM IsolatedAlways == Spec => []Isolated
  <1>1. TypeOK /\ MadeInv => Isolated
    <2> SUFFICES ASSUME TypeOK, MadeInv, NEW c \in Contexts, NEW k \in Keys,
                        attrs[c][k].cached # Nil,
                        NEW i \in Parts(attrs[c][k].cached.job)
                 PROVE  jobs[i].on \in Origins(c)
      BY DEF Isolated
    <2>1. Made(jobs, attrs[c][k].cached, c)
      BY DEF MadeInv, CachesMade
    <2> QED
      BY <2>1, PartsMade DEF Made
  <1> QED
    BY <1>1, MadeInvAlways, TypeCorrect, PTL
-----------------------------------------------------------------------------
(* No placeholder survives.                                                 *)

NoFailed(js) == \A j \in Jobs : js[j].status # "failed"

(* A construction below the top of the stack goes on while the top ends.    *)
LEMMA BelowResolves ==
    ASSUME TypeOK, AwaitInv, stack # <<>>, NEW n \in 2..Len(stack),
           stack[n].job # 0
    PROVE  /\ stack[n].job \in Jobs /\ stack[n].job # Top.job
           /\ jobs[stack[n].job].status = "resolving"
  <1>1. /\ n \in 1..Len(stack) /\ n # 1 /\ 1 \in 1..Len(stack) /\ Top = stack[1]
        /\ stack[n] \in Frame
    <2>1. stack \in Seq(Frame) /\ Len(stack) \in Nat \ {0} /\ Top = stack[1]
      BY PopFrame DEF TypeOK, Top
    <2> QED
      BY <2>1
  <1>2. stack[n].job \in Jobs
    BY <1>1, ContainerAssumption DEF Frame, Jobs, ContainerAssumption
  <1> QED
    BY <1>1, <1>2 DEF AwaitInv, FrameInv, FramesResolving, FramesDistinct

(* What the step from s to t leaves of the stack.                           *)
LEMMA ShiftedBack ==
    ASSUME TypeOK, NEW d \in {0, 1}, NEW v, Shifted(stack, stack', d, v),
           NEW n \in 2..Len(stack)
    PROVE  /\ n - d \in 1..Len(stack')
           /\ stack'[n - d].on = stack[n].on /\ stack'[n - d].key = stack[n].key
           /\ stack'[n - d].job = stack[n].job
  <1>1. Len(stack) \in Nat /\ Len(stack') = Len(stack) - d
    BY DEF TypeOK, Shifted
  <1>2. n - d \in 1..Len(stack') /\ (n - d) + d = n
    BY <1>1
  <1> QED
    BY <1>2 DEF Shifted

(* A value is served, or the construction on top of the stack ends: the     *)
(* placeholders it leaves belong to calls below.                            *)
LEMMA EndPlace ==
    ASSUME TypeOK, AwaitInv, PlaceInv, stack # <<>>, NEW v \in Value, Deliver(v),
           \A i \in Jobs : i # Top.job => jobs'[i] = jobs[i],
           NoFailed(jobs') => NoFailed(jobs),
           (NoFailed(jobs) /\ v.tag = "proxy") =>
               \E n \in 2..Len(stack) : /\ stack[n].on = Top.on
                                        /\ stack[n].key = Top.key /\ stack[n].job # 0
    PROVE  PlaceInv'
  <1>0. /\ Len(stack) \in Nat \ {0} /\ Top = stack[1]
        /\ Top.on \in Contexts /\ Top.key \in Keys
    <2>1. Top.on \in Contexts /\ Top.key \in Keys
      BY TopType DEF Frame
    <2> QED
      BY <2>1, PopFrame DEF TypeOK, Top
  <1>1. PICK d \in {0, 1} : Shifted(stack, stack', d, v)
    BY DeliverStack
  <1>2. \A c \in Contexts, k \in Keys :
          /\ Caching(c, k)' = Caching(c, k)
          /\ attrs'[c][k].cached = IF c = Top.on /\ k = Top.key /\ Caching(c, k)
                                   THEN v ELSE attrs[c][k].cached
    BY DeliverCaches DEF Caching, Registered
  <1>3. OnlySingletons'
    BY <1>2 DEF PlaceInv, OnlySingletons
  <1>4. ScratchBelow'
    <2> SUFFICES ASSUME NEW n \in 1..Len(stack'), NEW k \in Keys,
                        stack'[n].scratch[k] # Nil
                 PROVE  Below(stack', n, stack'[n].on, k)
      BY DEF ScratchBelow
    <2>1. /\ n + d \in 1..Len(stack) /\ stack'[n].on = stack[n + d].on
          /\ stack'[n].scratch = stack[n + d].scratch
          /\ Len(stack') = Len(stack) - d
      BY <1>1 DEF Shifted
    <2>2. PICK m \in (n + d)..Len(stack) : /\ stack[m].on = stack[n + d].on
                                           /\ stack[m].key = k /\ stack[m].job # 0
      BY <2>1 DEF PlaceInv, ScratchBelow, Below
    <2>3. m - d \in n..Len(stack') /\ (m - d) + d = m /\ m - d \in 1..Len(stack')
      BY <1>0, <2>1
    <2>4. /\ stack'[m - d].on = stack[m].on /\ stack'[m - d].key = stack[m].key
          /\ stack'[m - d].job = stack[m].job
      BY <1>1, <2>3 DEF Shifted
    <2> QED
      BY <2>1, <2>2, <2>3, <2>4 DEF Below
  <1>5. ProxiesBelow'
    <2> SUFFICES ASSUME NoFailed(jobs'), NEW c \in Contexts, NEW k \in Keys,
                        attrs'[c][k].cached.tag = "proxy"
                 PROVE  Resolving(jobs', stack', c, k)
      BY DEF ProxiesBelow, NoFailed
    <2>0. NoFailed(jobs)
      OBVIOUS
    <2>1. PICK n \in 2..Len(stack) :
             stack[n].on = c /\ stack[n].key = k /\ stack[n].job # 0
      <3>1. CASE c = Top.on /\ k = Top.key
        <4>1. Caching(c, k)
          BY <1>2 DEF PlaceInv, OnlySingletons, Nil
        <4> QED
          BY <1>2, <2>0, <3>1, <4>1
      <3>2. CASE ~(c = Top.on /\ k = Top.key)
        <4>1. attrs[c][k].cached.tag = "proxy"
          BY <1>2, <3>2
        <4>2. PICK n \in 1..Len(stack) :
                 stack[n].on = c /\ stack[n].key = k /\ stack[n].job # 0
          BY <2>0, <4>1 DEF PlaceInv, ProxiesBelow, Resolving, NoFailed
        <4>3. n \in 2..Len(stack)
          BY <1>0, <3>2, <4>2
        <4> QED
          BY <4>2, <4>3
      <3> QED
        BY <3>1, <3>2
    <2>2. jobs'[stack[n].job].status = "resolving"
      BY <2>1, BelowResolves
    <2>3. /\ n - d \in 1..Len(stack')
          /\ stack'[n - d].on = stack[n].on /\ stack'[n - d].key = stack[n].key
          /\ stack'[n - d].job = stack[n].job
      BY <1>1, ShiftedBack
    <2> QED
      BY <2>1, <2>2, <2>3 DEF Resolving
  <1> QED
    BY <1>3, <1>4, <1>5 DEF PlaceInv

LEMMA BeginPlace == ASSUME TypeOK, PlaceInv, Begin PROVE PlaceInv'
  <1>1. PICK c \in Contexts, k \in Keys :
           stack' = <<Call(c, k, [m \in Keys |-> Nil])>>
    BY DEF Begin
  <1>2. Len(stack') = 1 /\ \A m \in Keys : stack'[1].scratch[m] = Nil
    BY <1>1 DEF Call
  <1>3. ScratchBelow'
    BY <1>2 DEF ScratchBelow
  <1>4. /\ stack = <<>> /\ Len(stack) = 0 /\ UNCHANGED <<attrs, jobs>>
    BY DEF Begin
  <1>5. ProxiesBelow'
    BY <1>4 DEF PlaceInv, ProxiesBelow, Resolving
  <1>6. OnlySingletons'
    BY <1>4 DEF PlaceInv, OnlySingletons, Caching, Registered
  <1> QED
    BY <1>3, <1>5, <1>6 DEF PlaceInv

LEMMA InjectPlace == ASSUME TypeOK, PlaceInv, InjectNext PROVE PlaceInv'
  <1>1. /\ UNCHANGED <<attrs, jobs>>
        /\ Len(stack) \in Nat \ {0} /\ Top = stack[1]
        /\ Len(stack') = Len(stack) + 1
        /\ stack'[1].scratch = Top.scratch /\ stack'[1].on = Top.on
        /\ \A n \in 1..Len(stack) : stack'[n + 1] = stack[n]
        /\ \A n \in 1..Len(stack') : n # 1 =>
              n - 1 \in 1..Len(stack) /\ stack'[n] = stack[n - 1]
    BY InjectIs
  <1>2. OnlySingletons'
    BY <1>1 DEF PlaceInv, OnlySingletons, Caching, Registered
  <1>3. ASSUME NEW n \in 1..Len(stack), NEW c, NEW k, Below(stack, n, c, k)
        PROVE  Below(stack', n + 1, c, k) /\ Below(stack', 1, c, k)
    <2>1. PICK m \in n..Len(stack) : stack[m].on = c /\ stack[m].key = k /\ stack[m].job # 0
      BY <1>3 DEF Below
    <2>2. m \in 1..Len(stack) /\ m + 1 \in (n + 1)..Len(stack') /\ m + 1 \in 1..Len(stack')
      BY <1>1
    <2>3. stack'[m + 1] = stack[m]
      BY <1>1, <2>2
    <2> QED
      BY <2>1, <2>2, <2>3 DEF Below
  <1>4. ScratchBelow'
    <2> SUFFICES ASSUME NEW n \in 1..Len(stack'), NEW k \in Keys,
                        stack'[n].scratch[k] # Nil
                 PROVE  Below(stack', n, stack'[n].on, k)
      BY DEF ScratchBelow
    <2>1. CASE n = 1
      <3>1. 1 \in 1..Len(stack)
        BY <1>1
      <3>2. Below(stack, 1, Top.on, k)
        BY <1>1, <2>1, <3>1 DEF PlaceInv, ScratchBelow
      <3> QED
        BY <1>1, <1>3, <2>1, <3>1, <3>2
    <2>2. CASE n # 1
      <3>1. n - 1 \in 1..Len(stack) /\ stack'[n] = stack[n - 1] /\ (n - 1) + 1 = n
        BY <1>1, <2>2
      <3>2. Below(stack, n - 1, stack[n - 1].on, k)
        BY <3>1 DEF PlaceInv, ScratchBelow
      <3>3. Below(stack', (n - 1) + 1, stack[n - 1].on, k)
        BY <1>3, <3>1, <3>2
      <3> QED
        BY <3>1, <3>3
    <2> QED
      BY <2>1, <2>2
  <1>5. ASSUME NEW c \in Contexts, NEW k \in Keys, Resolving(jobs, stack, c, k)
        PROVE  Resolving(jobs', stack', c, k)
    <2>1. PICK n \in 1..Len(stack) :
             /\ stack[n].on = c /\ stack[n].key = k /\ stack[n].job # 0
             /\ jobs[stack[n].job].status = "resolving"
      BY <1>5 DEF Resolving
    <2>2. n + 1 \in 1..Len(stack') /\ stack'[n + 1] = stack[n]
      BY <1>1
    <2> QED
      BY <1>1, <2>1, <2>2 DEF Resolving
  <1>6. ProxiesBelow'
    BY <1>1, <1>5 DEF PlaceInv, ProxiesBelow
  <1> QED
    BY <1>2, <1>4, <1>6 DEF PlaceInv

LEMMA ConstructPlace == ASSUME TypeOK, AwaitInv, PlaceInv, Construct PROVE PlaceInv'
  <1>1. /\ stack # <<>> /\ Top.job = 0
        /\ attrs' = attrs /\ Top = stack[1] /\ Len(stack) \in Nat \ {0}
        /\ Len(stack') = Len(stack)
        /\ \A n \in 2..Len(stack) : stack'[n] = stack[n]
        /\ stack'[1].on = Top.on /\ stack'[1].key = Top.key
    BY ConstructIs
  <1>2. PICK j \in Jobs :
          /\ jobs[j].status = "free"
          /\ jobs'[j].status = "resolving"
          /\ \A i \in Jobs : i # j => jobs'[i] = jobs[i]
          /\ stack'[1].job = j
          /\ \A k \in Keys : stack'[1].scratch[k] =
                IF k = Top.key THEN Proxy(j) ELSE Top.scratch[k]
    BY ConstructIs
  <1>3. j # 0
    BY DEF Jobs
  <1>4. OnlySingletons'
    BY <1>1 DEF PlaceInv, OnlySingletons, Caching, Registered
  <1>5. ASSUME NEW n \in 1..Len(stack), NEW c, NEW k, Below(stack, n, c, k)
        PROVE  Below(stack', n, c, k)
    <2>1. PICK m \in n..Len(stack) : stack[m].on = c /\ stack[m].key = k /\ stack[m].job # 0
      BY <1>5 DEF Below
    <2>2. m \in 2..Len(stack)
      BY <1>1, <2>1
    <2> QED
      BY <1>1, <2>1, <2>2 DEF Below
  <1>6. ScratchBelow'
    <2> SUFFICES ASSUME NEW n \in 1..Len(stack'), NEW k \in Keys,
                        stack'[n].scratch[k] # Nil
                 PROVE  Below(stack', n, stack'[n].on, k)
      BY DEF ScratchBelow
    <2>1. CASE n = 1 /\ k = Top.key
      BY <1>1, <1>2, <1>3, <2>1 DEF Below
    <2>2. CASE n = 1 /\ k # Top.key
      <3>1. stack[1].scratch[k] # Nil
        BY <1>1, <1>2, <2>2
      <3>2. Below(stack, 1, Top.on, k)
        BY <1>1, <3>1 DEF PlaceInv, ScratchBelow
      <3> QED
        BY <1>1, <1>5, <2>2, <3>2
    <2>3. CASE n # 1
      <3>1. n \in 2..Len(stack) /\ n \in 1..Len(stack) /\ stack'[n] = stack[n]
        BY <1>1, <2>3
      <3> QED
        BY <1>5, <3>1 DEF PlaceInv, ScratchBelow
    <2> QED
      BY <2>1, <2>2, <2>3
  <1>7. ASSUME NEW c \in Contexts, NEW k \in Keys, Resolving(jobs, stack, c, k)
        PROVE  Resolving(jobs', stack', c, k)
    <2>1. PICK n \in 1..Len(stack) :
             /\ stack[n].on = c /\ stack[n].key = k /\ stack[n].job # 0
      BY <1>7 DEF Resolving
    <2>2. n \in 2..Len(stack) /\ n \in 1..Len(stack')
      BY <1>1, <2>1
    <2>3. stack[n].job \in Jobs /\ jobs[stack[n].job].status = "resolving"
      BY <1>1, <2>1, <2>2, BelowResolves
    <2>4. jobs'[stack[n].job].status = "resolving"
      BY <1>2, <2>3
    <2> QED
      BY <1>1, <2>1, <2>2, <2>4 DEF Resolving
  <1>8. NoFailed(jobs') => NoFailed(jobs)
    BY <1>2 DEF NoFailed
  <1>9. ProxiesBelow'
    BY <1>1, <1>7, <1>8 DEF PlaceInv, ProxiesBelow, NoFailed
  <1> QED
    BY <1>4, <1>6, <1>9 DEF PlaceInv

LEMMA UnwindPlace == ASSUME TypeOK, AwaitInv, PlaceInv, Unwind PROVE PlaceInv'
  <1>0. stack # <<>> /\ stack' = Tail(stack) /\ jobs' = Abandoned /\ attrs' = attrs
    BY DEF Unwind, TypeOK
  <1>1. /\ Len(stack) \in Nat \ {0} /\ Top = stack[1]
        /\ Len(stack') = Len(stack) - 1
        /\ \A n \in 1..Len(stack') : stack'[n] = stack[n + 1]
    BY <1>0, PopFrame DEF TypeOK, Top
  <1>2. OnlySingletons'
    BY <1>0 DEF PlaceInv, OnlySingletons, Caching, Registered
  <1>3. ScratchBelow'
    <2> SUFFICES ASSUME NEW n \in 1..Len(stack'), NEW k \in Keys,
                        stack'[n].scratch[k] # Nil
                 PROVE  Below(stack', n, stack'[n].on, k)
      BY DEF ScratchBelow
    <2>1. n + 1 \in 1..Len(stack) /\ stack'[n] = stack[n + 1]
      BY <1>1
    <2>2. PICK m \in (n + 1)..Len(stack) : /\ stack[m].on = stack[n + 1].on
                                           /\ stack[m].key = k /\ stack[m].job # 0
      BY <2>1 DEF PlaceInv, ScratchBelow, Below
    <2>3. m - 1 \in n..Len(stack') /\ m - 1 \in 1..Len(stack') /\ (m - 1) + 1 = m
      BY <1>1
    <2>4. stack'[m - 1] = stack[m]
      BY <1>1, <2>3
    <2> QED
      BY <2>1, <2>2, <2>3, <2>4 DEF Below
  <1>4. ASSUME NoFailed(jobs')
        PROVE  NoFailed(jobs) /\ \A i \in Jobs : jobs'[i].status = jobs[i].status
    BY <1>0, <1>4, AbandonedIs DEF NoFailed
  <1>5. ASSUME NoFailed(jobs'), NEW c \in Contexts, NEW k \in Keys,
               Resolving(jobs, stack, c, k)
        PROVE  Resolving(jobs', stack', c, k)
    <2>1. PICK n \in 1..Len(stack) :
             /\ stack[n].on = c /\ stack[n].key = k /\ stack[n].job # 0
             /\ jobs[stack[n].job].status = "resolving"
      BY <1>5 DEF Resolving
    <2>2. n # 1
      <3> SUFFICES ASSUME n = 1 PROVE FALSE
        OBVIOUS
      <3>1. Top.job \in Jobs /\ jobs[Top.job].status = "resolving"
        BY <1>0, <1>1, <2>1, TopAwait
      <3>2. Abandoned[Top.job].status = "failed"
        BY <1>0, <3>1, AbandonedIs
      <3> QED
        BY <1>0, <1>5, <3>1, <3>2 DEF NoFailed
    <2>3. n \in 2..Len(stack) /\ n - 1 \in 1..Len(stack') /\ (n - 1) + 1 = n
      BY <1>1, <2>2
    <2>4. stack'[n - 1] = stack[n]
      BY <1>1, <2>3
    <2>5. jobs'[stack[n].job].status = "resolving"
      BY <1>0, <1>4, <1>5, <2>1, <2>3, BelowResolves
    <2> QED
      BY <2>1, <2>3, <2>4, <2>5 DEF Resolving
  <1>6. ProxiesBelow'
    <2>1. ASSUME NoFailed(jobs'), NEW c \in Contexts, NEW k \in Keys,
                 attrs'[c][k].cached.tag = "proxy"
          PROVE  Resolving(jobs', stack', c, k)
      <3>1. Resolving(jobs, stack, c, k)
        BY <1>0, <1>4, <2>1 DEF PlaceInv, ProxiesBelow, NoFailed
      <3> QED
        BY <1>5, <2>1, <3>1
    <2> QED
      BY <2>1 DEF ProxiesBelow, NoFailed
  <1> QED
    BY <1>2, <1>3, <1>6 DEF PlaceInv

LEMMA WalkPlace == ASSUME TypeOK, TypeOK', AwaitInv, PlaceInv, SyncStep PROVE PlaceInv'
  <1>1. ASSUME NEW v \in Value, stack # <<>>, UNCHANGED jobs, Deliver(v), v.tag # "proxy"
        PROVE  PlaceInv'
    BY <1>1, EndPlace
  <1>2. CASE Missing
    <2>1. stack # <<>> /\ Deliver(Nil) /\ UNCHANGED jobs /\ Nil.tag # "proxy"
      BY <1>2 DEF Missing, Entered, Running, Nil
    <2> QED
      BY <1>1, <2>1, ValueTypes
  <1>3. ASSUME stack # <<>>, Top.job = 0, NEW m \in 1..Len(stack), stack[m].job # 0
        PROVE  m \in 2..Len(stack)
    BY <1>3, TopAwait
  <1>4. CASE ServeProxy
    <2>1. /\ stack # <<>> /\ UNCHANGED jobs /\ Deliver(Top.scratch[Top.key])
          /\ Top.job = 0 /\ Top.scratch[Top.key] # Nil
      BY <1>4 DEF ServeProxy, Entered, Running
    <2>2. Top.key \in Keys /\ Top.scratch[Top.key] \in Value
      BY <2>1, TopType DEF Frame
    <2>3. Below(stack, 1, Top.on, Top.key)
      BY <2>1, <2>2, TopAwait DEF PlaceInv, ScratchBelow
    <2>4. \E n \in 2..Len(stack) : /\ stack[n].on = Top.on
                                   /\ stack[n].key = Top.key /\ stack[n].job # 0
      BY <1>3, <2>1, <2>3 DEF Below
    <2> QED
      BY <2>1, <2>2, <2>4, EndPlace
  <1>5. CASE ServeCached
    <2>1. /\ stack # <<>> /\ UNCHANGED jobs /\ Top.job = 0
          /\ Deliver(attrs[Top.on][Top.key].cached)
      BY <1>5 DEF ServeCached, Entered, Running
    <2>2. /\ Top.on \in Contexts /\ Top.key \in Keys
          /\ attrs[Top.on][Top.key].cached \in Value
      BY <2>1, TopType DEF Frame, Attribute
    <2>3. ASSUME NoFailed(jobs), attrs[Top.on][Top.key].cached.tag = "proxy"
          PROVE  \E n \in 2..Len(stack) : /\ stack[n].on = Top.on
                                          /\ stack[n].key = Top.key /\ stack[n].job # 0
      <3>1. Resolving(jobs, stack, Top.on, Top.key)
        BY <2>2, <2>3 DEF PlaceInv, ProxiesBelow, NoFailed
      <3> QED
        BY <1>3, <2>1, <3>1 DEF Resolving
    <2> QED
      BY <2>1, <2>2, <2>3, EndPlace
  <1>6. CASE ThrowSync
    BY <1>6 DEF ThrowSync, PlaceInv, ScratchBelow, OnlySingletons, ProxiesBelow,
                Caching, Registered
  <1>7. CASE BuildSync \/ Launch
    <2>0. stack # <<>> /\ Top.job # 0 /\ ~throwing
      BY <1>7 DEF BuildSync, Launch, AllInjected, Constructing, Running
    <2>1. Top.job \in Jobs /\ jobs[Top.job].status = "resolving"
      BY <2>0, TopAwait
    <2>2. PICK s \in {"built", "awaiting"}, v \in {Nil, Object(Top.job), Promise(Top.job)} :
             /\ jobs' = [jobs EXCEPT ![Top.job].status = s, ![Top.job].args = Top.args]
             /\ Deliver(v)
      <3>1. ASSUME BuildSync
            PROVE  \E s \in {"built", "awaiting"},
                      v \in {Nil, Object(Top.job), Promise(Top.job)} :
                   /\ jobs' = [jobs EXCEPT ![Top.job].status = s, ![Top.job].args = Top.args]
                   /\ Deliver(v)
        BY <3>1 DEF BuildSync
      <3>2. ASSUME Launch
            PROVE  \E s \in {"built", "awaiting"},
                      v \in {Nil, Object(Top.job), Promise(Top.job)} :
                   /\ jobs' = [jobs EXCEPT ![Top.job].status = s, ![Top.job].args = Top.args]
                   /\ Deliver(v)
        BY <3>2 DEF Launch
      <3> QED
        BY <1>7, <3>1, <3>2
    <2>3. v \in Value /\ v.tag # "proxy"
      <3>1. v \in Value
        BY <2>1, <2>2, ValueTypes
      <3>2. v.tag # "proxy"
        BY <2>2 DEF Nil, Object, Promise
      <3> QED
        BY <3>1, <3>2
    <2>4. \A i \in Jobs : i # Top.job => jobs'[i] = jobs[i]
      BY <2>1, <2>2 DEF TypeOK
    <2>5. NoFailed(jobs') => NoFailed(jobs)
      BY <2>1, <2>4 DEF NoFailed
    <2> QED
      BY <2>0, <2>2, <2>3, <2>4, <2>5, EndPlace
  <1>8. CASE Catch
    <2>0. stack # <<>> /\ Top.job # 0 /\ jobs' = Abandoned /\ Deliver(Promise(Top.job))
      BY <1>8 DEF Catch, TypeOK
    <2>1. Promise(Top.job) \in Value /\ Promise(Top.job).tag # "proxy"
      BY <2>0, TopAwait, ValueTypes DEF Promise
    <2>2. \A i \in Jobs : i # Top.job => jobs'[i] = jobs[i]
      BY <2>0, AbandonedIs
    <2>3. NoFailed(jobs') => NoFailed(jobs)
      BY <2>0, AbandonedIs DEF NoFailed
    <2> QED
      BY <2>0, <2>1, <2>2, <2>3, EndPlace
  <1> QED
    BY <1>2, <1>4, <1>5, <1>6, <1>7, <1>8, BeginPlace, ConstructPlace, InjectPlace,
       UnwindPlace DEF SyncStep

LEMMA StepPlace == ASSUME TypeOK, TypeOK', AwaitInv, PlaceInv, [Next]_vars PROVE PlaceInv'
  <1>1. ASSUME stack = <<>>, stack' = <<>>, NoFailed(jobs') => NoFailed(jobs),
               \A c \in Contexts, k \in Keys :
                  \/ attrs'[c][k].cached = Nil
                  \/ \E d \in Contexts : attrs'[c][k] = attrs[d][k]
        PROVE  PlaceInv'
    <2>1. Len(stack) = 0 /\ Len(stack') = 0
      BY <1>1
    <2>2. ScratchBelow'
      BY <2>1 DEF ScratchBelow
    <2>3. OnlySingletons'
      BY <1>1 DEF PlaceInv, OnlySingletons, Caching, Registered
    <2>4. \A c \in Contexts, k \in Keys : NoFailed(jobs) => attrs[c][k].cached.tag # "proxy"
      BY <2>1 DEF PlaceInv, ProxiesBelow, Resolving, NoFailed
    <2>5. ProxiesBelow'
      BY <1>1, <2>4 DEF ProxiesBelow, NoFailed, Nil
    <2> QED
      BY <2>2, <2>3, <2>5 DEF PlaceInv
  <1>2. ASSUME UNCHANGED <<attrs, stack, jobs>>
        PROVE  PlaceInv'
    BY <1>2 DEF PlaceInv, ScratchBelow, OnlySingletons, ProxiesBelow, Caching, Registered
  <1>3. ASSUME NEW c \in Contexts, NEW k \in Keys, Register(c, k) \/ Provide(c, k)
        PROVE  PlaceInv'
    <2>1. stack = <<>> /\ UNCHANGED <<stack, jobs>>
      BY <1>3 DEF Register, Provide, Idle
    <2>2. \A x \in Contexts, m \in Keys :
             attrs'[x][m].cached = Nil \/ attrs'[x][m] = attrs[x][m]
      BY <1>3, CallCaches
    <2> QED
      BY <1>1, <2>1, <2>2
  <1>4. ASSUME NEW c \in Contexts, NEW d \in Contexts, Extend(c, d)
        PROVE  PlaceInv'
    <2>1. stack = <<>> /\ UNCHANGED <<stack, jobs>>
      BY <1>4 DEF Extend, Idle
    <2>2. \A x \in Contexts, m \in Keys :
             attrs'[x][m] = attrs[x][m] \/ attrs'[x][m] = attrs[d][m]
      BY <1>4, CallCaches
    <2> QED
      BY <1>1, <2>1, <2>2
  <1>5. ASSUME NEW j \in Jobs, Settle(j)
        PROVE  PlaceInv'
    <2>1. /\ stack = <<>> /\ stack' = <<>> /\ attrs' = attrs
          /\ jobs[j].status = "awaiting"
          /\ \A i \in Jobs : i # j => jobs'[i] = jobs[i]
      BY <1>5, SettleJobs
    <2>2. NoFailed(jobs') => NoFailed(jobs)
      BY <2>1 DEF NoFailed
    <2> QED
      BY <1>1, <2>1, <2>2
  <1>6. ASSUME NEW c \in Contexts, NEW k \in Keys, Resolve(c, k) \/ InitializeEager(c)
        PROVE  PlaceInv'
    BY <1>2, <1>6 DEF Resolve, InitializeEager
  <1>7. CASE Rest \/ UNCHANGED vars
    BY <1>2, <1>7 DEF Rest, vars
  <1>8. Keys # {}
    BY ContainerAssumption DEF ContainerAssumption
  <1> QED
    BY <1>3, <1>4, <1>5, <1>6, <1>7, <1>8, WalkPlace DEF Next

THEOREM PlaceInvAlways == Spec => []PlaceInv
  <1>1. Init => PlaceInv
    <2> SUFFICES ASSUME Init PROVE PlaceInv
      OBVIOUS
    <2>1. stack = <<>> /\ Len(stack) = 0
      BY DEF Init
    <2>2. \A c \in Contexts, k \in Keys : attrs[c][k].cached = Nil
      BY DEF Init, Unregistered
    <2> QED
      BY <2>1, <2>2 DEF PlaceInv, ScratchBelow, OnlySingletons, ProxiesBelow, Nil
  <1> QED
    BY <1>1, StepPlace, AwaitInvAlways, TypeCorrect, PTL DEF Spec

(* When nothing runs, nothing is pending and nothing has failed, no cache   *)
(* holds a placeholder and every placeholder that was injected has its      *)
(* target, for every dependency graph and every sequence of calls.          *)
THEOREM PlaceholdersAlways == Spec => []PlaceholdersResolved
  <1>1. TypeOK /\ MadeInv /\ PlaceInv => PlaceholdersResolved
    <2> SUFFICES ASSUME TypeOK, MadeInv, PlaceInv, Idle,
                        \A j \in Jobs : jobs[j].status \in {"free", "built"}
                 PROVE  /\ \A c \in Contexts, k \in Keys : attrs[c][k].cached.tag # "proxy"
                        /\ \A j \in Jobs : \A v \in Elems(jobs[j].args) :
                             v.tag = "proxy" => jobs[v.job].status = "built"
      BY DEF PlaceholdersResolved
    <2>1. stack = <<>> /\ Len(stack) = 0
      BY DEF Idle
    <2>2. ASSUME NEW c \in Contexts, NEW k \in Keys
          PROVE  attrs[c][k].cached.tag # "proxy"
      BY <2>1 DEF PlaceInv, ProxiesBelow, Resolving
    <2>3. ASSUME NEW j \in Jobs, NEW v \in Elems(jobs[j].args), v.tag = "proxy"
          PROVE  jobs[v.job].status = "built"
      <3>1. Made(jobs, v, jobs[j].on)
        BY DEF MadeInv, ArgsMade
      <3> QED
        BY <2>3, <3>1 DEF Made, Nil
    <2> QED
      BY <2>2, <2>3
  <1> QED
    BY <1>1, MadeInvAlways, PlaceInvAlways, TypeCorrect, PTL
-----------------------------------------------------------------------------
(* No cached value is stale.  FreshInv says that the constructions a        *)
(* context caches, injects or has on the stack lie in the largest set that  *)
(* is closed under what its members got injected and whose members went     *)
(* through registrations that are still in place.                           *)

LEMMA FreshClean ==
    ASSUME NEW as, NEW js, NEW c
    PROVE  /\ Fresh(as, js, c) \subseteq Jobs
           /\ Clean(as, js, c, Fresh(as, js, c))
           /\ \A S \in SUBSET Jobs : Clean(as, js, c, S) => S \subseteq Fresh(as, js, c)
  <1> DEFINE F == Fresh(as, js, c)
  <1>1. F \subseteq Jobs /\ \A S \in SUBSET Jobs : Clean(as, js, c, S) => S \subseteq F
    BY DEF Fresh
  <1>2. ASSUME NEW i \in F
        PROVE  /\ js[i].status # "free" /\ Current(as[c], js[i])
               /\ js[i].status = "resolving" => js[i].on = c
               /\ \A v \in Elems(js[i].args) :
                    v = Nil \/ (v.job \in F /\ js[v.job].key \in js[i].needs)
    <2>1. PICK S \in SUBSET Jobs : Clean(as, js, c, S) /\ i \in S
      BY <1>2 DEF Fresh
    <2>2. S \subseteq F
      BY <1>1, <2>1
    <2> HIDE DEF F
    <2> QED
      BY <2>1, <2>2 DEF Clean
  <1> QED
    BY <1>1, <1>2 DEF Clean

(* Steps of the walk and of the event loop register nothing.                *)
SameRegs(as, bs) ==
    \A c \in Contexts, k \in Keys : bs[c][k].reg = as[c][k].reg
                                    /\ bs[c][k].recipe = as[c][k].recipe

LEMMA CurrentStays ==
    ASSUME NEW as, NEW bs, SameRegs(as, bs), NEW c \in Contexts, NEW job \in Job,
           Current(as[c], job)
    PROVE  Current(bs[c], job)
  <1>1. job.key \in Keys /\ job.needs \subseteq Keys
    BY DEF Job
  <1>2. Injects(bs[c], job.key) = Injects(as[c], job.key)
    <2>1. bs[c][job.key].reg = as[c][job.key].reg
          /\ bs[c][job.key].recipe = as[c][job.key].recipe
      BY <1>1 DEF SameRegs
    <2> QED
      BY <2>1, Zenon DEF Injects
  <1>3. \A m \in job.needs \cup {job.key} : bs[c][m].reg = as[c][m].reg
    BY <1>1 DEF SameRegs
  <1> QED
    BY <1>2, <1>3 DEF Current

(* A construction keeps what it went through, and gets its arguments once.  *)
Continued(i, js, ks) ==
    /\ ks[i].status # "free" /\ (ks[i].status = "resolving" => js[i].status = "resolving")
    /\ ks[i].on = js[i].on /\ ks[i].key = js[i].key
    /\ ks[i].needs = js[i].needs /\ ks[i].seen = js[i].seen

LEMMA FreshStays ==
    ASSUME TypeOK, NEW bs, NEW ks, SameRegs(attrs, bs),
           \A i \in Jobs : jobs[i].status # "free" => Continued(i, jobs, ks),
           NEW c \in Contexts,
           \A i \in Fresh(attrs, jobs, c) : ks[i].args = jobs[i].args
              \/ \A v \in Elems(ks[i].args) : Holds(attrs, jobs, c, v, jobs[i].needs)
    PROVE  Fresh(attrs, jobs, c) \subseteq Fresh(bs, ks, c)
  <1> DEFINE F == Fresh(attrs, jobs, c)
  <1>1. F \subseteq Jobs /\ Clean(attrs, jobs, c, F)
    BY FreshClean
  <1>2. ASSUME NEW i \in F
        PROVE  /\ ks[i].status # "free" /\ Current(bs[c], ks[i])
               /\ ks[i].status = "resolving" => ks[i].on = c
               /\ \A v \in Elems(ks[i].args) :
                    v = Nil \/ (v.job \in F /\ ks[v.job].key \in ks[i].needs)
    <2>1. /\ jobs[i].status # "free" /\ Current(attrs[c], jobs[i])
          /\ jobs[i].status = "resolving" => jobs[i].on = c
          /\ \A v \in Elems(jobs[i].args) :
               v = Nil \/ (v.job \in F /\ jobs[v.job].key \in jobs[i].needs)
      BY <1>1 DEF Clean
    <2>2. Continued(i, jobs, ks) /\ jobs[i] \in Job
      BY <1>1, <2>1 DEF TypeOK
    <2>3. \A p \in F : ks[p].key = jobs[p].key
      BY <1>1 DEF Clean, Continued
    <2>4. Current(bs[c], jobs[i])
      BY <2>1, <2>2, CurrentStays
    <2>5. Current(bs[c], ks[i])
      BY <2>2, <2>4 DEF Current, Continued
    <2>6. ASSUME NEW v \in Elems(ks[i].args)
          PROVE  v = Nil \/ (v.job \in F /\ jobs[v.job].key \in jobs[i].needs)
      BY <1>2, <2>1, <2>6 DEF Holds
    <2> HIDE DEF F
    <2> QED
      BY <2>1, <2>2, <2>3, <2>5, <2>6 DEF Continued
  <1>3. Clean(bs, ks, c, F)
    BY <1>2 DEF Clean
  <1> QED
    BY <1>1, <1>3, FreshClean

LEMMA HoldsStays ==
    ASSUME NEW bs, NEW ks, NEW c, Fresh(attrs, jobs, c) \subseteq Fresh(bs, ks, c),
           \A i \in Jobs : jobs[i].status # "free" => Continued(i, jobs, ks),
           NEW v, NEW keys, Holds(attrs, jobs, c, v, keys)
    PROVE  Holds(bs, ks, c, v, keys)
  <1>1. CASE v = Nil
    BY <1>1 DEF Holds
  <1>2. CASE v # Nil
    <2>1. v.job \in Fresh(attrs, jobs, c) /\ jobs[v.job].key \in keys
      BY <1>2 DEF Holds
    <2>2. v.job \in Jobs /\ jobs[v.job].status # "free"
      BY <2>1, FreshClean DEF Clean
    <2> QED
      BY <2>1, <2>2 DEF Holds, Continued
  <1> QED
    BY <1>1, <1>2

LEMMA FreshFrameStays ==
    ASSUME NEW bs, NEW ks, NEW f, NEW g,
           Fresh(attrs, jobs, f.on) \subseteq Fresh(bs, ks, f.on),
           \A i \in Jobs : jobs[i].status # "free" => Continued(i, jobs, ks),
           FreshFrame(attrs, jobs, f),
           g.on = f.on, g.key = f.key, g.job = f.job, g.scratch = f.scratch,
           IF f.job = 0 THEN g.args = <<>>
           ELSE \A v \in Elems(g.args) : v \in Elems(f.args)
                         \/ Holds(attrs, jobs, f.on, v, jobs[f.job].needs)
    PROVE  FreshFrame(bs, ks, g)
  <1>1. \A k \in Keys : Holds(bs, ks, f.on, g.scratch[k], {k})
    BY HoldsStays DEF FreshFrame
  <1>2. CASE f.job = 0
    BY <1>1, <1>2 DEF FreshFrame
  <1>3. CASE f.job # 0
    <2>1. /\ f.job \in Fresh(attrs, jobs, f.on) /\ jobs[f.job].key = f.key
          /\ \A v \in Elems(f.args) : Holds(attrs, jobs, f.on, v, jobs[f.job].needs)
      BY <1>3 DEF FreshFrame
    <2>2. f.job \in Jobs /\ jobs[f.job].status # "free"
      BY <2>1, FreshClean DEF Clean
    <2>3. /\ f.job \in Fresh(bs, ks, f.on) /\ ks[f.job].key = f.key
          /\ ks[f.job].needs = jobs[f.job].needs
      BY <2>1, <2>2 DEF Continued
    <2>4. ASSUME NEW v \in Elems(g.args)
          PROVE  Holds(bs, ks, f.on, v, ks[f.job].needs)
      <3>1. Holds(attrs, jobs, f.on, v, jobs[f.job].needs)
        BY <1>3, <2>1, <2>4
      <3> QED
        BY <2>3, <3>1, HoldsStays
    <2> QED
      BY <1>1, <1>3, <2>3, <2>4 DEF FreshFrame
  <1> QED
    BY <1>2, <1>3

(* A job on the stack is among the constructions its context knows fresh.   *)
LEMMA StackFresh ==
    ASSUME TypeOK, MadeInv, FreshInv, NEW n \in 1..Len(stack), stack[n].job # 0
    PROVE  /\ stack[n] \in Frame /\ stack[n].on \in Contexts /\ stack[n].key \in Keys
           /\ stack[n].job \in Jobs /\ jobs[stack[n].job].status # "free"
           /\ stack[n].job \in Fresh(attrs, jobs, stack[n].on)
           /\ jobs[stack[n].job].key = stack[n].key /\ jobs[stack[n].job].on = stack[n].on
           /\ Registered(stack[n].on, stack[n].key)
           /\ jobs[stack[n].job].needs = Injects(attrs[stack[n].on], stack[n].key)
  <1>1. stack[n] \in Frame /\ stack[n].on \in Contexts /\ stack[n].key \in Keys
    <2>1. stack[n] \in Frame
      BY DEF TypeOK
    <2> QED
      BY <2>1 DEF Frame
  <1>2. FreshFrame(attrs, jobs, stack[n]) /\ FrameMade(jobs, stack[n])
    BY DEF FreshInv, FreshFrames, MadeInv, FramesMade
  <1>3. /\ stack[n].job \in Fresh(attrs, jobs, stack[n].on)
        /\ jobs[stack[n].job].key = stack[n].key /\ jobs[stack[n].job].on = stack[n].on
    BY <1>2 DEF FreshFrame, FrameMade
  <1>4. /\ stack[n].job \in Jobs /\ jobs[stack[n].job].status # "free"
        /\ Current(attrs[stack[n].on], jobs[stack[n].job])
    BY <1>3, FreshClean DEF Clean
  <1> QED
    BY <1>1, <1>3, <1>4 DEF Current, Registered

(* A call of _resolveValue returns v, or is refused.                        *)
LEMMA EndFresh ==
    ASSUME TypeOK, TypeOK', AwaitInv, MadeInv, FreshInv, stack # <<>>,
           NEW v \in Value, Deliver(v),
           Holds(attrs, jobs, Top.on, v, {Top.key}),
           \A i \in Jobs : jobs[i].status # "free" => Continued(i, jobs, jobs'),
           \A i \in Jobs : i # Top.job => jobs'[i] = jobs[i],
           \A i \in Jobs : \/ jobs'[i].args = jobs[i].args
                           \/ /\ i = Top.job /\ jobs'[i].args = Top.args
                              /\ jobs[i].status = "resolving",
           Top.job # 0 => jobs'[Top.job].status # "resolving"
    PROVE  FreshInv'
  <1>0. /\ Len(stack) \in Nat \ {0} /\ Top = stack[1] /\ 1 \in 1..Len(stack)
        /\ Top.on \in Contexts /\ Top.key \in Keys
        /\ Top.job # 0 => Top.job \in Jobs
        /\ \A n \in 1..Len(stack) : stack[n] \in Frame /\ stack[n].on = Top.on
    <2>1. Top.on \in Contexts /\ Top.key \in Keys
      BY TopType DEF Frame
    <2>2. stack \in Seq(Frame) /\ Len(stack) \in Nat \ {0}
      BY PopFrame DEF TypeOK
    <2>3. Top = stack[1] /\ 1 \in 1..Len(stack) /\ (Top.job # 0 => Top.job \in Jobs)
      BY TopAwait
    <2>4. \A n \in 1..Len(stack) : stack[n].on = Top.on
      BY <2>3 DEF MadeInv, FramesMade
    <2> QED
      BY <2>1, <2>2, <2>3, <2>4
  <1>1. PICK d \in {0, 1} : Shifted(stack, stack', d, v)
    BY DeliverStack
  <1>2. SameRegs(attrs, attrs')
    BY DeliverCaches DEF SameRegs
  <1>3. \A n \in 1..Len(stack) : FreshFrame(attrs, jobs, stack[n])
    BY DEF FreshInv, FreshFrames
  <1>4. ASSUME NEW c \in Contexts
        PROVE  Fresh(attrs, jobs, c) \subseteq Fresh(attrs', jobs', c)
    <2>1. ASSUME NEW i \in Fresh(attrs, jobs, c), jobs'[i].args # jobs[i].args,
                 NEW w \in Elems(jobs'[i].args)
          PROVE  Holds(attrs, jobs, c, w, jobs[i].needs)
      <3>1. /\ i \in Jobs /\ i # 0
            /\ jobs[i].status = "resolving" => jobs[i].on = c
        BY FreshClean DEF Clean, Jobs
      <3>2. i = Top.job /\ jobs'[i].args = Top.args /\ jobs[i].status = "resolving"
        BY <2>1, <3>1
      <3>3. Top.on = c
        BY <1>0, <3>1, <3>2, StackFresh
      <3> QED
        BY <1>0, <1>3, <2>1, <3>1, <3>2, <3>3 DEF FreshFrame
    <2> QED
      BY <1>2, <2>1, FreshStays
  <1>5. FreshCaches'
    <2> SUFFICES ASSUME NEW c \in Contexts, NEW k \in Keys
                 PROVE  Holds(attrs', jobs', c, attrs'[c][k].cached, {k})
      BY DEF FreshCaches
    <2>1. \/ c = Top.on /\ k = Top.key /\ attrs'[c][k].cached = v
          \/ attrs'[c][k].cached = attrs[c][k].cached
      BY DeliverCaches
    <2>2. Holds(attrs, jobs, c, attrs'[c][k].cached, {k})
      BY <2>1 DEF FreshInv, FreshCaches
    <2> QED
      BY <1>4, <2>2, HoldsStays
  <1>6. ASSUME NEW n \in 1..Len(stack')
        PROVE  FreshFrame(attrs', jobs', stack'[n])
    <2> DEFINE f == stack[n + d]
               g == stack'[n]
    <2>1. /\ n + d \in 1..Len(stack)
          /\ g.on = f.on /\ g.key = f.key /\ g.job = f.job /\ g.scratch = f.scratch
          /\ Elems(g.args) \subseteq Elems(f.args) \cup {v}
          /\ (n # 1 \/ d = 0) => g = f
      BY <1>1, <1>6 DEF Shifted
    <2>2. FreshFrame(attrs, jobs, f) /\ f.on \in Contexts
      BY <1>0, <1>3, <2>1
    <2>3. Fresh(attrs, jobs, f.on) \subseteq Fresh(attrs', jobs', f.on)
      BY <1>4, <2>2
    <2>4. IF f.job = 0 THEN g.args = <<>>
          ELSE \A w \in Elems(g.args) : w \in Elems(f.args)
                        \/ Holds(attrs, jobs, f.on, w, jobs[f.job].needs)
      <3>1. CASE n # 1 \/ d = 0
        BY <2>1, <2>2, <3>1 DEF FreshFrame
      <3>2. CASE n = 1 /\ d = 1
        <4>1. 2 \in 2..Len(stack) /\ f = stack[2]
          BY <2>1, <3>2
        <4>2. f.job # 0 /\ Top.key \in jobs[f.job].needs /\ f.on = Top.on
          BY <1>0, <4>1 DEF FreshInv, FreshFrames
        <4>3. Holds(attrs, jobs, f.on, v, jobs[f.job].needs)
          BY <4>2 DEF Holds
        <4> QED
          BY <2>1, <4>2, <4>3
      <3> QED
        BY <3>1, <3>2
    <2> HIDE DEF f, g
    <2>5. FreshFrame(attrs', jobs', g)
      BY <2>1, <2>2, <2>3, <2>4, FreshFrameStays
    <2> QED
      BY <2>5 DEF g
  <1>7. ASSUME NEW n \in 2..Len(stack')
        PROVE  stack'[n].job # 0 /\ stack'[n - 1].key \in jobs'[stack'[n].job].needs
    <2>1. n \in 1..Len(stack') /\ n - 1 \in 1..Len(stack')
      BY <1>7
    <2>2. /\ n + d \in 1..Len(stack) /\ stack'[n].job = stack[n + d].job
          /\ (n - 1) + d \in 1..Len(stack) /\ stack'[n - 1].key = stack[(n - 1) + d].key
      BY <1>1, <2>1 DEF Shifted
    <2>3. n + d \in 2..Len(stack) /\ (n - 1) + d = (n + d) - 1
      BY <2>2
    <2>4. stack[n + d].job # 0 /\ stack[(n + d) - 1].key \in jobs[stack[n + d].job].needs
      BY <2>3 DEF FreshInv, FreshFrames
    <2>5. Continued(stack[n + d].job, jobs, jobs')
      BY <2>2, <2>4, StackFresh
    <2> QED
      BY <2>2, <2>3, <2>4, <2>5 DEF Continued
  <1>8. ResolvingOnStack'
    <2> SUFFICES ASSUME NEW j \in Jobs, jobs'[j].status = "resolving"
                 PROVE  \E n \in 1..Len(stack') : stack'[n].job = j
      BY DEF ResolvingOnStack
    <2>1. j # Top.job /\ jobs[j].status = "resolving"
      <3>1. j # 0
        BY DEF Jobs
      <3> QED
        BY <3>1
    <2>2. PICK n \in 1..Len(stack) : stack[n].job = j
      BY <2>1 DEF FreshInv, ResolvingOnStack
    <2>3. n \in 2..Len(stack)
      BY <1>0, <2>1, <2>2
    <2> QED
      BY <1>1, <2>2, <2>3, ShiftedBack
  <1> QED
    BY <1>5, <1>6, <1>7, <1>8 DEF FreshInv, FreshFrames

LEMMA BeginFresh == ASSUME TypeOK, FreshInv, Begin PROVE FreshInv'
  <1>1. PICK c \in Contexts, k \in Keys :
           stack' = <<Call(c, k, [m \in Keys |-> Nil])>>
    BY DEF Begin
  <1> DEFINE f == Call(c, k, [m \in Keys |-> Nil])
  <1>2. f.job = 0 /\ f.args = <<>> /\ \A m \in Keys : f.scratch[m] = Nil
    BY DEF Call
  <1> HIDE DEF f
  <1>3. Len(stack') = 1 /\ stack'[1] = f
    BY <1>1 DEF f
  <1>4. stack = <<>> /\ Len(stack) = 0 /\ UNCHANGED <<attrs, jobs>>
    BY DEF Begin
  <1>5. FreshFrame(attrs', jobs', f)
    BY <1>2 DEF FreshFrame, Holds
  <1>6. FreshFrames'
    BY <1>3, <1>5 DEF FreshFrames
  <1>7. FreshCaches'
    BY <1>4 DEF FreshInv, FreshCaches
  <1>8. ResolvingOnStack'
    BY <1>4 DEF FreshInv, ResolvingOnStack
  <1> QED
    BY <1>6, <1>7, <1>8 DEF FreshInv

LEMMA InjectFresh == ASSUME TypeOK, MadeInv, FreshInv, InjectNext PROVE FreshInv'
  <1>1. /\ jobs' = jobs /\ attrs' = attrs
        /\ Len(stack) \in Nat \ {0} /\ Top = stack[1] /\ 1 \in 1..Len(stack)
        /\ Len(stack') = Len(stack) + 1
        /\ stack'[1].job = 0 /\ stack'[1].args = <<>>
        /\ stack'[1].scratch = Top.scratch /\ stack'[1].on = Top.on
        /\ stack'[1].key \in Elems(InjectList)
        /\ \A n \in 1..Len(stack') : n # 1 =>
              n - 1 \in 1..Len(stack) /\ stack'[n] = stack[n - 1]
    BY InjectIs
  <1>2. Top.job # 0
    BY DEF InjectNext, Constructing
  <1>3. \A n \in 1..Len(stack) : FreshFrame(attrs, jobs, stack[n])
    BY DEF FreshInv, FreshFrames
  <1>4. FreshFrame(attrs, jobs, stack'[1])
    <2>1. FreshFrame(attrs, jobs, Top)
      BY <1>1, <1>3
    <2> QED
      BY <1>1, <2>1 DEF FreshFrame
  <1>5. ASSUME NEW n \in 1..Len(stack')
        PROVE  FreshFrame(attrs', jobs', stack'[n])
    BY <1>1, <1>3, <1>4
  <1>6. ASSUME NEW n \in 2..Len(stack')
        PROVE  stack'[n].job # 0 /\ stack'[n - 1].key \in jobs'[stack'[n].job].needs
    <2>1. n \in 1..Len(stack') /\ n # 1 /\ n - 1 \in 1..Len(stack')
      BY <1>1, <1>6
    <2>2. n - 1 \in 1..Len(stack) /\ stack'[n] = stack[n - 1]
      BY <1>1, <2>1
    <2>3. CASE n = 2
      <3>1. stack'[n] = Top /\ n - 1 = 1
        BY <1>1, <2>2, <2>3
      <3>2. jobs[Top.job].needs = Elems(InjectList)
        <4>1. /\ Registered(Top.on, Top.key)
              /\ jobs[Top.job].needs = Injects(attrs[Top.on], Top.key)
          BY <1>1, <1>2, StackFresh
        <4> QED
          BY <4>1 DEF Injects, Registered, InjectList
      <3> QED
        BY <1>1, <1>2, <3>1, <3>2
    <2>4. CASE n # 2
      <3>1. n - 1 \in 2..Len(stack) /\ n - 1 # 1
        BY <2>2, <2>4
      <3>2. stack'[n - 1] = stack[(n - 1) - 1]
        BY <1>1, <2>1, <3>1
      <3> QED
        BY <1>1, <2>2, <3>1, <3>2 DEF FreshInv, FreshFrames
    <2> QED
      BY <2>3, <2>4
  <1>7. FreshFrames'
    BY <1>5, <1>6 DEF FreshFrames
  <1>8. FreshCaches'
    BY <1>1 DEF FreshInv, FreshCaches
  <1>9. ResolvingOnStack'
    <2> SUFFICES ASSUME NEW j \in Jobs, jobs'[j].status = "resolving"
                 PROVE  \E n \in 1..Len(stack') : stack'[n].job = j
      BY DEF ResolvingOnStack
    <2>1. PICK n \in 1..Len(stack) : stack[n].job = j
      BY <1>1 DEF FreshInv, ResolvingOnStack
    <2>2. n + 1 \in 1..Len(stack') /\ n + 1 # 1 /\ (n + 1) - 1 = n
      BY <1>1
    <2> QED
      BY <1>1, <2>1, <2>2
  <1> QED
    BY <1>7, <1>8, <1>9 DEF FreshInv

LEMMA ConstructFresh ==
    ASSUME TypeOK, TypeOK', MadeInv, FreshInv, Construct PROVE FreshInv'
  <1>1. /\ Top.job = 0 /\ attrs' = attrs
        /\ Len(stack) \in Nat \ {0} /\ Top = stack[1] /\ 1 \in 1..Len(stack)
        /\ Len(stack') = Len(stack)
        /\ \A n \in 1..Len(stack) : stack[n] \in Frame
        /\ \A n \in 2..Len(stack) : stack'[n] = stack[n]
        /\ stack'[1].args = Top.args
        /\ stack'[1].on = Top.on /\ stack'[1].key = Top.key
    BY ConstructIs
  <1>2. PICK j \in Jobs :
          /\ jobs[j].status = "free"
          /\ jobs'[j].status = "resolving" /\ jobs'[j].args = <<>>
          /\ jobs'[j].on = Top.on /\ jobs'[j].key = Top.key
          /\ Registered(Top.on, Top.key)
          /\ jobs'[j].needs = Injects(attrs[Top.on], Top.key)
          /\ \A m \in Keys : jobs'[j].seen[m] = attrs[Top.on][m].reg
          /\ \A i \in Jobs : i # j => jobs'[i] = jobs[i]
          /\ stack'[1].job = j
          /\ \A k \in Keys : stack'[1].scratch[k] =
                IF k = Top.key THEN Proxy(j) ELSE Top.scratch[k]
    BY ConstructIs
  <1>3. j # 0 /\ Top.on \in Contexts /\ Top.key \in Keys
    BY <1>1 DEF Jobs, Frame
  <1>4. \A i \in Jobs : jobs[i].status # "free" => Continued(i, jobs, jobs')
    BY <1>2 DEF Continued
  <1>5. ASSUME NEW c \in Contexts
        PROVE  Fresh(attrs, jobs, c) \subseteq Fresh(attrs', jobs', c)
    <2>1. SameRegs(attrs, attrs')
      BY <1>1 DEF SameRegs
    <2>2. \A i \in Fresh(attrs, jobs, c) : jobs'[i].args = jobs[i].args
      BY <1>2, FreshClean DEF Clean
    <2> QED
      BY <1>4, <2>1, <2>2, FreshStays
  <1>6. j \in Fresh(attrs', jobs', Top.on)
    <2>1. jobs'[j].needs \subseteq Keys
      BY DEF TypeOK, Job
    <2>2. Current(attrs'[Top.on], jobs'[j])
      BY <1>1, <1>2, <1>3, <2>1 DEF Current, Registered
    <2>3. Clean(attrs', jobs', Top.on, {j})
      BY <1>2, <2>2 DEF Clean, Elems
    <2> QED
      BY <2>3, FreshClean
  <1>7. \A n \in 1..Len(stack) : FreshFrame(attrs, jobs, stack[n]) /\ stack[n].on \in Contexts
    BY <1>1 DEF FreshInv, FreshFrames, Frame
  <1>8. FreshFrame(attrs', jobs', stack'[1])
    <2>1. FreshFrame(attrs, jobs, Top) /\ Top.args = <<>>
      BY <1>1, <1>7 DEF FreshFrame
    <2>2. ASSUME NEW k \in Keys
          PROVE  Holds(attrs', jobs', Top.on, stack'[1].scratch[k], {k})
      <3>1. CASE k = Top.key
        BY <1>2, <1>6, <3>1 DEF Holds, Proxy
      <3>2. CASE k # Top.key
        <4>1. Holds(attrs, jobs, Top.on, Top.scratch[k], {k})
          BY <2>1 DEF FreshFrame
        <4> QED
          BY <1>2, <1>3, <1>4, <1>5, <3>2, <4>1, HoldsStays
      <3> QED
        BY <3>1, <3>2
    <2>3. stack'[1].args = <<>> /\ Elems(stack'[1].args) = {}
      BY <1>1, <2>1 DEF Elems
    <2>4. /\ stack'[1].job # 0 /\ stack'[1].job \in Fresh(attrs', jobs', stack'[1].on)
          /\ jobs'[stack'[1].job].key = stack'[1].key
      BY <1>1, <1>2, <1>3, <1>6
    <2>5. \A k \in Keys : Holds(attrs', jobs', stack'[1].on, stack'[1].scratch[k], {k})
      BY <1>1, <2>2
    <2> QED
      BY <2>3, <2>4, <2>5 DEF FreshFrame
  <1>9. ASSUME NEW n \in 1..Len(stack')
        PROVE  FreshFrame(attrs', jobs', stack'[n])
    <2>1. CASE n = 1
      BY <1>8, <2>1
    <2>2. CASE n # 1
      <3>1. n \in 2..Len(stack) /\ n \in 1..Len(stack) /\ stack'[n] = stack[n]
        BY <1>1, <2>2
      <3>2. FreshFrame(attrs, jobs, stack[n]) /\ stack[n].on \in Contexts
        BY <1>7, <3>1
      <3>3. IF stack[n].job = 0 THEN stack[n].args = <<>>
            ELSE \A v \in Elems(stack[n].args) : v \in Elems(stack[n].args)
                    \/ Holds(attrs, jobs, stack[n].on, v, jobs[stack[n].job].needs)
        BY <3>2 DEF FreshFrame
      <3>4. FreshFrame(attrs', jobs', stack[n])
        BY <1>4, <1>5, <3>2, <3>3, FreshFrameStays
      <3> QED
        BY <3>1, <3>4
    <2> QED
      BY <2>1, <2>2
  <1>10. ASSUME NEW n \in 2..Len(stack')
         PROVE  stack'[n].job # 0 /\ stack'[n - 1].key \in jobs'[stack'[n].job].needs
    <2>1. n \in 2..Len(stack) /\ n \in 1..Len(stack) /\ n - 1 \in 1..Len(stack)
      BY <1>1, <1>10
    <2>2. stack[n].job # 0 /\ stack[n - 1].key \in jobs[stack[n].job].needs
      BY <2>1 DEF FreshInv, FreshFrames
    <2>3. Continued(stack[n].job, jobs, jobs')
      BY <1>4, <2>1, <2>2, StackFresh
    <2>4. stack'[n] = stack[n]
      BY <1>1, <2>1
    <2>5. stack'[n - 1].key = stack[n - 1].key
      <3>1. n - 1 = 1 \/ n - 1 \in 2..Len(stack)
        BY <2>1
      <3> QED
        BY <1>1, <3>1
    <2> QED
      BY <2>2, <2>3, <2>4, <2>5 DEF Continued
  <1>11. FreshFrames'
    BY <1>9, <1>10 DEF FreshFrames
  <1>12. FreshCaches'
    <2> SUFFICES ASSUME NEW c \in Contexts, NEW k \in Keys
                 PROVE  Holds(attrs', jobs', c, attrs'[c][k].cached, {k})
      BY DEF FreshCaches
    <2>1. Holds(attrs, jobs, c, attrs[c][k].cached, {k})
      BY DEF FreshInv, FreshCaches
    <2> QED
      BY <1>1, <1>4, <1>5, <2>1, HoldsStays
  <1>13. ResolvingOnStack'
    <2> SUFFICES ASSUME NEW i \in Jobs, jobs'[i].status = "resolving"
                 PROVE  \E n \in 1..Len(stack') : stack'[n].job = i
      BY DEF ResolvingOnStack
    <2>1. CASE i = j
      BY <1>1, <1>2, <2>1
    <2>2. CASE i # j
      <3>1. PICK n \in 1..Len(stack) : stack[n].job = i
        BY <1>2, <2>2 DEF FreshInv, ResolvingOnStack
      <3>2. n \in 2..Len(stack) /\ n \in 1..Len(stack')
        <4>1. i # 0
          BY DEF Jobs
        <4> QED
          BY <1>1, <3>1, <4>1
      <3> QED
        BY <1>1, <3>1, <3>2
    <2> QED
      BY <2>1, <2>2
  <1> QED
    BY <1>11, <1>12, <1>13 DEF FreshInv

LEMMA AbandonedContinues ==
    ASSUME TypeOK, AwaitInv, stack # <<>>, jobs' = Abandoned
    PROVE  /\ \A i \in Jobs : jobs[i].status # "free" => Continued(i, jobs, jobs')
           /\ \A i \in Jobs : jobs'[i].args = jobs[i].args
           /\ \A i \in Jobs : i # Top.job => jobs'[i] = jobs[i]
           /\ Top.job # 0 => jobs'[Top.job].status # "resolving"
  <1>1. \A i \in Jobs : /\ jobs[i].status # "free" => Continued(i, jobs, jobs')
                        /\ jobs'[i].args = jobs[i].args
                        /\ i # Top.job => jobs'[i] = jobs[i]
    BY AbandonedIs DEF Continued
  <1>2. ASSUME Top.job # 0 PROVE jobs'[Top.job].status # "resolving"
    BY <1>2, TopAwait, AbandonedIs
  <1> QED
    BY <1>1, <1>2

LEMMA UnwindFresh == ASSUME TypeOK, AwaitInv, MadeInv, FreshInv, Unwind PROVE FreshInv'
  <1>0. stack # <<>> /\ stack' = Tail(stack) /\ jobs' = Abandoned /\ attrs' = attrs
    BY DEF Unwind, TypeOK
  <1>1. /\ Len(stack) \in Nat \ {0} /\ Top = stack[1]
        /\ Len(stack') = Len(stack) - 1
        /\ \A n \in 1..Len(stack') : stack'[n] = stack[n + 1]
    BY <1>0, PopFrame DEF TypeOK, Top
  <1>2. /\ \A i \in Jobs : jobs[i].status # "free" => Continued(i, jobs, jobs')
        /\ \A i \in Jobs : jobs'[i].args = jobs[i].args
        /\ \A i \in Jobs : i # Top.job => jobs'[i] = jobs[i]
        /\ Top.job # 0 => jobs'[Top.job].status # "resolving"
    BY <1>0, AbandonedContinues
  <1>3. ASSUME NEW c \in Contexts
        PROVE  Fresh(attrs, jobs, c) \subseteq Fresh(attrs', jobs', c)
    <2>1. SameRegs(attrs, attrs')
      BY <1>0 DEF SameRegs
    <2>2. \A i \in Fresh(attrs, jobs, c) : jobs'[i].args = jobs[i].args
      BY <1>2, FreshClean
    <2> QED
      BY <1>2, <2>1, <2>2, FreshStays
  <1>4. ASSUME NEW n \in 1..Len(stack')
        PROVE  FreshFrame(attrs', jobs', stack'[n])
    <2>1. n + 1 \in 1..Len(stack) /\ stack'[n] = stack[n + 1]
      BY <1>1
    <2>2. FreshFrame(attrs, jobs, stack[n + 1]) /\ stack[n + 1].on \in Contexts
      <3>1. stack[n + 1] \in Frame
        BY <2>1 DEF TypeOK
      <3> QED
        BY <2>1, <3>1 DEF FreshInv, FreshFrames, Frame
    <2> DEFINE f == stack[n + 1]
    <2>3. IF f.job = 0 THEN f.args = <<>>
          ELSE \A v \in Elems(f.args) : v \in Elems(f.args)
                        \/ Holds(attrs, jobs, f.on, v, jobs[f.job].needs)
      BY <2>2 DEF FreshFrame
    <2> HIDE DEF f
    <2>4. FreshFrame(attrs', jobs', f)
      <3>1. FreshFrame(attrs, jobs, f) /\ f.on \in Contexts
        BY <2>2 DEF f
      <3> QED
        BY <1>2, <1>3, <2>3, <3>1, FreshFrameStays
    <2> QED
      BY <2>1, <2>4 DEF f
  <1>5. ASSUME NEW n \in 2..Len(stack')
        PROVE  stack'[n].job # 0 /\ stack'[n - 1].key \in jobs'[stack'[n].job].needs
    <2>1. /\ n \in 1..Len(stack') /\ n - 1 \in 1..Len(stack') /\ (n - 1) + 1 = n
          /\ n + 1 \in 2..Len(stack) /\ n + 1 \in 1..Len(stack) /\ (n + 1) - 1 = n
      BY <1>1
    <2>2. stack'[n] = stack[n + 1] /\ stack'[n - 1] = stack[n]
      BY <1>1, <2>1
    <2>3. stack[n + 1].job # 0 /\ stack[n].key \in jobs[stack[n + 1].job].needs
      BY <2>1 DEF FreshInv, FreshFrames
    <2>4. Continued(stack[n + 1].job, jobs, jobs')
      BY <1>2, <2>1, <2>3, StackFresh
    <2> QED
      BY <2>2, <2>3, <2>4 DEF Continued
  <1>6. FreshFrames'
    BY <1>4, <1>5 DEF FreshFrames
  <1>7. FreshCaches'
    <2> SUFFICES ASSUME NEW c \in Contexts, NEW k \in Keys
                 PROVE  Holds(attrs', jobs', c, attrs'[c][k].cached, {k})
      BY DEF FreshCaches
    <2>1. Holds(attrs, jobs, c, attrs[c][k].cached, {k})
      BY DEF FreshInv, FreshCaches
    <2> QED
      BY <1>0, <1>2, <1>3, <2>1, HoldsStays
  <1>8. ResolvingOnStack'
    <2> SUFFICES ASSUME NEW j \in Jobs, jobs'[j].status = "resolving"
                 PROVE  \E n \in 1..Len(stack') : stack'[n].job = j
      BY DEF ResolvingOnStack
    <2>1. j # Top.job /\ jobs[j].status = "resolving"
      <3>1. j # 0
        BY DEF Jobs
      <3> QED
        BY <1>2, <3>1
    <2>2. PICK n \in 1..Len(stack) : stack[n].job = j
      BY <2>1 DEF FreshInv, ResolvingOnStack
    <2>3. n - 1 \in 1..Len(stack') /\ (n - 1) + 1 = n
      BY <1>1, <2>1, <2>2
    <2> QED
      BY <1>1, <2>2, <2>3
  <1> QED
    BY <1>6, <1>7, <1>8 DEF FreshInv

LEMMA WalkFresh ==
    ASSUME TypeOK, TypeOK', AwaitInv, MadeInv, FreshInv, SyncStep PROVE FreshInv'
  <1>1. ASSUME NEW v \in Value, stack # <<>>, Top.job = 0, UNCHANGED jobs, Deliver(v),
               Holds(attrs, jobs, Top.on, v, {Top.key})
        PROVE  FreshInv'
    <2>1. \A i \in Jobs : jobs[i].status # "free" => Continued(i, jobs, jobs')
      BY <1>1 DEF Continued
    <2> QED
      BY <1>1, <2>1, EndFresh
  <1>2. CASE Missing
    <2>1. stack # <<>> /\ Top.job = 0 /\ Deliver(Nil) /\ UNCHANGED jobs
      BY <1>2 DEF Missing, Entered, Running
    <2>2. Holds(attrs, jobs, Top.on, Nil, {Top.key})
      BY DEF Holds
    <2> QED
      BY <1>1, <2>1, <2>2, ValueTypes
  <1>3. CASE ServeProxy
    <2>1. /\ stack # <<>> /\ Top.job = 0 /\ UNCHANGED jobs
          /\ Deliver(Top.scratch[Top.key])
      BY <1>3 DEF ServeProxy, Entered, Running
    <2>2. Top.key \in Keys /\ Top.scratch[Top.key] \in Value
      BY <2>1, TopType DEF Frame
    <2>3. Holds(attrs, jobs, Top.on, Top.scratch[Top.key], {Top.key})
      <3>1. FreshFrame(attrs, jobs, Top)
        BY <2>1, TopAwait DEF FreshInv, FreshFrames
      <3> QED
        BY <2>2, <3>1 DEF FreshFrame
    <2> QED
      BY <1>1, <2>1, <2>2, <2>3
  <1>4. CASE ServeCached
    <2>1. /\ stack # <<>> /\ Top.job = 0 /\ UNCHANGED jobs
          /\ Deliver(attrs[Top.on][Top.key].cached)
      BY <1>4 DEF ServeCached, Entered, Running
    <2>2. /\ Top.on \in Contexts /\ Top.key \in Keys
          /\ attrs[Top.on][Top.key].cached \in Value
      BY <2>1, TopType DEF Frame, Attribute
    <2>3. Holds(attrs, jobs, Top.on, attrs[Top.on][Top.key].cached, {Top.key})
      BY <2>2 DEF FreshInv, FreshCaches
    <2> QED
      BY <1>1, <2>1, <2>2, <2>3
  <1>5. CASE ThrowSync
    <2>1. attrs' = attrs /\ jobs' = jobs /\ stack' = stack
      BY <1>5 DEF ThrowSync
    <2> QED
      BY <2>1 DEF FreshInv, FreshCaches, FreshFrames, ResolvingOnStack
  <1>6. CASE BuildSync \/ Launch
    <2>0. stack # <<>> /\ Top.job # 0 /\ ~throwing
      BY <1>6 DEF BuildSync, Launch, AllInjected, Constructing, Running
    <2>1. /\ Top.job \in Jobs /\ jobs[Top.job].status = "resolving"
          /\ Top = stack[1] /\ 1 \in 1..Len(stack) /\ jobs[Top.job] \in Job
      BY <2>0, TopAwait DEF TypeOK
    <2>2. PICK s \in {"built", "awaiting"}, v \in {Nil, Object(Top.job), Promise(Top.job)} :
             /\ jobs' = [jobs EXCEPT ![Top.job].status = s, ![Top.job].args = Top.args]
             /\ Deliver(v)
      <3>1. ASSUME BuildSync
            PROVE  \E s \in {"built", "awaiting"},
                      v \in {Nil, Object(Top.job), Promise(Top.job)} :
                   /\ jobs' = [jobs EXCEPT ![Top.job].status = s, ![Top.job].args = Top.args]
                   /\ Deliver(v)
        BY <3>1 DEF BuildSync
      <3>2. ASSUME Launch
            PROVE  \E s \in {"built", "awaiting"},
                      v \in {Nil, Object(Top.job), Promise(Top.job)} :
                   /\ jobs' = [jobs EXCEPT ![Top.job].status = s, ![Top.job].args = Top.args]
                   /\ Deliver(v)
        BY <3>2 DEF Launch
      <3> QED
        BY <1>6, <3>1, <3>2
    <2>3. v \in Value
      BY <2>1, <2>2, ValueTypes
    <2>4. \A i \in Jobs : i # Top.job => jobs'[i] = jobs[i]
      BY <2>1, <2>2 DEF TypeOK
    <2>5. /\ jobs'[Top.job].status = s /\ jobs'[Top.job].args = Top.args
          /\ jobs'[Top.job].on = jobs[Top.job].on /\ jobs'[Top.job].key = jobs[Top.job].key
          /\ jobs'[Top.job].needs = jobs[Top.job].needs
          /\ jobs'[Top.job].seen = jobs[Top.job].seen
      BY <2>1, <2>2 DEF TypeOK, Job
    <2>6. \A i \in Jobs : jobs[i].status # "free" => Continued(i, jobs, jobs')
      BY <2>2, <2>4, <2>5 DEF Continued
    <2>7. Holds(attrs, jobs, Top.on, v, {Top.key})
      <3>1. v = Nil \/ v.job = Top.job
        BY <2>2 DEF Object, Promise
      <3>2. Top.job \in Fresh(attrs, jobs, Top.on) /\ jobs[Top.job].key = Top.key
        BY <2>0, <2>1, StackFresh
      <3> QED
        BY <3>1, <3>2 DEF Holds
    <2>8. \A i \in Jobs : \/ jobs'[i].args = jobs[i].args
                          \/ /\ i = Top.job /\ jobs'[i].args = Top.args
                             /\ jobs[i].status = "resolving"
      BY <2>1, <2>4, <2>5
    <2>9. jobs'[Top.job].status # "resolving"
      BY <2>2, <2>5
    <2> QED
      BY <2>0, <2>2, <2>3, <2>4, <2>6, <2>7, <2>8, <2>9, EndFresh
  <1>7. CASE Catch
    <2>0. stack # <<>> /\ Top.job # 0 /\ jobs' = Abandoned /\ Deliver(Promise(Top.job))
      BY <1>7 DEF Catch, TypeOK
    <2>1. Top.job \in Jobs /\ Top = stack[1] /\ 1 \in 1..Len(stack)
      BY <2>0, TopAwait
    <2>2. Promise(Top.job) \in Value
      BY <2>1, ValueTypes
    <2>3. Holds(attrs, jobs, Top.on, Promise(Top.job), {Top.key})
      <3>1. Top.job \in Fresh(attrs, jobs, Top.on) /\ jobs[Top.job].key = Top.key
        BY <2>0, <2>1, StackFresh
      <3> QED
        BY <3>1 DEF Holds, Promise
    <2>4. /\ \A i \in Jobs : jobs[i].status # "free" => Continued(i, jobs, jobs')
          /\ \A i \in Jobs : jobs'[i].args = jobs[i].args
          /\ \A i \in Jobs : i # Top.job => jobs'[i] = jobs[i]
          /\ jobs'[Top.job].status # "resolving"
      BY <2>0, AbandonedContinues
    <2> QED
      BY <2>0, <2>2, <2>3, <2>4, EndFresh
  <1> QED
    BY <1>2, <1>3, <1>4, <1>5, <1>6, <1>7, BeginFresh, ConstructFresh, InjectFresh,
       UnwindFresh DEF SyncStep

(* getAllDependents is closed: a key that injects a dependent is one.        *)
LEMMA DependentsClosed ==
    ASSUME NEW as, NEW k, NEW n \in Keys,
           Injects(as, n) \cap (Dependents(as, k) \cup {k}) # {}
    PROVE  n \in Dependents(as, k)
  <1> DEFINE closed(S) == \A x \in Keys : Injects(as, x) \cap (S \cup {k}) # {} => x \in S
  <1>1. ASSUME NEW S \in SUBSET Keys, closed(S) PROVE n \in S
    <2>1. Dependents(as, k) \subseteq S
      BY <1>1 DEF Dependents
    <2> QED
      BY <1>1, <2>1
  <1> QED
    BY <1>1 DEF Dependents

(* What is fresh in a context depends on its own attributes only.           *)
LEMMA FreshElsewhere ==
    ASSUME NEW as, NEW bs, NEW js, NEW c, as[c] = bs[c]
    PROVE  Fresh(as, js, c) = Fresh(bs, js, c)
  BY DEF Fresh, Clean

(* Between calls it is enough to look at the caches.                        *)
LEMMA IdleFresh ==
    ASSUME stack' = <<>>, \A j \in Jobs : jobs'[j].status # "resolving", FreshCaches'
    PROVE  FreshInv'
  <1>1. Len(stack') = 0
    OBVIOUS
  <1> QED
    BY <1>1 DEF FreshInv, FreshFrames, ResolvingOnStack

LEMMA IdleResolvesNothing ==
    ASSUME FreshInv, stack = <<>>
    PROVE  \A j \in Jobs : jobs[j].status # "resolving"
  <1>1. Len(stack) = 0
    OBVIOUS
  <1> QED
    BY <1>1 DEF FreshInv, ResolvingOnStack

(* Registering a key takes what went through it, or through a dependent of  *)
(* it, out of the caches.                                                   *)
LEMMA RegisterFresh ==
    ASSUME TypeOK, FreshInv, NEW c \in Contexts, NEW k \in Keys, Register(c, k)
    PROVE  FreshInv'
  <1>1. PICK r \in Registers[c][k] :
           attrs' = [attrs EXCEPT ![c] = Invalidate(c, k, AddDep(c, k, r))]
    BY DEF Register
  <1> DEFINE old == attrs[c]
             add == AddDep(c, k, r)
             new == Invalidate(c, k, add)
             D == IF Registered(c, k) THEN Dependents(add, k) \cup {k} ELSE {}
             F == Fresh(attrs, jobs, c)
             S == {i \in F : jobs[i].key \notin D}
  <1>2. stack = <<>> /\ stack' = <<>> /\ jobs' = jobs /\ nextReg # 0
    BY DEF Register, Idle, TypeOK
  <1>3. attrs'[c] = new /\ \A x \in Contexts : x # c => attrs'[x] = attrs[x]
    BY <1>1 DEF TypeOK
  <1>4. \A m \in Keys : add[m] = IF m = k THEN [reg |-> nextReg, recipe |-> r, cached |-> Nil]
                                          ELSE old[m]
    BY DEF AddDep, TypeOK
  <1>5. ASSUME NEW m \in Keys
        PROVE  /\ new[m].reg = add[m].reg /\ new[m].recipe = add[m].recipe
               /\ new[m].cached = Nil \/ (new[m].cached = old[m].cached /\ m \notin D)
    <2>1. add[m] \in [reg : {nextReg} \cup (0..MaxRegs), recipe : {r} \cup Recipe,
                      cached : Value]
      <3>1. old[m] \in Attribute /\ Nil \in Value
        BY ValueTypes DEF TypeOK
      <3>2. m = k \/ add[m] = old[m]
        BY <1>4
      <3>3. m = k => add[m] = [reg |-> nextReg, recipe |-> r, cached |-> Nil]
        BY <1>4
      <3> HIDE DEF add, old
      <3> QED
        BY <3>1, <3>2, <3>3 DEF Attribute
    <2>2. CASE Registered(c, k) /\ m \in Dependents(add, k)
      <3>1. new[m] = [add[m] EXCEPT !.cached = Nil]
        BY <2>2 DEF Invalidate
      <3> HIDE DEF add, new
      <3> QED
        BY <2>1, <3>1
    <2>3. CASE ~(Registered(c, k) /\ m \in Dependents(add, k))
      <3>1. new[m] = add[m]
        BY <2>3 DEF Invalidate
      <3>2. m = k => add[m].cached = Nil
        BY <1>4
      <3>3. m # k => m \notin D /\ add[m] = old[m]
        BY <1>4, <2>3
      <3> HIDE DEF add, new, D, old
      <3> QED
        BY <3>1, <3>2, <3>3
    <2> QED
      BY <2>2, <2>3
  <1>6. new[k].reg # 0 /\ \A m \in Keys : m # k => new[m].reg = old[m].reg
                                                   /\ new[m].recipe = old[m].recipe
    <2>1. new[k].reg = nextReg
      BY <1>4, <1>5
    <2>2. \A m \in Keys : m # k => add[m] = old[m]
      BY <1>4
    <2> HIDE DEF add, new, old
    <2> QED
      BY <1>2, <1>5, <2>1, <2>2
  <1>7. \A m \in Keys : m # k => Injects(new, m) = Injects(old, m)
    <2> SUFFICES ASSUME NEW m \in Keys, m # k PROVE Injects(new, m) = Injects(old, m)
      OBVIOUS
    <2>1. new[m].reg = old[m].reg /\ new[m].recipe = old[m].recipe
      BY <1>6
    <2> HIDE DEF new, old
    <2> QED
      BY <2>1, Zenon DEF Injects
  <1>8. ASSUME NEW m \in Keys, m # k, m \notin D
        PROVE  Injects(new, m) \cap D = {}
    <2>1. Injects(new, m) = Injects(add, m)
      <3>1. new[m].reg = add[m].reg /\ new[m].recipe = add[m].recipe
        BY <1>5
      <3> HIDE DEF new, add
      <3> QED
        BY <3>1, Zenon DEF Injects
    <2> HIDE DEF new, add
    <2> QED
      BY <1>8, <2>1, DependentsClosed
  <1> HIDE DEF add, new, D, old
  <1>9. k \in D \/ ~Registered(c, k)
    BY DEF D
  <1>10. ASSUME NEW i \in S
         PROVE  /\ jobs[i].status # "free" /\ Current(new, jobs[i])
                /\ \A v \in Elems(jobs[i].args) :
                     v = Nil \/ (v.job \in S /\ jobs[v.job].key \in jobs[i].needs)
    <2>1. /\ i \in Jobs /\ jobs[i].status # "free" /\ Current(old, jobs[i])
          /\ \A v \in Elems(jobs[i].args) :
               v = Nil \/ (v.job \in F /\ jobs[v.job].key \in jobs[i].needs)
          /\ jobs[i].key \notin D
      BY FreshClean DEF Clean, old
    <2>2. /\ jobs[i].key \in Keys /\ jobs[i].needs \subseteq Keys
          /\ \A m \in Keys : jobs[i].seen[m] \in 0..MaxRegs
      <3>1. jobs[i] \in Job
        BY <2>1 DEF TypeOK
      <3> QED
        BY <3>1 DEF Job
    <2>3. jobs[i].key # k
      BY <1>9, <2>1 DEF Current, Registered, old
    <2>4. jobs[i].needs \cap D = {} /\ jobs[i].needs = Injects(new, jobs[i].key)
      BY <1>7, <1>8, <2>1, <2>2, <2>3 DEF Current
    <2>5. ASSUME NEW m \in jobs[i].needs \cup {jobs[i].key}
          PROVE  jobs[i].seen[m] \in {0, new[m].reg}
      <3>1. jobs[i].seen[m] \in {0, old[m].reg} /\ m \in Keys
        BY <2>1, <2>2 DEF Current
      <3>2. CASE m = k
        <4>1. ~Registered(c, k)
          BY <1>9, <2>1, <2>4, <3>2
        <4> QED
          BY <3>1, <3>2, <4>1 DEF Registered, old
      <3>3. CASE m # k
        BY <1>6, <3>1, <3>3
      <3> QED
        BY <3>2, <3>3
    <2>6. Current(new, jobs[i])
      <3>1. new[jobs[i].key].reg # 0
        BY <1>6, <2>1, <2>2, <2>3 DEF Current
      <3> QED
        BY <2>4, <2>5, <3>1 DEF Current
    <2>7. ASSUME NEW v \in Elems(jobs[i].args), v # Nil
          PROVE  v.job \in S /\ jobs[v.job].key \in jobs[i].needs
      BY <2>1, <2>4, <2>7
    <2> QED
      BY <2>1, <2>6, <2>7
  <1>11. S \subseteq Fresh(attrs', jobs', c)
    <2>1. \A j \in Jobs : jobs[j].status # "resolving"
      BY <1>2, IdleResolvesNothing
    <2>2. S \subseteq Jobs
      BY FreshClean
    <2> HIDE DEF S
    <2>3. Clean(attrs', jobs', c, S)
      BY <1>2, <1>3, <1>10, <2>1, <2>2 DEF Clean
    <2> QED
      BY <2>2, <2>3, FreshClean
  <1>12. ASSUME NEW x \in Contexts, NEW m \in Keys
         PROVE  Holds(attrs', jobs', x, attrs'[x][m].cached, {m})
    <2>1. Holds(attrs, jobs, x, attrs[x][m].cached, {m})
      BY DEF FreshInv, FreshCaches
    <2>2. CASE x # c
      <3>1. attrs'[x] = attrs[x] /\ Fresh(attrs', jobs', x) = Fresh(attrs, jobs, x)
        <4>1. attrs'[x] = attrs[x]
          BY <1>3, <2>2
        <4> QED
          BY <1>2, <4>1, FreshElsewhere
      <3> QED
        BY <1>2, <2>1, <3>1 DEF Holds
    <2>3. CASE x = c /\ attrs'[c][m].cached = Nil
      BY <2>3 DEF Holds
    <2>4. CASE x = c /\ attrs'[c][m].cached # Nil
      <3>1. attrs'[c][m].cached = attrs[c][m].cached /\ m \notin D
        BY <1>3, <1>5, <2>4 DEF old
      <3>2. attrs[c][m].cached.job \in F /\ jobs[attrs[c][m].cached.job].key = m
        BY <2>1, <2>4, <3>1 DEF Holds
      <3>3. attrs[c][m].cached.job \in S
        BY <3>1, <3>2
      <3> QED
        BY <1>2, <1>11, <2>4, <3>1, <3>2, <3>3 DEF Holds
    <2> QED
      BY <2>2, <2>3, <2>4
  <1>13. \A j \in Jobs : jobs'[j].status # "resolving"
    BY <1>2, IdleResolvesNothing
  <1>14. FreshCaches'
    BY <1>12 DEF FreshCaches
  <1> QED
    BY <1>2, <1>13, <1>14, IdleFresh

(* A context that has registered nothing takes over the registrations of    *)
(* the one it extends, with the values made by them.                        *)
LEMMA ExtendFresh ==
    ASSUME TypeOK, PlaceInv, FreshInv, ~Merging,
           NEW c \in Contexts, NEW d \in Contexts, Extend(c, d)
    PROVE  FreshInv'
  <1>1. /\ stack = <<>> /\ stack' = <<>> /\ jobs' = jobs
        /\ \A k \in Keys : ~Registered(c, k)
    BY DEF Extend, Idle
  <1>2. \A x \in Contexts : x # c => attrs'[x] = attrs[x]
    BY DEF Extend, TypeOK
  <1>3. \A k \in Keys : attrs'[c][k] = IF Registered(d, k) THEN attrs[d][k] ELSE attrs[c][k]
    BY DEF Extend, TypeOK
  <1>4. ASSUME NEW k \in Keys
        PROVE  attrs'[c][k].reg = attrs[d][k].reg
               /\ Injects(attrs'[c], k) = Injects(attrs[d], k)
    <2>1. CASE Registered(d, k)
      <3>1. attrs'[c][k] = attrs[d][k]
        BY <1>3, <2>1
      <3> QED
        BY <3>1 DEF Injects
    <2>2. CASE ~Registered(d, k)
      <3>1. attrs'[c][k].reg = 0 /\ attrs[d][k].reg = 0
        BY <1>1, <1>3, <2>2 DEF Registered
      <3> QED
        BY <3>1 DEF Injects
    <2> QED
      BY <2>1, <2>2
  <1>5. \A j \in Jobs : jobs[j].status # "resolving"
    BY <1>1, IdleResolvesNothing
  <1>6. Fresh(attrs, jobs, d) \subseteq Fresh(attrs', jobs', c)
    <2> DEFINE F == Fresh(attrs, jobs, d)
    <2>1. F \subseteq Jobs /\ Clean(attrs, jobs, d, F)
      BY FreshClean
    <2> HIDE DEF F
    <2>2. ASSUME NEW i \in F
          PROVE  Current(attrs'[c], jobs[i])
      <3>1. Current(attrs[d], jobs[i]) /\ jobs[i] \in Job
        BY <2>1 DEF Clean, TypeOK
      <3>2. jobs[i].key \in Keys /\ jobs[i].needs \subseteq Keys
        BY <3>1 DEF Job
      <3> QED
        BY <1>4, <3>1, <3>2 DEF Current
    <2>3. Clean(attrs', jobs', c, F)
      BY <1>1, <1>5, <2>1, <2>2 DEF Clean
    <2> QED
      BY <2>1, <2>3, FreshClean DEF F
  <1>7. ASSUME NEW x \in Contexts, NEW k \in Keys
        PROVE  Holds(attrs', jobs', x, attrs'[x][k].cached, {k})
    <2>1. CASE x # c
      <3>1. attrs'[x] = attrs[x]
        BY <1>2, <2>1
      <3>2. Fresh(attrs', jobs', x) = Fresh(attrs, jobs, x)
        BY <1>1, <3>1, FreshElsewhere
      <3>3. Holds(attrs, jobs, x, attrs[x][k].cached, {k})
        BY DEF FreshInv, FreshCaches
      <3> QED
        BY <1>1, <3>1, <3>2, <3>3 DEF Holds
    <2>2. CASE x = c /\ Registered(d, k)
      <3>1. Holds(attrs, jobs, d, attrs[d][k].cached, {k})
        BY DEF FreshInv, FreshCaches
      <3>2. attrs'[x][k].cached = attrs[d][k].cached
        BY <1>3, <2>2
      <3> QED
        BY <1>1, <1>6, <2>2, <3>1, <3>2 DEF Holds
    <2>3. CASE x = c /\ ~Registered(d, k)
      <3>1. attrs'[x][k].cached = attrs[c][k].cached
        BY <1>3, <2>3
      <3>2. attrs[c][k].cached = Nil
        BY <1>1 DEF PlaceInv, OnlySingletons, Caching
      <3> QED
        BY <3>1, <3>2 DEF Holds
    <2> QED
      BY <2>1, <2>2, <2>3
  <1>8. FreshCaches'
    BY <1>7 DEF FreshCaches
  <1> QED
    BY <1>1, <1>5, <1>8, IdleFresh

(* A promise that settles leaves registrations and arguments alone.         *)
LEMMA SettleFresh ==
    ASSUME TypeOK, FreshInv, NEW j \in Jobs, Settle(j)
    PROVE  FreshInv'
  <1>1. /\ stack = <<>> /\ stack' = <<>> /\ attrs' = attrs
        /\ jobs[j].status = "awaiting" /\ jobs'[j].status \in {"built", "failed"}
        /\ \A i \in Jobs : i # j => jobs'[i] = jobs[i]
        /\ jobs'[j].on = jobs[j].on /\ jobs'[j].args = jobs[j].args
        /\ jobs'[j].key = jobs[j].key /\ jobs'[j].needs = jobs[j].needs
        /\ jobs'[j].seen = jobs[j].seen
    BY SettleJobs
  <1>2. \A i \in Jobs : jobs[i].status # "free" => Continued(i, jobs, jobs')
    BY <1>1 DEF Continued
  <1>3. \A i \in Jobs : jobs'[i].args = jobs[i].args /\ jobs'[i].status # "resolving"
    BY <1>1, IdleResolvesNothing
  <1>4. ASSUME NEW c \in Contexts
        PROVE  Fresh(attrs, jobs, c) \subseteq Fresh(attrs', jobs', c)
    <2>1. SameRegs(attrs, attrs')
      BY <1>1 DEF SameRegs
    <2>2. \A i \in Fresh(attrs, jobs, c) : jobs'[i].args = jobs[i].args
      BY <1>3, FreshClean
    <2> QED
      BY <1>2, <2>1, <2>2, FreshStays
  <1>5. FreshCaches'
    <2> SUFFICES ASSUME NEW c \in Contexts, NEW k \in Keys
                 PROVE  Holds(attrs', jobs', c, attrs'[c][k].cached, {k})
      BY DEF FreshCaches
    <2>1. Holds(attrs, jobs, c, attrs[c][k].cached, {k})
      BY DEF FreshInv, FreshCaches
    <2> QED
      BY <1>1, <1>2, <1>4, <2>1, HoldsStays
  <1> QED
    BY <1>1, <1>3, <1>5, IdleFresh

LEMMA StepFresh ==
    ASSUME Provides = {}, ~Merging,
           TypeOK, TypeOK', AwaitInv, MadeInv, PlaceInv, FreshInv, [Next]_vars
    PROVE  FreshInv'
  <1>1. ASSUME UNCHANGED <<attrs, stack, jobs>>
        PROVE  FreshInv'
    BY <1>1 DEF FreshInv, FreshCaches, FreshFrames, ResolvingOnStack
  <1>2. ASSUME NEW c \in Contexts, NEW k \in Keys,
               Resolve(c, k) \/ Provide(c, k) \/ InitializeEager(c)
        PROVE  FreshInv'
    BY <1>1, <1>2 DEF Resolve, Provide, InitializeEager
  <1>3. CASE Rest \/ UNCHANGED vars
    BY <1>1, <1>3 DEF Rest, vars
  <1>4. Keys # {}
    BY ContainerAssumption DEF ContainerAssumption
  <1> QED
    BY <1>2, <1>3, <1>4, RegisterFresh, ExtendFresh, SettleFresh, WalkFresh DEF Next

(* The closed sets of fresh constructions are invariant.                    *)
THEOREM FreshInvAlways ==
    ASSUME Provides = {}, ~Merging
    PROVE  Spec => []FreshInv
  <1>1. Init => FreshInv
    <2> SUFFICES ASSUME Init PROVE FreshInv
      OBVIOUS
    <2>1. stack = <<>> /\ Len(stack) = 0 /\ \A j \in Jobs : jobs[j].status = "free"
      BY DEF Init, NoJob
    <2>2. \A c \in Contexts, k \in Keys : attrs[c][k].cached = Nil
      BY DEF Init, Unregistered
    <2> QED
      BY <2>1, <2>2 DEF FreshInv, FreshCaches, FreshFrames, ResolvingOnStack, Holds
  <1>2. TypeOK /\ TypeOK' /\ AwaitInv /\ MadeInv /\ PlaceInv /\ FreshInv /\ [Next]_vars
          => FreshInv'
    BY StepFresh
  <1> QED
    BY <1>1, <1>2, TypeCorrect, AwaitInvAlways, MadeInvAlways, PlaceInvAlways, PTL
       DEF Spec

(* Whatever is registered again, and through whichever chain it was         *)
(* injected, nothing made by its previous registration stays cached, for    *)
(* every dependency graph.  Keys are registered by register and not by      *)
(* provide, and a context is extended before it is populated: provide       *)
(* (line 338) and extend (line 890) invalidate nothing.                    *)
THEOREM CacheFreshAlways ==
    ASSUME Provides = {}, ~Merging
    PROVE  Spec => []CacheFresh
  <1>1. FreshInv => CacheFresh
    <2> SUFFICES ASSUME FreshInv, NEW c \in Contexts, NEW k \in Keys,
                        attrs[c][k].cached # Nil,
                        NEW i \in Parts(attrs[c][k].cached.job),
                        NEW m \in jobs[i].needs \cup {jobs[i].key}
                 PROVE  jobs[i].seen[m] \in {0, attrs[c][m].reg}
      BY DEF CacheFresh, Replaced
    <2> DEFINE F == Fresh(attrs, jobs, c)
    <2>1. attrs[c][k].cached.job \in F
      BY DEF FreshInv, FreshCaches, Holds
    <2>2. F \subseteq Jobs /\ Clean(attrs, jobs, c, F)
      BY FreshClean
    <2> HIDE DEF F
    <2>3. \A p \in F : ArgJobs(p) \subseteq F
      BY <2>2 DEF Clean, ArgJobs, Nil
    <2>4. i \in F
      BY <2>1, <2>2, <2>3, PartsClosed
    <2> QED
      BY <2>2, <2>4 DEF Clean, Current
  <1> QED
    BY <1>1, FreshInvAlways, PTL

-----------------------------------------------------------------------------
(* In a dependency graph without circles, singletons are not exchanged and  *)
(* are shared.  StableInv says that what a cached singleton got injected is *)
(* what the caches hold, unless something in it is outdated or failed, and  *)
(* that what is under construction replaces nothing but such a value.       *)

(* What key k may be registered with.                                       *)
Recipes(k) ==
    {ValueRecipe} \cup {boot[k] : boot \in {b \in Boots : k \in DOMAIN b}}
                  \cup UNION {Registers[c][k] : c \in Contexts}

Ranks(rank) ==
    \A k \in Keys : \A r \in Recipes(k) : \A m \in Elems(r.inject) : rank[m] < rank[k]

(* No key injects itself, directly or through others; what is cached is     *)
(* never undefined.                                                         *)
Layered == \E rank \in [Keys -> Nat] : Ranks(rank)

Solid == \A k \in Keys : \A r \in Recipes(k) : r.mode # "transient" => r.yields = "object"

(* Construction i has not failed, and went through registrations of context *)
(* c that are still in place; the constructions for which this holds of all *)
(* that they were built from.                                               *)
Unspoilt(as, js, c, i) ==
    /\ js[i].status # "failed"
    /\ \A m \in js[i].needs \cup {js[i].key} : js[i].seen[m] = as[c][m].reg

AllIntact(as, js, c, S) ==
    \A i \in S : /\ Unspoilt(as, js, c, i)
                 /\ \A v \in Elems(js[i].args) : v = Nil \/ v.job \in S

Intact(as, js, c) == UNION {S \in SUBSET Jobs : AllIntact(as, js, c, S)}

AttrsKnown ==
    \A c \in Contexts, k \in Keys :
       attrs[c][k].recipe \in Recipes(k) /\ attrs[c][k].reg < nextReg

JobsKnown ==
    \A j \in Jobs :
       /\ jobs[j].status # "free" => \A m \in Keys : jobs[j].seen[m] < nextReg
       /\ jobs[j].status = "resolving" => jobs[j].args = <<>>

Of(as, js, c, k, j) == js[j].key = k /\ js[j].needs = Injects(as[c], k)

KeyedAt(as, js, c, k) ==
    LET v == as[c][k].cached
    IN  v # Nil => js[v.job].status \in Out /\ Of(as, js, c, k, v.job)

CachesKeyed == \A c \in Contexts, k \in Keys : KeyedAt(attrs, jobs, c, k)

(* The arguments are what context c caches for the keys that k injects. *)
Single(as, c, m) == as[c][m].reg # 0 /\ as[c][m].recipe.mode \in {"singleton", "eager"}

Link(as, js, c, m, v) ==
    Single(as, c, m) =>
       v # Nil /\ (v.job \in Intact(as, js, c) => as[c][m].cached.job = v.job)

Linked(as, js, c, k, args) ==
    \A i \in 1..Len(args) : Link(as, js, c, as[c][k].recipe.inject[i], args[i])

LinkedAt(as, js, c, k) ==
    LET j == as[c][k].cached.job
    IN  j \in Intact(as, js, c) => /\ Len(js[j].args) = Len(as[c][k].recipe.inject)
                                  /\ Linked(as, js, c, k, js[j].args)

CachesLinked == \A c \in Contexts, k \in Keys : LinkedAt(attrs, jobs, c, k)

(* A frame on the stack: what is cached for the key it constructs is        *)
(* outdated or has failed.                                                  *)
StableFrame(as, js, f) ==
    IF f.job = 0 THEN f.args = <<>>
    ELSE /\ as[f.on][f.key].reg # 0 /\ Of(as, js, f.on, f.key, f.job)
         /\ Len(f.args) <= Len(as[f.on][f.key].recipe.inject)
         /\ Linked(as, js, f.on, f.key, f.args)
         /\ as[f.on][f.key].cached.job \notin Intact(as, js, f.on)

FramesStable == \A n \in 1..Len(stack) : StableFrame(attrs, jobs, stack[n])

(* The call of frame g that frame f is. *)
Calls(as, g, f) ==
    /\ g.job # 0 /\ Len(g.args) < Len(as[g.on][g.key].recipe.inject)
    /\ f.key = as[g.on][g.key].recipe.inject[Len(g.args) + 1]

FramesCalled == \A n \in 2..Len(stack) : Calls(attrs, stack[n], stack[n - 1])

Descends(rank) ==
    \A m, n \in 1..Len(stack) : m < n => rank[stack[m].key] < rank[stack[n].key]

Thrown ==
    (throwing /\ Top.job # 0 /\ attrs[Top.on][Top.key].recipe.async)
        => jobs[Top.job].status = "resolving"

StableInv(rank) ==
    /\ AttrsKnown /\ JobsKnown /\ CachesKeyed /\ CachesLinked
    /\ FramesStable /\ FramesCalled /\ Descends(rank) /\ Thrown

LEMMA IntactClosed ==
    ASSUME NEW as, NEW js, NEW c
    PROVE  /\ Intact(as, js, c) \subseteq Jobs
           /\ AllIntact(as, js, c, Intact(as, js, c))
           /\ \A S \in SUBSET Jobs : AllIntact(as, js, c, S) => S \subseteq Intact(as, js, c)
  <1> DEFINE F == Intact(as, js, c)
  <1>1. F \subseteq Jobs /\ \A S \in SUBSET Jobs : AllIntact(as, js, c, S) => S \subseteq F
    BY DEF Intact
  <1>2. ASSUME NEW i \in F
        PROVE  /\ Unspoilt(as, js, c, i)
               /\ \A v \in Elems(js[i].args) : v = Nil \/ v.job \in F
    <2>1. PICK S \in SUBSET Jobs : AllIntact(as, js, c, S) /\ i \in S
      BY <1>2 DEF Intact
    <2>2. S \subseteq F
      BY <1>1, <2>1
    <2> HIDE DEF F
    <2> QED
      BY <2>1, <2>2 DEF AllIntact
  <1> QED
    BY <1>1, <1>2 DEF AllIntact

(* A step changes of the constructions that have begun only that they end   *)
(* or fail, and gives them arguments once.                                  *)
Continues(js, ks) ==
    \A i \in Jobs : js[i].status # "free" =>
       /\ ks[i].status # "free" /\ (js[i].status = "failed" => ks[i].status = "failed")
       /\ ks[i].key = js[i].key /\ ks[i].needs = js[i].needs /\ ks[i].seen = js[i].seen
       /\ Elems(js[i].args) \subseteq Elems(ks[i].args)

Began(v) == v = Nil \/ (v.job \in Jobs /\ jobs[v.job].status # "free")

(* What is not intact never becomes so again. *)
LEMMA IntactShrinks ==
    ASSUME TypeOK, MadeInv, JobsKnown, NEW bs, NEW ks, Continues(jobs, ks),
           NEW c \in Contexts, NEW d \in Contexts,
           \A m \in Keys : bs[c][m].reg \in {attrs[d][m].reg, nextReg},
           NEW j \in Intact(bs, ks, c), jobs[j].status # "free"
    PROVE  j \in Intact(attrs, jobs, d)
  <1> DEFINE T == Intact(bs, ks, c)
             S == {i \in T : jobs[i].status # "free"}
  <1>1. T \subseteq Jobs /\ AllIntact(bs, ks, c, T)
    BY IntactClosed
  <1>2. ASSUME NEW i \in S
        PROVE  /\ Unspoilt(attrs, jobs, d, i)
               /\ \A v \in Elems(jobs[i].args) : v = Nil \/ v.job \in S
    <2>1. /\ i \in Jobs /\ i \in T /\ jobs[i].status # "free" /\ Unspoilt(bs, ks, c, i)
          /\ \A v \in Elems(ks[i].args) : v = Nil \/ v.job \in T
      BY <1>1, <1>2 DEF AllIntact
    <2>2. /\ jobs[i].status = "failed" => ks[i].status = "failed"
          /\ ks[i].key = jobs[i].key /\ ks[i].needs = jobs[i].needs
          /\ ks[i].seen = jobs[i].seen /\ Elems(jobs[i].args) \subseteq Elems(ks[i].args)
      BY <2>1 DEF Continues
    <2>3. /\ jobs[i].key \in Keys /\ jobs[i].needs \subseteq Keys
      <3>1. jobs[i] \in Job
        BY <2>1 DEF TypeOK
      <3> QED
        BY <3>1 DEF Job
    <2>4. ASSUME NEW m \in jobs[i].needs \cup {jobs[i].key}
          PROVE  jobs[i].seen[m] = attrs[d][m].reg
      <3>1. m \in Keys /\ jobs[i].seen[m] = bs[c][m].reg
        BY <2>1, <2>2, <2>3 DEF Unspoilt
      <3>2. jobs[i].seen[m] < nextReg /\ nextReg \in Nat
        BY <2>1, <3>1, ContainerAssumption DEF JobsKnown, TypeOK, ContainerAssumption
      <3> QED
        BY <3>1, <3>2
    <2>5. Unspoilt(attrs, jobs, d, i)
      BY <2>1, <2>2, <2>4 DEF Unspoilt
    <2>6. ASSUME NEW v \in Elems(jobs[i].args), v # Nil PROVE v.job \in S
      <3>1. v.job \in T
        BY <2>1, <2>2, <2>6
      <3>2. Made(jobs, v, jobs[i].on)
        BY <2>1 DEF MadeInv, ArgsMade
      <3> QED
        BY <2>6, <3>1, <3>2 DEF Made
    <2> QED
      BY <2>5, <2>6
  <1>3. S \subseteq Jobs /\ AllIntact(attrs, jobs, d, S)
    BY <1>1, <1>2 DEF AllIntact
  <1>4. j \in S
    OBVIOUS
  <1> HIDE DEF S
  <1> QED
    BY <1>3, <1>4, IntactClosed

LEMMA AttributeIs ==
    ASSUME TypeOK, NEW c \in Contexts, NEW k \in Keys
    PROVE  /\ attrs[c][k].recipe.inject \in Seq(Keys)
           /\ Len(attrs[c][k].recipe.inject) \in Nat
           /\ \A i \in 1..Len(attrs[c][k].recipe.inject) :
                /\ attrs[c][k].recipe.inject[i] \in Keys
                /\ attrs[c][k].recipe.inject[i] \in Elems(attrs[c][k].recipe.inject)
           /\ attrs[c][k].cached \in Value
           /\ attrs[c][k].cached = Nil => attrs[c][k].cached.job \notin Jobs
           /\ Single(attrs, c, k) <=> Caching(c, k)
           /\ attrs[c][k].reg # 0 => Injects(attrs[c], k) = Elems(attrs[c][k].recipe.inject)
  <1>1. attrs[c][k] \in Attribute
    BY DEF TypeOK
  <1>2. attrs[c][k].recipe.inject \in Seq(Keys) /\ attrs[c][k].cached \in Value
    BY <1>1 DEF Attribute, Recipe
  <1> DEFINE s == attrs[c][k].recipe.inject
  <1>3. /\ Len(s) \in Nat /\ \A i \in 1..Len(s) : s[i] \in Keys /\ s[i] \in Elems(s)
    <2>1. s \in Seq(Keys)
      BY <1>2
    <2> HIDE DEF s
    <2> QED
      BY <2>1, ElementOfSeq, LenProperties DEF Elems
  <1>4. Nil.job \notin Jobs
    BY DEF Nil, Jobs
  <1>5. attrs[c][k].reg # 0 => Injects(attrs[c], k) = Elems(s)
    BY DEF Injects
  <1>6. Single(attrs, c, k) <=> Caching(c, k)
    BY DEF Single, Caching, Registered
  <1> QED
    BY <1>2, <1>3, <1>4, <1>5, <1>6

LEMMA BeganIs ==
    ASSUME MadeInv
    PROVE  /\ \A c \in Contexts, k \in Keys : Began(attrs[c][k].cached)
           /\ \A j \in Jobs : \A v \in Elems(jobs[j].args) : Began(v)
           /\ \A n \in 1..Len(stack) : \A v \in Elems(stack[n].args) : Began(v)
  BY DEF MadeInv, CachesMade, ArgsMade, FramesMade, FrameMade, Made, Began

(* What keeps the registrations and exchanges only what is not intact       *)
(* keeps the links.                                                         *)
Exchanges ==
    \A c \in Contexts, k \in Keys :
       \/ attrs'[c][k].cached = attrs[c][k].cached
       \/ attrs[c][k].cached.job \notin Intact(attrs, jobs, c)

LEMMA IntactBack ==
    ASSUME TypeOK, MadeInv, JobsKnown, SameRegs(attrs, attrs'), Continues(jobs, jobs'),
           NEW c \in Contexts, NEW v, Began(v), v.job \in Intact(attrs', jobs', c)
    PROVE  v # Nil /\ v.job \in Intact(attrs, jobs, c)
  <1>1. v.job \in Jobs
    BY IntactClosed
  <1>2. v # Nil
    BY <1>1 DEF Nil, Jobs
  <1>3. jobs[v.job].status # "free"
    BY <1>2 DEF Began
  <1>4. \A m \in Keys : attrs'[c][m].reg \in {attrs[c][m].reg, nextReg}
    BY DEF SameRegs
  <1> DEFINE j == v.job
  <1>5. j \in Intact(attrs', jobs', c) /\ jobs[j].status # "free"
    BY <1>3
  <1> HIDE DEF j
  <1>6. j \in Intact(attrs, jobs, c)
    BY <1>4, <1>5, IntactShrinks
  <1> QED
    BY <1>2, <1>6 DEF j

LEMMA LinkStays ==
    ASSUME TypeOK, MadeInv, JobsKnown, SameRegs(attrs, attrs'), Continues(jobs, jobs'),
           Exchanges, NEW c \in Contexts, NEW m \in Keys, NEW v, Began(v),
           Link(attrs, jobs, c, m, v)
    PROVE  Link(attrs', jobs', c, m, v)
  <1> SUFFICES ASSUME Single(attrs', c, m)
               PROVE  /\ v # Nil
                      /\ v.job \in Intact(attrs', jobs', c) => attrs'[c][m].cached.job = v.job
    BY DEF Link
  <1>1. Single(attrs, c, m)
    BY DEF Single, SameRegs
  <1>2. v # Nil /\ (v.job \in Intact(attrs, jobs, c) => attrs[c][m].cached.job = v.job)
    BY <1>1 DEF Link
  <1>3. v.job \in Intact(attrs', jobs', c) => v.job \in Intact(attrs, jobs, c)
    BY IntactBack
  <1> QED
    BY <1>2, <1>3 DEF Exchanges

LEMMA LinkedStays ==
    ASSUME TypeOK, MadeInv, JobsKnown, SameRegs(attrs, attrs'), Continues(jobs, jobs'),
           Exchanges, NEW c \in Contexts, NEW k \in Keys, NEW args,
           \A i \in 1..Len(args) : Began(args[i]),
           Len(args) <= Len(attrs[c][k].recipe.inject), Len(args) \in Nat,
           Linked(attrs, jobs, c, k, args)
    PROVE  Linked(attrs', jobs', c, k, args)
  <1>1. \A i \in 1..Len(args) : attrs[c][k].recipe.inject[i] \in Keys
    BY AttributeIs
  <1>2. attrs'[c][k].recipe = attrs[c][k].recipe
    BY DEF SameRegs
  <1> QED
    BY <1>1, <1>2, LinkStays DEF Linked

(* What is intact and cached is served from the cache. *)
LEMMA IntactServed ==
    ASSUME TypeOK, MadeInv, OnlySingletons, CachesLinked,
           NEW c \in Contexts, NEW k \in Keys,
           attrs[c][k].cached.job \in Intact(attrs, jobs, c)
    PROVE  Servable(c, k)
  <1> DEFINE I == Intact(attrs, jobs, c)
             S == {m \in Keys : Caching(c, m) => attrs[c][m].cached.job \in I}
  <1>1. \A m \in Keys : attrs[c][m].cached.job \in I => attrs[c][m].cached # Nil
    BY AttributeIs, IntactClosed
  <1>2. ASSUME NEW n \in Keys, attrs[c][n].cached.job \in I PROVE Injects(attrs[c], n) \subseteq S
    <2> DEFINE j == attrs[c][n].cached.job
    <2>1. j \in I /\ j \in Jobs
      BY <1>2, IntactClosed
    <2>2. /\ Len(jobs[j].args) = Len(attrs[c][n].recipe.inject)
          /\ Linked(attrs, jobs, c, n, jobs[j].args)
      BY <1>2 DEF CachesLinked, LinkedAt
    <2>3. \A v \in Elems(jobs[j].args) : v = Nil \/ v.job \in I
      BY <2>1, IntactClosed DEF AllIntact
    <2> HIDE DEF j, I
    <2>4. ASSUME NEW m \in Injects(attrs[c], n) PROVE m \in S
      <3>1. attrs[c][n].reg # 0
        BY <2>4 DEF Injects
      <3>2. PICK i \in 1..Len(attrs[c][n].recipe.inject) : m = attrs[c][n].recipe.inject[i]
        <4>1. Injects(attrs[c], n) = Elems(attrs[c][n].recipe.inject)
          BY <3>1, AttributeIs
        <4> QED
          BY <2>4, <4>1 DEF Elems
      <3>3. m \in Keys /\ jobs[j].args[i] \in Elems(jobs[j].args)
        BY <2>2, <3>2, AttributeIs DEF Elems
      <3>4. ASSUME Caching(c, m) PROVE attrs[c][m].cached.job \in I
        <4>1. Single(attrs, c, m)
          BY <3>3, <3>4, AttributeIs
        <4>2. Link(attrs, jobs, c, m, jobs[j].args[i])
          BY <2>2, <3>2 DEF Linked
        <4>3. jobs[j].args[i] # Nil
          BY <4>1, <4>2 DEF Link
        <4>4. jobs[j].args[i].job \in I
          BY <2>3, <3>3, <4>3
        <4> QED
          BY <4>1, <4>2, <4>4 DEF Link, I
      <3> QED
        BY <3>3, <3>4
    <2> QED
      BY <2>4
  <1>3. ASSUME NEW m \in S PROVE CacheIsValid(c, m)
    <2>1. \A n \in S : Caching(c, n) => Injects(attrs[c], n) \subseteq S
      BY <1>2
    <2>2. S \in SUBSET Keys
      OBVIOUS
    <2>3. \A n \in S : Caching(c, n) => attrs[c][n].cached # Nil
      BY <1>1
    <2> HIDE DEF S
    <2>4. Visited(c, m) \subseteq S
      BY <2>1, <2>2 DEF Visited
    <2> QED
      BY <2>3, <2>4 DEF CacheIsValid
  <1>4. attrs[c][k].cached # Nil /\ Injects(attrs[c], k) \subseteq S
    BY <1>1, <1>2
  <1>5. Caching(c, k)
    BY <1>4 DEF OnlySingletons
  <1>6. \A m \in Injects(attrs[c], k) : CacheIsValid(c, m)
    <2> HIDE DEF S
    <2> QED
      BY <1>3, <1>4
  <1> QED
    BY <1>4, <1>5, <1>6 DEF Servable

LEMMA FrameIs ==
    ASSUME TypeOK, NEW n \in 1..Len(stack)
    PROVE  /\ Len(stack) \in Nat /\ stack[n] \in Frame /\ Top = stack[1] /\ 1 \in 1..Len(stack)
           /\ stack # <<>> /\ stack[n].on \in Contexts /\ stack[n].key \in Keys
           /\ stack[n].args \in Seq(Value) /\ Len(stack[n].args) \in Nat
           /\ stack[n].job # 0 => stack[n].job \in Jobs
           /\ \A i \in 1..Len(stack[n].args) : stack[n].args[i] \in Elems(stack[n].args)
  <1>1. stack \in Seq(Frame)
    BY DEF TypeOK
  <1>2. stack # <<>> /\ Len(stack) \in Nat /\ stack[n] \in Frame /\ 1 \in 1..Len(stack)
    BY <1>1
  <1>3. Top = stack[1]
    BY <1>1, <1>2, PopFrame DEF Top
  <1>4. /\ stack[n].on \in Contexts /\ stack[n].key \in Keys
        /\ stack[n].args \in Seq(Value)
        /\ stack[n].job # 0 => stack[n].job \in Jobs
    BY <1>2, ContainerAssumption DEF Frame, Jobs, ContainerAssumption
  <1>5. Len(stack[n].args) \in Nat
    BY <1>4, LenProperties
  <1> QED
    BY <1>2, <1>3, <1>4, <1>5 DEF Elems

(* What a call returns is appended to the arguments of its caller.          *)
LEMMA DeliverArgs ==
    ASSUME TypeOK, stack # <<>>, NEW v \in Value, Deliver(v), ~throwing',
           1 \in 1..Len(stack')
    PROVE  2 \in 1..Len(stack) /\ stack'[1].args = Append(stack[2].args, v)
  <1> DEFINE rest == Tail(stack)
             first == [Head(rest) EXCEPT !.args = Append(@, v)]
  <1>1. stack' = Returned(v)
    BY DEF Deliver
  <1>2. /\ rest \in Seq(Frame) /\ Len(rest) = Len(stack) - 1 /\ Len(stack) \in Nat
        /\ \A n \in 1..Len(rest) : rest[n] = stack[n + 1]
    BY PopFrame DEF TypeOK
  <1>3. rest # <<>>
    <2>1. ASSUME rest = <<>> PROVE FALSE
      <3>1. stack' = <<>>
        BY <1>1, <2>1 DEF Returned
      <3> QED
        BY <3>1
    <2> QED
      BY <2>1
  <1>4. stack' = <<first>> \o Tail(rest)
    BY <1>1, <1>3 DEF Returned
  <1>5. /\ Head(rest) \in Frame /\ Head(rest) = rest[1] /\ Tail(rest) \in Seq(Frame)
        /\ Len(rest) \in Nat \ {0}
    BY <1>2, <1>3, PopFrame
  <1>6. first.args = Append(rest[1].args, v)
    BY <1>5 DEF Frame
  <1>7. rest[1] = stack[2] /\ 2 \in 1..Len(stack)
    BY <1>2, <1>5
  <1> HIDE DEF first, rest
  <1>8. stack'[1] = first
    BY <1>4, <1>5
  <1> QED
    BY <1>6, <1>7, <1>8

LEMMA FrameStays ==
    ASSUME TypeOK, AwaitInv, MadeInv, JobsKnown, SameRegs(attrs, attrs'),
           Continues(jobs, jobs'), Exchanges, NEW n \in 1..Len(stack),
           StableFrame(attrs, jobs, stack[n]),
           stack[n].job # 0 => attrs'[stack[n].on][stack[n].key].cached
                                 = attrs[stack[n].on][stack[n].key].cached
    PROVE  StableFrame(attrs', jobs', stack[n])
  <1> DEFINE f == stack[n]
             c == f.on
             k == f.key
  <1>1. CASE f.job = 0
    BY <1>1 DEF StableFrame
  <1>2. CASE f.job # 0
    <2>1. /\ c \in Contexts /\ k \in Keys /\ f.job \in Jobs /\ Len(f.args) \in Nat
          /\ \A i \in 1..Len(f.args) : Began(f.args[i])
      BY <1>2, FrameIs, BeganIs
    <2>2. jobs[f.job].status # "free"
      BY <1>2 DEF AwaitInv, FrameInv, FramesOK, FrameOK
    <2>3. /\ attrs[c][k].reg # 0 /\ Of(attrs, jobs, c, k, f.job)
          /\ Len(f.args) <= Len(attrs[c][k].recipe.inject)
          /\ Linked(attrs, jobs, c, k, f.args)
          /\ attrs[c][k].cached.job \notin Intact(attrs, jobs, c)
      BY <1>2 DEF StableFrame
    <2>4. attrs'[c][k].reg = attrs[c][k].reg /\ attrs'[c][k].recipe = attrs[c][k].recipe
      BY <2>1 DEF SameRegs
    <2>5. Of(attrs', jobs', c, k, f.job)
      <3>1. Injects(attrs'[c], k) = Injects(attrs[c], k)
        BY <2>4, Zenon DEF Injects
      <3> QED
        BY <2>1, <2>2, <2>3, <3>1 DEF Of, Continues
    <2>6. Linked(attrs', jobs', c, k, f.args)
      <3> HIDE DEF c, k, f
      <3> QED
        BY <2>1, <2>3, LinkedStays
    <2>7. attrs'[c][k].cached.job \notin Intact(attrs', jobs', c)
      <3>1. Began(attrs[c][k].cached) /\ attrs'[c][k].cached = attrs[c][k].cached
        BY <1>2, <2>1, BeganIs
      <3> HIDE DEF c, k, f
      <3> QED
        BY <2>1, <2>3, <3>1, IntactBack
    <2> HIDE DEF c, k
    <2>8. f.on = c /\ f.key = k
      BY DEF c, k
    <2> HIDE DEF f
    <2>9. StableFrame(attrs', jobs', f)
      BY <1>2, <2>3, <2>4, <2>5, <2>6, <2>7, <2>8 DEF StableFrame
    <2> QED
      BY <2>9 DEF f
  <1> QED
    BY <1>1, <1>2

(* A frame that gets one more argument. *)
LEMMA FrameGets ==
    ASSUME NEW as, NEW js, NEW f, NEW g, NEW v, StableFrame(as, js, f), f.job # 0,
           g.on = f.on, g.key = f.key, g.job = f.job,
           f.args \in Seq(Value), v \in Value, g.args = Append(f.args, v),
           Len(as[f.on][f.key].recipe.inject) \in Nat,
           Len(f.args) < Len(as[f.on][f.key].recipe.inject),
           Link(as, js, f.on, as[f.on][f.key].recipe.inject[Len(f.args) + 1], v)
    PROVE  StableFrame(as, js, g)
  <1> DEFINE s == f.args
             t == g.args
  <1>1. /\ Len(s) \in Nat /\ Len(t) = Len(s) + 1 /\ t[Len(s) + 1] = v
        /\ \A i \in 1..Len(s) : t[i] = s[i]
    <2>1. s \in Seq(Value) /\ t = Append(s, v)
      OBVIOUS
    <2> HIDE DEF s, t
    <2> QED
      BY <2>1, AppendProperties, LenProperties
  <1>2. Linked(as, js, f.on, f.key, s)
    BY DEF StableFrame
  <1>3. Linked(as, js, f.on, f.key, t)
    <2>1. ASSUME NEW i \in 1..Len(t)
          PROVE  Link(as, js, f.on, as[f.on][f.key].recipe.inject[i], t[i])
      <3>1. i \in 1..Len(s) \/ i = Len(s) + 1
        BY <1>1
      <3> QED
        BY <1>1, <1>2, <3>1 DEF Linked
    <2> QED
      BY <2>1 DEF Linked
  <1>4. Len(t) <= Len(as[f.on][f.key].recipe.inject)
    <2> DEFINE N == Len(as[f.on][f.key].recipe.inject)
    <2>1. Len(s) < N /\ N \in Nat
      OBVIOUS
    <2> HIDE DEF s, t, N
    <2>2. Len(t) <= N
      BY <1>1, <2>1
    <2> QED
      BY <2>2 DEF N
  <1> QED
    BY <1>3, <1>4 DEF StableFrame

(* A call of _resolveValue returns v, or is refused: for a key that caches, *)
(* v is what is cached, or what was constructed by the call.                *)
Ends(v) ==
    /\ \A i \in Jobs : i # Top.job => jobs'[i] = jobs[i]
    /\ Top.job # 0 =>
         /\ jobs[Top.job].status = "resolving" /\ jobs'[Top.job].status \in Out
         /\ jobs'[Top.job].key = jobs[Top.job].key
         /\ jobs'[Top.job].needs = jobs[Top.job].needs
         /\ jobs'[Top.job].seen = jobs[Top.job].seen
    /\ Caching(Top.on, Top.key) =>
         /\ v # Nil
         /\ IF Top.job = 0 THEN v = attrs[Top.on][Top.key].cached
            ELSE /\ v.job = Top.job
                 /\ \/ jobs'[Top.job].status = "failed"
                    \/ jobs'[Top.job].args = Top.args /\ Len(Top.args) = Len(InjectList)

LEMMA EndKeeps ==
    ASSUME TypeOK, AwaitInv, MadeInv, JobsKnown, FramesStable, stack # <<>>,
           NEW v \in Value, Deliver(v), Ends(v)
    PROVE  /\ SameRegs(attrs, attrs') /\ Continues(jobs, jobs') /\ Exchanges
           /\ \A x \in Contexts, m \in Keys :
                attrs'[x][m].cached = IF x = Top.on /\ m = Top.key /\ Caching(x, m)
                                      THEN v ELSE attrs[x][m].cached
  <1>0. /\ 1 \in 1..Len(stack) /\ Top = stack[1] /\ Top.on \in Contexts /\ Top.key \in Keys
        /\ Top.job # 0 => Top.job \in Jobs
    <2>1. 1 \in 1..Len(stack)
      BY TopAwait
    <2> QED
      BY <2>1, FrameIs
  <1>1. SameRegs(attrs, attrs')
    BY DeliverCaches DEF SameRegs
  <1>2. \A x \in Contexts, m \in Keys :
          attrs'[x][m].cached = IF x = Top.on /\ m = Top.key /\ Caching(x, m)
                                THEN v ELSE attrs[x][m].cached
    BY DeliverCaches
  <1>3. Continues(jobs, jobs')
    <2> SUFFICES ASSUME NEW i \in Jobs, jobs[i].status # "free"
                 PROVE  /\ jobs'[i].status # "free"
                        /\ jobs[i].status = "failed" => jobs'[i].status = "failed"
                        /\ jobs'[i].key = jobs[i].key /\ jobs'[i].needs = jobs[i].needs
                        /\ jobs'[i].seen = jobs[i].seen
                        /\ Elems(jobs[i].args) \subseteq Elems(jobs'[i].args)
      BY DEF Continues
    <2>1. CASE i # Top.job
      BY <2>1 DEF Ends
    <2>2. CASE i = Top.job
      <3>1. i # 0
        BY DEF Jobs
      <3>2. /\ jobs[i].status = "resolving" /\ jobs'[i].status \in Out
            /\ jobs'[i].key = jobs[i].key /\ jobs'[i].needs = jobs[i].needs
            /\ jobs'[i].seen = jobs[i].seen
        BY <2>2, <3>1 DEF Ends
      <3>3. Elems(jobs[i].args) = {}
        BY <3>2 DEF JobsKnown, Elems
      <3> QED
        BY <3>2, <3>3 DEF Out
    <2> QED
      BY <2>1, <2>2
  <1>4. Exchanges
    <2> SUFFICES ASSUME NEW x \in Contexts, NEW m \in Keys,
                        attrs'[x][m].cached # attrs[x][m].cached
                 PROVE  attrs[x][m].cached.job \notin Intact(attrs, jobs, x)
      BY DEF Exchanges
    <2>1. x = Top.on /\ m = Top.key /\ Caching(x, m) /\ attrs'[x][m].cached = v
      BY <1>2
    <2>2. Top.job # 0
      BY <2>1 DEF Ends
    <2>3. StableFrame(attrs, jobs, Top)
      BY <1>0 DEF FramesStable
    <2> QED
      BY <2>1, <2>2, <2>3 DEF StableFrame
  <1> QED
    BY <1>1, <1>2, <1>3, <1>4

LEMMA EndCaches ==
    ASSUME TypeOK, AwaitInv, MadeInv, NEW rank, StableInv(rank), stack # <<>>,
           NEW v \in Value, Deliver(v), Ends(v), nextReg' = nextReg
    PROVE  AttrsKnown' /\ JobsKnown' /\ CachesKeyed' /\ CachesLinked'
  <1> DEFINE c == Top.on
             k == Top.key
             t == Top.job
  <1>0. /\ 1 \in 1..Len(stack) /\ Top = stack[1] /\ c \in Contexts /\ k \in Keys
        /\ t # 0 => t \in Jobs /\ jobs[t].status = "resolving"
    <2>1. 1 \in 1..Len(stack)
      BY TopAwait
    <2> QED
      BY <2>1, FrameIs DEF Ends
  <1>1. /\ SameRegs(attrs, attrs') /\ Continues(jobs, jobs') /\ Exchanges
        /\ \A x \in Contexts, m \in Keys :
             attrs'[x][m].cached = IF x = c /\ m = k /\ Caching(x, m)
                                   THEN v ELSE attrs[x][m].cached
    BY EndKeeps DEF StableInv
  <1>2. AttrsKnown'
    BY <1>1 DEF StableInv, AttrsKnown, SameRegs
  <1>3. JobsKnown'
    <2> SUFFICES ASSUME NEW i \in Jobs
                 PROVE  /\ jobs'[i].status # "free" => \A m \in Keys : jobs'[i].seen[m] < nextReg
                        /\ jobs'[i].status = "resolving" => jobs'[i].args = <<>>
      BY DEF JobsKnown
    <2>1. CASE i # t
      BY <2>1 DEF Ends, StableInv, JobsKnown
    <2>2. CASE i = t
      <3>1. i # 0
        BY DEF Jobs
      <3> QED
        BY <1>0, <2>2, <3>1 DEF Ends, StableInv, JobsKnown, Out
    <2> QED
      BY <2>1, <2>2
  <1>4. \A x \in Contexts, m \in Keys : /\ attrs'[x][m].recipe = attrs[x][m].recipe
                                        /\ Injects(attrs'[x], m) = Injects(attrs[x], m)
    <2> SUFFICES ASSUME NEW x \in Contexts, NEW m \in Keys
                 PROVE  /\ attrs'[x][m].recipe = attrs[x][m].recipe
                        /\ Injects(attrs'[x], m) = Injects(attrs[x], m)
      OBVIOUS
    <2>1. attrs'[x][m].recipe = attrs[x][m].recipe /\ attrs'[x][m].reg = attrs[x][m].reg
      BY <1>1 DEF SameRegs
    <2> QED
      BY <2>1, Zenon DEF Injects
  <1>5. ASSUME NEW x \in Contexts, NEW m \in Keys, attrs'[x][m].cached = attrs[x][m].cached
        PROVE  KeyedAt(attrs', jobs', x, m) /\ LinkedAt(attrs', jobs', x, m)
    <2> DEFINE j == attrs[x][m].cached.job
    <2>1. CASE attrs[x][m].cached = Nil
      <3>1. j \notin Intact(attrs', jobs', x)
        BY <2>1, AttributeIs, IntactClosed
      <3> QED
        BY <1>5, <2>1, <3>1 DEF KeyedAt, LinkedAt
    <2>2. CASE attrs[x][m].cached # Nil
      <3>1. j \in Jobs /\ Began(attrs[x][m].cached)
        BY <2>2, BeganIs DEF Began
      <3>2. jobs[j].status \in Out /\ Of(attrs, jobs, x, m, j)
        BY <2>2 DEF StableInv, CachesKeyed, KeyedAt
      <3>3. jobs'[j] = jobs[j]
        <4>1. j # t
          BY <1>0, <3>1, <3>2 DEF Out, Jobs
        <4> QED
          BY <3>1, <4>1 DEF Ends
      <3>4. KeyedAt(attrs', jobs', x, m)
        BY <1>4, <1>5, <3>2, <3>3 DEF KeyedAt, Of
      <3>5. ASSUME j \in Intact(attrs', jobs', x)
            PROVE  /\ Len(jobs[j].args) = Len(attrs[x][m].recipe.inject)
                   /\ Linked(attrs', jobs', x, m, jobs[j].args)
        <4>1. j \in Intact(attrs, jobs, x)
          BY <1>1, <3>1, <3>5, IntactBack DEF StableInv
        <4>2. /\ Len(jobs[j].args) = Len(attrs[x][m].recipe.inject)
              /\ Linked(attrs, jobs, x, m, jobs[j].args)
          BY <4>1 DEF StableInv, CachesLinked, LinkedAt
        <4> DEFINE args == jobs[j].args
                   N == Len(attrs[x][m].recipe.inject)
        <4>3. \A i \in 1..Len(args) : Began(args[i])
          BY <3>1, BeganIs DEF Elems
        <4>4. N \in Nat /\ Len(args) = N /\ Linked(attrs, jobs, x, m, args)
          BY <4>2, AttributeIs
        <4> HIDE DEF args, N
        <4>5. Len(args) <= N /\ Len(args) \in Nat
          BY <4>4
        <4>6. Linked(attrs', jobs', x, m, args)
          BY <1>1, <4>3, <4>4, <4>5, LinkedStays DEF StableInv, N
        <4> QED
          BY <4>2, <4>6 DEF args
      <3>6. LinkedAt(attrs', jobs', x, m)
        BY <1>4, <1>5, <3>3, <3>5 DEF LinkedAt
      <3> QED
        BY <3>4, <3>6
    <2> QED
      BY <2>1, <2>2
  <1>6. ASSUME attrs'[c][k].cached # attrs[c][k].cached
        PROVE  KeyedAt(attrs', jobs', c, k) /\ LinkedAt(attrs', jobs', c, k)
    <2>1. Caching(c, k) /\ attrs'[c][k].cached = v
      BY <1>0, <1>1, <1>6
    <2>2. t # 0
      BY <1>6, <2>1 DEF Ends
    <2>3. /\ t \in Jobs /\ v.job = t
          /\ \/ jobs'[t].status = "failed"
             \/ jobs'[t].args = Top.args /\ Len(Top.args) = Len(InjectList)
      BY <1>0, <2>1, <2>2 DEF Ends
    <2>4. StableFrame(attrs, jobs, Top)
      BY <1>0 DEF StableInv, FramesStable
    <2>5. /\ Of(attrs, jobs, c, k, t) /\ Linked(attrs, jobs, c, k, Top.args)
          /\ Len(Top.args) <= Len(attrs[c][k].recipe.inject)
      BY <2>2, <2>4 DEF StableFrame
    <2>6. KeyedAt(attrs', jobs', c, k)
      <3>1. jobs'[t].status \in Out /\ Of(attrs', jobs', c, k, t)
        BY <1>0, <1>4, <2>2, <2>5 DEF Ends, Of
      <3> QED
        BY <2>1, <2>3, <3>1 DEF KeyedAt
    <2>7. Linked(attrs', jobs', c, k, Top.args)
      <3> DEFINE args == Top.args
      <3>1. Len(args) \in Nat /\ \A i \in 1..Len(args) : Began(args[i])
        BY <1>0, FrameIs, BeganIs
      <3>2. Linked(attrs, jobs, c, k, args) /\ Len(args) <= Len(attrs[c][k].recipe.inject)
        BY <2>5
      <3> HIDE DEF args, c, k
      <3>3. Linked(attrs', jobs', c, k, args)
        BY <1>0, <1>1, <3>1, <3>2, LinkedStays DEF StableInv
      <3> QED
        BY <3>3 DEF args
    <2>8. ASSUME t \in Intact(attrs', jobs', c)
          PROVE  jobs'[t].args = Top.args /\ Len(Top.args) = Len(attrs[c][k].recipe.inject)
      <3>1. jobs'[t].status # "failed"
        BY <2>8, IntactClosed DEF AllIntact, Unspoilt
      <3> QED
        BY <2>3, <3>1 DEF InjectList
    <2>9. LinkedAt(attrs', jobs', c, k)
      BY <1>0, <1>4, <2>1, <2>3, <2>7, <2>8 DEF LinkedAt
    <2> QED
      BY <2>6, <2>9
  <1>7. ASSUME NEW x \in Contexts, NEW m \in Keys
        PROVE  KeyedAt(attrs', jobs', x, m) /\ LinkedAt(attrs', jobs', x, m)
    <2>1. CASE attrs'[x][m].cached = attrs[x][m].cached
      BY <1>5, <2>1
    <2>2. CASE attrs'[x][m].cached # attrs[x][m].cached
      <3>1. x = c /\ m = k
        BY <1>1, <2>2
      <3> HIDE DEF c, k
      <3> QED
        BY <1>6, <2>2, <3>1
    <2> QED
      BY <2>1, <2>2
  <1> QED
    BY <1>2, <1>3, <1>7 DEF CachesKeyed, CachesLinked

LEMMA CallsStays ==
    ASSUME NEW as, NEW bs, SameRegs(as, bs), NEW f, NEW g, NEW e, NEW h, Calls(as, g, f),
           h.on = g.on, h.key = g.key, h.job = g.job, h.args = g.args, e.key = f.key,
           g.on \in Contexts, g.key \in Keys
    PROVE  Calls(bs, h, e)
  <1>1. bs[g.on][g.key].recipe = as[g.on][g.key].recipe
    BY DEF SameRegs
  <1> QED
    BY <1>1 DEF Calls

(* A frame further down constructs another key. *)
LEMMA Above ==
    ASSUME TypeOK, NEW rank \in [Keys -> Nat], Descends(rank),
           NEW n \in 1..Len(stack), n # 1
    PROVE  stack[n].key # Top.key
  <1>1. /\ 1 \in 1..Len(stack) /\ Top = stack[1] /\ Len(stack) \in Nat
        /\ stack[1].key \in Keys /\ stack[n].key \in Keys
    <2>1. 1 \in 1..Len(stack) /\ Top = stack[1] /\ Len(stack) \in Nat /\ stack[n].key \in Keys
      BY FrameIs
    <2> QED
      BY <2>1, FrameIs
  <1>2. 1 < n
    BY <1>1
  <1>3. rank[stack[1].key] < rank[stack[n].key]
    BY <1>1, <1>2 DEF Descends
  <1>4. rank[stack[1].key] \in Nat
    BY <1>1
  <1>5. rank[stack[1].key] # rank[stack[n].key]
    BY <1>3, <1>4
  <1> QED
    BY <1>1, <1>5

LEMMA RefusedFrames ==
    ASSUME TypeOK, AwaitInv, MadeInv, NEW rank \in [Keys -> Nat], StableInv(rank),
           stack # <<>>, NEW v \in Value, Deliver(v), Ends(v), throwing',
           Top.job = 0 \/ ~attrs[Top.on][Top.key].recipe.async
    PROVE  FramesStable' /\ FramesCalled' /\ Descends(rank)' /\ Thrown'
  <1>0. /\ 1 \in 1..Len(stack) /\ Top = stack[1] /\ Top.on \in Contexts /\ Top.key \in Keys
    <2>1. 1 \in 1..Len(stack)
      BY TopAwait
    <2> QED
      BY <2>1, FrameIs
  <1>1. stack' = stack /\ ~Caching(Top.on, Top.key)
    BY DEF Deliver, Ends
  <1>2. /\ SameRegs(attrs, attrs') /\ Continues(jobs, jobs') /\ Exchanges
        /\ \A x \in Contexts, m \in Keys : attrs'[x][m].cached = attrs[x][m].cached
    BY <1>1, EndKeeps DEF StableInv
  <1>3. FramesStable'
    <2>1. ASSUME NEW n \in 1..Len(stack) PROVE StableFrame(attrs', jobs', stack[n])
      <3>1. StableFrame(attrs, jobs, stack[n])
        BY DEF StableInv, FramesStable
      <3>2. attrs'[stack[n].on][stack[n].key].cached = attrs[stack[n].on][stack[n].key].cached
        BY <1>2, FrameIs
      <3> QED
        BY <1>2, <3>1, <3>2, FrameStays DEF StableInv
    <2> QED
      BY <1>1, <2>1 DEF FramesStable
  <1>4. FramesCalled'
    <2>1. ASSUME NEW n \in 2..Len(stack) PROVE Calls(attrs', stack[n], stack[n - 1])
      <3>1. Calls(attrs, stack[n], stack[n - 1])
        BY DEF StableInv, FramesCalled
      <3>2. n \in 1..Len(stack)
        BY <2>1
      <3>3. stack[n].on \in Contexts /\ stack[n].key \in Keys
        BY <3>2, FrameIs
      <3> QED
        BY <1>2, <3>1, <3>3, CallsStays
    <2> QED
      BY <1>1, <2>1 DEF FramesCalled
  <1>5. Descends(rank)'
    BY <1>1 DEF StableInv, Descends
  <1>6. Thrown'
    <2>1. Top' = Top
      BY <1>1 DEF Top
    <2>2. attrs'[Top.on][Top.key].recipe = attrs[Top.on][Top.key].recipe
      BY <1>0, <1>2 DEF SameRegs
    <2> QED
      BY <2>1, <2>2 DEF Thrown
  <1> QED
    BY <1>3, <1>4, <1>5, <1>6

LEMMA ReturnFrames ==
    ASSUME TypeOK, AwaitInv, MadeInv, NEW rank \in [Keys -> Nat], StableInv(rank),
           stack # <<>>, NEW v \in Value, Deliver(v), Ends(v), ~throwing'
    PROVE  FramesStable' /\ FramesCalled' /\ Descends(rank)' /\ Thrown'
  <1> DEFINE c == Top.on
             k == Top.key
  <1>0. /\ 1 \in 1..Len(stack) /\ Top = stack[1] /\ c \in Contexts /\ k \in Keys
        /\ Len(stack) \in Nat
    <2>1. 1 \in 1..Len(stack)
      BY TopAwait
    <2> QED
      BY <2>1, FrameIs
  <1>1. stack' = Returned(v)
    BY DEF Deliver
  <1>2. /\ SameRegs(attrs, attrs') /\ Continues(jobs, jobs') /\ Exchanges
        /\ \A x \in Contexts, m \in Keys :
             attrs'[x][m].cached = IF x = c /\ m = k /\ Caching(x, m)
                                   THEN v ELSE attrs[x][m].cached
    BY EndKeeps DEF StableInv
  <1>3. /\ Len(stack') = Len(stack) - 1
        /\ \A n \in 1..Len(stack') :
             /\ n + 1 \in 1..Len(stack)
             /\ stack'[n].job = stack[n + 1].job
             /\ stack'[n].on = stack[n + 1].on
             /\ stack'[n].key = stack[n + 1].key
             /\ n # 1 => stack'[n] = stack[n + 1]
    BY <1>1, ReturnedFrames
  <1>4. ASSUME NEW n \in 1..Len(stack), n # 1
        PROVE  StableFrame(attrs', jobs', stack[n])
    <2>1. StableFrame(attrs, jobs, stack[n])
      BY DEF StableInv, FramesStable
    <2>2. stack[n].key # k /\ stack[n].on \in Contexts /\ stack[n].key \in Keys
      BY <1>4, Above, FrameIs DEF StableInv
    <2>3. attrs'[stack[n].on][stack[n].key].cached = attrs[stack[n].on][stack[n].key].cached
      BY <1>2, <2>2
    <2> QED
      BY <1>2, <2>1, <2>3, FrameStays DEF StableInv
  <1>5. ASSUME 1 \in 1..Len(stack')
        PROVE  StableFrame(attrs', jobs', stack'[1])
    <2> DEFINE f == stack[2]
               g == stack'[1]
    <2>1. 2 \in 1..Len(stack) /\ g.args = Append(f.args, v)
      BY <1>5, DeliverArgs
    <2>2. 1 + 1 = 2
      OBVIOUS
    <2>3. g.on = f.on /\ g.key = f.key /\ g.job = f.job
      BY <1>3, <1>5, <2>2
    <2>4. f.args \in Seq(Value) /\ f.on \in Contexts /\ f.key \in Keys /\ f.on = c
      BY <1>0, <2>1, FrameIs DEF MadeInv, FramesMade
    <2>5. StableFrame(attrs', jobs', f)
      BY <1>4, <2>1
    <2>6. Calls(attrs, f, Top)
      <3>1. 2 \in 2..Len(stack) /\ 2 - 1 = 1
        BY <2>1
      <3> QED
        BY <1>0, <3>1 DEF StableInv, FramesCalled
    <2>7. attrs'[f.on][f.key].recipe = attrs[f.on][f.key].recipe
      BY <1>2, <2>4 DEF SameRegs
    <2>8. Len(attrs'[f.on][f.key].recipe.inject) \in Nat
      BY <2>4, <2>7, AttributeIs
    <2>9. /\ f.job # 0 /\ Len(f.args) < Len(attrs'[f.on][f.key].recipe.inject)
          /\ attrs'[f.on][f.key].recipe.inject[Len(f.args) + 1] = k
      BY <2>6, <2>7 DEF Calls
    <2>10. Link(attrs', jobs', c, k, v)
      <3>1. ASSUME Single(attrs', c, k)
            PROVE  v # Nil /\ attrs'[c][k].cached.job = v.job
        <4>1. Single(attrs, c, k)
          BY <1>0, <1>2, <3>1 DEF Single, SameRegs
        <4>2. Caching(c, k)
          BY <1>0, <4>1, AttributeIs
        <4> QED
          BY <1>0, <1>2, <4>2 DEF Ends
      <3> HIDE DEF c, k
      <3> QED
        BY <3>1 DEF Link
    <2> HIDE DEF f, g, c, k
    <2>11. StableFrame(attrs', jobs', g)
      BY <2>1, <2>3, <2>4, <2>5, <2>8, <2>9, <2>10, FrameGets
    <2> QED
      BY <2>11 DEF g
  <1>6. FramesStable'
    <2>1. ASSUME NEW n \in 1..Len(stack'), n # 1
          PROVE  StableFrame(attrs', jobs', stack'[n])
      <3>1. n + 1 \in 1..Len(stack) /\ n + 1 # 1 /\ stack'[n] = stack[n + 1]
        BY <1>3, <2>1
      <3> QED
        BY <1>4, <3>1
    <2> QED
      BY <1>5, <2>1 DEF FramesStable
  <1>7. FramesCalled'
    <2>1. ASSUME NEW n \in 2..Len(stack')
          PROVE  Calls(attrs', stack'[n], stack'[n - 1])
      <3>1. n \in 1..Len(stack') /\ n - 1 \in 1..Len(stack') /\ (n - 1) + 1 = n /\ n # 1
        BY <2>1
      <3>2. /\ n + 1 \in 1..Len(stack) /\ stack'[n] = stack[n + 1]
            /\ stack'[n - 1].key = stack[n].key
        BY <1>3, <3>1
      <3>3. n + 1 \in 2..Len(stack) /\ (n + 1) - 1 = n
        BY <3>1, <3>2
      <3>4. Calls(attrs, stack[n + 1], stack[n])
        BY <3>3 DEF StableInv, FramesCalled
      <3>5. stack[n + 1].on \in Contexts /\ stack[n + 1].key \in Keys
        BY <3>2, FrameIs
      <3> QED
        BY <1>2, <3>2, <3>4, <3>5, CallsStays
    <2> QED
      BY <2>1 DEF FramesCalled
  <1>8. Descends(rank)'
    <2>1. ASSUME NEW m \in 1..Len(stack'), NEW n \in 1..Len(stack'), m < n
          PROVE  rank[stack'[m].key] < rank[stack'[n].key]
      <3>1. /\ m + 1 \in 1..Len(stack) /\ n + 1 \in 1..Len(stack) /\ m + 1 < n + 1
            /\ stack'[m].key = stack[m + 1].key /\ stack'[n].key = stack[n + 1].key
        BY <1>3, <2>1
      <3> QED
        BY <3>1 DEF StableInv, Descends
    <2> QED
      BY <2>1 DEF Descends
  <1>9. Thrown'
    BY DEF Thrown
  <1> QED
    BY <1>6, <1>7, <1>8, <1>9

(* A call of _resolveValue ends. *)
Returns ==
    /\ stack # <<>> /\ nextReg' = nextReg
    /\ \E v \in Value : Deliver(v) /\ Ends(v)
    /\ throwing' => (Top.job = 0 \/ ~attrs[Top.on][Top.key].recipe.async)

LEMMA ReturnStable ==
    ASSUME TypeOK, AwaitInv, MadeInv, NEW rank \in [Keys -> Nat], StableInv(rank), Returns
    PROVE  StableInv(rank)'
  <1>0. PICK v \in Value : Deliver(v) /\ Ends(v)
    BY DEF Returns
  <1>1. AttrsKnown' /\ JobsKnown' /\ CachesKeyed' /\ CachesLinked'
    BY <1>0, EndCaches DEF Returns
  <1>2. FramesStable' /\ FramesCalled' /\ Descends(rank)' /\ Thrown'
    BY <1>0, RefusedFrames, ReturnFrames DEF Returns
  <1> QED
    BY <1>1, <1>2 DEF StableInv

LEMMA MissingReturns == ASSUME Missing, TypeOK PROVE Returns
  <1>1. /\ stack # <<>> /\ Top.job = 0 /\ Deliver(Nil) /\ jobs' = jobs /\ nextReg' = nextReg
        /\ ~Caching(Top.on, Top.key)
    BY DEF Missing, Entered, Running, Caching
  <1>2. Ends(Nil)
    BY <1>1 DEF Ends
  <1> QED
    BY <1>1, <1>2, ValueTypes DEF Returns

(* The placeholder of a key is not asked for: no key injects itself. *)
LEMMA NoProxy ==
    ASSUME TypeOK, PlaceInv, NEW rank \in [Keys -> Nat], StableInv(rank), ServeProxy
    PROVE  FALSE
  <1>1. /\ stack # <<>> /\ Top.job = 0 /\ Top.scratch[Top.key] # Nil
    BY DEF ServeProxy, Entered, Running
  <1>2. stack \in Seq(Frame) /\ Len(stack) \in Nat \ {0}
    BY <1>1, PopFrame DEF TypeOK
  <1>3. 1 \in 1..Len(stack)
    BY <1>2
  <1>4. Top = stack[1] /\ Top.key \in Keys
    BY <1>3, FrameIs
  <1>5. Below(stack, 1, Top.on, Top.key)
    BY <1>1, <1>3, <1>4 DEF PlaceInv, ScratchBelow
  <1>6. PICK m \in 1..Len(stack) : stack[m].key = Top.key /\ stack[m].job # 0
    BY <1>5 DEF Below
  <1>7. m # 1
    BY <1>1, <1>4, <1>6
  <1> QED
    BY <1>6, <1>7, Above DEF StableInv

LEMMA ServeReturns == ASSUME TypeOK, ServeCached PROVE Returns
  <1> DEFINE v == attrs[Top.on][Top.key].cached
  <1>1. /\ stack # <<>> /\ Top.job = 0 /\ Deliver(v) /\ jobs' = jobs /\ nextReg' = nextReg
        /\ v # Nil
    BY DEF ServeCached, Entered, Running, Servable
  <1>2. v \in Value
    BY <1>1, TopType DEF Attribute
  <1>3. Ends(v)
    BY <1>1 DEF Ends
  <1> HIDE DEF v
  <1> QED
    BY <1>1, <1>2, <1>3 DEF Returns

LEMMA BuildReturns ==
    ASSUME Solid, TypeOK, AwaitInv, AttrsKnown, BuildSync \/ Launch
    PROVE  Returns
  <1>0. /\ stack # <<>> /\ Top.job # 0 /\ ~throwing /\ nextReg' = nextReg
        /\ Len(Top.args) = Len(InjectList)
    BY DEF BuildSync, Launch, AllInjected, Constructing, Running
  <1>1. /\ Top.job \in Jobs /\ jobs[Top.job].status = "resolving" /\ jobs[Top.job] \in Job
        /\ Top.on \in Contexts /\ Top.key \in Keys
    <2>1. Top.on \in Contexts /\ Top.key \in Keys
      BY <1>0, TopType DEF Frame
    <2>2. Top.job \in Jobs /\ jobs[Top.job].status = "resolving"
      BY <1>0, TopAwait
    <2> QED
      BY <2>1, <2>2 DEF TypeOK
  <1>2. ASSUME NEW s \in {"built", "awaiting"}, NEW v \in Value,
               jobs' = [jobs EXCEPT ![Top.job].status = s, ![Top.job].args = Top.args],
               Deliver(v), Caching(Top.on, Top.key) => v # Nil /\ v.job = Top.job,
               throwing' => ~attrs[Top.on][Top.key].recipe.async
        PROVE  Returns
    <2>1. /\ \A i \in Jobs : i # Top.job => jobs'[i] = jobs[i]
          /\ jobs'[Top.job].status = s /\ jobs'[Top.job].args = Top.args
          /\ jobs'[Top.job].key = jobs[Top.job].key
          /\ jobs'[Top.job].needs = jobs[Top.job].needs
          /\ jobs'[Top.job].seen = jobs[Top.job].seen
      BY <1>1, <1>2 DEF TypeOK, Job
    <2>2. s \in Out
      BY DEF Out
    <2>3. Ends(v)
      BY <1>0, <1>1, <1>2, <2>1, <2>2 DEF Ends
    <2> QED
      BY <1>0, <1>2, <2>3 DEF Returns
  <1>3. CASE BuildSync
    <2>1. ASSUME Caching(Top.on, Top.key)
          PROVE  attrs[Top.on][Top.key].recipe.yields # "nil"
      <3>1. /\ attrs[Top.on][Top.key].recipe \in Recipes(Top.key)
            /\ attrs[Top.on][Top.key].recipe.mode # "transient"
        BY <1>1, <2>1 DEF Caching, AttrsKnown
      <3> QED
        BY <1>1, <3>1 DEF Solid
    <2> DEFINE v == IF attrs[Top.on][Top.key].recipe.yields = "nil"
                    THEN Nil ELSE Object(Top.job)
    <2>2. v \in Value /\ (Caching(Top.on, Top.key) => v # Nil /\ v.job = Top.job)
      BY <1>0, <1>1, <2>1, ValueTypes DEF Object, Nil
    <2>3. /\ jobs' = [jobs EXCEPT ![Top.job].status = "built", ![Top.job].args = Top.args]
          /\ Deliver(v) /\ ~attrs[Top.on][Top.key].recipe.async
      BY <1>3 DEF BuildSync
    <2> HIDE DEF v
    <2> QED
      BY <1>2, <2>2, <2>3
  <1>4. CASE Launch
    <2> DEFINE v == Promise(Top.job)
    <2>1. v \in Value /\ v # Nil /\ v.job = Top.job
      BY <1>0, <1>1, ValueTypes DEF Promise, Nil
    <2>2. /\ jobs' = [jobs EXCEPT ![Top.job].status = "awaiting", ![Top.job].args = Top.args]
          /\ Deliver(v)
      BY <1>4 DEF Launch
    <2> HIDE DEF v
    <2>3. ~throwing'
      BY <2>1, <2>2 DEF Deliver
    <2> QED
      BY <1>2, <2>1, <2>2, <2>3
  <1> QED
    BY <1>3, <1>4

LEMMA CatchReturns ==
    ASSUME TypeOK, AwaitInv, Thrown, Catch
    PROVE  Returns
  <1> DEFINE v == Promise(Top.job)
  <1>1. /\ stack # <<>> /\ Top.job # 0 /\ jobs' = Abandoned /\ Deliver(v)
        /\ nextReg' = nextReg
    BY DEF Catch, TypeOK
  <1>2. jobs[Top.job].status = "resolving" /\ Top.job \in Jobs
    BY <1>1, TopAwait DEF Catch, Thrown
  <1>3. v \in Value /\ v # Nil /\ v.job = Top.job
    BY <1>1, <1>2, ValueTypes DEF Promise, Nil
  <1> HIDE DEF v
  <1>4. /\ \A i \in Jobs : i # Top.job => jobs'[i] = jobs[i]
        /\ jobs'[Top.job].status = "failed"
        /\ jobs'[Top.job].key = jobs[Top.job].key
        /\ jobs'[Top.job].needs = jobs[Top.job].needs
        /\ jobs'[Top.job].seen = jobs[Top.job].seen
    BY <1>1, <1>2, AbandonedIs
  <1>5. Ends(v)
    BY <1>1, <1>2, <1>3, <1>4 DEF Ends, Out
  <1>6. ~throwing'
    BY <1>1, <1>3 DEF Deliver
  <1> QED
    BY <1>1, <1>3, <1>5, <1>6 DEF Returns

(* What leaves the attributes and the finished constructions alone leaves   *)
(* the caches as they are.                                                  *)
LEMMA CachesStay ==
    ASSUME TypeOK, MadeInv, NEW rank, StableInv(rank), attrs' = attrs,
           Continues(jobs, jobs'),
           \A i \in Jobs : jobs[i].status \in Out =>
              jobs'[i].status \in Out /\ jobs'[i].args = jobs[i].args
    PROVE  CachesKeyed' /\ CachesLinked'
  <1>1. SameRegs(attrs, attrs') /\ Exchanges
    BY DEF SameRegs, Exchanges
  <1>2. ASSUME NEW c \in Contexts, NEW k \in Keys
        PROVE  KeyedAt(attrs', jobs', c, k) /\ LinkedAt(attrs', jobs', c, k)
    <2> DEFINE v == attrs[c][k].cached
               j == v.job
    <2>1. CASE v = Nil
      <3>1. j \notin Intact(attrs', jobs', c)
        BY <2>1, AttributeIs, IntactClosed
      <3> QED
        BY <2>1, <3>1 DEF KeyedAt, LinkedAt
    <2>2. CASE v # Nil
      <3>1. j \in Jobs /\ Began(v) /\ jobs[j].status # "free"
        BY <2>2, BeganIs DEF Began
      <3>2. jobs[j].status \in Out /\ Of(attrs, jobs, c, k, j)
        BY <2>2 DEF StableInv, CachesKeyed, KeyedAt
      <3>3. /\ jobs'[j].status \in Out /\ jobs'[j].args = jobs[j].args
            /\ jobs'[j].key = jobs[j].key /\ jobs'[j].needs = jobs[j].needs
        BY <3>1, <3>2 DEF Continues
      <3>4. KeyedAt(attrs', jobs', c, k)
        BY <3>2, <3>3 DEF KeyedAt, Of
      <3>5. ASSUME j \in Intact(attrs', jobs', c)
            PROVE  /\ Len(jobs'[j].args) = Len(attrs'[c][k].recipe.inject)
                   /\ Linked(attrs', jobs', c, k, jobs'[j].args)
        <4> DEFINE args == jobs[j].args
        <4>1. j \in Intact(attrs, jobs, c)
          BY <1>1, <3>1, <3>5, IntactBack DEF StableInv
        <4>2. /\ Len(args) = Len(attrs[c][k].recipe.inject)
              /\ Linked(attrs, jobs, c, k, args)
          BY <4>1 DEF StableInv, CachesLinked, LinkedAt
        <4>3. \A i \in 1..Len(args) : Began(args[i])
          BY <3>1, BeganIs DEF Elems
        <4>4. Len(args) <= Len(attrs[c][k].recipe.inject) /\ Len(args) \in Nat
          BY <4>2, AttributeIs
        <4>5. jobs'[j].args = args
          BY <3>3
        <4> HIDE DEF args
        <4>6. Linked(attrs', jobs', c, k, args)
          BY <1>1, <4>2, <4>3, <4>4, LinkedStays DEF StableInv
        <4> QED
          BY <4>2, <4>5, <4>6
      <3>6. LinkedAt(attrs', jobs', c, k)
        BY <3>5 DEF LinkedAt
      <3> QED
        BY <3>4, <3>6
    <2> QED
      BY <2>1, <2>2
  <1> QED
    BY <1>2 DEF CachesKeyed, CachesLinked

LEMMA ConstructStable ==
    ASSUME TypeOK, AwaitInv, MadeInv, PlaceInv, NEW rank \in [Keys -> Nat],
           StableInv(rank), Construct
    PROVE  StableInv(rank)'
  <1> DEFINE c == Top.on
             k == Top.key
  <1>1. /\ stack # <<>> /\ Top.job = 0 /\ attrs' = attrs /\ Top = stack[1]
        /\ Len(stack) \in Nat \ {0} /\ Len(stack') = Len(stack)
        /\ \A n \in 2..Len(stack) : stack'[n] = stack[n]
        /\ stack'[1].args = Top.args /\ stack'[1].on = c /\ stack'[1].key = k
    BY ConstructIs
  <1>2. PICK j \in Jobs :
          /\ jobs[j].status = "free"
          /\ jobs'[j].status = "resolving" /\ jobs'[j].args = <<>>
          /\ jobs'[j].key = k /\ Registered(c, k)
          /\ jobs'[j].needs = Injects(attrs[c], k)
          /\ \A m \in Keys : jobs'[j].seen[m] = attrs[c][m].reg
          /\ \A i \in Jobs : i # j => jobs'[i] = jobs[i]
          /\ stack'[1].job = j
    BY ConstructIs
  <1>3. 1 \in 1..Len(stack) /\ j # 0
    BY <1>1 DEF Jobs
  <1>4. c \in Contexts /\ k \in Keys
    BY <1>1, <1>3, FrameIs
  <1>5. SameRegs(attrs, attrs') /\ Exchanges /\ Continues(jobs, jobs')
    <2>1. Continues(jobs, jobs')
      BY <1>2 DEF Continues
    <2> QED
      BY <1>1, <2>1 DEF SameRegs, Exchanges
  <1>6. CachesKeyed' /\ CachesLinked'
    <2>1. \A i \in Jobs : jobs[i].status \in Out =>
             jobs'[i].status \in Out /\ jobs'[i].args = jobs[i].args
      BY <1>2 DEF Out
    <2> QED
      BY <1>1, <1>5, <2>1, CachesStay
  <1>7. nextReg' = nextReg /\ ~throwing'
    BY DEF Construct, Entered, Running
  <1>8. AttrsKnown'
    BY <1>1, <1>7 DEF StableInv, AttrsKnown
  <1>9. JobsKnown'
    <2>1. ASSUME NEW i \in Jobs
          PROVE  /\ jobs'[i].status # "free" => \A m \in Keys : jobs'[i].seen[m] < nextReg
                 /\ jobs'[i].status = "resolving" => jobs'[i].args = <<>>
      <3>1. CASE i = j
        BY <1>2, <1>4, <3>1 DEF StableInv, AttrsKnown
      <3>2. CASE i # j
        BY <1>2, <3>2 DEF StableInv, JobsKnown
      <3> QED
        BY <3>1, <3>2
    <2> QED
      BY <1>7, <2>1 DEF JobsKnown
  <1>10. FramesStable'
    <2>1. ASSUME NEW n \in 1..Len(stack), n # 1
          PROVE  StableFrame(attrs', jobs', stack'[n])
      <3>1. stack'[n] = stack[n]
        BY <1>1, <2>1
      <3>2. StableFrame(attrs, jobs, stack[n])
        BY DEF StableInv, FramesStable
      <3>3. StableFrame(attrs', jobs', stack[n])
        BY <1>1, <1>5, <3>2, FrameStays DEF StableInv
      <3> QED
        BY <3>1, <3>3
    <2>2. StableFrame(attrs', jobs', stack'[1])
      <3>1. Top.args = <<>>
        <4>1. StableFrame(attrs, jobs, stack[1])
          BY <1>3 DEF StableInv, FramesStable
        <4> QED
          BY <1>1, <4>1 DEF StableFrame
      <3>2. stack'[1].args = <<>> /\ Len(stack'[1].args) = 0
        BY <1>1, <3>1
      <3>3. Len(attrs[c][k].recipe.inject) \in Nat
        BY <1>4, AttributeIs
      <3>4. attrs[c][k].cached.job \notin Intact(attrs', jobs', c)
        <4>1. ~Servable(c, k)
          BY DEF Construct
        <4>2. attrs[c][k].cached.job \notin Intact(attrs, jobs, c)
          BY <1>4, <4>1, IntactServed DEF StableInv, PlaceInv
        <4>3. Began(attrs[c][k].cached)
          BY <1>4, BeganIs
        <4> HIDE DEF c, k
        <4> QED
          BY <1>4, <1>5, <4>2, <4>3, IntactBack DEF StableInv
      <3>5. Of(attrs', jobs', c, k, j) /\ attrs'[c][k].reg # 0
        BY <1>1, <1>2 DEF Of, Registered
      <3>6. Linked(attrs', jobs', c, k, stack'[1].args)
        BY <3>2 DEF Linked
      <3>7. Len(stack'[1].args) <= Len(attrs'[c][k].recipe.inject)
        BY <1>1, <3>2, <3>3
      <3>8. stack'[1].on = c /\ stack'[1].key = k /\ stack'[1].job = j
        BY <1>1, <1>2
      <3> HIDE DEF c, k
      <3> QED
        BY <1>1, <1>3, <3>4, <3>5, <3>6, <3>7, <3>8 DEF StableFrame
    <2> QED
      BY <1>1, <2>1, <2>2 DEF FramesStable
  <1>11. \A n \in 1..Len(stack) : stack'[n].key = stack[n].key
    <2>1. \A n \in 1..Len(stack) : n = 1 \/ n \in 2..Len(stack)
      BY <1>1
    <2> QED
      BY <1>1, <2>1
  <1>12. FramesCalled'
    <2>1. ASSUME NEW n \in 2..Len(stack)
          PROVE  Calls(attrs', stack'[n], stack'[n - 1])
      <3>1. n - 1 \in 1..Len(stack)
        BY <1>1, <2>1
      <3>2. Calls(attrs, stack[n], stack[n - 1])
        BY DEF StableInv, FramesCalled
      <3> QED
        BY <1>1, <1>11, <3>1, <3>2 DEF Calls
    <2> QED
      BY <1>1, <2>1 DEF FramesCalled
  <1>13. Descends(rank)'
    BY <1>1, <1>11 DEF StableInv, Descends
  <1>14. Thrown'
    BY <1>7 DEF Thrown
  <1> QED
    BY <1>6, <1>8, <1>9, <1>10, <1>12, <1>13, <1>14 DEF StableInv

LEMMA InjectStable ==
    ASSUME TypeOK, AwaitInv, MadeInv, NEW rank \in [Keys -> Nat], Ranks(rank),
           StableInv(rank), InjectNext
    PROVE  StableInv(rank)'
  <1> DEFINE s == stack'
  <1>1. /\ stack # <<>> /\ jobs' = jobs /\ attrs' = attrs
        /\ Len(stack) \in Nat \ {0} /\ Top = stack[1] /\ Len(s) = Len(stack) + 1
        /\ s[1].job = 0 /\ s[1].args = <<>> /\ s[1].key \in Elems(InjectList)
        /\ \A n \in 1..Len(s) : n # 1 => n - 1 \in 1..Len(stack) /\ s[n] = stack[n - 1]
    BY InjectIs
  <1>2. nextReg' = nextReg /\ ~throwing' /\ Top.job # 0 /\ Len(Top.args) < Len(InjectList)
    BY DEF InjectNext, Constructing, Running
  <1>3. 1 \in 1..Len(stack)
    BY <1>1
  <1>4. Top.on \in Contexts /\ Top.key \in Keys /\ stack \in Seq(Frame)
    BY <1>1, <1>3, FrameIs DEF TypeOK
  <1>5. s[1].key = InjectList[Len(Top.args) + 1]
    <2> DEFINE f == Call(Top.on, InjectList[Len(Top.args) + 1], Top.scratch)
    <2>1. s = <<f>> \o stack
      BY DEF InjectNext
    <2>2. f.key = InjectList[Len(Top.args) + 1]
      BY DEF Call
    <2> HIDE DEF f
    <2>3. s[1] = f
      BY <1>4, <2>1
    <2> QED
      BY <2>2, <2>3
  <1>6. AttrsKnown' /\ JobsKnown' /\ CachesKeyed' /\ CachesLinked'
    BY <1>1, <1>2 DEF StableInv, AttrsKnown, JobsKnown, CachesKeyed, CachesLinked
  <1> HIDE DEF s
  <1>7. FramesStable'
    <2>1. ASSUME NEW n \in 1..Len(s) PROVE StableFrame(attrs', jobs', s[n])
      <3>1. CASE n = 1
        BY <1>1, <3>1 DEF StableFrame
      <3>2. CASE n # 1
        <4>1. n - 1 \in 1..Len(stack) /\ s[n] = stack[n - 1]
          BY <1>1, <3>2
        <4> QED
          BY <1>1, <4>1 DEF StableInv, FramesStable
      <3> QED
        BY <3>1, <3>2
    <2> QED
      BY <2>1 DEF FramesStable, s
  <1>8. FramesCalled'
    <2>1. ASSUME NEW n \in 2..Len(s) PROVE Calls(attrs', s[n], s[n - 1])
      <3>1. n \in 1..Len(s) /\ n # 1
        BY <1>1, <2>1
      <3>2. n - 1 \in 1..Len(stack) /\ s[n] = stack[n - 1]
        BY <1>1, <3>1
      <3>3. CASE n = 2
        <4>1. n - 1 = 1
          BY <3>3
        <4>2. s[n] = Top /\ s[n - 1] = s[1]
          BY <1>1, <3>2, <4>1
        <4> QED
          BY <1>1, <1>2, <1>5, <4>2 DEF Calls, InjectList
      <3>4. CASE n # 2
        <4>1. n - 1 \in 1..Len(s) /\ n - 1 # 1 /\ n - 1 \in 2..Len(stack)
          BY <1>1, <2>1, <3>2, <3>4
        <4>2. s[n - 1] = stack[(n - 1) - 1]
          BY <1>1, <4>1
        <4> QED
          BY <1>1, <3>2, <4>1, <4>2 DEF StableInv, FramesCalled
      <3> QED
        BY <3>3, <3>4
    <2> QED
      BY <2>1 DEF FramesCalled, s
  <1>9. Descends(rank)'
    <2>1. rank[s[1].key] < rank[Top.key] /\ s[1].key \in Keys
      <3>1. attrs[Top.on][Top.key].recipe \in Recipes(Top.key)
        BY <1>4 DEF StableInv, AttrsKnown
      <3>2. s[1].key \in Elems(attrs[Top.on][Top.key].recipe.inject)
        BY <1>1 DEF InjectList
      <3>3. s[1].key \in Keys
        <4>1. \A i \in 1..Len(InjectList) : InjectList[i] \in Keys
          BY <1>4, AttributeIs DEF InjectList
        <4> QED
          BY <1>1, <4>1 DEF Elems
      <3> QED
        BY <1>4, <3>1, <3>2, <3>3 DEF Ranks
    <2>2. ASSUME NEW m \in 1..Len(s), NEW n \in 1..Len(s), m < n
          PROVE  rank[s[m].key] < rank[s[n].key]
      <3>1. n # 1
        BY <1>1, <2>2
      <3>2. n - 1 \in 1..Len(stack) /\ s[n] = stack[n - 1]
        BY <1>1, <3>1
      <3>3. CASE m # 1
        <4>1. m - 1 \in 1..Len(stack) /\ s[m] = stack[m - 1] /\ m - 1 < n - 1
          BY <1>1, <2>2, <3>3
        <4> QED
          BY <3>2, <4>1 DEF StableInv, Descends
      <3>4. CASE m = 1 /\ n = 2
        <4>1. n - 1 = 1
          BY <3>4
        <4> QED
          BY <1>1, <2>1, <3>2, <3>4, <4>1
      <3>5. CASE m = 1 /\ n # 2
        <4>1. 1 < n - 1
          BY <3>2, <3>5
        <4>2. rank[stack[1].key] < rank[stack[n - 1].key]
          BY <1>3, <3>2, <4>1 DEF StableInv, Descends
        <4>3. stack[n - 1].key \in Keys
          BY <3>2, FrameIs
        <4> DEFINE x == rank[s[1].key]
                   y == rank[Top.key]
                   z == rank[stack[n - 1].key]
        <4>4. x \in Nat /\ y \in Nat /\ z \in Nat /\ x < y /\ y < z
          BY <1>1, <1>4, <2>1, <4>2, <4>3
        <4> HIDE DEF x, y, z
        <4>5. x < z
          BY <4>4
        <4> QED
          BY <3>2, <3>5, <4>5 DEF x, z
      <3> QED
        BY <3>3, <3>4, <3>5
    <2> QED
      BY <2>2 DEF Descends, s
  <1>10. Thrown'
    BY <1>2 DEF Thrown
  <1> QED
    BY <1>6, <1>7, <1>8, <1>9, <1>10 DEF StableInv

LEMMA BeginStable ==
    ASSUME NEW rank, StableInv(rank), Begin PROVE StableInv(rank)'
  <1>1. PICK c \in Contexts, k \in Keys :
           stack' = <<Call(c, k, [m \in Keys |-> Nil])>>
    BY DEF Begin
  <1> DEFINE f == Call(c, k, [m \in Keys |-> Nil])
  <1>2. f.job = 0 /\ f.args = <<>>
    BY DEF Call
  <1> HIDE DEF f
  <1>3. Len(stack') = 1 /\ stack'[1] = f
    BY <1>1 DEF f
  <1>4. attrs' = attrs /\ jobs' = jobs /\ nextReg' = nextReg /\ throwing' = throwing
    BY DEF Begin
  <1>5. FramesStable' /\ FramesCalled' /\ Descends(rank)'
    BY <1>2, <1>3 DEF FramesStable, FramesCalled, Descends, StableFrame
  <1>6. Thrown'
    <2>1. Top'.job = 0
      BY <1>1, <1>2 DEF Top, f
    <2> QED
      BY <2>1 DEF Thrown
  <1> QED
    BY <1>4, <1>5, <1>6
       DEF StableInv, AttrsKnown, JobsKnown, CachesKeyed, CachesLinked

LEMMA ThrowStable ==
    ASSUME NEW rank, StableInv(rank), ThrowSync PROVE StableInv(rank)'
  <1>1. /\ attrs' = attrs /\ jobs' = jobs /\ nextReg' = nextReg /\ stack' = stack
        /\ ~attrs[Top.on][Top.key].recipe.async
    BY DEF ThrowSync
  <1>2. Thrown'
    BY <1>1 DEF Thrown, Top
  <1>3. FramesStable' /\ FramesCalled' /\ Descends(rank)'
    BY <1>1 DEF StableInv, FramesStable, FramesCalled, Descends
  <1> QED
    BY <1>1, <1>2, <1>3
       DEF StableInv, AttrsKnown, JobsKnown, CachesKeyed, CachesLinked

LEMMA UnwindStable ==
    ASSUME TypeOK, AwaitInv, MadeInv, NEW rank \in [Keys -> Nat], StableInv(rank), Unwind
    PROVE  StableInv(rank)'
  <1>0. /\ stack # <<>> /\ stack' = Tail(stack) /\ jobs' = Abandoned /\ attrs' = attrs
        /\ nextReg' = nextReg
    BY DEF Unwind, TypeOK
  <1>1. /\ stack \in Seq(Frame) /\ Len(stack) \in Nat \ {0} /\ Top = stack[1]
        /\ Len(stack') = Len(stack) - 1
        /\ \A n \in 1..Len(stack') : stack'[n] = stack[n + 1]
    BY <1>0, PopFrame DEF TypeOK, Top
  <1>2. \A n \in 1..Len(stack') : n + 1 \in 1..Len(stack)
    BY <1>1
  <1>3. \A i \in Jobs :
          /\ jobs'[i].args = jobs[i].args /\ jobs'[i].key = jobs[i].key
          /\ jobs'[i].needs = jobs[i].needs /\ jobs'[i].seen = jobs[i].seen
          /\ i # Top.job => jobs'[i] = jobs[i]
          /\ \/ jobs'[i].status = jobs[i].status
             \/ jobs[i].status = "resolving" /\ jobs'[i].status = "failed"
    BY <1>0, AbandonedIs
  <1>4. SameRegs(attrs, attrs') /\ Exchanges /\ Continues(jobs, jobs')
    <2>1. Continues(jobs, jobs')
      BY <1>3 DEF Continues
    <2> QED
      BY <1>0, <2>1 DEF SameRegs, Exchanges
  <1>5. CachesKeyed' /\ CachesLinked'
    <2>1. \A i \in Jobs : jobs[i].status \in Out =>
             jobs'[i].status \in Out /\ jobs'[i].args = jobs[i].args
      BY <1>3 DEF Out
    <2> QED
      BY <1>0, <1>4, <2>1, CachesStay
  <1>6. AttrsKnown'
    BY <1>0 DEF StableInv, AttrsKnown
  <1>7. JobsKnown'
    BY <1>0, <1>3 DEF StableInv, JobsKnown
  <1>8. FramesStable'
    <2>1. ASSUME NEW n \in 1..Len(stack') PROVE StableFrame(attrs', jobs', stack'[n])
      <3>1. StableFrame(attrs, jobs, stack[n + 1])
        BY <1>2 DEF StableInv, FramesStable
      <3>2. StableFrame(attrs', jobs', stack[n + 1])
        BY <1>0, <1>2, <1>4, <3>1, FrameStays DEF StableInv
      <3> QED
        BY <1>1, <3>2
    <2> QED
      BY <2>1 DEF FramesStable
  <1>9. FramesCalled'
    <2>1. ASSUME NEW n \in 2..Len(stack') PROVE Calls(attrs', stack'[n], stack'[n - 1])
      <3>1. /\ n \in 1..Len(stack') /\ n - 1 \in 1..Len(stack') /\ (n - 1) + 1 = n
            /\ n + 1 \in 2..Len(stack) /\ (n + 1) - 1 = n
        BY <1>1, <2>1
      <3>2. stack'[n] = stack[n + 1] /\ stack'[n - 1] = stack[n]
        BY <1>1, <3>1
      <3> QED
        BY <1>0, <3>1, <3>2 DEF StableInv, FramesCalled
    <2> QED
      BY <2>1 DEF FramesCalled
  <1>10. Descends(rank)'
    <2>1. ASSUME NEW m \in 1..Len(stack'), NEW n \in 1..Len(stack'), m < n
          PROVE  rank[stack'[m].key] < rank[stack'[n].key]
      <3>1. /\ m + 1 \in 1..Len(stack) /\ n + 1 \in 1..Len(stack) /\ m + 1 < n + 1
            /\ stack'[m] = stack[m + 1] /\ stack'[n] = stack[n + 1]
        BY <1>1, <1>2, <2>1
      <3> QED
        BY <3>1 DEF StableInv, Descends
    <2> QED
      BY <2>1 DEF Descends
  <1>11. Thrown'
    <2>1. SUFFICES ASSUME throwing', Top'.job # 0
                   PROVE  jobs'[Top'.job].status = "resolving"
      BY DEF Thrown
    <2>2. stack' # <<>>
      BY <1>0, <2>1 DEF Unwind
    <2>3. 1 \in 1..Len(stack') /\ Top' = stack'[1]
      <3>1. stack' \in Seq(Frame)
        BY <1>0, <1>1, PopFrame
      <3>2. Len(stack') \in Nat \ {0} /\ Head(stack') = stack'[1]
        BY <2>2, <3>1, PopFrame
      <3> QED
        BY <3>2 DEF Top
    <2>4. 1 + 1 = 2
      OBVIOUS
    <2>5. 2 \in 1..Len(stack) /\ Top' = stack[2]
      BY <1>1, <1>2, <2>3, <2>4
    <2>6. jobs[stack[2].job].status = "resolving" /\ stack[2].job \in Jobs
      BY <2>1, <2>5, FrameIs DEF AwaitInv, FrameInv, FramesResolving
    <2>7. stack[2].job # Top.job
      <3>1. 1 \in 1..Len(stack)
        BY <1>1
      <3> QED
        BY <1>1, <2>1, <2>5, <3>1 DEF AwaitInv, FrameInv, FramesDistinct
    <2> QED
      BY <1>3, <2>5, <2>6, <2>7
  <1> QED
    BY <1>5, <1>6, <1>7, <1>8, <1>9, <1>10, <1>11 DEF StableInv

(* A step of the walk returns, or leaves the attributes alone. *)
LEMMA WalkReturns ==
    ASSUME Solid, TypeOK, AwaitInv, PlaceInv, NEW rank \in [Keys -> Nat],
           StableInv(rank), SyncStep
    PROVE  Returns \/ Begin \/ Construct \/ InjectNext \/ ThrowSync \/ Unwind
  BY MissingReturns, NoProxy, ServeReturns, BuildReturns, CatchReturns DEF SyncStep, StableInv

LEMMA WalkStable ==
    ASSUME Solid, TypeOK, AwaitInv, MadeInv, PlaceInv, NEW rank \in [Keys -> Nat],
           Ranks(rank), StableInv(rank), SyncStep
    PROVE  StableInv(rank)'
  BY WalkReturns, ReturnStable, BeginStable, ConstructStable, InjectStable, ThrowStable,
     UnwindStable

(* Between calls it is enough to look at the attributes. *)
LEMMA IdleStable ==
    ASSUME NEW rank, stack' = <<>>, ~throwing',
           AttrsKnown', JobsKnown', CachesKeyed', CachesLinked'
    PROVE  StableInv(rank)'
  <1>1. Len(stack') = 0
    OBVIOUS
  <1>2. FramesStable' /\ FramesCalled' /\ Descends(rank)' /\ Thrown'
    BY <1>1 DEF FramesStable, FramesCalled, Descends, Thrown
  <1> QED
    BY <1>2 DEF StableInv

LEMMA SettleStable ==
    ASSUME TypeOK, MadeInv, NEW rank, StableInv(rank), NEW j \in Jobs, Settle(j)
    PROVE  StableInv(rank)'
  <1>1. /\ stack = <<>> /\ UNCHANGED <<attrs, nextReg, stack, throwing>>
        /\ jobs[j].status = "awaiting" /\ jobs'[j].status \in {"built", "failed"}
        /\ \A i \in Jobs : i # j => jobs'[i] = jobs[i]
        /\ jobs'[j].args = jobs[j].args
        /\ jobs'[j].key = jobs[j].key /\ jobs'[j].needs = jobs[j].needs
        /\ jobs'[j].seen = jobs[j].seen
    BY SettleJobs
  <1>2. Continues(jobs, jobs')
    BY <1>1 DEF Continues
  <1>3. \A i \in Jobs : jobs[i].status \in Out =>
           jobs'[i].status \in Out /\ jobs'[i].args = jobs[i].args
    BY <1>1 DEF Out
  <1>4. CachesKeyed' /\ CachesLinked'
    BY <1>1, <1>2, <1>3, CachesStay
  <1>5. AttrsKnown' /\ JobsKnown'
    BY <1>1 DEF StableInv, AttrsKnown, JobsKnown
  <1>6. ~throwing' /\ stack' = <<>>
    BY <1>1 DEF TypeOK
  <1> QED
    BY <1>4, <1>5, <1>6, IdleStable

(* A context that has the registrations and the caches of another one has   *)
(* its links.                                                               *)
LEMMA CopyStable ==
    ASSUME TypeOK, OnlySingletons, CachesKeyed, CachesLinked, NEW bs, NEW c, NEW d \in Contexts,
           \A m \in Keys :
              \/ bs[c][m] = attrs[d][m]
              \/ bs[c][m].reg = 0 /\ attrs[d][m].reg = 0 /\ bs[c][m].cached = Nil,
           NEW k \in Keys
    PROVE  KeyedAt(bs, jobs, c, k) /\ LinkedAt(bs, jobs, c, k)
  <1>1. ASSUME NEW m \in Keys
        PROVE  /\ bs[c][m].reg = attrs[d][m].reg
               /\ bs[c][m].cached = attrs[d][m].cached
    <2>1. attrs[d][m].reg = 0 => attrs[d][m].cached = Nil
      BY DEF OnlySingletons, Caching, Registered
    <2> QED
      BY <2>1
  <1>2. Intact(bs, jobs, c) \subseteq Intact(attrs, jobs, d)
    <2> DEFINE I == Intact(bs, jobs, c)
    <2>1. I \subseteq Jobs /\ AllIntact(bs, jobs, c, I)
      BY IntactClosed
    <2> HIDE DEF I
    <2>2. ASSUME NEW i \in I PROVE Unspoilt(attrs, jobs, d, i)
      <3>1. jobs[i] \in Job
        BY <2>1 DEF TypeOK
      <3>2. \A m \in jobs[i].needs \cup {jobs[i].key} : m \in Keys
        BY <3>1 DEF Job
      <3>3. Unspoilt(bs, jobs, c, i)
        BY <2>1 DEF AllIntact
      <3> QED
        BY <1>1, <3>2, <3>3 DEF Unspoilt
    <2>3. AllIntact(attrs, jobs, d, I)
      BY <2>1, <2>2 DEF AllIntact
    <2> QED
      BY <2>1, <2>3, IntactClosed DEF I
  <1>3. CASE bs[c][k].cached = Nil
    <2>1. bs[c][k].cached.job \notin Jobs
      BY <1>3 DEF Nil, Jobs
    <2>2. bs[c][k].cached.job \notin Intact(bs, jobs, c)
      BY <2>1, IntactClosed
    <2> QED
      BY <1>3, <2>2 DEF KeyedAt, LinkedAt
  <1>4. CASE bs[c][k].cached # Nil
    <2> DEFINE j == attrs[d][k].cached.job
    <2>1. bs[c][k] = attrs[d][k]
      BY <1>4
    <2>2. Injects(bs[c], k) = Injects(attrs[d], k)
      BY <2>1, Zenon DEF Injects
    <2>3. KeyedAt(bs, jobs, c, k)
      <3>1. jobs[j].status \in Out /\ Of(attrs, jobs, d, k, j)
        BY <1>4, <2>1 DEF CachesKeyed, KeyedAt
      <3> QED
        BY <2>1, <2>2, <3>1 DEF KeyedAt, Of
    <2>4. ASSUME j \in Intact(bs, jobs, c)
          PROVE  /\ Len(jobs[j].args) = Len(bs[c][k].recipe.inject)
                 /\ Linked(bs, jobs, c, k, jobs[j].args)
      <3> DEFINE args == jobs[j].args
      <3>1. /\ Len(args) = Len(attrs[d][k].recipe.inject)
            /\ Linked(attrs, jobs, d, k, args)
        BY <1>2, <2>4 DEF CachesLinked, LinkedAt
      <3> HIDE DEF args
      <3>2. ASSUME NEW i \in 1..Len(args)
            PROVE  Link(bs, jobs, c, bs[c][k].recipe.inject[i], args[i])
        <4> DEFINE m == attrs[d][k].recipe.inject[i]
        <4>1. m \in Keys /\ Link(attrs, jobs, d, m, args[i])
          BY <3>1, AttributeIs DEF Linked
        <4> HIDE DEF m
        <4>2. Link(bs, jobs, c, m, args[i])
          <5>1. Single(bs, c, m) => Single(attrs, d, m)
            BY <4>1 DEF Single
          <5> QED
            BY <1>1, <1>2, <4>1, <5>1 DEF Link
        <4> QED
          BY <2>1, <4>2 DEF m
      <3>3. Linked(bs, jobs, c, k, args)
        BY <3>2 DEF Linked
      <3> QED
        BY <2>1, <3>1, <3>3 DEF args
    <2>5. LinkedAt(bs, jobs, c, k)
      BY <2>1, <2>4 DEF LinkedAt
    <2> QED
      BY <2>3, <2>5
  <1> QED
    BY <1>3, <1>4

(* Key k of context c gets another registration: a key that injects one     *)
(* whose cache is emptied has its own cache emptied.                        *)
Replaces(c, k) ==
    /\ stack = <<>> /\ UNCHANGED <<jobs, stack, throwing>> /\ nextReg' = nextReg + 1
    /\ \A x \in Contexts : x # c => attrs'[x] = attrs[x]
    /\ attrs'[c][k].reg = nextReg /\ attrs'[c][k].recipe \in Recipes(k)
    /\ attrs'[c][k].cached = Nil
    /\ \A m \in Keys \ {k} :
         /\ attrs'[c][m].reg = attrs[c][m].reg /\ attrs'[c][m].recipe = attrs[c][m].recipe
         /\ attrs'[c][m].cached \in {Nil, attrs[c][m].cached}
         /\ \A p \in Injects(attrs[c], m) \ {k} :
              attrs'[c][p].cached = attrs[c][p].cached \/ attrs'[c][m].cached = Nil

LEMMA ReplaceCaches ==
    ASSUME TypeOK, MadeInv, PlaceInv, NEW rank, StableInv(rank),
           NEW c \in Contexts, NEW k \in Keys, Replaces(c, k), NEW m \in Keys
    PROVE  KeyedAt(attrs', jobs', c, m) /\ LinkedAt(attrs', jobs', c, m)
  <1>1. CASE attrs'[c][m].cached = Nil
    <2>1. attrs'[c][m].cached.job \notin Jobs
      BY <1>1 DEF Nil, Jobs
    <2>2. attrs'[c][m].cached.job \notin Intact(attrs', jobs', c)
      BY <2>1, IntactClosed
    <2> QED
      BY <1>1, <2>2 DEF KeyedAt, LinkedAt
  <1>2. CASE attrs'[c][m].cached # Nil
    <2> DEFINE j == attrs[c][m].cached.job
               args == jobs[j].args
    <2>1. /\ m # k /\ attrs'[c][m].cached = attrs[c][m].cached
          /\ attrs'[c][m].reg = attrs[c][m].reg /\ attrs'[c][m].recipe = attrs[c][m].recipe
          /\ \A p \in Injects(attrs[c], m) \ {k} : attrs'[c][p].cached = attrs[c][p].cached
          /\ attrs[c][m].cached # Nil /\ jobs' = jobs
      BY <1>2 DEF Replaces
    <2>2. /\ j \in Jobs /\ jobs[j].status \in Out /\ Of(attrs, jobs, c, m, j)
          /\ attrs[c][m].reg # 0 /\ jobs[j].status # "free"
      <3>1. jobs[j].status \in Out /\ Of(attrs, jobs, c, m, j)
        BY <2>1 DEF StableInv, CachesKeyed, KeyedAt
      <3>2. Began(attrs[c][m].cached)
        BY BeganIs
      <3>3. attrs[c][m].reg # 0
        BY <2>1 DEF PlaceInv, OnlySingletons, Caching, Registered
      <3> QED
        BY <2>1, <3>1, <3>2, <3>3 DEF Began
    <2>3. KeyedAt(attrs', jobs', c, m)
      <3>1. Injects(attrs'[c], m) = Injects(attrs[c], m)
        BY <2>1, Zenon DEF Injects
      <3> QED
        BY <2>1, <2>2, <3>1 DEF KeyedAt, Of
    <2>4. ASSUME NEW i \in Intact(attrs', jobs, c), jobs[i].status # "free"
          PROVE  i \in Intact(attrs, jobs, c)
      <3>1. \A p \in Keys : attrs'[c][p].reg \in {attrs[c][p].reg, nextReg}
        BY DEF Replaces
      <3>2. Continues(jobs, jobs)
        BY DEF Continues
      <3> QED
        BY <2>4, <3>1, <3>2, IntactShrinks DEF StableInv
    <2>5. ASSUME j \in Intact(attrs', jobs, c)
          PROVE  Len(args) = Len(attrs[c][m].recipe.inject) /\ Linked(attrs', jobs, c, m, args)
      <3>1. Len(args) = Len(attrs[c][m].recipe.inject) /\ Linked(attrs, jobs, c, m, args)
        BY <2>2, <2>4, <2>5 DEF StableInv, CachesLinked, LinkedAt
      <3>2. k \notin jobs[j].needs
        <4>1. ASSUME k \in jobs[j].needs PROVE FALSE
          <5>1. jobs[j].seen[k] = nextReg
            BY <2>5, <4>1, IntactClosed DEF AllIntact, Unspoilt, Replaces
          <5>2. jobs[j].seen[k] < nextReg /\ nextReg \in Nat
            BY <2>2, ContainerAssumption DEF StableInv, JobsKnown, TypeOK, ContainerAssumption
          <5> QED
            BY <5>1, <5>2
        <4> QED
          BY <4>1
      <3>3. jobs[j].needs = Elems(attrs[c][m].recipe.inject)
        BY <2>2, AttributeIs DEF Of
      <3>4. \A i \in 1..Len(args) : Began(args[i])
        BY <2>2, BeganIs DEF Elems
      <3> HIDE DEF args
      <3>5. ASSUME NEW i \in 1..Len(args)
            PROVE  Link(attrs', jobs, c, attrs'[c][m].recipe.inject[i], args[i])
        <4> DEFINE p == attrs[c][m].recipe.inject[i]
        <4>1. /\ p \in Keys /\ p \in Elems(attrs[c][m].recipe.inject)
              /\ Link(attrs, jobs, c, p, args[i]) /\ Began(args[i])
          BY <3>1, <3>4, AttributeIs DEF Linked
        <4> HIDE DEF p
        <4>2. p # k /\ p \in Injects(attrs[c], m)
          BY <2>2, <3>2, <3>3, <4>1 DEF Of
        <4>3. /\ attrs'[c][p].reg = attrs[c][p].reg /\ attrs'[c][p].recipe = attrs[c][p].recipe
              /\ attrs'[c][p].cached = attrs[c][p].cached
          BY <2>1, <4>1, <4>2 DEF Replaces
        <4>4. args[i] # Nil /\ args[i].job \in Intact(attrs', jobs, c)
                => args[i].job \in Intact(attrs, jobs, c)
          BY <2>4, <4>1 DEF Began
        <4>5. Single(attrs', c, p) => Single(attrs, c, p)
          BY <4>3 DEF Single
        <4>6. Link(attrs', jobs, c, p, args[i])
          BY <4>1, <4>3, <4>4, <4>5 DEF Link
        <4> QED
          BY <2>1, <4>6 DEF p
      <3> QED
        BY <3>1, <3>5 DEF Linked
    <2>6. LinkedAt(attrs', jobs', c, m)
      BY <2>1, <2>5 DEF LinkedAt
    <2> QED
      BY <2>3, <2>6
  <1> QED
    BY <1>1, <1>2

LEMMA ReplaceStable ==
    ASSUME TypeOK, MadeInv, PlaceInv, NEW rank, StableInv(rank),
           NEW c \in Contexts, NEW k \in Keys, Replaces(c, k)
    PROVE  StableInv(rank)'
  <1>1. /\ nextReg \in Nat /\ nextReg' = nextReg + 1 /\ jobs' = jobs
        /\ \A j \in Jobs : \A m \in Keys : jobs[j].seen[m] \in Nat
        /\ \A x \in Contexts, m \in Keys : attrs[x][m].reg \in Nat
    <2>1. nextReg \in Nat /\ MaxRegs \in Nat
      BY ContainerAssumption DEF TypeOK, ContainerAssumption
    <2>2. ASSUME NEW j \in Jobs, NEW m \in Keys PROVE jobs[j].seen[m] \in Nat
      <3>1. jobs[j] \in Job
        BY DEF TypeOK
      <3>2. jobs[j].seen[m] \in 0..MaxRegs
        BY <3>1 DEF Job
      <3> QED
        BY <2>1, <3>2
    <2>3. ASSUME NEW x \in Contexts, NEW m \in Keys PROVE attrs[x][m].reg \in Nat
      <3>1. attrs[x][m] \in Attribute
        BY DEF TypeOK
      <3>2. attrs[x][m].reg \in 0..MaxRegs
        BY <3>1 DEF Attribute
      <3> QED
        BY <2>1, <3>2
    <2> QED
      BY <2>1, <2>2, <2>3 DEF Replaces
  <1>2. JobsKnown'
    <2>1. ASSUME NEW j \in Jobs, jobs[j].status # "free", NEW m \in Keys
          PROVE  jobs[j].seen[m] < nextReg'
      <3>1. jobs[j].seen[m] < nextReg
        BY <2>1 DEF StableInv, JobsKnown
      <3> QED
        BY <1>1, <3>1
    <2> QED
      BY <1>1, <2>1 DEF StableInv, JobsKnown
  <1>3. AttrsKnown'
    <2>1. ASSUME NEW x \in Contexts, NEW m \in Keys
          PROVE  attrs'[x][m].recipe \in Recipes(m) /\ attrs'[x][m].reg < nextReg'
      <3>1. attrs[x][m].recipe \in Recipes(m) /\ attrs[x][m].reg < nextReg
        BY DEF StableInv, AttrsKnown
      <3>2. CASE x = c /\ m = k
        BY <1>1, <3>2 DEF Replaces
      <3>3. CASE ~(x = c /\ m = k)
        <4>1. attrs'[x][m].recipe = attrs[x][m].recipe /\ attrs'[x][m].reg = attrs[x][m].reg
          BY <3>3 DEF Replaces
        <4> QED
          BY <1>1, <3>1, <4>1
      <3> QED
        BY <3>2, <3>3
    <2> QED
      BY <2>1 DEF AttrsKnown
  <1>4. ASSUME NEW x \in Contexts, NEW m \in Keys
        PROVE  KeyedAt(attrs', jobs', x, m) /\ LinkedAt(attrs', jobs', x, m)
    <2>1. CASE x = c
      BY <2>1, ReplaceCaches
    <2>2. CASE x # c
      <3>1. attrs'[x] = attrs[x]
        BY <2>2 DEF Replaces
      <3> QED
        BY <1>1, <3>1, CopyStable DEF StableInv, PlaceInv
    <2> QED
      BY <2>1, <2>2
  <1>5. CachesKeyed' /\ CachesLinked'
    BY <1>4 DEF CachesKeyed, CachesLinked
  <1>6. stack' = <<>> /\ ~throwing'
    BY DEF Replaces, TypeOK
  <1> QED
    BY <1>2, <1>3, <1>5, <1>6, IdleStable

LEMMA RegisterStable ==
    ASSUME TypeOK, MadeInv, PlaceInv, NEW rank, StableInv(rank),
           NEW c \in Contexts, NEW k \in Keys, Register(c, k) \/ Provide(c, k)
    PROVE  StableInv(rank)'
  <1> DEFINE add(r) == AddDep(c, k, r)
  <1>1. ASSUME NEW r, NEW m \in Keys
        PROVE  add(r)[m] = IF m = k THEN [reg |-> nextReg, recipe |-> r, cached |-> Nil]
                                    ELSE attrs[c][m]
    BY <1>1 DEF AddDep, TypeOK
  <1>2. /\ stack = <<>> /\ UNCHANGED <<jobs, stack, throwing>> /\ nextReg' = nextReg + 1
    BY DEF Register, Provide, Idle
  <1> HIDE DEF add
  <1>3. CASE Provide(c, k)
    <2>1. /\ attrs'[c] = add(ValueRecipe)
          /\ \A x \in Contexts : x # c => attrs'[x] = attrs[x]
      BY <1>3 DEF Provide, TypeOK, add
    <2>2. ValueRecipe \in Recipes(k)
      BY DEF Recipes
    <2>3. /\ attrs'[c][k].reg = nextReg /\ attrs'[c][k].recipe = ValueRecipe
          /\ attrs'[c][k].cached = Nil
          /\ \A m \in Keys \ {k} : attrs'[c][m] = attrs[c][m]
      <3>1. attrs'[c][k] = [reg |-> nextReg, recipe |-> ValueRecipe, cached |-> Nil]
        BY <1>1, <2>1
      <3>2. \A m \in Keys \ {k} : attrs'[c][m] = attrs[c][m]
        BY <1>1, <2>1
      <3> QED
        BY <3>1, <3>2
    <2>4. \A m \in Keys : Injects(attrs[c], m) \subseteq Keys
      <3>1. ASSUME NEW m \in Keys PROVE Injects(attrs[c], m) \subseteq Keys
        <4>1. \A i \in 1..Len(attrs[c][m].recipe.inject) : attrs[c][m].recipe.inject[i] \in Keys
          BY AttributeIs
        <4> QED
          BY <4>1 DEF Injects, Elems
      <3> QED
        BY <3>1
    <2>5. Replaces(c, k)
      BY <1>2, <2>1, <2>2, <2>3, <2>4 DEF Replaces
    <2> QED
      BY <2>5, ReplaceStable
  <1>4. CASE Register(c, k)
    <2>1. PICK r \in Registers[c][k] :
             attrs' = [attrs EXCEPT ![c] = Invalidate(c, k, add(r))]
      BY <1>4 DEF Register, add
    <2> DEFINE as == add(r)
    <2>2. /\ attrs'[c] = Invalidate(c, k, as)
          /\ \A x \in Contexts : x # c => attrs'[x] = attrs[x]
      BY <2>1 DEF TypeOK
    <2>3. \A m \in Keys : as[m] = IF m = k THEN [reg |-> nextReg, recipe |-> r, cached |-> Nil]
                                           ELSE attrs[c][m]
      BY <1>1
    <2> HIDE DEF as
    <2>4. \A m \in Keys : attrs'[c][m] = IF Registered(c, k) /\ m \in Dependents(as, k)
                                         THEN [as[m] EXCEPT !.cached = Nil] ELSE as[m]
      BY <2>2 DEF Invalidate
    <2>5. r \in Recipes(k)
      BY DEF Recipes
    <2>6. /\ attrs'[c][k].reg = nextReg /\ attrs'[c][k].recipe = r
          /\ attrs'[c][k].cached = Nil
      <3> DEFINE x == [reg |-> nextReg, recipe |-> r, cached |-> Nil]
      <3>1. attrs'[c][k] = [x EXCEPT !.cached = Nil] \/ attrs'[c][k] = x
        <4>1. as[k] = x
          BY <2>3
        <4> HIDE DEF x
        <4> QED
          BY <2>4, <4>1
      <3> QED
        BY <3>1
    <2>7. ASSUME NEW m \in Keys \ {k}
          PROVE  /\ attrs'[c][m].reg = attrs[c][m].reg
                 /\ attrs'[c][m].recipe = attrs[c][m].recipe
                 /\ attrs'[c][m].cached =
                      IF Registered(c, k) /\ m \in Dependents(as, k)
                      THEN Nil ELSE attrs[c][m].cached
      <3>1. attrs[c][m] \in Attribute /\ as[m] = attrs[c][m]
        BY <2>3 DEF TypeOK
      <3> QED
        BY <2>4, <3>1 DEF Attribute
    <2>8. ASSUME NEW m \in Keys \ {k}, NEW p \in Injects(attrs[c], m) \ {k}
          PROVE  attrs'[c][p].cached = attrs[c][p].cached \/ attrs'[c][m].cached = Nil
      <3>1. p \in Keys
        <4>1. \A i \in 1..Len(attrs[c][m].recipe.inject) : attrs[c][m].recipe.inject[i] \in Keys
          BY AttributeIs
        <4> QED
          BY <2>8, <4>1 DEF Injects, Elems
      <3>2. as[m] = attrs[c][m]
        BY <2>3
      <3>3. Injects(as, m) = Injects(attrs[c], m)
        BY <3>2, Zenon DEF Injects
      <3>4. CASE Registered(c, k) /\ p \in Dependents(as, k)
        <4>1. Injects(as, m) \cap (Dependents(as, k) \cup {k}) # {}
          BY <2>8, <3>3, <3>4
        <4>2. m \in Dependents(as, k)
          BY <4>1, DependentsClosed
        <4> QED
          BY <2>7, <3>4, <4>2
      <3>5. CASE ~(Registered(c, k) /\ p \in Dependents(as, k))
        BY <2>7, <3>1, <3>5
      <3> QED
        BY <3>4, <3>5
    <2>9. Replaces(c, k)
      <3>1. \A m \in Keys \ {k} : attrs'[c][m].cached \in {Nil, attrs[c][m].cached}
        BY <2>7
      <3> QED
        BY <1>2, <2>2, <2>5, <2>6, <2>7, <2>8, <3>1 DEF Replaces
    <2> QED
      BY <2>9, ReplaceStable
  <1> QED
    BY <1>3, <1>4

LEMMA ExtendStable ==
    ASSUME TypeOK, PlaceInv, ~Merging, NEW rank, StableInv(rank),
           NEW c \in Contexts, NEW d \in Contexts, Extend(c, d)
    PROVE  StableInv(rank)'
  <1>1. /\ jobs' = jobs /\ nextReg' = nextReg /\ stack' = <<>> /\ ~throwing'
        /\ \A k \in Keys : attrs[c][k].reg = 0
    BY DEF Extend, Idle, TypeOK, Registered
  <1>2. \A x \in Contexts : x # c => attrs'[x] = attrs[x]
    BY DEF Extend, TypeOK
  <1>3. \A k \in Keys : attrs'[c][k] = IF attrs[d][k].reg # 0 THEN attrs[d][k] ELSE attrs[c][k]
    BY DEF Extend, TypeOK, Registered
  <1>4. \A k \in Keys : attrs[c][k].cached = Nil
    BY <1>1 DEF PlaceInv, OnlySingletons, Caching, Registered
  <1>5. AttrsKnown'
    <2>1. ASSUME NEW x \in Contexts, NEW k \in Keys
          PROVE  \E y \in Contexts : attrs'[x][k] = attrs[y][k]
      BY <1>2, <1>3
    <2> QED
      BY <1>1, <2>1 DEF StableInv, AttrsKnown
  <1>6. ASSUME NEW x \in Contexts, NEW k \in Keys
        PROVE  KeyedAt(attrs', jobs', x, k) /\ LinkedAt(attrs', jobs', x, k)
    <2>1. CASE x # c
      <3>1. attrs'[x] = attrs[x]
        BY <1>2, <2>1
      <3> QED
        BY <1>1, <3>1, CopyStable DEF StableInv, PlaceInv
    <2>2. CASE x = c
      <3>1. \A m \in Keys :
              \/ attrs'[c][m] = attrs[d][m]
              \/ attrs'[c][m].reg = 0 /\ attrs[d][m].reg = 0 /\ attrs'[c][m].cached = Nil
        BY <1>1, <1>3, <1>4
      <3>2. KeyedAt(attrs', jobs, c, k) /\ LinkedAt(attrs', jobs, c, k)
        BY <3>1, CopyStable DEF StableInv, PlaceInv
      <3> QED
        BY <1>1, <2>2, <3>2
    <2> QED
      BY <2>1, <2>2
  <1>7. CachesKeyed' /\ CachesLinked'
    BY <1>6 DEF CachesKeyed, CachesLinked
  <1>8. JobsKnown'
    BY <1>1 DEF StableInv, JobsKnown
  <1> QED
    BY <1>1, <1>5, <1>7, <1>8, IdleStable

LEMMA StepStable ==
    ASSUME Solid, ~Merging, TypeOK, AwaitInv, MadeInv, PlaceInv,
           NEW rank \in [Keys -> Nat], Ranks(rank), StableInv(rank), [Next]_vars
    PROVE  StableInv(rank)'
  <1>1. ASSUME UNCHANGED <<attrs, nextReg, stack, jobs, throwing>>
        PROVE  StableInv(rank)'
    <2>1. Top' = Top
      BY <1>1 DEF Top
    <2>2. Thrown'
      BY <1>1, <2>1 DEF StableInv, Thrown
    <2> QED
      BY <1>1, <2>2 DEF StableInv, AttrsKnown, JobsKnown, CachesKeyed, CachesLinked,
                        FramesStable, FramesCalled, Descends
  <1>2. ASSUME NEW c \in Contexts, NEW k \in Keys, Resolve(c, k) \/ InitializeEager(c)
        PROVE  StableInv(rank)'
    BY <1>1, <1>2 DEF Resolve, InitializeEager
  <1>3. CASE Rest \/ UNCHANGED vars
    BY <1>1, <1>3 DEF Rest, vars
  <1>4. Keys # {}
    BY ContainerAssumption DEF ContainerAssumption
  <1> QED
    BY <1>2, <1>3, <1>4, RegisterStable, ExtendStable, SettleStable, WalkStable DEF Next

(* The links between the cached values are invariant. *)
LEMMA StableInvAlways ==
    ASSUME Solid, ~Merging, NEW rank \in [Keys -> Nat], Ranks(rank)
    PROVE  Spec => []StableInv(rank)
  <1>1. Init => StableInv(rank)
    <2> SUFFICES ASSUME Init PROVE StableInv(rank)
      OBVIOUS
    <2>1. stack = <<>> /\ Len(stack) = 0 /\ \A j \in Jobs : jobs[j].status = "free"
      BY DEF Init, NoJob
    <2>2. PICK boot \in Boots :
             attrs = [c \in Contexts |-> [k \in Keys |->
                        IF c = App /\ k \in DOMAIN boot
                        THEN [reg |-> 1, recipe |-> boot[k], cached |-> Nil]
                        ELSE Unregistered]]
      BY DEF Init
    <2>3. ASSUME NEW c \in Contexts, NEW k \in Keys
          PROVE  /\ attrs[c][k].recipe \in Recipes(k) /\ attrs[c][k].reg < nextReg
                 /\ attrs[c][k].cached = Nil
      <3>1. ValueRecipe \in Recipes(k) /\ (k \in DOMAIN boot => boot[k] \in Recipes(k))
        BY DEF Recipes
      <3>2. nextReg = 2
        BY DEF Init
      <3> QED
        BY <2>2, <3>1, <3>2 DEF Unregistered
    <2>4. ASSUME NEW c \in Contexts, NEW k \in Keys
          PROVE  attrs[c][k].cached.job \notin Intact(attrs, jobs, c)
      <3>1. attrs[c][k].cached.job \notin Jobs
        BY <2>3 DEF Nil, Jobs
      <3> QED
        BY <3>1, IntactClosed
    <2>5. CachesKeyed /\ CachesLinked
      BY <2>3, <2>4 DEF CachesKeyed, CachesLinked, KeyedAt, LinkedAt
    <2>6. Thrown
      BY DEF Init, Thrown
    <2> QED
      BY <2>1, <2>3, <2>5, <2>6 DEF StableInv, AttrsKnown, JobsKnown, FramesStable,
                                    FramesCalled, Descends
  <1>2. TypeOK /\ AwaitInv /\ MadeInv /\ PlaceInv /\ StableInv(rank) /\ [Next]_vars
          => StableInv(rank)'
    BY StepStable
  <1> QED
    BY <1>1, <1>2, TypeCorrect, AwaitInvAlways, MadeInvAlways, PlaceInvAlways, PTL DEF Spec

(* Parts is closed under what its members got injected: as long as it is    *)
(* not, it grows, and it cannot outgrow the constructions there are.        *)
LEMMA PartsWhole ==
    ASSUME NEW j \in Jobs, \A i \in Jobs : ArgJobs(i) \subseteq Jobs
    PROVE  /\ j \in Parts(j) /\ Parts(j) \subseteq Jobs
           /\ \A i \in Parts(j) : ArgJobs(i) \subseteq Parts(j)
  <1> DEFINE more(s) == s \cup UNION {ArgJobs(i) : i \in s}
  <1>1. MaxJobs \in Nat
    BY ContainerAssumption DEF ContainerAssumption
  <1>2. \A s \in SUBSET Jobs : more(s) \in SUBSET Jobs /\ s \subseteq more(s)
    OBVIOUS
  <1>3. \A s \in SUBSET Jobs : more(s) \subseteq s => \A i \in s : ArgJobs(i) \subseteq s
    OBVIOUS
  <1>4. \E reach \in [0..MaxJobs -> SUBSET Jobs] :
           /\ reach[0] = {j} /\ Parts(j) = reach[MaxJobs]
           /\ \A n \in 1..MaxJobs : reach[n] = more(reach[n - 1])
    <2>1. Jobs \in SUBSET Jobs
      OBVIOUS
    <2> QED
      BY <2>1, PartsReach, Zenon
  <1> HIDE DEF more
  <1>5. PICK reach \in [0..MaxJobs -> SUBSET Jobs] :
           /\ reach[0] = {j} /\ Parts(j) = reach[MaxJobs]
           /\ \A n \in 1..MaxJobs : reach[n] = more(reach[n - 1])
    BY <1>4
  <1>6. IsFiniteSet(Jobs) /\ Cardinality(Jobs) = MaxJobs
    <2>1. IsFiniteSet(1..MaxJobs) /\ Cardinality(1..MaxJobs) = MaxJobs
      <3>1. 1 \in Int /\ MaxJobs \in Int
        BY <1>1
      <3> QED
        BY <1>1, <3>1, FS_Interval
    <2> QED
      BY <2>1 DEF Jobs
  <1> DEFINE S == {n \in 0..MaxJobs :
                     /\ reach[n] \subseteq Jobs /\ j \in reach[n]
                     /\ more(reach[n]) \subseteq reach[n] \/ Cardinality(reach[n]) > n}
  <1>7. 0 \in S
    <2>1. Cardinality({j}) = 1
      BY FS_Singleton
    <2>2. /\ 0 \in 0..MaxJobs /\ reach[0] \subseteq Jobs /\ j \in reach[0]
          /\ Cardinality(reach[0]) > 0
      BY <1>1, <1>5, <2>1
    <2> QED
      BY <2>2
  <1>8. ASSUME NEW n \in 1..MaxJobs, n - 1 \in S PROVE n \in S
    <2> DEFINE s == reach[n - 1]
    <2>1. reach[n] = more(s) /\ s \in SUBSET Jobs /\ j \in s /\ n \in 0..MaxJobs
      BY <1>1, <1>5, <1>8
    <2>2. s \subseteq more(s) /\ more(s) \subseteq Jobs
      BY <1>2, <2>1
    <2>3. CASE more(s) \subseteq s
      <3>1. reach[n] = s
        BY <2>1, <2>2, <2>3
      <3> HIDE DEF s
      <3> QED
        BY <2>1, <2>3, <3>1
    <2>4. CASE ~(more(s) \subseteq s)
      <3>1. Cardinality(s) > n - 1
        BY <1>8, <2>4
      <3> HIDE DEF s
      <3>2. IsFiniteSet(more(s))
        BY <1>6, <2>2, FS_Subset
      <3>3. /\ Cardinality(s) <= Cardinality(more(s))
            /\ Cardinality(s) = Cardinality(more(s)) => s = more(s)
        BY <2>2, <3>2, FS_Subset
      <3>4. Cardinality(s) \in Nat /\ Cardinality(more(s)) \in Nat
        <4>1. IsFiniteSet(s)
          BY <2>2, <3>2, FS_Subset
        <4> QED
          BY <3>2, <4>1, FS_CardinalityType
      <3>5. Cardinality(s) # Cardinality(more(s))
        BY <2>4, <3>3
      <3> DEFINE x == Cardinality(s)
                 y == Cardinality(more(s))
      <3>6. x \in Nat /\ y \in Nat /\ x > n - 1 /\ x <= y /\ x # y
        BY <3>1, <3>3, <3>4, <3>5
      <3> HIDE DEF x, y
      <3>7. y > n
        BY <3>6
      <3> QED
        BY <2>1, <2>2, <3>7 DEF y
    <2> QED
      BY <2>3, <2>4
  <1> HIDE DEF S
  <1>9. 0..MaxJobs \subseteq S
    BY <1>1, <1>7, <1>8, UpTo
  <1>10. MaxJobs \in S
    BY <1>1, <1>9
  <1> DEFINE P == reach[MaxJobs]
  <1>11. /\ P \subseteq Jobs /\ j \in P
         /\ more(P) \subseteq P \/ Cardinality(P) > MaxJobs
    BY <1>10 DEF S
  <1> HIDE DEF P
  <1>12. ~(Cardinality(P) > MaxJobs)
    <2>1. Cardinality(P) <= MaxJobs /\ IsFiniteSet(P)
      BY <1>6, <1>11, FS_Subset
    <2>2. Cardinality(P) \in Nat
      BY <2>1, FS_CardinalityType
    <2> QED
      BY <1>1, <2>1, <2>2
  <1> QED
    BY <1>5, <1>3, <1>11, <1>12 DEF P

LEMMA PartsIntact ==
    ASSUME MadeInv, NEW c \in Contexts, NEW j \in Jobs, ~Outdated(c, j),
           \A i \in Parts(j) : jobs[i].status # "failed"
    PROVE  j \in Intact(attrs, jobs, c)
  <1>1. ASSUME NEW i \in Jobs, NEW v \in Elems(jobs[i].args), v # Nil
        PROVE  v.job \in Jobs /\ v.job \in ArgJobs(i)
    <2>1. v.job \in Jobs
      BY <1>1 DEF MadeInv, ArgsMade, Made
    <2> QED
      BY <2>1 DEF ArgJobs, Jobs
  <1>2. ASSUME NEW i \in Jobs PROVE ArgJobs(i) \subseteq Jobs
    <2>1. ASSUME NEW v \in Elems(jobs[i].args), v.job # 0 PROVE v # Nil
      BY <2>1 DEF Nil
    <2> QED
      BY <1>1, <2>1 DEF ArgJobs
  <1>3. /\ j \in Parts(j) /\ Parts(j) \subseteq Jobs
        /\ \A i \in Parts(j) : ArgJobs(i) \subseteq Parts(j)
    BY <1>2, PartsWhole
  <1>4. AllIntact(attrs, jobs, c, Parts(j))
    <2>1. ASSUME NEW i \in Parts(j) PROVE Unspoilt(attrs, jobs, c, i)
      BY DEF Unspoilt, Outdated
    <2>2. ASSUME NEW i \in Parts(j), NEW v \in Elems(jobs[i].args), v # Nil
          PROVE  v.job \in Parts(j)
      BY <1>1, <1>3, <2>2
    <2> QED
      BY <2>1, <2>2 DEF AllIntact
  <1> QED
    BY <1>3, <1>4, IntactClosed

(* What is cached has all its registrations in place, and none of what it   *)
(* was made from has failed.                                                *)
Whole ==
    \A c \in Contexts, k \in Keys : attrs[c][k].cached # Nil =>
        /\ ~Outdated(c, attrs[c][k].cached.job)
        /\ \A i \in Parts(attrs[c][k].cached.job) : jobs[i].status # "failed"

(* In a dependency graph without circles, whose singletons are never        *)
(* undefined, whoever injected a singleton holds the instance that the      *)
(* cache holds (_resolveValue, lines 763-811), as long as nothing in the    *)
(* holder is outdated or has failed.                                        *)
THEOREM SharedAlways ==
    ASSUME Layered, Solid, ~Merging
    PROVE  Spec => [](Whole => SharedInstances)
  <1>1. PICK rank \in [Keys -> Nat] : Ranks(rank)
    BY DEF Layered
  <1>2. TypeOK /\ MadeInv /\ StableInv(rank) => (Whole => SharedInstances)
    <2> SUFFICES ASSUME TypeOK, MadeInv, StableInv(rank), Whole,
                        NEW c \in Contexts, NEW k \in Keys, NEW m \in Keys,
                        attrs[c][k].cached # Nil, Caching(c, m),
                        NEW i \in 1..Len(jobs[attrs[c][k].cached.job].args),
                        attrs[c][k].recipe.inject[i] = m,
                        jobs[attrs[c][k].cached.job].args[i] # Nil
                 PROVE  jobs[attrs[c][k].cached.job].args[i].job = attrs[c][m].cached.job
      BY DEF SharedInstances
    <2> DEFINE j == attrs[c][k].cached.job
               v == jobs[j].args[i]
    <2>1. j \in Jobs
      BY BeganIs DEF Began
    <2>2. j \in Intact(attrs, jobs, c)
      BY <2>1, PartsIntact DEF Whole
    <2>3. v.job \in Intact(attrs, jobs, c)
      <3>1. v \in Elems(jobs[j].args)
        BY DEF Elems
      <3> QED
        BY <2>2, <3>1, IntactClosed DEF AllIntact
    <2>4. Link(attrs, jobs, c, m, v)
      BY <2>2 DEF StableInv, CachesLinked, LinkedAt, Linked
    <2>5. Single(attrs, c, m)
      BY AttributeIs
    <2> QED
      BY <2>3, <2>4, <2>5 DEF Link
  <1> QED
    BY <1>1, <1>2, StableInvAlways, TypeCorrect, MadeInvAlways, PTL

LEMMA StepExchanges ==
    ASSUME Solid, ~Merging, TypeOK, AwaitInv, MadeInv, PlaceInv,
           NEW rank \in [Keys -> Nat], StableInv(rank), Next,
           NEW c \in Contexts, NEW k \in Keys,
           attrs[c][k].cached.job \in Intact(attrs, jobs, c)
    PROVE  attrs'[c][k].cached \in {Nil, attrs[c][k].cached}
  <1>1. attrs[c][k].cached # Nil
    BY AttributeIs, IntactClosed
  <1>2. CASE SyncStep
    <2>1. CASE Returns
      <3>1. PICK v \in Value : Deliver(v) /\ Ends(v)
        BY <2>1 DEF Returns
      <3>2. Exchanges
        BY <2>1, <3>1, EndKeeps DEF Returns, StableInv
      <3> QED
        BY <3>2 DEF Exchanges
    <2>2. CASE Begin \/ Construct \/ InjectNext \/ ThrowSync \/ Unwind
      <3>1. attrs' = attrs
        BY <2>2 DEF Begin, Construct, InjectNext, ThrowSync, Unwind
      <3> QED
        BY <3>1
    <2> QED
      BY <1>2, <2>1, <2>2, WalkReturns
  <1>3. ASSUME NEW d \in Contexts, NEW m \in Keys, Register(d, m) \/ Provide(d, m)
        PROVE  attrs'[c][k].cached \in {Nil, attrs[c][k].cached}
    <2>1. attrs'[c][k].cached = Nil \/ attrs'[c][k] = attrs[c][k]
      BY <1>3, CallCaches
    <2> QED
      BY <2>1
  <1>4. ASSUME NEW d \in Contexts, NEW e \in Contexts, Extend(d, e)
        PROVE  attrs'[c][k].cached \in {Nil, attrs[c][k].cached}
    <2>1. Registered(c, k)
      BY <1>1 DEF PlaceInv, OnlySingletons, Caching
    <2>2. c # d
      BY <1>4, <2>1 DEF Extend
    <2>3. attrs'[c] = attrs[c]
      BY <1>4, <2>2 DEF Extend, TypeOK
    <2> QED
      BY <2>3
  <1>5. ASSUME attrs' = attrs
        PROVE  attrs'[c][k].cached \in {Nil, attrs[c][k].cached}
    BY <1>5
  <1>6. ASSUME NEW d \in Contexts, NEW m \in Keys,
               Resolve(d, m) \/ InitializeEager(d)
        PROVE  attrs' = attrs
    BY <1>6 DEF Resolve, InitializeEager
  <1>7. ASSUME NEW j \in Jobs, Settle(j) PROVE attrs' = attrs
    BY <1>7, SettleJobs
  <1>8. Rest => attrs' = attrs
    BY DEF Rest, vars
  <1>9. Keys # {}
    BY ContainerAssumption DEF ContainerAssumption
  <1> QED
    BY <1>2, <1>3, <1>4, <1>5, <1>6, <1>7, <1>8, <1>9 DEF Next

(* In a dependency graph without circles, whose singletons are never        *)
(* undefined, no cached singleton is exchanged for another instance unless  *)
(* something it was made from is outdated or has failed (the cache check of *)
(* lines 691-716 is complete).                                              *)
THEOREM SingletonStableAlways ==
    ASSUME Layered, Solid, ~Merging
    PROVE  Spec => SingletonStable
  <1>1. PICK rank \in [Keys -> Nat] : Ranks(rank)
    BY DEF Layered
  <1>2. ASSUME TypeOK, AwaitInv, MadeInv, PlaceInv, StableInv(rank), [Next]_vars
        PROVE  [SingletonStep]_vars
    <2> SUFFICES ASSUME Next PROVE SingletonStep
      BY <1>2
    <2> SUFFICES ASSUME NEW c \in Contexts, NEW k \in Keys,
                        attrs[c][k].cached # Nil, attrs'[c][k].cached # Nil,
                        attrs[c][k].cached.job # attrs'[c][k].cached.job
                 PROVE  \/ Outdated(c, attrs[c][k].cached.job)
                        \/ \E i \in Parts(attrs[c][k].cached.job) : jobs[i].status = "failed"
      BY DEF SingletonStep
    <2>1. attrs[c][k].cached.job \notin Intact(attrs, jobs, c)
      BY <1>1, <1>2, StepExchanges
    <2>2. attrs[c][k].cached.job \in Jobs
      BY <1>2, BeganIs DEF Began
    <2> QED
      BY <1>2, <2>1, <2>2, PartsIntact
  <1>3. TypeOK /\ AwaitInv /\ MadeInv /\ PlaceInv /\ StableInv(rank) /\ [Next]_vars
          => [SingletonStep]_vars
    BY <1>2
  <1> QED
    BY <1>1, <1>3, StableInvAlways, TypeCorrect, AwaitInvAlways, MadeInvAlways,
       PlaceInvAlways, PTL DEF Spec, SingletonStable
==============================================================================
