------------------------------ MODULE RedisQueue ------------------------------
(***************************************************************************)
(* The work queue of @declaro/redis: pushMessage and onFulfillMessage of   *)
(* lib/redis/src/redis/queue.ts.                                           *)
(*                                                                         *)
(* A channel is a list in Redis.  A process pushes over the connection all *)
(* of its code shares (useRedis), which sends commands in order and does   *)
(* not wait between them.  Every onFulfillMessage has a connection of its  *)
(* own and loops: block until a message comes or the timeout passes, call  *)
(* the handler, and when that fails push the message back, which nobody    *)
(* awaits.  A process may end at any time, and an unhandled rejection ends *)
(* it.                                                                     *)
(*                                                                         *)
(* The operators whose names end in Mut are slips the properties are there *)
(* to catch; no definition uses them.                                      *)
(***************************************************************************)
EXTENDS Naturals, Sequences, SequencesExt

CONSTANTS
    Channels,
    Workers,
    Consumers,     \* calls of onFulfillMessage
    Home,          \* Home[c]: the process consumer c runs in
    Channel,       \* Channel[c]: the channel it reads
    Messages,      \* the payloads; each is pushed by one call of pushMessage
    Nothing,       \* stands for a message when brpop timed out
    ChannelLists,  \* the sequences of channels pushMessage is called with
    Faulty,        \* the payloads whose handler may fail, perhaps Nothing too
    MaxDepth,      \* bound: encodings of a text that are told apart
    MaxFailures    \* bound: processes that end and pushes that fail

ASSUME RedisQueueAssumption ==
    /\ Home \in [Consumers -> Workers]
    /\ Channel \in [Consumers -> Channels]
    /\ Nothing \notin Messages
    /\ ChannelLists \subseteq Seq(Channels)
    /\ \A chs \in ChannelLists : IsInjective(chs)
    /\ Faulty \subseteq Messages \cup {Nothing}
    /\ MaxDepth \in Nat /\ MaxFailures \in Nat

VARIABLES
    lists,      \* lists[ch]: the list of the channel; LPUSH adds at its head
    wire,       \* wire[p]: the commands p has sent and Redis not yet executed
    up,         \* up[p]: the process runs
    consumers,  \* consumers[c]: what the loop of c is doing
    copies,     \* the <<m, ch>> that were handed to pushMessage
    handled,    \* handled[m][ch]: calls of a handler that succeeded
    lost,       \* the <<m, ch>> that went down with a process or a push
    failures    \* processes ended and pushes failed so far

queueVars == <<lists, wire, up, consumers, copies, handled, lost, failures>>

-----------------------------------------------------------------------------
(* A text on a list is a payload that was encoded as JSON depth + 1 times.  *)
Text == [msg : Messages \cup {Nothing}, depth : 0..MaxDepth]

Fresh(m) == [msg |-> m, depth |-> 0]

(* pushMessage encodes what it is given.                                    *)
Encode(text) ==
    [text EXCEPT !.depth = IF @ < MaxDepth THEN @ + 1 ELSE @]

Command == [to : Channels, text : Text, back : BOOLEAN]

Idle == [phase |-> "blocked", text |-> Fresh(Nothing)]
Gone == [phase |-> "ended", text |-> Fresh(Nothing)]

QueueInit ==
    /\ lists = [ch \in Channels |-> <<>>]
    /\ wire = [p \in Workers |-> <<>>]
    /\ up = [p \in Workers |-> TRUE]
    /\ consumers = [c \in Consumers |-> Idle]
    /\ copies = {}
    /\ handled = [m \in Messages |-> [ch \in Channels |-> 0]]
    /\ lost = {}
    /\ failures = 0

-----------------------------------------------------------------------------
(* pushMessage: one LPUSH per channel on the shared connection.             *)
PushMessage(p, m, chs) ==
    /\ up[p]
    /\ \A ch \in Channels : <<m, ch>> \notin copies
    /\ wire' = [wire EXCEPT ![p] = @ \o
         [i \in 1..Len(chs) |-> [to |-> chs[i], text |-> Fresh(m), back |-> FALSE]]]
    /\ copies' = copies \cup {<<m, chs[i]>> : i \in 1..Len(chs)}
    /\ UNCHANGED <<lists, up, consumers, handled, lost, failures>>

ExecuteMut(p) ==
    /\ wire[p] # <<>>
    /\ LET cmd == Head(wire[p])
       IN lists' = [lists EXCEPT ![cmd.to] = Append(@, cmd.text)]
    /\ wire' = [wire EXCEPT ![p] = Tail(@)]
    /\ UNCHANGED <<up, consumers, copies, handled, lost, failures>>

(* Redis executes the next LPUSH of a connection.                           *)
Execute(p) ==
    /\ wire[p] # <<>>
    /\ LET cmd == Head(wire[p])
       IN lists' = [lists EXCEPT ![cmd.to] = <<cmd.text>> \o @]
    /\ wire' = [wire EXCEPT ![p] = Tail(@)]
    /\ UNCHANGED <<up, consumers, copies, handled, lost, failures>>

-----------------------------------------------------------------------------
(* The loop of onFulfillMessage. *)

PopMut(c) ==
    /\ consumers[c].phase = "blocked"
    /\ lists[Channel[c]] # <<>>
    /\ consumers' = [consumers EXCEPT
         ![c] = [phase |-> "handling", text |-> Last(lists[Channel[c]])]]
    /\ UNCHANGED <<lists, wire, up, copies, handled, lost, failures>>

(* BRPOP answers with the last element of the list, and removes it.         *)
Pop(c) ==
    /\ consumers[c].phase = "blocked"
    /\ lists[Channel[c]] # <<>>
    /\ consumers' = [consumers EXCEPT
         ![c] = [phase |-> "handling", text |-> Last(lists[Channel[c]])]]
    /\ lists' = [lists EXCEPT ![Channel[c]] = Front(@)]
    /\ UNCHANGED <<wire, up, copies, handled, lost, failures>>

(* BRPOP answers with null: the list has been empty for as long as the      *)
(* timeout takes, which is long enough for the commands that were on their  *)
(* way.  The handler is called all the same, without a message.             *)
TimeOut(c) ==
    /\ consumers[c].phase = "blocked"
    /\ lists[Channel[c]] = <<>> /\ \A p \in Workers : wire[p] = <<>>
    /\ consumers' = [consumers EXCEPT
         ![c] = [phase |-> "handling", text |-> Fresh(Nothing)]]
    /\ UNCHANGED <<lists, wire, up, copies, handled, lost, failures>>

(* The handler returns. *)
Fulfil(c) ==
    /\ consumers[c].phase = "handling"
    /\ consumers' = [consumers EXCEPT ![c] = Idle]
    /\ handled' = IF consumers[c].text.msg = Nothing THEN handled
                  ELSE [handled EXCEPT ![consumers[c].text.msg][Channel[c]] = @ + 1]
    /\ UNCHANGED <<lists, wire, up, copies, lost, failures>>

(* The handler fails: the text that came from the list is pushed, encoded   *)
(* again, and the loop goes on without waiting for that.                    *)
PushBack(c) ==
    /\ consumers[c].phase = "handling"
    /\ consumers[c].text.msg \in Faulty
    /\ consumers' = [consumers EXCEPT ![c] = Idle]
    /\ wire' = [wire EXCEPT ![Home[c]] =
         Append(@, [to |-> Channel[c], text |-> Encode(consumers[c].text), back |-> TRUE])]
    /\ UNCHANGED <<lists, up, copies, handled, lost, failures>>

-----------------------------------------------------------------------------
(* Faults. *)

Residents(p) == {c \in Consumers : Home[c] = p}

(* The copies a process holds: in the hands of its handlers, on its wire.   *)
HeldBy(p) ==
    ({<<consumers[c].text.msg, Channel[c]>> : c \in Residents(p)}
        \cup {<<wire[p][i].text.msg, wire[p][i].to>> : i \in 1..Len(wire[p])})
    \ ({Nothing} \X Channels)

ProcessEndedMut(p) ==
    /\ up' = [up EXCEPT ![p] = FALSE]
    /\ consumers' = [c \in Consumers |-> IF c \in Residents(p) THEN Gone
                                         ELSE consumers[c]]
    /\ lost' = lost \cup HeldBy(p)
    /\ failures' = failures + 1
    /\ UNCHANGED <<lists, wire, copies, handled>>

(* The process ends: its handlers stop, its commands are dropped.           *)
ProcessEnded(p) ==
    /\ up' = [up EXCEPT ![p] = FALSE]
    /\ wire' = [wire EXCEPT ![p] = <<>>]
    /\ consumers' = [c \in Consumers |-> IF c \in Residents(p) THEN Gone
                                         ELSE consumers[c]]
    /\ lost' = lost \cup HeldBy(p)
    /\ failures' = failures + 1
    /\ UNCHANGED <<lists, copies, handled>>

(* The process is killed; what was on its wire is not executed.             *)
Crash(p) == up[p] /\ failures < MaxFailures /\ ProcessEnded(p)

(* An LPUSH is refused.  The caller of pushMessage is told; nobody handles  *)
(* the rejection of a message that was being pushed back.                   *)
RefusePush(p) ==
    /\ wire[p] # <<>> /\ failures < MaxFailures
    /\ LET cmd == Head(wire[p])
       IN IF cmd.back THEN ProcessEnded(p)
          ELSE /\ wire' = [wire EXCEPT ![p] = Tail(@)]
               /\ lost' = lost \cup {<<cmd.text.msg, cmd.to>>}
               /\ failures' = failures + 1
               /\ UNCHANGED <<lists, up, consumers, copies, handled>>

(* The process starts anew and calls onFulfillMessage again.                *)
Restart(p) ==
    /\ ~up[p]
    /\ up' = [up EXCEPT ![p] = TRUE]
    /\ consumers' = [c \in Consumers |-> IF c \in Residents(p) THEN Idle
                                         ELSE consumers[c]]
    /\ UNCHANGED <<lists, wire, copies, handled, lost, failures>>

-----------------------------------------------------------------------------
Loop(c) == Pop(c) \/ TimeOut(c) \/ Fulfil(c) \/ PushBack(c)

QueueNext ==
    \/ \E p \in Workers, m \in Messages, chs \in ChannelLists : PushMessage(p, m, chs)
    \/ \E p \in Workers : Execute(p) \/ Crash(p) \/ RefusePush(p) \/ Restart(p)
    \/ \E c \in Consumers : Loop(c)

(* Redis answers, handlers settle, and the loop is resumed.                 *)
QueueSpec ==
    /\ QueueInit /\ [][QueueNext]_queueVars
    /\ \A p \in Workers : WF_queueVars(Execute(p))
    /\ \A c \in Consumers : WF_queueVars(Loop(c))

-----------------------------------------------------------------------------
(* Properties. *)

(* The state is well formed; a process that has ended holds nothing.        *)
TypeOK ==
    /\ lists \in [Channels -> Seq(Text)]
    /\ wire \in [Workers -> Seq(Command)]
    /\ up \in [Workers -> BOOLEAN]
    /\ consumers \in [Consumers -> [phase : {"blocked", "handling", "ended"},
                                    text : Text]]
    /\ copies \subseteq Messages \X Channels /\ lost \subseteq copies
    /\ handled \in [Messages -> [Channels -> Nat]]
    /\ failures \in 0..MaxFailures
    /\ \A p \in Workers : ~up[p] => wire[p] = <<>>
    /\ \A c \in Consumers : consumers[c].phase = "ended" <=> ~up[Home[c]]

(* Where a copy is: on the list, on a wire, in the hands of a handler.      *)
OnList(m, ch) == {i \in 1..Len(lists[ch]) : lists[ch][i].msg = m}

OnWire(m, ch) ==
    UNION {{<<p, i>> : i \in {i \in 1..Len(wire[p]) :
                wire[p][i].to = ch /\ wire[p][i].text.msg = m}} : p \in Workers}

InHand(m, ch) == {c \in Consumers : Channel[c] = ch /\ consumers[c].text.msg = m}

(* Every message pushed is, on every channel it was pushed to, in exactly   *)
(* one place: waiting, under way, with one handler, handled once, or lost   *)
(* with a process that ended or a push that was refused ("only processed    *)
(* once", "pushed back to the queue", lines 24-25).                         *)
Conserved ==
    \A m \in Messages, ch \in Channels :
        Cardinality(OnList(m, ch)) + Cardinality(OnWire(m, ch))
            + Cardinality(InHand(m, ch)) + handled[m][ch]
            + Cardinality(lost \cap {<<m, ch>>}) = Cardinality(copies \cap {<<m, ch>>})

(* A message on the list is taken as long as somebody reads the channel,    *)
(* whatever else is pushed and however often another message fails and is   *)
(* pushed back (the list is a queue: LPUSH and BRPOP).                      *)
Attended(ch) == \E c \in Consumers : Channel[c] = ch /\ consumers[c].phase # "ended"

Served ==
    \A m \in Messages, ch \in Channels :
        OnList(m, ch) # {} ~> (OnList(m, ch) = {} \/ ~Attended(ch))

(* A handler is called with the payload that was pushed (the message that   *)
(* failed "will be pushed back to the queue", line 25).                     *)
SamePayload ==
    \A c \in Consumers : consumers[c].text.msg \in Messages => consumers[c].text.depth = 0
=============================================================================
