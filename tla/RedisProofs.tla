------------------------------ MODULE RedisProofs ------------------------------
(* What is proved of the two ways processes reach each other through Redis. *)
(*                                                                          *)
(* Of RedisQueue, for any processes, channels, consumers and messages: the  *)
(* state stays well formed, and no message is lost or doubled on its way    *)
(* from pushMessage to a handler, whatever fails.                           *)
(*                                                                          *)
(* Of Nodes, for any processes, jobs, loads and faults: code finds the      *)
(* context of its own request, a change of a setting that no other one      *)
(* overlapped is kept, and the events the processes hear of each other are  *)
(* the broadcast of Broadcast.                                              *)
EXTENDS Nodes, RedisQueue, SequenceTheorems, FiniteSetTheorems, TLAPS

-----------------------------------------------------------------------------
(* Types. *)

Consumer == [phase : {"blocked", "handling", "ended"}, text : Text]

(* TypeOK but for what is lost, and what a consumer holds that handles      *)
(* nothing, and what pushMessage pushes.                                    *)
QueueTypes ==
    /\ lists \in [Channels -> Seq(Text)]
    /\ wire \in [Workers -> Seq(Command)]
    /\ up \in [Workers -> BOOLEAN]
    /\ consumers \in [Consumers -> Consumer]
    /\ copies \subseteq Messages \X Channels
    /\ handled \in [Messages -> [Channels -> Nat]]
    /\ failures \in 0..MaxFailures
    /\ \A p \in Workers :
         /\ ~up[p] => wire[p] = <<>>
         /\ \A i \in 1..Len(wire[p]) : wire[p][i].back = FALSE => wire[p][i].text.msg \in Messages
    /\ \A c \in Consumers :
         /\ consumers[c].phase = "ended" <=> ~up[Home[c]]
         /\ consumers[c].phase # "handling" => consumers[c].text = Fresh(Nothing)

LEMMA Constants ==
    /\ Home \in [Consumers -> Workers] /\ Channel \in [Consumers -> Channels]
    /\ Nothing \notin Messages /\ MaxDepth \in Nat /\ MaxFailures \in Nat
    /\ \A chs \in ChannelLists :
         /\ chs \in Seq(Channels) /\ Len(chs) \in Nat
         /\ \A i \in 1..Len(chs) : chs[i] \in Channels
         /\ \A i, j \in 1..Len(chs) : chs[i] = chs[j] => i = j
  BY RedisQueueAssumption, LenProperties DEF RedisQueueAssumption, IsInjective

LEMMA TextsAre ==
    /\ \A m \in Messages \cup {Nothing} : Fresh(m) \in Text /\ Fresh(m).msg = m
    /\ \A t \in Text : Encode(t) \in Text /\ Encode(t).msg = t.msg
    /\ Idle \in Consumer /\ Gone \in Consumer
  <1>1. \A m \in Messages \cup {Nothing} : Fresh(m) \in Text /\ Fresh(m).msg = m
    BY Constants DEF Fresh, Text
  <1>2. ASSUME NEW t \in Text PROVE Encode(t) \in Text /\ Encode(t).msg = t.msg
    BY Constants DEF Encode, Text
  <1>3. Idle \in Consumer /\ Gone \in Consumer
    BY <1>1 DEF Idle, Gone, Consumer
  <1> QED
    BY <1>1, <1>2, <1>3

LEMMA QueueInitTypes == QueueInit => QueueTypes
  <1> SUFFICES ASSUME QueueInit PROVE QueueTypes
    OBVIOUS
  <1>1. <<>> \in Seq(Text) /\ <<>> \in Seq(Command) /\ Len(<<>>) = 0
    BY EmptySeq
  <1>2. /\ lists \in [Channels -> Seq(Text)]
        /\ wire \in [Workers -> Seq(Command)]
        /\ up \in [Workers -> BOOLEAN]
        /\ copies \subseteq Messages \X Channels
        /\ handled \in [Messages -> [Channels -> Nat]]
        /\ failures \in 0..MaxFailures
    BY <1>1, Constants DEF QueueInit
  <1>3. consumers \in [Consumers -> Consumer]
    BY TextsAre DEF QueueInit
  <1>4. \A p \in Workers : up[p] /\ Len(wire[p]) = 0
    BY <1>1 DEF QueueInit
  <1>5. \A c \in Consumers : consumers[c].phase = "blocked"
                               /\ consumers[c].text = Fresh(Nothing)
    BY DEF QueueInit, Idle
  <1> QED
    BY <1>2, <1>3, <1>4, <1>5, Constants DEF QueueTypes

(* What a step of the loop of a consumer leaves well formed. *)
LEMMA LoopTypes ==
    ASSUME QueueTypes, NEW c \in Consumers, NEW after \in Consumer,
           consumers[c].phase # "ended", after.phase # "ended",
           after.phase # "handling" => after.text = Fresh(Nothing),
           consumers' = [consumers EXCEPT ![c] = after], UNCHANGED up
    PROVE  /\ consumers' \in [Consumers -> Consumer]
           /\ \A d \in Consumers :
                /\ consumers'[d].phase = "ended" <=> ~up'[Home[d]]
                /\ consumers'[d].phase # "handling" => consumers'[d].text = Fresh(Nothing)
  BY DEF QueueTypes

(* A wire that loses its first command, or gets one more. *)
LEMMA TailTypes ==
    ASSUME QueueTypes, NEW p \in Workers, wire[p] # <<>>,
           wire' = [wire EXCEPT ![p] = Tail(@)], UNCHANGED up
    PROVE  /\ wire' \in [Workers -> Seq(Command)]
           /\ Head(wire[p]) \in Command /\ Head(wire[p]) = wire[p][1]
           /\ Len(wire[p]) \in Nat \ {0}
           /\ \A q \in Workers :
                /\ ~up'[q] => wire'[q] = <<>>
                /\ \A i \in 1..Len(wire'[q]) :
                     wire'[q][i].back = FALSE => wire'[q][i].text.msg \in Messages
  <1> DEFINE rest == Tail(wire[p])
  <1>1. wire[p] \in Seq(Command)
    BY DEF QueueTypes
  <1>2. /\ rest \in Seq(Command) /\ Len(wire[p]) \in Nat \ {0}
        /\ Len(rest) = Len(wire[p]) - 1
        /\ \A i \in 1..Len(rest) : rest[i] = wire[p][i + 1]
        /\ Head(wire[p]) \in Command /\ Head(wire[p]) = wire[p][1]
    BY <1>1, HeadTailProperties, EmptySeq
  <1>3. wire' = [wire EXCEPT ![p] = rest] /\ wire \in [Workers -> Seq(Command)]
    BY DEF QueueTypes
  <1> HIDE DEF rest
  <1>4. \A i \in 1..Len(rest) : rest[i].back = FALSE => rest[i].text.msg \in Messages
    <2>1. \A i \in 1..Len(wire[p]) : wire[p][i].back = FALSE => wire[p][i].text.msg \in Messages
      BY DEF QueueTypes
    <2>2. \A i \in 1..Len(rest) : i + 1 \in 1..Len(wire[p]) /\ rest[i] = wire[p][i + 1]
      BY <1>2
    <2> QED
      BY <2>1, <2>2
  <1>5. up[p]
    BY DEF QueueTypes
  <1>6. wire' \in [Workers -> Seq(Command)]
    BY <1>2, <1>3
  <1>7. ASSUME NEW q \in Workers
        PROVE  /\ ~up'[q] => wire'[q] = <<>>
               /\ \A i \in 1..Len(wire'[q]) :
                    wire'[q][i].back = FALSE => wire'[q][i].text.msg \in Messages
    BY <1>3, <1>4, <1>5 DEF QueueTypes
  <1> QED
    BY <1>2, <1>6, <1>7

LEMMA AppendTypes ==
    ASSUME QueueTypes, NEW p \in Workers, up[p], NEW s \in Seq(Command),
           \A i \in 1..Len(s) : s[i].back = FALSE => s[i].text.msg \in Messages,
           wire' = [wire EXCEPT ![p] = @ \o s], UNCHANGED up
    PROVE  /\ wire' \in [Workers -> Seq(Command)]
           /\ \A q \in Workers :
                /\ ~up'[q] => wire'[q] = <<>>
                /\ \A i \in 1..Len(wire'[q]) :
                     wire'[q][i].back = FALSE => wire'[q][i].text.msg \in Messages
  <1> DEFINE all == wire[p] \o s
  <1>1. wire[p] \in Seq(Command) /\ Len(wire[p]) \in Nat /\ Len(s) \in Nat
    BY LenProperties DEF QueueTypes
  <1>2. /\ all \in Seq(Command) /\ Len(all) = Len(wire[p]) + Len(s)
        /\ \A i \in 1..Len(all) :
             all[i] = IF i <= Len(wire[p]) THEN wire[p][i] ELSE s[i - Len(wire[p])]
    BY <1>1, ConcatProperties
  <1>3. wire' = [wire EXCEPT ![p] = all] /\ wire \in [Workers -> Seq(Command)]
    BY DEF QueueTypes
  <1> HIDE DEF all
  <1>4. ASSUME NEW i \in 1..Len(all), all[i].back = FALSE PROVE all[i].text.msg \in Messages
    <2>1. CASE i <= Len(wire[p])
      <3>1. i \in 1..Len(wire[p]) /\ all[i] = wire[p][i]
        BY <1>1, <1>2, <2>1
      <3> QED
        BY <1>4, <3>1 DEF QueueTypes
    <2>2. CASE i > Len(wire[p])
      <3>1. i - Len(wire[p]) \in 1..Len(s) /\ all[i] = s[i - Len(wire[p])]
        BY <1>1, <1>2, <2>2
      <3> QED
        BY <1>4, <3>1
    <2> QED
      BY <1>1, <1>2, <2>1, <2>2
  <1>5. wire' \in [Workers -> Seq(Command)]
    BY <1>2, <1>3
  <1>6. ASSUME NEW q \in Workers
        PROVE  /\ ~up'[q] => wire'[q] = <<>>
               /\ \A i \in 1..Len(wire'[q]) :
                    wire'[q][i].back = FALSE => wire'[q][i].text.msg \in Messages
    BY <1>3, <1>4 DEF QueueTypes
  <1> QED
    BY <1>5, <1>6

LEMMA PushMessageTypes ==
    ASSUME QueueTypes, NEW p \in Workers, NEW m \in Messages, NEW chs \in ChannelLists,
           PushMessage(p, m, chs)
    PROVE  QueueTypes'
  <1> DEFINE s == [i \in 1..Len(chs) |-> [to |-> chs[i], text |-> Fresh(m), back |-> FALSE]]
  <1>1. /\ Len(chs) \in Nat /\ \A i \in 1..Len(chs) : chs[i] \in Channels
    BY Constants
  <1>2. \A i \in 1..Len(chs) : [to |-> chs[i], text |-> Fresh(m), back |-> FALSE] \in Command
    BY <1>1, TextsAre DEF Command
  <1>3. s \in Seq(Command) /\ Len(s) = Len(chs)
    BY <1>1, <1>2
  <1>4. \A i \in 1..Len(s) : s[i].text.msg \in Messages
    BY <1>3, TextsAre
  <1>5. up[p] /\ wire' = [wire EXCEPT ![p] = @ \o s]
        /\ UNCHANGED <<lists, up, consumers, handled, failures>>
        /\ copies' \subseteq Messages \X Channels
    BY <1>1 DEF PushMessage, QueueTypes
  <1> HIDE DEF s
  <1> QED
    BY <1>3, <1>4, <1>5, AppendTypes DEF QueueTypes

LEMMA ExecuteTypes ==
    ASSUME QueueTypes, NEW p \in Workers, Execute(p)
    PROVE  QueueTypes'
  <1> DEFINE cmd == Head(wire[p])
  <1>1. /\ wire[p] # <<>> /\ wire' = [wire EXCEPT ![p] = Tail(@)]
        /\ UNCHANGED <<up, consumers, copies, handled, failures>>
        /\ lists' = [lists EXCEPT ![cmd.to] = <<cmd.text>> \o @]
    BY DEF Execute
  <1>2. cmd \in Command
    BY <1>1, TailTypes
  <1>3. cmd.to \in Channels /\ cmd.text \in Text /\ <<cmd.text>> \in Seq(Text)
    BY <1>2 DEF Command
  <1> HIDE DEF cmd
  <1>4. <<cmd.text>> \o lists[cmd.to] \in Seq(Text)
    BY <1>3, ConcatProperties DEF QueueTypes
  <1>5. lists' \in [Channels -> Seq(Text)]
    BY <1>1, <1>4 DEF QueueTypes
  <1> QED
    BY <1>1, <1>5, TailTypes DEF QueueTypes

LEMMA ConsumerTypes ==
    ASSUME QueueTypes, NEW c \in Consumers, Loop(c)
    PROVE  QueueTypes'
  <1>1. /\ Home[c] \in Workers /\ Channel[c] \in Channels
        /\ consumers[c] \in Consumer /\ consumers[c].text \in Text
        /\ lists[Channel[c]] \in Seq(Text)
    BY Constants DEF QueueTypes, Consumer
  <1>2. CASE Pop(c)
    <2> DEFINE after == [phase |-> "handling", text |-> Last(lists[Channel[c]])]
               front == Front(lists[Channel[c]])
    <2>1. /\ consumers[c].phase = "blocked" /\ consumers' = [consumers EXCEPT ![c] = after]
          /\ lists' = [lists EXCEPT ![Channel[c]] = front] /\ lists[Channel[c]] # <<>>
          /\ UNCHANGED <<wire, up, copies, handled, failures>>
      BY <1>2 DEF Pop
    <2>2. Len(lists[Channel[c]]) \in Nat \ {0}
      BY <1>1, <2>1, EmptySeq
    <2>3. lists[Channel[c]][Len(lists[Channel[c]])] \in Text
      BY <1>1, <2>2, ElementOfSeq
    <2>4. after \in Consumer
      BY <2>3 DEF Consumer, Last
    <2>5. front \in Seq(Text)
      <3>1. \A i \in 1..(Len(lists[Channel[c]]) - 1) : lists[Channel[c]][i] \in Text
        BY <1>1, <2>2, ElementOfSeq
      <3> QED
        BY <2>2, <3>1, SubSeqProperties DEF Front
    <2>6. after.phase = "handling"
      OBVIOUS
    <2> HIDE DEF after, front
    <2>7. lists' \in [Channels -> Seq(Text)]
      BY <1>1, <2>1, <2>5 DEF QueueTypes
    <2> QED
      BY <1>1, <2>1, <2>4, <2>6, <2>7, LoopTypes DEF QueueTypes
  <1>3. CASE TimeOut(c)
    <2> DEFINE after == [phase |-> "handling", text |-> Fresh(Nothing)]
    <2>1. after \in Consumer /\ after.phase = "handling"
      BY TextsAre DEF Consumer
    <2>2. /\ consumers[c].phase = "blocked" /\ consumers' = [consumers EXCEPT ![c] = after]
          /\ UNCHANGED <<lists, wire, up, copies, handled, failures>>
      BY <1>3 DEF TimeOut
    <2> HIDE DEF after
    <2> QED
      BY <2>1, <2>2, LoopTypes DEF QueueTypes
  <1>4. Idle \in Consumer /\ Idle.phase = "blocked" /\ Idle.text = Fresh(Nothing)
    BY TextsAre DEF Idle
  <1>5. CASE Fulfil(c)
    <2>1. /\ consumers[c].phase = "handling" /\ consumers' = [consumers EXCEPT ![c] = Idle]
          /\ UNCHANGED <<lists, wire, up, copies, failures>>
      BY <1>5 DEF Fulfil
    <2>2. handled' \in [Messages -> [Channels -> Nat]]
      <3>1. CASE consumers[c].text.msg = Nothing
        BY <1>5, <3>1 DEF Fulfil, QueueTypes
      <3>2. CASE consumers[c].text.msg # Nothing
        <4>1. consumers[c].text.msg \in Messages
          BY <1>1, <3>2 DEF Text
        <4> QED
          BY <1>1, <1>5, <3>2, <4>1 DEF Fulfil, QueueTypes
      <3> QED
        BY <3>1, <3>2
    <2> QED
      BY <1>4, <2>1, <2>2, LoopTypes DEF QueueTypes
  <1>6. CASE PushBack(c)
    <2> DEFINE cmd == [to |-> Channel[c], text |-> Encode(consumers[c].text), back |-> TRUE]
    <2>1. /\ consumers[c].phase = "handling" /\ consumers' = [consumers EXCEPT ![c] = Idle]
          /\ wire' = [wire EXCEPT ![Home[c]] = Append(@, cmd)]
          /\ UNCHANGED <<lists, up, copies, handled, failures>>
      BY <1>6 DEF PushBack
    <2>2. cmd \in Command /\ cmd.back
      BY <1>1, TextsAre DEF Command
    <2>3. up[Home[c]]
      BY <2>1 DEF QueueTypes
    <2> HIDE DEF cmd
    <2>4. wire[Home[c]] \in Seq(Command) /\ <<cmd>> \in Seq(Command)
          /\ Len(<<cmd>>) = 1 /\ <<cmd>>[1] = cmd
      BY <1>1, <2>2 DEF QueueTypes
    <2>5. wire' = [wire EXCEPT ![Home[c]] = @ \o <<cmd>>]
      BY <2>1, <2>2, <2>4, AppendIsConcat
    <2>6. \A i \in 1..Len(<<cmd>>) : <<cmd>>[i].back = FALSE => <<cmd>>[i].text.msg \in Messages
      BY <2>2, <2>4
    <2> QED
      BY <1>1, <1>4, <2>1, <2>3, <2>4, <2>5, <2>6, AppendTypes, LoopTypes DEF QueueTypes
  <1> QED
    BY <1>2, <1>3, <1>5, <1>6 DEF Loop

LEMMA EndedTypes ==
    ASSUME QueueTypes, NEW p \in Workers, ProcessEnded(p), failures < MaxFailures
    PROVE  QueueTypes'
  <1>1. /\ up' = [up EXCEPT ![p] = FALSE] /\ wire' = [wire EXCEPT ![p] = <<>>]
        /\ failures' = failures + 1 /\ UNCHANGED <<lists, copies, handled>>
        /\ consumers' = [c \in Consumers |-> IF Home[c] = p THEN Gone ELSE consumers[c]]
    BY DEF ProcessEnded, Residents
  <1>2. consumers' \in [Consumers -> Consumer]
    BY <1>1, TextsAre DEF QueueTypes
  <1>3. <<>> \in Seq(Command) /\ Len(<<>>) = 0
    BY EmptySeq
  <1>4. failures' \in 0..MaxFailures
    BY <1>1, Constants DEF QueueTypes
  <1>5. ASSUME NEW c \in Consumers
        PROVE  /\ consumers'[c].phase = "ended" <=> ~up'[Home[c]]
               /\ consumers'[c].phase # "handling" => consumers'[c].text = Fresh(Nothing)
    BY <1>1, Constants DEF QueueTypes, Gone
  <1>6. ASSUME NEW q \in Workers
        PROVE  /\ ~up'[q] => wire'[q] = <<>>
               /\ \A i \in 1..Len(wire'[q]) :
                    wire'[q][i].back = FALSE => wire'[q][i].text.msg \in Messages
    BY <1>1, <1>3 DEF QueueTypes
  <1> QED
    BY <1>1, <1>2, <1>3, <1>4, <1>5, <1>6 DEF QueueTypes

LEMMA RefuseTypes ==
    ASSUME QueueTypes, NEW p \in Workers, RefusePush(p)
    PROVE  QueueTypes'
  <1>1. CASE Head(wire[p]).back
    BY <1>1, EndedTypes DEF RefusePush
  <1>2. CASE ~Head(wire[p]).back
    <2>1. /\ wire[p] # <<>> /\ wire' = [wire EXCEPT ![p] = Tail(@)]
          /\ failures < MaxFailures /\ failures' = failures + 1
          /\ UNCHANGED <<lists, up, consumers, copies, handled>>
      BY <1>2 DEF RefusePush
    <2>2. failures' \in 0..MaxFailures
      BY <2>1, Constants DEF QueueTypes
    <2> QED
      BY <2>1, <2>2, TailTypes DEF QueueTypes
  <1> QED
    BY <1>1, <1>2

LEMMA RestartTypes ==
    ASSUME QueueTypes, NEW p \in Workers, Restart(p)
    PROVE  QueueTypes'
  <1>1. /\ up' = [up EXCEPT ![p] = TRUE] /\ UNCHANGED <<lists, wire, copies, handled, failures>>
        /\ consumers' = [c \in Consumers |-> IF Home[c] = p THEN Idle ELSE consumers[c]]
    BY DEF Restart, Residents
  <1>2. consumers' \in [Consumers -> Consumer]
    BY <1>1, TextsAre DEF QueueTypes
  <1>3. ASSUME NEW c \in Consumers
        PROVE  /\ consumers'[c].phase = "ended" <=> ~up'[Home[c]]
               /\ consumers'[c].phase # "handling" => consumers'[c].text = Fresh(Nothing)
    BY <1>1, Constants DEF QueueTypes, Idle
  <1> QED
    BY <1>1, <1>2, <1>3 DEF QueueTypes

LEMMA QueueNextTypes == QueueTypes /\ [QueueNext]_queueVars => QueueTypes'
  <1> SUFFICES ASSUME QueueTypes, [QueueNext]_queueVars PROVE QueueTypes'
    OBVIOUS
  <1>1. ASSUME NEW p \in Workers, Crash(p) PROVE QueueTypes'
    BY <1>1, EndedTypes DEF Crash
  <1>2. CASE UNCHANGED queueVars
    BY <1>2 DEF QueueTypes, queueVars
  <1> QED
    BY <1>1, <1>2, PushMessageTypes, ExecuteTypes, RefuseTypes, RestartTypes,
       ConsumerTypes DEF QueueNext

-----------------------------------------------------------------------------
(* Where a copy is. *)

(* The command at place i of the wire of p, or the text at place i of the   *)
(* list, is a copy of m for ch; so is what c has in hand.                   *)
IsCopy(m, ch, cmd) == cmd.to = ch /\ cmd.text.msg = m
WireAt(m, ch, p, i) == i \in 1..Len(wire[p]) /\ IsCopy(m, ch, wire[p][i])
ListAt(m, ch, i) == i \in 1..Len(lists[ch]) /\ lists[ch][i].msg = m
HandAt(m, ch, c) == Channel[c] = ch /\ consumers[c].text.msg = m

Wired(m, ch)  == \E p \in Workers : \E i \in Nat : WireAt(m, ch, p, i)
Listed(m, ch) == \E i \in Nat : ListAt(m, ch, i)
Held(m, ch)   == \E c \in Consumers : HandAt(m, ch, c)
Done(m, ch)   == handled[m][ch] # 0
Lost(m, ch)   == <<m, ch>> \in lost

(* No place holds two copies. *)
SingleWire(m, ch) ==
    \A p, q \in Workers : \A i, j \in Nat :
        WireAt(m, ch, p, i) /\ WireAt(m, ch, q, j) => p = q /\ i = j
SingleList(m, ch) ==
    \A i, j \in Nat : ListAt(m, ch, i) /\ ListAt(m, ch, j) => i = j
SingleHand(m, ch) ==
    \A c, d \in Consumers : HandAt(m, ch, c) /\ HandAt(m, ch, d) => c = d

Single(m, ch) ==
    /\ SingleWire(m, ch) /\ SingleList(m, ch) /\ SingleHand(m, ch)
    /\ handled[m][ch] \in {0, 1}

(* A copy that was pushed is in exactly one place, one that was not in none. *)
Whole(m, ch) ==
    /\ Single(m, ch)
    /\ Listed(m, ch) => ~(Wired(m, ch) \/ Held(m, ch) \/ Done(m, ch) \/ Lost(m, ch))
    /\ Wired(m, ch) => ~(Held(m, ch) \/ Done(m, ch) \/ Lost(m, ch))
    /\ Held(m, ch) => ~(Done(m, ch) \/ Lost(m, ch))
    /\ Done(m, ch) => ~Lost(m, ch)
    /\ <<m, ch>> \in copies <=>
         Listed(m, ch) \/ Wired(m, ch) \/ Held(m, ch) \/ Done(m, ch) \/ Lost(m, ch)

QueueInv ==
    /\ \A m \in Messages, ch \in Channels : Whole(m, ch)
    /\ lost \subseteq Messages \X Channels

-----------------------------------------------------------------------------
(* The invariant means what the runs check. *)

LEMMA FewMeans ==
    ASSUME NEW S, \A x, y \in S : x = y
    PROVE  Cardinality(S) = IF S = {} THEN 0 ELSE 1
  <1>1. CASE S = {}
    BY <1>1, FS_EmptySet
  <1>2. CASE S # {}
    <2>1. PICK x : S = {x}
      BY <1>2
    <2> QED
      BY <1>2, <2>1, FS_Singleton
  <1> QED
    BY <1>1, <1>2

LEMMA WholeCounts ==
    ASSUME QueueTypes, NEW m \in Messages, NEW ch \in Channels, Whole(m, ch)
    PROVE  Cardinality(OnList(m, ch)) + Cardinality(OnWire(m, ch))
             + Cardinality(InHand(m, ch)) + handled[m][ch]
             + Cardinality(lost \cap {<<m, ch>>}) = Cardinality(copies \cap {<<m, ch>>})
  <1>1. Cardinality(OnList(m, ch)) = IF Listed(m, ch) THEN 1 ELSE 0
    <2>1. OnList(m, ch) = {i \in Nat : ListAt(m, ch, i)}
      BY LenProperties DEF OnList, ListAt, QueueTypes
    <2>2. \A i, j \in OnList(m, ch) : i = j
      BY <2>1 DEF Whole, Single, SingleList
    <2>3. Listed(m, ch) <=> OnList(m, ch) # {}
      BY <2>1 DEF Listed
    <2> QED
      BY <2>2, <2>3, FewMeans
  <1>2. Cardinality(OnWire(m, ch)) = IF Wired(m, ch) THEN 1 ELSE 0
    <2>1. ASSUME NEW x
          PROVE  x \in OnWire(m, ch) <=>
                   \E p \in Workers : \E i \in Nat : x = <<p, i>> /\ WireAt(m, ch, p, i)
      <3>1. \A p \in Workers : Len(wire[p]) \in Nat
        BY LenProperties DEF QueueTypes
      <3> QED
        BY <3>1 DEF OnWire, WireAt, IsCopy
    <2>2. \A x, y \in OnWire(m, ch) : x = y
      BY <2>1 DEF Whole, Single, SingleWire
    <2>3. Wired(m, ch) <=> OnWire(m, ch) # {}
      BY <2>1 DEF Wired
    <2> QED
      BY <2>2, <2>3, FewMeans
  <1>3. Cardinality(InHand(m, ch)) = IF Held(m, ch) THEN 1 ELSE 0
    <2>1. InHand(m, ch) = {c \in Consumers : HandAt(m, ch, c)}
      BY DEF InHand, HandAt
    <2>2. \A c, d \in InHand(m, ch) : c = d
      BY <2>1 DEF Whole, Single, SingleHand
    <2>3. Held(m, ch) <=> InHand(m, ch) # {}
      BY <2>1 DEF Held
    <2> QED
      BY <2>2, <2>3, FewMeans
  <1>4. ASSUME NEW S
        PROVE  Cardinality(S \cap {<<m, ch>>}) = IF <<m, ch>> \in S THEN 1 ELSE 0
    BY FewMeans
  <1>5. handled[m][ch] = IF Done(m, ch) THEN 1 ELSE 0
    BY DEF Done, Whole, Single
  <1> QED
    BY <1>1, <1>2, <1>3, <1>4, <1>5 DEF Whole, Lost

-----------------------------------------------------------------------------
(* What the steps do to the places of a copy. *)

LEMMA WireTail ==
    ASSUME QueueTypes, NEW m \in Messages, NEW ch \in Channels, SingleWire(m, ch),
           NEW p \in Workers, wire[p] # <<>>, wire' = [wire EXCEPT ![p] = Tail(@)]
    PROVE  /\ SingleWire(m, ch)'
           /\ Wired(m, ch)' <=> Wired(m, ch) /\ ~WireAt(m, ch, p, 1)
  <1> DEFINE rest == Tail(wire[p])
  <1>1. wire \in [Workers -> Seq(Command)] /\ wire[p] \in Seq(Command)
    BY DEF QueueTypes
  <1>2. /\ Len(wire[p]) \in Nat \ {0} /\ Len(rest) = Len(wire[p]) - 1
        /\ \A i \in 1..Len(rest) : rest[i] = wire[p][i + 1]
    BY <1>1, HeadTailProperties, EmptySeq
  <1>3. wire' = [wire EXCEPT ![p] = rest]
    OBVIOUS
  <1> HIDE DEF rest
  <1>4. \A q \in Workers : wire'[q] = IF q = p THEN rest ELSE wire[q]
    BY <1>1, <1>3
  <1>5. ASSUME NEW i \in Nat
        PROVE  WireAt(m, ch, p, i)' <=> i # 0 /\ WireAt(m, ch, p, i + 1)
    <2>1. i \in 1..Len(rest) <=> i # 0 /\ i + 1 \in 1..Len(wire[p])
      BY <1>2
    <2> QED
      BY <1>2, <1>4, <2>1 DEF WireAt, IsCopy
  <1>6. ASSUME NEW q \in Workers \ {p}, NEW i \in Nat
        PROVE  WireAt(m, ch, q, i)' <=> WireAt(m, ch, q, i)
    BY <1>4 DEF WireAt, IsCopy
  <1>7. SingleWire(m, ch)'
    <2> SUFFICES ASSUME NEW q \in Workers, NEW r \in Workers,
                        NEW i \in Nat, NEW j \in Nat,
                        WireAt(m, ch, q, i)', WireAt(m, ch, r, j)'
                 PROVE  q = r /\ i = j
      BY DEF SingleWire
    <2>1. \E k \in Nat : WireAt(m, ch, q, k) /\ k = IF q = p THEN i + 1 ELSE i
      BY <1>5, <1>6
    <2>2. \E k \in Nat : WireAt(m, ch, r, k) /\ k = IF r = p THEN j + 1 ELSE j
      BY <1>5, <1>6
    <2> QED
      BY <2>1, <2>2 DEF SingleWire
  <1>8. ASSUME Wired(m, ch)' PROVE Wired(m, ch) /\ ~WireAt(m, ch, p, 1)
    <2>1. PICK q \in Workers, i \in Nat : WireAt(m, ch, q, i)'
      BY <1>8 DEF Wired
    <2>2. \E k \in Nat : WireAt(m, ch, q, k) /\ (q = p => k > 1)
      BY <1>5, <1>6, <2>1
    <2> QED
      BY <2>2 DEF SingleWire, Wired
  <1>9. ASSUME Wired(m, ch), ~WireAt(m, ch, p, 1) PROVE Wired(m, ch)'
    <2>1. PICK q \in Workers, i \in Nat : WireAt(m, ch, q, i)
      BY <1>9 DEF Wired
    <2>2. CASE q # p
      BY <1>6, <2>1, <2>2 DEF Wired
    <2>3. CASE q = p
      <3>1. i # 1 /\ i # 0
        BY <1>9, <2>1, <2>3 DEF WireAt, IsCopy
      <3>2. PICK k \in Nat : i = k + 1 /\ k # 0
        BY <3>1
      <3>3. WireAt(m, ch, p, k)'
        BY <1>5, <2>1, <2>3, <3>2
      <3> QED
        BY <3>3 DEF Wired
    <2> QED
      BY <2>2, <2>3
  <1> QED
    BY <1>7, <1>8, <1>9

LEMMA WireAppend ==
    ASSUME QueueTypes, NEW m \in Messages, NEW ch \in Channels, SingleWire(m, ch),
           NEW p \in Workers, NEW s \in Seq(Command), wire' = [wire EXCEPT ![p] = @ \o s],
           \A i, j \in 1..Len(s) : IsCopy(m, ch, s[i]) /\ IsCopy(m, ch, s[j]) => i = j,
           Wired(m, ch) => \A i \in 1..Len(s) : ~IsCopy(m, ch, s[i])
    PROVE  /\ SingleWire(m, ch)'
           /\ Wired(m, ch)' <=> Wired(m, ch) \/ \E i \in 1..Len(s) : IsCopy(m, ch, s[i])
  <1> DEFINE all == wire[p] \o s
             n == Len(wire[p])
             Match(i) == i \in 1..Len(s) /\ IsCopy(m, ch, s[i])
  <1>1. /\ wire \in [Workers -> Seq(Command)] /\ wire[p] \in Seq(Command)
        /\ n \in Nat /\ Len(s) \in Nat
    BY LenProperties DEF QueueTypes
  <1>2. /\ Len(all) = n + Len(s)
        /\ \A i \in 1..Len(all) : all[i] = IF i <= n THEN wire[p][i] ELSE s[i - n]
    BY <1>1, ConcatProperties
  <1>3. wire' = [wire EXCEPT ![p] = all]
    OBVIOUS
  <1> HIDE DEF all
  <1>4. \A q \in Workers : wire'[q] = IF q = p THEN all ELSE wire[q]
    BY <1>1, <1>3
  <1>5. ASSUME NEW i \in Nat
        PROVE  WireAt(m, ch, p, i)' <=> WireAt(m, ch, p, i) \/ (i > n /\ Match(i - n))
    <2>1. CASE i <= n
      <3>1. i \in 1..n <=> i \in 1..Len(all)
        BY <1>1, <1>2, <2>1
      <3> QED
        BY <1>1, <1>2, <1>4, <2>1, <3>1 DEF WireAt, IsCopy
    <2>2. CASE i > n
      <3>1. i - n \in 1..Len(s) <=> i \in 1..Len(all)
        BY <1>1, <1>2, <2>2
      <3> QED
        BY <1>1, <1>2, <1>4, <2>2, <3>1 DEF WireAt, IsCopy
    <2> QED
      BY <1>1, <2>1, <2>2
  <1>6. ASSUME NEW q \in Workers \ {p}, NEW i \in Nat
        PROVE  WireAt(m, ch, q, i)' <=> WireAt(m, ch, q, i)
    BY <1>4 DEF WireAt, IsCopy
  <1>7. \A i, j : Match(i) /\ Match(j) => i = j
    OBVIOUS
  <1>8. \A i : Match(i) => ~Wired(m, ch)
    OBVIOUS
  <1>9. SingleWire(m, ch)'
    <2> SUFFICES ASSUME NEW q \in Workers, NEW r \in Workers,
                        NEW i \in Nat, NEW j \in Nat,
                        WireAt(m, ch, q, i)', WireAt(m, ch, r, j)'
                 PROVE  q = r /\ i = j
      BY DEF SingleWire
    <2>1. WireAt(m, ch, q, i) \/ (q = p /\ i > n /\ Match(i - n))
      BY <1>5, <1>6
    <2>2. WireAt(m, ch, r, j) \/ (r = p /\ j > n /\ Match(j - n))
      BY <1>5, <1>6
    <2>3. (WireAt(m, ch, q, i) \/ WireAt(m, ch, r, j)) => Wired(m, ch)
      BY DEF Wired
    <2>4. CASE Wired(m, ch)
      <3>1. WireAt(m, ch, q, i) /\ WireAt(m, ch, r, j)
        BY <1>8, <2>1, <2>2, <2>4
      <3> QED
        BY <3>1 DEF SingleWire
    <2>5. CASE ~Wired(m, ch)
      <3>1. q = p /\ r = p /\ i - n = j - n
        BY <1>7, <2>1, <2>2, <2>3, <2>5
      <3> QED
        BY <1>1, <3>1
    <2> QED
      BY <2>4, <2>5
  <1>10. Wired(m, ch) => Wired(m, ch)'
    BY <1>5, <1>6 DEF Wired
  <1>11. ASSUME NEW i, Match(i) PROVE Wired(m, ch)'
    <2>1. PICK k \in Nat : k > n /\ k - n = i
      BY <1>1, <1>11
    <2>2. Match(k - n)
      BY <1>11, <2>1
    <2> HIDE DEF Match
    <2>3. WireAt(m, ch, p, k)'
      BY <1>5, <2>1, <2>2
    <2> QED
      BY <2>3 DEF Wired
  <1>12. Wired(m, ch)' => Wired(m, ch) \/ \E i : Match(i)
    BY <1>5, <1>6 DEF Wired
  <1> QED
    BY <1>9, <1>10, <1>11, <1>12

LEMMA WireDrop ==
    ASSUME QueueTypes, NEW m \in Messages, NEW ch \in Channels, SingleWire(m, ch),
           NEW p \in Workers, wire' = [wire EXCEPT ![p] = <<>>]
    PROVE  /\ SingleWire(m, ch)'
           /\ Wired(m, ch)' <=> \E q \in Workers \ {p}, i \in Nat : WireAt(m, ch, q, i)
  <1>1. Len(<<>>) = 0
    BY EmptySeq
  <1>2. ASSUME NEW q \in Workers, NEW i \in Nat
        PROVE  WireAt(m, ch, q, i)' <=> q # p /\ WireAt(m, ch, q, i)
    BY <1>1 DEF WireAt, QueueTypes
  <1> QED
    BY <1>2 DEF SingleWire, Wired

LEMMA ListPush ==
    ASSUME QueueTypes, NEW m \in Messages, NEW ch \in Channels, SingleList(m, ch),
           NEW to \in Channels, NEW text \in Text,
           lists' = [lists EXCEPT ![to] = <<text>> \o @],
           Listed(m, ch) => ~(to = ch /\ text.msg = m)
    PROVE  /\ SingleList(m, ch)'
           /\ Listed(m, ch)' <=> Listed(m, ch) \/ (to = ch /\ text.msg = m)
  <1> DEFINE new == <<text>> \o lists[to]
             Match == to = ch /\ text.msg = m
  <1>1. /\ lists \in [Channels -> Seq(Text)] /\ lists[to] \in Seq(Text)
        /\ Len(lists[to]) \in Nat /\ <<text>> \in Seq(Text) /\ Len(<<text>>) = 1
        /\ <<text>>[1] = text
    BY LenProperties DEF QueueTypes
  <1>2. /\ Len(new) = 1 + Len(lists[to])
        /\ \A i \in 1..Len(new) : new[i] = IF i <= 1 THEN <<text>>[i] ELSE lists[to][i - 1]
    BY <1>1, ConcatProperties
  <1>3. lists' = [lists EXCEPT ![to] = new]
    OBVIOUS
  <1> HIDE DEF new
  <1>4. \A c \in Channels : lists'[c] = IF c = to THEN new ELSE lists[c]
    BY <1>1, <1>3
  <1>5. CASE ch # to
    <2>1. \A i \in Nat : ListAt(m, ch, i)' <=> ListAt(m, ch, i)
      BY <1>4, <1>5 DEF ListAt
    <2> QED
      BY <1>5, <2>1 DEF SingleList, Listed
  <1>6. CASE ch = to
    <2>1. ASSUME NEW i \in Nat
          PROVE  ListAt(m, ch, i)' <=>
                   (i = 1 /\ Match) \/ (i > 1 /\ ListAt(m, ch, i - 1))
      <3>1. CASE i = 0
        BY <3>1 DEF ListAt
      <3>2. CASE i = 1
        <4>1. 1 \in 1..Len(new) /\ new[1] = text
          BY <1>1, <1>2
        <4> QED
          BY <1>4, <1>6, <3>2, <4>1 DEF ListAt
      <3>3. CASE i > 1
        <4>1. i \in 1..Len(new) <=> i - 1 \in 1..Len(lists[to])
          BY <1>1, <1>2, <3>3
        <4> QED
          BY <1>1, <1>2, <1>4, <1>6, <3>3, <4>1 DEF ListAt
      <3> QED
        BY <3>1, <3>2, <3>3
    <2>2. SingleList(m, ch)'
      <3> SUFFICES ASSUME NEW i \in Nat, NEW j \in Nat,
                          ListAt(m, ch, i)', ListAt(m, ch, j)'
                   PROVE  i = j
        BY DEF SingleList
      <3>. \A k \in Nat : k > 1 => k - 1 \in Nat
        OBVIOUS
      <3>1. (i = 1 /\ Match) \/ (i > 1 /\ ListAt(m, ch, i - 1))
        BY <2>1
      <3>2. (j = 1 /\ Match) \/ (j > 1 /\ ListAt(m, ch, j - 1))
        BY <2>1
      <3>3. CASE Match
        BY <3>1, <3>2, <3>3 DEF Listed
      <3>4. CASE ~Match
        <4>1. i - 1 = j - 1
          BY <3>1, <3>2, <3>4 DEF SingleList
        <4> QED
          BY <4>1
      <3> QED
        BY <3>3, <3>4
    <2>3. Match => Listed(m, ch)'
      BY <2>1 DEF Listed
    <2>4. ASSUME Listed(m, ch) PROVE Listed(m, ch)'
      <3>1. PICK i \in Nat : ListAt(m, ch, i)
        BY <2>4 DEF Listed
      <3>2. i + 1 \in Nat /\ i + 1 > 1 /\ (i + 1) - 1 = i
        BY <3>1 DEF ListAt
      <3>3. ListAt(m, ch, i + 1)'
        BY <2>1, <3>1, <3>2
      <3> QED
        BY <3>2, <3>3 DEF Listed
    <2>5. ASSUME Listed(m, ch)' PROVE Listed(m, ch) \/ Match
      <3>1. PICK i \in Nat : ListAt(m, ch, i)'
        BY <2>5 DEF Listed
      <3>2. Match \/ (ListAt(m, ch, i - 1) /\ i - 1 \in Nat)
        BY <2>1, <3>1
      <3> QED
        BY <3>2 DEF Listed
    <2> QED
      BY <2>2, <2>3, <2>4, <2>5
  <1> QED
    BY <1>5, <1>6

LEMMA ListPop ==
    ASSUME QueueTypes, NEW m \in Messages, NEW ch \in Channels, SingleList(m, ch),
           NEW from \in Channels, lists[from] # <<>>,
           lists' = [lists EXCEPT ![from] = Front(@)]
    PROVE  /\ SingleList(m, ch)'
           /\ Last(lists[from]) \in Text
           /\ LET last == from = ch /\ Last(lists[from]).msg = m
              IN  /\ last => Listed(m, ch)
                  /\ Listed(m, ch)' <=> Listed(m, ch) /\ ~last
  <1> DEFINE front == Front(lists[from])
             n == Len(lists[from])
             last == from = ch /\ Last(lists[from]).msg = m
  <1>1. /\ lists \in [Channels -> Seq(Text)] /\ lists[from] \in Seq(Text)
        /\ n \in Nat \ {0}
    BY EmptySeq DEF QueueTypes
  <1>2. \A i \in 1..n : lists[from][i] \in Text
    BY <1>1, ElementOfSeq
  <1>3. Len(front) = n - 1 /\ \A i \in 1..(n - 1) : front[i] = lists[from][i]
    <2>1. \A i \in 1..(n - 1) : lists[from][i] \in Text
      BY <1>1, <1>2
    <2>2. /\ Len(front) = IF 1 <= n - 1 THEN n - 1 - 1 + 1 ELSE 0
          /\ \A i \in 1..(n - 1 - 1 + 1) : front[i] = lists[from][1 + i - 1]
      BY <1>1, <2>1, SubSeqProperties DEF Front
    <2> HIDE DEF front, n
    <2>3. n \in Nat \ {0}
      BY <1>1 DEF n
    <2>4. ASSUME NEW i \in 1..(n - 1) PROVE front[i] = lists[from][i]
      <3>1. i \in 1..(n - 1 - 1 + 1) /\ 1 + i - 1 = i
        BY <2>3
      <3> QED
        BY <2>2, <3>1
    <2> QED
      BY <2>2, <2>3, <2>4
  <1>4. lists' = [lists EXCEPT ![from] = front]
    OBVIOUS
  <1>5. last <=> from = ch /\ lists[from][n].msg = m
    BY DEF Last
  <1>6. Last(lists[from]) \in Text
    BY <1>1, <1>2 DEF Last
  <1> HIDE DEF front, last
  <1>7. \A c \in Channels : lists'[c] = IF c = from THEN front ELSE lists[c]
    BY <1>1, <1>4
  <1>8. CASE ch # from
    <2>1. \A i \in Nat : ListAt(m, ch, i)' <=> ListAt(m, ch, i)
      BY <1>7, <1>8 DEF ListAt
    <2> QED
      BY <1>5, <1>6, <1>8, <2>1 DEF SingleList, Listed, last
  <1>9. CASE ch = from
    <2>1. ASSUME NEW i \in Nat
          PROVE  ListAt(m, ch, i)' <=> i # n /\ ListAt(m, ch, i)
      <3>1. i \in 1..(n - 1) <=> i \in 1..n /\ i # n
        BY <1>1
      <3> QED
        BY <1>3, <1>7, <1>9, <3>1 DEF ListAt
    <2>2. last <=> ListAt(m, ch, n)
      BY <1>1, <1>5, <1>9 DEF ListAt
    <2> QED
      BY <1>1, <1>6, <2>1, <2>2 DEF SingleList, Listed, last
  <1> QED
    BY <1>8, <1>9

LEMMA HandSet ==
    ASSUME NEW m \in Messages, NEW ch \in Channels, SingleHand(m, ch),
           NEW c \in Consumers,
           \A d \in Consumers : d # c => consumers'[d] = consumers[d],
           Held(m, ch) => ~HandAt(m, ch, c)'
    PROVE  /\ SingleHand(m, ch)'
           /\ Held(m, ch)' <=> (Held(m, ch) /\ ~HandAt(m, ch, c)) \/ HandAt(m, ch, c)'
  <1>1. \A d \in Consumers : d # c => (HandAt(m, ch, d)' <=> HandAt(m, ch, d))
    BY DEF HandAt
  <1> QED
    BY <1>1 DEF SingleHand, Held

LEMMA HandsDrop ==
    ASSUME QueueTypes, NEW m \in Messages, NEW ch \in Channels, SingleHand(m, ch),
           NEW p \in Workers, NEW after, after.text = Fresh(Nothing),
           consumers' = [c \in Consumers |-> IF Home[c] = p THEN after ELSE consumers[c]]
    PROVE  /\ SingleHand(m, ch)'
           /\ Held(m, ch)' <=> \E c \in Consumers : HandAt(m, ch, c) /\ Home[c] # p
  <1>1. Fresh(Nothing).msg # m
    BY Constants, TextsAre
  <1>2. \A c \in Consumers : HandAt(m, ch, c)' <=> HandAt(m, ch, c) /\ Home[c] # p
    BY <1>1 DEF HandAt
  <1> QED
    BY <1>2 DEF SingleHand, Held

LEMMA Unmoved ==
    ASSUME NEW m, NEW ch
    PROVE  /\ UNCHANGED wire => /\ SingleWire(m, ch)' <=> SingleWire(m, ch)
                                /\ Wired(m, ch)' <=> Wired(m, ch)
           /\ UNCHANGED lists => /\ SingleList(m, ch)' <=> SingleList(m, ch)
                                 /\ Listed(m, ch)' <=> Listed(m, ch)
           /\ UNCHANGED consumers => /\ SingleHand(m, ch)' <=> SingleHand(m, ch)
                                     /\ Held(m, ch)' <=> Held(m, ch)
  <1>1. UNCHANGED wire => \A p, i : WireAt(m, ch, p, i)' <=> WireAt(m, ch, p, i)
    BY DEF WireAt, IsCopy
  <1>2. UNCHANGED lists => \A i : ListAt(m, ch, i)' <=> ListAt(m, ch, i)
    BY DEF ListAt
  <1>3. UNCHANGED consumers => \A c : HandAt(m, ch, c)' <=> HandAt(m, ch, c)
    BY DEF HandAt
  <1> QED
    BY <1>1, <1>2, <1>3 DEF SingleWire, SingleList, SingleHand, Wired, Listed, Held

-----------------------------------------------------------------------------
(* Every step leaves every copy in one place. *)

LEMMA PushMessageWhole ==
    ASSUME QueueTypes, NEW m \in Messages, NEW ch \in Channels, Whole(m, ch),
           NEW p \in Workers, NEW n \in Messages, NEW chs \in ChannelLists,
           PushMessage(p, n, chs)
    PROVE  Whole(m, ch)'
  <1> DEFINE s == [i \in 1..Len(chs) |-> [to |-> chs[i], text |-> Fresh(n), back |-> FALSE]]
             Match(i) == m = n /\ chs[i] = ch
  <1>1. /\ Len(chs) \in Nat /\ \A i \in 1..Len(chs) : chs[i] \in Channels
        /\ \A i, j \in 1..Len(chs) : chs[i] = chs[j] => i = j
    BY Constants
  <1>2. \A i \in 1..Len(chs) : [to |-> chs[i], text |-> Fresh(n), back |-> FALSE] \in Command
    BY <1>1, TextsAre DEF Command
  <1>3. s \in Seq(Command) /\ Len(s) = Len(chs)
    BY <1>1, <1>2
  <1>4. \A i \in 1..Len(s) : IsCopy(m, ch, s[i]) <=> Match(i)
    BY <1>3, TextsAre DEF IsCopy
  <1>5. /\ wire' = [wire EXCEPT ![p] = @ \o s] /\ <<n, ch>> \notin copies
        /\ copies' = copies \cup {<<n, chs[i]>> : i \in 1..Len(chs)}
        /\ UNCHANGED <<lists, consumers, handled, lost>>
    BY DEF PushMessage
  <1> HIDE DEF s
  <1>6. Wired(m, ch) => m # n
    BY <1>5 DEF Whole
  <1>7. /\ SingleWire(m, ch)'
        /\ Wired(m, ch)' <=> Wired(m, ch) \/ \E i \in 1..Len(s) : Match(i)
    <2>1. \A i, j \in 1..Len(s) : IsCopy(m, ch, s[i]) /\ IsCopy(m, ch, s[j]) => i = j
      BY <1>1, <1>3, <1>4
    <2>2. Wired(m, ch) => \A i \in 1..Len(s) : ~IsCopy(m, ch, s[i])
      BY <1>4, <1>6
    <2>3. SingleWire(m, ch)
      BY DEF Whole, Single
    <2>4. /\ SingleWire(m, ch)'
          /\ Wired(m, ch)' <=> Wired(m, ch) \/ \E i \in 1..Len(s) : IsCopy(m, ch, s[i])
      BY <1>3, <1>5, <2>1, <2>2, <2>3, WireAppend
    <2> QED
      BY <1>4, <2>4
  <1>8. <<m, ch>> \in copies' <=> <<m, ch>> \in copies \/ \E i \in 1..Len(s) : Match(i)
    BY <1>3, <1>5
  <1>9. /\ SingleList(m, ch)' <=> SingleList(m, ch)
        /\ Listed(m, ch)' <=> Listed(m, ch)
        /\ SingleHand(m, ch)' <=> SingleHand(m, ch)
        /\ Held(m, ch)' <=> Held(m, ch)
    BY <1>5, Unmoved
  <1>10. (\E i \in 1..Len(s) : Match(i)) => <<m, ch>> \notin copies
    BY <1>5
  <1> HIDE DEF Match
  <1> QED
    BY <1>5, <1>7, <1>8, <1>9, <1>10 DEF Whole, Single, Done, Lost

LEMMA ExecuteWhole ==
    ASSUME QueueTypes, NEW m \in Messages, NEW ch \in Channels, Whole(m, ch),
           NEW p \in Workers, Execute(p)
    PROVE  Whole(m, ch)'
  <1> DEFINE cmd == Head(wire[p])
  <1>1. /\ wire[p] # <<>> /\ wire' = [wire EXCEPT ![p] = Tail(@)]
        /\ UNCHANGED <<up, consumers, copies, handled, lost>>
        /\ lists' = [lists EXCEPT ![cmd.to] = <<cmd.text>> \o @]
    BY DEF Execute
  <1>2. cmd \in Command /\ cmd = wire[p][1] /\ Len(wire[p]) \in Nat \ {0}
    BY <1>1, TailTypes
  <1> HIDE DEF cmd
  <1>3. IsCopy(m, ch, cmd) <=> WireAt(m, ch, p, 1)
    BY <1>2 DEF WireAt, IsCopy
  <1>4. SingleWire(m, ch) /\ SingleList(m, ch)
    BY DEF Whole, Single
  <1>5. WireAt(m, ch, p, 1) => Wired(m, ch)
    BY DEF Wired
  <1>6. /\ SingleWire(m, ch)'
        /\ Wired(m, ch)' <=> Wired(m, ch) /\ ~WireAt(m, ch, p, 1)
    BY <1>1, <1>4, WireTail
  <1>7. /\ SingleList(m, ch)'
        /\ Listed(m, ch)' <=> Listed(m, ch) \/ WireAt(m, ch, p, 1)
    <2>1. cmd.to \in Channels /\ cmd.text \in Text
      BY <1>2 DEF Command
    <2>2. Listed(m, ch) => ~(cmd.to = ch /\ cmd.text.msg = m)
      BY <1>3, <1>5 DEF Whole, IsCopy
    <2> QED
      BY <1>1, <1>3, <1>4, <2>1, <2>2, ListPush DEF IsCopy
  <1>8. /\ SingleHand(m, ch)' <=> SingleHand(m, ch)
        /\ Held(m, ch)' <=> Held(m, ch)
    BY <1>1, Unmoved
  <1> QED
    BY <1>1, <1>5, <1>6, <1>7, <1>8 DEF Whole, Single, Done, Lost

(* Idle handlers hold no copy. *)
LEMMA NoHand ==
    ASSUME QueueTypes, NEW m \in Messages, NEW ch \in Channels
    PROVE  /\ Idle.text.msg # m /\ Gone.text.msg # m /\ Fresh(Nothing).msg # m
           /\ \A c \in Consumers : consumers[c].phase # "handling" => ~HandAt(m, ch, c)
  <1>1. Fresh(Nothing).msg # m
    BY Constants, TextsAre
  <1> QED
    BY <1>1 DEF Idle, Gone, QueueTypes, HandAt

LEMMA HandsFree ==
    ASSUME QueueTypes, NEW m \in Messages, NEW ch \in Channels, SingleHand(m, ch),
           NEW c \in Consumers, NEW after, after.text.msg # m,
           consumers' = [consumers EXCEPT ![c] = after]
    PROVE  SingleHand(m, ch)' /\ (Held(m, ch)' <=> Held(m, ch) /\ ~HandAt(m, ch, c))
  <1>1. \A d \in Consumers : consumers'[d] = IF d = c THEN after ELSE consumers[d]
    BY DEF QueueTypes
  <1>2. ~HandAt(m, ch, c)'
    BY <1>1 DEF HandAt
  <1> QED
    BY <1>1, <1>2, HandSet

LEMMA PopWhole ==
    ASSUME QueueTypes, NEW m \in Messages, NEW ch \in Channels, Whole(m, ch),
           NEW c \in Consumers, Pop(c)
    PROVE  Whole(m, ch)'
  <1> DEFINE last == Last(lists[Channel[c]])
             after == [phase |-> "handling", text |-> last]
             taken == Channel[c] = ch /\ last.msg = m
  <1>1. /\ consumers[c].phase = "blocked" /\ lists[Channel[c]] # <<>>
        /\ consumers' = [consumers EXCEPT ![c] = after]
        /\ lists' = [lists EXCEPT ![Channel[c]] = Front(@)]
        /\ UNCHANGED <<wire, copies, handled, lost>>
    BY DEF Pop
  <1>2. Channel[c] \in Channels
    BY Constants
  <1>3. SingleList(m, ch) /\ SingleHand(m, ch)
    BY DEF Whole, Single
  <1>4. /\ SingleList(m, ch)' /\ last \in Text
        /\ taken => Listed(m, ch)
        /\ Listed(m, ch)' <=> Listed(m, ch) /\ ~taken
    BY <1>1, <1>2, <1>3, ListPop
  <1>5. ~HandAt(m, ch, c)
    BY <1>1, NoHand
  <1> HIDE DEF last
  <1>6. after \in Consumer /\ after.text.msg = last.msg
    BY <1>4 DEF Consumer
  <1> HIDE DEF after
  <1>7. Held(m, ch) => ~taken
    BY <1>4 DEF Whole
  <1>8. SingleHand(m, ch)' /\ (Held(m, ch)' <=> Held(m, ch) \/ taken)
    <2>1. \A d \in Consumers : consumers'[d] = IF d = c THEN after ELSE consumers[d]
      BY <1>1 DEF QueueTypes
    <2>2. HandAt(m, ch, c)' <=> taken
      BY <1>6, <2>1 DEF HandAt
    <2> QED
      BY <1>3, <1>5, <1>7, <2>1, <2>2, HandSet
  <1>9. /\ SingleWire(m, ch)' <=> SingleWire(m, ch)
        /\ Wired(m, ch)' <=> Wired(m, ch)
    BY <1>1, Unmoved
  <1> HIDE DEF taken
  <1> QED
    BY <1>1, <1>4, <1>8, <1>9 DEF Whole, Single, Done, Lost

LEMMA TimeOutWhole ==
    ASSUME QueueTypes, NEW m \in Messages, NEW ch \in Channels, Whole(m, ch),
           NEW c \in Consumers, TimeOut(c)
    PROVE  Whole(m, ch)'
  <1> DEFINE after == [phase |-> "handling", text |-> Fresh(Nothing)]
  <1>1. /\ consumers[c].phase = "blocked" /\ consumers' = [consumers EXCEPT ![c] = after]
        /\ UNCHANGED <<lists, wire, copies, handled, lost>>
    BY DEF TimeOut
  <1>2. after \in Consumer /\ after.text.msg # m
    BY NoHand, TextsAre DEF Consumer
  <1>3. ~HandAt(m, ch, c)
    BY <1>1, NoHand
  <1> HIDE DEF after
  <1>4. SingleHand(m, ch)' /\ (Held(m, ch)' <=> Held(m, ch))
    BY <1>1, <1>2, <1>3, HandsFree DEF Whole, Single
  <1>5. /\ SingleWire(m, ch)' <=> SingleWire(m, ch)
        /\ Wired(m, ch)' <=> Wired(m, ch)
        /\ SingleList(m, ch)' <=> SingleList(m, ch)
        /\ Listed(m, ch)' <=> Listed(m, ch)
    BY <1>1, Unmoved
  <1> QED
    BY <1>1, <1>4, <1>5 DEF Whole, Single, Done, Lost

LEMMA FulfilWhole ==
    ASSUME QueueTypes, NEW m \in Messages, NEW ch \in Channels, Whole(m, ch),
           NEW c \in Consumers, Fulfil(c)
    PROVE  Whole(m, ch)'
  <1>1. /\ consumers' = [consumers EXCEPT ![c] = Idle]
        /\ UNCHANGED <<lists, wire, copies, lost>>
        /\ handled' = IF consumers[c].text.msg = Nothing THEN handled
                      ELSE [handled EXCEPT ![consumers[c].text.msg][Channel[c]] = @ + 1]
    BY DEF Fulfil
  <1>2. Idle \in Consumer /\ Idle.text.msg # m
    BY NoHand, TextsAre
  <1>3. SingleHand(m, ch)' /\ (Held(m, ch)' <=> Held(m, ch) /\ ~HandAt(m, ch, c))
    BY <1>1, <1>2, HandsFree DEF Whole, Single
  <1>4. handled'[m][ch] = IF HandAt(m, ch, c) THEN handled[m][ch] + 1 ELSE handled[m][ch]
    <2>1. handled \in [Messages -> [Channels -> Nat]] /\ Channel[c] \in Channels
      BY Constants DEF QueueTypes
    <2>2. consumers[c].text.msg \in Messages \cup {Nothing}
      BY DEF QueueTypes, Consumer, Text
    <2>3. CASE consumers[c].text.msg = Nothing
      BY <1>1, <2>3, Constants DEF HandAt
    <2>4. CASE consumers[c].text.msg # Nothing
      BY <1>1, <2>1, <2>2, <2>4 DEF HandAt
    <2> QED
      BY <2>3, <2>4
  <1>5. HandAt(m, ch, c) => Held(m, ch)
    BY DEF Held
  <1>6. /\ SingleWire(m, ch)' <=> SingleWire(m, ch)
        /\ Wired(m, ch)' <=> Wired(m, ch)
        /\ SingleList(m, ch)' <=> SingleList(m, ch)
        /\ Listed(m, ch)' <=> Listed(m, ch)
    BY <1>1, Unmoved
  <1> QED
    BY <1>1, <1>3, <1>4, <1>5, <1>6 DEF Whole, Single, Done, Lost

LEMMA PushBackWhole ==
    ASSUME QueueTypes, NEW m \in Messages, NEW ch \in Channels, Whole(m, ch),
           NEW c \in Consumers, PushBack(c)
    PROVE  Whole(m, ch)'
  <1> DEFINE cmd == [to |-> Channel[c], text |-> Encode(consumers[c].text), back |-> TRUE]
  <1>1. /\ consumers' = [consumers EXCEPT ![c] = Idle]
        /\ wire' = [wire EXCEPT ![Home[c]] = Append(@, cmd)]
        /\ UNCHANGED <<lists, copies, handled, lost>>
    BY DEF PushBack
  <1>2. /\ Channel[c] \in Channels /\ Home[c] \in Workers
        /\ consumers[c].text \in Text /\ wire[Home[c]] \in Seq(Command)
    BY Constants DEF QueueTypes, Consumer
  <1>3. cmd \in Command /\ (IsCopy(m, ch, cmd) <=> HandAt(m, ch, c))
    BY <1>2, TextsAre DEF Command, HandAt, IsCopy
  <1> HIDE DEF cmd
  <1>4. <<cmd>> \in Seq(Command) /\ Len(<<cmd>>) = 1 /\ <<cmd>>[1] = cmd
    BY <1>3
  <1>5. wire' = [wire EXCEPT ![Home[c]] = @ \o <<cmd>>]
    BY <1>1, <1>2, <1>3, AppendIsConcat
  <1>6. Idle \in Consumer /\ Idle.text.msg # m
    BY NoHand, TextsAre
  <1>7. SingleHand(m, ch)' /\ (Held(m, ch)' <=> Held(m, ch) /\ ~HandAt(m, ch, c))
    BY <1>1, <1>6, HandsFree DEF Whole, Single
  <1>8. HandAt(m, ch, c) => Held(m, ch)
    BY DEF Held
  <1>9. SingleWire(m, ch)' /\ (Wired(m, ch)' <=> Wired(m, ch) \/ HandAt(m, ch, c))
    <2> DEFINE s == <<cmd>>
    <2>1. s \in Seq(Command) /\ Len(s) = 1 /\ s[1] = cmd
      BY <1>4
    <2>2. wire' = [wire EXCEPT ![Home[c]] = @ \o s]
      BY <1>5
    <2> HIDE DEF s
    <2>3. \A i \in 1..Len(s) : IsCopy(m, ch, s[i]) <=> HandAt(m, ch, c)
      BY <1>3, <2>1
    <2>4. \A i, j \in 1..Len(s) : IsCopy(m, ch, s[i]) /\ IsCopy(m, ch, s[j]) => i = j
      BY <2>1
    <2>5. Wired(m, ch) => \A i \in 1..Len(s) : ~IsCopy(m, ch, s[i])
      BY <1>8, <2>3 DEF Whole
    <2>6. SingleWire(m, ch)
      BY DEF Whole, Single
    <2>7. /\ SingleWire(m, ch)'
          /\ Wired(m, ch)' <=> Wired(m, ch) \/ \E i \in 1..Len(s) : IsCopy(m, ch, s[i])
      BY <1>2, <2>1, <2>2, <2>4, <2>5, <2>6, WireAppend
    <2>8. 1 \in 1..Len(s)
      BY <2>1
    <2> QED
      BY <2>3, <2>7, <2>8
  <1>10. /\ SingleList(m, ch)' <=> SingleList(m, ch)
         /\ Listed(m, ch)' <=> Listed(m, ch)
    BY <1>1, Unmoved
  <1> QED
    BY <1>1, <1>7, <1>8, <1>9, <1>10 DEF Whole, Single, Done, Lost

LEMMA EndedWhole ==
    ASSUME QueueTypes, NEW m \in Messages, NEW ch \in Channels, Whole(m, ch),
           NEW p \in Workers, ProcessEnded(p)
    PROVE  Whole(m, ch)'
  <1>1. /\ wire' = [wire EXCEPT ![p] = <<>>] /\ lost' = lost \cup HeldBy(p)
        /\ UNCHANGED <<lists, copies, handled>>
        /\ consumers' = [c \in Consumers |-> IF Home[c] = p THEN Gone ELSE consumers[c]]
    BY DEF ProcessEnded, Residents
  <1>2. SingleWire(m, ch) /\ SingleHand(m, ch)
    BY DEF Whole, Single
  <1>3. /\ SingleWire(m, ch)'
        /\ Wired(m, ch)' <=> \E q \in Workers \ {p}, i \in Nat : WireAt(m, ch, q, i)
    BY <1>1, <1>2, WireDrop
  <1>4. /\ SingleHand(m, ch)'
        /\ Held(m, ch)' <=> \E c \in Consumers : HandAt(m, ch, c) /\ Home[c] # p
    BY <1>1, <1>2, HandsDrop DEF Gone
  <1>5. <<m, ch>> \in HeldBy(p) <=>
          \/ \E c \in Consumers : HandAt(m, ch, c) /\ Home[c] = p
          \/ \E i \in Nat : WireAt(m, ch, p, i)
    <2>1. Len(wire[p]) \in Nat /\ m # Nothing
      BY Constants, LenProperties DEF QueueTypes
    <2>2. (\E c \in Residents(p) : <<m, ch>> = <<consumers[c].text.msg, Channel[c]>>)
            <=> \E c \in Consumers : HandAt(m, ch, c) /\ Home[c] = p
      BY DEF Residents, HandAt
    <2>3. (\E i \in 1..Len(wire[p]) : <<m, ch>> = <<wire[p][i].text.msg, wire[p][i].to>>)
            <=> \E i \in Nat : WireAt(m, ch, p, i)
      BY <2>1 DEF WireAt, IsCopy
    <2>4. <<m, ch>> \notin {Nothing} \X Channels
      BY <2>1
    <2> QED
      BY <2>2, <2>3, <2>4 DEF HeldBy
  <1>6. /\ Wired(m, ch) <=> Wired(m, ch)' \/ \E i \in Nat : WireAt(m, ch, p, i)
        /\ ~(Wired(m, ch)' /\ \E i \in Nat : WireAt(m, ch, p, i))
    BY <1>2, <1>3 DEF Wired, SingleWire
  <1>7. /\ Held(m, ch) <=> Held(m, ch)' \/ \E c \in Consumers : HandAt(m, ch, c) /\ Home[c] = p
        /\ ~(Held(m, ch)' /\ \E c \in Consumers : HandAt(m, ch, c) /\ Home[c] = p)
    BY <1>2, <1>4 DEF Held, SingleHand
  <1>8. /\ SingleList(m, ch)' <=> SingleList(m, ch)
        /\ Listed(m, ch)' <=> Listed(m, ch)
    BY <1>1, Unmoved
  <1>9. Lost(m, ch)' <=> Lost(m, ch) \/ <<m, ch>> \in HeldBy(p)
    BY <1>1 DEF Lost
  <1>10. Single(m, ch)' /\ (Done(m, ch)' <=> Done(m, ch))
    BY <1>1, <1>3, <1>4, <1>8 DEF Whole, Single, Done
  <1> QED
    BY <1>1, <1>5, <1>6, <1>7, <1>8, <1>9, <1>10 DEF Whole

LEMMA RefuseWhole ==
    ASSUME QueueTypes, NEW m \in Messages, NEW ch \in Channels, Whole(m, ch),
           NEW p \in Workers, RefusePush(p)
    PROVE  Whole(m, ch)'
  <1>1. CASE Head(wire[p]).back
    BY <1>1, EndedWhole DEF RefusePush
  <1>2. CASE ~Head(wire[p]).back
    <2> DEFINE cmd == Head(wire[p])
    <2>1. /\ wire[p] # <<>> /\ wire' = [wire EXCEPT ![p] = Tail(@)]
          /\ lost' = lost \cup {<<cmd.text.msg, cmd.to>>}
          /\ UNCHANGED <<lists, up, consumers, copies, handled>>
      BY <1>2 DEF RefusePush
    <2>2. cmd = wire[p][1] /\ Len(wire[p]) \in Nat \ {0}
      BY <2>1, TailTypes
    <2> HIDE DEF cmd
    <2>3. Lost(m, ch)' <=> Lost(m, ch) \/ WireAt(m, ch, p, 1)
      BY <2>1, <2>2 DEF Lost, WireAt, IsCopy
    <2>4. WireAt(m, ch, p, 1) => Wired(m, ch)
      BY DEF Wired
    <2>5. /\ SingleWire(m, ch)'
          /\ Wired(m, ch)' <=> Wired(m, ch) /\ ~WireAt(m, ch, p, 1)
      BY <2>1, WireTail DEF Whole, Single
    <2>6. /\ SingleList(m, ch)' <=> SingleList(m, ch)
          /\ Listed(m, ch)' <=> Listed(m, ch)
          /\ SingleHand(m, ch)' <=> SingleHand(m, ch)
          /\ Held(m, ch)' <=> Held(m, ch)
      BY <2>1, Unmoved
    <2> QED
      BY <2>1, <2>3, <2>4, <2>5, <2>6 DEF Whole, Single, Done
  <1> QED
    BY <1>1, <1>2

LEMMA RestartWhole ==
    ASSUME QueueTypes, NEW m \in Messages, NEW ch \in Channels, Whole(m, ch),
           NEW p \in Workers, Restart(p)
    PROVE  Whole(m, ch)'
  <1>1. /\ ~up[p] /\ UNCHANGED <<lists, wire, copies, handled, lost>>
        /\ consumers' = [c \in Consumers |-> IF Home[c] = p THEN Idle ELSE consumers[c]]
    BY DEF Restart, Residents
  <1>2. \A c \in Consumers : Home[c] = p => ~HandAt(m, ch, c)
    BY <1>1, NoHand DEF QueueTypes
  <1>3. SingleHand(m, ch)' /\ (Held(m, ch)' <=> Held(m, ch))
    <2>1. /\ SingleHand(m, ch)'
          /\ Held(m, ch)' <=> \E c \in Consumers : HandAt(m, ch, c) /\ Home[c] # p
      BY <1>1, HandsDrop DEF Whole, Single, Idle
    <2> QED
      BY <1>2, <2>1 DEF Held
  <1>4. /\ SingleWire(m, ch)' <=> SingleWire(m, ch)
        /\ Wired(m, ch)' <=> Wired(m, ch)
        /\ SingleList(m, ch)' <=> SingleList(m, ch)
        /\ Listed(m, ch)' <=> Listed(m, ch)
    BY <1>1, Unmoved
  <1> QED
    BY <1>1, <1>3, <1>4 DEF Whole, Single, Done, Lost

-----------------------------------------------------------------------------
LEMMA InitWhole ==
    ASSUME QueueInit, NEW m \in Messages, NEW ch \in Channels
    PROVE  Whole(m, ch)
  <1>1. QueueTypes
    BY QueueInitTypes
  <1>2. \A p \in Workers : \A i : ~WireAt(m, ch, p, i)
    BY EmptySeq DEF QueueInit, WireAt
  <1>3. \A i : ~ListAt(m, ch, i)
    BY EmptySeq DEF QueueInit, ListAt
  <1>4. \A c \in Consumers : ~HandAt(m, ch, c)
    BY <1>1, NoHand DEF QueueInit, HandAt
  <1>5. handled[m][ch] = 0 /\ <<m, ch>> \notin lost /\ <<m, ch>> \notin copies
    BY DEF QueueInit
  <1> QED
    BY <1>2, <1>3, <1>4, <1>5
       DEF Whole, Single, SingleWire, SingleList, SingleHand, Wired, Listed, Held, Done, Lost

LEMMA NextWhole ==
    ASSUME QueueTypes, NEW m \in Messages, NEW ch \in Channels, Whole(m, ch), [QueueNext]_queueVars
    PROVE  Whole(m, ch)'
  <1>1. ASSUME NEW p \in Workers, Crash(p) PROVE Whole(m, ch)'
    BY <1>1, EndedWhole DEF Crash
  <1>2. ASSUME NEW c \in Consumers, Loop(c) PROVE Whole(m, ch)'
    BY <1>2, PopWhole, TimeOutWhole, FulfilWhole, PushBackWhole DEF Loop
  <1>3. CASE UNCHANGED queueVars
    <2>1. UNCHANGED <<lists, wire, consumers, copies, handled, lost>>
      BY <1>3 DEF queueVars
    <2> QED
      BY <2>1, Unmoved DEF Whole, Single, Done, Lost
  <1> QED
    BY <1>1, <1>2, <1>3, PushMessageWhole, ExecuteWhole, RefuseWhole, RestartWhole DEF QueueNext

(* Only what was pushed goes down with a process or a push. *)
LEMMA NextLost ==
    ASSUME QueueTypes, lost \subseteq Messages \X Channels, [QueueNext]_queueVars
    PROVE  lost' \subseteq Messages \X Channels
  <1>1. ASSUME NEW p \in Workers PROVE HeldBy(p) \subseteq Messages \X Channels
    <2>1. \A c \in Residents(p) :
            consumers[c].text.msg \in Messages \cup {Nothing} /\ Channel[c] \in Channels
      BY Constants DEF Residents, QueueTypes, Consumer, Text
    <2>2. ASSUME NEW i \in 1..Len(wire[p])
          PROVE  wire[p][i].text.msg \in Messages \cup {Nothing} /\ wire[p][i].to \in Channels
      <3>1. wire[p] \in Seq(Command)
        BY DEF QueueTypes
      <3>2. wire[p][i] \in Command
        BY <3>1, ElementOfSeq
      <3> QED
        BY <3>2 DEF Command, Text
    <2> QED
      BY <2>1, <2>2 DEF HeldBy
  <1>2. ASSUME NEW p \in Workers, ProcessEnded(p) PROVE lost' \subseteq Messages \X Channels
    BY <1>1, <1>2 DEF ProcessEnded
  <1>3. ASSUME NEW p \in Workers, RefusePush(p) PROVE lost' \subseteq Messages \X Channels
    <2>1. CASE Head(wire[p]).back
      BY <1>2, <1>3, <2>1 DEF RefusePush
    <2>2. CASE ~Head(wire[p]).back
      <3> DEFINE cmd == Head(wire[p])
      <3>1. /\ wire[p] # <<>> /\ wire' = [wire EXCEPT ![p] = Tail(@)] /\ UNCHANGED up
            /\ lost' = lost \cup {<<cmd.text.msg, cmd.to>>}
        BY <1>3, <2>2 DEF RefusePush
      <3>2. cmd \in Command /\ cmd = wire[p][1] /\ Len(wire[p]) \in Nat \ {0}
        BY <3>1, TailTypes
      <3> HIDE DEF cmd
      <3>3. cmd.to \in Channels /\ cmd.back \in BOOLEAN
        BY <3>2 DEF Command
      <3>4. cmd.back = FALSE
        BY <2>2, <3>3 DEF cmd
      <3>5. 1 \in 1..Len(wire[p])
        BY <3>2
      <3>6. cmd.text.msg \in Messages
        BY <3>2, <3>4, <3>5 DEF QueueTypes
      <3> QED
        BY <3>1, <3>3, <3>6
    <2> QED
      BY <2>1, <2>2
  <1>4. UNCHANGED lost => lost' \subseteq Messages \X Channels
    OBVIOUS
  <1> QED
    BY <1>2, <1>3, <1>4
       DEF QueueNext, queueVars, PushMessage, Execute, Crash, Restart, Loop, Pop, TimeOut, Fulfil, PushBack

LEMMA QueueInductive ==
    /\ QueueInit => QueueTypes /\ QueueInv
    /\ QueueTypes /\ QueueInv /\ [QueueNext]_queueVars => QueueTypes' /\ QueueInv'
  <1>1. QueueInit => QueueTypes /\ QueueInv
    <2>1. QueueInit => lost = {}
      BY DEF QueueInit
    <2> QED
      BY <2>1, QueueInitTypes, InitWhole DEF QueueInv
  <1>2. ASSUME QueueTypes, QueueInv, [QueueNext]_queueVars PROVE QueueTypes' /\ QueueInv'
    <2>1. ASSUME NEW m \in Messages, NEW ch \in Channels PROVE Whole(m, ch)'
      <3>1. Whole(m, ch)
        BY <1>2 DEF QueueInv
      <3> QED
        BY <1>2, <3>1, NextWhole
    <2>2. lost' \subseteq Messages \X Channels
      BY <1>2, NextLost DEF QueueInv
    <2>3. QueueTypes'
      BY <1>2, QueueNextTypes
    <2> QED
      BY <2>1, <2>2, <2>3 DEF QueueInv
  <1> QED
    BY <1>1, <1>2

(* The queue stays well formed, and what is lost was once pushed: no        *)
(* command, crash or restart invents a message or leaves one in the hands   *)
(* of a process that has ended.                                             *)
THEOREM QueueTypeCorrect == QueueSpec => []TypeOK
  <1>1. QueueTypes /\ QueueInv => TypeOK
    <2> SUFFICES ASSUME QueueTypes, QueueInv PROVE TypeOK
      OBVIOUS
    <2>1. ASSUME NEW m \in Messages, NEW ch \in Channels, <<m, ch>> \in lost
          PROVE  <<m, ch>> \in copies
      BY <2>1 DEF QueueInv, Whole, Lost
    <2>2. lost \subseteq copies
      BY <2>1 DEF QueueInv
    <2> QED
      BY <2>2 DEF QueueTypes, TypeOK, Consumer
  <1> QED
    BY <1>1, QueueInductive, PTL DEF QueueSpec

(* However pushes, pops, failing handlers, refused commands, crashes and    *)
(* restarts interleave, a message pushed to a channel is there exactly      *)
(* once: on the list, on a wire, in hand, handled, or lost.                 *)
THEOREM ConservedAlways == QueueSpec => []Conserved
  <1>1. QueueTypes /\ QueueInv => Conserved
    BY WholeCounts DEF QueueInv, Conserved
  <1> QED
    BY <1>1, QueueInductive, PTL DEF QueueSpec

-----------------------------------------------------------------------------
(* Sequences. *)

LEMMA RangeAppend ==
    ASSUME NEW S, NEW s \in Seq(S), NEW e \in S
    PROVE  Range(Append(s, e)) = Range(s) \cup {e}
  <1>1. /\ Len(s) \in Nat /\ DOMAIN s = 1..Len(s)
        /\ DOMAIN Append(s, e) = 1..(Len(s) + 1)
        /\ \A i \in 1..Len(s) : Append(s, e)[i] = s[i]
        /\ Append(s, e)[Len(s) + 1] = e
    BY AppendProperties, LenProperties
  <1> QED
    BY <1>1 DEF Range

LEMMA RangeOfSeqIs ==
    ASSUME NEW S, NEW s \in Seq(S)
    PROVE  /\ Len(s) \in Nat
           /\ \A i \in 1..Len(s) : s[i] \in Range(s)
           /\ \A x \in Range(s) : x \in S /\ \E i \in 1..Len(s) : s[i] = x
  BY LenProperties DEF Range

LEMMA RangeEmpty == Range(<<>>) = {}
  BY DEF Range

-----------------------------------------------------------------------------
(* Types. *)

Steps == {"absent", "new", "read", "write", "emit", "publish", "done", "failed"}
Values == JobNames \cup {None}
Heard == [event : JobNames, copy : BOOLEAN]

Types ==
    /\ runtime \in {"node", "browser"}
    /\ frame = [p \in Processes |-> None]
    /\ step \in [JobNames -> Steps]
    /\ seen \in [JobNames -> SUBSET Values]
    /\ settings \in [Fields -> Values]
    /\ read \in [JobNames -> [Fields -> Values]]
    /\ subscribed \in [Processes -> BOOLEAN]
    /\ inbox \in [Processes -> Seq(JobNames)]
    /\ heard \in [Processes -> Seq(Heard)]
    /\ log \in Seq(JobNames)
    /\ writers \in Seq(JobNames)
    /\ alone \in [JobNames -> BOOLEAN]
    /\ \A j \in JobNames : step[j] \in {"read", "write"} => Kind(j) = "request"

LEMMA JobsAre ==
    ASSUME NEW j \in JobNames
    PROVE  /\ At(j) \in Processes /\ j # None
           /\ Kind(j) \in {"request", "init", "start", "destroy"}
           /\ Own(j) \in Heard /\ Copy(j) \in Heard
           /\ Kind(j) = "request" => Jobs[j].field \in Fields
  BY NodesAssumption
  DEF NodesAssumption, JobNames, At, Kind, None, Own, Copy, Heard, Fields

LEMMA InitTypes == Init => Types
  <1> SUFFICES ASSUME Init PROVE Types
    OBVIOUS
  <1>1. PICK load \in Loads :
          step = [j \in JobNames |-> IF j \in load THEN "new" ELSE "absent"]
    BY DEF Init
  <1>2. step \in [JobNames -> Steps]
        /\ \A j \in JobNames : step[j] \notin {"read", "write"}
    BY <1>1 DEF Steps
  <1>3. <<>> \in Seq(JobNames) /\ <<>> \in Seq(Heard)
    BY EmptySeq
  <1>4. runtime \in {"node", "browser"}
    BY NodesAssumption DEF Init, NodesAssumption
  <1>5. /\ frame = [p \in Processes |-> None]
        /\ settings \in [Fields -> Values]
    BY DEF Init, Values
  <1>6. /\ seen \in [JobNames -> SUBSET Values]
        /\ read \in [JobNames -> [Fields -> Values]]
        /\ subscribed \in [Processes -> BOOLEAN]
        /\ inbox \in [Processes -> Seq(JobNames)]
        /\ heard \in [Processes -> Seq(Heard)]
        /\ log \in Seq(JobNames)
        /\ writers \in Seq(JobNames)
        /\ alone \in [JobNames -> BOOLEAN]
    BY <1>3, <1>5 DEF Init
  <1> QED
    BY <1>2, <1>4, <1>5, <1>6 DEF Types

LEMMA NextTypes == Types /\ [Next]_vars => Types'
  <1> SUFFICES ASSUME Types, [Next]_vars PROVE Types'
    OBVIOUS
  <1> USE DEF Types
  <1>1. ASSUME NEW j \in JobNames, Enter(j) PROVE Types'
    BY <1>1, JobsAre DEF Enter, Run, Restored, See, Goto, Steps, Values, redis
  <1>2. ASSUME NEW j \in JobNames, Read(j) PROVE Types'
    <2>1. seen' \in [JobNames -> SUBSET Values]
      BY <1>2, JobsAre DEF Read, See, Current, Values
    <2>2. alone' \in [JobNames -> BOOLEAN]
      BY <1>2 DEF Read
    <2>3. /\ step' \in [JobNames -> Steps]
          /\ \A i \in JobNames : step'[i] \in {"read", "write"} => Kind(i) = "request"
          /\ read' \in [JobNames -> [Fields -> Values]]
      BY <1>2 DEF Read, Goto, Steps
    <2> QED
      BY <1>2, <2>1, <2>2, <2>3 DEF Read, redis
  <1>3. ASSUME NEW j \in JobNames, Write(j) PROVE Types'
    BY <1>3, JobsAre, AppendProperties
    DEF Write, See, Current, Goto, Steps, Values, Merged
  <1>4. ASSUME NEW j \in JobNames, Live(j) PROVE Types'
    BY <1>4, JobsAre DEF Live, Goto, Steps, redis
  <1>5. ASSUME NEW j \in JobNames, Emit(j) PROVE Types'
    BY <1>5, JobsAre, AppendProperties
    DEF Emit, Run, Restored, Listen, See, Current, Goto, Steps, Values, redis
  <1>6. ASSUME NEW j \in JobNames, Throw(j) PROVE Types'
    BY <1>6, JobsAre
    DEF Throw, Run, Restored, See, Current, Goto, Steps, Values, redis
  <1>7. ASSUME NEW j \in JobNames, Publish(j) PROVE Types'
    BY <1>7, AppendProperties DEF Publish, ToAll, Goto, Steps
  <1>8. ASSUME NEW j \in JobNames, Refuse(j) PROVE Types'
    BY <1>8 DEF Refuse, Goto, Steps, redis
  <1>9. ASSUME NEW p \in Processes, Hear(p) PROVE Types'
    BY <1>9, JobsAre, HeadTailProperties, AppendProperties, ElementOfSeq
    DEF Hear, Listen, Echo
  <1>10. ASSUME NEW p \in Processes, Subscribe(p) \/ Disconnect(p) PROVE Types'
    <2>1. <<>> \in Seq(JobNames)
      BY EmptySeq
    <2>2. CASE Subscribe(p)
      BY <2>2 DEF Subscribe
    <2>3. CASE Disconnect(p)
      BY <2>1, <2>3 DEF Disconnect
    <2> QED
      BY <1>10, <2>2, <2>3
  <1>11. CASE UNCHANGED vars
    BY <1>11 DEF vars, redis
  <1> QED
    BY <1>1, <1>2, <1>3, <1>4, <1>5, <1>6, <1>7, <1>8, <1>9, <1>10, <1>11
    DEF Next, Work

LEMMA TypesHold == Spec => []Types
  BY InitTypes, NextTypes, PTL DEF Spec

-----------------------------------------------------------------------------
(* Contexts.  The shim gives the frame back before any other code runs, so  *)
(* that between two steps no frame is active (Types).                       *)

LEMMA CurrentIs ==
    ASSUME Types, NEW j \in JobNames
    PROVE  Current(j) = IF runtime = "node" THEN j ELSE None
  BY JobsAre DEF Types, Current

(* Whatever interleaves with a request, code of it finds its context, or, in *)
(* the browser and after an await, none.                                     *)
THEOREM OwnContextAlways == Spec => []OwnContext
  <1>1. Init => OwnContext
    BY DEF Init, OwnContext
  <1>2. Types /\ OwnContext /\ [Next]_vars => OwnContext'
    <2> SUFFICES ASSUME Types, OwnContext, [Next]_vars PROVE OwnContext'
      OBVIOUS
    <2>1. ASSUME UNCHANGED <<runtime, seen>> PROVE OwnContext'
      BY <2>1 DEF OwnContext
    <2>2. ASSUME NEW j \in JobNames, runtime' = runtime,
                 See(j, j) \/ See(j, Current(j))
          PROVE  OwnContext'
      <3>1. \E c \in {j, None} : See(j, c) /\ (runtime = "node" => c = j)
        BY <2>2, CurrentIs
      <3> QED
        BY <2>2, <3>1, JobsAre DEF Types, See, OwnContext
    <2>3. ASSUME NEW j \in JobNames, Work(j) PROVE OwnContext'
      BY <2>1, <2>2, <2>3
      DEF Work, Enter, Read, Write, Live, Emit, Throw, Publish, Refuse
    <2>4. ASSUME NEW p \in Processes, Hear(p) \/ Subscribe(p) \/ Disconnect(p)
          PROVE  OwnContext'
      BY <2>1, <2>4 DEF Hear, Subscribe, Disconnect
    <2> QED
      BY <2>1, <2>3, <2>4 DEF Next, vars
  <1> QED
    BY <1>1, <1>2, TypesHold, PTL DEF Spec

-----------------------------------------------------------------------------
(* Settings. *)

AfterIn(order, i, j) ==
    \E a, b \in 1..Len(order) : a > b /\ order[a] = i /\ order[b] = j

(* Whoever set the field of j last in values is j, or a request that wrote  *)
(* after j did.                                                             *)
Keeps(order, values, j) ==
    LET last == values[Jobs[j].field] IN
    last = j \/ (last # None /\ AfterIn(order, last, j))

(* What a request has read since is as good as what Redis holds, because    *)
(* whoever read before j wrote overlaps j.                                  *)
SettingsInv ==
    /\ \A j \in Range(writers) :
         /\ Kind(j) = "request" /\ step[j] \in {"emit", "publish", "done", "failed"}
         /\ alone[j] => /\ Keeps(writers, settings, j)
                        /\ \A i \in Setting : Keeps(writers, read[i], j)
    /\ \A i, j \in Setting : i # j => ~alone[j]

LEMMA AfterGrows ==
    ASSUME Types, NEW i \in JobNames, writers' = Append(writers, i)
    PROVE  /\ \A k, j : AfterIn(writers, k, j) => AfterIn(writers', k, j)
           /\ \A j \in Range(writers) : AfterIn(writers', i, j)
           /\ Range(writers') = Range(writers) \cup {i}
  <1>1. writers \in Seq(JobNames)
    BY DEF Types
  <1>2. /\ Len(writers) \in Nat /\ Len(writers') = Len(writers) + 1
        /\ \A a \in 1..Len(writers) : writers'[a] = writers[a]
        /\ writers'[Len(writers) + 1] = i
    BY <1>1, AppendProperties, LenProperties
  <1>3. ASSUME NEW k, NEW j, AfterIn(writers, k, j) PROVE AfterIn(writers', k, j)
    BY <1>2, <1>3 DEF AfterIn
  <1>4. ASSUME NEW j \in Range(writers) PROVE AfterIn(writers', i, j)
    <2>1. PICK b \in 1..Len(writers) : writers[b] = j
      BY <1>1, RangeOfSeqIs
    <2> QED
      BY <1>2, <2>1 DEF AfterIn
  <1> QED
    BY <1>1, <1>3, <1>4, RangeAppend

(* Steps that leave settings alone. *)
LEMMA OtherStepsKeep ==
    ASSUME Types, SettingsInv, UNCHANGED <<settings, read, writers, alone>>,
           \/ UNCHANGED step
           \/ \E j \in JobNames, s \in Steps \ {"write"} :
                /\ step[j] # "write" /\ Goto(j, s)
                /\ j \in Range(writers) => s \in {"emit", "publish", "done", "failed"}
    PROVE  SettingsInv'
  <1>1. CASE UNCHANGED step
    BY <1>1 DEF Setting, SettingsInv
  <1>2. ASSUME NEW j \in JobNames, NEW s \in Steps \ {"write"},
               step[j] # "write", Goto(j, s),
               j \in Range(writers) => s \in {"emit", "publish", "done", "failed"}
        PROVE  SettingsInv'
    <2>1. Setting' = Setting
      BY <1>2 DEF Setting, Goto, Types
    <2>2. Range(writers) \subseteq JobNames
      BY RangeOfSeqIs DEF Types
    <2>3. ASSUME NEW i \in Range(writers)
          PROVE  step'[i] \in {"emit", "publish", "done", "failed"}
      BY <1>2, <2>2 DEF Goto, Types, SettingsInv
    <2> QED
      BY <2>1, <2>3 DEF SettingsInv
  <1> QED
    BY <1>1, <1>2

LEMMA ReadKeeps ==
    ASSUME Types, SettingsInv, NEW i \in JobNames, Read(i)
    PROVE  SettingsInv'
  <1>1. CASE ~client[i]
    BY <1>1, OtherStepsKeep DEF Read, Steps, redis, SettingsInv
  <1>2. CASE client[i]
    <2>1. /\ Goto(i, "write") /\ read' = [read EXCEPT ![i] = settings]
          /\ UNCHANGED <<settings, writers>> /\ step[i] = "read"
          /\ \A j \in JobNames \ {i} : alone'[j] <=> (alone[j] /\ j \notin Setting)
          /\ alone'[i] <=> Setting = {}
      BY <1>2 DEF Read, redis
    <2>2. Setting' = Setting \cup {i}
      BY <2>1 DEF Setting, Goto, Types
    <2>3. i \notin Range(writers)
      BY <2>1 DEF SettingsInv
    <2>4. Range(writers) \subseteq JobNames
      BY RangeOfSeqIs DEF Types
    <2>5. ASSUME NEW j \in Range(writers)
          PROVE  /\ Kind(j) = "request" /\ step'[j] \in {"emit", "publish", "done", "failed"}
                 /\ alone'[j] => /\ Keeps(writers, settings, j)
                                 /\ \A k \in Setting' : Keeps(writers, read'[k], j)
      <3>1. j # i /\ j \in JobNames
        BY <2>3, <2>4
      <3>2. Kind(j) = "request" /\ step'[j] \in {"emit", "publish", "done", "failed"}
        BY <2>1, <3>1 DEF SettingsInv, Types, Goto
      <3>3. alone'[j] => alone[j]
        BY <2>1, <3>1
      <3>4. ASSUME alone[j], NEW k \in Setting' PROVE Keeps(writers, read'[k], j)
        BY <2>1, <2>2, <3>4 DEF SettingsInv, Types, Setting
      <3> QED
        BY <3>2, <3>3, <3>4 DEF SettingsInv
    <2>6. ASSUME NEW j \in Setting', NEW k \in Setting', j # k PROVE ~alone'[j]
      BY <2>1, <2>2, <2>6 DEF Setting
    <2> QED
      BY <2>1, <2>5, <2>6 DEF SettingsInv
  <1> QED
    BY <1>1, <1>2

LEMMA WriteKeeps ==
    ASSUME Types, SettingsInv, NEW i \in JobNames, Write(i)
    PROVE  SettingsInv'
  <1>1. /\ Goto(i, "emit") /\ UNCHANGED <<read, alone>> /\ step[i] = "write"
        /\ settings' = [read[i] EXCEPT ![Jobs[i].field] = i]
        /\ writers' = Append(writers, i)
    BY DEF Write, Merged
  <1>2. Setting' = Setting \ {i} /\ i \in Setting
    BY <1>1 DEF Setting, Goto, Types
  <1>3. i \notin Range(writers)
    BY <1>1 DEF SettingsInv
  <1>4. Range(writers) \subseteq JobNames /\ Range(writers') = Range(writers) \cup {i}
    BY <1>1, AfterGrows, RangeOfSeqIs DEF Types
  <1>5. Kind(i) = "request" /\ Jobs[i].field \in Fields /\ read[i] \in [Fields -> Values]
    BY <1>1, JobsAre DEF Types
  <1>6. ASSUME NEW j \in Range(writers), NEW values, Keeps(writers, values, j)
        PROVE  Keeps(writers', values, j)
    BY <1>1, <1>6, AfterGrows DEF Keeps
  <1>7. ASSUME NEW j \in Range(writers)
        PROVE  /\ Kind(j) = "request" /\ step'[j] \in {"emit", "publish", "done", "failed"}
               /\ alone[j] => /\ Keeps(writers', settings', j)
                              /\ \A k \in Setting' : Keeps(writers', read[k], j)
    <2>1. j # i /\ j \in JobNames
      BY <1>3, <1>4
    <2>2. Kind(j) = "request" /\ step'[j] \in {"emit", "publish", "done", "failed"}
      BY <1>1, <2>1 DEF SettingsInv, Types, Goto
    <2>3. ASSUME alone[j], NEW k \in Setting' PROVE Keeps(writers', read[k], j)
      BY <1>2, <1>6, <2>3 DEF SettingsInv
    <2>4. ASSUME alone[j] PROVE Keeps(writers', settings', j)
      <3>1. CASE Jobs[i].field = Jobs[j].field
        <4>1. settings'[Jobs[j].field] = i /\ i # None /\ AfterIn(writers', i, j)
          BY <1>1, <1>5, <3>1, AfterGrows, JobsAre
        <4> QED
          BY <4>1 DEF Keeps
      <3>2. CASE Jobs[i].field # Jobs[j].field
        <4>1. Keeps(writers', read[i], j)
          BY <1>2, <1>6, <2>4 DEF SettingsInv
        <4>2. Jobs[j].field \in Fields
          BY <2>1, <2>2, JobsAre
        <4>3. settings'[Jobs[j].field] = read[i][Jobs[j].field]
          BY <1>1, <1>5, <3>2, <4>2
        <4> QED
          BY <4>1, <4>3 DEF Keeps
      <3> QED
        BY <3>1, <3>2
    <2> QED
      BY <2>2, <2>3, <2>4
  <1>8. /\ step'[i] = "emit" /\ settings'[Jobs[i].field] = i
        /\ \A k \in Setting' : ~alone[i]
    BY <1>1, <1>2, <1>5 DEF SettingsInv, Goto, Types
  <1>9. Keeps(writers', settings', i)
    BY <1>8 DEF Keeps
  <1> QED
    BY <1>1, <1>2, <1>4, <1>5, <1>7, <1>8, <1>9 DEF SettingsInv

(* A change of a setting that no other one overlapped stays until a later   *)
(* request sets the same field, however these overlap.                      *)
THEOREM SettingKeptAlways == Spec => []SettingKept
  <1>1. Init => SettingsInv
    BY RangeEmpty DEF Init, SettingsInv, Setting
  <1>2. Types /\ SettingsInv /\ [Next]_vars => SettingsInv'
    <2> SUFFICES ASSUME Types, SettingsInv, [Next]_vars PROVE SettingsInv'
      OBVIOUS
    <2>1. ASSUME NEW j \in JobNames, Enter(j) PROVE SettingsInv'
      BY <2>1, OtherStepsKeep DEF Enter, Steps, redis, SettingsInv
    <2>2. ASSUME NEW j \in JobNames, Live(j) \/ Emit(j) \/ Throw(j) PROVE SettingsInv'
      BY <2>2, OtherStepsKeep DEF Live, Emit, Throw, Steps, redis
    <2>3. ASSUME NEW j \in JobNames, Publish(j) \/ Refuse(j) PROVE SettingsInv'
      BY <2>3, OtherStepsKeep DEF Publish, Refuse, Steps, redis
    <2>4. ASSUME NEW p \in Processes, Hear(p) \/ Subscribe(p) \/ Disconnect(p)
          PROVE  SettingsInv'
      BY <2>4, OtherStepsKeep DEF Hear, Subscribe, Disconnect
    <2>5. CASE UNCHANGED vars
      BY <2>5, OtherStepsKeep DEF vars, redis
    <2> QED
      BY <2>1, <2>2, <2>3, <2>4, <2>5, ReadKeeps, WriteKeeps DEF Next, Work
  <1>3. SettingsInv => SettingKept
    BY DEF SettingsInv, SettingKept, Keeps, After, AfterIn
  <1> QED
    BY <1>1, <1>2, <1>3, TypesHold, PTL DEF Spec

-----------------------------------------------------------------------------
(* The broadcast. *)

(* The positions in the log of what p heard from Redis. *)
Told(p) == {i \in 1..Len(log) : Copy(log[i]) \in Range(heard[p])}

(* An event is heard where it happens before it is published, is published  *)
(* once, and only what was published comes from Redis.                      *)
PublishInv ==
    /\ \A j \in JobNames, p \in Processes :
         /\ Own(j) \in Range(heard[p]) => step[j] \in {"publish", "done"}
         /\ Copy(j) \in Range(heard[p]) => j \in Range(log)
    /\ \A j \in JobNames : step[j] = "publish" => Own(j) \in Range(heard[At(j)])
    /\ \A j \in Range(log) : step[j] = "done"
    /\ \A a, b \in 1..Len(log) : log[a] = log[b] => a = b

(* What is on its way to p is in the order of the log, and comes after      *)
(* whatever p was told.                                                     *)
InOrder(box, events, told) ==
    /\ \A k \in 1..Len(box) : box[k] \in Range(events)
    /\ \A k \in 1..Len(box), a, b \in 1..Len(events) :
         box[k] = events[b] /\ a \in told => a < b
    /\ \A k, l \in 1..Len(box), a, b \in 1..Len(events) :
         box[k] = events[a] /\ box[l] = events[b] /\ k < l => a < b
    /\ \E m \in {0} \cup told : \A i \in told : i <= m

InboxInv(p) == InOrder(inbox[p], log, Told(p))

BroadcastInv == PublishInv /\ \A p \in Processes : InboxInv(p)

LEMMA MaxIs ==
    ASSUME NEW S, S \subseteq Nat, NEW m \in S, \A i \in S : i <= m
    PROVE  Max(S) = m
  <1>1. \A i \in S : m >= i
    OBVIOUS
  <1>2. Max(S) \in S /\ \A i \in S : Max(S) >= i
    BY <1>1 DEF Max
  <1>3. Max(S) \in Nat /\ m \in Nat /\ m >= Max(S) /\ Max(S) >= m
    BY <1>1, <1>2
  <1> QED
    BY <1>3

LEMMA PlaceIs ==
    ASSUME Types, NEW p \in Processes, NEW m \in {0} \cup Told(p),
           \A i \in Told(p) : i <= m
    PROVE  Places[p] = m
  <1>1. Places[p] = Max({0} \cup Told(p))
    BY DEF Places, Told
  <1>2. {0} \cup Told(p) \subseteq Nat
    BY RangeOfSeqIs DEF Types, Told
  <1> QED
    BY <1>1, <1>2, MaxIs

LEMMA HeardGrows ==
    ASSUME Types, NEW p \in Processes, NEW e \in Heard,
           heard' = [heard EXCEPT ![p] = Append(@, e)],
           NEW q \in Processes
    PROVE  Range(heard'[q]) = IF q = p THEN Range(heard[q]) \cup {e}
                                       ELSE Range(heard[q])
  <1> DEFINE after == Append(heard[p], e)
  <1>1. heard \in [Processes -> Seq(Heard)]
    BY DEF Types
  <1>2. heard' = [heard EXCEPT ![p] = after] /\ Range(after) = Range(heard[p]) \cup {e}
    BY <1>1, RangeAppend
  <1> HIDE DEF after
  <1>3. CASE q = p
    BY <1>1, <1>2, <1>3
  <1>4. CASE q # p
    BY <1>1, <1>2, <1>4
  <1> QED
    BY <1>3, <1>4

LEMMA LogGrows ==
    ASSUME Types, NEW j \in JobNames, log' = Append(log, j)
    PROVE  /\ Len(log) \in Nat /\ Len(log') = Len(log) + 1
           /\ \A i \in 1..Len(log) : log'[i] = log[i]
           /\ log'[Len(log) + 1] = j
           /\ Range(log') = Range(log) \cup {j}
  BY AppendProperties, RangeAppend, LenProperties DEF Types

(* Steps of jobs that neither are heard nor publish. *)
LEMMA QuietStepsBroadcast ==
    ASSUME Types, BroadcastInv, UNCHANGED <<heard, log>>,
           UNCHANGED inbox \/ \E p \in Processes : inbox' = [inbox EXCEPT ![p] = <<>>],
           \/ UNCHANGED step
           \/ \E j \in JobNames, s \in Steps \ {"publish"} :
                /\ step[j] # "done" /\ Goto(j, s)
                /\ step[j] = "publish" => s = "done"
    PROVE  BroadcastInv' /\ UNCHANGED Places
  <1>1. \A p \in Processes : Told(p)' = Told(p)
    BY DEF Told
  <1>2. Range(log) \subseteq JobNames
    BY RangeOfSeqIs DEF Types
  <1>3. PublishInv'
    <2>1. CASE UNCHANGED step
      BY <2>1 DEF BroadcastInv, PublishInv
    <2>2. ASSUME NEW j \in JobNames, NEW s \in Steps \ {"publish"},
                 step[j] # "done", Goto(j, s), step[j] = "publish" => s = "done"
          PROVE  PublishInv'
      <3>1. \A i \in JobNames : step'[i] = IF i = j THEN s ELSE step[i]
        BY <2>2 DEF Goto, Types
      <3>2. \A i \in JobNames, p \in Processes :
              Own(i) \in Range(heard[p]) => step'[i] \in {"publish", "done"}
        BY <2>2, <3>1 DEF BroadcastInv, PublishInv
      <3>3. \A i \in JobNames : step'[i] = "publish" => Own(i) \in Range(heard[At(i)])
        BY <2>2, <3>1 DEF BroadcastInv, PublishInv
      <3>4. \A i \in Range(log) : step'[i] = "done"
        BY <1>2, <2>2, <3>1 DEF BroadcastInv, PublishInv
      <3> QED
        BY <3>2, <3>3, <3>4 DEF BroadcastInv, PublishInv
    <2> QED
      BY <2>1, <2>2
  <1>4. ASSUME NEW p \in Processes PROVE InboxInv(p)'
    <2>1. \/ inbox'[p] = inbox[p]
          \/ inbox'[p] = <<>>
      BY DEF Types
    <2>2. Len(<<>>) = 0
      BY EmptySeq
    <2> QED
      BY <1>1, <2>1, <2>2 DEF BroadcastInv, InboxInv, InOrder
  <1>5. Places' = Places
    BY DEF Places
  <1> QED
    BY <1>3, <1>4, <1>5 DEF BroadcastInv

(* The names of the abstract module mean what they mean here.               *)
LEMMA PromisedNames ==
    /\ \A f : Promised!Range(f) = Range(f)
    /\ \A j : Promised!Own(j) = Own(j) /\ Promised!Copy(j) = Copy(j)
  BY DEF Promised!Range, Range, Promised!Own, Own, Promised!Copy, Copy

LEMMA EmitBroadcasts ==
    ASSUME Types, BroadcastInv, NEW j \in JobNames, Emit(j)
    PROVE  BroadcastInv' /\ Promised!Announce(At(j), j) /\ UNCHANGED Places
  <1> DEFINE s == IF runtime = "node" THEN "publish" ELSE "done"
  <1>1. /\ step[j] = "emit" /\ UNCHANGED <<log, inbox>>
        /\ heard' = [heard EXCEPT ![At(j)] = Append(@, Own(j))]
        /\ \A i \in JobNames : step'[i] = IF i = j THEN s ELSE step[i]
    BY DEF Emit, Listen, Goto, redis, Types
  <1>2. /\ At(j) \in Processes /\ Own(j) \in Heard
        /\ \A i \in JobNames : Copy(i) # Own(j) /\ (Own(i) = Own(j) <=> i = j)
    BY JobsAre DEF Own, Copy
  <1>3. \A q \in Processes :
          Range(heard'[q]) = IF q = At(j) THEN Range(heard[q]) \cup {Own(j)}
                                          ELSE Range(heard[q])
    <2> DEFINE p == At(j)
               e == Own(j)
    <2>1. p \in Processes /\ e \in Heard /\ heard' = [heard EXCEPT ![p] = Append(@, e)]
      BY <1>1, <1>2
    <2> HIDE DEF p, e
    <2>2. \A q \in Processes : Range(heard'[q]) =
            IF q = p THEN Range(heard[q]) \cup {e} ELSE Range(heard[q])
      BY <2>1, HeardGrows
    <2> QED
      BY <2>2 DEF p, e
  <1>4. Range(log) \subseteq JobNames /\ \A i \in 1..Len(log) : log[i] \in Range(log)
    BY RangeOfSeqIs DEF Types
  <1>5. \A q \in Processes : Told(q)' = Told(q)
    <2>1. ASSUME NEW q \in Processes, NEW i \in 1..Len(log)
          PROVE  Copy(log[i]) \in Range(heard'[q]) <=> Copy(log[i]) \in Range(heard[q])
      BY <1>2, <1>3, <1>4
    <2> QED
      BY <1>1, <2>1 DEF Told, Copy
  <1>6. PublishInv'
    <2>1. ASSUME NEW i \in JobNames, NEW p \in Processes
          PROVE  /\ Own(i) \in Range(heard'[p]) => step'[i] \in {"publish", "done"}
                 /\ Copy(i) \in Range(heard'[p]) => i \in Range(log)
      <3>1. /\ Own(i) \in Range(heard'[p]) => i = j \/ Own(i) \in Range(heard[p])
            /\ Copy(i) \in Range(heard'[p]) => Copy(i) \in Range(heard[p])
        BY <1>2, <1>3
      <3> QED
        BY <1>1, <3>1 DEF BroadcastInv, PublishInv
    <2>2. ASSUME NEW i \in JobNames, step'[i] = "publish"
          PROVE  Own(i) \in Range(heard'[At(i)])
      <3>1. At(i) \in Processes /\ (i = j \/ Own(i) \in Range(heard[At(i)]))
        BY <1>1, <2>2, JobsAre DEF BroadcastInv, PublishInv
      <3> QED
        BY <1>3, <3>1
    <2>3. \A i \in Range(log) : step'[i] = "done"
      BY <1>1, <1>4 DEF BroadcastInv, PublishInv
    <2> QED
      BY <1>1, <2>1, <2>2, <2>3 DEF BroadcastInv, PublishInv, Own, Copy
  <1>7. ASSUME NEW q \in Processes PROVE InboxInv(q)'
    <2>1. InboxInv(q) /\ Told(q)' = Told(q) /\ log' = log /\ inbox' = inbox
      BY <1>1, <1>5 DEF BroadcastInv
    <2> QED
      BY <2>1 DEF InboxInv
  <1>8. UNCHANGED Places
    BY <1>1, <1>5 DEF Places, Told
  <1>9. j \notin Promised!Announced
    BY <1>1, PromisedNames DEF BroadcastInv, PublishInv, Promised!Announced
  <1> QED
    BY <1>1, <1>6, <1>7, <1>8, <1>9, PromisedNames
    DEF BroadcastInv, Promised!Announce

LEMMA PublishBroadcasts ==
    ASSUME Types, BroadcastInv, NEW j \in JobNames, Publish(j)
    PROVE  BroadcastInv' /\ Promised!Publish(j) /\ UNCHANGED Places
  <1>1. /\ step[j] = "publish" /\ UNCHANGED heard
        /\ log' = Append(log, j)
        /\ \A p \in Processes : \/ inbox'[p] = Append(inbox[p], j)
                                \/ inbox'[p] = inbox[p]
        /\ \A i \in JobNames : step'[i] = IF i = j THEN "done" ELSE step[i]
    BY DEF Publish, ToAll, Goto, Types
  <1>2. j \notin Range(log)
    BY <1>1 DEF BroadcastInv, PublishInv
  <1>3. /\ Range(log) \subseteq JobNames /\ Len(log) \in Nat
        /\ \A i \in 1..Len(log) : log[i] \in Range(log)
    BY RangeOfSeqIs DEF Types
  <1>4. /\ Len(log') = Len(log) + 1
        /\ \A i \in 1..Len(log) : log'[i] = log[i]
        /\ log'[Len(log) + 1] = j
        /\ Range(log') = Range(log) \cup {j}
    BY <1>1, LogGrows
  <1>5. \A p \in Processes : Copy(j) \notin Range(heard[p])
    BY <1>2 DEF BroadcastInv, PublishInv
  <1>6. \A p \in Processes : Told(p)' = Told(p)
    <2>1. ASSUME NEW p \in Processes, NEW i \in 1..Len(log')
          PROVE  Copy(log'[i]) \in Range(heard[p]) <=>
                   i \in 1..Len(log) /\ Copy(log[i]) \in Range(heard[p])
      BY <1>3, <1>4, <1>5
    <2> QED
      BY <1>1, <1>3, <1>4, <2>1 DEF Told, Copy
  <1>7. PublishInv'
    <2>1. \A i \in JobNames, p \in Processes :
            /\ Own(i) \in Range(heard'[p]) => step'[i] \in {"publish", "done"}
            /\ Copy(i) \in Range(heard'[p]) => i \in Range(log')
      BY <1>1, <1>4 DEF BroadcastInv, PublishInv
    <2>2. \A i \in JobNames : step'[i] = "publish" => Own(i) \in Range(heard'[At(i)])
      BY <1>1 DEF BroadcastInv, PublishInv
    <2>3. \A i \in Range(log') : step'[i] = "done"
      BY <1>1, <1>3, <1>4 DEF BroadcastInv, PublishInv
    <2>4. \A a, b \in 1..Len(log') : log'[a] = log'[b] => a = b
      BY <1>2, <1>3, <1>4 DEF BroadcastInv, PublishInv
    <2> QED
      BY <2>1, <2>2, <2>3, <2>4 DEF PublishInv, Own, Copy
  <1>8. ASSUME NEW p \in Processes PROVE InboxInv(p)'
    <2>1. /\ Len(inbox[p]) \in Nat
          /\ \/ Len(inbox'[p]) = Len(inbox[p])
             \/ Len(inbox'[p]) = Len(inbox[p]) + 1 /\ inbox'[p][Len(inbox[p]) + 1] = j
          /\ \A k \in 1..Len(inbox[p]) : inbox'[p][k] = inbox[p][k]
                                           /\ inbox[p][k] \in Range(log)
      BY <1>1, AppendProperties, RangeOfSeqIs DEF Types, BroadcastInv, InboxInv, InOrder
    <2>2. Told(p) \subseteq 1..Len(log)
      BY DEF Told
    <2>3. \A k \in 1..Len(inbox'[p]), b \in 1..Len(log') :
            inbox'[p][k] = log'[b] =>
              IF k \in 1..Len(inbox[p]) THEN b \in 1..Len(log) /\ inbox[p][k] = log[b]
              ELSE b = Len(log) + 1
      BY <1>2, <1>3, <1>4, <2>1
    <2>4. \A k \in 1..Len(inbox'[p]) : inbox'[p][k] \in Range(log')
      BY <1>4, <2>1
    <2>5. ASSUME NEW k \in 1..Len(inbox'[p]), NEW a \in Told(p),
                 NEW b \in 1..Len(log'), inbox'[p][k] = log'[b]
          PROVE  a < b
      BY <1>3, <2>2, <2>3, <2>5 DEF BroadcastInv, InboxInv, InOrder
    <2>6. ASSUME NEW k \in 1..Len(inbox'[p]), NEW l \in 1..Len(inbox'[p]), k < l,
                 NEW a \in 1..Len(log'), NEW b \in 1..Len(log'),
                 inbox'[p][k] = log'[a], inbox'[p][l] = log'[b]
          PROVE  a < b
      <3>1. k \in 1..Len(inbox[p]) /\ a \in 1..Len(log) /\ inbox[p][k] = log[a]
        BY <2>1, <2>3, <2>6
      <3> QED
        BY <1>3, <2>3, <2>6, <3>1 DEF BroadcastInv, InboxInv, InOrder
    <2>7. \E m \in {0} \cup Told(p) : \A i \in Told(p) : i <= m
      BY DEF BroadcastInv, InboxInv, InOrder
    <2> QED
      BY <1>6, <2>4, <2>5, <2>6, <2>7 DEF InboxInv, InOrder
  <1>9. UNCHANGED Places
    BY <1>6 DEF Places, Told
  <1>10. j \in Promised!Announced
    BY <1>1, JobsAre, PromisedNames
    DEF BroadcastInv, PublishInv, Promised!Announced
  <1> QED
    BY <1>1, <1>2, <1>7, <1>8, <1>9, <1>10, PromisedNames
    DEF BroadcastInv, Promised!Publish

(* The copy a process takes off its queue is the next one of the log for it. *)
LEMMA HearBroadcasts ==
    ASSUME Types, BroadcastInv, NEW p \in Processes, Hear(p)
    PROVE  BroadcastInv' /\ \E i \in 1..Len(log) : Promised!Receive(p, i)
  <1> DEFINE e == inbox[p][1]
             rest == Tail(inbox[p])
  <1>1. /\ inbox[p] \in Seq(JobNames) /\ inbox[p] # <<>> /\ UNCHANGED <<log, step>>
        /\ heard' = [heard EXCEPT ![p] = Append(@, Copy(e))]
        /\ \A q \in Processes : inbox'[q] = IF q = p THEN rest ELSE inbox[q]
    BY DEF Hear, Listen, Echo, Types
  <1>2. /\ Len(inbox[p]) \in Nat \ {0}
        /\ Len(rest) = Len(inbox[p]) - 1
        /\ \A k \in 1..Len(rest) : rest[k] = inbox[p][k + 1]
    BY <1>1, HeadTailProperties, EmptySeq
  <1>3. e \in Range(log)
    BY <1>2 DEF BroadcastInv, InboxInv, InOrder
  <1>4. PICK i \in 1..Len(log) : log[i] = e
    BY <1>3, RangeOfSeqIs DEF Types
  <1>5. /\ Len(log) \in Nat /\ \A a \in 1..Len(log) : log[a] \in JobNames
        /\ e \in JobNames
    BY <1>3, RangeOfSeqIs DEF Types
  <1> HIDE DEF e, rest
  <1>6. /\ Copy(e) \in Heard /\ \A j \in JobNames : Own(j) # Copy(e)
        /\ \A j \in JobNames : Copy(j) = Copy(e) <=> j = e
    BY <1>5, JobsAre DEF Own, Copy
  <1>7. \A q \in Processes : Range(heard'[q]) =
          IF q = p THEN Range(heard[q]) \cup {Copy(e)} ELSE Range(heard[q])
    BY <1>1, <1>6, HeardGrows
  <1>8. \A a \in 1..Len(log) : log[a] = e <=> a = i
    BY <1>4 DEF BroadcastInv, PublishInv
  <1>9. ASSUME NEW q \in Processes
        PROVE  Told(q)' = IF q = p THEN Told(q) \cup {i} ELSE Told(q)
    <2>1. ASSUME NEW a \in 1..Len(log)
          PROVE  Copy(log[a]) \in Range(heard'[q]) <=>
                   Copy(log[a]) \in Range(heard[q]) \/ (q = p /\ a = i)
      BY <1>5, <1>6, <1>7, <1>8
    <2> QED
      BY <1>1, <2>1 DEF Told
  <1>10. \A a \in Told(p) : a < i
    BY <1>2, <1>4, <1>8 DEF BroadcastInv, InboxInv, InOrder, Told, e
  <1>11. PublishInv'
    <2>1. ASSUME NEW j \in JobNames, NEW q \in Processes
          PROVE  /\ Own(j) \in Range(heard'[q]) => step[j] \in {"publish", "done"}
                 /\ Copy(j) \in Range(heard'[q]) => j \in Range(log)
      <3>1. /\ Own(j) \in Range(heard'[q]) => Own(j) \in Range(heard[q])
            /\ Copy(j) \in Range(heard'[q]) => j = e \/ Copy(j) \in Range(heard[q])
        BY <1>6, <1>7
      <3> QED
        BY <1>3, <3>1 DEF BroadcastInv, PublishInv
    <2>2. ASSUME NEW j \in JobNames, step[j] = "publish"
          PROVE  Own(j) \in Range(heard'[At(j)])
      BY <1>7, <2>2, JobsAre DEF BroadcastInv, PublishInv
    <2> QED
      BY <1>1, <2>1, <2>2 DEF BroadcastInv, PublishInv, Own, Copy
  <1>12. ASSUME NEW q \in Processes PROVE InboxInv(q)'
    <2>1. CASE q # p
      <3>1. InboxInv(q) /\ Told(q)' = Told(q) /\ log' = log /\ inbox'[q] = inbox[q]
        BY <1>1, <1>9, <2>1 DEF BroadcastInv
      <3> QED
        BY <3>1 DEF InboxInv, InOrder
    <2>2. CASE q = p
      <3>1. /\ Told(p)' = Told(p) \cup {i} /\ log' = log /\ InboxInv(p)
        BY <1>1, <1>9 DEF BroadcastInv
      <3>2. /\ inbox'[p] = rest
            /\ \A k \in 1..Len(rest) : /\ k \in Nat /\ k + 1 \in 1..Len(inbox[p])
                                       /\ k + 1 > 1 /\ rest[k] = inbox[p][k + 1]
        BY <1>1, <1>2
      <3>3. ASSUME NEW k \in 1..Len(rest), NEW a \in Told(p)',
                   NEW b \in 1..Len(log), rest[k] = log[b]
            PROVE  a < b
        <4>1. 1 \in 1..Len(inbox[p]) /\ inbox[p][1] = log[i]
          BY <1>2, <1>4 DEF e
        <4>2. PICK l \in 1..Len(inbox[p]) : inbox[p][l] = log[b] /\ 1 < l
          BY <3>2, <3>3
        <4>3. i < b
          BY <3>1, <4>1, <4>2 DEF InboxInv, InOrder
        <4>4. a = i \/ (a \in Told(p) /\ a \in 1..Len(log))
          BY <3>1 DEF Told
        <4> QED
          BY <3>1, <4>2, <4>3, <4>4 DEF InboxInv, InOrder
      <3>4. ASSUME NEW k \in 1..Len(rest), NEW l \in 1..Len(rest), k < l,
                   NEW a \in 1..Len(log), NEW b \in 1..Len(log),
                   rest[k] = log[a], rest[l] = log[b]
            PROVE  a < b
        <4>1. /\ k + 1 \in 1..Len(inbox[p]) /\ l + 1 \in 1..Len(inbox[p])
              /\ k + 1 < l + 1
              /\ inbox[p][k + 1] = log[a] /\ inbox[p][l + 1] = log[b]
          BY <3>2, <3>4
        <4> QED
          BY <3>1, <4>1 DEF InboxInv, InOrder
      <3>5. \E m \in {0} \cup Told(p)' : \A a \in Told(p)' : a <= m
        <4>1. \A a \in Told(p)' : a <= i
          BY <1>5, <1>10, <3>1 DEF Told
        <4> QED
          BY <3>1, <4>1
      <3>6. \A k \in 1..Len(rest) : rest[k] \in Range(log)
        BY <3>1, <3>2 DEF InboxInv, InOrder
      <3>7. /\ \A k \in 1..Len(rest), a, b \in 1..Len(log) :
                 rest[k] = log[b] /\ a \in Told(p)' => a < b
            /\ \A k, l \in 1..Len(rest), a, b \in 1..Len(log) :
                 rest[k] = log[a] /\ rest[l] = log[b] /\ k < l => a < b
        BY <3>3, <3>4
      <3>8. log' = log /\ inbox'[p] = rest
        BY <3>1, <3>2
      <3>9. InboxInv(p)'
        BY <3>5, <3>6, <3>7, <3>8 DEF InboxInv, InOrder
      <3> QED
        BY <2>2, <3>9
    <2> QED
      BY <2>1, <2>2
  <1>13. Places' = [Places EXCEPT ![p] = i] /\ i > Places[p]
    <2>1. \A q \in Processes : Places[q] = Max({0} \cup Told(q))
                                 /\ Places'[q] = Max({0} \cup Told(q)')
      BY DEF Places, Told
    <2>2. Places'[p] = i
      <3>1. /\ {0} \cup Told(p)' \subseteq Nat /\ i \in {0} \cup Told(p)'
            /\ \A a \in {0} \cup Told(p)' : a <= i
        BY <1>5, <1>9, <1>10 DEF Told
      <3> QED
        BY <2>1, <3>1, MaxIs
    <2>3. i > Places[p]
      <3>1. PICK m \in {0} \cup Told(p) : \A a \in Told(p) : a <= m
        BY DEF BroadcastInv, InboxInv, InOrder
      <3>2. Places[p] = m
        BY <3>1, PlaceIs
      <3>3. m < i
        BY <1>5, <1>10
      <3> QED
        BY <3>2, <3>3
    <2>4. \A q \in Processes \ {p} : Places'[q] = Places[q]
      BY <1>9, <2>1
    <2>5. DOMAIN Places = Processes /\ DOMAIN Places' = Processes
          /\ Places = [q \in Processes |-> Places[q]]
          /\ Places' = [q \in Processes |-> Places'[q]]
      BY DEF Places
    <2> HIDE DEF Places
    <2> QED
      BY <2>2, <2>3, <2>4, <2>5
  <1>14. Promised!Receive(p, i)
    <2>1. Promised!Copy(log[i]) = Copy(e)
      BY <1>4, PromisedNames
    <2> QED
      BY <1>1, <1>5, <1>13, <2>1 DEF Promised!Receive
  <1> QED
    BY <1>11, <1>12, <1>14 DEF BroadcastInv

-----------------------------------------------------------------------------
(* The processes of Nodes implement Broadcast: what they hear of each other *)
(* is heard once where it happens, published at most once, never by who got *)
(* it from Redis, and copies come in the order of publication, each once.   *)
THEOREM BroadcastImplemented == Spec => Broadcasts
  <1>1. Init => BroadcastInv /\ Promised!Init
    <2> SUFFICES ASSUME Init PROVE BroadcastInv /\ Promised!Init
      OBVIOUS
    <2>1. /\ \A p \in Processes : heard[p] = <<>> /\ inbox[p] = <<>>
          /\ log = <<>> /\ \A j \in JobNames : step[j] \in {"new", "absent"}
      BY DEF Init
    <2>2. Len(<<>>) = 0 /\ Range(<<>>) = {}
      BY EmptySeq, RangeEmpty
    <2>3. \A p \in Processes : Told(p) = {}
      BY <2>1, <2>2 DEF Told
    <2>4. PublishInv
      BY <2>1, <2>2, JobsAre DEF PublishInv
    <2>5. \A p \in Processes : InboxInv(p)
      BY <2>1, <2>2, <2>3 DEF InboxInv, InOrder
    <2>6. Places = [p \in Processes |-> 0]
      BY <2>3, PlaceIs, InitTypes DEF Places
    <2> QED
      BY <2>4, <2>5, <2>6 DEF BroadcastInv, Promised!Init, Init
  <1>2. Types /\ BroadcastInv /\ [Next]_vars
          => BroadcastInv' /\ [Promised!Next]_<<heard, log, Places>>
    <2> SUFFICES ASSUME Types, BroadcastInv, [Next]_vars
                 PROVE  BroadcastInv' /\ [Promised!Next]_<<heard, log, Places>>
      OBVIOUS
    <2>1. ASSUME NEW j \in JobNames,
                 Enter(j) \/ Read(j) \/ Write(j) \/ Live(j) \/ Throw(j) \/ Refuse(j)
          PROVE  BroadcastInv' /\ UNCHANGED <<heard, log, Places>>
      BY <2>1, QuietStepsBroadcast
      DEF Enter, Read, Write, Live, Throw, Refuse, redis, Steps
    <2>2. ASSUME NEW p \in Processes, Subscribe(p) \/ Disconnect(p)
          PROVE  BroadcastInv' /\ UNCHANGED <<heard, log, Places>>
      BY <2>2, QuietStepsBroadcast DEF Subscribe, Disconnect
    <2>3. CASE UNCHANGED vars
      BY <2>3, QuietStepsBroadcast DEF vars, redis
    <2>4. ASSUME NEW j \in JobNames, Emit(j)
          PROVE  BroadcastInv' /\ Promised!Next
      BY <2>4, EmitBroadcasts, JobsAre DEF Promised!Next
    <2>5. ASSUME NEW j \in JobNames, Publish(j)
          PROVE  BroadcastInv' /\ Promised!Next
      BY <2>5, PublishBroadcasts DEF Promised!Next
    <2>6. ASSUME NEW p \in Processes, Hear(p)
          PROVE  BroadcastInv' /\ Promised!Next
      BY <2>6, HearBroadcasts DEF Promised!Next
    <2> QED
      BY <2>1, <2>2, <2>3, <2>4, <2>5, <2>6 DEF Next, Work
  <1> QED
    BY <1>1, <1>2, TypesHold, PTL DEF Spec, Broadcasts, Promised!Spec
===============================================================================
