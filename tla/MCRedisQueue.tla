---------------------------- MODULE MCRedisQueue ----------------------------
(* Instances of RedisQueue: two processes that both read the channel mail;  *)
(* nobody reads the channel jobs.                                           *)
EXTENDS RedisQueue

CONSTANTS p, q          \* processes
CONSTANTS mail, jobs    \* channels
CONSTANTS c, d          \* consumers
CONSTANTS m, n          \* messages

OneChannel == {mail}
TwoChannels == {mail, jobs}
Both == {p, q}
Readers == {c, d}
MN == {m, n}

HomeOfReaders == [x \in Consumers |-> IF x = c THEN p ELSE q]
BothMail == [x \in Consumers |-> mail]

JustMail == {<<mail>>}
MailAndJobs == {<<mail>>, <<mail, jobs>>}

Poison == {m}
PoisonOrNothing == {m, Nothing}
=============================================================================
