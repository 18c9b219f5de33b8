SPECIFICATION QueueSpec
CONSTANTS
  p = p
  q = q
  mail = mail
  jobs = jobs
  c = c
  d = d
  m = m
  n = n
  Nothing = nothing
  Channels <- OneChannel
  Workers <- Both
  Consumers <- Readers
  Home <- HomeOfReaders
  Channel <- BothMail
  Messages <- MN
  ChannelLists <- JustMail
  Faulty <- Poison
  MaxDepth = 1
  MaxFailures = 0
INVARIANT SamePayload
