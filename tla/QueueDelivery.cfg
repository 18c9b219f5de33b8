SPECIFICATION QueueSpec
CONSTANTS
  p = p
  q = q
  mail = mail
  jobs = jobs
  c = c
  d = d
  m = m
  n = n
  Nothing = nothing
  Channels <- TwoChannels
  Workers <- Both
  Consumers <- Readers
  Home <- HomeOfReaders
  Channel <- BothMail
  Messages <- MN
  ChannelLists <- MailAndJobs
  Faulty <- PoisonOrNothing
  MaxDepth = 0
  MaxFailures = 2
INVARIANTS TypeOK Conserved
PROPERTY Served

