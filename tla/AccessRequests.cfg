SPECIFICATION Spec
CONSTANTS
  short = short
  long = long
  forged = forged
  i = i
  x = x
  y = y
  r = r
  s1 = s1
  None = none
  Tokens <- SomeTokens
  Sid <- SidOf
  Exp <- ExpOf
  Genuine <- Signed
  Ids <- OneId
  Teams <- TwoTeams
  Claims <- AllClaims
  Inputs <- SomeInputs
  Methods <- EveryMethod
  Requests <- OneRequest
  Saves <- OneSave
  Timeout = 2
  MaxTime = 3
CHECK_DEADLOCK FALSE
INVARIANTS TypeOK ServedBySession RefusedForReason
PROPERTY RequestEnds
