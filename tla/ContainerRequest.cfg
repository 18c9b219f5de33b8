SPECIFICATION Spec
CONSTANTS
  app = app
  req = req
  a = a
  b = b
  d = d
  e = e
  Contexts <- TwoContexts
  App = app
  Keys <- FourKeys
  Boots <- OnlyRequests
  Registers <- RequestRegisters
  Provides <- NoPairs
  Extends <- RequestExtends
  Merging = FALSE
  MayFail <- NoPairs
  StrictDefault = TRUE
  MaxJobs = 9
  Reserve = 5
  MaxRegs = 3
INVARIANTS Isolated
