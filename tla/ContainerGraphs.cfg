SPECIFICATION Spec
CONSTANTS
  app = app
  req = req
  a = a
  b = b
  d = d
  e = e
  Contexts <- OneContext
  App = app
  Keys <- FourKeys
  Boots <- Graphs
  Registers <- DiamondAgain
  Provides <- NoPairs
  Extends <- NoPairs
  Merging = FALSE
  MayFail <- Leaves
  StrictDefault = FALSE
  MaxJobs = 9
  Reserve = 5
  MaxRegs = 2
INVARIANTS TypeOK CacheFresh SharedInstances
