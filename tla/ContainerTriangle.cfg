SPECIFICATION Spec
CONSTANTS
  app = app
  req = req
  a = a
  b = b
  d = d
  e = e
  Contexts <- OneContext
  App = app
  Keys <- ThreeKeys
  Boots <- OnlyTriangle
  Registers <- RegistersNothing
  Provides <- NoPairs
  Extends <- NoPairs
  Merging = FALSE
  MayFail <- NoPairs
  StrictDefault = FALSE
  MaxJobs = 8
  Reserve = 5
  MaxRegs = 1
PROPERTY SingletonStable
