SPECIFICATION Spec
CONSTANTS
  app = app
  req = req
  a = a
  b = b
  d = d
  e = e
  Contexts <- OneContext
  App = app
  Keys <- FourKeys
  Boots <- Cycles
  Registers <- RegistersNothing
  Provides <- ProvideLeaf
  Extends <- NoPairs
  Merging = FALSE
  MayFail <- Leaves
  StrictDefault = FALSE
  MaxJobs = 8
  Reserve = 5
  MaxRegs = 2
INVARIANTS NoAwaitCycle PlaceholdersResolved
PROPERTIES EverySettles SingletonStable
