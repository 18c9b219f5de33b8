SPECIFICATION Spec
CONSTANTS
  Names <- MCNames
  Models <- MCModels
  MaxDepth = 6
  Document <- MCDocument
  Roots <- MCRoots
  Plain <- MCPlain
  MaxSteps = 4
CHECK_DEADLOCK FALSE
INVARIANTS Sealed  Agreed Trusted
