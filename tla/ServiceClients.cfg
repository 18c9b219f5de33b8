SPECIFICATION Spec
CONSTANTS
  MaxKey = 6
  FirstId = 2
  MaxOps = 3
  Clients <- AllClients
CHECK_DEADLOCK FALSE
INVARIANTS StoredAsAnnounced BatchKept   OneCopy GoneForGood 
PROPERTY OperationsEnd
