SPECIFICATION Spec
CONSTANTS
  Keys <- MCKeys
  Stored <- MCStored
  MaxEntries = 2
  MaxSteps = 3
CHECK_DEADLOCK FALSE
INVARIANTS IndexAgrees Honoured
PROPERTY KeySticks
