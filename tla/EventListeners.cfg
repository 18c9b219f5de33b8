SPECIFICATION Spec
CONSTANTS
  app = app
  base = base
  req = req
  x = x
  y = y
  f = f
  g = g
  h = h
  fwd = fwd
  Star = star
  NoTarget = none
  Managers <- Two
  Events <- OnlyX
  Listeners <- FGFwd
  Target <- FwdToReq
  Faulty <- OnlyG
  Subscribable <- ForwardApp
  EventLists <- SingleOrBoth
  Extends <- AppFromReq
  Repeat = TRUE
  Populated = TRUE
  MaxSubs = 3
  MaxEmits = 2
  Spare = 1
  MaxLen = 3
CHECK_DEADLOCK FALSE
INVARIANTS TypeOK AtMostOnce 
PROPERTIES CancelExact ExtendDelivers EmissionEnds
