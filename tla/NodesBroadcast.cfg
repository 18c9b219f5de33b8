SPECIFICATION Spec
CONSTANTS
  p = p
  q = q
  Processes <- MCProcesses
  Jobs <- MCJobs
  Loads <- MCLoads
  Runtimes = {"node", "browser"}
  MaxFaults = 1
CHECK_DEADLOCK FALSE
INVARIANTS  SettingKept
PROPERTIES Broadcasts 
