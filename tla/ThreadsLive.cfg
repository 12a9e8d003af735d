SPECIFICATION FairSpec
CONSTANTS
  Threads = {t1}
  Ops = {"wait", "listen", "waitfor", "notify", "resume", "kill", "thrsta"}
  Faults = {}
  MaxReports = 3
  MaxNotes = 2
  CallsPerLoop = 1
CHECK_DEADLOCK FALSE
PROPERTIES
  WaiterServed
  KilledTerminates
  ReadersGetAll
