SPECIFICATION Spec
CONSTANTS
  Threads = {t1}
  Ops = {"wait", "listen", "waitfor", "notify", "notifyAll", "thrsta", "suspend", "resume", "kill", "teardown"}
  Faults = {"boot", "insert", "append", "get"}
  MaxReports = 3
  MaxNotes = 2
  CallsPerLoop = 2
CHECK_DEADLOCK FALSE
INVARIANTS
  TypeOK
  SemBinary
  NoLostWakeup
  RaceFree
PROPERTIES
  PipesFreedOnce
  PipesAreQueues
