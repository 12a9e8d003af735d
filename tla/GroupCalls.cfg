SPECIFICATION FairSpec
CONSTANTS
  Threads = {t1, t2, t3}
  Null = Null
  Kinds = {"threads", "scheduler"}
  FirstLimit = 2
  MaxSends = 4
  MaxReports = 1
  Faults = {"create", "append"}
CHECK_DEADLOCK FALSE
INVARIANTS CursorsLive WithinLimit FreedWhenDone
PROPERTY CallsEnd
