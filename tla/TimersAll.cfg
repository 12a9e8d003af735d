SPECIFICATION FairSpec
CONSTANTS
  ta = ta
  tb = tb
  tc = tc
  Timers = {ta, tb, tc}
  Initials <- OneOrThree
  Scripts = {{"delete"}, {"delete", "create", "jumps", "throw", "insert"}}
  MaxInFlight = 1
  MaxCreates = 1
  MaxDepth = 2
  Width = 8
CHECK_DEADLOCK FALSE
INVARIANTS EventsExact CursorLive
PROPERTY EventAnswered
