SPECIFICATION FairSpec
CONSTANTS
  Procs = {p1, p2}
  Calls = {c1}
  MaxKills = 2
  MaxSignals = 1
  None = None
INVARIANTS StartsKeepOut AnsweredBeforeClose
PROPERTIES StopEnds ComesBack
CHECK_DEADLOCK FALSE
