SPECIFICATION WalkSpec
CONSTANTS
  MaxId = 4
  Times = {1, 2}
  PageSizes <- MCPageSizes
  DefaultPageSize = 2
  MaxPageSize = 3
  MaxChanges = 3
  None = None
  Gone = Gone
INVARIANTS MissesBounded RepeatsBounded
CHECK_DEADLOCK FALSE
