SPECIFICATION FairSpec
CONSTANTS
  Procs = {p1, p2}
  Documents <- AllDocuments
  Usernames = {"admin", "root"}
  MaxEdits = 1
  MaxFaults = 1
  MaxChanges = 1
  NoDuration = NoDuration
  Empty = Empty
  Garbled = Garbled
  None = None
INVARIANT ServesWhatIsAssumed
PROPERTIES StartsChangeNothing RightDocumentServes
CHECK_DEADLOCK FALSE
