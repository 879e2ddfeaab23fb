SPECIFICATION FairSpec
CONSTANTS
  Calls = {c1, c2}
  Values = {TRUE, FALSE}
  Default = FALSE
  Absent = Absent
  Empty = Empty
  Garbled = Garbled
  Nil = Nil
INVARIANTS FileInStep AnswerInForce
PROPERTIES WrittenFirst EveryCallAnswered
