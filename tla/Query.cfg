\* The documents, messages and data of MCQuery; the posting list has three uids
\* and the uid of the value.
SPECIFICATION Spec
CONSTANTS
  Uids = {1, 2, 3, 4}
  MaxUid = 4
  Vals = {a, b}
  Absent = Absent
INVARIANTS
  SlicesAreLayers IterationIsMerge ReadsAreDefined UidListsAreSets SortedPage
  AnswerIsComplete WireRoundTrip CutIsNoticed ParseRecoversQuery NodesBelongToOne
PROPERTY GoroutinesEnd
CHECK_DEADLOCK FALSE
