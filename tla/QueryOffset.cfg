\* Counts of a paged and filtered predicate, with an offset beyond its lists.
SPECIFICATION GraphSpec
CONSTANTS
  Uids = {1, 2, 3, 4}
  MaxUid = 4
  Vals = {a, b}
  Absent = Absent
INVARIANT OffsetBeyondTheEnd
CHECK_DEADLOCK FALSE
