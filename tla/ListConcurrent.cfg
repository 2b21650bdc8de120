\* Two clients and a merger on one list: every interleaving of the locked calls,
\* and Set, Del and Add marks in every combination.
SPECIFICATION Spec
CONSTANTS
  Uids = {1, 2}
  MaxUid = 2
  Vals = {a, b}
  Absent = Absent
  Clients = {c1, c2}
  Mergers = {m1}
  Counters = {}
  Nil = Nil
SYMMETRY Symmetry
INVARIANTS TypeOK BufferFresh DirtyCoversMutations LengthCountsIteration
PROPERTY ListImplementsSpec
