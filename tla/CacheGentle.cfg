\* Two clients, two keys and gentle merges, with memory to spare.
SPECIFICATION FairSpec
CONSTANTS
  Keys = {k1, k2}
  Ptrs = {p1, p2, p3}
  Clients = {c1, c2}
  Mergers = {g1}
  Workers = {}
  Mutations = {m1, m2}
  DirtyCap = 2
  MergeBatch = 1
  MayEvict = FALSE
  Nil = Nil
INVARIANTS HeldListsStay AckedNotLost
PROPERTY MutationsGetMerged
