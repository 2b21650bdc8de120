\* Two clients, a gentle merge and the eviction on one key: the life of List
\* objects, with the smallest dirtyChan the assumption allows.
SPECIFICATION FairSpec
CONSTANTS
  Keys = {k1}
  Ptrs = {p1, p2}
  Clients = {c1, c2}
  Mergers = {g1}
  Workers = {w1}
  Mutations = {m1, m2}
  DirtyCap = 2
  MergeBatch = 1
  MayEvict = TRUE
  Nil = Nil
INVARIANTS RefCountsExact OneOpenList DirtyListsTracked
PROPERTY EvictionEnds
