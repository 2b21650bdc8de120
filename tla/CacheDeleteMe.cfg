\* A mutation that passed the check of deleteMe before the eviction marked the list.
SPECIFICATION Spec
CONSTANTS
  Keys = {k1}
  Ptrs = {p1, p2, p3}
  Clients = {c1, c2}
  Mergers = {g1}
  Workers = {w1}
  Mutations = {m1, m2}
  DirtyCap = 2
  MergeBatch = 1
  MayEvict = TRUE
  Nil = Nil
SYMMETRY Symmetry
INVARIANT EvictedListsStayMerged
