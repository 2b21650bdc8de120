\* Length beside a client and a merger: the cached immutable layer.
SPECIFICATION Spec
CONSTANTS
  Uids = {1}
  MaxUid = 1
  Vals = {a, b}
  Absent = Absent
  Clients = {c1}
  Mergers = {m1}
  Counters = {n1}
  Nil = Nil
INVARIANT BufferFresh
