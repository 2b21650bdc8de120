\* Progress of the locked calls, with an unlocked Length running beside them.
SPECIFICATION FairSpec
CONSTANTS
  Uids = {1}
  MaxUid = 1
  Vals = {a}
  Absent = Absent
  Clients = {c1, c2}
  Mergers = {m1}
  Counters = {n1}
  Nil = Nil
PROPERTY CallsReturn
