\* Two requests, a channel with two places: a response whose root has three
\* children, or two responses that meet, stop release.
SPECIFICATION NodesSpec
CONSTANTS
  Uids = {1, 2, 3, 4}
  MaxUid = 4
  Vals = {a, b}
  Absent = Absent
PROPERTY PassedNodesArePooled
CHECK_DEADLOCK FALSE
