\* One server that crashes and restarts and hands out uids; one server of group
\* zero and one other; one node's log, with crashes anywhere in the ready loop;
\* one goroutine that applies entries, with crashes and evictions at any point
\* and replay from the first entry.
SPECIFICATION PartSpec
CONSTANTS
  Servers = {s1}
  Requests = {r1, r2}
  Uids = {u1, u2, u3}
  None = None
  MaxNew = 2
  Deadlines = TRUE
  MayMoveLeader = FALSE
  MayCrash = TRUE
  Zeros = {z1}
  Founders = {z1}
  Others = {o1}
  MaxLog = 5
  NoServer = NoServer
  MaxTerm = 3
  MaxIndex = 3
  Candidates = {n1, n2}
  NoVote = NoVote
  HigherTermConflicts = FALSE
  a = a
  b = b
  Vals = {a, b}
  NoValue = NoValue
  Tokens = {1, 2}
  TokensOf <- SharedTokens
  Writers = {w1}
  MaxEntries = 2
  MaxEdges = 2
  MayRestart = TRUE
  MayEvict = TRUE
SYMMETRY Symmetry
INVARIANTS
  UniqueUids LeaderKnows ListsWellFormed LeaderAgrees WalIsLog StorageIsLog OneVoteInATerm
  ReplayConverges NoStaleTokens IndexMatchesButMissed
PROPERTY AppliedStays
