\* An uncommitted end of the log is replaced by entries of a higher term.
SPECIFICATION Spec
CONSTANTS
  MaxTerm = 3
  MaxIndex = 3
  Candidates = {n1, n2}
  NoVote = NoVote
  HigherTermConflicts = TRUE
INVARIANT NothingAboveLast
