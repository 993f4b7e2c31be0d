SPECIFICATION Spec
CONSTANTS
  P1 = P1
  P2 = P2
  P3 = P3
  A1 = A1
  Pairs = {P1, P2, P3, A1}
  CandidateFiles <- MCTwoTotals
  Unresolvable = {P2}
  Answers <- MCAnswers
  Concurrency = 2
  CheckpointInterval = 2
  Operator = {"resume", "restart", "reembed"}
  MaxCrashes = 0
  None = None
INVARIANTS
  NoPairDecidedTwice
