SPECIFICATION FairSpec
CONSTANTS
  P1 = P1
  P2 = P2
  P3 = P3
  A1 = A1
  Pairs = {P1, P2, P3, A1}
  CandidateFiles <- MCOneFile
  Unresolvable = {}
  Answers <- MCAnswers
  Concurrency = 2
  CheckpointInterval = 2
  Operator = {"resume"}
  MaxCrashes = 2
  None = None
INVARIANTS
  ResumeSkipsOnlyWritten
  EveryCandidateJudged
  InputOrder
  RepeatsBounded
  CountersMatchOutput
PROPERTIES
  BatchEnds
