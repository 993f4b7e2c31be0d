SPECIFICATION Spec
CONSTANTS
  None = None
  Torn = Torn
  run = run
  tool = tool
  prune = prune
  Procs <- AllProcs
  CommandsOf <- MCCommands
  StageNames <- MCStages
  MaxKills = 1
INVARIANTS ManifestFollowsEvents RunsFailOfTheirOwn StampExplained
PROPERTY TaggedRunsKept
CHECK_DEADLOCK FALSE
