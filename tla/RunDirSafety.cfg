SPECIFICATION Spec
CONSTANTS
  None = None
  r1 = r1
  r2 = r2
  Records <- MCRecords
  Kinds = {"good", "odd", "broken"}
  Plans <- MCPlans
  EditsDuringRuns = FALSE
  Fragile = {r1}
  MaxEdits = 3
  MaxRuns = 3
  MaxCrashes = 1
INVARIANTS FreshIsCurrent FullRunReflectsInput MapRowsLostOnlyByCrash CompanionsInOrder
CHECK_DEADLOCK FALSE
