SPECIFICATION Spec
SYMMETRY MCSymmetry
CONSTANTS
  None = None
  a = a
  b = b
  Loaders <- MCLoaders
  Refreshers = {f}
  Queries <- MCQueries
  Vocabs <- MCVocabs
  Base = {"works", "provenance"}
  Oversized = {"provenance"}
  ClearModes = {"lenient", "false"}
  MaxStarts = 2
  MaxBuilds = 2
  MaxFaults = 1
INVARIANTS SmokedOrNothing SuccessServed VocabularyWhole
CHECK_DEADLOCK FALSE
