SPECIFICATION Spec
CONSTANTS
  Works <- MCWorks
  Models = {"llm"}
  Converter = "marc2bibframe2"
  Keys = {"k1", "k2"}
  NoKey = "none"
  MaxRows = 3
  RowVerdicts = {"same_work", "different_work", "uncertain"}
  DecisionFiles <- MCDecisionFiles
  Corpora <- MCCorpora
  MintKeys <- MCMintKeys
INVARIANTS
  NoContradictionMerged
  EntriesAreClasses
  EveryWorkAccounted
CHECK_DEADLOCK FALSE
