SPECIFICATION RoundTripSpec
CONSTANTS
  Spelling <- MCSpelling
  MarcKeys <- MCMarcKeys
  MtsRoles <- MCMtsRoles
  Bridges <- MCBridges
  Raw <- MCRaw
  Tokens <- MCTokens
  Vocabulary <- MCVocabulary
  Variants <- MCVariants
  Dumps <- MCDumps
  Services <- MCServices
  Cases <- MCCases
INVARIANTS StatementsNameTheirFields DisplayKeepsRows MergeKeepsRows TagsFromOrigins DiffAccounts
CHECK_DEADLOCK FALSE
