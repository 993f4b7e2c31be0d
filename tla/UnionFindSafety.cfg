SPECIFICATION UnionFindSpec
CONSTANTS
  Works <- MCWorks
  Edges <- MCEdges
INVARIANTS
  FindsLeast
