CONSTANTS
  A = A
  B = B
  C = C
  D = D
  Types <- Four
  Schemas <- Graphs4
SPECIFICATION FairSpec
INVARIANTS
  AcceptsOnlyAcyclic
  ReportsCycle
PROPERTY Decides
\* The search ends.
CHECK_DEADLOCK FALSE
