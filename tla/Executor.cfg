CONSTANTS
  N <- NodesN
  Parent <- NodesParent
  Kind <- NodesKind
  NonNull <- NodesNonNull
  Depth <- NodesDepth
  MaxDepth = 1
SPECIFICATION FairSpec
INVARIANTS
  Structured
  SerialMutation
  ErrorsOnce
  Propagated
  OrderedErrors
  DepthLimit
PROPERTIES
  ImplementsResponse
  Answered
\* A request that was answered or rejected is over.
CHECK_DEADLOCK FALSE
