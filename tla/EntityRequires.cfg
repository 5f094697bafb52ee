CONSTANTS
  r1 = r1
  r2 = r2
  Requests <- One
  Fields <- MCFields
  Names <- MCNames
  Subgraphs <- MCSubgraphs
  Owner <- MCOwner
  Keys <- MCKeys
  Requires <- MCRequires
  Sources <- MCSources
  Shared = FALSE
  MaxVersion = 1
SPECIFICATION Spec
INVARIANT
  RequiredIncluded
\* The requests end.
CHECK_DEADLOCK FALSE
