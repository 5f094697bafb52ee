CONSTANTS
  r1 = r1
  r2 = r2
  Requests <- Two
  Fields <- MCFields
  Names <- MCNames
  Subgraphs <- MCSubgraphs
  Owner <- MCOwner
  Keys <- MCKeys
  Requires <- MCRequires
  Sources <- MCSources
  Shared = FALSE
  MaxVersion = 1
SPECIFICATION Spec
SYMMETRY Symmetric
INVARIANTS
  NoRace
  FetchedOnce
  SiblingsAgree
\* The requests end.
CHECK_DEADLOCK FALSE
