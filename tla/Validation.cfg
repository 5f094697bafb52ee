CONSTANTS
  None = None
  Documents <- AllIds
  Content <- Documented
  Texts <- AllTexts
  FragmentsOf <- AllFragments
  SpreadOf <- AllSpreads
  Names = {"F", "G", "H"}
  Defined <- DefinedIn
  Spreads <- SpreadIn
  Kind <- Kinds
  Fields <- FieldsOfTypes
  Possible <- PossibleTypes
  Roots <- RootTypes
  Directives = {"skip", "include"}
  OperationNames = {"A", "B"}
  Variables = {"v", "w"}
SPECIFICATION RequestSpec
INVARIANTS
  FindsCycles
  WellTyped
  NamesResolveOnce
PROPERTY RequestEnds
\* A request is answered once.
CHECK_DEADLOCK FALSE
