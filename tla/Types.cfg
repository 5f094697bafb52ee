CONSTANTS
  Root = Root
  User = User
  Post = Post
  Node = Node
  Search = Search
  Role = Role
  String = String
  Meta = Meta
  None = None
  p = p
  q = q
  N = 2
  TypeNames <- AllNames
  Fields = {p, q}
  KindOf <- Kinds
  Query = Root
  Types <- AllTypes
  Parts <- AllParts
  Names <- MetaNames
  NameOf <- NameOfType
  Objects <- AllObjects
  BuiltIns <- Shared
  Schemas <- AllSchemas
  System <- Systems
  Closure <- Reachable
  Members <- AllMembers
  SortedNames <- ByName
  OperationTypes <- Queries
  DirectiveTypes <- Conditions
  Whole = Whole
  Requests <- Asked
  NoRequest = NoRequest
SPECIFICATION AskedSpec
INVARIANTS
  ClosedUnderReferences
  CollectsReachable
  HiddenByAbstractOnly
  DescribesOnce
  ReferencesReached
PROPERTY Ends

\* A schema is built and asked about once.
CHECK_DEADLOCK FALSE
