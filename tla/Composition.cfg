CONSTANTS
  N = 3
  Query = Query
  User = User
  Order = Order
  Other = Other
  a = a
  b = b
  Leaf = Leaf
  None = None
  Types = {Query, User, Order}
  Fields = {a, b}
  Gateways <- Three
SPECIFICATION Spec
PROPERTY ComposesSupergraph
\* Composition ends.
CHECK_DEADLOCK FALSE
