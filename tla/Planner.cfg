CONSTANTS
  Owner <- ShopOwner
  Keys <- ShopKeys
  Has <- ShopHas
  Batched <- ShopBatched
  Operations <- Shop
  Items = 2
  MaxFaults = 2
SPECIFICATION Spec
INVARIANTS
  EachFetchAsksOnce
  KeysInjected
  NothingInvented
PROPERTY MatchesDirect
\* An operation that was answered or rejected is over.
CHECK_DEADLOCK FALSE
