CONSTANTS
  Owner <- ShopOwner
  Keys <- ShopKeys
  Has <- ShopHas
  Batched <- ShopBatched
  Operations <- RepeatingShop
  Items = 2
  MaxFaults = 0
SPECIFICATION Spec
INVARIANT AlternativeToExecute
\* An operation that was answered or rejected is over.
CHECK_DEADLOCK FALSE
