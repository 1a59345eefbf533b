CONSTANTS
  t1 = t1
  t2 = t2
  shop = shop
  van = van
  shopTea = shopTea
  vanTea = vanTea
  none = none
  never = never
  Txn <- TwoRequests
  Ops <- EveryOp
  Shelves <- WithTea
  PlainShelves <- TwoPlaces
  OptionOf <- TeaFirst
  Retired = {vanTea}
  InitialStock <- OnTheShelves
  InitialCaches <- Caches
  MaxQuantity = 2
  MaxOpen = 2
  Lots <- MCLots
  Expiry <- MCExpiry
  ReceivedAt <- MCReceivedAt
  NoExpiry <- never
  None <- none
SPECIFICATION FairSpec
INVARIANTS TypeOK CacheMatchesLedger NumbersSequential BalancesExplained
PROPERTIES MovesComeOutEven EveryRequestEnds
CHECK_DEADLOCK FALSE
