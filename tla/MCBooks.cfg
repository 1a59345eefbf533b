CONSTANTS
  r1 = r1
  r2 = r2
  r3 = r3
  old = old
  ada = ada
  bayo = bayo
  nobody = nobody
  same = same
  gold = gold
  classic = classic
  none = none
  never = never
  Request <- ThreeRequests
  Opening <- Books
  Customers <- Everybody
  WalkIn <- nobody
  Same <- same
  Ops <- EveryOp
  MaxOpen = 3
  Lots <- ThreeLots
  Expiry <- Dates
  ReceivedAt <- Receipts
  NoExpiry <- never
  Visitors <- ThreeRequests
  Asked <- Visits
  Sales <- TheSales
  Shelves <- TheShelves
  Options <- TwoOptions
  None <- none
  Parts = {"money", "returns"}
SPECIFICATION MCSpec
INVARIANTS AllTypesOK MoneySettlesOnce InvoiceAddsUp ReturnsAddUp
PROPERTY OwingAsAllowed
CHECK_DEADLOCK FALSE
