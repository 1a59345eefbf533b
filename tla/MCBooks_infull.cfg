CONSTANTS
  r1 = r1
  r2 = r2
  r3 = r3
  old = old
  ada = ada
  bayo = bayo
  nobody = nobody
  same = same
  gold = gold
  classic = classic
  none = none
  never = never
  Request <- TwoRequests
  Opening <- Books
  Customers <- Everybody
  WalkIn <- nobody
  Same <- same
  Ops <- EveryOp
  MaxOpen = 1
  Lots <- ThreeLots
  Expiry <- Dates
  ReceivedAt <- Receipts
  NoExpiry <- never
  Visitors <- ThreeRequests
  Asked <- Visits
  Sales <- TheSales
  Shelves <- TheShelves
  Options <- TwoOptions
  None <- none
  Parts = {"money"}
SPECIFICATION MCSpec
PROPERTY PaidInFullStaysSo
CHECK_DEADLOCK FALSE
