CONSTANTS
  r1 = r1
  r2 = r2
  r3 = r3
  r4 = r4
  nobody = nobody
  Requests <- FourRequests
  BodyOf <- OneOtherBody
  Nobody <- nobody
  StaleClaim = 2
  Retention = 3
  MaxClock = 4
  Regimes <- SafeRegimes
  plain = plain
  chicken = chicken
  onion = onion
  none = none
  never = never
  a = a
  b = b
  Shelves <- MCShelves
  Plain <- plain
  First <- chicken
  Counts <- MCCounts
  Counters <- TwoCounters
  MaxOpen = 2
  MaxMoves = 1
  MaxDelivery = 1
  Wanted <- MCWanted
  Starts <- AnyStart
  Lots <- MCLots
  Expiry <- MCExpiry
  ReceivedAt <- MCReceivedAt
  NoExpiry <- never
  None <- none
  blank = blank
  Blank <- blank
  FormKinds <- AllForms
  MaxForms = 2
  MaxPresses = 4
  MaxTyping = 2
  Parts = {"forms"}
SPECIFICATION MCSpec
INVARIANT ChangingClearsTheCheck
CHECK_DEADLOCK FALSE
