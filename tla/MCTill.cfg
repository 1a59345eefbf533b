SPECIFICATION MCSpec
CONSTANTS
  trader = trader
  walkin = walkin
  retail = retail
  trade = trade
  piece = piece
  carton = carton
  nil = nil
  front = front
  back = back
  phone = phone
  shop = shop
  home = home
  c1 = c1
  c2 = c2
  c3 = c3
  w1 = w1
  w2 = w2
  Customers <- MCCustomers
  WalkIn = walkin
  Tiers <- MCTiers
  TierOf <- MCTierOf
  Units <- MCUnits
  Price <- MCPrice
  NoPrice = nil
  Typed <- MCTyped
  Owes <- MCOwes
  None = nil
  MaxLines = 2
  MaxQuantity = 1
  MaxSales = 2
  MaxAsked = 2
  MaxRuns = 3
  MaxReloads = 1
  Tabs = {front, back, phone}
  Jars = {shop, home}
  JarOf <- MCJarOf
  Calls = {c1, c2, c3}
  TabOf <- MCTabOf
  Workers = {w1, w2}
  Open = {0, 1}
  AccessLife = 1
  RefreshLife = 2
  MaxTime = 2
  MaxTokens = 3
  Nil = nil
INVARIANTS TypeOK NothingSoldTwice PricedForTheBuyer SessionsHold
PROPERTY CartEndsWithItsSale
CHECK_DEADLOCK FALSE
