CONSTANTS
  r1 = r1
  r2 = r2
  r3 = r3
  p0 = p0
  ade = ade
  bola = bola
  soap = soap
  milk = milk
  gold = gold
  mint = mint
  plain = plain
  b1 = b1
  b2 = b2
  b3 = b3
  x1 = x1
  x2 = x2
  d1 = d1
  d2 = d2
  none = none
  Requests = {r1, r2, r3}
  Asks <- MCAsks
  Bills = {b1, b2, b3}
  Rebates = {x1, x2}
  OldPayments = {p0}
  Vendors = {ade, bola}
  VendorOf <- MCVendorOf
  OpeningBooks <- MCOpeningBooks
  Products = {soap, milk}
  Options = {gold, mint, plain}
  Lots <- MCLots
  Receipts = {d1, d2}
  BillOf <- MCBillOf
  OpeningGoods <- MCOpeningGoods
  MaxSold = 1
  None = none
SPECIFICATION Spec
INVARIANTS TypeOK AccountAddsUp DeliveryAddsUp
PROPERTY CreditsHold
SYMMETRY Three
CHECK_DEADLOCK FALSE
