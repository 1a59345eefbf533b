CONSTANTS
  nil = nil
  r1 = r1
  r2 = r2
  owner = owner
  manager = manager
  seller = seller
  ann = ann
  ben = ben
  cora = cora
  retail = retail
  trade = trade
  store = store
  van = van
  gtb = gtb
  uba = uba
  milk = milk
  soap = soap
  piece = piece
  carton = carton
  gold = gold
  classic = classic
  ean = ean
  own = own
  invoice = invoice
  payment = payment
  Requests = {r1, r2}
  None = nil
  People = {owner, manager, seller}
  Role <- MCRole
  Takings = {1, 2}
  Bankings = {1, 2}
  Dates = {1, 2}
  Amounts = {1, 2}
  MaxPaidOut = 1
  Members = {ann, ben, cora}
  MaxUsers = 2
  FirstStaff <- MCFirstStaff
  Customers = {ann, ben, cora}
  Books = {invoice, payment}
  Amount <- MCAmount
  MaxMerges = 2
  Entries = {retail, trade, store, van, gtb, uba}
  KindOf <- MCKindOf
  FirstDefaults = {retail, store}
  Goods = {milk, soap}
  MaxGoods = 1
  Units = {piece, carton}
  Tiers = {retail, trade}
  Options = {gold, classic}
  Codes = {ean, own}
  Edits <- MCEdits
  Business = "retail"
  Founders = {ann}
  Shops = {1, 2}
  Links = {1, 2}
  CodeLife = 1
  LinkLife = 1
  StaleAfter = 0
  LastTick = 2
  MaxPasswords = 2
  Shown = 2
  Rows = {1, 2, 3}
  Lag = 1
  Limit = 1
  MaxTime = 3
  MaxVersion = 2
  AllIds = 4
  NoRow = nil
  Products = {milk, soap}
  Flavours = {gold, classic}
  Category <- MCCategory
  Buyers = {ann}
  Baskets <- Cartons
  LastDay = 2
  MaxSales = 2
  MaxBack = 1
  MaxHeld = 1
  SpeedDays = 2
  StaleDays = 1
  LowStockDays = 2
  ReorderPoint = 1
  Nobody = nil
  DayHours = 6
  DaysInMonth <- MCMonths
  Zones <- MCZones
  Lots <- MCLots
  Expiry <- MCExpiry
  ReceivedAt <- MCReceivedAt
  NoExpiry <- nil
  MinStock <- Below
  MaxStock = 1
  MaxPick = 3
  Parts = {"reports"}
SPECIFICATION MCSpec
INVARIANT ReturnUndoesTheSale
CHECK_DEADLOCK FALSE
