------------------------------- MODULE Reports -------------------------------
(***************************************************************************)
(* What the owner reads (modules/reports): profit of a period and its      *)
(* slices, the daily trend, new customers, stock alerts and dead stock,    *)
(* each worked out afresh from the sales, returns and balances there are.  *)
(* Periods are whole days here (Periods has the clock); the pricing of a   *)
(* sale and the lots behind it are in Receivables and StockLedger.         *)
(* Location, representative and price list slice as the customer does.     *)
(***************************************************************************)
EXTENDS Integers, FiniteSets, FiniteSetsExt, SequencesExt

CONSTANTS
  Products, Flavours,  \* every product may come to have these options
  Category,           \* of each product
  Buyers,             \* named customers
  Baskets,            \* what sales are made of: sequences of lines, see Line
  LastDay,            \* bound: days
  MaxSales, MaxBack, MaxHeld,  \* bounds: sales; returns; what is received of an item
  SpeedDays, StaleDays,        \* how far back alerts and dead stock look
  LowStockDays, ReorderPoint,  \* of the business; of every product
  Nobody              \* no option, no customer, no day

Days == 0..LastDay
Items == Products \X (Flavours \cup {Nobody})

\* factor is of the unit sold in, base the pieces sold, rate the tax in basis points.
Line == [product : Products, factor : Nat \ {0}, base : Nat \ {0}, total : Nat, cost : Nat, rate : Nat]

ASSUME ReportsAssumption ==
  /\ Baskets \subseteq Seq(Line) /\ LastDay \in Nat /\ LowStockDays \in Nat /\ ReorderPoint \in Nat
  /\ {SpeedDays, StaleDays} \subseteq Nat \ {0} /\ Nobody \notin Flavours \cup Buyers \cup Nat \cup Items

VARIABLES
  today,
  sales,       \* each with its day, customer and lines; a line's item is its product and option
  returns,     \* each with its day, the sale and line, pieces, refund, cost and where it was put back
  held,        \* of each item, over all locations
  firstIn,     \* the day of an item's first movement, or Nobody
  optioned     \* products that have options

reportsVars == <<today, sales, returns, held, firstIn, optioned>>

LineRow == [item : Items, factor : Nat \ {0}, base : Nat \ {0}, total : Nat, cost : Nat, rate : Nat, tax : Int]
SaleRow == [at : Days, customer : Buyers \cup {Nobody}, lines : Seq(LineRow)]
ReturnRow == [at : Days, line : Nat \X Nat, quantity : Nat \ {0}, into : Items \cup {Nobody}, refund : Int, cost : Int]

ReportsTypeOK ==
  /\ today \in Days /\ optioned \subseteq Products
  /\ sales \in Seq(SaleRow) /\ returns \in Seq(ReturnRow)
  /\ held \in [Items -> Int] /\ firstIn \in [Items -> Days \cup {Nobody}]

ReportsInit ==
  /\ today = 0 /\ sales = <<>> /\ returns = <<>> /\ optioned = {}
  /\ held = [x \in Items |-> 0] /\ firstIn = [x \in Items |-> Nobody]

SumUp(f) == SumFunction(f)

\* Math.round of a fraction, for a positive denominator.
Round(n, d) == (2 * n + d) \div (2 * d)

\* splitTaxInclusive: the tax inside an amount.
TaxInside(gross, rate) == gross - Round(gross * 10000, 10000 + rate)

-----------------------------------------------------------------------------
(* What happens in the shop. *)

FirstMoved(x, d) == IF firstIn[x] = Nobody \/ d < firstIn[x] THEN d ELSE firstIn[x]

ItemsOf(p) == IF p \in optioned THEN {<<p, o>> : o \in Flavours} ELSE {<<p, Nobody>>}

NextDay == today < LastDay /\ today' = today + 1 /\ UNCHANGED <<sales, returns, held, firstIn, optioned>>

ReceiveStock(x, n) ==
  /\ x \in ItemsOf(x[1]) /\ held[x] + n <= MaxHeld
  /\ held' = [held EXCEPT ![x] = @ + n]
  /\ firstIn' = [firstIn EXCEPT ![x] = FirstMoved(x, today)]
  /\ UNCHANGED <<today, sales, returns, optioned>>

\* A sale of today or an earlier day, each line of an item of its product.
RecordSale(d, c, basket, chosen) ==
  /\ d <= today /\ Len(sales) < MaxSales
  /\ \A j \in DOMAIN basket : chosen[j] \in ItemsOf(basket[j].product)
  /\ sales' = Append(sales, [at |-> d, customer |-> c,
       lines |-> [j \in DOMAIN basket |-> [item |-> chosen[j], factor |-> basket[j].factor,
         base |-> basket[j].base, total |-> basket[j].total, cost |-> basket[j].cost,
         rate |-> basket[j].rate, tax |-> TaxInside(basket[j].total, basket[j].rate)]]])
  /\ held' = [x \in Items |-> held[x] -
       SumUp([j \in {j \in DOMAIN basket : chosen[j] = x} |-> basket[j].base])]
  /\ firstIn' = [x \in Items |-> IF \E j \in DOMAIN basket : chosen[j] = x THEN FirstMoved(x, d) ELSE firstIn[x]]
  /\ UNCHANGED <<today, returns, optioned>>

LineIds == UNION {{<<i, j>> : j \in DOMAIN sales[i].lines} : i \in DOMAIN sales}
LineOf(l) == sales[l[1]].lines[l[2]]
SentBack(l) == SumUp([r \in {r \in DOMAIN returns : returns[r].line = l} |-> returns[r].quantity])

\* proportionOfLine.
Proportion(amount, whole, part) == Round(amount * part, whole)

\* A return of n pieces of a line; into is the item they go back on the shelf as, or
\* Nobody when they do not.
RecordReturn(l, n, d, into) ==
  /\ d <= today /\ Len(returns) < MaxBack /\ SentBack(l) + n <= LineOf(l).base
  /\ \/ into = Nobody
     \/ /\ into \in ItemsOf(LineOf(l).item[1])
        /\ LineOf(l).item[2] # Nobody => into = LineOf(l).item
  /\ returns' = Append(returns, [at |-> d, line |-> l, quantity |-> n, into |-> into,
       refund |-> Proportion(LineOf(l).total, LineOf(l).base, n),
       cost |-> Proportion(LineOf(l).cost, LineOf(l).base, n)])
  /\ held' = [x \in Items |-> IF x = into THEN held[x] + n ELSE held[x]]
  /\ firstIn' = [x \in Items |-> IF x = into THEN FirstMoved(x, d) ELSE firstIn[x]]
  /\ UNCHANGED <<today, sales, optioned>>

\* First options: what is held moves, as a transfer, into one of them.
AddOptions(p, o) ==
  /\ p \notin optioned /\ optioned' = optioned \cup {p}
  /\ held' = [held EXCEPT ![<<p, Nobody>>] = 0, ![<<p, o>>] = @ + held[<<p, Nobody>>]]
  /\ firstIn' = IF held[<<p, Nobody>>] = 0 THEN firstIn
                ELSE [firstIn EXCEPT ![<<p, o>>] = FirstMoved(<<p, o>>, today)]
  /\ UNCHANGED <<today, sales, returns>>

ReportsNext ==
  \/ NextDay
  \/ \E x \in Items, n \in 1..MaxHeld : ReceiveStock(x, n)
  \/ \E d \in Days, c \in Buyers \cup {Nobody}, basket \in Baskets :
       \E chosen \in [DOMAIN basket -> Items] : RecordSale(d, c, basket, chosen)
  \/ \E l \in LineIds, d \in Days : \E n \in 1..LineOf(l).base, into \in Items \cup {Nobody} :
       RecordReturn(l, n, d, into)
  \/ \E p \in Products, o \in Flavours : AddOptions(p, o)

ReportsSpec == ReportsInit /\ [][ReportsNext]_reportsVars

-----------------------------------------------------------------------------
(* Profit and its slices. *)

Windows == {w \in [from : Days, to : 0..LastDay + 1] : w.from < w.to}

\* Bug: the window takes in the day it ends on.
InWindowClosed(w, d) == w.from <= d /\ d <= w.to

\* Half-open, so that periods tile.
InWindow(w, d) == w.from <= d /\ d < w.to

SoldIn(w) == {l \in LineIds : InWindow(w, sales[l[1]].at)}

\* Bug: a return counts when its sale was made.
ReturnedWithSale(w) == {r \in DOMAIN returns : InWindow(w, sales[returns[r].line[1]].at)}

\* On the day the goods came back, not the day of the sale.
ReturnedIn(w) == {r \in DOMAIN returns : InWindow(w, returns[r].at)}

RefundTax(r) == TaxInside(returns[r].refund, LineOf(returns[r].line).rate)

\* computeProfit, and finishGroup for a slice: of some lines and some returns.
Figures(L, R) ==
  LET gross == SumUp([l \in L |-> LineOf(l).total])
      tax == SumUp([l \in L |-> LineOf(l).tax])
      returned == SumUp([r \in R |-> returns[r].refund])
      returnedTax == SumUp([r \in R |-> RefundTax(r)])
  IN  [gross |-> gross, returned |-> returned,
       revenue |-> gross - tax - (returned - returnedTax),
       cogs |-> SumUp([l \in L |-> LineOf(l).cost]) - SumUp([r \in R |-> returns[r].cost])]

Profit(w) == Figures(SoldIn(w), ReturnedIn(w))

Groupings == {"day", "customer", "product", "category"}

\* saleKey, lineKey.
KeyOfLine(by, l) ==
  CASE by = "day" -> sales[l[1]].at
    [] by = "customer" -> sales[l[1]].customer
    [] by = "product" -> LineOf(l).item
    [] by = "category" -> Category[LineOf(l).item[1]]

\* A return goes with its sale, but to the day it happened.
KeyOfReturn(by, r) == IF by = "day" THEN returns[r].at ELSE KeyOfLine(by, returns[r].line)

\* Bug: groups are made of what was sold only.
KeysSold(w, by) == {KeyOfLine(by, l) : l \in SoldIn(w)}

Keys(w, by) == {KeyOfLine(by, l) : l \in SoldIn(w)} \cup {KeyOfReturn(by, r) : r \in ReturnedIn(w)}

LinesUnder(w, by, k) == {l \in SoldIn(w) : KeyOfLine(by, l) = k}
ReturnsUnder(w, by, k) == {r \in ReturnedIn(w) : KeyOfReturn(by, r) = k}

\* salesBySale, salesByLine: a row of figures under each key.
Slices(w, by) == [k \in Keys(w, by) |-> Figures(LinesUnder(w, by, k), ReturnsUnder(w, by, k))]

\* The pieces of a row: what came back is counted in pieces and taken off as units.
UnitsOf(L, R) ==
  SumUp([l \in L |-> LineOf(l).base]) -
  SumUp([r \in R |-> returns[r].quantity * LineOf(returns[r].line).factor])

\* dailySales: what the field holds of a day's refunds is their tax.
DailyRevenue(w, d) ==
  LET L == LinesUnder(w, "day", d)
  IN  SumUp([l \in L |-> LineOf(l).total - LineOf(l).tax]) -
      SumUp([r \in ReturnsUnder(w, "day", d) |-> RefundTax(r)])

-----------------------------------------------------------------------------
(* Buyers: GrowthService.figures and firstPurchases. *)

BoughtBy(c) == {i \in DOMAIN sales : sales[i].customer = c}

\* Bug: whoever buys in the window and did not just before it is new.
NewAgain(w) ==
  {c \in Buyers : /\ \E i \in BoughtBy(c) : InWindow(w, sales[i].at)
                  /\ ~\E i \in BoughtBy(c) : sales[i].at = w.from - 1}

NewIn(w) == {c \in Buyers : BoughtBy(c) # {} /\ InWindow(w, Min({sales[i].at : i \in BoughtBy(c)}))}

-----------------------------------------------------------------------------
(* Stock alerts and dead stock. *)

SpeedWindow == [from |-> IF today < SpeedDays THEN 0 ELSE today - SpeedDays + 1, to |-> today + 1]

\* Sales less what was put back, by the ledger: more back than out is nothing sold.
SoldLately(x) ==
  LET net == SumUp([l \in {l \in SoldIn(SpeedWindow) : LineOf(l).item = x} |-> LineOf(l).base])
             - SumUp([r \in {r \in ReturnedIn(SpeedWindow) : returns[r].into = x} |-> returns[r].quantity])
  IN  IF net > 0 THEN net ELSE 0

Moved30(x) ==
  \/ \E l \in SoldIn(SpeedWindow) : LineOf(l).item = x
  \/ \E r \in ReturnedIn(SpeedWindow) : returns[r].into = x

\* Days the rate is measured over: since the window began or the first stock came, if later.
SpeedOver(x) ==
  IF ~Moved30(x) THEN 0
  ELSE today + 1 - (IF firstIn[x] > SpeedWindow.from THEN firstIn[x] ELSE SpeedWindow.from)

DaysLeft(x) ==
  IF held[x] > 0 /\ SoldLately(x) > 0 /\ SpeedOver(x) > 0
  THEN (held[x] * SpeedOver(x)) \div SoldLately(x) ELSE Nobody

\* Bug: lasting exactly the warning period is running out.
LowReasonAtMost(x) ==
  IF held[x] <= 0 THEN "fine"
  ELSE IF SoldLately(x) > 0 /\ SpeedOver(x) > 0 /\ held[x] * SpeedOver(x) <= SoldLately(x) * LowStockDays
       THEN "running_out"
  ELSE IF held[x] <= ReorderPoint THEN "below_level" ELSE "fine"

LowReason(x) ==
  IF held[x] <= 0 THEN "fine"
  ELSE IF SoldLately(x) > 0 /\ SpeedOver(x) > 0 /\ held[x] * SpeedOver(x) < SoldLately(x) * LowStockDays
       THEN "running_out"
  ELSE IF held[x] <= ReorderPoint THEN "below_level" ELSE "fine"

\* Bug: a sale that named no option is of none of them.
SoldSinceExactly(x) ==
  \E l \in LineIds : sales[l[1]].at >= today - StaleDays /\ LineOf(l).item = x

\* A sale from before there were options counts for every one of them.
SoldSince(x) ==
  \E l \in LineIds : sales[l[1]].at >= today - StaleDays /\ LineOf(l).item \in {x, <<x[1], Nobody>>}

DeadStock == {x \in Items : held[x] > 0 /\ ~SoldSince(x)}

-----------------------------------------------------------------------------
(* Properties. *)

Adding(f, g) ==
  [gross |-> f.gross + g.gross, returned |-> f.returned + g.returned,
   revenue |-> f.revenue + g.revenue, cogs |-> f.cogs + g.cogs]

\* However a period is sliced, the rows come to its totals, though the two are worked
\* out apart: a return with no sale of its own in the period still has a row.
SlicesComeToTheTotal ==
  sales # <<>> => \A w \in Windows, by \in Groupings :
    LET rows == Slices(w, by)
        keys == DOMAIN rows
    IN  Profit(w) = [gross |-> SumUp([k \in keys |-> rows[k].gross]),
                     returned |-> SumUp([k \in keys |-> rows[k].returned]),
                     revenue |-> SumUp([k \in keys |-> rows[k].revenue]),
                     cogs |-> SumUp([k \in keys |-> rows[k].cogs])]

\* Two periods that meet come to the period they make, and a customer is new in one of
\* them only: nothing is counted twice or dropped where they meet.
PeriodsAddUp ==
  sales # <<>> => \A v, w \in Windows : v.to = w.from =>
    LET both == [from |-> v.from, to |-> w.to]
    IN  /\ Profit(both) = Adding(Profit(v), Profit(w))
        /\ NewIn(v) \cap NewIn(w) = {} /\ NewIn(both) = NewIn(v) \cup NewIn(w)

\* A month that was read and acted on is not restated: goods that come back later
\* change only the periods of the day they came back.
ReturnsLeaveThePast ==
  returns' # returns => \A w \in Windows :
    ~InWindow(w, Last(returns').at) => Profit(w)' = Profit(w)

\* The days the alert shows and the list it puts an item on agree at every boundary,
\* though one divides and the other multiplies out: an item is said to be running out
\* exactly when the whole days it lasts are fewer than the warning period.
DaysShownAgree ==
  \A x \in Items : LowReason(x) = "running_out" <=> (DaysLeft(x) # Nobody /\ DaysLeft(x) < LowStockDays)

\* Giving a product options does not make goods that sell dead stock.
OptionsKillNothing ==
  optioned' # optioned => \A x \in DeadStock' : \E y \in DeadStock : y[1] = x[1]

\* Everything sold and brought back on one day leaves that day as if nothing had been:
\* no revenue on the trend, no pieces in the slice.
ReturnUndoesTheSale ==
  \A d \in Days :
    LET w == [from |-> d, to |-> d + 1]
    IN  (/\ \A l \in SoldIn(w) : SentBack(l) = LineOf(l).base
         /\ \A r \in DOMAIN returns : returns[r].line \in SoldIn(w) <=> r \in ReturnedIn(w))
        => DailyRevenue(w, d) = 0 /\ UnitsOf(SoldIn(w), ReturnedIn(w)) = 0

\* Figures the reports work out apart come to the same: rows and totals, periods that
\* meet, the days shown and the days decided on (report.service.ts, stock-alerts.ts).
FiguresAgree == SlicesComeToTheTotal /\ PeriodsAddUp /\ DaysShownAgree

\* What was reported stands: a return or a new option changes nothing but its own day
\* (profitWindow, deadStock).
PastStands == [][ReturnsLeaveThePast /\ OptionsKillNothing]_reportsVars
=============================================================================
