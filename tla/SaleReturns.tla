----------------------------- MODULE SaleReturns ----------------------------
(***************************************************************************)
(* Goods coming back to the lots a sale took them from, as                 *)
(* SaleReturnService.create and restore write it: one product, sold on     *)
(* several lines of one sale, picked first expired first out.              *)
(*                                                                         *)
(* A return reads the sale with what already came back, and then writes    *)
(* its rows and its stock in one transaction: two steps.                   *)
(***************************************************************************)
EXTENDS Fefo

CONSTANTS
  Visitors,  \* visits that bring goods back
  Asked,     \* what a visit may hand back: sequences of [line, quantity, option, restocked]
  Sales,     \* sales to start from: sequences of [option, base, total]
  Shelves,   \* stock before the sale: [Kinds -> [Lots -> Nat]]
  Options,   \* the options the product has now
  None       \* no option

ASSUME SaleReturnsAssumption == None \notin Options

VARIABLES
  sale,       \* the lines of the invoice
  movements,  \* the lots the sale took from, in the order it took
  rows,       \* SaleReturn rows, oldest first
  inbound,    \* return_in movements, oldest first
  visit, brings, before,
  together  \* two visits have been under way together

returnsDb == <<sale, movements, rows, inbound>>
returnsVars == <<returnsDb, visit, brings, before, together>>

Kinds == Options \cup {None}
Total(f(_), seq) == FoldLeft(LAMBDA sum, x : sum + f(x), 0, seq)
Quantity(x) == x.quantity

RowsOf(some, line) == SelectSeq(some, LAMBDA row : row.line = line)
Returned(some, line) == Total(Quantity, RowsOf(some, line))

ReturnsTypeOK ==
  /\ \A n \in DOMAIN rows : rows[n].line \in DOMAIN sale /\ rows[n].quantity \in Nat \ {0} /\ rows[n].refund \in Nat
  /\ \A n \in DOMAIN inbound :
       /\ inbound[n].lot \in Lots /\ inbound[n].row \in DOMAIN rows /\ inbound[n].quantity \in Nat \ {0}
       /\ inbound[n].option \in IF Options = {} THEN {None} ELSE Options
  /\ visit \in [Visitors -> {"idle", "read", "done", "refused"}] /\ together \in BOOLEAN

\* One line after the other draws on the shelf its option stands on.
TakeLine(made, line) ==
  LET taken == AllocateFefo(made.shelf[line.option], line.base).taken
      from == SelectSeq(SetToSortSeq(Lots, Earlier), LAMBDA lot : taken[lot] > 0)
  IN  [shelf |-> [made.shelf EXCEPT ![line.option] = [lot \in Lots |-> @[lot] - taken[lot]]],
       movements |-> made.movements \o [k \in DOMAIN from |->
                       [lot |-> from[k], option |-> line.option, quantity |-> taken[from[k]]]]]

Sold(lines, shelf) == FoldLeft(TakeLine, [shelf |-> shelf, movements |-> <<>>], lines).movements

ReturnsInit ==
  /\ sale \in Sales
  /\ \E shelf \in Shelves : movements = Sold(sale, shelf)
  /\ Total(Quantity, movements) = Total(LAMBDA line : line.base, sale)    \* nothing was forced
  /\ rows = <<>> /\ inbound = <<>>
  /\ visit = [r \in Visitors |-> "idle"]
  /\ brings = [r \in Visitors |-> <<>>] /\ before = [r \in Visitors |-> <<>>]
  /\ together = FALSE

ReadSale(r) ==
  /\ visit[r] = "idle"
  /\ \E asked \in Asked : brings' = [brings EXCEPT ![r] = asked]
  /\ before' = [before EXCEPT ![r] = rows]
  /\ visit' = [visit EXCEPT ![r] = "read"]
  /\ together' = (together \/ \E q \in Visitors : visit[q] = "read")
  /\ UNCHANGED returnsDb

-----------------------------------------------------------------------------
(* Plausible bugs, each to stand in for the operator below it is named after. *)

\* What the visit itself has handed back so far is not counted.
StillOutAsRead(r, made, line) == sale[line].base - Returned(before[r], line)

\* The movements of every option of the product.
NewestFirstOfAny(option) == Reverse(movements)

\* The order the goods left in.
NewestFirstUnsorted(option) == SelectSeq(movements, LAMBDA m : m.option = option)

\* A lot is given back all it gave.
RefillWhole(refill, m, isLast) ==
  [left |-> refill.left - m.quantity, into |-> Append(refill.into, [lot |-> m.lot, quantity |-> m.quantity])]

\* Every row is rounded up.
ProportionOfLineUp(amount, base, quantity) == -((-(amount * quantity)) \div base)

\* Any option will do.
CheckedAny(option) == TRUE

-----------------------------------------------------------------------------
(* SaleReturnService.create *)

\* proportionOfLine: half a kobo rounds up, the whole line is not rounded at all.
ProportionOfLine(amount, base, quantity) ==
  IF quantity = base THEN amount ELSE (2 * amount * quantity + base) \div (2 * base)

\* What the sale's return rows, as read, and this visit's own leave of a line.
StillOut(r, made, line) ==
  sale[line].base - Returned(before[r], line) - Returned(SubSeq(made.rows, Len(rows) + 1, Len(made.rows)), line)

WrongOption(asked) == asked.option # None /\ sale[asked.line].option \notin {None, asked.option}
Into(asked) == IF sale[asked.line].option # None THEN sale[asked.line].option ELSE asked.option

\* checkVariant: one of the product's options, or none where it has none.
Checked(option) == IF Options = {} THEN option = None ELSE option \in Options

\* restore: the sale's movements of the option sold, the latest first ...
NewestFirst(option) == Reverse(SelectSeq(movements, LAMBDA m : m.option = option))

\* ... each given back what it took or what is left, the last whatever is left.
Refill(refill, m, isLast) ==
  LET take == IF isLast THEN refill.left ELSE Least(m.quantity, refill.left)
  IN  IF refill.left = 0 THEN refill
      ELSE [left |-> refill.left - take, into |-> Append(refill.into, [lot |-> m.lot, quantity |-> take])]

Restore(option, quantity) ==
  LET from == NewestFirst(option)
      step(refill, k) == Refill(refill, from[k], k = Len(from))
  IN  FoldLeftDomain(step, [left |-> quantity, into |-> <<>>], from).into

Row(asked) ==
  [line |-> asked.line, quantity |-> asked.quantity, restocked |-> asked.restocked,
   refund |-> ProportionOfLine(sale[asked.line].total, sale[asked.line].base, asked.quantity)]

\* One line handed back: everything the loop does, or the refusal that undoes all.
HandBack(r, made, asked) ==
  LET into == IF asked.restocked THEN Restore(sale[asked.line].option, asked.quantity) ELSE <<>>
  IN  IF \/ made.refused
         \/ asked.line \notin DOMAIN sale
         \/ WrongOption(asked)
         \/ asked.quantity > StillOut(r, made, asked.line)
         \/ asked.restocked /\ ~Checked(Into(asked))
      THEN [made EXCEPT !.refused = TRUE]
      ELSE [made EXCEPT !.rows = Append(@, Row(asked)),
              !.inbound = @ \o [k \in DOMAIN into |->
                 [lot |-> into[k].lot, option |-> Into(asked), quantity |-> into[k].quantity,
                  row |-> Len(made.rows) + 1]]]

TakeBack(r) ==
  /\ visit[r] = "read"
  /\ LET step(made, asked) == HandBack(r, made, asked)
         made == FoldLeft(step, [refused |-> FALSE, rows |-> rows, inbound |-> inbound], brings[r])
     IN  /\ rows' = IF made.refused THEN rows ELSE made.rows
         /\ inbound' = IF made.refused THEN inbound ELSE made.inbound
         /\ visit' = [visit EXCEPT ![r] = IF made.refused THEN "refused" ELSE "done"]
  /\ before' = [before EXCEPT ![r] = <<>>]
  /\ UNCHANGED <<sale, movements, brings, together>>

ReturnsNext == \E r \in Visitors : ReadSale(r) \/ TakeBack(r)

ReturnsSpec == ReturnsInit /\ [][ReturnsNext]_returnsVars

-----------------------------------------------------------------------------
(* What a return promises. *)

RestockedOf(option) == SelectSeq(rows, LAMBDA row : row.restocked /\ sale[row.line].option = option)
CameFrom(n) == sale[rows[inbound[n].row].line].option
TakenFrom(lot, option) ==
  Total(Quantity, SelectSeq(movements, LAMBDA m : m.lot = lot /\ m.option = option))
BackInto(lot, option) ==
  MapThenSumSet(LAMBDA n : inbound[n].quantity,
                {n \in DOMAIN inbound : inbound[n].lot = lot /\ CameFrom(n) = option})

\* However many visits, and of however many lines, no more of a line comes back
\* than was sold on it (sale-return.service.ts:55).  Two visits that read the
\* sale before either wrote can bring back more, so this is said of one at a time.
ReturnedWithinSold == together \/ \A l \in DOMAIN sale : Returned(rows, l) <= sale[l].base

\* What is restocked is on the shelf, to the unit, even when visits race: the
\* quantity of the rows is the quantity of their movements.
RestockedIsOnTheShelf ==
  \A n \in DOMAIN rows :
    Total(Quantity, SelectSeq(inbound, LAMBDA m : m.row = n)) = IF rows[n].restocked THEN rows[n].quantity ELSE 0

\* The first goods of an option to come back go to lots they left, no more than
\* left each (line 22) ...
FirstBackWithinItsLots ==
  \A o \in Kinds : Len(RestockedOf(o)) = 1 => \A lot \in Lots : BackInto(lot, o) <= TakenFrom(lot, o)

\* ... the longest dated first: an earlier lot gets some only when every later
\* one has back all it gave (line 149).
FirstBackInReverse ==
  \A o \in Kinds : Len(RestockedOf(o)) = 1 =>
    \A a, b \in Lots : Earlier(a, b) /\ BackInto(a, o) > 0 => BackInto(b, o) >= TakenFrom(b, o)

\* A line that has all come back, in however many visits, was refunded as charged
\* but for half a kobo a row; in one row, to the kobo (proportionOfLine).
RefundedAsCharged ==
  \A l \in DOMAIN sale :
    LET back == RowsOf(rows, l)
        refunded == Total(LAMBDA row : row.refund, back)
        off == IF refunded > sale[l].total THEN refunded - sale[l].total ELSE sale[l].total - refunded
    IN  Returned(rows, l) = sale[l].base =>
          2 * off <= Len(back) /\ (Len(back) = 1 => off = 0)

\* A lot gets back no more than it gave: a returned carton keeps the expiry date
\* it left with (line 24).
LotGetsBackWhatItGave ==
  together \/ \A o \in Kinds, lot \in Lots : BackInto(lot, o) <= TakenFrom(lot, o)

\* What comes back is what was sold, on the lots it left, refunded as charged.
ReturnsAddUp ==
  /\ ReturnedWithinSold /\ RestockedIsOnTheShelf
  /\ FirstBackWithinItsLots /\ FirstBackInReverse
  /\ RefundedAsCharged
=============================================================================
