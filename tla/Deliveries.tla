----------------------------- MODULE Deliveries -----------------------------
(***************************************************************************)
(* Goods that come in: a delivery with its lots, fee and bill, the         *)
(* correction of one, and opening stock.  ReceivingService,                *)
(* DeliveryCorrectionService and OpeningStockService, over the bills of    *)
(* Payables, at one location.                                              *)
(*                                                                         *)
(* Goods are a product and one of its options.  A lot holds goods of one   *)
(* product; the option is on the movement, so a lot may hold several.      *)
(***************************************************************************)
EXTENDS Payables, DeliveryFee, Sequences

CONSTANTS
  Products, Options,
  Lots,
  Receipts,
  BillOf,       \* [Receipts -> Bills]: the bill a delivery raises
  OpeningGoods, \* the deliveries and lots a behaviour starts with
  MaxSold       \* bound on what is sold meanwhile

Goods == Products \X Options

ASSUME DeliveriesAssumption ==
  /\ BillOf \in [Receipts -> Bills]
  /\ \A c, d \in Receipts : BillOf[c] = BillOf[d] => c = d
  /\ IsFiniteSet(Lots) /\ IsFiniteSet(Products) /\ IsFiniteSet(Options)
  /\ MaxSold \in Nat

VARIABLES
  receipt,  \* goods_receipts with their lines, their lines a sequence
  lot,      \* stock_batches: what came and what it cost
  moved,    \* what receipts, openings and corrections brought, per lot and goods
  sold,     \* what left by sales, per lot and goods
  forced,   \* lots a correction was forced on
  sheet,    \* the delivery as each request read it
  agreed,   \* by how much a bill was last set above its goods' value
  stocked,  \* goods with a movement in, gone since or not
  overtaken,\* history: requests whose goods came in after they looked, before they wrote
  late      \* history: requests that opened goods that had come in

openings == <<stocked, overtaken, late>>
goodsVars == <<receipt, lot, moved, sold, forced, sheet, agreed, openings>>
vars == <<payablesVars, goodsVars>>

Figures == [goods : Goods, received : Nat, value : Nat]
LineRows == [goods : Goods, lot : Lots, received : Nat, value : Nat, share : Nat]
LotRows == [from : {"none", "delivery", "opening"}, received : Nat, cost : Nat]

\* A delivery brings something, at values that are not negative, and raises a bill of its
\* own: nobody enters that one by hand.
ASSUME GoodsAsksAssumption ==
  \A a \in Asks :
    /\ a.kind = "deliver" =>
         /\ a.receipt \in Receipts /\ a.vendor \in Vendors /\ a.paid \in Nat /\ a.fee \in Nat
         /\ a.due \in Nat \cup {None}
         /\ a.lines \in Seq(Figures) /\ a.lines # <<>>
         /\ \A l \in DOMAIN a.lines : a.lines[l].received > 0
    /\ a.kind = "correct" =>
         /\ a.receipt \in Receipts /\ a.fee \in Nat \cup {None}
         /\ \A l \in DOMAIN a.truths : a.truths[l] \in Figures
    /\ a.kind = "open" => a.goods \in Goods /\ a.received \in Nat \ {0} /\ a.value \in Nat
    /\ a.kind = "recost" => a.lot \in Lots /\ a.value \in Nat
    /\ a.kind = "enter" => \A c \in Receipts : a.bill # BillOf[c]

\* A line's lot x stands at the line's figures and its share of the fee, and holds what
\* the line says came, of the goods it names and no others.
LotStands(ln, x, held) ==
  /\ x.received = ln.received /\ x.cost = ln.value + ln.share
  /\ \A g \in Goods : held[g] = IF g = ln.goods THEN ln.received ELSE 0

\* Deliveries, lots and what these hold: a lot of its own for every line, nothing on a
\* lot a swap emptied or one nobody brought, the fee shared out, nothing opened twice.
GoodsStand(receipts, lots, held) ==
  LET line(c, l) == receipts[c].lines[l]
      lines(c) == DOMAIN receipts[c].lines
  IN  /\ \A c \in Receipts : \A l \in lines(c) :
           /\ lots[line(c, l).lot].from = "delivery"
           /\ LotStands(line(c, l), lots[line(c, l).lot], held[line(c, l).lot])
      /\ \A c, d \in Receipts : \A l \in lines(c), k \in lines(d) :
           line(c, l).lot = line(d, k).lot => c = d /\ l = k
      /\ \A x \in Lots : lots[x].from = "delivery" =>
           lots[x].cost = 0 \/ \E c \in Receipts : \E l \in lines(c) : line(c, l).lot = x
      /\ \A x \in Lots : lots[x].from = "none" => \A g \in Goods : held[x][g] = 0
      /\ \A c \in Receipts :
           SumFunction([l \in lines(c) |-> line(c, l).share]) = receipts[c].fee
      /\ \A x, y \in Lots, g \in Goods :
           lots[x].from = "opening" /\ lots[y].from = "opening" /\ held[x][g] > 0 /\ held[y][g] > 0
             => x = y

ASSUME OpeningGoodsAssumption ==
  \A start \in OpeningGoods :
    /\ start.receipt \in [Receipts -> [fee : Nat, lines : Seq(LineRows)]]
    /\ start.lot \in [Lots -> LotRows] /\ start.moved \in [Lots -> [Goods -> Nat]]
    /\ GoodsStand(start.receipt, start.lot, start.moved)
    /\ start.stocked \subseteq Goods
    /\ \A x \in Lots, g \in Goods : start.moved[x][g] > 0 => g \in start.stocked
    /\ \A c \in Receipts : start.receipt[c].lines = <<>> =>
         \A first \in OpeningBooks : first.bill[BillOf[c]].state = "none"

NoLot == [from |-> "none", received |-> 0, cost |-> 0]
NoReceipt == [lines |-> <<>>, fee |-> 0]

TypeOK ==
  /\ BooksOK
  /\ receipt \in [Receipts -> [fee : Nat, lines : Seq(LineRows)]] /\ lot \in [Lots -> LotRows]
  /\ moved \in [Lots -> [Goods -> Int]] /\ sold \in [Lots -> [Goods -> Nat]]
  /\ forced \subseteq Lots /\ agreed \in [Bills -> Int]
  /\ stocked \subseteq Goods /\ overtaken \subseteq Requests /\ late \subseteq Requests

Value(lines) == SumOver(LAMBDA l : lines[l].value, DOMAIN lines)
OnHand(x, g) == moved[x][g] - sold[x][g]
Unborn == {x \in Lots : lot[x].from = "none"}

\* Lots for the lines that need a new one.
NewLots(S) == CHOOSE f \in [S -> Unborn] : \A l, k \in S : f[l] = f[k] => l = k

LotsLeft(n) == n <= Cardinality(Unborn)    \* bound: as many lots as Lots has

\* The bill a receipt answers to is the one whose agreement it moves.
Agreement(b) ==
  SumOver(LAMBDA c : Value(receipt[c].lines), {c \in Receipts : BillOf[c] = b})

Init ==
  /\ BooksInit
  /\ \E start \in OpeningGoods :
       /\ receipt = start.receipt /\ lot = start.lot /\ moved = start.moved
       /\ stocked = start.stocked
  /\ overtaken = {} /\ late = {}
  /\ sold = [x \in Lots |-> [g \in Goods |-> 0]]
  /\ forced = {}
  /\ sheet = [r \in Requests |-> <<>>]
  /\ agreed = [b \in Bills |-> IF \E c \in Receipts : BillOf[c] = b /\ LiveBill(b)
                               THEN bill[b].due - Agreement(b) ELSE 0]

\* The product was wrong, not only its option: another lot is needed.
WrongProduct(l, old, truths) == truths[l].goods[1] # old[l].goods[1]

-----------------------------------------------------------------------------
(* Plausible bugs, each to stand in for the operator below it is named after. *)

\* A swap leaves its figures on the lot it empties.
WrittenBesideTheOld(changed, old, truths, newLot) ==
  LET at(l) == IF WrongProduct(l, old, truths) THEN newLot[l] ELSE old[l].lot
  IN  [x \in Lots |->
         IF \E l \in changed : at(l) = x
         THEN LET l == CHOOSE l \in changed : at(l) = x
              IN  [from |-> "delivery", received |-> truths[l].received, cost |-> truths[l].value]
         ELSE lot[x]]

\* A wrong product is taken out by the difference.
BroughtDifference(x, g, changed, old, truths, newLot) ==
  SumOver(LAMBDA l : IF <<old[l].lot, old[l].goods>> = <<x, g>>
                     THEN truths[l].received - old[l].received ELSE 0, changed)

\* A swap is counted at its whole value, as its stock is.
ValueDeltaLikeStock(changed, old, truths) ==
  SumOver(LAMBDA l : IF truths[l].goods # old[l].goods THEN truths[l].value
                     ELSE truths[l].value - old[l].value, changed)

\* A correction takes more off the lot than is left of it.
NothingShort(changed, old, truths) == TRUE

\* Opening stock asks what is held now, not what ever came in.
StockedStill(g) == \E x \in Lots : moved[x][g] > 0

-----------------------------------------------------------------------------
\* recordInbound: movements in of the goods gs, which a request that is to open one of
\* them may have looked for already.
ComeIn(r, gs) ==
  /\ stocked' = stocked \cup gs
  /\ overtaken' = overtaken \cup {s \in Requests \ {r} : Writes(s, "open") /\ ask[s].goods \in gs}

-----------------------------------------------------------------------------
(* A delivery. *)

\* ReceivingService.create: one transaction after its reads, none of which another
\* request can change, so the delivery is one step: a lot for each line at its value
\* and its share of the fee, the bill, and the payment made at the door.
Deliver(r, a) ==
  /\ a.kind = "deliver" /\ LotsLeft(Len(a.lines))
  /\ LET due == IF a.due = None THEN Value(a.lines) ELSE a.due
         b == BillOf[a.receipt]
         share == SplitFee(a.fee, a.lines)
         into == NewLots(DOMAIN a.lines)
         lineOn(x) == CHOOSE l \in DOMAIN a.lines : into[l] = x
         new == {into[l] : l \in DOMAIN a.lines}
     IN  IF a.paid > due \/ receipt[a.receipt].lines # <<>>
         THEN Begin(r, a, "refused") /\ UNCHANGED <<books, goodsVars>>
         ELSE /\ Begin(r, a, "done")
              /\ receipt' = [receipt EXCEPT ![a.receipt] =
                   [fee |-> a.fee,
                    lines |-> [l \in DOMAIN a.lines |->
                                 [goods |-> a.lines[l].goods, lot |-> into[l],
                                  received |-> a.lines[l].received,
                                  value |-> a.lines[l].value, share |-> share[l]]]]]
              /\ lot' = [x \in Lots |->
                   IF x \notin new THEN lot[x]
                   ELSE [from |-> "delivery", received |-> a.lines[lineOn(x)].received,
                         cost |-> a.lines[lineOn(x)].value + share[lineOn(x)]]]
              /\ moved' = [x \in Lots |-> [g \in Goods |->
                   IF x \in new /\ a.lines[lineOn(x)].goods = g
                   THEN a.lines[lineOn(x)].received ELSE moved[x][g]]]
              /\ bill' = [bill EXCEPT ![b] = [state |-> "live", vendor |-> a.vendor, due |-> due]]
              /\ payment' = IF a.paid = 0 THEN payment
                            ELSE [payment EXCEPT ![r] = [bill |-> b, amount |-> a.paid, live |-> TRUE]]
              /\ agreed' = [agreed EXCEPT ![b] = due - Value(a.lines)]
              /\ ComeIn(r, {a.lines[l].goods : l \in DOMAIN a.lines})
              /\ UNCHANGED <<rebate, sold, forced, sheet, late>>

-----------------------------------------------------------------------------
(* The correction of a delivery: planCorrection and the transaction of apply. *)

\* The lines whose true figures are not the recorded ones.
Changed(old, truths) ==
  {l \in DOMAIN truths :
     \/ truths[l].goods # old[l].goods
     \/ truths[l].received # old[l].received \/ truths[l].value # old[l].value}

\* By how much the corrected lines are worth more.
ValueDelta(changed, old, truths) ==
  SumOver(LAMBDA l : truths[l].value - old[l].value, changed)

\* A plausible bug: the bill follows the value whatever was paid on it.
MayCorrectWhateverWasPaid(a) ==
  /\ receipt[a.receipt].lines # <<>>
  /\ DOMAIN a.truths \subseteq DOMAIN receipt[a.receipt].lines

\* The problems a plan may have; and the bill follows the value, never below what
\* was paid and credited.
MayCorrect(a) ==
  LET old == receipt[a.receipt].lines
      changed == Changed(old, a.truths)
      by == ValueDelta(changed, old, a.truths)
      b == BillOf[a.receipt]
  IN  /\ old # <<>> /\ DOMAIN a.truths \subseteq DOMAIN old
      /\ changed # {} \/ a.fee \notin {None, receipt[a.receipt].fee}
      /\ \A l \in changed : a.truths[l].received = 0 =>
                              a.truths[l].goods = old[l].goods /\ a.truths[l].value = 0
      /\ LiveBill(b) /\ by # 0 => bill[b].due + by >= Paid(b) + Rebated(b)

ReadDelivery(r, a) ==
  /\ a.kind = "correct"
  /\ Begin(r, a, IF MayCorrect(a) THEN "write" ELSE "refused")
  /\ sheet' = IF MayCorrect(a)
              THEN [sheet EXCEPT ![r] = [lines |-> receipt[a.receipt].lines,
                                         fee |-> receipt[a.receipt].fee,
                                         due |-> bill[BillOf[a.receipt]].due,
                                         billed |-> LiveBill(BillOf[a.receipt])]]
              ELSE sheet
  /\ UNCHANGED <<books, receipt, lot, moved, sold, forced, agreed, openings>>

\* recordOutbound on a line's own lot: the difference, or all of the wrong goods.
TakenOut(l, old, truths) ==
  IF truths[l].goods = old[l].goods THEN old[l].received - truths[l].received
  ELSE old[l].received

Covered(changed, old, truths) ==
  \A l \in changed : TakenOut(l, old, truths) > 0 =>
                       TakenOut(l, old, truths) <= OnHand(old[l].lot, old[l].goods)

\* What the correction brings to a lot: the wrong goods out of the line's own, the
\* right ones into it, or into a lot of their own when the product was wrong.
Brought(x, g, changed, old, truths, newLot) ==
  LET into(l) == IF WrongProduct(l, old, truths) THEN newLot[l] ELSE old[l].lot
  IN  SumOver(LAMBDA l : (IF <<into(l), truths[l].goods>> = <<x, g>> THEN truths[l].received ELSE 0)
                       - (IF <<old[l].lot, old[l].goods>> = <<x, g>> THEN old[l].received ELSE 0),
              changed)

\* What recordInbound is called for: the difference, or all of the right goods.
BroughtIn(changed, old, truths) ==
  {truths[l].goods : l \in {k \in changed : truths[k].goods # old[k].goods
                                              \/ truths[k].received > old[k].received}}

\* The lines as they stand now, with the true figures in.
Corrected(now, changed, old, truths, newLot) ==
  [l \in DOMAIN now |->
     IF l \notin changed THEN now[l]
     ELSE [now[l] EXCEPT !.received = truths[l].received, !.value = truths[l].value,
             !.goods = IF WrongProduct(l, old, truths) THEN truths[l].goods
                       ELSE <<now[l].goods[1], truths[l].goods[2]>>,
             !.lot = IF WrongProduct(l, old, truths) THEN newLot[l] ELSE now[l].lot]]

\* shareTheFee: split again across the lines as they stand.
Reshare(fee, lines, old) ==
  [l \in DOMAIN lines |-> [lines[l] EXCEPT !.share = SplitFee(fee, lines)[l]]]

\* The lots with the true figures in; the lot of a wrong product is left with nothing.
Written(changed, old, truths, newLot) ==
  LET at(l) == IF WrongProduct(l, old, truths) THEN newLot[l] ELSE old[l].lot
  IN  [x \in Lots |->
         IF \E l \in changed : at(l) = x
         THEN LET l == CHOOSE l \in changed : at(l) = x
              IN  [from |-> "delivery", received |-> truths[l].received, cost |-> truths[l].value]
         ELSE IF \E l \in changed : old[l].lot = x THEN [lot[x] EXCEPT !.received = 0, !.cost = 0]
         ELSE lot[x]]

\* A line's lot costs its value and its share.
Costed(lots, lines) ==
  [x \in Lots |->
     IF \E l \in DOMAIN lines : lines[l].lot = x
     THEN LET l == CHOOSE l \in DOMAIN lines : lines[l].lot = x
          IN  [lots[x] EXCEPT !.cost = lines[l].value + lines[l].share]
     ELSE lots[x]]

Correct(r) ==
  /\ Writes(r, "correct")
  /\ LET a == ask[r]
         c == a.receipt
         old == sheet[r].lines
         changed == Changed(old, a.truths)
         swapped == {l \in changed : WrongProduct(l, old, a.truths)}
         newLot == NewLots(swapped)
         fee == IF a.fee = None THEN sheet[r].fee ELSE a.fee
         figures == Corrected(receipt[c].lines, changed, old, a.truths, newLot)
         lines == Reshare(fee, figures, receipt[c].lines)
         by == ValueDelta(changed, old, a.truths)
         covered == Covered(changed, old, a.truths)
     IN  /\ LotsLeft(Cardinality(swapped))
         /\ IF (~covered /\ ~a.force) \/ (fee > 0 /\ ~HasSomewhereToGo(figures))
            THEN End(r, "refused") /\ UNCHANGED <<books, receipt, lot, moved, sold, forced, agreed, openings>>
            ELSE /\ bill' = IF sheet[r].billed /\ by # 0
                            THEN [bill EXCEPT ![BillOf[c]].due = sheet[r].due + by] ELSE bill
                 /\ receipt' = [receipt EXCEPT ![c] =
                      [lines |-> lines, fee |-> IF fee = sheet[r].fee THEN @.fee ELSE fee]]
                 /\ lot' = Costed(Written(changed, old, a.truths, newLot), lines)
                 /\ moved' = [x \in Lots |-> [g \in Goods |->
                      moved[x][g] + Brought(x, g, changed, old, a.truths, newLot)]]
                 /\ forced' = IF covered THEN forced ELSE forced \cup {old[l].lot : l \in changed}
                 /\ ComeIn(r, BroughtIn(changed, old, a.truths))
                 /\ End(r, "done")
                 /\ UNCHANGED <<payment, rebate, sold, agreed, late>>
  /\ sheet' = [sheet EXCEPT ![r] = <<>>]

-----------------------------------------------------------------------------
(* Opening stock. *)

\* stockedAt: goods with any movement in here, on whatever lot, gone since or not.
Stocked(g) == g \in stocked

ReadOpening(r, a) ==
  /\ a.kind = "open"
  /\ Begin(r, a, IF Stocked(a.goods) THEN "refused" ELSE "write")
  /\ UNCHANGED <<books, goodsVars>>

RecordOpening(r) ==
  /\ Writes(r, "open") /\ LotsLeft(1)
  /\ LET a == ask[r]
         x == CHOOSE x \in Unborn : TRUE
     IN  /\ lot' = [lot EXCEPT ![x] = [from |-> "opening", received |-> a.received, cost |-> a.value]]
         /\ moved' = [moved EXCEPT ![x][a.goods] = a.received]
         /\ ComeIn(r, {a.goods})
         /\ late' = IF a.goods \in stocked THEN late \cup {r} ELSE late
  /\ End(r, "done")
  /\ UNCHANGED <<books, receipt, sold, forced, sheet, agreed>>

\* correctCost: only an opening lot, and only its value.
CorrectCost(r, a) ==
  /\ a.kind = "recost"
  /\ IF lot[a.lot].from = "opening"
     THEN Begin(r, a, "done") /\ lot' = [lot EXCEPT ![a.lot].cost = a.value]
     ELSE Begin(r, a, "refused") /\ UNCHANGED lot
  /\ UNCHANGED <<books, receipt, moved, sold, forced, sheet, agreed, openings>>

-----------------------------------------------------------------------------
\* Something of a lot is sold.
Sell(x, g) ==
  /\ OnHand(x, g) > 0 /\ sold[x][g] < MaxSold
  /\ sold' = [sold EXCEPT ![x][g] = @ + 1]
  /\ UNCHANGED <<payablesVars, receipt, lot, moved, forced, sheet, agreed, openings>>

\* The bills' own requests; an edit agrees a new figure with the vendor.
Books(r) ==
  \/ (\E a \in Asks : ReadBooks(r, a)) /\ UNCHANGED goodsVars
  \/ /\ WriteBooks(r)
     /\ agreed' = IF ask[r].kind \in {"edit", "enter"} /\ pc'[r] = "done"
                  THEN [agreed EXCEPT ![ask[r].bill] = bill'[ask[r].bill].due - Agreement(ask[r].bill)]
                  ELSE agreed
     /\ UNCHANGED <<receipt, lot, moved, sold, forced, sheet, openings>>

Next ==
  \/ \E r \in Requests : Books(r) \/ Correct(r) \/ RecordOpening(r)
  \/ \E r \in Requests, a \in Asks :
       Deliver(r, a) \/ ReadDelivery(r, a) \/ ReadOpening(r, a) \/ CorrectCost(r, a)
  \/ \E x \in Lots, g \in Goods : Sell(x, g)

Spec == Init /\ [][Next]_vars

-----------------------------------------------------------------------------
(* What deliveries promise. *)

\* The bill of a delivery moves with the value of what came, whatever was last
\* agreed over and above it.
BillFollowsTheGoods ==
  \/ overlapped
  \/ \A c \in Receipts : LiveBill(BillOf[c]) =>
       bill[BillOf[c]].due = Value(receipt[c].lines) + agreed[BillOf[c]]

\* Every line's lot stands at the line's figures and its share of the fee, and
\* holds what the line says came, of the goods it names and no others.
LotIsItsLine ==
  \/ overlapped
  \/ \A c \in Receipts : \A l \in DOMAIN receipt[c].lines :
       LET ln == receipt[c].lines[l]
       IN  /\ lot[ln.lot].received = ln.received /\ lot[ln.lot].cost = ln.value + ln.share
           /\ \A g \in Goods : moved[ln.lot][g] = IF g = ln.goods THEN ln.received ELSE 0

\* All the lots that deliveries brought, the ones a swap emptied too, cost what the
\* vendors charged and the drivers got: no correction makes or loses money.
CostsAddUp ==
  \/ overlapped
  \/ SumOver(LAMBDA x : lot[x].cost, {x \in Lots : lot[x].from = "delivery"})
       = SumOver(LAMBDA c : Value(receipt[c].lines) + receipt[c].fee, Receipts)

\* A lot is below zero only where a correction was forced on it.
ShortOnlyByForce ==
  overlapped \/ \A x \in Lots, g \in Goods : OnHand(x, g) < 0 => x \in forced

\* Opening stock never goes in of goods that came in before, delivered, corrected in or
\* opened, and corrected away since or not; nor do two lots of it hold the same goods.
\* Whatever overlaps, only goods that came in between a request's own look and what it
\* wrote go in so.
OpeningOnce ==
  /\ late \subseteq overtaken
  /\ \A x, y \in Lots, g \in Goods :
       lot[x].from = "opening" /\ lot[y].from = "opening" /\ moved[x][g] > 0 /\ moved[y][g] > 0
         => x = y \/ \E r \in overtaken : ask[r].goods = g

\* Corrected any number of times, a delivery's bill, lots, costs and goods agree.
DeliveryAddsUp ==
  BillFollowsTheGoods /\ LotIsItsLine /\ CostsAddUp /\ ShortOnlyByForce /\ OpeningOnce
=============================================================================
