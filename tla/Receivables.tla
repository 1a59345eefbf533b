----------------------------- MODULE Receivables ----------------------------
(***************************************************************************)
(* What customers owe: invoices, the payments put against them, voids,     *)
(* returns and corrections, as PaymentService, SaleService,                *)
(* SaleReturnService and SaleCorrectionService write them.                 *)
(*                                                                         *)
(* Every operation decides on what it read and writes later: before its    *)
(* transaction (payments, voids, returns) or in it but without a lock      *)
(* (credit, corrections).  A request is therefore two steps, Read and a    *)
(* write that commits, and `seen` is the database as it read it.           *)
(***************************************************************************)
EXTENDS Integers, FiniteSets, Functions

CONSTANTS
  Request,     \* requests; the invoice or payment a request makes bears its name
  Ops,         \* what a request may ask for, records told apart by `kind`
  Opening,     \* the invoices on the books when the run starts: [ids -> Invoice]
  Customers,
  WalkIn,      \* a sale to nobody in particular
  Same,        \* a correction that leaves the customer as it is
  MaxOpen      \* how many requests may be open together

ASSUME ReceivablesAssumption ==
  /\ WalkIn \in Customers /\ Same \notin Customers
  /\ MaxOpen \in Nat \ {0}
  /\ DOMAIN Opening \cap Request = {} /\ IsFiniteSet(DOMAIN Opening)

VARIABLES
  invoice,   \* [ids -> [customer, lines, total, refunded, at]], lines a sequence of line totals
  payment,   \* [ids -> [customer, amount, on, voided, at]], `on` what it settles of each invoice
  replaces,  \* the payment each correction's payment stands in for
  pc, op, seen,
  overlapped \* two requests have been under way together

db == <<invoice, payment, replaces>>
vars == <<db, pc, op, seen, overlapped>>

Now == [invoice |-> invoice, payment |-> payment]
Nothing == [r \in {} |-> 0]
Ids == Request \cup DOMAIN Opening

\* A function of one argument, and one that says something of r as well.
Only(x, v) == [y \in {x} |-> v]
Also(f, r, v) == [y \in DOMAIN f \cup {r} |-> IF y = r THEN v ELSE f[y]]

Amounts(f) == SumFunction(f)
OnOf(p, i) == IF i \in DOMAIN p.on THEN p.on[i] ELSE 0
Live(s) == {p \in DOMAIN s.payment : ~s.payment[p].voided}
Refunded(s, i) == Amounts(s.invoice[i].refunded)

IsInvoice(v) ==
  /\ DOMAIN v = {"customer", "lines", "total", "refunded", "at"}
  /\ v.customer \in Customers /\ v.total \in Int /\ v.at \in Int
  /\ IsFiniteSet(DOMAIN v.lines) /\ DOMAIN v.refunded = DOMAIN v.lines
  /\ \A l \in DOMAIN v.lines : v.lines[l] \in Nat /\ v.refunded[l] \in Nat

\* The invoices there are to begin with add up.
ASSUME OpeningAssumption ==
  \A i \in DOMAIN Opening :
    /\ IsInvoice(Opening[i]) /\ Opening[i].total = Amounts(Opening[i].lines)
    /\ \A l \in DOMAIN Opening[i].lines : Opening[i].refunded[l] \in {0, Opening[i].lines[l]}

\* What the endpoints let through: whole amounts, and prices that are not negative.
ASSUME OpsAssumption ==
  \A o \in Ops :
    /\ o.kind \in {"pay", "void", "sell", "return", "correct"}
    /\ o.kind = "pay" => /\ o.customer \in Customers /\ o.amount \in Int \ {0}
                         /\ IsFiniteSet(DOMAIN o.named) /\ \A i \in DOMAIN o.named : o.named[i] \in Int
    /\ o.kind = "sell" => /\ o.customer \in Customers /\ o.paid \in Nat /\ o.override \in BOOLEAN
                          /\ IsFiniteSet(DOMAIN o.lines) /\ \A l \in DOMAIN o.lines : o.lines[l] \in Nat
    /\ o.kind = "correct" => /\ o.customer \in Customers \cup {Same}
                             /\ \A l \in DOMAIN o.prices : o.prices[l] \in Nat
    /\ o.kind \in {"return", "correct"} => "invoice" \in DOMAIN o
    /\ o.kind = "void" => "payment" \in DOMAIN o

\* LIVE_ALLOCATIONS and saleBalance: total less what live payments settle less refunds.
Settling(s, i) == [p \in Live(s) |-> OnOf(s.payment[p], i)]
Allocated(s, i) == SumFunction(Settling(s, i))
Balance(s, i) == s.invoice[i].total - Allocated(s, i) - Refunded(s, i)

Magnitude(n) == IF n < 0 THEN -n ELSE n
Sign(n) == IF n > 0 THEN 1 ELSE IF n < 0 THEN -1 ELSE 0
Smaller(a, b) == IF a < b THEN a ELSE b

TypeOK ==
  /\ DOMAIN invoice \subseteq Ids /\ DOMAIN payment \subseteq Request
  /\ \A i \in DOMAIN invoice :
       invoice[i].customer \in Customers /\ invoice[i].total \in Int /\ Refunded(Now, i) \in Nat
  /\ \A p \in DOMAIN payment :
       /\ payment[p].customer \in Customers /\ payment[p].amount \in Int \ {0}
       /\ payment[p].voided \in BOOLEAN /\ DOMAIN payment[p].on \subseteq DOMAIN invoice
  /\ DOMAIN replaces \subseteq DOMAIN payment /\ Range(replaces) \subseteq DOMAIN payment
  /\ pc \in [Request -> {"idle", "read", "done", "refused"}] /\ overlapped \in BOOLEAN

Init ==
  /\ invoice = Opening /\ payment = Nothing /\ replaces = Nothing
  /\ pc = [r \in Request |-> "idle"]
  /\ op = [r \in Request |-> Nothing] /\ seen = [r \in Request |-> Nothing]
  /\ overlapped = FALSE

Read(r) ==
  /\ pc[r] = "idle"
  /\ Cardinality({q \in Request : pc[q] = "read"}) < MaxOpen
  /\ \E o \in Ops :
       /\ "invoice" \in DOMAIN o => o.invoice \in DOMAIN invoice
       /\ "payment" \in DOMAIN o => o.payment \in DOMAIN payment
       /\ op' = [op EXCEPT ![r] = o]
  /\ seen' = [seen EXCEPT ![r] = Now]
  /\ pc' = [pc EXCEPT ![r] = "read"]
  /\ overlapped' = (overlapped \/ \E q \in Request : pc[q] = "read")
  /\ UNCHANGED db

Asks(r, kind) == pc[r] = "read" /\ op[r].kind = kind

\* How a request ends; what it read no longer matters.
End(r, outcome) ==
  /\ pc' = [pc EXCEPT ![r] = outcome]
  /\ seen' = [seen EXCEPT ![r] = Nothing]
  /\ UNCHANGED <<op, overlapped>>

Refuse(r) == End(r, "refused") /\ UNCHANGED db

Pays(customer, amount, on, at) ==
  [customer |-> customer, amount |-> amount, on |-> on, voided |-> FALSE, at |-> at]

-----------------------------------------------------------------------------
(* Plausible bugs, each to stand in for the operator below it is named after. *)

\* A named invoice is taken whoever's account it is on.
ElsewhereUnchecked(s, o) == FALSE

\* A part may be more than its invoice owes.
PlanHoldsUncapped(s, o) ==
  DOMAIN o.named \subseteq DOMAIN s.invoice /\ Magnitude(Amounts(o.named)) <= Magnitude(o.amount)

\* The parts are not added up.
PlanHoldsUnsummed(s, o) ==
  \A i \in DOMAIN o.named : i \in DOMAIN s.invoice /\ Magnitude(o.named[i]) <= Magnitude(Balance(s, i))

\* Paying some of it now is enough to take the rest on credit.
MayTakeCreditPartPaid(s, o) ==
  \/ o.override \/ o.paid > 0
  \/ \A i \in DOMAIN s.invoice : s.invoice[i].customer = o.customer => Balance(s, i) <= 0

\* The whole price of the lines named, in place of the difference they make.
TotalAfterOfNamed(s, o) == IF o.prices = Nothing THEN s.invoice[o.invoice].total ELSE Amounts(o.prices)

\* No customer named is written as such.
CustomerAfterAsNamed(s, o) == o.customer

\* Only a sale that becomes a walk-in's is looked at.
WalkInWouldOweOnMove(s, o) == o.customer = WalkIn /\ Balance(s, o.invoice) > 0

\* Returns do not fix the price.
PriceIsNeverFixed(s, o) == FALSE

\* The void does not ask whether the payment is still live.
FollowedGoneUnasked(r) == FALSE

-----------------------------------------------------------------------------
(* PaymentService.create *)

\* outstandingFor: the invoices a payment may settle, oldest first.
Named(o) == DOMAIN o.named
OfAccount(s, o) == IF Named(o) # {} THEN Named(o) \cap DOMAIN s.invoice
                   ELSE {i \in DOMAIN s.invoice : s.invoice[i].customer = o.customer}
Elsewhere(s, o) == \E i \in OfAccount(s, o) : s.invoice[i].customer # o.customer
Outstanding(s, o) == {i \in OfAccount(s, o) : Balance(s, i) # 0}

\* allocateOldest: each balance of the payment's own sign gets what the older ones
\* leave of it, for as long as anything is left.
AllocateOldest(s, amount, ids) ==
  LET alike == {i \in ids : Sign(Balance(s, i)) = Sign(amount)}
      owed(i) == Magnitude(Balance(s, i))
      older(i) == {j \in alike : s.invoice[j].at < s.invoice[i].at}
      left(i) == Magnitude(amount) - Amounts([j \in older(i) |-> owed(j)])
  IN  [i \in {j \in alike : left(j) > 0} |-> Sign(amount) * Smaller(owed(i), left(i))]

Requested(s, o) == IF Named(o) # {} THEN o.named ELSE AllocateOldest(s, o.amount, Outstanding(s, o))

\* planAllocations: each part runs the payment's way, is no more than its invoice
\* owes, and together they are no more than the payment.
PlanHolds(s, o) ==
  LET on == Requested(s, o)
  IN  /\ DOMAIN on \subseteq Outstanding(s, o)
      /\ \A i \in DOMAIN on :
           /\ on[i] # 0 /\ Sign(on[i]) = Sign(o.amount)
           /\ Sign(on[i]) = Sign(Balance(s, i)) /\ Magnitude(on[i]) <= Magnitude(Balance(s, i))
      /\ Magnitude(Amounts(on)) <= Magnitude(o.amount)

Pay(r) ==
  /\ Asks(r, "pay")
  /\ LET s == seen[r]
         o == op[r]
     IN  IF Elsewhere(s, o) \/ ~PlanHolds(s, o) THEN Refuse(r)
         ELSE /\ payment' = Also(payment, r, Pays(o.customer, o.amount, Requested(s, o),
                                                  Cardinality(DOMAIN payment)))
              /\ End(r, "done")
              /\ UNCHANGED <<invoice, replaces>>

\* voidPayment: not one that was read as voided already.
Void(r) ==
  /\ Asks(r, "void")
  /\ IF seen[r].payment[op[r].payment].voided THEN Refuse(r)
     ELSE /\ payment' = [payment EXCEPT ![op[r].payment].voided = TRUE]
          /\ End(r, "done")
          /\ UNCHANGED <<invoice, replaces>>

-----------------------------------------------------------------------------
(* SaleService.create, the money of it *)

\* assertMayTakeCredit: nothing may be owed already, unless overridden.
Owes(s, customer) == \E i \in DOMAIN s.invoice : s.invoice[i].customer = customer /\ Balance(s, i) > 0
MayTakeCredit(s, o) == o.override \/ ~Owes(s, o.customer)

Sell(r) ==
  /\ Asks(r, "sell")
  /\ LET s == seen[r]
         o == op[r]
         total == Amounts(o.lines)
     IN  IF \/ o.paid > total
            \/ o.paid < total /\ (o.customer = WalkIn \/ ~MayTakeCredit(s, o))
         THEN Refuse(r)
         ELSE /\ invoice' = Also(invoice, r, [customer |-> o.customer, lines |-> o.lines, total |-> total,
                                              refunded |-> [l \in DOMAIN o.lines |-> 0],
                                              at |-> Cardinality(DOMAIN invoice)])
              /\ payment' = IF o.paid = 0 THEN payment
                            ELSE Also(payment, r, Pays(o.customer, o.paid, Only(r, o.paid),
                                                       Cardinality(DOMAIN payment)))
              /\ End(r, "done")
              /\ UNCHANGED replaces

\* SaleReturnService.create for a whole line: what it was charged, as read before
\* the transaction, is credited.
Return(r) ==
  /\ Asks(r, "return")
  /\ LET i == op[r].invoice
         l == op[r].line
         s == seen[r].invoice[i]
     IN  IF s.refunded[l] > 0 THEN Refuse(r)
         ELSE /\ invoice' = [invoice EXCEPT ![i].refunded[l] = @ + s.lines[l]]
              /\ End(r, "done")
              /\ UNCHANGED <<payment, replaces>>

-----------------------------------------------------------------------------
(* SaleCorrectionService.correct *)

OnSale(s, i) == {p \in DOMAIN s.payment : i \in DOMAIN s.payment[p].on}
SettlesOther(s, p, i) == DOMAIN s.payment[p].on \ {i} # {}

\* latestOwn: the most recent live payment in that went wholly to this sale.
Own(s, i) == {p \in OnSale(s, i) \cap Live(s) : ~SettlesOther(s, p, i) /\ s.payment[p].amount > 0}
Latest(s, ps) == CHOOSE p \in ps : \A q \in ps : s.payment[q].at <= s.payment[p].at

\* planSaleCorrection: the lines at the prices really charged, and who it really was.
LinesAfter(s, o) ==
  LET lines == s.invoice[o.invoice].lines
  IN  [l \in DOMAIN lines |-> IF l \in DOMAIN o.prices THEN o.prices[l] ELSE lines[l]]

Repriced(s, o) == {l \in DOMAIN o.prices : o.prices[l] # s.invoice[o.invoice].lines[l]}
TotalAfter(s, o) ==
  s.invoice[o.invoice].total + Amounts(LinesAfter(s, o)) - Amounts(s.invoice[o.invoice].lines)
CustomerAfter(s, o) == IF o.customer = Same THEN s.invoice[o.invoice].customer ELSE o.customer
CustomerChanged(s, o) == CustomerAfter(s, o) # s.invoice[o.invoice].customer

\* A payment that would now be too much is brought down, if one alone can be ...
Excess(s, o) == Allocated(s, o.invoice) - TotalAfter(s, o)
Enough(s, o) == {p \in Own(s, o.invoice) : s.payment[p].on[o.invoice] >= Excess(s, o)}

\* ... and a sale that was paid in full has its payment raised with it.
Shortfall(s, o) ==
  TotalAfter(s, o) - Smaller(Allocated(s, o.invoice), TotalAfter(s, o)) - Refunded(s, o.invoice)
Raised(s, o) ==
  /\ Balance(s, o.invoice) <= 0 /\ Allocated(s, o.invoice) > 0
  /\ Shortfall(s, o) > 0 /\ Own(s, o.invoice) # {}

\* The payment to void and the amount of the one recorded in its place, if any.
Follows(s, o) ==
  IF Raised(s, o) THEN LET p == Latest(s, Own(s, o.invoice)) IN Only(p, s.payment[p].amount + Shortfall(s, o))
  ELSE IF Excess(s, o) > 0 THEN LET p == Latest(s, Enough(s, o)) IN Only(p, s.payment[p].amount - Excess(s, o))
  ELSE Nothing

OwedAfter(s, o) == IF Raised(s, o) THEN 0 ELSE Shortfall(s, o)
WalkInWouldOwe(s, o) == CustomerAfter(s, o) = WalkIn /\ OwedAfter(s, o) > 0

\* Returns were worked out from the old prices.
PriceIsFixed(s, o) == Repriced(s, o) # {} /\ Refunded(s, o.invoice) > 0

Refuses(s, o) ==
  \/ Repriced(s, o) = {} /\ ~CustomerChanged(s, o)
  \/ PriceIsFixed(s, o) \/ WalkInWouldOwe(s, o)
  \/ Excess(s, o) > 0 /\ Enough(s, o) = {}
  \/ CustomerChanged(s, o) /\ \E p \in OnSale(s, o.invoice) \cap Live(s) : SettlesOther(s, p, o.invoice)

\* With a new customer the sale's own payments move along.
MoveAlong(s, o) == {p \in OnSale(s, o.invoice) : CustomerChanged(s, o) /\ ~SettlesOther(s, p, o.invoice)}

\* updateMany where voidedAt is null: the payment to follow was voided meanwhile.
FollowedGone(r) == \E p \in DOMAIN Follows(seen[r], op[r]) : payment[p].voided

\* The payments as the correction leaves them: the followed one voided and another
\* recorded for all of its new amount on this sale, and those that move along moved.
PaymentsAfter(r) ==
  LET s == seen[r]
      o == op[r]
      follows == Follows(s, o)
      left == [p \in DOMAIN payment |->
                 [payment[p] EXCEPT !.voided = @ \/ p \in DOMAIN follows,
                                    !.customer = IF p \in MoveAlong(s, o) THEN CustomerAfter(s, o) ELSE @]]
      recorded == {p \in DOMAIN follows : follows[p] > 0}
  IN  IF recorded = {} THEN left
      ELSE LET p == CHOOSE p \in recorded : TRUE
           IN  Also(left, r, Pays(CustomerAfter(s, o), follows[p], Only(o.invoice, follows[p]),
                                  payment[p].at))

\* The lines named are written at the prices planned, the others stay as they are.
LinesWritten(s, o) ==
  [l \in DOMAIN invoice[o.invoice].lines |->
     IF l \in Repriced(s, o) THEN o.prices[l] ELSE invoice[o.invoice].lines[l]]

\* Everything is written as planned from what was read.
Correct(r) ==
  /\ Asks(r, "correct")
  /\ LET s == seen[r]
         o == op[r]
     IN  IF Refuses(s, o) \/ FollowedGone(r) THEN Refuse(r)
         ELSE /\ invoice' = [invoice EXCEPT
                   ![o.invoice] = [@ EXCEPT !.total = TotalAfter(s, o), !.customer = CustomerAfter(s, o),
                                     !.lines = LinesWritten(s, o)]]
              /\ payment' = PaymentsAfter(r)
              /\ replaces' = IF r \notin DOMAIN payment' THEN replaces
                             ELSE Also(replaces, r, CHOOSE p \in DOMAIN Follows(s, o) : TRUE)
              /\ End(r, "done")

-----------------------------------------------------------------------------
Next == \E r \in Request : Read(r) \/ Pay(r) \/ Void(r) \/ Sell(r) \/ Return(r) \/ Correct(r)

Spec == Init /\ [][Next]_vars

-----------------------------------------------------------------------------
(* What the books promise. *)

\* A payment settles no more than it brought, and only its own way.
PaymentNotOverspent ==
  \A p \in DOMAIN payment :
    /\ Magnitude(Amounts(payment[p].on)) <= Magnitude(payment[p].amount)
    /\ \A i \in DOMAIN payment[p].on : Sign(payment[p].on[i]) = Sign(payment[p].amount)

\* One payment is put right at most once: nobody's cash in hand gains twice.
ReplacedOnce ==
  /\ \A q, p \in DOMAIN replaces : replaces[q] = replaces[p] => q = p
  /\ \A q \in DOMAIN replaces : payment[replaces[q]].voided

-----------------------------------------------------------------------------
(* What they promise while requests do not overlap: every race these lose is *)
(* one between what a request read and what another wrote meanwhile.         *)

\* A live payment settles invoices of its own account only.
OwnAccountOnly ==
  overlapped \/ \A p \in Live(Now) : \A i \in DOMAIN payment[p].on :
                   invoice[i].customer = payment[p].customer

\* The total of an invoice is the sum of its lines.
TotalIsItsLines ==
  overlapped \/ \A i \in DOMAIN invoice : invoice[i].total = Amounts(invoice[i].lines)

\* A payment settles a debt, or hands money back; it never turns one into the other.
NeverOverAllocated ==
  ~overlapped =>
    \A r \in Request : Asks(r, "pay") /\ pc'[r] = "done" => \A i \in DOMAIN invoice :
      Balance(Now, i)' = 0 \/ Sign(Balance(Now, i)') = Sign(Balance(Now, i))

\* Nobody who still owes is given more on credit without the override.
CreditRule ==
  ~overlapped =>
    \A r \in Request : Asks(r, "sell") /\ pc'[r] = "done" /\ ~op[r].override
      /\ op[r].paid < Amounts(op[r].lines) => ~Owes(Now, op[r].customer)

\* A refund is what was charged: what has come back on a line is its whole price.
RefundAgreesWithPrice ==
  overlapped \/ \A i \in DOMAIN invoice : \A l \in DOMAIN invoice[i].lines :
                   invoice[i].refunded[l] \in {0, invoice[i].lines[l]}

Corrected(r) == Asks(r, "correct") /\ pc'[r] = "done"

\* No correction leaves a walk-in's sale owing.
WalkInNeverOwes ==
  ~overlapped =>
    \A r \in Request : Corrected(r) /\ invoice'[op[r].invoice].customer = WalkIn
      => Balance(Now, op[r].invoice)' <= 0

\* A correction leaves a sale that was paid in full paid in full.
PaidInFullStaysSo ==
  [][\A r \in Request : Corrected(r) /\ Balance(Now, op[r].invoice) = 0 /\ Allocated(Now, op[r].invoice) > 0
       /\ Own(Now, op[r].invoice) # {} => Balance(Now, op[r].invoice)' = 0]_vars

\* Money received is spent once, one way, and on its own account.
MoneySettlesOnce == PaymentNotOverspent /\ ReplacedOnce /\ OwnAccountOnly

\* An invoice is the sum of its lines, and its refunds are of those lines.
InvoiceAddsUp == TotalIsItsLines /\ RefundAgreesWithPrice

\* No step turns a debt into a credit, or lets anybody owe whom the rules do not.
OwingAsAllowed ==
  [][NeverOverAllocated /\ CreditRule /\ WalkInNeverOwes]_vars
=============================================================================
