------------------------------ MODULE Payables ------------------------------
(***************************************************************************)
(* What the business owes its vendors: bills, the payments made on them    *)
(* and the rebates credited off them, as SupplierBillService,              *)
(* SupplierPaymentService and VendorRebateService keep them.               *)
(*                                                                         *)
(* Every handler looks at the rows, refuses or not, and then writes one    *)
(* row.  Whether the look is inside the write's transaction makes no       *)
(* difference at READ COMMITTED: it takes no lock, so other requests may   *)
(* write between the two.                                                  *)
(***************************************************************************)
EXTENDS Integers, FiniteSets, Functions

CONSTANTS
  Requests,     \* calls of the API
  Asks,         \* what they may ask for, see the Permitted operators
  Bills,
  Rebates,      \* one for each vendor and month: the unique constraint
  OldPayments,  \* payments there from the start; a request makes at most one
  Vendors,
  VendorOf,     \* [Rebates -> Vendors]
  OpeningBooks, \* the books a behaviour may start with
  None

Payments == Requests \cup OldPayments
BookKinds == {"enter", "edit", "remove", "pay", "void",
              "expect", "reestimate", "drop", "credit", "uncredit"}

ASSUME PayablesAssumption ==
  /\ None \notin Bills \cup Vendors \cup Requests
  /\ Requests \cap OldPayments = {}
  /\ VendorOf \in [Rebates -> Vendors]
  /\ IsFiniteSet(Payments) /\ IsFiniteSet(Rebates) /\ IsFiniteSet(Bills)

VARIABLES
  bill,        \* supplier_bills
  payment,     \* supplier_payments; None where there is no row
  rebate,      \* vendor_rebates
  pc, ask,     \* where each request is and what it asks
  overlapped   \* two requests have been under way together

books == <<bill, payment, rebate>>
payablesVars == <<books, pc, ask, overlapped>>

BillRows == [state : {"none", "live", "removed"}, vendor : Vendors \cup {None}, due : Nat]
PaymentRows == [bill : Bills, amount : Nat \ {0}, live : BOOLEAN]
RebateRows == [state : {"none", "expected", "credited"}, bill : Bills \cup {None},
               expected : Nat, credited : Nat]

ASSUME RowsAssumption == None \notin PaymentRows

\* The books there are to begin with: what was paid is on live bills and within
\* them, and what was credited is on its vendor's own.
ASSUME OpeningBooksAssumption ==
  \A start \in OpeningBooks :
    /\ start.bill \in [Bills -> BillRows] /\ start.rebate \in [Rebates -> RebateRows]
    /\ start.payment \in [Payments -> PaymentRows \cup {None}]
    /\ \A r \in Requests : start.payment[r] = None
    /\ \A p \in OldPayments : start.payment[p] # None /\ start.payment[p].live =>
                                start.bill[start.payment[p].bill].state = "live"
    /\ \A b \in Bills : start.bill[b].state = "live" =>
         LET on == {p \in Payments : /\ start.payment[p] # None /\ start.payment[p].bill = b
                                     /\ start.payment[p].live}
         IN  SumFunction([p \in on |-> start.payment[p].amount]) <= start.bill[b].due
    /\ \A x \in Rebates :
         LET row == start.rebate[x]
         IN  IF row.state = "credited"
             THEN /\ row.bill \in Bills /\ start.bill[row.bill].state # "none"
                  /\ start.bill[row.bill].vendor = VendorOf[x]
             ELSE row.bill = None /\ row.credited = 0

\* What the endpoints let through: sums that are not negative, and a payment is of something.
ASSUME BookAsksAssumption ==
  \A a \in Asks :
    /\ a.kind \in {"enter", "edit", "remove", "pay", "credit"} => a.bill \in Bills
    /\ a.kind \in {"enter", "edit", "expect", "reestimate", "credit"} => a.amount \in Nat
    /\ a.kind = "pay" => a.amount \in Nat \ {0}
    /\ a.kind = "enter" => a.vendor \in Vendors
    /\ a.kind = "void" => a.payment \in Payments
    /\ a.kind \in {"expect", "reestimate", "drop", "credit", "uncredit"} => a.rebate \in Rebates

BooksOK ==
  /\ bill \in [Bills -> BillRows]
  /\ payment \in [Payments -> PaymentRows \cup {None}]
  /\ rebate \in [Rebates -> RebateRows]
  /\ pc \in [Requests -> {"idle", "write", "done", "refused"}]
  /\ ask \in [Requests -> Asks \cup {None}]
  /\ overlapped \in BOOLEAN

BooksInit ==
  /\ \E start \in OpeningBooks :
       bill = start.bill /\ payment = start.payment /\ rebate = start.rebate
  /\ pc = [r \in Requests |-> "idle"] /\ ask = [r \in Requests |-> None]
  /\ overlapped = FALSE

-----------------------------------------------------------------------------
(* billBalance: one rule for what a bill still owes. *)

NoRebate == [state |-> "none", bill |-> None, expected |-> 0, credited |-> 0]

\* A plausible bug: voided payments are left in the sum.
AnyPayments(b) == {p \in Payments : payment[p] # None /\ payment[p].bill = b}

LivePayments(b) ==
  {p \in Payments : payment[p] # None /\ payment[p].bill = b /\ payment[p].live}
AmountOf(p) == IF payment[p] = None THEN 0 ELSE payment[p].amount
CreditedOn(b) == {x \in Rebates : rebate[x].bill = b}
Paid(b) == SumFunction([p \in LivePayments(b) |-> AmountOf(p)])
Rebated(b) == SumFunction([x \in CreditedOn(b) |-> rebate[x].credited])
Balance(b) == bill[b].due - Paid(b) - Rebated(b)
LiveBill(b) == bill[b].state = "live"

\* PayableService.outstanding and statement: what a vendor's page adds up.
BillsOf(v) == {b \in Bills : LiveBill(b) /\ bill[b].vendor = v}
TotalDue(v) == SumFunction([b \in BillsOf(v) |-> bill[b].due])
TotalOwed(v) == SumFunction([b \in {b \in BillsOf(v) : Balance(b) # 0} |-> Balance(b)])
PaidTo(v) == {p \in Payments : payment[p] # None /\ payment[p].live /\ bill[payment[p].bill].vendor = v}
TotalPaid(v) == SumFunction([p \in PaidTo(v) |-> AmountOf(p)])
CreditedBy(v) == {x \in Rebates : rebate[x].state = "credited" /\ VendorOf[x] = v}
TotalRebated(v) == SumFunction([x \in CreditedBy(v) |-> rebate[x].credited])

-----------------------------------------------------------------------------
(* Plausible bugs, each to stand in for the operator below it is named after. *)

\* A payment is checked against the bill's amount, not against what is left.
MayPayUpToTheAmount(a) == LiveBill(a.bill) /\ a.amount <= bill[a.bill].due

\* A credit may be put on a second bill.
MayCreditAgain(a) ==
  /\ rebate[a.rebate].state # "none"
  /\ LiveBill(a.bill) /\ bill[a.bill].vendor = VendorOf[a.rebate]
  /\ a.amount <= Balance(a.bill)

\* A bill is removed without a look at its payments.
MayRemoveAny(a) == LiveBill(a.bill)

\* A bill's amount is corrected to anything.
MayEditAny(a) == LiveBill(a.bill)

-----------------------------------------------------------------------------
(* What each handler reads, and when it refuses. *)

\* SupplierBillService.update: never below what was paid.
MayEdit(a) == LiveBill(a.bill) /\ a.amount >= Paid(a.bill)

\* SupplierBillService.remove: not once something was paid.
MayRemove(a) == LiveBill(a.bill) /\ LivePayments(a.bill) = {}

\* SupplierPaymentService.create: balanceOf in the transaction.
MayPay(a) == LiveBill(a.bill) /\ a.amount <= Balance(a.bill)

MayVoid(a) == payment[a.payment] # None /\ payment[a.payment].live

\* VendorRebateService.credit: still expected, the vendor's own bill, and no more
\* than the bill owes.
MayCredit(a) ==
  /\ rebate[a.rebate].state = "expected"
  /\ LiveBill(a.bill) /\ bill[a.bill].vendor = VendorOf[a.rebate]
  /\ a.amount <= Balance(a.bill)

Permitted(a) ==
  \/ a.kind = "enter" \/ a.kind = "expect"
  \/ a.kind = "edit" /\ MayEdit(a)
  \/ a.kind = "remove" /\ MayRemove(a)
  \/ a.kind = "pay" /\ MayPay(a)
  \/ a.kind = "void" /\ MayVoid(a)
  \/ a.kind \in {"reestimate", "drop"} /\ rebate[a.rebate].state = "expected"
  \/ a.kind = "credit" /\ MayCredit(a)
  \/ a.kind = "uncredit" /\ rebate[a.rebate].state = "credited"

\* A request that is refused, carried out, or to be carried out, from what is read now.
Begin(r, a, next) ==
  /\ pc[r] = "idle"
  /\ ask' = [ask EXCEPT ![r] = a]
  /\ pc' = [pc EXCEPT ![r] = next]
  /\ overlapped' = (overlapped \/ \E s \in Requests : pc[s] = "write")

ReadBooks(r, a) ==
  /\ a.kind \in BookKinds
  /\ Begin(r, a, IF Permitted(a) THEN "write" ELSE "refused")
  /\ UNCHANGED books

-----------------------------------------------------------------------------
(* The writes. *)

Writes(r, kind) == pc[r] = "write" /\ ask[r].kind = kind
End(r, how) == pc' = [pc EXCEPT ![r] = how] /\ UNCHANGED <<ask, overlapped>>

\* A row with the caller's id may be there already: a unique violation.
Enter(r) ==
  /\ Writes(r, "enter")
  /\ LET a == ask[r]
     IN  IF bill[a.bill].state # "none" THEN End(r, "refused") /\ UNCHANGED books
         ELSE /\ bill' = [bill EXCEPT ![a.bill] =
                            [state |-> "live", vendor |-> a.vendor, due |-> a.amount]]
              /\ End(r, "done")
              /\ UNCHANGED <<payment, rebate>>

Edit(r) ==
  /\ Writes(r, "edit")
  /\ bill' = [bill EXCEPT ![ask[r].bill].due = ask[r].amount]
  /\ End(r, "done")
  /\ UNCHANGED <<payment, rebate>>

Remove(r) ==
  /\ Writes(r, "remove")
  /\ bill' = [bill EXCEPT ![ask[r].bill].state = "removed"]
  /\ End(r, "done")
  /\ UNCHANGED <<payment, rebate>>

Pay(r) ==
  /\ Writes(r, "pay")
  /\ payment' = [payment EXCEPT ![r] =
                   [bill |-> ask[r].bill, amount |-> ask[r].amount, live |-> TRUE]]
  /\ End(r, "done")
  /\ UNCHANGED <<bill, rebate>>

Void(r) ==
  /\ Writes(r, "void")
  /\ payment' = [payment EXCEPT ![ask[r].payment].live = FALSE]
  /\ End(r, "done")
  /\ UNCHANGED <<bill, rebate>>

Expect(r) ==
  /\ Writes(r, "expect")
  /\ LET a == ask[r]
     IN  IF rebate[a.rebate].state # "none" THEN End(r, "refused") /\ UNCHANGED books
         ELSE /\ rebate' = [rebate EXCEPT ![a.rebate].state = "expected",
                                          ![a.rebate].expected = a.amount]
              /\ End(r, "done")
              /\ UNCHANGED <<bill, payment>>

\* The other writes of a rebate update or delete a row that may be gone by now.
OnRebate(r, kind, row) ==
  /\ Writes(r, kind)
  /\ IF rebate[ask[r].rebate].state = "none" THEN End(r, "refused") /\ UNCHANGED books
     ELSE /\ rebate' = [rebate EXCEPT ![ask[r].rebate] = row]
          /\ End(r, "done")
          /\ UNCHANGED <<bill, payment>>

Row(r) == rebate[ask[r].rebate]
Reestimate(r) == OnRebate(r, "reestimate", [Row(r) EXCEPT !.expected = ask[r].amount])
Drop(r) == OnRebate(r, "drop", NoRebate)
Credit(r) ==
  OnRebate(r, "credit", [Row(r) EXCEPT !.state = "credited", !.bill = ask[r].bill,
                                       !.credited = ask[r].amount])
Uncredit(r) ==
  OnRebate(r, "uncredit", [Row(r) EXCEPT !.state = "expected", !.bill = None, !.credited = 0])

WriteBooks(r) ==
  \/ Enter(r) \/ Edit(r) \/ Remove(r) \/ Pay(r) \/ Void(r)
  \/ Expect(r) \/ Reestimate(r) \/ Drop(r) \/ Credit(r) \/ Uncredit(r)

BooksNext == \E r \in Requests : WriteBooks(r) \/ \E a \in Asks : ReadBooks(r, a)

-----------------------------------------------------------------------------
(* What payables promise. *)

\* The payments made on a bill never come to more than the bill: not by paying,
\* editing its amount, or correcting its delivery.
PaidWithinDue == overlapped \/ \A b \in Bills : LiveBill(b) => Paid(b) <= bill[b].due

Editing(b) == \E r \in Requests : Writes(r, "edit") /\ ask[r].bill = b /\ pc'[r] = "done"

\* Nothing but an edit of its amount takes a bill below what was paid and
\* credited: no payment, no credit, no voiding in any order.
OnlyAnEditUndercuts ==
  ~overlapped' => \A b \in Bills :
    LiveBill(b)' /\ Balance(b)' < 0 => Balance(b) < 0 \/ Editing(b)

\* A credit stays on its bill until it is taken off it.
CreditStays ==
  ~overlapped' => \A x \in Rebates :
    rebate[x].bill # None => rebate'[x].bill \in {None, rebate[x].bill}

\* No payment that counts is on a bill that was removed, or never entered.
SettledBillIsThere ==
  \/ overlapped
  \/ \A p \in Payments :
       payment[p] # None /\ payment[p].live => LiveBill(payment[p].bill)

\* A vendor's statement adds up: what its bills came to is what was paid, what was
\* credited and what is owed - as long as no bill with a credit on it was removed.
StatementAddsUp ==
  \/ overlapped
  \/ \E x \in Rebates : rebate[x].bill # None /\ ~LiveBill(rebate[x].bill)
  \/ \A v \in Vendors : TotalDue(v) = TotalOwed(v) + TotalPaid(v) + TotalRebated(v)

\* A vendor's account adds up: what was paid is within what was billed, on bills
\* that are there, and the three totals come to it.
AccountAddsUp == PaidWithinDue /\ SettledBillIsThere /\ StatementAddsUp

\* What was credited holds, and only an edit takes a bill below what settled it.
CreditsHold == [][OnlyAnEditUndercuts /\ CreditStays]_payablesVars
=============================================================================
