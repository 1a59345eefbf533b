--------------------------- MODULE PurchasingProofs ---------------------------
(***************************************************************************)
(* What holds of what the business owes its vendors and of what they       *)
(* brought, for any number of requests, bills, payments, rebates and       *)
(* deliveries in any order: a vendor's account adds up, what was credited  *)
(* holds, a delivery fee is shared out fairly, and bills, lots and costs   *)
(* go by the goods.                                                        *)
(***************************************************************************)
EXTENDS Deliveries, SumLemmas, FiniteSetTheorems, SequenceTheorems, FunctionTheorems, TLAPS

-----------------------------------------------------------------------------
(* The books as rows B of bills, P of payments and R of rebates.           *)

PaidShare(P, b) ==
  [p \in Payments |-> IF P[p] # None /\ P[p].bill = b /\ P[p].live THEN P[p].amount ELSE 0]
PaidOn(P, b) == SumFunctionOnSet(PaidShare(P, b), Payments)
CreditShare(R, b) == [x \in Rebates |-> IF R[x].bill = b THEN R[x].credited ELSE 0]
CreditOn(R, b) == SumFunctionOnSet(CreditShare(R, b), Rebates)
Owes(B, P, R, b) == B[b].due - PaidOn(P, b) - CreditOn(R, b)

\* Two lots of rows differ in one row at most.
DifferAt(f, g, S, x) == \A y \in S \ {x} : g[y] = f[y]

\* Nothing was paid or credited on it.
Untouched(B, P, R, b) == Owes(B, P, R, b) = B[b].due

RowsOK(B, P, R) ==
  /\ B \in [Bills -> BillRows]
  /\ P \in [Payments -> PaymentRows \cup {None}]
  /\ R \in [Rebates -> RebateRows]

\* Nothing counts on a bill that is not live, and no more than it came to.
WithinDue(B, P) == \A b \in Bills : B[b].state = "live" => PaidOn(P, b) <= B[b].due
OnLiveBills(B, P) ==
  \A p \in Payments : P[p] # None /\ P[p].live => B[P[p].bill].state = "live"

\* A credit is on a bill of its vendor's, and what is not credited is on none.
CreditedRow(B, x, row) ==
  IF row.state = "credited"
  THEN row.bill \in Bills /\ B[row.bill].state # "none" /\ B[row.bill].vendor = VendorOf[x]
  ELSE row.bill = None /\ row.credited = 0
CreditsPlaced(B, R) == \A x \in Rebates : CreditedRow(B, x, R[x])

Sound(B, P, R) == RowsOK(B, P, R) /\ WithinDue(B, P) /\ OnLiveBills(B, P) /\ CreditsPlaced(B, R)

\* From one set of books to the next: what an edit alone may do, and where credits go.
Undercut(B, P, R, C, Q, S, b) ==
  C[b].state = "live" /\ Owes(C, Q, S, b) < 0 => Owes(B, P, R, b) < 0
NoneUndercut(B, P, R, C, Q, S) == \A b \in Bills : Undercut(B, P, R, C, Q, S, b)
CreditsStay(R, S) == \A x \in Rebates : R[x].bill # None => S[x].bill \in {None, R[x].bill}

-----------------------------------------------------------------------------
(* The sums. *)

LEMMA PaidIs ==
  ASSUME NEW P \in [Payments -> PaymentRows \cup {None}], NEW b
  PROVE  /\ \A p \in Payments : PaidShare(P, b)[p] \in Nat
         /\ PaidOn(P, b) \in Nat
         /\ \A p \in Payments : PaidShare(P, b)[p] <= PaidOn(P, b)
<1>1. \A p \in Payments : PaidShare(P, b)[p] \in Nat
  BY DEF PaidShare, PaymentRows
<1> QED
  BY <1>1, PayablesAssumption, SumIsMost DEF PaidOn

LEMMA CreditIs ==
  ASSUME NEW R \in [Rebates -> RebateRows], NEW b
  PROVE  /\ \A x \in Rebates : CreditShare(R, b)[x] \in Nat
         /\ CreditOn(R, b) \in Nat
<1>1. \A x \in Rebates : CreditShare(R, b)[x] \in Nat
  BY DEF CreditShare, RebateRows
<1> QED
  BY <1>1, PayablesAssumption, SumIsMost DEF CreditOn

\* Where one row changes, the sums change by as much.
PaidDiffers(P, Q, r, d) == PaidOn(Q, d) = PaidOn(P, d) + (PaidShare(Q, d)[r] - PaidShare(P, d)[r])
CreditDiffers(R, S, x, d) ==
  CreditOn(S, d) = CreditOn(R, d) + (CreditShare(S, d)[x] - CreditShare(R, d)[x])

LEMMA PaidChanges ==
  ASSUME NEW P \in [Payments -> PaymentRows \cup {None}],
         NEW Q \in [Payments -> PaymentRows \cup {None}],
         NEW r \in Payments, DifferAt(P, Q, Payments, r), NEW d
  PROVE  PaidDiffers(P, Q, r, d)
<1> DEFINE h == PaidShare(P, d)
           g == PaidShare(Q, d)
<1>1. \A p \in Payments : h[p] \in Int /\ g[p] \in Int
  BY PaidIs
<1>2. \A p \in Payments \ {r} : g[p] = h[p]
  BY DEF PaidShare, DifferAt
<1>3. SumFunctionOnSet(g, Payments) = SumFunctionOnSet(h, Payments) + (g[r] - h[r])
  <2> HIDE DEF h, g
  <2> QED
    BY <1>1, <1>2, PayablesAssumption, SumChanges
<1> QED
  BY <1>3 DEF PaidOn, PaidDiffers

LEMMA CreditChanges ==
  ASSUME NEW R \in [Rebates -> RebateRows], NEW S \in [Rebates -> RebateRows],
         NEW x \in Rebates, DifferAt(R, S, Rebates, x), NEW d
  PROVE  CreditDiffers(R, S, x, d)
<1> DEFINE h == CreditShare(R, d)
           g == CreditShare(S, d)
<1>1. \A y \in Rebates : h[y] \in Int /\ g[y] \in Int
  BY CreditIs
<1>2. \A y \in Rebates \ {x} : g[y] = h[y]
  BY DEF CreditShare, DifferAt
<1>3. SumFunctionOnSet(g, Rebates) = SumFunctionOnSet(h, Rebates) + (g[x] - h[x])
  <2> HIDE DEF h, g
  <2> QED
    BY <1>1, <1>2, PayablesAssumption, SumChanges
<1> QED
  BY <1>3 DEF CreditOn, CreditDiffers

\* What a bill's rows add up to is what the handlers read.
LEMMA PaidAsRead ==
  ASSUME NEW P \in [Payments -> PaymentRows \cup {None}], NEW b
  PROVE  SumFunction([p \in {p \in Payments : P[p] # None /\ P[p].bill = b /\ P[p].live} |->
                        IF P[p] = None THEN 0 ELSE P[p].amount]) = PaidOn(P, b)
<1> DEFINE T == {p \in Payments : P[p] # None /\ P[p].bill = b /\ P[p].live}
           h == [p \in T |-> IF P[p] = None THEN 0 ELSE P[p].amount]
<1>1. T \subseteq Payments /\ DOMAIN h = T /\ \A p \in T : h[p] \in Int
  BY DEF PaymentRows
<1>2. \A p \in Payments : PaidShare(P, b)[p] = IF p \in T THEN h[p] ELSE 0
  BY DEF PaidShare
<1>3. SumFunctionOnSet(h, T) = PaidOn(P, b)
  <2> HIDE DEF h, T
  <2> QED
    BY <1>1, <1>2, PayablesAssumption, SumOfSome DEF PaidOn
<1>4. SumFunction(h) = SumFunctionOnSet(h, T)
  BY <1>1 DEF SumFunction
<1> QED
  BY <1>3, <1>4

LEMMA CreditAsRead ==
  ASSUME NEW R \in [Rebates -> RebateRows], NEW b
  PROVE  SumFunction([x \in {x \in Rebates : R[x].bill = b} |-> R[x].credited]) = CreditOn(R, b)
<1> DEFINE T == {x \in Rebates : R[x].bill = b}
           h == [x \in T |-> R[x].credited]
<1>1. T \subseteq Rebates /\ DOMAIN h = T /\ \A x \in T : h[x] \in Int
  BY DEF RebateRows
<1>2. \A x \in Rebates : CreditShare(R, b)[x] = IF x \in T THEN h[x] ELSE 0
  BY DEF CreditShare
<1>3. SumFunctionOnSet(h, T) = CreditOn(R, b)
  <2> HIDE DEF h, T
  <2> QED
    BY <1>1, <1>2, PayablesAssumption, SumOfSome DEF CreditOn
<1>4. SumFunction(h) = SumFunctionOnSet(h, T)
  BY <1>1 DEF SumFunction
<1> QED
  BY <1>3, <1>4

\* The balance a handler reads, and the one there is after a step.
LEMMA ReadNow ==
  ASSUME RowsOK(bill, payment, rebate)
  PROVE  \A b \in Bills : /\ Paid(b) = PaidOn(payment, b) /\ Rebated(b) = CreditOn(rebate, b)
                          /\ Balance(b) = Owes(bill, payment, rebate, b)
<1> SUFFICES ASSUME NEW b \in Bills
             PROVE  Paid(b) = PaidOn(payment, b) /\ Rebated(b) = CreditOn(rebate, b)
  BY DEF Balance, Owes
<1>1. Paid(b) = PaidOn(payment, b)
  BY PaidAsRead DEF RowsOK, Paid, LivePayments, AmountOf
<1>2. Rebated(b) = CreditOn(rebate, b)
  BY CreditAsRead DEF RowsOK, Rebated, CreditedOn
<1> QED
  BY <1>1, <1>2

LEMMA ReadNext ==
  ASSUME RowsOK(bill', payment', rebate')
  PROVE  \A b \in Bills : Balance(b)' = Owes(bill', payment', rebate', b)
<1> SUFFICES ASSUME NEW b \in Bills
             PROVE  Balance(b)' = Owes(bill', payment', rebate', b)
  OBVIOUS
<1>1. Paid(b)' = PaidOn(payment', b)
  BY PaidAsRead DEF RowsOK, Paid, LivePayments, AmountOf
<1>2. Rebated(b)' = CreditOn(rebate', b)
  BY CreditAsRead DEF RowsOK, Rebated, CreditedOn
<1> QED
  BY <1>1, <1>2 DEF Balance, Owes

-----------------------------------------------------------------------------
(* What each write does to sound books. *)

\* A bill that was never entered has nothing on it: it may be put there.
LEMMA BillIsPut ==
  ASSUME NEW B, NEW P, NEW R, Sound(B, P, R), NEW b \in Bills, B[b].state = "none",
         NEW row \in BillRows, row.state = "live",
         NEW C, C = [B EXCEPT ![b] = row]
  PROVE  /\ Sound(C, P, R) /\ NoneUndercut(B, P, R, C, P, R)
         /\ Untouched(C, P, R, b)
<1>1. C \in [Bills -> BillRows] /\ C[b] = row /\ \A d \in Bills \ {b} : C[d] = B[d]
  BY DEF Sound, RowsOK
<1>2. PaidOn(P, b) = 0
  <2>1. \A p \in Payments : PaidShare(P, b)[p] = 0
    BY DEF Sound, OnLiveBills, PaidShare
  <2> QED
    BY <2>1, PayablesAssumption, SumOfZeros DEF PaidOn
<1>3. CreditOn(R, b) = 0
  <2>1. \A x \in Rebates : R[x].bill # b
    BY PayablesAssumption DEF Sound, CreditsPlaced, CreditedRow
  <2>2. \A x \in Rebates : CreditShare(R, b)[x] = 0
    BY <2>1 DEF CreditShare
  <2> QED
    BY <2>2, PayablesAssumption, SumOfZeros DEF CreditOn
<1>4. row.due \in Nat /\ Owes(C, P, R, b) = row.due
  BY <1>1, <1>2, <1>3 DEF Owes, BillRows
<1>5. RowsOK(C, P, R)
  BY <1>1 DEF Sound, RowsOK
<1>6. WithinDue(C, P)
  BY <1>1, <1>2, <1>4 DEF Sound, WithinDue
<1>7. OnLiveBills(C, P)
  BY <1>1 DEF Sound, OnLiveBills
<1>8. CreditsPlaced(C, R)
  <2> SUFFICES ASSUME NEW x \in Rebates PROVE CreditedRow(C, x, R[x])
    BY DEF CreditsPlaced
  <2>1. CreditedRow(B, x, R[x])
    BY DEF Sound, CreditsPlaced
  <2>2. R[x].state = "credited" => R[x].bill # b
    BY <2>1 DEF CreditedRow
  <2> QED
    BY <1>1, <2>1, <2>2 DEF CreditedRow
<1>9. NoneUndercut(B, P, R, C, P, R)
  <2> SUFFICES ASSUME NEW d \in Bills, C[d].state = "live", Owes(C, P, R, d) < 0
               PROVE  Owes(B, P, R, d) < 0
    BY DEF NoneUndercut, Undercut
  <2>1. d # b
    BY <1>4
  <2> QED
    BY <1>1, <2>1 DEF Owes
<1> QED
  BY <1>1, <1>4, <1>5, <1>6, <1>7, <1>8, <1>9 DEF Sound, Untouched

\* A bill's amount may become anything that what was paid is within.
LEMMA BillIsRepriced ==
  ASSUME NEW B, NEW P, NEW R, Sound(B, P, R), NEW b \in Bills, B[b].state = "live",
         NEW due \in Nat, due >= PaidOn(P, b),
         NEW C, C = [B EXCEPT ![b].due = due]
  PROVE  /\ Sound(C, P, R)
         /\ \A d \in Bills : d # b \/ due >= PaidOn(P, b) + CreditOn(R, b) => Undercut(B, P, R, C, P, R, d)
<1>0. B[b] \in BillRows
  BY DEF Sound, RowsOK
<1>a. PICK row : row = [B[b] EXCEPT !.due = due]
  OBVIOUS
<1>b. row \in BillRows /\ row.due = due /\ row.state = B[b].state /\ row.vendor = B[b].vendor
  BY <1>0, <1>a DEF BillRows
<1>1. C \in [Bills -> BillRows] /\ C[b] = row /\ \A d \in Bills \ {b} : C[d] = B[d]
  BY <1>a, <1>b DEF Sound, RowsOK
<1>2. \A d \in Bills : C[d].state = B[d].state /\ C[d].vendor = B[d].vendor
  BY <1>1, <1>b
<1>5. RowsOK(C, P, R)
  BY <1>1 DEF Sound, RowsOK
<1>6. WithinDue(C, P)
  <2> SUFFICES ASSUME NEW d \in Bills, C[d].state = "live" PROVE PaidOn(P, d) <= C[d].due
    BY DEF WithinDue
  <2> QED
    BY <1>1, <1>2, <1>b DEF Sound, WithinDue
<1>7. OnLiveBills(C, P)
  <2>1. \A p \in Payments : P[p] # None => P[p].bill \in Bills
    BY DEF Sound, RowsOK, PaymentRows
  <2> QED
    BY <1>2, <2>1 DEF Sound, OnLiveBills
<1>8. CreditsPlaced(C, R)
  BY <1>2 DEF Sound, CreditsPlaced, CreditedRow
<1>9. ASSUME NEW d \in Bills, d # b \/ due >= PaidOn(P, b) + CreditOn(R, b)
      PROVE  Undercut(B, P, R, C, P, R, d)
  <2>1. CASE d = b
    <3>1. PaidOn(P, b) \in Int /\ CreditOn(R, b) \in Int
      BY PaidIs, CreditIs DEF Sound, RowsOK
    <3>2. Owes(C, P, R, b) >= 0
      BY <1>1, <1>b, <1>9, <2>1, <3>1 DEF Owes
    <3>3. Owes(C, P, R, b) \in Int
      BY <1>1, <1>b, <3>1 DEF Owes
    <3> QED
      BY <2>1, <3>2, <3>3 DEF Undercut
  <2>2. CASE d # b
    BY <1>1, <2>2 DEF Undercut, Owes
  <2> QED
    BY <2>1, <2>2
<1> QED
  BY <1>5, <1>6, <1>7, <1>8, <1>9 DEF Sound

\* A bill of which nothing was paid may be removed.
LEMMA BillIsRemoved ==
  ASSUME NEW B, NEW P, NEW R, Sound(B, P, R), NEW b \in Bills,
         \A p \in Payments : P[p] # None /\ P[p].live => P[p].bill # b,
         B[b].state # "none",
         NEW C, C = [B EXCEPT ![b].state = "removed"]
  PROVE  Sound(C, P, R) /\ NoneUndercut(B, P, R, C, P, R)
<1>0. B[b] \in BillRows
  BY DEF Sound, RowsOK
<1>a. PICK row : row = [B[b] EXCEPT !.state = "removed"]
  OBVIOUS
<1>b. row \in BillRows /\ row.due = B[b].due /\ row.state = "removed" /\ row.vendor = B[b].vendor
  BY <1>0, <1>a DEF BillRows
<1>1. C \in [Bills -> BillRows] /\ C[b] = row /\ \A d \in Bills \ {b} : C[d] = B[d]
  BY <1>a, <1>b DEF Sound, RowsOK
<1>5. RowsOK(C, P, R)
  BY <1>1 DEF Sound, RowsOK
<1>6. WithinDue(C, P)
  <2> SUFFICES ASSUME NEW d \in Bills, C[d].state = "live" PROVE PaidOn(P, d) <= C[d].due
    BY DEF WithinDue
  <2> QED
    BY <1>1, <1>b DEF Sound, WithinDue
<1>7. OnLiveBills(C, P)
  <2>1. \A p \in Payments : P[p] # None => P[p].bill \in Bills
    BY DEF Sound, RowsOK, PaymentRows
  <2> QED
    BY <1>1, <2>1 DEF Sound, OnLiveBills
<1>8. CreditsPlaced(C, R)
  <2> SUFFICES ASSUME NEW x \in Rebates PROVE CreditedRow(C, x, R[x])
    BY DEF CreditsPlaced
  <2>1. CreditedRow(B, x, R[x])
    BY DEF Sound, CreditsPlaced
  <2> QED
    BY <1>1, <1>b, <2>1 DEF CreditedRow
<1>9. NoneUndercut(B, P, R, C, P, R)
  BY <1>1, <1>b DEF NoneUndercut, Undercut, Owes
<1> QED
  BY <1>5, <1>6, <1>7, <1>8, <1>9 DEF Sound

\* Of what a bill still owes, something may be paid.
LEMMA PaymentIsMade ==
  ASSUME NEW B, NEW P, NEW R, Sound(B, P, R), NEW b \in Bills, B[b].state = "live",
         NEW r \in Payments, P[r] = None,
         NEW row \in PaymentRows, row.bill = b, row.live = TRUE, row.amount <= Owes(B, P, R, b),
         NEW Q, Q \in [Payments -> PaymentRows \cup {None}], Q[r] = row, DifferAt(P, Q, Payments, r)
  PROVE  Sound(B, Q, R) /\ NoneUndercut(B, P, R, B, Q, R)
<1>0. P \in [Payments -> PaymentRows \cup {None}]
  BY DEF Sound, RowsOK
<1>1. \A p \in Payments \ {r} : Q[p] = P[p]
  BY DEF DifferAt
<1>b. row # None /\ row.amount \in Nat
  BY RowsAssumption DEF PaymentRows
<1>2. ASSUME NEW d \in Bills
      PROVE  /\ PaidOn(P, d) \in Nat /\ PaidOn(Q, d) \in Nat
             /\ d # b => PaidOn(Q, d) = PaidOn(P, d)
             /\ d = b => PaidOn(Q, d) = PaidOn(P, d) + row.amount
  <2>1. PaidOn(P, d) \in Nat /\ PaidOn(Q, d) \in Nat
    BY <1>0, PaidIs
  <2>2. PaidShare(P, d)[r] = 0 /\ PaidShare(Q, d)[r] = IF d = b THEN row.amount ELSE 0
    BY <1>1, <1>b DEF PaidShare
  <2>3. PaidDiffers(P, Q, r, d)
    BY <1>0, PaidChanges
  <2> QED
    BY <1>b, <2>1, <2>2, <2>3 DEF PaidDiffers
<1>3. \A d \in Bills : CreditOn(R, d) \in Nat /\ B[d].due \in Nat
  BY CreditIs DEF Sound, RowsOK, BillRows
<1>4. row.amount <= B[b].due - PaidOn(P, b) - CreditOn(R, b)
  BY DEF Owes
<1>5. RowsOK(B, Q, R)
  BY <1>1 DEF Sound, RowsOK
<1>6. WithinDue(B, Q)
  <2> SUFFICES ASSUME NEW d \in Bills, B[d].state = "live" PROVE PaidOn(Q, d) <= B[d].due
    BY DEF WithinDue
  <2>1. PaidOn(P, d) <= B[d].due
    BY DEF Sound, WithinDue
  <2> QED
    BY <1>b, <1>2, <1>3, <1>4, <2>1
<1>7. OnLiveBills(B, Q)
  BY <1>1 DEF Sound, OnLiveBills
<1>8. NoneUndercut(B, P, R, B, Q, R)
  <2> SUFFICES ASSUME NEW d \in Bills, Owes(B, Q, R, d) < 0 PROVE Owes(B, P, R, d) < 0
    BY DEF NoneUndercut, Undercut
  <2> QED
    BY <1>b, <1>2, <1>3, <1>4 DEF Owes
<1> QED
  BY <1>5, <1>6, <1>7, <1>8 DEF Sound

\* A payment may be taken back.
LEMMA PaymentIsVoided ==
  ASSUME NEW B, NEW P, NEW R, Sound(B, P, R), NEW q \in Payments, P[q] # None,
         NEW row \in PaymentRows, row.bill = P[q].bill, row.live = FALSE,
         NEW Q, Q \in [Payments -> PaymentRows \cup {None}], Q[q] = row, DifferAt(P, Q, Payments, q)
  PROVE  Sound(B, Q, R) /\ NoneUndercut(B, P, R, B, Q, R)
<1>0. P \in [Payments -> PaymentRows \cup {None}]
  BY DEF Sound, RowsOK
<1>1. \A p \in Payments \ {q} : Q[p] = P[p]
  BY DEF DifferAt
<1>2. ASSUME NEW d \in Bills
      PROVE  /\ PaidOn(P, d) \in Nat /\ PaidOn(Q, d) \in Nat
             /\ PaidOn(Q, d) <= PaidOn(P, d)
  <2>1. PaidOn(P, d) \in Nat /\ PaidOn(Q, d) \in Nat /\ PaidShare(P, d)[q] \in Nat
    BY <1>0, PaidIs
  <2>2. PaidShare(Q, d)[q] = 0
    BY <1>1 DEF PaidShare
  <2>3. PaidDiffers(P, Q, q, d)
    BY <1>0, PaidChanges
  <2> QED
    BY <2>1, <2>2, <2>3 DEF PaidDiffers
<1>3. \A d \in Bills : CreditOn(R, d) \in Nat /\ B[d].due \in Nat
  BY CreditIs DEF Sound, RowsOK, BillRows
<1>5. RowsOK(B, Q, R)
  BY <1>1 DEF Sound, RowsOK
<1>6. WithinDue(B, Q)
  <2> SUFFICES ASSUME NEW d \in Bills, B[d].state = "live" PROVE PaidOn(Q, d) <= B[d].due
    BY DEF WithinDue
  <2>1. PaidOn(P, d) <= B[d].due
    BY DEF Sound, WithinDue
  <2> QED
    BY <1>2, <1>3, <2>1
<1>7. OnLiveBills(B, Q)
  BY <1>1 DEF Sound, OnLiveBills
<1>8. NoneUndercut(B, P, R, B, Q, R)
  <2> SUFFICES ASSUME NEW d \in Bills, Owes(B, Q, R, d) < 0 PROVE Owes(B, P, R, d) < 0
    BY DEF NoneUndercut, Undercut
  <2> QED
    BY <1>2, <1>3 DEF Owes
<1> QED
  BY <1>5, <1>6, <1>7, <1>8 DEF Sound

\* A rebate's row may become any that is placed, is on no second bill, and asks no
\* more of a bill than it did, or than the bill still owes.
LEMMA RebateIsWritten ==
  ASSUME NEW B, NEW P, NEW R, Sound(B, P, R), NEW x \in Rebates,
         NEW row \in RebateRows, CreditedRow(B, x, row),
         \/ row.state # "credited"
         \/ /\ row.state = "credited" /\ R[x].state # "credited"
            /\ row.credited <= Owes(B, P, R, row.bill),
         NEW S, S \in [Rebates -> RebateRows], S[x] = row, DifferAt(R, S, Rebates, x)
  PROVE  Sound(B, P, S) /\ NoneUndercut(B, P, R, B, P, S) /\ CreditsStay(R, S)
<1>0. CreditedRow(B, x, R[x])
  BY DEF Sound, CreditsPlaced
<1>a. R \in [Rebates -> RebateRows]
  BY DEF Sound, RowsOK
<1>1. \A y \in Rebates \ {x} : S[y] = R[y]
  BY DEF DifferAt
<1>c. row.credited \in Nat
  BY DEF RebateRows
<1>2. ASSUME NEW d \in Bills
      PROVE  /\ CreditOn(R, d) \in Nat /\ CreditOn(S, d) \in Nat
             /\ \/ CreditOn(S, d) <= CreditOn(R, d)
                \/ /\ row.credited <= Owes(B, P, R, d)
                   /\ CreditOn(S, d) = CreditOn(R, d) + row.credited
  <2>1. CreditOn(R, d) \in Nat /\ CreditOn(S, d) \in Nat /\ CreditShare(R, d)[x] \in Nat
    BY <1>a, CreditIs
  <2>3. CreditDiffers(R, S, x, d)
    BY <1>a, CreditChanges
  <2>4. d # None
    BY PayablesAssumption
  <2>5. CASE row.bill # d
    <3>1. CreditShare(S, d)[x] = 0
      BY <1>1, <2>5 DEF CreditShare
    <3>2. CreditOn(S, d) <= CreditOn(R, d)
      BY <2>1, <2>3, <3>1 DEF CreditDiffers
    <3> QED
      BY <2>1, <3>2
  <2>6. CASE row.bill = d
    <3>1. row.state = "credited" /\ R[x].state # "credited" /\ row.credited <= Owes(B, P, R, d)
      BY <2>4, <2>6 DEF CreditedRow
    <3>2. R[x].bill = None
      BY <1>0, <3>1 DEF CreditedRow
    <3>3. CreditShare(R, d)[x] = 0 /\ CreditShare(S, d)[x] = row.credited
      BY <1>1, <2>4, <2>6, <3>2 DEF CreditShare
    <3>4. CreditOn(S, d) = CreditOn(R, d) + row.credited
      BY <1>c, <2>1, <2>3, <3>3 DEF CreditDiffers
    <3> QED
      BY <2>1, <3>1, <3>4
  <2> QED
    BY <2>5, <2>6
<1>3. \A d \in Bills : PaidOn(P, d) \in Nat /\ B[d].due \in Nat
  BY PaidIs DEF Sound, RowsOK, BillRows
<1>4. Sound(B, P, S)
  BY <1>1 DEF Sound, RowsOK, CreditsPlaced
<1>5. NoneUndercut(B, P, R, B, P, S)
  <2> SUFFICES ASSUME NEW d \in Bills, Owes(B, P, S, d) < 0 PROVE Owes(B, P, R, d) < 0
    BY DEF NoneUndercut, Undercut
  <2>1. CASE CreditOn(S, d) <= CreditOn(R, d)
    BY <1>2, <1>3, <2>1 DEF Owes
  <2>2. CASE row.credited <= Owes(B, P, R, d) /\ CreditOn(S, d) = CreditOn(R, d) + row.credited
    BY <1>2, <1>3, <1>c, <2>2 DEF Owes
  <2> QED
    BY <1>2, <2>1, <2>2
<1>6. CreditsStay(R, S)
  <2> SUFFICES ASSUME NEW y \in Rebates, R[y].bill # None PROVE S[y].bill \in {None, R[y].bill}
    BY DEF CreditsStay
  <2>1. CASE y = x
    <3>1. row.state # "credited"
      BY <1>0, <2>1 DEF CreditedRow
    <3> QED
      BY <1>1, <2>1, <3>1 DEF CreditedRow
  <2>2. CASE y # x
    BY <1>1, <2>2
  <2> QED
    BY <2>1, <2>2
<1> QED
  BY <1>4, <1>5, <1>6

-----------------------------------------------------------------------------
(* A statement of sound books adds up.                                     *)

\* Each total of a statement is a sum over the vendor's bills.
LEMMA OwedBillByBill ==
  ASSUME RowsOK(bill, payment, rebate), NEW v
  PROVE  TotalOwed(v) = SumFunctionOnSet([b \in BillsOf(v) |-> Balance(b)], BillsOf(v))
<1> DEFINE S == BillsOf(v)
           T == {b \in S : Balance(b) # 0}
           h == [b \in T |-> Balance(b)]
           g == [b \in S |-> Balance(b)]
<1>1. S \subseteq Bills /\ IsFiniteSet(S)
  BY PayablesAssumption, FS_Subset DEF BillsOf
<1>2. \A b \in S : Balance(b) \in Int
  BY <1>1, PaidIs, CreditIs, ReadNow DEF RowsOK, BillRows, Owes
<1>3. T \subseteq S /\ DOMAIN h = T /\ \A b \in T : h[b] \in Int
  BY <1>2
<1>4. \A b \in S : g[b] = IF b \in T THEN h[b] ELSE 0
  BY <1>2
<1>5. SumFunctionOnSet(h, T) = SumFunctionOnSet(g, S)
  <2> HIDE DEF S, T, h, g
  <2> QED
    BY <1>1, <1>3, <1>4, SumOfSome
<1>6. TotalOwed(v) = SumFunctionOnSet(h, T)
  BY <1>3 DEF TotalOwed, SumFunction
<1> QED
  BY <1>5, <1>6

LEMMA PaidBillByBill ==
  ASSUME Sound(bill, payment, rebate), NEW v
  PROVE  TotalPaid(v) = SumFunctionOnSet([b \in BillsOf(v) |-> Paid(b)], BillsOf(v))
<1> DEFINE S == PaidTo(v)
           T == BillsOf(v)
           h == [p \in S |-> AmountOf(p)]
           k == [p \in S |-> payment[p].bill]
           g == [b \in T |-> Paid(b)]
<1>1. IsFiniteSet(S) /\ IsFiniteSet(T) /\ S \subseteq Payments /\ T \subseteq Bills
  BY PayablesAssumption, FS_Subset DEF BillsOf, PaidTo
<1>2. \A p \in S : payment[p] \in PaymentRows /\ payment[p] # None
  BY DEF Sound, RowsOK, PaidTo
<1>3. \A p \in S : h[p] \in Int /\ k[p] \in T
  <2> SUFFICES ASSUME NEW p \in S PROVE AmountOf(p) \in Int /\ payment[p].bill \in T
    OBVIOUS
  <2>1. AmountOf(p) \in Int /\ payment[p].bill \in Bills
    BY <1>2 DEF AmountOf, PaymentRows
  <2>2. bill[payment[p].bill].vendor = v /\ bill[payment[p].bill].state = "live"
    BY <1>1 DEF PaidTo, Sound, OnLiveBills
  <2> QED
    BY <2>1, <2>2 DEF BillsOf, LiveBill
<1>4. ASSUME NEW b \in T PROVE g[b] = SumFunctionOnSet(h, {p \in S : k[p] = b})
  <2>1. {p \in S : k[p] = b} = LivePayments(b)
    BY <1>1 DEF PaidTo, LivePayments, BillsOf
  <2> DEFINE L == LivePayments(b)
             f == [p \in L |-> AmountOf(p)]
  <2>2. IsFiniteSet(L) /\ DOMAIN f = L
    BY PayablesAssumption, FS_Subset DEF LivePayments
  <2>3. \A p \in L : f[p] = h[p]
    BY <2>1
  <2>4. SumFunctionOnSet(f, L) = SumFunctionOnSet(h, L)
    <3> HIDE DEF f, L, h
    <3> QED
      BY <2>2, <2>3, SumSame
  <2>5. g[b] = SumFunctionOnSet(f, L)
    BY <2>2 DEF Paid, SumFunction
  <2> QED
    BY <2>1, <2>4, <2>5
<1>5. SumFunctionOnSet(h, S) = SumFunctionOnSet(g, T)
  <2>1. \A b \in T : g[b] = SumFunctionOnSet(h, Keyed(S, k, b))
    BY <1>4 DEF Keyed
  <2> HIDE DEF S, T, h, k, g
  <2> QED
    BY <1>1, <1>3, <2>1, SumByParts
<1>6. TotalPaid(v) = SumFunctionOnSet(h, S)
  BY DEF TotalPaid, SumFunction
<1> QED
  BY <1>5, <1>6

LEMMA RebatedBillByBill ==
  ASSUME Sound(bill, payment, rebate), NEW v,
         \A x \in Rebates : rebate[x].bill # None => LiveBill(rebate[x].bill)
  PROVE  TotalRebated(v) = SumFunctionOnSet([b \in BillsOf(v) |-> Rebated(b)], BillsOf(v))
<1> DEFINE S == CreditedBy(v)
           T == BillsOf(v)
           h == [x \in S |-> rebate[x].credited]
           k == [x \in S |-> rebate[x].bill]
           g == [b \in T |-> Rebated(b)]
<1>1. IsFiniteSet(S) /\ IsFiniteSet(T) /\ S \subseteq Rebates /\ T \subseteq Bills
  BY PayablesAssumption, FS_Subset DEF BillsOf, CreditedBy
<1>2. \A x \in Rebates : rebate[x] \in RebateRows /\ CreditedRow(bill, x, rebate[x])
  BY DEF Sound, RowsOK, CreditsPlaced
<1>3. \A x \in S : h[x] \in Int /\ k[x] \in T
  <2> SUFFICES ASSUME NEW x \in S PROVE rebate[x].credited \in Int /\ rebate[x].bill \in T
    OBVIOUS
  <2>1. rebate[x].credited \in Int /\ rebate[x].state = "credited" /\ VendorOf[x] = v
    BY <1>1, <1>2 DEF CreditedBy, RebateRows
  <2>2. rebate[x].bill \in Bills /\ bill[rebate[x].bill].vendor = v
    BY <1>1, <1>2, <2>1 DEF CreditedRow
  <2>3. LiveBill(rebate[x].bill)
    BY <1>1, <2>2, PayablesAssumption
  <2> QED
    BY <2>1, <2>2, <2>3 DEF BillsOf
<1>4. ASSUME NEW b \in T PROVE g[b] = SumFunctionOnSet(h, {x \in S : k[x] = b})
  <2>1. {x \in S : k[x] = b} = CreditedOn(b)
    <3>1. b \in Bills /\ b # None /\ bill[b].vendor = v
      BY PayablesAssumption DEF BillsOf
    <3>2. ASSUME NEW x \in Rebates, rebate[x].bill = b PROVE x \in S
      <4>1. rebate[x].state = "credited" /\ bill[b].vendor = VendorOf[x]
        BY <1>2, <3>1, <3>2 DEF CreditedRow
      <4> QED
        BY <3>1, <4>1 DEF CreditedBy
    <3> QED
      BY <1>1, <3>2 DEF CreditedOn
  <2> DEFINE L == CreditedOn(b)
             f == [x \in L |-> rebate[x].credited]
  <2>2. IsFiniteSet(L) /\ DOMAIN f = L
    BY PayablesAssumption, FS_Subset DEF CreditedOn
  <2>3. \A x \in L : f[x] = h[x]
    BY <2>1
  <2>4. SumFunctionOnSet(f, L) = SumFunctionOnSet(h, L)
    <3> HIDE DEF f, L, h
    <3> QED
      BY <2>2, <2>3, SumSame
  <2>5. g[b] = SumFunctionOnSet(f, L)
    BY <2>2 DEF Rebated, SumFunction
  <2> QED
    BY <2>1, <2>4, <2>5
<1>5. SumFunctionOnSet(h, S) = SumFunctionOnSet(g, T)
  <2>1. \A b \in T : g[b] = SumFunctionOnSet(h, Keyed(S, k, b))
    BY <1>4 DEF Keyed
  <2> HIDE DEF S, T, h, k, g
  <2> QED
    BY <1>1, <1>3, <2>1, SumByParts
<1>6. TotalRebated(v) = SumFunctionOnSet(h, S)
  BY DEF TotalRebated, SumFunction
<1> QED
  BY <1>5, <1>6

LEMMA StatementOfSoundBooks ==
  ASSUME Sound(bill, payment, rebate) PROVE StatementAddsUp
<1> SUFFICES ASSUME \A x \in Rebates : rebate[x].bill # None => LiveBill(rebate[x].bill),
                    NEW v \in Vendors
             PROVE  TotalDue(v) = TotalOwed(v) + TotalPaid(v) + TotalRebated(v)
  BY DEF StatementAddsUp
<1> DEFINE T == BillsOf(v)
           due == [b \in T |-> bill[b].due]
           owed == [b \in T |-> Balance(b)]
           paid == [b \in T |-> Paid(b)]
           back == [b \in T |-> Rebated(b)]
           settled == [b \in T |-> Paid(b) + Rebated(b)]
<1>1. IsFiniteSet(T) /\ T \subseteq Bills
  BY PayablesAssumption, FS_Subset DEF BillsOf
<1>2. \A b \in T : bill[b].due \in Int /\ Paid(b) \in Int /\ Rebated(b) \in Int
  BY <1>1, PaidIs, CreditIs, ReadNow DEF Sound, RowsOK, BillRows
<1>3. \A b \in T : Balance(b) = bill[b].due - Paid(b) - Rebated(b)
  BY DEF Balance
<1>4. \A b \in T : paid[b] \in Int /\ back[b] \in Int /\ settled[b] = paid[b] + back[b]
  BY <1>2
<1>5. \A b \in T : owed[b] \in Int /\ settled[b] \in Int /\ due[b] = owed[b] + settled[b]
  BY <1>2, <1>3
<1>6. SumFunctionOnSet(settled, T) = SumFunctionOnSet(paid, T) + SumFunctionOnSet(back, T)
  <2> HIDE DEF T, settled, paid, back
  <2> QED
    BY <1>1, <1>4, SumOfSums
<1>7. SumFunctionOnSet(due, T) = SumFunctionOnSet(owed, T) + SumFunctionOnSet(settled, T)
  <2> HIDE DEF T, settled, owed, due
  <2> QED
    BY <1>1, <1>5, SumOfSums
<1>8. TotalDue(v) = SumFunctionOnSet(due, T)
  BY DEF TotalDue, SumFunction
<1>9. TotalOwed(v) = SumFunctionOnSet(owed, T)
  BY OwedBillByBill DEF Sound
<1>10. TotalPaid(v) = SumFunctionOnSet(paid, T)
  BY PaidBillByBill
<1>11. TotalRebated(v) = SumFunctionOnSet(back, T)
  BY RebatedBillByBill
<1>12. /\ SumFunctionOnSet(owed, T) \in Int /\ SumFunctionOnSet(paid, T) \in Int
       /\ SumFunctionOnSet(back, T) \in Int
  <2> HIDE DEF T, owed, paid, back
  <2> QED
    BY <1>1, <1>4, <1>5, SumType
<1> HIDE DEF T, owed, paid, back, due, settled
<1> QED
  BY <1>6, <1>7, <1>8, <1>9, <1>10, <1>11, <1>12

-----------------------------------------------------------------------------
(* Until two requests have been under way together, one writes at most,    *)
(* and what it was let through for still holds.                            *)

Held(B, P, R, a) ==
  /\ a.kind \in {"edit", "remove", "pay", "credit"} => B[a.bill].state = "live"
  /\ a.kind = "edit" => a.amount >= PaidOn(P, a.bill)
  /\ a.kind = "remove" =>
       \A p \in Payments : P[p] # None /\ P[p].live => P[p].bill # a.bill
  /\ a.kind \in {"pay", "credit"} => a.amount <= Owes(B, P, R, a.bill)
  /\ a.kind = "void" => P[a.payment] # None
  /\ a.kind \in {"reestimate", "drop", "credit"} => R[a.rebate].state = "expected"
  /\ a.kind = "credit" => B[a.bill].vendor = VendorOf[a.rebate]

By(s, a) == ValueDelta(Changed(s.lines, a.truths), s.lines, a.truths)

\* The bill a correction means to move is live, and what it moves it to covers
\* what was paid and credited.
Fits(B, P, R, s, a) ==
  s.billed => /\ B[BillOf[a.receipt]].state = "live"
              /\ By(s, a) # 0 =>
                   /\ s.due + By(s, a) \in Nat
                   /\ s.due + By(s, a) >= PaidOn(P, BillOf[a.receipt]) + CreditOn(R, BillOf[a.receipt])

\* A delivery is a number of lines with a value each, and without one its bill is not there.
IsReceipt(B, c, d) ==
  /\ IsFiniteSet(DOMAIN d.lines)
  /\ \A l \in DOMAIN d.lines : "value" \in DOMAIN d.lines[l] /\ d.lines[l].value \in Nat
  /\ DOMAIN d.lines = {} => B[BillOf[c]].state = "none"
ReceiptsOK(B, rs) == DOMAIN rs = Receipts /\ \A c \in Receipts : IsReceipt(B, c, rs[c])

OneWrites ==
  /\ DOMAIN pc = Requests /\ DOMAIN ask = Requests /\ DOMAIN sheet = Requests
  /\ \A r, s \in Requests : pc[r] = "write" /\ pc[s] = "write" => r = s
  /\ \A r \in Requests : pc[r] = "write" =>
       /\ ask[r] \in Asks
       /\ Held(bill, payment, rebate, ask[r])
       /\ ask[r].kind = "correct" => Fits(bill, payment, rebate, sheet[r], ask[r])
Unpaid == \A r \in Requests : pc[r] \in {"idle", "write"} => payment[r] = None

Quiet == Sound(bill, payment, rebate) /\ ReceiptsOK(bill, receipt) /\ OneWrites /\ Unpaid

IInv == overlapped \in BOOLEAN /\ (~overlapped => Quiet)

\* What a step may do to sound books, and what the bills' own requests do besides.
BooksMove(r) ==
  /\ Sound(bill', payment', rebate')
  /\ \A b \in Bills : Undercut(bill, payment, rebate, bill', payment', rebate', b) \/ Editing(b)
  /\ CreditsStay(rebate, rebate')
  /\ \A s \in Requests : payment[s] = None /\ s # r => payment'[s] = None
MovesWell(r) ==
  /\ BooksMove(r)
  /\ \A c \in Receipts : bill[BillOf[c]].state = "none" => bill'[BillOf[c]].state = "none"

LEMMA BooksUnchanged ==
  ASSUME Sound(bill, payment, rebate), UNCHANGED books, NEW r
  PROVE  MovesWell(r)
BY DEF MovesWell, BooksMove, books, Undercut, CreditsStay

-----------------------------------------------------------------------------
(* The writes of the books. *)

LEMMA EnterMoves ==
  ASSUME Quiet, NEW r \in Requests, Enter(r) PROVE MovesWell(r)
<1> DEFINE a == ask[r]
           row == [state |-> "live", vendor |-> a.vendor, due |-> a.amount]
<1>1. pc[r] = "write" /\ a.kind = "enter" /\ a \in Asks
  BY DEF Enter, Writes, Quiet, OneWrites
<1>2. a.bill \in Bills /\ a.amount \in Nat /\ a.vendor \in Vendors /\ \A c \in Receipts : a.bill # BillOf[c]
  BY <1>1, BookAsksAssumption, GoodsAsksAssumption
<1>3. CASE bill[a.bill].state # "none"
  BY <1>3, BooksUnchanged DEF Enter, Quiet
<1>4. CASE bill[a.bill].state = "none"
  <2>1. bill' = [bill EXCEPT ![a.bill] = row] /\ payment' = payment /\ rebate' = rebate
    BY <1>4 DEF Enter
  <2>2. row \in BillRows /\ row.state = "live"
    BY <1>2 DEF BillRows
  <2>3. Sound(bill, payment, rebate)
    BY DEF Quiet
  <2>4. Sound(bill', payment, rebate) /\ NoneUndercut(bill, payment, rebate, bill', payment, rebate)
    <3> HIDE DEF row, a
    <3> QED
      BY <1>2, <1>4, <2>1, <2>2, <2>3, BillIsPut
  <2>5. \A c \in Receipts : bill'[BillOf[c]] = bill[BillOf[c]]
    BY <1>2, <2>1, <2>3, DeliveriesAssumption DEF Sound, RowsOK
  <2> QED
    BY <2>1, <2>4, <2>5 DEF MovesWell, BooksMove, NoneUndercut, CreditsStay
<1> QED
  BY <1>3, <1>4

LEMMA EditMoves ==
  ASSUME Quiet, NEW r \in Requests, Edit(r) PROVE MovesWell(r)
<1> DEFINE a == ask[r]
<1>1. pc[r] = "write" /\ a.kind = "edit" /\ a \in Asks
  BY DEF Edit, Writes, Quiet, OneWrites
<1>2. a.bill \in Bills /\ a.amount \in Nat
  BY <1>1, BookAsksAssumption
<1>3. bill[a.bill].state = "live" /\ a.amount >= PaidOn(payment, a.bill)
  BY <1>1 DEF Quiet, OneWrites, Held
<1>4. bill' = [bill EXCEPT ![a.bill].due = a.amount] /\ payment' = payment /\ rebate' = rebate
  BY DEF Edit
<1>5. Sound(bill, payment, rebate)
  BY DEF Quiet
<1>6. /\ Sound(bill', payment, rebate)
      /\ \A b \in Bills : b # a.bill => Undercut(bill, payment, rebate, bill', payment, rebate, b)
  <2> HIDE DEF a
  <2> QED
    BY <1>2, <1>3, <1>4, <1>5, BillIsRepriced
<1>7. \A b \in Bills : b = a.bill => Editing(b)
  <2>1. pc'[r] = "done"
    BY DEF Edit, End, Quiet, OneWrites
  <2> QED
    BY <2>1 DEF Editing, Edit
<1>8. \A c \in Receipts : bill[BillOf[c]].state = "none" => bill'[BillOf[c]].state = "none"
  <2> SUFFICES ASSUME NEW c \in Receipts, bill[BillOf[c]].state = "none"
               PROVE  bill'[BillOf[c]].state = "none"
    OBVIOUS
  <2>1. BillOf[c] # a.bill
    BY <1>3
  <2> QED
    BY <1>4, <1>5, <2>1, DeliveriesAssumption DEF Sound, RowsOK
<1> QED
  BY <1>4, <1>6, <1>7, <1>8 DEF MovesWell, BooksMove, CreditsStay

LEMMA RemoveMoves ==
  ASSUME Quiet, NEW r \in Requests, Remove(r) PROVE MovesWell(r)
<1> DEFINE a == ask[r]
<1>1. pc[r] = "write" /\ a.kind = "remove" /\ a \in Asks
  BY DEF Remove, Writes, Quiet, OneWrites
<1>2. a.bill \in Bills
  BY <1>1, BookAsksAssumption
<1>3. /\ bill[a.bill].state = "live"
      /\ \A p \in Payments : payment[p] # None /\ payment[p].live => payment[p].bill # a.bill
  BY <1>1 DEF Quiet, OneWrites, Held
<1>4. bill' = [bill EXCEPT ![a.bill].state = "removed"] /\ payment' = payment /\ rebate' = rebate
  BY DEF Remove
<1>5. Sound(bill, payment, rebate)
  BY DEF Quiet
<1>6. Sound(bill', payment, rebate) /\ NoneUndercut(bill, payment, rebate, bill', payment, rebate)
  <2> HIDE DEF a
  <2> QED
    BY <1>2, <1>3, <1>4, <1>5, BillIsRemoved
<1>8. \A c \in Receipts : bill[BillOf[c]].state = "none" => bill'[BillOf[c]].state = "none"
  <2> SUFFICES ASSUME NEW c \in Receipts, bill[BillOf[c]].state = "none"
               PROVE  bill'[BillOf[c]].state = "none"
    OBVIOUS
  <2>1. BillOf[c] # a.bill
    BY <1>3
  <2> QED
    BY <1>4, <1>5, <2>1, DeliveriesAssumption DEF Sound, RowsOK
<1> QED
  BY <1>4, <1>6, <1>8 DEF MovesWell, BooksMove, NoneUndercut, CreditsStay

LEMMA PayMoves ==
  ASSUME Quiet, NEW r \in Requests, Pay(r) PROVE MovesWell(r)
<1> DEFINE a == ask[r]
           row == [bill |-> a.bill, amount |-> a.amount, live |-> TRUE]
<1>1. pc[r] = "write" /\ a.kind = "pay" /\ a \in Asks
  BY DEF Pay, Writes, Quiet, OneWrites
<1>2. a.bill \in Bills /\ a.amount \in Nat \ {0}
  BY <1>1, BookAsksAssumption
<1>3. bill[a.bill].state = "live" /\ a.amount <= Owes(bill, payment, rebate, a.bill)
  BY <1>1 DEF Quiet, OneWrites, Held
<1>4. payment' = [payment EXCEPT ![r] = row] /\ bill' = bill /\ rebate' = rebate
  BY DEF Pay
<1>5. Sound(bill, payment, rebate) /\ payment[r] = None /\ r \in Payments
  BY <1>1 DEF Quiet, Unpaid, Payments
<1>6. row \in PaymentRows /\ row.bill = a.bill /\ row.live = TRUE /\ row.amount = a.amount
  BY <1>2 DEF PaymentRows
<1>7. /\ payment' \in [Payments -> PaymentRows \cup {None}] /\ payment'[r] = row
      /\ DifferAt(payment, payment', Payments, r)
  <2> HIDE DEF row
  <2> QED
    BY <1>4, <1>5, <1>6 DEF Sound, RowsOK, DifferAt
<1>8. Sound(bill, payment', rebate) /\ NoneUndercut(bill, payment, rebate, bill, payment', rebate)
  <2> HIDE DEF a, row
  <2> QED
    BY <1>2, <1>3, <1>5, <1>6, <1>7, PaymentIsMade
<1>9. \A s \in Requests : payment[s] = None /\ s # r => payment'[s] = None
  BY <1>7 DEF DifferAt, Payments
<1> QED
  BY <1>4, <1>8, <1>9 DEF MovesWell, BooksMove, NoneUndercut, CreditsStay

LEMMA VoidMoves ==
  ASSUME Quiet, NEW r \in Requests, Void(r) PROVE MovesWell(r)
<1> DEFINE a == ask[r]
           q == a.payment
<1>1. pc[r] = "write" /\ a.kind = "void" /\ a \in Asks
  BY DEF Void, Writes, Quiet, OneWrites
<1>2. q \in Payments /\ payment[q] # None
  BY <1>1, BookAsksAssumption DEF Quiet, OneWrites, Held
<1>3. Sound(bill, payment, rebate) /\ payment[q] \in PaymentRows
  BY <1>2 DEF Quiet, Sound, RowsOK
<1>4. PICK row : row = [payment[q] EXCEPT !.live = FALSE]
  OBVIOUS
<1>5. row \in PaymentRows /\ row.bill = payment[q].bill /\ row.live = FALSE
  BY <1>3, <1>4 DEF PaymentRows
<1>6. payment' = [payment EXCEPT ![q] = row] /\ bill' = bill /\ rebate' = rebate
  BY <1>3, <1>4 DEF Void
<1>7. /\ payment' \in [Payments -> PaymentRows \cup {None}] /\ payment'[q] = row
      /\ DifferAt(payment, payment', Payments, q)
  <2> HIDE DEF q
  <2> QED
    BY <1>2, <1>3, <1>5, <1>6 DEF Sound, RowsOK, DifferAt
<1>8. Sound(bill, payment', rebate) /\ NoneUndercut(bill, payment, rebate, bill, payment', rebate)
  <2> HIDE DEF q
  <2> QED
    BY <1>2, <1>3, <1>5, <1>7, PaymentIsVoided
<1>9. \A s \in Requests : payment[s] = None /\ s # r => payment'[s] = None
  <2> HIDE DEF q
  <2> QED
    BY <1>2, <1>7 DEF DifferAt, Payments
<1> QED
  BY <1>6, <1>8, <1>9 DEF MovesWell, BooksMove, NoneUndercut, CreditsStay

\* What the writes of a rebate have in common.
LEMMA RowMoves ==
  ASSUME Quiet, NEW r, NEW x \in Rebates, NEW row \in RebateRows, CreditedRow(bill, x, row),
         \/ row.state # "credited"
         \/ /\ row.state = "credited" /\ rebate[x].state # "credited"
            /\ row.credited <= Owes(bill, payment, rebate, row.bill),
         rebate' = [rebate EXCEPT ![x] = row], bill' = bill, payment' = payment
  PROVE  MovesWell(r)
<1>1. Sound(bill, payment, rebate)
  BY DEF Quiet
<1>2. rebate' \in [Rebates -> RebateRows] /\ rebate'[x] = row /\ DifferAt(rebate, rebate', Rebates, x)
  BY <1>1 DEF Sound, RowsOK, DifferAt
<1>3. /\ Sound(bill, payment, rebate') /\ NoneUndercut(bill, payment, rebate, bill, payment, rebate')
      /\ CreditsStay(rebate, rebate')
  BY <1>1, <1>2, RebateIsWritten
<1> QED
  BY <1>3 DEF MovesWell, BooksMove, NoneUndercut

LEMMA ExpectMoves ==
  ASSUME Quiet, NEW r \in Requests, Expect(r) PROVE MovesWell(r)
<1> DEFINE a == ask[r]
           x == a.rebate
<1>1. pc[r] = "write" /\ a.kind = "expect" /\ a \in Asks
  BY DEF Expect, Writes, Quiet, OneWrites
<1>2. x \in Rebates /\ a.amount \in Nat
  BY <1>1, BookAsksAssumption
<1>3. Sound(bill, payment, rebate) /\ rebate[x] \in RebateRows /\ CreditedRow(bill, x, rebate[x])
  BY <1>2 DEF Quiet, Sound, RowsOK, CreditsPlaced
<1>4. CASE rebate[x].state # "none"
  BY <1>3, <1>4, BooksUnchanged DEF Expect
<1>5. CASE rebate[x].state = "none"
  <2>1. PICK row : row = [rebate[x] EXCEPT !.state = "expected", !.expected = a.amount]
    OBVIOUS
  <2>2. row \in RebateRows /\ row.state = "expected" /\ row.bill = rebate[x].bill /\ row.credited = rebate[x].credited
    BY <1>2, <1>3, <2>1 DEF RebateRows
  <2>3. bill' = bill /\ payment' = payment
    BY <1>5 DEF Expect
  <2>4. rebate' = [rebate EXCEPT ![x] = row]
    BY <1>2, <1>3, <1>5, <2>1 DEF Expect, Sound, RowsOK
  <2>5. CreditedRow(bill, x, row)
    BY <1>3, <1>5, <2>2 DEF CreditedRow
  <2> HIDE DEF x
  <2> QED
    BY <1>2, <2>2, <2>3, <2>4, <2>5, RowMoves
<1> QED
  BY <1>4, <1>5

LEMMA ReestimateMoves ==
  ASSUME Quiet, NEW r \in Requests, Reestimate(r) PROVE MovesWell(r)
<1> DEFINE a == ask[r]
           x == a.rebate
<1>1. pc[r] = "write" /\ a.kind = "reestimate" /\ a \in Asks
  BY DEF Reestimate, OnRebate, Writes, Quiet, OneWrites
<1>2. x \in Rebates /\ a.amount \in Nat /\ rebate[x].state = "expected"
  BY <1>1, BookAsksAssumption DEF Quiet, OneWrites, Held
<1>3. Sound(bill, payment, rebate) /\ rebate[x] \in RebateRows /\ CreditedRow(bill, x, rebate[x])
  BY <1>2 DEF Quiet, Sound, RowsOK, CreditsPlaced
<1>4. PICK row : row = [rebate[x] EXCEPT !.expected = a.amount]
  OBVIOUS
<1>5. row \in RebateRows /\ row.state = "expected" /\ row.bill = rebate[x].bill /\ row.credited = rebate[x].credited
  BY <1>2, <1>3, <1>4 DEF RebateRows
<1>6. rebate' = [rebate EXCEPT ![x] = row] /\ bill' = bill /\ payment' = payment
  BY <1>2, <1>4 DEF Reestimate, OnRebate, Row
<1>7. CreditedRow(bill, x, row)
  BY <1>2, <1>3, <1>5 DEF CreditedRow
<1> HIDE DEF x
<1> QED
  BY <1>2, <1>5, <1>6, <1>7, RowMoves

LEMMA DropMoves ==
  ASSUME Quiet, NEW r \in Requests, Drop(r) PROVE MovesWell(r)
<1> DEFINE a == ask[r]
           x == a.rebate
<1>1. pc[r] = "write" /\ a.kind = "drop" /\ a \in Asks
  BY DEF Drop, OnRebate, Writes, Quiet, OneWrites
<1>2. x \in Rebates /\ rebate[x].state = "expected"
  BY <1>1, BookAsksAssumption DEF Quiet, OneWrites, Held
<1>3. PICK row : row = NoRebate
  OBVIOUS
<1>4. row \in RebateRows /\ row.state = "none" /\ row.bill = None /\ row.credited = 0
  BY <1>3 DEF NoRebate, RebateRows
<1>5. rebate' = [rebate EXCEPT ![x] = row] /\ bill' = bill /\ payment' = payment
  BY <1>2, <1>3 DEF Drop, OnRebate
<1>6. CreditedRow(bill, x, row)
  BY <1>4 DEF CreditedRow
<1> HIDE DEF x
<1> QED
  BY <1>2, <1>4, <1>5, <1>6, RowMoves

LEMMA CreditMoves ==
  ASSUME Quiet, NEW r \in Requests, Credit(r) PROVE MovesWell(r)
<1> DEFINE a == ask[r]
           x == a.rebate
<1>1. pc[r] = "write" /\ a.kind = "credit" /\ a \in Asks
  BY DEF Credit, OnRebate, Writes, Quiet, OneWrites
<1>2. x \in Rebates /\ a.bill \in Bills /\ a.amount \in Nat
  BY <1>1, BookAsksAssumption
<1>3. /\ rebate[x].state = "expected" /\ bill[a.bill].state = "live"
      /\ bill[a.bill].vendor = VendorOf[x] /\ a.amount <= Owes(bill, payment, rebate, a.bill)
  BY <1>1 DEF Quiet, OneWrites, Held
<1>4. rebate[x] \in RebateRows
  BY <1>2 DEF Quiet, Sound, RowsOK
<1>5. PICK row : row = [rebate[x] EXCEPT !.state = "credited", !.bill = a.bill, !.credited = a.amount]
  OBVIOUS
<1>6. row \in RebateRows /\ row.state = "credited" /\ row.bill = a.bill /\ row.credited = a.amount
  BY <1>2, <1>4, <1>5 DEF RebateRows
<1>7. rebate' = [rebate EXCEPT ![x] = row] /\ bill' = bill /\ payment' = payment
  BY <1>3, <1>5 DEF Credit, OnRebate, Row
<1>8. CreditedRow(bill, x, row)
  BY <1>2, <1>3, <1>6 DEF CreditedRow
<1>9. rebate[x].state # "credited" /\ row.credited <= Owes(bill, payment, rebate, row.bill)
  BY <1>3, <1>6
<1> HIDE DEF x
<1> QED
  BY <1>2, <1>6, <1>7, <1>8, <1>9, RowMoves

LEMMA UncreditMoves ==
  ASSUME Quiet, NEW r \in Requests, Uncredit(r) PROVE MovesWell(r)
<1> DEFINE a == ask[r]
           x == a.rebate
<1>1. pc[r] = "write" /\ a.kind = "uncredit" /\ a \in Asks
  BY DEF Uncredit, OnRebate, Writes, Quiet, OneWrites
<1>2. x \in Rebates
  BY <1>1, BookAsksAssumption
<1>3. Sound(bill, payment, rebate) /\ rebate[x] \in RebateRows
  BY <1>2 DEF Quiet, Sound, RowsOK
<1>4. CASE rebate[x].state = "none"
  BY <1>3, <1>4, BooksUnchanged DEF Uncredit, OnRebate
<1>5. CASE rebate[x].state # "none"
  <2>1. PICK row : row = [rebate[x] EXCEPT !.state = "expected", !.bill = None, !.credited = 0]
    OBVIOUS
  <2>2. row \in RebateRows /\ row.state = "expected" /\ row.bill = None /\ row.credited = 0
    BY <1>3, <2>1 DEF RebateRows
  <2>3. rebate' = [rebate EXCEPT ![x] = row] /\ bill' = bill /\ payment' = payment
    BY <1>5, <2>1 DEF Uncredit, OnRebate, Row
  <2>4. CreditedRow(bill, x, row)
    BY <2>2 DEF CreditedRow
  <2> HIDE DEF x
  <2> QED
    BY <1>2, <2>2, <2>3, <2>4, RowMoves
<1> QED
  BY <1>4, <1>5

LEMMA WritesMove ==
  ASSUME Quiet, NEW r \in Requests, WriteBooks(r) PROVE MovesWell(r)
BY EnterMoves, EditMoves, RemoveMoves, PayMoves, VoidMoves, ExpectMoves, ReestimateMoves,
   DropMoves, CreditMoves, UncreditMoves DEF WriteBooks

\* Every write ends its request, one way or the other.
LEMMA WritesEnd ==
  ASSUME NEW r \in Requests, WriteBooks(r)
  PROVE  pc[r] = "write" /\ \E how \in {"done", "refused"} : End(r, how)
BY DEF WriteBooks, Enter, Edit, Remove, Pay, Void, Expect, Reestimate, Drop, Credit, Uncredit,
       OnRebate, Writes

-----------------------------------------------------------------------------
(* Lines. *)

LEMMA LinesAre ==
  ASSUME NEW S, NEW ls \in Seq(S)
  PROVE  /\ Len(ls) \in Nat /\ DOMAIN ls = 1..Len(ls) /\ IsFiniteSet(DOMAIN ls) /\ DOMAIN ls \subseteq Int
         /\ Cardinality(DOMAIN ls) = Len(ls)
         /\ \A l \in DOMAIN ls : ls[l] \in S
<1>1. Len(ls) \in Nat /\ DOMAIN ls = 1..Len(ls) /\ \A l \in DOMAIN ls : ls[l] \in S
  OBVIOUS
<1>2. QED
  BY <1>1, FS_Interval

\* A function of the same lines is lines.
LEMMA LinesFrom ==
  ASSUME NEW S, NEW ls \in Seq(S), NEW T, NEW f \in [DOMAIN ls -> T]
  PROVE  f \in Seq(T)
<1>1. Len(ls) \in Nat /\ DOMAIN ls = 1..Len(ls)
  OBVIOUS
<1>2. f \in UNION {[1..n -> T] : n \in Nat}
  BY <1>1
<1>3. QED
  BY <1>2, SeqDef

-----------------------------------------------------------------------------
(* The requests about deliveries. *)

LEMMA DeliverMoves ==
  ASSUME Quiet, NEW r \in Requests, NEW a \in Asks, Deliver(r, a), pc[r] = "idle"
  PROVE  BooksMove(r) /\ ReceiptsOK(bill', receipt')
<1> DEFINE due == IF a.due = None THEN Value(a.lines) ELSE a.due
           b == BillOf[a.receipt]
           row == [state |-> "live", vendor |-> a.vendor, due |-> due]
           paid == [bill |-> b, amount |-> a.paid, live |-> TRUE]
<1>1. /\ a.receipt \in Receipts /\ a.vendor \in Vendors /\ a.paid \in Nat /\ a.due \in Nat \cup {None}
      /\ IsFiniteSet(DOMAIN a.lines) /\ DOMAIN a.lines # {}
      /\ \A l \in DOMAIN a.lines : a.lines[l].value \in Nat
  <2>1. /\ a.receipt \in Receipts /\ a.vendor \in Vendors /\ a.paid \in Nat /\ a.due \in Nat \cup {None}
        /\ a.lines \in Seq(Figures) /\ a.lines # <<>>
    BY GoodsAsksAssumption DEF Deliver
  <2>2. IsFiniteSet(DOMAIN a.lines) /\ \A l \in DOMAIN a.lines : a.lines[l] \in Figures
    BY <2>1, LinesAre
  <2>3. DOMAIN a.lines # {}
    <3>1. Len(a.lines) # 0 /\ DOMAIN a.lines = 1..Len(a.lines) /\ Len(a.lines) \in Nat
      BY <2>1
    <3> QED
      BY <3>1
  <2> QED
    BY <2>1, <2>2, <2>3 DEF Figures
<1>2. Sound(bill, payment, rebate) /\ ReceiptsOK(bill, receipt) /\ payment[r] = None /\ r \in Payments
  BY DEF Quiet, Unpaid, Payments
<1>3. due \in Nat
  <2> DEFINE h == [l \in DOMAIN a.lines |-> a.lines[l].value]
  <2>1. \A l \in DOMAIN a.lines : h[l] \in Nat
    BY <1>1
  <2>2. SumFunctionOnSet(h, DOMAIN a.lines) \in Nat
    <3> HIDE DEF h
    <3> QED
      BY <1>1, <2>1, SumIsMost
  <2>3. Value(a.lines) \in Nat
    BY <2>2 DEF Value, SumOver, SumFunction
  <2> QED
    BY <1>1, <2>3
<1>4. CASE a.paid > due \/ receipt[a.receipt].lines # <<>>
  <2>1. UNCHANGED <<books, receipt>>
    BY <1>4 DEF Deliver, goodsVars
  <2> QED
    BY <1>2, <2>1, BooksUnchanged DEF MovesWell, books
<1>5. CASE ~(a.paid > due \/ receipt[a.receipt].lines # <<>>)
  <2>1. /\ bill' = [bill EXCEPT ![b] = row] /\ rebate' = rebate
        /\ payment' = IF a.paid = 0 THEN payment ELSE [payment EXCEPT ![r] = paid]
        /\ a.paid <= due
    BY <1>1, <1>3, <1>5 DEF Deliver
  <2>2. PICK lines : /\ receipt' = [receipt EXCEPT ![a.receipt] = [fee |-> a.fee, lines |-> lines]]
                     /\ DOMAIN lines = DOMAIN a.lines
                     /\ \A l \in DOMAIN lines : "value" \in DOMAIN lines[l] /\ lines[l].value = a.lines[l].value
    <3> DEFINE lines == [l \in DOMAIN a.lines |->
                           [goods |-> a.lines[l].goods, lot |-> NewLots(DOMAIN a.lines)[l],
                            received |-> a.lines[l].received,
                            value |-> a.lines[l].value, share |-> SplitFee(a.fee, a.lines)[l]]]
    <3>1. receipt' = [receipt EXCEPT ![a.receipt] = [fee |-> a.fee, lines |-> lines]]
      BY <1>5 DEF Deliver
    <3>2. /\ DOMAIN lines = DOMAIN a.lines
          /\ \A l \in DOMAIN lines : "value" \in DOMAIN lines[l] /\ lines[l].value = a.lines[l].value
      OBVIOUS
    <3> HIDE DEF lines
    <3> QED
      BY <3>1, <3>2
  <2>3. b \in Bills /\ bill[b].state = "none"
    <3>1. DOMAIN receipt[a.receipt].lines = {}
      BY <1>5
    <3> QED
      BY <1>1, <1>2, <3>1, DeliveriesAssumption DEF ReceiptsOK, IsReceipt
  <2>4. row \in BillRows /\ row.state = "live" /\ row.due = due
    BY <1>1, <1>3 DEF BillRows
  <2>5. /\ Sound(bill', payment, rebate) /\ NoneUndercut(bill, payment, rebate, bill', payment, rebate)
        /\ Owes(bill', payment, rebate, b) = due
    <3> HIDE DEF row, due, b
    <3>1. bill' = [bill EXCEPT ![b] = row]
      BY <2>1
    <3>2. Sound(bill', payment, rebate) /\ NoneUndercut(bill, payment, rebate, bill', payment, rebate)
      BY <1>2, <2>3, <2>4, <3>1, BillIsPut
    <3>3. Untouched(bill', payment, rebate, b)
      BY <1>2, <2>3, <2>4, <3>1, BillIsPut
    <3>4. bill'[b] = row
      BY <1>2, <2>3, <2>4, <3>1 DEF Sound, RowsOK
    <3> QED
      BY <2>4, <3>2, <3>3, <3>4 DEF Untouched
  <2>6. bill'[b].state = "live" /\ \A d \in Bills \ {b} : bill'[d] = bill[d]
    <3> HIDE DEF row, due, b
    <3> QED
      BY <1>2, <2>1, <2>3, <2>4 DEF Sound, RowsOK
  <2>7. /\ Sound(bill', payment', rebate) /\ NoneUndercut(bill', payment, rebate, bill', payment', rebate)
        /\ \A s \in Requests : payment[s] = None /\ s # r => payment'[s] = None
    <3>1. CASE a.paid = 0
      BY <2>1, <2>5, <3>1 DEF NoneUndercut, Undercut
    <3>2. CASE a.paid # 0
      <4>1. paid \in PaymentRows /\ paid.bill = b /\ paid.live = TRUE /\ paid.amount <= due
        BY <1>1, <2>1, <2>3, <3>2 DEF PaymentRows
      <4>2. payment' = [payment EXCEPT ![r] = paid]
        BY <2>1, <3>2
      <4>3. /\ payment' \in [Payments -> PaymentRows \cup {None}] /\ payment'[r] = paid
            /\ DifferAt(payment, payment', Payments, r)
        <5> HIDE DEF paid
        <5> QED
          BY <1>2, <4>1, <4>2 DEF Sound, RowsOK, DifferAt
      <4>4. Sound(bill', payment', rebate) /\ NoneUndercut(bill', payment, rebate, bill', payment', rebate)
        <5> HIDE DEF paid, due, b, row
        <5> QED
          BY <1>2, <2>3, <2>5, <2>6, <4>1, <4>3, PaymentIsMade
      <4> QED
        BY <4>3, <4>4 DEF DifferAt, Payments
    <3> QED
      BY <3>1, <3>2
  <2>8. NoneUndercut(bill, payment, rebate, bill', payment', rebate)
    BY <2>5, <2>7 DEF NoneUndercut, Undercut
  <2>9. BooksMove(r)
    BY <2>1, <2>7, <2>8 DEF BooksMove, NoneUndercut, CreditsStay
  <2>10. ReceiptsOK(bill', receipt')
    <3>1. DOMAIN receipt' = Receipts /\ \A c \in Receipts \ {a.receipt} : receipt'[c] = receipt[c]
      BY <1>2, <2>2 DEF ReceiptsOK
    <3>2. receipt'[a.receipt].lines = lines
      BY <1>1, <1>2, <2>2 DEF ReceiptsOK
    <3>3. \A c \in Receipts \ {a.receipt} : bill'[BillOf[c]] = bill[BillOf[c]]
      BY <1>1, <2>6, DeliveriesAssumption
    <3>4. \A c \in Receipts \ {a.receipt} : IsReceipt(bill', c, receipt'[c])
      BY <1>2, <3>1, <3>3 DEF ReceiptsOK, IsReceipt
    <3>5. IsReceipt(bill', a.receipt, receipt'[a.receipt])
      BY <1>1, <2>2, <3>2 DEF IsReceipt
    <3> QED
      BY <3>1, <3>4, <3>5 DEF ReceiptsOK
  <2> QED
    BY <2>9, <2>10
<1> QED
  BY <1>4, <1>5

\* Lines that a correction writes have values.
LEMMA CorrectedLines ==
  ASSUME NEW now, NEW changed, NEW old, NEW truths, NEW newLot, NEW fee,
         \A l \in DOMAIN now : "value" \in DOMAIN now[l] /\ now[l].value \in Nat,
         \A l \in changed : truths[l].value \in Nat
  PROVE  LET lines == Reshare(fee, Corrected(now, changed, old, truths, newLot), now)
         IN  /\ DOMAIN lines = DOMAIN now
             /\ \A l \in DOMAIN now : "value" \in DOMAIN lines[l] /\ lines[l].value \in Nat
<1> DEFINE figures == Corrected(now, changed, old, truths, newLot)
           lines == Reshare(fee, figures, now)
<1>1. DOMAIN figures = DOMAIN now
  BY DEF Corrected
<1>2. ASSUME NEW l \in DOMAIN now PROVE "value" \in DOMAIN figures[l] /\ figures[l].value \in Nat
  <2>1. CASE l \notin changed
    BY <2>1 DEF Corrected
  <2>2. CASE l \in changed
    <3>1. PICK goods, at :
            figures[l] = [now[l] EXCEPT !.received = truths[l].received, !.value = truths[l].value,
                                        !.goods = goods, !.lot = at]
      BY <2>2 DEF Corrected
    <3> HIDE DEF figures
    <3> QED
      BY <2>2, <3>1
  <2> QED
    BY <2>1, <2>2
<1>3. DOMAIN lines = DOMAIN now
  BY <1>1 DEF Reshare
<1>4. ASSUME NEW l \in DOMAIN now PROVE "value" \in DOMAIN lines[l] /\ lines[l].value \in Nat
  <2>1. PICK share : lines[l] = [figures[l] EXCEPT !.share = share]
    BY <1>1 DEF Reshare
  <2> HIDE DEF figures, lines
  <2> QED
    BY <1>2, <2>1
<1> QED
  BY <1>3, <1>4

LEMMA CorrectMoves ==
  ASSUME Quiet, NEW r \in Requests, Correct(r)
  PROVE  MovesWell(r) /\ ReceiptsOK(bill', receipt') /\ \E how \in {"done", "refused"} : End(r, how)
<1> DEFINE a == ask[r]
           c == a.receipt
           old == sheet[r].lines
           changed == Changed(old, a.truths)
           swapped == {l \in changed : WrongProduct(l, old, a.truths)}
           newLot == NewLots(swapped)
           fee == IF a.fee = None THEN sheet[r].fee ELSE a.fee
           figures == Corrected(receipt[c].lines, changed, old, a.truths, newLot)
           lines == Reshare(fee, figures, receipt[c].lines)
           refused == (~Covered(changed, old, a.truths) /\ ~a.force) \/ (fee > 0 /\ ~HasSomewhereToGo(figures))
<1>1. pc[r] = "write" /\ a.kind = "correct" /\ a \in Asks
  BY DEF Correct, Writes, Quiet, OneWrites
<1>2. c \in Receipts /\ \A l \in DOMAIN a.truths : a.truths[l].value \in Nat
  <2>1. c \in Receipts /\ \A l \in DOMAIN a.truths : a.truths[l] \in Figures
    BY <1>1, GoodsAsksAssumption
  <2> QED
    BY <2>1 DEF Figures
<1>3. Fits(bill, payment, rebate, sheet[r], a)
  BY <1>1 DEF Quiet, OneWrites
<1>4. Sound(bill, payment, rebate) /\ ReceiptsOK(bill, receipt)
  BY DEF Quiet
<1>5. CASE refused
  <2>1. UNCHANGED <<books, receipt>> /\ End(r, "refused")
    BY <1>5 DEF Correct
  <2> QED
    BY <1>4, <2>1, BooksUnchanged DEF books
<1>6. CASE ~refused
  <2>1. /\ bill' = IF sheet[r].billed /\ By(sheet[r], a) # 0
                   THEN [bill EXCEPT ![BillOf[c]].due = sheet[r].due + By(sheet[r], a)] ELSE bill
        /\ payment' = payment /\ rebate' = rebate /\ End(r, "done")
    BY <1>6 DEF Correct, By
  <2>2. \E n : receipt' = [receipt EXCEPT ![c] = [lines |-> lines, fee |-> n]]
    BY <1>6 DEF Correct
  <2>3. /\ Sound(bill', payment, rebate)
        /\ \A b \in Bills : Undercut(bill, payment, rebate, bill', payment, rebate, b)
        /\ \A b \in Bills : bill'[b].state = bill[b].state
    <3>1. CASE sheet[r].billed /\ By(sheet[r], a) # 0
      <4> DEFINE b == BillOf[c]
                 due == sheet[r].due + By(sheet[r], a)
      <4>1. b \in Bills /\ bill[b].state = "live" /\ due \in Nat /\ due >= PaidOn(payment, b) + CreditOn(rebate, b)
        BY <1>2, <1>3, <3>1, DeliveriesAssumption DEF Fits
      <4>2. bill' = [bill EXCEPT ![b].due = due]
        BY <2>1, <3>1
      <4>3. PaidOn(payment, b) \in Nat /\ CreditOn(rebate, b) \in Nat
        BY <1>4, PaidIs, CreditIs DEF Sound, RowsOK
      <4>4. due >= PaidOn(payment, b)
        <5> HIDE DEF due
        <5> QED
          BY <4>1, <4>3
      <4>5. \A d \in Bills : bill'[d].state = bill[d].state
        <5> HIDE DEF due, b
        <5>1. bill \in [Bills -> BillRows]
          BY <1>4 DEF Sound, RowsOK
        <5> QED
          BY <4>1, <4>2, <5>1 DEF BillRows
      <4> HIDE DEF due, b
      <4>6. /\ Sound(bill', payment, rebate)
            /\ \A d \in Bills : d # b \/ due >= PaidOn(payment, b) + CreditOn(rebate, b)
                                  => Undercut(bill, payment, rebate, bill', payment, rebate, d)
        BY <1>4, <4>1, <4>2, <4>4, BillIsRepriced
      <4> QED
        BY <4>1, <4>5, <4>6
    <3>2. CASE ~(sheet[r].billed /\ By(sheet[r], a) # 0)
      BY <1>4, <2>1, <3>2 DEF Undercut
    <3> QED
      BY <3>1, <3>2
  <2>4. MovesWell(r)
    BY <2>1, <2>3, DeliveriesAssumption DEF MovesWell, BooksMove, CreditsStay
  <2>5. ReceiptsOK(bill', receipt')
    <3>0. IsReceipt(bill, c, receipt[c]) /\ DOMAIN receipt = Receipts
      BY <1>2, <1>4 DEF ReceiptsOK
    <3>1. DOMAIN receipt' = Receipts /\ receipt'[c].lines = lines /\ \A d \in Receipts \ {c} : receipt'[d] = receipt[d]
      <4> HIDE DEF lines, c
      <4> QED
        BY <1>2, <2>2, <3>0
    <3>2. \A l \in changed : a.truths[l].value \in Nat
      BY <1>2 DEF Changed
    <3>3. /\ DOMAIN lines = DOMAIN receipt[c].lines
          /\ \A l \in DOMAIN receipt[c].lines : "value" \in DOMAIN lines[l] /\ lines[l].value \in Nat
      <4> HIDE DEF changed, newLot, fee, old
      <4> QED
        BY <3>0, <3>2, CorrectedLines DEF IsReceipt
    <3>4. IsReceipt(bill', c, receipt'[c])
      <4> HIDE DEF lines, c
      <4> QED
        BY <1>2, <2>3, <3>0, <3>1, <3>3, DeliveriesAssumption DEF IsReceipt
    <3>5. \A d \in Receipts \ {c} : IsReceipt(bill', d, receipt'[d])
      <4> HIDE DEF lines, c
      <4> QED
        BY <1>4, <2>3, <3>1, DeliveriesAssumption DEF ReceiptsOK, IsReceipt
    <3> QED
      BY <3>1, <3>4, <3>5 DEF ReceiptsOK
  <2> QED
    BY <2>1, <2>4, <2>5
<1> QED
  BY <1>5, <1>6

-----------------------------------------------------------------------------
(* Reads and ends. *)

\* What a request is let through for is what it finds.
LEMMA PermittedIsHeld ==
  ASSUME Sound(bill, payment, rebate), NEW a \in Asks, a.kind \in BookKinds, Permitted(a)
  PROVE  Held(bill, payment, rebate, a)
<1>1. /\ a.kind \in {"edit", "remove", "pay", "credit"} => a.bill \in Bills
      /\ a.kind \in {"edit", "remove", "pay", "credit"} => /\ Paid(a.bill) = PaidOn(payment, a.bill)
                                                          /\ Balance(a.bill) = Owes(bill, payment, rebate, a.bill)
  <2>1. a.kind \in {"edit", "remove", "pay", "credit"} => a.bill \in Bills
    BY BookAsksAssumption
  <2> QED
    BY <2>1, ReadNow DEF Sound
<1>2. a.kind = "edit" => MayEdit(a)
  BY DEF Permitted
<1>3. a.kind = "remove" => MayRemove(a)
  BY DEF Permitted
<1>4. a.kind = "pay" => MayPay(a)
  BY DEF Permitted
<1>5. a.kind = "credit" => MayCredit(a)
  BY DEF Permitted
<1>6. a.kind = "void" => payment[a.payment] # None
  BY DEF Permitted, MayVoid
<1>7. a.kind \in {"reestimate", "drop"} => rebate[a.rebate].state = "expected"
  BY DEF Permitted
<1>8. a.kind \in {"edit", "remove", "pay", "credit"} => bill[a.bill].state = "live"
  BY <1>2, <1>3, <1>4, <1>5 DEF MayEdit, MayRemove, MayPay, MayCredit, LiveBill
<1>9. a.kind = "edit" => a.amount >= PaidOn(payment, a.bill)
  BY <1>1, <1>2 DEF MayEdit
<1>10. a.kind = "remove" =>
         \A p \in Payments : payment[p] # None /\ payment[p].live => payment[p].bill # a.bill
  BY <1>3 DEF MayRemove, LivePayments
<1>11. a.kind \in {"pay", "credit"} => a.amount <= Owes(bill, payment, rebate, a.bill)
  BY <1>1, <1>4, <1>5 DEF MayPay, MayCredit
<1>12. a.kind = "credit" => rebate[a.rebate].state = "expected" /\ bill[a.bill].vendor = VendorOf[a.rebate]
  BY <1>5 DEF MayCredit
<1> QED
  BY <1>6, <1>7, <1>8, <1>9, <1>10, <1>11, <1>12 DEF Held

\* And so it is with a correction.
LEMMA CorrectionFits ==
  ASSUME Quiet, NEW a \in Asks, a.kind = "correct", MayCorrect(a), NEW s,
         s = [lines |-> receipt[a.receipt].lines, fee |-> receipt[a.receipt].fee,
              due |-> bill[BillOf[a.receipt]].due, billed |-> LiveBill(BillOf[a.receipt])]
  PROVE  Fits(bill, payment, rebate, s, a)
<1> DEFINE old == receipt[a.receipt].lines
           changed == Changed(old, a.truths)
           b == BillOf[a.receipt]
           by == ValueDelta(changed, old, a.truths)
           h == [l \in changed |-> a.truths[l].value - old[l].value]
<1>1. a.receipt \in Receipts /\ \A l \in DOMAIN a.truths : a.truths[l].value \in Nat
  <2>1. a.receipt \in Receipts /\ \A l \in DOMAIN a.truths : a.truths[l] \in Figures
    BY GoodsAsksAssumption
  <2> QED
    BY <2>1 DEF Figures
<1>2. b \in Bills /\ bill[b].due \in Nat
  BY <1>1, DeliveriesAssumption DEF Quiet, Sound, RowsOK, BillRows
<1>3. Paid(b) = PaidOn(payment, b) /\ Rebated(b) = CreditOn(rebate, b) /\ PaidOn(payment, b) \in Nat /\ CreditOn(rebate, b) \in Nat
  BY <1>2, ReadNow, PaidIs, CreditIs DEF Quiet, Sound, RowsOK
<1>4. DOMAIN a.truths \subseteq DOMAIN old /\ (LiveBill(b) /\ by # 0 => bill[b].due + by >= Paid(b) + Rebated(b))
  BY DEF MayCorrect
<1>5. IsFiniteSet(DOMAIN old) /\ \A l \in DOMAIN old : old[l].value \in Nat
  BY <1>1 DEF Quiet, ReceiptsOK, IsReceipt
<1>6. by \in Int
  <2>1. changed \subseteq DOMAIN old /\ changed \subseteq DOMAIN a.truths
    BY <1>4 DEF Changed
  <2>2. IsFiniteSet(changed) /\ \A l \in changed : h[l] \in Int
    <3> HIDE DEF changed, old
    <3> QED
      BY <1>1, <1>5, <2>1, FS_Subset
  <2>3. SumFunctionOnSet(h, changed) \in Int
    <3> HIDE DEF h, changed
    <3> QED
      BY <2>2, SumType
  <2> QED
    BY <2>3 DEF ValueDelta, SumOver, SumFunction
<1>7. /\ s.billed = LiveBill(b) /\ s.due = bill[b].due /\ By(s, a) = by
  BY DEF By
<1>8. ASSUME LiveBill(b), by # 0
      PROVE  bill[b].due + by \in Nat /\ bill[b].due + by >= PaidOn(payment, b) + CreditOn(rebate, b)
  <2> HIDE DEF by, b
  <2>1. bill[b].due + by >= PaidOn(payment, b) + CreditOn(rebate, b)
    BY <1>3, <1>4, <1>8
  <2> QED
    BY <1>2, <1>3, <1>6, <2>1
<1>9. LiveBill(b) => bill[b].state = "live"
  BY DEF LiveBill
<1> HIDE DEF by, h, changed, old
<1> QED
  BY <1>7, <1>8, <1>9 DEF Fits

\* A request that begins while no other writes leaves the books quiet.
LEMMA QuietAfterBegin ==
  ASSUME Quiet, ~overlapped', NEW r \in Requests, NEW a \in Asks, NEW next \in {"write", "done", "refused"},
         Begin(r, a, next), BooksMove(r), ReceiptsOK(bill', receipt'), DOMAIN sheet' = Requests,
         next = "write" => /\ payment' = payment
                           /\ Held(bill', payment', rebate', a)
                           /\ a.kind = "correct" => Fits(bill', payment', rebate', sheet'[r], a)
  PROVE  Quiet'
<1>1. \A s \in Requests : pc[s] # "write"
  BY DEF Begin
<1>2. /\ pc[r] = "idle" /\ DOMAIN pc = Requests /\ DOMAIN ask = Requests
      /\ pc' = [pc EXCEPT ![r] = next] /\ ask' = [ask EXCEPT ![r] = a]
  BY DEF Begin, Quiet, OneWrites
<1>3. /\ DOMAIN pc' = Requests /\ DOMAIN ask' = Requests /\ pc'[r] = next /\ ask'[r] = a
      /\ \A s \in Requests : s # r => pc'[s] = pc[s] /\ pc'[s] # "write"
  BY <1>1, <1>2
<1>4. OneWrites'
  <2>1. \A s \in Requests : pc'[s] = "write" => s = r /\ next = "write"
    BY <1>3
  <2>2. \A s \in Requests : pc'[s] = "write" =>
          /\ ask'[s] \in Asks
          /\ Held(bill', payment', rebate', ask'[s])
          /\ ask'[s].kind = "correct" => Fits(bill', payment', rebate', sheet'[s], ask'[s])
    BY <1>3, <2>1
  <2> QED
    BY <1>3, <2>1, <2>2 DEF OneWrites
<1>5. Unpaid'
  <2> SUFFICES ASSUME NEW s \in Requests, pc'[s] \in {"idle", "write"} PROVE payment'[s] = None
    BY DEF Unpaid
  <2>1. CASE s = r
    BY <1>2, <1>3, <2>1 DEF Quiet, Unpaid
  <2>2. CASE s # r
    BY <1>3, <2>2 DEF Quiet, Unpaid, BooksMove
  <2> QED
    BY <2>1, <2>2
<1> QED
  BY <1>4, <1>5 DEF Quiet, BooksMove

\* And so does one that ends.
LEMMA QuietAfterEnd ==
  ASSUME Quiet, NEW r \in Requests, pc[r] = "write", NEW how \in {"done", "refused"}, End(r, how),
         BooksMove(r), ReceiptsOK(bill', receipt'), DOMAIN sheet' = Requests
  PROVE  Quiet'
<1>1. /\ pc' = [pc EXCEPT ![r] = how] /\ ask' = ask /\ DOMAIN pc = Requests /\ DOMAIN ask = Requests
      /\ \A s \in Requests : pc[s] = "write" => s = r
  BY DEF End, Quiet, OneWrites
<1>2. /\ DOMAIN pc' = Requests /\ pc'[r] = how /\ \A s \in Requests : s # r => pc'[s] = pc[s]
      /\ \A s \in Requests : pc'[s] # "write"
  BY <1>1
<1>3. OneWrites'
  BY <1>1, <1>2 DEF OneWrites
<1>4. Unpaid'
  <2> SUFFICES ASSUME NEW s \in Requests, pc'[s] \in {"idle", "write"} PROVE payment'[s] = None
    BY DEF Unpaid
  <2>1. s # r /\ pc[s] \in {"idle", "write"}
    BY <1>2
  <2> QED
    BY <2>1 DEF Quiet, Unpaid, BooksMove
<1> QED
  BY <1>3, <1>4 DEF Quiet, BooksMove

LEMMA ReceiptsStay ==
  ASSUME ReceiptsOK(bill, receipt), receipt' = receipt, NEW r, MovesWell(r)
  PROVE  ReceiptsOK(bill', receipt')
BY DEF ReceiptsOK, IsReceipt, MovesWell

-----------------------------------------------------------------------------
(* Every step. *)

Outcome ==
  /\ Quiet'
  /\ \A b \in Bills : Undercut(bill, payment, rebate, bill', payment', rebate', b) \/ Editing(b)
  /\ CreditsStay(rebate, rebate')

LEMMA BooksStep ==
  ASSUME Quiet, ~overlapped', NEW r \in Requests, Books(r) PROVE Outcome
<1>1. CASE (\E a \in Asks : ReadBooks(r, a)) /\ UNCHANGED goodsVars
  <2>1. PICK a \in Asks : ReadBooks(r, a)
    BY <1>1
  <2>2. PICK next : next = IF Permitted(a) THEN "write" ELSE "refused"
    OBVIOUS
  <2>3. /\ UNCHANGED books /\ Begin(r, a, next) /\ a.kind \in BookKinds /\ receipt' = receipt /\ sheet' = sheet
        /\ next \in {"write", "done", "refused"}
    BY <1>1, <2>1, <2>2 DEF ReadBooks, goodsVars
  <2>4. MovesWell(r)
    BY <2>3, BooksUnchanged DEF Quiet
  <2>5. ReceiptsOK(bill', receipt') /\ DOMAIN sheet' = Requests
    BY <2>3, <2>4, ReceiptsStay DEF Quiet, OneWrites
  <2>6. next = "write" => Held(bill', payment', rebate', a) /\ payment' = payment /\ a.kind # "correct"
    BY <2>2, <2>3, PermittedIsHeld DEF Quiet, books, BookKinds
  <2>7. Quiet'
    BY <2>3, <2>4, <2>5, <2>6, QuietAfterBegin DEF MovesWell
  <2> QED
    BY <2>4, <2>7 DEF Outcome, MovesWell, BooksMove
<1>2. CASE WriteBooks(r) /\ UNCHANGED <<receipt, lot, moved, sold, forced, sheet>>
  <2>1. MovesWell(r)
    BY <1>2, WritesMove
  <2>2. ReceiptsOK(bill', receipt') /\ DOMAIN sheet' = Requests
    BY <1>2, <2>1, ReceiptsStay DEF Quiet, OneWrites
  <2>3. PICK how \in {"done", "refused"} : pc[r] = "write" /\ End(r, how)
    BY <1>2, WritesEnd
  <2>4. Quiet'
    BY <2>1, <2>2, <2>3, QuietAfterEnd DEF MovesWell
  <2> QED
    BY <2>1, <2>4 DEF Outcome, MovesWell, BooksMove
<1> QED
  BY <1>1, <1>2 DEF Books

LEMMA CorrectStep ==
  ASSUME Quiet, ~overlapped', NEW r \in Requests, Correct(r) PROVE Outcome
<1>1. PICK how \in {"done", "refused"} : End(r, how)
  BY CorrectMoves
<1>2. MovesWell(r) /\ ReceiptsOK(bill', receipt') /\ pc[r] = "write"
  BY CorrectMoves DEF Correct, Writes
<1>3. DOMAIN sheet' = Requests
  BY DEF Correct, Quiet, OneWrites
<1>4. Quiet'
  BY <1>1, <1>2, <1>3, QuietAfterEnd DEF MovesWell
<1> QED
  BY <1>2, <1>4 DEF Outcome, MovesWell, BooksMove

LEMMA OpeningStep ==
  ASSUME Quiet, ~overlapped', NEW r \in Requests, RecordOpening(r) PROVE Outcome
<1>1. UNCHANGED books /\ receipt' = receipt /\ sheet' = sheet /\ End(r, "done") /\ pc[r] = "write"
  BY DEF RecordOpening, Writes
<1>2. MovesWell(r)
  BY <1>1, BooksUnchanged DEF Quiet
<1>3. ReceiptsOK(bill', receipt') /\ DOMAIN sheet' = Requests
  BY <1>1, <1>2, ReceiptsStay DEF Quiet, OneWrites
<1>4. Quiet'
  BY <1>1, <1>2, <1>3, QuietAfterEnd DEF MovesWell
<1> QED
  BY <1>2, <1>4 DEF Outcome, MovesWell, BooksMove

LEMMA DeliverStep ==
  ASSUME Quiet, ~overlapped', NEW r \in Requests, NEW a \in Asks, Deliver(r, a) PROVE Outcome
<1>1. PICK next \in {"done", "refused"} : Begin(r, a, next)
  BY DEF Deliver
<1>2. pc[r] = "idle"
  BY <1>1 DEF Begin
<1>3. BooksMove(r) /\ ReceiptsOK(bill', receipt')
  BY <1>2, DeliverMoves
<1>4. DOMAIN sheet' = Requests
  BY DEF Deliver, goodsVars, Quiet, OneWrites
<1>5. Quiet'
  BY <1>1, <1>3, <1>4, QuietAfterBegin
<1> QED
  BY <1>3, <1>5 DEF Outcome, BooksMove

LEMMA ReadDeliveryStep ==
  ASSUME Quiet, ~overlapped', NEW r \in Requests, NEW a \in Asks, ReadDelivery(r, a) PROVE Outcome
<1> DEFINE read == [lines |-> receipt[a.receipt].lines, fee |-> receipt[a.receipt].fee,
                    due |-> bill[BillOf[a.receipt]].due, billed |-> LiveBill(BillOf[a.receipt])]
<1>1. PICK next : next = IF MayCorrect(a) THEN "write" ELSE "refused"
  OBVIOUS
<1>2. /\ UNCHANGED books /\ receipt' = receipt /\ Begin(r, a, next) /\ a.kind = "correct"
      /\ next \in {"write", "done", "refused"}
      /\ sheet' = IF MayCorrect(a) THEN [sheet EXCEPT ![r] = read] ELSE sheet
  BY <1>1 DEF ReadDelivery
<1>3. DOMAIN sheet = Requests /\ Sound(bill, payment, rebate) /\ ReceiptsOK(bill, receipt)
  BY DEF Quiet, OneWrites
<1>4. MovesWell(r)
  BY <1>2, <1>3, BooksUnchanged
<1>5. ReceiptsOK(bill', receipt')
  BY <1>2, <1>3, <1>4, ReceiptsStay
<1>6. ASSUME next = "write"
      PROVE  /\ payment' = payment /\ Held(bill', payment', rebate', a)
             /\ Fits(bill', payment', rebate', sheet'[r], a)
  <2>1. MayCorrect(a) /\ sheet'[r] = read
    BY <1>1, <1>2, <1>3, <1>6
  <2>2. Fits(bill, payment, rebate, read, a)
    BY <1>2, <2>1, CorrectionFits
  <2>3. Held(bill, payment, rebate, a)
    BY <1>2 DEF Held
  <2> QED
    BY <1>2, <2>1, <2>2, <2>3 DEF books
<1>7. DOMAIN sheet' = Requests
  BY <1>2, <1>3
<1>8. Quiet'
  BY <1>2, <1>4, <1>5, <1>6, <1>7, QuietAfterBegin DEF MovesWell
<1> QED
  BY <1>4, <1>8 DEF Outcome, MovesWell, BooksMove

LEMMA OtherBeginStep ==
  ASSUME Quiet, ~overlapped', NEW r \in Requests, NEW a \in Asks, ReadOpening(r, a) \/ CorrectCost(r, a)
  PROVE  Outcome
<1>1. /\ UNCHANGED books /\ receipt' = receipt /\ sheet' = sheet
      /\ a.kind \in {"open", "recost"}
  BY DEF ReadOpening, CorrectCost, goodsVars
<1>2. PICK next \in {"write", "done", "refused"} : Begin(r, a, next)
  BY DEF ReadOpening, CorrectCost
<1>3. DOMAIN sheet = Requests /\ Sound(bill, payment, rebate) /\ ReceiptsOK(bill, receipt)
  BY DEF Quiet, OneWrites
<1>4. MovesWell(r)
  BY <1>1, <1>3, BooksUnchanged
<1>5. ReceiptsOK(bill', receipt')
  BY <1>1, <1>3, <1>4, ReceiptsStay
<1>6. payment' = payment /\ Held(bill', payment', rebate', a) /\ a.kind # "correct"
  BY <1>1 DEF Held, books
<1>7. Quiet'
  BY <1>1, <1>2, <1>3, <1>4, <1>5, <1>6, QuietAfterBegin DEF MovesWell
<1> QED
  BY <1>4, <1>7 DEF Outcome, MovesWell, BooksMove

LEMMA NoStep ==
  ASSUME Quiet, UNCHANGED <<payablesVars, receipt, sheet>> PROVE Outcome
<1>1. /\ bill' = bill /\ payment' = payment /\ rebate' = rebate /\ pc' = pc /\ ask' = ask
      /\ receipt' = receipt /\ sheet' = sheet
  BY DEF payablesVars, books
<1>2. Quiet'
  BY <1>1 DEF Quiet, OneWrites, Unpaid
<1> QED
  BY <1>1, <1>2 DEF Outcome, Undercut, CreditsStay

LEMMA QuietStep ==
  ASSUME Quiet, ~overlapped', [Next]_vars PROVE Outcome
<1>1. ASSUME NEW r \in Requests, Books(r) \/ Correct(r) \/ RecordOpening(r) PROVE Outcome
  BY <1>1, BooksStep, CorrectStep, OpeningStep
<1>2. ASSUME NEW r \in Requests, NEW a \in Asks,
             Deliver(r, a) \/ ReadDelivery(r, a) \/ ReadOpening(r, a) \/ CorrectCost(r, a)
      PROVE  Outcome
  BY <1>2, DeliverStep, ReadDeliveryStep, OtherBeginStep
<1>3. ASSUME NEW x \in Lots, NEW g \in Goods, Sell(x, g) PROVE Outcome
  BY <1>3, NoStep DEF Sell
<1>4. CASE UNCHANGED vars
  BY <1>4, NoStep DEF vars, goodsVars
<1> QED
  BY <1>1, <1>2, <1>3, <1>4 DEF Next

\* Once two requests have been under way together, it is remembered.
LEMMA OverlapStays ==
  ASSUME overlapped \in BOOLEAN, [Next]_vars
  PROVE  overlapped' \in BOOLEAN /\ (overlapped => overlapped')
<1>1. ASSUME NEW r, NEW a, NEW next, Begin(r, a, next)
      PROVE  overlapped' \in BOOLEAN /\ (overlapped => overlapped')
  BY <1>1 DEF Begin
<1>2. ASSUME NEW r, NEW how, End(r, how) PROVE overlapped' = overlapped
  BY <1>2 DEF End
<1>3. ASSUME NEW r \in Requests, Books(r) PROVE overlapped' \in BOOLEAN /\ (overlapped => overlapped')
  <2>1. CASE \E a \in Asks : ReadBooks(r, a)
    BY <1>1, <2>1 DEF ReadBooks
  <2>2. CASE WriteBooks(r)
    BY <1>2, <2>2, WritesEnd
  <2> QED
    BY <1>3, <2>1, <2>2 DEF Books
<1>4. ASSUME NEW r \in Requests, Correct(r) \/ RecordOpening(r) PROVE overlapped' = overlapped
  BY <1>2, <1>4 DEF Correct, RecordOpening
<1>5. ASSUME NEW r \in Requests, NEW a \in Asks,
             Deliver(r, a) \/ ReadDelivery(r, a) \/ ReadOpening(r, a) \/ CorrectCost(r, a)
      PROVE  overlapped' \in BOOLEAN /\ (overlapped => overlapped')
  <2>1. \E next : Begin(r, a, next)
    BY <1>5 DEF Deliver, ReadDelivery, ReadOpening, CorrectCost
  <2> QED
    BY <1>1, <2>1
<1>6. ASSUME NEW x \in Lots, NEW g \in Goods, Sell(x, g) PROVE overlapped' = overlapped
  BY <1>6 DEF Sell, payablesVars
<1>7. CASE UNCHANGED vars
  BY <1>7 DEF vars, payablesVars
<1> QED
  BY <1>3, <1>4, <1>5, <1>6, <1>7 DEF Next

-----------------------------------------------------------------------------
(* The invariant, and what follows.                                        *)

LEMMA InitQuiet == Init => IInv
<1> SUFFICES ASSUME Init PROVE Quiet /\ overlapped \in BOOLEAN
  BY DEF IInv
<1>1. PICK start \in OpeningBooks : bill = start.bill /\ payment = start.payment /\ rebate = start.rebate
  BY DEF Init, BooksInit
<1>2. PICK goods \in OpeningGoods : receipt = goods.receipt
  BY DEF Init
<1>3. /\ pc = [r \in Requests |-> "idle"] /\ ask = [r \in Requests |-> None]
      /\ sheet = [r \in Requests |-> <<>>] /\ overlapped = FALSE
  BY DEF Init, BooksInit
<1>4. RowsOK(bill, payment, rebate)
  BY <1>1, OpeningBooksAssumption DEF RowsOK
<1>5. WithinDue(bill, payment)
  <2> SUFFICES ASSUME NEW b \in Bills, bill[b].state = "live" PROVE PaidOn(payment, b) <= bill[b].due
    BY DEF WithinDue
  <2> DEFINE on == {p \in Payments : payment[p] # None /\ payment[p].bill = b /\ payment[p].live}
  <2>1. SumFunction([p \in on |-> payment[p].amount]) <= bill[b].due
    BY <1>1, OpeningBooksAssumption
  <2>2. [p \in on |-> payment[p].amount] = [p \in on |-> IF payment[p] = None THEN 0 ELSE payment[p].amount]
    OBVIOUS
  <2>3. SumFunction([p \in on |-> IF payment[p] = None THEN 0 ELSE payment[p].amount]) = PaidOn(payment, b)
    BY <1>4, PaidAsRead DEF RowsOK
  <2> QED
    BY <2>1, <2>2, <2>3
<1>6. OnLiveBills(bill, payment) /\ Unpaid
  <2>1. \A r \in Requests : payment[r] = None
    BY <1>1, OpeningBooksAssumption
  <2>2. \A p \in OldPayments : payment[p] # None /\ payment[p].live => bill[payment[p].bill].state = "live"
    BY <1>1, OpeningBooksAssumption
  <2> QED
    BY <2>1, <2>2 DEF OnLiveBills, Unpaid, Payments
<1>7. CreditsPlaced(bill, rebate)
  BY <1>1, OpeningBooksAssumption DEF CreditsPlaced, CreditedRow
<1>8. ReceiptsOK(bill, receipt)
  <2>0. DOMAIN receipt = Receipts
    BY <1>2, OpeningGoodsAssumption
  <2> SUFFICES ASSUME NEW c \in Receipts PROVE IsReceipt(bill, c, receipt[c])
    BY <2>0 DEF ReceiptsOK
  <2>1. /\ receipt \in [Receipts -> [fee : Nat, lines : Seq(LineRows)]]
        /\ receipt[c].lines = <<>> => bill[BillOf[c]].state = "none"
    BY <1>1, <1>2, OpeningGoodsAssumption
  <2>2. PICK lines \in Seq(LineRows) : lines = receipt[c].lines
    BY <2>1
  <2>3. DOMAIN lines = 1..Len(lines) /\ Len(lines) \in Nat /\ \A l \in DOMAIN lines : lines[l] \in LineRows
    OBVIOUS
  <2>4. IsFiniteSet(DOMAIN lines)
    BY <2>3, FS_Interval
  <2>5. \A l \in DOMAIN lines : "value" \in DOMAIN lines[l] /\ lines[l].value \in Nat
    BY <2>3 DEF LineRows
  <2>6. DOMAIN lines = {} => lines = <<>>
    <3> SUFFICES ASSUME DOMAIN lines = {} PROVE lines = <<>>
      OBVIOUS
    <3>1. Len(lines) = 0
      BY <2>3
    <3> QED
      BY <3>1
  <2> QED
    BY <2>1, <2>2, <2>4, <2>5, <2>6 DEF IsReceipt
<1>9. OneWrites
  BY <1>3 DEF OneWrites
<1> QED
  BY <1>3, <1>4, <1>5, <1>6, <1>7, <1>8, <1>9 DEF Quiet, Sound

LEMMA StepInv == IInv /\ [Next]_vars => IInv'
  BY OverlapStays, QuietStep DEF IInv, Outcome

THEOREM SpecInv == Spec => []IInv
  BY InitQuiet, StepInv, PTL DEF Spec

\* A vendor's account adds up, for any number of requests, bills, payments and
\* rebates: supplier-bill.service, supplier-payment.service and vendor-rebate.service
\* keep what was paid within what was billed, on bills that are there, and the
\* statement's totals come to it, as long as no two requests overlap.
THEOREM VendorsAccountAddsUp == Spec => []AccountAddsUp
<1>1. IInv => AccountAddsUp
  <2> SUFFICES ASSUME IInv, ~overlapped PROVE AccountAddsUp
    BY DEF IInv, AccountAddsUp, PaidWithinDue, SettledBillIsThere, StatementAddsUp
  <2>1. Sound(bill, payment, rebate)
    BY DEF IInv, Quiet
  <2>2. PaidWithinDue
    BY <2>1, ReadNow DEF PaidWithinDue, Sound, WithinDue, LiveBill
  <2>3. SettledBillIsThere
    BY <2>1 DEF SettledBillIsThere, Sound, OnLiveBills, LiveBill
  <2> QED
    BY <2>1, <2>2, <2>3, StatementOfSoundBooks DEF AccountAddsUp
<1> QED
  BY <1>1, SpecInv, PTL

\* Nothing but an edit of its amount takes a bill below what was paid and credited,
\* and a credit stays on its bill until it is taken off: the balance every handler of
\* payables checks is the one it leaves, while no two requests overlap.
THEOREM VendorsCreditsHold == Spec => CreditsHold
<1>1. IInv /\ [Next]_vars => [OnlyAnEditUndercuts /\ CreditStays]_payablesVars
  <2> SUFFICES ASSUME IInv, [Next]_vars, ~overlapped' PROVE OnlyAnEditUndercuts /\ CreditStays
    BY DEF OnlyAnEditUndercuts, CreditStays
  <2>1. Quiet /\ Outcome
    BY OverlapStays, QuietStep DEF IInv
  <2>2. RowsOK(bill, payment, rebate) /\ RowsOK(bill', payment', rebate')
    BY <2>1 DEF Outcome, Quiet, Sound
  <2>3. \A b \in Bills : Balance(b) = Owes(bill, payment, rebate, b)
    BY <2>2, ReadNow
  <2>4. \A b \in Bills : Balance(b)' = Owes(bill', payment', rebate', b)
    BY <2>2, ReadNext
  <2>5. OnlyAnEditUndercuts
    <3> SUFFICES ASSUME NEW b \in Bills, bill'[b].state = "live", Balance(b)' < 0
                 PROVE  Balance(b) < 0 \/ Editing(b)
      BY DEF OnlyAnEditUndercuts, LiveBill
    <3>1. Owes(bill', payment', rebate', b) < 0
      BY <2>4
    <3>2. Owes(bill, payment, rebate, b) < 0 \/ Editing(b)
      BY <2>1, <3>1 DEF Outcome, Undercut
    <3> QED
      BY <2>3, <3>2
  <2>6. CreditStays
    BY <2>1 DEF CreditStays, Outcome, CreditsStay
  <2> QED
    BY <2>5, <2>6
<1> QED
  BY <1>1, SpecInv, PTL DEF Spec, CreditsHold

-----------------------------------------------------------------------------
(* The fee. *)

\* Lines with what came and what it was worth, of which something came.
IsShareable(lines) ==
  /\ IsFiniteSet(DOMAIN lines) /\ DOMAIN lines \subseteq Int
  /\ \A l \in DOMAIN lines : lines[l].received \in Nat /\ lines[l].value \in Nat
  /\ HasSomewhereToGo(lines)

LEMMA WeightsAreThere ==
  ASSUME NEW lines, IsShareable(lines)
  PROVE  /\ Weights(lines) \in [DOMAIN lines -> Nat]
         /\ \E l \in DOMAIN lines : Weights(lines)[l] > 0
         /\ \A l \in DOMAIN lines : lines[l].received = 0 => Weights(lines)[l] = 0
<1> DEFINE D == DOMAIN lines
           byValue == [l \in D |-> IF lines[l].received > 0 THEN lines[l].value ELSE 0]
<1>1. byValue \in [D -> Nat]
  BY DEF IsShareable
<1>2. \A l \in D : lines[l].received = 0 => byValue[l] = 0
  OBVIOUS
<1> HIDE DEF byValue
<1>3. CASE \E l \in D : byValue[l] > 0
  <2>1. Weights(lines) = byValue
    BY <1>3 DEF Weights, byValue
  <2>2. QED
    BY <1>1, <1>2, <1>3, <2>1
<1>4. CASE ~ \E l \in D : byValue[l] > 0
  <2>1. Weights(lines) = [l \in D |-> lines[l].received]
    BY <1>4 DEF Weights, byValue
  <2>2. QED
    BY <2>1 DEF IsShareable, HasSomewhereToGo
<1>5. QED
  BY <1>3, <1>4

\* What each line gets: its part rounded down, and one more for some.
IsShareOut(lines, fee, share, total, whole, rest, F) ==
  LET D == DOMAIN lines
      w == Weights(lines)
  IN  /\ total \in Nat \ {0} /\ whole \in [D -> Nat] /\ rest \in [D -> Nat] /\ F \subseteq D
      /\ total = SumFunction(w) /\ DOMAIN share = D
      /\ \A l \in D : /\ fee * w[l] = total * whole[l] + rest[l] /\ rest[l] < total
                      /\ share[l] = whole[l] + (IF l \in F THEN 1 ELSE 0)
                      /\ l \in F => rest[l] > 0
      /\ \A l \in F, k \in D : rest[k] > rest[l] => k \in F
      /\ SumFunction(share) = fee

LEMMA FeeIsShared ==
  ASSUME NEW lines, IsShareable(lines), NEW fee \in Nat, fee > 0
  PROVE  \E total, whole, rest, F : IsShareOut(lines, fee, SplitFee(fee, lines), total, whole, rest, F)
<1> DEFINE D == DOMAIN lines
           w == Weights(lines)
           total == SumFunction(w)
           part == [l \in D |-> fee * w[l]]
           whole == [l \in D |-> (fee * w[l]) \div total]
           rest == [l \in D |-> (fee * w[l]) % total]
           left == fee - SumFunction(whole)
           P == {l \in D : w[l] > 0}
           T == {l \in D : rest[l] > 0}
           R == {p \in P \X P : rest[p[1]] > rest[p[2]] \/ (rest[p[1]] = rest[p[2]] /\ p[1] < p[2])}
           before(l) == {k \in D : /\ w[k] > 0
                                   /\ \/ rest[k] > rest[l]
                                      \/ rest[k] = rest[l] /\ k < l}
           F == FirstFew(R, P, left)
           share == SplitFee(fee, lines)
<1>1. /\ IsFiniteSet(D) /\ D \subseteq Int /\ w \in [D -> Nat] /\ \E l \in D : w[l] > 0
  BY WeightsAreThere DEF IsShareable
<1>2. total = SumFunctionOnSet(w, D) /\ SumFunction(whole) = SumFunctionOnSet(whole, D)
  BY <1>1 DEF SumFunction
<1>3. share = [l \in D |-> whole[l] + IF w[l] > 0 /\ Cardinality(before(l)) < left THEN 1 ELSE 0]
  BY DEF SplitFee
<1>a. \A i, j \in P : <<i, j>> \in R <=> rest[i] > rest[j] \/ (rest[i] = rest[j] /\ i < j)
  OBVIOUS
<1>b. \A l \in P : before(l) = Ahead(R, P, l)
  BY DEF Ahead
<1>c. \A l \in D : share[l] = whole[l] + IF w[l] > 0 /\ Cardinality(before(l)) < left THEN 1 ELSE 0
  BY <1>3
<1>d. DOMAIN share = D
  BY <1>3
<1> HIDE DEF before, R
<1> HIDE DEF w, share
<1>4. total \in Nat \ {0}
  <2>1. total \in Nat /\ \A l \in D : w[l] <= total
    BY <1>1, <1>2, SumIsMost
  <2>2. QED BY <1>1, <2>1
<1> HIDE DEF total
<1>5. \A l \in D : /\ fee * w[l] \in Nat /\ (fee * w[l]) \div total \in Int /\ (fee * w[l]) % total \in Nat
                   /\ (fee * w[l]) % total < total
                   /\ fee * w[l] = total * ((fee * w[l]) \div total) + ((fee * w[l]) % total)
  <2> TAKE l \in D
  <2>1. fee * w[l] \in Nat
    BY <1>1
  <2> DEFINE n == fee * w[l]
  <2>2. n \in Int
    BY <2>1
  <2> HIDE DEF n
  <2>3. n \div total \in Int /\ n % total \in Nat /\ n % total < total /\ n = total * (n \div total) + (n % total)
    BY <1>4, <2>2, QuotientAndRest
  <2>4. QED
    BY <2>1, <2>3 DEF n
<1>6. \A l \in D : /\ part[l] = fee * w[l] /\ part[l] \in Nat
                   /\ whole[l] \in Int /\ rest[l] \in Nat /\ rest[l] < total
                   /\ part[l] = total * whole[l] + rest[l]
  BY <1>5
<1>7. rest \in [D -> Nat]
  BY <1>5
<1>8. DOMAIN whole = D /\ whole = [l \in D |-> whole[l]]
  OBVIOUS
<1> HIDE DEF part, whole, rest
<1>9. \A l \in D : whole[l] \in Nat
  <2> TAKE l \in D
  <2>1. SUFFICES ASSUME whole[l] < 0 PROVE FALSE
    BY <1>6
  <2>2. PICK k \in Nat : whole[l] = -1 - k
    <3>1. -1 - whole[l] \in Nat /\ whole[l] = -1 - (-1 - whole[l])
      BY <1>6, <2>1
    <3>2. QED BY <3>1
  <2>3. total * (-1 - k) = -total - total * k /\ total * k \in Nat
    BY <1>4
  <2>4. QED
    BY <1>4, <1>6, <2>2, <2>3
<1>10. whole \in [D -> Nat]
  BY <1>8, <1>9
<1>11. /\ SumFunctionOnSet(part, D) = fee * total
       /\ SumFunctionOnSet(part, D) = total * SumFunctionOnSet(whole, D) + SumFunctionOnSet(rest, D)
       /\ SumFunctionOnSet(whole, D) \in Int /\ SumFunctionOnSet(rest, D) \in Nat
  <2> DEFINE times == [l \in D |-> total * whole[l]]
  <2>1. \A l \in D : w[l] \in Int /\ part[l] = fee * w[l]
    BY <1>1, <1>6
  <2>2. SumFunctionOnSet(part, D) = fee * SumFunctionOnSet(w, D)
    BY <1>1, <2>1, SumScaled
  <2>3. \A l \in D : whole[l] \in Int /\ rest[l] \in Int /\ times[l] = total * whole[l] /\ times[l] \in Int
    BY <1>4, <1>6
  <2>4. \A l \in D : part[l] = times[l] + rest[l]
    BY <1>6
  <2> HIDE DEF times
  <2>5. SumFunctionOnSet(times, D) = total * SumFunctionOnSet(whole, D)
    BY <1>1, <1>4, <2>3, SumScaled
  <2>6. SumFunctionOnSet(part, D) = SumFunctionOnSet(times, D) + SumFunctionOnSet(rest, D)
    BY <1>1, <2>3, <2>4, SumOfSums
  <2>7. QED
    BY <1>1, <1>2, <1>6, <2>2, <2>3, <2>5, <2>6, SumType, SumIsMost
<1>12. left \in Int /\ total * left = SumFunctionOnSet(rest, D)
  <2> DEFINE s == SumFunctionOnSet(whole, D)
  <2>1. s \in Int
    BY <1>11
  <2>2. fee * total = total * s + SumFunctionOnSet(rest, D)
    BY <1>11
  <2> HIDE DEF s
  <2>3. total * (fee - s) = fee * total - total * s
    BY <1>4, <2>1
  <2>4. left = fee - s
    BY <1>2 DEF s
  <2>5. total * s \in Int /\ fee * total \in Int
    BY <1>4, <2>1
  <2> HIDE DEF left
  <2>6. QED
    BY <1>11, <2>1, <2>2, <2>3, <2>4, <2>5
<1> HIDE DEF left
<1>13. left \in Nat
  <2>1. SUFFICES ASSUME left < 0 PROVE FALSE
    BY <1>12
  <2>2. PICK k \in Nat : left = -1 - k
    <3>1. -1 - left \in Nat /\ left = -1 - (-1 - left)
      BY <1>12, <2>1
    <3>2. QED BY <3>1
  <2>3. total * (-1 - k) = -total - total * k /\ total * k \in Nat
    BY <1>4
  <2>4. QED
    BY <1>4, <1>11, <1>12, <2>2, <2>3
<1>14. /\ T \subseteq P /\ P \subseteq D /\ IsFiniteSet(P) /\ IsFiniteSet(T)
       /\ Cardinality(T) \in Nat /\ Cardinality(T) <= Cardinality(P) /\ Cardinality(P) \in Nat
  <2>1. \A l \in D : rest[l] > 0 => w[l] > 0
    <3> SUFFICES ASSUME NEW l \in D, w[l] = 0 PROVE rest[l] = 0
      BY <1>1, <1>6
    <3>1. part[l] = 0
      BY <1>6
    <3>2. total * whole[l] \in Nat
      BY <1>4, <1>9
    <3>3. QED
      BY <1>6, <3>1, <3>2
  <2>2. T \subseteq P /\ P \subseteq D
    BY <2>1
  <2>3. IsFiniteSet(P) /\ IsFiniteSet(T)
    BY <1>1, <2>2, FS_Subset
  <2>4. QED
    BY <2>2, <2>3, FS_Subset, FS_CardinalityType
<1>15. left <= Cardinality(T)
  <2> DEFINE one == [l \in D |-> IF l \in T THEN 1 ELSE 0]
             most == [l \in D |-> (total - 1) * one[l]]
             n == Cardinality(T)
  <2>1. SumFunctionOnSet(one, D) = n
    <3>1. T \subseteq D /\ \A l \in D : one[l] = IF l \in T THEN 1 ELSE 0
      OBVIOUS
    <3> HIDE DEF one, T
    <3>2. QED BY <1>1, <3>1, SumOfOnes
  <2>2. \A l \in D : one[l] \in Int /\ (l \in T => one[l] = 1) /\ (l \notin T => one[l] = 0)
    OBVIOUS
  <2>3. \A l \in D : most[l] = (total - 1) * one[l]
    OBVIOUS
  <2> HIDE DEF one, most
  <2>4. total - 1 \in Int
    BY <1>4
  <2>5. SumFunctionOnSet(most, D) = (total - 1) * n
    <3> HIDE DEF n
    <3>1. QED BY <1>1, <2>1, <2>2, <2>3, <2>4, SumScaled
  <2>6. \A l \in D : rest[l] \in Int /\ most[l] \in Int /\ rest[l] <= most[l]
    <3> TAKE l \in D
    <3>1. CASE l \in T
      <4>1. most[l] = total - 1
        BY <1>4, <2>2, <2>3, <3>1
      <4>2. QED BY <1>4, <1>6, <4>1
    <3>2. CASE l \notin T
      <4>1. rest[l] = 0
        BY <1>6, <3>2
      <4>2. most[l] = 0
        BY <1>4, <2>2, <2>3, <3>2
      <4>3. QED BY <4>1, <4>2
    <3>3. QED BY <3>1, <3>2
  <2>7. total * left <= (total - 1) * n
    BY <1>1, <1>12, <2>5, <2>6, SumNoMore
  <2>8. n \in Nat
    BY <1>14
  <2> HIDE DEF n
  <2>9. SUFFICES ASSUME left > n PROVE FALSE
    BY <1>13, <2>8 DEF n
  <2>10. PICK k \in Nat : left = n + 1 + k
    <3>1. left - n - 1 \in Nat /\ left = n + 1 + (left - n - 1)
      BY <1>13, <2>8, <2>9
    <3>2. QED BY <3>1
  <2>11. total * (n + 1 + k) = total * n + total + total * k /\ total * k \in Nat
    BY <1>4, <2>8
  <2>12. (total - 1) * n = total * n - n /\ total * n \in Nat
    BY <1>4, <2>8
  <2>13. QED
    BY <1>4, <2>7, <2>8, <2>10, <2>11, <2>12
<1>16. TotalOrder(R, P)
  <2>2. \A i \in P : i \in Int /\ rest[i] \in Int
    BY <1>1, <1>6
  <2> HIDE DEF P
  <2>3. \A i \in P : <<i, i>> \notin R
    BY <1>a, <2>2
  <2>4. ASSUME NEW i \in P, NEW j \in P, i # j PROVE <<i, j>> \in R \/ <<j, i>> \in R
    <3>1. rest[i] > rest[j] \/ rest[j] > rest[i] \/ (rest[i] = rest[j] /\ (i < j \/ j < i))
      BY <2>2, <2>4
    <3>2. QED BY <1>a, <3>1
  <2>5. \A i, j, k \in P : <<i, j>> \in R /\ <<j, k>> \in R => <<i, k>> \in R
    BY <1>a, <2>2
  <2>6. QED
    BY <2>3, <2>4, <2>5 DEF TotalOrder
<1>17. Cardinality(F) = left
  <2> HIDE DEF P, T
  <2>1. QED
    BY <1>13, <1>14, <1>15, <1>16, FirstFewAre
<1>18. \A l \in D : share[l] = whole[l] + (IF l \in F THEN 1 ELSE 0)
  <2> TAKE l \in D
  <2>1. l \in P <=> w[l] > 0
    OBVIOUS
  <2>2. l \in F <=> l \in P /\ Cardinality(Ahead(R, P, l)) < left
    BY DEF FirstFew
  <2> HIDE DEF F, P
  <2>3. QED
    BY <1>b, <1>c, <2>1, <2>2
<1>19. F \subseteq P
  BY DEF FirstFew
<1>20. \A l \in F : rest[l] > 0
  <2> SUFFICES ASSUME NEW l \in F, rest[l] = 0 PROVE FALSE
    BY <1>6, <1>19
  <2>1. T \subseteq Ahead(R, P, l)
    <3>1. \A k \in T : k \in P /\ rest[k] > rest[l]
      BY <1>14
    <3>2. QED
      BY <1>a, <1>19, <3>1 DEF Ahead
  <2>2. IsFiniteSet(Ahead(R, P, l)) /\ Cardinality(Ahead(R, P, l)) \in Nat
    BY <1>14, FS_Subset, FS_CardinalityType DEF Ahead
  <2>3. Cardinality(T) <= Cardinality(Ahead(R, P, l))
    <3> HIDE DEF T
    <3> QED BY <2>1, <2>2, FS_Subset
  <2>4. Cardinality(Ahead(R, P, l)) < left
    BY DEF FirstFew
  <2> HIDE DEF T, P
  <2>5. QED
    BY <1>13, <1>14, <1>15, <2>2, <2>3, <2>4
<1>21. \A l \in F, k \in D : rest[k] > rest[l] => k \in F
  <2> SUFFICES ASSUME NEW l \in F, NEW k \in D, rest[k] > rest[l] PROVE k \in F
    OBVIOUS
  <2>1. l \in P /\ Cardinality(Ahead(R, P, l)) < left
    BY DEF FirstFew
  <2>2. k \in P
    BY <1>6, <1>14, <2>1
  <2>3. <<k, l>> \in R
    BY <1>a, <2>1, <2>2
  <2> HIDE DEF P, T
  <2>4. Ahead(R, P, k) \subseteq Ahead(R, P, l)
    BY <1>16, <2>1, <2>2, <2>3 DEF Ahead, TotalOrder
  <2>5. /\ IsFiniteSet(Ahead(R, P, l)) /\ IsFiniteSet(Ahead(R, P, k))
        /\ Cardinality(Ahead(R, P, l)) \in Nat /\ Cardinality(Ahead(R, P, k)) \in Nat
    BY <1>14, FS_Subset, FS_CardinalityType DEF Ahead
  <2>6. Cardinality(Ahead(R, P, k)) <= Cardinality(Ahead(R, P, l))
    BY <2>4, <2>5, FS_Subset
  <2>7. QED
    BY <1>13, <2>1, <2>2, <2>5, <2>6 DEF FirstFew
<1>22. SumFunctionOnSet(share, D) = fee
  <2> DEFINE one == [l \in D |-> IF l \in F THEN 1 ELSE 0]
  <2>1. SumFunctionOnSet(one, D) = left
    <3>1. F \subseteq D /\ \A l \in D : one[l] = IF l \in F THEN 1 ELSE 0
      BY <1>14, <1>19
    <3> HIDE DEF one, F
    <3>2. QED BY <1>1, <1>17, <3>1, SumOfOnes
  <2>2. \A l \in D : one[l] \in Int /\ share[l] = whole[l] + one[l]
    BY <1>18
  <2> HIDE DEF one
  <2>3. SumFunctionOnSet(share, D) = SumFunctionOnSet(whole, D) + SumFunctionOnSet(one, D)
    BY <1>1, <1>9, <2>2, SumOfSums
  <2>4. QED
    BY <1>2, <1>11, <2>1, <2>3 DEF left
<1>23. F \in SUBSET D
  BY <1>14, <1>19
<1> HIDE DEF F, P, T
<1>24. SumFunction(share) = fee
  BY <1>d, <1>22 DEF SumFunction
<1>25. total = SumFunction(w)
  BY DEF total
<1>26. IsShareOut(lines, fee, share, total, whole, rest, F)
  <2> HIDE DEF w
  <2>1. \A l \in D : /\ fee * w[l] = total * whole[l] + rest[l] /\ rest[l] < total
                     /\ share[l] = whole[l] + (IF l \in F THEN 1 ELSE 0)
                     /\ l \in F => rest[l] > 0
    <3> TAKE l \in D
    <3>1. fee * w[l] = total * whole[l] + rest[l] /\ rest[l] < total
      BY <1>6
    <3>2. share[l] = whole[l] + (IF l \in F THEN 1 ELSE 0)
      BY <1>18
    <3>3. l \in F => rest[l] > 0
      BY <1>20
    <3>4. QED
      BY <3>1, <3>2, <3>3, Zenon
  <2>2. QED
    BY <1>4, <1>7, <1>10, <1>21, <1>d, <1>23, <1>24, <1>25, <2>1 DEF IsShareOut, w
<1>27. QED
  BY <1>26 DEF share

\* splitDeliveryFee is fair whatever the fee and the lines: the shares come to the fee,
\* none is off its exact part by one, and the dearer line has no less.
THEOREM FeeIsSharedFairly ==
  ASSUME NEW lines, IsShareable(lines), NEW fee \in Nat, fee > 0
  PROVE  IsFairSplit(fee, lines, SplitFee(fee, lines))
<1> DEFINE D == DOMAIN lines
           w == Weights(lines)
           share == SplitFee(fee, lines)
<1>1. PICK total, whole, rest, F : IsShareOut(lines, fee, share, total, whole, rest, F)
  BY FeeIsShared
<1>2. w \in [D -> Nat] /\ D \subseteq Int
  BY WeightsAreThere DEF IsShareable
<1> HIDE DEF share
<1>3. /\ total \in Nat \ {0} /\ whole \in [D -> Nat] /\ rest \in [D -> Nat] /\ F \subseteq D
      /\ total = SumFunction(w) /\ SumFunction(share) = fee
      /\ \A l \in D : /\ fee * w[l] = total * whole[l] + rest[l] /\ rest[l] < total
                      /\ share[l] = whole[l] + (IF l \in F THEN 1 ELSE 0)
                      /\ l \in F => rest[l] > 0
      /\ \A l \in F, k \in D : rest[k] > rest[l] => k \in F
  BY <1>1 DEF IsShareOut
<1> HIDE DEF w, D
<1>a. total \in Nat \ {0} /\ fee \in Nat \ {0}
  BY <1>3
<1>b. \A m, n \in Nat, d \in Nat \ {0} :
        /\ d * n \in Nat /\ n * d = d * n /\ (n + 1) * d = d * n + d
        /\ d * (n + 1 + m) = d * n + d + d * m /\ (d * n = 0 => n = 0)
  OBVIOUS
<1>c. \A l \in D : /\ whole[l] \in Nat /\ w[l] \in Nat /\ rest[l] \in Nat
                   /\ fee * w[l] = total * whole[l] + rest[l] /\ rest[l] < total
  BY <1>2, <1>3
<1>d. \A l \in D : (share[l] = whole[l] /\ l \notin F) \/ (share[l] = whole[l] + 1 /\ rest[l] > 0 /\ l \in F)
  <2> TAKE l \in D
  <2>1. share[l] = whole[l] + (IF l \in F THEN 1 ELSE 0) /\ (l \in F => rest[l] > 0)
    BY <1>3, Zenon
  <2>2. whole[l] \in Nat
    BY <1>c
  <2>3. QED BY <2>1, <2>2
<1>e. \A l \in F, k \in D : rest[k] > rest[l] => k \in F
  BY <1>3
<1>4. ASSUME NEW l \in D
      PROVE  /\ share[l] * total < fee * w[l] + total /\ share[l] * total > fee * w[l] - total
             /\ w[l] = 0 => share[l] = 0
  <2> DEFINE s == whole[l]
             n == w[l]
             e == rest[l]
  <2>1. s \in Nat /\ n \in Nat /\ e \in Nat /\ fee * n = total * s + e /\ e < total
    BY <1>c
  <2>2. (share[l] = s /\ l \notin F) \/ (share[l] = s + 1 /\ e > 0 /\ l \in F)
    BY <1>d
  <2> HIDE DEF s, n, e
  <2>3. total * s \in Nat /\ fee * n \in Nat /\ s * total = total * s /\ (s + 1) * total = total * s + total
    BY <1>a, <1>b, <2>1
  <2>4. share[l] * total < fee * n + total /\ share[l] * total > fee * n - total
    <3>1. CASE share[l] = s
      <4>1. share[l] * total = total * s
        BY <2>3, <3>1
      <4>2. QED BY <1>a, <2>1, <2>3, <4>1
    <3>2. CASE share[l] = s + 1 /\ e > 0
      <4>1. share[l] * total = total * s + total
        BY <2>3, <3>2
      <4>2. QED BY <1>a, <2>1, <2>3, <3>2, <4>1
    <3>3. QED BY <2>2, <3>1, <3>2
  <2>5. ASSUME n = 0 PROVE share[l] = 0
    <3>0. fee * n = 0
      BY <1>a, <2>5
    <3>1. total * s + e = 0
      BY <2>1, <3>0
    <3>2. e = 0 /\ total * s = 0
      BY <2>1, <2>3, <3>1
    <3>3. s = 0
      BY <1>a, <1>b, <2>1, <3>2
    <3>4. QED
      BY <2>2, <3>2, <3>3
  <2>6. QED
    BY <2>4, <2>5 DEF n
<1>5. ASSUME NEW l \in D, NEW k \in D, w[k] > w[l] PROVE share[k] >= share[l]
  <2> DEFINE s == whole[l]
             n == w[l]
             e == rest[l]
             t == whole[k]
             q == w[k]
             f == rest[k]
  <2>1. s \in Nat /\ n \in Nat /\ e \in Nat /\ fee * n = total * s + e /\ e < total
    BY <1>c
  <2>2. t \in Nat /\ q \in Nat /\ f \in Nat /\ fee * q = total * t + f /\ f < total /\ q > n
    BY <1>c, <1>5
  <2>3. /\ (share[l] = s /\ l \notin F) \/ (share[l] = s + 1 /\ e > 0 /\ l \in F)
        /\ (share[k] = t /\ k \notin F) \/ (share[k] = t + 1 /\ f > 0 /\ k \in F)
    BY <1>d
  <2>4. l \in F /\ f > e => k \in F
    BY <1>e
  <2> HIDE DEF s, n, e, t, q, f
  <2>5. fee * q > fee * n
    <3>1. PICK m \in Nat : q = n + 1 + m
      <4>1. q - n - 1 \in Nat /\ q = n + 1 + (q - n - 1)
        BY <2>1, <2>2
      <4>2. QED BY <4>1
    <3>2. fee * (n + 1 + m) = fee * n + fee + fee * m /\ fee * m \in Nat /\ fee * n \in Nat
      BY <1>a, <1>b, <2>1
    <3>3. QED BY <1>a, <3>1, <3>2
  <2>6. total * s \in Nat /\ total * t \in Nat
    BY <1>a, <1>b, <2>1, <2>2
  <2>7. CASE t > s
    BY <2>1, <2>2, <2>3, <2>7
  <2>8. CASE t = s
    <3>1. total * t = total * s
      BY <2>8
    <3>2. f > e
      BY <2>1, <2>2, <2>5, <2>6, <3>1
    <3>3. QED
      BY <2>1, <2>2, <2>3, <2>4, <2>8, <3>2
  <2>9. CASE t < s
    <3>1. PICK m \in Nat : s = t + 1 + m
      <4>1. s - t - 1 \in Nat /\ s = t + 1 + (s - t - 1)
        BY <2>1, <2>2, <2>9
      <4>2. QED BY <4>1
    <3>2. /\ total * (t + 1 + m) = total * t + total + total * m /\ total * m \in Nat
      BY <1>a, <1>b, <2>2
    <3>3. total * s = total * t + total + total * m
      BY <3>1, <3>2
    <3>4. QED
      BY <1>a, <2>1, <2>2, <2>5, <2>6, <3>2, <3>3
  <2>10. QED
    BY <2>1, <2>2, <2>7, <2>8, <2>9
<1>6. IsFairSplit(fee, lines, share)
  <2>1. \A l \in DOMAIN lines :
           /\ share[l] * total < fee * w[l] + total /\ share[l] * total > fee * w[l] - total
           /\ w[l] = 0 => share[l] = 0
           /\ \A k \in DOMAIN lines : w[k] > w[l] => share[k] >= share[l]
    BY <1>4, <1>5 DEF D
  <2>2. QED
    BY <1>3, <2>1 DEF IsFairSplit, w
<1>7. QED
  BY <1>6 DEF share

-----------------------------------------------------------------------------
(* Lots for lines, and the figures of lines. *)

\* There are lots for the lines that need one.
LEMMA NewLotsAre ==
  ASSUME NEW S, IsFiniteSet(S), Cardinality(S) <= Cardinality(Unborn)
  PROVE  /\ NewLots(S) \in [S -> Unborn]
         /\ \A l, k \in S : NewLots(S)[l] = NewLots(S)[k] => l = k
<1> DEFINE U == Unborn
           m == Cardinality(S)
           n == Cardinality(U)
<1>1. IsFiniteSet(U)
  BY DeliveriesAssumption, FS_Subset DEF Unborn
<1>2. m \in Nat /\ n \in Nat /\ m <= n /\ ExistsBijection(1..m, S) /\ ExistsBijection(1..n, U)
  BY <1>1, FS_CardinalityType
<1>3. ExistsBijection(S, 1..m)
  BY <1>2, Fun_ExistsBijSymmetric
<1> HIDE DEF U, m, n
<1>4. PICK f : f \in Bijection(S, 1..m)
  BY <1>3 DEF ExistsBijection
<1>5. PICK g : g \in Bijection(1..n, U)
  BY <1>2 DEF ExistsBijection
<1>6. f \in [S -> 1..m] /\ \A l, k \in S : f[l] = f[k] => l = k
  BY <1>4 DEF Bijection, Injection, IsInjective
<1>7. g \in [1..n -> U] /\ \A i, j \in 1..n : g[i] = g[j] => i = j
  BY <1>5 DEF Bijection, Injection, IsInjective
<1>8. 1..m \subseteq 1..n
  BY <1>2
<1> DEFINE h == [l \in S |-> g[f[l]]]
<1>9. h \in [S -> U] /\ \A l, k \in S : h[l] = h[k] => l = k
  BY <1>6, <1>7, <1>8
<1> HIDE DEF h
<1>10. \E e \in [S -> Unborn] : \A l, k \in S : e[l] = e[k] => l = k
  BY <1>9 DEF U
<1>11. QED
  BY <1>10 DEF NewLots

\* The shares of a fee are whole sums, and come to it.
LEMMA SharesAre ==
  ASSUME NEW lines, IsFiniteSet(DOMAIN lines), DOMAIN lines \subseteq Int,
         \A l \in DOMAIN lines : lines[l].received \in Nat /\ lines[l].value \in Nat,
         NEW fee \in Nat, fee > 0 => HasSomewhereToGo(lines)
  PROVE  /\ SplitFee(fee, lines) \in [DOMAIN lines -> Nat]
         /\ SumFunction(SplitFee(fee, lines)) = fee
<1> DEFINE D == DOMAIN lines
           share == SplitFee(fee, lines)
<1>1. CASE fee > 0
  <2>1. IsShareable(lines)
    BY <1>1 DEF IsShareable
  <2>2. PICK total, whole, rest, F : IsShareOut(lines, fee, share, total, whole, rest, F)
    BY <1>1, <2>1, FeeIsShared
  <2>3. share = [l \in D |-> share[l]]
    BY <1>1 DEF SplitFee
  <2> HIDE DEF share
  <2>4. /\ SumFunction(share) = fee /\ whole \in [D -> Nat]
        /\ \A l \in D : share[l] = whole[l] + (IF l \in F THEN 1 ELSE 0)
    BY <2>2 DEF IsShareOut
  <2>5. \A l \in D : share[l] \in Nat
    BY <2>4
  <2>6. QED
    BY <2>3, <2>4, <2>5 DEF share
<1>2. CASE fee = 0
  <2>1. share = [l \in D |-> 0]
    BY <1>2 DEF SplitFee
  <2> HIDE DEF share
  <2>2. DOMAIN share = D /\ \A l \in D : share[l] = 0
    BY <2>1
  <2>3. SumFunctionOnSet(share, D) = 0
    BY <2>2, SumOfZeros
  <2>4. share \in [D -> Nat] /\ SumFunction(share) = 0
    BY <2>1, <2>2, <2>3 DEF SumFunction
  <2>5. QED
    BY <1>2, <2>4 DEF share
<1>3. QED
  BY <1>1, <1>2

\* What lines come to.
ValueOf(ls) == [l \in DOMAIN ls |-> ls[l].value]

LEMMA ValueIs ==
  ASSUME NEW ls, IsFiniteSet(DOMAIN ls), \A l \in DOMAIN ls : ls[l].value \in Nat
  PROVE  Value(ls) = SumFunctionOnSet(ValueOf(ls), DOMAIN ls) /\ Value(ls) \in Nat
<1>1. Value(ls) = SumFunctionOnSet(ValueOf(ls), DOMAIN ls)
  BY DEF Value, SumOver, SumFunction, ValueOf
<1>2. \A l \in DOMAIN ls : ValueOf(ls)[l] \in Nat
  BY DEF ValueOf
<1>3. QED
  BY <1>1, <1>2, SumIsMost

-----------------------------------------------------------------------------
(* A correction of lines. *)

\* The lots of the lines that were put right.
At(l, old, truths, newLot) == IF WrongProduct(l, old, truths) THEN newLot[l] ELSE old[l].lot

\* The lines as they stand have figures of their own.
LEMMA FiguresAreLines ==
  ASSUME NEW now \in Seq(LineRows), NEW changed, NEW old, NEW truths, NEW newLot,
         \A l \in changed : truths[l] \in Figures,
         \A l \in changed : WrongProduct(l, old, truths) => newLot[l] \in Lots
  PROVE  /\ Corrected(now, changed, old, truths, newLot) \in [DOMAIN now -> LineRows]
         /\ Corrected(now, changed, old, truths, newLot) \in Seq(LineRows)
<1> DEFINE figures == Corrected(now, changed, old, truths, newLot)
<1>1. figures = [l \in DOMAIN now |-> figures[l]] /\ DOMAIN figures = DOMAIN now
  BY DEF Corrected
<1>2. ASSUME NEW l \in DOMAIN now PROVE figures[l] \in LineRows
  <2>1. now[l] \in LineRows
    BY LinesAre
  <2>2. CASE l \notin changed
    BY <2>1, <2>2 DEF Corrected
  <2>3. CASE l \in changed
    <3> DEFINE goods == IF WrongProduct(l, old, truths) THEN truths[l].goods
                        ELSE <<now[l].goods[1], truths[l].goods[2]>>
               at == IF WrongProduct(l, old, truths) THEN newLot[l] ELSE now[l].lot
    <3>1. figures[l] = [now[l] EXCEPT !.received = truths[l].received, !.value = truths[l].value,
                                      !.goods = goods, !.lot = at]
      BY <2>3 DEF Corrected
    <3>2. goods \in Goods /\ at \in Lots
      BY <2>1, <2>3 DEF LineRows, Figures, Goods
    <3>3. truths[l].received \in Nat /\ truths[l].value \in Nat
      BY <2>3 DEF Figures
    <3> HIDE DEF goods, at, figures
    <3>4. QED
      BY <2>1, <3>1, <3>2, <3>3 DEF LineRows
  <2>4. QED BY <2>2, <2>3
<1> HIDE DEF figures
<1>3. figures \in [DOMAIN now -> LineRows]
  BY <1>1, <1>2
<1>4. QED
  BY <1>3, LinesFrom DEF figures

\* With the fee split again they are lines still, and but for the shares the same.
LEMMA ResharedLines ==
  ASSUME NEW lines \in Seq(LineRows), NEW fee \in Nat, fee > 0 => HasSomewhereToGo(lines), NEW old
  PROVE  LET new == Reshare(fee, lines, old)
         IN  /\ new \in Seq(LineRows) /\ DOMAIN new = DOMAIN lines
             /\ \A l \in DOMAIN lines : /\ new[l].goods = lines[l].goods /\ new[l].lot = lines[l].lot
                                        /\ new[l].received = lines[l].received
                                        /\ new[l].value = lines[l].value
             /\ SumFunction([l \in DOMAIN new |-> new[l].share]) = fee
<1> DEFINE new == Reshare(fee, lines, old)
           share == SplitFee(fee, lines)
<1>1. /\ IsFiniteSet(DOMAIN lines) /\ DOMAIN lines \subseteq Int
      /\ \A l \in DOMAIN lines : lines[l] \in LineRows
  BY LinesAre
<1>2. share \in [DOMAIN lines -> Nat] /\ SumFunction(share) = fee
  <2>1. \A l \in DOMAIN lines : lines[l].received \in Nat /\ lines[l].value \in Nat
    BY <1>1 DEF LineRows
  <2>2. QED BY <1>1, <2>1, SharesAre
<1>3. new = [l \in DOMAIN lines |-> [lines[l] EXCEPT !.share = share[l]]]
  BY DEF Reshare
<1> HIDE DEF new, share
<1>4. \A l \in DOMAIN lines : /\ new[l] \in LineRows /\ new[l].share = share[l]
                              /\ new[l].goods = lines[l].goods /\ new[l].lot = lines[l].lot
                              /\ new[l].received = lines[l].received
                              /\ new[l].value = lines[l].value
  <2> TAKE l \in DOMAIN lines
  <2>1. lines[l] \in LineRows /\ share[l] \in Nat /\ new[l] = [lines[l] EXCEPT !.share = share[l]]
    BY <1>1, <1>2, <1>3
  <2>2. QED BY <2>1 DEF LineRows
<1>5. DOMAIN new = DOMAIN lines /\ new \in [DOMAIN lines -> LineRows]
  BY <1>3, <1>4
<1>6. [l \in DOMAIN new |-> new[l].share] = share
  BY <1>2, <1>4, <1>5
<1>7. QED
  BY <1>2, <1>4, <1>5, <1>6, LinesFrom DEF new

-----------------------------------------------------------------------------
(* Types, whoever has been under way together.  What a request read is      *)
(* what it will write.                                                      *)

GoodsTyped ==
  /\ receipt \in [Receipts -> [fee : Nat, lines : Seq(LineRows)]] /\ lot \in [Lots -> LotRows]
  /\ moved \in [Lots -> [Goods -> Int]] /\ sold \in [Lots -> [Goods -> Nat]]
  /\ forced \subseteq Lots /\ agreed \in [Bills -> Int]

\* A delivery as a correction read it.
SheetOK(s, a) ==
  /\ s.lines \in Seq(LineRows) /\ s.fee \in Nat /\ s.due \in Nat
  /\ DOMAIN a.truths \subseteq DOMAIN s.lines
  /\ s.billed /\ By(s, a) # 0 => s.due + By(s, a) \in Nat

Reads(a, P, s) ==
  /\ a \in Asks /\ (a.kind = "void" => P[a.payment] # None)
  /\ (a.kind = "correct" => SheetOK(s, a))

AsksTyped ==
  /\ pc \in [Requests -> {"idle", "write", "done", "refused"}]
  /\ ask \in [Requests -> Asks \cup {None}] /\ overlapped \in BOOLEAN
  /\ DOMAIN sheet = Requests
  /\ \A r \in Requests : pc[r] = "write" => Reads(ask[r], payment, sheet[r])

TypeInv == RowsOK(bill, payment, rebate) /\ GoodsTyped /\ AsksTyped

\* No payment is ever gone.
PaymentsStay == \A p \in Payments : payment[p] # None => payment'[p] # None

LEMMA AsksBegin ==
  ASSUME AsksTyped, NEW r \in Requests, NEW a \in Asks, NEW next \in {"write", "done", "refused"},
         Begin(r, a, next), PaymentsStay, DOMAIN sheet' = Requests,
         \A s \in Requests \ {r} : sheet'[s] = sheet[s],
         next = "write" => Reads(a, payment', sheet'[r])
  PROVE  AsksTyped'
<1>1. /\ pc' = [pc EXCEPT ![r] = next] /\ ask' = [ask EXCEPT ![r] = a]
      /\ overlapped' = (overlapped \/ \E s \in Requests : pc[s] = "write")
  BY DEF Begin
<1>2. /\ pc' \in [Requests -> {"idle", "write", "done", "refused"}]
      /\ ask' \in [Requests -> Asks \cup {None}] /\ overlapped' \in BOOLEAN
  BY <1>1 DEF AsksTyped
<1>3. ASSUME NEW s \in Requests, pc'[s] = "write" PROVE Reads(ask'[s], payment', sheet'[s])
  <2>1. CASE s = r
    <3>1. ask'[s] = a /\ next = "write"
      BY <1>1, <1>3, <2>1 DEF AsksTyped
    <3>2. QED BY <2>1, <3>1
  <2>2. CASE s # r
    <3>1. pc[s] = "write" /\ ask'[s] = ask[s] /\ sheet'[s] = sheet[s]
      BY <1>1, <1>3, <2>2 DEF AsksTyped
    <3>2. Reads(ask[s], payment, sheet[s])
      BY <3>1 DEF AsksTyped
    <3>3. ask[s].kind = "void" => ask[s].payment \in Payments
      BY <3>2, BookAsksAssumption DEF Reads
    <3>4. QED BY <3>1, <3>2, <3>3 DEF Reads, PaymentsStay
  <2>3. QED BY <2>1, <2>2
<1>4. QED
  BY <1>2, <1>3 DEF AsksTyped

LEMMA AsksEnd ==
  ASSUME AsksTyped, NEW r \in Requests, NEW how \in {"done", "refused"}, End(r, how),
         PaymentsStay, DOMAIN sheet' = Requests, \A s \in Requests \ {r} : sheet'[s] = sheet[s]
  PROVE  AsksTyped'
<1>1. pc' = [pc EXCEPT ![r] = how] /\ ask' = ask /\ overlapped' = overlapped
  BY DEF End
<1>2. /\ pc' \in [Requests -> {"idle", "write", "done", "refused"}]
      /\ ask' \in [Requests -> Asks \cup {None}] /\ overlapped' \in BOOLEAN
  BY <1>1 DEF AsksTyped
<1>3. ASSUME NEW s \in Requests, pc'[s] = "write" PROVE Reads(ask'[s], payment', sheet'[s])
  <2>1. s # r /\ pc[s] = "write" /\ ask'[s] = ask[s]
    BY <1>1, <1>3 DEF AsksTyped
  <2>2. Reads(ask[s], payment, sheet[s]) /\ sheet'[s] = sheet[s]
    BY <2>1 DEF AsksTyped
  <2>3. ask[s].kind = "void" => ask[s].payment \in Payments
    BY <2>2, BookAsksAssumption DEF Reads
  <2>4. QED BY <2>1, <2>2, <2>3 DEF Reads, PaymentsStay
<1>4. QED
  BY <1>2, <1>3 DEF AsksTyped

\* The bills' own writes put a row where a row was.
LEMMA WritesKeepRows ==
  ASSUME TypeInv, NEW r \in Requests, WriteBooks(r)
  PROVE  /\ RowsOK(bill', payment', rebate') /\ PaymentsStay
         /\ \E how \in {"done", "refused"} : End(r, how)
<1> DEFINE a == ask[r]
<1>1. pc[r] = "write" => Reads(a, payment, sheet[r]) /\ a \in Asks
  BY DEF TypeInv, AsksTyped, Reads
<1>2. RowsOK(bill, payment, rebate) /\ r \in Payments
  BY DEF TypeInv, Payments
<1>3. CASE Enter(r)
  <2>1. CASE bill[a.bill].state # "none"
    BY <1>2, <1>3, <2>1 DEF Enter, books, PaymentsStay
  <2>2. CASE bill[a.bill].state = "none"
    <3>1. a.bill \in Bills /\ a.vendor \in Vendors /\ a.amount \in Nat
      BY <1>1, <1>3, BookAsksAssumption DEF Enter, Writes
    <3>2. /\ bill' = [bill EXCEPT ![a.bill] = [state |-> "live", vendor |-> a.vendor, due |-> a.amount]]
          /\ payment' = payment /\ rebate' = rebate /\ End(r, "done")
      BY <1>3, <2>2 DEF Enter
    <3>3. [state |-> "live", vendor |-> a.vendor, due |-> a.amount] \in BillRows
      BY <3>1 DEF BillRows
    <3>4. QED
      BY <1>2, <3>1, <3>2, <3>3 DEF RowsOK, PaymentsStay
  <2>3. QED BY <2>1, <2>2
<1>4. CASE Edit(r)
  <2>1. a.bill \in Bills /\ a.amount \in Nat
    BY <1>1, <1>4, BookAsksAssumption DEF Edit, Writes
  <2>2. /\ bill' = [bill EXCEPT ![a.bill].due = a.amount]
        /\ payment' = payment /\ rebate' = rebate /\ End(r, "done")
    BY <1>4 DEF Edit
  <2>3. bill' \in [Bills -> BillRows]
    BY <1>2, <2>1, <2>2 DEF RowsOK, BillRows
  <2>4. QED
    BY <1>2, <2>2, <2>3 DEF RowsOK, PaymentsStay
<1>5. CASE Remove(r)
  <2>1. a.bill \in Bills
    BY <1>1, <1>5, BookAsksAssumption DEF Remove, Writes
  <2>2. /\ bill' = [bill EXCEPT ![a.bill].state = "removed"]
        /\ payment' = payment /\ rebate' = rebate /\ End(r, "done")
    BY <1>5 DEF Remove
  <2>3. bill' \in [Bills -> BillRows]
    BY <1>2, <2>1, <2>2 DEF RowsOK, BillRows
  <2>4. QED
    BY <1>2, <2>2, <2>3 DEF RowsOK, PaymentsStay
<1>6. CASE Pay(r)
  <2>1. a.bill \in Bills /\ a.amount \in Nat \ {0}
    BY <1>1, <1>6, BookAsksAssumption DEF Pay, Writes
  <2>2. /\ payment' = [payment EXCEPT ![r] = [bill |-> a.bill, amount |-> a.amount, live |-> TRUE]]
        /\ bill' = bill /\ rebate' = rebate /\ End(r, "done")
    BY <1>6 DEF Pay
  <2>3. [bill |-> a.bill, amount |-> a.amount, live |-> TRUE] \in PaymentRows
    BY <2>1 DEF PaymentRows
  <2>4. QED
    BY <1>2, <2>2, <2>3, RowsAssumption DEF RowsOK, PaymentsStay
<1>7. CASE Void(r)
  <2>1. a.payment \in Payments /\ payment[a.payment] # None
    BY <1>1, <1>7, BookAsksAssumption DEF Void, Writes, Reads
  <2>2. /\ payment' = [payment EXCEPT ![a.payment].live = FALSE]
        /\ bill' = bill /\ rebate' = rebate /\ End(r, "done")
    BY <1>7 DEF Void
  <2>3. PICK row : row = [payment[a.payment] EXCEPT !.live = FALSE]
    OBVIOUS
  <2>4. row \in PaymentRows
    BY <1>2, <2>1, <2>3 DEF RowsOK, PaymentRows
  <2>5. payment' = [payment EXCEPT ![a.payment] = row]
    BY <2>2, <2>3
  <2>6. QED
    BY <1>2, <2>1, <2>2, <2>4, <2>5, RowsAssumption DEF RowsOK, PaymentsStay
<1>8. CASE Expect(r)
  <2>1. CASE rebate[a.rebate].state # "none"
    BY <1>2, <1>8, <2>1 DEF Expect, books, PaymentsStay
  <2>2. CASE rebate[a.rebate].state = "none"
    <3>1. a.rebate \in Rebates /\ a.amount \in Nat
      BY <1>1, <1>8, BookAsksAssumption DEF Expect, Writes
    <3>2. /\ rebate' = [rebate EXCEPT ![a.rebate].state = "expected", ![a.rebate].expected = a.amount]
          /\ bill' = bill /\ payment' = payment /\ End(r, "done")
      BY <1>8, <2>2 DEF Expect
    <3>3. rebate' \in [Rebates -> RebateRows]
      BY <1>2, <3>1, <3>2 DEF RowsOK, RebateRows
    <3>4. QED
      BY <1>2, <3>2, <3>3 DEF RowsOK, PaymentsStay
  <2>3. QED BY <2>1, <2>2
<1>9. ASSUME NEW kind, NEW row, OnRebate(r, kind, row), a.rebate \in Rebates => row \in RebateRows,
             kind \in {"reestimate", "drop", "credit", "uncredit"}
      PROVE  /\ RowsOK(bill', payment', rebate') /\ PaymentsStay
             /\ \E how \in {"done", "refused"} : End(r, how)
  <2>1. a.rebate \in Rebates
    BY <1>1, <1>9, BookAsksAssumption DEF OnRebate, Writes
  <2>2. CASE rebate[a.rebate].state = "none"
    BY <1>2, <1>9, <2>2 DEF OnRebate, books, PaymentsStay
  <2>3. CASE rebate[a.rebate].state # "none"
    <3>1. /\ rebate' = [rebate EXCEPT ![a.rebate] = row]
          /\ bill' = bill /\ payment' = payment /\ End(r, "done")
      BY <1>9, <2>3 DEF OnRebate
    <3>2. QED
      BY <1>2, <1>9, <2>1, <3>1 DEF RowsOK, PaymentsStay
  <2>4. QED BY <2>2, <2>3
<1>10. CASE Reestimate(r)
  <2>1. a \in Asks /\ a.amount \in Nat
    BY <1>1, <1>10, BookAsksAssumption DEF Reestimate, OnRebate, Writes
  <2>2. a.rebate \in Rebates => [Row(r) EXCEPT !.expected = a.amount] \in RebateRows
    BY <1>2, <2>1 DEF Row, RowsOK, RebateRows
  <2>3. QED
    BY <1>9, <1>10, <2>2 DEF Reestimate
<1>11. CASE Drop(r)
  <2>1. NoRebate \in RebateRows
    BY DEF NoRebate, RebateRows
  <2>2. QED
    BY <1>9, <1>11, <2>1 DEF Drop
<1>12. CASE Credit(r)
  <2>1. a \in Asks /\ a.amount \in Nat /\ a.bill \in Bills
    BY <1>1, <1>12, BookAsksAssumption DEF Credit, OnRebate, Writes
  <2>2. a.rebate \in Rebates =>
          [Row(r) EXCEPT !.state = "credited", !.bill = a.bill, !.credited = a.amount] \in RebateRows
    BY <1>2, <2>1 DEF Row, RowsOK, RebateRows
  <2>3. QED
    BY <1>9, <1>12, <2>2 DEF Credit
<1>13. CASE Uncredit(r)
  <2>1. a.rebate \in Rebates =>
          [Row(r) EXCEPT !.state = "expected", !.bill = None, !.credited = 0] \in RebateRows
    BY <1>2 DEF Row, RowsOK, RebateRows
  <2>2. QED
    BY <1>9, <1>13, <2>1 DEF Uncredit
<1>14. QED
  BY <1>3, <1>4, <1>5, <1>6, <1>7, <1>8, <1>10, <1>11, <1>12, <1>13 DEF WriteBooks

LEMMA ReceiptsAreFinite == IsFiniteSet(Receipts)
<1>1. BillOf \in Injection(Receipts, Bills)
  BY DeliveriesAssumption DEF Injection, IsInjective
<1>2. QED
  BY <1>1, PayablesAssumption, FS_Injection

\* What was agreed beyond the goods is beyond the goods of one delivery.
LEMMA AgreementIs ==
  ASSUME receipt \in [Receipts -> [fee : Nat, lines : Seq(LineRows)]]
  PROVE  /\ \A b \in Bills : Agreement(b) \in Int
         /\ \A c \in Receipts : /\ Agreement(BillOf[c]) = Value(receipt[c].lines)
                                /\ Value(receipt[c].lines) \in Nat
<1>1. \A c \in Receipts : receipt[c].lines \in Seq(LineRows)
  OBVIOUS
<1>2. \A c \in Receipts : Value(receipt[c].lines) \in Nat
  <2> TAKE c \in Receipts
  <2>1. PICK ls \in Seq(LineRows) : ls = receipt[c].lines
    BY <1>1
  <2>2. IsFiniteSet(DOMAIN ls) /\ \A l \in DOMAIN ls : ls[l].value \in Nat
    <3>1. IsFiniteSet(DOMAIN ls) /\ \A l \in DOMAIN ls : ls[l] \in LineRows
      BY LinesAre
    <3>2. QED BY <3>1 DEF LineRows
  <2>3. Value(ls) \in Nat
    BY <2>2, ValueIs
  <2>4. QED BY <2>1, <2>3
<1> DEFINE of(b) == {c \in Receipts : BillOf[c] = b}
           h(b) == [c \in of(b) |-> Value(receipt[c].lines)]
<1>3. \A b : Agreement(b) = SumFunctionOnSet(h(b), of(b))
  BY DEF Agreement, SumOver, SumFunction
<1>4. \A b : IsFiniteSet(of(b)) /\ \A c \in of(b) : h(b)[c] \in Int
  BY <1>2, ReceiptsAreFinite, FS_Subset
<1>5. \A c \in Receipts : of(BillOf[c]) = {c} /\ h(BillOf[c])[c] = Value(receipt[c].lines)
  BY DeliveriesAssumption
<1> HIDE DEF of, h
<1>6. \A b \in Bills : Agreement(b) \in Int
  BY <1>3, <1>4, SumType
<1>7. \A c \in Receipts : Agreement(BillOf[c]) = Value(receipt[c].lines)
  <2> TAKE c \in Receipts
  <2> DEFINE b == BillOf[c]
             k == h(b)
  <2>1. Agreement(b) = SumFunctionOnSet(k, {c}) /\ k[c] = Value(receipt[c].lines) /\ k[c] \in Int
    <3>1. Agreement(b) = SumFunctionOnSet(k, of(b))
      BY <1>3
    <3>2. of(b) = {c} /\ k[c] = Value(receipt[c].lines)
      BY <1>5
    <3>3. QED BY <1>2, <3>1, <3>2
  <2> HIDE DEF b, k
  <2>2. IsFiniteSet({c}) /\ c \in {c} /\ {c} \ {c} = {} /\ \A d \in {c} : k[d] \in Int
    BY <2>1, FS_Singleton
  <2>3. SumFunctionOnSet(k, {c}) = k[c] + SumFunctionOnSet(k, {c} \ {c})
    BY <2>2, SumWithout
  <2>4. SumFunctionOnSet(k, {c} \ {c}) = 0
    BY <2>2, SumEmpty
  <2>5. SumFunctionOnSet(k, {c}) = k[c]
    BY <2>1, <2>3, <2>4
  <2>6. QED BY <2>1, <2>5 DEF b
<1>8. QED
  BY <1>2, <1>6, <1>7

LEMMA BooksKeepTypes ==
  ASSUME TypeInv, NEW r \in Requests, Books(r) PROVE TypeInv'
<1>0. RowsOK(bill, payment, rebate) /\ GoodsTyped /\ AsksTyped
  BY DEF TypeInv
<1>1. CASE (\E a \in Asks : ReadBooks(r, a)) /\ UNCHANGED goodsVars
  <2>1. PICK a \in Asks : ReadBooks(r, a)
    BY <1>1
  <2>2. PICK next : next = IF Permitted(a) THEN "write" ELSE "refused"
    OBVIOUS
  <2>3. /\ bill' = bill /\ payment' = payment /\ rebate' = rebate /\ Begin(r, a, next)
        /\ a.kind \in BookKinds /\ next \in {"write", "done", "refused"} /\ sheet' = sheet
    BY <1>1, <2>1, <2>2 DEF ReadBooks, goodsVars, books
  <2>4. next = "write" => Reads(a, payment', sheet'[r])
    BY <2>2, <2>3 DEF Reads, Permitted, MayVoid, BookKinds
  <2>5. AsksTyped'
    BY <1>0, <2>3, <2>4, AsksBegin DEF PaymentsStay, AsksTyped
  <2>6. GoodsTyped'
    BY <1>0, <1>1 DEF GoodsTyped, goodsVars
  <2>7. QED
    BY <1>0, <2>3, <2>5, <2>6 DEF TypeInv
<1>2. CASE /\ WriteBooks(r) /\ UNCHANGED <<receipt, lot, moved, sold, forced, sheet>>
           /\ agreed' = IF ask[r].kind \in {"edit", "enter"} /\ pc'[r] = "done"
                        THEN [agreed EXCEPT ![ask[r].bill] = bill'[ask[r].bill].due - Agreement(ask[r].bill)]
                        ELSE agreed
  <2>1. /\ RowsOK(bill', payment', rebate') /\ PaymentsStay
        /\ \E how \in {"done", "refused"} : End(r, how)
    BY <1>2, WritesKeepRows
  <2>2. AsksTyped'
    BY <1>0, <1>2, <2>1, AsksEnd DEF AsksTyped
  <2>3. pc[r] = "write" /\ ask[r] \in Asks
    BY <1>0, <1>2, WritesEnd DEF AsksTyped, Reads
  <2>4. agreed' \in [Bills -> Int]
    <3>1. CASE ask[r].kind \in {"edit", "enter"} /\ pc'[r] = "done"
      <4> DEFINE b == ask[r].bill
      <4>1. b \in Bills
        BY <2>3, <3>1, BookAsksAssumption
      <4>2. Agreement(b) \in Int /\ bill'[b].due \in Int
        BY <1>0, <2>1, <4>1, AgreementIs DEF GoodsTyped, RowsOK, BillRows
      <4>3. agreed' = [agreed EXCEPT ![b] = bill'[b].due - Agreement(b)]
        BY <1>2, <3>1
      <4> HIDE DEF b
      <4>4. QED
        BY <1>0, <4>1, <4>2, <4>3 DEF GoodsTyped
    <3>2. CASE ~(ask[r].kind \in {"edit", "enter"} /\ pc'[r] = "done")
      BY <1>0, <1>2, <3>2 DEF GoodsTyped
    <3>3. QED BY <3>1, <3>2
  <2>5. GoodsTyped'
    BY <1>0, <1>2, <2>4 DEF GoodsTyped
  <2>6. QED
    BY <2>1, <2>2, <2>5 DEF TypeInv
<1>3. QED
  BY <1>1, <1>2 DEF Books

-----------------------------------------------------------------------------
(* A delivery, lot by lot. *)

\* What a delivery that is recorded does: a lot of its own for every line.
Brings(a, into, ls) ==
  /\ into \in [DOMAIN a.lines -> Unborn] /\ \A l, k \in DOMAIN a.lines : into[l] = into[k] => l = k
  /\ ls \in Seq(LineRows) /\ DOMAIN ls = DOMAIN a.lines
  /\ SumFunction([l \in DOMAIN ls |-> ls[l].share]) = a.fee
  /\ receipt' = [receipt EXCEPT ![a.receipt] = [fee |-> a.fee, lines |-> ls]]
  /\ \A l \in DOMAIN a.lines :
       /\ ls[l].lot = into[l] /\ ls[l].value = a.lines[l].value /\ ls[l].share \in Nat
       /\ ls[l].received = a.lines[l].received /\ ls[l].goods = a.lines[l].goods
       /\ lot'[into[l]] = [from |-> "delivery", received |-> ls[l].received,
                           cost |-> ls[l].value + ls[l].share]
       /\ \A g \in Goods : moved'[into[l]][g] = IF ls[l].goods = g THEN ls[l].received
                                                ELSE moved[into[l]][g]
  /\ \A x \in Lots : (\A l \in DOMAIN a.lines : into[l] # x) =>
       lot'[x] = lot[x] /\ \A g \in Goods : moved'[x][g] = moved[x][g]
  /\ lot' \in [Lots -> LotRows] /\ moved' \in [Lots -> [Goods -> Int]]
  /\ bill' = [bill EXCEPT ![BillOf[a.receipt]] =
                [state |-> "live", vendor |-> a.vendor,
                 due |-> IF a.due = None THEN Value(a.lines) ELSE a.due]]
  /\ agreed' = [agreed EXCEPT ![BillOf[a.receipt]] =
                  (IF a.due = None THEN Value(a.lines) ELSE a.due) - Value(a.lines)]
  /\ sold' = sold /\ forced' = forced /\ sheet' = sheet /\ rebate' = rebate

LEMMA DeliverBrings ==
  ASSUME GoodsTyped, NEW r \in Requests, NEW a \in Asks, Deliver(r, a)
  PROVE  \/ Begin(r, a, "refused") /\ UNCHANGED <<books, goodsVars>>
         \/ /\ Begin(r, a, "done") /\ receipt[a.receipt].lines = <<>> /\ \E into, ls : Brings(a, into, ls)
            /\ payment' = IF a.paid = 0 THEN payment
                          ELSE [payment EXCEPT ![r] = [bill |-> BillOf[a.receipt], amount |-> a.paid, live |-> TRUE]]
<1> DEFINE D == DOMAIN a.lines
           due == IF a.due = None THEN Value(a.lines) ELSE a.due
           b == BillOf[a.receipt]
           share == SplitFee(a.fee, a.lines)
           into == NewLots(D)
           lineOn(x) == CHOOSE l \in D : into[l] = x
           new == {into[l] : l \in D}
           ls == [l \in D |-> [goods |-> a.lines[l].goods, lot |-> into[l],
                               received |-> a.lines[l].received,
                               value |-> a.lines[l].value, share |-> share[l]]]
<1>1. CASE a.paid > due \/ receipt[a.receipt].lines # <<>>
  BY <1>1 DEF Deliver
<1>2. CASE ~(a.paid > due \/ receipt[a.receipt].lines # <<>>)
  <2>1. /\ Begin(r, a, "done")
        /\ receipt' = [receipt EXCEPT ![a.receipt] = [fee |-> a.fee, lines |-> ls]]
        /\ bill' = [bill EXCEPT ![b] = [state |-> "live", vendor |-> a.vendor, due |-> due]]
        /\ payment' = IF a.paid = 0 THEN payment
                      ELSE [payment EXCEPT ![r] = [bill |-> b, amount |-> a.paid, live |-> TRUE]]
        /\ agreed' = [agreed EXCEPT ![b] = due - Value(a.lines)]
        /\ UNCHANGED <<rebate, sold, forced, sheet>>
    BY <1>2 DEF Deliver
  <2>2. lot' = [x \in Lots |->
                  IF x \notin new THEN lot[x]
                  ELSE [from |-> "delivery", received |-> a.lines[lineOn(x)].received,
                        cost |-> a.lines[lineOn(x)].value + share[lineOn(x)]]]
    BY <1>2 DEF Deliver
  <2>3. moved' = [x \in Lots |-> [g \in Goods |->
                    IF x \in new /\ a.lines[lineOn(x)].goods = g
                    THEN a.lines[lineOn(x)].received ELSE moved[x][g]]]
    BY <1>2 DEF Deliver
  <2>4. /\ a.lines \in Seq(Figures) /\ a.fee \in Nat /\ a.lines # <<>>
        /\ \A l \in D : a.lines[l].received > 0
    BY GoodsAsksAssumption DEF Deliver
  <2>5. /\ IsFiniteSet(D) /\ D \subseteq Int /\ Cardinality(D) = Len(a.lines) /\ Len(a.lines) \in Nat
        /\ D = 1..Len(a.lines) /\ \A l \in D : a.lines[l] \in Figures
    BY <2>4, LinesAre
  <2>6. \A l \in D : a.lines[l].received \in Nat /\ a.lines[l].value \in Nat /\ a.lines[l].goods \in Goods
    BY <2>5 DEF Figures
  <2>7. HasSomewhereToGo(a.lines)
    <3>1. Len(a.lines) # 0
      BY <2>4
    <3>2. 1 \in D
      BY <2>5, <3>1
    <3>3. QED
      BY <2>4, <3>2 DEF HasSomewhereToGo
  <2>8. share \in [D -> Nat] /\ SumFunction(share) = a.fee
    BY <2>4, <2>5, <2>6, <2>7, SharesAre
  <2>9. into \in [D -> Unborn] /\ \A l, k \in D : into[l] = into[k] => l = k
    <3>1. Cardinality(D) <= Cardinality(Unborn)
      BY <2>5 DEF Deliver, LotsLeft
    <3>2. QED BY <2>5, <3>1, NewLotsAre
  <2>10. Unborn \subseteq Lots
    BY DEF Unborn
  <2> HIDE DEF share, into, due, b
  <2>11. \A l \in D : ls[l] \in LineRows
    BY <2>6, <2>8, <2>9, <2>10 DEF LineRows
  <2>12. ls \in Seq(LineRows) /\ DOMAIN ls = D
    <3>1. ls \in [D -> LineRows]
      BY <2>11
    <3> HIDE DEF ls
    <3>2. QED BY <2>4, <3>1, LinesFrom
  <2>13. SumFunction([l \in DOMAIN ls |-> ls[l].share]) = a.fee
    <3>1. [l \in DOMAIN ls |-> ls[l].share] = share
      BY <2>8
    <3>2. QED BY <2>8, <3>1
  <2>14. \A l \in D : /\ ls[l].lot = into[l] /\ ls[l].value = a.lines[l].value /\ ls[l].share = share[l]
                      /\ ls[l].received = a.lines[l].received /\ ls[l].goods = a.lines[l].goods
    OBVIOUS
  <2>15. \A l \in D : lineOn(into[l]) = l /\ into[l] \in new /\ into[l] \in Lots
    BY <2>9, <2>10
  <2>16. \A x \in new : lineOn(x) \in D /\ into[lineOn(x)] = x
    OBVIOUS
  <2> HIDE DEF lineOn, ls
  <2>17. ASSUME NEW l \in D
         PROVE  /\ lot'[into[l]] = [from |-> "delivery", received |-> ls[l].received,
                                    cost |-> ls[l].value + ls[l].share]
                /\ \A g \in Goods : moved'[into[l]][g] = IF ls[l].goods = g THEN ls[l].received
                                                         ELSE moved[into[l]][g]
    <3>1. lot'[into[l]] = [from |-> "delivery", received |-> a.lines[l].received,
                           cost |-> a.lines[l].value + share[l]]
      BY <2>2, <2>15
    <3>2. \A g \in Goods : moved'[into[l]][g] = IF a.lines[l].goods = g THEN a.lines[l].received
                                                ELSE moved[into[l]][g]
      BY <2>3, <2>15
    <3>3. QED
      BY <2>14, <3>1, <3>2
  <2>18. \A x \in Lots : (\A l \in D : into[l] # x) =>
           lot'[x] = lot[x] /\ \A g \in Goods : moved'[x][g] = moved[x][g]
    BY <2>2, <2>3
  <2>19. lot' \in [Lots -> LotRows]
    <3>1. \A x \in new : a.lines[lineOn(x)].received \in Nat /\ a.lines[lineOn(x)].value + share[lineOn(x)] \in Nat
      BY <2>6, <2>8, <2>16
    <3>2. \A x \in Lots : lot'[x] \in LotRows
      BY <2>2, <3>1 DEF GoodsTyped, LotRows
    <3>3. QED BY <2>2, <3>2
  <2>20. moved' \in [Lots -> [Goods -> Int]]
    <3>1. \A x \in new : a.lines[lineOn(x)].received \in Nat
      BY <2>6, <2>16
    <3>2. \A x \in Lots, g \in Goods : moved[x][g] \in Int
      BY DEF GoodsTyped
    <3>3. \A x \in Lots, g \in Goods : (IF x \in new /\ a.lines[lineOn(x)].goods = g
                    THEN a.lines[lineOn(x)].received ELSE moved[x][g]) \in Int
      BY <3>1, <3>2
    <3>4. QED BY <2>3, <3>3
  <2>21. Brings(a, into, ls)
    BY <2>1, <2>8, <2>9, <2>12, <2>13, <2>14, <2>17, <2>18, <2>19, <2>20 DEF Brings, due, b
  <2>22. QED
    BY <1>2, <2>1, <2>21 DEF b
<1>3. QED
  BY <1>1, <1>2

LEMMA DeliverKeepsTypes ==
  ASSUME TypeInv, NEW r \in Requests, NEW a \in Asks, Deliver(r, a) PROVE TypeInv'
<1>0. RowsOK(bill, payment, rebate) /\ GoodsTyped /\ AsksTyped /\ r \in Payments
  BY DEF TypeInv, Payments
<1>1. CASE Begin(r, a, "refused") /\ UNCHANGED <<books, goodsVars>>
  <2>1. AsksTyped'
    BY <1>0, <1>1, AsksBegin DEF PaymentsStay, AsksTyped, books, goodsVars
  <2>2. QED
    BY <1>0, <1>1, <2>1 DEF TypeInv, GoodsTyped, books, goodsVars
<1>2. ASSUME NEW into, NEW ls, Brings(a, into, ls), Begin(r, a, "done"),
             payment' = IF a.paid = 0 THEN payment
                        ELSE [payment EXCEPT ![r] = [bill |-> BillOf[a.receipt], amount |-> a.paid, live |-> TRUE]]
      PROVE  TypeInv'
  <2> DEFINE due == IF a.due = None THEN Value(a.lines) ELSE a.due
             b == BillOf[a.receipt]
  <2>1. /\ a.receipt \in Receipts /\ a.vendor \in Vendors /\ a.paid \in Nat /\ a.due \in Nat \cup {None}
        /\ a.lines \in Seq(Figures) /\ a.fee \in Nat
    BY GoodsAsksAssumption DEF Deliver
  <2>2. Value(a.lines) \in Nat
    <3>1. IsFiniteSet(DOMAIN a.lines) /\ \A l \in DOMAIN a.lines : a.lines[l] \in Figures
      BY <2>1, LinesAre
    <3>2. \A l \in DOMAIN a.lines : a.lines[l].value \in Nat
      BY <3>1 DEF Figures
    <3>3. QED BY <3>1, <3>2, ValueIs
  <2>3. due \in Nat /\ b \in Bills
    BY <2>1, <2>2, DeliveriesAssumption
  <2>4. /\ bill' = [bill EXCEPT ![b] = [state |-> "live", vendor |-> a.vendor, due |-> due]]
        /\ agreed' = [agreed EXCEPT ![b] = due - Value(a.lines)]
        /\ receipt' = [receipt EXCEPT ![a.receipt] = [fee |-> a.fee, lines |-> ls]]
        /\ lot' \in [Lots -> LotRows] /\ moved' \in [Lots -> [Goods -> Int]] /\ ls \in Seq(LineRows)
        /\ sold' = sold /\ forced' = forced /\ sheet' = sheet /\ rebate' = rebate
    BY <1>2 DEF Brings
  <2> HIDE DEF due, b
  <2>5. RowsOK(bill', payment', rebate') /\ PaymentsStay
    <3>1. [state |-> "live", vendor |-> a.vendor, due |-> due] \in BillRows
      BY <2>1, <2>3 DEF BillRows
    <3>2. bill' \in [Bills -> BillRows]
      BY <1>0, <2>3, <2>4, <3>1 DEF RowsOK
    <3>3. a.paid # 0 => [bill |-> BillOf[a.receipt], amount |-> a.paid, live |-> TRUE] \in PaymentRows
      BY <2>1, DeliveriesAssumption DEF PaymentRows
    <3>4. payment' \in [Payments -> PaymentRows \cup {None}] /\ PaymentsStay
      <4>1. CASE a.paid = 0
        BY <1>0, <1>2, <4>1 DEF RowsOK, PaymentsStay
      <4>2. CASE a.paid # 0
        BY <1>0, <1>2, <3>3, <4>2, RowsAssumption DEF RowsOK, PaymentsStay
      <4>3. QED BY <4>1, <4>2
    <3>5. QED
      BY <1>0, <2>4, <3>2, <3>4 DEF RowsOK
  <2>6. GoodsTyped'
    <3>1. receipt' \in [Receipts -> [fee : Nat, lines : Seq(LineRows)]]
      BY <1>0, <2>1, <2>4 DEF GoodsTyped
    <3>2. agreed' \in [Bills -> Int]
      BY <1>0, <2>2, <2>3, <2>4 DEF GoodsTyped
    <3>3. QED
      BY <1>0, <2>4, <3>1, <3>2 DEF GoodsTyped
  <2>7. AsksTyped'
    BY <1>0, <1>2, <2>4, <2>5, AsksBegin DEF AsksTyped
  <2>8. QED
    BY <2>5, <2>6, <2>7 DEF TypeInv
<1>3. QED
  BY <1>0, <1>1, <1>2, DeliverBrings

-----------------------------------------------------------------------------
(* A correction: what it read, and what it writes. *)

\* The difference in value between what was read and what is true.
LEMMA DifferenceIs ==
  ASSUME NEW old \in Seq(LineRows), NEW truths, DOMAIN truths \subseteq DOMAIN old,
         \A l \in DOMAIN truths : truths[l] \in Figures
  PROVE  LET changed == Changed(old, truths)
         IN  /\ changed \subseteq DOMAIN old /\ changed \subseteq DOMAIN truths /\ IsFiniteSet(changed)
             /\ ValueDelta(changed, old, truths) \in Int
             /\ ValueDelta(changed, old, truths)
                  = SumFunctionOnSet([l \in changed |-> truths[l].value - old[l].value], changed)
<1> DEFINE changed == Changed(old, truths)
           h == [l \in changed |-> truths[l].value - old[l].value]
<1>1. IsFiniteSet(DOMAIN old) /\ \A l \in DOMAIN old : old[l] \in LineRows
  BY LinesAre
<1>2. changed \subseteq DOMAIN old /\ changed \subseteq DOMAIN truths
  BY DEF Changed
<1>3. ValueDelta(changed, old, truths) = SumFunctionOnSet(h, changed)
  BY DEF ValueDelta, SumOver, SumFunction
<1> HIDE DEF changed
<1>4. IsFiniteSet(changed)
  BY <1>1, <1>2, FS_Subset
<1>5. \A l \in changed : h[l] \in Int
  BY <1>1, <1>2 DEF LineRows, Figures
<1> HIDE DEF h
<1>6. SumFunctionOnSet(h, changed) \in Int
  BY <1>4, <1>5, SumType
<1>7. QED
  BY <1>2, <1>3, <1>4, <1>6 DEF changed, h

LEMMA SheetIsRead ==
  ASSUME RowsOK(bill, payment, rebate), GoodsTyped, NEW a \in Asks, a.kind = "correct", MayCorrect(a)
  PROVE  SheetOK([lines |-> receipt[a.receipt].lines, fee |-> receipt[a.receipt].fee,
                  due |-> bill[BillOf[a.receipt]].due, billed |-> LiveBill(BillOf[a.receipt])], a)
<1> DEFINE s == [lines |-> receipt[a.receipt].lines, fee |-> receipt[a.receipt].fee,
                 due |-> bill[BillOf[a.receipt]].due, billed |-> LiveBill(BillOf[a.receipt])]
           old == receipt[a.receipt].lines
           b == BillOf[a.receipt]
           by == ValueDelta(Changed(old, a.truths), old, a.truths)
<1>1. a.receipt \in Receipts /\ \A l \in DOMAIN a.truths : a.truths[l] \in Figures
  BY GoodsAsksAssumption
<1>2. old \in Seq(LineRows) /\ receipt[a.receipt].fee \in Nat /\ b \in Bills /\ bill[b].due \in Nat
  BY <1>1, DeliveriesAssumption DEF GoodsTyped, RowsOK, BillRows
<1>3. DOMAIN a.truths \subseteq DOMAIN old /\ (LiveBill(b) /\ by # 0 => bill[b].due + by >= Paid(b) + Rebated(b))
  BY DEF MayCorrect
<1>4. by \in Int
  <2> HIDE DEF old
  <2>1. QED BY <1>1, <1>2, <1>3, DifferenceIs
<1>5. Paid(b) \in Nat /\ Rebated(b) \in Nat
  <2> HIDE DEF b
  <2>1. QED BY <1>2, ReadNow, PaidIs, CreditIs DEF RowsOK
<1>6. s.lines = old /\ s.fee = receipt[a.receipt].fee /\ s.due = bill[b].due /\ s.billed = LiveBill(b) /\ By(s, a) = by
  BY DEF By
<1> HIDE DEF by, old, b
<1>7. s.billed /\ By(s, a) # 0 => s.due + By(s, a) \in Nat
  <2> HIDE DEF s
  <2>1. SUFFICES ASSUME LiveBill(b), by # 0 PROVE bill[b].due + by \in Nat
    BY <1>6
  <2>2. bill[b].due + by >= Paid(b) + Rebated(b)
    BY <1>3, <2>1
  <2>3. QED BY <1>2, <1>4, <1>5, <2>2
<1> HIDE DEF s
<1>8. SheetOK(s, a)
  BY <1>2, <1>3, <1>6, <1>7 DEF SheetOK
<1>9. QED BY <1>8 DEF s

LEMMA ReadDeliveryKeepsTypes ==
  ASSUME TypeInv, NEW r \in Requests, NEW a \in Asks, ReadDelivery(r, a) PROVE TypeInv'
<1> DEFINE read == [lines |-> receipt[a.receipt].lines, fee |-> receipt[a.receipt].fee,
                    due |-> bill[BillOf[a.receipt]].due, billed |-> LiveBill(BillOf[a.receipt])]
<1>0. RowsOK(bill, payment, rebate) /\ GoodsTyped /\ AsksTyped
  BY DEF TypeInv
<1>1. PICK next : next = IF MayCorrect(a) THEN "write" ELSE "refused"
  OBVIOUS
<1>2. /\ Begin(r, a, next) /\ a.kind = "correct" /\ next \in {"write", "done", "refused"}
      /\ sheet' = IF MayCorrect(a) THEN [sheet EXCEPT ![r] = read] ELSE sheet
      /\ bill' = bill /\ payment' = payment /\ rebate' = rebate
      /\ UNCHANGED <<receipt, lot, moved, sold, forced, agreed>>
  BY <1>1 DEF ReadDelivery, books
<1>3. MayCorrect(a) => SheetOK(read, a)
  BY <1>0, <1>2, SheetIsRead
<1> HIDE DEF read
<1>4. DOMAIN sheet' = Requests /\ (\A s \in Requests \ {r} : sheet'[s] = sheet[s])
      /\ (MayCorrect(a) => sheet'[r] = read)
  BY <1>0, <1>2 DEF AsksTyped
<1>5. next = "write" => Reads(a, payment', sheet'[r])
  BY <1>1, <1>2, <1>3, <1>4 DEF Reads
<1>6. AsksTyped'
  BY <1>0, <1>2, <1>4, <1>5, AsksBegin DEF PaymentsStay
<1>7. QED
  BY <1>0, <1>2, <1>6 DEF TypeInv, GoodsTyped

-----------------------------------------------------------------------------
(* A correction, line by line. *)

Now(r) == receipt[ask[r].receipt].lines
OldOf(r) == sheet[r].lines
ChangedOf(r) == Changed(OldOf(r), ask[r].truths)
SwappedOf(r) == {l \in ChangedOf(r) : WrongProduct(l, OldOf(r), ask[r].truths)}
NewLotOf(r) == NewLots(SwappedOf(r))
FeeOf(r) == IF ask[r].fee = None THEN sheet[r].fee ELSE ask[r].fee
FiguresOf(r) == Corrected(Now(r), ChangedOf(r), OldOf(r), ask[r].truths, NewLotOf(r))
LinesOf(r) == Reshare(FeeOf(r), FiguresOf(r), Now(r))
AtOf(r, l) == At(l, OldOf(r), ask[r].truths, NewLotOf(r))
CoveredBy(r) == Covered(ChangedOf(r), OldOf(r), ask[r].truths)
BroughtBy(r, x, g) == Brought(x, g, ChangedOf(r), OldOf(r), ask[r].truths, NewLotOf(r))
WrittenBy(r) == Written(ChangedOf(r), OldOf(r), ask[r].truths, NewLotOf(r))

\* What a correction has to go by.
Knows(r) ==
  /\ pc[r] = "write" /\ ask[r] \in Asks /\ ask[r].kind = "correct" /\ ask[r].receipt \in Receipts
  /\ Now(r) \in Seq(LineRows) /\ OldOf(r) \in Seq(LineRows)
  /\ sheet[r].due \in Nat /\ sheet[r].fee \in Nat /\ FeeOf(r) \in Nat
  /\ ChangedOf(r) \subseteq DOMAIN OldOf(r) /\ IsFiniteSet(ChangedOf(r))
  /\ \A l \in ChangedOf(r) : ask[r].truths[l] \in Figures /\ OldOf(r)[l] \in LineRows /\ AtOf(r, l) \in Lots
  /\ NewLotOf(r) \in [SwappedOf(r) -> Unborn]
  /\ \A l, k \in SwappedOf(r) : NewLotOf(r)[l] = NewLotOf(r)[k] => l = k
  /\ FiguresOf(r) \in Seq(LineRows) /\ DOMAIN FiguresOf(r) = DOMAIN Now(r)
  /\ By(sheet[r], ask[r]) \in Int
  /\ sheet[r].billed /\ By(sheet[r], ask[r]) # 0 => sheet[r].due + By(sheet[r], ask[r]) \in Nat

\* A correction that is carried out.
Corrects(r) ==
  /\ CoveredBy(r) \/ ask[r].force
  /\ FeeOf(r) > 0 => HasSomewhereToGo(FiguresOf(r))
  /\ bill' = IF sheet[r].billed /\ By(sheet[r], ask[r]) # 0
             THEN [bill EXCEPT ![BillOf[ask[r].receipt]].due = sheet[r].due + By(sheet[r], ask[r])] ELSE bill
  /\ receipt' = [receipt EXCEPT ![ask[r].receipt] =
       [lines |-> LinesOf(r), fee |-> IF FeeOf(r) = sheet[r].fee THEN receipt[ask[r].receipt].fee ELSE FeeOf(r)]]
  /\ lot' = Costed(WrittenBy(r), LinesOf(r))
  /\ moved' = [x \in Lots |-> [g \in Goods |-> moved[x][g] + BroughtBy(r, x, g)]]
  /\ forced' = IF CoveredBy(r) THEN forced ELSE forced \cup {OldOf(r)[l].lot : l \in ChangedOf(r)}
  /\ payment' = payment /\ rebate' = rebate /\ sold' = sold /\ agreed' = agreed

LEMMA CorrectIs ==
  ASSUME NEW r \in Requests, Correct(r)
  PROVE  /\ Writes(r, "correct") /\ LotsLeft(Cardinality(SwappedOf(r))) /\ sheet' = [sheet EXCEPT ![r] = <<>>]
         /\ \/ /\ End(r, "refused") /\ bill' = bill /\ payment' = payment /\ rebate' = rebate
               /\ UNCHANGED <<receipt, lot, moved, sold, forced, agreed, openings>>
            \/ /\ End(r, "done") /\ Corrects(r)
               /\ ComeIn(r, BroughtIn(ChangedOf(r), OldOf(r), ask[r].truths)) /\ late' = late
<1> DEFINE refused == (~CoveredBy(r) /\ ~ask[r].force) \/ (FeeOf(r) > 0 /\ ~HasSomewhereToGo(FiguresOf(r)))
<1>1. Writes(r, "correct") /\ LotsLeft(Cardinality(SwappedOf(r))) /\ sheet' = [sheet EXCEPT ![r] = <<>>]
  BY DEF Correct, SwappedOf, ChangedOf, OldOf
<1>2. CASE refused
  <2>1. End(r, "refused") /\ UNCHANGED <<books, receipt, lot, moved, sold, forced, agreed, openings>>
    BY <1>2 DEF Correct, SwappedOf, ChangedOf, OldOf, NewLotOf, CoveredBy, FeeOf, FiguresOf, Now
  <2>2. QED BY <1>1, <2>1 DEF books
<1>3. CASE ~refused
  <2>1. Corrects(r) /\ End(r, "done")
    BY <1>3 DEF Correct, Corrects, SwappedOf, ChangedOf, OldOf, NewLotOf, CoveredBy, FeeOf, FiguresOf, Now,
       LinesOf, BroughtBy, WrittenBy, By
  <2>2. ComeIn(r, BroughtIn(ChangedOf(r), OldOf(r), ask[r].truths)) /\ late' = late
    BY <1>3 DEF Correct, ChangedOf, OldOf, CoveredBy, FeeOf, FiguresOf, NewLotOf, SwappedOf, Now
  <2>3. QED BY <1>1, <2>1, <2>2
<1>4. QED
  BY <1>2, <1>3

LEMMA CorrectKnows ==
  ASSUME GoodsTyped, AsksTyped, NEW r \in Requests, Writes(r, "correct"), LotsLeft(Cardinality(SwappedOf(r)))
  PROVE  Knows(r)
<1> DEFINE a == ask[r]
           old == OldOf(r)
           changed == ChangedOf(r)
           swapped == SwappedOf(r)
           newLot == NewLotOf(r)
<1>1. pc[r] = "write" /\ a.kind = "correct" /\ a \in Asks /\ SheetOK(sheet[r], a)
  BY DEF Writes, AsksTyped, Reads
<1>2. a.receipt \in Receipts /\ a.fee \in Nat \cup {None} /\ \A l \in DOMAIN a.truths : a.truths[l] \in Figures
  BY <1>1, GoodsAsksAssumption
<1>3. /\ old \in Seq(LineRows) /\ sheet[r].due \in Nat /\ sheet[r].fee \in Nat /\ FeeOf(r) \in Nat
      /\ DOMAIN a.truths \subseteq DOMAIN old
      /\ sheet[r].billed /\ By(sheet[r], a) # 0 => sheet[r].due + By(sheet[r], a) \in Nat
  BY <1>1, <1>2 DEF SheetOK, OldOf, FeeOf
<1>4. Now(r) \in Seq(LineRows)
  BY <1>2 DEF GoodsTyped, Now
<1>5. changed \subseteq DOMAIN old /\ changed \subseteq DOMAIN a.truths /\ IsFiniteSet(changed) /\ By(sheet[r], a) \in Int
  <2>1. By(sheet[r], a) = ValueDelta(changed, old, a.truths)
    BY DEF By, OldOf, ChangedOf
  <2>2. changed = Changed(old, a.truths)
    BY DEF ChangedOf
  <2> HIDE DEF changed, old
  <2>3. QED BY <1>2, <1>3, <2>1, <2>2, DifferenceIs
<1>6. \A l \in DOMAIN old : old[l] \in LineRows
  <2> HIDE DEF old
  <2>1. QED BY <1>3, LinesAre
<1>7. \A l \in changed : a.truths[l] \in Figures /\ old[l] \in LineRows
  BY <1>2, <1>5, <1>6
<1>8. newLot \in [swapped -> Unborn] /\ \A l, k \in swapped : newLot[l] = newLot[k] => l = k
  <2>1. swapped \subseteq changed
    BY DEF SwappedOf
  <2>2. IsFiniteSet(swapped) /\ Cardinality(swapped) <= Cardinality(Unborn)
    BY <1>5, <2>1, FS_Subset DEF LotsLeft
  <2> HIDE DEF swapped
  <2>3. QED BY <2>2, NewLotsAre DEF NewLotOf, swapped
<1>9. \A l \in changed : WrongProduct(l, old, a.truths) => newLot[l] \in Lots
  BY <1>8 DEF SwappedOf, Unborn
<1>10. \A l \in changed : AtOf(r, l) \in Lots
  BY <1>7, <1>9 DEF AtOf, At, LineRows
<1>11. FiguresOf(r) \in Seq(LineRows) /\ DOMAIN FiguresOf(r) = DOMAIN Now(r)
  <2>1. FiguresOf(r) = Corrected(Now(r), changed, old, a.truths, newLot)
    BY DEF FiguresOf
  <2> HIDE DEF changed, old, newLot, a
  <2>2. FiguresOf(r) \in [DOMAIN Now(r) -> LineRows] /\ FiguresOf(r) \in Seq(LineRows)
    BY <1>4, <1>7, <1>9, <2>1, FiguresAreLines
  <2>3. QED BY <2>2
<1>12. QED
  BY <1>1, <1>2, <1>3, <1>4, <1>5, <1>7, <1>8, <1>10, <1>11 DEF Knows

\* What the lots are after it.
LEMMA LotsAreWritten ==
  ASSUME GoodsTyped, NEW r \in Requests, Knows(r), NEW ls \in Seq(LineRows)
  PROVE  Costed(WrittenBy(r), ls) \in [Lots -> LotRows]
<1> DEFINE a == ask[r]
           old == OldOf(r)
           changed == ChangedOf(r)
           W == WrittenBy(r)
           C == Costed(W, ls)
           on(x) == CHOOSE l \in changed : AtOf(r, l) = x
           of(x) == CHOOSE l \in DOMAIN ls : ls[l].lot = x
<1>1. W = [x \in Lots |->
             IF \E l \in changed : AtOf(r, l) = x
             THEN [from |-> "delivery", received |-> a.truths[on(x)].received, cost |-> a.truths[on(x)].value]
             ELSE IF \E l \in changed : old[l].lot = x THEN [lot[x] EXCEPT !.received = 0, !.cost = 0]
             ELSE lot[x]]
  BY DEF WrittenBy, Written, AtOf, At
<1>2. ASSUME NEW x \in Lots PROVE W[x] \in LotRows
  <2>1. CASE \E l \in changed : AtOf(r, l) = x
    <3>1. on(x) \in changed
      BY <2>1
    <3>2. a.truths[on(x)] \in Figures
      BY <3>1 DEF Knows
    <3>3. W[x] = [from |-> "delivery", received |-> a.truths[on(x)].received, cost |-> a.truths[on(x)].value]
      BY <1>1, <2>1
    <3> HIDE DEF on
    <3>4. QED BY <3>2, <3>3 DEF LotRows, Figures
  <2>2. CASE ~(\E l \in changed : AtOf(r, l) = x)
    <3>1. lot[x] \in LotRows
      BY DEF GoodsTyped
    <3>2. W[x] = IF \E l \in changed : old[l].lot = x THEN [lot[x] EXCEPT !.received = 0, !.cost = 0] ELSE lot[x]
      BY <1>1, <2>2
    <3>3. [lot[x] EXCEPT !.received = 0, !.cost = 0] \in LotRows
      BY <3>1 DEF LotRows
    <3> HIDE DEF W
    <3>4. QED BY <3>1, <3>2, <3>3
  <2>3. QED BY <2>1, <2>2
<1>3. C = [x \in Lots |-> IF \E l \in DOMAIN ls : ls[l].lot = x
                          THEN [W[x] EXCEPT !.cost = ls[of(x)].value + ls[of(x)].share] ELSE W[x]]
  BY DEF Costed
<1>4. ASSUME NEW x \in Lots PROVE C[x] \in LotRows
  <2>1. CASE \E l \in DOMAIN ls : ls[l].lot = x
    <3>1. of(x) \in DOMAIN ls
      BY <2>1
    <3>2. ls[of(x)] \in LineRows
      <4> HIDE DEF of
      <4>1. QED BY <3>1, LinesAre
    <3>3. ls[of(x)].value + ls[of(x)].share \in Nat
      <4> HIDE DEF of
      <4>1. QED BY <3>2 DEF LineRows
    <3>4. C[x] = [W[x] EXCEPT !.cost = ls[of(x)].value + ls[of(x)].share]
      BY <1>3, <2>1
    <3> HIDE DEF of, W, C
    <3>5. QED BY <1>2, <3>3, <3>4 DEF LotRows
  <2>2. CASE ~(\E l \in DOMAIN ls : ls[l].lot = x)
    BY <1>2, <1>3, <2>2
  <2>3. QED BY <2>1, <2>2
<1>5. QED
  BY <1>3, <1>4

\* What it brings to a lot, line by line.
BroughtOn(r, x, g) ==
  [l \in ChangedOf(r) |->
     (IF AtOf(r, l) = x /\ ask[r].truths[l].goods = g THEN ask[r].truths[l].received ELSE 0)
   - (IF OldOf(r)[l].lot = x /\ OldOf(r)[l].goods = g THEN OldOf(r)[l].received ELSE 0)]

LEMMA BroughtIs ==
  ASSUME NEW r \in Requests, Knows(r), NEW x, NEW g
  PROVE  /\ BroughtBy(r, x, g) = SumFunctionOnSet(BroughtOn(r, x, g), ChangedOf(r))
         /\ \A l \in ChangedOf(r) : BroughtOn(r, x, g)[l] \in Int
         /\ BroughtBy(r, x, g) \in Int
<1>1. BroughtOn(r, x, g) =
        [l \in ChangedOf(r) |->
          (IF <<AtOf(r, l), ask[r].truths[l].goods>> = <<x, g>> THEN ask[r].truths[l].received ELSE 0)
        - (IF <<OldOf(r)[l].lot, OldOf(r)[l].goods>> = <<x, g>> THEN OldOf(r)[l].received ELSE 0)]
  BY DEF BroughtOn
<1>2. BroughtBy(r, x, g) = SumFunctionOnSet(BroughtOn(r, x, g), ChangedOf(r))
  BY <1>1 DEF BroughtBy, Brought, SumOver, SumFunction, AtOf, At
<1>3. ASSUME NEW l \in ChangedOf(r) PROVE BroughtOn(r, x, g)[l] \in Int
  <2>1. ask[r].truths[l].received \in Int /\ OldOf(r)[l].received \in Int
    <3>1. ask[r].truths[l] \in Figures /\ OldOf(r)[l] \in LineRows
      BY DEF Knows
    <3>2. \A y \in Figures : y.received \in Int
      BY DEF Figures
    <3>3. \A y \in LineRows : y.received \in Int
      BY DEF LineRows
    <3> QED
      BY <3>1, <3>2, <3>3
  <2>2. QED BY <2>1 DEF BroughtOn
<1>4. QED
  BY <1>2, <1>3, SumType DEF Knows

LEMMA CorrectKeepsTypes ==
  ASSUME TypeInv, NEW r \in Requests, Correct(r) PROVE TypeInv'
<1>0. RowsOK(bill, payment, rebate) /\ GoodsTyped /\ AsksTyped
  BY DEF TypeInv
<1>1. /\ Writes(r, "correct") /\ LotsLeft(Cardinality(SwappedOf(r))) /\ sheet' = [sheet EXCEPT ![r] = <<>>]
      /\ \/ /\ End(r, "refused") /\ bill' = bill /\ payment' = payment /\ rebate' = rebate
            /\ UNCHANGED <<receipt, lot, moved, sold, forced, agreed>>
         \/ End(r, "done") /\ Corrects(r)
  BY CorrectIs
<1>2. Knows(r)
  BY <1>0, <1>1, CorrectKnows
<1>3. payment' = payment /\ rebate' = rebate /\ sold' = sold /\ agreed' = agreed /\ PaymentsStay
  BY <1>1 DEF Corrects, PaymentsStay
<1>4. AsksTyped'
  <2>1. DOMAIN sheet' = Requests /\ \A s \in Requests \ {r} : sheet'[s] = sheet[s]
    BY <1>0, <1>1 DEF AsksTyped
  <2>2. QED
    BY <1>0, <1>1, <1>3, <2>1, AsksEnd
<1>5. CASE bill' = bill /\ UNCHANGED <<receipt, lot, moved, sold, forced, agreed>>
  BY <1>0, <1>3, <1>4, <1>5 DEF TypeInv, GoodsTyped
<1>6. CASE Corrects(r)
  <2> DEFINE c == ask[r].receipt
             b == BillOf[c]
  <2>1. c \in Receipts /\ b \in Bills
    BY <1>2, DeliveriesAssumption DEF Knows
  <2>2. LinesOf(r) \in Seq(LineRows)
    BY <1>2, <1>6, ResharedLines DEF LinesOf, Knows, Corrects
  <2>3. RowsOK(bill', payment', rebate')
    <3>1. CASE sheet[r].billed /\ By(sheet[r], ask[r]) # 0
      <4> DEFINE due == sheet[r].due + By(sheet[r], ask[r])
      <4>1. due \in Nat /\ bill' = [bill EXCEPT ![b].due = due]
        BY <1>2, <1>6, <3>1 DEF Knows, Corrects
      <4> HIDE DEF due, b
      <4>2. bill' \in [Bills -> BillRows]
        BY <1>0, <2>1, <4>1 DEF RowsOK, BillRows
      <4>3. QED BY <1>0, <1>3, <4>2 DEF RowsOK
    <3>2. CASE ~(sheet[r].billed /\ By(sheet[r], ask[r]) # 0)
      <4>1. bill' = bill
        BY <1>6, <3>2 DEF Corrects
      <4>2. QED BY <1>0, <1>3, <4>1
    <3>3. QED BY <3>1, <3>2
  <2>4. receipt' \in [Receipts -> [fee : Nat, lines : Seq(LineRows)]]
    <3> DEFINE fee == IF FeeOf(r) = sheet[r].fee THEN receipt[c].fee ELSE FeeOf(r)
               row == [lines |-> LinesOf(r), fee |-> fee]
    <3>1. fee \in Nat
      BY <1>0, <1>2, <2>1 DEF GoodsTyped, Knows
    <3>2. receipt' = [receipt EXCEPT ![c] = row]
      BY <1>6 DEF Corrects
    <3>3. row \in [fee : Nat, lines : Seq(LineRows)]
      BY <2>2, <3>1
    <3> HIDE DEF row, c
    <3>4. QED BY <1>0, <2>1, <3>2, <3>3 DEF GoodsTyped
  <2>5. lot' \in [Lots -> LotRows]
    BY <1>0, <1>2, <1>6, <2>2, LotsAreWritten DEF Corrects
  <2>6. moved' \in [Lots -> [Goods -> Int]]
    <3>1. \A x \in Lots, g \in Goods : moved[x][g] + BroughtBy(r, x, g) \in Int
      BY <1>0, <1>2, BroughtIs DEF GoodsTyped
    <3>2. QED BY <1>6, <3>1 DEF Corrects
  <2>7. forced' \subseteq Lots
    <3>1. \A l \in ChangedOf(r) : OldOf(r)[l].lot \in Lots
      BY <1>2 DEF Knows, LineRows
    <3>2. QED BY <1>0, <1>6, <3>1 DEF Corrects, GoodsTyped
  <2>8. GoodsTyped'
    BY <1>0, <1>3, <2>4, <2>5, <2>6, <2>7 DEF GoodsTyped
  <2>9. QED
    BY <1>4, <2>3, <2>8 DEF TypeInv
<1>7. QED
  BY <1>1, <1>5, <1>6

\* The other requests, and what is sold.
LEMMA OthersKeepTypes ==
  ASSUME TypeInv,
         \/ \E r \in Requests : RecordOpening(r)
         \/ \E r \in Requests, a \in Asks : ReadOpening(r, a) \/ CorrectCost(r, a)
         \/ \E x \in Lots, g \in Goods : Sell(x, g)
         \/ UNCHANGED vars
  PROVE  TypeInv'
<1>0. RowsOK(bill, payment, rebate) /\ GoodsTyped /\ AsksTyped
  BY DEF TypeInv
<1>1. ASSUME NEW r \in Requests, RecordOpening(r) PROVE TypeInv'
  <2>1. PICK a : a = ask[r]
    OBVIOUS
  <2>2. PICK x : x = CHOOSE y \in Unborn : TRUE
    OBVIOUS
  <2>3. /\ pc[r] = "write" /\ a.kind = "open" /\ LotsLeft(1) /\ End(r, "done")
        /\ lot' = [lot EXCEPT ![x] = [from |-> "opening", received |-> a.received, cost |-> a.value]]
        /\ moved' = [moved EXCEPT ![x][a.goods] = a.received]
        /\ bill' = bill /\ payment' = payment /\ rebate' = rebate
        /\ UNCHANGED <<receipt, sold, forced, sheet, agreed>>
    BY <1>1, <2>1, <2>2 DEF RecordOpening, Writes, books
  <2>4. a \in Asks
    BY <1>0, <2>1, <2>3 DEF AsksTyped, Reads
  <2>5. a.goods \in Goods /\ a.received \in Nat /\ a.value \in Nat
    BY <2>3, <2>4, GoodsAsksAssumption
  <2>6. [from |-> "opening", received |-> a.received, cost |-> a.value] \in LotRows
    BY <2>5 DEF LotRows
  <2>7. lot' \in [Lots -> LotRows]
    BY <1>0, <2>3, <2>6 DEF GoodsTyped
  <2>8. moved' \in [Lots -> [Goods -> Int]]
    <3>1. \A y \in Lots : [moved[y] EXCEPT ![a.goods] = a.received] \in [Goods -> Int]
      BY <1>0, <2>5 DEF GoodsTyped
    <3>2. moved' = [moved EXCEPT ![x] = [moved[x] EXCEPT ![a.goods] = a.received]]
      BY <2>3
    <3>3. QED BY <1>0, <3>1, <3>2 DEF GoodsTyped
  <2>9. AsksTyped'
    BY <1>0, <2>3, AsksEnd DEF PaymentsStay, AsksTyped
  <2>10. QED
    BY <1>0, <2>3, <2>7, <2>8, <2>9 DEF TypeInv, GoodsTyped
<1>2. ASSUME NEW r \in Requests, NEW a \in Asks, ReadOpening(r, a) PROVE TypeInv'
  <2>1. PICK next : next = IF Stocked(a.goods) THEN "refused" ELSE "write"
    OBVIOUS
  <2>2. /\ Begin(r, a, next) /\ a.kind = "open" /\ next \in {"write", "done", "refused"}
        /\ bill' = bill /\ payment' = payment /\ rebate' = rebate
        /\ UNCHANGED <<receipt, lot, moved, sold, forced, sheet, agreed>>
    BY <1>2, <2>1 DEF ReadOpening, books, goodsVars
  <2>3. AsksTyped'
    BY <1>0, <2>2, AsksBegin DEF PaymentsStay, AsksTyped, Reads
  <2>4. QED
    BY <1>0, <2>2, <2>3 DEF TypeInv, GoodsTyped
<1>3. ASSUME NEW r \in Requests, NEW a \in Asks, CorrectCost(r, a) PROVE TypeInv'
  <2>1. PICK next : next = IF lot[a.lot].from = "opening" THEN "done" ELSE "refused"
    OBVIOUS
  <2>2. /\ Begin(r, a, next) /\ a.kind = "recost" /\ next \in {"done", "refused"}
        /\ lot' = IF lot[a.lot].from = "opening" THEN [lot EXCEPT ![a.lot].cost = a.value] ELSE lot
        /\ bill' = bill /\ payment' = payment /\ rebate' = rebate
        /\ UNCHANGED <<receipt, moved, sold, forced, sheet, agreed>>
    BY <1>3, <2>1 DEF CorrectCost, books
  <2>3. AsksTyped'
    BY <1>0, <2>2, AsksBegin DEF PaymentsStay, AsksTyped, Reads
  <2>4. a.lot \in Lots /\ a.value \in Nat
    BY <2>2, GoodsAsksAssumption
  <2>5. lot' \in [Lots -> LotRows]
    BY <1>0, <2>2, <2>4 DEF GoodsTyped, LotRows
  <2>6. QED
    BY <1>0, <2>2, <2>3, <2>5 DEF TypeInv, GoodsTyped
<1>4. ASSUME NEW x \in Lots, NEW g \in Goods, Sell(x, g) PROVE TypeInv'
  <2>1. /\ sold' = [sold EXCEPT ![x][g] = @ + 1]
        /\ UNCHANGED <<bill, payment, rebate, pc, ask, overlapped, receipt, lot, moved, forced, sheet, agreed>>
    BY <1>4 DEF Sell, payablesVars, books
  <2>2. sold' \in [Lots -> [Goods -> Nat]]
    <3>1. [sold[x] EXCEPT ![g] = sold[x][g] + 1] \in [Goods -> Nat]
      BY <1>0 DEF GoodsTyped
    <3>2. sold' = [sold EXCEPT ![x] = [sold[x] EXCEPT ![g] = sold[x][g] + 1]]
      BY <2>1
    <3>3. QED BY <1>0, <3>1, <3>2 DEF GoodsTyped
  <2>3. QED
    BY <1>0, <2>1, <2>2 DEF TypeInv, GoodsTyped, AsksTyped
<1>5. CASE UNCHANGED vars
  <2>1. UNCHANGED <<bill, payment, rebate, pc, ask, overlapped, receipt, lot, moved, sold, forced, sheet, agreed>>
    BY <1>5 DEF vars, payablesVars, books, goodsVars
  <2>2. QED
    BY <1>0, <2>1 DEF TypeInv, GoodsTyped, AsksTyped
<1>6. QED
  BY <1>1, <1>2, <1>3, <1>4, <1>5

LEMMA InitTypes == Init => TypeInv
<1> SUFFICES ASSUME Init PROVE TypeInv
  OBVIOUS
<1>1. PICK start \in OpeningBooks : bill = start.bill /\ payment = start.payment /\ rebate = start.rebate
  BY DEF Init, BooksInit
<1>2. PICK goods \in OpeningGoods : receipt = goods.receipt /\ lot = goods.lot /\ moved = goods.moved
  BY DEF Init
<1>3. /\ pc = [r \in Requests |-> "idle"] /\ ask = [r \in Requests |-> None]
      /\ sheet = [r \in Requests |-> <<>>] /\ overlapped = FALSE
      /\ sold = [x \in Lots |-> [g \in Goods |-> 0]] /\ forced = {}
      /\ agreed = [b \in Bills |-> IF \E c \in Receipts : BillOf[c] = b /\ LiveBill(b)
                                   THEN bill[b].due - Agreement(b) ELSE 0]
  BY DEF Init, BooksInit
<1>4. RowsOK(bill, payment, rebate)
  BY <1>1, OpeningBooksAssumption DEF RowsOK
<1>5. /\ receipt \in [Receipts -> [fee : Nat, lines : Seq(LineRows)]] /\ lot \in [Lots -> LotRows]
      /\ moved \in [Lots -> [Goods -> Nat]]
  BY <1>2, OpeningGoodsAssumption
<1>6. moved \in [Lots -> [Goods -> Int]]
  BY <1>5
<1>7. \A b \in Bills : Agreement(b) \in Int
  BY <1>5, AgreementIs
<1>8. agreed \in [Bills -> Int]
  <2>1. \A b \in Bills : bill[b].due \in Int
    BY <1>4 DEF RowsOK, BillRows
  <2>2. \A b \in Bills : bill[b].due - Agreement(b) \in Int
    BY <1>7, <2>1
  <2>3. QED BY <1>3, <2>2
<1>9. GoodsTyped
  BY <1>3, <1>5, <1>6, <1>8 DEF GoodsTyped
<1>10. AsksTyped
  BY <1>3 DEF AsksTyped
<1>11. QED
  BY <1>4, <1>9, <1>10 DEF TypeInv

LEMMA StepTypes == TypeInv /\ [Next]_vars => TypeInv'
  BY BooksKeepTypes, CorrectKeepsTypes, DeliverKeepsTypes, ReadDeliveryKeepsTypes, OthersKeepTypes DEF Next

-----------------------------------------------------------------------------
(* Lines, lots and what they hold, part by part. *)

LotsOf(R, c) == {R[c].lines[l].lot : l \in DOMAIN R[c].lines}
LinesStand(R, L, H) ==
  \A c \in Receipts : \A l \in DOMAIN R[c].lines :
    /\ L[R[c].lines[l].lot].from = "delivery"
    /\ LotStands(R[c].lines[l], L[R[c].lines[l].lot], H[R[c].lines[l].lot])
LotsApart(R) ==
  \A c, d \in Receipts : \A l \in DOMAIN R[c].lines, k \in DOMAIN R[d].lines :
    R[c].lines[l].lot = R[d].lines[k].lot => c = d /\ l = k
NoneIdle(R, L) ==
  \A x \in Lots : L[x].from = "delivery" => L[x].cost = 0 \/ \E c \in Receipts : x \in LotsOf(R, c)
UnbornEmpty(L, H) == \A x \in Lots : L[x].from = "none" => \A g \in Goods : H[x][g] = 0
FeesShared(R) ==
  \A c \in Receipts : SumFunction([l \in DOMAIN R[c].lines |-> R[c].lines[l].share]) = R[c].fee
OpenedOnce(L, H) ==
  \A x, y \in Lots, g \in Goods :
    L[x].from = "opening" /\ L[y].from = "opening" /\ H[x][g] > 0 /\ H[y][g] > 0 => x = y

LEMMA StandIs ==
  ASSUME NEW R, NEW L, NEW H
  PROVE  GoodsStand(R, L, H) <=> /\ LinesStand(R, L, H) /\ LotsApart(R) /\ NoneIdle(R, L)
                                 /\ UnbornEmpty(L, H) /\ FeesShared(R) /\ OpenedOnce(L, H)
<1>1. NoneIdle(R, L) <=>
        \A x \in Lots : L[x].from = "delivery" =>
          L[x].cost = 0 \/ \E c \in Receipts : \E l \in DOMAIN R[c].lines : R[c].lines[l].lot = x
  BY DEF NoneIdle, LotsOf
<1>2. QED
  BY <1>1 DEF GoodsStand, LinesStand, LotsApart, UnbornEmpty, FeesShared, OpenedOnce

\* The lines of c are written anew: on its own lots and on new ones, and the lots that
\* it leaves cost nothing more.
Rewritten(c, ls, fee) ==
  /\ ls \in Seq(LineRows) /\ SumFunction([l \in DOMAIN ls |-> ls[l].share]) = fee
  /\ receipt'[c].lines = ls /\ receipt'[c].fee = fee /\ \A d \in Receipts \ {c} : receipt'[d] = receipt[d]
  /\ \A l, k \in DOMAIN ls : ls[l].lot = ls[k].lot => l = k
  /\ \A l \in DOMAIN ls : /\ ls[l].lot \in Unborn \cup LotsOf(receipt, c)
                          /\ lot'[ls[l].lot].from = "delivery"
                          /\ LotStands(ls[l], lot'[ls[l].lot], moved'[ls[l].lot])
  /\ \A x \in Lots : (\A l \in DOMAIN ls : ls[l].lot # x) =>
       IF x \in LotsOf(receipt, c) THEN lot'[x].from = "delivery" /\ lot'[x].cost = 0
       ELSE lot'[x] = lot[x] /\ \A g \in Goods : moved'[x][g] = moved[x][g]

Stands == GoodsStand(receipt, lot, moved)

LEMMA StandsAgain ==
  ASSUME Stands, GoodsTyped, NEW c \in Receipts, NEW ls, NEW fee, Rewritten(c, ls, fee)
  PROVE  Stands'
<1> DEFINE now == receipt[c].lines
           in == {ls[l].lot : l \in DOMAIN ls}
<1>1. /\ LinesStand(receipt, lot, moved) /\ LotsApart(receipt) /\ NoneIdle(receipt, lot)
      /\ UnbornEmpty(lot, moved) /\ FeesShared(receipt) /\ OpenedOnce(lot, moved)
  BY StandIs DEF Stands
<1>2. receipt'[c].lines = ls /\ receipt'[c].fee = fee /\ \A d \in Receipts \ {c} : receipt'[d] = receipt[d]
  BY DEF Rewritten
<1>3. \A d \in Receipts \ {c} : LotsOf(receipt', d) = LotsOf(receipt, d)
  BY <1>2 DEF LotsOf
<1>4. LotsOf(receipt', c) = in
  BY <1>2 DEF LotsOf
<1>5. \A d \in Receipts : LotsOf(receipt, d) \subseteq Lots
  <2> TAKE d \in Receipts
  <2>1. PICK rows \in Seq(LineRows) : rows = receipt[d].lines
    BY DEF GoodsTyped
  <2>2. \A l \in DOMAIN rows : rows[l] \in LineRows
    BY LinesAre
  <2>3. \A l \in DOMAIN rows : rows[l].lot \in Lots
    BY <2>2 DEF LineRows
  <2>4. QED BY <2>1, <2>3 DEF LotsOf
<1>6. \A d \in Receipts \ {c} : LotsOf(receipt, d) \cap LotsOf(receipt, c) = {}
  BY <1>1 DEF LotsApart, LotsOf
<1>7. \A d \in Receipts : \A x \in LotsOf(receipt, d) : lot[x].from = "delivery"
  BY <1>1 DEF LinesStand, LotsOf
<1>8. in \subseteq Unborn \cup LotsOf(receipt, c)
  BY DEF Rewritten
<1>9. \A d \in Receipts \ {c} : LotsOf(receipt, d) \cap in = {}
  <2>1. SUFFICES ASSUME NEW d \in Receipts \ {c}, NEW x \in LotsOf(receipt, d), x \in in PROVE FALSE
    OBVIOUS
  <2>2. x \notin LotsOf(receipt, c) /\ lot[x].from = "delivery"
    BY <1>6, <1>7
  <2>3. x \notin Unborn
    BY <2>2 DEF Unborn
  <2>4. QED BY <1>8, <2>1, <2>2, <2>3
<1>10. \A x \in Lots \ in : IF x \in LotsOf(receipt, c) THEN lot'[x].from = "delivery" /\ lot'[x].cost = 0
                            ELSE lot'[x] = lot[x] /\ \A g \in Goods : moved'[x][g] = moved[x][g]
  BY DEF Rewritten
<1>11. \A d \in Receipts \ {c} : \A x \in LotsOf(receipt, d) :
         lot'[x] = lot[x] /\ \A g \in Goods : moved'[x][g] = moved[x][g]
  BY <1>5, <1>6, <1>9, <1>10
<1>12. \A x \in in : lot'[x].from = "delivery"
  BY DEF Rewritten
<1>13. LinesStand(receipt', lot', moved')
  <2>1. SUFFICES ASSUME NEW d \in Receipts, NEW l \in DOMAIN receipt'[d].lines
                 PROVE  LET ln == receipt'[d].lines[l]
                        IN  lot'[ln.lot].from = "delivery" /\ LotStands(ln, lot'[ln.lot], moved'[ln.lot])
    BY DEF LinesStand
  <2>2. CASE d = c
    BY <1>2, <2>2 DEF Rewritten
  <2>3. CASE d # c
    <3>1. PICK ln : ln = receipt[d].lines[l]
      OBVIOUS
    <3>2. l \in DOMAIN receipt[d].lines /\ receipt'[d].lines[l] = ln
      BY <1>2, <2>3, <3>1
    <3>3. lot[ln.lot].from = "delivery" /\ LotStands(ln, lot[ln.lot], moved[ln.lot])
      BY <1>1, <3>1, <3>2 DEF LinesStand
    <3>4. ln.lot \in LotsOf(receipt, d)
      BY <3>1, <3>2 DEF LotsOf
    <3>5. lot'[ln.lot] = lot[ln.lot] /\ \A g \in Goods : moved'[ln.lot][g] = moved[ln.lot][g]
      BY <1>11, <2>3, <3>4
    <3>6. QED BY <3>2, <3>3, <3>5 DEF LotStands
  <2>4. QED BY <2>2, <2>3
<1>14. LotsApart(receipt')
  <2>1. SUFFICES ASSUME NEW d \in Receipts, NEW e \in Receipts,
                        NEW l \in DOMAIN receipt'[d].lines, NEW k \in DOMAIN receipt'[e].lines,
                        receipt'[d].lines[l].lot = receipt'[e].lines[k].lot
                 PROVE  d = e /\ l = k
    BY DEF LotsApart
  <2>2. receipt'[d].lines[l].lot \in LotsOf(receipt', d) /\ receipt'[e].lines[k].lot \in LotsOf(receipt', e)
    BY DEF LotsOf
  <2>3. CASE d = c /\ e = c
    BY <1>2, <2>1, <2>3 DEF Rewritten
  <2>4. CASE (d = c /\ e # c) \/ (d # c /\ e = c)
    BY <1>3, <1>4, <1>9, <2>1, <2>2, <2>4
  <2>5. CASE d # c /\ e # c
    BY <1>1, <1>2, <2>1, <2>5 DEF LotsApart
  <2>6. QED BY <2>3, <2>4, <2>5
<1>15. NoneIdle(receipt', lot')
  <2>1. SUFFICES ASSUME NEW x \in Lots, lot'[x].from = "delivery", lot'[x].cost # 0
                 PROVE  \E d \in Receipts : x \in LotsOf(receipt', d)
    BY DEF NoneIdle
  <2>2. CASE x \in in
    BY <1>4, <2>2
  <2>3. CASE x \notin in
    <3>1. x \notin LotsOf(receipt, c) /\ lot'[x] = lot[x]
      BY <1>10, <2>1, <2>3
    <3>2. PICK d \in Receipts : x \in LotsOf(receipt, d)
      BY <1>1, <2>1, <3>1 DEF NoneIdle
    <3>3. QED BY <1>3, <3>1, <3>2
  <2>4. QED BY <2>2, <2>3
<1>16. \A x \in Lots : lot'[x].from \in {"none", "opening"} =>
         lot'[x] = lot[x] /\ \A g \in Goods : moved'[x][g] = moved[x][g]
  BY <1>10, <1>12
<1>17. UnbornEmpty(lot', moved')
  BY <1>1, <1>16 DEF UnbornEmpty
<1>18. OpenedOnce(lot', moved')
  BY <1>1, <1>16 DEF OpenedOnce
<1>19. FeesShared(receipt')
  <2>1. \A d \in Receipts \ {c} : SumFunction([l \in DOMAIN receipt'[d].lines |-> receipt'[d].lines[l].share]) = receipt'[d].fee
    BY <1>1, <1>2 DEF FeesShared
  <2>2. SumFunction([l \in DOMAIN receipt'[c].lines |-> receipt'[c].lines[l].share]) = receipt'[c].fee
    BY <1>2 DEF Rewritten
  <2>3. QED BY <2>1, <2>2 DEF FeesShared
<1>20. GoodsStand(receipt', lot', moved')
  BY <1>13, <1>14, <1>15, <1>17, <1>18, <1>19, StandIs
<1>21. QED
  BY <1>20 DEF Stands

-----------------------------------------------------------------------------
(* A correction of what it finds as it read it. *)

\* The lot of a line once it is put right.
LotAfter(r, l) == IF l \in ChangedOf(r) THEN AtOf(r, l) ELSE Now(r)[l].lot

LEMMA LotsAfter ==
  ASSUME Stands, GoodsTyped, NEW r \in Requests, Knows(r), OldOf(r) = Now(r)
  PROVE  /\ ChangedOf(r) \subseteq DOMAIN Now(r)
         /\ \A l \in DOMAIN Now(r) : Now(r)[l] \in LineRows /\ lot[Now(r)[l].lot].from = "delivery"
         /\ \A l, k \in DOMAIN Now(r) : Now(r)[l].lot = Now(r)[k].lot => l = k
         /\ \A l \in DOMAIN Now(r) : LotAfter(r, l) \in Lots
         /\ \A l \in SwappedOf(r) : LotAfter(r, l) \in Unborn
         /\ \A l \in DOMAIN Now(r) : l \notin SwappedOf(r) => LotAfter(r, l) = Now(r)[l].lot
         /\ \A l, k \in DOMAIN Now(r) : LotAfter(r, l) = LotAfter(r, k) => l = k
         /\ \A l, k \in DOMAIN Now(r) : LotAfter(r, l) = Now(r)[k].lot => l = k /\ l \notin SwappedOf(r)
<1> DEFINE now == Now(r)
           c == ask[r].receipt
<1>1. c \in Receipts /\ now = receipt[c].lines /\ now \in Seq(LineRows) /\ ChangedOf(r) \subseteq DOMAIN now
  BY DEF Knows, Now
<1>2. \A l \in DOMAIN now : now[l] \in LineRows
  <2> HIDE DEF now
  <2>1. QED BY <1>1, LinesAre
<1>3. LinesStand(receipt, lot, moved) /\ LotsApart(receipt)
  BY StandIs DEF Stands
<1>4. \A l \in DOMAIN now : lot[now[l].lot].from = "delivery" /\ now[l].lot \notin Unborn
  BY <1>1, <1>3 DEF LinesStand, Unborn
<1>5. \A l, k \in DOMAIN now : now[l].lot = now[k].lot => l = k
  BY <1>1, <1>3 DEF LotsApart
<1>6. \A l \in SwappedOf(r) : l \in DOMAIN now /\ LotAfter(r, l) = NewLotOf(r)[l] /\ LotAfter(r, l) \in Unborn
  BY <1>1 DEF SwappedOf, LotAfter, AtOf, At, Knows
<1>7. \A l \in DOMAIN now : l \notin SwappedOf(r) => LotAfter(r, l) = now[l].lot
  BY DEF SwappedOf, LotAfter, AtOf, At
<1>8. \A l, k \in SwappedOf(r) : NewLotOf(r)[l] = NewLotOf(r)[k] => l = k
  BY DEF Knows
<1> HIDE DEF now, c
<1>9. \A l \in DOMAIN now : LotAfter(r, l) \in Lots
  <2>1. \A l \in DOMAIN now : now[l].lot \in Lots
    BY <1>2 DEF LineRows
  <2>2. QED BY <1>6, <1>7, <2>1 DEF Unborn
<1>10. \A l, k \in DOMAIN now : LotAfter(r, l) = LotAfter(r, k) => l = k
  BY <1>4, <1>5, <1>6, <1>7, <1>8
<1>11. \A l, k \in DOMAIN now : LotAfter(r, l) = now[k].lot => l = k /\ l \notin SwappedOf(r)
  BY <1>4, <1>5, <1>6, <1>7
<1>12. QED
  BY <1>1, <1>2, <1>4, <1>5, <1>6, <1>7, <1>9, <1>10, <1>11 DEF now

\* The true figures are in the lines.
LEMMA FiguresAfter ==
  ASSUME Stands, GoodsTyped, NEW r \in Requests, Knows(r), OldOf(r) = Now(r),
         FeeOf(r) > 0 => HasSomewhereToGo(FiguresOf(r))
  PROVE  LET ls == LinesOf(r)
         IN  /\ ls \in Seq(LineRows) /\ DOMAIN ls = DOMAIN Now(r)
             /\ SumFunction([l \in DOMAIN ls |-> ls[l].share]) = FeeOf(r)
             /\ \A l \in DOMAIN ls : ls[l].lot = LotAfter(r, l)
             /\ \A l \in ChangedOf(r) : /\ ls[l].goods = ask[r].truths[l].goods
                                        /\ ls[l].received = ask[r].truths[l].received
                                        /\ ls[l].value = ask[r].truths[l].value
             /\ \A l \in DOMAIN ls \ ChangedOf(r) : /\ ls[l].goods = Now(r)[l].goods
                                                   /\ ls[l].received = Now(r)[l].received
                                                   /\ ls[l].value = Now(r)[l].value
<1> DEFINE ls == LinesOf(r)
           fs == FiguresOf(r)
           now == Now(r)
<1>1. fs \in Seq(LineRows) /\ DOMAIN fs = DOMAIN now /\ FeeOf(r) \in Nat
  BY DEF Knows
<1>2. /\ ls \in Seq(LineRows) /\ DOMAIN ls = DOMAIN fs
      /\ \A l \in DOMAIN fs : /\ ls[l].goods = fs[l].goods /\ ls[l].lot = fs[l].lot
                              /\ ls[l].received = fs[l].received /\ ls[l].value = fs[l].value
      /\ SumFunction([l \in DOMAIN ls |-> ls[l].share]) = FeeOf(r)
  BY <1>1, ResharedLines DEF LinesOf
<1>3. \A l \in DOMAIN now : now[l] \in LineRows
  BY LotsAfter
<1>4. ASSUME NEW l \in ChangedOf(r)
      PROVE  /\ fs[l].goods = ask[r].truths[l].goods /\ fs[l].received = ask[r].truths[l].received
             /\ fs[l].value = ask[r].truths[l].value /\ fs[l].lot = LotAfter(r, l)
  <2> DEFINE truth == ask[r].truths[l]
             wrong == WrongProduct(l, now, ask[r].truths)
             goods == IF wrong THEN truth.goods ELSE <<now[l].goods[1], truth.goods[2]>>
             at == IF wrong THEN NewLotOf(r)[l] ELSE now[l].lot
  <2>1. l \in DOMAIN now /\ truth \in Figures
    BY LotsAfter DEF Knows
  <2>2. fs = Corrected(now, ChangedOf(r), now, ask[r].truths, NewLotOf(r))
    BY DEF FiguresOf
  <2>3. fs[l] = [now[l] EXCEPT !.received = truth.received, !.value = truth.value, !.goods = goods, !.lot = at]
    BY <2>1, <2>2 DEF Corrected
  <2>4. goods = truth.goods
    <3>1. truth.goods \in Goods /\ now[l].goods \in Goods
      BY <1>3, <2>1 DEF Figures, LineRows
    <3>2. truth.goods = <<truth.goods[1], truth.goods[2]>>
      BY <3>1 DEF Goods
    <3>3. ~wrong => truth.goods[1] = now[l].goods[1]
      BY DEF WrongProduct
    <3> HIDE DEF truth, wrong, now
    <3>4. QED BY <3>2, <3>3
  <2>5. at = LotAfter(r, l)
    BY DEF LotAfter, AtOf, At
  <2>6. PICK row \in LineRows : row = now[l]
    BY <1>3, <2>1
  <2>7. fs[l] = [row EXCEPT !.received = truth.received, !.value = truth.value, !.goods = goods, !.lot = at]
    BY <2>3, <2>6
  <2> HIDE DEF goods, at, fs, truth
  <2>8. fs[l].received = truth.received /\ fs[l].value = truth.value /\ fs[l].goods = goods /\ fs[l].lot = at
    BY <2>7 DEF LineRows
  <2>9. QED BY <2>4, <2>5, <2>8 DEF truth
<1>5. ASSUME NEW l \in DOMAIN now \ ChangedOf(r) PROVE fs[l] = now[l] /\ LotAfter(r, l) = now[l].lot
  BY DEF FiguresOf, Corrected, LotAfter
<1>6. ChangedOf(r) \subseteq DOMAIN now
  BY LotsAfter
<1> HIDE DEF fs, ls, now
<1>7. QED
  BY <1>1, <1>2, <1>4, <1>5, <1>6 DEF ls, now

\* The lots of the lines.
LEMMA LotsAfterwards ==
  ASSUME Stands, GoodsTyped, NEW r \in Requests, Knows(r), OldOf(r) = Now(r), Corrects(r)
  PROVE  LET ls == LinesOf(r)
         IN  /\ \A l \in DOMAIN ls : /\ lot'[ls[l].lot].from = "delivery" /\ lot'[ls[l].lot].received = ls[l].received
                                     /\ lot'[ls[l].lot].cost = ls[l].value + ls[l].share
             /\ \A x \in Lots : (\A l \in DOMAIN ls : ls[l].lot # x) =>
                  IF x \in LotsOf(receipt, ask[r].receipt) THEN lot'[x].from = "delivery" /\ lot'[x].cost = 0
                  ELSE lot'[x] = lot[x]
<1> DEFINE ls == LinesOf(r)
           now == Now(r)
           changed == ChangedOf(r)
           W == WrittenBy(r)
           on(x) == CHOOSE l \in changed : AtOf(r, l) = x
           of(x) == CHOOSE l \in DOMAIN ls : ls[l].lot = x
           D == DOMAIN now
<1>1. W = [x \in Lots |->
             IF \E l \in changed : AtOf(r, l) = x
             THEN [from |-> "delivery", received |-> ask[r].truths[on(x)].received, cost |-> ask[r].truths[on(x)].value]
             ELSE IF \E l \in changed : now[l].lot = x THEN [lot[x] EXCEPT !.received = 0, !.cost = 0]
             ELSE lot[x]]
  BY DEF WrittenBy, Written, AtOf, At
<1>2. lot' = [x \in Lots |-> IF \E l \in DOMAIN ls : ls[l].lot = x
                            THEN [W[x] EXCEPT !.cost = ls[of(x)].value + ls[of(x)].share] ELSE W[x]]
  BY DEF Corrects, Costed
<1>3. /\ ls \in Seq(LineRows) /\ DOMAIN ls = D /\ \A l \in D : ls[l].lot = LotAfter(r, l)
      /\ \A l \in changed : ls[l].received = ask[r].truths[l].received
      /\ \A l \in D \ changed : ls[l].received = now[l].received
  BY FiguresAfter DEF Corrects
<1>4. /\ changed \subseteq D /\ \A l \in D : LotAfter(r, l) \in Lots
      /\ \A l \in D : now[l] \in LineRows /\ lot[now[l].lot].from = "delivery"
      /\ \A l, k \in D : now[l].lot = now[k].lot => l = k
      /\ \A l, k \in D : LotAfter(r, l) = LotAfter(r, k) => l = k
      /\ \A l, k \in D : LotAfter(r, l) = now[k].lot => l = k
  BY LotsAfter
<1>5. \A x \in Lots : lot[x] \in LotRows
  BY DEF GoodsTyped
<1>6. \A l \in changed : LotAfter(r, l) = AtOf(r, l)
  BY DEF LotAfter
<1>7. \A l \in D \ changed : LotAfter(r, l) = now[l].lot
  BY DEF LotAfter
<1>8. LinesStand(receipt, lot, moved) /\ now = receipt[ask[r].receipt].lines /\ ask[r].receipt \in Receipts
  BY StandIs DEF Stands, Now, Knows
<1>9. \A l \in D : lot[now[l].lot].received = now[l].received
  BY <1>8 DEF LinesStand, LotStands
<1>10. LotsOf(receipt, ask[r].receipt) = {now[l].lot : l \in D}
  BY <1>8 DEF LotsOf
<1> HIDE DEF ls, now, changed, W, D
<1>11. ASSUME NEW l \in D
       PROVE  W[LotAfter(r, l)] \in LotRows /\ W[LotAfter(r, l)].from = "delivery"
              /\ W[LotAfter(r, l)].received = ls[l].received
  <2> DEFINE x == LotAfter(r, l)
  <2>1. CASE l \in changed
    <3>1. AtOf(r, l) = x /\ \A k \in changed : AtOf(r, k) = x => k = l
      BY <1>4, <1>6, <2>1
    <3>2. on(x) = l
      BY <2>1, <3>1
    <3>3. W[x] = [from |-> "delivery", received |-> ask[r].truths[l].received, cost |-> ask[r].truths[l].value]
      BY <1>1, <1>4, <2>1, <3>1, <3>2
    <3>4. ask[r].truths[l].received \in Nat /\ ask[r].truths[l].value \in Nat
      BY <2>1 DEF Knows, Figures, changed
    <3> HIDE DEF x
    <3>5. W[x] \in LotRows /\ W[x].from = "delivery" /\ W[x].received = ask[r].truths[l].received
      BY <3>3, <3>4 DEF LotRows
    <3>6. QED BY <1>3, <2>1, <3>5 DEF x
  <2>2. CASE l \notin changed
    <3>1. x = now[l].lot
      BY <1>7, <2>2
    <3>2. \A k \in changed : AtOf(r, k) # x /\ now[k].lot # x
      BY <1>4, <1>6, <2>2, <3>1
    <3>3. W[x] = lot[x]
      BY <1>1, <1>4, <3>2
    <3>4. lot[x].received = now[l].received /\ lot[x].from = "delivery"
      BY <1>4, <1>9, <3>1
    <3>5. QED BY <1>3, <1>4, <1>5, <2>2, <3>3, <3>4
  <2>3. QED BY <2>1, <2>2
<1>12. ASSUME NEW l \in D
       PROVE  /\ lot'[ls[l].lot].from = "delivery" /\ lot'[ls[l].lot].received = ls[l].received
              /\ lot'[ls[l].lot].cost = ls[l].value + ls[l].share
  <2> DEFINE x == LotAfter(r, l)
  <2>1. ls[l].lot = x /\ x \in Lots /\ \A k \in DOMAIN ls : ls[k].lot = x => k = l
    BY <1>3, <1>4
  <2>2. of(x) = l
    BY <1>3, <2>1
  <2>3. lot'[x] = [W[x] EXCEPT !.cost = ls[l].value + ls[l].share]
    BY <1>2, <1>3, <2>1, <2>2
  <2>4. W[x] \in LotRows /\ W[x].from = "delivery" /\ W[x].received = ls[l].received
    BY <1>11
  <2> HIDE DEF x
  <2>5. PICK row \in LotRows : row = W[x]
    BY <2>4
  <2>6. lot'[x].from = row.from /\ lot'[x].received = row.received /\ lot'[x].cost = ls[l].value + ls[l].share
    BY <2>3, <2>5 DEF LotRows
  <2>7. QED BY <2>1, <2>4, <2>5, <2>6
<1>13. ASSUME NEW x \in Lots, \A l \in D : LotAfter(r, l) # x
       PROVE  IF \E l \in D : now[l].lot = x THEN lot'[x].from = "delivery" /\ lot'[x].cost = 0 ELSE lot'[x] = lot[x]
  <2>1. lot'[x] = W[x]
    BY <1>2, <1>3, <1>13
  <2>2. \A k \in changed : AtOf(r, k) # x
    BY <1>4, <1>6, <1>13
  <2>3. \A k \in D : now[k].lot = x => k \in changed
    BY <1>7, <1>13
  <2>4. CASE \E l \in D : now[l].lot = x
    <3>1. \E l \in changed : now[l].lot = x
      BY <2>3, <2>4
    <3>2. W[x] = [lot[x] EXCEPT !.received = 0, !.cost = 0]
      BY <1>1, <2>2, <3>1
    <3>3. lot[x] \in LotRows /\ lot[x].from = "delivery"
      BY <1>4, <1>5, <2>4
    <3>4. QED BY <2>1, <2>4, <3>2, <3>3 DEF LotRows
  <2>5. CASE ~\E l \in D : now[l].lot = x
    <3>1. W[x] = lot[x]
      BY <1>1, <1>4, <2>2, <2>5
    <3>2. QED BY <2>1, <2>5, <3>1
  <2>6. QED BY <2>4, <2>5
<1>14. QED
  BY <1>3, <1>10, <1>12, <1>13 DEF ls

\* What is brought to a lot is what its one line brings.
LEMMA BroughtOne ==
  ASSUME NEW r \in Requests, Knows(r), NEW x, NEW g, NEW l \in ChangedOf(r),
         \A k \in ChangedOf(r) \ {l} : AtOf(r, k) # x /\ OldOf(r)[k].lot # x
  PROVE  BroughtBy(r, x, g) = BroughtOn(r, x, g)[l]
<1> DEFINE h == BroughtOn(r, x, g)
           S == ChangedOf(r)
<1>1. IsFiniteSet(S) /\ BroughtBy(r, x, g) = SumFunctionOnSet(h, S) /\ \A k \in S : h[k] \in Int
  BY BroughtIs DEF Knows
<1>2. \A k \in S \ {l} : h[k] = 0
  BY DEF BroughtOn
<1> HIDE DEF h, S
<1>3. SumFunctionOnSet(h, S) = h[l] + SumFunctionOnSet(h, S \ {l})
  BY <1>1, SumWithout DEF S
<1>4. SumFunctionOnSet(h, S \ {l}) = 0
  BY <1>1, <1>2, SumOfZeros, FS_Subset
<1>5. h[l] \in Int
  BY <1>1 DEF S
<1>6. QED
  BY <1>1, <1>3, <1>4, <1>5 DEF h

LEMMA BroughtNone ==
  ASSUME NEW r \in Requests, Knows(r), NEW x, NEW g,
         \A k \in ChangedOf(r) : AtOf(r, k) # x /\ OldOf(r)[k].lot # x
  PROVE  BroughtBy(r, x, g) = 0
<1> DEFINE h == BroughtOn(r, x, g)
           S == ChangedOf(r)
<1>1. IsFiniteSet(S) /\ BroughtBy(r, x, g) = SumFunctionOnSet(h, S)
  BY BroughtIs DEF Knows
<1>2. \A k \in S : h[k] = 0
  BY DEF BroughtOn
<1> HIDE DEF h, S
<1>3. QED
  BY <1>1, <1>2, SumOfZeros

\* What a correction brings to each lot: the true goods to the lots of its lines, nothing
\* to the lots of others; the wrong goods are taken out of the line's own.
LEMMA GoodsAfterwards ==
  ASSUME Stands, GoodsTyped, NEW r \in Requests, Knows(r), OldOf(r) = Now(r), Corrects(r)
  PROVE  LET ls == LinesOf(r)
         IN  /\ \A l \in DOMAIN ls : \A g \in Goods :
                  moved'[ls[l].lot][g] = IF g = ls[l].goods THEN ls[l].received ELSE 0
             /\ \A x \in Lots : (\A l \in DOMAIN ls : ls[l].lot # x) =>
                  \A g \in Goods :
                    moved'[x][g] = IF \E l \in SwappedOf(r) : Now(r)[l].lot = x THEN 0 ELSE moved[x][g]
<1> DEFINE ls == LinesOf(r)
           now == Now(r)
           changed == ChangedOf(r)
           D == DOMAIN now
           truths == ask[r].truths
<1>1. \A x \in Lots, g \in Goods : /\ moved'[x][g] = moved[x][g] + BroughtBy(r, x, g)
                                  /\ moved[x][g] \in Int
  BY DEF Corrects, GoodsTyped
<1>2. /\ DOMAIN ls = D /\ \A l \in D : ls[l].lot = LotAfter(r, l)
      /\ \A l \in changed : ls[l].received = truths[l].received /\ ls[l].goods = truths[l].goods
      /\ \A l \in D \ changed : ls[l].received = now[l].received /\ ls[l].goods = now[l].goods
  BY FiguresAfter DEF Corrects
<1>3. /\ changed \subseteq D /\ \A l \in D : LotAfter(r, l) \in Lots
      /\ \A l \in D : now[l] \in LineRows /\ lot[now[l].lot].from = "delivery"
      /\ \A l, k \in D : now[l].lot = now[k].lot => l = k
      /\ \A l \in SwappedOf(r) : LotAfter(r, l) \in Unborn
      /\ \A l \in D : l \notin SwappedOf(r) => LotAfter(r, l) = now[l].lot
      /\ \A l, k \in D : LotAfter(r, l) = LotAfter(r, k) => l = k
      /\ \A l, k \in D : LotAfter(r, l) = now[k].lot => l = k /\ l \notin SwappedOf(r)
  BY LotsAfter
<1>4. OldOf(r) = now /\ (\A l \in changed : truths[l].received \in Nat) /\ SwappedOf(r) \subseteq changed
      /\ (\A l \in changed : LotAfter(r, l) = AtOf(r, l))
  BY DEF Knows, Figures, SwappedOf, LotAfter
<1>5. /\ UnbornEmpty(lot, moved) /\ LinesStand(receipt, lot, moved)
      /\ now = receipt[ask[r].receipt].lines /\ ask[r].receipt \in Receipts
  BY StandIs DEF Stands, Now, Knows
<1>6. \A l \in D : \A g \in Goods : moved[now[l].lot][g] = IF g = now[l].goods THEN now[l].received ELSE 0
  BY <1>5 DEF LinesStand, LotStands
<1>7. \A l \in D : now[l].received \in Nat /\ now[l].lot \in Lots
  BY <1>3 DEF LineRows
<1>8. \A l \in changed : \A x, g : BroughtOn(r, x, g)[l] =
          (IF AtOf(r, l) = x /\ truths[l].goods = g THEN truths[l].received ELSE 0)
        - (IF now[l].lot = x /\ now[l].goods = g THEN now[l].received ELSE 0)
  BY <1>4 DEF BroughtOn
<1> HIDE DEF ls, now, changed, D, truths
<1>9. ASSUME NEW l \in D, NEW g \in Goods
      PROVE  moved'[LotAfter(r, l)][g] = IF g = ls[l].goods THEN ls[l].received ELSE 0
  <2> DEFINE x == LotAfter(r, l)
  <2>1. x \in Lots /\ moved'[x][g] = moved[x][g] + BroughtBy(r, x, g) /\ moved[x][g] \in Int
    BY <1>1, <1>3
  <2>2. \A k \in changed \ {l} : AtOf(r, k) # x /\ OldOf(r)[k].lot # x
    BY <1>3, <1>4
  <2>3. CASE l \in SwappedOf(r)
    <3>1. moved[x][g] = 0 /\ now[l].lot # x /\ AtOf(r, l) = x /\ l \in changed
      BY <1>3, <1>4, <1>5, <2>1, <2>3 DEF UnbornEmpty, Unborn
    <3>2. BroughtBy(r, x, g) = BroughtOn(r, x, g)[l]
      BY <2>2, <3>1, BroughtOne DEF changed
    <3>3. BroughtOn(r, x, g)[l] = IF truths[l].goods = g THEN truths[l].received ELSE 0
      BY <1>4, <1>8, <3>1
    <3>4. QED
      BY <1>2, <1>4, <2>1, <3>1, <3>2, <3>3
  <2>4. CASE l \in changed \ SwappedOf(r)
    <3>1. now[l].lot = x /\ AtOf(r, l) = x
      BY <1>3, <1>4, <2>4
    <3>2. BroughtBy(r, x, g) = BroughtOn(r, x, g)[l]
      BY <2>2, <2>4, BroughtOne DEF changed
    <3>3. BroughtOn(r, x, g)[l] = (IF truths[l].goods = g THEN truths[l].received ELSE 0)
                                - (IF now[l].goods = g THEN now[l].received ELSE 0)
      BY <1>8, <2>4, <3>1
    <3>4. moved[x][g] = IF now[l].goods = g THEN now[l].received ELSE 0
      BY <1>6, <3>1
    <3>5. truths[l].received \in Nat /\ now[l].received \in Nat
      BY <1>4, <1>7, <2>4
    <3>6. ls[l].received = truths[l].received /\ ls[l].goods = truths[l].goods
      BY <1>2, <2>4
    <3> HIDE DEF x
    <3>7. QED
      BY <2>1, <3>2, <3>3, <3>4, <3>5, <3>6 DEF x
  <2>5. CASE l \notin changed
    <3>1. now[l].lot = x
      BY <1>3, <1>4, <2>5
    <3>2. BroughtBy(r, x, g) = 0
      BY <2>2, <2>5, BroughtNone DEF changed
    <3>3. QED
      BY <1>2, <1>6, <2>1, <2>5, <3>1, <3>2
  <2>6. QED BY <2>3, <2>4, <2>5
<1>10. ASSUME NEW x \in Lots, \A l \in D : LotAfter(r, l) # x, NEW g \in Goods
       PROVE  moved'[x][g] = IF \E l \in SwappedOf(r) : now[l].lot = x THEN 0 ELSE moved[x][g]
  <2>1. moved'[x][g] = moved[x][g] + BroughtBy(r, x, g) /\ moved[x][g] \in Int
    BY <1>1
  <2>2. CASE \E l \in SwappedOf(r) : now[l].lot = x
    <3>1. PICK l \in SwappedOf(r) : now[l].lot = x
      BY <2>2
    <3>2. l \in changed /\ l \in D /\ AtOf(r, l) # x /\ \A k \in changed \ {l} : AtOf(r, k) # x /\ OldOf(r)[k].lot # x
      BY <1>3, <1>4, <1>10, <3>1
    <3>3. BroughtBy(r, x, g) = BroughtOn(r, x, g)[l]
      BY <3>2, BroughtOne DEF changed
    <3>4. BroughtOn(r, x, g)[l] = 0 - (IF now[l].goods = g THEN now[l].received ELSE 0)
      BY <1>8, <3>1, <3>2
    <3>5. moved[x][g] = IF now[l].goods = g THEN now[l].received ELSE 0
      BY <1>6, <3>1, <3>2
    <3>6. now[l].received \in Nat
      BY <1>7, <3>2
    <3>7. QED
      BY <2>1, <2>2, <3>3, <3>4, <3>5, <3>6
  <2>3. CASE ~\E l \in SwappedOf(r) : now[l].lot = x
    <3>1. \A k \in changed : AtOf(r, k) # x /\ OldOf(r)[k].lot # x
      BY <1>3, <1>4, <1>10, <2>3
    <3>2. BroughtBy(r, x, g) = 0
      BY <3>1, BroughtNone DEF changed
    <3>3. QED BY <2>1, <2>3, <3>2
  <2>4. QED BY <2>2, <2>3
<1>11. QED
  BY <1>2, <1>9, <1>10 DEF ls, now

LEMMA CorrectRewrites ==
  ASSUME Stands, GoodsTyped, NEW r \in Requests, Knows(r), OldOf(r) = Now(r), Corrects(r),
         sheet[r].fee = receipt[ask[r].receipt].fee
  PROVE  Rewritten(ask[r].receipt, LinesOf(r), FeeOf(r))
<1> DEFINE ls == LinesOf(r)
           c == ask[r].receipt
<1>1. /\ ls \in Seq(LineRows) /\ DOMAIN ls = DOMAIN Now(r)
      /\ SumFunction([l \in DOMAIN ls |-> ls[l].share]) = FeeOf(r)
      /\ \A l \in DOMAIN ls : ls[l].lot = LotAfter(r, l)
  BY FiguresAfter DEF Corrects
<1>2. c \in Receipts /\ DOMAIN receipt = Receipts
  BY DEF Knows, GoodsTyped
<1>3. PICK fee : fee = (IF FeeOf(r) = sheet[r].fee THEN receipt[c].fee ELSE FeeOf(r))
  OBVIOUS
<1>4. receipt' = [receipt EXCEPT ![c] = [lines |-> ls, fee |-> fee]] /\ fee = FeeOf(r)
  BY <1>3 DEF Corrects
<1>5. /\ \A l \in DOMAIN ls : /\ lot'[ls[l].lot].from = "delivery" /\ lot'[ls[l].lot].received = ls[l].received
                              /\ lot'[ls[l].lot].cost = ls[l].value + ls[l].share
      /\ \A x \in Lots : (\A l \in DOMAIN ls : ls[l].lot # x) =>
           IF x \in LotsOf(receipt, c) THEN lot'[x].from = "delivery" /\ lot'[x].cost = 0 ELSE lot'[x] = lot[x]
  BY LotsAfterwards
<1>6. /\ \A l \in DOMAIN ls : \A g \in Goods : moved'[ls[l].lot][g] = IF g = ls[l].goods THEN ls[l].received ELSE 0
      /\ \A x \in Lots : (\A l \in DOMAIN ls : ls[l].lot # x) =>
           \A g \in Goods : moved'[x][g] = IF \E l \in SwappedOf(r) : Now(r)[l].lot = x THEN 0 ELSE moved[x][g]
  BY GoodsAfterwards
<1>7. /\ \A l \in SwappedOf(r) : LotAfter(r, l) \in Unborn
      /\ \A l \in DOMAIN Now(r) : l \notin SwappedOf(r) => LotAfter(r, l) = Now(r)[l].lot
      /\ \A l, k \in DOMAIN Now(r) : LotAfter(r, l) = LotAfter(r, k) => l = k
      /\ SwappedOf(r) \subseteq DOMAIN Now(r)
  BY LotsAfter DEF SwappedOf
<1>8. LotsOf(receipt, c) = {Now(r)[l].lot : l \in DOMAIN Now(r)}
  BY DEF LotsOf, Now
<1> HIDE DEF ls, c
<1>9. receipt'[c].lines = ls /\ receipt'[c].fee = FeeOf(r) /\ \A d \in Receipts \ {c} : receipt'[d] = receipt[d]
  BY <1>2, <1>4
<1>10. \A l, k \in DOMAIN ls : ls[l].lot = ls[k].lot => l = k
  BY <1>1, <1>7
<1>11. \A l \in DOMAIN ls : ls[l].lot \in Unborn \cup LotsOf(receipt, c)
  BY <1>1, <1>7, <1>8
<1>12. \A l \in DOMAIN ls : LotStands(ls[l], lot'[ls[l].lot], moved'[ls[l].lot])
  BY <1>5, <1>6 DEF LotStands
<1>13. \A x \in Lots : (\A l \in DOMAIN ls : ls[l].lot # x) =>
         IF x \in LotsOf(receipt, c) THEN lot'[x].from = "delivery" /\ lot'[x].cost = 0
         ELSE lot'[x] = lot[x] /\ \A g \in Goods : moved'[x][g] = moved[x][g]
  BY <1>5, <1>6, <1>7, <1>8
<1>14. Rewritten(c, ls, FeeOf(r))
  BY <1>1, <1>5, <1>9, <1>10, <1>11, <1>12, <1>13 DEF Rewritten
<1>15. QED
  BY <1>14 DEF ls, c

\* The lines are worth as much more as the bill is put up by.
LEMMA ValueAfterwards ==
  ASSUME Stands, GoodsTyped, NEW r \in Requests, Knows(r), OldOf(r) = Now(r), Corrects(r)
  PROVE  Value(LinesOf(r)) = Value(Now(r)) + By(sheet[r], ask[r])
<1> DEFINE ls == LinesOf(r)
           now == Now(r)
           changed == ChangedOf(r)
           truths == ask[r].truths
           D == DOMAIN now
           h == ValueOf(now)
           g == ValueOf(ls)
           d == [l \in changed |-> truths[l].value - now[l].value]
           e == [l \in D |-> IF l \in changed THEN d[l] ELSE 0]
<1>1. /\ ls \in Seq(LineRows) /\ DOMAIN ls = D
      /\ \A l \in changed : ls[l].value = truths[l].value
      /\ \A l \in D \ changed : ls[l].value = now[l].value
  BY FiguresAfter DEF Corrects
<1>2. now \in Seq(LineRows) /\ changed \subseteq D /\ OldOf(r) = now /\ \A l \in changed : truths[l].value \in Nat
  BY LotsAfter DEF Knows, Figures
<1>3. By(sheet[r], ask[r]) = SumFunctionOnSet(d, changed)
  BY DEF By, ValueDelta, SumOver, SumFunction, ChangedOf, OldOf
<1> HIDE DEF ls, now, changed, truths
<1>4. /\ IsFiniteSet(D) /\ \A l \in D : now[l] \in LineRows /\ ls[l] \in LineRows
  BY <1>1, <1>2, LinesAre
<1>5. \A l \in D : now[l].value \in Nat /\ ls[l].value \in Nat
  BY <1>4 DEF LineRows
<1>6. Value(now) = SumFunctionOnSet(h, D) /\ Value(ls) = SumFunctionOnSet(g, D)
  BY <1>1, <1>4, <1>5, ValueIs
<1>7. \A l \in changed : d[l] \in Int /\ d[l] = truths[l].value - now[l].value
  BY <1>2, <1>5
<1>8. \A l \in D : e[l] = IF l \in changed THEN d[l] ELSE 0
  OBVIOUS
<1>9. \A l \in D : h[l] = now[l].value /\ g[l] = ls[l].value
  BY <1>1 DEF ValueOf
<1> HIDE DEF d, e, h, g, D
<1>10. SumFunctionOnSet(d, changed) = SumFunctionOnSet(e, D)
  BY <1>2, <1>4, <1>7, <1>8, SumOfSome
<1>11. \A l \in D : h[l] \in Int /\ e[l] \in Int /\ g[l] = h[l] + e[l]
  <2> TAKE l \in D
  <2>1. now[l].value \in Int /\ ls[l].value \in Int
    BY <1>5
  <2>2. CASE l \in changed
    <3>1. ls[l].value = truths[l].value /\ e[l] = truths[l].value - now[l].value
      BY <1>1, <1>7, <1>8, <2>2
    <3>2. truths[l].value \in Int
      BY <1>2, <2>2
    <3>3. QED BY <1>9, <2>1, <3>1, <3>2
  <2>3. CASE l \notin changed
    <3>1. ls[l].value = now[l].value /\ e[l] = 0
      BY <1>1, <1>8, <2>3
    <3>2. QED BY <1>9, <2>1, <3>1
  <2>4. QED BY <2>2, <2>3
<1>12. SumFunctionOnSet(g, D) = SumFunctionOnSet(h, D) + SumFunctionOnSet(e, D)
  BY <1>4, <1>11, SumOfSums
<1>13. QED
  BY <1>3, <1>6, <1>10, <1>12 DEF ls, now

\* Nothing that a correction takes out leaves a lot short, unless it was forced.
NoneShort == \A x \in Lots, g \in Goods : OnHand(x, g) < 0 => x \in forced

LEMMA CorrectLeavesNoneShort ==
  ASSUME Stands, GoodsTyped, NEW r \in Requests, Knows(r), OldOf(r) = Now(r), Corrects(r), NoneShort
  PROVE  NoneShort'
<1> SUFFICES ASSUME NEW x \in Lots, NEW g \in Goods, moved'[x][g] - sold'[x][g] < 0 PROVE x \in forced'
  BY DEF NoneShort, OnHand
<1> DEFINE now == Now(r)
           changed == ChangedOf(r)
           truths == ask[r].truths
<1>1. moved'[x][g] = moved[x][g] + BroughtBy(r, x, g) /\ sold' = sold
  BY DEF Corrects
<1>2. moved[x][g] \in Int /\ sold[x][g] \in Nat /\ BroughtBy(r, x, g) \in Int
  BY BroughtIs DEF GoodsTyped
<1>3. OnHand(x, g) = moved[x][g] - sold[x][g] /\ OnHand(x, g) \in Int
  BY <1>2 DEF OnHand
<1>4. forced' = (IF CoveredBy(r) THEN forced ELSE forced \cup {now[l].lot : l \in changed})
  BY DEF Corrects
<1>5. CASE BroughtBy(r, x, g) >= 0
  <2>1. OnHand(x, g) < 0
    BY <1>1, <1>2, <1>3, <1>5
  <2>2. x \in forced
    BY <2>1 DEF NoneShort
  <2>3. QED BY <1>4, <2>2
<1>6. CASE BroughtBy(r, x, g) < 0
  <2>1. /\ changed \subseteq DOMAIN now
        /\ \A l, k \in DOMAIN now : LotAfter(r, l) = LotAfter(r, k) => l = k
        /\ \A l, k \in DOMAIN now : LotAfter(r, l) = now[k].lot => l = k /\ l \notin SwappedOf(r)
        /\ \A l, k \in DOMAIN now : now[l].lot = now[k].lot => l = k
        /\ \A l \in DOMAIN now : l \notin SwappedOf(r) => LotAfter(r, l) = now[l].lot
        /\ \A l \in DOMAIN now : now[l] \in LineRows
    BY LotsAfter
  <2>2. \A l \in changed : LotAfter(r, l) = AtOf(r, l)
    BY DEF LotAfter
  <2>3. PICK l \in changed : AtOf(r, l) = x \/ now[l].lot = x
    <3>1. CASE \A k \in changed : AtOf(r, k) # x /\ now[k].lot # x
      <4>1. BroughtBy(r, x, g) = 0
        BY <3>1, BroughtNone
      <4>2. QED BY <1>6, <4>1
    <3>2. QED BY <3>1
  <2>4. \A k \in changed \ {l} : AtOf(r, k) # x /\ now[k].lot # x
    BY <2>1, <2>2, <2>3
  <2>5. BroughtBy(r, x, g) = BroughtOn(r, x, g)[l]
    BY <2>4, BroughtOne
  <2>6. BroughtOn(r, x, g)[l] = (IF AtOf(r, l) = x /\ truths[l].goods = g THEN truths[l].received ELSE 0)
                              - (IF now[l].lot = x /\ now[l].goods = g THEN now[l].received ELSE 0)
    BY DEF BroughtOn
  <2>7. truths[l].received \in Nat /\ now[l].received \in Nat /\ truths[l].goods \in Goods /\ now[l].goods \in Goods
    BY <2>1 DEF Knows, Figures, LineRows
  <2>8. now[l].lot = x /\ now[l].goods = g
    BY <1>6, <2>5, <2>6, <2>7
  <2>9. CASE ~CoveredBy(r)
    BY <1>4, <2>8, <2>9
  <2>10. CASE CoveredBy(r)
    <3> DEFINE out == TakenOut(l, now, truths)
    <3>1. out > 0 => out <= OnHand(x, g)
      BY <2>8, <2>10 DEF CoveredBy, Covered
    <3>2. BroughtBy(r, x, g) = 0 - out
      <4>1. CASE truths[l].goods = now[l].goods
        <5>1. ~WrongProduct(l, now, truths)
          BY <4>1 DEF WrongProduct
        <5>2. AtOf(r, l) = x
          BY <2>8, <5>1 DEF AtOf, At
        <5>3. out = now[l].received - truths[l].received
          BY <4>1 DEF TakenOut
        <5>4. BroughtBy(r, x, g) = truths[l].received - now[l].received
          BY <2>5, <2>6, <2>8, <4>1, <5>2
        <5>5. QED BY <2>7, <5>3, <5>4
      <4>2. CASE truths[l].goods # now[l].goods
        <5>1. out = now[l].received
          BY <4>2 DEF TakenOut
        <5>2. BroughtBy(r, x, g) = 0 - now[l].received
          BY <2>5, <2>6, <2>8, <4>2
        <5>3. QED BY <5>1, <5>2
      <4>3. QED BY <4>1, <4>2
    <3>3. out \in Int
      BY <2>7 DEF TakenOut
    <3> HIDE DEF out
    <3>4. FALSE
      BY <1>1, <1>2, <1>3, <1>6, <3>1, <3>2, <3>3
    <3>5. QED BY <3>4
  <2>11. QED BY <2>9, <2>10
<1>7. QED
  BY <1>2, <1>5, <1>6

-----------------------------------------------------------------------------
(* Opening stock, whoever has been under way together. *)

OnDelivery(lots, ls) == \A l \in DOMAIN ls : lots[ls[l].lot].from = "delivery"

\* What a correction goes by are lots of deliveries.
LinesOnLots ==
  /\ \A c \in Receipts : OnDelivery(lot, receipt[c].lines)
  /\ \A r \in Requests : Writes(r, "correct") => OnDelivery(lot, sheet[r].lines)
  /\ UnbornEmpty(lot, moved)
OpenedCameIn == \A x \in Lots, g \in Goods : lot[x].from = "opening" /\ moved[x][g] > 0 => g \in stocked
OpenedAgainLate ==
  \A x, y \in Lots, g \in Goods :
    lot[x].from = "opening" /\ lot[y].from = "opening" /\ moved[x][g] > 0 /\ moved[y][g] > 0
      => x = y \/ \E r \in late : ask[r].goods = g
\* A request that is to open goods that are in by now was overtaken.
LooksOvertaken ==
  /\ stocked \subseteq Goods /\ overtaken \subseteq Requests /\ late \subseteq overtaken
  /\ \A r \in late : pc[r] = "done"
  /\ \A r \in Requests : Writes(r, "open") /\ ask[r].goods \in stocked => r \in overtaken

OpeningInv == LinesOnLots /\ OpenedCameIn /\ OpenedAgainLate /\ LooksOvertaken

\* A lot holds what it held, unless it is a delivery's or becomes one.
LotKept(x) ==
  \/ lot'[x].from = lot[x].from /\ \A g \in Goods : moved'[x][g] = moved[x][g]
  \/ lot'[x].from = "delivery" /\ lot[x].from # "opening"

\* A step of r and of nobody else.
Handles(r) ==
  /\ \A s \in Requests \ {r} : pc'[s] = pc[s] /\ ask'[s] = ask[s]
  /\ pc[r] # "done"

LEMMA BeginHandles ==
  ASSUME AsksTyped, NEW r \in Requests, NEW a, NEW next, Begin(r, a, next)
  PROVE  Handles(r) /\ pc'[r] = next /\ ask'[r] = a
  BY DEF AsksTyped, Begin, Handles

LEMMA EndHandles ==
  ASSUME AsksTyped, NEW r \in Requests, pc[r] = "write", NEW how, End(r, how)
  PROVE  Handles(r) /\ pc'[r] = how /\ ask' = ask
  BY DEF AsksTyped, End, Handles

\* Nothing comes in, and a request that looks finds nothing.
LEMMA LooksStay ==
  ASSUME LooksOvertaken, NEW r \in Requests, Handles(r), UNCHANGED openings,
         pc'[r] = "write" /\ ask'[r].kind = "open" => ask'[r].goods \notin stocked
  PROVE  LooksOvertaken'
<1>1. stocked' = stocked /\ overtaken' = overtaken /\ late' = late
  BY DEF openings
<1>2. \A s \in late : s # r /\ s \in Requests /\ pc'[s] = "done"
  BY DEF LooksOvertaken, Handles
<1>3. ASSUME NEW s \in Requests, pc'[s] = "write", ask'[s].kind = "open", ask'[s].goods \in stocked
      PROVE  s \in overtaken
  <2>1. s # r
    BY <1>3
  <2>2. QED BY <1>3, <2>1 DEF LooksOvertaken, Handles, Writes
<1>4. QED
  BY <1>1, <1>2, <1>3 DEF LooksOvertaken, Writes

\* Goods come in: whoever looked for them before is overtaken.
LEMMA LooksAfterComing ==
  ASSUME LooksOvertaken, NEW r \in Requests, Handles(r), pc'[r] # "write", NEW gs \in SUBSET Goods, ComeIn(r, gs),
         late' = late \/ (late' = late \cup {r} /\ r \in overtaken /\ pc'[r] = "done")
  PROVE  LooksOvertaken'
<1>1. /\ stocked' = stocked \cup gs /\ overtaken \subseteq overtaken' /\ overtaken' \subseteq Requests
      /\ \A s \in Requests \ {r} : Writes(s, "open") /\ ask[s].goods \in gs => s \in overtaken'
  BY DEF ComeIn, LooksOvertaken
<1>2. \A s \in late : s # r /\ s \in Requests /\ pc'[s] = "done"
  BY DEF LooksOvertaken, Handles
<1>3. ASSUME NEW s \in Requests, pc'[s] = "write", ask'[s].kind = "open", ask'[s].goods \in stocked \cup gs
      PROVE  s \in overtaken'
  <2>1. s # r /\ Writes(s, "open") /\ ask[s].goods \in stocked \cup gs
    BY <1>3 DEF Handles, Writes
  <2>2. ask[s].goods \in stocked => s \in overtaken
    BY <2>1 DEF LooksOvertaken
  <2>3. QED BY <1>1, <2>1, <2>2
<1>4. late' \subseteq overtaken' /\ \A s \in late' : pc'[s] = "done"
  BY <1>1, <1>2 DEF LooksOvertaken
<1>5. stocked' \subseteq Goods
  BY <1>1 DEF LooksOvertaken
<1>6. QED
  BY <1>1, <1>3, <1>4, <1>5 DEF LooksOvertaken, Writes

LEMMA OpenedStay ==
  ASSUME OpenedCameIn, OpenedAgainLate, LooksOvertaken, NEW r \in Requests, Handles(r),
         \A x \in Lots : LotKept(x), stocked \subseteq stocked', late \subseteq late'
  PROVE  OpenedCameIn' /\ OpenedAgainLate'
<1>1. ASSUME NEW x \in Lots, lot'[x].from = "opening"
      PROVE  lot[x].from = "opening" /\ \A g \in Goods : moved'[x][g] = moved[x][g]
  BY <1>1 DEF LotKept
<1>2. \A s \in late : ask'[s] = ask[s]
  BY DEF LooksOvertaken, Handles
<1>3. OpenedCameIn'
  BY <1>1 DEF OpenedCameIn
<1>4. ASSUME NEW x \in Lots, NEW y \in Lots, NEW g \in Goods,
             lot'[x].from = "opening", lot'[y].from = "opening", moved'[x][g] > 0, moved'[y][g] > 0, x # y
      PROVE  \E s \in late' : ask'[s].goods = g
  <2>1. \E s \in late : ask[s].goods = g
    BY <1>1, <1>4 DEF OpenedAgainLate
  <2>2. QED BY <1>2, <2>1
<1>5. QED
  BY <1>3, <1>4 DEF OpenedAgainLate

LEMMA OnDeliveryStays ==
  ASSUME NEW ls \in Seq(LineRows), OnDelivery(lot, ls),
         \A x \in Lots : lot[x].from = "delivery" => lot'[x].from = "delivery"
  PROVE  OnDelivery(lot', ls)
<1>1. \A l \in DOMAIN ls : ls[l].lot \in Lots
  <2>1. \A l \in DOMAIN ls : ls[l] \in LineRows
    BY LinesAre
  <2>2. QED BY <2>1 DEF LineRows
<1>2. QED
  BY <1>1 DEF OnDelivery

\* The lines keep to lots of deliveries, if what is written or read does.
LEMMA LinesStay ==
  ASSUME TypeInv, LinesOnLots, UnbornEmpty(lot', moved'),
         \A x \in Lots : lot[x].from = "delivery" => lot'[x].from = "delivery",
         \A c \in Receipts : receipt'[c].lines = receipt[c].lines \/ OnDelivery(lot', receipt'[c].lines),
         \A r \in Requests : pc'[r] = "write" /\ ask'[r].kind = "correct" =>
           \/ Writes(r, "correct") /\ sheet'[r].lines = sheet[r].lines
           \/ \E c \in Receipts : sheet'[r].lines = receipt[c].lines
  PROVE  LinesOnLots'
<1>1. ASSUME NEW c \in Receipts PROVE OnDelivery(lot', receipt[c].lines)
  <2>1. receipt[c].lines \in Seq(LineRows)
    BY DEF TypeInv, GoodsTyped
  <2>2. QED BY <2>1, OnDeliveryStays DEF LinesOnLots
<1>2. \A c \in Receipts : OnDelivery(lot', receipt'[c].lines)
  <2> TAKE c \in Receipts
  <2>1. CASE receipt'[c].lines = receipt[c].lines
    <3>1. PICK ls : ls = receipt[c].lines
      OBVIOUS
    <3>2. OnDelivery(lot', ls) /\ receipt'[c].lines = ls
      BY <1>1, <2>1, <3>1
    <3>3. QED BY <3>2
  <2>2. QED BY <2>1
<1>3. ASSUME NEW r \in Requests, pc'[r] = "write", ask'[r].kind = "correct"
      PROVE  OnDelivery(lot', sheet'[r].lines)
  <2>1. CASE Writes(r, "correct") /\ sheet'[r].lines = sheet[r].lines
    <3>1. sheet[r].lines \in Seq(LineRows)
      BY <2>1 DEF TypeInv, AsksTyped, Reads, SheetOK, Writes
    <3>2. OnDelivery(lot', sheet[r].lines)
      BY <2>1, <3>1, OnDeliveryStays DEF LinesOnLots
    <3>3. QED BY <2>1, <3>2
  <2>2. ASSUME NEW c \in Receipts, sheet'[r].lines = receipt[c].lines PROVE OnDelivery(lot', sheet'[r].lines)
    BY <1>1, <2>2
  <2>3. QED BY <1>3, <2>1, <2>2
<1>4. QED
  BY <1>2, <1>3 DEF LinesOnLots, Writes

LEMMA UnbornStay ==
  ASSUME UnbornEmpty(lot, moved), \A x \in Lots : LotKept(x)
  PROVE  /\ UnbornEmpty(lot', moved')
         /\ \A x \in Lots : lot[x].from = "delivery" => lot'[x].from = "delivery"
  BY DEF UnbornEmpty, LotKept

\* Steps that bring nothing in: what is read, the bills' own requests, a refusal, a
\* cost put right.
LEMMA IdleKeepsOpening ==
  ASSUME TypeInv, OpeningInv, NEW r \in Requests, Handles(r), UNCHANGED <<receipt, moved, openings>>,
         \A x \in Lots : lot'[x].from = lot[x].from,
         pc'[r] = "write" /\ ask'[r].kind = "open" => ask'[r].goods \notin stocked,
         pc'[r] = "write" /\ ask'[r].kind = "correct" => \E c \in Receipts : sheet'[r].lines = receipt[c].lines,
         \A s \in Requests \ {r} : sheet'[s] = sheet[s]
  PROVE  OpeningInv'
<1>1. \A x \in Lots : LotKept(x)
  BY DEF LotKept
<1>2. stocked' = stocked /\ late' = late
  BY DEF openings
<1>3. LooksOvertaken'
  BY LooksStay DEF OpeningInv
<1>4. OpenedCameIn' /\ OpenedAgainLate'
  BY <1>1, <1>2, OpenedStay DEF OpeningInv
<1>5. \A s \in Requests : pc'[s] = "write" /\ ask'[s].kind = "correct" =>
        \/ Writes(s, "correct") /\ sheet'[s].lines = sheet[s].lines
        \/ \E c \in Receipts : sheet'[s].lines = receipt[c].lines
  BY DEF Handles, Writes
<1>6. LinesOnLots'
  <2>1. /\ UnbornEmpty(lot', moved')
        /\ \A x \in Lots : lot[x].from = "delivery" => lot'[x].from = "delivery"
    BY <1>1, UnbornStay DEF OpeningInv, LinesOnLots
  <2>2. QED BY <1>5, <2>1, LinesStay DEF OpeningInv
<1>7. QED
  BY <1>3, <1>4, <1>6 DEF OpeningInv

LEMMA ReadsKeepOpening ==
  ASSUME TypeInv, OpeningInv, NEW r \in Requests, NEW a \in Asks,
         ReadDelivery(r, a) \/ ReadOpening(r, a) \/ CorrectCost(r, a)
  PROVE  OpeningInv'
<1>0. AsksTyped /\ GoodsTyped
  BY DEF TypeInv
<1>1. CASE ReadDelivery(r, a)
  <2>1. PICK next : next = IF MayCorrect(a) THEN "write" ELSE "refused"
    OBVIOUS
  <2>2. /\ Begin(r, a, next) /\ a.kind = "correct" /\ a.receipt \in Receipts
        /\ UNCHANGED <<receipt, lot, moved, openings>>
        /\ sheet' = IF MayCorrect(a)
                    THEN [sheet EXCEPT ![r] = [lines |-> receipt[a.receipt].lines,
                                               fee |-> receipt[a.receipt].fee,
                                               due |-> bill[BillOf[a.receipt]].due,
                                               billed |-> LiveBill(BillOf[a.receipt])]]
                    ELSE sheet
    BY <1>1, <2>1, GoodsAsksAssumption DEF ReadDelivery
  <2>3. Handles(r) /\ pc'[r] = next /\ ask'[r] = a
    BY <1>0, <2>2, BeginHandles
  <2>4. \A s \in Requests \ {r} : sheet'[s] = sheet[s]
    BY <1>0, <2>2 DEF AsksTyped
  <2>5. next = "write" => sheet'[r].lines = receipt[a.receipt].lines
    BY <1>0, <2>1, <2>2 DEF AsksTyped
  <2>6. QED
    BY <2>2, <2>3, <2>4, <2>5, IdleKeepsOpening
<1>2. CASE ReadOpening(r, a)
  <2>1. PICK next : next = IF Stocked(a.goods) THEN "refused" ELSE "write"
    OBVIOUS
  <2>2. Begin(r, a, next) /\ a.kind = "open" /\ UNCHANGED <<receipt, lot, moved, sheet, openings>>
    BY <1>2, <2>1 DEF ReadOpening, goodsVars
  <2>3. Handles(r) /\ pc'[r] = next /\ ask'[r] = a
    BY <1>0, <2>2, BeginHandles
  <2>4. next = "write" => a.goods \notin stocked
    BY <2>1 DEF Stocked
  <2>5. QED
    BY <2>2, <2>3, <2>4, IdleKeepsOpening
<1>3. CASE CorrectCost(r, a)
  <2>1. PICK next : next = IF lot[a.lot].from = "opening" THEN "done" ELSE "refused"
    OBVIOUS
  <2>2. /\ Begin(r, a, next) /\ next # "write" /\ UNCHANGED <<receipt, moved, sheet, openings>>
        /\ a.kind = "recost" /\ (lot' = lot \/ lot' = [lot EXCEPT ![a.lot].cost = a.value])
    BY <1>3, <2>1 DEF CorrectCost
  <2>3. Handles(r) /\ pc'[r] = next /\ ask'[r] = a
    BY <1>0, <2>2, BeginHandles
  <2>4. \A x \in Lots : lot'[x].from = lot[x].from
    <3> TAKE x \in Lots
    <3>1. lot \in [Lots -> LotRows] /\ lot[x] \in LotRows
      BY <1>0 DEF GoodsTyped
    <3>2. [lot[x] EXCEPT !.cost = a.value].from = lot[x].from
      BY <3>1 DEF LotRows
    <3>3. lot'[x] = lot[x] \/ lot'[x] = [lot[x] EXCEPT !.cost = a.value]
      BY <2>2, <3>1
    <3>4. QED BY <3>2, <3>3
  <2>5. QED
    BY <2>2, <2>3, <2>4, IdleKeepsOpening
<1>4. QED
  BY <1>1, <1>2, <1>3

LEMMA BooksKeepOpening ==
  ASSUME TypeInv, OpeningInv, NEW r \in Requests, Books(r) PROVE OpeningInv'
<1>0. AsksTyped
  BY DEF TypeInv
<1>1. CASE (\E a \in Asks : ReadBooks(r, a)) /\ UNCHANGED goodsVars
  <2>1. PICK a \in Asks : ReadBooks(r, a)
    BY <1>1
  <2>2. PICK next : next = IF Permitted(a) THEN "write" ELSE "refused"
    OBVIOUS
  <2>3. Begin(r, a, next) /\ a.kind \in BookKinds /\ UNCHANGED <<receipt, lot, moved, sheet, openings>>
    BY <1>1, <2>1, <2>2 DEF ReadBooks, goodsVars
  <2>4. Handles(r) /\ pc'[r] = next /\ ask'[r] = a
    BY <1>0, <2>3, BeginHandles
  <2>5. a.kind # "open" /\ a.kind # "correct"
    BY <2>3 DEF BookKinds
  <2>6. QED
    BY <2>3, <2>4, <2>5, IdleKeepsOpening
<1>2. CASE WriteBooks(r) /\ UNCHANGED <<receipt, lot, moved, sold, forced, sheet, openings>>
  <2>1. PICK how \in {"done", "refused"} : pc[r] = "write" /\ End(r, how)
    BY <1>2, WritesEnd
  <2>2. Handles(r) /\ pc'[r] = how
    BY <1>0, <2>1, EndHandles
  <2>3. QED
    BY <1>2, <2>2, IdleKeepsOpening
<1>3. QED
  BY <1>1, <1>2 DEF Books

LEMMA DeliverKeepsOpening ==
  ASSUME TypeInv, OpeningInv, NEW r \in Requests, NEW a \in Asks, Deliver(r, a) PROVE OpeningInv'
<1>0. AsksTyped /\ GoodsTyped /\ a.kind = "deliver"
  BY DEF TypeInv, Deliver
<1>1. CASE Begin(r, a, "refused") /\ UNCHANGED <<books, goodsVars>>
  <2>1. Handles(r) /\ pc'[r] = "refused" /\ UNCHANGED <<receipt, lot, moved, sheet, openings>>
    BY <1>0, <1>1, BeginHandles DEF goodsVars
  <2>2. QED BY <2>1, IdleKeepsOpening
<1>2. ASSUME NEW into, NEW ls, Brings(a, into, ls), Begin(r, a, "done"),
             NEW gs \in SUBSET Goods, ComeIn(r, gs), late' = late
      PROVE  OpeningInv'
  <2>1. Handles(r) /\ pc'[r] = "done"
    BY <1>0, <1>2, BeginHandles
  <2>2. LooksOvertaken'
    BY <1>2, <2>1, LooksAfterComing DEF OpeningInv
  <2>3. \A l \in DOMAIN a.lines : /\ into[l] \in Unborn /\ ls[l].lot = into[l]
                                  /\ lot'[into[l]].from = "delivery"
    <3> TAKE l \in DOMAIN a.lines
    <3>1. into \in [DOMAIN a.lines -> Unborn]
      BY <1>2 DEF Brings
    <3>2. /\ ls[l].lot = into[l]
          /\ lot'[into[l]] = [from |-> "delivery", received |-> ls[l].received,
                              cost |-> ls[l].value + ls[l].share]
      BY <1>2 DEF Brings
    <3>3. QED BY <3>1, <3>2
  <2>4. \A x \in Lots : LotKept(x)
    <3> TAKE x \in Lots
    <3>1. CASE \E l \in DOMAIN a.lines : into[l] = x
      <4>1. lot'[x].from = "delivery" /\ x \in Unborn
        BY <2>3, <3>1
      <4>2. QED BY <4>1 DEF LotKept, Unborn
    <3>2. CASE ~\E l \in DOMAIN a.lines : into[l] = x
      BY <1>2, <3>2 DEF Brings, LotKept
    <3>3. QED BY <3>1, <3>2
  <2>5. OpenedCameIn' /\ OpenedAgainLate'
    <3>1. stocked \subseteq stocked'
      BY <1>2 DEF ComeIn
    <3>2. QED BY <1>2, <2>1, <2>4, <3>1, OpenedStay DEF OpeningInv
  <2>6. \A c \in Receipts : receipt'[c].lines = receipt[c].lines \/ OnDelivery(lot', receipt'[c].lines)
    <3> TAKE c \in Receipts
    <3>1. receipt' = [receipt EXCEPT ![a.receipt] = [fee |-> a.fee, lines |-> ls]] /\ DOMAIN ls = DOMAIN a.lines
      BY <1>2 DEF Brings
    <3>2. CASE c = a.receipt
      <4>1. receipt'[c].lines = ls
        BY <1>0, <3>1, <3>2 DEF GoodsTyped
      <4>2. OnDelivery(lot', ls)
        BY <2>3, <3>1 DEF OnDelivery
      <4>3. QED BY <4>1, <4>2
    <3>3. CASE c # a.receipt
      BY <1>0, <3>1, <3>3 DEF GoodsTyped
    <3>4. QED BY <3>2, <3>3
  <2>7. \A s \in Requests : pc'[s] = "write" /\ ask'[s].kind = "correct" =>
          Writes(s, "correct") /\ sheet'[s].lines = sheet[s].lines
    BY <1>2, <2>1 DEF Brings, Handles, Writes
  <2>8. LinesOnLots'
    <3>1. /\ UnbornEmpty(lot', moved')
          /\ \A x \in Lots : lot[x].from = "delivery" => lot'[x].from = "delivery"
      BY <2>4, UnbornStay DEF OpeningInv, LinesOnLots
    <3>2. QED BY <2>6, <2>7, <3>1, LinesStay DEF OpeningInv
  <2>9. QED
    BY <2>2, <2>5, <2>8 DEF OpeningInv
<1>3. CASE ~(Begin(r, a, "refused") /\ UNCHANGED <<books, goodsVars>>)
  <2>1. \E into, ls : Brings(a, into, ls)
    BY <1>0, <1>3, DeliverBrings
  <2>2. Begin(r, a, "done") /\ late' = late /\ ComeIn(r, {a.lines[l].goods : l \in DOMAIN a.lines})
    BY <1>3 DEF Deliver
  <2>3. {a.lines[l].goods : l \in DOMAIN a.lines} \subseteq Goods
    <3>1. a.lines \in Seq(Figures)
      BY <1>0, GoodsAsksAssumption
    <3>2. \A l \in DOMAIN a.lines : a.lines[l] \in Figures
      BY <3>1, LinesAre
    <3>3. QED BY <3>2 DEF Figures
  <2>4. QED BY <1>2, <2>1, <2>2, <2>3
<1>4. QED
  BY <1>1, <1>3

\* A correction writes on the lots it read and on new ones, and no others.
LEMMA CorrectKeepsLots ==
  ASSUME TypeInv, OpeningInv, NEW r \in Requests, Writes(r, "correct"), Knows(r), Corrects(r)
  PROVE  /\ \A x \in Lots : LotKept(x)
         /\ OnDelivery(lot', LinesOf(r))
<1> DEFINE old == OldOf(r)
           changed == ChangedOf(r)
           W == WrittenBy(r)
<1>1. LinesOf(r) \in Seq(LineRows) /\ DOMAIN LinesOf(r) = DOMAIN FiguresOf(r)
      /\ \A l \in DOMAIN FiguresOf(r) : LinesOf(r)[l].lot = FiguresOf(r)[l].lot
  <2>1. PICK figures, fee, now : figures = FiguresOf(r) /\ fee = FeeOf(r) /\ now = Now(r)
    OBVIOUS
  <2>2. figures \in Seq(LineRows) /\ fee \in Nat /\ (fee > 0 => HasSomewhereToGo(figures))
    BY <2>1 DEF Knows, Corrects
  <2>3. LinesOf(r) = Reshare(fee, figures, now)
    BY <2>1 DEF LinesOf
  <2>4. /\ Reshare(fee, figures, now) \in Seq(LineRows) /\ DOMAIN Reshare(fee, figures, now) = DOMAIN figures
        /\ \A l \in DOMAIN figures : Reshare(fee, figures, now)[l].lot = figures[l].lot
    BY <2>2, ResharedLines
  <2>5. QED BY <2>1, <2>3, <2>4
<1>2. \A l \in changed : lot[old[l].lot].from = "delivery" /\ old[l].lot \in Lots
  <2>1. OnDelivery(lot, old)
    BY DEF OpeningInv, LinesOnLots, OldOf
  <2>2. \A l \in changed : old[l] \in LineRows /\ l \in DOMAIN old
    BY DEF Knows
  <2> HIDE DEF changed, old
  <2>3. \A l \in changed : old[l].lot \in Lots
    BY <2>2 DEF LineRows
  <2>4. \A l \in changed : lot[old[l].lot].from = "delivery"
    <3>1. PICK ls : ls = old
      OBVIOUS
    <3>2. \A l \in DOMAIN ls : lot[ls[l].lot].from = "delivery"
      BY <2>1, <3>1 DEF OnDelivery
    <3>3. QED BY <2>2, <3>1, <3>2
  <2>5. QED BY <2>3, <2>4
<1>3. \A l \in changed : AtOf(r, l) \in Lots /\ lot[AtOf(r, l)].from # "opening"
  <2> TAKE l \in changed
  <2>1. CASE WrongProduct(l, old, ask[r].truths)
    <3>1. AtOf(r, l) = NewLotOf(r)[l] /\ l \in SwappedOf(r)
      BY <2>1 DEF AtOf, At, SwappedOf
    <3>2. AtOf(r, l) \in Unborn
      BY <3>1 DEF Knows
    <3>3. QED BY <3>2 DEF Unborn
  <2>2. CASE ~WrongProduct(l, old, ask[r].truths)
    BY <1>2, <2>2 DEF AtOf, At
  <2>3. QED BY <2>1, <2>2
<1>4. ASSUME NEW x \in Lots
      PROVE  W[x].from = IF \E l \in changed : AtOf(r, l) = x THEN "delivery" ELSE lot[x].from
  <2>1. W = [y \in Lots |->
               IF \E l \in changed : AtOf(r, l) = y
               THEN LET l == CHOOSE l \in changed : AtOf(r, l) = y
                    IN  [from |-> "delivery", received |-> ask[r].truths[l].received,
                         cost |-> ask[r].truths[l].value]
               ELSE IF \E l \in changed : old[l].lot = y THEN [lot[y] EXCEPT !.received = 0, !.cost = 0]
               ELSE lot[y]]
    BY DEF WrittenBy, Written, AtOf, At
  <2>2. [lot[x] EXCEPT !.received = 0, !.cost = 0].from = lot[x].from
    BY DEF TypeInv, GoodsTyped, LotRows
  <2> HIDE DEF W, changed, old
  <2>3. QED BY <2>1, <2>2
<1>5. \A x \in Lots : lot'[x].from = W[x].from
  <2> TAKE x \in Lots
  <2>1. W \in [Lots -> LotRows]
    <3>1. <<>> \in Seq(LineRows)
      OBVIOUS
    <3>2. Costed(W, <<>>) \in [Lots -> LotRows]
      BY <3>1, LotsAreWritten DEF TypeInv
    <3>3. Costed(W, <<>>) = [y \in Lots |-> W[y]]
      BY DEF Costed
    <3>4. \A y \in Lots : W[y] \in LotRows
      BY <3>2, <3>3
    <3>5. W = [y \in Lots |-> W[y]]
      BY DEF WrittenBy, Written
    <3> HIDE DEF W
    <3>6. QED BY <3>4, <3>5
  <2>2. lot' = Costed(W, LinesOf(r))
    BY DEF Corrects
  <2> HIDE DEF W
  <2>3. lot'[x] = IF \E l \in DOMAIN LinesOf(r) : LinesOf(r)[l].lot = x
                  THEN LET l == CHOOSE l \in DOMAIN LinesOf(r) : LinesOf(r)[l].lot = x
                       IN  [W[x] EXCEPT !.cost = LinesOf(r)[l].value + LinesOf(r)[l].share]
                  ELSE W[x]
    BY <2>2 DEF Costed
  <2>4. \A n : [W[x] EXCEPT !.cost = n].from = W[x].from
    BY <2>1 DEF LotRows
  <2>5. QED BY <2>3, <2>4
<1>6. ASSUME NEW x \in Lots PROVE LotKept(x)
  <2>1. CASE \E l \in changed : AtOf(r, l) = x
    BY <1>3, <1>4, <1>5, <2>1 DEF LotKept
  <2>2. CASE ~(\E l \in changed : AtOf(r, l) = x) /\ \E l \in changed : old[l].lot = x
    <3>1. lot'[x].from = "delivery" /\ lot[x].from = "delivery"
      BY <1>2, <1>4, <1>5, <2>2
    <3>2. QED BY <3>1 DEF LotKept
  <2>3. CASE ~(\E l \in changed : AtOf(r, l) = x) /\ ~(\E l \in changed : old[l].lot = x)
    <3>1. ASSUME NEW g \in Goods PROVE moved'[x][g] = moved[x][g]
      <4>1. \A l \in changed : BroughtOn(r, x, g)[l] = 0
        BY <2>3 DEF BroughtOn
      <4>2. IsFiniteSet(changed)
        BY DEF Knows
      <4>3. BroughtBy(r, x, g) = 0
        BY <4>1, <4>2, BroughtIs, SumOfZeros
      <4>4. moved'[x][g] = moved[x][g] + BroughtBy(r, x, g) /\ moved[x][g] \in Int
        BY DEF Corrects, TypeInv, GoodsTyped
      <4>5. QED BY <4>3, <4>4
    <3>2. QED BY <1>4, <1>5, <2>3, <3>1 DEF LotKept
  <2>4. QED BY <2>1, <2>2, <2>3
<1>7. ASSUME NEW l \in DOMAIN LinesOf(r) PROVE lot'[LinesOf(r)[l].lot].from = "delivery"
  <2>1. LinesOf(r)[l].lot = FiguresOf(r)[l].lot /\ l \in DOMAIN Now(r) /\ Now(r)[l] \in LineRows
    <3>1. Now(r) \in Seq(LineRows) /\ DOMAIN FiguresOf(r) = DOMAIN Now(r)
      BY DEF Knows
    <3>2. \A k \in DOMAIN Now(r) : Now(r)[k] \in LineRows
      BY <3>1, LinesAre
    <3>3. QED BY <1>1, <3>1, <3>2
  <2>2. FiguresOf(r)[l].lot = IF l \in changed /\ WrongProduct(l, old, ask[r].truths)
                              THEN NewLotOf(r)[l] ELSE Now(r)[l].lot
    BY <2>1 DEF FiguresOf, Corrected, LineRows
  <2>3. CASE l \in changed /\ WrongProduct(l, old, ask[r].truths)
    <3>1. FiguresOf(r)[l].lot = AtOf(r, l)
      BY <2>2, <2>3 DEF AtOf, At
    <3>2. QED BY <1>3, <1>4, <1>5, <2>1, <2>3, <3>1
  <2>4. CASE ~(l \in changed /\ WrongProduct(l, old, ask[r].truths))
    <3>1. Now(r)[l].lot \in Lots /\ lot[Now(r)[l].lot].from = "delivery"
      BY <2>1 DEF OpeningInv, LinesOnLots, OnDelivery, Now, Knows, LineRows
    <3>2. QED BY <1>6, <2>1, <2>2, <2>4, <3>1 DEF LotKept
  <2>5. QED BY <2>3, <2>4
<1>8. QED
  BY <1>6, <1>7 DEF OnDelivery

LEMMA CorrectKeepsOpening ==
  ASSUME TypeInv, OpeningInv, NEW r \in Requests, Correct(r) PROVE OpeningInv'
<1> DEFINE gs == BroughtIn(ChangedOf(r), OldOf(r), ask[r].truths)
<1>0. AsksTyped /\ GoodsTyped
  BY DEF TypeInv
<1>1. /\ Writes(r, "correct") /\ LotsLeft(Cardinality(SwappedOf(r))) /\ sheet' = [sheet EXCEPT ![r] = <<>>]
      /\ \/ End(r, "refused") /\ UNCHANGED <<receipt, lot, moved, openings>>
         \/ End(r, "done") /\ Corrects(r) /\ ComeIn(r, gs) /\ late' = late
  BY CorrectIs
<1>2. Knows(r) /\ pc[r] = "write"
  BY <1>0, <1>1, CorrectKnows DEF Knows
<1>3. \A s \in Requests \ {r} : sheet'[s] = sheet[s]
  BY <1>0, <1>1 DEF AsksTyped
<1>4. CASE End(r, "refused") /\ UNCHANGED <<receipt, lot, moved, openings>>
  <2>1. Handles(r) /\ pc'[r] = "refused"
    BY <1>0, <1>2, <1>4, EndHandles
  <2>2. QED BY <1>3, <1>4, <2>1, IdleKeepsOpening
<1>5. CASE End(r, "done") /\ Corrects(r) /\ ComeIn(r, gs) /\ late' = late
  <2>1. Handles(r) /\ pc'[r] = "done" /\ ask' = ask
    BY <1>0, <1>2, <1>5, EndHandles
  <2>2. gs \subseteq Goods
    BY <1>2 DEF BroughtIn, Knows, Figures
  <2>3. (\A x \in Lots : LotKept(x)) /\ OnDelivery(lot', LinesOf(r))
    BY <1>1, <1>2, <1>5, CorrectKeepsLots
  <2> HIDE DEF gs
  <2>4. LooksOvertaken'
    BY <1>5, <2>1, <2>2, LooksAfterComing DEF OpeningInv
  <2>5. OpenedCameIn' /\ OpenedAgainLate'
    <3>1. stocked \subseteq stocked'
      BY <1>5 DEF ComeIn
    <3>2. QED BY <1>5, <2>1, <2>3, <3>1, OpenedStay DEF OpeningInv
  <2>6. \A c \in Receipts : receipt'[c].lines = receipt[c].lines \/ OnDelivery(lot', receipt'[c].lines)
    <3> TAKE c \in Receipts
    <3>1. PICK ls, fee : ls = LinesOf(r) /\ receipt' = [receipt EXCEPT ![ask[r].receipt] = [lines |-> ls, fee |-> fee]]
      BY <1>5 DEF Corrects
    <3>2. CASE c = ask[r].receipt
      <4>1. receipt'[c].lines = ls
        BY <1>0, <3>1, <3>2 DEF GoodsTyped
      <4>2. QED BY <2>3, <3>1, <4>1
    <3>3. CASE c # ask[r].receipt
      BY <1>0, <3>1, <3>3 DEF GoodsTyped
    <3>4. QED BY <3>2, <3>3
  <2>7. \A s \in Requests : pc'[s] = "write" /\ ask'[s].kind = "correct" =>
          Writes(s, "correct") /\ sheet'[s].lines = sheet[s].lines
    BY <1>3, <2>1 DEF Handles, Writes
  <2>8. LinesOnLots'
    <3>1. /\ UnbornEmpty(lot', moved')
          /\ \A x \in Lots : lot[x].from = "delivery" => lot'[x].from = "delivery"
      BY <2>3, UnbornStay DEF OpeningInv, LinesOnLots
    <3>2. QED BY <2>6, <2>7, <3>1, LinesStay DEF OpeningInv
  <2>9. QED
    BY <2>4, <2>5, <2>8 DEF OpeningInv
<1>6. QED
  BY <1>1, <1>4, <1>5

\* What an opening does to lots.
LEMMA OpeningIs ==
  ASSUME TypeInv, UnbornEmpty(lot, moved), NEW r \in Requests, RecordOpening(r)
  PROVE  /\ pc[r] = "write" /\ ask[r].kind = "open" /\ ask[r] \in Asks /\ End(r, "done")
         /\ ask[r].goods \in Goods /\ ask[r].received \in Nat
         /\ \E x \in Lots :
              /\ lot[x].from = "none" /\ lot'[x].from = "opening"
              /\ \A g \in Goods : moved[x][g] = 0
              /\ \A g \in Goods : moved'[x][g] = IF g = ask[r].goods THEN ask[r].received ELSE 0
              /\ \A y \in Lots \ {x} : lot'[y] = lot[y] /\ moved'[y] = moved[y]
         /\ ComeIn(r, {ask[r].goods})
         /\ late' = IF ask[r].goods \in stocked THEN late \cup {r} ELSE late
         /\ UNCHANGED <<bill, receipt, sold, forced, sheet, agreed>>
<1>0. GoodsTyped /\ AsksTyped
  BY DEF TypeInv
<1>1. PICK a : a = ask[r]
  OBVIOUS
<1>2. PICK x : x = CHOOSE y \in Unborn : TRUE
  OBVIOUS
<1>3. /\ pc[r] = "write" /\ a.kind = "open" /\ LotsLeft(1) /\ End(r, "done")
      /\ lot' = [lot EXCEPT ![x] = [from |-> "opening", received |-> a.received, cost |-> a.value]]
      /\ moved' = [moved EXCEPT ![x][a.goods] = a.received]
      /\ ComeIn(r, {a.goods}) /\ late' = IF a.goods \in stocked THEN late \cup {r} ELSE late
      /\ UNCHANGED <<bill, receipt, sold, forced, sheet, agreed>>
  BY <1>1, <1>2 DEF RecordOpening, Writes, books
<1>4. a \in Asks
  BY <1>0, <1>1, <1>3 DEF AsksTyped, Reads
<1>5. a.goods \in Goods /\ a.received \in Nat
  BY <1>3, <1>4, GoodsAsksAssumption
<1>6. x \in Lots /\ lot[x].from = "none"
  <2>1. Unborn # {}
    <3>1. Unborn = {} => Cardinality(Unborn) = 0
      BY FS_EmptySet
    <3>2. QED BY <1>3, <3>1 DEF LotsLeft
  <2>2. x \in Unborn
    BY <1>2, <2>1
  <2>3. QED BY <2>2 DEF Unborn
<1>7. \A g \in Goods : moved[x][g] = 0
  BY <1>6 DEF UnbornEmpty
<1>8. /\ \A y \in Lots \ {x} : lot'[y] = lot[y] /\ moved'[y] = moved[y]
      /\ lot'[x] = [from |-> "opening", received |-> a.received, cost |-> a.value]
      /\ \A g \in Goods : moved'[x][g] = IF g = a.goods THEN a.received ELSE 0
  <2>1. moved'[x] = [moved[x] EXCEPT ![a.goods] = a.received]
    BY <1>0, <1>3, <1>6 DEF GoodsTyped
  <2>2. \A g \in Goods : moved'[x][g] = IF g = a.goods THEN a.received ELSE moved[x][g]
    BY <1>0, <1>5, <1>6, <2>1 DEF GoodsTyped
  <2>3. QED
    BY <1>0, <1>3, <1>6, <1>7, <2>2 DEF GoodsTyped
<1>9. lot'[x].from = "opening"
  BY <1>8
<1>10. QED
  BY <1>1, <1>3, <1>4, <1>5, <1>6, <1>7, <1>8, <1>9

LEMMA RecordKeepsOpening ==
  ASSUME TypeInv, OpeningInv, NEW r \in Requests, RecordOpening(r) PROVE OpeningInv'
<1>0. AsksTyped /\ GoodsTyped /\ UnbornEmpty(lot, moved)
  BY DEF TypeInv, OpeningInv, LinesOnLots
<1>1. PICK o : o = ask[r].goods
  OBVIOUS
<1>2. /\ pc[r] = "write" /\ ask[r].kind = "open" /\ End(r, "done") /\ o \in Goods /\ ComeIn(r, {o})
      /\ late' = (IF o \in stocked THEN late \cup {r} ELSE late)
      /\ receipt' = receipt /\ sheet' = sheet
  BY <1>0, <1>1, OpeningIs
<1>3. PICK x \in Lots : /\ lot[x].from = "none" /\ lot'[x].from = "opening"
                        /\ \A g \in Goods : g # o => moved'[x][g] = 0
                        /\ \A y \in Lots \ {x} : lot'[y] = lot[y] /\ moved'[y] = moved[y]
  BY <1>0, <1>1, OpeningIs
<1>4. Handles(r) /\ pc'[r] = "done" /\ ask' = ask
  BY <1>0, <1>2, EndHandles
<1>5. o \in stocked => r \in overtaken
  BY <1>1, <1>2 DEF OpeningInv, LooksOvertaken, Writes
<1>6. LooksOvertaken'
  <2>1. {o} \in SUBSET Goods
    BY <1>2
  <2>2. QED BY <1>2, <1>4, <1>5, <2>1, LooksAfterComing DEF OpeningInv
<1>7. stocked' = stocked \cup {o} /\ late \subseteq late' /\ (o \in stocked => r \in late')
  BY <1>2 DEF ComeIn
<1>8. OpenedCameIn'
  <2> SUFFICES ASSUME NEW y \in Lots, NEW g \in Goods, lot'[y].from = "opening", moved'[y][g] > 0
               PROVE  g \in stocked'
    BY DEF OpenedCameIn
  <2>1. CASE y = x
    BY <1>3, <1>7, <2>1
  <2>2. CASE y # x
    BY <1>3, <1>7, <2>2 DEF OpeningInv, OpenedCameIn
  <2>3. QED BY <2>1, <2>2
<1>9. OpenedAgainLate'
  <2> SUFFICES ASSUME NEW y \in Lots, NEW z \in Lots, NEW g \in Goods,
                      lot'[y].from = "opening", lot'[z].from = "opening",
                      moved'[y][g] > 0, moved'[z][g] > 0, y # z
               PROVE  \E s \in late' : ask'[s].goods = g
    BY DEF OpenedAgainLate
  <2>1. CASE y = x \/ z = x
    <3>1. g = o
      BY <1>3, <2>1
    <3>2. o \in stocked
      BY <1>3, <2>1, <3>1 DEF OpeningInv, OpenedCameIn
    <3>3. QED BY <1>1, <1>4, <1>7, <3>1, <3>2
  <2>2. CASE y # x /\ z # x
    <3>1. \E s \in late : ask[s].goods = g
      BY <1>3, <2>2 DEF OpeningInv, OpenedAgainLate
    <3>2. QED BY <1>4, <1>7, <3>1
  <2>3. QED BY <2>1, <2>2
<1>10. LinesOnLots'
  <2>1. \A y \in Lots : lot[y].from = "delivery" => lot'[y].from = "delivery"
    BY <1>3
  <2>2. UnbornEmpty(lot', moved')
    BY <1>0, <1>3 DEF UnbornEmpty
  <2>3. \A s \in Requests : pc'[s] = "write" /\ ask'[s].kind = "correct" =>
          Writes(s, "correct") /\ sheet'[s].lines = sheet[s].lines
    BY <1>2, <1>4 DEF Handles, Writes
  <2>4. QED BY <1>2, <2>1, <2>2, <2>3, LinesStay DEF OpeningInv
<1>11. QED
  BY <1>6, <1>8, <1>9, <1>10 DEF OpeningInv

LEMMA OpeningInvStep == ASSUME TypeInv, OpeningInv, [Next]_vars PROVE OpeningInv'
<1>1. CASE (\E x \in Lots, g \in Goods : Sell(x, g)) \/ UNCHANGED vars
  <2>1. UNCHANGED <<pc, ask, receipt, lot, moved, sheet, stocked, overtaken, late>>
    BY <1>1 DEF Sell, vars, payablesVars, goodsVars, openings
  <2>2. QED
    BY <2>1 DEF OpeningInv, LinesOnLots, OpenedCameIn, OpenedAgainLate, LooksOvertaken, Writes, UnbornEmpty, OnDelivery
<1>2. QED
  BY <1>1, BooksKeepOpening, CorrectKeepsOpening, RecordKeepsOpening, DeliverKeepsOpening, ReadsKeepOpening DEF Next

LEMMA InitOpening == ASSUME Init PROVE OpeningInv
<1>1. PICK goods \in OpeningGoods : /\ receipt = goods.receipt /\ lot = goods.lot /\ moved = goods.moved
                                    /\ stocked = goods.stocked
  BY DEF Init
<1>2. pc = [r \in Requests |-> "idle"] /\ overtaken = {} /\ late = {}
  BY DEF Init, BooksInit
<1>3. /\ LinesStand(receipt, lot, moved) /\ UnbornEmpty(lot, moved) /\ OpenedOnce(lot, moved)
      /\ stocked \subseteq Goods /\ \A x \in Lots, g \in Goods : moved[x][g] > 0 => g \in stocked
  BY <1>1, OpeningGoodsAssumption, StandIs
<1>4. LinesOnLots
  BY <1>2, <1>3 DEF LinesOnLots, OnDelivery, LinesStand, Writes
<1>5. OpenedCameIn /\ OpenedAgainLate
  BY <1>3 DEF OpenedCameIn, OpenedAgainLate, OpenedOnce
<1>6. LooksOvertaken
  BY <1>2, <1>3 DEF LooksOvertaken, Writes
<1>7. QED
  BY <1>4, <1>5, <1>6 DEF OpeningInv

\* Types and what opening stock goes by are kept, overlapping or not.
THEOREM SpecOpeningInv == Spec => [](TypeInv /\ OpeningInv)
<1>1. Init => TypeInv /\ OpeningInv
  BY InitTypes, InitOpening
<1>2. TypeInv /\ OpeningInv /\ [Next]_vars => (TypeInv /\ OpeningInv)'
  BY StepTypes, OpeningInvStep
<1>3. QED
  BY <1>1, <1>2, PTL DEF Spec

\* Bills, lots, deliveries and what they hold stay what they are, whatever is asked in
\* whatever order, overlapping too: a correction that read other lines than it finds
\* still writes lines, and no due amount goes below nothing.
THEOREM DeliveriesKeepTheirTypes == Spec => []TypeOK
<1>1. TypeInv /\ OpeningInv => TypeOK
  BY DEF TypeInv, TypeOK, RowsOK, BooksOK, GoodsTyped, AsksTyped, OpeningInv, LooksOvertaken
<1>2. QED
  BY <1>1, SpecOpeningInv, PTL

-----------------------------------------------------------------------------
(* What holds while nobody was in anybody's way. *)

BillsFollow ==
  \A c \in Receipts : bill[BillOf[c]].state = "live" =>
    bill[BillOf[c]].due = Value(receipt[c].lines) + agreed[BillOf[c]]

\* What a request that is to write read is still so.
FreshRead(r) ==
  /\ ask[r].kind = "correct" =>
       /\ sheet[r].lines = receipt[ask[r].receipt].lines /\ sheet[r].fee = receipt[ask[r].receipt].fee
       /\ sheet[r].due = bill[BillOf[ask[r].receipt]].due
       /\ sheet[r].billed = (bill[BillOf[ask[r].receipt]].state = "live")
  /\ ask[r].kind = "open" => ~Stocked(ask[r].goods)
Fresh == \A r \in Requests : pc[r] = "write" => FreshRead(r)

GoodsSound == Stands /\ BillsFollow /\ NoneShort /\ Fresh
OneAtOnce == \A r, s \in Requests : pc[r] = "write" /\ pc[s] = "write" => r = s

\* Nobody is to write after the one that wrote ends, nor before one that begins.
LEMMA FreshAfterEnd ==
  ASSUME TypeInv, OneAtOnce, NEW r \in Requests, pc[r] = "write", NEW how \in {"done", "refused"}, End(r, how)
  PROVE  Fresh'
<1>1. \A s \in Requests : pc'[s] # "write"
  BY DEF End, OneAtOnce, TypeInv, AsksTyped
<1>2. QED
  BY <1>1 DEF Fresh

LEMMA FreshAfterBegin ==
  ASSUME TypeInv, ~overlapped', NEW r \in Requests, NEW a \in Asks, NEW next, Begin(r, a, next),
         next = "write" => FreshRead(r)'
  PROVE  Fresh'
<1>1. \A s \in Requests : pc[s] # "write"
  BY DEF Begin
<1>2. \A s \in Requests : pc'[s] = "write" => s = r /\ next = "write"
  BY <1>1 DEF Begin, TypeInv, AsksTyped
<1>3. QED
  BY <1>2 DEF Fresh

LEMMA CorrectKeepsSound ==
  ASSUME TypeInv, GoodsSound, OneAtOnce, NEW r \in Requests, Correct(r) PROVE GoodsSound'
<1>0. RowsOK(bill, payment, rebate) /\ GoodsTyped /\ AsksTyped /\ Stands /\ BillsFollow /\ NoneShort
  BY DEF TypeInv, GoodsSound
<1>1. /\ Writes(r, "correct") /\ LotsLeft(Cardinality(SwappedOf(r)))
      /\ \/ /\ End(r, "refused") /\ bill' = bill /\ UNCHANGED <<receipt, lot, moved, sold, forced, agreed>>
         \/ End(r, "done") /\ Corrects(r)
  BY CorrectIs
<1>2. Knows(r) /\ pc[r] = "write"
  BY <1>0, <1>1, CorrectKnows DEF Knows
<1>3. Fresh'
  BY <1>1, <1>2, FreshAfterEnd
<1>4. CASE bill' = bill /\ UNCHANGED <<receipt, lot, moved, sold, forced, agreed>>
  BY <1>0, <1>3, <1>4 DEF GoodsSound, Stands, BillsFollow, NoneShort, OnHand
<1>5. CASE Corrects(r)
  <2> DEFINE c == ask[r].receipt
             b == BillOf[c]
             by == By(sheet[r], ask[r])
  <2>1. /\ sheet[r].lines = receipt[c].lines /\ sheet[r].fee = receipt[c].fee
        /\ sheet[r].due = bill[b].due /\ sheet[r].billed = (bill[b].state = "live")
    BY <1>1, <1>2 DEF GoodsSound, Fresh, FreshRead, Writes
  <2>2. OldOf(r) = Now(r) /\ Now(r) = receipt[c].lines /\ c \in Receipts /\ b \in Bills
    BY <1>2, <2>1, DeliveriesAssumption DEF OldOf, Now, Knows
  <2>3. Rewritten(c, LinesOf(r), FeeOf(r))
    BY <1>0, <1>2, <1>5, <2>1, <2>2, CorrectRewrites
  <2>4. Stands'
    BY <1>0, <2>2, <2>3, StandsAgain
  <2>5. NoneShort'
    BY <1>0, <1>2, <1>5, <2>2, CorrectLeavesNoneShort
  <2>6. Value(LinesOf(r)) = Value(receipt[c].lines) + by /\ by \in Int /\ Value(receipt[c].lines) \in Nat
    BY <1>0, <1>2, <1>5, <2>2, ValueAfterwards, AgreementIs DEF Knows, GoodsTyped
  <2>7. BillsFollow'
    <3> HIDE DEF by
    <3> SUFFICES ASSUME NEW d \in Receipts, bill'[BillOf[d]].state = "live"
                 PROVE  bill'[BillOf[d]].due = Value(receipt'[d].lines) + agreed'[BillOf[d]]
      BY DEF BillsFollow
    <3>1. agreed' = agreed /\ bill' = (IF sheet[r].billed /\ by # 0 THEN [bill EXCEPT ![b].due = sheet[r].due + by] ELSE bill)
      BY <1>5 DEF Corrects, by
    <3>2. \A y \in Bills : agreed[y] \in Int /\ bill[y].due \in Nat
      BY <1>0 DEF GoodsTyped, RowsOK, BillRows
    <3>3. CASE d # c
      <4>1. BillOf[d] # b /\ BillOf[d] \in Bills /\ receipt'[d] = receipt[d]
        BY <2>2, <2>3, <3>3, DeliveriesAssumption DEF Rewritten
      <4>2. bill'[BillOf[d]] = bill[BillOf[d]]
        <5> HIDE DEF b
        <5>1. QED BY <1>0, <3>1, <4>1 DEF RowsOK
      <4>3. QED BY <1>0, <3>1, <4>1, <4>2 DEF BillsFollow
    <3>4. CASE d = c
      <4>1. receipt'[d].lines = LinesOf(r)
        BY <2>3, <3>4 DEF Rewritten
      <4>2. bill[b] \in BillRows
        BY <1>0, <2>2 DEF RowsOK
      <4>3. bill'[b].state = bill[b].state /\ bill'[b].due = IF sheet[r].billed /\ by # 0 THEN sheet[r].due + by ELSE bill[b].due
        <5> HIDE DEF b
        <5>1. QED BY <1>0, <2>2, <3>1, <4>2 DEF RowsOK, BillRows
      <4>4. sheet[r].billed /\ bill[b].due = Value(receipt[c].lines) + agreed[b]
        BY <1>0, <2>1, <2>2, <3>4, <4>3 DEF BillsFollow
      <4>5. bill'[b].due = bill[b].due + by
        BY <2>1, <2>2, <2>6, <3>2, <4>3, <4>4
      <4>6. QED
        BY <2>2, <2>6, <3>1, <3>2, <3>4, <4>1, <4>4, <4>5
    <3>5. QED BY <3>3, <3>4
  <2>8. QED
    BY <1>3, <2>4, <2>5, <2>7 DEF GoodsSound
<1>6. QED
  BY <1>1, <1>4, <1>5

LEMMA DeliverKeepsSound ==
  ASSUME TypeInv, GoodsSound, ~overlapped', NEW r \in Requests, NEW a \in Asks, Deliver(r, a) PROVE GoodsSound'
<1>0. RowsOK(bill, payment, rebate) /\ GoodsTyped /\ AsksTyped /\ Stands /\ BillsFollow /\ NoneShort
  BY DEF TypeInv, GoodsSound
<1>1. CASE Begin(r, a, "refused") /\ UNCHANGED <<books, goodsVars>>
  <2>1. Fresh'
    BY <1>1, FreshAfterBegin
  <2>2. QED
    BY <1>0, <1>1, <2>1 DEF GoodsSound, Stands, BillsFollow, NoneShort, OnHand, books, goodsVars
<1>2. ASSUME NEW into, NEW ls, Brings(a, into, ls), Begin(r, a, "done"), receipt[a.receipt].lines = <<>>
      PROVE  GoodsSound'
  <2> DEFINE c == a.receipt
             b == BillOf[c]
             due == IF a.due = None THEN Value(a.lines) ELSE a.due
             D == DOMAIN a.lines
  <2>1. /\ c \in Receipts /\ b \in Bills /\ a.due \in Nat \cup {None} /\ a.lines \in Seq(Figures)
        /\ \A l \in D : a.lines[l].received > 0
    BY GoodsAsksAssumption, DeliveriesAssumption DEF Deliver
  <2>2. /\ into \in [D -> Unborn] /\ \A l, k \in D : into[l] = into[k] => l = k
        /\ ls \in Seq(LineRows) /\ DOMAIN ls = D /\ SumFunction([l \in DOMAIN ls |-> ls[l].share]) = a.fee
        /\ receipt' = [receipt EXCEPT ![c] = [fee |-> a.fee, lines |-> ls]]
        /\ bill' = [bill EXCEPT ![b] = [state |-> "live", vendor |-> a.vendor, due |-> due]]
        /\ agreed' = [agreed EXCEPT ![b] = due - Value(a.lines)]
        /\ sold' = sold /\ forced' = forced
    BY <1>2 DEF Brings
  <2>20. \A l \in D : /\ ls[l].lot = into[l] /\ ls[l].value = a.lines[l].value /\ ls[l].share \in Nat
                      /\ ls[l].received = a.lines[l].received
    BY <1>2 DEF Brings
  <2>23. \A l \in D : lot'[into[l]] = [from |-> "delivery", received |-> ls[l].received,
                                      cost |-> ls[l].value + ls[l].share]
    BY <1>2 DEF Brings
  <2>21. \A l \in D : \A g \in Goods :
           moved'[into[l]][g] = IF ls[l].goods = g THEN ls[l].received ELSE moved[into[l]][g]
    BY <1>2 DEF Brings
  <2>22. \A x \in Lots : (\A l \in D : into[l] # x) =>
           lot'[x] = lot[x] /\ \A g \in Goods : moved'[x][g] = moved[x][g]
    BY <1>2 DEF Brings
  <2>3. /\ UnbornEmpty(lot, moved) /\ LotsOf(receipt, c) = {}
    <3>1. UnbornEmpty(lot, moved)
      BY <1>0, StandIs DEF Stands
    <3>2. DOMAIN receipt[c].lines = {}
      BY <1>2
    <3>3. QED BY <3>1, <3>2 DEF LotsOf
  <2>4. \A l \in D : \A g \in Goods : moved[into[l]][g] = 0 /\ into[l] \in Lots /\ into[l] \in Unborn
    BY <2>2, <2>3 DEF UnbornEmpty, Unborn
  <2>5. receipt'[c].lines = ls /\ receipt'[c].fee = a.fee /\ \A d \in Receipts \ {c} : receipt'[d] = receipt[d]
    BY <1>0, <2>1, <2>2 DEF GoodsTyped
  <2>6. Rewritten(c, ls, a.fee)
    <3>1. \A l \in D : /\ lot'[ls[l].lot].from = "delivery" /\ ls[l].lot \in Unborn
                       /\ LotStands(ls[l], lot'[ls[l].lot], moved'[ls[l].lot])
      <4> TAKE l \in D
      <4>1. lot'[into[l]].from = "delivery" /\ lot'[into[l]].received = ls[l].received
            /\ lot'[into[l]].cost = ls[l].value + ls[l].share /\ ls[l].lot = into[l]
        <5>1. lot'[into[l]] = [from |-> "delivery", received |-> ls[l].received, cost |-> ls[l].value + ls[l].share]
          BY <2>23
        <5>2. ls[l].lot = into[l]
          BY <2>20
        <5>3. PICK row : row = lot'[into[l]]
          OBVIOUS
        <5>4. row.from = "delivery" /\ row.received = ls[l].received /\ row.cost = ls[l].value + ls[l].share
          BY <5>1, <5>3
        <5>5. QED BY <5>2, <5>3, <5>4
      <4>2. \A g \in Goods : moved'[into[l]][g] = IF g = ls[l].goods THEN ls[l].received ELSE 0
        BY <2>21, <2>4
      <4>3. into[l] \in Unborn
        BY <2>2
      <4>4. QED BY <4>1, <4>2, <4>3 DEF LotStands
    <3>2. \A x \in Lots : (\A l \in D : ls[l].lot # x) => lot'[x] = lot[x] /\ \A g \in Goods : moved'[x][g] = moved[x][g]
      BY <2>20, <2>22
    <3>3. \A l, k \in D : ls[l].lot = ls[k].lot => l = k
      BY <2>2, <2>20
    <3>4. QED
      BY <2>2, <2>3, <2>5, <3>1, <3>2, <3>3 DEF Rewritten
  <2>7. Stands'
    BY <1>0, <2>1, <2>6, StandsAgain
  <2>8. NoneShort'
    <3> SUFFICES ASSUME NEW x \in Lots, NEW g \in Goods, moved'[x][g] - sold'[x][g] < 0 PROVE x \in forced'
      BY DEF NoneShort, OnHand
    <3>1. moved[x][g] \in Int /\ sold[x][g] \in Nat
      BY <1>0 DEF GoodsTyped
    <3>2. \A l \in D : ls[l].received \in Nat
      <4>1. \A l \in D : ls[l] \in LineRows
        BY <2>2, LinesAre
      <4>2. QED BY <4>1 DEF LineRows
    <3>3. moved'[x][g] \in Int /\ moved'[x][g] >= moved[x][g]
      <4>1. CASE \A l \in D : into[l] # x
        BY <2>22, <3>1, <4>1
      <4>2. CASE \E l \in D : into[l] = x
        <5>1. PICK l \in D : into[l] = x
          BY <4>2
        <5>2. moved[x][g] = 0 /\ moved'[x][g] = IF ls[l].goods = g THEN ls[l].received ELSE moved[x][g]
          BY <2>21, <2>4, <5>1
        <5>3. QED BY <3>2, <5>2
      <4>3. QED BY <4>1, <4>2
    <3>4. moved[x][g] - sold[x][g] < 0
      BY <2>2, <3>1, <3>3
    <3>5. QED BY <1>0, <2>2, <3>4 DEF NoneShort, OnHand
  <2>9. Value(ls) = Value(a.lines) /\ Value(a.lines) \in Nat
    <3>1. IsFiniteSet(D) /\ \A l \in D : a.lines[l] \in Figures
      BY <2>1, LinesAre
    <3>2. \A l \in D : a.lines[l].value \in Nat
      BY <3>1 DEF Figures
    <3>3. \A l \in D : ls[l].value = a.lines[l].value
      BY <2>20
    <3>4. Value(a.lines) = SumFunctionOnSet(ValueOf(a.lines), D) /\ Value(a.lines) \in Nat
      BY <3>1, <3>2, ValueIs
    <3>5. Value(ls) = SumFunctionOnSet(ValueOf(ls), D)
      BY <2>2, <3>1, <3>2, <3>3, ValueIs
    <3>6. ValueOf(ls) = ValueOf(a.lines)
      BY <2>2, <3>3 DEF ValueOf
    <3>7. QED BY <3>4, <3>5, <3>6
  <2>10. BillsFollow'
    <3> SUFFICES ASSUME NEW d \in Receipts, bill'[BillOf[d]].state = "live"
                 PROVE  bill'[BillOf[d]].due = Value(receipt'[d].lines) + agreed'[BillOf[d]]
      BY DEF BillsFollow
    <3>1. due \in Nat
      BY <2>1, <2>9
    <3> HIDE DEF due
    <3>2. CASE d = c
      <4>1. bill'[b].due = due
        <5> HIDE DEF b
        <5>1. QED BY <1>0, <2>1, <2>2 DEF RowsOK
      <4>2. agreed'[b] = due - Value(a.lines)
        BY <1>0, <2>1, <2>2 DEF GoodsTyped
      <4>3. QED BY <2>5, <2>9, <3>1, <3>2, <4>1, <4>2
    <3>3. CASE d # c
      <4>1. BillOf[d] # b /\ BillOf[d] \in Bills /\ receipt'[d] = receipt[d]
        BY <2>1, <2>5, <3>3, DeliveriesAssumption
      <4>2. bill'[BillOf[d]] = bill[BillOf[d]] /\ agreed'[BillOf[d]] = agreed[BillOf[d]]
        <5> HIDE DEF b
        <5>1. QED BY <1>0, <2>2, <4>1 DEF RowsOK, GoodsTyped
      <4>3. QED BY <1>0, <4>1, <4>2 DEF BillsFollow
    <3>4. QED BY <3>2, <3>3
  <2>11. Fresh'
    BY <1>2, FreshAfterBegin
  <2>12. QED
    BY <2>7, <2>8, <2>10, <2>11 DEF GoodsSound
<1>3. QED
  BY <1>0, <1>1, <1>2, DeliverBrings

\* What the bills' own requests do to bills: one is entered, edited or removed.
LEMMA BillsAfterWrites ==
  ASSUME NEW r \in Requests, WriteBooks(r)
  PROVE  \/ bill' = bill /\ (ask[r].kind \in {"edit", "enter"} => pc' = [pc EXCEPT ![r] = "refused"])
         \/ /\ ask[r].kind \in {"enter", "edit"} /\ pc' = [pc EXCEPT ![r] = "done"]
            /\ \E row : bill' = [bill EXCEPT ![ask[r].bill] = row]
         \/ ask[r].kind = "remove" /\ bill' = [bill EXCEPT ![ask[r].bill].state = "removed"]
<1>1. CASE Enter(r)
  <2>1. CASE bill[ask[r].bill].state # "none"
    <3>1. bill' = bill /\ pc' = [pc EXCEPT ![r] = "refused"]
      BY <1>1, <2>1 DEF Enter, End, books
    <3>2. QED BY <3>1
  <2>2. CASE bill[ask[r].bill].state = "none"
    BY <1>1, <2>2 DEF Enter, End, Writes
  <2>3. QED BY <2>1, <2>2
<1>2. CASE Edit(r)
  <2>1. bill' = [bill EXCEPT ![ask[r].bill] = [bill[ask[r].bill] EXCEPT !.due = ask[r].amount]]
    BY <1>2 DEF Edit
  <2>2. QED BY <1>2, <2>1 DEF Edit, End, Writes
<1>3. CASE Remove(r)
  BY <1>3 DEF Remove, Writes
<1>4. CASE Pay(r) \/ Void(r) \/ Expect(r) \/ Reestimate(r) \/ Drop(r) \/ Credit(r) \/ Uncredit(r)
  BY <1>4 DEF Pay, Void, Expect, Reestimate, Drop, Credit, Uncredit, OnRebate, Writes, books
<1>5. QED
  BY <1>1, <1>2, <1>3, <1>4 DEF WriteBooks

LEMMA BooksKeepSound ==
  ASSUME TypeInv, TypeInv', GoodsSound, OneAtOnce, ~overlapped', NEW r \in Requests, Books(r) PROVE GoodsSound'
<1>0. RowsOK(bill, payment, rebate) /\ GoodsTyped /\ AsksTyped /\ Stands /\ BillsFollow /\ NoneShort
  BY DEF TypeInv, GoodsSound
<1>1. CASE (\E a \in Asks : ReadBooks(r, a)) /\ UNCHANGED goodsVars
  <2>1. PICK a \in Asks : ReadBooks(r, a)
    BY <1>1
  <2>2. PICK next : next = IF Permitted(a) THEN "write" ELSE "refused"
    OBVIOUS
  <2>3. bill' = bill /\ Begin(r, a, next) /\ a.kind \in BookKinds
    BY <2>1, <2>2 DEF ReadBooks, books
  <2>4. ask'[r] = a
    BY <1>0, <2>3 DEF Begin, AsksTyped
  <2>5. FreshRead(r)'
    BY <2>3, <2>4 DEF FreshRead, BookKinds
  <2>6. Fresh'
    BY <2>3, <2>5, FreshAfterBegin
  <2>7. QED
    BY <1>0, <1>1, <2>3, <2>6 DEF GoodsSound, Stands, BillsFollow, NoneShort, OnHand, goodsVars
<1>2. CASE /\ WriteBooks(r) /\ UNCHANGED <<receipt, lot, moved, sold, forced, sheet>>
           /\ agreed' = IF ask[r].kind \in {"edit", "enter"} /\ pc'[r] = "done"
                        THEN [agreed EXCEPT ![ask[r].bill] = bill'[ask[r].bill].due - Agreement(ask[r].bill)]
                        ELSE agreed
  <2> DEFINE a == ask[r]
             b == a.bill
  <2>1. pc[r] = "write" /\ \E how \in {"done", "refused"} : End(r, how)
    BY <1>2, WritesEnd
  <2>2. Fresh'
    BY <2>1, FreshAfterEnd
  <2>3. a \in Asks
    BY <1>0, <2>1 DEF AsksTyped, Reads
  <2>4. Stands' /\ NoneShort'
    BY <1>0, <1>2 DEF Stands, NoneShort, OnHand
  <2>5. BillsFollow'
    <3> SUFFICES ASSUME NEW d \in Receipts, bill'[BillOf[d]].state = "live"
                 PROVE  bill'[BillOf[d]].due = Value(receipt[d].lines) + agreed'[BillOf[d]]
      BY <1>2 DEF BillsFollow
    <3>1. BillOf[d] \in Bills
      BY DeliveriesAssumption
    <3>2. CASE bill' = bill /\ (a.kind \in {"edit", "enter"} => pc' = [pc EXCEPT ![r] = "refused"])
      <4>1. a.kind \in {"edit", "enter"} => pc'[r] = "refused"
        BY <1>0, <3>2 DEF AsksTyped
      <4>2. agreed' = agreed
        BY <1>2, <4>1
      <4>3. QED BY <1>0, <3>2, <4>2 DEF BillsFollow
    <3>3. ASSUME NEW row, a.kind \in {"enter", "edit"}, pc' = [pc EXCEPT ![r] = "done"],
                 bill' = [bill EXCEPT ![b] = row]
          PROVE  bill'[BillOf[d]].due = Value(receipt[d].lines) + agreed'[BillOf[d]]
      <4>1. b \in Bills /\ pc'[r] = "done"
        BY <1>0, <2>3, <3>3, BookAsksAssumption DEF AsksTyped
      <4>2. agreed' = [agreed EXCEPT ![b] = bill'[b].due - Agreement(b)]
        BY <1>2, <3>3, <4>1
      <4>3. CASE BillOf[d] = b
        <5>1. Agreement(BillOf[d]) = Value(receipt[d].lines) /\ Value(receipt[d].lines) \in Nat
          BY <1>0, AgreementIs DEF GoodsTyped
        <5>2. bill'[b].due \in Nat
          BY <4>1 DEF TypeInv, RowsOK, BillRows
        <5>3. agreed'[b] = bill'[b].due - Agreement(b)
          BY <1>0, <4>1, <4>2 DEF GoodsTyped
        <5>4. QED BY <4>3, <5>1, <5>2, <5>3
      <4>4. CASE BillOf[d] # b
        <5>1. bill'[BillOf[d]] = bill[BillOf[d]] /\ agreed'[BillOf[d]] = agreed[BillOf[d]]
          <6> HIDE DEF b
          <6>1. QED BY <1>0, <3>1, <3>3, <4>1, <4>2, <4>4 DEF RowsOK, GoodsTyped
        <5>2. QED BY <1>0, <5>1 DEF BillsFollow
      <4>5. QED BY <4>3, <4>4
    <3>4. CASE a.kind = "remove" /\ bill' = [bill EXCEPT ![b].state = "removed"]
      <4>1. b \in Bills /\ agreed' = agreed
        BY <1>2, <2>3, <3>4, BookAsksAssumption
      <4>2. bill'[b].state = "removed" /\ \A e \in Bills \ {b} : bill'[e] = bill[e]
        <5> HIDE DEF b
        <5>1. QED BY <1>0, <3>4, <4>1 DEF RowsOK, BillRows
      <4>3. QED BY <1>0, <3>1, <4>1, <4>2 DEF BillsFollow
    <3>5. QED BY <1>2, <3>2, <3>3, <3>4, BillsAfterWrites
  <2>6. QED
    BY <2>2, <2>4, <2>5 DEF GoodsSound
<1>3. QED
  BY <1>1, <1>2 DEF Books

LEMMA ReadsKeepSound ==
  ASSUME TypeInv, GoodsSound, ~overlapped', NEW r \in Requests, NEW a \in Asks,
         ReadDelivery(r, a) \/ ReadOpening(r, a)
  PROVE  GoodsSound'
<1>0. GoodsTyped /\ AsksTyped /\ Stands /\ BillsFollow /\ NoneShort
  BY DEF TypeInv, GoodsSound
<1>1. ASSUME NEW next, Begin(r, a, next), UNCHANGED <<bill, receipt, lot, moved, sold, forced, agreed>>,
             next = "write" => FreshRead(r)'
      PROVE  GoodsSound'
  <2>1. Fresh'
    BY <1>1, FreshAfterBegin
  <2>2. QED
    BY <1>0, <1>1, <2>1 DEF GoodsSound, Stands, BillsFollow, NoneShort, OnHand
<1>2. CASE ReadDelivery(r, a)
  <2> DEFINE read == [lines |-> receipt[a.receipt].lines, fee |-> receipt[a.receipt].fee,
                      due |-> bill[BillOf[a.receipt]].due, billed |-> LiveBill(BillOf[a.receipt])]
  <2>1. PICK next : next = IF MayCorrect(a) THEN "write" ELSE "refused"
    OBVIOUS
  <2>2. /\ Begin(r, a, next) /\ a.kind = "correct" /\ bill' = bill
        /\ sheet' = IF MayCorrect(a) THEN [sheet EXCEPT ![r] = read] ELSE sheet
        /\ UNCHANGED <<receipt, lot, moved, sold, forced, agreed>>
    BY <1>2, <2>1 DEF ReadDelivery, books
  <2>3. ask'[r] = a
    BY <1>0, <2>2 DEF Begin, AsksTyped
  <2>4. next = "write" => sheet'[r] = read
    BY <1>0, <2>1, <2>2 DEF AsksTyped
  <2>5. /\ read.lines = receipt[a.receipt].lines /\ read.fee = receipt[a.receipt].fee
        /\ read.due = bill[BillOf[a.receipt]].due /\ read.billed = (bill[BillOf[a.receipt]].state = "live")
    BY DEF LiveBill
  <2> HIDE DEF read
  <2>6. next = "write" => FreshRead(r)'
    BY <2>2, <2>3, <2>4, <2>5 DEF FreshRead
  <2>7. QED BY <1>1, <2>2, <2>6
<1>3. CASE ReadOpening(r, a)
  <2>1. PICK next : next = IF Stocked(a.goods) THEN "refused" ELSE "write"
    OBVIOUS
  <2>2. /\ Begin(r, a, next) /\ a.kind = "open" /\ UNCHANGED <<bill, receipt, lot, moved, sold, forced, agreed>>
    BY <1>3, <2>1 DEF ReadOpening, books, goodsVars
  <2>3. ask'[r] = a
    BY <1>0, <2>2 DEF Begin, AsksTyped
  <2>4. next = "write" => FreshRead(r)'
    BY <1>3, <2>1, <2>2, <2>3 DEF FreshRead, Stocked, ReadOpening, goodsVars, openings
  <2>5. QED BY <1>1, <2>2, <2>4
<1>4. QED
  BY <1>2, <1>3

\* Lots that are no delivery's may come and be given another cost.
LEMMA OtherLotsStand ==
  ASSUME Stands, GoodsTyped, receipt' = receipt, NEW x \in Lots, lot[x].from # "delivery", lot'[x].from = "opening",
         \A y \in Lots \ {x} : lot'[y] = lot[y] /\ \A g \in Goods : moved'[y][g] = moved[y][g],
         \A y \in Lots, g \in Goods :
           lot[y].from = "opening" /\ y # x /\ moved[y][g] > 0 => ~(moved'[x][g] > 0)
  PROVE  Stands'
<1>1. /\ LinesStand(receipt, lot, moved) /\ LotsApart(receipt) /\ NoneIdle(receipt, lot)
      /\ UnbornEmpty(lot, moved) /\ FeesShared(receipt) /\ OpenedOnce(lot, moved)
  BY StandIs DEF Stands
<1>2. LinesStand(receipt, lot', moved')
  <2> SUFFICES ASSUME NEW c \in Receipts, NEW l \in DOMAIN receipt[c].lines
               PROVE  LET ln == receipt[c].lines[l]
                      IN  lot'[ln.lot].from = "delivery" /\ LotStands(ln, lot'[ln.lot], moved'[ln.lot])
    BY DEF LinesStand
  <2>1. PICK ln : ln = receipt[c].lines[l]
    OBVIOUS
  <2>2. lot[ln.lot].from = "delivery" /\ LotStands(ln, lot[ln.lot], moved[ln.lot])
    BY <1>1, <2>1 DEF LinesStand
  <2>3. ln.lot \in Lots
    <3>1. PICK rows \in Seq(LineRows) : rows = receipt[c].lines
      BY DEF GoodsTyped
    <3>2. ln \in LineRows
      BY <2>1, <3>1, LinesAre
    <3>3. QED BY <3>2 DEF LineRows
  <2>4. lot'[ln.lot] = lot[ln.lot] /\ \A g \in Goods : moved'[ln.lot][g] = moved[ln.lot][g]
    BY <2>2, <2>3
  <2>5. QED BY <2>1, <2>2, <2>4 DEF LotStands
<1>3. NoneIdle(receipt, lot') /\ UnbornEmpty(lot', moved')
  BY <1>1 DEF NoneIdle, UnbornEmpty
<1>4. OpenedOnce(lot', moved')
  <2> SUFFICES ASSUME NEW y \in Lots, NEW z \in Lots, NEW g \in Goods,
                      lot'[y].from = "opening", lot'[z].from = "opening", moved'[y][g] > 0, moved'[z][g] > 0
               PROVE  y = z
    BY DEF OpenedOnce
  <2>1. QED BY <1>1 DEF OpenedOnce
<1>5. GoodsStand(receipt, lot', moved')
  BY <1>1, <1>2, <1>3, <1>4, StandIs
<1>6. QED
  BY <1>5 DEF Stands

LEMMA OpeningKeepsSound ==
  ASSUME TypeInv, GoodsSound, OpeningInv, OneAtOnce, NEW r \in Requests, RecordOpening(r) PROVE GoodsSound'
<1>0. GoodsTyped /\ AsksTyped /\ Stands /\ BillsFollow /\ NoneShort /\ UnbornEmpty(lot, moved)
  BY DEF TypeInv, GoodsSound, OpeningInv, LinesOnLots
<1>1. PICK a : a = ask[r]
  OBVIOUS
<1>2. /\ pc[r] = "write" /\ a.kind = "open" /\ End(r, "done") /\ a.goods \in Goods /\ a.received \in Nat
      /\ UNCHANGED <<bill, receipt, sold, forced, sheet, agreed>>
  BY <1>0, <1>1, OpeningIs
<1>3. a.goods \notin stocked
  BY <1>1, <1>2 DEF GoodsSound, Fresh, FreshRead, Stocked
<1>4. PICK x \in Lots :
        /\ lot[x].from = "none" /\ lot'[x].from = "opening"
        /\ \A g \in Goods : moved[x][g] = 0
        /\ \A g \in Goods : moved'[x][g] = IF g = a.goods THEN a.received ELSE 0
        /\ \A y \in Lots \ {x} : lot'[y] = lot[y] /\ moved'[y] = moved[y]
  BY <1>0, <1>1, OpeningIs
<1>5. \A y \in Lots, g \in Goods : lot[y].from = "opening" /\ y # x /\ moved[y][g] > 0 => ~(moved'[x][g] > 0)
  <2> SUFFICES ASSUME NEW y \in Lots, NEW g \in Goods, lot[y].from = "opening", moved[y][g] > 0, moved'[x][g] > 0
               PROVE  FALSE
    OBVIOUS
  <2>1. g = a.goods
    BY <1>4
  <2>2. QED BY <1>3, <2>1 DEF OpeningInv, OpenedCameIn
<1>6. Stands'
  BY <1>0, <1>2, <1>4, <1>5, OtherLotsStand
<1>7. NoneShort'
  <2> SUFFICES ASSUME NEW y \in Lots, NEW g \in Goods, moved'[y][g] - sold[y][g] < 0 PROVE y \in forced
    BY <1>2 DEF NoneShort, OnHand
  <2>1. moved[y][g] \in Int /\ sold[y][g] \in Nat
    BY <1>0 DEF GoodsTyped
  <2>2. moved'[y][g] \in Int /\ moved'[y][g] >= moved[y][g]
    BY <1>2, <1>4, <2>1
  <2>3. OnHand(y, g) < 0
    BY <2>1, <2>2 DEF OnHand
  <2>4. QED BY <1>0, <2>3 DEF NoneShort
<1>8. BillsFollow'
  BY <1>0, <1>2 DEF BillsFollow
<1>9. Fresh'
  BY <1>2, FreshAfterEnd
<1>10. QED
  BY <1>6, <1>7, <1>8, <1>9 DEF GoodsSound

LEMMA CostKeepsSound ==
  ASSUME TypeInv, GoodsSound, ~overlapped', NEW r \in Requests, NEW a \in Asks, CorrectCost(r, a) PROVE GoodsSound'
<1>0. GoodsTyped /\ AsksTyped /\ Stands /\ BillsFollow /\ NoneShort
  BY DEF TypeInv, GoodsSound
<1>1. PICK next : next = IF lot[a.lot].from = "opening" THEN "done" ELSE "refused"
  OBVIOUS
<1>2. /\ Begin(r, a, next) /\ a.kind = "recost" /\ next # "write"
      /\ lot' = IF lot[a.lot].from = "opening" THEN [lot EXCEPT ![a.lot].cost = a.value] ELSE lot
      /\ UNCHANGED <<bill, receipt, moved, sold, forced, sheet, agreed>>
  BY <1>1 DEF CorrectCost, books
<1>3. Fresh'
  BY <1>2, FreshAfterBegin
<1>4. Stands'
  <2>1. CASE lot[a.lot].from = "opening"
    <3>1. a.lot \in Lots /\ lot[a.lot] \in LotRows
      BY <1>0, <1>2, GoodsAsksAssumption DEF GoodsTyped
    <3>2. lot'[a.lot].from = "opening" /\ \A y \in Lots \ {a.lot} : lot'[y] = lot[y]
      BY <1>0, <1>2, <2>1, <3>1 DEF GoodsTyped, LotRows
    <3>3. \A y \in Lots, g \in Goods : lot[y].from = "opening" /\ y # a.lot /\ moved[y][g] > 0 => ~(moved[a.lot][g] > 0)
      <4>1. OpenedOnce(lot, moved)
        BY <1>0, StandIs DEF Stands
      <4>2. QED BY <2>1, <3>1, <4>1 DEF OpenedOnce
    <3>4. QED
      BY <1>0, <1>2, <2>1, <3>1, <3>2, <3>3, OtherLotsStand
  <2>2. CASE lot[a.lot].from # "opening"
    BY <1>0, <1>2, <2>2 DEF Stands
  <2>3. QED BY <2>1, <2>2
<1>5. QED
  BY <1>0, <1>2, <1>3, <1>4 DEF GoodsSound, BillsFollow, NoneShort, OnHand

LEMMA SaleKeepsSound ==
  ASSUME TypeInv, GoodsSound, (\E x \in Lots, g \in Goods : Sell(x, g)) \/ UNCHANGED vars PROVE GoodsSound'
<1>0. GoodsTyped /\ AsksTyped /\ Stands /\ BillsFollow /\ NoneShort /\ Fresh
  BY DEF TypeInv, GoodsSound
<1>1. UNCHANGED <<bill, pc, ask, receipt, lot, moved, forced, sheet, agreed, stocked>>
  BY DEF Sell, vars, payablesVars, books, goodsVars, openings
<1>2. Stands' /\ BillsFollow' /\ Fresh'
  BY <1>0, <1>1 DEF Stands, BillsFollow, Fresh, FreshRead, Stocked
<1>3. NoneShort'
  <2>1. CASE UNCHANGED vars
    BY <1>0, <2>1 DEF NoneShort, OnHand, vars, goodsVars
  <2>2. ASSUME NEW x \in Lots, NEW g \in Goods, Sell(x, g) PROVE NoneShort'
    <3> SUFFICES ASSUME NEW y \in Lots, NEW e \in Goods, moved[y][e] - sold'[y][e] < 0 PROVE y \in forced
      BY <1>1 DEF NoneShort, OnHand
    <3>1. moved[x][g] - sold[x][g] > 0 /\ sold' = [sold EXCEPT ![x] = [sold[x] EXCEPT ![g] = sold[x][g] + 1]]
      BY <2>2 DEF Sell, OnHand
    <3>2. moved[x][g] \in Int /\ sold[x][g] \in Nat
      BY <1>0 DEF GoodsTyped
    <3>3. CASE y = x /\ e = g
      <4>1. sold'[x][g] = sold[x][g] + 1
        BY <1>0, <3>1 DEF GoodsTyped
      <4>2. QED BY <3>1, <3>2, <3>3, <4>1
    <3>4. CASE ~(y = x /\ e = g)
      <4>1. sold'[y][e] = sold[y][e]
        BY <1>0, <3>1, <3>4 DEF GoodsTyped
      <4>2. QED BY <1>0, <4>1 DEF NoneShort, OnHand
    <3>5. QED BY <3>3, <3>4
  <2>3. QED BY <2>1, <2>2
<1>4. QED
  BY <1>2, <1>3 DEF GoodsSound

LEMMA InitSound == ASSUME Init PROVE GoodsSound
<1>1. PICK goods \in OpeningGoods : receipt = goods.receipt /\ lot = goods.lot /\ moved = goods.moved
  BY DEF Init
<1>2. /\ pc = [r \in Requests |-> "idle"] /\ sold = [x \in Lots |-> [g \in Goods |-> 0]]
      /\ agreed = [b \in Bills |-> IF \E c \in Receipts : BillOf[c] = b /\ LiveBill(b)
                                   THEN bill[b].due - Agreement(b) ELSE 0]
  BY DEF Init, BooksInit
<1>3. Stands /\ moved \in [Lots -> [Goods -> Nat]]
  BY <1>1, OpeningGoodsAssumption DEF Stands
<1>4. NoneShort
  BY <1>2, <1>3 DEF NoneShort, OnHand
<1>5. RowsOK(bill, payment, rebate) /\ receipt \in [Receipts -> [fee : Nat, lines : Seq(LineRows)]]
  BY InitTypes DEF TypeInv, GoodsTyped
<1>6. BillsFollow
  <2> SUFFICES ASSUME NEW c \in Receipts, bill[BillOf[c]].state = "live"
               PROVE  bill[BillOf[c]].due = Value(receipt[c].lines) + agreed[BillOf[c]]
    BY DEF BillsFollow
  <2>1. BillOf[c] \in Bills /\ bill[BillOf[c]].due \in Nat
    BY <1>5, DeliveriesAssumption DEF RowsOK, BillRows
  <2>2. agreed[BillOf[c]] = bill[BillOf[c]].due - Agreement(BillOf[c])
    BY <1>2, <2>1 DEF LiveBill
  <2>3. Agreement(BillOf[c]) = Value(receipt[c].lines) /\ Value(receipt[c].lines) \in Nat
    BY <1>5, AgreementIs
  <2>4. QED BY <2>1, <2>2, <2>3
<1>7. QED
  BY <1>2, <1>3, <1>4, <1>6 DEF GoodsSound, Fresh

GoodsInv == TypeInv /\ IInv /\ OpeningInv /\ (~overlapped => GoodsSound)

LEMMA GoodsInvStep == ASSUME GoodsInv, [Next]_vars PROVE GoodsInv'
<1>1. /\ TypeInv /\ IInv /\ OpeningInv /\ TypeInv' /\ IInv' /\ OpeningInv'
      /\ overlapped \in BOOLEAN
  BY StepTypes, StepInv, OpeningInvStep DEF GoodsInv, IInv
<1>2. SUFFICES ASSUME ~overlapped' PROVE GoodsSound'
  BY <1>1 DEF GoodsInv
<1>3. ~overlapped
  BY <1>1, <1>2, OverlapStays
<1>4. GoodsSound /\ OneAtOnce
  BY <1>1, <1>3 DEF GoodsInv, IInv, Quiet, OneWrites, OneAtOnce
<1>5. ASSUME NEW r \in Requests, Books(r) \/ Correct(r) \/ RecordOpening(r) PROVE GoodsSound'
  BY <1>1, <1>2, <1>4, <1>5, BooksKeepSound, CorrectKeepsSound, OpeningKeepsSound
<1>6. ASSUME NEW r \in Requests, NEW a \in Asks,
             Deliver(r, a) \/ ReadDelivery(r, a) \/ ReadOpening(r, a) \/ CorrectCost(r, a)
      PROVE  GoodsSound'
  BY <1>1, <1>2, <1>4, <1>6, DeliverKeepsSound, ReadsKeepSound, CostKeepsSound
<1>7. CASE (\E x \in Lots, g \in Goods : Sell(x, g)) \/ UNCHANGED vars
  BY <1>1, <1>4, <1>7, SaleKeepsSound
<1>8. QED
  BY <1>5, <1>6, <1>7 DEF Next

\* The invariant that the goods' agreement with the books is read off.
THEOREM SpecGoodsInv == Spec => []GoodsInv
<1>1. Init => GoodsInv
  BY InitTypes, InitQuiet, InitSound, InitOpening DEF GoodsInv
<1>2. GoodsInv /\ [Next]_vars => GoodsInv'
  BY GoodsInvStep
<1>3. QED
  BY <1>1, <1>2, PTL DEF Spec

-----------------------------------------------------------------------------
(* What follows. *)

\* The lots of a delivery's lines cost what its goods are worth and its fee.
LEMMA LotsCostTheirLines ==
  ASSUME GoodsTyped, Stands, NEW c \in Receipts, NEW cost,
         \A x \in Lots : cost[x] = lot[x].cost
  PROVE  /\ SumFunctionOnSet(cost, LotsOf(receipt, c)) = Value(receipt[c].lines) + receipt[c].fee
         /\ LotsOf(receipt, c) \subseteq Lots
<1> DEFINE ls == receipt[c].lines
           D == DOMAIN ls
           X == LotsOf(receipt, c)
           at == [l \in D |-> ls[l].lot]
           v == ValueOf(ls)
           s == [l \in D |-> ls[l].share]
           h == [l \in D |-> ls[l].value + ls[l].share]
<1>1. ls \in Seq(LineRows) /\ receipt[c].fee \in Nat
  BY DEF GoodsTyped
<1>2. /\ LinesStand(receipt, lot, moved) /\ LotsApart(receipt) /\ FeesShared(receipt)
  BY StandIs DEF Stands
<1>3. \A l \in D : lot[at[l]].cost = h[l]
  BY <1>2 DEF LinesStand, LotStands
<1>4. \A l, k \in D : at[l] = at[k] => l = k
  BY <1>2 DEF LotsApart
<1>5. SumFunctionOnSet(s, D) = receipt[c].fee
  BY <1>2 DEF FeesShared, SumFunction
<1>6. X = {at[l] : l \in D}
  BY DEF LotsOf
<1> HIDE DEF ls, X
<1>7. IsFiniteSet(D) /\ \A l \in D : ls[l] \in LineRows
  BY <1>1, LinesAre
<1>8. \A l \in D : ls[l].value \in Nat /\ ls[l].share \in Nat /\ ls[l].lot \in Lots
  BY <1>7 DEF LineRows
<1>9. X \subseteq Lots /\ IsFiniteSet(X)
  BY <1>6, <1>8, DeliveriesAssumption, FS_Subset
<1>10. Value(ls) = SumFunctionOnSet(v, D)
  BY <1>7, <1>8, ValueIs
<1>11. \A l \in D : v[l] \in Int /\ s[l] \in Int /\ h[l] = v[l] + s[l] /\ h[l] \in Int
  BY <1>8 DEF ValueOf
<1> HIDE DEF v, s, h, D, at
<1>12. SumFunctionOnSet(h, D) = SumFunctionOnSet(v, D) + SumFunctionOnSet(s, D)
  BY <1>7, <1>11, SumOfSums
<1>13. \A x \in X : cost[x] = SumFunctionOnSet(h, Keyed(D, at, x))
  <2> TAKE x \in X
  <2>1. PICK l \in D : at[l] = x
    BY <1>6
  <2>2. Keyed(D, at, x) = {l}
    BY <1>4, <2>1 DEF Keyed
  <2>3. IsFiniteSet({l}) /\ l \in {l} /\ {l} \ {l} = {} /\ \A k \in {l} : h[k] \in Int
    BY <1>11, <2>1, FS_Singleton
  <2>4. SumFunctionOnSet(h, {l}) = h[l] + SumFunctionOnSet(h, {l} \ {l})
    BY <2>3, SumWithout
  <2>5. SumFunctionOnSet(h, {l} \ {l}) = 0
    BY <2>3, SumEmpty
  <2>6. SumFunctionOnSet(h, {l}) = h[l]
    BY <1>11, <2>1, <2>4, <2>5
  <2>7. QED BY <1>3, <1>9, <2>1, <2>2, <2>6
<1>14. \A l \in D : h[l] \in Int /\ at[l] \in X
  BY <1>6, <1>11
<1>15. SumFunctionOnSet(h, D) = SumFunctionOnSet(cost, X)
  BY <1>7, <1>9, <1>13, <1>14, SumByParts
<1>16. QED
  BY <1>5, <1>9, <1>10, <1>12, <1>15 DEF ls, X

LEMMA CostsFollow ==
  ASSUME GoodsTyped, Stands
  PROVE  SumOver(LAMBDA x : lot[x].cost, {x \in Lots : lot[x].from = "delivery"})
           = SumOver(LAMBDA c : Value(receipt[c].lines) + receipt[c].fee, Receipts)
<1> DEFINE from == {x \in Lots : lot[x].from = "delivery"}
           on == {x \in from : \E c \in Receipts : x \in LotsOf(receipt, c)}
           whose == [x \in on |-> CHOOSE c \in Receipts : x \in LotsOf(receipt, c)]
           cost == [x \in Lots |-> lot[x].cost]
           some == [x \in from |-> lot[x].cost]
           paid == [c \in Receipts |-> Value(receipt[c].lines) + receipt[c].fee]
<1>1. /\ SumOver(LAMBDA x : lot[x].cost, from) = SumFunctionOnSet(some, from)
      /\ SumOver(LAMBDA c : Value(receipt[c].lines) + receipt[c].fee, Receipts) = SumFunctionOnSet(paid, Receipts)
  BY DEF SumOver, SumFunction
<1>2. LinesStand(receipt, lot, moved) /\ LotsApart(receipt) /\ NoneIdle(receipt, lot)
  BY StandIs DEF Stands
<1>3. IsFiniteSet(from) /\ from \subseteq Lots /\ on \subseteq from /\ IsFiniteSet(on)
  BY DeliveriesAssumption, FS_Subset
<1>4. \A x \in Lots : cost[x] = lot[x].cost /\ cost[x] \in Int
  BY DEF GoodsTyped, LotRows
<1>5. \A x \in from : some[x] = (IF x \in on THEN cost[x] ELSE 0)
  <2> TAKE x \in from
  <2>1. some[x] = lot[x].cost /\ cost[x] = lot[x].cost
    BY <1>3
  <2>2. x \notin on => lot[x].cost = 0
    BY <1>2, <1>3 DEF NoneIdle
  <2>3. QED BY <2>1, <2>2
<1>6. \A c \in Receipts : LotsOf(receipt, c) \subseteq from
  <2> TAKE c \in Receipts
  <2>1. LotsOf(receipt, c) \subseteq Lots
    BY <1>4, LotsCostTheirLines
  <2>2. \A x \in LotsOf(receipt, c) : lot[x].from = "delivery"
    BY <1>2 DEF LinesStand, LotsOf
  <2>3. QED BY <2>1, <2>2
<1>7. \A c, d \in Receipts : \A x \in LotsOf(receipt, c) : x \in LotsOf(receipt, d) => c = d
  BY <1>2 DEF LotsApart, LotsOf
<1>8. \A x \in on : whose[x] \in Receipts /\ x \in LotsOf(receipt, whose[x])
  OBVIOUS
<1>9. \A c \in Receipts : Keyed(on, whose, c) = LotsOf(receipt, c)
  <2> TAKE c \in Receipts
  <2>1. LotsOf(receipt, c) \subseteq on
    BY <1>6
  <2> HIDE DEF whose, on, from
  <2>2. QED BY <1>7, <1>8, <2>1 DEF Keyed
<1>10. \A c \in Receipts : paid[c] = SumFunctionOnSet(cost, Keyed(on, whose, c))
  BY <1>4, <1>9, LotsCostTheirLines
<1> HIDE DEF from, on, whose, cost, some, paid
<1>11. SumFunctionOnSet(cost, on) = SumFunctionOnSet(some, from)
  <2>1. \A x \in on : cost[x] \in Int
    BY <1>3, <1>4
  <2>2. QED BY <1>3, <1>5, <2>1, SumOfSome
<1>12. SumFunctionOnSet(cost, on) = SumFunctionOnSet(paid, Receipts)
  <2>1. \A x \in on : cost[x] \in Int /\ whose[x] \in Receipts
    BY <1>3, <1>4, <1>8
  <2>2. QED BY <1>3, <1>10, <2>1, ReceiptsAreFinite, SumByParts
<1>13. QED
  BY <1>1, <1>11, <1>12 DEF from

\* Corrected any number of times, and with any fee, a delivery's bill, its lots, what
\* they hold and what they cost agree while no two requests overlap: what
\* ReceivingService and DeliveryCorrectionService read is what they go by.  Overlapping
\* or not, OpeningStockService opens goods that came in before only when they came in
\* between its look and what it writes.
THEOREM DeliveriesAddUp == Spec => []DeliveryAddsUp
<1>1. ASSUME GoodsInv, ~overlapped
      PROVE  BillFollowsTheGoods /\ LotIsItsLine /\ CostsAddUp /\ ShortOnlyByForce
  <2>1. GoodsTyped /\ Stands /\ BillsFollow /\ NoneShort
    BY <1>1 DEF GoodsInv, TypeInv, GoodsSound
  <2>2. LinesStand(receipt, lot, moved)
    BY <2>1, StandIs DEF Stands
  <2>3. BillFollowsTheGoods
    BY <2>1 DEF BillFollowsTheGoods, BillsFollow, LiveBill
  <2>4. LotIsItsLine
    BY <2>2 DEF LotIsItsLine, LinesStand, LotStands
  <2>5. CostsAddUp
    BY <2>1, CostsFollow DEF CostsAddUp
  <2>6. ShortOnlyByForce
    BY <2>1 DEF ShortOnlyByForce, NoneShort
  <2>7. QED
    BY <2>3, <2>4, <2>5, <2>6
<1>2. GoodsInv => OpeningOnce
  BY DEF GoodsInv, OpeningInv, LooksOvertaken, OpenedAgainLate, OpeningOnce
<1>3. GoodsInv => DeliveryAddsUp
  <2>1. overlapped => BillFollowsTheGoods /\ LotIsItsLine /\ CostsAddUp /\ ShortOnlyByForce
    BY DEF BillFollowsTheGoods, LotIsItsLine, CostsAddUp, ShortOnlyByForce
  <2>2. GoodsInv => overlapped \in BOOLEAN
    BY DEF GoodsInv, IInv
  <2>3. QED
    BY <1>1, <1>2, <2>1, <2>2 DEF DeliveryAddsUp
<1>4. QED
  BY <1>3, SpecGoodsInv, PTL
=============================================================================
