----------------------------- MODULE BooksProofs -----------------------------
(***************************************************************************)
(* What holds of the books of what customers owe, for any number of        *)
(* requests in any interleaving: money received settles once, an invoice   *)
(* is the sum of its lines, and nobody is let owe whom the rules do not.   *)
(* Then of the feeds these books are read by: nobody misses a row; and of  *)
(* the figures the owner reads: they agree, and what was reported stands.  *)
(***************************************************************************)
EXTENDS Receivables, SyncFeed, Reports, SumLemmas, FiniteSetTheorems, TLAPS

-----------------------------------------------------------------------------
(* Amounts. *)

LEMMA AmountsInt ==
  ASSUME NEW f, IsFiniteSet(DOMAIN f), \A x \in DOMAIN f : f[x] \in Int
  PROVE  Amounts(f) \in Int
BY SumType DEF Amounts, SumFunction

LEMMA AmountsNat ==
  ASSUME NEW f, IsFiniteSet(DOMAIN f), \A x \in DOMAIN f : f[x] \in Nat
  PROVE  Amounts(f) \in Nat /\ \A x \in DOMAIN f : f[x] <= Amounts(f)
BY SumIsMost DEF Amounts, SumFunction

LEMMA AmountsOne ==
  ASSUME NEW x, NEW n \in Int
  PROVE  Amounts(Only(x, n)) = n /\ DOMAIN (Only(x, n)) = {x} /\ Only(x, n)[x] = n
<1> DEFINE one == Only(x, n)
<1>1. DOMAIN one = {x} /\ one[x] = n
  BY DEF Only
<1>2. IsFiniteSet({x}) /\ {x} \ {x} = {}
  BY FS_Singleton
<1>3. SumFunctionOnSet(one, {x}) = one[x] + SumFunctionOnSet(one, {x} \ {x})
  BY <1>1, <1>2, SumWithout
<1>4. SumFunctionOnSet(one, {x}) = n
  BY <1>1, <1>2, <1>3, SumEmpty
<1> QED
  BY <1>1, <1>4 DEF Amounts, SumFunction

LEMMA AmountsSame ==
  ASSUME NEW f, NEW g, IsFiniteSet(DOMAIN f), DOMAIN f = DOMAIN g, \A x \in DOMAIN f : f[x] = g[x]
  PROVE  Amounts(f) = Amounts(g)
BY SumSame DEF Amounts, SumFunction

\* Among payments that are some there is a latest.
LEMMA LatestIs ==
  ASSUME NEW s, NEW ps, IsFiniteSet(ps), ps # {}, \A p \in ps : s.payment[p].at \in Int
  PROVE  Latest(s, ps) \in ps
<1> DEFINE At(p) == s.payment[p].at
           EndsIn(T) == \E p \in T : \A q \in T : At(q) <= At(p)
           Odd == {T \in SUBSET ps : T # {} /\ ~EndsIn(T)}
<1>1. Odd = {}
  <2> SUFFICES ASSUME Odd # {} PROVE FALSE
    OBVIOUS
  <2>1. Odd \subseteq FiniteSubsetsOf(ps)
    BY FS_Subset DEF FiniteSubsetsOf
  <2>2. \E T \in Odd : \A U \in Odd : ~(U \subseteq T /\ U # T)
    <3> HIDE DEF Odd
    <3> QED
      BY <2>1, SmallestSet
  <2>a. PICK T \in Odd : \A U \in Odd : ~(U \subseteq T /\ U # T)
    BY <2>2
  <2>3. PICK x \in T : TRUE
    OBVIOUS
  <2>4. CASE T \ {x} = {}
    <3>1. T = {x} /\ At(x) \in Int
      BY <2>3, <2>4
    <3> QED
      BY <3>1
  <2>5. CASE T \ {x} # {}
    <3>1. T \ {x} \notin Odd
      BY <2>a, <2>3
    <3>2. EndsIn(T \ {x})
      BY <2>5, <3>1
    <3>3. PICK m \in T \ {x} : \A q \in T \ {x} : At(q) <= At(m)
      BY <3>2
    <3>4. At(m) \in Int /\ At(x) \in Int /\ \A q \in T : At(q) \in Int
      BY <2>3, <3>3
    <3>5. CASE At(x) <= At(m)
      <4>1. \A q \in T : At(q) <= At(m)
        BY <3>3, <3>5
      <4> QED
        BY <3>3, <4>1
    <3>6. CASE At(m) < At(x)
      <4>1. \A q \in T : At(q) <= At(x)
        BY <3>3, <3>4, <3>6
      <4> QED
        BY <2>3, <4>1
    <3> HIDE DEF At
    <3> QED
      BY <3>4, <3>5, <3>6
  <2> QED
    BY <2>4, <2>5
<1>2. ps \in SUBSET ps
  OBVIOUS
<1>3. EndsIn(ps)
  BY <1>1, <1>2
<1> QED
  BY <1>3 DEF Latest

-----------------------------------------------------------------------------
(* Books as a request reads them. *)

IsPayment(m) ==
  /\ DOMAIN m = {"customer", "amount", "on", "voided", "at"}
  /\ m.customer \in Customers /\ m.amount \in Int \ {0} /\ m.voided \in BOOLEAN /\ m.at \in Int
  /\ IsFiniteSet(DOMAIN m.on) /\ \A i \in DOMAIN m.on : m.on[i] \in Int

OfBooks(s) ==
  /\ IsFiniteSet(DOMAIN s.invoice) /\ IsFiniteSet(DOMAIN s.payment)
  /\ \A i \in DOMAIN s.invoice : IsInvoice(s.invoice[i])
  /\ \A p \in DOMAIN s.payment :
       IsPayment(s.payment[p]) /\ DOMAIN s.payment[p].on \subseteq DOMAIN s.invoice

LEMMA SettlingIs ==
  ASSUME NEW s, OfBooks(s), NEW i
  PROVE  /\ IsFiniteSet(Live(s)) /\ DOMAIN Settling(s, i) = Live(s)
         /\ \A p \in Live(s) : Settling(s, i)[p] = OnOf(s.payment[p], i) /\ OnOf(s.payment[p], i) \in Int
         /\ Allocated(s, i) = SumFunctionOnSet(Settling(s, i), Live(s))
         /\ Allocated(s, i) \in Int
<1>1. IsFiniteSet(Live(s)) /\ Live(s) \subseteq DOMAIN s.payment
  BY FS_Subset DEF Live, OfBooks
<1>2. DOMAIN Settling(s, i) = Live(s) /\ \A p \in Live(s) : Settling(s, i)[p] = OnOf(s.payment[p], i)
  BY DEF Settling
<1>3. \A p \in Live(s) : OnOf(s.payment[p], i) \in Int
  BY <1>1 DEF OnOf, OfBooks, IsPayment
<1>4. Allocated(s, i) = SumFunctionOnSet(Settling(s, i), Live(s))
  BY <1>2 DEF Allocated, SumFunction
<1>5. Allocated(s, i) \in Int
  BY <1>1, <1>2, <1>3, <1>4, SumType
<1> QED
  BY <1>1, <1>2, <1>3, <1>4, <1>5

LEMMA BalanceIs ==
  ASSUME NEW s, OfBooks(s), NEW i \in DOMAIN s.invoice
  PROVE  /\ Refunded(s, i) \in Nat /\ Balance(s, i) \in Int
         /\ \A l \in DOMAIN s.invoice[i].lines : s.invoice[i].refunded[l] <= Refunded(s, i)
<1>1. IsInvoice(s.invoice[i])
  BY DEF OfBooks
<1> DEFINE back == s.invoice[i].refunded
<1>2. IsFiniteSet(DOMAIN back) /\ DOMAIN back = DOMAIN s.invoice[i].lines /\ \A l \in DOMAIN back : back[l] \in Nat
  BY <1>1 DEF IsInvoice
<1>3. Amounts(back) \in Nat /\ \A l \in DOMAIN back : back[l] <= Amounts(back)
  BY <1>2, AmountsNat
<1>4. s.invoice[i].total \in Int /\ Allocated(s, i) \in Int
  BY <1>1, SettlingIs DEF IsInvoice
<1> QED
  BY <1>2, <1>3, <1>4 DEF Refunded, Balance

LEMMA MagnitudeIs ==
  \A n \in Int : Magnitude(n) \in Nat /\ Sign(n) \in {-1, 0, 1} /\ Sign(n) * Magnitude(n) = n
BY DEF Magnitude, Sign

\* What the split put by oldest first gives each invoice is a whole amount.
LEMMA OldestAreInts ==
  ASSUME NEW s, OfBooks(s), NEW amount \in Int, NEW ids, ids \subseteq DOMAIN s.invoice
  PROVE  LET on == AllocateOldest(s, amount, ids)
         IN  DOMAIN on \subseteq ids /\ \A i \in DOMAIN on : on[i] \in Int
<1> DEFINE alike == {i \in ids : Sign(Balance(s, i)) = Sign(amount)}
           owed(i) == Magnitude(Balance(s, i))
           older(i) == {j \in alike : s.invoice[j].at < s.invoice[i].at}
           part(i) == [j \in older(i) |-> owed(j)]
           left(i) == Magnitude(amount) - Amounts(part(i))
           on == AllocateOldest(s, amount, ids)
<1>1. on = [i \in {j \in alike : left(j) > 0} |-> Sign(amount) * Smaller(owed(i), left(i))]
  BY DEF AllocateOldest
<1>2. ASSUME NEW i \in ids PROVE Sign(amount) * Smaller(owed(i), left(i)) \in Int
  <2>1. older(i) \subseteq DOMAIN s.invoice /\ IsFiniteSet(older(i))
    BY FS_Subset DEF OfBooks
  <2>2. \A j \in DOMAIN s.invoice : owed(j) \in Int
    BY BalanceIs, MagnitudeIs
  <2>3. DOMAIN part(i) = older(i) /\ \A j \in older(i) : part(i)[j] = owed(j)
    OBVIOUS
  <2>4. Amounts(part(i)) \in Int
    <3> HIDE DEF part
    <3> QED
      BY <2>1, <2>2, <2>3, AmountsInt
  <2>5. Sign(amount) \in Int /\ Magnitude(amount) \in Int /\ owed(i) \in Int
    BY <2>2, MagnitudeIs
  <2> HIDE DEF part, owed
  <2>6. Smaller(owed(i), left(i)) \in Int
    BY <2>4, <2>5 DEF Smaller
  <2>7. \A a, b \in Int : a * b \in Int
    OBVIOUS
  <2> QED
    BY <2>5, <2>6, <2>7
<1> HIDE DEF left, owed
<1> QED
  BY <1>1, <1>2

\* A split that holds: of invoices of the payment's own account, each part its
\* way and no more than is owed, and no more than the payment in all.
LEMMA PlanIs ==
  ASSUME NEW s, OfBooks(s), NEW o \in Ops, o.kind = "pay", ~Elsewhere(s, o), PlanHolds(s, o)
  PROVE  LET on == Requested(s, o)
         IN  /\ IsFiniteSet(DOMAIN on) /\ DOMAIN on \subseteq DOMAIN s.invoice
             /\ Magnitude(Amounts(on)) <= Magnitude(o.amount)
             /\ \A i \in DOMAIN on :
                  /\ on[i] \in Int /\ Sign(on[i]) = Sign(o.amount)
                  /\ Sign(on[i]) = Sign(Balance(s, i)) /\ Magnitude(on[i]) <= Magnitude(Balance(s, i))
                  /\ s.invoice[i].customer = o.customer
<1> DEFINE on == Requested(s, o)
<1>1. /\ DOMAIN on \subseteq Outstanding(s, o)
      /\ \A i \in DOMAIN on :
           /\ on[i] # 0 /\ Sign(on[i]) = Sign(o.amount)
           /\ Sign(on[i]) = Sign(Balance(s, i)) /\ Magnitude(on[i]) <= Magnitude(Balance(s, i))
      /\ Magnitude(Amounts(on)) <= Magnitude(o.amount)
  BY DEF PlanHolds
<1>2. Outstanding(s, o) \subseteq OfAccount(s, o) /\ OfAccount(s, o) \subseteq DOMAIN s.invoice
  BY DEF Outstanding, OfAccount
<1>3. \A i \in OfAccount(s, o) : s.invoice[i].customer = o.customer
  BY DEF Elsewhere
<1>4. IsFiniteSet(DOMAIN on) /\ DOMAIN on \subseteq DOMAIN s.invoice
  BY <1>1, <1>2, FS_Subset DEF OfBooks
<1>5. \A i \in DOMAIN on : on[i] \in Int
  <2>1. CASE Named(o) # {}
    BY <2>1, OpsAssumption DEF Requested, Named
  <2>2. CASE Named(o) = {}
    <3>1. on = AllocateOldest(s, o.amount, Outstanding(s, o)) /\ o.amount \in Int
      BY <2>2, OpsAssumption DEF Requested
    <3>2. Outstanding(s, o) \subseteq DOMAIN s.invoice
      BY <1>2
    <3> QED
      BY <3>1, <3>2, OldestAreInts
  <2> QED
    BY <2>1, <2>2
<1> QED
  BY <1>1, <1>2, <1>3, <1>4, <1>5

-----------------------------------------------------------------------------
(* The state keeps its type. *)

AsRead(r) ==
  /\ op[r] \in Ops /\ OfBooks(seen[r])
  /\ DOMAIN seen[r].invoice \subseteq DOMAIN invoice /\ DOMAIN seen[r].payment \subseteq DOMAIN payment
  /\ \A i \in DOMAIN seen[r].invoice : DOMAIN seen[r].invoice[i].lines = DOMAIN invoice[i].lines
  /\ "invoice" \in DOMAIN op[r] => op[r].invoice \in DOMAIN seen[r].invoice
  /\ "payment" \in DOMAIN op[r] => op[r].payment \in DOMAIN seen[r].payment

RequestsTyped ==
  /\ pc \in [Request -> {"idle", "read", "done", "refused"}] /\ overlapped \in BOOLEAN
  /\ DOMAIN op = Request /\ DOMAIN seen = Request
  /\ \A r \in Request : pc[r] \in {"idle", "read"} => r \notin DOMAIN invoice /\ r \notin DOMAIN payment
  /\ \A r \in Request : pc[r] = "read" => AsRead(r)

RowsTyped ==
  /\ OfBooks(Now) /\ DOMAIN invoice \subseteq Ids /\ DOMAIN payment \subseteq Request
  /\ DOMAIN replaces \subseteq DOMAIN payment
  /\ \A q \in DOMAIN replaces : replaces[q] \in DOMAIN payment

BooksTypes == RowsTyped /\ RequestsTyped

LEMMA NowIs ==
  Now.invoice = invoice /\ Now.payment = payment
BY DEF Now

LEMMA AlsoIs ==
  ASSUME NEW f, NEW r, NEW v
  PROVE  /\ DOMAIN Also(f, r, v) = DOMAIN f \cup {r} /\ Also(f, r, v)[r] = v
         /\ \A x \in DOMAIN f : x # r => Also(f, r, v)[x] = f[x]
BY DEF Also

\* A request that ends leaves the others as they were, if it makes no id but its own.
LEMMA EndKeeps ==
  ASSUME BooksTypes, NEW r \in Request, NEW outcome \in {"done", "refused"}, End(r, outcome),
         DOMAIN invoice \subseteq DOMAIN invoice', DOMAIN invoice' \subseteq DOMAIN invoice \cup {r},
         DOMAIN payment \subseteq DOMAIN payment', DOMAIN payment' \subseteq DOMAIN payment \cup {r},
         \A i \in DOMAIN invoice : DOMAIN invoice'[i].lines = DOMAIN invoice[i].lines
  PROVE  RequestsTyped'
<1>1. /\ pc' = [pc EXCEPT ![r] = outcome] /\ seen' = [seen EXCEPT ![r] = Nothing]
      /\ op' = op /\ overlapped' = overlapped
  BY DEF End
<1>2. pc' \in [Request -> {"idle", "read", "done", "refused"}] /\ pc'[r] = outcome
  BY <1>1 DEF BooksTypes, RequestsTyped
<1>3. \A q \in Request : pc'[q] \in {"idle", "read"} => q # r /\ pc'[q] = pc[q] /\ seen'[q] = seen[q]
  BY <1>1, <1>2 DEF BooksTypes, RequestsTyped
<1>4. DOMAIN op' = Request /\ DOMAIN seen' = Request /\ overlapped' \in BOOLEAN
  BY <1>1 DEF BooksTypes, RequestsTyped
<1>5. ASSUME NEW q \in Request, pc'[q] \in {"idle", "read"}
      PROVE  q \notin DOMAIN invoice' /\ q \notin DOMAIN payment'
  BY <1>3, <1>5 DEF BooksTypes, RequestsTyped
<1>6. ASSUME NEW q \in Request, pc'[q] = "read" PROVE AsRead(q)'
  <2>1. AsRead(q) /\ seen'[q] = seen[q]
    BY <1>3, <1>6 DEF BooksTypes, RequestsTyped
  <2>2. OfBooks(seen'[q])
    BY <2>1 DEF AsRead
  <2> QED
    BY <1>1, <2>1, <2>2 DEF AsRead
<1> QED
  BY <1>2, <1>4, <1>5, <1>6 DEF RequestsTyped

LEMMA ReadTypes ==
  ASSUME BooksTypes, NEW r \in Request, Read(r)
  PROVE  BooksTypes'
<1>1. PICK o \in Ops :
        /\ "invoice" \in DOMAIN o => o.invoice \in DOMAIN invoice
        /\ "payment" \in DOMAIN o => o.payment \in DOMAIN payment
        /\ op' = [op EXCEPT ![r] = o]
  BY DEF Read
<1>2. /\ pc[r] = "idle" /\ seen' = [seen EXCEPT ![r] = Now] /\ pc' = [pc EXCEPT ![r] = "read"]
      /\ overlapped' = (overlapped \/ \E q \in Request : pc[q] = "read")
      /\ invoice' = invoice /\ payment' = payment /\ replaces' = replaces
  BY DEF Read, db
<1>3. /\ pc' \in [Request -> {"idle", "read", "done", "refused"}] /\ overlapped' \in BOOLEAN
      /\ DOMAIN op' = Request /\ DOMAIN seen' = Request
  BY <1>1, <1>2 DEF BooksTypes, RequestsTyped
<1>4. op'[r] = o /\ seen'[r] = Now /\ pc'[r] = "read"
      /\ \A q \in Request \ {r} : op'[q] = op[q] /\ seen'[q] = seen[q] /\ pc'[q] = pc[q]
  BY <1>1, <1>2 DEF BooksTypes, RequestsTyped
<1>5. RowsTyped'
  <2>1. Now' = Now
    BY <1>2 DEF Now
  <2>2. OfBooks(Now')
    BY <2>1 DEF BooksTypes, RowsTyped
  <2> QED
    BY <1>2, <2>2 DEF BooksTypes, RowsTyped
<1>6. ASSUME NEW q \in Request, pc'[q] \in {"idle", "read"}
      PROVE  q \notin DOMAIN invoice' /\ q \notin DOMAIN payment'
  BY <1>2, <1>4, <1>6 DEF BooksTypes, RequestsTyped
<1>7. ASSUME NEW q \in Request, pc'[q] = "read" PROVE AsRead(q)'
  <2>1. CASE q = r
    <3>1. OfBooks(seen'[r]) /\ seen'[r].invoice = invoice /\ seen'[r].payment = payment
      BY <1>4, NowIs DEF BooksTypes, RowsTyped
    <3> QED
      BY <1>1, <1>2, <1>4, <2>1, <3>1 DEF AsRead
  <2>2. CASE q # r
    <3>1. AsRead(q) /\ OfBooks(seen'[q])
      BY <1>4, <1>7, <2>2 DEF BooksTypes, RequestsTyped, AsRead
    <3> QED
      BY <1>2, <1>4, <2>2, <3>1 DEF AsRead
  <2> QED
    BY <2>1, <2>2
<1> QED
  BY <1>3, <1>5, <1>6, <1>7 DEF BooksTypes, RequestsTyped

-----------------------------------------------------------------------------
(* What a correction plans. *)

LEMMA OwnIs ==
  ASSUME NEW s, OfBooks(s), NEW i
  PROVE  /\ IsFiniteSet(Own(s, i)) /\ Own(s, i) \subseteq Live(s)
         /\ \A p \in Own(s, i) : /\ p \in DOMAIN s.payment /\ IsPayment(s.payment[p])
                                 /\ DOMAIN s.payment[p].on = {i} /\ s.payment[p].amount > 0
<1>1. Own(s, i) \subseteq Live(s) /\ Live(s) \subseteq DOMAIN s.payment
  BY DEF Own, Live
<1>2. IsFiniteSet(Own(s, i))
  BY <1>1, FS_Subset DEF OfBooks
<1>3. ASSUME NEW p \in Own(s, i) PROVE DOMAIN s.payment[p].on = {i} /\ s.payment[p].amount > 0
  BY DEF Own, OnSale, SettlesOther
<1> QED
  BY <1>1, <1>2, <1>3 DEF OfBooks

LEMMA LinesAre ==
  ASSUME NEW s, OfBooks(s), NEW o \in Ops, o.kind = "correct", o.invoice \in DOMAIN s.invoice
  PROVE  LET lines == s.invoice[o.invoice].lines
         IN  /\ IsFiniteSet(DOMAIN lines) /\ DOMAIN LinesAfter(s, o) = DOMAIN lines
             /\ \A l \in DOMAIN lines : lines[l] \in Nat /\ LinesAfter(s, o)[l] \in Nat
             /\ Amounts(lines) \in Nat /\ Amounts(LinesAfter(s, o)) \in Nat
<1> DEFINE lines == s.invoice[o.invoice].lines
           after == LinesAfter(s, o)
<1>1. IsFiniteSet(DOMAIN lines) /\ \A l \in DOMAIN lines : lines[l] \in Nat
  BY DEF OfBooks, IsInvoice
<1>2. DOMAIN after = DOMAIN lines
  BY DEF LinesAfter
<1>3. ASSUME NEW l \in DOMAIN lines PROVE after[l] \in Nat
  BY <1>1, OpsAssumption DEF LinesAfter
<1> HIDE DEF after, lines
<1>4. Amounts(lines) \in Nat /\ Amounts(after) \in Nat
  BY <1>1, <1>2, <1>3, AmountsNat
<1> QED
  BY <1>1, <1>2, <1>3, <1>4 DEF after, lines

LEMMA PlannedAre ==
  ASSUME NEW s, OfBooks(s), NEW o \in Ops, o.kind = "correct", o.invoice \in DOMAIN s.invoice
  PROVE  /\ TotalAfter(s, o) \in Int /\ Excess(s, o) \in Int /\ Shortfall(s, o) \in Int
         /\ CustomerAfter(s, o) \in Customers
<1>1. s.invoice[o.invoice].total \in Int /\ s.invoice[o.invoice].customer \in Customers
  BY DEF OfBooks, IsInvoice
<1>2. Amounts(LinesAfter(s, o)) \in Int /\ Amounts(s.invoice[o.invoice].lines) \in Int
  BY LinesAre
<1>3. TotalAfter(s, o) \in Int
  BY <1>1, <1>2 DEF TotalAfter
<1>4. Allocated(s, o.invoice) \in Int /\ Refunded(s, o.invoice) \in Int
  BY SettlingIs, BalanceIs
<1>5. Excess(s, o) \in Int /\ Shortfall(s, o) \in Int
  BY <1>3, <1>4 DEF Excess, Shortfall, Smaller
<1>6. CustomerAfter(s, o) \in Customers
  BY <1>1, OpsAssumption DEF CustomerAfter
<1> QED
  BY <1>3, <1>5, <1>6

LEMMA OnlyIs ==
  ASSUME NEW x, NEW v
  PROVE  DOMAIN Only(x, v) = {x} /\ Only(x, v)[x] = v
BY DEF Only

\* A correction follows one payment that is all this sale's, or none.
LEMMA FollowsIs ==
  ASSUME NEW s, OfBooks(s), NEW o \in Ops, o.kind = "correct", o.invoice \in DOMAIN s.invoice,
         ~Refuses(s, o)
  PROVE  \/ /\ ~Raised(s, o) /\ Excess(s, o) <= 0 /\ DOMAIN Follows(s, o) = {}
         \/ \E p \in Own(s, o.invoice) :
              /\ Raised(s, o) /\ DOMAIN Follows(s, o) = {p}
              /\ Follows(s, o)[p] = s.payment[p].amount + Shortfall(s, o)
         \/ \E p \in Own(s, o.invoice) :
              /\ ~Raised(s, o) /\ Excess(s, o) > 0 /\ s.payment[p].on[o.invoice] >= Excess(s, o)
              /\ DOMAIN Follows(s, o) = {p}
              /\ Follows(s, o)[p] = s.payment[p].amount - Excess(s, o)
<1> DEFINE own == Own(s, o.invoice)
           enough == Enough(s, o)
<1>1. Excess(s, o) \in Int
  BY PlannedAre
<1>2. IsFiniteSet(own) /\ \A p \in own : s.payment[p].at \in Int
  BY OwnIs DEF IsPayment
<1>3. CASE Raised(s, o)
  <2>1. own # {}
    BY <1>3 DEF Raised
  <2>2. Latest(s, own) \in own
    BY <1>2, <2>1, LatestIs
  <2>3. PICK p \in own : p = Latest(s, own)
    BY <2>2
  <2>4. Follows(s, o) = Only(p, s.payment[p].amount + Shortfall(s, o))
    BY <1>3, <2>3 DEF Follows
  <2>5. DOMAIN Follows(s, o) = {p} /\ Follows(s, o)[p] = s.payment[p].amount + Shortfall(s, o)
    BY <2>4, OnlyIs
  <2> QED
    BY <1>3, <2>5
<1>4. CASE ~Raised(s, o) /\ Excess(s, o) > 0
  <2>1. enough # {}
    BY <1>4 DEF Refuses
  <2>2. enough \subseteq own /\ \A p \in enough : s.payment[p].on[o.invoice] >= Excess(s, o)
    BY DEF Enough
  <2>3. IsFiniteSet(enough)
    BY <1>2, <2>2, FS_Subset
  <2>4. Latest(s, enough) \in enough
    <3> HIDE DEF enough
    <3> QED
      BY <1>2, <2>1, <2>2, <2>3, LatestIs
  <2>5. PICK p \in enough : p = Latest(s, enough)
    BY <2>4
  <2>6. Follows(s, o) = Only(p, s.payment[p].amount - Excess(s, o))
    BY <1>4, <2>5 DEF Follows
  <2>7. DOMAIN Follows(s, o) = {p} /\ Follows(s, o)[p] = s.payment[p].amount - Excess(s, o)
    BY <2>6, OnlyIs
  <2>8. p \in own /\ s.payment[p].on[o.invoice] >= Excess(s, o)
    BY <2>2, <2>5
  <2> QED
    BY <1>4, <2>7, <2>8
<1>5. CASE ~Raised(s, o) /\ ~(Excess(s, o) > 0)
  <2>1. DOMAIN Follows(s, o) = {}
    BY <1>5 DEF Follows, Nothing
  <2> QED
    BY <1>1, <1>5, <2>1
<1> QED
  BY <1>3, <1>4, <1>5

-----------------------------------------------------------------------------
(* What each request writes. *)

LEMMA Reading ==
  ASSUME BooksTypes, NEW r \in Request, pc[r] = "read"
  PROVE  /\ AsRead(r) /\ op[r] \in Ops /\ OfBooks(seen[r])
         /\ r \notin DOMAIN invoice /\ r \notin DOMAIN payment
BY DEF BooksTypes, RequestsTyped, AsRead

LEMMA SizesAreInts ==
  ASSUME BooksTypes
  PROVE  Cardinality(DOMAIN payment) \in Int /\ Cardinality(DOMAIN invoice) \in Int
<1>1. IsFiniteSet(DOMAIN payment) /\ IsFiniteSet(DOMAIN invoice)
  BY NowIs DEF BooksTypes, RowsTyped, OfBooks
<1> QED
  BY <1>1, FS_CardinalityType

LEMMA RowsAre ==
  ASSUME BooksTypes
  PROVE  /\ \A i \in DOMAIN invoice : IsInvoice(invoice[i])
         /\ \A p \in DOMAIN payment :
              IsPayment(payment[p]) /\ DOMAIN payment[p].on \subseteq DOMAIN invoice
BY NowIs DEF BooksTypes, RowsTyped, OfBooks

LEMMA PayIs ==
  ASSUME BooksTypes, NEW r \in Request, Pay(r), ~Refuse(r)
  PROVE  /\ pc[r] = "read" /\ op[r].kind = "pay" /\ End(r, "done")
         /\ ~Elsewhere(seen[r], op[r]) /\ PlanHolds(seen[r], op[r])
         /\ invoice' = invoice /\ replaces' = replaces
         /\ \E m : /\ payment' = Also(payment, r, m) /\ IsPayment(m) /\ ~m.voided
                   /\ m.customer = op[r].customer /\ m.amount = op[r].amount
                   /\ m.on = Requested(seen[r], op[r]) /\ DOMAIN m.on \subseteq DOMAIN invoice
<1> DEFINE s == seen[r]
           o == op[r]
           m == Pays(o.customer, o.amount, Requested(s, o), Cardinality(DOMAIN payment))
<1>1. pc[r] = "read" /\ o.kind = "pay"
  BY DEF Pay, Asks
<1>2. /\ ~Elsewhere(s, o) /\ PlanHolds(s, o) /\ payment' = Also(payment, r, m)
      /\ End(r, "done") /\ invoice' = invoice /\ replaces' = replaces
  BY DEF Pay
<1>3. OfBooks(s) /\ o \in Ops /\ DOMAIN s.invoice \subseteq DOMAIN invoice
  BY <1>1, Reading DEF AsRead
<1>4. /\ IsFiniteSet(DOMAIN Requested(s, o)) /\ DOMAIN Requested(s, o) \subseteq DOMAIN s.invoice
      /\ \A i \in DOMAIN Requested(s, o) : Requested(s, o)[i] \in Int
  BY <1>1, <1>2, <1>3, PlanIs
<1>5. o.customer \in Customers /\ o.amount \in Int \ {0}
  BY <1>1, <1>3, OpsAssumption
<1>6. /\ m.customer = o.customer /\ m.amount = o.amount /\ m.on = Requested(s, o) /\ m.voided = FALSE
      /\ m.at = Cardinality(DOMAIN payment) /\ DOMAIN m = {"customer", "amount", "on", "voided", "at"}
  BY DEF Pays
<1>7. IsPayment(m) /\ ~m.voided /\ DOMAIN m.on \subseteq DOMAIN invoice
  BY <1>3, <1>4, <1>5, <1>6, SizesAreInts DEF IsPayment
<1> HIDE DEF m
<1> QED
  BY <1>1, <1>2, <1>6, <1>7

LEMMA VoidIs ==
  ASSUME BooksTypes, NEW r \in Request, Void(r), ~Refuse(r)
  PROVE  /\ pc[r] = "read" /\ op[r].kind = "void" /\ End(r, "done")
         /\ invoice' = invoice /\ replaces' = replaces /\ DOMAIN payment' = DOMAIN payment
         /\ \A p \in DOMAIN payment :
              /\ IsPayment(payment'[p]) /\ payment'[p].on = payment[p].on
              /\ payment'[p].customer = payment[p].customer /\ payment'[p].amount = payment[p].amount
              /\ payment'[p].voided = (payment[p].voided \/ p = op[r].payment)
<1> DEFINE v == op[r].payment
<1>1. pc[r] = "read" /\ op[r].kind = "void"
  BY DEF Void, Asks
<1>2. /\ payment' = [payment EXCEPT ![v].voided = TRUE]
      /\ End(r, "done") /\ invoice' = invoice /\ replaces' = replaces
  BY DEF Void
<1>3. DOMAIN payment' = DOMAIN payment
  BY <1>2
<1>4. ASSUME NEW p \in DOMAIN payment
      PROVE  /\ IsPayment(payment'[p]) /\ payment'[p].on = payment[p].on
             /\ payment'[p].customer = payment[p].customer /\ payment'[p].amount = payment[p].amount
             /\ payment'[p].voided = (payment[p].voided \/ p = v)
  <2>1. IsPayment(payment[p])
    BY RowsAre
  <2>2. CASE p = v
    <3>1. PICK d : d = [payment[p] EXCEPT !.voided = TRUE]
      OBVIOUS
    <3>2. payment'[p] = d
      BY <1>2, <2>2, <3>1
    <3>3. /\ DOMAIN d = DOMAIN payment[p] /\ d.voided = TRUE /\ d.on = payment[p].on /\ d.at = payment[p].at
          /\ d.customer = payment[p].customer /\ d.amount = payment[p].amount
      BY <2>1, <3>1 DEF IsPayment
    <3> QED
      BY <2>1, <2>2, <3>2, <3>3 DEF IsPayment
  <2>3. CASE p # v
    <3>1. payment'[p] = payment[p]
      BY <1>2, <2>3
    <3>2. payment[p].voided \in BOOLEAN
      BY <2>1 DEF IsPayment
    <3> QED
      BY <2>1, <2>3, <3>1, <3>2
  <2> QED
    BY <2>2, <2>3
<1> QED
  BY <1>1, <1>2, <1>3, <1>4

LEMMA SellIs ==
  ASSUME BooksTypes, NEW r \in Request, Sell(r), ~Refuse(r)
  PROVE  /\ pc[r] = "read" /\ op[r].kind = "sell" /\ End(r, "done") /\ replaces' = replaces
         /\ op[r].paid < Amounts(op[r].lines) => op[r].customer # WalkIn /\ MayTakeCredit(seen[r], op[r])
         /\ \E v : /\ invoice' = Also(invoice, r, v) /\ IsInvoice(v) /\ v.customer = op[r].customer
                   /\ v.total = Amounts(v.lines) /\ \A l \in DOMAIN v.lines : v.refunded[l] = 0
         /\ \/ payment' = payment
            \/ \E m : /\ payment' = Also(payment, r, m) /\ IsPayment(m) /\ ~m.voided
                      /\ m.customer = op[r].customer /\ m.amount > 0 /\ m.on = Only(r, m.amount)
<1> DEFINE o == op[r]
           v == [customer |-> o.customer, lines |-> o.lines, total |-> Amounts(o.lines),
                 refunded |-> [l \in DOMAIN o.lines |-> 0], at |-> Cardinality(DOMAIN invoice)]
           m == Pays(o.customer, o.paid, Only(r, o.paid), Cardinality(DOMAIN payment))
<1>1. pc[r] = "read" /\ o.kind = "sell"
  BY DEF Sell, Asks
<1>2. /\ o.paid < Amounts(o.lines) => o.customer # WalkIn /\ MayTakeCredit(seen[r], o)
      /\ invoice' = Also(invoice, r, v) /\ payment' = IF o.paid = 0 THEN payment ELSE Also(payment, r, m)
      /\ End(r, "done") /\ replaces' = replaces
  BY DEF Sell
<1>3. /\ o.customer \in Customers /\ o.paid \in Nat
      /\ IsFiniteSet(DOMAIN o.lines) /\ \A l \in DOMAIN o.lines : o.lines[l] \in Nat
  BY <1>1, Reading, OpsAssumption
<1>4. /\ v.customer = o.customer /\ v.lines = o.lines /\ v.total = Amounts(o.lines)
      /\ v.at = Cardinality(DOMAIN invoice) /\ v.refunded = [l \in DOMAIN o.lines |-> 0]
      /\ DOMAIN v = {"customer", "lines", "total", "refunded", "at"}
  OBVIOUS
<1>5. Amounts(o.lines) \in Nat
  BY <1>3, AmountsNat
<1>6. DOMAIN v.refunded = DOMAIN o.lines /\ \A l \in DOMAIN o.lines : v.refunded[l] = 0
  BY <1>4
<1> HIDE DEF v
<1>7. IsInvoice(v) /\ v.total = Amounts(v.lines) /\ \A l \in DOMAIN v.lines : v.refunded[l] = 0
  BY <1>3, <1>4, <1>5, <1>6, SizesAreInts DEF IsInvoice
<1>8. CASE o.paid = 0
  BY <1>1, <1>2, <1>4, <1>7, <1>8
<1>9. CASE o.paid # 0
  <2>1. /\ m.customer = o.customer /\ m.amount = o.paid /\ m.on = Only(r, o.paid) /\ m.voided = FALSE
        /\ m.at = Cardinality(DOMAIN payment) /\ DOMAIN m = {"customer", "amount", "on", "voided", "at"}
    BY DEF Pays
  <2>2. o.paid \in Int \ {0} /\ o.paid > 0
    BY <1>3, <1>9
  <2>3. DOMAIN Only(r, o.paid) = {r} /\ Only(r, o.paid)[r] = o.paid /\ IsFiniteSet({r})
    BY OnlyIs, FS_Singleton
  <2>4. IsPayment(m) /\ m.amount > 0 /\ m.on = Only(r, m.amount) /\ ~m.voided /\ m.customer = o.customer
    BY <1>3, <2>1, <2>2, <2>3, SizesAreInts DEF IsPayment
  <2>5. payment' = Also(payment, r, m)
    BY <1>2, <1>9
  <2> HIDE DEF m
  <2> QED
    BY <1>1, <1>2, <1>4, <1>7, <2>4, <2>5
<1> QED
  BY <1>8, <1>9

LEMMA ReturnIs ==
  ASSUME BooksTypes, NEW r \in Request, Return(r), ~Refuse(r)
  PROVE  LET back == op[r].invoice
             l == op[r].line
             was == seen[r].invoice[back]
         IN  /\ pc[r] = "read" /\ op[r].kind = "return" /\ End(r, "done")
             /\ payment' = payment /\ replaces' = replaces /\ DOMAIN invoice' = DOMAIN invoice
             /\ back \in DOMAIN invoice /\ back \in DOMAIN seen[r].invoice
             /\ l \in DOMAIN was.lines => was.refunded[l] = 0
             /\ \A i \in DOMAIN invoice :
                  /\ IsInvoice(invoice'[i]) /\ invoice'[i].customer = invoice[i].customer
                  /\ invoice'[i].total = invoice[i].total /\ invoice'[i].lines = invoice[i].lines
                  /\ \A k \in DOMAIN invoice[i].lines :
                       invoice'[i].refunded[k] =
                         IF i = back /\ k = l THEN invoice[i].refunded[k] + was.lines[l]
                         ELSE invoice[i].refunded[k]
<1> DEFINE back == op[r].invoice
           l == op[r].line
           was == seen[r].invoice[back]
<1>1. pc[r] = "read" /\ op[r].kind = "return"
  BY DEF Return, Asks
<1>2. /\ ~(was.refunded[l] > 0) /\ invoice' = [invoice EXCEPT ![back].refunded[l] = @ + was.lines[l]]
      /\ End(r, "done") /\ payment' = payment /\ replaces' = replaces
  BY DEF Return
<1>3. /\ back \in DOMAIN seen[r].invoice /\ back \in DOMAIN invoice /\ OfBooks(seen[r])
      /\ DOMAIN was.lines = DOMAIN invoice[back].lines
  BY <1>1, Reading, OpsAssumption DEF AsRead
<1>4. IsInvoice(was)
  BY <1>3 DEF OfBooks
<1> HIDE DEF was, l
<1>a. l \in DOMAIN was.lines => was.refunded[l] \in Nat
  BY <1>4 DEF IsInvoice
<1>5. l \in DOMAIN was.lines => was.refunded[l] = 0
  BY <1>2, <1>a
<1>6. DOMAIN invoice' = DOMAIN invoice
  BY <1>2
<1>7. ASSUME NEW i \in DOMAIN invoice
      PROVE  /\ IsInvoice(invoice'[i]) /\ invoice'[i].customer = invoice[i].customer
             /\ invoice'[i].total = invoice[i].total /\ invoice'[i].lines = invoice[i].lines
             /\ \A k \in DOMAIN invoice[i].lines :
                  invoice'[i].refunded[k] =
                    IF i = back /\ k = l THEN invoice[i].refunded[k] + was.lines[l]
                    ELSE invoice[i].refunded[k]
  <2>1. IsInvoice(invoice[i])
    BY RowsAre
  <2>2. CASE i = back
    <3>1. PICK f : f = [invoice[i].refunded EXCEPT ![l] = @ + was.lines[l]]
      OBVIOUS
    <3>2. PICK d : d = [invoice[i] EXCEPT !.refunded = f]
      OBVIOUS
    <3>3. invoice'[i] = d
      BY <1>2, <2>2, <3>1, <3>2
    <3>4. /\ DOMAIN d = DOMAIN invoice[i] /\ d.refunded = f /\ d.customer = invoice[i].customer
          /\ d.total = invoice[i].total /\ d.lines = invoice[i].lines /\ d.at = invoice[i].at
      BY <2>1, <3>2 DEF IsInvoice
    <3>5. /\ DOMAIN f = DOMAIN invoice[i].lines
          /\ \A k \in DOMAIN f : f[k] = IF k = l THEN invoice[i].refunded[k] + was.lines[l]
                                        ELSE invoice[i].refunded[k]
      BY <2>1, <3>1 DEF IsInvoice
    <3>6. ASSUME NEW k \in DOMAIN f PROVE f[k] \in Nat
      <4>1. invoice[i].refunded[k] \in Nat
        BY <2>1, <3>5 DEF IsInvoice
      <4>2. k = l => was.lines[l] \in Nat
        BY <1>3, <1>4, <2>2, <3>5 DEF IsInvoice
      <4> QED
        BY <3>5, <4>1, <4>2
    <3>7. IsInvoice(d)
      BY <2>1, <3>4, <3>5, <3>6 DEF IsInvoice
    <3> QED
      BY <2>2, <3>3, <3>4, <3>5, <3>7
  <2>3. CASE i # back
    <3>1. invoice'[i] = invoice[i]
      BY <1>2, <2>3
    <3> QED
      BY <2>1, <2>3, <3>1
  <2> QED
    BY <2>2, <2>3
<1> QED
  BY <1>1, <1>2, <1>3, <1>5, <1>6, <1>7 DEF was, l

\* The payments of a correction: those there were, with the followed one voided and
\* those moved along moved, and one of the request's own if an amount is left.
LEMMA PaymentsAfterAre ==
  ASSUME BooksTypes, NEW r \in Request, pc[r] = "read", op[r].kind = "correct",
         ~Refuses(seen[r], op[r]), payment' = PaymentsAfter(r)
  PROVE  LET s == seen[r]
             o == op[r]
             follows == Follows(s, o)
             after == payment'
         IN  /\ \A p \in DOMAIN payment :
                  /\ IsPayment(after[p]) /\ after[p].on = payment[p].on
                  /\ after[p].amount = payment[p].amount
                  /\ after[p].voided = (payment[p].voided \/ p \in DOMAIN follows)
                  /\ after[p].customer = IF p \in MoveAlong(s, o) THEN CustomerAfter(s, o)
                                         ELSE payment[p].customer
             /\ \/ DOMAIN after = DOMAIN payment /\ \A p \in DOMAIN follows : ~(follows[p] > 0)
                \/ /\ DOMAIN after = DOMAIN payment \cup {r}
                   /\ \E p \in DOMAIN payment :
                        /\ DOMAIN follows = {p} /\ follows[p] > 0 /\ follows[p] \in Int
                        /\ IsPayment(after[r]) /\ ~after[r].voided
                        /\ after[r].customer = CustomerAfter(s, o)
                        /\ after[r].amount = follows[p] /\ after[r].on = Only(o.invoice, follows[p])
<1> DEFINE s == seen[r]
           o == op[r]
           follows == Follows(s, o)
           after == payment'
           left == [p \in DOMAIN payment |->
                     [payment[p] EXCEPT !.voided = @ \/ p \in DOMAIN follows,
                                        !.customer = IF p \in MoveAlong(s, o) THEN CustomerAfter(s, o) ELSE @]]
           recorded == {p \in DOMAIN follows : follows[p] > 0}
           mine == LET p == CHOOSE p \in recorded : TRUE
                   IN  Pays(CustomerAfter(s, o), follows[p], Only(o.invoice, follows[p]), payment[p].at)
<1>1. /\ OfBooks(s) /\ o \in Ops /\ o.kind = "correct" /\ o.invoice \in DOMAIN s.invoice
      /\ r \notin DOMAIN payment /\ DOMAIN s.payment \subseteq DOMAIN payment
  BY Reading, OpsAssumption DEF AsRead
<1>2. after = IF recorded = {} THEN left ELSE Also(left, r, mine)
  BY DEF PaymentsAfter
<1>3. CustomerAfter(s, o) \in Customers /\ Shortfall(s, o) \in Int /\ Excess(s, o) \in Int
  BY <1>1, PlannedAre
<1>4. \/ DOMAIN follows = {}
      \/ \E p \in DOMAIN payment : DOMAIN follows = {p} /\ follows[p] \in Int
  <2>1. \A p \in Own(s, o.invoice) : p \in DOMAIN payment /\ s.payment[p].amount \in Int
    BY <1>1, OwnIs DEF IsPayment
  <2>2. \/ DOMAIN follows = {}
        \/ \E p \in Own(s, o.invoice) :
             DOMAIN follows = {p} /\ follows[p] = s.payment[p].amount + Shortfall(s, o)
        \/ \E p \in Own(s, o.invoice) :
             DOMAIN follows = {p} /\ follows[p] = s.payment[p].amount - Excess(s, o)
    BY <1>1, FollowsIs
  <2> HIDE DEF follows
  <2>3. \A a, b \in Int : a + b \in Int /\ a - b \in Int
    OBVIOUS
  <2>4. ASSUME NEW p \in Own(s, o.invoice), follows[p] = s.payment[p].amount + Shortfall(s, o)
        PROVE  p \in DOMAIN payment /\ follows[p] \in Int
    BY <1>3, <2>1, <2>3, <2>4
  <2>5. ASSUME NEW p \in Own(s, o.invoice), follows[p] = s.payment[p].amount - Excess(s, o)
        PROVE  p \in DOMAIN payment /\ follows[p] \in Int
    BY <1>3, <2>1, <2>3, <2>5
  <2> QED
    BY <2>2, <2>4, <2>5
<1>5. DOMAIN left = DOMAIN payment
  OBVIOUS
<1>6. ASSUME NEW p \in DOMAIN payment
      PROVE  /\ IsPayment(left[p]) /\ left[p].on = payment[p].on /\ left[p].amount = payment[p].amount
             /\ left[p].voided = (payment[p].voided \/ p \in DOMAIN follows)
             /\ left[p].customer = IF p \in MoveAlong(s, o) THEN CustomerAfter(s, o) ELSE payment[p].customer
  <2>1. IsPayment(payment[p])
    BY RowsAre
  <2>2. PICK b : b = (payment[p].voided \/ p \in DOMAIN follows)
    OBVIOUS
  <2>3. PICK c : c = IF p \in MoveAlong(s, o) THEN CustomerAfter(s, o) ELSE payment[p].customer
    OBVIOUS
  <2>4. PICK d : d = [payment[p] EXCEPT !.voided = b, !.customer = c]
    OBVIOUS
  <2>5. left[p] = d
    BY <2>2, <2>3, <2>4
  <2>6. /\ DOMAIN d = DOMAIN payment[p] /\ d.voided = b /\ d.customer = c
        /\ d.on = payment[p].on /\ d.at = payment[p].at /\ d.amount = payment[p].amount
    BY <2>1, <2>4 DEF IsPayment
  <2>7. b \in BOOLEAN
    BY <2>2
  <2>8. c \in Customers
    BY <1>3, <2>1, <2>3 DEF IsPayment
  <2>9. IsPayment(d)
    BY <2>1, <2>6, <2>7, <2>8 DEF IsPayment
  <2> QED
    BY <2>2, <2>3, <2>5, <2>6, <2>9
<1> HIDE DEF left, follows, after, mine
<1>7. CASE recorded = {}
  <2>1. after = left /\ \A p \in DOMAIN follows : ~(follows[p] > 0)
    BY <1>2, <1>7
  <2> QED
    BY <1>5, <1>6, <2>1 DEF follows, after
<1>8. CASE recorded # {}
  <2>1. PICK p \in DOMAIN payment : DOMAIN follows = {p} /\ follows[p] \in Int
    BY <1>4, <1>8
  <2>2. recorded = {p} /\ follows[p] > 0
    BY <1>8, <2>1
  <2>3. mine = Pays(CustomerAfter(s, o), follows[p], Only(o.invoice, follows[p]), payment[p].at)
    BY <2>2 DEF mine
  <2>4. /\ mine.customer = CustomerAfter(s, o) /\ mine.amount = follows[p] /\ mine.voided = FALSE
        /\ mine.on = Only(o.invoice, follows[p]) /\ mine.at = payment[p].at
        /\ DOMAIN mine = {"customer", "amount", "on", "voided", "at"}
    BY <2>3 DEF Pays
  <2>5. /\ DOMAIN Only(o.invoice, follows[p]) = {o.invoice} /\ IsFiniteSet({o.invoice})
        /\ Only(o.invoice, follows[p])[o.invoice] = follows[p]
    BY OnlyIs, FS_Singleton
  <2>6. payment[p].at \in Int /\ follows[p] \in Int \ {0}
    BY <2>1, <2>2, RowsAre DEF IsPayment
  <2>7. IsPayment(mine)
    BY <1>3, <2>4, <2>5, <2>6 DEF IsPayment
  <2>8. after = Also(left, r, mine)
    BY <1>2, <1>8
  <2>9. /\ DOMAIN after = DOMAIN payment \cup {r} /\ after[r] = mine
        /\ \A q \in DOMAIN payment : after[q] = left[q]
    <3>1. /\ DOMAIN Also(left, r, mine) = DOMAIN left \cup {r} /\ Also(left, r, mine)[r] = mine
          /\ \A q \in DOMAIN left : q # r => Also(left, r, mine)[q] = left[q]
      BY DEF Also
    <3>2. r \notin DOMAIN payment
      BY <1>1
    <3> QED
      BY <1>5, <2>8, <3>1, <3>2
  <2> QED
    BY <1>6, <2>1, <2>2, <2>4, <2>7, <2>9 DEF follows, after
<1> QED
  BY <1>7, <1>8

LEMMA CorrectIs ==
  ASSUME BooksTypes, NEW r \in Request, Correct(r), ~Refuse(r)
  PROVE  LET s == seen[r]
             o == op[r]
             c == o.invoice
         IN  /\ pc[r] = "read" /\ o.kind = "correct" /\ End(r, "done")
             /\ ~Refuses(s, o) /\ ~FollowedGone(r)
             /\ c \in DOMAIN invoice /\ c \in DOMAIN s.invoice /\ DOMAIN invoice' = DOMAIN invoice
             /\ \A i \in DOMAIN invoice :
                  /\ IsInvoice(invoice'[i]) /\ invoice'[i].refunded = invoice[i].refunded
                  /\ DOMAIN invoice'[i].lines = DOMAIN invoice[i].lines
                  /\ i # c => invoice'[i] = invoice[i]
             /\ invoice'[c].customer = CustomerAfter(s, o) /\ invoice'[c].total = TotalAfter(s, o)
             /\ \A l \in DOMAIN invoice[c].lines :
                  invoice'[c].lines[l] = IF l \in Repriced(s, o) THEN o.prices[l] ELSE invoice[c].lines[l]
             /\ payment' = PaymentsAfter(r)
             /\ replaces' = IF r \notin DOMAIN payment' THEN replaces
                            ELSE Also(replaces, r, CHOOSE p \in DOMAIN Follows(s, o) : TRUE)
<1> DEFINE s == seen[r]
           o == op[r]
           c == o.invoice
           lines == [l \in DOMAIN invoice[c].lines |->
                      IF l \in Repriced(s, o) THEN o.prices[l] ELSE invoice[c].lines[l]]
<1>1. pc[r] = "read" /\ o.kind = "correct"
  BY DEF Correct, Asks
<1>2. /\ ~Refuses(s, o) /\ ~FollowedGone(r) /\ End(r, "done") /\ payment' = PaymentsAfter(r)
      /\ invoice' = [invoice EXCEPT
           ![o.invoice] = [@ EXCEPT !.total = TotalAfter(s, o), !.customer = CustomerAfter(s, o),
                             !.lines = LinesWritten(s, o)]]
      /\ replaces' = IF r \notin DOMAIN payment' THEN replaces
                     ELSE Also(replaces, r, CHOOSE p \in DOMAIN Follows(s, o) : TRUE)
  BY DEF Correct
<1>3. /\ OfBooks(s) /\ o \in Ops /\ c \in DOMAIN s.invoice /\ c \in DOMAIN invoice
  BY <1>1, Reading, OpsAssumption DEF AsRead
<1>4. TotalAfter(s, o) \in Int /\ CustomerAfter(s, o) \in Customers
  BY <1>1, <1>3, PlannedAre
<1>5. IsInvoice(invoice[c])
  BY <1>3, RowsAre
<1>6. PICK ls : ls = lines
  OBVIOUS
<1>7. PICK d : d = [invoice[c] EXCEPT !.total = TotalAfter(s, o), !.customer = CustomerAfter(s, o),
                                      !.lines = ls]
  OBVIOUS
<1>8. invoice' = [invoice EXCEPT ![c] = d]
  <2>1. lines = LinesWritten(s, o)
    BY DEF LinesWritten
  <2> HIDE DEF lines
  <2> QED
    BY <1>2, <1>6, <1>7, <2>1
<1>9. /\ DOMAIN d = DOMAIN invoice[c] /\ d.total = TotalAfter(s, o) /\ d.customer = CustomerAfter(s, o)
      /\ d.lines = ls /\ d.refunded = invoice[c].refunded /\ d.at = invoice[c].at
  BY <1>5, <1>7 DEF IsInvoice
<1>10. /\ DOMAIN ls = DOMAIN invoice[c].lines
       /\ \A l \in DOMAIN ls : ls[l] = IF l \in Repriced(s, o) THEN o.prices[l] ELSE invoice[c].lines[l]
  BY <1>6
<1>11. ASSUME NEW l \in DOMAIN ls PROVE ls[l] \in Nat
  <2>1. invoice[c].lines[l] \in Nat
    BY <1>5, <1>10 DEF IsInvoice
  <2>2. l \in Repriced(s, o) => o.prices[l] \in Nat
    BY <1>1, <1>3, OpsAssumption DEF Repriced
  <2> QED
    BY <1>10, <2>1, <2>2
<1>12. IsInvoice(d)
  BY <1>4, <1>5, <1>9, <1>10, <1>11 DEF IsInvoice
<1>13. /\ DOMAIN invoice' = DOMAIN invoice /\ invoice'[c] = d
       /\ \A i \in DOMAIN invoice : i # c => invoice'[i] = invoice[i]
  BY <1>3, <1>8
<1>14. ASSUME NEW i \in DOMAIN invoice
       PROVE  /\ IsInvoice(invoice'[i]) /\ invoice'[i].refunded = invoice[i].refunded
              /\ DOMAIN invoice'[i].lines = DOMAIN invoice[i].lines
              /\ i # c => invoice'[i] = invoice[i]
  BY <1>9, <1>10, <1>12, <1>13, RowsAre
<1> QED
  BY <1>1, <1>2, <1>3, <1>9, <1>10, <1>13, <1>14

-----------------------------------------------------------------------------
(* Type correctness. *)

LEMMA RefuseIs ==
  ASSUME BooksTypes, NEW r \in Request, Refuse(r), pc[r] = "read"
  PROVE  BooksTypes' /\ UNCHANGED db /\ End(r, "refused")
<1>1. End(r, "refused") /\ invoice' = invoice /\ payment' = payment /\ replaces' = replaces
  BY DEF Refuse, db
<1>2. RequestsTyped'
  BY <1>1, EndKeeps
<1>3. OfBooks(Now')
  <2>1. Now' = Now
    BY <1>1 DEF Now
  <2> QED
    BY <2>1 DEF BooksTypes, RowsTyped
<1>4. RowsTyped'
  BY <1>1, <1>3 DEF BooksTypes, RowsTyped
<1> QED
  BY <1>1, <1>2, <1>4 DEF BooksTypes, db

LEMMA Writes ==
  ASSUME BooksTypes, NEW r \in Request,
         Pay(r) \/ Void(r) \/ Sell(r) \/ Return(r) \/ Correct(r)
  PROVE  pc[r] = "read"
BY DEF Pay, Void, Sell, Return, Correct, Asks

LEMMA RowsFrom ==
  ASSUME BooksTypes, NEW r \in Request,
         DOMAIN invoice' = DOMAIN invoice \/ DOMAIN invoice' = DOMAIN invoice \cup {r},
         DOMAIN payment' = DOMAIN payment \/ DOMAIN payment' = DOMAIN payment \cup {r},
         \A i \in DOMAIN invoice' : IsInvoice(invoice'[i]),
         \A p \in DOMAIN payment' :
           IsPayment(payment'[p]) /\ DOMAIN payment'[p].on \subseteq DOMAIN invoice',
         replaces' = replaces \/ \E p \in DOMAIN payment : replaces' = Also(replaces, r, p) /\ r \in DOMAIN payment'
  PROVE  RowsTyped'
<1>1. IsFiniteSet(DOMAIN invoice) /\ IsFiniteSet(DOMAIN payment)
  BY NowIs DEF BooksTypes, RowsTyped, OfBooks
<1>2. IsFiniteSet(DOMAIN invoice') /\ IsFiniteSet(DOMAIN payment')
  BY <1>1, FS_AddElement
<1>3. Now'.invoice = invoice' /\ Now'.payment = payment'
  BY DEF Now
<1>4. OfBooks(Now')
  BY <1>2, <1>3 DEF OfBooks
<1>5. DOMAIN invoice' \subseteq Ids /\ DOMAIN payment' \subseteq Request /\ DOMAIN payment \subseteq DOMAIN payment'
  BY DEF BooksTypes, RowsTyped, Ids
<1>6. DOMAIN replaces' \subseteq DOMAIN payment' /\ \A q \in DOMAIN replaces' : replaces'[q] \in DOMAIN payment'
  <2>1. CASE replaces' = replaces
    BY <1>5, <2>1 DEF BooksTypes, RowsTyped
  <2>2. CASE \E p \in DOMAIN payment : replaces' = Also(replaces, r, p) /\ r \in DOMAIN payment'
    BY <1>5, <2>2 DEF BooksTypes, RowsTyped, Also
  <2> QED
    BY <2>1, <2>2
<1> QED
  BY <1>4, <1>5, <1>6 DEF RowsTyped

LEMMA InitTypes == Init => BooksTypes
<1> SUFFICES ASSUME Init PROVE BooksTypes
  OBVIOUS
<1>1. DOMAIN Nothing = {} /\ IsFiniteSet({})
  BY FS_EmptySet DEF Nothing
<1>2. /\ invoice = Opening /\ payment = Nothing /\ replaces = Nothing
      /\ pc = [r \in Request |-> "idle"] /\ overlapped = FALSE
      /\ DOMAIN op = Request /\ DOMAIN seen = Request
  BY DEF Init
<1>3. OfBooks(Now)
  BY <1>1, <1>2, NowIs, ReceivablesAssumption, OpeningAssumption DEF OfBooks
<1>4. RowsTyped
  BY <1>1, <1>2, <1>3 DEF RowsTyped, Ids
<1>5. RequestsTyped
  BY <1>1, <1>2, ReceivablesAssumption DEF RequestsTyped
<1> QED
  BY <1>4, <1>5 DEF BooksTypes

LEMMA AddsPayment ==
  ASSUME BooksTypes, NEW r \in Request, r \notin DOMAIN payment, NEW m, payment' = Also(payment, r, m)
  PROVE  /\ DOMAIN payment' = DOMAIN payment \cup {r} /\ payment'[r] = m
         /\ \A p \in DOMAIN payment : p # r /\ payment'[p] = payment[p]
BY DEF Also

LEMMA AddsInvoice ==
  ASSUME BooksTypes, NEW r \in Request, r \notin DOMAIN invoice, NEW v, invoice' = Also(invoice, r, v)
  PROVE  /\ DOMAIN invoice' = DOMAIN invoice \cup {r} /\ invoice'[r] = v
         /\ \A i \in DOMAIN invoice : i # r /\ invoice'[i] = invoice[i]
BY DEF Also

LEMMA PayTypes ==
  ASSUME BooksTypes, NEW r \in Request, Pay(r) PROVE BooksTypes'
<1>1. CASE Refuse(r)
  BY <1>1, Writes, RefuseIs
<1>2. CASE ~Refuse(r)
  <2>1. /\ pc[r] = "read" /\ End(r, "done") /\ invoice' = invoice /\ replaces' = replaces
        /\ \E m : payment' = Also(payment, r, m) /\ IsPayment(m) /\ DOMAIN m.on \subseteq DOMAIN invoice
    BY <1>2, PayIs
  <2>2. r \notin DOMAIN payment
    BY <2>1, Reading
  <2>3. PICK m : payment' = Also(payment, r, m) /\ IsPayment(m) /\ DOMAIN m.on \subseteq DOMAIN invoice
    BY <2>1
  <2>4. /\ DOMAIN payment' = DOMAIN payment \cup {r} /\ payment'[r] = m
        /\ \A p \in DOMAIN payment : payment'[p] = payment[p]
    BY <2>2, <2>3, AddsPayment
  <2>5. \A p \in DOMAIN payment' : IsPayment(payment'[p]) /\ DOMAIN payment'[p].on \subseteq DOMAIN invoice'
    BY <2>1, <2>3, <2>4, RowsAre
  <2>6. RowsTyped'
    BY <2>1, <2>4, <2>5, RowsAre, RowsFrom
  <2>7. RequestsTyped'
    BY <2>1, <2>4, EndKeeps
  <2> QED
    BY <2>6, <2>7 DEF BooksTypes
<1> QED
  BY <1>1, <1>2

LEMMA VoidTypes ==
  ASSUME BooksTypes, NEW r \in Request, Void(r) PROVE BooksTypes'
<1>1. CASE Refuse(r)
  BY <1>1, Writes, RefuseIs
<1>2. CASE ~Refuse(r)
  <2>1. /\ pc[r] = "read" /\ End(r, "done") /\ invoice' = invoice /\ replaces' = replaces
        /\ DOMAIN payment' = DOMAIN payment
        /\ \A p \in DOMAIN payment : IsPayment(payment'[p]) /\ payment'[p].on = payment[p].on
    BY <1>2, VoidIs
  <2>2. \A p \in DOMAIN payment' : IsPayment(payment'[p]) /\ DOMAIN payment'[p].on \subseteq DOMAIN invoice'
    BY <2>1, RowsAre
  <2>3. RowsTyped'
    BY <2>1, <2>2, RowsAre, RowsFrom
  <2>4. RequestsTyped'
    BY <2>1, EndKeeps
  <2> QED
    BY <2>3, <2>4 DEF BooksTypes
<1> QED
  BY <1>1, <1>2

LEMMA SellTypes ==
  ASSUME BooksTypes, NEW r \in Request, Sell(r) PROVE BooksTypes'
<1>1. CASE Refuse(r)
  BY <1>1, Writes, RefuseIs
<1>2. CASE ~Refuse(r)
  <2>1. /\ pc[r] = "read" /\ End(r, "done") /\ replaces' = replaces
        /\ \E v : invoice' = Also(invoice, r, v) /\ IsInvoice(v)
        /\ \/ payment' = payment
           \/ \E m : payment' = Also(payment, r, m) /\ IsPayment(m) /\ m.on = Only(r, m.amount)
    BY <1>2, SellIs
  <2>2. r \notin DOMAIN payment /\ r \notin DOMAIN invoice
    BY <2>1, Reading
  <2>3. PICK v : invoice' = Also(invoice, r, v) /\ IsInvoice(v)
    BY <2>1
  <2>4. /\ DOMAIN invoice' = DOMAIN invoice \cup {r} /\ invoice'[r] = v
        /\ \A i \in DOMAIN invoice : invoice'[i] = invoice[i]
    BY <2>2, <2>3, AddsInvoice
  <2>5. \A i \in DOMAIN invoice' : IsInvoice(invoice'[i])
    BY <2>3, <2>4, RowsAre
  <2>6. /\ DOMAIN payment' = DOMAIN payment \/ DOMAIN payment' = DOMAIN payment \cup {r}
        /\ \A p \in DOMAIN payment' : IsPayment(payment'[p]) /\ DOMAIN payment'[p].on \subseteq DOMAIN invoice'
    <3>1. CASE payment' = payment
      BY <2>4, <3>1, RowsAre
    <3>2. CASE \E m : payment' = Also(payment, r, m) /\ IsPayment(m) /\ m.on = Only(r, m.amount)
      <4>1. PICK m : payment' = Also(payment, r, m) /\ IsPayment(m) /\ m.on = Only(r, m.amount)
        BY <3>2
      <4>2. /\ DOMAIN payment' = DOMAIN payment \cup {r} /\ payment'[r] = m
            /\ \A p \in DOMAIN payment : payment'[p] = payment[p]
        BY <2>2, <4>1, AddsPayment
      <4>3. DOMAIN m.on = {r}
        BY <4>1, OnlyIs
      <4> QED
        BY <2>4, <4>1, <4>2, <4>3, RowsAre
    <3> QED
      BY <2>1, <3>1, <3>2
  <2>7. RowsTyped'
    BY <2>1, <2>4, <2>5, <2>6, RowsFrom
  <2>8. RequestsTyped'
    BY <2>1, <2>4, <2>6, EndKeeps
  <2> QED
    BY <2>7, <2>8 DEF BooksTypes
<1> QED
  BY <1>1, <1>2

LEMMA ReturnTypes ==
  ASSUME BooksTypes, NEW r \in Request, Return(r) PROVE BooksTypes'
<1>1. CASE Refuse(r)
  BY <1>1, Writes, RefuseIs
<1>2. CASE ~Refuse(r)
  <2>1. /\ pc[r] = "read" /\ End(r, "done") /\ payment' = payment /\ replaces' = replaces
        /\ DOMAIN invoice' = DOMAIN invoice
        /\ \A i \in DOMAIN invoice : IsInvoice(invoice'[i]) /\ invoice'[i].lines = invoice[i].lines
    BY <1>2, ReturnIs
  <2>2. RowsTyped'
    BY <2>1, RowsAre, RowsFrom
  <2>3. RequestsTyped'
    BY <2>1, EndKeeps
  <2> QED
    BY <2>2, <2>3 DEF BooksTypes
<1> QED
  BY <1>1, <1>2

LEMMA CorrectPays ==
  ASSUME BooksTypes, NEW r \in Request, Correct(r), ~Refuse(r)
  PROVE  LET s == seen[r]
             o == op[r]
             follows == Follows(s, o)
         IN  /\ DOMAIN payment \subseteq DOMAIN payment'
             /\ \A p \in DOMAIN payment :
                  /\ IsPayment(payment'[p]) /\ payment'[p].on = payment[p].on
                  /\ payment'[p].amount = payment[p].amount
                  /\ payment'[p].voided = (payment[p].voided \/ p \in DOMAIN follows)
                  /\ payment'[p].customer = IF p \in MoveAlong(s, o) THEN CustomerAfter(s, o)
                                            ELSE payment[p].customer
             /\ \/ /\ DOMAIN payment' = DOMAIN payment /\ replaces' = replaces
                   /\ \A p \in DOMAIN follows : ~(follows[p] > 0)
                \/ \E p \in DOMAIN payment, n \in Int :
                     /\ DOMAIN follows = {p} /\ follows[p] = n /\ n > 0
                     /\ ~payment[p].voided /\ replaces' = Also(replaces, r, p)
                     /\ DOMAIN payment' = DOMAIN payment \cup {r}
                     /\ IsPayment(payment'[r]) /\ ~payment'[r].voided
                     /\ payment'[r].customer = CustomerAfter(s, o)
                     /\ payment'[r].amount = n /\ payment'[r].on = Only(o.invoice, n)
<1> DEFINE follows == Follows(seen[r], op[r])
<1>1. /\ pc[r] = "read" /\ op[r].kind = "correct" /\ ~Refuses(seen[r], op[r]) /\ ~FollowedGone(r)
      /\ payment' = PaymentsAfter(r)
      /\ replaces' = IF r \notin DOMAIN payment' THEN replaces
                     ELSE Also(replaces, r, CHOOSE p \in DOMAIN follows : TRUE)
  BY CorrectIs
<1>2. r \notin DOMAIN payment
  BY <1>1, Reading
<1>3. \A p \in DOMAIN follows : ~payment[p].voided
  BY <1>1 DEF FollowedGone
<1>4. LET o == op[r]
          s == seen[r]
      IN  /\ \A p \in DOMAIN payment :
               /\ IsPayment(payment'[p]) /\ payment'[p].on = payment[p].on
               /\ payment'[p].amount = payment[p].amount
               /\ payment'[p].voided = (payment[p].voided \/ p \in DOMAIN follows)
               /\ payment'[p].customer = IF p \in MoveAlong(s, o) THEN CustomerAfter(s, o)
                                         ELSE payment[p].customer
          /\ \/ DOMAIN payment' = DOMAIN payment /\ \A p \in DOMAIN follows : ~(follows[p] > 0)
             \/ /\ DOMAIN payment' = DOMAIN payment \cup {r}
                /\ \E p \in DOMAIN payment :
                     /\ DOMAIN follows = {p} /\ follows[p] > 0 /\ follows[p] \in Int
                     /\ IsPayment(payment'[r]) /\ ~payment'[r].voided
                     /\ payment'[r].customer = CustomerAfter(s, o)
                     /\ payment'[r].amount = follows[p] /\ payment'[r].on = Only(o.invoice, follows[p])
  BY <1>1, PaymentsAfterAre
<1> HIDE DEF follows
<1>5. CASE DOMAIN payment' = DOMAIN payment /\ \A p \in DOMAIN follows : ~(follows[p] > 0)
  <2>1. replaces' = replaces
    BY <1>1, <1>2, <1>5
  <2> QED
    BY <1>4, <1>5, <2>1 DEF follows
<1>6. ASSUME DOMAIN payment' = DOMAIN payment \cup {r}, NEW p \in DOMAIN payment, DOMAIN follows = {p}
      PROVE  ~payment[p].voided /\ replaces' = Also(replaces, r, p)
  <2>1. (CHOOSE q \in DOMAIN follows : TRUE) = p
    BY <1>6
  <2> QED
    BY <1>1, <1>3, <1>6, <2>1
<1> QED
  BY <1>4, <1>5, <1>6 DEF follows

LEMMA CorrectRecords ==
  ASSUME BooksTypes, NEW r \in Request, Correct(r), ~Refuse(r)
  PROVE  \/ DOMAIN payment' = DOMAIN payment /\ replaces' = replaces
         \/ \E p \in DOMAIN payment, n \in Int :
              /\ n > 0 /\ ~payment[p].voided /\ payment'[p].voided /\ replaces' = Also(replaces, r, p)
              /\ DOMAIN payment' = DOMAIN payment \cup {r}
              /\ IsPayment(payment'[r]) /\ ~payment'[r].voided
              /\ payment'[r].customer = CustomerAfter(seen[r], op[r])
              /\ payment'[r].amount = n /\ payment'[r].on = Only(op[r].invoice, n)
<1> DEFINE follows == Follows(seen[r], op[r])
<1>1. \/ /\ DOMAIN payment' = DOMAIN payment /\ replaces' = replaces
         /\ \A p \in DOMAIN follows : ~(follows[p] > 0)
      \/ \E p \in DOMAIN payment, n \in Int :
           /\ DOMAIN follows = {p} /\ follows[p] = n /\ n > 0
           /\ ~payment[p].voided /\ replaces' = Also(replaces, r, p)
           /\ DOMAIN payment' = DOMAIN payment \cup {r}
           /\ IsPayment(payment'[r]) /\ ~payment'[r].voided
           /\ payment'[r].customer = CustomerAfter(seen[r], op[r])
           /\ payment'[r].amount = n /\ payment'[r].on = Only(op[r].invoice, n)
  BY CorrectPays
<1>2. \A p \in DOMAIN payment : payment'[p].voided = (payment[p].voided \/ p \in DOMAIN follows)
  BY CorrectPays
<1> HIDE DEF follows
<1> QED
  BY <1>1, <1>2

LEMMA CorrectTypes ==
  ASSUME BooksTypes, NEW r \in Request, Correct(r) PROVE BooksTypes'
<1>1. CASE Refuse(r)
  BY <1>1, Writes, RefuseIs
<1>2. CASE ~Refuse(r)
  <2>1. /\ pc[r] = "read" /\ End(r, "done") /\ DOMAIN invoice' = DOMAIN invoice
        /\ op[r].invoice \in DOMAIN invoice
        /\ \A i \in DOMAIN invoice : IsInvoice(invoice'[i]) /\ DOMAIN invoice'[i].lines = DOMAIN invoice[i].lines
    BY <1>2, CorrectIs
  <2>2. \A p \in DOMAIN payment : IsPayment(payment'[p]) /\ payment'[p].on = payment[p].on
    BY <1>2, CorrectPays
  <2>3. \/ DOMAIN payment' = DOMAIN payment /\ replaces' = replaces
        \/ /\ DOMAIN payment' = DOMAIN payment \cup {r} /\ IsPayment(payment'[r])
           /\ DOMAIN payment'[r].on = {op[r].invoice}
           /\ \E p \in DOMAIN payment : replaces' = Also(replaces, r, p)
    <3>1. CASE DOMAIN payment' = DOMAIN payment /\ replaces' = replaces
      BY <3>1
    <3>2. CASE ~(DOMAIN payment' = DOMAIN payment /\ replaces' = replaces)
      <4>1. \E p \in DOMAIN payment, n \in Int :
              /\ replaces' = Also(replaces, r, p) /\ DOMAIN payment' = DOMAIN payment \cup {r}
              /\ IsPayment(payment'[r]) /\ payment'[r].on = Only(op[r].invoice, n)
        BY <1>2, <3>2, CorrectRecords
      <4>2. DOMAIN payment'[r].on = {op[r].invoice}
        BY <4>1, OnlyIs
      <4> QED
        BY <4>1, <4>2
    <3> QED
      BY <3>1, <3>2
  <2>4. \A p \in DOMAIN payment' : IsPayment(payment'[p]) /\ DOMAIN payment'[p].on \subseteq DOMAIN invoice'
    BY <2>1, <2>2, <2>3, RowsAre
  <2>5. RowsTyped'
    <3>1. \/ replaces' = replaces
          \/ \E p \in DOMAIN payment : replaces' = Also(replaces, r, p) /\ r \in DOMAIN payment'
      BY <2>3
    <3>2. DOMAIN payment' = DOMAIN payment \/ DOMAIN payment' = DOMAIN payment \cup {r}
      BY <2>3
    <3> QED
      BY <2>1, <2>4, <3>1, <3>2, RowsFrom
  <2>6. RequestsTyped'
    <3>1. DOMAIN payment \subseteq DOMAIN payment' /\ DOMAIN payment' \subseteq DOMAIN payment \cup {r}
      BY <2>3
    <3> QED
      BY <2>1, <3>1, EndKeeps
  <2> QED
    BY <2>5, <2>6 DEF BooksTypes
<1> QED
  BY <1>1, <1>2

LEMMA TypesStay == BooksTypes /\ [Next]_vars => BooksTypes'
<1> SUFFICES ASSUME BooksTypes, [Next]_vars PROVE BooksTypes'
  OBVIOUS
<1>1. CASE UNCHANGED vars
  <2>1. /\ invoice' = invoice /\ payment' = payment /\ replaces' = replaces
        /\ pc' = pc /\ op' = op /\ seen' = seen /\ overlapped' = overlapped
    BY <1>1 DEF vars, db
  <2>2. OfBooks(Now')
    <3>1. Now' = Now
      BY <2>1 DEF Now
    <3> QED
      BY <3>1 DEF BooksTypes, RowsTyped
  <2>3. ASSUME NEW q \in Request, pc'[q] = "read" PROVE AsRead(q)'
    <3>1. AsRead(q) /\ OfBooks(seen'[q])
      BY <2>1, <2>3 DEF BooksTypes, RequestsTyped, AsRead
    <3> QED
      BY <2>1, <3>1 DEF AsRead
  <2>4. RowsTyped'
    BY <2>1, <2>2 DEF BooksTypes, RowsTyped
  <2>5. RequestsTyped'
    BY <2>1, <2>3 DEF BooksTypes, RequestsTyped
  <2> QED
    BY <2>4, <2>5 DEF BooksTypes
<1>2. CASE Next
  BY <1>2, ReadTypes, PayTypes, VoidTypes, SellTypes, ReturnTypes, CorrectTypes DEF Next
<1> QED
  BY <1>1, <1>2

LEMMA TypesGiveTypeOK == BooksTypes => TypeOK
<1> SUFFICES ASSUME BooksTypes PROVE TypeOK
  OBVIOUS
<1>1. \A i \in DOMAIN invoice : Refunded(Now, i) \in Nat
  BY NowIs, BalanceIs DEF BooksTypes, RowsTyped
<1>2. \A q \in Range(replaces) : q \in DOMAIN payment
  BY DEF BooksTypes, RowsTyped, Range
<1> QED
  BY <1>1, <1>2, RowsAre DEF TypeOK, BooksTypes, RowsTyped, RequestsTyped, IsInvoice, IsPayment

\* The books keep their type: nothing is recorded of an invoice or a payment that is
\* not there, and every amount is a whole number.
THEOREM BooksKeepToTheirTypes == Spec => []TypeOK
<1>1. Spec => []BooksTypes
  BY InitTypes, TypesStay, PTL DEF Spec
<1> QED
  BY <1>1, TypesGiveTypeOK, PTL

-----------------------------------------------------------------------------
(* Money received settles once. *)

\* While requests do not overlap, the one at work has the books before it as they are.
Alone ==
  overlapped \/ \A r \in Request : pc[r] = "read" =>
    seen[r] = Now /\ \A q \in Request : pc[q] = "read" => q = r

LEMMA AloneStays ==
  ASSUME BooksTypes, Alone, [Next]_vars PROVE Alone'
<1>1. CASE UNCHANGED vars
  BY <1>1 DEF vars, db, Alone, Now
<1>2. ASSUME NEW r \in Request, Read(r) PROVE Alone'
  <2>1. /\ seen' = [seen EXCEPT ![r] = Now] /\ pc' = [pc EXCEPT ![r] = "read"]
        /\ overlapped' = (overlapped \/ \E q \in Request : pc[q] = "read")
        /\ invoice' = invoice /\ payment' = payment
    BY <1>2 DEF Read, db
  <2>2. Now' = Now
    BY <2>1 DEF Now
  <2>3. CASE overlapped'
    BY <2>3 DEF Alone
  <2>4. CASE ~overlapped'
    <3>1. \A q \in Request : pc[q] # "read"
      BY <2>1, <2>4
    <3>2. \A q \in Request : pc'[q] = "read" => q = r
      BY <2>1, <3>1 DEF BooksTypes, RequestsTyped
    <3>3. seen'[r] = Now'
      BY <2>1, <2>2 DEF BooksTypes, RequestsTyped
    <3> QED
      BY <3>2, <3>3 DEF Alone
  <2> QED
    BY <2>3, <2>4
<1>3. ASSUME NEW r \in Request, pc[r] = "read", NEW outcome \in {"done", "refused"}, End(r, outcome)
      PROVE  Alone'
  <2>1. pc' = [pc EXCEPT ![r] = outcome] /\ overlapped' = overlapped
    BY <1>3 DEF End
  <2>2. CASE overlapped
    BY <2>1, <2>2 DEF Alone
  <2>3. CASE ~overlapped
    <3>1. \A q \in Request : pc[q] = "read" => q = r
      BY <1>3, <2>3 DEF Alone
    <3>2. \A q \in Request : pc'[q] # "read"
      BY <2>1, <3>1 DEF BooksTypes, RequestsTyped
    <3> QED
      BY <3>2 DEF Alone
  <2> QED
    BY <2>2, <2>3
<1>4. ASSUME NEW r \in Request, Pay(r) \/ Void(r) \/ Sell(r) \/ Return(r) \/ Correct(r) PROVE Alone'
  <2>1. pc[r] = "read"
    BY <1>4, Writes
  <2>2. End(r, "refused") \/ End(r, "done")
    BY <1>4 DEF Pay, Void, Sell, Return, Correct, Refuse
  <2> QED
    BY <1>3, <2>1, <2>2
<1> QED
  BY <1>1, <1>2, <1>4 DEF Next

LEMMA AloneSees ==
  ASSUME Alone, ~overlapped, NEW r \in Request, pc[r] = "read"
  PROVE  seen[r] = Now /\ seen[r].invoice = invoice /\ seen[r].payment = payment
BY NowIs DEF Alone

Spent(m) ==
  /\ Magnitude(Amounts(m.on)) <= Magnitude(m.amount)
  /\ \A i \in DOMAIN m.on : Sign(m.on[i]) = Sign(m.amount)

LEMMA SpentIs == PaymentNotOverspent <=> \A p \in DOMAIN payment : Spent(payment[p])
BY DEF PaymentNotOverspent, Spent

LEMMA OnlySpent ==
  ASSUME NEW m, NEW i, m.amount \in Int, m.on = Only(i, m.amount)
  PROVE  Spent(m)
<1> DEFINE n == m.amount
<1>1. Amounts(m.on) = n /\ DOMAIN m.on = {i} /\ m.on[i] = n
  <2>1. n \in Int /\ m.on = Only(i, n)
    OBVIOUS
  <2> HIDE DEF n
  <2>2. Amounts(Only(i, n)) = n /\ DOMAIN (Only(i, n)) = {i} /\ Only(i, n)[i] = n
    BY <2>1, AmountsOne
  <2> QED
    BY <2>1, <2>2
<1>2. Magnitude(m.amount) \in Int
  BY MagnitudeIs
<1> QED
  BY <1>1, <1>2 DEF Spent

LEMMA SpentOfSame ==
  ASSUME NEW m, NEW n, Spent(m), n.on = m.on, n.amount = m.amount
  PROVE  Spent(n)
BY DEF Spent

LEMMA SpentStays ==
  ASSUME BooksTypes, PaymentNotOverspent, [Next]_vars PROVE PaymentNotOverspent'
<1> SUFFICES \A p \in DOMAIN payment' : Spent(payment'[p])
  <2>1. PaymentNotOverspent' <=> \A p \in DOMAIN payment' : Spent(payment'[p])
    BY DEF PaymentNotOverspent, Spent
  <2> QED
    BY <2>1
<1>1. \A p \in DOMAIN payment : Spent(payment[p])
  BY SpentIs
<1>2. CASE UNCHANGED payment
  BY <1>1, <1>2
<1>3. ASSUME NEW r \in Request, Pay(r), ~Refuse(r) PROVE \A p \in DOMAIN payment' : Spent(payment'[p])
  <2>1. pc[r] = "read" /\ op[r].kind = "pay" /\ ~Elsewhere(seen[r], op[r]) /\ PlanHolds(seen[r], op[r])
    BY <1>3, PayIs
  <2>2. PICK m : payment' = Also(payment, r, m) /\ m.amount = op[r].amount /\ m.on = Requested(seen[r], op[r])
    BY <1>3, PayIs
  <2>3. r \notin DOMAIN payment /\ op[r] \in Ops /\ OfBooks(seen[r])
    BY <2>1, Reading
  <2>4. /\ Magnitude(Amounts(m.on)) <= Magnitude(m.amount)
        /\ \A i \in DOMAIN m.on : Sign(m.on[i]) = Sign(m.amount)
    BY <2>1, <2>2, <2>3, PlanIs
  <2>5. Spent(m)
    BY <2>4 DEF Spent
  <2>6. /\ DOMAIN payment' = DOMAIN payment \cup {r} /\ payment'[r] = m
        /\ \A p \in DOMAIN payment : payment'[p] = payment[p]
    BY <2>2, <2>3, AddsPayment
  <2> QED
    BY <1>1, <2>5, <2>6
<1>4. ASSUME NEW r \in Request, Void(r), ~Refuse(r) PROVE \A p \in DOMAIN payment' : Spent(payment'[p])
  <2>1. /\ DOMAIN payment' = DOMAIN payment
        /\ \A p \in DOMAIN payment : payment'[p].on = payment[p].on /\ payment'[p].amount = payment[p].amount
    BY <1>4, VoidIs
  <2> QED
    BY <1>1, <2>1, SpentOfSame
<1>5. ASSUME NEW r \in Request, Sell(r), ~Refuse(r) PROVE \A p \in DOMAIN payment' : Spent(payment'[p])
  <2>1. pc[r] = "read"
    BY <1>5, SellIs
  <2>2. \/ payment' = payment
        \/ \E m : payment' = Also(payment, r, m) /\ IsPayment(m) /\ m.on = Only(r, m.amount)
    BY <1>5, SellIs
  <2>3. CASE payment' = payment
    BY <1>1, <2>3
  <2>4. CASE \E m : payment' = Also(payment, r, m) /\ IsPayment(m) /\ m.on = Only(r, m.amount)
    <3>1. PICK m : payment' = Also(payment, r, m) /\ IsPayment(m) /\ m.on = Only(r, m.amount)
      BY <2>4
    <3>2. Spent(m)
      BY <3>1, OnlySpent DEF IsPayment
    <3>3. r \notin DOMAIN payment
      BY <2>1, Reading
    <3>4. /\ DOMAIN payment' = DOMAIN payment \cup {r} /\ payment'[r] = m
          /\ \A p \in DOMAIN payment : payment'[p] = payment[p]
      BY <3>1, <3>3, AddsPayment
    <3> QED
      BY <1>1, <3>2, <3>4
  <2> QED
    BY <2>2, <2>3, <2>4
<1>6. ASSUME NEW r \in Request, Correct(r), ~Refuse(r) PROVE \A p \in DOMAIN payment' : Spent(payment'[p])
  <2>1. \A p \in DOMAIN payment : payment'[p].on = payment[p].on /\ payment'[p].amount = payment[p].amount
    BY <1>6, CorrectPays
  <2>2. \A p \in DOMAIN payment : Spent(payment'[p])
    BY <1>1, <2>1, SpentOfSame
  <2>3. CASE DOMAIN payment' = DOMAIN payment
    BY <2>2, <2>3
  <2>4. CASE DOMAIN payment' # DOMAIN payment
    <3>1. PICK n \in Int : /\ DOMAIN payment' = DOMAIN payment \cup {r}
                           /\ payment'[r].amount = n /\ payment'[r].on = Only(op[r].invoice, n)
      BY <1>6, <2>4, CorrectRecords
    <3>2. PICK m : m = payment'[r]
      OBVIOUS
    <3>3. Spent(m)
      BY <3>1, <3>2, OnlySpent
    <3> QED
      BY <2>2, <3>1, <3>2, <3>3
  <2> QED
    BY <2>3, <2>4
<1>7. CASE \E r \in Request : Read(r) \/ Return(r) \/ Refuse(r)
  <2>1. UNCHANGED payment
    BY <1>7 DEF Read, Return, Refuse, db
  <2> QED
    BY <1>2, <2>1
<1>8. CASE UNCHANGED vars
  BY <1>2, <1>8 DEF vars, db
<1> QED
  BY <1>3, <1>4, <1>5, <1>6, <1>7, <1>8 DEF Next

LEMMA ReplacedStays ==
  ASSUME BooksTypes, ReplacedOnce, [Next]_vars PROVE ReplacedOnce'
<1>1. \A q \in DOMAIN replaces : replaces[q] \in DOMAIN payment
  BY DEF BooksTypes, RowsTyped
<1>2. ASSUME replaces' = replaces,
             \A p \in DOMAIN payment : p \in DOMAIN payment' /\ (payment[p].voided => payment'[p].voided)
      PROVE  ReplacedOnce'
  BY <1>1, <1>2 DEF ReplacedOnce
<1>3. ASSUME NEW r \in Request, pc[r] = "read", NEW m, payment' = Also(payment, r, m), replaces' = replaces
      PROVE  ReplacedOnce'
  <2>1. r \notin DOMAIN payment
    BY <1>3, Reading
  <2>2. DOMAIN payment' = DOMAIN payment \cup {r} /\ \A p \in DOMAIN payment : payment'[p] = payment[p]
    BY <1>3, <2>1, AddsPayment
  <2> QED
    BY <1>2, <1>3, <2>2
<1>4. ASSUME NEW r \in Request, Pay(r), ~Refuse(r) PROVE ReplacedOnce'
  BY <1>3, <1>4, PayIs
<1>5. ASSUME NEW r \in Request, Void(r), ~Refuse(r) PROVE ReplacedOnce'
  <2>1. /\ replaces' = replaces /\ DOMAIN payment' = DOMAIN payment
        /\ \A p \in DOMAIN payment : payment'[p].voided = (payment[p].voided \/ p = op[r].payment)
    BY <1>5, VoidIs
  <2> QED
    BY <1>2, <2>1
<1>6. ASSUME NEW r \in Request, Sell(r), ~Refuse(r) PROVE ReplacedOnce'
  <2>1. /\ pc[r] = "read" /\ replaces' = replaces
        /\ payment' = payment \/ \E m : payment' = Also(payment, r, m)
    BY <1>6, SellIs
  <2> QED
    BY <1>2, <1>3, <2>1
<1>7. ASSUME NEW r \in Request, Correct(r), ~Refuse(r) PROVE ReplacedOnce'
  <2>1. \A p \in DOMAIN payment : p \in DOMAIN payment' /\ (payment[p].voided => payment'[p].voided)
    BY <1>7, CorrectPays
  <2>2. CASE replaces' = replaces
    BY <1>2, <2>1, <2>2
  <2>3. CASE replaces' # replaces
    <3>1. PICK p \in DOMAIN payment :
            ~payment[p].voided /\ payment'[p].voided /\ replaces' = Also(replaces, r, p)
      BY <1>7, <2>3, CorrectRecords
    <3>2. r \notin DOMAIN replaces
      BY <1>7, Writes, Reading DEF BooksTypes, RowsTyped
    <3>3. /\ DOMAIN replaces' = DOMAIN replaces \cup {r} /\ replaces'[r] = p
          /\ \A q \in DOMAIN replaces : replaces'[q] = replaces[q]
      BY <3>1, <3>2 DEF Also
    <3>4. \A q \in DOMAIN replaces : replaces[q] # p /\ payment'[replaces[q]].voided
      BY <1>1, <2>1, <3>1 DEF ReplacedOnce
    <3>5. \A q \in DOMAIN replaces' : payment'[replaces'[q]].voided
      BY <3>1, <3>3, <3>4
    <3>6. \A q, o \in DOMAIN replaces' : replaces'[q] = replaces'[o] => q = o
      BY <3>3, <3>4 DEF ReplacedOnce
    <3> QED
      BY <3>5, <3>6 DEF ReplacedOnce
  <2> QED
    BY <2>2, <2>3
<1>8. CASE \E r \in Request : Read(r) \/ Return(r) \/ Refuse(r)
  <2>1. UNCHANGED <<payment, replaces>>
    BY <1>8 DEF Read, Return, Refuse, db
  <2> QED
    BY <1>2, <2>1
<1>9. CASE UNCHANGED vars
  BY <1>2, <1>9 DEF vars, db
<1> QED
  BY <1>4, <1>5, <1>6, <1>7, <1>8, <1>9 DEF Next

Owns == \A p \in DOMAIN payment :
          ~payment[p].voided => \A i \in DOMAIN payment[p].on : invoice[i].customer = payment[p].customer

LEMMA OwnsIs == OwnAccountOnly <=> overlapped \/ Owns
BY NowIs DEF OwnAccountOnly, Owns, Live

LEMMA Overlapping ==
  ASSUME [Next]_vars, overlapped, overlapped \in BOOLEAN PROVE overlapped'
BY DEF Next, vars, Read, Pay, Void, Sell, Return, Correct, Refuse, End

LEMMA OwnsStays ==
  ASSUME BooksTypes, Alone, OwnAccountOnly, [Next]_vars PROVE OwnAccountOnly'
<1> SUFFICES ASSUME ~overlapped, Owns PROVE Owns'
  <2>1. OwnAccountOnly' <=> overlapped' \/ Owns'
    BY OwnsIs, NowIs DEF OwnAccountOnly, Owns, Live, Now
  <2>2. overlapped => overlapped'
    BY Overlapping DEF BooksTypes, RequestsTyped
  <2> QED
    BY OwnsIs, <2>1, <2>2
<1>1. ASSUME UNCHANGED <<invoice, payment>> PROVE Owns'
  BY <1>1 DEF Owns
<1>2. \A p \in DOMAIN payment : DOMAIN payment[p].on \subseteq DOMAIN invoice
  BY RowsAre
<1>3. ASSUME NEW r \in Request, Pay(r), ~Refuse(r) PROVE Owns'
  <2>1. /\ pc[r] = "read" /\ op[r].kind = "pay" /\ ~Elsewhere(seen[r], op[r]) /\ PlanHolds(seen[r], op[r])
        /\ invoice' = invoice
    BY <1>3, PayIs
  <2>2. PICK m : /\ payment' = Also(payment, r, m) /\ m.customer = op[r].customer
                 /\ m.on = Requested(seen[r], op[r])
    BY <1>3, PayIs
  <2>3. r \notin DOMAIN payment /\ op[r] \in Ops /\ OfBooks(seen[r]) /\ seen[r].invoice = invoice
    BY <2>1, Reading, AloneSees
  <2>4. \A i \in DOMAIN m.on : seen[r].invoice[i].customer = op[r].customer
    BY <2>1, <2>2, <2>3, PlanIs
  <2>5. /\ DOMAIN payment' = DOMAIN payment \cup {r} /\ payment'[r] = m
        /\ \A p \in DOMAIN payment : payment'[p] = payment[p]
    BY <2>2, <2>3, AddsPayment
  <2> QED
    BY <2>1, <2>2, <2>3, <2>4, <2>5 DEF Owns
<1>4. ASSUME NEW r \in Request, Void(r), ~Refuse(r) PROVE Owns'
  <2>1. /\ invoice' = invoice /\ DOMAIN payment' = DOMAIN payment
        /\ \A p \in DOMAIN payment :
             /\ payment'[p].on = payment[p].on /\ payment'[p].customer = payment[p].customer
             /\ payment'[p].voided = (payment[p].voided \/ p = op[r].payment)
    BY <1>4, VoidIs
  <2> QED
    BY <2>1 DEF Owns
<1>5. ASSUME NEW r \in Request, Sell(r), ~Refuse(r) PROVE Owns'
  <2>1. /\ pc[r] = "read"
        /\ \E v : invoice' = Also(invoice, r, v) /\ v.customer = op[r].customer
        /\ \/ payment' = payment
           \/ \E m : payment' = Also(payment, r, m) /\ m.customer = op[r].customer /\ m.on = Only(r, m.amount)
    BY <1>5, SellIs
  <2>2. r \notin DOMAIN payment /\ r \notin DOMAIN invoice
    BY <2>1, Reading
  <2>3. PICK v : invoice' = Also(invoice, r, v) /\ v.customer = op[r].customer
    BY <2>1
  <2>4. invoice'[r] = v /\ \A i \in DOMAIN invoice : invoice'[i] = invoice[i]
    BY <2>2, <2>3, AddsInvoice
  <2>5. CASE payment' = payment
    BY <1>2, <2>4, <2>5 DEF Owns
  <2>6. CASE \E m : payment' = Also(payment, r, m) /\ m.customer = op[r].customer /\ m.on = Only(r, m.amount)
    <3>1. PICK m : payment' = Also(payment, r, m) /\ m.customer = op[r].customer /\ m.on = Only(r, m.amount)
      BY <2>6
    <3>2. /\ DOMAIN payment' = DOMAIN payment \cup {r} /\ payment'[r] = m
          /\ \A p \in DOMAIN payment : payment'[p] = payment[p]
      BY <2>2, <3>1, AddsPayment
    <3>3. \A i \in DOMAIN m.on : i = r
      BY <3>1, OnlyIs
    <3> QED
      BY <1>2, <2>3, <2>4, <3>1, <3>2, <3>3 DEF Owns
  <2> QED
    BY <2>1, <2>5, <2>6
<1>6. ASSUME NEW r \in Request, Return(r), ~Refuse(r) PROVE Owns'
  <2>1. payment' = payment /\ \A i \in DOMAIN invoice : invoice'[i].customer = invoice[i].customer
    BY <1>6, ReturnIs
  <2> QED
    BY <1>2, <2>1 DEF Owns
<1>7. ASSUME NEW r \in Request, Correct(r), ~Refuse(r) PROVE Owns'
  <2> DEFINE s == seen[r]
             o == op[r]
             c == o.invoice
  <2>1. /\ pc[r] = "read" /\ ~Refuses(s, o) /\ c \in DOMAIN invoice
        /\ \A i \in DOMAIN invoice : i # c => invoice'[i] = invoice[i]
        /\ invoice'[c].customer = CustomerAfter(s, o)
    BY <1>7, CorrectIs
  <2>2. s = Now /\ s.invoice = invoice /\ s.payment = payment
    BY <2>1, AloneSees
  <2>3. \A p \in DOMAIN payment :
          /\ payment'[p].on = payment[p].on /\ (payment[p].voided => payment'[p].voided)
          /\ payment'[p].customer = IF p \in MoveAlong(s, o) THEN CustomerAfter(s, o) ELSE payment[p].customer
    <3>1. \A p \in DOMAIN payment :
            /\ IsPayment(payment'[p]) /\ payment'[p].on = payment[p].on
            /\ payment'[p].amount = payment[p].amount
            /\ payment'[p].voided = (payment[p].voided \/ p \in DOMAIN Follows(s, o))
            /\ payment'[p].customer = IF p \in MoveAlong(s, o) THEN CustomerAfter(s, o) ELSE payment[p].customer
      BY <1>7, CorrectPays
    <3> HIDE DEF s, o
    <3> QED
      BY <3>1
  <2>4. ASSUME NEW p \in DOMAIN payment, ~payment'[p].voided, NEW i \in DOMAIN payment'[p].on
        PROVE  invoice'[i].customer = payment'[p].customer
    <3>1. i \in DOMAIN payment[p].on /\ ~payment[p].voided /\ i \in DOMAIN invoice
      BY <1>2, <2>3, <2>4
    <3>2. invoice[i].customer = payment[p].customer
      BY <3>1 DEF Owns
    <3>3. CASE ~CustomerChanged(s, o)
      <4>1. CustomerAfter(s, o) = invoice[c].customer /\ p \notin MoveAlong(s, o)
        BY <2>2, <3>3 DEF CustomerChanged, MoveAlong
      <4> QED
        BY <2>1, <2>3, <3>1, <3>2, <4>1
    <3>4. CASE CustomerChanged(s, o)
      <4>1. CASE c \in DOMAIN payment[p].on
        <5>1. p \in OnSale(s, c) /\ p \in Live(s)
          BY <2>2, <3>1, <4>1 DEF OnSale, Live
        <5>2. ~SettlesOther(s, p, c)
          BY <2>1, <3>4, <5>1 DEF Refuses
        <5>3. p \in MoveAlong(s, o) /\ i = c
          BY <2>2, <3>1, <3>4, <5>1, <5>2 DEF MoveAlong, SettlesOther
        <5> QED
          BY <2>1, <2>3, <5>3
      <4>2. CASE c \notin DOMAIN payment[p].on
        <5>1. p \notin MoveAlong(s, o) /\ i # c
          BY <2>2, <3>1, <4>2 DEF MoveAlong, OnSale
        <5> QED
          BY <2>1, <2>3, <3>1, <3>2, <5>1
      <4> QED
        BY <4>1, <4>2
    <3> QED
      BY <3>3, <3>4
  <2>5. CASE DOMAIN payment' = DOMAIN payment
    BY <2>4, <2>5 DEF Owns
  <2>6. CASE DOMAIN payment' # DOMAIN payment
    <3>1. PICK n \in Int : /\ DOMAIN payment' = DOMAIN payment \cup {r}
                           /\ payment'[r].customer = CustomerAfter(s, o) /\ payment'[r].on = Only(c, n)
      BY <1>7, <2>6, CorrectRecords
    <3>2. DOMAIN payment'[r].on = {c}
      BY <3>1, OnlyIs
    <3> QED
      BY <2>1, <2>4, <3>1, <3>2 DEF Owns
  <2> QED
    BY <2>5, <2>6
<1>8. CASE \E r \in Request : Read(r) \/ Refuse(r)
  BY <1>1, <1>8 DEF Read, Refuse, db
<1>9. CASE UNCHANGED vars
  BY <1>1, <1>9 DEF vars, db
<1> QED
  BY <1>3, <1>4, <1>5, <1>6, <1>7, <1>8, <1>9 DEF Next

MoneyInv == BooksTypes /\ Alone /\ MoneySettlesOnce

LEMMA MoneyInit == Init => MoneyInv
<1> SUFFICES ASSUME Init PROVE MoneyInv
  OBVIOUS
<1>1. BooksTypes
  BY InitTypes
<1>2. DOMAIN payment = {} /\ DOMAIN replaces = {} /\ \A r \in Request : pc[r] = "idle"
  BY DEF Init, Nothing
<1>3. Alone
  BY <1>2 DEF Alone
<1>4. PaymentNotOverspent /\ ReplacedOnce /\ OwnAccountOnly
  BY <1>2, NowIs DEF PaymentNotOverspent, ReplacedOnce, OwnAccountOnly, Live
<1> QED
  BY <1>1, <1>3, <1>4 DEF MoneyInv, MoneySettlesOnce

LEMMA MoneyStays ==
  ASSUME MoneyInv, [Next]_vars PROVE MoneyInv'
<1>1. BooksTypes /\ Alone /\ PaymentNotOverspent /\ ReplacedOnce /\ OwnAccountOnly
  BY DEF MoneyInv, MoneySettlesOnce
<1>2. BooksTypes' /\ Alone' /\ PaymentNotOverspent' /\ ReplacedOnce' /\ OwnAccountOnly'
  BY <1>1, TypesStay, AloneStays, SpentStays, ReplacedStays, OwnsStays
<1> QED
  BY <1>2 DEF MoneyInv, MoneySettlesOnce

LEMMA MoneyAlways == Spec => []MoneyInv
<1>1. MoneyInv /\ [Next]_vars => MoneyInv'
  BY MoneyStays
<1> QED
  BY <1>1, MoneyInit, PTL DEF Spec

\* Whatever overlaps, a payment never settles more than it brought and no payment is
\* put right twice; and while requests do not overlap it settles invoices of its own
\* account only (planAllocations, the `voidedAt: null` of a correction, outstandingFor).
THEOREM MoneyReceivedSettlesOnce == Spec => []MoneySettlesOnce
<1>1. MoneyInv => MoneySettlesOnce
  BY DEF MoneyInv
<1> QED
  BY <1>1, MoneyAlways, PTL

-----------------------------------------------------------------------------
(* An invoice is the sum of its lines, and its refunds are of those lines. *)

AddsUp(v) ==
  v.total = Amounts(v.lines) /\ \A l \in DOMAIN v.lines : v.refunded[l] \in {0, v.lines[l]}

LEMMA AddsUpIs == InvoiceAddsUp <=> overlapped \/ \A i \in DOMAIN invoice : AddsUp(invoice[i])
BY DEF InvoiceAddsUp, TotalIsItsLines, RefundAgreesWithPrice, AddsUp

\* A price is put right on what it was, and only while nothing has come back.
LEMMA CorrectedAddsUp ==
  ASSUME BooksTypes, NEW r \in Request, Correct(r), ~Refuse(r), seen[r].invoice = invoice,
         NEW v, v = invoice[op[r].invoice], NEW w, w = invoice'[op[r].invoice], AddsUp(v)
  PROVE  AddsUp(w)
<1> DEFINE s == seen[r]
           o == op[r]
           c == o.invoice
<1>1. /\ pc[r] = "read" /\ o.kind = "correct" /\ ~Refuses(s, o)
      /\ c \in DOMAIN invoice /\ c \in DOMAIN s.invoice /\ s.invoice[c] = v
  BY CorrectIs
<1>2. OfBooks(s) /\ o \in Ops
  BY <1>1, Reading
<1>3. /\ IsInvoice(w) /\ w.refunded = v.refunded /\ DOMAIN w.lines = DOMAIN v.lines
      /\ w.total = TotalAfter(s, o)
      /\ \A l \in DOMAIN v.lines : w.lines[l] = IF l \in Repriced(s, o) THEN o.prices[l] ELSE v.lines[l]
  BY CorrectIs
<1>4. /\ IsFiniteSet(DOMAIN v.lines) /\ DOMAIN LinesAfter(s, o) = DOMAIN v.lines
      /\ Amounts(v.lines) \in Nat /\ Amounts(LinesAfter(s, o)) \in Nat
  BY <1>1, <1>2, LinesAre
<1>5. \A l \in DOMAIN v.lines : w.lines[l] = LinesAfter(s, o)[l]
  BY <1>1, <1>3 DEF LinesAfter, Repriced
<1>6. Amounts(w.lines) = Amounts(LinesAfter(s, o))
  BY <1>3, <1>4, <1>5, AmountsSame
<1>7. TotalAfter(s, o) = v.total + Amounts(LinesAfter(s, o)) - Amounts(v.lines) /\ v.total = Amounts(v.lines)
  BY <1>1 DEF TotalAfter, AddsUp
<1>8. w.total = Amounts(w.lines)
  BY <1>3, <1>4, <1>6, <1>7
<1>9. ASSUME NEW l \in DOMAIN w.lines PROVE w.refunded[l] \in {0, w.lines[l]}
  <2>1. CASE l \notin Repriced(s, o)
    BY <1>3, <2>1 DEF AddsUp
  <2>2. CASE l \in Repriced(s, o)
    <3>1. ~(Refunded(s, c) > 0)
      BY <1>1, <2>2 DEF Refuses, PriceIsFixed
    <3>2. Refunded(s, c) \in Nat /\ v.refunded[l] <= Refunded(s, c)
      BY <1>1, <1>2, <1>3, BalanceIs
    <3>3. v.refunded[l] \in Nat
      BY <1>1, <1>3, RowsAre DEF IsInvoice
    <3> QED
      BY <1>3, <3>1, <3>2, <3>3
  <2> QED
    BY <2>1, <2>2
<1> QED
  BY <1>8, <1>9 DEF AddsUp

LEMMA AddsUpStays ==
  ASSUME BooksTypes, Alone, InvoiceAddsUp, [Next]_vars PROVE InvoiceAddsUp'
<1> SUFFICES ASSUME ~overlapped, \A i \in DOMAIN invoice : AddsUp(invoice[i])
             PROVE  \A i \in DOMAIN invoice' : AddsUp(invoice'[i])
  <2>1. InvoiceAddsUp' <=> overlapped' \/ \A i \in DOMAIN invoice' : AddsUp(invoice'[i])
    BY DEF InvoiceAddsUp, TotalIsItsLines, RefundAgreesWithPrice, AddsUp
  <2>2. overlapped => overlapped'
    BY Overlapping DEF BooksTypes, RequestsTyped
  <2> QED
    BY AddsUpIs, <2>1, <2>2
<1>1. CASE UNCHANGED invoice
  BY <1>1
<1>2. ASSUME NEW r \in Request, Sell(r), ~Refuse(r) PROVE \A i \in DOMAIN invoice' : AddsUp(invoice'[i])
  <2>1. pc[r] = "read"
    BY <1>2, SellIs
  <2>2. PICK v : /\ invoice' = Also(invoice, r, v)
                 /\ v.total = Amounts(v.lines) /\ \A l \in DOMAIN v.lines : v.refunded[l] = 0
    BY <1>2, SellIs
  <2>3. /\ DOMAIN invoice' = DOMAIN invoice \cup {r} /\ invoice'[r] = v
        /\ \A i \in DOMAIN invoice : invoice'[i] = invoice[i]
    BY <2>1, <2>2, Reading, AddsInvoice
  <2>4. AddsUp(v)
    BY <2>2 DEF AddsUp
  <2> QED
    BY <2>3, <2>4
<1>3. ASSUME NEW r \in Request, Return(r), ~Refuse(r) PROVE \A i \in DOMAIN invoice' : AddsUp(invoice'[i])
  <2> DEFINE back == op[r].invoice
             l == op[r].line
  <2>1. pc[r] = "read" /\ back \in DOMAIN invoice /\ DOMAIN invoice' = DOMAIN invoice
    BY <1>3, ReturnIs
  <2>2. seen[r].invoice = invoice
    BY <2>1, AloneSees
  <2>3. /\ l \in DOMAIN invoice[back].lines => invoice[back].refunded[l] = 0
        /\ \A i \in DOMAIN invoice :
             /\ invoice'[i].total = invoice[i].total /\ invoice'[i].lines = invoice[i].lines
             /\ \A k \in DOMAIN invoice[i].lines :
                  invoice'[i].refunded[k] =
                    IF i = back /\ k = l THEN invoice[i].refunded[k] + invoice[back].lines[l]
                    ELSE invoice[i].refunded[k]
    BY <1>3, <2>2, ReturnIs
  <2> HIDE DEF back, l
  <2>4. ASSUME NEW i \in DOMAIN invoice PROVE AddsUp(invoice'[i])
    <3>1. AddsUp(invoice[i]) /\ IsInvoice(invoice[i])
      BY RowsAre
    <3>2. invoice'[i].total = Amounts(invoice'[i].lines)
      BY <2>3, <3>1 DEF AddsUp
    <3>3. ASSUME NEW k \in DOMAIN invoice'[i].lines PROVE invoice'[i].refunded[k] \in {0, invoice'[i].lines[k]}
      <4>1. k \in DOMAIN invoice[i].lines /\ invoice'[i].lines[k] = invoice[i].lines[k]
        BY <2>3
      <4>2. invoice[i].lines[k] \in Nat
        BY <3>1, <4>1 DEF IsInvoice
      <4>3. CASE i = back /\ k = l
        <5>1. invoice[i].refunded[k] = 0 /\ invoice'[i].refunded[k] = invoice[i].refunded[k] + invoice[i].lines[k]
          BY <2>3, <4>1, <4>3
        <5> QED
          BY <4>1, <4>2, <5>1
      <4>4. CASE ~(i = back /\ k = l)
        <5>1. invoice'[i].refunded[k] = invoice[i].refunded[k]
          BY <2>3, <4>1, <4>4
        <5> QED
          BY <3>1, <4>1, <5>1 DEF AddsUp
      <4> QED
        BY <4>3, <4>4
    <3> QED
      BY <3>2, <3>3 DEF AddsUp
  <2> QED
    BY <2>1, <2>4
<1>4. ASSUME NEW r \in Request, Correct(r), ~Refuse(r) PROVE \A i \in DOMAIN invoice' : AddsUp(invoice'[i])
  <2> DEFINE c == op[r].invoice
  <2>1. /\ pc[r] = "read" /\ DOMAIN invoice' = DOMAIN invoice /\ c \in DOMAIN invoice
        /\ \A i \in DOMAIN invoice : i # c => invoice'[i] = invoice[i]
    BY <1>4, CorrectIs
  <2>2. seen[r].invoice = invoice
    BY <2>1, AloneSees
  <2>3. PICK w : w = invoice'[c]
    OBVIOUS
  <2>4. PICK v : v = invoice[c]
    OBVIOUS
  <2>5. AddsUp(w)
    BY <1>4, <2>1, <2>2, <2>3, <2>4, CorrectedAddsUp
  <2> QED
    BY <2>1, <2>3, <2>5
<1>5. CASE \E r \in Request : Read(r) \/ Refuse(r) \/ Void(r) \/ Pay(r)
  <2>1. UNCHANGED invoice
    BY <1>5 DEF Read, Refuse, Void, Pay, db
  <2> QED
    BY <1>1, <2>1
<1>6. CASE UNCHANGED vars
  BY <1>1, <1>6 DEF vars, db
<1> QED
  BY <1>2, <1>3, <1>4, <1>5, <1>6 DEF Next

\* While requests do not overlap the total of an invoice is the sum of its lines
\* through every correction (planSaleCorrection), and what has been refunded on a line
\* is nothing or its price: a price is not put right once goods have come back.
THEOREM InvoicesAddUp == Spec => []InvoiceAddsUp
<1> DEFINE Inv == BooksTypes /\ Alone /\ InvoiceAddsUp
<1>1. Init => Inv
  <2> SUFFICES ASSUME Init PROVE Inv
    OBVIOUS
  <2>1. BooksTypes /\ Alone
    BY MoneyInit DEF MoneyInv
  <2>2. \A i \in DOMAIN invoice : AddsUp(invoice[i])
    BY OpeningAssumption DEF Init, AddsUp
  <2> QED
    BY <2>1, <2>2, AddsUpIs
<1>2. Inv /\ [Next]_vars => Inv'
  <2> SUFFICES ASSUME Inv, [Next]_vars PROVE Inv'
    OBVIOUS
  <2> QED
    BY TypesStay, AloneStays, AddsUpStays
<1> QED
  BY <1>1, <1>2, PTL DEF Spec

-----------------------------------------------------------------------------
(* No step lets anybody owe whom the rules do not. *)

LEMMA WhoEnds ==
  ASSUME BooksTypes, Next, NEW r \in Request, pc[r] = "read", pc'[r] = "done"
  PROVE  /\ op[r].kind = "pay" => Pay(r) /\ ~Refuse(r)
         /\ op[r].kind = "sell" => Sell(r) /\ ~Refuse(r)
         /\ op[r].kind = "correct" => Correct(r) /\ ~Refuse(r)
<1>1. pc \in [Request -> {"idle", "read", "done", "refused"}]
  BY DEF BooksTypes, RequestsTyped
<1>2. PICK q \in Request : Read(q) \/ Pay(q) \/ Void(q) \/ Sell(q) \/ Return(q) \/ Correct(q)
  BY DEF Next
<1>3. ~Read(r)
  BY DEF Read
<1>4. q = r
  BY <1>1, <1>2 DEF Read, Pay, Void, Sell, Return, Correct, Refuse, End
<1>5. ~Refuse(r)
  BY <1>1 DEF Refuse, End
<1>6. Pay(r) => op[r].kind = "pay"
  BY DEF Pay, Asks
<1>7. Void(r) => op[r].kind = "void"
  BY DEF Void, Asks
<1>8. Sell(r) => op[r].kind = "sell"
  BY DEF Sell, Asks
<1>9. Return(r) => op[r].kind = "return"
  BY DEF Return, Asks
<1>10. Correct(r) => op[r].kind = "correct"
  BY DEF Correct, Asks
<1>11. Pay(r) \/ Void(r) \/ Sell(r) \/ Return(r) \/ Correct(r)
  BY <1>2, <1>3, <1>4
<1> QED
  BY <1>5, <1>6, <1>7, <1>8, <1>9, <1>10, <1>11

\* What is settled of an invoice in two states of the books is one sum over the
\* payments that are live in each.
LEMMA Gathered ==
  ASSUME NEW s, NEW t, OfBooks(s), OfBooks(t), DOMAIN s.payment \subseteq DOMAIN t.payment,
         \A p \in DOMAIN s.payment : t.payment[p].on = s.payment[p].on,
         NEW i, NEW g, g = [p \in DOMAIN t.payment |-> OnOf(t.payment[p], i)]
  PROVE  /\ IsFiniteSet(Live(s)) /\ IsFiniteSet(Live(t))
         /\ Live(s) \subseteq DOMAIN s.payment /\ Live(t) \subseteq DOMAIN t.payment
         /\ Allocated(s, i) = SumFunctionOnSet(g, Live(s)) /\ Allocated(s, i) \in Int
         /\ Allocated(t, i) = SumFunctionOnSet(g, Live(t)) /\ Allocated(t, i) \in Int
         /\ \A p \in DOMAIN t.payment : g[p] \in Int /\ g[p] = OnOf(t.payment[p], i)
<1>1. Live(s) \subseteq DOMAIN s.payment /\ Live(t) \subseteq DOMAIN t.payment
  BY DEF Live
<1>2. \A p \in DOMAIN s.payment : OnOf(t.payment[p], i) = OnOf(s.payment[p], i)
  BY DEF OnOf
<1>3. \A p \in DOMAIN t.payment : g[p] = OnOf(t.payment[p], i) /\ g[p] \in Int
  BY DEF OnOf, OfBooks, IsPayment
<1>4. /\ IsFiniteSet(Live(s)) /\ \A p \in Live(s) : Settling(s, i)[p] = g[p]
      /\ Allocated(s, i) = SumFunctionOnSet(Settling(s, i), Live(s)) /\ Allocated(s, i) \in Int
  BY <1>1, <1>2, <1>3, SettlingIs
<1>5. /\ IsFiniteSet(Live(t)) /\ \A p \in Live(t) : Settling(t, i)[p] = g[p]
      /\ Allocated(t, i) = SumFunctionOnSet(Settling(t, i), Live(t)) /\ Allocated(t, i) \in Int
  BY <1>1, <1>3, SettlingIs
<1>6. SumFunctionOnSet(Settling(s, i), Live(s)) = SumFunctionOnSet(g, Live(s))
  BY <1>4, SumSame
<1>7. SumFunctionOnSet(Settling(t, i), Live(t)) = SumFunctionOnSet(g, Live(t))
  BY <1>5, SumSame
<1> QED
  BY <1>1, <1>3, <1>4, <1>5, <1>6, <1>7

\* The books as a step leaves them.
LEMMA Next1 ==
  ASSUME BooksTypes', NEW t, t = Now'
  PROVE  OfBooks(t) /\ t.invoice = invoice' /\ t.payment = payment'
BY DEF BooksTypes, RowsTyped, Now

LEMMA PaySettles ==
  ASSUME BooksTypes, BooksTypes', Alone, ~overlapped, NEW r \in Request, Pay(r), ~Refuse(r),
         NEW i \in DOMAIN invoice, NEW t, t = Now'
  PROVE  Balance(t, i) = 0 \/ Sign(Balance(t, i)) = Sign(Balance(Now, i))
<1> DEFINE s == seen[r]
<1>1. /\ pc[r] = "read" /\ op[r].kind = "pay" /\ ~Elsewhere(s, op[r]) /\ PlanHolds(s, op[r])
      /\ invoice' = invoice
  BY PayIs
<1>2. PICK m : /\ payment' = Also(payment, r, m) /\ IsPayment(m) /\ ~m.voided
               /\ m.on = Requested(s, op[r])
  BY PayIs
<1>3. /\ r \notin DOMAIN payment /\ op[r] \in Ops /\ OfBooks(s)
      /\ s = Now /\ s.invoice = invoice /\ s.payment = payment
  BY <1>1, Reading, AloneSees
<1>4. /\ DOMAIN payment' = DOMAIN payment \cup {r} /\ payment'[r] = m
      /\ \A p \in DOMAIN payment : payment'[p] = payment[p]
  BY <1>2, <1>3, AddsPayment
<1>5. OfBooks(t) /\ t.invoice = invoice /\ t.payment = payment'
  BY <1>1, Next1
<1> DEFINE g == [p \in DOMAIN t.payment |-> OnOf(t.payment[p], i)]
<1>6. /\ IsFiniteSet(Live(s)) /\ Live(s) \subseteq DOMAIN payment
      /\ Allocated(s, i) = SumFunctionOnSet(g, Live(s)) /\ Allocated(s, i) \in Int
      /\ Allocated(t, i) = SumFunctionOnSet(g, Live(t)) /\ Allocated(t, i) \in Int
      /\ \A p \in DOMAIN t.payment : g[p] \in Int /\ g[p] = OnOf(t.payment[p], i)
  <2>1. DOMAIN s.payment \subseteq DOMAIN t.payment /\ \A p \in DOMAIN s.payment : t.payment[p].on = s.payment[p].on
    BY <1>3, <1>4, <1>5
  <2> HIDE DEF s
  <2> QED
    BY <1>3, <1>5, <2>1, Gathered
<1>7. Live(t) = Live(s) \cup {r} /\ r \notin Live(s)
  BY <1>2, <1>3, <1>4, <1>5 DEF Live
<1> HIDE DEF g, s
<1>8. Allocated(t, i) = Allocated(s, i) + OnOf(m, i)
  <2>1. r \in DOMAIN t.payment /\ g[r] = OnOf(m, i) /\ \A p \in Live(s) \cup {r} : g[p] \in Int
    BY <1>4, <1>5, <1>6
  <2>2. SumFunctionOnSet(g, Live(s) \cup {r}) = SumFunctionOnSet(g, Live(s)) + g[r]
    <3>1. IsFiniteSet(Live(s)) /\ r \notin Live(s) /\ \A p \in Live(s) \cup {r} : g[p] \in Int
      BY <1>6, <1>7, <2>1
    <3> QED
      BY <3>1, SumWith
  <2> QED
    BY <1>6, <1>7, <2>1, <2>2
<1>9. OnOf(m, i) \in Int
  BY <1>2 DEF OnOf, IsPayment
<1>10. Refunded(t, i) = Refunded(s, i) /\ t.invoice[i].total = s.invoice[i].total
  BY <1>3, <1>5 DEF Refunded
<1>11. Refunded(s, i) \in Int /\ s.invoice[i].total \in Int
  BY <1>3, BalanceIs DEF OfBooks, IsInvoice
<1>12. Balance(t, i) = Balance(s, i) - OnOf(m, i) /\ Balance(s, i) \in Int
  BY <1>6, <1>8, <1>9, <1>10, <1>11 DEF Balance
<1>13. CASE i \notin DOMAIN m.on
  <2>1. OnOf(m, i) = 0
    BY <1>13 DEF OnOf
  <2> QED
    BY <1>3, <1>12, <2>1
<1>14. CASE i \in DOMAIN m.on
  <2>1. OnOf(m, i) = m.on[i]
    BY <1>14 DEF OnOf
  <2>2. Sign(m.on[i]) = Sign(Balance(s, i)) /\ Magnitude(m.on[i]) <= Magnitude(Balance(s, i))
    BY <1>1, <1>2, <1>3, <1>14, PlanIs
  <2>3. \A a, b \in Int : Sign(a) = Sign(b) /\ Magnitude(a) <= Magnitude(b) => b - a = 0 \/ Sign(b - a) = Sign(b)
    BY DEF Sign, Magnitude
  <2> QED
    BY <1>3, <1>9, <1>12, <2>1, <2>2, <2>3
<1> QED
  BY <1>13, <1>14

\* A payment in that is all one sale's settles no more of it than it brought.
LEMMA OwnSettles ==
  ASSUME BooksTypes, PaymentNotOverspent, NEW c, NEW p \in Own(Now, c)
  PROVE  /\ payment[p].on[c] \in Int /\ payment[p].amount \in Int
         /\ payment[p].on[c] <= payment[p].amount
<1>1. OfBooks(Now)
  BY DEF BooksTypes, RowsTyped
<1>2. p \in DOMAIN payment /\ IsPayment(payment[p]) /\ DOMAIN payment[p].on = {c} /\ payment[p].amount > 0
  BY <1>1, OwnIs, NowIs
<1> DEFINE n == payment[p].on[c]
<1>3. n \in Int /\ payment[p].amount \in Int
  BY <1>2 DEF IsPayment
<1>4. Amounts(Only(c, n)) = n /\ DOMAIN Only(c, n) = {c} /\ Only(c, n)[c] = n
  BY <1>3, AmountsOne
<1>5. Amounts(payment[p].on) = n
  <2>1. PICK f : f = payment[p].on
    OBVIOUS
  <2>2. PICK one : one = Only(c, n)
    OBVIOUS
  <2>3. DOMAIN f = DOMAIN one /\ (\A x \in DOMAIN f : f[x] = one[x]) /\ IsFiniteSet(DOMAIN f)
    BY <1>2, <1>4, <2>1, <2>2, FS_Singleton
  <2>4. Amounts(f) = Amounts(one)
    BY <2>3, AmountsSame
  <2> QED
    BY <1>4, <2>1, <2>2, <2>4
<1>6. Magnitude(n) <= Magnitude(payment[p].amount)
  BY <1>2, <1>5 DEF PaymentNotOverspent
<1> HIDE DEF n
<1>7. n <= payment[p].amount
  BY <1>2, <1>3, <1>6 DEF Magnitude
<1> QED
  BY <1>3, <1>7 DEF n

\* What a correction leaves of a sale comes to no more than it plans for.
LEMMA CorrectionSettles ==
  ASSUME BooksTypes, BooksTypes', Alone, ~overlapped, PaymentNotOverspent,
         NEW r \in Request, Correct(r), ~Refuse(r), NEW t, t = Now'
  PROVE  OwedAfter(seen[r], op[r]) <= 0 => Balance(t, op[r].invoice) <= 0
<1> DEFINE s == seen[r]
           o == op[r]
           c == o.invoice
           T == TotalAfter(s, o)
           A == Allocated(s, c)
           R == Refunded(s, c)
           F == Shortfall(s, o)
           X == Excess(s, o)
           follows == Follows(s, o)
<1>1. /\ pc[r] = "read" /\ o.kind = "correct" /\ ~Refuses(s, o)
      /\ c \in DOMAIN invoice /\ c \in DOMAIN s.invoice /\ DOMAIN invoice' = DOMAIN invoice
      /\ invoice'[c].total = T
  BY CorrectIs
<1>2. /\ r \notin DOMAIN payment /\ o \in Ops /\ OfBooks(s)
      /\ s = Now /\ s.invoice = invoice /\ s.payment = payment
  BY <1>1, Reading, AloneSees
<1>3. OfBooks(t) /\ t.invoice = invoice' /\ t.payment = payment'
  BY Next1
<1>4. /\ DOMAIN payment \subseteq DOMAIN payment'
      /\ \A p \in DOMAIN payment :
           payment'[p].on = payment[p].on /\ payment'[p].voided = (payment[p].voided \/ p \in DOMAIN follows)
  <2>1. LET q == Follows(seen[r], op[r])
        IN  /\ DOMAIN payment \subseteq DOMAIN payment'
            /\ \A p \in DOMAIN payment :
                 /\ IsPayment(payment'[p]) /\ payment'[p].on = payment[p].on
                 /\ payment'[p].amount = payment[p].amount
                 /\ payment'[p].voided = (payment[p].voided \/ p \in DOMAIN q)
                 /\ payment'[p].customer = IF p \in MoveAlong(seen[r], op[r]) THEN CustomerAfter(seen[r], op[r])
                                           ELSE payment[p].customer
    BY CorrectPays
  <2> HIDE DEF s, o
  <2> QED
    BY <2>1 DEF s, o
<1> DEFINE Recorded(p) ==
      /\ ~payment[p].voided /\ DOMAIN payment' = DOMAIN payment \cup {r}
      /\ ~payment'[r].voided /\ payment'[r].on = Only(c, follows[p])
<1>5. \/ DOMAIN payment' = DOMAIN payment /\ \A p \in DOMAIN follows : ~(follows[p] > 0)
      \/ \E p \in DOMAIN payment : DOMAIN follows = {p} /\ follows[p] > 0 /\ follows[p] \in Int /\ Recorded(p)
  <2>1. \/ DOMAIN payment' = DOMAIN payment /\ replaces' = replaces /\ \A p \in DOMAIN follows : ~(follows[p] > 0)
        \/ \E p \in DOMAIN payment, n \in Int :
             /\ DOMAIN follows = {p} /\ follows[p] = n /\ n > 0
             /\ ~payment[p].voided /\ replaces' = Also(replaces, r, p)
             /\ DOMAIN payment' = DOMAIN payment \cup {r}
             /\ IsPayment(payment'[r]) /\ ~payment'[r].voided
             /\ payment'[r].customer = CustomerAfter(seen[r], op[r])
             /\ payment'[r].amount = n /\ payment'[r].on = Only(op[r].invoice, n)
    BY CorrectPays
  <2> HIDE DEF follows
  <2> QED
    BY <2>1
<1>6. T \in Int /\ X \in Int /\ F \in Int
  BY <1>1, <1>2, PlannedAre
<1> DEFINE g == [p \in DOMAIN t.payment |-> OnOf(t.payment[p], c)]
<1>7. /\ IsFiniteSet(Live(s)) /\ Live(s) \subseteq DOMAIN payment
      /\ A = SumFunctionOnSet(g, Live(s)) /\ A \in Int
      /\ Allocated(t, c) = SumFunctionOnSet(g, Live(t)) /\ Allocated(t, c) \in Int
      /\ \A p \in DOMAIN t.payment : g[p] \in Int /\ g[p] = OnOf(t.payment[p], c)
  <2>1. DOMAIN s.payment \subseteq DOMAIN t.payment /\ \A p \in DOMAIN s.payment : t.payment[p].on = s.payment[p].on
    BY <1>2, <1>3, <1>4
  <2> HIDE DEF s, c
  <2> QED
    BY <1>2, <1>3, <2>1, Gathered
<1>8. R \in Int /\ Refunded(t, c) = R /\ t.invoice[c].total = T
  <2>1. invoice'[c].refunded = invoice[c].refunded
    BY <1>1, CorrectIs
  <2> QED
    BY <1>1, <1>2, <1>3, <2>1, BalanceIs DEF Refunded
<1>9. Balance(t, c) = T - Allocated(t, c) - R
  BY <1>8 DEF Balance
<1>10. F = T - Smaller(A, T) - R /\ X = A - T
  BY DEF Shortfall, Excess
<1>11. \/ ~Raised(s, o) /\ X <= 0 /\ DOMAIN follows = {}
       \/ \E p \in Own(s, c) : Raised(s, o) /\ DOMAIN follows = {p} /\ follows[p] = payment[p].amount + F
       \/ \E p \in Own(s, c) :
            /\ ~Raised(s, o) /\ X > 0 /\ payment[p].on[c] >= X
            /\ DOMAIN follows = {p} /\ follows[p] = payment[p].amount - X
  BY <1>1, <1>2, FollowsIs, ZenonT(60)
<1>12. OwedAfter(s, o) = IF Raised(s, o) THEN 0 ELSE F
  BY DEF OwedAfter
<1>13. ASSUME NEW p \in Own(s, c)
       PROVE  /\ p \in Live(s) /\ p \in DOMAIN payment /\ g[p] = payment[p].on[c]
              /\ payment[p].on[c] \in Int /\ payment[p].amount \in Int /\ payment[p].amount > 0
              /\ payment[p].on[c] <= payment[p].amount
  <2>1. p \in Live(s) /\ DOMAIN payment[p].on = {c} /\ p \in DOMAIN payment /\ payment[p].amount > 0
    BY <1>2, OwnIs
  <2>2. /\ payment[p].on[c] \in Int /\ payment[p].amount \in Int /\ payment[p].on[c] <= payment[p].amount
    BY <1>2, OwnSettles
  <2>3. p \in DOMAIN t.payment /\ t.payment[p].on = payment[p].on
    BY <1>3, <1>4, <2>1
  <2>4. g[p] = payment[p].on[c]
    BY <1>7, <2>1, <2>3 DEF OnOf
  <2> QED
    BY <2>1, <2>2, <2>4
<1>14. \A p \in DOMAIN payment : p \in Live(t) <=> p \in Live(s) /\ p \notin DOMAIN follows
  BY <1>2, <1>3, <1>4 DEF Live
<1> HIDE DEF g, s, o, c, T, A, R, F, X, follows
\* The followed payment, and what stands in its place.
<1>15. ASSUME NEW p \in Own(s, c), DOMAIN follows = {p}, follows[p] \in Int, follows[p] > 0
       PROVE  Allocated(t, c) = A - payment[p].on[c] + follows[p]
  <2>1. Recorded(p)
    BY <1>5, <1>15
  <2>2. Live(t) = (Live(s) \ {p}) \cup {r} /\ r \notin Live(s) \ {p}
    <3>1. r \notin Live(s) /\ Live(t) \subseteq DOMAIN payment \cup {r} /\ r \in Live(t)
      BY <1>2, <1>3, <1>7, <2>1 DEF Live
    <3> QED
      BY <1>7, <1>14, <1>15, <3>1
  <2>3. g[r] = follows[p]
    <3>1. DOMAIN Only(c, follows[p]) = {c} /\ Only(c, follows[p])[c] = follows[p]
      BY OnlyIs
    <3>2. r \in DOMAIN t.payment /\ t.payment[r].on = Only(c, follows[p])
      BY <1>3, <2>1
    <3> QED
      BY <1>7, <3>1, <3>2 DEF OnOf
  <2>4. p \in Live(s) /\ g[p] = payment[p].on[c] /\ payment[p].on[c] \in Int
    BY <1>13
  <2>5. /\ IsFiniteSet(Live(s)) /\ IsFiniteSet(Live(s) \ {p})
        /\ \A q \in Live(s) : g[q] \in Int
        /\ \A q \in (Live(s) \ {p}) \cup {r} : g[q] \in Int
    BY <1>3, <1>4, <1>7, <1>15, <2>3, FS_RemoveElement
  <2>6. SumFunctionOnSet(g, Live(s)) = g[p] + SumFunctionOnSet(g, Live(s) \ {p})
    BY <2>4, <2>5, SumWithout
  <2>7. SumFunctionOnSet(g, (Live(s) \ {p}) \cup {r}) = SumFunctionOnSet(g, Live(s) \ {p}) + g[r]
    BY <2>2, <2>5, SumWith
  <2>8. SumFunctionOnSet(g, Live(s) \ {p}) \in Int
    BY <2>5, SumType
  <2> QED
    BY <1>7, <1>15, <2>2, <2>3, <2>4, <2>6, <2>7, <2>8
<1>16. ASSUME NEW p \in Own(s, c), DOMAIN follows = {p}, ~(follows[p] > 0)
       PROVE  Allocated(t, c) = A - payment[p].on[c]
  <2>1. DOMAIN payment' = DOMAIN payment
    BY <1>5, <1>16
  <2>2. Live(t) = Live(s) \ {p}
    <3>1. Live(t) \subseteq DOMAIN payment
      BY <1>3, <2>1 DEF Live
    <3> QED
      BY <1>7, <1>14, <1>16, <3>1
  <2>3. p \in Live(s) /\ g[p] = payment[p].on[c] /\ payment[p].on[c] \in Int
    BY <1>13
  <2>4. /\ IsFiniteSet(Live(s)) /\ IsFiniteSet(Live(s) \ {p}) /\ \A q \in Live(s) : g[q] \in Int
    BY <1>3, <1>4, <1>7, FS_RemoveElement
  <2>5. SumFunctionOnSet(g, Live(s)) = g[p] + SumFunctionOnSet(g, Live(s) \ {p})
    BY <2>3, <2>4, SumWithout
  <2>6. SumFunctionOnSet(g, Live(s) \ {p}) \in Int
    BY <2>4, SumType
  <2> QED
    BY <1>7, <2>2, <2>3, <2>5, <2>6
<1>17. CASE ~Raised(s, o) /\ X <= 0 /\ DOMAIN follows = {}
  <2>1. DOMAIN payment' = DOMAIN payment
    BY <1>5, <1>17
  <2>2. Live(t) = Live(s)
    <3>1. Live(t) \subseteq DOMAIN payment
      BY <1>3, <2>1 DEF Live
    <3> QED
      BY <1>7, <1>14, <1>17, <3>1
  <2>3. Allocated(t, c) = A
    BY <1>7, <2>2
  <2>4. Smaller(A, T) = A
    BY <1>6, <1>7, <1>10, <1>17 DEF Smaller
  <2>5. F <= 0 => T - A - R <= 0
    BY <1>6, <1>7, <1>8, <1>10, <2>4
  <2> QED
    BY <1>9, <1>12, <1>17, <2>3, <2>5 DEF s, o, c
<1>18. ASSUME NEW p \in Own(s, c), Raised(s, o), DOMAIN follows = {p}, follows[p] = payment[p].amount + F
       PROVE  Balance(t, c) <= 0
  <2>1. F > 0
    BY <1>18 DEF Raised, F
  <2>2. /\ payment[p].on[c] \in Int /\ payment[p].amount \in Int /\ payment[p].amount > 0
        /\ payment[p].on[c] <= payment[p].amount
    BY <1>13
  <2>3. follows[p] \in Int /\ follows[p] > 0
    BY <1>6, <1>18, <2>1, <2>2
  <2>4. Allocated(t, c) = A - payment[p].on[c] + payment[p].amount + F
    BY <1>6, <1>7, <1>15, <1>18, <2>2, <2>3
  <2>5. Smaller(A, T) <= A /\ Smaller(A, T) \in Int
    BY <1>6, <1>7 DEF Smaller
  <2>6. Allocated(t, c) >= A + F
    BY <1>6, <1>7, <2>2, <2>4
  <2> QED
    BY <1>6, <1>7, <1>8, <1>9, <1>10, <2>5, <2>6
<1>19. ASSUME NEW p \in Own(s, c), X > 0, payment[p].on[c] >= X, DOMAIN follows = {p},
              follows[p] = payment[p].amount - X
       PROVE  R >= 0 => Balance(t, c) <= 0
  <2>1. /\ payment[p].on[c] \in Int /\ payment[p].amount \in Int
        /\ payment[p].on[c] <= payment[p].amount
    BY <1>13
  <2>2. follows[p] \in Int /\ follows[p] >= 0
    BY <1>6, <1>19, <2>1
  <2>3. Allocated(t, c) = A - payment[p].on[c] + follows[p]
    <3>1. CASE follows[p] > 0
      BY <1>15, <1>19, <2>2, <3>1
    <3>2. CASE ~(follows[p] > 0)
      BY <1>7, <1>16, <1>19, <2>1, <2>2, <3>2
    <3> QED
      BY <3>1, <3>2
  <2>4. Allocated(t, c) >= A - X
    BY <1>6, <1>7, <1>19, <2>1, <2>3
  <2> QED
    BY <1>6, <1>7, <1>8, <1>9, <1>10, <2>4
<1>20. R >= 0
  <2>1. Refunded(s, c) \in Nat
    BY <1>1, <1>2, BalanceIs
  <2> QED
    BY <2>1 DEF R
<1> QED
  BY <1>11, <1>17, <1>18, <1>19, <1>20 DEF s, o, c

LEMMA OwedSees ==
  ASSUME BooksTypes, Alone, ~overlapped, NEW r \in Request, Sell(r), ~Refuse(r), ~op[r].override,
         op[r].paid < Amounts(op[r].lines)
  PROVE  ~Owes(Now, op[r].customer)
<1>1. pc[r] = "read" /\ MayTakeCredit(seen[r], op[r])
  BY SellIs
<1>2. seen[r] = Now
  BY <1>1, AloneSees
<1> QED
  BY <1>1, <1>2 DEF MayTakeCredit

LEMMA WalkInPays ==
  ASSUME BooksTypes, BooksTypes', Alone, ~overlapped, PaymentNotOverspent,
         NEW r \in Request, Correct(r), ~Refuse(r), invoice'[op[r].invoice].customer = WalkIn,
         NEW t, t = Now'
  PROVE  Balance(t, op[r].invoice) <= 0
<1>1. /\ pc[r] = "read" /\ op[r].kind = "correct" /\ ~Refuses(seen[r], op[r])
      /\ op[r].invoice \in DOMAIN seen[r].invoice
      /\ invoice'[op[r].invoice].customer = CustomerAfter(seen[r], op[r])
  BY CorrectIs
<1>2. op[r] \in Ops /\ OfBooks(seen[r])
  BY <1>1, Reading
<1>3. Shortfall(seen[r], op[r]) \in Int
  BY <1>1, <1>2, PlannedAre
<1>4. ~(OwedAfter(seen[r], op[r]) > 0)
  BY <1>1 DEF Refuses, WalkInWouldOwe
<1>5. OwedAfter(seen[r], op[r]) <= 0
  <2>1. OwedAfter(seen[r], op[r]) \in Int
    BY <1>3 DEF OwedAfter
  <2> QED
    BY <1>4, <2>1
<1> QED
  BY <1>5, CorrectionSettles

LEMMA OwingStep ==
  ASSUME MoneyInv, MoneyInv', Next
  PROVE  NeverOverAllocated /\ CreditRule /\ WalkInNeverOwes
<1>1. BooksTypes /\ BooksTypes' /\ Alone /\ PaymentNotOverspent
  BY DEF MoneyInv, MoneySettlesOnce
<1>2. PICK t : t = Now'
  OBVIOUS
<1>3. NeverOverAllocated
  <2> SUFFICES ASSUME ~overlapped, NEW r \in Request, Asks(r, "pay"), pc'[r] = "done",
                      NEW i \in DOMAIN invoice
               PROVE  Balance(Now, i)' = 0 \/ Sign(Balance(Now, i)') = Sign(Balance(Now, i))
    BY DEF NeverOverAllocated
  <2>1. Pay(r) /\ ~Refuse(r)
    BY <1>1, WhoEnds DEF Asks
  <2>2. Balance(t, i) = 0 \/ Sign(Balance(t, i)) = Sign(Balance(Now, i))
    BY <1>1, <1>2, <2>1, PaySettles
  <2> QED
    BY <1>2, <2>2
<1>4. CreditRule
  <2> SUFFICES ASSUME ~overlapped, NEW r \in Request, Asks(r, "sell"), pc'[r] = "done",
                      ~op[r].override, op[r].paid < Amounts(op[r].lines)
               PROVE  ~Owes(Now, op[r].customer)
    BY DEF CreditRule
  <2>1. Sell(r) /\ ~Refuse(r)
    BY <1>1, WhoEnds DEF Asks
  <2> QED
    BY <1>1, <2>1, OwedSees
<1>5. WalkInNeverOwes
  <2> SUFFICES ASSUME ~overlapped, NEW r \in Request, Corrected(r),
                      invoice'[op[r].invoice].customer = WalkIn
               PROVE  Balance(Now, op[r].invoice)' <= 0
    BY DEF WalkInNeverOwes
  <2>1. Correct(r) /\ ~Refuse(r) /\ op' = op
    <3>1. Correct(r) /\ ~Refuse(r)
      BY <1>1, WhoEnds DEF Asks, Corrected
    <3>2. op' = op
      BY <1>1, <3>1, CorrectIs DEF End
    <3> QED
      BY <3>1, <3>2
  <2>2. Balance(t, op[r].invoice) <= 0
    BY <1>1, <1>2, <2>1, WalkInPays
  <2>3. Balance(Now, op[r].invoice)' = Balance(t, op[r].invoice)
    BY <1>2, <2>1
  <2> QED
    BY <2>2, <2>3
<1> QED
  BY <1>3, <1>4, <1>5

\* While requests do not overlap, a payment never turns a debt into a credit, nobody who
\* still owes is sold more on credit without the override, and no correction leaves a
\* walk-in's sale owing, however a payment is allocated and a price put right:
\* PaymentService.create, SaleService.create, SaleCorrectionService.correct.
THEOREM NobodyOwesUnallowed == Spec => OwingAsAllowed
<1>1. MoneyInv /\ MoneyInv' /\ [Next]_vars => [NeverOverAllocated /\ CreditRule /\ WalkInNeverOwes]_vars
  BY OwingStep
<1> QED
  BY <1>1, MoneyAlways, PTL DEF Spec, OwingAsAllowed

-----------------------------------------------------------------------------
(* The feeds: pages, and what has not been read yet is still ahead. *)

SyncTypes ==
  /\ SyncTypeOK /\ Committed \subseteq Rows
  /\ \A i \in Committed : row[i] \in Version

Forward == {p \in Rows \X Rows : PagedBefore(p[1], p[2])}
Backward == {p \in Rows \X Rows : PagedBefore(p[2], p[1])}

LEMMA PagesAreOrdered ==
  ASSUME SyncTypes
  PROVE  /\ IsFiniteSet(Committed)
         /\ \A i, j \in Rows : /\ <<i, j>> \in Forward <=> PagedBefore(i, j)
                               /\ <<i, j>> \in Backward <=> PagedBefore(j, i)
         /\ TotalOrder(Forward, Committed) /\ TotalOrder(Backward, Committed)
<1>1. IsFiniteSet(Committed)
  BY SyncAssumption, FS_Subset DEF SyncTypes
<1>2. \A i, j \in Rows : /\ <<i, j>> \in Forward <=> PagedBefore(i, j)
                         /\ <<i, j>> \in Backward <=> PagedBefore(j, i)
  BY DEF Forward, Backward
<1>3. \A i \in Committed : i \in Rows /\ i \in Nat /\ row[i].at \in Nat
  <2>1. \A n \in 0..MaxTime : n \in Nat
    BY SyncAssumption
  <2>2. QED
    BY <2>1, SyncAssumption DEF SyncTypes, Version
<1>4. /\ \A i \in Committed : ~PagedBefore(i, i)
      /\ \A i, j \in Committed : i = j \/ PagedBefore(i, j) \/ PagedBefore(j, i)
      /\ \A i, j, k \in Committed : PagedBefore(i, j) /\ PagedBefore(j, k) => PagedBefore(i, k)
  BY <1>3 DEF PagedBefore
<1>5. QED
  BY <1>1, <1>2, <1>3, <1>4 DEF TotalOrder

\* What a page leaves out comes after its last row, and then the page is full.
LEMMA PageIsFirst ==
  ASSUME SyncTypes, NEW S \in SUBSET Committed, NEW i \in S, i \notin PageOf(S)
  PROVE  /\ Cardinality(PageOf(S)) = Limit
         /\ LastOf(PageOf(S)) \in PageOf(S) /\ PagedBefore(LastOf(PageOf(S)), i)
<1>1. /\ IsFiniteSet(S) /\ TotalOrder(Forward, S)
      /\ \A a, b \in S : <<a, b>> \in Forward <=> PagedBefore(a, b)
  BY PagesAreOrdered, FS_Subset DEF TotalOrder, SyncTypes
<1>2. PageOf(S) = FirstFew(Forward, S, Limit)
  <2>1. \A a \in S : {j \in S : PagedBefore(j, a)} = Ahead(Forward, S, a)
    BY <1>1 DEF Ahead
  <2>2. QED
    BY <2>1 DEF PageOf, FirstFew
<1>3. (\A j \in PageOf(S) : <<j, i>> \in Forward) /\ Cardinality(PageOf(S)) = Limit
  BY <1>1, <1>2, LeftOut, SyncAssumption
<1>4. PageOf(S) \in SUBSET S /\ PageOf(S) # {}
  BY <1>3, FS_EmptySet, SyncAssumption DEF PageOf
<1>5. \E a \in PageOf(S) : \A j \in PageOf(S) \ {a} : PagedBefore(j, a)
  <2>1. \E a \in PageOf(S) : \A j \in PageOf(S) \ {a} : <<j, a>> \in Forward
    BY <1>1, <1>4, LastThere
  <2>2. QED
    BY <1>1, <1>4, <2>1
<1>6. LastOf(PageOf(S)) \in PageOf(S)
  BY <1>5 DEF LastOf
<1>7. QED
  BY <1>1, <1>3, <1>4, <1>6

LEMMA PageBackIsFirst ==
  ASSUME SyncTypes, NEW S \in SUBSET Committed, NEW i \in S, i \notin PageBackOf(S)
  PROVE  /\ Cardinality(PageBackOf(S)) = Limit
         /\ FirstOf(PageBackOf(S)) \in PageBackOf(S) /\ PagedBefore(i, FirstOf(PageBackOf(S)))
<1>1. /\ IsFiniteSet(S) /\ TotalOrder(Backward, S)
      /\ \A a, b \in S : <<a, b>> \in Backward <=> PagedBefore(b, a)
  BY PagesAreOrdered, FS_Subset DEF TotalOrder, SyncTypes
<1>2. PageBackOf(S) = FirstFew(Backward, S, Limit)
  <2>1. \A a \in S : {j \in S : PagedBefore(a, j)} = Ahead(Backward, S, a)
    BY <1>1 DEF Ahead
  <2>2. QED
    BY <2>1 DEF PageBackOf, FirstFew
<1>3. (\A j \in PageBackOf(S) : <<j, i>> \in Backward) /\ Cardinality(PageBackOf(S)) = Limit
  BY <1>1, <1>2, LeftOut, SyncAssumption
<1>4. PageBackOf(S) \in SUBSET S /\ PageBackOf(S) # {}
  BY <1>3, FS_EmptySet, SyncAssumption DEF PageBackOf
<1>5. \E a \in PageBackOf(S) : \A j \in PageBackOf(S) \ {a} : PagedBefore(a, j)
  <2>1. \E a \in PageBackOf(S) : \A j \in PageBackOf(S) \ {a} : <<j, a>> \in Backward
    BY <1>1, <1>4, LastThere
  <2>2. QED
    BY <1>1, <1>4, <2>1
<1>6. FirstOf(PageBackOf(S)) \in PageBackOf(S)
  BY <1>5 DEF FirstOf
<1>7. QED
  BY <1>1, <1>3, <1>4, <1>6

\* A full page has a last row; so has one that is not empty, read backwards.
LEMMA PageEnds ==
  ASSUME SyncTypes, NEW S \in SUBSET Committed
  PROVE  /\ PageOf(S) \subseteq S /\ PageBackOf(S) \subseteq S
         /\ PageOf(S) # {} => LastOf(PageOf(S)) \in PageOf(S)
         /\ PageBackOf(S) # {} => FirstOf(PageBackOf(S)) \in PageBackOf(S)
<1>1. /\ IsFiniteSet(Committed) /\ TotalOrder(Forward, Committed)
      /\ \A i, j \in Committed : <<i, j>> \in Forward <=> PagedBefore(i, j)
  BY PagesAreOrdered DEF SyncTypes
<1>2. PageOf(S) \in SUBSET Committed /\ PageBackOf(S) \in SUBSET Committed
      /\ PageOf(S) \subseteq S /\ PageBackOf(S) \subseteq S
  BY DEF PageOf, PageBackOf
<1>3. PageOf(S) # {} => \E a \in PageOf(S) : \A j \in PageOf(S) \ {a} : PagedBefore(j, a)
  BY <1>1, <1>2, LastThere, ZenonT(60)
<1>4. PageBackOf(S) # {} => \E a \in PageBackOf(S) : \A j \in PageBackOf(S) \ {a} : PagedBefore(a, j)
  <2>1. PageBackOf(S) # {} => \E a \in PageBackOf(S) : \A j \in PageBackOf(S) \ {a} : <<a, j>> \in Forward
    BY <1>1, <1>2, FirstThere
  <2>2. QED
    BY <1>1, <1>2, <2>1
<1>5. QED
  BY <1>2, <1>3, <1>4 DEF LastOf, FirstOf

-----------------------------------------------------------------------------
(* What is so of a feed in every state. *)

\* Somebody at p has gone past nothing that may still be written: p is behind the clock
\* by the lag, or where every device begins.
Behind(p) == p \in Place /\ (p.at <= now - Lag \/ p.at = -1)

\* A row as it is, or of the sales some version of it.
AsItIs(i, version) == version = row[i].version \/ (feed = "sales" /\ version > 0)

Kept(i) == IF i \in DOMAIN reply.rows THEN reply.rows[i] ELSE has[i]

RowsWritten ==
  /\ \A i \in Committed : row[i].at <= now
  /\ \A i \in Rows : writing[i] # NoRow =>
       /\ writing[i] \in Version /\ writing[i].at <= now
       /\ feed = "ledger" => row[i] = NoRow
       /\ feed = "sales" /\ row[i] # NoRow => writing[i].at = row[i].at

ReplyCovers ==
  reply # NoRow =>
    /\ Behind(reply.next)
    /\ \A i \in Rows : Kept(i) \in 0..MaxVersion
    /\ \A i \in Committed \ late : ~After(reply.next, i) => AsItIs(i, Kept(i))

ReaderSees ==
  reader # NoRow =>
    /\ reader = [place |-> reader.place, shown |-> reader.shown, had |-> reader.had, more |-> reader.more]
    /\ \A i \in reader.had \ moved : i \in Committed /\ (i \in reader.shown \/ (reader.more /\ Before(reader.place, i)))

SyncInv ==
  /\ SyncTypes /\ RowsWritten /\ Behind(place) /\ NothingSteppedOver /\ ReplyCovers /\ ReaderSees

LEMMA SyncNumbers == MaxTime \in Nat /\ MaxVersion \in Nat \ {0} /\ Lag \in Nat /\ Limit \in Nat \ {0} /\ AllIds \in Nat
                     /\ \A i \in Rows : i \in Nat /\ i < AllIds
  BY SyncAssumption

LEMMA SyncBegins ==
  ASSUME SyncInit
  PROVE  SyncInv
<1>1. Committed = {}
  BY DEF SyncInit, Committed
<1>2. SyncTypes
  BY <1>1, SyncNumbers DEF SyncTypes, SyncTypeOK, SyncInit, Place
<1>3. Behind(place)
  BY <1>2 DEF Behind, SyncInit, SyncTypes, SyncTypeOK
<1>4. QED
  BY <1>1, <1>2, <1>3 DEF SyncInv, RowsWritten, NothingSteppedOver, ReplyCovers, ReaderSees, SyncInit

\* Time only takes the clock away from where anybody is.
LEMMA TickKeepsFeed ==
  ASSUME SyncInv, Tick
  PROVE  SyncInv'
<1> USE DEF SyncInv
<1>1. now \in Nat /\ now' = now + 1 /\ now' \in 0..MaxTime
  BY SyncNumbers DEF Tick, SyncTypes, SyncTypeOK
<1>2. UNCHANGED <<feed, row, writing, place, has, reply, reader, late, moved>>
  BY DEF Tick
<1>3. SyncTypes'
  BY <1>1, <1>2 DEF SyncTypes, SyncTypeOK, Committed
<1>4. \A i \in Rows : /\ row[i] # NoRow => row[i] \in Version /\ row[i].at \in Int
                      /\ writing[i] \in Version => writing[i].at \in Int
  BY SyncNumbers DEF SyncTypes, Version, Committed
<1>5. RowsWritten'
  BY <1>1, <1>2, <1>4 DEF RowsWritten, Committed
<1>6. \A p : Behind(p) => Behind(p)'
  BY <1>1, SyncNumbers DEF Behind, Place
<1>7. Behind(place)'
  BY <1>2, <1>6 DEF Behind
<1>8. NothingSteppedOver'
  BY <1>2 DEF NothingSteppedOver, Committed, After
<1>9. ReplyCovers'
  BY <1>2, <1>6 DEF ReplyCovers, Behind, Committed, After, AsItIs, Kept
<1>10. ReaderSees'
  BY <1>2 DEF ReaderSees, Committed, Before
<1>11. QED
  BY <1>3, <1>5, <1>7, <1>8, <1>9, <1>10

\* What is not committed nobody reads.
LEMMA WriteKeepsFeed ==
  ASSUME SyncInv, NEW i \in Rows, WriteRow(i)
  PROVE  SyncInv'
<1> USE DEF SyncInv
<1>1. UNCHANGED <<feed, now, row, place, has, reply, reader, late, moved>> /\ now \in 0..MaxTime /\ writing[i] = NoRow
  BY DEF WriteRow, SyncTypes, SyncTypeOK
<1> DEFINE v == writing'[i]
<1>2. /\ writing' \in [Rows -> Version \cup {NoRow}] /\ v \in Version /\ v.at <= now
      /\ \A j \in Rows : j # i => writing'[j] = writing[j]
      /\ feed = "ledger" => row[i] = NoRow
      /\ feed = "sales" /\ row[i] # NoRow => v.at = row[i].at
  <2>0. writing \in [Rows -> Version \cup {NoRow}]
    BY DEF SyncTypes, SyncTypeOK
  <2>1. CASE row[i] = NoRow
    <3>1. writing' = [writing EXCEPT ![i] = [at |-> now, version |-> 1]]
      BY <2>1 DEF WriteRow
    <3>2. [at |-> now, version |-> 1] \in Version
      BY <1>1, SyncNumbers DEF Version
    <3>3. QED
      BY <1>1, <2>0, <2>1, <3>1, <3>2, SyncNumbers
  <2>2. CASE row[i] # NoRow
    <3> DEFINE w == [at |-> IF feed = "sales" THEN row[i].at ELSE now, version |-> row[i].version + 1]
    <3>1. writing' = [writing EXCEPT ![i] = w] /\ feed # "ledger" /\ row[i].version < MaxVersion
      BY <2>2 DEF WriteRow
    <3>2. i \in Committed /\ row[i] \in Version /\ row[i].at <= now
      BY <2>2 DEF SyncTypes, Committed, RowsWritten
    <3>3. row[i].at \in 0..MaxTime /\ row[i].version + 1 \in 1..MaxVersion
      BY <3>1, <3>2, SyncNumbers DEF Version
    <3>4. w \in Version /\ w.at <= now /\ (feed = "sales" => w.at = row[i].at)
      BY <1>1, <3>2, <3>3, SyncNumbers DEF Version
    <3> HIDE DEF w
    <3>5. QED
      BY <2>0, <2>2, <3>1, <3>4
  <2>3. QED BY <2>1, <2>2
<1>3. SyncTypes'
  BY <1>1, <1>2 DEF SyncTypes, SyncTypeOK, Committed
<1>4. RowsWritten'
  <2>1. ASSUME NEW j \in Rows, writing'[j] # NoRow
        PROVE  /\ writing'[j] \in Version /\ writing'[j].at <= now
               /\ feed = "ledger" => row[j] = NoRow
               /\ feed = "sales" /\ row[j] # NoRow => writing'[j].at = row[j].at
    BY <1>2, <2>1 DEF RowsWritten
  <2>2. QED
    BY <1>1, <2>1 DEF RowsWritten, Committed
<1>5. QED
  BY <1>1, <1>3, <1>4 DEF Behind, NothingSteppedOver, ReplyCovers, ReaderSees, Committed, After, Before, AsItIs, Kept

LEMMA RollBackKeepsFeed ==
  ASSUME SyncInv, NEW i \in Rows, RollBack(i)
  PROVE  SyncInv'
<1> USE DEF SyncInv
<1>1. /\ UNCHANGED <<feed, now, row, place, has, reply, reader, late, moved>>
      /\ writing' = [writing EXCEPT ![i] = NoRow]
  BY DEF RollBack
<1>2. SyncTypes' /\ RowsWritten'
  BY <1>1 DEF SyncTypes, SyncTypeOK, RowsWritten, Committed
<1>3. QED
  BY <1>1, <1>2 DEF Behind, NothingSteppedOver, ReplyCovers, ReaderSees, Committed, After, Before, AsItIs, Kept

\* A row that commits in time is ahead of everybody; one of the sales that changes stays
\* where it was.
LEMMA CommitKeepsFeed ==
  ASSUME SyncInv, NEW i \in Rows, Commit(i)
  PROVE  SyncInv'
<1> USE DEF SyncInv
<1>1. /\ UNCHANGED <<feed, now, place, has, reply, reader>> /\ now \in 0..MaxTime
      /\ row \in [Rows -> Version \cup {NoRow}] /\ writing \in [Rows -> Version \cup {NoRow}]
  BY DEF Commit, SyncTypes, SyncTypeOK
<1>2. /\ writing[i] # NoRow /\ writing[i] \in Version /\ writing[i].at <= now
      /\ row'[i] = writing[i] /\ row'[i] # NoRow /\ writing'[i] = NoRow
      /\ row' \in [Rows -> Version \cup {NoRow}] /\ writing' \in [Rows -> Version \cup {NoRow}]
      /\ \A j \in Rows : j # i => row'[j] = row[j] /\ writing'[j] = writing[j]
  BY <1>1 DEF Commit, RowsWritten
<1>3. Committed' = Committed \cup {i} /\ (i \in Committed <=> row[i] # NoRow)
  BY <1>2 DEF Committed
<1>4. /\ \A j \in Rows : j # i => (j \in late' <=> j \in late)
      /\ late' \subseteq Rows /\ moved' \subseteq Rows /\ moved \subseteq moved'
      /\ i \in Committed => i \in moved'
  BY <1>3 DEF Commit, SyncTypes, SyncTypeOK
<1>5. SyncTypes'
  <2>1. \A j \in Committed' : row'[j] \in Version
    BY <1>2, <1>3 DEF SyncTypes
  <2>2. SyncTypeOK'
    BY <1>1, <1>2, <1>4 DEF SyncTypes, SyncTypeOK
  <2>3. Committed' \subseteq Rows
    BY DEF Committed
  <2>4. QED
    BY <2>1, <2>2, <2>3 DEF SyncTypes
<1>6. RowsWritten'
  <2>1. \A j \in Committed' : row'[j].at <= now
    <3>1. \A j \in Committed : j # i => row'[j].at <= now
      BY <1>2 DEF RowsWritten, SyncTypes
    <3>2. row'[i].at <= now
      BY <1>2
    <3>3. QED
      BY <1>3, <3>1, <3>2
  <2>2. ASSUME NEW j \in Rows, writing'[j] # NoRow
        PROVE  /\ writing'[j] \in Version /\ writing'[j].at <= now
               /\ feed = "ledger" => row'[j] = NoRow
               /\ feed = "sales" /\ row'[j] # NoRow => writing'[j].at = row'[j].at
    <3>1. j # i /\ writing'[j] = writing[j] /\ row'[j] = row[j]
      BY <1>2, <2>2
    <3>2. QED
      BY <2>2, <3>1 DEF RowsWritten
  <2>3. QED
    BY <1>1, <2>1, <2>2 DEF RowsWritten
<1>7. /\ \A p \in Place : Behind(p) => Behind(p)'
      /\ \A j \in Committed : j # i => /\ \A p \in Place : After(p, j)' = After(p, j) /\ Before(p, j)' = Before(p, j)
                                       /\ \A n \in 0..MaxVersion : AsItIs(j, n)' = AsItIs(j, n)
  BY <1>1, <1>2 DEF Behind, After, Before, AsItIs, Committed
<1>8. ASSUME i \notin late', NEW p \in Place, Behind(p), ~After(p, i)'
      PROVE  /\ i \in Committed \ late /\ ~After(p, i)
             /\ \A n \in 0..MaxVersion : AsItIs(i, n) => AsItIs(i, n)'
  <2>1. CASE feed = "sales" /\ row[i] # NoRow
    <3>1. writing[i].at = row[i].at /\ i \in Committed /\ late' = late
      BY <2>1, <1>2, <1>3 DEF RowsWritten, Commit
    <3>2. ~After(p, i)
      BY <1>2, <1>8, <3>1 DEF After
    <3>3. row[i].version > 0
      BY <3>1, SyncNumbers DEF SyncTypes, Version
    <3>4. QED
      BY <1>1, <1>8, <2>1, <3>1, <3>2, <3>3 DEF AsItIs
  <2>2. CASE ~(feed = "sales" /\ row[i] # NoRow)
    <3>1. ~(now - writing[i].at >= Lag)
      BY <1>8, <2>2 DEF Commit
    <3>2. writing[i].at \in 0..MaxTime /\ now \in 0..MaxTime /\ p.at \in -1..MaxTime
      BY <1>1, <1>2 DEF Version, Place
    <3>3. writing[i].at > p.at
      BY <1>8, <3>1, <3>2, SyncNumbers DEF Behind
    <3>4. QED
      BY <1>2, <1>8, <3>3 DEF After
  <2>3. QED BY <2>1, <2>2
<1>9. Behind(place)'
  BY <1>1 DEF Behind
<1>10. place \in Place /\ has \in [Rows -> 0..MaxVersion]
  BY DEF SyncTypes, SyncTypeOK
<1>11. NothingSteppedOver'
  <2> SUFFICES ASSUME NEW j \in Committed', j \notin late', ~After(place, j)'
               PROVE  AsItIs(j, has[j])'
    BY <1>1 DEF NothingSteppedOver, After, AsItIs
  <2>1. has[j] \in 0..MaxVersion
    BY <1>10, <1>3, <1>5 DEF SyncTypes
  <2>2. CASE j = i
    <3>1. j \in Committed \ late /\ ~After(place, j) /\ (AsItIs(j, has[j]) => AsItIs(j, has[j])')
      <4>1. ~After(place, i)'
        BY <2>2
      <4>2. \A n \in 0..MaxVersion : AsItIs(i, n) => AsItIs(i, n)'
        BY <1>1, <1>8, <1>9, <1>10, <2>2 DEF Behind, After
      <4>3. i \in Committed \ late /\ ~After(place, i)
        BY <1>1, <1>8, <1>9, <1>10, <2>2 DEF Behind, After
      <4>4. QED
        BY <1>1, <2>1, <2>2, <4>2, <4>3 DEF AsItIs
    <3>2. QED
      BY <3>1 DEF NothingSteppedOver, AsItIs
  <2>3. CASE j # i
    <3>1. j \in Committed \ late /\ row'[j] = row[j] /\ j \in Rows
      BY <1>2, <1>3, <1>4, <2>3 DEF SyncTypes
    <3>2. ~After(place, j)
      BY <1>1, <3>1 DEF After
    <3>3. AsItIs(j, has[j])
      BY <3>1, <3>2 DEF NothingSteppedOver, AsItIs
    <3>4. QED
      BY <1>1, <3>1, <3>3 DEF AsItIs
  <2>4. QED BY <2>2, <2>3
<1>12. ReplyCovers'
  <2> SUFFICES ASSUME reply # NoRow PROVE ReplyCovers'
    BY <1>1 DEF ReplyCovers
  <2>1. /\ Behind(reply.next) /\ reply.next \in Place /\ \A j \in Rows : Kept(j) \in 0..MaxVersion
        /\ \A j \in Committed \ late : ~After(reply.next, j) => AsItIs(j, Kept(j))
    BY DEF ReplyCovers, Behind
  <2>2. ASSUME NEW j \in Committed', j \notin late', ~After(reply.next, j)'
        PROVE  AsItIs(j, Kept(j))'
    <3>1. j \in Rows /\ Kept(j) \in 0..MaxVersion
      BY <1>5, <2>1 DEF SyncTypes
    <3>2. CASE j = i
      <4>1. i \in Committed \ late /\ ~After(reply.next, i)
        BY <1>1, <1>8, <2>1, <2>2, <3>2
      <4>2. \A n \in 0..MaxVersion : AsItIs(i, n) => AsItIs(i, n)'
        BY <1>1, <1>8, <2>1, <2>2, <3>2
      <4>3. AsItIs(i, Kept(i))
        BY <2>1, <4>1
      <4>4. QED
        BY <1>1, <3>1, <3>2, <4>2, <4>3 DEF AsItIs, Kept
    <3>3. CASE j # i
      <4>1. j \in Committed \ late /\ row'[j] = row[j]
        BY <1>2, <1>3, <1>4, <2>2, <3>1, <3>3
      <4>2. ~After(reply.next, j)
        BY <1>1, <2>2, <4>1 DEF After
      <4>3. AsItIs(j, Kept(j))
        BY <2>1, <4>1, <4>2
      <4>4. QED
        BY <1>1, <4>1, <4>3 DEF AsItIs, Kept
    <3>4. QED BY <3>2, <3>3
  <2>3. Behind(reply.next)' /\ \A j \in Rows : Kept(j)' \in 0..MaxVersion
    BY <1>1, <2>1 DEF Behind, Kept
  <2>4. QED
    BY <2>2, <2>3 DEF ReplyCovers
<1>13. ReaderSees'
  <2> SUFFICES ASSUME reader # NoRow, NEW j \in reader.had \ moved'
               PROVE  j \in Committed' /\ (j \in reader.shown \/ (reader.more /\ Before(reader.place, j)'))
    BY <1>1 DEF ReaderSees, Before
  <2>1. j \in Committed /\ (j \in reader.shown \/ (reader.more /\ Before(reader.place, j)))
    BY <1>4 DEF ReaderSees
  <2>2. row'[j] = row[j] /\ j \in Committed'
    BY <1>2, <1>3, <1>4, <2>1 DEF SyncTypes
  <2>3. QED
    BY <1>1, <2>1, <2>2 DEF Before
<1>14. QED
  BY <1>5, <1>6, <1>9, <1>11, <1>12, <1>13

\* The rows of a page that are not behind a device that is told them.
LEMMA PageCovers ==
  ASSUME SyncInv, SyncedThrough >= 0, NEW i \in Committed \ late, ~After(Page(place).next, i)
  PROVE  i \in DOMAIN Page(place).rows \/ ~After(place, i)
<1> USE DEF SyncInv
<1> DEFINE S == {j \in Committed : row[j].at <= SyncedThrough /\ After(place, j)}
           page == PageOf(S)
<1> SUFFICES ASSUME After(place, i), i \notin page PROVE FALSE
  BY DEF Page
<1>1. /\ i \in Rows /\ i \in Nat /\ i < AllIds /\ row[i].at \in 0..MaxTime /\ now \in 0..MaxTime
      /\ place.at \in -1..MaxTime
  BY SyncNumbers DEF SyncTypes, SyncTypeOK, Version, Place
<1>2. CASE i \in S
  <2>1. Cardinality(page) = Limit /\ LastOf(page) \in page /\ PagedBefore(LastOf(page), i)
    BY <1>2, PageIsFirst
  <2>2. Page(place).next = PlaceOf(LastOf(page))
    BY <2>1 DEF Page
  <2>3. After(PlaceOf(LastOf(page)), i)
    BY <2>1 DEF After, PlaceOf, PagedBefore
  <2>4. QED
    BY <2>2, <2>3
<1>3. CASE i \notin S
  <2>1. ~(row[i].at <= SyncedThrough)
    BY <1>3
  <2>2. CASE Cardinality(page) = Limit
    <3>1. page # {} /\ page \subseteq S
      BY <2>2, FS_EmptySet, SyncNumbers DEF PageOf
    <3>2. LastOf(page) \in S
      BY <3>1, PageEnds
    <3>3. row[LastOf(page)].at <= SyncedThrough /\ row[LastOf(page)].at \in 0..MaxTime
      BY <3>2 DEF SyncTypes, Version
    <3>4. row[i].at > row[LastOf(page)].at
      BY <1>1, <2>1, <3>3, SyncNumbers DEF SyncedThrough
    <3>5. Page(place).next = PlaceOf(LastOf(page))
      BY <2>2 DEF Page
    <3>6. QED
      BY <3>4, <3>5 DEF After, PlaceOf
  <2>3. CASE Cardinality(page) # Limit /\ SyncedThrough < place.at
    <3>1. Page(place).next = place
      BY <2>3 DEF Page
    <3>2. QED
      BY <3>1
  <2>4. CASE Cardinality(page) # Limit /\ ~(SyncedThrough < place.at)
    <3>1. Page(place).next = [at |-> SyncedThrough, id |-> AllIds]
      BY <2>4 DEF Page
    <3>2. row[i].at > SyncedThrough
      BY <1>1, <2>1, SyncNumbers DEF SyncedThrough
    <3>3. QED
      BY <3>1, <3>2 DEF After
  <2>5. QED BY <2>2, <2>3, <2>4
<1>4. QED BY <1>2, <1>3

LEMMA PageIsBehind ==
  ASSUME SyncInv, SyncedThrough >= 0
  PROVE  Behind(Page(place).next)
<1> USE DEF SyncInv
<1> DEFINE S == {j \in Committed : row[j].at <= SyncedThrough /\ After(place, j)}
           page == PageOf(S)
<1>1. now \in 0..MaxTime /\ place \in Place /\ SyncedThrough = now - Lag
  BY DEF SyncTypes, SyncTypeOK, SyncedThrough
<1>2. CASE Cardinality(page) = Limit
  <2>1. page # {} /\ page \subseteq S
    BY <1>2, FS_EmptySet, SyncNumbers DEF PageOf
  <2>2. LastOf(page) \in S
    BY <2>1, PageEnds
  <2>3. row[LastOf(page)].at <= now - Lag /\ row[LastOf(page)].at \in 0..MaxTime /\ LastOf(page) \in Nat
    BY <1>1, <2>2, SyncNumbers DEF SyncTypes, Version
  <2>4. PlaceOf(LastOf(page)) \in Place
    BY <2>3, SyncNumbers DEF PlaceOf, Place
  <2>5. Page(place).next = PlaceOf(LastOf(page))
    BY <1>2 DEF Page
  <2>6. QED
    BY <2>3, <2>4, <2>5 DEF Behind, PlaceOf
<1>3. CASE Cardinality(page) # Limit /\ SyncedThrough < place.at
  <2>1. Page(place).next = place
    BY <1>3 DEF Page
  <2>2. QED
    BY <2>1
<1>4. CASE Cardinality(page) # Limit /\ ~(SyncedThrough < place.at)
  <2>1. Page(place).next = [at |-> now - Lag, id |-> AllIds]
    BY <1>1, <1>4 DEF Page
  <2>2. now - Lag \in -1..MaxTime
    BY <1>1, SyncNumbers
  <2>3. QED
    BY <2>1, <2>2, SyncNumbers DEF Behind, Place
<1>5. QED BY <1>2, <1>3, <1>4

LEMMA PullKeepsFeed ==
  ASSUME SyncInv, Pull
  PROVE  SyncInv'
<1> USE DEF SyncInv
<1>1. /\ UNCHANGED <<feed, now, row, writing, place, has, reader, late, moved>>
      /\ reply' = Page(place) /\ SyncedThrough >= 0
  BY DEF Pull
<1>2. Behind(Page(place).next)
  BY <1>1, PageIsBehind
<1> DEFINE told(i) == IF i \in DOMAIN Page(place).rows THEN Page(place).rows[i] ELSE has[i]
<1>3. \A i \in DOMAIN Page(place).rows : Page(place).rows[i] = row[i].version /\ i \in Committed
  BY DEF Page, PageOf
<1>4. \A i \in Rows : told(i) \in 0..MaxVersion
  BY <1>3, SyncNumbers DEF SyncTypes, SyncTypeOK, Version
<1>5. ASSUME NEW i \in Committed \ late, ~After(Page(place).next, i)
      PROVE  AsItIs(i, told(i))
  <2>1. CASE i \in DOMAIN Page(place).rows
    BY <1>3, <2>1 DEF AsItIs
  <2>2. CASE i \notin DOMAIN Page(place).rows
    <3>1. ~After(place, i)
      BY <1>1, <1>5, <2>2, PageCovers
    <3>2. QED
      BY <2>2, <3>1 DEF NothingSteppedOver, AsItIs
  <2>3. QED BY <2>1, <2>2
<1>6. \A i : Kept(i)' = told(i)
  BY <1>1 DEF Kept
<1> HIDE DEF told
<1>7. ReplyCovers'
  <2>1. \A i \in Rows : Kept(i)' \in 0..MaxVersion
    BY <1>4, <1>6
  <2>2. ASSUME NEW i \in Committed', i \notin late', ~After(reply.next, i)'
        PROVE  AsItIs(i, Kept(i))'
    <3>1. i \in Committed \ late /\ ~After(Page(place).next, i)
      BY <1>1, <2>2 DEF Committed, After
    <3>2. AsItIs(i, told(i))
      BY <1>5, <3>1
    <3>3. QED
      BY <1>1, <1>6, <3>2 DEF AsItIs
  <2>3. Behind(reply.next)'
    BY <1>1, <1>2 DEF Behind
  <2>4. QED
    BY <2>1, <2>2, <2>3 DEF ReplyCovers
<1>8. QED
  BY <1>1, <1>7 DEF Behind, NothingSteppedOver, ReaderSees, Committed, After, Before, SyncTypes, SyncTypeOK, RowsWritten

LEMMA ReceiveKeepsFeed ==
  ASSUME SyncInv, Receive
  PROVE  SyncInv'
<1> USE DEF SyncInv
<1>1. /\ UNCHANGED <<feed, now, row, writing, reader, late, moved>> /\ reply # NoRow
      /\ reply' = NoRow /\ place' = reply.next /\ has' = [i \in Rows |-> Kept(i)]
  BY DEF Receive, Kept
<1>2. Behind(reply.next) /\ \A i \in Rows : Kept(i) \in 0..MaxVersion
  BY <1>1 DEF ReplyCovers
<1>3. Behind(place)' /\ place' \in Place /\ has' \in [Rows -> 0..MaxVersion]
  BY <1>1, <1>2 DEF Behind
<1>4. SyncTypes'
  BY <1>1, <1>3 DEF SyncTypes, SyncTypeOK, Committed
<1>5. NothingSteppedOver'
  <2> SUFFICES ASSUME NEW i \in Committed', i \notin late', ~After(place, i)'
               PROVE  AsItIs(i, has[i])'
    BY <1>1 DEF NothingSteppedOver, After, AsItIs
  <2>1. i \in Committed \ late /\ ~After(reply.next, i) /\ i \in Rows
    BY <1>1 DEF Committed, After
  <2>2. AsItIs(i, Kept(i))
    BY <1>1, <2>1 DEF ReplyCovers
  <2>3. has'[i] = Kept(i)
    BY <1>1, <2>1
  <2>4. QED
    BY <1>1, <2>2, <2>3 DEF AsItIs
<1>6. QED
  BY <1>1, <1>3, <1>4, <1>5 DEF RowsWritten, ReplyCovers, ReaderSees, Committed, Before

LEMMA LosePageKeepsFeed ==
  ASSUME SyncInv, LosePage \/ UNCHANGED syncVars
  PROVE  SyncInv'
<1> USE DEF SyncInv
<1>1. UNCHANGED <<feed, now, row, writing, place, has, reader, late, moved>> /\ (reply' = NoRow \/ reply' = reply)
  BY DEF LosePage, syncVars
<1>2. QED
  BY <1>1 DEF Behind, NothingSteppedOver, ReplyCovers, ReaderSees, Committed, After, Before, AsItIs, Kept, SyncTypes,
     SyncTypeOK, RowsWritten

LEMMA OpenListKeepsFeed ==
  ASSUME SyncInv, OpenList
  PROVE  SyncInv'
<1> USE DEF SyncInv
<1>1. /\ UNCHANGED <<feed, now, row, writing, place, has, reply, late>> /\ moved' = {}
      /\ reader' = [place |-> [at |-> MaxTime, id |-> AllIds], shown |-> {}, had |-> Committed, more |-> TRUE]
  BY DEF OpenList
<1>2. \A i \in Committed : Before([at |-> MaxTime, id |-> AllIds], i)
  BY SyncNumbers DEF Before, SyncTypes, Version
<1>3. ReaderSees'
  BY <1>1, <1>2 DEF ReaderSees, Committed, Before
<1>4. QED
  BY <1>1, <1>3 DEF Behind, NothingSteppedOver, ReplyCovers, Committed, After, AsItIs, Kept, SyncTypes,
     SyncTypeOK, RowsWritten

\* What a page read backwards leaves out is older than all of it.
LEMMA PageBackKeepsFeed ==
  ASSUME SyncInv, PageBack
  PROVE  SyncInv'
<1> USE DEF SyncInv
<1> DEFINE S == {i \in Committed : Before(reader.place, i)}
           page == PageBackOf(S)
<1>1. /\ UNCHANGED <<feed, now, row, writing, place, has, reply, late, moved>> /\ reader # NoRow /\ reader.more
      /\ reader' = [reader EXCEPT !.place = IF page = {} THEN @ ELSE PlaceOf(FirstOf(page)),
                                  !.shown = @ \cup page, !.more = Cardinality(page) = Limit]
  BY DEF PageBack
<1>2. reader = [place |-> reader.place, shown |-> reader.shown, had |-> reader.had, more |-> reader.more]
  BY <1>1 DEF ReaderSees
<1>3. /\ reader' = [place |-> reader'.place, shown |-> reader'.shown, had |-> reader'.had, more |-> reader'.more]
      /\ reader'.place = IF page = {} THEN reader.place ELSE PlaceOf(FirstOf(page))
      /\ reader'.shown = reader.shown \cup page /\ reader'.had = reader.had
      /\ reader'.more = (Cardinality(page) = Limit)
  <2> HIDE DEF page
  <2> QED
    BY <1>1, <1>2
<1>4. ASSUME NEW i \in reader.had \ moved
      PROVE  i \in Committed /\ (i \in reader'.shown \/ (reader'.more /\ Before(reader'.place, i)))
  <2>1. i \in Committed /\ (i \in reader.shown \/ (reader.more /\ Before(reader.place, i)))
    BY <1>1 DEF ReaderSees
  <2>2. CASE i \in reader.shown \/ i \in page
    BY <1>3, <2>1, <2>2
  <2>3. CASE i \notin reader.shown /\ i \notin page
    <3>1. i \in S
      BY <2>1, <2>3
    <3>2. Cardinality(page) = Limit /\ FirstOf(page) \in page /\ PagedBefore(i, FirstOf(page))
      BY <2>3, <3>1, PageBackIsFirst
    <3>3. Before(PlaceOf(FirstOf(page)), i)
      BY <3>2 DEF Before, PlaceOf, PagedBefore
    <3>4. reader'.place = PlaceOf(FirstOf(page)) /\ reader'.more
      BY <1>3, <3>2
    <3>5. QED
      BY <2>1, <3>3, <3>4
  <2>4. QED BY <2>2, <2>3
<1>5. ReaderSees'
  <2> HIDE DEF page
  <2>1. Committed' = Committed /\ \A p, i : Before(p, i)' = Before(p, i)
    BY <1>1 DEF Committed, Before
  <2>2. \A i \in reader'.had \ moved' :
          i \in Committed' /\ (i \in reader'.shown \/ (reader'.more /\ Before(reader.place, i)'))
    BY <1>1, <1>3, <1>4 DEF Committed, Before
  <2>3. QED
    BY <1>3, <2>2 DEF ReaderSees
<1> HIDE DEF page
<1>6. QED
  BY <1>1, <1>5 DEF Behind, NothingSteppedOver, ReplyCovers, Committed, After, AsItIs, Kept, SyncTypes,
     SyncTypeOK, RowsWritten

\* Neither a device that keeps its place nor a person who pages back misses a row, however
\* many there are, however long the pages and the lag, and whenever rows are written,
\* commit and change meanwhile (keyset-cursor.ts, sync.service.ts, payment.service.ts,
\* sale.service.ts): but for rows whose transaction outlived the lag.
THEOREM FeedsMissNothing == SyncSpec => []FeedMissesNothing
<1>1. SyncInit => SyncInv
  BY SyncBegins
<1>2. SyncInv /\ [SyncNext]_syncVars => SyncInv'
  BY TickKeepsFeed, WriteKeepsFeed, RollBackKeepsFeed, CommitKeepsFeed, PullKeepsFeed, ReceiveKeepsFeed,
     LosePageKeepsFeed, OpenListKeepsFeed, PageBackKeepsFeed DEF SyncNext
<1>3. SyncInv => FeedMissesNothing
  BY DEF SyncInv, FeedMissesNothing, BrowsedToTheEnd, ReaderSees
<1>4. QED
  BY <1>1, <1>2, <1>3, PTL DEF SyncSpec

-----------------------------------------------------------------------------
(* The reports.  First, arithmetic: shares and tax are whole numbers, and   *)
(* dividing and multiplying out decide alike.                               *)

LEMMA DivisionIsWhole ==
  ASSUME NEW n \in Int, NEW d \in Nat \ {0}
  PROVE  n \div d \in Int /\ d * (n \div d) <= n /\ n < d * (n \div d) + d
OBVIOUS

LEMMA DivisionDecides ==
  ASSUME NEW n \in Int, NEW d \in Nat \ {0}, NEW m \in Int
  PROVE  n \div d < m <=> n < d * m
<1> DEFINE q == n \div d
<1>1. q \in Int /\ d * q <= n /\ n < d * q + d
  BY DivisionIsWhole
<1> HIDE DEF q
<1>2. ASSUME q < m PROVE n < d * m
  <2>1. PICK k \in Nat : m = q + 1 + k
    <3>1. m - q - 1 \in Nat /\ m = q + 1 + (m - q - 1)
      BY <1>1, <1>2
    <3>2. QED BY <3>1
  <2>2. d * m = d * q + d + d * k /\ d * k \in Nat
    BY <1>1, <2>1
  <2>3. QED BY <1>1, <2>2
<1>3. ASSUME ~(q < m) PROVE ~(n < d * m)
  <2>1. PICK k \in Nat : q = m + k
    <3>1. q - m \in Nat /\ q = m + (q - m)
      BY <1>1, <1>3
    <3>2. QED BY <3>1
  <2>2. d * q = d * m + d * k /\ d * k \in Nat
    BY <1>1, <2>1
  <2>3. QED BY <1>1, <2>2
<1>4. QED
  BY <1>2, <1>3 DEF q

LEMMA SharesAreWhole ==
  /\ \A n \in Int, d \in Nat \ {0} : Round(n, d) \in Int
  /\ \A n \in Int, d \in Nat : TaxInside(n, d) \in Int
  /\ \A n, k \in Int, d \in Nat \ {0} : Proportion(n, d, k) \in Int
<1>1. \A n \in Int, d \in Nat \ {0} : Round(n, d) \in Int
  <2> TAKE n \in Int, d \in Nat \ {0}
  <2>1. 2 * n + d \in Int /\ 2 * d \in Nat \ {0}
    OBVIOUS
  <2>2. QED BY <2>1, DivisionIsWhole DEF Round
<1>2. \A n \in Int, d \in Nat : TaxInside(n, d) \in Int
  <2> TAKE n \in Int, d \in Nat
  <2>1. n * 10000 \in Int /\ 10000 + d \in Nat \ {0}
    OBVIOUS
  <2>2. Round(n * 10000, 10000 + d) \in Int
    BY <1>1, <2>1
  <2>3. QED BY <2>2 DEF TaxInside
<1>3. \A n, k \in Int, d \in Nat \ {0} : Proportion(n, d, k) \in Int
  <2> TAKE n, k \in Int, d \in Nat \ {0}
  <2>1. n * k \in Int
    OBVIOUS
  <2>2. QED BY <1>1, <2>1 DEF Proportion
<1>4. QED BY <1>1, <1>2, <1>3

\* A difference is summed like a sum.
LEMMA SumOfDifferences ==
  ASSUME NEW S, IsFiniteSet(S), NEW h, NEW g, NEW k,
         \A x \in S : h[x] \in Int /\ g[x] \in Int /\ k[x] = h[x] - g[x]
  PROVE  SumFunctionOnSet(k, S) = SumFunctionOnSet(h, S) - SumFunctionOnSet(g, S)
<1>1. \A x \in S : k[x] \in Int /\ g[x] \in Int /\ h[x] = k[x] + g[x]
  OBVIOUS
<1>2. SumFunctionOnSet(h, S) = SumFunctionOnSet(k, S) + SumFunctionOnSet(g, S)
  BY <1>1, SumOfSums
<1>3. SumFunctionOnSet(k, S) \in Int /\ SumFunctionOnSet(g, S) \in Int
  BY <1>1, SumType
<1>4. QED BY <1>2, <1>3

\* What is summed up is a sum over what it is given for.
LEMMA SumUpIs ==
  ASSUME NEW f, IsFiniteSet(DOMAIN f), NEW h, \A x \in DOMAIN f : f[x] = h[x]
  PROVE  SumUp(f) = SumFunctionOnSet(h, DOMAIN f)
BY SumSame DEF SumUp, SumFunction

LEMMA SumUpWhole ==
  ASSUME NEW f, IsFiniteSet(DOMAIN f), \A x \in DOMAIN f : f[x] \in Int
  PROVE  SumUp(f) \in Int
BY SumType DEF SumUp, SumFunction

\* The image of a finite set is finite.
LEMMA ImageIsFinite ==
  ASSUME NEW f, IsFiniteSet(DOMAIN f)
  PROVE  IsFiniteSet({f[x] : x \in DOMAIN f})
<1> DEFINE B == {f[x] : x \in DOMAIN f}
           g == [x \in DOMAIN f |-> f[x]]
<1>1. g \in Surjection(DOMAIN f, B)
  BY DEF Surjection
<1> HIDE DEF g, B
<1>2. IsFiniteSet(B)
  BY <1>1, FS_Surjection
<1>3. QED BY <1>2 DEF B

-----------------------------------------------------------------------------
(* Lines sold, and what came back of them.                                  *)

LinesKnown ==
  /\ \A r \in DOMAIN returns : returns[r].line \in LineIds
  /\ \A l \in LineIds : firstIn[LineOf(l).item] # Nobody
  /\ \A r \in DOMAIN returns : returns[r].into # Nobody => firstIn[returns[r].into] # Nobody

ReportsInv == ReportsTypeOK /\ LinesKnown

LEMMA LinesAreRows ==
  ASSUME ReportsTypeOK
  PROVE  /\ \A l \in LineIds : LineOf(l) \in LineRow /\ sales[l[1]] \in SaleRow /\ l[1] \in DOMAIN sales
         /\ \A r \in DOMAIN returns : returns[r] \in ReturnRow
<1>1. \A r \in DOMAIN returns : returns[r] \in ReturnRow
  BY DEF ReportsTypeOK
<1>2. ASSUME NEW l \in LineIds
      PROVE  LineOf(l) \in LineRow /\ sales[l[1]] \in SaleRow /\ l[1] \in DOMAIN sales
  <2>1. PICK i \in DOMAIN sales : l \in {<<i, j>> : j \in DOMAIN sales[i].lines}
    BY DEF LineIds
  <2>2. PICK j \in DOMAIN sales[i].lines : l = <<i, j>>
    BY <2>1
  <2>3. sales[i] \in SaleRow
    BY DEF ReportsTypeOK
  <2>4. sales[i].lines \in Seq(LineRow)
    BY <2>3 DEF SaleRow
  <2>5. sales[i].lines[j] \in LineRow
    BY <2>4
  <2>6. QED BY <2>2, <2>3, <2>5 DEF LineOf
<1>3. QED BY <1>1, <1>2

LEMMA LineIdsAre ==
  /\ \A i \in DOMAIN sales : \A j \in DOMAIN sales[i].lines : <<i, j>> \in LineIds
  /\ \A l \in LineIds : l[1] \in DOMAIN sales /\ l[2] \in DOMAIN sales[l[1]].lines /\ l = <<l[1], l[2]>>
BY DEF LineIds

LEMMA LinesAreFinite ==
  ASSUME ReportsTypeOK
  PROVE  IsFiniteSet(LineIds) /\ IsFiniteSet(DOMAIN returns)
<1> DEFINE Of(i) == {<<i, j>> : j \in DOMAIN sales[i].lines}
           F == [i \in DOMAIN sales |-> Of(i)]
<1>1. \A s : \A n \in Nat : DOMAIN s = 1..n => IsFiniteSet(DOMAIN s)
  BY FS_Interval
<1>2. Len(sales) \in Nat /\ DOMAIN sales = 1..Len(sales) /\ Len(returns) \in Nat /\ DOMAIN returns = 1..Len(returns)
  BY DEF ReportsTypeOK
<1>3. ASSUME NEW i \in DOMAIN sales PROVE IsFiniteSet(Of(i))
  <2> DEFINE f == [j \in DOMAIN sales[i].lines |-> <<i, j>>]
  <2>1. sales[i] \in SaleRow
    BY DEF ReportsTypeOK
  <2>2. sales[i].lines \in Seq(LineRow)
    BY <2>1 DEF SaleRow
  <2>3. Len(sales[i].lines) \in Nat /\ DOMAIN sales[i].lines = 1..Len(sales[i].lines)
    BY <2>2
  <2>4. IsFiniteSet(DOMAIN sales[i].lines)
    BY <1>1, <2>3
  <2>5. DOMAIN f = DOMAIN sales[i].lines /\ \A j \in DOMAIN f : f[j] = <<i, j>>
    OBVIOUS
  <2>6. Of(i) = {f[j] : j \in DOMAIN f}
    BY <2>5
  <2> HIDE DEF f, Of
  <2>7. QED BY <2>4, <2>5, <2>6, ImageIsFinite
<1>4. LineIds = UNION {F[i] : i \in DOMAIN F}
  BY DEF LineIds
<1>5. DOMAIN F = DOMAIN sales /\ \A i \in DOMAIN F : IsFiniteSet(F[i])
  BY <1>3
<1> HIDE DEF F, Of
<1>6. IsFiniteSet({F[i] : i \in DOMAIN F})
  BY <1>1, <1>2, <1>5, ImageIsFinite
<1>7. IsFiniteSet(UNION {F[i] : i \in DOMAIN F})
  BY <1>5, <1>6, FS_UNION
<1>8. QED BY <1>1, <1>2, <1>4, <1>7

-----------------------------------------------------------------------------
(* Figures are sums over lines and returns.                                 *)

Gross == [l \in LineIds |-> LineOf(l).total]
Taxes == [l \in LineIds |-> LineOf(l).tax]
CostsPaid == [l \in LineIds |-> LineOf(l).cost]
Pieces == [l \in LineIds |-> LineOf(l).base]
Refunds == [r \in DOMAIN returns |-> returns[r].refund]
RefundTaxes == [r \in DOMAIN returns |-> RefundTax(r)]
CostsBack == [r \in DOMAIN returns |-> returns[r].cost]
PiecesBack == [r \in DOMAIN returns |-> returns[r].quantity]

LEMMA SummandsAreWhole ==
  ASSUME ReportsInv
  PROVE  /\ \A l \in LineIds : Gross[l] \in Int /\ Taxes[l] \in Int /\ CostsPaid[l] \in Int /\ Pieces[l] \in Int
         /\ \A r \in DOMAIN returns :
              Refunds[r] \in Int /\ RefundTaxes[r] \in Int /\ CostsBack[r] \in Int /\ PiecesBack[r] \in Int
<1>1. ASSUME NEW l \in LineIds
      PROVE  Gross[l] \in Int /\ Taxes[l] \in Int /\ CostsPaid[l] \in Int /\ Pieces[l] \in Int
  <2>1. LineOf(l) \in LineRow
    BY LinesAreRows DEF ReportsInv
  <2>2. LineOf(l).total \in Int /\ LineOf(l).tax \in Int /\ LineOf(l).cost \in Int /\ LineOf(l).base \in Int
    BY <2>1 DEF LineRow
  <2>3. QED BY <2>2 DEF Gross, Taxes, CostsPaid, Pieces
<1>2. ASSUME NEW r \in DOMAIN returns
      PROVE  Refunds[r] \in Int /\ RefundTaxes[r] \in Int /\ CostsBack[r] \in Int /\ PiecesBack[r] \in Int
  <2>1. returns[r] \in ReturnRow /\ LineOf(returns[r].line) \in LineRow
    BY LinesAreRows DEF ReportsInv, LinesKnown
  <2>2. returns[r].refund \in Int /\ returns[r].cost \in Int /\ returns[r].quantity \in Int
        /\ LineOf(returns[r].line).rate \in Nat
    BY <2>1 DEF ReturnRow, LineRow
  <2>3. RefundTax(r) \in Int
    BY <2>2, SharesAreWhole DEF RefundTax
  <2>4. QED BY <2>2, <2>3 DEF Refunds, RefundTaxes, CostsBack, PiecesBack
<1>3. QED BY <1>1, <1>2

LEMMA FiguresAre ==
  ASSUME ReportsInv, NEW L \in SUBSET LineIds, NEW R \in SUBSET DOMAIN returns
  PROVE  /\ Figures(L, R) =
              [gross |-> SumFunctionOnSet(Gross, L), returned |-> SumFunctionOnSet(Refunds, R),
               revenue |-> SumFunctionOnSet(Gross, L) - SumFunctionOnSet(Taxes, L)
                           - (SumFunctionOnSet(Refunds, R) - SumFunctionOnSet(RefundTaxes, R)),
               cogs |-> SumFunctionOnSet(CostsPaid, L) - SumFunctionOnSet(CostsBack, R)]
         /\ IsFiniteSet(L) /\ IsFiniteSet(R)
         /\ \A h \in {Gross, Taxes, CostsPaid} : SumFunctionOnSet(h, L) \in Int
         /\ \A h \in {Refunds, RefundTaxes, CostsBack} : SumFunctionOnSet(h, R) \in Int
<1>1. IsFiniteSet(L) /\ IsFiniteSet(R)
  BY LinesAreFinite, FS_Subset DEF ReportsInv
<1>2. /\ SumUp([l \in L |-> LineOf(l).total]) = SumFunctionOnSet(Gross, L)
      /\ SumUp([l \in L |-> LineOf(l).tax]) = SumFunctionOnSet(Taxes, L)
      /\ SumUp([l \in L |-> LineOf(l).cost]) = SumFunctionOnSet(CostsPaid, L)
  <2> DEFINE f == [l \in L |-> LineOf(l).total]
             g == [l \in L |-> LineOf(l).tax]
             h == [l \in L |-> LineOf(l).cost]
  <2>1. DOMAIN f = L /\ DOMAIN g = L /\ DOMAIN h = L
    OBVIOUS
  <2>2. \A l \in L : f[l] = Gross[l] /\ g[l] = Taxes[l] /\ h[l] = CostsPaid[l]
    BY DEF Gross, Taxes, CostsPaid
  <2> HIDE DEF f, g, h
  <2>3. SumUp(f) = SumFunctionOnSet(Gross, L)
    BY <1>1, <2>1, <2>2, SumUpIs
  <2>4. SumUp(g) = SumFunctionOnSet(Taxes, L)
    BY <1>1, <2>1, <2>2, SumUpIs
  <2>5. SumUp(h) = SumFunctionOnSet(CostsPaid, L)
    BY <1>1, <2>1, <2>2, SumUpIs
  <2>6. QED BY <2>3, <2>4, <2>5 DEF f, g, h
<1>3. /\ SumUp([r \in R |-> returns[r].refund]) = SumFunctionOnSet(Refunds, R)
      /\ SumUp([r \in R |-> RefundTax(r)]) = SumFunctionOnSet(RefundTaxes, R)
      /\ SumUp([r \in R |-> returns[r].cost]) = SumFunctionOnSet(CostsBack, R)
  <2> DEFINE f == [r \in R |-> returns[r].refund]
             g == [r \in R |-> RefundTax(r)]
             h == [r \in R |-> returns[r].cost]
  <2>1. DOMAIN f = R /\ DOMAIN g = R /\ DOMAIN h = R
    OBVIOUS
  <2>2. \A r \in R : f[r] = Refunds[r] /\ g[r] = RefundTaxes[r] /\ h[r] = CostsBack[r]
    BY DEF Refunds, RefundTaxes, CostsBack
  <2> HIDE DEF f, g, h
  <2>3. SumUp(f) = SumFunctionOnSet(Refunds, R)
    BY <1>1, <2>1, <2>2, SumUpIs
  <2>4. SumUp(g) = SumFunctionOnSet(RefundTaxes, R)
    BY <1>1, <2>1, <2>2, SumUpIs
  <2>5. SumUp(h) = SumFunctionOnSet(CostsBack, R)
    BY <1>1, <2>1, <2>2, SumUpIs
  <2>6. QED BY <2>3, <2>4, <2>5 DEF f, g, h
<1>4. \A h \in {Gross, Taxes, CostsPaid} : SumFunctionOnSet(h, L) \in Int
  BY <1>1, SummandsAreWhole, SumType
<1>5. \A h \in {Refunds, RefundTaxes, CostsBack} : SumFunctionOnSet(h, R) \in Int
  BY <1>1, SummandsAreWhole, SumType
<1>6. QED BY <1>1, <1>2, <1>3, <1>4, <1>5 DEF Figures

LEMMA PeriodsAreOf ==
  ASSUME ReportsInv, NEW w
  PROVE  SoldIn(w) \in SUBSET LineIds /\ ReturnedIn(w) \in SUBSET DOMAIN returns
BY DEF SoldIn, ReturnedIn

-----------------------------------------------------------------------------
(* Slices, and periods that meet.                                           *)

LEMMA SlicesAddUp ==
  ASSUME ReportsInv
  PROVE  SlicesComeToTheTotal
<1> SUFFICES ASSUME NEW w \in Windows, NEW by \in Groupings
             PROVE  LET rows == Slices(w, by)
                        keys == DOMAIN rows
                    IN  Profit(w) = [gross |-> SumUp([k \in keys |-> rows[k].gross]),
                                     returned |-> SumUp([k \in keys |-> rows[k].returned]),
                                     revenue |-> SumUp([k \in keys |-> rows[k].revenue]),
                                     cogs |-> SumUp([k \in keys |-> rows[k].cogs])]
  BY DEF SlicesComeToTheTotal
<1> DEFINE L == SoldIn(w)
           R == ReturnedIn(w)
           kl == [l \in LineIds |-> KeyOfLine(by, l)]
           kr == [r \in DOMAIN returns |-> KeyOfReturn(by, r)]
           K == Keys(w, by)
           U(k) == Keyed(L, kl, k)
           B(k) == Keyed(R, kr, k)
           rows == Slices(w, by)
<1>1. L \in SUBSET LineIds /\ R \in SUBSET DOMAIN returns
  BY PeriodsAreOf
<1>2. IsFiniteSet(L) /\ IsFiniteSet(R)
  BY <1>1, LinesAreFinite, FS_Subset DEF ReportsInv
<1>3. IsFiniteSet(K)
  <2> DEFINE f == [l \in L |-> KeyOfLine(by, l)]
             g == [r \in R |-> KeyOfReturn(by, r)]
  <2>1. K = {f[l] : l \in DOMAIN f} \cup {g[r] : r \in DOMAIN g}
    BY DEF Keys
  <2>2. DOMAIN f = L /\ DOMAIN g = R
    OBVIOUS
  <2> HIDE DEF f, g, L, R, K
  <2>3. IsFiniteSet({f[l] : l \in DOMAIN f}) /\ IsFiniteSet({g[r] : r \in DOMAIN g})
    BY <1>2, <2>2, ImageIsFinite
  <2>4. QED BY <2>1, <2>3, FS_Union
<1>4. (\A l \in L : kl[l] \in K) /\ (\A r \in R : kr[r] \in K)
  BY <1>1 DEF Keys
<1>5. \A k \in K : rows[k] = Figures(U(k), B(k))
  <2>1. \A k : LinesUnder(w, by, k) = U(k) /\ ReturnsUnder(w, by, k) = B(k)
    BY <1>1 DEF LinesUnder, ReturnsUnder, Keyed
  <2>2. QED BY <2>1 DEF Slices
<1>6. DOMAIN rows = K
  BY DEF Slices
<1>7. \A k \in K : U(k) \in SUBSET LineIds /\ B(k) \in SUBSET DOMAIN returns
  BY <1>1 DEF Keyed
<1> DEFINE a == [k \in K |-> SumFunctionOnSet(Gross, U(k))]
           t == [k \in K |-> SumFunctionOnSet(Taxes, U(k))]
           c == [k \in K |-> SumFunctionOnSet(CostsPaid, U(k))]
           b == [k \in K |-> SumFunctionOnSet(Refunds, B(k))]
           s == [k \in K |-> SumFunctionOnSet(RefundTaxes, B(k))]
           d == [k \in K |-> SumFunctionOnSet(CostsBack, B(k))]
           net == [k \in K |-> a[k] - t[k]]
           back == [k \in K |-> b[k] - s[k]]
           revenue == [k \in K |-> net[k] - back[k]]
           cogs == [k \in K |-> c[k] - d[k]]
<1>8. /\ SumFunctionOnSet(Gross, L) = SumFunctionOnSet(a, K)
      /\ SumFunctionOnSet(Taxes, L) = SumFunctionOnSet(t, K)
      /\ SumFunctionOnSet(CostsPaid, L) = SumFunctionOnSet(c, K)
  <2>1. \A k \in K : /\ a[k] = SumFunctionOnSet(Gross, Keyed(L, kl, k))
                     /\ t[k] = SumFunctionOnSet(Taxes, Keyed(L, kl, k))
                     /\ c[k] = SumFunctionOnSet(CostsPaid, Keyed(L, kl, k))
    OBVIOUS
  <2>2. \A l \in L : Gross[l] \in Int /\ Taxes[l] \in Int /\ CostsPaid[l] \in Int
    BY <1>1, SummandsAreWhole
  <2> HIDE DEF a, t, c, L, K, kl
  <2>3. SumFunctionOnSet(Gross, L) = SumFunctionOnSet(a, K)
    BY <1>2, <1>3, <1>4, <2>1, <2>2, SumByParts
  <2>4. SumFunctionOnSet(Taxes, L) = SumFunctionOnSet(t, K)
    BY <1>2, <1>3, <1>4, <2>1, <2>2, SumByParts
  <2>5. SumFunctionOnSet(CostsPaid, L) = SumFunctionOnSet(c, K)
    BY <1>2, <1>3, <1>4, <2>1, <2>2, SumByParts
  <2>6. QED BY <2>3, <2>4, <2>5
<1>9. /\ SumFunctionOnSet(Refunds, R) = SumFunctionOnSet(b, K)
      /\ SumFunctionOnSet(RefundTaxes, R) = SumFunctionOnSet(s, K)
      /\ SumFunctionOnSet(CostsBack, R) = SumFunctionOnSet(d, K)
  <2>1. \A k \in K : /\ b[k] = SumFunctionOnSet(Refunds, Keyed(R, kr, k))
                     /\ s[k] = SumFunctionOnSet(RefundTaxes, Keyed(R, kr, k))
                     /\ d[k] = SumFunctionOnSet(CostsBack, Keyed(R, kr, k))
    OBVIOUS
  <2>2. \A r \in R : Refunds[r] \in Int /\ RefundTaxes[r] \in Int /\ CostsBack[r] \in Int
    BY <1>1, SummandsAreWhole
  <2> HIDE DEF b, s, d, R, K, kr
  <2>3. SumFunctionOnSet(Refunds, R) = SumFunctionOnSet(b, K)
    BY <1>2, <1>3, <1>4, <2>1, <2>2, SumByParts
  <2>4. SumFunctionOnSet(RefundTaxes, R) = SumFunctionOnSet(s, K)
    BY <1>2, <1>3, <1>4, <2>1, <2>2, SumByParts
  <2>5. SumFunctionOnSet(CostsBack, R) = SumFunctionOnSet(d, K)
    BY <1>2, <1>3, <1>4, <2>1, <2>2, SumByParts
  <2>6. QED BY <2>3, <2>4, <2>5
<1>10. ASSUME NEW k \in K
       PROVE  /\ a[k] \in Int /\ t[k] \in Int /\ c[k] \in Int /\ b[k] \in Int /\ s[k] \in Int /\ d[k] \in Int
              /\ rows[k].gross = a[k] /\ rows[k].returned = b[k]
              /\ rows[k].revenue = revenue[k] /\ rows[k].cogs = cogs[k]
  <2> DEFINE Lk == U(k)
             Rk == B(k)
  <2>1. Lk \in SUBSET LineIds /\ Rk \in SUBSET DOMAIN returns
    BY <1>7
  <2>2. rows[k] = Figures(Lk, Rk)
    BY <1>5
  <2>3. /\ a[k] = SumFunctionOnSet(Gross, Lk) /\ t[k] = SumFunctionOnSet(Taxes, Lk)
        /\ c[k] = SumFunctionOnSet(CostsPaid, Lk) /\ b[k] = SumFunctionOnSet(Refunds, Rk)
        /\ s[k] = SumFunctionOnSet(RefundTaxes, Rk) /\ d[k] = SumFunctionOnSet(CostsBack, Rk)
        /\ revenue[k] = a[k] - t[k] - (b[k] - s[k]) /\ cogs[k] = c[k] - d[k]
    OBVIOUS
  <2> HIDE DEF Lk, Rk, a, b, c, d, s, t, revenue, cogs, rows, K
  <2>4. /\ Figures(Lk, Rk) =
              [gross |-> SumFunctionOnSet(Gross, Lk), returned |-> SumFunctionOnSet(Refunds, Rk),
               revenue |-> SumFunctionOnSet(Gross, Lk) - SumFunctionOnSet(Taxes, Lk)
                           - (SumFunctionOnSet(Refunds, Rk) - SumFunctionOnSet(RefundTaxes, Rk)),
               cogs |-> SumFunctionOnSet(CostsPaid, Lk) - SumFunctionOnSet(CostsBack, Rk)]
        /\ \A h \in {Gross, Taxes, CostsPaid} : SumFunctionOnSet(h, Lk) \in Int
        /\ \A h \in {Refunds, RefundTaxes, CostsBack} : SumFunctionOnSet(h, Rk) \in Int
    BY <2>1, FiguresAre
  <2>5. QED BY <2>2, <2>3, <2>4
<1>11. /\ \A k \in K : net[k] = a[k] - t[k] /\ back[k] = b[k] - s[k]
       /\ \A k \in K : revenue[k] = net[k] - back[k] /\ cogs[k] = c[k] - d[k]
  OBVIOUS
<1> HIDE DEF a, b, c, d, s, t, net, back, revenue, cogs, K, L, R, rows
<1>12. \A k \in K : net[k] \in Int /\ back[k] \in Int
  BY <1>10, <1>11
<1>13. /\ SumFunctionOnSet(net, K) = SumFunctionOnSet(a, K) - SumFunctionOnSet(t, K)
       /\ SumFunctionOnSet(back, K) = SumFunctionOnSet(b, K) - SumFunctionOnSet(s, K)
  <2>1. SumFunctionOnSet(net, K) = SumFunctionOnSet(a, K) - SumFunctionOnSet(t, K)
    BY <1>3, <1>10, <1>11, SumOfDifferences
  <2>2. SumFunctionOnSet(back, K) = SumFunctionOnSet(b, K) - SumFunctionOnSet(s, K)
    BY <1>3, <1>10, <1>11, SumOfDifferences
  <2>3. QED BY <2>1, <2>2
<1>14. SumFunctionOnSet(revenue, K) = SumFunctionOnSet(net, K) - SumFunctionOnSet(back, K)
  BY <1>3, <1>11, <1>12, SumOfDifferences
<1>15. SumFunctionOnSet(cogs, K) = SumFunctionOnSet(c, K) - SumFunctionOnSet(d, K)
  BY <1>3, <1>10, <1>11, SumOfDifferences
<1>16. /\ SumUp([k \in K |-> rows[k].gross]) = SumFunctionOnSet(a, K)
       /\ SumUp([k \in K |-> rows[k].returned]) = SumFunctionOnSet(b, K)
       /\ SumUp([k \in K |-> rows[k].revenue]) = SumFunctionOnSet(revenue, K)
       /\ SumUp([k \in K |-> rows[k].cogs]) = SumFunctionOnSet(cogs, K)
  <2> DEFINE fa == [k \in K |-> rows[k].gross]
             fb == [k \in K |-> rows[k].returned]
             fr == [k \in K |-> rows[k].revenue]
             fc == [k \in K |-> rows[k].cogs]
  <2>1. /\ DOMAIN fa = K /\ DOMAIN fb = K /\ DOMAIN fr = K /\ DOMAIN fc = K
        /\ \A k \in K : fa[k] = a[k] /\ fb[k] = b[k] /\ fr[k] = revenue[k] /\ fc[k] = cogs[k]
    BY <1>10
  <2> HIDE DEF fa, fb, fr, fc
  <2>2. SumUp(fa) = SumFunctionOnSet(a, K)
    BY <1>3, <2>1, SumUpIs
  <2>3. SumUp(fb) = SumFunctionOnSet(b, K)
    BY <1>3, <2>1, SumUpIs
  <2>4. SumUp(fr) = SumFunctionOnSet(revenue, K)
    BY <1>3, <2>1, SumUpIs
  <2>5. SumUp(fc) = SumFunctionOnSet(cogs, K)
    BY <1>3, <2>1, SumUpIs
  <2>6. QED BY <2>2, <2>3, <2>4, <2>5 DEF fa, fb, fr, fc
<1>17. Profit(w) =
              [gross |-> SumFunctionOnSet(Gross, L), returned |-> SumFunctionOnSet(Refunds, R),
               revenue |-> SumFunctionOnSet(Gross, L) - SumFunctionOnSet(Taxes, L)
                           - (SumFunctionOnSet(Refunds, R) - SumFunctionOnSet(RefundTaxes, R)),
               cogs |-> SumFunctionOnSet(CostsPaid, L) - SumFunctionOnSet(CostsBack, R)]
  <2>1. Profit(w) = Figures(L, R)
    BY DEF Profit, L, R
  <2>2. QED BY <1>1, <2>1, FiguresAre
<1>18. Profit(w) = [gross |-> SumUp([k \in K |-> rows[k].gross]),
                    returned |-> SumUp([k \in K |-> rows[k].returned]),
                    revenue |-> SumUp([k \in K |-> rows[k].revenue]),
                    cogs |-> SumUp([k \in K |-> rows[k].cogs])]
  BY <1>8, <1>9, <1>13, <1>14, <1>15, <1>16, <1>17
<1>19. QED
  BY <1>6, <1>18 DEF rows

\* A finite set of days that is not empty has a first one.
LEMMA FirstDay ==
  ASSUME NEW S, S \subseteq Nat, IsFiniteSet(S), S # {}
  PROVE  Min(S) \in S /\ \A d \in S : Min(S) <= d
<1> DEFINE R == {p \in S \X S : p[1] < p[2]}
<1>1. \A i, j \in S : <<i, j>> \in R <=> i < j
  OBVIOUS
<1> HIDE DEF R
<1>2. TotalOrder(R, S)
  BY <1>1 DEF TotalOrder
<1>3. S \in SUBSET S
  OBVIOUS
<1>4. PICK i \in S : \A j \in S \ {i} : <<i, j>> \in R
  BY <1>2, <1>3, FirstThere
<1>5. \A j \in S : i <= j
  <2> TAKE j \in S
  <2>1. i \in Nat /\ j \in Nat
    OBVIOUS
  <2>2. i = j \/ i < j
    BY <1>1, <1>4
  <2>3. QED BY <2>1, <2>2
<1>6. QED
  BY <1>5 DEF Min

\* Sums over two periods that meet.
LEMMA MeetingSums ==
  ASSUME NEW S, IsFiniteSet(S), NEW T, IsFiniteSet(T), S \cap T = {}, NEW H,
         \A h \in H : \A x \in S \cup T : h[x] \in Int
  PROVE  \A h \in H : SumFunctionOnSet(h, S \cup T) = SumFunctionOnSet(h, S) + SumFunctionOnSet(h, T)
BY SumOfBoth

LEMMA PeriodsMeet ==
  ASSUME ReportsInv
  PROVE  PeriodsAddUp
<1> SUFFICES ASSUME NEW v \in Windows, NEW w \in Windows, v.to = w.from
             PROVE  LET both == [from |-> v.from, to |-> w.to]
                    IN  /\ Profit(both) = Adding(Profit(v), Profit(w))
                        /\ NewIn(v) \cap NewIn(w) = {} /\ NewIn(both) = NewIn(v) \cup NewIn(w)
  BY DEF PeriodsAddUp
<1> DEFINE both == [from |-> v.from, to |-> w.to]
<1>1. v.from \in Nat /\ w.from \in Nat /\ w.to \in Nat /\ v.from < w.from /\ w.from < w.to
  BY ReportsAssumption DEF Windows, Days
<1>2. \A d \in Nat : /\ InWindow(both, d) <=> InWindow(v, d) \/ InWindow(w, d)
                     /\ ~(InWindow(v, d) /\ InWindow(w, d))
  BY <1>1 DEF InWindow
<1> HIDE DEF both
<1>3. ASSUME NEW i \in DOMAIN sales PROVE sales[i].at \in Nat
  <2>1. sales[i] \in SaleRow
    BY DEF ReportsInv, ReportsTypeOK
  <2>2. QED BY <2>1, ReportsAssumption DEF SaleRow, Days
<1>4. ASSUME NEW r \in DOMAIN returns PROVE returns[r].at \in Nat
  <2>1. returns[r] \in ReturnRow
    BY DEF ReportsInv, ReportsTypeOK
  <2>2. QED BY <2>1, ReportsAssumption DEF ReturnRow, Days
<1> DEFINE S == SoldIn(v)
           T == SoldIn(w)
           P == ReturnedIn(v)
           Q == ReturnedIn(w)
<1>5. SoldIn(both) = S \cup T /\ S \cap T = {}
  BY <1>2, <1>3, LineIdsAre DEF SoldIn
<1>6. ReturnedIn(both) = P \cup Q /\ P \cap Q = {}
  BY <1>2, <1>4 DEF ReturnedIn
<1>7. S \in SUBSET LineIds /\ T \in SUBSET LineIds /\ S \cup T \in SUBSET LineIds
      /\ P \in SUBSET DOMAIN returns /\ Q \in SUBSET DOMAIN returns /\ P \cup Q \in SUBSET DOMAIN returns
  BY DEF SoldIn, ReturnedIn
<1>8. Profit(v) = Figures(S, P) /\ Profit(w) = Figures(T, Q) /\ Profit(both) = Figures(S \cup T, P \cup Q)
  BY <1>5, <1>6 DEF Profit
<1> HIDE DEF S, T, P, Q
<1> DEFINE Sums(L, R) ==
              [gross |-> SumFunctionOnSet(Gross, L), returned |-> SumFunctionOnSet(Refunds, R),
               revenue |-> SumFunctionOnSet(Gross, L) - SumFunctionOnSet(Taxes, L)
                           - (SumFunctionOnSet(Refunds, R) - SumFunctionOnSet(RefundTaxes, R)),
               cogs |-> SumFunctionOnSet(CostsPaid, L) - SumFunctionOnSet(CostsBack, R)]
<1>9. Profit(v) = Sums(S, P) /\ Profit(w) = Sums(T, Q) /\ Profit(both) = Sums(S \cup T, P \cup Q)
  BY <1>7, <1>8, FiguresAre
<1>10. /\ IsFiniteSet(S) /\ IsFiniteSet(T) /\ IsFiniteSet(P) /\ IsFiniteSet(Q)
       /\ \A h \in {Gross, Taxes, CostsPaid} : SumFunctionOnSet(h, S) \in Int /\ SumFunctionOnSet(h, T) \in Int
       /\ \A h \in {Refunds, RefundTaxes, CostsBack} : SumFunctionOnSet(h, P) \in Int /\ SumFunctionOnSet(h, Q) \in Int
  BY <1>7, FiguresAre
<1>11. \A h \in {Gross, Taxes, CostsPaid} :
         SumFunctionOnSet(h, S \cup T) = SumFunctionOnSet(h, S) + SumFunctionOnSet(h, T)
  BY <1>5, <1>7, <1>10, SummandsAreWhole, MeetingSums
<1>12. \A h \in {Refunds, RefundTaxes, CostsBack} :
         SumFunctionOnSet(h, P \cup Q) = SumFunctionOnSet(h, P) + SumFunctionOnSet(h, Q)
  BY <1>6, <1>7, <1>10, SummandsAreWhole, MeetingSums
<1>13. Profit(both) = Adding(Profit(v), Profit(w))
  <2>1. Sums(S \cup T, P \cup Q) = Adding(Sums(S, P), Sums(T, Q))
    BY <1>10, <1>11, <1>12 DEF Adding
  <2> HIDE DEF Sums
  <2>2. QED BY <1>9, <2>1
<1>14. ASSUME NEW c \in Buyers
       PROVE  /\ ~(c \in NewIn(v) /\ c \in NewIn(w))
              /\ c \in NewIn(both) <=> c \in NewIn(v) \/ c \in NewIn(w)
  <2> DEFINE D == {sales[i].at : i \in BoughtBy(c)}
  <2>1. CASE BoughtBy(c) = {}
    BY <2>1 DEF NewIn
  <2>2. CASE BoughtBy(c) # {}
    <3>1. D \subseteq Nat /\ D # {}
      BY <1>3, <2>2 DEF BoughtBy
    <3>2. IsFiniteSet(D)
      <4> DEFINE f == [i \in BoughtBy(c) |-> sales[i].at]
      <4>1. DOMAIN f = BoughtBy(c) /\ D = {f[i] : i \in DOMAIN f}
        OBVIOUS
      <4>2. IsFiniteSet(BoughtBy(c))
        <5>1. Len(sales) \in Nat /\ DOMAIN sales = 1..Len(sales)
          BY DEF ReportsInv, ReportsTypeOK
        <5>2. IsFiniteSet(DOMAIN sales)
          BY <5>1, FS_Interval
        <5>3. BoughtBy(c) \subseteq DOMAIN sales
          BY DEF BoughtBy
        <5>4. QED BY <5>2, <5>3, FS_Subset
      <4> HIDE DEF f, D
      <4>3. QED BY <4>1, <4>2, ImageIsFinite
    <3>3. Min(D) \in Nat
      <4> HIDE DEF D
      <4>1. QED BY <3>1, <3>2, FirstDay
    <3>4. \A u : c \in NewIn(u) <=> InWindow(u, Min(D))
      BY <2>2 DEF NewIn
    <3> HIDE DEF D
    <3>5. QED BY <1>2, <3>3, <3>4
  <2>3. QED BY <2>1, <2>2
<1>15. NewIn(v) \cap NewIn(w) = {} /\ NewIn(both) = NewIn(v) \cup NewIn(w)
  <2>1. NewIn(v) \subseteq Buyers /\ NewIn(w) \subseteq Buyers /\ NewIn(both) \subseteq Buyers
    BY DEF NewIn
  <2>2. QED BY <1>14, <2>1
<1>16. QED
  BY <1>13, <1>15 DEF both

-----------------------------------------------------------------------------
(* What the alert shows and what it decides.                                *)

LEMMA DaysShown ==
  ASSUME ReportsInv
  PROVE  DaysShownAgree
<1> SUFFICES ASSUME NEW x \in Items
             PROVE  LowReason(x) = "running_out" <=> (DaysLeft(x) # Nobody /\ DaysLeft(x) < LowStockDays)
  BY DEF DaysShownAgree
<1>1. held[x] \in Int /\ LowStockDays \in Nat /\ today \in Nat /\ SpeedWindow.from \in Int
  <2>1. today \in Nat /\ held[x] \in Int
    BY ReportsAssumption DEF ReportsInv, ReportsTypeOK, Days
  <2>2. SpeedDays \in Nat /\ LowStockDays \in Nat
    BY ReportsAssumption
  <2>3. QED BY <2>1, <2>2 DEF SpeedWindow
<1>2. SoldLately(x) \in Int
  <2> DEFINE L == {l \in SoldIn(SpeedWindow) : LineOf(l).item = x}
             R == {r \in ReturnedIn(SpeedWindow) : returns[r].into = x}
             f == [l \in L |-> LineOf(l).base]
             g == [r \in R |-> returns[r].quantity]
  <2>1. L \in SUBSET LineIds /\ R \in SUBSET DOMAIN returns
    BY DEF SoldIn, ReturnedIn
  <2>2. IsFiniteSet(L) /\ IsFiniteSet(R)
    <3> HIDE DEF L, R
    <3>1. QED BY <2>1, LinesAreFinite, FS_Subset DEF ReportsInv
  <2>3. DOMAIN f = L /\ DOMAIN g = R /\ (\A l \in L : f[l] = Pieces[l]) /\ (\A r \in R : g[r] = PiecesBack[r])
    BY <2>1 DEF Pieces, PiecesBack
  <2>4. (\A l \in DOMAIN f : f[l] \in Int) /\ (\A r \in DOMAIN g : g[r] \in Int)
    <3> HIDE DEF L, R, f, g
    <3>1. QED BY <2>1, <2>3, SummandsAreWhole
  <2>5. SumUp(f) \in Int /\ SumUp(g) \in Int
    <3> HIDE DEF L, R, f, g
    <3>1. QED BY <2>2, <2>3, <2>4, SumUpWhole
  <2>6. SoldLately(x) = IF SumUp(f) - SumUp(g) > 0 THEN SumUp(f) - SumUp(g) ELSE 0
    BY DEF SoldLately
  <2> HIDE DEF f, g
  <2>7. QED BY <2>5, <2>6
<1>3. SpeedOver(x) \in Int
  <2>1. CASE ~Moved30(x)
    BY <2>1 DEF SpeedOver
  <2>2. CASE Moved30(x)
    <3>1. firstIn[x] # Nobody
      <4>1. CASE \E l \in SoldIn(SpeedWindow) : LineOf(l).item = x
        BY <4>1 DEF SoldIn, ReportsInv, LinesKnown
      <4>2. CASE \E r \in ReturnedIn(SpeedWindow) : returns[r].into = x
        <5>1. x # Nobody
          BY ReportsAssumption
        <5>2. QED BY <4>2, <5>1 DEF ReturnedIn, ReportsInv, LinesKnown
      <4>3. QED BY <2>2, <4>1, <4>2 DEF Moved30
    <3>2. firstIn[x] \in Int
      BY <3>1, ReportsAssumption DEF ReportsInv, ReportsTypeOK, Days
    <3>3. QED BY <1>1, <2>2, <3>2 DEF SpeedOver
  <2>3. QED BY <2>1, <2>2
<1> DEFINE h == held[x]
           n == SoldLately(x)
           m == SpeedOver(x)
<1>4. h \in Int /\ n \in Int /\ m \in Int
  BY <1>1, <1>2, <1>3
<1>5. LowReason(x) = "running_out" <=> h > 0 /\ n > 0 /\ m > 0 /\ h * m < n * LowStockDays
  BY <1>1 DEF LowReason
<1>6. DaysLeft(x) = IF h > 0 /\ n > 0 /\ m > 0 THEN (h * m) \div n ELSE Nobody
  BY DEF DaysLeft
<1> HIDE DEF h, n, m
<1>7. CASE h > 0 /\ n > 0 /\ m > 0
  <2>1. n \in Nat \ {0} /\ h * m \in Int /\ LowStockDays \in Int
    BY <1>1, <1>4, <1>7
  <2>2. (h * m) \div n < LowStockDays <=> h * m < n * LowStockDays
    BY <2>1, DivisionDecides
  <2>3. (h * m) \div n \in Int
    BY <2>1, DivisionIsWhole
  <2>4. (h * m) \div n >= 0
    <3>1. h * m >= 0
      <4>1. h \in Nat /\ m \in Nat
        BY <1>4, <1>7
      <4>2. QED BY <4>1
    <3>2. ~(h * m < n * 0)
      BY <2>1, <3>1
    <3>3. ~((h * m) \div n < 0)
      BY <2>1, <3>2, DivisionDecides
    <3>4. QED BY <2>3, <3>3
  <2>5. (h * m) \div n # Nobody
    BY <2>3, <2>4, ReportsAssumption
  <2>6. QED BY <1>5, <1>6, <1>7, <2>2, <2>5
<1>8. CASE ~(h > 0 /\ n > 0 /\ m > 0)
  BY <1>5, <1>6, <1>8
<1>9. QED BY <1>7, <1>8

-----------------------------------------------------------------------------
(* What is sold, brought back and moved keeps to its types, and an item     *)
(* that ever moved has a first day.                                         *)

LEMMA ReportsBegin == ReportsInit => ReportsInv
<1> SUFFICES ASSUME ReportsInit PROVE ReportsInv
  OBVIOUS
<1>1. sales = <<>> /\ returns = <<>>
  BY DEF ReportsInit
<1>2. DOMAIN sales = {} /\ DOMAIN returns = {}
  BY <1>1
<1>3. LineIds = {}
  BY <1>2 DEF LineIds
<1>4. ReportsTypeOK
  <2>1. 0 \in Days
    BY ReportsAssumption DEF Days
  <2>2. QED BY <2>1 DEF ReportsInit, ReportsTypeOK
<1>5. QED BY <1>2, <1>3, <1>4 DEF ReportsInv, LinesKnown

LEMMA FirstMovedIsADay ==
  ASSUME ReportsTypeOK, NEW x \in Items, NEW d \in Days
  PROVE  FirstMoved(x, d) \in Days /\ FirstMoved(x, d) # Nobody
<1>1. firstIn[x] \in Days \cup {Nobody}
  BY DEF ReportsTypeOK
<1>2. \A e \in Days : e # Nobody
  BY ReportsAssumption DEF Days
<1>3. QED BY <1>1, <1>2 DEF FirstMoved

\* Days only come to have a first movement.
LEMMA LinesStayKnown ==
  ASSUME LinesKnown, UNCHANGED <<sales, returns>>,
         \A x \in Items : firstIn[x] # Nobody => firstIn'[x] # Nobody,
         ReportsTypeOK
  PROVE  LinesKnown'
<1>1. LineIds' = LineIds /\ (\A l : LineOf(l)' = LineOf(l)) /\ returns' = returns
  BY DEF LineIds, LineOf
<1>2. \A l \in LineIds : LineOf(l).item \in Items
  BY LinesAreRows DEF LineRow
<1>3. ASSUME NEW r \in DOMAIN returns, returns[r].into # Nobody PROVE firstIn'[returns[r].into] # Nobody
  <2>1. returns[r] \in ReturnRow
    BY LinesAreRows
  <2>2. returns[r].into \in Items
    BY <1>3, <2>1 DEF ReturnRow
  <2>3. QED BY <1>3, <2>2 DEF LinesKnown
<1>4. QED BY <1>1, <1>2, <1>3 DEF LinesKnown

LEMMA DayKeepsReports ==
  ASSUME ReportsInv, NextDay
  PROVE  ReportsInv'
<1>1. today' \in Days
  BY ReportsAssumption DEF NextDay, ReportsInv, ReportsTypeOK, Days
<1>2. ReportsTypeOK'
  BY <1>1 DEF NextDay, ReportsInv, ReportsTypeOK
<1>3. LinesKnown'
  BY LinesStayKnown DEF NextDay, ReportsInv
<1>4. QED BY <1>2, <1>3 DEF ReportsInv

LEMMA StockKeepsReports ==
  ASSUME ReportsInv, NEW x \in Items, NEW n \in 1..MaxHeld, ReceiveStock(x, n)
  PROVE  ReportsInv'
<1> DEFINE day == FirstMoved(x, today)
<1>1. day \in Days /\ day # Nobody
  BY FirstMovedIsADay DEF ReportsInv, ReportsTypeOK
<1>2. firstIn' = [firstIn EXCEPT ![x] = day] /\ held' = [held EXCEPT ![x] = @ + n]
      /\ UNCHANGED <<today, sales, returns, optioned>>
  BY DEF ReceiveStock
<1> HIDE DEF day
<1>3. held \in [Items -> Int] /\ firstIn \in [Items -> Days \cup {Nobody}]
  BY DEF ReportsInv, ReportsTypeOK
<1>4. held' \in [Items -> Int] /\ firstIn' \in [Items -> Days \cup {Nobody}]
  BY <1>1, <1>2, <1>3
<1>5. \A y \in Items : firstIn[y] # Nobody => firstIn'[y] # Nobody
  BY <1>1, <1>2, <1>3
<1>6. ReportsTypeOK'
  BY <1>2, <1>4 DEF ReportsInv, ReportsTypeOK
<1>7. LinesKnown'
  BY <1>2, <1>5, LinesStayKnown DEF ReportsInv
<1>8. QED BY <1>6, <1>7 DEF ReportsInv

LEMMA OptionsKeepReports ==
  ASSUME ReportsInv, NEW p \in Products, NEW o \in Flavours, AddOptions(p, o)
  PROVE  ReportsInv'
<1> DEFINE x == <<p, o>>
           y == <<p, Nobody>>
           day == FirstMoved(x, today)
<1>1. x \in Items /\ y \in Items
  BY DEF Items
<1>2. day \in Days /\ day # Nobody
  BY <1>1, FirstMovedIsADay DEF ReportsInv, ReportsTypeOK
<1>3. /\ held' = [held EXCEPT ![y] = 0, ![x] = @ + held[y]]
      /\ firstIn' = IF held[y] = 0 THEN firstIn ELSE [firstIn EXCEPT ![x] = day]
      /\ UNCHANGED <<today, sales, returns>> /\ optioned' = optioned \cup {p}
  BY DEF AddOptions
<1> HIDE DEF day, x, y
<1>4. held \in [Items -> Int] /\ firstIn \in [Items -> Days \cup {Nobody}]
  BY DEF ReportsInv, ReportsTypeOK
<1>5. firstIn' \in [Items -> Days \cup {Nobody}]
  BY <1>1, <1>2, <1>3, <1>4
<1>6. held' \in [Items -> Int]
  BY <1>1, <1>3, <1>4
<1>7. \A z \in Items : firstIn[z] # Nobody => firstIn'[z] # Nobody
  BY <1>1, <1>2, <1>3, <1>4
<1>8. ReportsTypeOK'
  BY <1>3, <1>5, <1>6 DEF ReportsInv, ReportsTypeOK
<1>9. LinesKnown'
  BY <1>3, <1>7, LinesStayKnown DEF ReportsInv
<1>10. QED BY <1>8, <1>9 DEF ReportsInv

LEMMA SaleKeepsReports ==
  ASSUME ReportsInv, NEW d \in Days, NEW c \in Buyers \cup {Nobody}, NEW basket \in Baskets,
         NEW chosen \in [DOMAIN basket -> Items], RecordSale(d, c, basket, chosen)
  PROVE  ReportsInv'
<1> DEFINE Here(j) == [item |-> chosen[j], factor |-> basket[j].factor,
                       base |-> basket[j].base, total |-> basket[j].total, cost |-> basket[j].cost,
                       rate |-> basket[j].rate, tax |-> TaxInside(basket[j].total, basket[j].rate)]
           lines == [j \in DOMAIN basket |-> Here(j)]
           sale == [at |-> d, customer |-> c, lines |-> lines]
           SoldAs(x) == {j \in DOMAIN basket : chosen[j] = x}
           left == [x \in Items |-> held[x] - SumUp([j \in SoldAs(x) |-> basket[j].base])]
           n == Len(sales)
<1>1. basket \in Seq(Line) /\ Len(basket) \in Nat /\ DOMAIN basket = 1..Len(basket)
  BY ReportsAssumption
<1>2. \A j \in DOMAIN basket : basket[j] \in Line
  BY <1>1
<1>3. /\ sales' = Append(sales, sale) /\ held' = left /\ UNCHANGED <<today, returns, optioned>>
      /\ firstIn' = [x \in Items |-> IF \E j \in DOMAIN basket : chosen[j] = x THEN FirstMoved(x, d) ELSE firstIn[x]]
  BY DEF RecordSale
<1>4. ASSUME NEW j \in DOMAIN basket PROVE Here(j) \in LineRow
  <2>1. basket[j].total \in Nat /\ basket[j].rate \in Nat /\ basket[j].factor \in Nat \ {0}
        /\ basket[j].base \in Nat \ {0} /\ basket[j].cost \in Nat
    BY <1>2 DEF Line
  <2>2. TaxInside(basket[j].total, basket[j].rate) \in Int
    <3>1. \A t \in Int, r \in Nat : TaxInside(t, r) \in Int
      BY SharesAreWhole
    <3>2. basket[j].total \in Int
      BY <2>1
    <3>3. QED BY <2>1, <3>1, <3>2
  <2>3. chosen[j] \in Items
    OBVIOUS
  <2>4. QED BY <2>1, <2>2, <2>3 DEF LineRow
<1>5. lines \in Seq(LineRow)
  <2> HIDE DEF Here
  <2>1. QED BY <1>1, <1>4
<1>6. sale \in SaleRow
  <2> HIDE DEF lines
  <2>1. QED BY <1>5 DEF SaleRow
<1>7. ASSUME NEW x \in Items PROVE left[x] \in Int
  <2> DEFINE f == [j \in SoldAs(x) |-> basket[j].base]
  <2>1. DOMAIN f = SoldAs(x) /\ SoldAs(x) \subseteq DOMAIN basket /\ IsFiniteSet(DOMAIN basket)
    BY <1>1, FS_Interval
  <2>2. \A j \in DOMAIN f : f[j] \in Int
    BY <1>2 DEF Line
  <2>3. IsFiniteSet(DOMAIN f)
    BY <2>1, FS_Subset
  <2> HIDE DEF f
  <2>4. SumUp(f) \in Int
    BY <2>2, <2>3, SumUpWhole
  <2>5. held[x] \in Int
    BY DEF ReportsInv, ReportsTypeOK
  <2>6. left[x] = held[x] - SumUp(f)
    BY DEF f
  <2>7. QED BY <2>4, <2>5, <2>6
<1>8. left \in [Items -> Int]
  BY <1>7
<1> HIDE DEF left, sale, lines, Here
<1>9. ASSUME NEW x \in Items
      PROVE  /\ firstIn'[x] \in Days \cup {Nobody}
             /\ (\E j \in DOMAIN basket : chosen[j] = x) \/ firstIn[x] # Nobody => firstIn'[x] # Nobody
  BY <1>3, FirstMovedIsADay DEF ReportsInv, ReportsTypeOK
<1>10. firstIn' \in [Items -> Days \cup {Nobody}]
  BY <1>3, <1>9
<1>11. sales \in Seq(SaleRow) /\ sales' \in Seq(SaleRow)
  BY <1>3, <1>6 DEF ReportsInv, ReportsTypeOK
<1>12. ReportsTypeOK'
  BY <1>3, <1>8, <1>10, <1>11 DEF ReportsInv, ReportsTypeOK
<1>13. /\ n \in Nat /\ DOMAIN sales = 1..n /\ DOMAIN sales' = 1..(n + 1) /\ sales'[n + 1] = sale
       /\ \A i \in DOMAIN sales : sales'[i] = sales[i]
  BY <1>3, <1>6, <1>11
<1>14. \A l \in LineIds : l \in LineIds' /\ LineOf(l)' = LineOf(l) /\ LineOf(l).item \in Items
  <2> TAKE l \in LineIds
  <2>1. l[1] \in DOMAIN sales /\ l[2] \in DOMAIN sales[l[1]].lines /\ l = <<l[1], l[2]>>
    BY LineIdsAre
  <2>2. l[1] \in DOMAIN sales' /\ sales'[l[1]] = sales[l[1]]
    BY <1>13, <2>1
  <2>3. l \in LineIds'
    BY <2>1, <2>2 DEF LineIds
  <2>4. QED BY <2>2, <2>3, LinesAreRows DEF ReportsInv, LineOf, LineRow
<1>15. ASSUME NEW l \in LineIds', l \notin LineIds
       PROVE  \E j \in DOMAIN basket : LineOf(l)'.item = chosen[j]
  <2>1. PICK i \in DOMAIN sales' : l \in {<<i, j>> : j \in DOMAIN sales'[i].lines}
    BY DEF LineIds
  <2>2. PICK j \in DOMAIN sales'[i].lines : l = <<i, j>>
    BY <2>1
  <2>3. i \notin DOMAIN sales
    BY <1>13, <1>15, <2>2, LineIdsAre
  <2>4. sales'[i] = sale
    BY <1>13, <2>3
  <2>5. sale.lines = lines /\ DOMAIN lines = DOMAIN basket /\ lines[j].item = chosen[j]
    <3>1. sale.lines = lines /\ DOMAIN lines = DOMAIN basket
      BY DEF sale, lines
    <3>2. QED BY <2>2, <2>4, <3>1 DEF lines, Here
  <2>6. QED BY <2>2, <2>4, <2>5 DEF LineOf
<1>16. ASSUME NEW r \in DOMAIN returns, returns[r].into # Nobody PROVE firstIn'[returns[r].into] # Nobody
  <2>1. returns[r] \in ReturnRow
    BY LinesAreRows DEF ReportsInv
  <2>2. returns[r].into \in Items
    BY <1>16, <2>1 DEF ReturnRow
  <2>3. QED BY <1>9, <1>16, <2>2 DEF ReportsInv, LinesKnown
<1>17. ASSUME NEW l \in LineIds' PROVE firstIn'[LineOf(l)'.item] # Nobody
  <2>1. CASE l \in LineIds
    BY <1>9, <1>14, <2>1 DEF ReportsInv, LinesKnown
  <2>2. CASE l \notin LineIds
    BY <1>9, <1>15, <2>2
  <2>3. QED BY <2>1, <2>2
<1>18. \A r \in DOMAIN returns : returns[r].line \in LineIds'
  BY <1>14 DEF ReportsInv, LinesKnown
<1>19. LinesKnown'
  BY <1>3, <1>16, <1>17, <1>18 DEF LinesKnown
<1>20. QED BY <1>12, <1>19 DEF ReportsInv

LEMMA ReturnKeepsReports ==
  ASSUME ReportsInv, NEW l \in LineIds, NEW d \in Days, NEW n \in 1..LineOf(l).base,
         NEW into \in Items \cup {Nobody}, RecordReturn(l, n, d, into)
  PROVE  ReportsInv'
<1> DEFINE back == [at |-> d, line |-> l, quantity |-> n, into |-> into,
                    refund |-> Proportion(LineOf(l).total, LineOf(l).base, n),
                    cost |-> Proportion(LineOf(l).cost, LineOf(l).base, n)]
           m == Len(returns)
<1>1. /\ returns' = Append(returns, back) /\ UNCHANGED <<today, sales, optioned>>
      /\ held' = [x \in Items |-> IF x = into THEN held[x] + n ELSE held[x]]
      /\ firstIn' = [x \in Items |-> IF x = into THEN FirstMoved(x, d) ELSE firstIn[x]]
  BY DEF RecordReturn
<1>2. back \in ReturnRow
  <2>1. LineOf(l) \in LineRow
    BY LinesAreRows DEF ReportsInv
  <2>2. LineOf(l).total \in Int /\ LineOf(l).cost \in Int /\ LineOf(l).base \in Nat \ {0}
    BY <2>1 DEF LineRow
  <2>3. n \in Nat \ {0} /\ n \in Int
    BY <2>2
  <2>4. Proportion(LineOf(l).total, LineOf(l).base, n) \in Int /\ Proportion(LineOf(l).cost, LineOf(l).base, n) \in Int
    BY <2>2, <2>3, SharesAreWhole
  <2>5. l \in Nat \X Nat
    <3>1. l[1] \in DOMAIN sales /\ l[2] \in DOMAIN sales[l[1]].lines /\ l = <<l[1], l[2]>>
      BY LineIdsAre
    <3>2. sales \in Seq(SaleRow) /\ sales[l[1]] \in SaleRow
      BY <3>1 DEF ReportsInv, ReportsTypeOK
    <3>3. sales[l[1]].lines \in Seq(LineRow)
      BY <3>2 DEF SaleRow
    <3>4. l[1] \in Nat /\ l[2] \in Nat
      BY <3>1, <3>2, <3>3
    <3>5. QED BY <3>1, <3>4
  <2>6. QED BY <2>3, <2>4, <2>5 DEF ReturnRow
<1> HIDE DEF back
<1>3. ASSUME NEW x \in Items
      PROVE  /\ held'[x] \in Int /\ firstIn'[x] \in Days \cup {Nobody}
             /\ x = into \/ firstIn[x] # Nobody => firstIn'[x] # Nobody
  <2>1. held[x] \in Int /\ firstIn[x] \in Days \cup {Nobody} /\ n \in Int
    BY DEF ReportsInv, ReportsTypeOK
  <2>2. FirstMoved(x, d) \in Days /\ FirstMoved(x, d) # Nobody
    BY FirstMovedIsADay DEF ReportsInv
  <2>3. QED BY <1>1, <2>1, <2>2
<1>4. held' \in [Items -> Int] /\ firstIn' \in [Items -> Days \cup {Nobody}]
  BY <1>1, <1>3
<1>5. returns \in Seq(ReturnRow) /\ returns' \in Seq(ReturnRow)
  BY <1>1, <1>2 DEF ReportsInv, ReportsTypeOK
<1>6. ReportsTypeOK'
  BY <1>1, <1>4, <1>5 DEF ReportsInv, ReportsTypeOK
<1>7. /\ m \in Nat /\ DOMAIN returns = 1..m /\ DOMAIN returns' = 1..(m + 1) /\ returns'[m + 1] = back
      /\ \A r \in DOMAIN returns : returns'[r] = returns[r]
  BY <1>1, <1>2, <1>5
<1>8. back.line = l /\ back.into = into
  BY DEF back
<1>9. LineIds' = LineIds /\ \A k : LineOf(k)' = LineOf(k)
  BY <1>1 DEF LineIds, LineOf
<1>10. ASSUME NEW k \in LineIds PROVE firstIn'[LineOf(k).item] # Nobody
  <2>1. LineOf(k).item \in Items
    BY LinesAreRows DEF ReportsInv, LineRow
  <2>2. QED BY <1>3, <2>1 DEF ReportsInv, LinesKnown
<1>11. ASSUME NEW r \in DOMAIN returns'
       PROVE  returns'[r].line \in LineIds /\ (returns'[r].into # Nobody => firstIn'[returns'[r].into] # Nobody)
  <2>1. CASE r = m + 1
    BY <1>3, <1>7, <1>8, <2>1
  <2>2. CASE r \in DOMAIN returns
    <3>1. returns[r] \in ReturnRow
      BY <2>2, LinesAreRows DEF ReportsInv
    <3>2. returns[r].into \in Items \cup {Nobody}
      BY <3>1 DEF ReturnRow
    <3>3. QED BY <1>3, <1>7, <2>2, <3>2 DEF ReportsInv, LinesKnown
  <2>3. QED BY <1>7, <2>1, <2>2
<1>12. LinesKnown'
  BY <1>9, <1>10, <1>11 DEF LinesKnown
<1>13. QED BY <1>6, <1>12 DEF ReportsInv

LEMMA StepKeepsReports == ReportsInv /\ [ReportsNext]_reportsVars => ReportsInv'
<1> SUFFICES ASSUME ReportsInv, [ReportsNext]_reportsVars PROVE ReportsInv'
  OBVIOUS
<1>1. CASE ReportsNext
  BY <1>1, DayKeepsReports, StockKeepsReports, SaleKeepsReports, ReturnKeepsReports, OptionsKeepReports DEF ReportsNext
<1>2. CASE UNCHANGED reportsVars
  <2>1. UNCHANGED <<today, sales, returns, held, firstIn, optioned>>
    BY <1>2 DEF reportsVars
  <2>2. ReportsTypeOK'
    BY <2>1 DEF ReportsInv, ReportsTypeOK
  <2>3. LinesKnown'
    BY <2>1, LinesStayKnown DEF ReportsInv
  <2>4. QED BY <2>2, <2>3 DEF ReportsInv
<1>3. QED BY <1>1, <1>2

LEMMA ReportsAlways == ReportsSpec => []ReportsInv
BY ReportsBegin, StepKeepsReports, PTL DEF ReportsSpec

-----------------------------------------------------------------------------
(* What stands.                                                             *)

LEMMA PastIsLeft ==
  ASSUME ReportsInv, ReportsNext
  PROVE  ReturnsLeaveThePast
<1> SUFFICES ASSUME returns' # returns, NEW w \in Windows, ~InWindow(w, Last(returns').at)
             PROVE  Profit(w)' = Profit(w)
  BY DEF ReturnsLeaveThePast
<1>1. PICK l \in LineIds, d \in Days : \E n \in 1..LineOf(l).base, into \in Items \cup {Nobody} :
        RecordReturn(l, n, d, into)
  BY DEF ReportsNext, NextDay, ReceiveStock, RecordSale, AddOptions
<1>2. PICK n \in 1..LineOf(l).base, into \in Items \cup {Nobody} : RecordReturn(l, n, d, into)
  BY <1>1
<1> DEFINE back == [at |-> d, line |-> l, quantity |-> n, into |-> into,
                    refund |-> Proportion(LineOf(l).total, LineOf(l).base, n),
                    cost |-> Proportion(LineOf(l).cost, LineOf(l).base, n)]
           m == Len(returns)
<1>3. returns' = Append(returns, back) /\ sales' = sales
  BY <1>2 DEF RecordReturn
<1> HIDE DEF back
<1>4. /\ m \in Nat /\ DOMAIN returns = 1..m /\ DOMAIN returns' = 1..(m + 1) /\ Len(returns') = m + 1
      /\ \A r \in DOMAIN returns : returns'[r] = returns[r]
  BY <1>3 DEF ReportsInv, ReportsTypeOK
<1>5. Last(returns') = returns'[m + 1]
  BY <1>4 DEF Last
<1>6. ReturnedIn(w)' = ReturnedIn(w)
  BY <1>4, <1>5 DEF ReturnedIn, InWindow
<1>7. LineIds' = LineIds /\ \A k : LineOf(k)' = LineOf(k)
  BY <1>3 DEF LineIds, LineOf
<1>8. SoldIn(w)' = SoldIn(w)
  BY <1>3, <1>7 DEF SoldIn, InWindow
<1> DEFINE L == SoldIn(w)
           R == ReturnedIn(w)
<1>9. \A r \in R : returns'[r] = returns[r] /\ RefundTax(r)' = RefundTax(r)
  <2>1. \A r \in R : returns'[r] = returns[r]
    BY <1>4 DEF ReturnedIn
  <2>2. QED BY <1>3, <2>1 DEF RefundTax, LineOf
<1>10. /\ [r \in R |-> returns'[r].refund] = [r \in R |-> returns[r].refund]
       /\ [r \in R |-> RefundTax(r)'] = [r \in R |-> RefundTax(r)]
       /\ [r \in R |-> returns'[r].cost] = [r \in R |-> returns[r].cost]
  BY <1>9
<1>11. /\ [k \in L |-> LineOf(k)'.total] = [k \in L |-> LineOf(k).total]
       /\ [k \in L |-> LineOf(k)'.tax] = [k \in L |-> LineOf(k).tax]
       /\ [k \in L |-> LineOf(k)'.cost] = [k \in L |-> LineOf(k).cost]
  BY <1>7
<1>12. QED
  BY <1>6, <1>8, <1>10, <1>11 DEF Profit, Figures

LEMMA NothingIsKilled ==
  ASSUME ReportsInv, ReportsNext
  PROVE  OptionsKillNothing
<1> SUFFICES ASSUME optioned' # optioned, NEW x \in DeadStock' PROVE \E y \in DeadStock : y[1] = x[1]
  BY DEF OptionsKillNothing
<1>1. PICK p \in Products, o \in Flavours : AddOptions(p, o)
  BY DEF ReportsNext, NextDay, ReceiveStock, RecordSale, RecordReturn
<1> DEFINE a == <<p, o>>
           b == <<p, Nobody>>
<1>2. held' = [held EXCEPT ![b] = 0, ![a] = @ + held[b]] /\ UNCHANGED <<today, sales, returns>>
  BY <1>1 DEF AddOptions
<1>3. a \in Items /\ b \in Items /\ a # b /\ a[1] = p /\ b[1] = p
  BY ReportsAssumption DEF Items
<1>4. x \in Items /\ held'[x] > 0 /\ ~SoldSince(x)
  <2>1. x \in Items /\ held'[x] > 0 /\ ~SoldSince(x)'
    BY DEF DeadStock
  <2>2. SoldSince(x)' <=> SoldSince(x)
    BY <1>2 DEF SoldSince, LineIds, LineOf
  <2>3. QED BY <2>1, <2>2
<1>5. held \in [Items -> Int]
  BY DEF ReportsInv, ReportsTypeOK
<1>6. SoldSince(b) => SoldSince(a)
  BY <1>3 DEF SoldSince
<1> HIDE DEF a, b
<1>7. CASE x = b
  BY <1>2, <1>3, <1>4, <1>5, <1>7
<1>8. CASE x = a
  <2>1. held'[a] = held[a] + held[b] /\ held[a] \in Int /\ held[b] \in Int
    BY <1>2, <1>3, <1>5
  <2>2. CASE held[a] > 0
    BY <1>3, <1>4, <1>8, <2>2 DEF DeadStock
  <2>3. CASE held[b] > 0
    BY <1>3, <1>4, <1>6, <1>8, <2>3 DEF DeadStock
  <2>4. QED BY <1>4, <1>8, <2>1, <2>2, <2>3
<1>9. CASE x # a /\ x # b
  <2>1. held'[x] = held[x]
    BY <1>2, <1>3, <1>4, <1>5, <1>9
  <2>2. QED BY <1>4, <2>1 DEF DeadStock
<1>10. QED BY <1>7, <1>8, <1>9

\* However a period is cut into slices or into shorter periods, for any sales, returns,
\* tax and rounding, the rows come to its totals, and the days an item is said to last
\* decide as the alert does (report.service.ts, stock-alerts.ts).
THEOREM FiguresAlwaysAgree == ReportsSpec => []FiguresAgree
<1>1. ReportsInv => FiguresAgree
  BY SlicesAddUp, PeriodsMeet, DaysShown DEF FiguresAgree
<1>2. QED BY <1>1, ReportsAlways, PTL

\* A return changes the figures of its own day only, and a product's first options make
\* nothing dead stock that was not (report.service.ts: profitWindow, deadStock).
THEOREM PastAlwaysStands == ReportsSpec => PastStands
<1>1. ReportsInv /\ [ReportsNext]_reportsVars => [ReturnsLeaveThePast /\ OptionsKillNothing]_reportsVars
  BY PastIsLeft, NothingIsKilled
<1>2. QED
  BY <1>1, ReportsAlways, PTL DEF ReportsSpec, PastStands

\* Sales, returns, stock and first days keep to their types (report.service.ts).
THEOREM ReportsKeepToTheirTypes == ReportsSpec => []ReportsTypeOK
BY ReportsAlways, PTL DEF ReportsInv
=============================================================================
