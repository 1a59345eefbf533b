------------------------------ MODULE TillProofs ------------------------------
(***************************************************************************)
(* What a till screen and its server keep to, for any customers, prices,   *)
(* carts and answers in any order: no line is sold twice, twins are meant, *)
(* payment waits for the buyer's prices and charges them, and a cart lasts *)
(* until its own sale is recorded.                                         *)
(* And what the sessions of those at it keep to, for any tabs, browsers,   *)
(* calls, workers, hours and lives of tokens: a token is taken to have     *)
(* leaked only when two tabs of a browser refreshed at once or an answer   *)
(* was not heard, whatever overlaps; and while requests do not overlap, a  *)
(* chain has one live token, what was ended stays ended, and staff are     *)
(* signed in on one device.                                                *)
(***************************************************************************)
EXTENDS Till, Sessions, FiniteSetTheorems, SequenceTheorems, TLAPS

-----------------------------------------------------------------------------
(* The inductive invariant. *)

Buyers == Customers \cup {WalkIn}
Stages == {"sent", "checked", "duplicate", "stock", "credit", "error", "recorded"}

\* What requests and sales under way are.
AskedRow(r) ==
  /\ r.tier \in Tiers
  /\ r.kind \in {"scan", "camera", "search", "unit"} => r.saleId \in 1..MaxSales
  /\ r.kind = "unit" => r.unit \in Units
Posts ==
  [saleId : 1..MaxSales, lines : Seq(Line), customer : Buyers, credit : BOOLEAN,
   reason : {None, "stock", "credit"}, allow : BOOLEAN, waiting : BOOLEAN, stage : Stages]
Sales == [saleId : 1..MaxSales, lines : Seq(Line), customer : Buyers, credit : BOOLEAN]

ScreenOK ==
  /\ TillTypeOK
  /\ nextKey \in Nat \ {0} /\ nextSale \in Nat /\ saleId < nextSale
  /\ (\A r \in asked : AskedRow(r)) /\ posts \subseteq Posts /\ sold \in Seq(Sales)

\* What the browser keeps is the cart.
Kept ==
  draft = IF lines # <<>> /\ completed = None
          THEN [saleId |-> saleId, lines |-> lines, customer |-> customer, credit |-> credit] ELSE None

\* A key is of one sale, wherever it went, and each was given out before.
RungUp(id, ls) == {<<id, ls[k].key>> : k \in DOMAIN ls}
OfPosts(ps) == UNION {RungUp(p.saleId, p.lines) : p \in ps}
OfSales(ss) == UNION {RungUp(ss[i].saleId, ss[i].lines) : i \in DOMAIN ss}
RungOf(id, ls, ps, ss) == RungUp(id, ls) \cup OfPosts(ps) \cup OfSales(ss)
Rung == RungOf(saleId, lines, posts, sold)
KeysKept ==
  /\ \A a, b \in Rung : a[2] = b[2] => a[1] = b[1]
  /\ \A a \in Rung : a[2] < nextKey
SoldOnce == \A i, j \in DOMAIN sold : sold[i].saleId = sold[j].saleId => i = j

\* "Record anyway" was said of the sale that carries it.
MeantIsSaid == (recordAnyway => saleId \in meant) /\ \A p \in posts : p.allow => p.saleId \in meant

\* Of sales under way one at a time is at the server, and what it was compared with is
\* what there is.
AtTheServer == {p \in posts : p.stage \in {"sent", "checked"}}
NoTwinOf(p) ==
  \A i \in DOMAIN sold :
    sold[i].saleId # p.saleId /\ sold[i].customer = p.customer => ~SameItems(p.lines, sold[i].lines)
OneAtATime ==
  together \/ /\ \A p, q \in AtTheServer : p = q
              /\ \A p \in posts : p.stage = "checked" => p.allow \/ NoTwinOf(p)

\* Of re-pricings the latest is the one the flag is up for, and is for the customer's list.
Repricings == {r \in asked : r.kind = "reprice"}
RunsInOrder ==
  /\ \A r \in Repricings : r.run \in Nat /\ r.run <= repriceRun
  /\ \A r, s \in Repricings : r.run = s.run => r = s
  /\ \A r \in Repricings : r.run = repriceRun => r.tier = Tier
  /\ adding => ~repricing

\* While a sale is waited for, the screen stands still.
StandsStill ==
  /\ \A p \in posts : p.waiting =>
       /\ busy /\ ~repricing /\ ~adding /\ completed = None
       /\ p.saleId = saleId /\ p.lines = lines /\ p.customer = customer
  /\ asking # None => ~repricing /\ ~adding
  /\ completed # None => ~repricing

\* Each line is on the buyer's list, or waits for its price on it.
OnList(line, tier) == line.list = Price[tier][line.unit]
AwaitedIn(rs, run, line) == \E r \in rs : r.run = run /\ [key |-> line.key, unit |-> line.unit] \in r.rows
AwaitsPrice(line) == AwaitedIn(Repricings, repriceRun, line)
Priced ==
  /\ \A i \in DOMAIN lines : OnList(lines[i], Tier) \/ AwaitsPrice(lines[i])
  /\ \A p \in posts : \A k \in DOMAIN p.lines : OnList(p.lines[k], TierOf[p.customer])
  /\ \A i \in DOMAIN sold : \A k \in DOMAIN sold[i].lines :
       OnList(sold[i].lines[k], TierOf[sold[i].customer])

RecordedIsSold ==
  \A p \in posts : p.stage = "recorded" =>
    \E i \in DOMAIN sold : sold[i].saleId = p.saleId /\ sold[i].lines = p.lines

IInv ==
  /\ ScreenOK /\ Kept /\ KeysKept /\ SoldOnce /\ MeantIsSaid /\ OneAtATime /\ TwinsWereMeant
  /\ RunsInOrder /\ PaymentWaitsForPrices /\ RecordedIsSold
  /\ ~astray => StandsStill /\ Priced /\ ReceiptIsTheCart

-----------------------------------------------------------------------------
(* What is done to the lines of a cart. *)

\* Each line of `new` has the key of one of `old`.
KeysFrom(old, new) == \A k \in DOMAIN new : \E n \in DOMAIN old : new[k].key = old[n].key
\* Each line of `new` has the key, the unit and the list price of one of `old`.
AsListed(old, new) ==
  \A k \in DOMAIN new : \E n \in DOMAIN old :
    new[k].key = old[n].key /\ new[k].unit = old[n].unit /\ new[k].list = old[n].list
Within(ls) == \A i \in DOMAIN ls : ls[i].quantity <= MaxQuantity

LEMMA PricesThereAre ==
  ASSUME NEW t \in Tiers, NEW u \in Units
  PROVE  Price[t][u] \in Prices
  BY DEF Prices

\* A sequence whose places are rewritten is a sequence of what is written there.
LEMMA Rewritten ==
  ASSUME NEW S, NEW ls \in Seq(S), NEW new, NEW T, DOMAIN new = DOMAIN ls,
         new = [i \in DOMAIN new |-> new[i]], \A i \in DOMAIN new : new[i] \in T
  PROVE  new \in Seq(T)
<1>1. DOMAIN ls = 1..Len(ls) /\ Len(ls) \in Nat
  BY LenProperties
<1>2. new \in [1..Len(ls) -> T]
  BY <1>1
<1> QED
  BY <1>1, <1>2, SeqDef

LEMMA AddedToCart ==
  ASSUME NEW ls \in Seq(Line), NEW u \in Units, NEW price \in Prices, NEW key \in 1..MaxLines,
         Within(AddToCart(ls, u, price, key))
  PROVE  LET new == AddToCart(ls, u, price, key)
             row == [key |-> key, unit |-> u, quantity |-> 1, charged |-> price, list |-> price]
         IN  /\ new \in Seq(Line)
             /\ \/ new = Append(ls, row) /\ Len(new) = Len(ls) + 1
                \/ Len(new) = Len(ls) /\ AsListed(ls, new)
<1> DEFINE new == AddToCart(ls, u, price, key)
           row == [key |-> key, unit |-> u, quantity |-> 1, charged |-> price, list |-> price]
           same == {i \in DOMAIN ls : ls[i].unit = u /\ ls[i].charged = price}
<1>1. CASE same = {}
  <2>1. new = Append(ls, row)
    BY <1>1 DEF AddToCart
  <2>2. DOMAIN new = 1..(Len(ls) + 1) /\ new[Len(ls) + 1] = row
    BY <2>1
  <2>3. Len(ls) \in Nat
    OBVIOUS
  <2>4. row.quantity <= MaxQuantity
    BY <2>2, <2>3 DEF Within
  <2>5. 1 \in 1..MaxQuantity
    BY <2>4, TillAssumption
  <2>6. row \in Line
    BY <2>5 DEF Line
  <2> QED
    BY <2>1, <2>6
<1>2. CASE same # {}
  <2> DEFINE m == Min(same)
  <2>1. new = [ls EXCEPT ![m].quantity = ls[m].quantity + 1]
    BY <1>2 DEF AddToCart
  <2> HIDE DEF m
  <2>2. DOMAIN new = DOMAIN ls /\ new = [i \in DOMAIN new |-> new[i]]
    BY <2>1
  <2>3. ASSUME NEW i \in DOMAIN ls
        PROVE  /\ new[i] \in Line
               /\ new[i].key = ls[i].key /\ new[i].unit = ls[i].unit /\ new[i].list = ls[i].list
    <3>1. ls[i] \in Line
      BY ElementOfSeq, LenProperties
    <3>2. CASE i = m
      <4>1. new[i] = [ls[i] EXCEPT !.quantity = ls[i].quantity + 1]
        BY <2>1, <3>2
      <4>2. new[i].quantity <= MaxQuantity
        BY <2>2 DEF Within
      <4>3. ls[i].quantity + 1 \in 1..MaxQuantity
        BY <3>1, <4>1, <4>2, TillAssumption DEF Line
      <4> QED
        BY <3>1, <4>1, <4>3 DEF Line
    <3>3. CASE i # m
      BY <2>1, <3>1, <3>3
    <3> QED
      BY <3>2, <3>3
  <2>4. new \in Seq(Line)
    BY <2>2, <2>3, Rewritten
  <2>5. Len(new) = Len(ls)
    BY <2>2, <2>4, LenProperties
  <2>6. AsListed(ls, new)
    BY <2>2, <2>3 DEF AsListed
  <2> QED
    BY <2>4, <2>5, <2>6
<1> QED
  BY <1>1, <1>2

LEMMA LineRemoved ==
  ASSUME NEW ls \in Seq(Line), NEW i \in DOMAIN ls
  PROVE  RemoveAt(ls, i) \in Seq(Line) /\ AsListed(ls, RemoveAt(ls, i))
<1> DEFINE before == SubSeq(ls, 1, i - 1)
           after == SubSeq(ls, i + 1, Len(ls))
<1>1. i \in 1..Len(ls) /\ Len(ls) \in Nat
  BY LenProperties
<1>2. before \in Seq(Line) /\ Len(before) = i - 1 /\ \A k \in 1..(i - 1) : before[k] = ls[k]
  BY <1>1
<1>3. after \in Seq(Line) /\ Len(after) = Len(ls) - i /\ \A k \in 1..(Len(ls) - i) : after[k] = ls[i + k]
  BY <1>1
<1> DEFINE new == before \o after
<1> HIDE DEF before, after
<1>4. new \in Seq(Line) /\ Len(new) = Len(ls) - 1
  BY <1>1, <1>2, <1>3
<1>5. ASSUME NEW k \in DOMAIN new
      PROVE  \E n \in DOMAIN ls : new[k] = ls[n]
  <2>1. k \in 1..(Len(ls) - 1)
    BY <1>4
  <2>2. CASE k <= i - 1
    <3>1. new[k] = before[k]
      BY <1>1, <1>2, <1>3, <2>1, <2>2
    <3> QED
      BY <1>1, <1>2, <2>1, <2>2, <3>1
  <2>3. CASE k > i - 1
    <3>1. new[k] = after[k - (i - 1)] /\ k - (i - 1) \in 1..(Len(ls) - i)
      BY <1>1, <1>2, <1>3, <2>1, <2>3
    <3>2. i + (k - (i - 1)) \in DOMAIN ls
      BY <1>1, <2>1, <2>3
    <3> QED
      BY <1>3, <3>1, <3>2
  <2> QED
    BY <1>1, <2>1, <2>2, <2>3
<1> QED
  BY <1>4, <1>5 DEF AsListed, RemoveAt, before, after

LEMMA LinesChanged ==
  ASSUME NEW ls \in Seq(Line), NEW i \in DOMAIN ls
  PROVE  /\ \A q \in 1..MaxQuantity : /\ [ls EXCEPT ![i].quantity = q] \in Seq(Line)
                                      /\ AsListed(ls, [ls EXCEPT ![i].quantity = q])
         /\ \A p \in Prices : /\ [ls EXCEPT ![i].charged = p] \in Seq(Line)
                              /\ AsListed(ls, [ls EXCEPT ![i].charged = p])
<1>1. \A n \in DOMAIN ls : ls[n] \in Line
  BY ElementOfSeq, LenProperties
<1>2. ASSUME NEW q \in 1..MaxQuantity
      PROVE  /\ [ls EXCEPT ![i].quantity = q] \in Seq(Line)
             /\ AsListed(ls, [ls EXCEPT ![i].quantity = q])
  <2> DEFINE new == [ls EXCEPT ![i].quantity = q]
  <2>1. DOMAIN new = DOMAIN ls /\ new = [n \in DOMAIN new |-> new[n]]
    OBVIOUS
  <2>2. \A n \in DOMAIN ls :
          new[n] \in Line /\ new[n].key = ls[n].key /\ new[n].unit = ls[n].unit /\ new[n].list = ls[n].list
    BY <1>1 DEF Line
  <2> HIDE DEF new
  <2>3. new \in Seq(Line)
    BY <2>1, <2>2, Rewritten
  <2>4. AsListed(ls, new)
    BY <2>1, <2>2 DEF AsListed
  <2> QED
    BY <2>3, <2>4 DEF new
<1>3. ASSUME NEW p \in Prices
      PROVE  /\ [ls EXCEPT ![i].charged = p] \in Seq(Line)
             /\ AsListed(ls, [ls EXCEPT ![i].charged = p])
  <2> DEFINE new == [ls EXCEPT ![i].charged = p]
  <2>1. DOMAIN new = DOMAIN ls /\ new = [n \in DOMAIN new |-> new[n]]
    OBVIOUS
  <2>2. \A n \in DOMAIN ls :
          new[n] \in Line /\ new[n].key = ls[n].key /\ new[n].unit = ls[n].unit /\ new[n].list = ls[n].list
    BY <1>1 DEF Line
  <2> HIDE DEF new
  <2>3. new \in Seq(Line)
    BY <2>1, <2>2, Rewritten
  <2>4. AsListed(ls, new)
    BY <2>1, <2>2 DEF AsListed
  <2> QED
    BY <2>3, <2>4 DEF new
<1> QED
  BY <1>2, <1>3

\* A new line at the end of the cart, at its price.
Joined(u, price) ==
  lines' = Append(lines, [key |-> nextKey, unit |-> u, quantity |-> 1, charged |-> price, list |-> price])

\* What adding goods leaves.
Added(u, price) ==
  /\ lines' \in Seq(Line) /\ nextKey' \in Nat \ {0}
  /\ \/ nextKey' = nextKey /\ AsListed(lines, lines')
     \/ nextKey' = nextKey + 1 /\ price # NoPrice /\ Joined(u, price)

LEMMA SameListed == ASSUME NEW ls, NEW new, new = ls PROVE AsListed(ls, new)
  BY DEF AsListed

LEMMA PricedIsAdded ==
  ASSUME ScreenOK, NEW u \in Units, NEW price \in Prices, AddPriced(u, price)
  PROVE  Added(u, price)
<1>1. lines \in Seq(Line) /\ nextKey \in Nat \ {0}
  BY DEF ScreenOK, TillTypeOK
<1>2. CASE price = NoPrice
  BY <1>1, <1>2, SameListed DEF AddPriced, Added
<1>3. CASE price # NoPrice
  <2>1. /\ lines' = AddToCart(lines, u, price, nextKey)
        /\ nextKey' = IF Len(lines') > Len(lines) THEN nextKey + 1 ELSE nextKey
        /\ nextKey <= MaxLines /\ Within(lines')
    BY <1>3 DEF AddPriced, Within
  <2>2. nextKey \in 1..MaxLines
    BY <1>1, <2>1, TillAssumption
  <2> DEFINE new == AddToCart(lines, u, price, nextKey)
             row == [key |-> nextKey, unit |-> u, quantity |-> 1, charged |-> price, list |-> price]
  <2>3. Within(new)
    BY <2>1
  <2>4. /\ new \in Seq(Line)
        /\ \/ new = Append(lines, row) /\ Len(new) = Len(lines) + 1
           \/ Len(new) = Len(lines) /\ AsListed(lines, new)
    BY <1>1, <2>2, <2>3, AddedToCart
  <2>5. Len(lines) \in Nat
    BY <1>1
  <2>6. lines' = new
    BY <2>1
  <2> HIDE DEF new
  <2>7. CASE new = Append(lines, row) /\ Len(new) = Len(lines) + 1
    BY <1>1, <1>3, <2>1, <2>4, <2>5, <2>6, <2>7 DEF Added, Joined
  <2>8. CASE Len(new) = Len(lines) /\ AsListed(lines, new)
    BY <1>1, <2>1, <2>4, <2>5, <2>6, <2>8 DEF Added
  <2> QED
    BY <2>4, <2>7, <2>8
<1> QED
  BY <1>2, <1>3

-----------------------------------------------------------------------------
(* What the steps leave alone.  Work at the screen is every handler and    *)
(* every answer but those of sales, new carts and reloads.                 *)

Work ==
  \/ LookUp \/ CameraReads \/ ToggleCamera \/ CancelOption \/ OpenCustomerDialog \/ PayLater \/ CancelDialog
  \/ \E i \in DOMAIN lines : \/ \E u \in Units : ChangeUnit(i, u)
                             \/ ChangeQuantity(i) \/ ChangePrice(i) \/ RemoveLine(i)
  \/ \E c \in Buyers : ChooseCustomer(c)
  \/ \E u \in Units : AddFromSearch(u) \/ PickOption(u)
  \/ \E r \in asked : Ends(r) \/ Adds(r) \/ RepriceAnswered(r) \/ RepriceFails(r)

SalesStay ==
  UNCHANGED <<saleId, recordAnyway, completed, posts, sold, isManager, short, nextSale, reloads,
              meant, together>>

LEMMA WorkLeavesSales == Work => SalesStay
<1> SUFFICES ASSUME Work PROVE SalesStay
  OBVIOUS
<1> USE DEF SalesStay, server, counters, cart, screen
<1>1. CASE LookUp \/ CameraReads \/ ToggleCamera \/ CancelOption
  BY <1>1 DEF LookUp, CameraReads, ToggleCamera, CancelOption, ScanStays
<1>2. CASE OpenCustomerDialog \/ PayLater \/ CancelDialog
  BY <1>2 DEF OpenCustomerDialog, PayLater, CancelDialog
<1>3. ASSUME NEW i \in DOMAIN lines,
             (\E u \in Units : ChangeUnit(i, u)) \/ ChangeQuantity(i) \/ ChangePrice(i) \/ RemoveLine(i)
      PROVE  SalesStay
  BY <1>3 DEF ChangeUnit, ChangeQuantity, ChangePrice, RemoveLine, LineStays
<1>4. ASSUME NEW c \in Buyers, ChooseCustomer(c) PROVE SalesStay
  BY <1>4 DEF ChooseCustomer
<1>5. ASSUME NEW u \in Units, AddFromSearch(u) \/ PickOption(u) PROVE SalesStay
  BY <1>5 DEF AddFromSearch, PickOption, ScanStays
<1>6. ASSUME NEW r \in asked, Ends(r) PROVE SalesStay
  BY <1>6 DEF Ends, ScannedOptions, NoSuchCode, SearchAnswered, AskFails, UnitFails, ScanStays, LineStays
<1>7. ASSUME NEW r \in asked, Adds(r) PROVE SalesStay
  BY <1>7 DEF Adds, Scanned, SearchAnswered, UnitAnswered, ScanStays, LineStays
<1>8. ASSUME NEW r \in asked, RepriceAnswered(r) \/ RepriceFails(r) PROVE SalesStay
  BY <1>8 DEF RepriceAnswered, RepriceFails, RepriceStays
<1> QED
  BY <1>1, <1>2, <1>3, <1>4, <1>5, <1>6, <1>7, <1>8 DEF Work

\* A step is work at the screen, a payment, the server's or its answer, a new cart, or
\* a reload; and what it strays by is known.
Steps ==
  \/ Work
  \/ TakePayment \/ ConfirmOverride \/ RecordAnyway
  \/ Server \/ Replies \/ StartNewSale \/ Reload

LEMMA NextIsStep == Next => Steps /\ \E s \in BOOLEAN : Settle(s)
<1> SUFFICES ASSUME Next PROVE Steps /\ \E s \in BOOLEAN : Settle(s)
  OBVIOUS
<1>1. CASE (Cashier \/ Server \/ Replies \/ \E r \in asked : Ends(r)) /\ Settle(FALSE)
  BY <1>1 DEF Steps, Work, Cashier, Buyers
<1>2. ASSUME NEW u \in Units, \/ AddFromSearch(u) /\ Settle(Waiting)
                              \/ PickOption(u) /\ Settle(Late(choosing))
      PROVE  Steps /\ \E s \in BOOLEAN : Settle(s)
  <2>1. \E s \in BOOLEAN : Settle(s)
    <3>1. Waiting \in BOOLEAN /\ Late(choosing) \in BOOLEAN
      BY DEF Waiting, Late
    <3> QED
      BY <1>2, <3>1
  <2> QED
    BY <1>2, <2>1 DEF Steps, Work
<1>3. ASSUME NEW r \in asked, \/ Adds(r) /\ Settle(Late(r))
                              \/ RepriceAnswered(r) /\ Settle(Unpriced(r))
                              \/ RepriceFails(r) /\ Settle(r.run = repriceRun)
      PROVE  Steps /\ \E s \in BOOLEAN : Settle(s)
  <2>1. \E s \in BOOLEAN : Settle(s)
    <3>1. Late(r) \in BOOLEAN /\ Unpriced(r) \in BOOLEAN /\ (r.run = repriceRun) \in BOOLEAN
      BY DEF Late, Unpriced
    <3> QED
      BY <1>3, <3>1
  <2> QED
    BY <1>3, <2>1 DEF Steps, Work
<1>4. CASE Reload /\ Settle(repricing)
  BY <1>4 DEF Steps, Settle
<1> QED
  BY <1>1, <1>2, <1>3, <1>4 DEF Next

-----------------------------------------------------------------------------
(* The screen keeps its type. *)

\* The screen but for the draft, which follows from the rest.
Screen ==
  /\ lines \in Seq(Line) /\ customer \in Buyers /\ repriceRun \in 0..MaxRuns
  /\ {credit, busy, repricing, camera, adding} \subseteq BOOLEAN
  /\ choosing \in ToChoose \cup {None} /\ asking \in {None, "duplicate", "stock", "credit"}
  /\ nextKey \in Nat \ {0} /\ \A r \in asked : AskedRow(r)
TheSale ==
  /\ saleId \in 1..MaxSales /\ {recordAnyway, isManager, short} \subseteq BOOLEAN
  /\ completed \in 1..MaxSales \cup {None} /\ sold \in Seq(Sales) /\ meant \subseteq 1..MaxSales
  /\ nextSale \in Nat /\ saleId < nextSale /\ posts \subseteq Posts

LEMMA ScreenIs == ScreenOK => Screen /\ TheSale
  BY DEF ScreenOK, TillTypeOK, Screen, TheSale, Buyers

LEMMA ScreenStays == ASSUME Screen', TheSale', Kept' PROVE ScreenOK'
<1>1. draft' \in Drafts \cup {None}
  <2>1. CASE lines' # <<>> /\ completed' = None
    BY <2>1 DEF Kept, Screen, TheSale, Drafts, Buyers
  <2>2. CASE ~(lines' # <<>> /\ completed' = None)
    BY <2>2 DEF Kept
  <2> QED
    BY <2>1, <2>2
<1>2. \A i \in DOMAIN sold' : sold'[i].saleId \in 1..MaxSales /\ sold'[i].lines \in Seq(Line)
  <2> SUFFICES ASSUME NEW i \in DOMAIN sold' PROVE sold'[i] \in Sales
    BY DEF Sales
  <2>1. sold' \in Seq(Sales)
    BY DEF TheSale
  <2> QED
    BY <2>1, ElementOfSeq, LenProperties
<1> QED
  BY <1>1, <1>2 DEF ScreenOK, TillTypeOK, Screen, TheSale, Buyers

LEMMA KeptStays == ASSUME NEW s, Settle(s) PROVE Kept'
  BY DEF Settle, KeepDraft, Kept

LEMMA TierThereIs == ASSUME NEW c \in Buyers PROVE TierOf[c] \in Tiers
  BY TillAssumption DEF Buyers

LEMMA WorkKeepsScreen == ScreenOK /\ Work => Screen'
<1> SUFFICES ASSUME ScreenOK, Work PROVE Screen'
  OBVIOUS
<1>0. Screen /\ TheSale /\ Tier \in Tiers
  BY ScreenIs, TierThereIs DEF Screen, Tier
<1> USE DEF Screen
<1>1. CASE LookUp \/ CameraReads \/ ToggleCamera \/ CancelOption
  <2>1. AskedRow(Request("scan")) /\ AskedRow(Request("camera"))
    BY <1>0 DEF AskedRow, Request, TheSale
  <2>2. CASE LookUp
    BY <1>0, <2>1, <2>2 DEF LookUp, ScanStays, Ask
  <2>3. CASE CameraReads
    BY <1>0, <2>1, <2>3 DEF CameraReads, ScanStays, Ask
  <2>4. CASE ToggleCamera
    BY <1>0, <2>4 DEF ToggleCamera, cart, counters
  <2>5. CASE CancelOption
    BY <1>0, <2>5 DEF CancelOption, ScanStays
  <2> QED
    BY <1>1, <2>2, <2>3, <2>4, <2>5
<1>2. CASE OpenCustomerDialog \/ PayLater \/ CancelDialog
  <2>1. CASE OpenCustomerDialog
    BY <1>0, <2>1 DEF OpenCustomerDialog, cart, counters
  <2>2. CASE PayLater
    BY <1>0, <2>2 DEF PayLater, screen, counters
  <2>3. CASE CancelDialog
    BY <1>0, <2>3 DEF CancelDialog, cart, counters
  <2> QED
    BY <1>2, <2>1, <2>2, <2>3
<1>3. ASSUME NEW i \in DOMAIN lines,
             (\E u \in Units : ChangeUnit(i, u)) \/ ChangeQuantity(i) \/ ChangePrice(i) \/ RemoveLine(i)
      PROVE  Screen'
  <2>0. lines[i] \in Line
    BY <1>0, ElementOfSeq, LenProperties
  <2>1. ASSUME NEW u \in Units, ChangeUnit(i, u) PROVE Screen'
    <3> DEFINE r == [kind |-> "unit", tier |-> Tier, saleId |-> saleId, key |-> lines[i].key, unit |-> u]
    <3>1. AskedRow(r)
      BY <1>0 DEF AskedRow, TheSale
    <3>2. asked' = asked \cup {r}
      BY <2>1 DEF ChangeUnit, Ask
    <3> HIDE DEF r
    <3> QED
      BY <1>0, <2>1, <3>1, <3>2 DEF ChangeUnit, LineStays, counters
  <2>2. CASE ChangeQuantity(i)
    <3>1. lines' \in Seq(Line)
      BY <1>0, <2>2, LinesChanged DEF ChangeQuantity
    <3> QED
      BY <1>0, <2>2, <3>1 DEF ChangeQuantity, LineStays, counters
  <2>3. CASE ChangePrice(i)
    <3>1. PICK p \in Typed \cup {lines[i].list} : lines' = [lines EXCEPT ![i].charged = p]
      BY <2>3 DEF ChangePrice
    <3>2. p \in Prices
      BY <2>0, <3>1 DEF Line, Prices
    <3>3. lines' \in Seq(Line)
      BY <1>0, <3>1, <3>2, LinesChanged
    <3> QED
      BY <1>0, <2>3, <3>3 DEF ChangePrice, LineStays, counters
  <2>4. CASE RemoveLine(i)
    <3>1. lines' \in Seq(Line)
      BY <1>0, <2>4, LineRemoved DEF RemoveLine
    <3> QED
      BY <1>0, <2>4, <3>1 DEF RemoveLine, LineStays, counters
  <2> QED
    BY <1>3, <2>1, <2>2, <2>3, <2>4
<1>4. ASSUME NEW c \in Buyers, ChooseCustomer(c) PROVE Screen'
  <2> DEFINE r == [kind |-> "reprice", tier |-> TierOf[c], run |-> repriceRun',
                   rows |-> {[key |-> lines[i].key, unit |-> lines[i].unit] : i \in DOMAIN lines}]
  <2>1. AskedRow(r)
    BY TierThereIs DEF AskedRow
  <2>2. asked' = asked \/ asked' = asked \cup {r}
    BY <1>4 DEF ChooseCustomer, Ask
  <2> HIDE DEF r
  <2>3. \A q \in asked' : AskedRow(q)
    BY <1>0, <2>1, <2>2
  <2>4. repriceRun' \in 0..MaxRuns /\ repricing' \in BOOLEAN
    <3>1. MaxRuns \in Nat
      BY TillAssumption
    <3>2. repriceRun \in 0..MaxRuns /\ repricing \in BOOLEAN
      BY <1>0
    <3>3. \/ repriceRun < MaxRuns /\ repriceRun' = repriceRun + 1 /\ repricing' = TRUE
          \/ UNCHANGED <<repriceRun, repricing>>
      BY <1>4 DEF ChooseCustomer
    <3>4. repriceRun' \in 0..MaxRuns
      BY <3>1, <3>2, <3>3
    <3>5. repricing' \in BOOLEAN
      BY <3>2, <3>3
    <3> QED
      BY <3>4, <3>5
  <2> QED
    BY <1>0, <1>4, <2>3, <2>4 DEF ChooseCustomer, counters
<1>5. ASSUME NEW u \in Units, AddFromSearch(u) \/ PickOption(u) PROVE Screen'
  <2>1. CASE AddFromSearch(u)
    <3>1. Added(u, Price[Tier][u])
      BY <1>0, <2>1, PricesThereAre, PricedIsAdded DEF AddFromSearch
    <3> QED
      BY <1>0, <2>1, <3>1 DEF AddFromSearch, ScanStays, Added
  <2>2. CASE PickOption(u)
    <3>1. choosing.tier \in Tiers
      BY <1>0, <2>2 DEF PickOption, ToChoose
    <3>2. Added(u, Price[choosing.tier][u])
      BY <2>2, <3>1, PricesThereAre, PricedIsAdded DEF PickOption
    <3> QED
      BY <1>0, <2>2, <3>2 DEF PickOption, ScanStays, Added
  <2> QED
    BY <1>5, <2>1, <2>2
<1>6. ASSUME NEW r \in asked, Ends(r) PROVE Screen'
  <2>0. AskedRow(r)
    BY <1>0
  <2>1. CASE ScannedOptions(r)
    <3>1. [tier |-> r.tier, saleId |-> r.saleId] \in ToChoose
      BY <2>0, <2>1 DEF ScannedOptions, AskedRow, ToChoose
    <3> QED
      BY <1>0, <2>1, <3>1 DEF ScannedOptions, ScanStays
  <2>2. CASE NoSuchCode(r)
    <3>1. CASE r.kind = "scan"
      <4>1. AskedRow([r EXCEPT !.kind = "search"])
        BY <2>0, <3>1 DEF AskedRow
      <4>2. asked' \subseteq asked \cup {[r EXCEPT !.kind = "search"]}
        BY <2>2 DEF NoSuchCode
      <4>3. \A q \in asked' : AskedRow(q)
        BY <1>0, <4>1, <4>2
      <4> QED
        BY <1>0, <2>2, <4>3 DEF NoSuchCode, ScanStays
    <3>2. CASE r.kind # "scan"
      BY <1>0, <2>2, <3>2 DEF NoSuchCode, ScanStays
    <3> QED
      BY <3>1, <3>2
  <2>3. CASE SearchAnswered(r, {})
    BY <1>0, <2>3 DEF SearchAnswered, ScanStays
  <2>4. CASE AskFails(r)
    BY <1>0, <2>4 DEF AskFails, ScanStays
  <2>5. CASE UnitFails(r)
    BY <1>0, <2>5 DEF UnitFails, LineStays, counters
  <2> QED
    BY <1>6, <2>1, <2>2, <2>3, <2>4, <2>5 DEF Ends
<1>7. ASSUME NEW r \in asked, Adds(r) PROVE Screen'
  <2>0. AskedRow(r) /\ r.tier \in Tiers
    BY <1>0 DEF AskedRow
  <2>1. ASSUME NEW u \in Units, Scanned(r, u) PROVE Screen'
    <3>1. Added(u, Price[r.tier][u])
      BY <2>0, <2>1, PricesThereAre, PricedIsAdded DEF Scanned
    <3> QED
      BY <1>0, <2>1, <3>1 DEF Scanned, ScanStays, Added
  <2>2. ASSUME NEW u \in Units, SearchAnswered(r, {u}) PROVE Screen'
    <3>1. Added(u, Price[r.tier][u])
      BY <2>0, <2>2, PricesThereAre, PricedIsAdded DEF SearchAnswered
    <3> QED
      BY <1>0, <2>2, <3>1 DEF SearchAnswered, ScanStays, Added
  <2>3. CASE UnitAnswered(r)
    <3> DEFINE price == Price[r.tier][r.unit]
    <3>1. DOMAIN lines' = DOMAIN lines /\ lines' = [i \in DOMAIN lines' |-> lines'[i]]
      BY <2>3 DEF UnitAnswered
    <3>2. ASSUME NEW i \in DOMAIN lines' PROVE lines'[i] \in Line
      <4>1. lines[i] \in Line
        BY <1>0, <3>1, ElementOfSeq, LenProperties
      <4>2. r.unit \in Units /\ price \in Prices
        BY <2>0, <2>3, PricesThereAre DEF UnitAnswered, AskedRow
      <4>3. \/ lines'[i] = lines[i]
            \/ lines'[i] = [lines[i] EXCEPT !.unit = r.unit, !.charged = price, !.list = price]
        BY <2>3, <3>1 DEF UnitAnswered
      <4> HIDE DEF price
      <4> QED
        BY <4>1, <4>2, <4>3 DEF Line
    <3>3. lines' \in Seq(Line)
      BY <1>0, <3>1, <3>2, Rewritten
    <3> QED
      BY <1>0, <2>3, <3>3 DEF UnitAnswered, LineStays, counters
  <2> QED
    BY <1>7, <2>1, <2>2, <2>3 DEF Adds
<1>8. ASSUME NEW r \in asked, RepriceAnswered(r) PROVE Screen'
  <2>0. AskedRow(r) /\ r.tier \in Tiers
    BY <1>0 DEF AskedRow
  <2> DEFINE new == ApplyRepricing(lines, r)
  <2>1. DOMAIN new = DOMAIN lines /\ new = [i \in DOMAIN new |-> new[i]]
    BY DEF ApplyRepricing
  <2>2. ASSUME NEW i \in DOMAIN new PROVE new[i] \in Line
    <3> DEFINE price == Price[r.tier][lines[i].unit]
    <3>1. lines[i] \in Line
      BY <1>0, <2>1, ElementOfSeq, LenProperties
    <3>2. price \in Prices
      BY <2>0, <3>1, PricesThereAre DEF Line
    <3>3. \/ new[i] = lines[i]
          \/ \E charged \in {lines[i].charged, price} :
               new[i] = [lines[i] EXCEPT !.list = price, !.charged = charged]
      BY <2>1 DEF ApplyRepricing
    <3> HIDE DEF price, new
    <3> QED
      BY <3>1, <3>2, <3>3 DEF Line
  <2> HIDE DEF new
  <2>3. new \in Seq(Line)
    BY <1>0, <2>1, <2>2, Rewritten
  <2>4. lines' \in Seq(Line)
    BY <1>0, <1>8, <2>3 DEF RepriceAnswered, new
  <2> QED
    BY <1>0, <1>8, <2>4 DEF RepriceAnswered, RepriceStays, counters
<1>9. ASSUME NEW r \in asked, RepriceFails(r) PROVE Screen'
  BY <1>0, <1>9 DEF RepriceFails, RepriceStays, counters
<1> QED
  BY <1>1, <1>2, <1>3, <1>4, <1>5, <1>6, <1>7, <1>8, <1>9 DEF Work

\* The sale a payment sends.
Sent(reason, allow) ==
  [saleId |-> saleId, lines |-> lines, customer |-> customer, credit |-> credit,
   reason |-> reason, allow |-> allow, waiting |-> TRUE, stage |-> "sent"]

LEMMA WhatIsSent ==
  ASSUME ScreenOK, TakePayment \/ ConfirmOverride \/ RecordAnyway
  PROVE  \E reason \in {None, "stock", "credit"}, allow \in BOOLEAN :
           /\ Submit(reason, allow) /\ ~busy /\ completed = None
           /\ \/ ~repricing /\ ~adding /\ asking = None
              \/ asking # None
           /\ \/ allow = recordAnyway /\ UNCHANGED <<recordAnyway, asking, meant>>
              \/ /\ allow = TRUE /\ recordAnyway' = TRUE /\ asking' = None /\ meant' = meant \cup {saleId}
<1>0. recordAnyway \in BOOLEAN
  BY ScreenIs DEF Screen, TheSale
<1>1. CASE TakePayment
  BY <1>0, <1>1 DEF TakePayment, PanelEnabled, Overlay
<1>2. CASE ConfirmOverride
  BY <1>0, <1>2 DEF ConfirmOverride, DialogEnabled
<1>3. CASE RecordAnyway
  BY <1>0, <1>3 DEF RecordAnyway, DialogEnabled
<1> QED
  BY <1>1, <1>2, <1>3

LEMMA SentIsOne ==
  ASSUME ScreenOK, NEW reason \in {None, "stock", "credit"}, NEW allow \in BOOLEAN
  PROVE  Sent(reason, allow) \in Posts
  BY ScreenIs DEF Screen, TheSale, Sent, Posts, Stages

LEMMA SalesKeepScreen ==
  ASSUME ScreenOK, TakePayment \/ ConfirmOverride \/ RecordAnyway \/ Server \/ Replies
  PROVE  Screen' /\ TheSale'
<1>0. Screen /\ TheSale
  BY ScreenIs
<1>1. CASE TakePayment \/ ConfirmOverride \/ RecordAnyway
  <2>1. PICK reason \in {None, "stock", "credit"}, allow \in BOOLEAN :
           /\ Submit(reason, allow)
           /\ \/ allow = recordAnyway /\ UNCHANGED <<recordAnyway, asking, meant>>
              \/ /\ allow = TRUE /\ recordAnyway' = TRUE /\ asking' = None /\ meant' = meant \cup {saleId}
    BY <1>1, WhatIsSent
  <2>2. posts' = posts \cup {Sent(reason, allow)}
    BY <2>1 DEF Submit, Sent
  <2>3. posts' \subseteq Posts
    BY <1>0, <2>2, SentIsOne DEF TheSale
  <2>4. Screen'
    BY <1>0, <2>1 DEF Submit, Screen, server, counters
  <2>5. TheSale'
    BY <1>0, <2>1, <2>3 DEF Submit, TheSale, server, counters
  <2> QED
    BY <2>4, <2>5
<1>2. ASSUME NEW p \in posts, AssertNotAlreadyRecorded(p) \/ Record(p) PROVE Screen' /\ TheSale'
  <2>1. PICK stage \in Stages : AtServer(p, stage)
    <3>1. Outcome(p) \in Stages
      BY DEF Outcome, Stages
    <3> QED
      BY <1>2, <3>1 DEF AssertNotAlreadyRecorded, Record, Stages
  <2>2. p \in Posts
    BY <1>0 DEF TheSale
  <2>3. [p EXCEPT !.stage = stage] \in Posts
    BY <2>1, <2>2 DEF Posts
  <2>4. posts' \subseteq Posts
    BY <1>0, <2>1, <2>3 DEF AtServer, TheSale
  <2>5. sold' \in Seq(Sales)
    <3>1. [saleId |-> p.saleId, lines |-> p.lines, customer |-> p.customer, credit |-> p.credit] \in Sales
      BY <2>2 DEF Posts, Sales
    <3>2. \/ sold' = sold
          \/ sold' = Append(sold, [saleId |-> p.saleId, lines |-> p.lines, customer |-> p.customer,
                                   credit |-> p.credit])
      BY <1>2 DEF AssertNotAlreadyRecorded, Record
    <3> QED
      BY <1>0, <3>1, <3>2 DEF TheSale
  <2>6. Screen'
    BY <1>0, <2>1 DEF AtServer, Screen, cart, screen, counters
  <2>7. TheSale'
    BY <1>0, <2>1, <2>4, <2>5 DEF AtServer, TheSale, cart, screen, counters
  <2> QED
    BY <2>6, <2>7
<1>3. ASSUME NEW p \in posts, NEW read \in BOOLEAN, Reply(p, read) PROVE Screen' /\ TheSale'
  <2>1. p \in Posts
    BY <1>0 DEF TheSale
  <2>2. completed' \in 1..MaxSales \cup {None}
    BY <1>0, <1>3, <2>1 DEF Reply, TheSale, Posts
  <2>3. asking' \in {None, "duplicate", "stock", "credit"}
    BY <1>0, <1>3 DEF Reply, Screen
  <2>4. Screen'
    BY <1>0, <1>3, <2>3 DEF Reply, Screen, cart, counters
  <2>5. TheSale'
    BY <1>0, <1>3, <2>2 DEF Reply, TheSale, cart, server, counters
  <2> QED
    BY <2>4, <2>5
<1>4. ASSUME NEW p \in posts, LoseReply(p) PROVE Screen' /\ TheSale'
  <2>1. [p EXCEPT !.waiting = FALSE] \in Posts
    BY <1>0 DEF TheSale, Posts
  <2>2. posts' \subseteq Posts
    BY <1>0, <1>4, <2>1 DEF LoseReply, TheSale
  <2>3. Screen'
    BY <1>0, <1>4 DEF LoseReply, Screen, cart, counters
  <2>4. TheSale'
    BY <1>0, <1>4, <2>2 DEF LoseReply, TheSale, cart, server, counters
  <2> QED
    BY <2>3, <2>4
<1> QED
  BY <1>1, <1>2, <1>3, <1>4 DEF Server, Replies

LEMMA EmptyCart == <<>> \in Seq(Line) /\ WalkIn \in Buyers
  BY DEF Buyers

LEMMA NewCartKeepsScreen == ScreenOK /\ StartNewSale => Screen' /\ TheSale'
<1> SUFFICES ASSUME ScreenOK, StartNewSale PROVE Screen' /\ TheSale'
  OBVIOUS
<1>0. Screen /\ TheSale /\ MaxSales \in Nat \ {0} /\ MaxRuns \in Nat
  BY ScreenIs, TillAssumption
<1>1. repriceRun' \in 0..MaxRuns
  BY <1>0 DEF StartNewSale, Screen
<1>2. saleId' \in 1..MaxSales /\ nextSale' \in Nat /\ saleId' < nextSale'
  BY <1>0 DEF StartNewSale, TheSale
<1>3. Screen'
  BY <1>0, <1>1, EmptyCart DEF StartNewSale, Screen
<1>4. TheSale'
  BY <1>0, <1>2 DEF StartNewSale, TheSale, server
<1> QED
  BY <1>3, <1>4

\* What comes back is the cart, or another with nothing in it.
ComesBack ==
  \/ /\ lines # <<>> /\ completed = None
     /\ UNCHANGED <<saleId, lines, customer, credit, nextSale>>
  \/ /\ ~(lines # <<>> /\ completed = None)
     /\ nextSale <= MaxSales /\ saleId' = nextSale /\ nextSale' = nextSale + 1
     /\ lines' = <<>> /\ customer' = WalkIn /\ credit' = FALSE

LEMMA ReloadBringsBack == ASSUME ScreenOK, Kept, Reload PROVE ComesBack
<1>1. CASE lines # <<>> /\ completed = None
  <2>1. draft = [saleId |-> saleId, lines |-> lines, customer |-> customer, credit |-> credit]
    BY <1>1 DEF Kept
  <2>2. draft \in Drafts
    BY <2>1, ScreenIs DEF Screen, TheSale, Drafts, Buyers
  <2>3. draft # None
    BY <2>2, NoneAssumption
  <2> QED
    BY <1>1, <2>1, <2>3 DEF Reload, ComesBack
<1>2. CASE ~(lines # <<>> /\ completed = None)
  BY <1>2 DEF Kept, Reload, ComesBack
<1> QED
  BY <1>1, <1>2

LEMMA ReloadKeepsScreen == ASSUME ScreenOK, Kept, Reload PROVE Screen' /\ TheSale'
<1>0. Screen /\ TheSale /\ MaxSales \in Nat \ {0} /\ MaxRuns \in Nat
  BY ScreenIs, TillAssumption
<1>1. saleId' \in 1..MaxSales /\ nextSale' \in Nat /\ saleId' < nextSale'
  <2>1. CASE UNCHANGED <<saleId, nextSale>>
    BY <1>0, <2>1 DEF TheSale
  <2>2. CASE nextSale <= MaxSales /\ saleId' = nextSale /\ nextSale' = nextSale + 1
    BY <1>0, <2>2 DEF TheSale
  <2> QED
    BY <2>1, <2>2, ReloadBringsBack DEF ComesBack
<1>2. lines' \in Seq(Line) /\ customer' \in Buyers /\ credit' \in BOOLEAN
  BY <1>0, ReloadBringsBack, EmptyCart DEF ComesBack, Screen
<1>3. posts' \subseteq Posts
  <2>1. \A p \in posts : [p EXCEPT !.waiting = FALSE] \in Posts
    BY <1>0 DEF TheSale, Posts
  <2> QED
    BY <2>1 DEF Reload
<1>4. Screen'
  <2>1. repriceRun' \in 0..MaxRuns /\ asked' = {}
    BY <1>0 DEF Reload
  <2> QED
    BY <1>0, <1>2, <2>1 DEF Reload, Screen, counters
<1>5. TheSale'
  BY <1>0, <1>1, <1>3 DEF Reload, TheSale, server
<1> QED
  BY <1>4, <1>5

LEMMA StepKeepsScreen == ScreenOK /\ Kept /\ [Next]_vars => ScreenOK' /\ Kept'
<1> SUFFICES ASSUME ScreenOK, Kept, [Next]_vars PROVE ScreenOK' /\ Kept'
  OBVIOUS
<1>1. CASE UNCHANGED vars
  BY <1>1 DEF vars, cart, screen, server, counters, history, ScreenOK, TillTypeOK, Kept, AskedRow
<1>2. CASE Next
  <2>1. Steps /\ Kept'
    BY <1>2, NextIsStep, KeptStays
  <2>2. Screen' /\ TheSale'
    <3>1. CASE Work
      BY <3>1, WorkKeepsScreen, WorkLeavesSales, ScreenIs DEF SalesStay, TheSale
    <3> QED
      BY <2>1, <3>1, SalesKeepScreen, NewCartKeepsScreen, ReloadKeepsScreen DEF Steps
  <2> QED
    BY <2>1, <2>2, ScreenStays
<1> QED
  BY <1>1, <1>2

-----------------------------------------------------------------------------
(* A key is of one sale. *)

LEMMA InRung ==
  ASSUME NEW id, NEW ls, NEW ps, NEW ss, NEW a
  PROVE  a \in RungOf(id, ls, ps, ss) <=>
           \/ a \in RungUp(id, ls)
           \/ \E p \in ps : a \in RungUp(p.saleId, p.lines)
           \/ \E i \in DOMAIN ss : a \in RungUp(ss[i].saleId, ss[i].lines)
<1>1. a \in OfPosts(ps) <=> \E p \in ps : a \in RungUp(p.saleId, p.lines)
  BY DEF OfPosts
<1>2. a \in OfSales(ss) <=> \E i \in DOMAIN ss : a \in RungUp(ss[i].saleId, ss[i].lines)
  BY DEF OfSales
<1> QED
  BY <1>1, <1>2 DEF RungOf

LEMMA KeysStayTheirs ==
  ASSUME ScreenOK, KeysKept,
         \/ nextKey' = nextKey /\ Rung' \subseteq Rung
         \/ nextKey' = nextKey + 1 /\ Rung' \subseteq Rung \cup {<<saleId, nextKey>>}
  PROVE  KeysKept'
<1>0. nextKey \in Nat
  BY ScreenIs DEF Screen
<1>1. CASE nextKey' = nextKey /\ Rung' \subseteq Rung
  BY <1>1 DEF KeysKept
<1>2. CASE nextKey' = nextKey + 1 /\ Rung' \subseteq Rung \cup {<<saleId, nextKey>>}
  <2>0. \A a \in Rung : a[2] \in Int
    <3>1. \A ls \in Seq(Line) : \A k \in DOMAIN ls : ls[k].key \in Int
      <4> TAKE ls \in Seq(Line)
      <4> TAKE k \in DOMAIN ls
      <4>1. ls[k] \in Line
        BY ElementOfSeq, LenProperties
      <4> QED
        BY <4>1 DEF Line
    <3>2. \A id : \A ls \in Seq(Line) : \A a \in RungUp(id, ls) : a[2] \in Int
      BY <3>1 DEF RungUp
    <3>3. lines \in Seq(Line)
      BY ScreenIs DEF Screen
    <3>4. \A p \in posts : p.lines \in Seq(Line)
      BY ScreenIs DEF TheSale, Posts
    <3>5. \A i \in DOMAIN sold : sold[i].lines \in Seq(Line)
      BY DEF ScreenOK, TillTypeOK
    <3> SUFFICES ASSUME NEW a \in Rung PROVE a[2] \in Int
      OBVIOUS
    <3>6. CASE a \in RungUp(saleId, lines)
      BY <3>2, <3>3, <3>6
    <3>7. ASSUME NEW p \in posts, a \in RungUp(p.saleId, p.lines) PROVE a[2] \in Int
      BY <3>2, <3>4, <3>7
    <3>8. ASSUME NEW i \in DOMAIN sold, a \in RungUp(sold[i].saleId, sold[i].lines) PROVE a[2] \in Int
      BY <3>2, <3>5, <3>8
    <3> QED
      BY <3>6, <3>7, <3>8, InRung DEF Rung
  <2>1. ASSUME NEW a \in Rung', NEW b \in Rung', a[2] = b[2]
        PROVE  a[1] = b[1]
    BY <1>0, <1>2, <2>0, <2>1 DEF KeysKept
  <2>2. ASSUME NEW a \in Rung' PROVE a[2] < nextKey'
    BY <1>0, <1>2, <2>0 DEF KeysKept
  <2> QED
    BY <2>1, <2>2 DEF KeysKept
<1> QED
  BY <1>1, <1>2

LEMMA KeysOfListed ==
  ASSUME NEW id, NEW old, NEW new, KeysFrom(old, new)
  PROVE  RungUp(id, new) \subseteq RungUp(id, old)
  BY DEF KeysFrom, RungUp

LEMMA ListedHasKeys == ASSUME NEW old, NEW new, AsListed(old, new) PROVE KeysFrom(old, new)
  BY DEF AsListed, KeysFrom

\* What work at the screen makes of the lines.
WorkOnLines ==
  \/ nextKey' = nextKey /\ KeysFrom(lines, lines')
  \/ nextKey' = nextKey + 1 /\ \E u \in Units, price \in Prices : Joined(u, price)

LEMMA AddedIsWork == ASSUME NEW u \in Units, NEW price \in Prices, Added(u, price) PROVE WorkOnLines
  BY ListedHasKeys DEF Added, WorkOnLines

LEMMA WorkIsOnLines == ScreenOK /\ Work => WorkOnLines
<1> SUFFICES ASSUME ScreenOK, Work PROVE WorkOnLines
  OBVIOUS
<1>0. Screen /\ TheSale /\ Tier \in Tiers
  BY ScreenIs, TierThereIs DEF Screen, Tier
<1>1. ASSUME UNCHANGED <<lines, nextKey>> PROVE WorkOnLines
  BY <1>1 DEF WorkOnLines, KeysFrom
<1>2. ASSUME AsListed(lines, lines'), UNCHANGED nextKey PROVE WorkOnLines
  BY <1>2, ListedHasKeys DEF WorkOnLines
<1>3. CASE \/ LookUp \/ CameraReads \/ ToggleCamera \/ CancelOption \/ OpenCustomerDialog \/ PayLater \/ CancelDialog
  BY <1>1, <1>3 DEF LookUp, CameraReads, ToggleCamera, CancelOption, OpenCustomerDialog, PayLater, CancelDialog,
    cart, counters
<1>4. ASSUME NEW i \in DOMAIN lines,
             (\E u \in Units : ChangeUnit(i, u)) \/ ChangeQuantity(i) \/ ChangePrice(i) \/ RemoveLine(i)
      PROVE  WorkOnLines
  <2>1. ASSUME NEW u \in Units, ChangeUnit(i, u) PROVE WorkOnLines
    BY <1>1, <2>1 DEF ChangeUnit, LineStays, counters
  <2>2. CASE ChangeQuantity(i)
    <3>1. PICK q \in 1..MaxQuantity : lines' = [lines EXCEPT ![i].quantity = q]
      BY <2>2 DEF ChangeQuantity
    <3>2. AsListed(lines, lines')
      BY <1>0, <3>1, LinesChanged DEF Screen
    <3> QED
      BY <1>2, <2>2, <3>2 DEF ChangeQuantity, LineStays, counters
  <2>3. CASE ChangePrice(i)
    <3>1. PICK p \in Typed \cup {lines[i].list} : lines' = [lines EXCEPT ![i].charged = p]
      BY <2>3 DEF ChangePrice
    <3>2. lines[i] \in Line
      BY <1>0, ElementOfSeq, LenProperties DEF Screen
    <3>3. p \in Prices
      BY <3>1, <3>2 DEF Line, Prices
    <3> QED
      BY <1>0, <1>2, <2>3, <3>1, <3>3, LinesChanged DEF ChangePrice, LineStays, counters, Screen
  <2>4. CASE RemoveLine(i)
    BY <1>0, <1>2, <2>4, LineRemoved DEF RemoveLine, LineStays, counters, Screen
  <2> QED
    BY <1>4, <2>1, <2>2, <2>3, <2>4
<1>5. ASSUME NEW c \in Buyers, ChooseCustomer(c) PROVE WorkOnLines
  BY <1>1, <1>5 DEF ChooseCustomer, counters
<1>6. ASSUME NEW u \in Units, AddFromSearch(u) \/ PickOption(u) PROVE WorkOnLines
  <2>1. CASE AddFromSearch(u)
    BY <1>0, <2>1, PricesThereAre, PricedIsAdded, AddedIsWork DEF AddFromSearch
  <2>2. CASE PickOption(u)
    <3>1. choosing.tier \in Tiers
      BY <1>0, <2>2 DEF PickOption, ToChoose, Screen
    <3> QED
      BY <2>2, <3>1, PricesThereAre, PricedIsAdded, AddedIsWork DEF PickOption
  <2> QED
    BY <1>6, <2>1, <2>2
<1>7. ASSUME NEW r \in asked, Ends(r) PROVE WorkOnLines
  BY <1>1, <1>7 DEF Ends, ScannedOptions, NoSuchCode, SearchAnswered, AskFails, UnitFails, LineStays, counters
<1>8. ASSUME NEW r \in asked, Adds(r) PROVE WorkOnLines
  <2>0. r.tier \in Tiers
    BY <1>0 DEF AskedRow, Screen
  <2>1. ASSUME NEW u \in Units, Scanned(r, u) \/ SearchAnswered(r, {u}) PROVE WorkOnLines
    BY <2>0, <2>1, PricesThereAre, PricedIsAdded, AddedIsWork DEF Scanned, SearchAnswered
  <2>2. CASE UnitAnswered(r)
    <3>0. \A i \in DOMAIN lines : lines[i] \in Line
      BY <1>0, ElementOfSeq, LenProperties DEF Screen
    <3>1. DOMAIN lines' = DOMAIN lines /\ \A i \in DOMAIN lines : lines'[i].key = lines[i].key
      BY <2>2, <3>0 DEF UnitAnswered, Line
    <3> QED
      BY <2>2, <3>1 DEF WorkOnLines, KeysFrom, UnitAnswered, LineStays, counters
  <2> QED
    BY <1>8, <2>1, <2>2 DEF Adds
<1>9. ASSUME NEW r \in asked, RepriceAnswered(r) \/ RepriceFails(r) PROVE WorkOnLines
  <2>0. \A i \in DOMAIN lines : lines[i] \in Line
    BY <1>0, ElementOfSeq, LenProperties DEF Screen
  <2>1. DOMAIN lines' = DOMAIN lines /\ \A i \in DOMAIN lines : lines'[i].key = lines[i].key
    <3>1. CASE lines' = lines
      BY <3>1
    <3>2. CASE lines' = ApplyRepricing(lines, r)
      BY <2>0, <3>2 DEF ApplyRepricing, Line
    <3> QED
      BY <1>9, <3>1, <3>2 DEF RepriceAnswered, RepriceFails
  <2> QED
    BY <1>9, <2>1 DEF WorkOnLines, KeysFrom, RepriceAnswered, RepriceFails, RepriceStays, counters
<1> QED
  BY <1>3, <1>4, <1>5, <1>6, <1>7, <1>8, <1>9 DEF Work

LEMMA KeysOfWork == ScreenOK /\ KeysKept /\ WorkOnLines /\ SalesStay => KeysKept'
<1> SUFFICES ASSUME ScreenOK, KeysKept, WorkOnLines, SalesStay PROVE KeysKept'
  OBVIOUS
<1>1. CASE nextKey' = nextKey /\ KeysFrom(lines, lines')
  <2>1. RungUp(saleId', lines') \subseteq RungUp(saleId, lines)
    BY <1>1, KeysOfListed DEF SalesStay
  <2>2. Rung' \subseteq Rung
    BY <2>1, InRung DEF Rung, SalesStay
  <2> QED
    BY <1>1, <2>2, KeysStayTheirs
<1>2. ASSUME NEW u \in Units, NEW price \in Prices, nextKey' = nextKey + 1, Joined(u, price)
      PROVE  KeysKept'
  <2>1. lines \in Seq(Line)
    BY ScreenIs DEF Screen
  <2>2. RungUp(saleId', lines') \subseteq RungUp(saleId, lines) \cup {<<saleId, nextKey>>}
    <3> DEFINE row == [key |-> nextKey, unit |-> u, quantity |-> 1, charged |-> price, list |-> price]
    <3>1. lines' = Append(lines, row) /\ saleId' = saleId
      BY <1>2 DEF Joined, SalesStay
    <3>2. row.key = nextKey
      OBVIOUS
    <3> HIDE DEF row
    <3>3. DOMAIN lines' = DOMAIN lines \cup {Len(lines) + 1} /\ lines'[Len(lines) + 1] = row
      BY <2>1, <3>1
    <3>4. \A i \in DOMAIN lines : lines'[i] = lines[i]
      BY <2>1, <3>1
    <3> QED
      BY <3>1, <3>2, <3>3, <3>4 DEF RungUp
  <2>3. Rung' \subseteq Rung \cup {<<saleId, nextKey>>}
    BY <2>2, InRung DEF Rung, SalesStay
  <2> QED
    BY <1>2, <2>3, KeysStayTheirs
<1> QED
  BY <1>1, <1>2 DEF WorkOnLines

-----------------------------------------------------------------------------
(* Sales at the server. *)

LEMMA KeysOfCarts ==
  ASSUME ScreenOK, KeysKept, UNCHANGED nextKey,
         RungUp(saleId', lines') \subseteq Rung,
         \A p \in posts' : RungUp(p.saleId, p.lines) \subseteq Rung,
         \A i \in DOMAIN sold' : RungUp(sold'[i].saleId, sold'[i].lines) \subseteq Rung
  PROVE  KeysKept'
<1>1. Rung' \subseteq Rung
  BY InRung DEF Rung
<1> QED
  BY <1>1, KeysStayTheirs

LEMMA PartsOfRung ==
  /\ RungUp(saleId, lines) \subseteq Rung
  /\ \A p \in posts : RungUp(p.saleId, p.lines) \subseteq Rung
  /\ \A i \in DOMAIN sold : RungUp(sold[i].saleId, sold[i].lines) \subseteq Rung
  BY InRung DEF Rung

LEMMA PaymentKeeps ==
  ASSUME IInv, TakePayment \/ ConfirmOverride \/ RecordAnyway
  PROVE  KeysKept' /\ SoldOnce' /\ MeantIsSaid' /\ OneAtATime' /\ TwinsWereMeant' /\ RecordedIsSold'
<1>0. ScreenOK /\ recordAnyway \in BOOLEAN
  BY ScreenIs DEF IInv, TheSale
<1>1. PICK reason \in {None, "stock", "credit"}, allow \in BOOLEAN :
         /\ Submit(reason, allow)
         /\ \/ allow = recordAnyway /\ UNCHANGED <<recordAnyway, asking, meant>>
            \/ allow = TRUE /\ recordAnyway' = TRUE /\ asking' = None /\ meant' = meant \cup {saleId}
  BY <1>0, WhatIsSent
<1> DEFINE new == Sent(reason, allow)
<1>2. /\ posts' = posts \cup {new}
      /\ together' = (together \/ \E p \in posts : p.stage \in {"sent", "checked"})
      /\ UNCHANGED <<lines, customer, saleId, completed, sold, nextKey>>
  BY <1>1 DEF Submit, Sent, server, counters
<1>3. /\ new.saleId = saleId /\ new.lines = lines /\ new.customer = customer
      /\ new.allow = allow /\ new.stage = "sent" /\ new.waiting = TRUE
  BY DEF Sent
<1> HIDE DEF new
<1>4. KeysKept'
  BY <1>0, <1>2, <1>3, PartsOfRung, KeysOfCarts DEF IInv
<1>5. SoldOnce' /\ TwinsWereMeant'
  <2>1. meant \subseteq meant' /\ (together => together')
    BY <1>1, <1>2
  <2> QED
    BY <1>2, <2>1 DEF IInv, SoldOnce, TwinsWereMeant
<1>6. MeantIsSaid'
  BY <1>1, <1>2, <1>3 DEF IInv, MeantIsSaid
<1>7. OneAtATime'
  BY <1>2, <1>3 DEF IInv, OneAtATime, AtTheServer, NoTwinOf
<1>8. RecordedIsSold'
  BY <1>2, <1>3 DEF IInv, RecordedIsSold
<1> QED
  BY <1>4, <1>5, <1>6, <1>7, <1>8

\* A sale under way goes on, with the same goods, buyer and leave; and is checked or
\* recorded only if it was.
GoesOnFrom(p, q) ==
  /\ p.saleId = q.saleId /\ p.lines = q.lines /\ p.customer = q.customer /\ p.allow = q.allow
  /\ p.stage = q.stage
GoOn == \A p \in posts' : \E q \in posts : GoesOnFrom(p, q)

\* Posts that are alike but for who waits are one when nobody does.
LEMMA GoingOnKeeps ==
  ASSUME IInv, GoOn, UNCHANGED <<sold, meant, together>>,
         together \/ \A p, q \in AtTheServer' : p = q,
         recordAnyway' => saleId' \in meant
  PROVE  SoldOnce' /\ MeantIsSaid' /\ OneAtATime' /\ TwinsWereMeant' /\ RecordedIsSold'
<1>1. MeantIsSaid'
  BY DEF IInv, MeantIsSaid, GoOn, GoesOnFrom
<1>2. OneAtATime'
  BY DEF IInv, OneAtATime, GoOn, GoesOnFrom, NoTwinOf
<1>3. SoldOnce' /\ TwinsWereMeant'
  BY DEF IInv, SoldOnce, TwinsWereMeant
<1>4. RecordedIsSold'
  BY DEF IInv, RecordedIsSold, GoOn, GoesOnFrom
<1> QED
  BY <1>1, <1>2, <1>3, <1>4

LEMMA GoOnKeys ==
  ASSUME IInv, GoOn, UNCHANGED <<sold, nextKey>>, RungUp(saleId', lines') \subseteq Rung
  PROVE  KeysKept'
<1>1. \A p \in posts' : RungUp(p.saleId, p.lines) \subseteq Rung
  BY PartsOfRung DEF GoOn, GoesOnFrom
<1> QED
  BY <1>1, PartsOfRung, KeysOfCarts DEF IInv

LEMMA AnswerKeeps ==
  ASSUME IInv, NEW p \in posts, LoseReply(p) \/ \E read \in BOOLEAN : Reply(p, read)
  PROVE  KeysKept' /\ SoldOnce' /\ MeantIsSaid' /\ OneAtATime' /\ TwinsWereMeant' /\ RecordedIsSold'
<1>0. p \in Posts
  BY ScreenIs DEF IInv, TheSale
<1>1. /\ UNCHANGED <<saleId, lines, recordAnyway, sold, nextKey, meant, together>>
      /\ posts' \subseteq (posts \ {p}) \cup
           (IF p.stage \in {"sent", "checked"} THEN {[p EXCEPT !.waiting = FALSE]} ELSE {})
  BY DEF LoseReply, Reply, cart, server, counters
<1> DEFINE q == [p EXCEPT !.waiting = FALSE]
<1>2. GoesOnFrom(q, p)
  BY <1>0 DEF GoesOnFrom, Posts
<1>3. GoOn
  <2> HIDE DEF q
  <2> SUFFICES ASSUME NEW r \in posts' PROVE \E c \in posts : GoesOnFrom(r, c)
    BY DEF GoOn
  <2>1. r \in posts \/ r = q
    BY <1>1 DEF q
  <2>2. GoesOnFrom(r, r)
    BY DEF GoesOnFrom
  <2> QED
    BY <1>2, <2>1, <2>2
<1>4. together \/ \A c, d \in AtTheServer' : c = d
  <2> HIDE DEF q
  <2>1. AtTheServer' \subseteq (AtTheServer \ {p}) \cup (IF p \in AtTheServer THEN {q} ELSE {})
    BY <1>1, <1>2 DEF AtTheServer, GoesOnFrom, q
  <2> QED
    BY <2>1 DEF IInv, OneAtATime
<1>5. RungUp(saleId', lines') \subseteq Rung
  BY <1>1, PartsOfRung
<1>6. recordAnyway' => saleId' \in meant
  BY <1>1 DEF IInv, MeantIsSaid
<1> QED
  BY <1>1, <1>3, <1>4, <1>5, <1>6, GoingOnKeeps, GoOnKeys

LEMMA NewCartKeeps ==
  ASSUME IInv, StartNewSale
  PROVE  KeysKept' /\ SoldOnce' /\ MeantIsSaid' /\ OneAtATime' /\ TwinsWereMeant' /\ RecordedIsSold'
<1>1. /\ UNCHANGED <<posts, sold, nextKey, meant, together>>
      /\ recordAnyway' = FALSE /\ lines' = <<>>
  BY DEF StartNewSale, server
<1>2. GoOn
  BY <1>1 DEF GoOn, GoesOnFrom
<1>3. together \/ \A c, d \in AtTheServer' : c = d
  BY <1>1 DEF AtTheServer, IInv, OneAtATime
<1>4. RungUp(saleId', lines') \subseteq Rung
  BY <1>1 DEF RungUp
<1> QED
  BY <1>1, <1>2, <1>3, <1>4, GoingOnKeeps, GoOnKeys

LEMMA ReloadKeeps ==
  ASSUME IInv, Reload
  PROVE  KeysKept' /\ SoldOnce' /\ MeantIsSaid' /\ OneAtATime' /\ TwinsWereMeant' /\ RecordedIsSold'
<1> DEFINE Quieted(p) == [p EXCEPT !.waiting = FALSE]
<1>1. /\ UNCHANGED <<sold, nextKey, meant, together>> /\ recordAnyway' = FALSE
      /\ posts' = {Quieted(p) : p \in AtTheServer}
  BY DEF Reload, server, AtTheServer
<1>2. \A p \in posts : GoesOnFrom(Quieted(p), p)
  BY ScreenIs DEF IInv, TheSale, Posts, GoesOnFrom
<1>3. GoOn
  <2> HIDE DEF Quieted
  <2> QED
    BY <1>1, <1>2 DEF GoOn, AtTheServer
<1>4. together \/ \A c, d \in AtTheServer' : c = d
  BY <1>1 DEF AtTheServer, IInv, OneAtATime
<1>5. RungUp(saleId', lines') \subseteq Rung
  <2>1. CASE UNCHANGED <<saleId, lines>>
    BY <2>1, PartsOfRung
  <2>2. CASE lines' = <<>>
    BY <2>2 DEF RungUp
  <2> QED
    BY <2>1, <2>2, ReloadBringsBack DEF IInv, ComesBack
<1> HIDE DEF Quieted
<1> QED
  BY <1>1, <1>3, <1>4, <1>5, GoingOnKeeps, GoOnKeys

LEMMA SameItemsBothWays == ASSUME NEW a, NEW b, SameItems(a, b) PROVE SameItems(b, a)
  BY DEF SameItems

LEMMA CheckKeeps ==
  ASSUME IInv, NEW p \in posts, AssertNotAlreadyRecorded(p)
  PROVE  KeysKept' /\ SoldOnce' /\ MeantIsSaid' /\ OneAtATime' /\ TwinsWereMeant' /\ RecordedIsSold'
<1>0. p \in Posts
  BY ScreenIs DEF IInv, TheSale
<1>1. PICK stage \in {"checked", "duplicate"} :
        /\ AtServer(p, stage) /\ p.stage = "sent" /\ UNCHANGED sold
        /\ stage = "checked" => p.allow \/ NoTwinOf(p)
  BY DEF AssertNotAlreadyRecorded, NoTwinOf
<1> DEFINE q == [p EXCEPT !.stage = stage]
<1>2. /\ UNCHANGED <<saleId, lines, recordAnyway, sold, nextKey, meant, together>>
      /\ posts' \subseteq (posts \ {p}) \cup {q}
  BY <1>1 DEF AtServer, cart, counters
<1>3. /\ q.saleId = p.saleId /\ q.lines = p.lines /\ q.customer = p.customer /\ q.allow = p.allow
      /\ q.stage = stage
  BY <1>0 DEF Posts
<1> HIDE DEF q
<1>4. KeysKept'
  <2>1. \A r \in posts' : RungUp(r.saleId, r.lines) \subseteq Rung
    BY <1>2, <1>3, PartsOfRung
  <2> QED
    BY <1>2, <2>1, PartsOfRung, KeysOfCarts DEF IInv
<1>5. SoldOnce' /\ MeantIsSaid' /\ TwinsWereMeant' /\ RecordedIsSold'
  <2>1. SoldOnce' /\ TwinsWereMeant'
    BY <1>2 DEF IInv, SoldOnce, TwinsWereMeant
  <2>2. MeantIsSaid'
    BY <1>2, <1>3 DEF IInv, MeantIsSaid
  <2>3. RecordedIsSold'
    BY <1>1, <1>2, <1>3 DEF IInv, RecordedIsSold
  <2> QED
    BY <2>1, <2>2, <2>3
<1>6. OneAtATime'
  <2>1. CASE together
    BY <1>2, <2>1 DEF OneAtATime
  <2>2. CASE ~together
    <3>1. p \in AtTheServer /\ \A c, d \in AtTheServer : c = d
      BY <1>1, <2>2 DEF IInv, OneAtATime, AtTheServer
    <3>2. AtTheServer' \subseteq {q}
      BY <1>2, <3>1 DEF AtTheServer
    <3>3. \A r \in posts' : r.stage = "checked" => r = q
      BY <3>2 DEF AtTheServer
    <3>4. stage = "checked" => q.allow \/ NoTwinOf(q)
      BY <1>1, <1>3 DEF NoTwinOf
    <3>5. \A r \in posts' : r.stage = "checked" => r.allow \/ NoTwinOf(r)
      BY <1>3, <3>3, <3>4
    <3>6. \A r \in posts' : r.stage = "checked" => r.allow \/ NoTwinOf(r)'
      BY <1>2, <3>5 DEF NoTwinOf
    <3> QED
      BY <3>2, <3>6 DEF OneAtATime
  <2> QED
    BY <2>1, <2>2
<1> QED
  BY <1>4, <1>5, <1>6

LEMMA RecordKeeps ==
  ASSUME IInv, NEW p \in posts, Record(p)
  PROVE  KeysKept' /\ SoldOnce' /\ MeantIsSaid' /\ OneAtATime' /\ TwinsWereMeant' /\ RecordedIsSold'
<1>0. p \in Posts /\ sold \in Seq(Sales)
  BY ScreenIs DEF IInv, TheSale
<1> DEFINE stage == Outcome(p)
           q == [p EXCEPT !.stage = stage]
           row == [saleId |-> p.saleId, lines |-> p.lines, customer |-> p.customer, credit |-> p.credit]
<1>1. /\ UNCHANGED <<saleId, lines, recordAnyway, nextKey, meant, together>>
      /\ posts' \subseteq (posts \ {p}) \cup {q} /\ p.stage = "checked" /\ stage \notin {"sent", "checked"}
  BY DEF Record, AtServer, cart, counters, Outcome
<1>2. /\ q.saleId = p.saleId /\ q.lines = p.lines /\ q.customer = p.customer /\ q.allow = p.allow
      /\ q.stage = stage
  BY <1>0 DEF Posts
<1>3. row.saleId = p.saleId /\ row.lines = p.lines /\ row.customer = p.customer
  OBVIOUS
<1>4. \/ stage # "recorded" /\ sold' = sold
      \/ /\ stage = "recorded" /\ sold' = Append(sold, row)
         /\ \A i \in DOMAIN sold : sold[i].saleId # p.saleId
  BY DEF Record, Outcome
<1> HIDE DEF q, row, stage
<1>5. \A r \in posts' : \E c \in posts : r.saleId = c.saleId /\ r.lines = c.lines /\ r.allow = c.allow
  BY <1>1, <1>2
<1>6. MeantIsSaid'
  BY <1>1, <1>5 DEF IInv, MeantIsSaid
<1>7. \A r \in posts' : RungUp(r.saleId, r.lines) \subseteq Rung
  BY <1>5, PartsOfRung
<1>8. ~together => AtTheServer' = {} /\ \A r \in posts' : r.stage # "checked"
  BY <1>1, <1>2 DEF IInv, OneAtATime, AtTheServer
<1>9. OneAtATime'
  BY <1>1, <1>8 DEF OneAtATime
<1>10. CASE stage # "recorded" /\ sold' = sold
  <2>1. SoldOnce' /\ TwinsWereMeant'
    BY <1>1, <1>10 DEF IInv, SoldOnce, TwinsWereMeant
  <2>2. RecordedIsSold'
    BY <1>1, <1>2, <1>10 DEF IInv, RecordedIsSold
  <2>3. KeysKept'
    BY <1>1, <1>7, <1>10, PartsOfRung, KeysOfCarts DEF IInv
  <2> QED
    BY <1>6, <1>9, <2>1, <2>2, <2>3
<1>11. CASE /\ stage = "recorded" /\ sold' = Append(sold, row)
            /\ \A i \in DOMAIN sold : sold[i].saleId # p.saleId
  <2> DEFINE n == Len(sold) + 1
  <2>1. /\ DOMAIN sold = 1..Len(sold) /\ Len(sold) \in Nat /\ DOMAIN sold' = 1..n
        /\ sold'[n] = row /\ \A i \in DOMAIN sold : sold'[i] = sold[i]
    BY <1>0, <1>11
  <2>2. \A i \in DOMAIN sold' : i \in DOMAIN sold \/ i = n
    BY <2>1
  <2>3. \A i \in DOMAIN sold : i \in DOMAIN sold' /\ i < n
    BY <2>1
  <2>4. n \in DOMAIN sold'
    BY <2>1
  <2>5. KeysKept'
    <3>1. \A i \in DOMAIN sold' : RungUp(sold'[i].saleId, sold'[i].lines) \subseteq Rung
      BY <1>3, <2>1, <2>2, PartsOfRung
    <3> QED
      BY <1>1, <1>7, <3>1, PartsOfRung, KeysOfCarts DEF IInv
  <2>6. SoldOnce'
    BY <1>3, <1>11, <2>1, <2>2 DEF IInv, SoldOnce
  <2>7. RecordedIsSold'
    <3> SUFFICES ASSUME NEW r \in posts', r.stage = "recorded"
                 PROVE  \E i \in DOMAIN sold' : sold'[i].saleId = r.saleId /\ sold'[i].lines = r.lines
      BY DEF RecordedIsSold
    <3>1. CASE r = q
      BY <1>2, <1>3, <2>1, <2>4, <3>1
    <3>2. CASE r \in posts
      BY <2>1, <2>3, <3>2 DEF IInv, RecordedIsSold
    <3> QED
      BY <1>1, <3>1, <3>2
  <2>8. TwinsWereMeant'
    <3>1. CASE together
      BY <1>1, <3>1 DEF TwinsWereMeant
    <3>2. CASE ~together
      <4>1. p.allow \/ NoTwinOf(p)
        BY <1>1, <3>2 DEF IInv, OneAtATime
      <4>2. p.allow => p.saleId \in meant
        BY DEF IInv, MeantIsSaid
      <4>3. ASSUME NEW i \in DOMAIN sold', NEW j \in DOMAIN sold', i < j,
                   sold'[i].customer = sold'[j].customer, SameItems(sold'[i].lines, sold'[j].lines)
            PROVE  sold'[j].saleId \in meant
        <5>1. i \in DOMAIN sold
          BY <2>1, <4>3
        <5>2. CASE j \in DOMAIN sold
          BY <2>1, <3>2, <4>3, <5>1, <5>2 DEF IInv, TwinsWereMeant
        <5>3. CASE j = n
          <6>1. sold[i].customer = p.customer /\ SameItems(p.lines, sold[i].lines)
            BY <1>3, <2>1, <4>3, <5>1, <5>3, SameItemsBothWays
          <6>2. ~NoTwinOf(p)
            BY <1>11, <5>1, <6>1 DEF NoTwinOf
          <6> QED
            BY <1>3, <2>1, <4>1, <4>2, <5>3, <6>2
        <5> QED
          BY <2>2, <5>2, <5>3
      <4> QED
        BY <1>1, <4>3 DEF TwinsWereMeant
    <3> QED
      BY <3>1, <3>2
  <2> QED
    BY <1>6, <1>9, <2>5, <2>6, <2>7, <2>8
<1> QED
  BY <1>4, <1>10, <1>11

-----------------------------------------------------------------------------
(* The latest re-pricing. *)

\* Other requests come and go.
Others == Repricings' = Repricings /\ UNCHANGED <<repriceRun, repricing>> /\ Tier' = Tier

LEMMA OthersKeepRuns ==
  ASSUME RunsInOrder, PaymentWaitsForPrices, Others, adding' => adding \/ ~repricing
  PROVE  RunsInOrder' /\ PaymentWaitsForPrices'
<1>1. RunsInOrder'
  BY DEF RunsInOrder, Others
<1>2. PaymentWaitsForPrices <=> (repricing <=> \E r \in Repricings : r.run = repriceRun)
  BY DEF PaymentWaitsForPrices, Repricings
<1>3. PaymentWaitsForPrices' <=> (repricing' <=> \E r \in Repricings' : r.run = repriceRun')
  BY DEF PaymentWaitsForPrices, Repricings
<1> QED
  BY <1>1, <1>2, <1>3 DEF Others

\* A request that is no re-pricing is asked, or answered.
LEMMA AskedOther ==
  ASSUME NEW r, r.kind # "reprice", asked' = asked \cup {r} \/ asked' = asked \ {r}
  PROVE  Repricings' = Repricings
  BY DEF Repricings

\* Work that has nothing to do with them: all but a choice of customer and the answer to it.
OtherWork ==
  \/ LookUp \/ CameraReads \/ ToggleCamera \/ CancelOption \/ OpenCustomerDialog \/ PayLater \/ CancelDialog
  \/ \E i \in DOMAIN lines : \/ \E u \in Units : ChangeUnit(i, u)
                             \/ ChangeQuantity(i) \/ ChangePrice(i) \/ RemoveLine(i)
  \/ \E u \in Units : AddFromSearch(u) \/ PickOption(u)
  \/ \E r \in asked : Ends(r) \/ Adds(r)

LEMMA WorkIsOthers ==
  ASSUME OtherWork
  PROVE  Others /\ (adding' => adding \/ ~repricing)
<1> USE DEF Others, Tier
<1>1. CASE LookUp \/ CameraReads
  <2>1. Request("scan").kind # "reprice" /\ Request("camera").kind # "reprice"
    BY DEF Request
  <2> QED
    BY <1>1, <2>1, AskedOther DEF LookUp, CameraReads, ScanStays, Ask
<1>2. CASE ToggleCamera \/ CancelOption \/ OpenCustomerDialog \/ PayLater \/ CancelDialog
  BY <1>2 DEF ToggleCamera, CancelOption, OpenCustomerDialog, PayLater, CancelDialog, ScanStays, PanelEnabled,
    cart, screen, counters, Repricings
<1>3. ASSUME NEW i \in DOMAIN lines,
             (\E u \in Units : ChangeUnit(i, u)) \/ ChangeQuantity(i) \/ ChangePrice(i) \/ RemoveLine(i)
      PROVE  Others /\ (adding' => adding \/ ~repricing)
  <2>1. ASSUME NEW u \in Units, ChangeUnit(i, u) PROVE Others /\ adding' = adding
    <3> DEFINE r == [kind |-> "unit", tier |-> Tier, saleId |-> saleId, key |-> lines[i].key, unit |-> u]
    <3>1. r.kind # "reprice"
      OBVIOUS
    <3>2. asked' = asked \cup {r}
      BY <2>1 DEF ChangeUnit, Ask
    <3> HIDE DEF r
    <3> QED
      BY <2>1, <3>1, <3>2, AskedOther DEF ChangeUnit, LineStays
  <2> QED
    BY <1>3, <2>1 DEF ChangeQuantity, ChangePrice, RemoveLine, LineStays, Repricings
<1>4. ASSUME NEW u \in Units, AddFromSearch(u) \/ PickOption(u) PROVE Others /\ adding' = adding
  BY <1>4 DEF AddFromSearch, PickOption, ScanStays, Repricings
<1>5. ASSUME NEW r \in asked, Ends(r) PROVE Others /\ adding' = adding
  <2>1. CASE NoSuchCode(r)
    <3>1. CASE r.kind = "scan" /\ asked' = (asked \ {r}) \cup {[r EXCEPT !.kind = "search"]}
      <4>1. [r EXCEPT !.kind = "search"].kind # "reprice"
        BY <3>1
      <4> QED
        BY <2>1, <3>1, <4>1 DEF NoSuchCode, ScanStays, Repricings
    <3>2. CASE r.kind = "camera" /\ asked' = asked \ {r}
      BY <2>1, <3>2, AskedOther DEF NoSuchCode, ScanStays
    <3> QED
      BY <2>1, <3>1, <3>2 DEF NoSuchCode
  <2>2. CASE ScannedOptions(r) \/ SearchAnswered(r, {}) \/ AskFails(r)
    <3>1. r.kind # "reprice" /\ asked' = asked \ {r}
      BY <2>2 DEF ScannedOptions, SearchAnswered, AskFails
    <3>2. Repricings' = Repricings
      BY <3>1, AskedOther
    <3> QED
      BY <2>2, <3>2 DEF ScannedOptions, SearchAnswered, AskFails, ScanStays
  <2>3. CASE UnitFails(r)
    BY <2>3, AskedOther DEF UnitFails, LineStays
  <2> QED
    BY <1>5, <2>1, <2>2, <2>3 DEF Ends
<1>6. ASSUME NEW r \in asked, Adds(r) PROVE Others /\ adding' = adding
  <2>1. r.kind # "reprice" /\ asked' = asked \ {r}
    BY <1>6 DEF Adds, Scanned, SearchAnswered, UnitAnswered
  <2>2. Repricings' = Repricings
    BY <2>1, AskedOther
  <2> QED
    BY <1>6, <2>2 DEF Adds, Scanned, SearchAnswered, UnitAnswered, ScanStays, LineStays
<1> QED
  BY <1>1, <1>2, <1>3, <1>4, <1>5, <1>6 DEF OtherWork

\* A customer chosen: the latest re-pricing is theirs, or there is none and none is needed.
LEMMA ChoiceKeepsRuns ==
  ASSUME ScreenOK, RunsInOrder, PaymentWaitsForPrices, NEW c \in Buyers, ChooseCustomer(c)
  PROVE  /\ RunsInOrder' /\ PaymentWaitsForPrices' /\ ~repricing
         /\ ~repricing' => Tier' = Tier \/ lines = <<>>
         /\ repricing' => \A i \in DOMAIN lines : AwaitsPrice(lines[i])'
<1>0. repriceRun \in Nat /\ repricing \in BOOLEAN
  <2>1. MaxRuns \in Nat
    BY TillAssumption
  <2> QED
    BY <2>1, ScreenIs DEF Screen
<1>1. ~repricing /\ (PaymentWaitsForPrices <=> (repricing <=> \E r \in Repricings : r.run = repriceRun))
  BY DEF ChooseCustomer, PanelEnabled, RunsInOrder, PaymentWaitsForPrices, Repricings
<1>2. \A r \in Repricings : r.run \in Nat /\ r.run < repriceRun
  BY <1>0, <1>1 DEF RunsInOrder
<1>3. PaymentWaitsForPrices' <=> (repricing' <=> \E r \in Repricings' : r.run = repriceRun')
  BY DEF PaymentWaitsForPrices, Repricings
<1>4. adding' = FALSE /\ Tier' = TierOf[c]
  BY DEF ChooseCustomer, Tier
<1>5. CASE TierOf[c] # Tier /\ lines # <<>>
  <2> DEFINE new == [kind |-> "reprice", tier |-> TierOf[c], run |-> repriceRun',
                     rows |-> {[key |-> lines[i].key, unit |-> lines[i].unit] : i \in DOMAIN lines}]
  <2>1. asked' = asked \cup {new} /\ repriceRun' = repriceRun + 1 /\ repricing' = TRUE
    BY <1>5 DEF ChooseCustomer, Ask
  <2>2. /\ new.kind = "reprice" /\ new.tier = TierOf[c] /\ new.run = repriceRun'
        /\ \A i \in DOMAIN lines : [key |-> lines[i].key, unit |-> lines[i].unit] \in new.rows
    OBVIOUS
  <2> HIDE DEF new
  <2>3. Repricings' = Repricings \cup {new}
    BY <2>1, <2>2 DEF Repricings
  <2>4. RunsInOrder'
    BY <1>0, <1>2, <1>4, <2>1, <2>2, <2>3 DEF RunsInOrder
  <2>5. PaymentWaitsForPrices'
    BY <1>3, <2>1, <2>2, <2>3
  <2>6. \A i \in DOMAIN lines : AwaitsPrice(lines[i])'
    <3>1. lines' = lines
      BY DEF ChooseCustomer
    <3> QED
      BY <2>1, <2>2, <2>3, <3>1 DEF AwaitsPrice, AwaitedIn
  <2> QED
    BY <1>1, <2>1, <2>4, <2>5, <2>6
<1>6. CASE ~(TierOf[c] # Tier /\ lines # <<>>)
  <2>1. UNCHANGED <<repriceRun, repricing, asked>>
    BY <1>6 DEF ChooseCustomer
  <2>2. Repricings' = Repricings
    BY <2>1 DEF Repricings
  <2>3. RunsInOrder'
    BY <1>0, <1>2, <1>4, <2>1, <2>2 DEF RunsInOrder
  <2>4. PaymentWaitsForPrices'
    BY <1>1, <1>3, <2>1, <2>2
  <2> QED
    BY <1>1, <1>4, <1>6, <2>1, <2>3, <2>4
<1> QED
  BY <1>5, <1>6

\* An answer to a re-pricing, or word that it failed.
LEMMA AnswerKeepsRuns ==
  ASSUME ScreenOK, RunsInOrder, PaymentWaitsForPrices, NEW r \in asked, RepriceAnswered(r) \/ RepriceFails(r)
  PROVE  /\ RunsInOrder' /\ PaymentWaitsForPrices'
         /\ r \in Repricings /\ Repricings' = Repricings \ {r}
         /\ UNCHANGED <<repriceRun, customer>> /\ (r.run = repriceRun <=> repricing /\ ~repricing')
<1>0. repricing \in BOOLEAN
  BY ScreenIs DEF Screen
<1>1. /\ r.kind = "reprice" /\ asked' = asked \ {r} /\ repricing' = (repricing /\ r.run # repriceRun)
      /\ UNCHANGED <<repriceRun, customer, adding>>
  BY DEF RepriceAnswered, RepriceFails, RepriceStays
<1>2. r \in Repricings /\ Repricings' = Repricings \ {r}
  BY <1>1 DEF Repricings
<1>3. PaymentWaitsForPrices' <=> (repricing' <=> \E s \in Repricings' : s.run = repriceRun')
  BY DEF PaymentWaitsForPrices, Repricings
<1>4. repricing <=> \E s \in Repricings : s.run = repriceRun
  BY DEF PaymentWaitsForPrices, Repricings
<1>5. RunsInOrder'
  BY <1>0, <1>1, <1>2 DEF RunsInOrder, Tier
<1>6. PaymentWaitsForPrices'
  BY <1>0, <1>1, <1>2, <1>3, <1>4 DEF RunsInOrder
<1>7. r.run = repriceRun <=> repricing /\ ~repricing'
  BY <1>0, <1>1, <1>2, <1>4
<1> QED
  BY <1>1, <1>2, <1>5, <1>6, <1>7

LEMMA SaleKeepsRuns ==
  ASSUME RunsInOrder, PaymentWaitsForPrices,
         TakePayment \/ ConfirmOverride \/ RecordAnyway \/ Server \/ Replies
  PROVE  RunsInOrder' /\ PaymentWaitsForPrices' /\ UNCHANGED <<asked, repricing, repriceRun, customer, lines, saleId>>
<1>1. UNCHANGED <<asked, repricing, repriceRun, customer, lines, saleId, adding>>
  BY DEF TakePayment, ConfirmOverride, RecordAnyway, Submit, Server, AssertNotAlreadyRecorded, Record, AtServer,
    Replies, Reply, LoseReply, cart, screen
<1> QED
  BY <1>1, OthersKeepRuns DEF Others, Repricings, Tier

LEMMA NoRepricingIsLatest ==
  ASSUME ScreenOK, RunsInOrder, StartNewSale \/ Reload
  PROVE  RunsInOrder' /\ PaymentWaitsForPrices' /\ repricing' = FALSE
<1>0. repriceRun \in Nat
  <2>1. MaxRuns \in Nat
    BY TillAssumption
  <2> QED
    BY <2>1, ScreenIs DEF Screen
<1>1. PaymentWaitsForPrices' <=> (repricing' <=> \E r \in Repricings' : r.run = repriceRun')
  BY DEF PaymentWaitsForPrices, Repricings
<1>2. CASE StartNewSale
  <2>1. repriceRun' = repriceRun + 1 /\ repricing' = FALSE /\ asked' = asked
    BY <1>2 DEF StartNewSale
  <2>2. Repricings' = Repricings
    BY <2>1 DEF Repricings
  <2>3. \A r \in Repricings : r.run \in Nat /\ r.run < repriceRun'
    BY <1>0, <2>1 DEF RunsInOrder
  <2> QED
    BY <1>0, <1>1, <2>1, <2>2, <2>3 DEF RunsInOrder
<1>3. CASE Reload
  <2>1. repricing' = FALSE /\ Repricings' = {}
    BY <1>3 DEF Reload, Repricings
  <2> QED
    BY <1>1, <2>1 DEF RunsInOrder
<1> QED
  BY <1>2, <1>3

-----------------------------------------------------------------------------
(* As long as the till is not led astray.                                  *)

Straight == StandsStill /\ Priced /\ ReceiptIsTheCart

\* Work at the screen that does not stray.
StraightOther ==
  \/ LookUp \/ CameraReads \/ ToggleCamera \/ CancelOption \/ OpenCustomerDialog \/ PayLater \/ CancelDialog
  \/ \E i \in DOMAIN lines : \/ \E u \in Units : ChangeUnit(i, u)
                             \/ ChangeQuantity(i) \/ ChangePrice(i) \/ RemoveLine(i)
  \/ \E u \in Units : \/ AddFromSearch(u) /\ ~Waiting
                      \/ PickOption(u) /\ ~Late(choosing)
  \/ \E r \in asked : \/ Ends(r)
                      \/ Adds(r) /\ ~Late(r)
StraightReprice(r) ==
  \/ RepriceAnswered(r) /\ ~Unpriced(r)
  \/ RepriceFails(r) /\ r.run # repriceRun
StraightWork ==
  StraightOther \/ (\E c \in Buyers : ChooseCustomer(c)) \/ \E r \in asked : StraightReprice(r)

StraightSteps ==
  \/ StraightWork
  \/ TakePayment \/ ConfirmOverride \/ RecordAnyway
  \/ Server \/ Replies \/ StartNewSale
  \/ Reload /\ ~repricing

\* While a sale is waited for the screen is shut.
Locked == busy' \/ \A p \in posts' : ~p.waiting

LEMMA StraightIsWork == StraightWork => Work
  BY DEF StraightWork, StraightOther, StraightReprice, Work

LEMMA SettledStraight == ASSUME NEW s, Settle(s), ~astray' PROVE ~astray /\ ~s /\ Locked
  BY DEF Settle, Locked

LEMMA NextIsStraight == Next /\ ~astray' => ~astray /\ Locked /\ StraightSteps
<1> SUFFICES ASSUME Next, ~astray' PROVE ~astray /\ Locked /\ StraightSteps
  OBVIOUS
<1>1. CASE (Cashier \/ Server \/ Replies \/ \E r \in asked : Ends(r)) /\ Settle(FALSE)
  <2>1. ~astray /\ Locked
    BY <1>1, SettledStraight
  <2> QED
    BY <1>1, <2>1 DEF StraightSteps, StraightWork, StraightOther, StraightReprice, Cashier, Buyers
<1>2. ASSUME NEW u \in Units, AddFromSearch(u) /\ Settle(Waiting)
      PROVE  ~astray /\ Locked /\ StraightSteps
  BY <1>2, SettledStraight DEF StraightSteps, StraightWork, StraightOther, StraightReprice
<1>3. ASSUME NEW u \in Units, PickOption(u) /\ Settle(Late(choosing))
      PROVE  ~astray /\ Locked /\ StraightSteps
  BY <1>3, SettledStraight DEF StraightSteps, StraightWork, StraightOther, StraightReprice
<1>4. ASSUME NEW r \in asked, Adds(r) /\ Settle(Late(r))
      PROVE  ~astray /\ Locked /\ StraightSteps
  BY <1>4, SettledStraight DEF StraightSteps, StraightWork, StraightOther, StraightReprice
<1>5. ASSUME NEW r \in asked, RepriceAnswered(r) /\ Settle(Unpriced(r))
      PROVE  ~astray /\ Locked /\ StraightSteps
  BY <1>5, SettledStraight DEF StraightSteps, StraightWork, StraightOther, StraightReprice
<1>6. ASSUME NEW r \in asked, RepriceFails(r) /\ Settle(r.run = repriceRun)
      PROVE  ~astray /\ Locked /\ StraightSteps
  BY <1>6, SettledStraight DEF StraightSteps, StraightWork, StraightOther, StraightReprice
<1>7. CASE Reload /\ Settle(repricing)
  BY <1>7, SettledStraight DEF StraightSteps
<1> QED
  BY <1>1, <1>2, <1>3, <1>4, <1>5, <1>6, <1>7 DEF Next

\* While a sale is waited for, or its receipt shown, the cart is left alone; what holds
\* payment back is not put up meanwhile, nor beside a question; and lines are priced.
Undisturbed == Waiting \/ completed # None => UNCHANGED <<lines, customer>>
LocksKept ==
  \/ (repricing' => repricing) /\ (adding' => adding) /\ (asking' = asking \/ asking' = None)
  \/ ~Waiting /\ completed = None /\ asking = None /\ asking' = asking
LinesPriced == \A i \in DOMAIN lines : OnList(lines[i], Tier) \/ AwaitsPrice(lines[i])

LEMMA QuietWorkIsStraight ==
  ASSUME ~astray, Straight, SalesStay, Undisturbed, LocksKept, LinesPriced', Locked
  PROVE  Straight'
<1>1. StandsStill'
  <2>1. \A p \in posts : p.waiting =>
          busy /\ ~repricing /\ ~adding /\ completed = None
          /\ p.saleId = saleId /\ p.lines = lines /\ p.customer = customer
    BY DEF Straight, StandsStill
  <2>2. ASSUME NEW p \in posts', p.waiting
        PROVE  /\ busy' /\ ~repricing' /\ ~adding' /\ completed' = None
               /\ p.saleId = saleId' /\ p.lines = lines' /\ p.customer = customer'
    BY <2>1, <2>2 DEF SalesStay, Undisturbed, LocksKept, Locked, Waiting
  <2>3. asking' # None => ~repricing' /\ ~adding'
    BY DEF Straight, StandsStill, LocksKept
  <2>4. completed' # None => ~repricing'
    BY DEF Straight, StandsStill, LocksKept, SalesStay
  <2> QED
    BY <2>2, <2>3, <2>4 DEF StandsStill
<1>2. Priced'
  BY DEF Straight, Priced, LinesPriced, SalesStay
<1>3. ReceiptIsTheCart'
  BY DEF Straight, ReceiptIsTheCart, SalesStay, Undisturbed
<1> QED
  BY <1>1, <1>2, <1>3 DEF Straight

\* Line k of the next cart has its price or waits for it.
PricedThen(k) == OnList(lines'[k], Tier') \/ AwaitedIn(Repricings', repriceRun', lines'[k])

\* Lines as they were keep the prices they have or wait for.
LEMMA ListedKeepPrices == ASSUME LinesPriced, Others, AsListed(lines, lines') PROVE LinesPriced'
<1> SUFFICES ASSUME NEW k \in DOMAIN lines' PROVE PricedThen(k)
  BY DEF PricedThen, LinesPriced, AwaitsPrice
<1>1. PICK n \in DOMAIN lines :
        lines'[k].key = lines[n].key /\ lines'[k].unit = lines[n].unit /\ lines'[k].list = lines[n].list
  BY DEF AsListed
<1>2. CASE OnList(lines[n], Tier)
  BY <1>1, <1>2 DEF PricedThen, OnList, Others
<1>3. CASE AwaitsPrice(lines[n])
  BY <1>1, <1>3 DEF PricedThen, AwaitsPrice, AwaitedIn, Others
<1> QED
  BY <1>2, <1>3 DEF LinesPriced

LEMMA AddedKeepPrices ==
  ASSUME ScreenOK, LinesPriced, Others, NEW u \in Units, Added(u, Price[Tier][u])
  PROVE  LinesPriced'
<1>0. lines \in Seq(Line)
  BY ScreenIs DEF Screen
<1>1. CASE AsListed(lines, lines')
  BY <1>1, ListedKeepPrices
<1>2. CASE Joined(u, Price[Tier][u])
  <2> DEFINE row == [key |-> nextKey, unit |-> u, quantity |-> 1,
                     charged |-> Price[Tier][u], list |-> Price[Tier][u]]
  <2>1. lines' = Append(lines, row)
    BY <1>2 DEF Joined
  <2>2. OnList(row, Tier)
    BY DEF OnList
  <2> HIDE DEF row
  <2>3. /\ DOMAIN lines' = DOMAIN lines \cup {Len(lines) + 1} /\ lines'[Len(lines) + 1] = row
        /\ \A i \in DOMAIN lines : lines'[i] = lines[i]
    BY <1>0, <2>1
  <2> SUFFICES ASSUME NEW k \in DOMAIN lines' PROVE PricedThen(k)
    BY DEF PricedThen, LinesPriced, AwaitsPrice
  <2>4. CASE k \in DOMAIN lines /\ OnList(lines[k], Tier)
    BY <2>3, <2>4 DEF PricedThen, Others
  <2>5. CASE k \in DOMAIN lines /\ AwaitsPrice(lines[k])
    BY <2>3, <2>5 DEF PricedThen, AwaitsPrice, AwaitedIn, Others
  <2>6. CASE k \notin DOMAIN lines
    BY <2>2, <2>3, <2>6 DEF PricedThen, Others
  <2> QED
    BY <2>4, <2>5, <2>6 DEF LinesPriced
<1> QED
  BY <1>1, <1>2 DEF Added

LEMMA OtherWorkIsQuiet ==
  ASSUME ScreenOK, StandsStill, LinesPriced, StraightOther
  PROVE  Undisturbed /\ LocksKept /\ LinesPriced'
<1>0. Screen /\ TheSale /\ Tier \in Tiers
  BY ScreenIs, TierThereIs DEF Screen, Tier
<1>1. Others
  BY WorkIsOthers DEF StraightOther, OtherWork
<1>2. Waiting => busy /\ completed = None
  BY DEF Waiting, StandsStill
<1>3. ASSUME UNCHANGED lines PROVE LinesPriced'
  BY <1>1, <1>3, SameListed, ListedKeepPrices
<1>4. ASSUME LinesEnabled PROVE ~Waiting /\ completed = None
  BY <1>2, <1>4 DEF LinesEnabled
<1>5. CASE \/ LookUp \/ CameraReads \/ ToggleCamera \/ CancelOption
  <2>1. UNCHANGED <<lines, customer, repricing, adding, asking>>
    BY <1>5 DEF LookUp, CameraReads, ToggleCamera, CancelOption, ScanStays, cart
  <2> QED
    BY <1>3, <2>1 DEF Undisturbed, LocksKept
<1>6. CASE OpenCustomerDialog \/ PayLater \/ CancelDialog
  <2>1. CASE OpenCustomerDialog
    <3>1. /\ ~busy /\ completed = None /\ asking = None
          /\ UNCHANGED <<lines, customer, asking>>
      BY <2>1 DEF OpenCustomerDialog, PanelEnabled, Overlay, cart
    <3> QED
      BY <1>2, <1>3, <3>1 DEF Undisturbed, LocksKept
  <2>2. CASE PayLater
    <3>1. UNCHANGED <<lines, customer, repricing, adding, asking>>
      BY <2>2 DEF PayLater, screen
    <3> QED
      BY <1>3, <3>1 DEF Undisturbed, LocksKept
  <2>3. CASE CancelDialog
    <3>1. /\ UNCHANGED <<lines, customer, repricing>> /\ (adding' => adding)
          /\ (asking' = asking \/ asking' = None)
      BY <2>3 DEF CancelDialog, cart
    <3> QED
      BY <1>3, <3>1 DEF Undisturbed, LocksKept
  <2> QED
    BY <1>6, <2>1, <2>2, <2>3
<1>7. ASSUME NEW i \in DOMAIN lines,
             (\E u \in Units : ChangeUnit(i, u)) \/ ChangeQuantity(i) \/ ChangePrice(i) \/ RemoveLine(i)
      PROVE  Undisturbed /\ LocksKept /\ LinesPriced'
  <2>1. LinesEnabled /\ UNCHANGED <<repricing, adding, asking>>
    BY <1>7 DEF ChangeUnit, ChangeQuantity, ChangePrice, RemoveLine, LineStays
  <2>2. AsListed(lines, lines')
    <3>1. ASSUME NEW u \in Units, ChangeUnit(i, u) PROVE AsListed(lines, lines')
      BY <3>1, SameListed DEF ChangeUnit
    <3>2. CASE ChangeQuantity(i)
      <4>1. PICK q \in 1..MaxQuantity : lines' = [lines EXCEPT ![i].quantity = q]
        BY <3>2 DEF ChangeQuantity
      <4> QED
        BY <1>0, <4>1, LinesChanged DEF Screen
    <3>3. CASE ChangePrice(i)
      <4>1. PICK p \in Typed \cup {lines[i].list} : lines' = [lines EXCEPT ![i].charged = p]
        BY <3>3 DEF ChangePrice
      <4>2. lines[i] \in Line
        BY <1>0, ElementOfSeq, LenProperties DEF Screen
      <4>3. p \in Prices
        BY <4>1, <4>2 DEF Line, Prices
      <4> QED
        BY <1>0, <4>1, <4>3, LinesChanged DEF Screen
    <3>4. CASE RemoveLine(i)
      BY <1>0, <3>4, LineRemoved DEF RemoveLine, Screen
    <3> QED
      BY <1>7, <3>1, <3>2, <3>3, <3>4
  <2> QED
    BY <1>1, <1>4, <2>1, <2>2, ListedKeepPrices DEF Undisturbed, LocksKept
<1>8. ASSUME NEW u \in Units, AddFromSearch(u) /\ ~Waiting
      PROVE  Undisturbed /\ LocksKept /\ LinesPriced'
  <2>1. completed = None /\ UNCHANGED <<repricing, adding, asking>> /\ AddPriced(u, Price[Tier][u])
    BY <1>8 DEF AddFromSearch, ScanBoxTaken, ScanStays
  <2>2. Added(u, Price[Tier][u])
    BY <1>0, <2>1, PricesThereAre, PricedIsAdded
  <2> QED
    BY <1>1, <1>8, <2>1, <2>2, AddedKeepPrices DEF Undisturbed, LocksKept
<1>9. ASSUME NEW u \in Units, PickOption(u) /\ ~Late(choosing)
      PROVE  Undisturbed /\ LocksKept /\ LinesPriced'
  <2>1. /\ completed = None /\ UNCHANGED <<repricing, adding, asking>>
        /\ AddPriced(u, Price[choosing.tier][u]) /\ choosing.tier = Tier /\ ~Waiting
    BY <1>9 DEF PickOption, Late, ScanStays
  <2>2. Added(u, Price[Tier][u])
    BY <1>0, <2>1, PricesThereAre, PricedIsAdded
  <2> QED
    BY <1>1, <2>1, <2>2, AddedKeepPrices DEF Undisturbed, LocksKept
<1>10. ASSUME NEW r \in asked, Ends(r)
       PROVE  Undisturbed /\ LocksKept /\ LinesPriced'
  <2>1. UNCHANGED <<lines, customer, repricing, adding, asking>>
    BY <1>10 DEF Ends, ScannedOptions, NoSuchCode, SearchAnswered, AskFails, UnitFails, ScanStays, LineStays
  <2> QED
    BY <1>3, <2>1 DEF Undisturbed, LocksKept
<1>11. ASSUME NEW r \in asked, Adds(r) /\ ~Late(r)
       PROVE  Undisturbed /\ LocksKept /\ LinesPriced'
  <2>0. r.tier = Tier /\ ~Waiting /\ completed = None
    BY <1>11 DEF Late
  <2>1. UNCHANGED <<repricing, adding, asking>>
    BY <1>11 DEF Adds, Scanned, SearchAnswered, UnitAnswered, ScanStays, LineStays
  <2>2. ASSUME NEW u \in Units, Scanned(r, u) \/ SearchAnswered(r, {u}) PROVE LinesPriced'
    <3>1. AddPriced(u, Price[Tier][u])
      BY <2>0, <2>2 DEF Scanned, SearchAnswered
    <3> QED
      BY <1>0, <1>1, <3>1, PricesThereAre, PricedIsAdded, AddedKeepPrices
  <2>3. ASSUME UnitAnswered(r) PROVE LinesPriced'
    <3> DEFINE price == Price[Tier][r.unit]
    <3>0. DOMAIN lines' = DOMAIN lines
      BY <2>3 DEF UnitAnswered
    <3> SUFFICES ASSUME NEW k \in DOMAIN lines PROVE PricedThen(k)
      BY <3>0 DEF PricedThen, LinesPriced, AwaitsPrice
    <3>1. \/ lines'[k] = lines[k]
          \/ lines'[k] = [lines[k] EXCEPT !.unit = r.unit, !.charged = price, !.list = price]
      BY <2>0, <2>3 DEF UnitAnswered
    <3>2. lines[k] \in Line
      BY <1>0, ElementOfSeq, LenProperties DEF Screen
    <3>3. CASE lines'[k] = lines[k]
      <4>1. CASE OnList(lines[k], Tier)
        BY <1>1, <3>3, <4>1 DEF PricedThen, Others
      <4>2. CASE AwaitsPrice(lines[k])
        BY <1>1, <3>3, <4>2 DEF PricedThen, AwaitsPrice, AwaitedIn, Others
      <4> QED
        BY <4>1, <4>2 DEF LinesPriced
    <3>4. CASE lines'[k] = [lines[k] EXCEPT !.unit = r.unit, !.charged = price, !.list = price]
      <4> HIDE DEF price
      <4>1. lines'[k].unit = r.unit /\ lines'[k].list = price
        BY <3>2, <3>4 DEF Line
      <4> QED
        BY <1>1, <4>1 DEF PricedThen, OnList, Others, price
    <3> QED
      BY <3>1, <3>3, <3>4
  <2>4. LinesPriced'
    BY <1>11, <2>2, <2>3 DEF Adds
  <2> QED
    BY <2>0, <2>1, <2>4 DEF Undisturbed, LocksKept
<1> QED
  BY <1>5, <1>6, <1>7, <1>8, <1>9, <1>10, <1>11 DEF StraightOther

LEMMA NoneAwaits ==
  ASSUME PaymentWaitsForPrices, LinesPriced, ~repricing
  PROVE  \A i \in DOMAIN lines : OnList(lines[i], Tier)
  BY DEF PaymentWaitsForPrices, LinesPriced, AwaitsPrice, AwaitedIn, Repricings

LEMMA ChoiceIsQuiet ==
  ASSUME ScreenOK, StandsStill, LinesPriced, RunsInOrder, PaymentWaitsForPrices,
         NEW c \in Buyers, ChooseCustomer(c)
  PROVE  Undisturbed /\ LocksKept /\ LinesPriced'
<1>0. repricing' \in BOOLEAN
  BY ScreenIs DEF Screen, ChooseCustomer
<1>1. /\ completed = None /\ UNCHANGED <<lines, asking>> /\ ~Waiting /\ asking = None
  BY DEF ChooseCustomer, PanelEnabled, Overlay, StandsStill, Waiting
<1>2. /\ ~repricing' => Tier' = Tier \/ lines = <<>>
      /\ repricing' => \A i \in DOMAIN lines : AwaitsPrice(lines[i])'
      /\ ~repricing
  BY ChoiceKeepsRuns
<1>3. LinesPriced'
  <2>1. CASE repricing'
    BY <1>1, <1>2, <2>1 DEF LinesPriced
  <2>2. CASE ~repricing' /\ Tier' = Tier
    BY <1>1, <1>2, <2>2, NoneAwaits DEF LinesPriced
  <2>3. CASE lines = <<>>
    BY <1>1, <2>3 DEF LinesPriced
  <2> QED
    BY <1>2, <2>1, <2>2, <2>3
<1> QED
  BY <1>1, <1>3 DEF Undisturbed, LocksKept

\* The answer to the latest re-pricing prices every line; another's changes nothing.
LEMMA RepricedIsQuiet ==
  ASSUME ScreenOK, StandsStill, LinesPriced, RunsInOrder, PaymentWaitsForPrices, NEW r \in asked, StraightReprice(r)
  PROVE  Undisturbed /\ LocksKept /\ LinesPriced'
<1>0. lines \in Seq(Line)
  BY ScreenIs DEF Screen
<1>1. /\ r \in Repricings /\ Repricings' = Repricings \ {r}
      /\ UNCHANGED <<repriceRun, customer>> /\ (r.run = repriceRun <=> repricing /\ ~repricing')
  BY AnswerKeepsRuns DEF StraightReprice
<1>2. /\ (repricing' => repricing) /\ UNCHANGED <<adding, asking>> /\ Tier' = Tier
  BY DEF StraightReprice, RepriceAnswered, RepriceFails, RepriceStays, Tier
<1>3. LocksKept
  BY <1>2 DEF LocksKept
<1>4. CASE r.run # repriceRun
  <2>1. lines' = lines
    BY <1>4 DEF StraightReprice, RepriceAnswered, RepriceFails
  <2>2. \A i \in DOMAIN lines : AwaitsPrice(lines[i]) => AwaitsPrice(lines[i])'
    BY <1>1, <1>4, <2>1 DEF AwaitsPrice, AwaitedIn
  <2>3. LinesPriced'
    BY <1>2, <2>1, <2>2 DEF LinesPriced
  <2> QED
    BY <1>1, <1>3, <2>1, <2>3 DEF Undisturbed
<1>5. CASE r.run = repriceRun
  <2>1. RepriceAnswered(r) /\ lines' = ApplyRepricing(lines, r) /\ r.tier = Tier
    BY <1>1, <1>5 DEF StraightReprice, RepriceAnswered, RunsInOrder
  <2>2. \A row \in r.rows : Price[r.tier][row.unit] # NoPrice
    BY <1>5, <2>1 DEF StraightReprice, Unpriced, RepriceFails
  <2>3. DOMAIN lines' = DOMAIN lines
    BY <2>1 DEF ApplyRepricing
  <2>4. ASSUME NEW i \in DOMAIN lines PROVE OnList(lines'[i], Tier')
    <3> DEFINE price == Price[r.tier][lines[i].unit]
    <3>1. lines[i] \in Line
      BY <1>0, ElementOfSeq, LenProperties
    <3>2. CASE Answered(r, lines[i])
      <4>1. PICK charged : lines'[i] = [lines[i] EXCEPT !.list = price, !.charged = charged]
        BY <2>1, <3>2 DEF ApplyRepricing
      <4> HIDE DEF price
      <4>2. lines'[i].unit = lines[i].unit /\ lines'[i].list = price
        BY <3>1, <4>1 DEF Line
      <4> QED
        BY <1>2, <2>1, <4>2 DEF OnList, price
    <3>3. CASE ~Answered(r, lines[i])
      <4>1. lines'[i] = lines[i]
        BY <2>1, <3>3 DEF ApplyRepricing
      <4>2. ~AwaitsPrice(lines[i])
        <5>1. [key |-> lines[i].key, unit |-> lines[i].unit] \notin r.rows
          BY <2>2, <3>3 DEF Answered
        <5>2. \A s \in Repricings : s.run = repriceRun => s = r
          BY <1>1, <1>5 DEF RunsInOrder
        <5> QED
          BY <5>1, <5>2 DEF AwaitsPrice, AwaitedIn
      <4> QED
        BY <1>2, <4>1, <4>2 DEF LinesPriced
    <3> QED
      BY <3>2, <3>3
  <2>5. LinesPriced'
    BY <2>3, <2>4 DEF LinesPriced
  <2>6. ~Waiting /\ completed = None
    BY <1>1, <1>5 DEF StandsStill, Waiting
  <2> QED
    BY <1>3, <2>5, <2>6 DEF Undisturbed
<1> QED
  BY <1>4, <1>5

LEMMA WorkStaysStraight ==
  ASSUME IInv, ~astray, StraightWork, Locked
  PROVE  Straight'
<1>0. /\ ScreenOK /\ StandsStill /\ LinesPriced /\ RunsInOrder /\ PaymentWaitsForPrices /\ Straight
  BY DEF IInv, Straight, Priced, LinesPriced
<1>1. Work /\ SalesStay
  BY StraightIsWork, WorkLeavesSales
<1>2. Undisturbed /\ LocksKept /\ LinesPriced'
  BY <1>0, ChoiceIsQuiet, RepricedIsQuiet, OtherWorkIsQuiet DEF StraightWork
<1> QED
  BY <1>0, <1>1, <1>2, QuietWorkIsStraight

\* No sale is waited for when nothing under way keeps the screen shut.
LEMMA NoneWaitedFor == ASSUME StandsStill, ~busy \/ completed # None PROVE \A p \in posts : ~p.waiting
  BY DEF StandsStill

LEMMA PaymentStaysStraight ==
  ASSUME IInv, ~astray, TakePayment \/ ConfirmOverride \/ RecordAnyway
  PROVE  Straight'
<1>0. ScreenOK /\ StandsStill /\ Priced /\ LinesPriced /\ PaymentWaitsForPrices
  BY DEF IInv, Priced, LinesPriced
<1>1. PICK reason \in {None, "stock", "credit"}, allow \in BOOLEAN :
         /\ Submit(reason, allow) /\ ~busy /\ completed = None
         /\ (~repricing /\ ~adding /\ asking = None) \/ asking # None
         /\ UNCHANGED asking \/ asking' = None
  BY <1>0, WhatIsSent
<1> DEFINE new == Sent(reason, allow)
<1>2. /\ posts' = posts \cup {new} /\ busy' = TRUE
      /\ UNCHANGED <<lines, customer, saleId, repricing, adding, completed, sold, asked, repriceRun>>
  BY <1>1 DEF Submit, Sent, server, counters
<1>3. new.saleId = saleId /\ new.lines = lines /\ new.customer = customer
  BY DEF Sent
<1> HIDE DEF new
<1>4. ~repricing /\ ~adding
  BY <1>0, <1>1 DEF StandsStill
<1>5. \A p \in posts : ~p.waiting
  BY <1>0, <1>1, NoneWaitedFor
<1>6. StandsStill'
  BY <1>1, <1>2, <1>3, <1>4, <1>5 DEF StandsStill
<1>7. \A i \in DOMAIN lines : OnList(lines[i], Tier)
  BY <1>0, <1>4, NoneAwaits
<1>8. Priced'
  BY <1>0, <1>2, <1>3, <1>7 DEF Priced, Tier
<1>9. ReceiptIsTheCart'
  BY <1>1, <1>2 DEF ReceiptIsTheCart
<1> QED
  BY <1>6, <1>8, <1>9 DEF Straight

LEMMA ServerStaysStraight ==
  ASSUME IInv, ~astray, NEW p \in posts, AssertNotAlreadyRecorded(p) \/ Record(p)
  PROVE  Straight'
<1>0. /\ StandsStill /\ Priced /\ ReceiptIsTheCart
      /\ p \in Posts /\ sold \in Seq(Sales)
  BY ScreenIs DEF IInv, TheSale
<1>1. PICK stage : AtServer(p, stage)
  BY DEF AssertNotAlreadyRecorded, Record
<1> DEFINE q == [p EXCEPT !.stage = stage]
           row == [saleId |-> p.saleId, lines |-> p.lines, customer |-> p.customer, credit |-> p.credit]
<1>2. /\ posts' \subseteq (posts \ {p}) \cup {q}
      /\ UNCHANGED <<cart, screen, asked>>
  BY <1>1 DEF AtServer
<1>3. /\ q.saleId = p.saleId /\ q.lines = p.lines /\ q.customer = p.customer /\ q.waiting = p.waiting
      /\ row.lines = p.lines /\ row.customer = p.customer
  BY <1>0 DEF Posts
<1>4. sold' = sold \/ sold' = Append(sold, row)
  BY DEF AssertNotAlreadyRecorded, Record
<1> HIDE DEF q, row
<1>5. \A i \in DOMAIN sold : i \in DOMAIN sold' /\ sold'[i] = sold[i]
  BY <1>0, <1>4
<1>6. \A i \in DOMAIN sold' : i \in DOMAIN sold \/ sold'[i] = row
  BY <1>0, <1>4
<1>7. StandsStill'
  BY <1>0, <1>2, <1>3 DEF StandsStill, cart, screen
<1>8. Priced'
  <2>1. LinesPriced'
    BY <1>0, <1>2 DEF Priced, LinesPriced, AwaitsPrice, AwaitedIn, Repricings, Tier, cart, screen
  <2>2. ASSUME NEW r \in posts' PROVE \A k \in DOMAIN r.lines : OnList(r.lines[k], TierOf[r.customer])
    BY <1>0, <1>2, <1>3 DEF Priced
  <2>3. ASSUME NEW i \in DOMAIN sold'
        PROVE  \A k \in DOMAIN sold'[i].lines : OnList(sold'[i].lines[k], TierOf[sold'[i].customer])
    BY <1>0, <1>3, <1>5, <1>6 DEF Priced
  <2> QED
    BY <2>1, <2>2, <2>3 DEF Priced, LinesPriced
<1>9. ReceiptIsTheCart'
  BY <1>0, <1>2, <1>5 DEF ReceiptIsTheCart, cart, screen
<1> QED
  BY <1>7, <1>8, <1>9 DEF Straight

LEMMA AnswerStaysStraight ==
  ASSUME IInv, ~astray, Locked, NEW p \in posts, LoseReply(p) \/ \E read \in BOOLEAN : Reply(p, read)
  PROVE  Straight'
<1>0. StandsStill /\ Priced /\ ReceiptIsTheCart /\ RecordedIsSold /\ p \in Posts
  BY ScreenIs DEF IInv, TheSale
<1> DEFINE q == [p EXCEPT !.waiting = FALSE]
<1>1. /\ p.waiting /\ busy' = FALSE /\ posts' \subseteq posts \cup {q}
      /\ UNCHANGED <<cart, repricing, repriceRun, adding, asked, sold>>
      /\ completed' = completed \/ (p.stage = "recorded" /\ completed' = p.saleId)
  BY DEF LoseReply, Reply, server
<1>2. q.lines = p.lines /\ q.customer = p.customer
  BY <1>0 DEF Posts
<1> HIDE DEF q
<1>3. /\ ~repricing /\ ~adding /\ completed = None /\ p.lines = lines
  BY <1>0, <1>1 DEF StandsStill
<1>4. \A r \in posts' : ~r.waiting
  BY <1>1 DEF Locked
<1>5. StandsStill'
  BY <1>1, <1>3, <1>4 DEF StandsStill
<1>6. Priced'
  <2>1. LinesPriced'
    BY <1>0, <1>1 DEF Priced, LinesPriced, AwaitsPrice, AwaitedIn, Repricings, Tier, cart
  <2>2. ASSUME NEW r \in posts' PROVE \A k \in DOMAIN r.lines : OnList(r.lines[k], TierOf[r.customer])
    BY <1>0, <1>1, <1>2 DEF Priced
  <2> QED
    BY <1>0, <1>1, <2>1, <2>2 DEF Priced, LinesPriced
<1>7. ReceiptIsTheCart'
  BY <1>0, <1>1, <1>3 DEF ReceiptIsTheCart, RecordedIsSold, cart
<1> QED
  BY <1>5, <1>6, <1>7 DEF Straight

LEMMA NewCartStaysStraight == ASSUME IInv, ~astray, StartNewSale PROVE Straight'
<1>0. StandsStill /\ Priced
  BY DEF IInv
<1>1. /\ lines' = <<>> /\ completed' = None /\ repricing' = FALSE /\ UNCHANGED <<adding, posts, sold>>
      /\ asking' # None => asking # None
      /\ ~busy \/ completed # None
  BY DEF StartNewSale, server, DialogEnabled
<1>2. \A p \in posts' : ~p.waiting
  BY <1>0, <1>1, NoneWaitedFor
<1>3. StandsStill'
  BY <1>0, <1>1, <1>2 DEF StandsStill
<1>4. Priced'
  BY <1>0, <1>1 DEF Priced
<1>5. ReceiptIsTheCart'
  BY <1>1 DEF ReceiptIsTheCart
<1> QED
  BY <1>3, <1>4, <1>5 DEF Straight

LEMMA ReloadStaysStraight == ASSUME IInv, ~astray, Reload, ~repricing PROVE Straight'
<1>0. ScreenOK /\ Kept /\ StandsStill /\ Priced /\ LinesPriced /\ PaymentWaitsForPrices
  BY DEF IInv, Priced, LinesPriced
<1> DEFINE Quieted(p) == [p EXCEPT !.waiting = FALSE]
<1>1. /\ asking' = None /\ completed' = None /\ UNCHANGED sold
      /\ posts' = {Quieted(p) : p \in AtTheServer}
  BY DEF Reload, server, AtTheServer
<1>2. \A p \in posts : Quieted(p).lines = p.lines /\ Quieted(p).customer = p.customer /\ ~Quieted(p).waiting
  BY <1>0, ScreenIs DEF TheSale, Posts
<1> HIDE DEF Quieted
<1>3. \A p \in posts' : ~p.waiting
  BY <1>1, <1>2 DEF AtTheServer
<1>4. StandsStill'
  BY <1>1, <1>3 DEF StandsStill
<1>5. \A i \in DOMAIN lines' : OnList(lines'[i], Tier')
  <2>1. UNCHANGED <<lines, customer>> \/ lines' = <<>>
    BY <1>0, ReloadBringsBack DEF ComesBack
  <2>2. CASE UNCHANGED <<lines, customer>>
    BY <1>0, <2>2, NoneAwaits DEF Tier
  <2>3. CASE lines' = <<>>
    BY <2>3
  <2> QED
    BY <2>1, <2>2, <2>3
<1>6. Priced'
  <2>1. ASSUME NEW r \in posts' PROVE \A k \in DOMAIN r.lines : OnList(r.lines[k], TierOf[r.customer])
    BY <1>0, <1>1, <1>2 DEF Priced, AtTheServer
  <2> QED
    BY <1>0, <1>1, <1>5, <2>1 DEF Priced
<1>7. ReceiptIsTheCart'
  BY <1>1 DEF ReceiptIsTheCart
<1> QED
  BY <1>4, <1>6, <1>7 DEF Straight

-----------------------------------------------------------------------------
(* Every step keeps the invariant. *)

Recorded == KeysKept /\ SoldOnce /\ MeantIsSaid /\ OneAtATime /\ TwinsWereMeant /\ RecordedIsSold

LEMMA WorkKeeps == ASSUME IInv, Work PROVE Recorded'
<1>1. SalesStay /\ KeysKept'
  BY WorkLeavesSales, WorkIsOnLines, KeysOfWork DEF IInv
<1>2. SoldOnce' /\ MeantIsSaid' /\ TwinsWereMeant' /\ RecordedIsSold'
  BY <1>1 DEF IInv, SalesStay, SoldOnce, MeantIsSaid, TwinsWereMeant, RecordedIsSold
<1>3. OneAtATime'
  BY <1>1 DEF IInv, SalesStay, OneAtATime, AtTheServer, NoTwinOf
<1> QED
  BY <1>1, <1>2, <1>3 DEF Recorded

LEMMA StepKeepsRecorded == ASSUME IInv, Steps PROVE Recorded'
<1>1. CASE Work
  BY <1>1, WorkKeeps
<1>2. CASE TakePayment \/ ConfirmOverride \/ RecordAnyway
  BY <1>2, PaymentKeeps DEF Recorded
<1>3. CASE Server
  BY <1>3, CheckKeeps, RecordKeeps DEF Server, Recorded
<1>4. CASE Replies
  BY <1>4, AnswerKeeps DEF Replies, Recorded
<1>5. CASE StartNewSale \/ Reload
  BY <1>5, NewCartKeeps, ReloadKeeps DEF Recorded
<1> QED
  BY <1>1, <1>2, <1>3, <1>4, <1>5 DEF Steps

LEMMA StepKeepsRuns == ASSUME IInv, Steps PROVE RunsInOrder' /\ PaymentWaitsForPrices'
<1>0. ScreenOK /\ RunsInOrder /\ PaymentWaitsForPrices
  BY DEF IInv
<1>1. CASE Work
  <2>1. CASE OtherWork
    BY <1>0, <2>1, WorkIsOthers, OthersKeepRuns
  <2>2. CASE \E c \in Buyers : ChooseCustomer(c)
    BY <1>0, <2>2, ChoiceKeepsRuns
  <2>3. CASE \E r \in asked : RepriceAnswered(r) \/ RepriceFails(r)
    BY <1>0, <2>3, AnswerKeepsRuns
  <2> QED
    BY <1>1, <2>1, <2>2, <2>3 DEF Work, OtherWork
<1>2. CASE TakePayment \/ ConfirmOverride \/ RecordAnyway \/ Server \/ Replies
  BY <1>0, <1>2, SaleKeepsRuns
<1>3. CASE StartNewSale \/ Reload
  BY <1>0, <1>3, NoRepricingIsLatest
<1> QED
  BY <1>1, <1>2, <1>3 DEF Steps

LEMMA StepStaysStraight == ASSUME IInv, ~astray, Locked, StraightSteps PROVE Straight'
<1>1. CASE StraightWork
  BY <1>1, WorkStaysStraight
<1>2. CASE TakePayment \/ ConfirmOverride \/ RecordAnyway
  BY <1>2, PaymentStaysStraight
<1>3. CASE Server
  BY <1>3, ServerStaysStraight DEF Server
<1>4. CASE Replies
  BY <1>4, AnswerStaysStraight DEF Replies
<1>5. CASE StartNewSale \/ (Reload /\ ~repricing)
  BY <1>5, NewCartStaysStraight, ReloadStaysStraight
<1> QED
  BY <1>1, <1>2, <1>3, <1>4, <1>5 DEF StraightSteps

LEMMA InitInv == Init => IInv
<1> SUFFICES ASSUME Init PROVE IInv
  OBVIOUS
<1>1. /\ 1 \in 1..MaxSales /\ 0 \in 0..MaxRuns /\ <<>> \in Seq(Line) /\ <<>> \in Seq(Sales) /\ WalkIn \in Buyers
  BY TillAssumption DEF Buyers
<1>2. ScreenOK
  <2>1. Screen
    <3>1. /\ lines = <<>> /\ customer = WalkIn /\ repriceRun = 0 /\ nextKey = 1 /\ asked = {}
          /\ credit = FALSE /\ busy = FALSE /\ repricing = FALSE /\ camera = FALSE /\ adding = FALSE
          /\ choosing = None /\ asking = None
      BY DEF Init
    <3>2. {credit, busy, repricing, camera, adding} \subseteq BOOLEAN
      BY <3>1
    <3>3. nextKey \in Nat \ {0} /\ \A r \in asked : AskedRow(r)
      BY <3>1
    <3> QED
      BY <1>1, <3>1, <3>2, <3>3 DEF Screen
  <2>3. TheSale
    <3>1. nextSale = 2 /\ saleId = 1
      BY DEF Init
    <3>2. nextSale \in Nat /\ saleId < nextSale
      BY <3>1
    <3> QED
      BY <1>1, <3>2 DEF Init, TheSale
  <2>2. /\ draft \in Drafts \cup {None}
        /\ \A i \in DOMAIN sold : sold[i].saleId \in 1..MaxSales /\ sold[i].lines \in Seq(Line)
    BY DEF Init
  <2> QED
    BY <2>1, <2>2, <2>3 DEF Screen, TheSale, ScreenOK, TillTypeOK, Buyers
<1>3. Rung = {}
  BY DEF Init, Rung, RungOf, RungUp, OfPosts, OfSales
<1>4. Kept /\ KeysKept /\ SoldOnce /\ MeantIsSaid /\ TwinsWereMeant /\ RecordedIsSold
  BY <1>3 DEF Init, Kept, KeysKept, SoldOnce, MeantIsSaid, TwinsWereMeant, RecordedIsSold
<1>5. OneAtATime
  BY DEF Init, OneAtATime, AtTheServer
<1>6. RunsInOrder /\ PaymentWaitsForPrices
  BY DEF Init, RunsInOrder, Repricings, PaymentWaitsForPrices
<1>7. StandsStill /\ Priced /\ ReceiptIsTheCart
  BY DEF Init, StandsStill, Priced, ReceiptIsTheCart
<1> QED
  BY <1>2, <1>4, <1>5, <1>6, <1>7 DEF IInv

LEMMA StepInv == IInv /\ [Next]_vars => IInv'
<1> SUFFICES ASSUME IInv, [Next]_vars PROVE IInv'
  OBVIOUS
<1>1. CASE UNCHANGED vars
  <2> USE <1>1 DEF vars, cart, screen, server, counters, history
  <2>1. ScreenOK' /\ Kept'
    BY StepKeepsScreen DEF IInv
  <2>2. KeysKept' /\ SoldOnce' /\ MeantIsSaid' /\ TwinsWereMeant' /\ RecordedIsSold'
    BY DEF IInv, KeysKept, Rung, SoldOnce, MeantIsSaid, TwinsWereMeant, RecordedIsSold
  <2>3. OneAtATime' /\ RunsInOrder' /\ PaymentWaitsForPrices'
    BY DEF IInv, OneAtATime, AtTheServer, NoTwinOf, RunsInOrder, Repricings, PaymentWaitsForPrices, Tier
  <2>4. ~astray' => StandsStill' /\ Priced' /\ ReceiptIsTheCart'
    BY DEF IInv, StandsStill, Priced, AwaitsPrice, Repricings, Tier, ReceiptIsTheCart
  <2> QED
    BY <2>1, <2>2, <2>3, <2>4 DEF IInv
<1>2. CASE Next
  <2>1. ScreenOK' /\ Kept' /\ Steps
    BY <1>2, StepKeepsScreen, NextIsStep DEF IInv
  <2>2. Recorded' /\ RunsInOrder' /\ PaymentWaitsForPrices'
    BY <2>1, StepKeepsRecorded, StepKeepsRuns
  <2>3. ~astray' => Straight'
    BY <1>2, NextIsStraight, StepStaysStraight
  <2> QED
    BY <2>1, <2>2, <2>3 DEF IInv, Recorded, Straight
<1> QED
  BY <1>1, <1>2

LEMMA AlwaysInv == Spec => []IInv
  BY InitInv, StepInv, PTL DEF Spec

LEMMA NoneSoldTwice == IInv => NothingSoldTwice
<1> SUFFICES ASSUME IInv PROVE NothingSoldTwice
  OBVIOUS
<1>1. ASSUME NEW i \in DOMAIN sold, NEW j \in DOMAIN sold, i # j,
             NEW k \in DOMAIN sold[i].lines, NEW n \in DOMAIN sold[j].lines,
             sold[i].lines[k].key = sold[j].lines[n].key
      PROVE  FALSE
  <2>1. /\ <<sold[i].saleId, sold[i].lines[k].key>> \in Rung
        /\ <<sold[j].saleId, sold[j].lines[n].key>> \in Rung
    BY PartsOfRung DEF RungUp
  <2>2. sold[i].saleId = sold[j].saleId
    BY <1>1, <2>1 DEF IInv, KeysKept
  <2> QED
    BY <1>1, <2>2 DEF IInv, SoldOnce
<1> QED
  BY <1>1 DEF NothingSoldTwice, NoLineSoldTwice, IInv

LEMMA ChargedOnIt == IInv => PricedForTheBuyer
  BY DEF IInv, Priced, OnList, PricedForTheBuyer, ChargedOnTheirList

LEMMA CartOutlivesPage == IInv /\ [Next]_vars => CartComesBack
<1> SUFFICES ASSUME IInv, [Next]_vars, reloads' # reloads, completed = None, lines # <<>>
             PROVE  lines' = lines /\ saleId' = saleId /\ customer' = customer
  BY DEF CartComesBack
<1>1. Next
  BY DEF vars, counters
<1>2. CASE Work
  BY <1>2, WorkLeavesSales DEF SalesStay
<1>3. CASE TakePayment \/ ConfirmOverride \/ RecordAnyway \/ Server \/ Replies \/ StartNewSale
  BY <1>3 DEF TakePayment, ConfirmOverride, RecordAnyway, Submit, Server, AssertNotAlreadyRecorded, Record, AtServer,
    Replies, Reply, LoseReply, StartNewSale, counters
<1>4. CASE Reload
  BY <1>4, ReloadBringsBack DEF IInv, ComesBack
<1> QED
  BY <1>1, <1>2, <1>3, <1>4, NextIsStep DEF Steps

\* The screen, the draft and the sales keep their types: what TillPage holds in
\* its state, what draft.ts saves and what the server's table records.
THEOREM TillKeepsItsTypes == Spec => []TillTypeOK
  BY AlwaysInv, PTL DEF IInv, ScreenOK

\* No line rung up is recorded in two sales, and a customer's like sale only when the
\* cashier said so of it or the two were under way together: the id a cart is given
\* when it starts (TillPage's saleId) and that the draft brings back, the primary key
\* of sales, and assertNotAlreadyRecorded.
THEOREM NothingIsSoldTwice == Spec => []NothingSoldTwice
  BY AlwaysInv, NoneSoldTwice, PTL

\* "Take payment" is shut exactly while the latest re-pricing is unanswered, and a
\* line whose price nobody typed is charged on the buyer's list, however scans, unit
\* changes, customers and answers cross (repriceCart and the run it numbers), unless
\* the till was led astray.
THEOREM BuyersPayTheirPrices == Spec => []PricedForTheBuyer
  BY AlwaysInv, ChargedOnIt, PTL

\* A receipt stands over the cart that was recorded, and a cart not accepted yet comes
\* back with the page as the same sale: useKeepDraft, and restoring in TillPage.
THEOREM CartsEndWithTheirSales == Spec => CartEndsWithItsSale
<1>1. IInv /\ IInv' /\ [Next]_vars => [ReceiptIsTheCart' /\ CartComesBack]_vars
  BY CartOutlivesPage DEF IInv, ReceiptIsTheCart
<1> QED
  BY <1>1, AlwaysInv, PTL DEF Spec, CartEndsWithItsSale
-----------------------------------------------------------------------------
(* The sessions: the inductive invariant. *)

Held == [access : Access, refresh : Nat]
Asking == [at : {"idle", "sent", "waiting", "again"}, access : Access, me : BOOLEAN]
Row == [family : Nat \ {0}, issued : Nat, expires : Nat, revoked : BOOLEAN, replaced : Nat]

Shape ==
  /\ now \in 0..MaxTime /\ mints \in Nat /\ cutAt \in 0..mints
  /\ changed \in [at : Nat, mints : Nat] /\ changed.mints <= mints
  /\ oneDevice \in BOOLEAN /\ active \in BOOLEAN
  /\ overlapped \in BOOLEAN /\ crossed \in BOOLEAN /\ reused \in BOOLEAN
  /\ token \in Seq(Row) /\ jar \in [Jars -> Held] /\ call \in [Calls -> Asking]
  /\ work \in [Workers -> Job \cup {Nil}] /\ signedIn \subseteq Tabs

\* Tokens there are: in the rows, in the browsers, and in what is under way.
Rows == 1..Len(token)
RowsThere ==
  /\ \A i \in Rows : token[i].family <= i /\ token[i].replaced <= Len(token) /\ token[i].issued <= mints
  /\ \A j \in Jars : jar[j].refresh <= Len(token)
  /\ \A w \in Working : work[w].token <= Len(token) /\ work[w].made <= Len(token)

\* Access tokens there are.
MintedBy(a, m, n) == a # Nil => a.issued <= m /\ a.expires <= n + AccessLife
Minted(a) == MintedBy(a, mints, now)
AccessThere ==
  /\ \A j \in Jars : Minted(jar[j].access)
  /\ \A w \in Working : Minted(work[w].access)

\* What a request has by the step it is at.
Refreshes(w) == work[w].kind = "refresh"
Has(w) ==
  LET k == work[w] IN
  /\ k.kind = "out" => k.step \in {"read", "done"} /\ k.made = 0
  /\ k.kind = "in" => k.step # "replace" /\ k.family = 0
  /\ k.kind = "refresh" => k.step # "end"
  /\ k.kind = "refresh" /\ k.step \in {"mint", "store", "replace"} => k.token # 0 /\ token[k.token].family = k.family
  /\ k.step \in {"read", "end", "mint", "store"} => k.made = 0
  /\ k.kind # "out" /\ k.step \in {"store", "replace", "done"} => k.access # Nil
  /\ k.step = "replace" => k.made # 0 /\ token[k.made].family = k.family
JobsHave == \A w \in Working : Has(w)

\* A token is in one browser, is presented by one request, which is of that browser,
\* and when it has been replaced that request has yet to be answered.
Refreshers == {w \in Working : Refreshes(w)}
OneBrowser == \A j, k \in Jars : jar[j].refresh = jar[k].refresh /\ jar[j].refresh # 0 => j = k
OnePresents == \A v, w \in Refreshers : work[v].token = work[w].token /\ work[v].token # 0 => v = w
OfItsBrowser ==
  \A w \in Refreshers : \A j \in Jars :
    jar[j].refresh = work[w].token /\ work[w].token # 0 => j = JarOf[work[w].tab]
MadeIsNew ==
  \A w \in Working : work[w].made # 0 =>
    /\ token[work[w].made].replaced = 0
    /\ \A j \in Jars : jar[j].refresh # work[w].made
    /\ \A v \in Working : work[v].made = work[w].made => v = w
    /\ \A v \in Refreshers : work[v].token # work[w].made
ReplacedIsSpent ==
  \A i \in Rows : token[i].replaced # 0 =>
    /\ \A j \in Jars : jar[j].refresh = i =>
         \E w \in Refreshers : work[w].token = i /\ work[w].step = "done"
    /\ \A w \in Refreshers : work[w].token = i => work[w].step = "done"
Apart ==
  /\ \A w \in Refreshers : work[w].tab # Nil
  /\ OneBrowser /\ OnePresents /\ OfItsBrowser /\ MadeIsNew /\ ReplacedIsSpent

\* While requests do not overlap: one is under way, and what it read is still so.
OneWorks == \A v, w \in Working : v = w
Fresh(a) == a # Nil /\ a.issued > cutAt /\ now < a.expires
SinceOpening(a) == a # Nil => \E t \in Open : t <= now /\ a.expires = t + AccessLife
GoodAccess(a) == a.issued > cutAt /\ a.issued > changed.mints
StillSo(w) ==
  LET k == work[w] IN
  /\ k.step \in {"end", "mint", "store"} => now \in Open
  /\ k.kind # "out" /\ k.step \in {"store", "replace", "done"} => GoodAccess(k.access) /\ SinceOpening(k.access)
  /\ k.kind = "refresh" /\ k.step \in {"mint", "store", "replace"} => Live(k.token)
  /\ k.kind = "refresh" /\ k.tab # Nil => jar[JarOf[k.tab]].refresh = k.token

\* A chain's live token is its newest, but for the one about to be revoked in favour of it.
Spent == {work[w].token : w \in {v \in Working : work[v].step = "replace"}}
LiveIsNewest ==
  \A i, k \in Rows : Live(i) /\ i \notin Spent /\ token[k].family = token[i].family => k <= i

LiveIsSince == \A i \in Rows : Live(i) => token[i].issued > cutAt /\ token[i].issued > changed.mints
OldRunsOut ==
  \A j \in Jars : LET a == jar[j].access IN
    /\ a # Nil /\ a.issued <= changed.mints => a.expires <= changed.at + AccessLife
    /\ SinceOpening(a)

\* Of staff: one chain lives, and one browser has anything that is let through.
Alive(j) == Fresh(jar[j].access) \/ (jar[j].refresh # 0 /\ Live(jar[j].refresh))
OneChainLives == \A i, k \in Rows : Live(i) /\ Live(k) => token[i].family = token[k].family
OneBrowserLives == \A j, k \in Jars : Alive(j) /\ Alive(k) => j = k
LeavesOne(w) ==
  LET k == work[w] IN
  /\ k.kind = "refresh" /\ k.step \in {"mint", "store", "replace", "done"} /\ k.tab # Nil =>
       \A j \in Jars : Alive(j) => j = JarOf[k.tab]
  /\ k.kind = "in" /\ k.step \in {"mint", "store"} => \A i \in Rows : ~Live(i)
  /\ k.kind = "in" /\ k.step \in {"mint", "store", "done"} => \A j \in Jars : ~Alive(j)

\* What is so of the tokens and the browsers, whatever the requests are at.
Quietly == LiveIsNewest /\ LiveIsSince /\ OldRunsOut /\ (oneDevice => OneChainLives /\ OneBrowserLives)
Alone ==
  /\ OneWorks /\ Quietly
  /\ \A w \in Working : StillSo(w) /\ (oneDevice => LeavesOne(w))

Sound == Shape /\ RowsThere /\ AccessThere /\ JobsHave
SInv ==
  /\ Sound
  /\ reused => crossed
  /\ ~crossed => Apart
  /\ ~overlapped => Alone

-----------------------------------------------------------------------------
(* What the steps do to the rows and to the requests under way. *)

\* Rows are only added, and what a row was made with is never changed.
Grows ==
  /\ token' \in Seq(Row) /\ Len(token) <= Len(token')
  /\ \A i \in Rows : /\ token'[i].family = token[i].family /\ token'[i].issued = token[i].issued
                     /\ token'[i].expires = token[i].expires

\* Some are revoked, and no other change is made to them.
Fades ==
  /\ Grows /\ Len(token') = Len(token)
  /\ \A i \in Rows : token[i].revoked => token'[i].revoked
Revokes ==
  /\ Fades
  /\ \A i \in Rows : token'[i].replaced = token[i].replaced

\* A request goes on, and no other does.
Turns(w, q) ==
  /\ q \in Job /\ work' \in [Workers -> Job \cup {Nil}] /\ work'[w] = q
  /\ \A v \in Workers \ {w} : work'[v] = work[v]

LEMMA RowsTypes ==
  ASSUME Shape
  PROVE  /\ \A i \in Rows : token[i] \in Row
         /\ Len(token) \in Nat /\ DOMAIN token = Rows
<1>. token \in Seq(Row)
  BY DEF Shape
<1>. QED
  BY ElementOfSeq, LenProperties DEF Rows

LEMMA NothingRevokes ==
  ASSUME Shape, token' = token
  PROVE  Revokes
BY RowsTypes DEF Shape, Revokes, Fades, Grows

LEMMA RevokedRevokes ==
  ASSUME Shape, NEW S, token' = Revoked(S)
  PROVE  Revokes /\ \A i \in Rows : i \in S => token'[i].revoked
<1>. token \in Seq(Row) /\ DOMAIN token = Rows /\ Len(token) \in Nat
  BY RowsTypes DEF Shape
<1>1. ASSUME NEW i \in Rows
      PROVE  /\ token'[i] = IF i \in S THEN [token[i] EXCEPT !.revoked = TRUE] ELSE token[i]
             /\ token'[i] \in Row /\ token'[i].replaced = token[i].replaced
             /\ token'[i].family = token[i].family /\ token'[i].issued = token[i].issued
             /\ token'[i].expires = token[i].expires
             /\ token[i].revoked => token'[i].revoked
             /\ i \in S => token'[i].revoked
  <2>1. token'[i] = IF i \in S THEN [token[i] EXCEPT !.revoked = TRUE] ELSE token[i]
    BY DEF Revoked
  <2>2. token[i] \in Row
    BY RowsTypes
  <2>. QED
    BY <2>1, <2>2 DEF Row
<1>2. DOMAIN token' = Rows
  BY DEF Revoked
<1>3. token' \in [1..Len(token) -> Row]
  <2>1. token' = [i \in Rows |-> token'[i]]
    BY DEF Revoked
  <2>. QED
    BY <1>1, <2>1 DEF Rows
<1>4. token' \in Seq(Row) /\ Len(token') = Len(token)
  BY <1>3
<1>5. Grows
  <2>1. \A i \in Rows : /\ token'[i].family = token[i].family /\ token'[i].issued = token[i].issued
                        /\ token'[i].expires = token[i].expires
    BY <1>1
  <2>2. token' \in Seq(Row) /\ Len(token) <= Len(token')
    BY <1>4
  <2>. QED
    BY <2>1, <2>2 DEF Grows
<1>. QED
  BY <1>1, <1>4, <1>5 DEF Revokes, Fades

LEMMA SameWork ==
  ASSUME Shape, work' = work
  PROVE  Working' = Working /\ \A v \in Workers : work'[v] = work[v]
BY DEF Working

LEMMA TurnsWorking ==
  ASSUME Shape, NEW w \in Workers, NEW q, Turns(w, q)
  PROVE  Working' = Working \cup {w}
<1>. q # Nil
  BY NilAssumption DEF Turns
<1>. QED
  BY DEF Turns, Working

LEMMA WorkingTypes ==
  ASSUME Shape, NEW w \in Working
  PROVE  w \in Workers /\ work[w] \in Job
BY DEF Shape, Working

-----------------------------------------------------------------------------
(* Each step's request, one step on. *)

Reading(w) ==
  LET row == Presented(w)
      good == row # Nil /\ Renewable(row)
  IN  [work[w] EXCEPT !.step = IF good THEN "mint" ELSE "refused", !.family = IF good THEN row.family ELSE 0]
Signing(w) ==
  [work[w] EXCEPT !.step = IF active /\ now \in Open THEN IF oneDevice THEN "end" ELSE "mint" ELSE "refused"]
Minting(w) == [work[w] EXCEPT !.step = "store", !.access = [issued |-> mints + 1, expires |-> now + AccessLife]]
Storing(w) == [work[w] EXCEPT !.step = IF work[w].kind = "refresh" THEN "replace" ELSE "done", !.made = Len(token) + 1]

LEMMA WorkTurns ==
  ASSUME Shape, NEW w \in Workers, NEW q \in Job, work' = [work EXCEPT ![w] = q]
  PROVE  Turns(w, q)
BY DEF Shape, Turns

LEMMA ReadTurns ==
  ASSUME Shape, RowsThere, NEW w \in Workers, ReadToRotate(w)
  PROVE  Turns(w, Reading(w))
<1>. w \in Working /\ work[w] \in Job
  BY WorkingTypes DEF ReadToRotate, Working
<1>1. Presented(w) # Nil => Presented(w).family \in Nat
  <2>1. CASE work[w].token = 0
    BY <2>1 DEF Presented
  <2>2. CASE work[w].token # 0
    <3>1. work[w].token \in Rows
      BY <2>2, RowsTypes DEF RowsThere, Rows, Job
    <3>. QED
      BY <2>2, <3>1, RowsTypes DEF Presented, Row
  <2>. QED
    BY <2>1, <2>2
<1>2. Reading(w) \in Job
  BY <1>1 DEF Reading, Job
<1>. QED
  BY <1>2 DEF ReadToRotate, Shape, Turns, Reading

LEMMA SignTurns ==
  ASSUME Shape, NEW w \in Workers, ReadToSignIn(w)
  PROVE  Turns(w, Signing(w))
<1>. work[w] \in Job
  BY WorkingTypes DEF ReadToSignIn, Working
<1>1. Signing(w) \in Job
  BY DEF Signing, Job
<1>. QED
  BY <1>1, WorkTurns DEF ReadToSignIn, Signing

LEMMA MintTurns ==
  ASSUME Shape, NEW w \in Workers, Mint(w)
  PROVE  Turns(w, Minting(w))
<1>. work[w] \in Job
  BY WorkingTypes DEF Mint, Working
<1>1. [issued |-> mints + 1, expires |-> now + AccessLife] \in Access
  BY SessionsAssumption DEF Shape, Access
<1>2. Minting(w) \in Job
  BY <1>1 DEF Minting, Job
<1>. QED
  BY <1>2, WorkTurns DEF Mint, Minting

LEMMA StoreTurns ==
  ASSUME Shape, NEW w \in Workers, Store(w)
  PROVE  Turns(w, Storing(w))
<1>. work[w] \in Job
  BY WorkingTypes DEF Store, Working
<1>1. Storing(w) \in Job
  <2>. DEFINE i == Len(token) + 1
  <2>. i \in Nat
    BY RowsTypes
  <2>. HIDE DEF i
  <2>1. /\ [work[w] EXCEPT !.step = "replace", !.made = i] \in Job
        /\ [work[w] EXCEPT !.step = "done", !.made = i] \in Job
    BY DEF Job
  <2>2. \/ Storing(w) = [work[w] EXCEPT !.step = "replace", !.made = i]
        \/ Storing(w) = [work[w] EXCEPT !.step = "done", !.made = i]
    BY DEF Storing, i
  <2>. QED
    BY <2>1, <2>2
<1>. QED
  BY <1>1, WorkTurns DEF Store, Storing

\* A step that says no more of its request than the step it is at.
At(w, s) == [work[w] EXCEPT !.step = s]

LEMMA AtTurns ==
  ASSUME Shape, NEW w \in Working,
         NEW s \in {"read", "end", "mint", "store", "replace", "done", "refused"},
         work' = [work EXCEPT ![w].step = s]
  PROVE  Turns(w, At(w, s))
<1>. w \in Workers /\ work[w] \in Job
  BY WorkingTypes
<1>1. At(w, s) \in Job
  BY DEF At, Job
<1>. QED
  BY <1>1, WorkTurns DEF At

LEMMA AwayTurns ==
  ASSUME Shape, NEW w \in Working, work' = [work EXCEPT ![w].tab = Nil]
  PROVE  Turns(w, [work[w] EXCEPT !.tab = Nil])
<1>. w \in Workers /\ work[w] \in Job
  BY WorkingTypes
<1>1. [work[w] EXCEPT !.tab = Nil] \in Job
  BY DEF Job
<1>. QED
  BY <1>1, WorkTurns

\* A request is taken up, which is no step of one under way.
LEMMA AskedIsJob ==
  ASSUME Shape, NEW t \in Tabs, NEW kind \in {"in", "out", "refresh"}
  PROVE  Asked(t, kind) \in Job
<1>1. jar[JarOf[t]].refresh \in Nat
  BY SessionsAssumption DEF Shape, Held
<1>2. Nil \in Access
  BY DEF Access
<1>. QED
  BY <1>1, <1>2 DEF Asked, Job

-----------------------------------------------------------------------------
(* The newest of a chain is one of it. *)

LEMMA NewestOfChain ==
  ASSUME Shape, NEW f, Family(f) # {}
  PROVE  Newest(f) \in Rows /\ Newest(f) \in Family(f)
<1>. DEFINE Before == {Len(token) - i : i \in Family(f)}
<1>. Len(token) \in Nat /\ DOMAIN token = Rows
  BY RowsTypes
<1>1. Family(f) \subseteq Rows
  BY DEF Family
<1>2. Before \subseteq Nat /\ Before # {}
  BY <1>1 DEF Rows
<1>3. PICK m \in Before : \A n \in Before : m <= n
  <2>1. PICK m \in Before : \A n \in Before : <<n, m>> \notin OpToRel(<, Nat)
    BY <1>2, NatLessThanWellFounded, WFMin
  <2>2. \A n \in Before : ~(n < m)
    BY <1>2, <2>1 DEF OpToRel
  <2>3. m \in Nat /\ \A n \in Before : n \in Nat
    BY <1>2
  <2>. HIDE DEF Before
  <2>. QED
    BY <2>2, <2>3
<1>4. PICK i \in Family(f) : m = Len(token) - i
  OBVIOUS
<1>5. ASSUME NEW k \in Family(f)
      PROVE  k <= i
  <2>1. Len(token) - i <= Len(token) - k
    BY <1>3, <1>4
  <2>2. i \in Nat /\ k \in Nat
    BY <1>1, <1>4 DEF Rows
  <2>. QED
    BY <2>1, <2>2
<1>6. Newest(f) \in Family(f)
  BY <1>5 DEF Newest
<1>. QED
  BY <1>1, <1>6

-----------------------------------------------------------------------------
(* A step of a request keeps the rows, the tokens and the requests in order. *)

HasSo(k, rows) ==
  /\ k.kind = "out" => k.step \in {"read", "done"} /\ k.made = 0
  /\ k.kind = "in" => k.step # "replace" /\ k.family = 0
  /\ k.kind = "refresh" => k.step # "end"
  /\ k.kind = "refresh" /\ k.step \in {"mint", "store", "replace"} => k.token # 0 /\ rows[k.token].family = k.family
  /\ k.step \in {"read", "end", "mint", "store"} => k.made = 0
  /\ k.kind # "out" /\ k.step \in {"store", "replace", "done"} => k.access # Nil
  /\ k.step = "replace" => k.made # 0 /\ rows[k.made].family = k.family

Passes == now \in Nat /\ now' \in Nat /\ now <= now' /\ mints \in Nat /\ mints' \in Nat /\ mints <= mints'
RowsGood ==
  \A i \in Rows : token[i].family <= i /\ token[i].replaced <= Len(token) /\ token[i].issued <= mints
Good(k) == k.token <= Len(token) /\ k.made <= Len(token) /\ Minted(k.access) /\ HasSo(k, token)

LEMMA GoodWork ==
  ASSUME Sound, NEW w \in Working
  PROVE  Good(work[w])
BY DEF Sound, RowsThere, AccessThere, JobsHave, Has, HasSo, Good

LEMMA GoodStays ==
  ASSUME Shape, Grows, Passes, NEW k \in Job, Good(k)
  PROVE  Good(k)'
<1>. Len(token) \in Nat /\ Len(token') \in Nat
  BY RowsTypes, LenProperties DEF Grows
<1>1. k.token <= Len(token') /\ k.made <= Len(token')
  BY DEF Good, Grows, Job
<1>2. Minted(k.access)'
  <2>1. k.access # Nil => k.access.issued \in Nat /\ k.access.expires \in Nat
    BY DEF Job, Access
  <2>2. AccessLife \in Nat
    BY SessionsAssumption
  <2>. QED
    BY <2>1, <2>2, SMTT(60) DEF Good, Minted, MintedBy, Passes
<1>3. HasSo(k, token')
  <2>1. k.token # 0 => token'[k.token].family = token[k.token].family
    BY DEF Good, Grows, Rows, Job
  <2>2. k.made # 0 => token'[k.made].family = token[k.made].family
    BY DEF Good, Grows, Rows, Job
  <2>. QED
    BY <2>1, <2>2 DEF Good, HasSo
<1>. QED
  BY <1>1, <1>2, <1>3 DEF Good

\* Enough for what is there to be in order after a step.
LEMMA InOrder ==
  ASSUME RowsGood, \A w \in Working : Good(work[w]),
         \A j \in Jars : jar[j].refresh <= Len(token) /\ Minted(jar[j].access)
  PROVE  RowsThere /\ AccessThere /\ JobsHave
BY DEF RowsGood, Good, RowsThere, AccessThere, JobsHave, Has, HasSo

LEMMA JarsStay ==
  ASSUME Sound, Grows, Passes, NEW j \in Jars
  PROVE  jar[j].refresh <= Len(token') /\ MintedBy(jar[j].access, mints', now')
<1>. Len(token) \in Nat /\ Len(token') \in Nat
  BY RowsTypes, LenProperties DEF Sound, Grows
<1>1. jar[j].refresh \in Nat /\ jar[j].access \in Access
  BY DEF Sound, Shape, Held
<1>2. jar[j].refresh <= Len(token')
  BY <1>1 DEF Sound, RowsThere, Grows
<1>3. MintedBy(jar[j].access, mints', now')
  <2>1. jar[j].access # Nil => jar[j].access.issued \in Nat /\ jar[j].access.expires \in Nat
    BY <1>1 DEF Access
  <2>2. MintedBy(jar[j].access, mints, now) /\ AccessLife \in Nat
    BY SessionsAssumption DEF Sound, AccessThere, Minted
  <2>. QED
    BY <2>1, <2>2, SMTT(60) DEF MintedBy, Passes
<1>. QED
  BY <1>2, <1>3

LEMMA RowsGoodStays ==
  ASSUME Sound, Revokes, Passes
  PROVE  RowsGood'
<1>. Len(token) \in Nat /\ \A i \in Rows : token[i] \in Row
  BY RowsTypes DEF Sound
<1>1. RowsGood
  BY DEF Sound, RowsThere, RowsGood
<1>2. Rows' = Rows
  BY DEF Revokes, Fades, Rows
<1>3. ASSUME NEW i \in Rows
      PROVE  token'[i].family <= i /\ token'[i].replaced <= Len(token') /\ token'[i].issued <= mints'
  <2>1. token'[i].family = token[i].family /\ token'[i].issued = token[i].issued /\ token'[i].replaced = token[i].replaced
    BY DEF Revokes, Fades, Grows
  <2>2. token[i].family <= i /\ token[i].replaced <= Len(token) /\ token[i].issued <= mints
    BY <1>1 DEF RowsGood
  <2>3. token[i].issued \in Nat /\ mints \in Nat /\ mints' \in Nat /\ mints <= mints'
    BY DEF Row, Passes
  <2>4. Len(token') = Len(token)
    BY DEF Revokes, Fades
  <2>. QED
    BY <2>1, <2>2, <2>3, <2>4
<1>. QED
  BY <1>2, <1>3 DEF RowsGood

JarsGood == \A j \in Jars : jar[j].refresh <= Len(token) /\ Minted(jar[j].access)

LEMMA JarsGoodStay ==
  ASSUME Sound, Grows, Passes, jar' = jar
  PROVE  JarsGood'
BY JarsStay DEF JarsGood, Minted

LEMMA TurnInOrder ==
  ASSUME Sound, Grows, Passes, RowsGood', jar' = jar,
         NEW w \in Working, NEW q, Turns(w, q), Good(q)'
  PROVE  RowsThere' /\ AccessThere' /\ JobsHave'
<1>. Shape
  BY DEF Sound
<1>1. Working' = Working
  BY WorkingTypes, TurnsWorking
<1>2. ASSUME NEW v \in Working'
      PROVE  Good(work[v])'
  <2>1. CASE v = w
    BY <2>1 DEF Turns, Good
  <2>2. CASE v # w
    <3>1. work'[v] = work[v]
      BY <2>2, <1>1, WorkingTypes DEF Turns
    <3>2. work[v] \in Job /\ Good(work[v])
      BY <1>1, GoodWork, WorkingTypes
    <3>3. PICK k \in Job : k = work[v] /\ Good(k)
      BY <3>2
    <3>4. Good(k)'
      BY <3>3, GoodStays
    <3>5. work'[v] = k
      BY <3>1, <3>3
    <3>. QED
      BY <3>4, <3>5 DEF Good
  <2>. QED
    BY <2>1, <2>2
<1>3. JarsGood'
  BY JarsGoodStay
<1>. QED
  BY <1>2, <1>3 DEF JarsGood, RowsGood, Good, RowsThere, AccessThere, JobsHave, Has, HasSo

LEMMA LessInOrder ==
  ASSUME Sound, Grows, Passes, RowsGood', JarsGood',
         \A v \in Working' : v \in Working /\ work'[v] = work[v]
  PROVE  RowsThere' /\ AccessThere' /\ JobsHave'
<1>. Shape
  BY DEF Sound
<1>1. ASSUME NEW v \in Working'
      PROVE  Good(work[v])'
  <2>1. work'[v] = work[v] /\ work[v] \in Job /\ Good(work[v])
    BY GoodWork, WorkingTypes
  <2>2. PICK k \in Job : k = work[v] /\ Good(k)
    BY <2>1
  <2>3. Good(k)'
    BY <2>2, GoodStays
  <2>4. work'[v] = k
    BY <2>1, <2>2
  <2>. QED
    BY <2>3, <2>4 DEF Good
<1>. QED
  BY <1>1 DEF JarsGood, RowsGood, Good, RowsThere, AccessThere, JobsHave, Has, HasSo

LEMMA Overlaps ==
  ASSUME Shape, NEW w, Meanwhile \/ Alongside(w) \/ overlapped' = overlapped
  PROVE  overlapped' \in BOOLEAN
<1>. overlapped \in BOOLEAN
  BY DEF Shape
<1>1. CASE Meanwhile
  BY <1>1 DEF Meanwhile
<1>2. CASE Alongside(w)
  BY <1>2 DEF Alongside
<1>. QED
  BY <1>1, <1>2

\* Steps that only calls take.
Quiet ==
  /\ UNCHANGED <<now, mints, oneDevice, token, cutAt, active, jar, work, changed, overlapped, reused>>
  /\ crossed' \in BOOLEAN /\ (crossed => crossed')
  /\ call' \in [Calls -> Asking] /\ signedIn' \subseteq Tabs

\* A request of a tab is taken up.
Takes(w, t, kind) ==
  /\ w \in Workers \ Working /\ t \in Tabs /\ kind \in {"in", "out", "refresh"}
  /\ work' = [work EXCEPT ![w] = Asked(t, kind)] /\ Meanwhile
  /\ UNCHANGED <<now, mints, oneDevice, token, cutAt, active, jar, changed, reused>>
  /\ crossed' \in BOOLEAN /\ (crossed => crossed')
  /\ kind = "refresh" /\ ~crossed' =>
       \A v \in Working : work[v].kind = "refresh" => work[v].token # jar[JarOf[t]].refresh
  /\ call' \in [Calls -> Asking] /\ signedIn' \subseteq Tabs

LEMMA CallTypes ==
  ASSUME Shape, NEW c \in Calls
  PROVE  /\ call[c] \in Asking /\ TabOf[c] \in Tabs /\ JarOf[TabOf[c]] \in Jars
         /\ jar[JarOf[TabOf[c]]].access \in Access /\ Idle \in Asking
<1>1. Nil \in Access
  BY DEF Access
<1>. QED
  BY <1>1, SessionsAssumption DEF Shape, Held, Asking, Idle

LEMMA SendIsQuiet ==
  ASSUME Shape, NEW c \in Calls, Send(c)
  PROVE  Quiet
<1>. DEFINE s == [at |-> "sent", access |-> jar[JarOf[TabOf[c]]].access, me |-> TabOf[c] \notin signedIn]
<1>1. s \in Asking
  <2>1. (TabOf[c] \notin signedIn) \in BOOLEAN
    OBVIOUS
  <2>2. jar[JarOf[TabOf[c]]].access \in Access
    BY CallTypes
  <2>. QED
    BY <2>1, <2>2 DEF Asking
<1>2. call' = [call EXCEPT ![c] = s]
  BY DEF Send
<1>. HIDE DEF s
<1>3. call' \in [Calls -> Asking]
  BY <1>1, <1>2 DEF Shape
<1>. QED
  BY <1>3 DEF Send, Quiet, Shape

LEMMA ServeIsQuiet ==
  ASSUME Shape, NEW c \in Calls, Serve(c)
  PROVE  Quiet
<1>1. call' \in [Calls -> Asking] /\ signedIn' \subseteq Tabs
  BY CallTypes DEF Serve, Shape
<1>. QED
  BY <1>1 DEF Serve, Quiet, Shape

LEMMA StillUnauthorizedIsQuiet ==
  ASSUME Shape, NEW c \in Calls, StillUnauthorized(c)
  PROVE  Quiet
<1>1. call' \in [Calls -> Asking]
  BY CallTypes DEF StillUnauthorized, Shape
<1>. QED
  BY <1>1 DEF StillUnauthorized, Quiet, Shape

LEMMA UnauthorizedAsks ==
  ASSUME Shape, NEW c \in Calls, Unauthorized(c)
  PROVE  Quiet \/ \E w \in Workers : Takes(w, TabOf[c], "refresh")
<1>. DEFINE t == TabOf[c]
            others == \E w \in Working : work[w].kind = "refresh" /\ work[w].tab # t
                                            /\ work[w].token = jar[JarOf[t]].refresh
<1>1. call' \in [Calls -> Asking]
  <2>1. [call[c] EXCEPT !.at = "waiting"] \in Asking
    BY CallTypes DEF Asking
  <2>2. call' = [call EXCEPT ![c] = [call[c] EXCEPT !.at = "waiting"]]
    BY DEF Unauthorized
  <2>. QED
    BY <2>1, <2>2 DEF Shape
<1>2. crossed' = (crossed \/ others)
  BY DEF Unauthorized
<1>3. crossed' \in BOOLEAN /\ (crossed => crossed') /\ (~crossed' => ~others)
  BY <1>2 DEF Shape
<1>4. /\ UNCHANGED <<now, mints, oneDevice, token, cutAt, active, jar, changed, reused>>
      /\ signedIn' \subseteq Tabs /\ RefreshShared(t)
  BY DEF Unauthorized, Shape
<1>. HIDE DEF others
<1>5. CASE Refreshing(t)
  BY <1>1, <1>3, <1>4, <1>5 DEF RefreshShared, Quiet
<1>6. CASE ~Refreshing(t)
  <2>1. PICK w \in Workers \ Working : work' = [work EXCEPT ![w] = Asked(t, "refresh")] /\ Meanwhile
    BY <1>4, <1>6 DEF RefreshShared
  <2>2. ~crossed' => \A v \in Working : work[v].kind = "refresh" => work[v].token # jar[JarOf[t]].refresh
    <3>1. \A v \in Working : work[v].kind = "refresh" => work[v].tab # t
      BY <1>6 DEF Refreshing, WorkOf
    <3>. QED
      BY <1>3, <3>1 DEF others
  <2>3. t \in Tabs
    BY CallTypes
  <2>. QED
    BY <1>1, <1>3, <1>4, <2>1, <2>2, <2>3 DEF Takes
<1>. QED
  BY <1>5, <1>6

LEMMA AskingToSignAsks ==
  ASSUME Shape, NEW t \in Tabs, NEW kind \in {"in", "out"}, AskToSign(t, kind)
  PROVE  \E w \in Workers : Takes(w, t, kind)
BY DEF AskToSign, Takes, Shape

LEMMA QuietSound ==
  ASSUME Sound, Quiet
  PROVE  Sound'
<1>. Shape
  BY DEF Sound
<1>1. Revokes /\ Passes
  BY NothingRevokes DEF Quiet, Passes, Shape
<1>2. RowsGood' /\ JarsGood'
  BY <1>1, RowsGoodStays, JarsGoodStay DEF Revokes, Fades, Quiet
<1>3. \A v \in Working' : v \in Working /\ work'[v] = work[v]
  BY DEF Quiet, Working
<1>4. RowsThere' /\ AccessThere' /\ JobsHave'
  BY <1>1, <1>2, <1>3, LessInOrder DEF Revokes, Fades
<1>5. Shape'
  BY DEF Quiet, Shape
<1>. QED
  BY <1>4, <1>5 DEF Sound

LEMMA TakesWork ==
  ASSUME Shape, NEW w, NEW t, NEW kind, Takes(w, t, kind)
  PROVE  /\ w \in Workers /\ w \notin Working
         /\ work' \in [Workers -> Job \cup {Nil}] /\ Working' = Working \cup {w}
         /\ work'[w] = Asked(t, kind) /\ \A v \in Working : work'[v] = work[v]
         /\ Asked(t, kind) \in Job
<1>1. w \in Workers /\ w \notin Working /\ Asked(t, kind) \in Job
  BY AskedIsJob DEF Takes
<1>2. /\ work' \in [Workers -> Job \cup {Nil}] /\ work'[w] = Asked(t, kind)
      /\ \A v \in Workers \ {w} : work'[v] = work[v]
  BY <1>1 DEF Takes, Shape
<1>3. Asked(t, kind) # Nil
  BY <1>1, NilAssumption
<1>. QED
  BY <1>1, <1>2, <1>3 DEF Working

LEMMA TakesSound ==
  ASSUME Sound, NEW w, NEW t, NEW kind, Takes(w, t, kind)
  PROVE  Sound'
<1>. Shape
  BY DEF Sound
<1>1. Revokes /\ Passes
  BY NothingRevokes DEF Takes, Passes, Shape
<1>2. RowsGood' /\ JarsGood'
  BY <1>1, RowsGoodStays, JarsGoodStay DEF Revokes, Fades, Takes
<1>3. ASSUME NEW v \in Working'
      PROVE  Good(work[v])'
  <2>1. CASE v = w
    <3>1. work'[v] = Asked(t, kind)
      BY <2>1, TakesWork
    <3>2. /\ work'[v].kind = kind /\ work'[v].step = "read" /\ work'[v].made = 0 /\ work'[v].family = 0
          /\ work'[v].token = jar[JarOf[t]].refresh /\ work'[v].access = Nil
      BY <3>1 DEF Asked
    <3>3. work'[v].token <= Len(token') /\ work'[v].made <= Len(token')
      <4>1. JarOf[t] \in Jars /\ Len(token) \in Nat /\ Len(token') = Len(token)
        BY SessionsAssumption, RowsTypes DEF Takes
      <4>. QED
        BY <3>2, <4>1 DEF Sound, RowsThere
    <3>. QED
      BY <3>2, <3>3 DEF Takes, Good, HasSo, Minted, MintedBy
  <2>2. CASE v # w
    <3>1. v \in Working /\ work'[v] = work[v]
      BY <2>2, TakesWork
    <3>2. PICK k \in Job : k = work[v] /\ Good(k)
      BY <3>1, GoodWork, WorkingTypes
    <3>3. Good(k)'
      BY <1>1, <3>2, GoodStays DEF Revokes, Fades
    <3>. QED
      BY <3>1, <3>2, <3>3 DEF Good
  <2>. QED
    BY <2>1, <2>2
<1>4. RowsThere' /\ AccessThere' /\ JobsHave'
  BY <1>2, <1>3 DEF JarsGood, RowsGood, Good, RowsThere, AccessThere, JobsHave, Has, HasSo
<1>5. Shape'
  <2>1. overlapped' \in BOOLEAN
    BY Overlaps DEF Takes
  <2>2. work' \in [Workers -> Job \cup {Nil}]
    BY TakesWork
  <2>. QED
    BY <2>1, <2>2 DEF Takes, Shape
<1>. QED
  BY <1>4, <1>5 DEF Sound

-----------------------------------------------------------------------------
(* The answers. *)

LEMMA ResumeTypes ==
  ASSUME Shape, NEW w \in Working, NEW ok \in BOOLEAN, Resume(w, ok)
  PROVE  call' \in [Calls -> Asking]
<1>1. work[w].access \in Access
  BY WorkingTypes DEF Job
<1>2. ASSUME NEW c \in Calls
      PROVE  [call[c] EXCEPT !.at = "again", !.access = work[w].access] \in Asking /\ call[c] \in Asking /\ Idle \in Asking
  BY <1>1, CallTypes DEF Asking
<1>. QED
  BY <1>2 DEF Resume

\* The tab has heard, and the request is over.
Over(w) == w \in Working /\ work' = [work EXCEPT ![w] = Nil]

LEMMA EndsWork ==
  ASSUME Shape, NEW w, Over(w)
  PROVE  /\ work' \in [Workers -> Job \cup {Nil}] /\ Working' = Working \ {w}
         /\ \A v \in Working' : v \in Working /\ work'[v] = work[v]
<1>1. w \in Workers
  BY DEF Over, Working
<1>2. work' \in [Workers -> Job \cup {Nil}] /\ work'[w] = Nil /\ \A v \in Workers \ {w} : work'[v] = work[v]
  BY <1>1 DEF Over, Shape
<1>. QED
  BY <1>1, <1>2 DEF Working

Cookies(w) ==
  IF work[w].kind = "out" THEN NoCookies ELSE [access |-> work[w].access, refresh |-> work[w].made]

LEMMA HearJar ==
  ASSUME Shape, NEW w \in Workers, Hear(w)
  PROVE  LET J == JarOf[work[w].tab] IN
         /\ w \in Working /\ Over(w) /\ J \in Jars /\ work[w].tab \in Tabs
         /\ work[w].step \in {"done", "refused"}
         /\ \A j \in Jars \ {J} : jar'[j] = jar[j]
         /\ work[w].step = "done" => jar'[J] = Cookies(w)
         /\ work[w].step # "done" => jar' = jar
         /\ Cookies(w) \in Held /\ jar' \in [Jars -> Held]
<1>. DEFINE J == JarOf[work[w].tab]
<1>1. w \in Working /\ Over(w) /\ work[w].step \in {"done", "refused"} /\ work[w].tab # Nil
  BY DEF Hear, Working, Over
<1>2. work[w] \in Job
  BY <1>1, WorkingTypes
<1>3. work[w].tab \in Tabs /\ J \in Jars
  BY <1>1, <1>2, SessionsAssumption DEF Job
<1>4. Cookies(w) \in Held
  <2>1. Nil \in Access
    BY DEF Access
  <2>. QED
    BY <1>2, <2>1 DEF Cookies, NoCookies, Held, Job
<1>5. jar' = [jar EXCEPT ![J] = IF work[w].step = "done" THEN Cookies(w) ELSE @]
  BY DEF Hear, Cookies
<1>6. jar \in [Jars -> Held]
  BY DEF Shape
<1>. HIDE DEF J
<1>7. CASE work[w].step = "done"
  BY <1>1, <1>3, <1>4, <1>5, <1>6, <1>7 DEF J
<1>8. CASE work[w].step # "done"
  BY <1>1, <1>3, <1>4, <1>5, <1>6, <1>8 DEF J
<1>. QED
  BY <1>7, <1>8

LEMMA HearSound ==
  ASSUME Sound, NEW w \in Workers, Hear(w)
  PROVE  Sound'
<1>. Shape
  BY DEF Sound
<1>1. Revokes /\ Passes
  BY NothingRevokes DEF Hear, Passes, Shape
<1>2. RowsGood'
  BY <1>1, RowsGoodStays
<1>3. ASSUME NEW j \in Jars
      PROVE  jar'[j].refresh <= Len(token') /\ MintedBy(jar'[j].access, mints', now')
  <2>1. CASE jar'[j] = jar[j]
    BY <1>1, <2>1, JarsStay DEF Revokes, Fades
  <2>2. CASE jar'[j] = Cookies(w)
    <3>1. mints' = mints /\ now' = now /\ token' = token /\ w \in Working /\ Len(token) \in Nat
      BY HearJar, RowsTypes DEF Hear
    <3>2. Good(work[w])
      BY <3>1, GoodWork
    <3>3. CASE work[w].kind = "out"
      BY <2>2, <3>1, <3>3 DEF Cookies, NoCookies, MintedBy
    <3>4. CASE work[w].kind # "out"
      BY <2>2, <3>1, <3>2, <3>4 DEF Cookies, MintedBy, Minted, Good
    <3>. QED
      BY <3>3, <3>4
  <2>. QED
    BY <2>1, <2>2, HearJar
<1>4. JarsGood'
  BY <1>3 DEF JarsGood, Minted
<1>5. RowsThere' /\ AccessThere' /\ JobsHave'
  BY <1>1, <1>2, <1>4, HearJar, EndsWork, LessInOrder DEF Revokes, Fades
<1>6. Shape'
  <2>1. work' \in [Workers -> Job \cup {Nil}] /\ jar' \in [Jars -> Held] /\ work[w].tab \in Tabs /\ w \in Working
    BY HearJar, EndsWork
  <2>2. call' \in [Calls -> Asking]
    <3>1. (work[w].step = "done") \in BOOLEAN /\ Resume(w, work[w].step = "done")
      BY DEF Hear
    <3>. QED
      BY <2>1, <3>1, ResumeTypes
  <2>3. signedIn' \subseteq Tabs
    BY <2>1 DEF Hear, Shape
  <2>. QED
    BY <2>1, <2>2, <2>3 DEF Hear, Shape
<1>. QED
  BY <1>5, <1>6 DEF Sound

LEMMA UnheardSound ==
  ASSUME Sound, NEW w \in Workers, Unheard(w)
  PROVE  Sound'
<1>. Shape
  BY DEF Sound
<1>1. Revokes /\ Passes /\ Over(w)
  BY NothingRevokes DEF Unheard, Passes, Shape, Over, Working
<1>2. RowsGood' /\ JarsGood'
  BY <1>1, RowsGoodStays, JarsGoodStay DEF Revokes, Fades, Unheard
<1>3. RowsThere' /\ AccessThere' /\ JobsHave'
  BY <1>1, <1>2, EndsWork, LessInOrder DEF Revokes, Fades
<1>4. Shape'
  BY <1>1, EndsWork DEF Unheard, Shape
<1>. QED
  BY <1>3, <1>4 DEF Sound

Away(w) == [work[w] EXCEPT !.tab = Nil]

LEMMA GiveUpTurns ==
  ASSUME Shape, NEW w \in Workers, GiveUp(w)
  PROVE  /\ w \in Working /\ Turns(w, Away(w)) /\ Away(w) \in Job
         /\ Away(w).tab = Nil /\ Away(w).kind = work[w].kind /\ Away(w).step = work[w].step
         /\ Away(w).token = work[w].token /\ Away(w).family = work[w].family
         /\ Away(w).access = work[w].access /\ Away(w).made = work[w].made
<1>1. w \in Working /\ work[w] \in Job /\ work' = [work EXCEPT ![w].tab = Nil]
  BY WorkingTypes DEF GiveUp, Working
<1>2. Turns(w, Away(w))
  BY <1>1, AwayTurns DEF Away
<1>. QED
  BY <1>1, <1>2 DEF Away, Turns, Job

LEMMA GiveUpSound ==
  ASSUME Sound, NEW w \in Workers, GiveUp(w)
  PROVE  Sound'
<1>. Shape
  BY DEF Sound
<1>1. Revokes /\ Passes
  BY NothingRevokes DEF GiveUp, Passes, Shape
<1>2. RowsGood'
  BY <1>1, RowsGoodStays
<1>3. PICK q \in Job : q = Away(w)
  BY GiveUpTurns
<1>4. Good(q)'
  <2>1. Good(q)
    BY <1>3, GiveUpTurns, GoodWork DEF Good, HasSo
  <2>. QED
    BY <1>1, <2>1, GoodStays DEF Revokes, Fades
<1>5. w \in Working /\ Turns(w, q)
  BY <1>3, GiveUpTurns
<1>6. RowsThere' /\ AccessThere' /\ JobsHave'
  BY <1>1, <1>2, <1>4, <1>5, TurnInOrder DEF Revokes, Fades, GiveUp
<1>7. Shape'
  <2>1. crossed' = (crossed \/ work[w].kind = "refresh")
    BY DEF GiveUp
  <2>2. crossed' \in BOOLEAN
    BY <2>1 DEF Shape
  <2>3. call' \in [Calls -> Asking]
    BY <1>5, ResumeTypes DEF GiveUp
  <2>. QED
    BY <1>5, <2>2, <2>3 DEF GiveUp, Shape, Turns
<1>. QED
  BY <1>6, <1>7 DEF Sound

-----------------------------------------------------------------------------
(* The steps of the server. *)

\* What becomes of a request that only goes from one step to another.
Same(q, k) ==
  q.kind = k.kind /\ q.tab = k.tab /\ q.token = k.token /\ q.made = k.made

LEMMA ReadFields ==
  ASSUME Sound, NEW w \in Workers, ReadToRotate(w)
  PROVE  LET k == work[w] IN
         /\ w \in Working /\ k.kind = "refresh" /\ k.step = "read"
         /\ Same(Reading(w), k) /\ Reading(w).access = k.access
         /\ Reading(w).step \in {"mint", "refused"}
         /\ Reading(w).step = "mint" =>
              /\ k.token \in Rows /\ Renewable(token[k.token]) /\ Reading(w).family = token[k.token].family
<1>. DEFINE row == Presented(w)
            good == row # Nil /\ Renewable(row)
<1>. Shape /\ RowsThere
  BY DEF Sound
<1>1. w \in Working /\ work[w] \in Job /\ work[w].kind = "refresh" /\ work[w].step = "read"
  BY WorkingTypes DEF ReadToRotate, Working
<1>2. good => work[w].token \in Rows /\ row = token[work[w].token]
  <2>1. CASE work[w].token = 0
    BY <2>1 DEF Presented
  <2>2. CASE work[w].token # 0
    BY <1>1, <2>2, RowsTypes DEF Presented, RowsThere, Rows, Job
  <2>. QED
    BY <2>1, <2>2
<1>3. /\ good => Reading(w) = [work[w] EXCEPT !.step = "mint", !.family = row.family]
      /\ ~good => Reading(w) = [work[w] EXCEPT !.step = "refused", !.family = 0]
  BY DEF Reading
<1>. HIDE DEF row, good
<1>4. CASE good
  <2>1. Renewable(row)
    BY <1>4 DEF good
  <2>2. Reading(w) = [work[w] EXCEPT !.step = "mint", !.family = row.family]
    BY <1>3, <1>4
  <2>3. /\ Reading(w).kind = work[w].kind /\ Reading(w).tab = work[w].tab /\ Reading(w).token = work[w].token
        /\ Reading(w).made = work[w].made /\ Reading(w).access = work[w].access
        /\ Reading(w).step = "mint" /\ Reading(w).family = row.family
    BY <1>1, <2>2 DEF Job
  <2>4. work[w].token \in Rows /\ row = token[work[w].token]
    BY <1>2, <1>4
  <2>. QED
    BY <1>1, <2>1, <2>3, <2>4 DEF Same
<1>5. CASE ~good
  <2>1. Reading(w) = [work[w] EXCEPT !.step = "refused", !.family = 0]
    BY <1>3, <1>5
  <2>2. /\ Reading(w).kind = work[w].kind /\ Reading(w).tab = work[w].tab /\ Reading(w).token = work[w].token
        /\ Reading(w).made = work[w].made /\ Reading(w).access = work[w].access /\ Reading(w).step = "refused"
    BY <1>1, <2>1 DEF Job
  <2>. QED
    BY <1>1, <2>2 DEF Same
<1>. QED
  BY <1>4, <1>5

LEMMA ReadSound ==
  ASSUME Sound, NEW w \in Workers, ReadToRotate(w)
  PROVE  Sound' /\ Revokes /\ Passes
<1>. Shape /\ RowsThere
  BY DEF Sound
<1>1. Revokes
  BY NothingRevokes, RevokedRevokes DEF ReadToRotate
<1>2. Passes
  BY DEF ReadToRotate, Passes, Shape
<1>3. RowsGood'
  BY <1>1, <1>2, RowsGoodStays
<1>4. PICK q \in Job : q = Reading(w)
  BY ReadTurns DEF Turns
<1>5. w \in Working /\ Turns(w, q)
  BY <1>4, ReadFields, ReadTurns
<1>6. Good(q)'
  <2>1. Good(work[w]) /\ work[w].kind = "refresh" /\ work[w].step = "read" /\ work[w].made = 0
    BY <1>5, ReadFields, GoodWork DEF Good, HasSo
  <2>2. q.kind = "refresh" /\ q.token = work[w].token /\ q.made = 0 /\ q.access = work[w].access /\ q.step \in {"mint", "refused"}
    BY <1>4, <2>1, ReadFields DEF Same
  <2>3. q.step = "mint" => q.token # 0 /\ token[q.token].family = q.family
    BY <1>4, <2>2, ReadFields DEF Rows
  <2>4. HasSo(q, token)
    BY <2>2, <2>3 DEF HasSo
  <2>5. Good(q)
    BY <2>1, <2>2, <2>4 DEF Good
  <2>. QED
    BY <1>1, <1>2, <2>5, GoodStays DEF Revokes, Fades
<1>7. RowsThere' /\ AccessThere' /\ JobsHave'
  BY <1>1, <1>2, <1>3, <1>5, <1>6, TurnInOrder DEF Revokes, Fades, ReadToRotate
<1>8. Shape'
  <2>1. overlapped' \in BOOLEAN
    BY Overlaps DEF ReadToRotate
  <2>2. reused' \in BOOLEAN
    BY DEF ReadToRotate, Shape
  <2>3. token' \in Seq(Row) /\ work' \in [Workers -> Job \cup {Nil}]
    BY <1>1, <1>5 DEF Revokes, Fades, Grows, Turns
  <2>. QED
    BY <2>1, <2>2, <2>3 DEF ReadToRotate, Shape
<1>. QED
  BY <1>1, <1>2, <1>7, <1>8 DEF Sound

LEMMA SignFields ==
  ASSUME Shape, NEW w \in Workers, ReadToSignIn(w)
  PROVE  LET k == work[w] IN
         /\ w \in Working /\ k.kind = "in" /\ k.step = "read"
         /\ Same(Signing(w), k) /\ Signing(w).access = k.access /\ Signing(w).family = k.family
         /\ Signing(w).step \in {"end", "mint", "refused"}
         /\ Signing(w).step \in {"end", "mint"} => now \in Open
         /\ Signing(w).step = "mint" => ~oneDevice
<1>. DEFINE s == IF active /\ now \in Open THEN IF oneDevice THEN "end" ELSE "mint" ELSE "refused"
<1>1. w \in Working /\ work[w] \in Job /\ work[w].kind = "in" /\ work[w].step = "read"
  BY WorkingTypes DEF ReadToSignIn, Working
<1>2. /\ s \in {"end", "mint", "refused"}
      /\ s \in {"end", "mint"} => now \in Open
      /\ s = "mint" => ~oneDevice
  OBVIOUS
<1>3. Signing(w) = [work[w] EXCEPT !.step = s]
  BY DEF Signing
<1>. HIDE DEF s
<1>4. /\ Signing(w).kind = work[w].kind /\ Signing(w).tab = work[w].tab /\ Signing(w).token = work[w].token
      /\ Signing(w).made = work[w].made /\ Signing(w).access = work[w].access
      /\ Signing(w).family = work[w].family /\ Signing(w).step = s
  BY <1>1, <1>3 DEF Job
<1>. QED
  BY <1>1, <1>2, <1>4 DEF Same

LEMMA SignSound ==
  ASSUME Sound, NEW w \in Workers, ReadToSignIn(w)
  PROVE  Sound' /\ Revokes /\ Passes
<1>. Shape
  BY DEF Sound
<1>1. Revokes
  BY NothingRevokes DEF ReadToSignIn
<1>2. Passes
  BY DEF ReadToSignIn, Passes, Shape
<1>3. RowsGood'
  BY <1>1, <1>2, RowsGoodStays
<1>4. PICK q \in Job : q = Signing(w)
  BY SignTurns DEF Turns
<1>5. w \in Working /\ Turns(w, q)
  BY <1>4, SignFields, SignTurns
<1>6. Good(q)'
  <2>1. Good(work[w]) /\ work[w].kind = "in" /\ work[w].step = "read" /\ work[w].made = 0
    BY <1>5, SignFields, GoodWork DEF Good, HasSo
  <2>2. /\ q.kind = "in" /\ q.token = work[w].token /\ q.made = 0 /\ q.access = work[w].access
        /\ q.family = work[w].family /\ q.step \in {"end", "mint", "refused"}
    BY <1>4, <2>1, SignFields DEF Same
  <2>3. Good(q)
    BY <2>1, <2>2 DEF HasSo, Good
  <2>. QED
    BY <1>1, <1>2, <2>3, GoodStays DEF Revokes, Fades
<1>7. RowsThere' /\ AccessThere' /\ JobsHave'
  BY <1>1, <1>2, <1>3, <1>5, <1>6, TurnInOrder DEF Revokes, Fades, ReadToSignIn
<1>8. Shape'
  <2>1. overlapped' \in BOOLEAN
    BY Overlaps DEF ReadToSignIn
  <2>. QED
    BY <1>5, <2>1 DEF ReadToSignIn, Shape, Turns
<1>. QED
  BY <1>1, <1>2, <1>7, <1>8 DEF Sound

LEMMA AtFields ==
  ASSUME Shape, NEW w \in Working, NEW s
  PROVE  /\ Same(At(w, s), work[w]) /\ At(w, s).access = work[w].access /\ At(w, s).family = work[w].family
         /\ At(w, s).step = s
<1>. work[w] \in Job
  BY WorkingTypes
<1>1. /\ At(w, s).kind = work[w].kind /\ At(w, s).tab = work[w].tab /\ At(w, s).token = work[w].token
      /\ At(w, s).made = work[w].made /\ At(w, s).access = work[w].access
      /\ At(w, s).family = work[w].family /\ At(w, s).step = s
  BY DEF At, Job
<1>. QED
  BY <1>1 DEF Same

LEMMA EndSound ==
  ASSUME Sound, NEW w \in Workers, EndOthers(w)
  PROVE  /\ Sound' /\ Revokes /\ Passes /\ w \in Working /\ Turns(w, At(w, "mint"))
         /\ work[w].kind = "in" /\ work[w].step = "end"
<1>. Shape
  BY DEF Sound
<1>1. Revokes
  BY RevokedRevokes DEF EndOthers, EndSessions
<1>2. Passes
  BY DEF EndOthers, Passes, Shape
<1>3. RowsGood'
  BY <1>1, <1>2, RowsGoodStays
<1>4. w \in Working /\ work[w].step = "end" /\ work' = [work EXCEPT ![w].step = "mint"]
  BY DEF EndOthers, Working
<1>5. Turns(w, At(w, "mint"))
  BY <1>4, AtTurns
<1>6. PICK q \in Job : q = At(w, "mint")
  BY <1>5 DEF Turns
<1>7. Good(work[w]) /\ work[w] \in Job
  BY <1>4, GoodWork, WorkingTypes
<1>8. work[w].kind = "in"
  BY <1>4, <1>7 DEF Good, HasSo, Job
<1>9. Good(q)'
  <2>1. /\ q.kind = "in" /\ q.token = work[w].token /\ q.made = work[w].made /\ q.access = work[w].access
        /\ q.family = work[w].family /\ q.step = "mint"
    BY <1>4, <1>6, <1>8, AtFields DEF Same
  <2>2. Good(q)
    BY <1>4, <1>7, <1>8, <2>1 DEF HasSo, Good
  <2>. QED
    BY <1>1, <1>2, <2>2, GoodStays DEF Revokes, Fades
<1>10. RowsThere' /\ AccessThere' /\ JobsHave'
  <2>1. jar' = jar
    BY DEF EndOthers
  <2>. QED
    BY <1>1, <1>2, <1>3, <1>4, <1>5, <1>6, <1>9, <2>1, TurnInOrder DEF Revokes, Fades
<1>11. Shape'
  <2>1. overlapped' \in BOOLEAN
    BY Overlaps DEF EndOthers
  <2>2. token' \in Seq(Row) /\ work' \in [Workers -> Job \cup {Nil}]
    BY <1>1, <1>5 DEF Revokes, Fades, Grows, Turns
  <2>3. cutAt' = mints
    BY DEF EndOthers, EndSessions
  <2>. QED
    BY <2>1, <2>2, <2>3 DEF EndOthers, Shape
<1>. QED
  BY <1>1, <1>2, <1>4, <1>5, <1>8, <1>10, <1>11 DEF Sound

LEMMA MintFields ==
  ASSUME Shape, NEW w \in Workers, Mint(w)
  PROVE  LET k == work[w] IN
         /\ w \in Working /\ k.step = "mint"
         /\ Same(Minting(w), k) /\ Minting(w).family = k.family /\ Minting(w).step = "store"
         /\ Minting(w).access = [issued |-> mints + 1, expires |-> now + AccessLife]
<1>1. w \in Working /\ work[w] \in Job /\ work[w].step = "mint"
  BY WorkingTypes DEF Mint, Working
<1>. DEFINE a == [issued |-> mints + 1, expires |-> now + AccessLife]
<1>2. Minting(w) = [work[w] EXCEPT !.step = "store", !.access = a]
  BY DEF Minting
<1>. HIDE DEF a
<1>3. /\ Minting(w).kind = work[w].kind /\ Minting(w).tab = work[w].tab /\ Minting(w).token = work[w].token
      /\ Minting(w).made = work[w].made /\ Minting(w).access = a
      /\ Minting(w).family = work[w].family /\ Minting(w).step = "store"
  BY <1>1, <1>2 DEF Job
<1>. QED
  BY <1>1, <1>3 DEF Same, a

LEMMA MintSound ==
  ASSUME Sound, NEW w \in Workers, Mint(w)
  PROVE  Sound' /\ Revokes /\ Passes
<1>. Shape
  BY DEF Sound
<1>1. Revokes
  BY NothingRevokes DEF Mint
<1>2. Passes
  BY DEF Mint, Passes, Shape
<1>3. RowsGood'
  BY <1>1, <1>2, RowsGoodStays
<1>4. PICK q \in Job : q = Minting(w)
  BY MintTurns DEF Turns
<1>5. w \in Working /\ Turns(w, q)
  BY <1>4, MintFields, MintTurns
<1>6. Good(q)'
  <2>1. Good(work[w]) /\ work[w].step = "mint"
    BY <1>5, MintFields, GoodWork
  <2>2. /\ q.kind = work[w].kind /\ q.token = work[w].token /\ q.made = work[w].made /\ q.step = "store"
        /\ q.family = work[w].family
    BY <1>4, MintFields DEF Same
  <2>3. q.access = [issued |-> mints', expires |-> now' + AccessLife]
    BY <1>4, MintFields DEF Mint
  <2>4. MintedBy(q.access, mints', now')
    <3>1. q.access.issued = mints' /\ q.access.expires = now' + AccessLife
      BY <2>3
    <3>2. PICK m \in Nat, n \in Nat : m = mints' /\ n = now'
      BY <1>2 DEF Passes
    <3>3. AccessLife \in Nat
      BY SessionsAssumption
    <3>4. m <= m /\ n + AccessLife <= n + AccessLife
      BY <3>3
    <3>. QED
      BY <3>1, <3>2, <3>4 DEF MintedBy
  <2>5. q.access # Nil
    <3>1. q.access \in [issued : Nat, expires : Nat]
      BY <1>2, <2>3, SessionsAssumption DEF Passes
    <3>. QED
      BY <3>1, NilAssumption
  <2>6. HasSo(q, token)
    BY <2>1, <2>2, <2>5 DEF HasSo, Good
  <2>7. token' = token
    BY DEF Mint
  <2>. QED
    BY <2>1, <2>2, <2>4, <2>6, <2>7 DEF Good, Minted
<1>7. RowsThere' /\ AccessThere' /\ JobsHave'
  BY <1>1, <1>2, <1>3, <1>5, <1>6, TurnInOrder DEF Revokes, Fades, Mint
<1>8. Shape'
  <2>1. overlapped' \in BOOLEAN
    BY Overlaps DEF Mint
  <2>. QED
    BY <1>5, <2>1 DEF Mint, Shape, Turns
<1>. QED
  BY <1>1, <1>2, <1>7, <1>8 DEF Sound

Made(w) ==
  [family |-> IF work[w].family = 0 THEN Len(token) + 1 ELSE work[w].family, issued |-> work[w].access.issued,
   expires |-> now + RefreshLife, revoked |-> FALSE, replaced |-> 0]

LEMMA StoreFields ==
  ASSUME Sound, NEW w \in Workers, Store(w)
  PROVE  LET k == work[w]
             i == Len(token) + 1
         IN
         /\ w \in Working /\ k.step = "store" /\ k.made = 0 /\ k.access # Nil /\ k.kind \in {"in", "refresh"}
         /\ Storing(w).kind = k.kind /\ Storing(w).tab = k.tab /\ Storing(w).token = k.token
         /\ Storing(w).family = k.family /\ Storing(w).access = k.access /\ Storing(w).made = i
         /\ Storing(w).step = IF k.kind = "refresh" THEN "replace" ELSE "done"
         /\ k.kind = "in" => k.family = 0 /\ Made(w).family = i
         /\ k.kind = "refresh" => k.token \in Rows /\ k.family = token[k.token].family /\ Made(w).family = k.family
         /\ Made(w) \in Row /\ Made(w).family <= i
         /\ Made(w).issued = k.access.issued /\ Made(w).issued <= mints /\ Made(w).replaced = 0
         /\ token' = Append(token, Made(w)) /\ Len(token') = i /\ token'[i] = Made(w)
         /\ \A r \in Rows : token'[r] = token[r]
         /\ Rows' = Rows \cup {i} /\ i \notin Rows /\ Len(token) \in Nat
<1>. DEFINE k == work[w]
            i == Len(token) + 1
            s == IF k.kind = "refresh" THEN "replace" ELSE "done"
<1>. Shape /\ RowsThere
  BY DEF Sound
<1>1. w \in Working /\ k \in Job /\ k.step = "store" /\ Good(k)
  BY GoodWork, WorkingTypes DEF Store, Working
<1>2. token \in Seq(Row) /\ Len(token) \in Nat /\ i \in Nat /\ i # 0
  BY RowsTypes DEF Shape
<1>3. k.made = 0 /\ k.kind \in {"in", "refresh"} /\ k.access # Nil
  BY <1>1 DEF Good, HasSo, Job
<1>4. Storing(w) = [k EXCEPT !.step = s, !.made = i]
  BY DEF Storing
<1>5. token' = Append(token, Made(w))
  BY DEF Store, Made
<1>. HIDE DEF i, s
<1>6. /\ Storing(w).kind = k.kind /\ Storing(w).tab = k.tab /\ Storing(w).token = k.token
      /\ Storing(w).family = k.family /\ Storing(w).access = k.access /\ Storing(w).made = i /\ Storing(w).step = s
  BY <1>1, <1>4 DEF Job
<1>7. k.access.issued \in Nat /\ k.access.issued <= mints
  BY <1>1, <1>3 DEF Job, Access, Good, Minted, MintedBy
<1>8. k.kind = "in" => k.family = 0
  BY <1>1 DEF Good, HasSo
<1>9. k.kind = "refresh" => k.token \in Rows /\ k.family = token[k.token].family
  BY <1>1, <1>2 DEF Good, HasSo, Rows, Job
<1>10. k.kind = "refresh" => k.family \in Nat \ {0} /\ k.family <= i
  <2>1. \A r \in Rows : token[r].family \in Nat \ {0} /\ token[r].family <= r
    BY RowsTypes DEF RowsThere, Row
  <2>. QED
    BY <1>2, <1>9, <2>1 DEF i, Rows
<1>11. Made(w).family = (IF k.family = 0 THEN i ELSE k.family)
  BY DEF Made, i
<1>12. Made(w).family \in Nat \ {0} /\ Made(w).family <= i
  BY <1>2, <1>3, <1>8, <1>10, <1>11
<1>13. /\ Made(w).issued = k.access.issued /\ Made(w).expires = now + RefreshLife
       /\ Made(w).revoked = FALSE /\ Made(w).replaced = 0
  BY DEF Made
<1>14. Made(w) \in Row
  <2>. DEFINE f == IF k.family = 0 THEN i ELSE k.family
  <2>1. Made(w) = [family |-> f, issued |-> k.access.issued, expires |-> now + RefreshLife,
                   revoked |-> FALSE, replaced |-> 0]
    BY DEF Made, i
  <2>2. f \in Nat \ {0}
    BY <1>11, <1>12
  <2>3. now + RefreshLife \in Nat
    BY SessionsAssumption DEF Shape
  <2>. HIDE DEF f
  <2>. QED
    BY <1>7, <2>1, <2>2, <2>3 DEF Row
<1>15. Len(token') = i /\ token'[i] = Made(w) /\ \A r \in 1..Len(token) : token'[r] = token[r]
  BY <1>2, <1>5, <1>14, AppendProperties DEF i
<1>16. Rows' = Rows \cup {i} /\ i \notin Rows
  BY <1>2, <1>15 DEF Rows, i
<1>. QED
  BY <1>1, <1>2, <1>3, <1>5, <1>6, <1>7, <1>8, <1>9, <1>10, <1>11, <1>12, <1>13, <1>14, <1>15, <1>16 DEF i, s, Rows

LEMMA StoreSound ==
  ASSUME Sound, NEW w \in Workers, Store(w)
  PROVE  Sound' /\ Grows
<1>. DEFINE i == Len(token) + 1
<1>. Shape /\ RowsThere
  BY DEF Sound
<1>1. /\ Len(token) \in Nat /\ Len(token') = i /\ \A r \in Rows : token'[r] = token[r]
      /\ token'[i] = Made(w) /\ Made(w) \in Row /\ token' = Append(token, Made(w))
      /\ Rows' = Rows \cup {i} /\ i \notin Rows
  BY StoreFields
<1>2. Grows
  <2>1. token' \in Seq(Row)
    BY <1>1, AppendProperties DEF Shape
  <2>2. Len(token) <= Len(token')
    BY <1>1
  <2>. QED
    BY <1>1, <2>1, <2>2 DEF Grows
<1>3. Passes
  BY DEF Store, Passes, Shape
<1>4. RowsGood'
  <2>1. ASSUME NEW r \in Rows'
        PROVE  token'[r].family <= r /\ token'[r].replaced <= Len(token') /\ token'[r].issued <= mints'
    <3>1. mints' = mints
      BY DEF Store
    <3>2. CASE r \in Rows
      <4>1. token'[r] = token[r] /\ token[r] \in Row
        BY <1>1, <3>2, RowsTypes
      <4>2. token[r].family <= r /\ token[r].replaced <= Len(token) /\ token[r].issued <= mints
        BY <3>2 DEF RowsThere
      <4>. QED
        BY <1>1, <3>1, <4>1, <4>2 DEF Row
    <3>3. CASE r = i
      <4>1. Made(w).family <= i /\ Made(w).issued <= mints /\ Made(w).replaced = 0
        BY StoreFields
      <4>. QED
        BY <1>1, <3>1, <3>3, <4>1
    <3>. QED
      BY <1>1, <3>2, <3>3
  <2>. QED
    BY <2>1 DEF RowsGood
<1>5. PICK q \in Job : q = Storing(w)
  BY StoreTurns DEF Turns
<1>6. w \in Working /\ Turns(w, q)
  BY <1>5, StoreFields, StoreTurns
<1>7. Good(q)'
  <2>1. Good(work[w]) /\ work[w] \in Job
    BY <1>6, GoodWork, WorkingTypes
  <2>2. /\ q.kind = work[w].kind /\ q.token = work[w].token /\ q.family = work[w].family
        /\ q.access = work[w].access /\ q.made = i /\ q.access # Nil /\ q.kind \in {"in", "refresh"}
        /\ q.step = IF work[w].kind = "refresh" THEN "replace" ELSE "done"
    BY <1>5, StoreFields
  <2>3. q.kind = "in" => q.family = 0
    BY <2>2, StoreFields
  <2>4. q.kind = "refresh" => q.token # 0 /\ token'[q.token].family = q.family /\ token'[i].family = q.family
    <3>1. ASSUME q.kind = "refresh"
          PROVE  q.token \in Rows /\ q.family = token[q.token].family /\ Made(w).family = q.family
      BY <2>2, <3>1, StoreFields, ZenonT(60)
    <3>2. q.kind = "refresh" => token'[q.token].family = q.family
      BY <1>1, <3>1
    <3>3. q.kind = "refresh" => token'[i].family = q.family
      BY <1>1, <3>1
    <3>4. q.kind = "refresh" => q.token # 0
      BY <3>1 DEF Rows
    <3>. QED
      BY <3>2, <3>3, <3>4
  <2>5. HasSo(q, token')
    <3>. i # 0
      BY <1>1
    <3>. HIDE DEF i
    <3>. QED
      BY <2>2, <2>3, <2>4 DEF HasSo
  <2>6. q.token <= Len(token') /\ q.made <= Len(token')
    BY <1>1, <2>1, <2>2 DEF Good, Job
  <2>7. MintedBy(q.access, mints', now')
    BY <2>1, <2>2 DEF Good, Minted, Store
  <2>. QED
    BY <2>5, <2>6, <2>7 DEF Good, Minted
<1>8. RowsThere' /\ AccessThere' /\ JobsHave'
  <2>1. jar' = jar
    BY DEF Store
  <2>. HIDE DEF i
  <2>. QED
    BY <1>2, <1>3, <1>4, <1>6, <1>7, <2>1, TurnInOrder
<1>9. Shape'
  <2>1. overlapped' \in BOOLEAN
    BY Overlaps DEF Store
  <2>2. token' \in Seq(Row) /\ work' \in [Workers -> Job \cup {Nil}]
    BY <1>2, <1>6 DEF Grows, Turns
  <2>. QED
    BY <2>1, <2>2 DEF Store, Shape
<1>. QED
  BY <1>2, <1>8, <1>9 DEF Sound

\* The token presented is revoked and points at the newest of its chain; the rest are as they were.
LEMMA ReplaceRows ==
  ASSUME Sound, NEW w \in Workers, Replace(w)
  PROVE  LET k == work[w] IN
         /\ w \in Working /\ k.step = "replace" /\ k.kind = "refresh"
         /\ k.token \in Rows /\ token[k.token].family = k.family /\ k.made \in Rows
         /\ Fades /\ token'[k.token].revoked /\ token'[k.token].replaced \in Rows
         /\ \A i \in Rows \ {k.token} : token'[i] = token[i]
<1>. DEFINE k == work[w]
            t == k.token
            n == Newest(k.family)
            r == [token[t] EXCEPT !.revoked = TRUE, !.replaced = n]
<1>. Shape /\ RowsThere
  BY DEF Sound
<1>1. w \in Working /\ k \in Job /\ k.step = "replace" /\ Good(k)
  BY GoodWork, WorkingTypes DEF Replace, Working
<1>2. token \in Seq(Row) /\ Len(token) \in Nat /\ DOMAIN token = Rows
  BY RowsTypes DEF Shape
<1>3. k.kind = "refresh"
  BY <1>1 DEF Good, HasSo, Job
<1>4. t \in Rows /\ token[t].family = k.family /\ k.made \in Rows
  BY <1>1, <1>2, <1>3 DEF Good, HasSo, Rows, Job
<1>5. n \in Rows
  <2>1. t \in Family(k.family)
    BY <1>2, <1>4 DEF Family
  <2>. QED
    BY <2>1, NewestOfChain
<1>6. token' = [token EXCEPT ![t] = r]
  BY DEF Replace, Replaced
<1>. HIDE DEF n
<1>7. /\ r \in Row /\ r.revoked = TRUE /\ r.replaced = n
      /\ r.family = token[t].family /\ r.issued = token[t].issued /\ r.expires = token[t].expires
  <2>1. token[t] \in Row /\ n \in Nat
    BY <1>4, <1>5, RowsTypes DEF Rows
  <2>. QED
    BY <2>1 DEF Row
<1>. HIDE DEF r
<1>8. token' \in Seq(Row) /\ Len(token') = Len(token) /\ token'[t] = r
      /\ \A i \in Rows \ {t} : token'[i] = token[i]
  <2>1. t \in 1..Len(token)
    BY <1>4 DEF Rows
  <2>2. token' \in Seq(Row) /\ Len(token') = Len(token) /\ token'[t] = r
    BY <1>2, <1>6, <1>7, <2>1, ExceptSeq
  <2>3. \A i \in Rows \ {t} : token'[i] = token[i]
    BY <1>2, <1>6
  <2>. QED
    BY <2>2, <2>3
<1>9. Grows
  <2>1. ASSUME NEW i \in Rows
        PROVE  /\ token'[i].family = token[i].family /\ token'[i].issued = token[i].issued
               /\ token'[i].expires = token[i].expires
    <3>1. CASE i = t
      BY <1>7, <1>8, <3>1
    <3>2. CASE i # t
      BY <1>8, <3>2
    <3>. QED
      BY <3>1, <3>2
  <2>2. token' \in Seq(Row) /\ Len(token) <= Len(token')
    BY <1>2, <1>8
  <2>. QED
    BY <2>1, <2>2 DEF Grows
<1>10. \A i \in Rows : token[i].revoked => token'[i].revoked
  BY <1>7, <1>8
<1>. QED
  BY <1>1, <1>3, <1>4, <1>5, <1>7, <1>8, <1>9, <1>10 DEF Fades

LEMMA ReplaceSound ==
  ASSUME Sound, NEW w \in Workers, Replace(w)
  PROVE  Sound' /\ Passes /\ Turns(w, At(w, "done"))
<1>. Shape /\ RowsThere
  BY DEF Sound
<1>1. w \in Working /\ work[w].step = "replace" /\ work[w].kind = "refresh"
  BY ReplaceRows
<1>2. Grows /\ Len(token') = Len(token) /\ Fades
  BY ReplaceRows DEF Fades
<1>3. Passes
  BY DEF Replace, Passes, Shape
<1>4. RowsGood'
  <2>1. Rows' = Rows /\ mints' = mints /\ Len(token) \in Nat
    BY <1>2, RowsTypes DEF Rows, Replace
  <2>2. ASSUME NEW i \in Rows
        PROVE  token'[i].family <= i /\ token'[i].replaced <= Len(token') /\ token'[i].issued <= mints'
    <3>1. token[i].family <= i /\ token[i].replaced <= Len(token) /\ token[i].issued <= mints
      BY DEF RowsThere
    <3>2. token'[i].family = token[i].family /\ token'[i].issued = token[i].issued
      BY <1>2 DEF Grows
    <3>3. token'[i].replaced <= Len(token')
      <4>1. CASE i = work[w].token
        <5>1. token'[i].replaced \in Rows
          BY <4>1, ReplaceRows
        <5>. QED
          BY <1>2, <2>1, <5>1 DEF Rows
      <4>2. CASE i # work[w].token
        <5>1. token'[i] = token[i]
          BY <4>2, ReplaceRows
        <5>. QED
          BY <1>2, <3>1, <5>1
      <4>. QED
        BY <4>1, <4>2
    <3>. QED
      BY <2>1, <3>1, <3>2, <3>3
  <2>. QED
    BY <2>1, <2>2 DEF RowsGood
<1>5. Turns(w, At(w, "done"))
  BY <1>1, AtTurns DEF Replace
<1>6. PICK q \in Job : q = At(w, "done")
  BY <1>5 DEF Turns
<1>7. Good(q)'
  <2>1. Good(work[w])
    BY <1>1, GoodWork
  <2>2. /\ q.kind = "refresh" /\ q.token = work[w].token /\ q.made = work[w].made /\ q.access = work[w].access
        /\ q.family = work[w].family /\ q.step = "done"
    BY <1>1, <1>6, AtFields DEF Same
  <2>3. Good(q)
    BY <1>1, <2>1, <2>2 DEF HasSo, Good
  <2>. QED
    BY <1>2, <1>3, <2>3, GoodStays
<1>8. RowsThere' /\ AccessThere' /\ JobsHave'
  BY <1>1, <1>2, <1>3, <1>4, <1>5, <1>6, <1>7, TurnInOrder DEF Replace
<1>9. Shape'
  <2>1. overlapped' \in BOOLEAN
    BY Overlaps DEF Replace
  <2>2. token' \in Seq(Row) /\ work' \in [Workers -> Job \cup {Nil}]
    BY <1>2, <1>5 DEF Grows, Turns
  <2>. QED
    BY <2>1, <2>2 DEF Replace, Shape
<1>. QED
  BY <1>3, <1>5, <1>8, <1>9 DEF Sound

LEMMA ChainSound ==
  ASSUME Sound, NEW w \in Workers, RevokeChain(w)
  PROVE  /\ Sound' /\ Revokes /\ Passes /\ w \in Working /\ Turns(w, At(w, "done"))
         /\ work[w].kind = "out" /\ work[w].step = "read"
<1>. Shape
  BY DEF Sound
<1>1. Revokes
  BY NothingRevokes, RevokedRevokes DEF RevokeChain
<1>2. Passes
  BY DEF RevokeChain, Passes, Shape
<1>3. RowsGood'
  BY <1>1, <1>2, RowsGoodStays
<1>4. w \in Working /\ work[w].kind = "out" /\ work[w].step = "read" /\ work' = [work EXCEPT ![w].step = "done"]
  BY DEF RevokeChain, Working
<1>5. Turns(w, At(w, "done"))
  BY <1>4, AtTurns
<1>6. PICK q \in Job : q = At(w, "done")
  BY <1>5 DEF Turns
<1>7. Good(q)'
  <2>1. Good(work[w])
    BY <1>4, GoodWork
  <2>2. /\ q.kind = "out" /\ q.token = work[w].token /\ q.made = work[w].made /\ q.access = work[w].access
        /\ q.family = work[w].family /\ q.step = "done"
    BY <1>4, <1>6, AtFields DEF Same
  <2>3. Good(q)
    BY <1>4, <2>1, <2>2 DEF HasSo, Good
  <2>. QED
    BY <1>1, <1>2, <2>3, GoodStays DEF Revokes, Fades
<1>8. RowsThere' /\ AccessThere' /\ JobsHave'
  BY <1>1, <1>2, <1>3, <1>4, <1>5, <1>6, <1>7, TurnInOrder DEF Revokes, Fades, RevokeChain
<1>9. Shape'
  <2>1. overlapped' \in BOOLEAN
    BY Overlaps DEF RevokeChain
  <2>2. token' \in Seq(Row) /\ work' \in [Workers -> Job \cup {Nil}]
    BY <1>1, <1>5 DEF Revokes, Fades, Grows, Turns
  <2>. QED
    BY <2>1, <2>2 DEF RevokeChain, Shape
<1>. QED
  BY <1>1, <1>2, <1>4, <1>5, <1>8, <1>9 DEF Sound

-----------------------------------------------------------------------------
(* The owner, the password and the clock. *)

Outside == SignOutByOwner \/ Suspend \/ BringBack \/ ChangePassword \/ Tick

LEMMA OutsideSound ==
  ASSUME Sound, Outside
  PROVE  Sound' /\ Revokes /\ Passes /\ Meanwhile /\ work' = work /\ jar' = jar
<1>. Shape
  BY DEF Sound
<1>1. Meanwhile /\ work' = work /\ jar' = jar /\ oneDevice' = oneDevice
  BY DEF Outside, SignOutByOwner, Suspend, BringBack, ChangePassword, Tick
<1>2. Revokes
  <2>1. token' = token \/ token' = Revoked(DOMAIN token)
    BY DEF Outside, SignOutByOwner, EndSessions, Suspend, BringBack, ChangePassword, Tick
  <2>. QED
    BY <2>1, NothingRevokes, RevokedRevokes
<1>3. now' \in 0..MaxTime /\ now <= now' /\ mints' = mints
  <2>1. now' = now \/ (now < MaxTime /\ now' = now + 1)
    BY DEF Outside, SignOutByOwner, Suspend, BringBack, ChangePassword, Tick
  <2>2. mints' = mints
    BY DEF Outside, SignOutByOwner, Suspend, BringBack, ChangePassword, Tick
  <2>. QED
    BY <2>1, <2>2, SessionsAssumption DEF Shape
<1>4. Passes
  BY <1>3, SessionsAssumption DEF Passes, Shape
<1>5. RowsGood' /\ JarsGood'
  BY <1>1, <1>2, <1>4, RowsGoodStays, JarsGoodStay DEF Revokes, Fades
<1>6. \A v \in Working' : v \in Working /\ work'[v] = work[v]
  BY <1>1 DEF Working
<1>7. RowsThere' /\ AccessThere' /\ JobsHave'
  BY <1>2, <1>4, <1>5, <1>6, LessInOrder DEF Revokes, Fades
<1>8. Shape'
  <2>1. cutAt' \in 0..mints'
    BY <1>3 DEF Shape, Outside, SignOutByOwner, EndSessions, Suspend, BringBack, ChangePassword, Tick
  <2>2. changed' \in [at : Nat, mints : Nat] /\ changed'.mints <= mints'
    <3>1. CASE changed' = changed
      BY <1>3, <3>1 DEF Shape
    <3>2. CASE ChangePassword
      <4>1. changed' = [at |-> now, mints |-> mints] /\ now \in Nat /\ mints \in Nat
        BY <3>2, <1>4 DEF ChangePassword, Passes
      <4>2. PICK m \in Nat : m = mints
        BY <4>1
      <4>3. changed'.mints = m /\ mints' = m /\ m <= m
        BY <1>3, <4>1, <4>2
      <4>. QED
        BY <4>1, <4>3
    <3>. QED
      BY <3>1, <3>2 DEF Outside, SignOutByOwner, Suspend, BringBack, Tick
  <2>3. active' \in BOOLEAN
    BY DEF Shape, Outside, SignOutByOwner, Suspend, BringBack, ChangePassword, Tick
  <2>4. overlapped' \in BOOLEAN
    BY <1>1, Overlaps
  <2>5. crossed' = crossed /\ reused' = reused /\ call' = call /\ signedIn' = signedIn
    BY DEF Outside, SignOutByOwner, Suspend, BringBack, ChangePassword, Tick
  <2>6. token' \in Seq(Row)
    BY <1>2 DEF Revokes, Fades, Grows
  <2>. QED
    BY <1>1, <1>3, <2>1, <2>2, <2>3, <2>4, <2>5, <2>6 DEF Shape
<1>. QED
  BY <1>1, <1>2, <1>4, <1>7, <1>8 DEF Sound

-----------------------------------------------------------------------------
(* Tokens stay apart: nobody presents what somebody else does. *)

\* A request goes on with the token it presented and the one made for it.
GoesOn(q, k) ==
  /\ q.kind = k.kind /\ q.token = k.token /\ q.made = k.made
  /\ k.kind = "refresh" => q.tab = k.tab
  /\ k.step = "done" => q.step = "done"

LEMMA ApartStays ==
  ASSUME Sound, Apart, jar' = jar, Revokes, Working' = Working,
         \A v \in Working : GoesOn(work'[v], work[v])
  PROVE  Apart'
<1>. Rows' = Rows /\ \A i \in Rows : token'[i].replaced = token[i].replaced
  BY DEF Revokes, Fades, Rows
<1>. Refreshers' = Refreshers
  BY DEF Refreshers, Refreshes, GoesOn
<1>0. \A v \in Refreshers : v \in Working /\ work[v].kind = "refresh"
  BY DEF Refreshers, Refreshes
<1>1. \A v \in Refreshers : work'[v].tab # Nil
  BY <1>0 DEF GoesOn, Apart
<1>2. OneBrowser'
  BY DEF OneBrowser, Apart
<1>3. OnePresents'
  BY <1>0 DEF OnePresents, Apart, GoesOn
<1>4. OfItsBrowser'
  BY <1>0 DEF OfItsBrowser, Apart, GoesOn
<1>5. MadeIsNew'
  <2>. SUFFICES ASSUME NEW w \in Working, work'[w].made # 0
                PROVE  /\ token'[work'[w].made].replaced = 0
                       /\ \A j \in Jars : jar'[j].refresh # work'[w].made
                       /\ \A v \in Working : work'[v].made = work'[w].made => v = w
                       /\ \A v \in Refreshers : work'[v].token # work'[w].made
    BY DEF MadeIsNew
  <2>1. work'[w].made = work[w].made
    BY DEF GoesOn
  <2>2. /\ token[work[w].made].replaced = 0
        /\ \A j \in Jars : jar[j].refresh # work[w].made
        /\ \A v \in Working : work[v].made = work[w].made => v = w
        /\ \A v \in Refreshers : work[v].token # work[w].made
    BY <2>1 DEF Apart, MadeIsNew
  <2>3. work[w].made \in Rows
    <3>1. work[w].made \in Nat /\ work[w].made <= Len(token)
      BY WorkingTypes DEF Sound, RowsThere, Job
    <3>. QED
      BY <2>1, <3>1, RowsTypes DEF Rows, Sound
  <2>. QED
    BY <1>0, <2>1, <2>2, <2>3 DEF GoesOn
<1>6. ReplacedIsSpent'
  <2>. SUFFICES ASSUME NEW i \in Rows, token'[i].replaced # 0
                PROVE  /\ \A j \in Jars : jar'[j].refresh = i =>
                            \E w \in Refreshers : work'[w].token = i /\ work'[w].step = "done"
                       /\ \A w \in Refreshers : work'[w].token = i => work'[w].step = "done"
    BY DEF ReplacedIsSpent
  <2>1. token[i].replaced # 0
    OBVIOUS
  <2>. QED
    BY <1>0, <2>1 DEF Apart, ReplacedIsSpent, GoesOn
<1>. QED
  BY <1>1, <1>2, <1>3, <1>4, <1>5, <1>6 DEF Apart

LEMMA QuietApart ==
  ASSUME Sound, Apart, Quiet
  PROVE  Apart'
<1>. Shape /\ Revokes
  BY NothingRevokes DEF Sound, Quiet
<1>1. Working' = Working /\ \A v \in Working : GoesOn(work'[v], work[v])
  BY DEF Quiet, Working, GoesOn
<1>. QED
  BY <1>1, ApartStays DEF Quiet

LEMMA OutsideApart ==
  ASSUME Sound, Apart, Outside
  PROVE  Apart'
<1>. Revokes /\ work' = work /\ jar' = jar
  BY OutsideSound
<1>1. Working' = Working /\ \A v \in Working : GoesOn(work'[v], work[v])
  BY DEF Working, GoesOn
<1>. QED
  BY <1>1, ApartStays

LEMMA TurnApart ==
  ASSUME Sound, Apart, Revokes, jar' = jar, NEW w \in Working, NEW q, Turns(w, q), GoesOn(q, work[w])
  PROVE  Apart'
<1>. Shape
  BY DEF Sound
<1>1. Working' = Working
  BY WorkingTypes, TurnsWorking
<1>2. \A v \in Working : GoesOn(work'[v], work[v])
  <2>1. \A v \in Working : v # w => work'[v] = work[v]
    BY WorkingTypes DEF Turns
  <2>. QED
    BY <2>1 DEF Turns, GoesOn
<1>. QED
  BY <1>1, <1>2, ApartStays

\* Nothing presented has been replaced, so none is taken to have leaked.
LEMMA NoneTakenForReuse ==
  ASSUME Sound, Apart, NEW w \in Workers, ReadToRotate(w)
  PROVE  Apart' /\ (reused' => reused)
<1>. DEFINE row == Presented(w)
<1>. Shape /\ RowsThere
  BY DEF Sound
<1>1. w \in Working /\ work[w] \in Job /\ work[w].kind = "refresh" /\ work[w].step = "read"
  BY WorkingTypes DEF ReadToRotate, Working
<1>2. row # Nil => row.replaced = 0
  <2>1. CASE work[w].token = 0
    BY <2>1 DEF Presented
  <2>2. CASE work[w].token # 0
    <3>1. work[w].token \in Rows /\ row = token[work[w].token]
      BY <1>1, <2>2, RowsTypes DEF Presented, RowsThere, Rows, Job
    <3>2. w \in Refreshers
      BY <1>1 DEF Refreshers, Refreshes
    <3>. QED
      BY <1>1, <3>1, <3>2 DEF Apart, ReplacedIsSpent
  <2>. QED
    BY <2>1, <2>2
<1>3. reused' => reused
  BY <1>2 DEF ReadToRotate, Ended
<1>4. Apart'
  <2>1. GoesOn(Reading(w), work[w])
    BY <1>1, ReadFields DEF Same, GoesOn
  <2>2. Turns(w, Reading(w)) /\ Revokes /\ jar' = jar
    BY ReadTurns, ReadSound DEF ReadToRotate
  <2>. QED
    BY <1>1, <2>1, <2>2, TurnApart
<1>. QED
  BY <1>3, <1>4

LEMMA ServerApart ==
  ASSUME Sound, Apart, NEW w \in Workers, ReadToSignIn(w) \/ EndOthers(w) \/ Mint(w) \/ RevokeChain(w)
  PROVE  Apart'
<1>. Shape
  BY DEF Sound
<1>1. CASE ReadToSignIn(w)
  <2>1. w \in Working /\ GoesOn(Signing(w), work[w])
    BY <1>1, SignFields DEF Same, GoesOn
  <2>2. Turns(w, Signing(w)) /\ Revokes /\ jar' = jar
    BY <1>1, SignTurns, SignSound DEF ReadToSignIn
  <2>. QED
    BY <2>1, <2>2, TurnApart
<1>2. CASE EndOthers(w)
  <2>1. w \in Working /\ Turns(w, At(w, "mint")) /\ Revokes /\ work[w].step = "end"
    BY <1>2, EndSound
  <2>2. GoesOn(At(w, "mint"), work[w])
    BY <2>1, AtFields DEF Same, GoesOn
  <2>3. jar' = jar
    BY <1>2 DEF EndOthers
  <2>. QED
    BY <2>1, <2>2, <2>3, TurnApart
<1>3. CASE Mint(w)
  <2>1. w \in Working /\ GoesOn(Minting(w), work[w])
    BY <1>3, MintFields DEF Same, GoesOn
  <2>2. Turns(w, Minting(w)) /\ Revokes /\ jar' = jar
    BY <1>3, MintTurns, MintSound DEF Mint
  <2>. QED
    BY <2>1, <2>2, TurnApart
<1>4. CASE RevokeChain(w)
  <2>1. w \in Working /\ Turns(w, At(w, "done")) /\ Revokes /\ work[w].step = "read"
    BY <1>4, ChainSound
  <2>2. GoesOn(At(w, "done"), work[w])
    BY <2>1, AtFields DEF Same, GoesOn
  <2>3. jar' = jar
    BY <1>4 DEF RevokeChain
  <2>. QED
    BY <2>1, <2>2, <2>3, TurnApart
<1>. QED
  BY <1>1, <1>2, <1>3, <1>4

LEMMA GiveUpApart ==
  ASSUME Sound, Apart, NEW w \in Workers, GiveUp(w), ~crossed'
  PROVE  Apart'
<1>. Shape
  BY DEF Sound
<1>1. work[w].kind # "refresh"
  BY DEF GiveUp
<1>2. w \in Working /\ Turns(w, Away(w)) /\ GoesOn(Away(w), work[w])
  BY <1>1, GiveUpTurns DEF GoesOn
<1>3. Revokes /\ jar' = jar
  BY NothingRevokes DEF GiveUp
<1>. QED
  BY <1>2, <1>3, TurnApart

LEMMA RefresherFacts ==
  ASSUME Sound, NEW v \in Refreshers
  PROVE  v \in Working /\ work[v].kind = "refresh" /\ work[v] \in Job /\ work[v].token \in Nat
         /\ work[v].token <= Len(token)
BY WorkingTypes DEF Refreshers, Refreshes, Sound, RowsThere, Job

LEMMA StoreApart ==
  ASSUME Sound, Apart, NEW w \in Workers, Store(w)
  PROVE  Apart'
<1>. DEFINE i == Len(token) + 1
<1>. Shape /\ RowsThere
  BY DEF Sound
<1>1. /\ w \in Working /\ work[w].step = "store" /\ Len(token) \in Nat
      /\ token'[i].replaced = 0 /\ Rows' = Rows \cup {i} /\ \A r \in Rows : token'[r] = token[r]
  BY StoreFields
<1>2. /\ work'[w].kind = work[w].kind /\ work'[w].tab = work[w].tab /\ work'[w].token = work[w].token
      /\ work'[w].made = i
  BY StoreFields, StoreTurns DEF Turns
<1>3. \A v \in Working : v # w => work'[v] = work[v]
  BY StoreTurns, WorkingTypes DEF Turns
<1>4. Working' = Working /\ jar' = jar
  BY <1>1, StoreTurns, TurnsWorking DEF Store
<1>5. Refreshers' = Refreshers /\ \A v \in Refreshers : work'[v].token = work[v].token /\ work'[v].tab = work[v].tab
                                                     /\ (work[v].step = "done" => work'[v].step = "done")
  BY <1>1, <1>2, <1>3, <1>4 DEF Refreshers, Refreshes
<1>6. \A j \in Jars : jar[j].refresh \in Nat /\ jar[j].refresh <= Len(token)
  BY DEF Shape, Held, RowsThere
<1>7. OneBrowser' /\ OnePresents' /\ OfItsBrowser' /\ \A v \in Refreshers' : work'[v].tab # Nil
  BY <1>4, <1>5 DEF Apart, OneBrowser, OnePresents, OfItsBrowser
<1>8. MadeIsNew'
  <2>. SUFFICES ASSUME NEW u \in Working, work'[u].made # 0
                PROVE  /\ token'[work'[u].made].replaced = 0
                       /\ \A j \in Jars : jar[j].refresh # work'[u].made
                       /\ \A v \in Working : work'[v].made = work'[u].made => v = u
                       /\ \A v \in Refreshers : work[v].token # work'[u].made
    BY <1>4, <1>5 DEF MadeIsNew
  <2>1. \A v \in Working : work[v].made \in Nat /\ work[v].made <= Len(token)
    BY WorkingTypes DEF RowsThere, Job
  <2>2. CASE u = w
    <3>1. \A v \in Working : work'[v].made = i => v = u
      BY <1>1, <1>3, <2>1, <2>2
    <3>2. \A v \in Refreshers : work[v].token # i
      BY <1>1, RefresherFacts
    <3>. QED
      BY <1>1, <1>2, <1>6, <2>2, <3>1, <3>2
  <2>3. CASE u # w
    <3>1. work'[u].made = work[u].made
      BY <1>3, <2>3
    <3>2. /\ token[work[u].made].replaced = 0
          /\ \A j \in Jars : jar[j].refresh # work[u].made
          /\ \A v \in Working : work[v].made = work[u].made => v = u
          /\ \A v \in Refreshers : work[v].token # work[u].made
      BY <3>1 DEF Apart, MadeIsNew
    <3>3. work[u].made \in Rows
      BY <1>1, <2>1, <3>1 DEF Rows
    <3>4. i # work[u].made
      BY <1>1, <2>1
    <3>. HIDE DEF i
    <3>. QED
      BY <1>1, <1>2, <1>3, <3>1, <3>2, <3>3, <3>4
  <2>. QED
    BY <2>2, <2>3
<1>9. ReplacedIsSpent'
  <2>. SUFFICES ASSUME NEW r \in Rows, token[r].replaced # 0
                PROVE  /\ \A j \in Jars : jar[j].refresh = r =>
                            \E v \in Refreshers : work'[v].token = r /\ work'[v].step = "done"
                       /\ \A v \in Refreshers : work'[v].token = r => work'[v].step = "done"
    BY <1>1, <1>4, <1>5 DEF ReplacedIsSpent
  <2>. QED
    BY <1>5 DEF Apart, ReplacedIsSpent
<1>. QED
  BY <1>7, <1>8, <1>9 DEF Apart

LEMMA ReplaceApart ==
  ASSUME Sound, Apart, NEW w \in Workers, Replace(w)
  PROVE  Apart'
<1>. DEFINE t == work[w].token
<1>. Shape /\ RowsThere
  BY DEF Sound
<1>1. /\ w \in Working /\ work[w].step = "replace" /\ work[w].kind = "refresh" /\ t \in Rows
      /\ Len(token') = Len(token) /\ \A r \in Rows \ {t} : token'[r] = token[r]
  BY ReplaceRows DEF Fades
<1>2. /\ work'[w].kind = work[w].kind /\ work'[w].tab = work[w].tab /\ work'[w].token = t
      /\ work'[w].made = work[w].made /\ work'[w].step = "done"
  BY <1>1, ReplaceSound, AtFields DEF Turns, Same
<1>3. \A v \in Working : v # w => work'[v] = work[v]
  BY ReplaceSound, WorkingTypes DEF Turns
<1>4. Working' = Working /\ jar' = jar /\ Rows' = Rows
  BY <1>1, ReplaceSound, TurnsWorking DEF Replace, Rows
<1>5. Refreshers' = Refreshers /\ w \in Refreshers
      /\ \A v \in Refreshers : work'[v].token = work[v].token /\ work'[v].tab = work[v].tab
                                 /\ (work[v].step = "done" => work'[v].step = "done")
  BY <1>1, <1>2, <1>3, <1>4 DEF Refreshers, Refreshes
<1>6. \A v \in Working : work'[v].made = work[v].made
  BY <1>2, <1>3
<1>7. OneBrowser' /\ OnePresents' /\ OfItsBrowser' /\ \A v \in Refreshers' : work'[v].tab # Nil
  BY <1>4, <1>5 DEF Apart, OneBrowser, OnePresents, OfItsBrowser
<1>8. MadeIsNew'
  <2>. SUFFICES ASSUME NEW u \in Working, work[u].made # 0
                PROVE  /\ token'[work[u].made].replaced = 0
                       /\ \A j \in Jars : jar[j].refresh # work[u].made
                       /\ \A v \in Working : work[v].made = work[u].made => v = u
                       /\ \A v \in Refreshers : work[v].token # work[u].made
    BY <1>4, <1>5, <1>6 DEF MadeIsNew
  <2>1. /\ token[work[u].made].replaced = 0
        /\ \A j \in Jars : jar[j].refresh # work[u].made
        /\ \A v \in Working : work[v].made = work[u].made => v = u
        /\ \A v \in Refreshers : work[v].token # work[u].made
    BY DEF Apart, MadeIsNew
  <2>2. work[u].made \in Rows
    <3>1. work[u].made \in Nat /\ work[u].made <= Len(token)
      BY WorkingTypes DEF RowsThere, Job
    <3>. QED
      BY <3>1, RowsTypes DEF Rows
  <2>. QED
    BY <1>1, <1>5, <2>1, <2>2
<1>9. ReplacedIsSpent'
  <2>. SUFFICES ASSUME NEW r \in Rows, token'[r].replaced # 0
                PROVE  /\ \A j \in Jars : jar[j].refresh = r =>
                            \E v \in Refreshers : work'[v].token = r /\ work'[v].step = "done"
                       /\ \A v \in Refreshers : work'[v].token = r => work'[v].step = "done"
    BY <1>4, <1>5 DEF ReplacedIsSpent
  <2>1. CASE r = t
    <3>1. t # 0
      BY <1>1 DEF Rows
    <3>2. \A v \in Refreshers : work[v].token = t => v = w
      BY <1>5, <3>1 DEF Apart, OnePresents
    <3>. QED
      BY <1>2, <1>5, <2>1, <3>2
  <2>2. CASE r # t
    <3>1. token[r].replaced # 0
      BY <1>1, <2>2
    <3>. QED
      BY <1>5, <3>1 DEF Apart, ReplacedIsSpent
  <2>. QED
    BY <2>1, <2>2
<1>. QED
  BY <1>7, <1>8, <1>9 DEF Apart

LEMMA TakesApart ==
  ASSUME Sound, Apart, NEW w, NEW t, NEW kind, Takes(w, t, kind), ~crossed'
  PROVE  Apart'
<1>. DEFINE c == jar[JarOf[t]].refresh
<1>. Shape /\ RowsThere
  BY DEF Sound
<1>1. /\ w \in Workers /\ w \notin Working /\ Working' = Working \cup {w}
      /\ work'[w] = Asked(t, kind) /\ \A v \in Working : work'[v] = work[v]
  BY TakesWork
<1>2. work'[w].kind = kind /\ work'[w].tab = t /\ work'[w].token = c /\ work'[w].made = 0 /\ work'[w].step = "read"
  BY <1>1 DEF Asked
<1>3. jar' = jar /\ token' = token /\ Rows' = Rows /\ t \in Tabs /\ JarOf[t] \in Jars
  BY SessionsAssumption DEF Takes, Rows
<1>4. kind = "refresh" => \A v \in Refreshers : work[v].token # c
  BY DEF Takes, Refreshers, Refreshes
<1>5. /\ \A v \in Refreshers : v \in Working /\ v # w /\ v \in Refreshers' /\ work'[v] = work[v]
      /\ \A v \in Refreshers' : v \in Refreshers \/ (v = w /\ kind = "refresh")
  BY <1>1, <1>2 DEF Refreshers, Refreshes
<1>6. \A v \in Refreshers' : work'[v].tab # Nil
  BY <1>2, <1>3, <1>5, NilAssumption DEF Apart
<1>7. OneBrowser'
  BY <1>3 DEF Apart, OneBrowser
<1>8. OnePresents'
  BY <1>2, <1>4, <1>5 DEF Apart, OnePresents
<1>9. OfItsBrowser'
  <2>. SUFFICES ASSUME NEW v \in Refreshers', NEW j \in Jars, jar[j].refresh = work'[v].token, work'[v].token # 0
                PROVE  j = JarOf[work'[v].tab]
    BY <1>3 DEF OfItsBrowser
  <2>1. CASE v \in Refreshers
    BY <1>5, <2>1 DEF Apart, OfItsBrowser
  <2>2. CASE v = w
    BY <1>2, <1>3, <2>2 DEF Apart, OneBrowser
  <2>. QED
    BY <1>5, <2>1, <2>2
<1>10. MadeIsNew'
  <2>. SUFFICES ASSUME NEW u \in Working', work'[u].made # 0
                PROVE  /\ token[work'[u].made].replaced = 0
                       /\ \A j \in Jars : jar[j].refresh # work'[u].made
                       /\ \A v \in Working' : work'[v].made = work'[u].made => v = u
                       /\ \A v \in Refreshers' : work'[v].token # work'[u].made
    BY <1>3 DEF MadeIsNew
  <2>1. u \in Working /\ work'[u] = work[u]
    BY <1>1, <1>2
  <2>2. /\ token[work[u].made].replaced = 0
        /\ \A j \in Jars : jar[j].refresh # work[u].made
        /\ \A v \in Working : work[v].made = work[u].made => v = u
        /\ \A v \in Refreshers : work[v].token # work[u].made
    BY <2>1 DEF Apart, MadeIsNew
  <2>3. c # work[u].made
    BY <1>3, <2>2
  <2>4. \A v \in Working' : work'[v].made = work'[u].made => v = u
    BY <1>1, <1>2, <2>1, <2>2
  <2>5. \A v \in Refreshers' : work'[v].token # work'[u].made
    BY <1>2, <1>5, <2>1, <2>2, <2>3
  <2>. QED
    BY <2>1, <2>2, <2>4, <2>5
<1>11. ReplacedIsSpent'
  <2>. SUFFICES ASSUME NEW r \in Rows, token[r].replaced # 0
                PROVE  /\ \A j \in Jars : jar[j].refresh = r =>
                            \E v \in Refreshers' : work'[v].token = r /\ work'[v].step = "done"
                       /\ \A v \in Refreshers' : work'[v].token = r => work'[v].step = "done"
    BY <1>3 DEF ReplacedIsSpent
  <2>1. /\ \A j \in Jars : jar[j].refresh = r => \E v \in Refreshers : work[v].token = r /\ work[v].step = "done"
        /\ \A v \in Refreshers : work[v].token = r => work[v].step = "done"
    BY DEF Apart, ReplacedIsSpent
  <2>2. kind = "refresh" => c # r
    BY <1>3, <1>4, <2>1
  <2>. QED
    BY <1>2, <1>5, <2>1, <2>2
<1>. QED
  BY <1>6, <1>7, <1>8, <1>9, <1>10, <1>11 DEF Apart

\* What is left of the requests when one is over.
LEMMA EndsApart ==
  ASSUME Sound, Apart, NEW w \in Working, Over(w)
  PROVE  /\ \A v \in Working' : v \in Working /\ v # w /\ work'[v] = work[v]
         /\ \A v \in Refreshers' : v \in Refreshers /\ v # w /\ work'[v] = work[v]
         /\ \A v \in Refreshers : v # w => v \in Refreshers' /\ work'[v] = work[v]
         /\ OnePresents' /\ \A v \in Refreshers' : work'[v].tab # Nil
<1>. Shape
  BY DEF Sound
<1>1. Working' = Working \ {w} /\ \A v \in Working' : work'[v] = work[v]
  BY EndsWork
<1>2. /\ \A v \in Refreshers' : v \in Refreshers /\ v # w /\ work'[v] = work[v]
      /\ \A v \in Refreshers : v # w => v \in Refreshers' /\ work'[v] = work[v]
  BY <1>1 DEF Refreshers, Refreshes
<1>3. OnePresents' /\ \A v \in Refreshers' : work'[v].tab # Nil
  BY <1>2 DEF Apart, OnePresents
<1>. QED
  BY <1>1, <1>2, <1>3

LEMMA UnheardApart ==
  ASSUME Sound, Apart, NEW w \in Workers, Unheard(w)
  PROVE  Apart'
<1>. Shape
  BY DEF Sound
<1>1. w \in Working /\ Over(w) /\ jar' = jar /\ token' = token /\ work[w].tab = Nil /\ Rows' = Rows
  BY DEF Unheard, Working, Over, Rows
<1>2. w \notin Refreshers
  BY <1>1 DEF Apart
<1>3. /\ \A v \in Working' : v \in Working /\ v # w /\ work'[v] = work[v]
      /\ Refreshers' = Refreshers /\ \A v \in Refreshers : work'[v] = work[v]
      /\ OnePresents' /\ \A v \in Refreshers' : work'[v].tab # Nil
  BY <1>1, <1>2, EndsApart
<1>4. OneBrowser' /\ OfItsBrowser'
  BY <1>1, <1>3 DEF Apart, OneBrowser, OfItsBrowser
<1>5. MadeIsNew'
  BY <1>1, <1>3 DEF Apart, MadeIsNew
<1>6. ReplacedIsSpent'
  BY <1>1, <1>3 DEF Apart, ReplacedIsSpent
<1>. QED
  BY <1>3, <1>4, <1>5, <1>6 DEF Apart

LEMMA HearApart ==
  ASSUME Sound, Apart, NEW w \in Workers, Hear(w)
  PROVE  Apart'
<1>. DEFINE J == JarOf[work[w].tab]
            m == work[w].made
<1>. Shape /\ RowsThere
  BY DEF Sound
<1>1. /\ w \in Working /\ Over(w) /\ J \in Jars
      /\ work[w].step \in {"done", "refused"}
      /\ \A j \in Jars \ {J} : jar'[j] = jar[j]
      /\ work[w].step = "done" => jar'[J] = Cookies(w)
      /\ work[w].step # "done" => jar' = jar
  BY HearJar
<1>2. token' = token /\ Rows' = Rows
  BY DEF Hear, Rows
<1>3. /\ \A v \in Working' : v \in Working /\ v # w /\ work'[v] = work[v]
      /\ \A v \in Refreshers' : v \in Refreshers /\ v # w /\ work'[v] = work[v]
      /\ \A v \in Refreshers : v # w => v \in Refreshers' /\ work'[v] = work[v]
      /\ OnePresents' /\ \A v \in Refreshers' : work'[v].tab # Nil
  BY <1>1, EndsApart
<1>4. m # 0 => /\ token[m].replaced = 0
               /\ \A j \in Jars : jar[j].refresh # m
               /\ \A v \in Working : work[v].made = m => v = w
               /\ \A v \in Refreshers : work[v].token # m
  BY <1>1 DEF Apart, MadeIsNew
\* A browser keeps its refresh token, or has the one that was made for it, or none.
<1>5. \A j \in Jars : \/ jar'[j].refresh = jar[j].refresh /\ (j = J => work[w].step # "done")
                      \/ j = J /\ jar'[j].refresh \in {0, m}
  <2>1. CASE work[w].step = "done"
    <3>1. Cookies(w).refresh \in {0, m}
      BY DEF Cookies, NoCookies
    <3>. QED
      BY <1>1, <2>1, <3>1
  <2>2. CASE work[w].step # "done"
    BY <1>1, <2>2
  <2>. QED
    BY <2>1, <2>2
<1>. HIDE DEF J, m
<1>6. OneBrowser'
  BY <1>4, <1>5 DEF Apart, OneBrowser
<1>7. OfItsBrowser'
  <2>. SUFFICES ASSUME NEW v \in Refreshers', NEW j \in Jars, jar'[j].refresh = work'[v].token, work'[v].token # 0
                PROVE  j = JarOf[work'[v].tab]
    BY DEF OfItsBrowser
  <2>1. v \in Refreshers /\ work'[v] = work[v]
    BY <1>3
  <2>2. jar[j].refresh = work[v].token
    BY <1>4, <1>5, <2>1
  <2>. QED
    BY <2>1, <2>2 DEF Apart, OfItsBrowser
<1>8. MadeIsNew'
  <2>. SUFFICES ASSUME NEW u \in Working', work'[u].made # 0
                PROVE  /\ token[work'[u].made].replaced = 0
                       /\ \A j \in Jars : jar'[j].refresh # work'[u].made
                       /\ \A v \in Working' : work'[v].made = work'[u].made => v = u
                       /\ \A v \in Refreshers' : work'[v].token # work'[u].made
    BY <1>2 DEF MadeIsNew
  <2>1. u \in Working /\ u # w /\ work'[u] = work[u]
    BY <1>3
  <2>2. /\ token[work[u].made].replaced = 0
        /\ \A j \in Jars : jar[j].refresh # work[u].made
        /\ \A v \in Working : work[v].made = work[u].made => v = u
        /\ \A v \in Refreshers : work[v].token # work[u].made
    BY <2>1 DEF Apart, MadeIsNew
  <2>3. m # work[u].made
    BY <1>1, <2>1, <2>2 DEF m
  <2>. QED
    BY <1>3, <1>5, <2>1, <2>2, <2>3
<1>9. ReplacedIsSpent'
  <2>. SUFFICES ASSUME NEW r \in Rows, token[r].replaced # 0
                PROVE  /\ \A j \in Jars : jar'[j].refresh = r =>
                            \E v \in Refreshers' : work'[v].token = r /\ work'[v].step = "done"
                       /\ \A v \in Refreshers' : work'[v].token = r => work'[v].step = "done"
    BY <1>2 DEF ReplacedIsSpent
  <2>1. r # 0
    BY DEF Rows
  <2>2. /\ \A j \in Jars : jar[j].refresh = r => \E v \in Refreshers : work[v].token = r /\ work[v].step = "done"
        /\ \A v \in Refreshers : work[v].token = r => work[v].step = "done"
    BY DEF Apart, ReplacedIsSpent
  <2>3. ASSUME NEW j \in Jars, jar'[j].refresh = r
        PROVE  \E v \in Refreshers' : work'[v].token = r /\ work'[v].step = "done"
    <3>1. jar[j].refresh = r /\ (j = J => work[w].step # "done")
      BY <1>4, <1>5, <2>1, <2>3
    <3>2. PICK v \in Refreshers : work[v].token = r /\ work[v].step = "done"
      BY <2>2, <3>1
    <3>3. v # w
      BY <2>1, <3>1, <3>2 DEF Apart, OfItsBrowser, J
    <3>. QED
      BY <1>3, <3>2, <3>3
  <2>. QED
    BY <1>3, <2>2, <2>3
<1>. QED
  BY <1>3, <1>6, <1>7, <1>8, <1>9 DEF Apart

-----------------------------------------------------------------------------
(* While requests do not overlap. *)

LEMMA NothingMeanwhile ==
  ASSUME Shape, ~overlapped => Alone, Meanwhile, ~overlapped'
  PROVE  Alone /\ Working = {}
BY DEF Meanwhile, Shape

LEMMA NothingAlongside ==
  ASSUME Shape, ~overlapped => Alone, NEW w \in Working, Alongside(w), ~overlapped'
  PROVE  Alone /\ Working = {w}
BY DEF Alongside, Shape

\* Time goes on and nothing is made good again.
Later ==
  /\ Fades /\ Passes /\ jar' = jar /\ oneDevice' = oneDevice
  /\ cutAt \in Nat /\ cutAt' \in Nat /\ cutAt <= cutAt'

LEMMA LaterFades ==
  ASSUME Sound, Later
  PROVE  /\ Rows' = Rows
         /\ \A i \in Rows : Live(i)' => Live(i)
         /\ \A j \in Jars : Alive(j)' => Alive(j)
<1>. Shape /\ RowsThere
  BY DEF Sound
<1>1. Rows' = Rows
  BY DEF Later, Fades, Rows
<1>2. ASSUME NEW i \in Rows, Live(i)'
      PROVE  Live(i)
  <2>1. /\ token'[i].expires = token[i].expires /\ token[i].expires \in Nat
        /\ token[i].revoked => token'[i].revoked
    BY RowsTypes DEF Later, Fades, Grows, Row
  <2>2. now < token[i].expires
    BY <1>2, <2>1 DEF Live, Later, Passes
  <2>. QED
    BY <1>2, <2>1, <2>2 DEF Live
<1>3. ASSUME NEW j \in Jars, Alive(j)'
      PROVE  Alive(j)
  <2>1. jar'[j] = jar[j] /\ jar[j].access \in Access /\ jar[j].refresh \in Nat /\ jar[j].refresh <= Len(token)
    BY DEF Later, Shape, Held, RowsThere
  <2>2. CASE Fresh(jar[j].access)'
    <3>1. jar[j].access # Nil /\ jar[j].access.issued > cutAt' /\ now' < jar[j].access.expires
      BY <2>1, <2>2 DEF Fresh
    <3>2. jar[j].access.issued \in Nat /\ jar[j].access.expires \in Nat
      BY <2>1, <3>1 DEF Access
    <3>3. jar[j].access.issued > cutAt /\ now < jar[j].access.expires
      BY <3>1, <3>2 DEF Later, Passes
    <3>. QED
      BY <3>1, <3>3 DEF Fresh, Alive
  <2>3. CASE (jar[j].refresh # 0 /\ Live(jar[j].refresh))'
    <3>1. PICK i \in Rows : i = jar[j].refresh
      BY <2>1, <2>3, RowsTypes DEF Rows
    <3>2. Live(i)'
      BY <2>1, <2>3, <3>1 DEF Live
    <3>3. Live(i)
      BY <1>2, <3>2
    <3>. QED
      BY <2>1, <2>3, <3>1, <3>3 DEF Alive
  <2>. QED
    BY <1>3, <2>2, <2>3 DEF Alive
<1>. QED
  BY <1>1, <1>2, <1>3

LEMMA LaterQuietly ==
  ASSUME Sound, Quietly, Later, \A i \in Rows : Live(i)' /\ i \in Spent => i \in Spent',
         \/ cutAt' = cutAt /\ changed' = changed
         \/ changed' = changed /\ \A i \in Rows : ~Live(i)'
         \/ changed' = [at |-> now, mints |-> mints] /\ \A i \in Rows : ~Live(i)'
  PROVE  Quietly'
<1>. Shape /\ RowsThere /\ AccessThere
  BY DEF Sound
<1>1. /\ Rows' = Rows
      /\ \A i \in Rows : Live(i)' => Live(i)
      /\ \A j \in Jars : Alive(j)' => Alive(j)
  BY LaterFades
<1>2. \A i \in Rows : token'[i].family = token[i].family /\ token'[i].issued = token[i].issued
  BY DEF Later, Fades, Grows
<1>3. LiveIsNewest'
  BY <1>1, <1>2 DEF Quietly, LiveIsNewest
<1>4. LiveIsSince'
  BY <1>1, <1>2 DEF Quietly, LiveIsSince
<1>5. OldRunsOut'
  <2>. SUFFICES ASSUME NEW j \in Jars, jar[j].access # Nil
                PROVE  /\ jar[j].access.issued <= changed'.mints => jar[j].access.expires <= changed'.at + AccessLife
                       /\ \E t \in Open : t <= now' /\ jar[j].access.expires = t + AccessLife
    BY DEF OldRunsOut, SinceOpening, Later
  <2>1. PICK t \in Open : t <= now /\ jar[j].access.expires = t + AccessLife
    BY DEF Quietly, OldRunsOut, SinceOpening
  <2>2. t <= now'
    BY <2>1, SessionsAssumption DEF Later, Passes
  <2>3. jar[j].access.issued <= changed'.mints => jar[j].access.expires <= changed'.at + AccessLife
    <3>1. CASE changed' = changed
      BY <3>1 DEF Quietly, OldRunsOut
    <3>2. CASE changed' = [at |-> now, mints |-> mints]
      <4>1. changed'.at = now
        BY <3>2
      <4>. QED
        BY <4>1 DEF AccessThere, Minted, MintedBy
    <3>. QED
      BY <3>1, <3>2
  <2>. QED
    BY <2>1, <2>2, <2>3
<1>6. oneDevice' => OneChainLives' /\ OneBrowserLives'
  <2>1. oneDevice' = oneDevice
    BY DEF Later
  <2>. QED
    BY <1>1, <1>2, <2>1 DEF Quietly, OneChainLives, OneBrowserLives
<1>. QED
  BY <1>3, <1>4, <1>5, <1>6 DEF Quietly

LEMMA QuietAlone ==
  ASSUME Sound, ~overlapped => Alone, Quiet, ~overlapped'
  PROVE  Alone'
<1>. Shape /\ Alone
  BY DEF Sound, Quiet
<1>1. /\ Working' = Working /\ now' = now /\ token' = token /\ work' = work /\ jar' = jar /\ cutAt' = cutAt
      /\ changed' = changed /\ oneDevice' = oneDevice /\ Rows' = Rows
  BY DEF Quiet, Working, Rows
<1>2. OneWorks'
  BY <1>1 DEF Alone, OneWorks
<1>3. Quietly'
  <2>1. Revokes /\ Passes
    BY NothingRevokes DEF Quiet, Passes, Shape
  <2>2. Later
    BY <1>1, <2>1 DEF Later, Revokes, Shape
  <2>3. Spent' = Spent
    BY <1>1 DEF Spent
  <2>. QED
    BY <1>1, <2>2, <2>3, LaterQuietly DEF Alone
<1>4. ASSUME NEW w \in Working
      PROVE  StillSo(w)' /\ (oneDevice => LeavesOne(w)')
  <2>1. StillSo(w)'
    BY <1>1 DEF Alone, StillSo, GoodAccess, SinceOpening, Live
  <2>2. oneDevice => LeavesOne(w)'
    <3>1. \A i \in Rows : Live(i)' = Live(i)
      BY <1>1 DEF Live
    <3>2. \A j \in Jars : Alive(j)' = Alive(j)
      BY <1>1 DEF Alive, Fresh, Live
    <3>. QED
      BY <1>1, <3>1, <3>2 DEF Alone, LeavesOne
  <2>. QED
    BY <2>1, <2>2
<1>. QED
  BY <1>1, <1>2, <1>3, <1>4 DEF Alone

LEMMA OutsideAlone ==
  ASSUME Sound, ~overlapped => Alone, Outside, ~overlapped'
  PROVE  Alone'
<1>. Shape
  BY DEF Sound
<1>1. Revokes /\ Passes /\ Meanwhile /\ work' = work /\ jar' = jar
  BY OutsideSound
<1>2. Alone /\ Working = {} /\ Working' = {} /\ Spent = {}
  BY <1>1, NothingMeanwhile DEF Working, Spent
<1>3. Later
  <2>1. oneDevice' = oneDevice
    BY DEF Outside, SignOutByOwner, Suspend, BringBack, ChangePassword, Tick
  <2>2. cutAt \in Nat /\ cutAt' \in Nat /\ cutAt <= cutAt'
    <3>1. cutAt' = cutAt \/ cutAt' = mints
      BY DEF Outside, SignOutByOwner, EndSessions, Suspend, BringBack, ChangePassword, Tick
    <3>. QED
      BY <3>1 DEF Shape
  <2>. QED
    BY <1>1, <2>1, <2>2 DEF Later, Revokes
<1>4. token' = Revoked(DOMAIN token) => \A i \in Rows : ~Live(i)'
  <2>1. token' = Revoked(DOMAIN token) => \A i \in Rows : token'[i].revoked
    BY RevokedRevokes, RowsTypes
  <2>. QED
    BY <2>1 DEF Live
<1>5. \/ cutAt' = cutAt /\ changed' = changed
      \/ changed' = changed /\ \A i \in Rows : ~Live(i)'
      \/ changed' = [at |-> now, mints |-> mints] /\ \A i \in Rows : ~Live(i)'
  BY <1>4 DEF Outside, SignOutByOwner, EndSessions, Suspend, BringBack, ChangePassword, Tick
<1>6. Quietly'
  BY <1>2, <1>3, <1>5, LaterQuietly DEF Alone
<1>. QED
  BY <1>2, <1>6 DEF Alone, OneWorks

LEMMA TakesAlone ==
  ASSUME Sound, ~overlapped => Alone, NEW w, NEW t, NEW kind, Takes(w, t, kind), ~overlapped'
  PROVE  Alone'
<1>. Shape
  BY DEF Sound
<1>1. Alone /\ Working = {} /\ Spent = {}
  BY NothingMeanwhile DEF Takes, Spent
<1>2. Working' = {w} /\ work'[w] = Asked(t, kind) /\ jar' = jar
  BY <1>1, TakesWork DEF Takes
<1>3. /\ work'[w].kind = kind /\ work'[w].tab = t /\ work'[w].token = jar[JarOf[t]].refresh
      /\ work'[w].step = "read"
  BY <1>2 DEF Asked
<1>4. Quietly'
  <2>1. Revokes /\ Passes /\ cutAt' = cutAt /\ changed' = changed
    BY NothingRevokes DEF Takes, Passes, Shape
  <2>2. Later
    BY <2>1 DEF Later, Revokes, Shape, Takes
  <2>. QED
    BY <1>1, <2>1, <2>2, LaterQuietly DEF Alone
<1>5. StillSo(w)' /\ LeavesOne(w)'
  BY <1>2, <1>3 DEF StillSo, LeavesOne
<1>. QED
  BY <1>2, <1>4, <1>5 DEF Alone, OneWorks

LEMMA EndsAlone ==
  ASSUME Sound, Alone, NEW w \in Working, Over(w)
  PROVE  Working' = {}
<1>. Shape
  BY DEF Sound
<1>. QED
  BY EndsWork DEF Alone, OneWorks

LEMMA UnheardAlone ==
  ASSUME Sound, ~overlapped => Alone, NEW w \in Workers, Unheard(w), ~overlapped'
  PROVE  Alone'
<1>. Shape
  BY DEF Sound
<1>1. Alone /\ w \in Working /\ Over(w)
  BY DEF Unheard, Over, Working
<1>2. Working' = {}
  BY <1>1, EndsAlone
<1>3. Spent = {}
  BY <1>1 DEF Alone, OneWorks, Spent, Unheard
<1>4. Quietly'
  <2>1. Revokes /\ Passes /\ cutAt' = cutAt /\ changed' = changed
    BY NothingRevokes DEF Unheard, Passes, Shape
  <2>2. Later
    BY <2>1 DEF Later, Revokes, Shape, Unheard
  <2>. QED
    BY <1>1, <1>3, <2>1, <2>2, LaterQuietly DEF Alone
<1>. QED
  BY <1>2, <1>4 DEF Alone, OneWorks

LEMMA TurnAlone ==
  ASSUME Sound, NEW w \in Working, Working = {w}, NEW q, Turns(w, q), oneDevice' = oneDevice,
         Quietly', StillSo(w)', oneDevice => LeavesOne(w)'
  PROVE  Alone'
<1>. Shape
  BY DEF Sound
<1>1. Working' = {w}
  BY WorkingTypes, TurnsWorking
<1>. QED
  BY <1>1 DEF Alone, OneWorks

\* Nothing is made good again, and no chain is at the step where it has two.
LEMMA TurnQuietly ==
  ASSUME Sound, Alone, Revokes, Passes, jar' = jar, oneDevice' = oneDevice, changed' = changed,
         NEW w \in Working, Working = {w}, work[w].step # "replace",
         cutAt' = cutAt \/ (cutAt' = mints /\ \A i \in Rows : ~Live(i)')
  PROVE  Later /\ Quietly'
<1>1. Later
  BY DEF Later, Revokes, Sound, Shape
<1>2. Spent = {}
  BY DEF Spent
<1>. QED
  BY <1>1, <1>2, LaterQuietly DEF Alone

LEMMA GiveUpAlone ==
  ASSUME Sound, ~overlapped => Alone, NEW w \in Workers, GiveUp(w), ~overlapped'
  PROVE  Alone'
<1>. Shape
  BY DEF Sound
<1>1. /\ w \in Working /\ Turns(w, Away(w))
      /\ Away(w).tab = Nil /\ Away(w).kind = work[w].kind /\ Away(w).step = work[w].step
      /\ Away(w).token = work[w].token /\ Away(w).access = work[w].access
  BY GiveUpTurns
<1>2. /\ now' = now /\ token' = token /\ jar' = jar /\ cutAt' = cutAt
      /\ changed' = changed /\ oneDevice' = oneDevice /\ Rows' = Rows /\ overlapped' = overlapped
  BY DEF GiveUp, Rows
<1>3. Alone /\ Working = {w}
  BY <1>1, <1>2 DEF Alone, OneWorks
<1>4. work'[w] = Away(w)
  BY <1>1 DEF Turns
<1>5. Quietly'
  <2>1. Revokes /\ Passes
    BY NothingRevokes DEF GiveUp, Passes, Shape
  <2>2. Later
    BY <1>2, <2>1 DEF Later, Revokes, Shape
  <2>3. Working' = {w}
    BY <1>1, <1>3, TurnsWorking
  <2>4. \A i \in Spent : i \in Spent'
    BY <1>1, <1>3, <1>4, <2>3 DEF Spent
  <2>. QED
    BY <1>2, <1>3, <2>2, <2>4, LaterQuietly DEF Alone
<1>6. StillSo(w)'
  <2>1. StillSo(w)
    BY <1>3 DEF Alone
  <2>. QED
    BY <1>1, <1>2, <1>4, <2>1 DEF StillSo, GoodAccess, SinceOpening, Live
<1>7. oneDevice => LeavesOne(w)'
  <2>1. \A i \in Rows : Live(i)' = Live(i)
    BY <1>2 DEF Live
  <2>2. \A j \in Jars : Alive(j)' = Alive(j)
    BY <1>2 DEF Alive, Fresh, Live
  <2>3. oneDevice => LeavesOne(w)
    BY <1>3 DEF Alone
  <2>. QED
    BY <1>1, <1>2, <1>4, <2>1, <2>2, <2>3 DEF LeavesOne
<1>. QED
  BY <1>1, <1>2, <1>3, <1>5, <1>6, <1>7, TurnAlone

LEMMA ReadAlone ==
  ASSUME Sound, ~overlapped => Alone, NEW w \in Workers, ReadToRotate(w), ~overlapped'
  PROVE  Alone'
<1>. Shape /\ RowsThere
  BY DEF Sound
<1>0. PICK t \in Nat, q \in Job : t = work[w].token /\ q = Reading(w)
  BY ReadTurns, ReadFields, WorkingTypes DEF Turns, Job
<1>1. /\ w \in Working /\ work[w].kind = "refresh" /\ work[w].step = "read"
      /\ Same(q, work[w]) /\ q.step \in {"mint", "refused"}
      /\ q.step = "mint" => t \in Rows /\ Renewable(token[t])
  BY <1>0, ReadFields
<1>2. /\ Turns(w, q) /\ work'[w] = q
  BY <1>0, ReadTurns DEF Turns
<1>3. /\ now' = now /\ jar' = jar /\ cutAt' = cutAt /\ changed' = changed /\ oneDevice' = oneDevice
      /\ Alongside(w)
  BY DEF ReadToRotate
<1>4. Alone /\ Working = {w}
  BY <1>1, <1>3, NothingAlongside
<1>5. Revokes /\ Passes
  BY ReadSound
<1>6. Later /\ Quietly'
  BY <1>1, <1>3, <1>4, <1>5, TurnQuietly
<1>7. q.step = "mint" => t # 0 /\ Live(t) /\ Live(t)' /\ now \in Open
  <2>1. ASSUME q.step = "mint"
        PROVE  token[t].revoked = FALSE /\ token[t].replaced = 0 /\ now < token[t].expires /\ now \in Open /\ t \in Rows
    <3>1. token[t] \in Row
      BY <1>1, <2>1, RowsTypes
    <3>. QED
      BY <1>1, <2>1, <3>1 DEF Renewable, Row
  <2>2. q.step = "mint" => t # 0
    BY <2>1 DEF Rows
  <2>3. q.step = "mint" => token' = token
    <3>1. q.step = "mint" => Presented(w) = token[t]
      BY <1>0, <2>2 DEF Presented
    <3>. QED
      BY <2>1, <3>1 DEF ReadToRotate
  <2>. QED
    BY <1>3, <2>1, <2>2, <2>3 DEF Live
<1>8. q.kind = "refresh" /\ q.token = t /\ q.tab = work[w].tab
  BY <1>0, <1>1 DEF Same
<1>9. q.tab # Nil => jar[JarOf[q.tab]].refresh = t /\ JarOf[q.tab] \in Jars
  <2>1. StillSo(w) /\ work[w] \in Job
    BY <1>4, WorkingTypes DEF Alone
  <2>. QED
    BY <1>0, <1>1, <1>8, <2>1, SessionsAssumption DEF StillSo, Job
<1>10. StillSo(w)'
  BY <1>1, <1>2, <1>3, <1>7, <1>8, <1>9 DEF StillSo
<1>11. oneDevice => LeavesOne(w)'
  <2>. SUFFICES ASSUME oneDevice, q.step = "mint", q.tab # Nil, NEW j \in Jars, Alive(j)'
                PROVE  j = JarOf[q.tab]
    BY <1>1, <1>2, <1>8 DEF LeavesOne
  <2>1. Alive(JarOf[q.tab])
    BY <1>7, <1>9 DEF Alive
  <2>2. Alive(j)
    BY <1>6, LaterFades
  <2>. QED
    BY <1>4, <1>9, <2>1, <2>2 DEF Alone, Quietly, OneBrowserLives
<1>. QED
  BY <1>1, <1>2, <1>3, <1>4, <1>6, <1>10, <1>11, TurnAlone

LEMMA SignAlone ==
  ASSUME Sound, ~overlapped => Alone, NEW w \in Workers, ReadToSignIn(w), ~overlapped'
  PROVE  Alone'
<1>. DEFINE q == Signing(w)
<1>. Shape
  BY DEF Sound
<1>1. /\ w \in Working /\ work[w].kind = "in" /\ work[w].step = "read"
      /\ q.kind = "in" /\ q.step \in {"end", "mint", "refused"}
      /\ q.step \in {"end", "mint"} => now \in Open
      /\ q.step = "mint" => ~oneDevice
  BY SignFields DEF Same
<1>2. Turns(w, q) /\ work'[w] = q
  BY SignTurns DEF Turns
<1>3. /\ now' = now /\ jar' = jar /\ cutAt' = cutAt /\ changed' = changed /\ oneDevice' = oneDevice
      /\ Alongside(w)
  BY DEF ReadToSignIn
<1>4. Alone /\ Working = {w}
  BY <1>1, <1>3, NothingAlongside
<1>5. Revokes /\ Passes
  BY SignSound
<1>6. Later /\ Quietly'
  BY <1>1, <1>3, <1>4, <1>5, TurnQuietly
<1>. HIDE DEF q
<1>7. StillSo(w)'
  BY <1>1, <1>2, <1>3 DEF StillSo
<1>8. oneDevice => LeavesOne(w)'
  BY <1>1, <1>2 DEF LeavesOne
<1>. QED
  BY <1>1, <1>2, <1>3, <1>4, <1>6, <1>7, <1>8, TurnAlone

LEMMA EndAlone ==
  ASSUME Sound, ~overlapped => Alone, NEW w \in Workers, EndOthers(w), ~overlapped'
  PROVE  Alone'
<1>. DEFINE q == At(w, "mint")
<1>. Shape /\ AccessThere /\ RowsThere
  BY DEF Sound
<1>1. Revokes /\ Passes /\ w \in Working /\ Turns(w, q) /\ work[w].kind = "in" /\ work[w].step = "end"
  BY EndSound
<1>2. q.kind = "in" /\ q.step = "mint" /\ work'[w] = q
  BY <1>1, AtFields DEF Turns, Same
<1>3. /\ now' = now /\ jar' = jar /\ cutAt' = mints /\ changed' = changed /\ oneDevice' = oneDevice
      /\ Alongside(w) /\ mints' = mints
  BY DEF EndOthers, EndSessions
<1>4. Alone /\ Working = {w}
  BY <1>1, <1>3, NothingAlongside
<1>5. \A i \in Rows : ~Live(i)'
  <2>1. \A i \in Rows : token'[i].revoked
    BY RevokedRevokes, RowsTypes DEF EndOthers, EndSessions
  <2>. QED
    BY <2>1 DEF Live
<1>6. Later /\ Quietly'
  BY <1>1, <1>3, <1>4, <1>5, TurnQuietly
<1>7. Rows' = Rows
  BY <1>6, LaterFades
<1>. HIDE DEF q
<1>8. StillSo(w)'
  <2>1. now \in Open
    BY <1>1, <1>4 DEF Alone, StillSo
  <2>. QED
    BY <1>2, <1>3, <2>1 DEF StillSo
<1>9. \A j \in Jars : ~Alive(j)'
  <2>. SUFFICES ASSUME NEW j \in Jars
                PROVE  ~Fresh(jar[j].access)' /\ ~(jar[j].refresh # 0 /\ Live(jar[j].refresh))'
    BY DEF Alive
  <2>1. jar[j].access # Nil => jar[j].access.issued \in Nat /\ jar[j].access.issued <= mints
    BY DEF Shape, Held, Access, AccessThere, Minted, MintedBy
  <2>2. ~Fresh(jar[j].access)'
    BY <1>3, <2>1 DEF Fresh, Shape
  <2>3. ~(jar[j].refresh # 0 /\ Live(jar[j].refresh))'
    <3>1. CASE jar[j].refresh = 0
      BY <1>3, <3>1
    <3>2. CASE jar[j].refresh # 0
      <4>1. PICK i \in Rows : i = jar[j].refresh
        BY <3>2, RowsTypes DEF Shape, Held, RowsThere, Rows
      <4>2. ~Live(i)'
        BY <1>5
      <4>. QED
        BY <1>3, <4>1, <4>2 DEF Live
    <3>. QED
      BY <3>1, <3>2
  <2>. QED
    BY <2>2, <2>3
<1>10. LeavesOne(w)'
  BY <1>2, <1>5, <1>7, <1>9 DEF LeavesOne
<1>. QED
  BY <1>1, <1>3, <1>4, <1>6, <1>8, <1>10, TurnAlone

LEMMA MintAlone ==
  ASSUME Sound, ~overlapped => Alone, NEW w \in Workers, Mint(w), ~overlapped'
  PROVE  Alone'
<1>. Shape /\ RowsThere
  BY DEF Sound
<1>0. PICK t \in Nat, q \in Job : t = work[w].token /\ q = Minting(w)
  BY MintTurns, MintFields, WorkingTypes DEF Turns, Job
<1>1. /\ w \in Working /\ work[w].step = "mint"
      /\ q.kind = work[w].kind /\ q.tab = work[w].tab /\ q.token = t /\ q.step = "store"
      /\ q.access = [issued |-> mints + 1, expires |-> now + AccessLife]
  BY <1>0, MintFields DEF Same
<1>2. Turns(w, q) /\ work'[w] = q
  BY <1>0, MintTurns DEF Turns
<1>3. /\ now' = now /\ jar' = jar /\ cutAt' = cutAt /\ changed' = changed /\ oneDevice' = oneDevice
      /\ token' = token /\ Rows' = Rows /\ Alongside(w)
  BY DEF Mint, Rows
<1>4. Alone /\ Working = {w}
  BY <1>1, <1>3, NothingAlongside
<1>5. Revokes /\ Passes
  BY MintSound
<1>6. Later /\ Quietly'
  BY <1>1, <1>3, <1>4, <1>5, TurnQuietly
<1>7. now \in Open /\ (work[w].kind = "refresh" => Live(t))
      /\ (work[w].kind = "refresh" /\ work[w].tab # Nil => jar[JarOf[work[w].tab]].refresh = t)
  BY <1>0, <1>1, <1>4 DEF Alone, StillSo
<1>8. q.access.issued > cutAt /\ q.access.issued > changed.mints
  BY <1>1 DEF Shape
<1>9. \E o \in Open : o <= now /\ q.access.expires = o + AccessLife
  <2>1. now \in Nat
    BY <1>5 DEF Passes
  <2>2. now <= now
    BY <2>1
  <2>. QED
    BY <1>1, <1>7, <2>2
<1>10. StillSo(w)'
  <2>1. q.kind = "refresh" => Live(t)'
    BY <1>1, <1>3, <1>7 DEF Live
  <2>2. GoodAccess(q.access)' /\ SinceOpening(q.access)'
    BY <1>3, <1>8, <1>9 DEF GoodAccess, SinceOpening
  <2>. QED
    BY <1>1, <1>2, <1>3, <1>7, <2>1, <2>2 DEF StillSo, GoodAccess, SinceOpening
<1>11. oneDevice => LeavesOne(w)'
  <2>1. \A i \in Rows : Live(i)' = Live(i)
    BY <1>3 DEF Live
  <2>2. \A j \in Jars : Alive(j)' = Alive(j)
    BY <1>3 DEF Alive, Fresh, Live
  <2>3. oneDevice => LeavesOne(w)
    BY <1>4 DEF Alone
  <2>. QED
    BY <1>1, <1>2, <1>3, <2>1, <2>2, <2>3 DEF LeavesOne
<1>. QED
  BY <1>1, <1>2, <1>3, <1>4, <1>6, <1>10, <1>11, TurnAlone

LEMMA ChainAlone ==
  ASSUME Sound, ~overlapped => Alone, NEW w \in Workers, RevokeChain(w), ~overlapped'
  PROVE  Alone'
<1>. Shape
  BY DEF Sound
<1>1. Revokes /\ Passes /\ w \in Working /\ Turns(w, At(w, "done")) /\ work[w].kind = "out" /\ work[w].step = "read"
  BY ChainSound
<1>2. work'[w].kind = "out" /\ work'[w].step = "done"
  BY <1>1, AtFields DEF Turns, Same
<1>3. /\ jar' = jar /\ cutAt' = cutAt /\ changed' = changed /\ oneDevice' = oneDevice /\ Alongside(w)
  BY DEF RevokeChain
<1>4. Alone /\ Working = {w}
  BY <1>1, <1>3, NothingAlongside
<1>5. Later /\ Quietly'
  BY <1>1, <1>3, <1>4, TurnQuietly
<1>6. StillSo(w)' /\ LeavesOne(w)'
  BY <1>2 DEF StillSo, LeavesOne
<1>. QED
  BY <1>1, <1>3, <1>4, <1>5, <1>6, TurnAlone

LEMMA ReplaceAlone ==
  ASSUME Sound, ~overlapped => Alone, NEW w \in Workers, Replace(w), ~overlapped'
  PROVE  Alone'
<1>. Shape /\ RowsThere
  BY DEF Sound
<1>0. PICK t \in Nat, q \in Job : t = work[w].token /\ q = At(w, "done")
  BY ReplaceSound, ReplaceRows, WorkingTypes DEF Turns, Job
<1>1. /\ w \in Working /\ work[w].step = "replace" /\ work[w].kind = "refresh" /\ Fades /\ t \in Rows
      /\ token'[t].revoked
  BY <1>0, ReplaceRows
<1>2. Turns(w, q) /\ work'[w] = q
  BY <1>0, ReplaceSound DEF Turns
<1>3. q.kind = "refresh" /\ q.tab = work[w].tab /\ q.token = t /\ q.step = "done" /\ q.access = work[w].access
  BY <1>0, <1>1, AtFields DEF Same
<1>4. /\ now' = now /\ jar' = jar /\ cutAt' = cutAt /\ changed' = changed /\ oneDevice' = oneDevice
      /\ Alongside(w)
  BY DEF Replace
<1>5. Alone /\ Working = {w}
  BY <1>1, <1>4, NothingAlongside
<1>6. Later
  BY <1>1, <1>4, ReplaceSound DEF Later, Shape
<1>7. Quietly'
  <2>1. \A i \in Rows : i \in Spent => ~Live(i)'
    BY <1>0, <1>1, <1>5 DEF Spent, Live
  <2>. QED
    BY <1>4, <1>5, <1>6, <2>1, LaterQuietly DEF Alone
<1>8. StillSo(w)'
  <2>1. StillSo(w)
    BY <1>5 DEF Alone
  <2>. QED
    BY <1>0, <1>1, <1>2, <1>3, <1>4, <2>1 DEF StillSo, GoodAccess, SinceOpening
<1>9. oneDevice => LeavesOne(w)'
  <2>1. oneDevice => LeavesOne(w)
    BY <1>5 DEF Alone
  <2>2. \A j \in Jars : Alive(j)' => Alive(j)
    BY <1>6, LaterFades
  <2>. QED
    BY <1>1, <1>2, <1>3, <2>1, <2>2 DEF LeavesOne
<1>. QED
  BY <1>1, <1>2, <1>4, <1>5, <1>7, <1>8, <1>9, TurnAlone

LEMMA StoreAlone ==
  ASSUME Sound, ~overlapped => Alone, NEW w \in Workers, Store(w), ~overlapped'
  PROVE  Alone'
<1>. Shape /\ RowsThere
  BY DEF Sound
<1>0. PICK t \in Nat, q \in Job, n \in Nat, row \in Row, a \in Access :
        t = work[w].token /\ q = Storing(w) /\ n = Len(token) + 1 /\ row = Made(w) /\ a = work[w].access
  <2>1. Storing(w) \in Job
    BY StoreTurns DEF Turns
  <2>2. Made(w) \in Row /\ w \in Working /\ Len(token) + 1 \in Nat
    BY StoreFields
  <2>3. work[w].token \in Nat /\ work[w].access \in Access
    BY <2>2, WorkingTypes DEF Job
  <2>. QED
    BY <2>1, <2>2, <2>3
<1>1. /\ w \in Working /\ work[w].step = "store" /\ work[w].kind \in {"in", "refresh"}
      /\ q.kind = work[w].kind /\ q.tab = work[w].tab /\ q.token = t /\ q.access = a
      /\ q.step = IF q.kind = "refresh" THEN "replace" ELSE "done"
  BY <1>0, StoreFields
<1>2. /\ work[w].kind = "in" => row.family = n
      /\ work[w].kind = "refresh" => t \in Rows /\ row.family = token[t].family
      /\ row.issued = a.issued
  BY <1>0, StoreFields
<1>3. /\ token'[n] = row /\ Rows' = Rows \cup {n} /\ n \notin Rows /\ \A r \in Rows : token'[r] = token[r]
      /\ \A r \in Rows : r \in Nat /\ r < n
  <2>1. Len(token) \in Nat
    BY RowsTypes
  <2>. QED
    BY <1>0, <2>1, StoreFields DEF Rows
<1>4. Turns(w, q) /\ work'[w] = q
  BY <1>0, StoreTurns DEF Turns
<1>5. /\ now' = now /\ jar' = jar /\ cutAt' = cutAt /\ changed' = changed /\ oneDevice' = oneDevice
      /\ Alongside(w)
  BY DEF Store
<1>6. Alone /\ Working = {w}
  BY <1>1, <1>5, NothingAlongside
<1>7. \A i \in Rows : Live(i)' = Live(i)
  BY <1>3, <1>5 DEF Live
<1>8. \A j \in Jars : Alive(j)' = Alive(j)
  <2>. SUFFICES ASSUME NEW j \in Jars
                PROVE  Alive(j)' = Alive(j)
    OBVIOUS
  <2>1. Fresh(jar[j].access)' = Fresh(jar[j].access)
    BY <1>5 DEF Fresh
  <2>2. (jar[j].refresh # 0 /\ Live(jar[j].refresh))' = (jar[j].refresh # 0 /\ Live(jar[j].refresh))
    <3>1. CASE jar[j].refresh = 0
      BY <1>5, <3>1
    <3>2. CASE jar[j].refresh # 0
      <4>1. PICK i \in Rows : i = jar[j].refresh
        BY <3>2, RowsTypes DEF Shape, Held, RowsThere, Rows
      <4>2. token'[i] = token[i]
        BY <1>3
      <4>. QED
        BY <1>5, <4>1, <4>2 DEF Live
    <3>. QED
      BY <3>1, <3>2
  <2>. QED
    BY <2>1, <2>2 DEF Alive
<1>9. StillSo(w) /\ (oneDevice => LeavesOne(w))
  BY <1>6 DEF Alone
<1>10. Working' = {w}
  BY <1>4, <1>6, TurnsWorking
<1>11. work[w].kind = "refresh" => Live(t) /\ Spent' = {t}
  BY <1>0, <1>1, <1>4, <1>9, <1>10 DEF StillSo, Spent
<1>12. Spent = {}
  BY <1>1, <1>6 DEF Spent
<1>13. GoodAccess(a) /\ SinceOpening(a)
  BY <1>0, <1>1, <1>9 DEF StillSo
<1>14. LiveIsNewest'
  <2>. SUFFICES ASSUME NEW i \in Rows', NEW k \in Rows', Live(i)', i \notin Spent',
                       token'[k].family = token'[i].family
                PROVE  k <= i
    BY DEF LiveIsNewest
  <2>0. \A c, d \in Rows : Live(c) /\ token[d].family = token[c].family => d <= c
    BY <1>6, <1>12 DEF Alone, Quietly, LiveIsNewest
  <2>1. CASE i \in Rows /\ k \in Rows
    BY <1>3, <1>7, <2>0, <2>1
  <2>2. CASE i = n
    BY <1>3, <2>2
  <2>3. CASE i \in Rows /\ k = n
    <3>1. Live(i) /\ row.family = token[i].family /\ token[i].family <= i /\ i < n /\ i \in Nat
      BY <1>3, <1>7, <2>3 DEF RowsThere
    <3>2. work[w].kind # "in"
      <4>1. row.family < n
        BY <3>1 DEF Row
      <4>2. row.family # n
        BY <4>1 DEF Row
      <4>. QED
        BY <1>2, <4>2
    <3>3. t \in Rows /\ Live(t) /\ token[t].family = token[i].family /\ i # t
      BY <1>1, <1>2, <1>11, <3>1, <3>2
    <3>4. i <= t /\ t <= i
      BY <2>0, <2>3, <3>1, <3>3
    <3>. QED
      BY <3>1, <3>3, <3>4
  <2>. QED
    BY <1>3, <2>1, <2>2, <2>3
<1>15. LiveIsSince'
  <2>. SUFFICES ASSUME NEW i \in Rows', Live(i)'
                PROVE  token'[i].issued > cutAt /\ token'[i].issued > changed.mints
    BY <1>5 DEF LiveIsSince
  <2>1. CASE i \in Rows
    BY <1>3, <1>6, <1>7, <2>1 DEF Alone, Quietly, LiveIsSince
  <2>2. CASE i = n
    BY <1>2, <1>3, <1>13, <2>2 DEF GoodAccess
  <2>. QED
    BY <1>3, <2>1, <2>2
<1>16. OldRunsOut'
  BY <1>5, <1>6 DEF Alone, Quietly, OldRunsOut, SinceOpening
<1>17. oneDevice => OneChainLives' /\ OneBrowserLives'
  <2>. SUFFICES ASSUME oneDevice
                PROVE  OneChainLives' /\ OneBrowserLives'
    OBVIOUS
  <2>1. OneBrowserLives'
    BY <1>5, <1>6, <1>8 DEF Alone, Quietly, OneBrowserLives
  <2>2. \A c, d \in Rows : Live(c) /\ Live(d) => token[c].family = token[d].family
    BY <1>6 DEF Alone, Quietly, OneChainLives
  <2>3. ASSUME NEW c \in Rows, Live(c)
        PROVE  token[c].family = row.family
    <3>1. work[w].kind = "refresh"
      BY <1>1, <1>9, <2>3 DEF LeavesOne
    <3>. QED
      BY <1>2, <1>11, <2>2, <2>3, <3>1
  <2>4. ASSUME NEW i \in Rows', NEW k \in Rows', Live(i)', Live(k)'
        PROVE  token'[i].family = token'[k].family
    <3>1. CASE i \in Rows /\ k \in Rows
      BY <1>3, <1>7, <2>2, <2>4, <3>1
    <3>2. CASE i = n /\ k \in Rows
      BY <1>3, <1>7, <2>3, <2>4, <3>2
    <3>3. CASE k = n /\ i \in Rows
      BY <1>3, <1>7, <2>3, <2>4, <3>3
    <3>. QED
      BY <1>3, <3>1, <3>2, <3>3
  <2>. QED
    BY <2>1, <2>4 DEF OneChainLives
<1>18. Quietly'
  BY <1>5, <1>14, <1>15, <1>16, <1>17 DEF Quietly
<1>19. StillSo(w)'
  <2>1. q.kind = "refresh" => Live(t)'
    <3>1. q.kind = "refresh" => t \in Rows /\ Live(t)
      BY <1>1, <1>2, <1>11
    <3>. QED
      BY <1>7, <3>1
  <2>2. q.kind = "refresh" /\ q.tab # Nil => jar[JarOf[q.tab]].refresh = t
    BY <1>0, <1>1, <1>9 DEF StillSo
  <2>3. GoodAccess(a)' /\ SinceOpening(a)'
    BY <1>5, <1>13 DEF GoodAccess, SinceOpening
  <2>. QED
    BY <1>1, <1>4, <1>5, <2>1, <2>2, <2>3 DEF StillSo, GoodAccess, SinceOpening, Live
<1>20. oneDevice => LeavesOne(w)'
  BY <1>1, <1>4, <1>5, <1>8, <1>9 DEF LeavesOne
<1>. QED
  BY <1>1, <1>4, <1>5, <1>6, <1>18, <1>19, <1>20, TurnAlone

LEMMA HearAlone ==
  ASSUME Sound, ~overlapped => Alone, NEW w \in Workers, Hear(w), ~overlapped'
  PROVE  Alone'
<1>. Shape /\ RowsThere
  BY DEF Sound
<1>0. PICK J \in Jars : J = JarOf[work[w].tab]
  BY HearJar
<1>1. /\ w \in Working /\ Over(w) /\ work[w].tab \in Tabs
      /\ work[w].step \in {"done", "refused"}
      /\ \A j \in Jars \ {J} : jar'[j] = jar[j]
      /\ work[w].step = "done" => jar'[J] = Cookies(w)
      /\ work[w].step # "done" => jar' = jar
  BY <1>0, HearJar
<1>2. /\ now' = now /\ token' = token /\ cutAt' = cutAt /\ changed' = changed /\ oneDevice' = oneDevice
      /\ overlapped' = overlapped /\ Rows' = Rows
  BY DEF Hear, Rows
<1>3. Alone /\ Working = {w} /\ Working' = {} /\ Spent = {} /\ Spent' = {}
  <2>1. Alone /\ Working = {w} /\ Working' = {}
    BY <1>1, <1>2, EndsAlone DEF Alone, OneWorks
  <2>. QED
    BY <1>1, <2>1 DEF Spent
<1>4. StillSo(w) /\ (oneDevice => LeavesOne(w)) /\ Quietly
  BY <1>3 DEF Alone
<1>5. \A i \in Rows : Live(i)' = Live(i)
  BY <1>2 DEF Live
<1>6. LiveIsNewest' /\ LiveIsSince' /\ (oneDevice => OneChainLives')
  BY <1>2, <1>3, <1>4, <1>5 DEF Quietly, LiveIsNewest, LiveIsSince, OneChainLives
<1>7. OldRunsOut'
  <2>. SUFFICES ASSUME NEW j \in Jars, jar'[j].access # Nil
                PROVE  /\ jar'[j].access.issued <= changed.mints => jar'[j].access.expires <= changed.at + AccessLife
                       /\ \E t \in Open : t <= now /\ jar'[j].access.expires = t + AccessLife
    BY <1>2 DEF OldRunsOut, SinceOpening
  <2>1. CASE jar'[j] = jar[j]
    BY <1>4, <2>1 DEF Quietly, OldRunsOut, SinceOpening
  <2>2. CASE jar'[j] = Cookies(w) /\ work[w].step = "done"
    <3>1. work[w].kind # "out" /\ jar'[j].access = work[w].access
      BY <2>2 DEF Cookies, NoCookies
    <3>2. GoodAccess(work[w].access) /\ SinceOpening(work[w].access)
      BY <1>4, <2>2, <3>1 DEF StillSo
    <3>3. ~(work[w].access.issued <= changed.mints)
      <4>1. work[w].access.issued \in Nat /\ changed.mints \in Nat
        BY <1>1, <3>1, WorkingTypes DEF Job, Access, Shape
      <4>. QED
        BY <3>2, <4>1 DEF GoodAccess
    <3>. QED
      BY <3>1, <3>2, <3>3 DEF SinceOpening
  <2>. QED
    BY <1>1, <2>1, <2>2
<1>8. oneDevice => OneBrowserLives'
  <2>. SUFFICES ASSUME oneDevice
                PROVE  OneBrowserLives'
    OBVIOUS
  <2>1. ASSUME NEW j \in Jars, jar'[j] = jar[j]
        PROVE  Alive(j)' = Alive(j)
    BY <1>2, <2>1 DEF Alive, Fresh, Live
  <2>2. CASE work[w].step # "done"
    <3>1. \A j \in Jars : jar'[j] = jar[j]
      BY <1>1, <2>2
    <3>. QED
      BY <1>4, <2>1, <3>1 DEF Quietly, OneBrowserLives
  <2>3. CASE work[w].step = "done" /\ work[w].kind = "out"
    <3>1. jar'[J] = NoCookies
      BY <1>1, <2>3 DEF Cookies
    <3>2. ~Alive(J)'
      BY <3>1 DEF Alive, Fresh, NoCookies
    <3>3. \A j \in Jars : Alive(j)' => Alive(j)
      BY <1>1, <2>1, <3>2
    <3>. QED
      BY <1>4, <3>3 DEF Quietly, OneBrowserLives
  <2>4. CASE work[w].step = "done" /\ work[w].kind # "out"
    <3>1. work[w].kind \in {"in", "refresh"} /\ work[w].tab # Nil
      BY <1>1, <2>4, WorkingTypes, NilAssumption DEF Job
    <3>2. \A j \in Jars : Alive(j) => j = J
      BY <1>0, <1>4, <2>4, <3>1 DEF LeavesOne
    <3>3. \A j \in Jars : Alive(j)' => j = J
      BY <1>1, <2>1, <3>2
    <3>. QED
      BY <3>3 DEF OneBrowserLives
  <2>. QED
    BY <2>2, <2>3, <2>4
<1>9. Quietly'
  BY <1>2, <1>6, <1>7, <1>8 DEF Quietly
<1>. QED
  BY <1>3, <1>9 DEF Alone, OneWorks

-----------------------------------------------------------------------------
(* The invariant, and what follows from it. *)

LEMMA SInvAtFirst ==
  ASSUME SessionsInit
  PROVE  SInv
<1>1. Nil \in Access /\ Nil \in Job \cup {Nil} /\ {FALSE, TRUE} = BOOLEAN
  BY DEF Access
<1>2. token = <<>> /\ Len(token) = 0 /\ token \in Seq(Row) /\ Rows = {}
  BY EmptySeq DEF SessionsInit, Rows
<1>3. jar \in [Jars -> Held] /\ \A j \in Jars : jar[j].access = Nil /\ jar[j].refresh = 0
  BY <1>1 DEF SessionsInit, NoCookies, Held
<1>4. call \in [Calls -> Asking]
  BY <1>1 DEF SessionsInit, Idle, Asking
<1>5. work \in [Workers -> Job \cup {Nil}] /\ Working = {}
  BY DEF SessionsInit, Working
<1>6. changed \in [at : Nat, mints : Nat] /\ changed.mints = 0
  BY DEF SessionsInit
<1>7. /\ now = 0 /\ mints = 0 /\ cutAt = 0 /\ signedIn = {}
      /\ active \in BOOLEAN /\ overlapped \in BOOLEAN /\ crossed \in BOOLEAN /\ reused \in BOOLEAN /\ oneDevice \in BOOLEAN
      /\ reused = FALSE
  BY DEF SessionsInit
<1>8. Shape
  BY <1>2, <1>3, <1>4, <1>5, <1>6, <1>7, SessionsAssumption DEF Shape
<1>9. RowsThere /\ AccessThere /\ JobsHave
  BY <1>2, <1>3, <1>5 DEF RowsThere, AccessThere, JobsHave, Minted, MintedBy
<1>10. Apart
  <2>1. Refreshers = {}
    BY <1>5 DEF Refreshers
  <2>. QED
    BY <1>2, <1>3, <1>5, <2>1 DEF Apart, OneBrowser, OnePresents, OfItsBrowser, MadeIsNew, ReplacedIsSpent
<1>11. Alone
  <2>1. \A j \in Jars : ~Alive(j)
    BY <1>3 DEF Alive, Fresh
  <2>2. Quietly
    BY <1>2, <1>3, <2>1 DEF Quietly, LiveIsNewest, LiveIsSince, OldRunsOut, SinceOpening, OneChainLives, OneBrowserLives
  <2>. QED
    BY <1>5, <2>2 DEF Alone, OneWorks
<1>. QED
  BY <1>7, <1>8, <1>9, <1>10, <1>11 DEF SInv, Sound

LEMMA SInvQuiet ==
  ASSUME SInv, Quiet
  PROVE  SInv'
<1>1. Sound' /\ (~overlapped' => Alone')
  BY QuietSound, QuietAlone DEF SInv
<1>2. ~crossed' => Apart'
  BY QuietApart DEF SInv, Quiet
<1>3. reused' => crossed'
  BY DEF SInv, Quiet
<1>. QED
  BY <1>1, <1>2, <1>3 DEF SInv

LEMMA SInvTakes ==
  ASSUME SInv, NEW w, NEW t, NEW kind, Takes(w, t, kind)
  PROVE  SInv'
<1>1. Sound' /\ (~overlapped' => Alone')
  BY TakesSound, TakesAlone DEF SInv
<1>2. ~crossed' => Apart'
  BY TakesApart DEF SInv, Takes
<1>3. reused' => crossed'
  BY DEF SInv, Takes
<1>. QED
  BY <1>1, <1>2, <1>3 DEF SInv

LEMMA SInvOutside ==
  ASSUME SInv, Outside
  PROVE  SInv'
<1>1. Sound' /\ (~overlapped' => Alone')
  BY OutsideSound, OutsideAlone DEF SInv
<1>2. crossed' = crossed /\ reused' = reused
  BY DEF Outside, SignOutByOwner, Suspend, BringBack, ChangePassword, Tick
<1>3. ~crossed' => Apart'
  BY <1>2, OutsideApart DEF SInv
<1>. QED
  BY <1>1, <1>2, <1>3 DEF SInv

LEMMA SInvAnswers ==
  ASSUME SInv, NEW w \in Workers, Hear(w) \/ GiveUp(w) \/ Unheard(w)
  PROVE  SInv'
<1>1. CASE Hear(w)
  <2>1. Sound' /\ (~overlapped' => Alone')
    BY <1>1, HearSound, HearAlone DEF SInv
  <2>2. crossed' = crossed /\ reused' = reused
    BY <1>1 DEF Hear
  <2>3. ~crossed' => Apart'
    BY <1>1, <2>2, HearApart DEF SInv
  <2>. QED
    BY <2>1, <2>2, <2>3 DEF SInv
<1>2. CASE GiveUp(w)
  <2>1. Sound' /\ (~overlapped' => Alone')
    BY <1>2, GiveUpSound, GiveUpAlone DEF SInv
  <2>2. (crossed => crossed') /\ reused' = reused
    BY <1>2 DEF GiveUp
  <2>3. ~crossed' => Apart'
    BY <1>2, <2>2, GiveUpApart DEF SInv
  <2>. QED
    BY <2>1, <2>2, <2>3 DEF SInv
<1>3. CASE Unheard(w)
  <2>1. Sound' /\ (~overlapped' => Alone')
    BY <1>3, UnheardSound, UnheardAlone DEF SInv
  <2>2. crossed' = crossed /\ reused' = reused
    BY <1>3 DEF Unheard
  <2>3. ~crossed' => Apart'
    BY <1>3, <2>2, UnheardApart DEF SInv
  <2>. QED
    BY <2>1, <2>2, <2>3 DEF SInv
<1>. QED
  BY <1>1, <1>2, <1>3

LEMMA SInvServer ==
  ASSUME SInv, NEW w \in Workers,
         \/ ReadToRotate(w) \/ ReadToSignIn(w) \/ EndOthers(w) \/ Mint(w)
         \/ Store(w) \/ Replace(w) \/ RevokeChain(w)
  PROVE  SInv'
<1>. Sound
  BY DEF SInv
<1>1. Sound'
  <2>1. CASE EndOthers(w)
    BY <2>1, EndSound
  <2>2. CASE RevokeChain(w)
    BY <2>2, ChainSound
  <2>. QED
    BY <2>1, <2>2, ReadSound, SignSound, MintSound, StoreSound, ReplaceSound
<1>2. ~overlapped' => Alone'
  BY ReadAlone, SignAlone, EndAlone, MintAlone, StoreAlone, ReplaceAlone, ChainAlone DEF SInv
<1>3. crossed' = crossed
  BY DEF ReadToRotate, ReadToSignIn, EndOthers, Mint, Store, Replace, RevokeChain
<1>4. ~crossed' => Apart' /\ (reused' => reused)
  <2>. SUFFICES ASSUME Apart
                PROVE  Apart' /\ (reused' => reused)
    BY <1>3 DEF SInv
  <2>1. CASE ReadToRotate(w)
    BY <2>1, NoneTakenForReuse
  <2>2. CASE ReadToSignIn(w) \/ EndOthers(w) \/ Mint(w) \/ RevokeChain(w)
    BY <2>2, ServerApart DEF ReadToSignIn, EndOthers, Mint, RevokeChain
  <2>3. CASE Store(w)
    BY <2>3, StoreApart DEF Store
  <2>4. CASE Replace(w)
    BY <2>4, ReplaceApart DEF Replace
  <2>. QED
    BY <2>1, <2>2, <2>3, <2>4
<1>. QED
  BY <1>1, <1>2, <1>3, <1>4 DEF SInv

LEMMA SInvStays ==
  ASSUME SInv, [SessionsNext]_sessionsVars
  PROVE  SInv'
<1>. Shape
  BY DEF SInv, Sound
<1>1. ASSUME NEW c \in Calls, Send(c) \/ Serve(c) \/ Unauthorized(c) \/ StillUnauthorized(c)
      PROVE  SInv'
  <2>1. CASE Unauthorized(c)
    BY <2>1, UnauthorizedAsks, SInvQuiet, SInvTakes
  <2>2. CASE Send(c) \/ Serve(c) \/ StillUnauthorized(c)
    BY <2>2, SendIsQuiet, ServeIsQuiet, StillUnauthorizedIsQuiet, SInvQuiet
  <2>. QED
    BY <1>1, <2>1, <2>2
<1>2. ASSUME NEW t \in Tabs, NEW kind \in {"in", "out"}, AskToSign(t, kind)
      PROVE  SInv'
  BY <1>2, AskingToSignAsks, SInvTakes
<1>3. ASSUME UNCHANGED sessionsVars
      PROVE  SInv'
  <2>1. Quiet
    BY <1>3 DEF sessionsVars, Quiet, Shape
  <2>. QED
    BY <2>1, SInvQuiet
<1>4. ASSUME NEW w \in Workers, Hear(w) \/ GiveUp(w) \/ Unheard(w)
      PROVE  SInv'
  BY <1>4, SInvAnswers
<1>5. ASSUME NEW w \in Workers,
             \/ ReadToRotate(w) \/ ReadToSignIn(w) \/ EndOthers(w) \/ Mint(w)
             \/ Store(w) \/ Replace(w) \/ RevokeChain(w)
      PROVE  SInv'
  BY <1>5, SInvServer
<1>6. Outside => SInv'
  BY SInvOutside
<1>. QED
  BY <1>1, <1>2, <1>3, <1>4, <1>5, <1>6 DEF SessionsNext, Outside

LEMMA AtMostOne ==
  ASSUME NEW S, \A a, b \in S : a = b
  PROVE  Cardinality(S) <= 1
<1>1. CASE S = {}
  BY <1>1, FS_EmptySet
<1>2. CASE S # {}
  <2>1. PICK a \in S : S = {a}
    BY <1>2
  <2>. QED
    BY <2>1, FS_Singleton
<1>. QED
  BY <1>1, <1>2

LEMMA SInvHolds ==
  ASSUME SInv
  PROVE  SessionsHold /\ SessionsTypeOK
<1>. Sound /\ Shape /\ RowsThere
  BY DEF SInv, Sound
<1>0. DOMAIN token = Rows
  BY RowsTypes
<1>1. NotTakenForReuse
  BY DEF SInv, NotTakenForReuse
<1>2. OneLiveTokenPerChain
  <2>. SUFFICES ASSUME ~overlapped, Working = {}, NEW i \in Rows, Live(i), NEW k \in Family(token[i].family), k # i
                PROVE  ~Live(k) /\ k < i
    BY <1>0 DEF OneLiveTokenPerChain
  <2>1. LiveIsNewest /\ Spent = {}
    BY DEF SInv, Alone, Quietly, Spent
  <2>2. k \in Rows /\ token[k].family = token[i].family
    BY <1>0 DEF Family
  <2>3. k \in Nat /\ i \in Nat
    BY <2>2 DEF Rows
  <2>4. k <= i /\ (Live(k) => i <= k)
    BY <2>1, <2>2 DEF LiveIsNewest
  <2>. QED
    BY <2>3, <2>4
<1>3. OneSessionLeft
  <2>. SUFFICES ASSUME oneDevice, ~overlapped
                PROVE  /\ Cardinality({token[i].family : i \in {k \in Rows : Live(k)}}) <= 1
                       /\ Cardinality({j \in Jars : Usable(jar[j].access)}) <= 1
    BY <1>0 DEF OneSessionLeft
  <2>1. OneChainLives /\ OneBrowserLives
    BY DEF SInv, Alone, Quietly
  <2>2. \A a, b \in {token[i].family : i \in {k \in Rows : Live(k)}} : a = b
    BY <2>1 DEF OneChainLives
  <2>3. \A j \in Jars : Usable(jar[j].access) => Alive(j)
    BY DEF Usable, Alive, Fresh
  <2>4. \A a, b \in {j \in Jars : Usable(jar[j].access)} : a = b
    BY <2>1, <2>3 DEF OneBrowserLives
  <2>. QED
    BY <2>2, <2>4, AtMostOne
<1>4. EndedStaysEnded
  <2>. SUFFICES ASSUME ~overlapped
                PROVE  /\ \A i \in Rows : Live(i) => token[i].issued > cutAt /\ token[i].issued > changed.mints
                       /\ \A j \in Jars : Usable(jar[j].access) /\ jar[j].access.issued <= changed.mints
                                            => now < changed.at + AccessLife
    BY <1>0 DEF EndedStaysEnded
  <2>1. LiveIsSince /\ OldRunsOut
    BY DEF SInv, Alone, Quietly
  <2>2. ASSUME NEW j \in Jars, Usable(jar[j].access), jar[j].access.issued <= changed.mints
        PROVE  now < changed.at + AccessLife
    <3>1. now < jar[j].access.expires /\ jar[j].access.expires <= changed.at + AccessLife
      BY <2>1, <2>2 DEF OldRunsOut, Usable
    <3>2. jar[j].access.expires \in Nat /\ changed.at \in Nat /\ now \in Nat /\ AccessLife \in Nat
      BY <2>2, SessionsAssumption DEF Usable, Shape, Held, Access
    <3>. QED
      BY <3>1, <3>2
  <2>. QED
    BY <2>1, <2>2 DEF LiveIsSince
<1>5. LockedOutAfterHours
  BY DEF SInv, Alone, Quietly, OldRunsOut, SinceOpening, Usable, LockedOutAfterHours
<1>6. SessionsTypeOK
  <2>1. \A i \in Rows : token[i].family \in 1..i /\ token[i].replaced \in 0..Len(token)
    <3>1. \A i \in Rows : token[i] \in Row /\ i \in Nat /\ Len(token) \in Nat
      BY RowsTypes DEF Rows
    <3>. QED
      BY <3>1 DEF Row, RowsThere
  <2>2. \A j \in Jars : jar[j].access \in Access /\ jar[j].refresh \in 0..Len(token)
    BY RowsTypes DEF Shape, Held, RowsThere
  <2>3. \A c \in Calls : /\ call[c].at \in {"idle", "sent", "waiting", "again"} /\ call[c].access \in Access
                         /\ call[c].me \in BOOLEAN
    BY DEF Shape, Asking
  <2>4. cutAt <= mints /\ now <= MaxTime
    BY SessionsAssumption DEF Shape
  <2>. QED
    BY <1>0, <2>1, <2>2, <2>3, <2>4 DEF SessionsTypeOK, Shape
<1>. QED
  BY <1>1, <1>2, <1>3, <1>4, <1>5, <1>6 DEF SessionsHold

\* Whatever tabs, devices, calls and requests there are, and whenever tokens run out:
\* nobody is signed out for a leak there was not, a chain of tokens has one that is good,
\* and staff, what was ended and closing time are kept to (TokenService.rotate,
\* endSessions, assertWithinHours).
THEOREM SessionsHoldAlways == SessionsSpec => []SessionsHold
<1>1. SessionsInit => SInv
  BY SInvAtFirst
<1>2. SInv /\ [SessionsNext]_sessionsVars => SInv'
  BY SInvStays
<1>3. SInv => SessionsHold
  BY SInvHolds
<1>. QED
  BY <1>1, <1>2, <1>3, PTL DEF SessionsSpec

\* Every row, cookie, request and call has the fields the code gives it.
THEOREM SessionsKeepTheirTypes == SessionsSpec => []SessionsTypeOK
<1>1. SessionsInit => SInv
  BY SInvAtFirst
<1>2. SInv /\ [SessionsNext]_sessionsVars => SInv'
  BY SInvStays
<1>3. SInv => SessionsTypeOK
  BY SInvHolds
<1>. QED
  BY <1>1, <1>2, <1>3, PTL DEF SessionsSpec
=============================================================================
