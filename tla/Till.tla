-------------------------------- MODULE Till --------------------------------
(***************************************************************************)
(* One till screen (TillPage) against the server: a cart, the requests it  *)
(* has under way, the draft this browser keeps of it, and the sales the    *)
(* server has recorded.                                                    *)
(*                                                                         *)
(* JavaScript runs one callback at a time, so a step is one event handler  *)
(* or one answered request.  Handlers are guarded by what the screen       *)
(* disables, requests are answered in any order, a reply can be lost while *)
(* the server goes on, and the page can be reloaded at any time.           *)
(*                                                                         *)
(* One product in several selling units: lines of different products never *)
(* merge, and are priced one by one.  Every quantity paid is the whole     *)
(* total or, on credit, less than it.                                      *)
(***************************************************************************)
EXTENDS Integers, SequencesExt

CONSTANTS
  Customers, WalkIn,
  Tiers, TierOf,   \* [Customers \cup {WalkIn} -> Tiers]: a customer's price list, or the default one
  Units,
  Price,           \* [Tiers -> [Units -> Nat \cup {NoPrice}]]
  NoPrice,
  Typed,           \* the prices a cashier may type
  Owes,            \* customers with an unpaid invoice
  None,
  MaxLines, MaxQuantity, MaxSales, MaxAsked, MaxRuns, MaxReloads  \* bounds

ASSUME TillAssumption ==
  /\ TierOf \in [Customers \cup {WalkIn} -> Tiers] /\ WalkIn \notin Customers
  /\ Price \in [Tiers -> [Units -> Nat \cup {NoPrice}]]
  /\ Typed \subseteq Nat /\ Owes \subseteq Customers
  /\ {MaxLines, MaxQuantity, MaxRuns} \subseteq Nat /\ MaxSales \in Nat \ {0}

VARIABLES
  lines, customer, credit,  \* the cart; who buys; whether less than the total is paid
  saleId, recordAnyway,     \* the id this sale will carry
  busy, repricing, repriceRun, camera,
  adding, choosing, asking, \* dialogs: a new customer; which option; the server's refusal
  completed,                \* the sale whose receipt is shown
  asked,                    \* requests under way, except sales
  posts,                    \* sales sent and not answered
  draft,                    \* what this browser keeps
  sold,                     \* what the server recorded, in order
  isManager, short,         \* who is at the till; the stock does not cover the cart
  nextKey, nextSale, reloads,
  meant,                    \* sales the cashier said to record anyway
  together,                 \* two sales have been under way at the server together
  astray                    \* something the till does not guard against has happened, see Astray

cart == <<lines, customer, credit, saleId, recordAnyway>>
screen == <<busy, repricing, repriceRun, camera, adding, choosing, asking, completed>>
server == <<sold, isManager, short>>
counters == <<nextKey, nextSale, reloads>>
history == <<meant, together, astray>>
vars == <<cart, screen, asked, posts, draft, server, counters, history>>

Prices == Typed \cup {Price[t][u] : t \in Tiers, u \in Units}
Line == [key : 1..MaxLines, unit : Units, quantity : 1..MaxQuantity, charged : Prices, list : Prices]
Tier == TierOf[customer]
Overlay == adding \/ choosing # None \/ asking # None
Waiting == \E p \in posts : p.waiting

Drafts == [saleId : 1..MaxSales, lines : Seq(Line), customer : Customers \cup {WalkIn}, credit : BOOLEAN]
ToChoose == [tier : Tiers, saleId : 1..MaxSales]

\* No value is no number, no dialog, no draft and no choice.
ASSUME NoneAssumption ==
  /\ None \notin Nat \cup {"duplicate", "stock", "credit"}
  /\ None \notin Drafts \cup ToChoose

TillTypeOK ==
  /\ lines \in Seq(Line) /\ customer \in Customers \cup {WalkIn}
  /\ saleId \in 1..MaxSales /\ repriceRun \in 0..MaxRuns
  /\ {credit, recordAnyway, busy, repricing, camera, adding, isManager, short} \subseteq BOOLEAN
  /\ choosing \in ToChoose \cup {None}
  /\ asking \in {None, "duplicate", "stock", "credit"}
  /\ completed \in 1..MaxSales \cup {None}
  /\ draft \in Drafts \cup {None}
  /\ \A i \in DOMAIN sold : sold[i].saleId \in 1..MaxSales /\ sold[i].lines \in Seq(Line)
  /\ meant \subseteq 1..MaxSales

Init ==
  /\ lines = <<>> /\ customer = WalkIn /\ credit = FALSE /\ saleId = 1 /\ recordAnyway = FALSE
  /\ busy = FALSE /\ repricing = FALSE /\ repriceRun = 0 /\ camera = FALSE
  /\ adding = FALSE /\ choosing = None /\ asking = None /\ completed = None
  /\ asked = {} /\ posts = {} /\ draft = None /\ sold = <<>>
  /\ isManager \in BOOLEAN /\ short \in BOOLEAN
  /\ nextKey = 1 /\ nextSale = 2 /\ reloads = 0
  /\ meant = {} /\ together = FALSE /\ astray = FALSE

-----------------------------------------------------------------------------
(* The cart's rules, cart.ts. *)

(* Plausible bugs stand before the operator each would replace. *)

\* Bug: a line starts empty, as if its quantity were still to be typed.
AddEmptyLine(ls, u, price, key) ==
  LET same == {i \in DOMAIN ls : ls[i].unit = u /\ ls[i].charged = price}
  IN  IF same = {} THEN Append(ls, [key |-> key, unit |-> u, quantity |-> 0,
                                    charged |-> price, list |-> price])
      ELSE [ls EXCEPT ![Min(same)].quantity = @ + 1]

\* Goods join the first line of the same unit and price, or become a line.
AddToCart(ls, u, price, key) ==
  LET same == {i \in DOMAIN ls : ls[i].unit = u /\ ls[i].charged = price}
  IN  IF same = {} THEN Append(ls, [key |-> key, unit |-> u, quantity |-> 1,
                                    charged |-> price, list |-> price])
      ELSE [ls EXCEPT ![Min(same)].quantity = @ + 1]

\* The answers of one re-pricing, over the cart as it is when they land.
Answered(r, line) ==
  [key |-> line.key, unit |-> line.unit] \in r.rows /\ Price[r.tier][line.unit] # NoPrice

\* Bug: an answer lands on a line that has since changed unit.
RepricingAnyUnit(ls, r) ==
  [i \in DOMAIN ls |->
     LET rows == {row \in r.rows : row.key = ls[i].key /\ Price[r.tier][row.unit] # NoPrice}
         price == Price[r.tier][(CHOOSE row \in rows : TRUE).unit]
     IN  IF rows = {} THEN ls[i]
         ELSE [ls[i] EXCEPT !.list = price, !.charged = IF @ # ls[i].list THEN @ ELSE price]]

ApplyRepricing(ls, r) ==
  [i \in DOMAIN ls |->
     IF Answered(r, ls[i])
     THEN [ls[i] EXCEPT !.list = Price[r.tier][ls[i].unit],
                        !.charged = IF @ # ls[i].list THEN @ ELSE Price[r.tier][ls[i].unit]]
     ELSE ls[i]]

\* The same goods in the same amounts (sales/duplicates.ts): prices are not compared.
Tally(ls) ==
  [u \in Units |-> MapThenSumSet(LAMBDA i : ls[i].quantity, {i \in DOMAIN ls : ls[i].unit = u})]

SameItems(a, b) == Tally(a) = Tally(b)

\* Bug: the draft is dropped when the sale is sent, not when it is accepted.
KeepUntilSent ==
  draft' = IF lines' # <<>> /\ completed' = None /\ posts' = {}
           THEN [saleId |-> saleId', lines |-> lines', customer |-> customer', credit |-> credit']
           ELSE None

\* useKeepDraft: a cart is kept while there is one and its sale is not accepted.
KeepDraft ==
  draft' = IF lines' # <<>> /\ completed' = None
           THEN [saleId |-> saleId', lines |-> lines', customer |-> customer', credit |-> credit']
           ELSE None

\* What the till does not guard against: prices or goods that land after the
\* customer, the sale or a payment under way moved on; a re-pricing that could
\* not move every line; a screen unlocked, by another request's answer, while
\* a payment is under way.
Late(r) == r.tier # Tier \/ r.saleId # saleId \/ Waiting \/ completed # None

Settle(strays) ==
  /\ KeepDraft
  /\ astray' = (astray \/ strays \/ (~busy' /\ \E p \in posts' : p.waiting))

-----------------------------------------------------------------------------
(* Scanning, searching and picking. *)

Request(kind) == [kind |-> kind, tier |-> Tier, saleId |-> saleId]

Ask(r) == Cardinality(asked) < MaxAsked /\ r \notin asked /\ asked' = asked \cup {r}

ScanBoxTaken == camera \/ asking \in {"stock", "credit"} \/ completed # None

\* Adds one unit at the price it was answered with; without a price, nothing.
AddPriced(u, price) ==
  IF price = NoPrice THEN UNCHANGED <<lines, nextKey>>
  ELSE /\ lines' = AddToCart(lines, u, price, nextKey)
       /\ nextKey' = IF Len(lines') > Len(lines) THEN nextKey + 1 ELSE nextKey
       /\ nextKey <= MaxLines /\ \A i \in DOMAIN lines' : lines'[i].quantity <= MaxQuantity

ScanStays == UNCHANGED <<customer, credit, saleId, recordAnyway, repricing, repriceRun, camera, adding,
                         asking, completed, posts, server, nextSale, reloads, meant, together>>

\* Enter with no suggestion highlighted: the text is tried as a barcode.
LookUp ==
  /\ ~ScanBoxTaken /\ Ask(Request("scan")) /\ busy' = TRUE
  /\ UNCHANGED <<lines, choosing, nextKey>> /\ ScanStays

\* A suggestion is already priced on the cart's list, and is added at once;
\* Enter on a highlighted one does so even while the till is busy.
AddFromSearch(u) ==
  /\ ~ScanBoxTaken /\ AddPriced(u, Price[Tier][u])
  /\ UNCHANGED <<asked, busy, choosing>> /\ ScanStays

CameraReads ==
  /\ camera /\ Ask(Request("camera"))
  /\ UNCHANGED <<lines, busy, choosing, nextKey>> /\ ScanStays

\* A code that resolves goes into the cart.  The box's lookup returns here,
\* past the block that would clear busy.
Scanned(r, u) ==
  /\ r.kind \in {"scan", "camera"} /\ asked' = asked \ {r}
  /\ AddPriced(u, Price[r.tier][u])
  /\ UNCHANGED <<busy, choosing>> /\ ScanStays

\* A code on every option of a product: the cashier is asked which.
ScannedOptions(r) ==
  /\ r.kind \in {"scan", "camera"} /\ asked' = asked \ {r}
  /\ choosing' = [tier |-> r.tier, saleId |-> r.saleId]
  /\ UNCHANGED <<lines, busy, nextKey>> /\ ScanStays

\* No such code: the box searches for the text, the camera says so.
NoSuchCode(r) ==
  /\ \/ r.kind = "scan" /\ asked' = (asked \ {r}) \cup {[r EXCEPT !.kind = "search"]}
     \/ r.kind = "camera" /\ asked' = asked \ {r}
  /\ UNCHANGED <<lines, busy, choosing, nextKey>> /\ ScanStays

\* The search finds one product and adds it, or several or none.
SearchAnswered(r, found) ==
  /\ r.kind = "search" /\ asked' = asked \ {r} /\ busy' = FALSE
  /\ IF found = {} THEN UNCHANGED <<lines, nextKey>>
     ELSE \E u \in found : AddPriced(u, Price[r.tier][u])
  /\ UNCHANGED choosing /\ ScanStays

AskFails(r) ==
  /\ r.kind \in {"scan", "search", "camera"} /\ asked' = asked \ {r}
  /\ busy' = (busy /\ r.kind = "camera")
  /\ UNCHANGED <<lines, choosing, nextKey>> /\ ScanStays

PickOption(u) ==
  /\ choosing # None /\ completed = None
  /\ choosing' = None /\ AddPriced(u, Price[choosing.tier][u])
  /\ UNCHANGED <<asked, busy>> /\ ScanStays

CancelOption ==
  /\ choosing # None /\ completed = None /\ choosing' = None
  /\ UNCHANGED <<lines, asked, busy, nextKey>> /\ ScanStays

ToggleCamera ==
  /\ completed = None /\ ~Overlay /\ camera' = ~camera
  /\ UNCHANGED <<cart, busy, repricing, repriceRun, adding, choosing, asking, completed, asked, posts,
                 server, counters, meant, together>>

-----------------------------------------------------------------------------
(* The lines of the cart. *)

\* Bug: the lines stay open to changes while a request is under way.
LinesEnabledWhileBusy == completed = None /\ ~Overlay

LinesEnabled == ~busy /\ completed = None /\ ~Overlay

LineStays == UNCHANGED <<customer, credit, saleId, recordAnyway, repricing, repriceRun, camera, adding,
                         choosing, asking, completed, posts, server, counters, meant, together>>

ChangeUnit(i, u) ==
  /\ LinesEnabled /\ u # lines[i].unit
  /\ Ask([kind |-> "unit", tier |-> Tier, saleId |-> saleId, key |-> lines[i].key, unit |-> u])
  /\ busy' = TRUE /\ UNCHANGED lines /\ LineStays

UnitAnswered(r) ==
  LET price == Price[r.tier][r.unit] IN
  /\ r.kind = "unit" /\ asked' = asked \ {r} /\ busy' = FALSE
  /\ lines' = [i \in DOMAIN lines |->
                 IF lines[i].key = r.key /\ price # NoPrice
                 THEN [lines[i] EXCEPT !.unit = r.unit, !.charged = price, !.list = price]
                 ELSE lines[i]]
  /\ LineStays

UnitFails(r) ==
  /\ r.kind = "unit" /\ asked' = asked \ {r} /\ busy' = FALSE
  /\ UNCHANGED lines /\ LineStays

ChangeQuantity(i) ==
  /\ LinesEnabled /\ \E q \in 1..MaxQuantity : lines' = [lines EXCEPT ![i].quantity = q]
  /\ UNCHANGED <<asked, busy>> /\ LineStays

\* A price is typed, or the list's is put back.
ChangePrice(i) ==
  /\ LinesEnabled
  /\ \E p \in Typed \cup {lines[i].list} : lines' = [lines EXCEPT ![i].charged = p]
  /\ UNCHANGED <<asked, busy>> /\ LineStays

RemoveLine(i) ==
  /\ LinesEnabled /\ lines' = RemoveAt(lines, i)
  /\ UNCHANGED <<asked, busy>> /\ LineStays

-----------------------------------------------------------------------------
(* Who buys, and on which list. *)

PanelEnabled == ~busy /\ ~repricing /\ completed = None /\ ~Overlay

OpenCustomerDialog ==
  /\ PanelEnabled /\ adding' = TRUE
  /\ UNCHANGED <<cart, busy, repricing, repriceRun, camera, choosing, asking, completed, asked, posts,
                 server, counters, meant, together>>

\* changePayment and repriceCart: another list moves every line there is.
ChooseCustomer(c) ==
  LET moves == TierOf[c] # Tier /\ lines # <<>> IN
  /\ PanelEnabled \/ (adding /\ completed = None)
  /\ customer' = c /\ adding' = FALSE
  /\ IF moves
     THEN /\ repriceRun < MaxRuns
          /\ repriceRun' = repriceRun + 1 /\ repricing' = TRUE
          /\ Ask([kind |-> "reprice", tier |-> TierOf[c], run |-> repriceRun',
                  rows |-> {[key |-> lines[i].key, unit |-> lines[i].unit] : i \in DOMAIN lines}])
     ELSE UNCHANGED <<repriceRun, repricing, asked>>
  /\ UNCHANGED <<lines, credit, saleId, recordAnyway, busy, camera, choosing, asking, completed, posts,
                 server, counters, meant, together>>

PayLater ==
  /\ PanelEnabled /\ credit' = ~credit
  /\ UNCHANGED <<lines, customer, saleId, recordAnyway, screen, asked, posts, server, counters,
                 meant, together>>

RepriceStays == UNCHANGED <<customer, credit, saleId, recordAnyway, busy, repriceRun, camera, adding,
                            choosing, asking, completed, posts, server, counters, meant, together>>

\* Only the answer to the latest choice lands.
RepriceAnswered(r) ==
  /\ r.kind = "reprice" /\ asked' = asked \ {r}
  /\ lines' = IF r.run = repriceRun THEN ApplyRepricing(lines, r) ELSE lines
  /\ repricing' = (repricing /\ r.run # repriceRun)
  /\ RepriceStays

\* The lines keep their prices and the till says to choose the customer again.
RepriceFails(r) ==
  /\ r.kind = "reprice" /\ asked' = asked \ {r}
  /\ repricing' = (repricing /\ r.run # repriceRun)
  /\ UNCHANGED lines /\ RepriceStays

-----------------------------------------------------------------------------
(* Taking the payment. *)

CanSubmit == lines # <<>> /\ (credit => customer # WalkIn)

\* One attempt: only the reason just given rides along, and "record anyway".
Submit(reason, allow) ==
  /\ busy' = TRUE
  /\ posts' = posts \cup
       {[saleId |-> saleId, lines |-> lines, customer |-> customer, credit |-> credit,
         reason |-> reason, allow |-> allow, waiting |-> TRUE, stage |-> "sent"]}
  /\ Cardinality(posts') > Cardinality(posts) /\ Cardinality(posts') <= 2
  /\ together' = (together \/ \E p \in posts : p.stage \in {"sent", "checked"})
  /\ UNCHANGED <<lines, customer, credit, saleId, repricing, repriceRun, camera, adding, choosing,
                 completed, asked, server, counters>>

TakePayment ==
  /\ PanelEnabled /\ CanSubmit /\ Submit(None, recordAnyway)
  /\ UNCHANGED <<recordAnyway, asking, meant>>

DialogEnabled == asking # None /\ ~busy /\ completed = None

ConfirmOverride ==
  /\ DialogEnabled /\ asking \in {"stock", "credit"} /\ Submit(asking, recordAnyway)
  /\ UNCHANGED <<recordAnyway, asking, meant>>

RecordAnyway ==
  /\ DialogEnabled /\ asking = "duplicate" /\ Submit(None, TRUE)
  /\ recordAnyway' = TRUE /\ asking' = None
  /\ meant' = meant \cup {saleId}

CancelDialog ==
  /\ \/ DialogEnabled /\ asking' = None /\ UNCHANGED adding
     \/ adding /\ completed = None /\ adding' = FALSE /\ UNCHANGED asking
  /\ UNCHANGED <<cart, busy, repricing, repriceRun, camera, choosing, completed, asked, posts, server,
                 counters, meant, together>>

\* The server's steps leave the screen alone; a sale nobody waits for ends there.
AtServer(p, stage) ==
  /\ posts' = (posts \ {p}) \cup
       (IF p.waiting \/ stage = "checked" THEN {[p EXCEPT !.stage = stage]} ELSE {})
  /\ UNCHANGED <<cart, screen, asked, isManager, short, counters, meant, together>>

\* Bug: sales to nobody in particular are not compared.
AssertNamedBuyerOnly(p) ==
  LET twin == \E i \in DOMAIN sold : /\ sold[i].saleId # p.saleId /\ sold[i].customer = p.customer
                                     /\ p.customer # WalkIn /\ SameItems(p.lines, sold[i].lines)
  IN  /\ p.stage = "sent" /\ UNCHANGED sold
      /\ AtServer(p, IF ~p.allow /\ twin THEN "duplicate" ELSE "checked")

\* Looks for a like sale before, and outside, the sale's own transaction.
AssertNotAlreadyRecorded(p) ==
  LET twin == \E i \in DOMAIN sold : /\ sold[i].saleId # p.saleId /\ sold[i].customer = p.customer
                                     /\ SameItems(p.lines, sold[i].lines)
  IN  /\ p.stage = "sent" /\ UNCHANGED sold
      /\ AtServer(p, IF ~p.allow /\ twin THEN "duplicate" ELSE "checked")

Owing(c) == c \in Owes \/ \E i \in DOMAIN sold : sold[i].customer = c /\ sold[i].credit

\* Stock first, then credit, then the row, whose id is the primary key.
Outcome(p) ==
  IF short /\ p.reason # "stock" THEN "stock"
  ELSE IF p.credit /\ Owing(p.customer) /\ p.reason # "credit" THEN "credit"
  ELSE IF \E i \in DOMAIN sold : sold[i].saleId = p.saleId THEN "error"
  ELSE "recorded"

Record(p) ==
  /\ p.stage = "checked" /\ AtServer(p, Outcome(p))
  /\ sold' = IF Outcome(p) = "recorded"
             THEN Append(sold, [saleId |-> p.saleId, lines |-> p.lines, customer |-> p.customer,
                                credit |-> p.credit])
             ELSE sold

\* What the till makes of an answer; a receipt it could not read is an error.
Reply(p, receiptRead) ==
  /\ p.waiting /\ p.stage \notin {"sent", "checked"} /\ posts' = posts \ {p} /\ busy' = FALSE
  /\ completed' = IF p.stage = "recorded" /\ receiptRead THEN p.saleId ELSE completed
  /\ asking' = IF p.stage = "duplicate" THEN "duplicate"
               ELSE IF p.stage \in {"stock", "credit"} /\ isManager THEN p.stage
               ELSE IF asking = "duplicate" /\ completed' = completed THEN asking
               ELSE None
  /\ UNCHANGED <<cart, repricing, repriceRun, camera, adding, choosing, asked, server, counters,
                 meant, together>>

\* The connection fails while the server may still be at it.
LoseReply(p) ==
  /\ p.waiting /\ busy' = FALSE
  /\ posts' = (posts \ {p}) \cup
       (IF p.stage \in {"sent", "checked"} THEN {[p EXCEPT !.waiting = FALSE]} ELSE {})
  /\ asking' = IF asking = "duplicate" THEN asking ELSE None
  /\ UNCHANGED <<cart, repricing, repriceRun, camera, adding, choosing, completed, asked, server,
                 counters, meant, together>>

\* Bug: a new sale leaves the old cart's re-pricing flag up.
NewSaleKeepsRepricing ==
  /\ \/ completed # None
     \/ ~busy /\ ~Overlay /\ lines # <<>>
     \/ DialogEnabled /\ asking = "duplicate"
  /\ nextSale <= MaxSales /\ saleId' = nextSale /\ nextSale' = nextSale + 1
  /\ lines' = <<>> /\ customer' = WalkIn /\ credit' = FALSE /\ recordAnyway' = FALSE
  /\ completed' = None /\ camera' = FALSE /\ choosing' = None
  /\ asking' = IF asking = "duplicate" THEN None ELSE asking
  /\ repriceRun < MaxRuns /\ repriceRun' = repriceRun + 1 /\ UNCHANGED repricing
  /\ UNCHANGED <<busy, adding, asked, posts, server, nextKey, reloads, meant, together>>

\* "New sale" on the receipt, "Clear", or "Same sale - clear the cart".
StartNewSale ==
  /\ \/ completed # None
     \/ ~busy /\ ~Overlay /\ lines # <<>>
     \/ DialogEnabled /\ asking = "duplicate"
  /\ nextSale <= MaxSales /\ saleId' = nextSale /\ nextSale' = nextSale + 1
  /\ lines' = <<>> /\ customer' = WalkIn /\ credit' = FALSE /\ recordAnyway' = FALSE
  /\ completed' = None /\ camera' = FALSE /\ choosing' = None
  /\ asking' = IF asking = "duplicate" THEN None ELSE asking
  /\ repriceRun < MaxRuns /\ repriceRun' = repriceRun + 1 /\ repricing' = FALSE
  /\ UNCHANGED <<busy, adding, asked, posts, server, nextKey, reloads, meant, together>>

\* Bug: what comes back is given an id of its own.
ReloadFreshId ==
  /\ reloads < MaxReloads /\ reloads' = reloads + 1
  /\ IF draft # None
     THEN lines' = draft.lines /\ customer' = draft.customer /\ credit' = draft.credit
     ELSE lines' = <<>> /\ customer' = WalkIn /\ credit' = FALSE
  /\ nextSale <= MaxSales /\ saleId' = nextSale /\ nextSale' = nextSale + 1
  /\ recordAnyway' = FALSE /\ busy' = FALSE /\ repricing' = FALSE /\ repriceRun' = 0
  /\ camera' = FALSE /\ adding' = FALSE /\ choosing' = None /\ asking' = None /\ completed' = None
  /\ asked' = {} /\ posts' = {[p EXCEPT !.waiting = FALSE] : p \in {q \in posts : q.stage \in {"sent", "checked"}}}
  /\ UNCHANGED <<server, nextKey, meant, together>>

\* A refresh, a crash or a closed tab, at any moment: what was kept comes back.
Reload ==
  /\ reloads < MaxReloads /\ reloads' = reloads + 1
  /\ IF draft # None
     THEN /\ saleId' = draft.saleId /\ lines' = draft.lines
          /\ customer' = draft.customer /\ credit' = draft.credit /\ UNCHANGED nextSale
     ELSE /\ nextSale <= MaxSales /\ saleId' = nextSale /\ nextSale' = nextSale + 1
          /\ lines' = <<>> /\ customer' = WalkIn /\ credit' = FALSE
  /\ recordAnyway' = FALSE /\ busy' = FALSE /\ repricing' = FALSE /\ repriceRun' = 0
  /\ camera' = FALSE /\ adding' = FALSE /\ choosing' = None /\ asking' = None /\ completed' = None
  /\ asked' = {} /\ posts' = {[p EXCEPT !.waiting = FALSE] : p \in {q \in posts : q.stage \in {"sent", "checked"}}}
  /\ UNCHANGED <<server, nextKey, meant, together>>

-----------------------------------------------------------------------------
Adds(r) ==
  \/ \E u \in Units : Scanned(r, u) \/ SearchAnswered(r, {u})
  \/ UnitAnswered(r)

Ends(r) == ScannedOptions(r) \/ NoSuchCode(r) \/ SearchAnswered(r, {}) \/ AskFails(r) \/ UnitFails(r)

Unpriced(r) == r.run = repriceRun /\ \E row \in r.rows : Price[r.tier][row.unit] = NoPrice

Server == \E p \in posts : AssertNotAlreadyRecorded(p) \/ Record(p)

Replies == \E p \in posts : LoseReply(p) \/ \E read \in BOOLEAN : Reply(p, read)

Cashier ==
  \/ LookUp \/ CameraReads \/ ToggleCamera \/ CancelOption
  \/ \E i \in DOMAIN lines : \/ \E u \in Units : ChangeUnit(i, u)
                             \/ ChangeQuantity(i) \/ ChangePrice(i) \/ RemoveLine(i)
  \/ OpenCustomerDialog \/ PayLater \/ \E c \in Customers \cup {WalkIn} : ChooseCustomer(c)
  \/ TakePayment \/ ConfirmOverride \/ RecordAnyway \/ CancelDialog \/ StartNewSale

Next ==
  \/ (Cashier \/ Server \/ Replies \/ \E r \in asked : Ends(r)) /\ Settle(FALSE)
  \/ \E u \in Units : \/ AddFromSearch(u) /\ Settle(Waiting)
                      \/ PickOption(u) /\ Settle(Late(choosing))
  \/ \E r \in asked : \/ Adds(r) /\ Settle(Late(r))
                      \/ RepriceAnswered(r) /\ Settle(Unpriced(r))
                      \/ RepriceFails(r) /\ Settle(r.run = repriceRun)
  \/ Reload /\ Settle(repricing)

Spec == Init /\ [][Next]_vars

-----------------------------------------------------------------------------
(* What a shop relies on. *)

\* No line of a cart is recorded twice, whatever was lost, retried, reloaded or
\* restored between: the id minted with the cart outlives the page, and the
\* server's primary key refuses it the second time.
NoLineSoldTwice ==
  \A i, j \in DOMAIN sold : i # j =>
    \A k \in DOMAIN sold[i].lines, n \in DOMAIN sold[j].lines : sold[i].lines[k].key # sold[j].lines[n].key

\* Payment waits for the prices of the customer chosen last, and for nothing
\* else: the flag that holds it back is up exactly while that re-pricing is
\* unanswered, through changes of customer, failures and abandoned sales.
PaymentWaitsForPrices ==
  repricing <=> \E r \in asked : r.kind = "reprice" /\ r.run = repriceRun

\* A recorded line nobody typed a price for is charged on the buyer's own list,
\* however the re-pricing crossed scans and unit changes, unless the till was
\* led astray.
ChargedOnTheirList ==
  astray \/ \A i \in DOMAIN sold : \A k \in DOMAIN sold[i].lines :
    LET line == sold[i].lines[k] IN
    line.charged = line.list => line.list = Price[TierOf[sold[i].customer]][line.unit]

\* A customer is recorded buying the same goods again only when the cashier said
\* of that very sale to record it anyway, or the two were under way together,
\* when neither look finds the other.
TwinsWereMeant ==
  together \/ \A i, j \in DOMAIN sold :
    i < j /\ sold[i].customer = sold[j].customer /\ SameItems(sold[i].lines, sold[j].lines)
      => sold[j].saleId \in meant

\* The cart behind a receipt is the cart that was recorded, so the next sale
\* takes nothing with it, unless the till was led astray.
ReceiptIsTheCart ==
  astray \/ completed = None \/
    \E i \in DOMAIN sold : sold[i].saleId = completed /\ sold[i].lines = lines

\* Whenever the page goes, a cart not yet accepted comes back as the same sale.
CartComesBack ==
  reloads' # reloads /\ completed = None /\ lines # <<>>
    => lines' = lines /\ saleId' = saleId /\ customer' = customer

\* A sale is recorded once, and a like one only when it was meant.
NothingSoldTwice == NoLineSoldTwice /\ TwinsWereMeant

\* The prices charged are those of whoever buys, and payment waits for them.
PricedForTheBuyer == PaymentWaitsForPrices /\ ChargedOnTheirList

\* A cart lasts until its own sale is recorded, and no longer.
CartEndsWithItsSale == [][ReceiptIsTheCart' /\ CartComesBack]_vars
=============================================================================
