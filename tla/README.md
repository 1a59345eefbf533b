# A verification project for stock-mgt

TLA+ models of the parts of this repository where money and goods can go wrong: the stock
ledger, stocktakes, sales, returns, corrections and payments, deliveries and what is owed for
them, the office services, the feeds and reports, and the pieces of the browser that keep state of
their own: the till, the session and the recording forms. TLC checks the models on small instances; TLAPS
proves the central results for instances of any size. Paths below are relative to the
repository; `stock.service.ts` and the like are under `src/modules/…`, `web/…` is the client.

## 1. The system

stock-mgt is a NestJS server over one PostgreSQL database, with a React client in `web/`. A
request is served by one handler that awaits its statements one after the other; many requests
are served at once. Writes that belong together run in `prisma.$transaction`, at PostgreSQL's
default isolation, **READ COMMITTED**, and no code takes an explicit lock (no `FOR UPDATE`, no
advisory lock; only `StaffService.create` is serializable). So:

- a statement sees what is committed when it starts, plus its own transaction's writes;
- an `UPDATE` locks its row until the transaction ends and starts from the latest committed
  value – `quantity: { increment: n }` never loses an update, but *read, decide, write* can;
- two transactions that lock two rows in opposite orders wait for each other until the
  database ends one of them; a unique violation leaves a transaction unusable.

Handlers also read *before* opening their transaction, and some end with a second statement
outside of one. Those stale reads and half-done writes are where the server is hard. In the
browser one callback runs at a time, but answers come in any order, late, or not at all.

### Components

| Component | State it keeps | Operations | Interacts with | Hard behaviour | Correct when | Model |
|---|---|---|---|---|---|---|
| Stock ledger (`inventory/stock.service.ts`, `stock-operations.service.ts`, `fefo.ts`) | append-only movements, cached balance per product, option, location and lot | in, out (FEFO), forced shortfall, transfer, adjust, move into an option | called by sales, returns, deliveries, stocktakes | pick read without a lock; cache kept beside the ledger; row creation races; lock order | balance = sum of movements; negative only by force; transfers neutral | `Fefo`, `StockLedger` |
| Stock levels and rebuild (`stock-level.service.ts`) | none; replaces the cache | levels, movements, rebuild | ledger | sums read before the transaction that replaces the cache | the cache is the ledger after it, unless a movement crossed it | `StockLedger` (the rebuild) |
| Stocktake (`inventory/stocktake.service.ts`) | counts, their lines and status | open, count, remove, post, cancel | posts into the ledger while sales go on | status and lines read before the transaction; a count outlives sales and new options | posted once; correction = variance; moves keep lots | `Stocktake` |
| Idempotent writes (`common/idempotency`) | one row per key: claim or stored reply | claim, replay, take over, complete, release; nightly sweep | wraps the handlers of creating endpoints | death between commit and reply, stale claims, deletion by id | work done at most once; every reply is that work's | `Idempotency`, `OnceOnly` |
| Sales (`sales/sale.service.ts`) | invoices, lines, `nextSaleNumber` | create | ledger, payments | stock, number, credit rule and payment in one transaction | numbers without gaps; whole sales only; credit rule | `StockLedger` (stock, numbers), `Receivables` (money), `Till` (warnings and refusals) |
| Sale returns (`sale-return.service.ts`) | return rows, `return_in` movements | create | sale's movements, ledger, balances | reads what came back outside the transaction; refills lots from scratch | never more than sold; lots as they left; refunds as charged | `SaleReturns`, `Receivables` |
| Sale corrections (`sale-correction*.ts`) | totals, lines, customer, replaced payments | plan, apply | payments, returns | payments follow prices; voids in between | total = lines; no payment replaced twice | `Receivables` |
| Receivables (`payments/*`) | payments and their allocations | create, void, balance | invoices | plan made on balances read before the transaction | no payment overspent; no debt overpaid; own account | `Receivables` |
| Receiving, opening stock (`receiving.service.ts`, `delivery-fee.ts`, `opening-stock.service.ts`) | receipts, lots, costs, fee shares | receive, enter opening stock, put its cost right | ledger, payables | a product opened twice by two requests, or after it was delivered | lots cost what was charged and borne; what ever came in is not opened | `Deliveries`, `DeliveryFee` |
| Delivery corrections (`delivery-correction.service.ts`) | the same rows | correct, reverse | payables | bill's new amount written from a read; fee re-split; goods already sold | the bill follows the goods; a lot is its line | `Deliveries` |
| Payables (`payables/*`) | bills, payments, rebates | bill, pay, void, expect, credit, remove | deliveries | balance checked without a lock | no bill overpaid except by an edit; statement adds up | `Payables` |
| Till (`web/src/till/TillPage.tsx`, `cart.ts`, `draft.ts`) | cart, dialogs, draft in this browser | add, price, pay, override, put aside, come back | sales, price lists | answers out of order, lost replies, reloads | no line sold twice; paid at the buyer's prices; the cart ends with its sale | `Till` |
| Sessions (`auth/*`, `web/src/api/client.ts`, `AuthProvider`) | chains of refresh tokens, the cut, cookies per browser | sign in and out, refresh, end, suspend, change password | staff, working hours | two tabs refresh at once; ends while a refresh is under way | rotation never taken for a leak by mistake; what was ended stays so | `Sessions` |
| Recording forms (`web/src/…`: `ReceiveDeliveryPage`, `TransferDialog`, `AdjustDialog`, `CorrectDeliveryDialog`, `CorrectSaleDialog`, `ProductForm`, the money dialogs, `lib/draft.ts`) | what is typed, the id sent along, what a check answered, a kept draft | type, check, save, leave, come back, give up waiting | every creating endpoint, the idempotency key | an answer lost or late, a second press, a form opened since | one entry however often sent; what was checked is what is saved; what was typed comes back | `Forms` |
| Accounts (`auth/auth.service.ts`, `users/*`) | users, codes, reset links, the first shop | sign up by code, by username, from the command line, with Google; verify, resend, forget, reset; nightly sweep | sessions, staff | Google writes in four statements; a sweep by the code's date; three statements for a password | a complete shop for everybody and one each; one use of a link; an old password opens nothing | `Accounts` |
| Cash and expenses (`cash/*`, `expenses/*`) | bankings; cash paid out | bank, confirm, dispute | payments | check then write | banked within what is held; confirmed by another; refused stays refused | `Cash` |
| Staff (`staff.service.ts`) | memberships | add, change, suspend, bring back | sessions | seat cap and "an owner must remain" checked outside a transaction on some paths | cap kept; an owner remains | `Staff` |
| Customers (`customers/*`) | customers, merges | add, merge, remove | sales, payments | a sale names the customer being merged away | books name who is there; a merge adds up | `Customers` |
| Lists with a default (`price-tier`, `location`, `bank-account` services) | entries, one flagged | add, rename, set default, remove | sales, stock, payments | default set and others cleared in two statements | one default at most, one at least; nothing behind what is removed | `Lists` |
| Catalogue (`catalog/product.service.ts`) | units, prices, options, barcodes | create, edit, attach codes | till, stock | row written before the transaction that may be refused; edits from stale units | base unit stays; the till sells what is priced; one label | `Catalog` |
| Sync feed (`keyset-cursor.ts`, the `findAll`s) | none (the cursor is the client's) | page | ledger, sales, payments, expenses | rows become visible out of timestamp order | no row skipped; a device catches up | `SyncFeed` |
| Reports (`reports/report.service.ts`) | none | profit, slices, trend, new customers, alerts, dead stock | everything recorded | the same figure by several roads; history that changes afterwards | slices come to the total; the past stands | `Reports` |
| Periods (`reports/period.ts`) | none | today, months, ranges | reports | days of 23 and 25 hours | whole days, each once | `Periods` |
| Product import, targets and margins, working hours, documents, tenancy, housekeeping, organization, mail and images, command line, other screens, schema | records | CRUD, parsing, layout, reads | – | parsing and layout; `PROJECT.json` gives the reason for each | – | not modelled |

`PROJECT.json` lists every component with its status, and under `hazards` every place where
this code is exposed to something a test would hardly reach, with the property that watches it
or the reason none does.

## 2. How the modules are laid out

```
Fefo ──┬── StockLedger ── StockLedgerProofs
       ├── Stocktake
       └── SaleReturns ────────────────┐
Receivables ── BooksProofs             ├── MCBooks        the books and the goods of sales
       └───────────────────────────────┘
OnceOnly <── implemented by ── Idempotency
Idempotency, Stocktake, Forms ──┬── MCOnce
                                └── OnceProofs
Payables ──┬── Deliveries ── PurchasingProofs     Deliveries ── MCDeliveries
DeliveryFee┘
Till, Sessions ──┬── MCTill
                 └── TillProofs
Desk ── Cash, Staff, Customers, Lists, Catalog, Accounts ──┐
SyncFeed, Reports, Periods, Fefo ──────────────────────────┴── MCOffice
Periods, Fefo ── PureProofs           the days and the pick, for any arguments
MCOffice, PureProofs ── OfficeProofs
SyncFeed, Reports ── BooksProofs
SumLemmas: finite sums and orders, for the proofs
```

The MC modules hold the finite instances. Components that share no state share one: `MCOnce` (the
key, the count, the form), `MCBooks` (money and goods of sales), `MCTill`, `MCOffice`. There a
variable `part` is chosen in the initial state, the part it names takes the steps and the others
stand still, so that the state space is a sum and not a product; `Parts` in the `.cfg` says which
parts an instance follows.

Conventions, the same everywhere:

- A request is a process: `pc` or `doing` says where it is, `op`/`ask` what it asks,
  `seen`/`sheet`/`onHand` what it has read. What is *read before* and *written after* are separate
  steps; what one transaction writes without anyone being able to see the middle is one step.
- `overlapped` is a history variable: two requests have been under way together. A property
  `overlapped \/ P` (or `[][~overlapped => A]_vars`) is what the code promises to callers
  that do not overlap; a property without it holds in **every** interleaving. Which of the two
  a property is, is a finding in itself – §5 says what is lost when requests overlap. Narrower
  histories (`crossed`, `cut`, `mutual`, `late`, …) name the one overlap that matters.
- "Plausible bugs" are operators that stand beside the definition they would replace (a
  dropped guard, a reset forgotten). Every property of every passing run is falsified by at
  least one of them; `PROJECT.json` has the pairs.
- Related invariants are grouped: a run lists the group, the group is the conjunction of parts
  that are stated one by one just above it (§3 names them).

**Fefo.** `AllocateFefo` folds the loop of `allocateFefo` over the lots in the order of `sortFefo`
(`Earlier`: expiry, undated last, then receipt, then id), the last of a set of lots after the others.
`IsFefoPick` says the same without
a loop, and is what `StockLedger` uses in its guards.

**StockLedger.** One product; a *shelf* is a location together with an option or none, a *key* a
shelf and a lot. A request is one transaction: `Begin`, then per line `ReadOut` (recordOutbound up
to its first write), `ReadIn` (recordInbound) or `ReadOptions` (moveIntoVariant when a product gets
its first options), `Bear` (the lot that bears a forced shortfall), `Move` (movement +
`applyToBalance`: the update that waits for the row's lock), `InsertResolves` (a row somebody
else was creating), `EndLine`, then for a sale `TakeNumber` (increments
`organization.nextSaleNumber`, which locks it) and `EndSale`; `RollBack` undoes everything and
`DeadlockAbort` is the database ending a circle. `SumLedger`, `Compare` and `Replace` are the
rebuild of StockLevelService.
`bal`, `ledger`, `rows`, `forced`, `nextNumber` are committed state; `written`, `moved`,
`forcedBy` the open transactions' own. Movements are invisible until commit, so inserting one and
updating its balance are one step.

**Stocktake.** `stock` is what the ledger says and `shelf` what is really there; `Sell` and
`Deliver` move both. `Check` is the read-and-refuse part of each request, then `Open`, `Count`,
`RemoveLine`, `Cancel`, `AddOptions`, and for a posting `Measure` (reads the ledger in its
transaction) and `Post` (`postProduct`: short lines first, what answers another option's surplus as
a move on the same lots, the rest written off FEFO; then over lines).

**SaleReturns.** One product on the lines of one sale, picked FEFO from a shelf. `ReadSale` is the
sale with its return rows, `TakeBack` the transaction: for each line in turn `StillOut`, the option
rules, `Restore` – the sale's movements of that option, newest first, each refilled with what it
took or what is left – and the row with its refund.

**Receivables.** Invoices with line totals, payments with what they settle of each invoice. `Read`,
then one of `Pay` (planAllocations / allocateOldest), `Void`, `Sell` (the money of a sale, with
assertMayTakeCredit), `Return` (a whole line), `Correct` (planSaleCorrection and apply). All
balances are computed, as in `balance.ts`: total − live allocations − refunds. `AllocateOldest` says in
closed form what the loop of `allocateOldest` leaves: each invoice of the payment's own sign gets
what the older ones left of it.

**Idempotency and OnceOnly.** One key, any number of attempts. `Claim` (insert under the unique
constraint), `Find`/`FindGone`, `Takeover` (updateMany guarded by the createdAt that was read),
`Work`/`WorkFails` (the handler), `Complete`, `Release` (delete by id), `Die`, `Sweep`
(housekeeping), `Tick`. `regime` fixes, for a whole behaviour, which faults may happen and whether
the handler's row carries the client's own id. `OnceOnly` is the abstract promise: the work is
performed at most once and every caller that is answered gets that performance's answer.
`Performed` is the refinement mapping.

**Forms.** One form of one kind on one person's screen. A kind is a record of what tells the forms
apart: when the id sent along is minted, what the server knows a repeat by and makes of one, whether
what is typed is kept, checked first, locked while saving, sent in two requests, or sent by the page
behind the dialog. `OpenForm`, `TypeIn`, `Press`,
`Leave`, `CancelForm` and `Reload` are the person; `Serve` is the server (`Record`, `Rewrite`, `Agree`
or `Refuse`); `Answer` and `GiveUp` are the browser. What keeps or drops the draft is part of each.

**Payables.** A handler looks at the rows (`ReadBooks`, `Permitted`), refuses or not, and writes one row: `Enter`,
`Edit`, `Remove`, `Pay`, `Void`, `Expect`, `Reestimate`, `Drop`, `Credit`, `Uncredit`. Whether the
look is inside the transaction makes no difference without a lock, so it never is.

**Deliveries and DeliveryFee.** Composed with Payables through the bill: `Deliver` writes receipt,
lots, fee shares (`SplitFee`, largest remainders), bill and payment in one transaction; `Correct`
is planCorrection – new figures, a wrong product, a wrong option, the fee – over a sheet read
earlier, refusing what was sold unless forced; `ReadOpening`, `RecordOpening` and `CorrectCost` are
opening-stock.service. `stocked` is what `stockedAt` finds: goods with a movement in, whatever was
taken back since, so goods delivered and corrected away are still refused (`ComeIn`, `BroughtIn`;
transfers and returns bring goods in too, and are not in this module). `overtaken` and `late` are
histories: requests whose goods came in between their look and their write, and requests that
opened goods that had come in.

**Till.** One screen, one action per handler of the cart, the customer and the dialogs, one per
answer (prices, search, options, recording) and `Reload`. Requests are answered in any order, and a
reply may be lost after the server did the work. `saleId` is minted once per cart and kept in the
draft; `recordAnyway` and the overrides are the second attempt.

**Sessions.** Tabs share a browser's cookies; calls of a tab share one refresh. A worker is a
sign-in, refresh or sign-out at the server with its reads and its writes apart (`ReadToRotate`,
`Mint`, `Store`, `Replace`); `SignOutByOwner`, `Suspend` and `ChangePassword` end chains meanwhile. Token rows are kept in the order made, and `mints` orders
them against cuts.

**Desk** is the skeleton of an office handler (`Take` the reads, `Finish` the write, `GoOn` between
two statements). **Cash**: `StillHolding` is what a person took less what they paid out and banked.
**Staff**: only `create` is serializable. **Customers**: `Merge` moves what names the duplicate in
one transaction; a sale or payment that read it before still names it. **Lists**: `Update` and
`ClearOtherDefaults` are two statements, and a request may end between them (`CutShort`).
**Catalog**: an edit is the product's row and then `CommitEdit` or `RollBackEdit`, one transaction
over the units as read, in which of the rows that say the same of the same the last stands
(`WriteUnits`, `WritePrices`, `WriteOptions`); `ListTier`, `TillTier` and `ResolveUnitPrice` are what the products list and
the till make of the rows.
**Accounts**: `InOneTransaction` is what `register` and `createVerifiedOwner` write at once, and
`GoogleUser`, `OpenShop`, `JoinShop`, `SeedOrganizationDefaults` what `googleLogin` writes in turn;
`InvalidateLinks` and `MintLink` are forgotPassword, `UpdatePassword`, `MarkAsUsed` and
`RevokeAllForUser` every change of a password, `CleanStaleUnverifiedUsers` the sweep, one statement.
A password is a number, a code and a link the time until which they are good. `SignInCandidate` is
who a staff name and a password let in.

**SyncFeed.** A row takes its timestamp when its statement runs and is seen when its transaction
commits; the device reads to `now − Lag`. **Reports** computes each figure from sales and returns,
the way each query does it, so that figures shown side by side can be compared. **Periods** has
instants in hours, a zone whose clock moves once, and days found by `zonedStartOfDay`.

## 3. Runs

Listed properties in bold, with the parts they conjoin.

| Run | Checks | Shows |
|---|---|---|
| `stock_concurrent` | **CacheMatchesLedger**, **NumbersSequential**, **BalancesExplained** (NegativeLotWasForced, StockUnderAnOption), **MovesComeOutEven** (TransfersConserve, SalesTakeTheirLines), liveness **EveryRequestEnds** | two requests of all kinds, a rebuild and the save of first options among them, interleaved statement by statement: cache and ledger agree through races, rollbacks and deadlocks; every request ends |
| `once` | **OneHolder**, **NoBorrowedAnswer**, **ImplementsOnceOnly**; **CountedOnce** (OneOpenCount, PostedOnce), **PostingIsTheVariance** (CorrectionIsTheVariance, MovesKeepTheirLots); **FormMakesOneEntry** (RecordedOnce, ToldIsRecorded), **FormKeepsWhatIsTyped** (SavedAsChecked, TypingIsKept) | the interceptor implements `OnceOnly` under both safe regimes; a posting moves stock by exactly its measured variance in every interleaving; each of the 18 forms makes the one entry it says it made |
| `books` | **MoneySettlesOnce** (PaymentNotOverspent, ReplacedOnce, OwnAccountOnly), **InvoiceAddsUp** (TotalIsItsLines, RefundAgreesWithPrice), **OwingAsAllowed** (NeverOverAllocated, CreditRule, WalkInNeverOwes); **ReturnsAddUp** (ReturnedWithinSold, RestockedIsOnTheShelf, FirstBackWithinItsLots, FirstBackInReverse, RefundedAsCharged) | no payment is overspent or replaced twice, always; the books stay straight when requests do not overlap; what comes back is on the shelf, in order, and refunded as charged, and within what was sold when visits do not overlap |
| `purchasing` | **AccountAddsUp** (PaidWithinDue, SettledBillIsThere, StatementAddsUp), **DeliveryAddsUp** (BillFollowsTheGoods, LotIsItsLine, CostsAddUp, ShortOnlyByForce, OpeningOnce), **CreditsHold** (OnlyAnEditUndercuts, CreditStays) | bills follow goods, lots cost what was charged and borne, nothing is paid over what is due except by editing a bill below it; overlapping or not, goods that ever came in – gone since or not – are opened only by a request that they came in upon between its look and its write |
| `till` | **NothingSoldTwice** (NoLineSoldTwice, TwinsWereMeant), **PricedForTheBuyer** (PaymentWaitsForPrices, ChargedOnTheirList), **CartEndsWithItsSale** (ReceiptIsTheCart, CartComesBack), **SessionsHold** (NotTakenForReuse, OneLiveTokenPerChain, OneSessionLeft, EndedStaysEnded, LockedOutAfterHours) | what a browser keeps survives answers in any order, refusals, lost replies, a reload and several tabs |
| `office` | **PeopleGetIn** (ShopIsComplete, NobodyLockedOut, OneShopEach, OneUseOfALink, OldPasswordOpensNothing, SweepSparesTheActive), **CashIsAccountedFor** (ConfirmedByAnother, BankedWithinHeld, RefusedStaysRefused), **StaffStayManaged** (SeatsWithinPlan, OwnerRemains), **AccountsFollowMerges** (BooksNameTheLiving, MergesLeadSomewhere, MergeAddsUp), **ListsKeepADefault** (OneDefaultAtMost, DefaultRemains, NothingBehindTheRemoved), **CatalogFitsTheTill** (BaseUnitStays, TillUnitIsSold, ListShowsTillPrice, SomeOptionOnSale, OneLabel, OtherPricesStay), **FeedMissesNothing** (NothingSteppedOver, BrowsedToTheEnd), **FiguresAgree** (SlicesComeToTheTotal, PeriodsAddUp, DaysShownAgree), **PastStands** (ReturnsLeaveThePast, OptionsKillNothing), **PureFunctionsAgree** (LoopIsThePick; DaysAreWhole: TodayIsNow, TrendHasEachDay, CustomIsTheDaysNamed, SameSpanIsAsFar; NamesAreEnough; OldestIsWhatIsLeft), liveness **DeviceCatchesUp** | the office services, feeds, reports, periods and the FEFO pick, each followed on its own |
| `stock_create` | **violated**: NoRequestFails | finding 1 |
| `books_infull` | **violated**: PaidInFullStaysSo | finding 2 |
| `books_lots` | **violated**: LotGetsBackWhatItGave | finding 3 |
| `reports_undone` | **violated**: ReturnUndoesTheSale | findings 4 and 5 |
| `forms_twice` | **violated**: OneTransferHoweverManyAttempts | finding 6 |
| `forms_checked` | **violated**: ChangingClearsTheCheck | finding 7 |

Each passing run checks its `TypeOK` too (`AllTypesOK` where parts share a run). `CHECK_DEADLOCK FALSE` is said where the instance has
finitely many requests, sales or ticks and really stops when they have run out.

**Bounds and why they suffice.** Races here are between *two* requests over one row, one key or
one invoice; a third is included where a race needs a witness afterwards (a retry that finds
the result, a later sale, a second correction). Quantities up to three over lots of one to three
give every split: exact, spilling into the next lot, short, forced, and negative. Lots include
equal and missing expiry dates. Symmetry is used over requests that are interchangeable, only in
runs without liveness.

- `stock_concurrent`: 2 requests, 2 places (with and without the first option), 5 lots, both ages
  of cache; `MaxQuantity` 2.
- `once`: *keys* – 3 attempts of one call and one with another body, a claim stale at 2 and a reply
  kept for 3 ticks, clock 0..4: long enough to become stale, be taken over, and be swept; *counts* –
  2 counts, 2 requests, 3 shelves, 3 lots, a sale or a delivery meanwhile; *forms* – a form opened
  twice, 4 presses and 2 edits over both: a late answer meets the form opened since, and a press
  follows a press that was given up on.
- `books`, `purchasing`: 3 requests; accounts, sales and books that are part paid, settled, returned
  or credited at the start.
- `till`: one till in two slices – *prices* (everything the cashier and the answers do to the cart,
  up to a payment that meets no refusal, for as long as nothing went astray) and *sale* (refusals,
  overrides, lost replies and a reload over a cart filled from the search) – with 2 lines, 2 sales,
  2 requests under way, 3 repricings. Sessions in two slices – *alone* (one request at a time in
  one tab of each of two browsers, expiry, suspension for good, one change of password, an answer
  lost only to a sign-out) and *shared* (a manager signed in once, calls in two tabs of one
  browser, the sessions ended once, followed until two tabs refresh at once).
- `office`: one part at a time, so that the state space is a sum and not a product; no property
  relates two parts. *cash* (one handler, one banking, 2 takings) and *bankings* (2 handlers, 2 bankings of 1
  over fixed takings); *staff* (3 members, 2 seats, a change names a role or a status); *customers*
  (3 customers, an invoice and a payment, 2 merges); *tiers, places, accounts* (2 entries of the
  kind, 2 handlers, goods above and below nothing in the van); *units, prices, codes* (2 edits at
  once out of 7, 8 and 2, wrong ones among them; the second of two on prices names a price); *feed* (2 rows, one rewritten, lag 1, pages of 1)
  and *browse* (3 rows, a reader paging back, one rewritten); *reports* (3 days, 2 sales and a return,
  all entered on the last day with any date) and *alerts* (stock of one product, one sale of it and
  what is put back); *passwords* (one person, one request at a time with everything that changes a password,
  2 links, 2 ticks, until a request dies) and *sign up* (one person, 2 requests at once, 2 shops, the
  sweep at the next tick) and *names* (every roster of 3 people with 2 names and 2 passwords, 2 looked
  at); *periods* (a 6-hour day, 3 months, every zone shift of an hour at 16 instants); *pick*
  (4 lots with ties, one below zero, picks 1..3). Where two handlers are alike the second takes
  something up only while the first is at work (`FirstIsBusy`).

**Fairness.** Two places assume any.
`FairSpec` of StockLedger: weak fairness of `Step(t)` for every open request. The server awaits
each statement and a blocked statement is woken when the row's holder ends, so a step that stays
possible is taken; nothing makes a client begin a request, and `Begin` is not fair. PostgreSQL's
deadlock detector is part of `Step`: it acts on every circle after `deadlock_timeout`.
`FeedFairness` of MCOffice: time passes (WF `Tick`), the device keeps asking (WF `Pull`: the sync
endpoints are polled) and of the pages it asks for some arrive (SF `Receive`: a page may be
lost every so often, not for ever). Writers are not fair.

## 4. What is proved

For **any** constants satisfying the modules' assumptions (any number of requests, lots,
shelves, attempts, and any bounds):

- `SpecTypeOK`, `CacheIsTheLedger` (StockLedgerProofs): the state keeps its type and every cached
  balance is the sum of its committed movements, unless a rebuild crossed another request.
  `CacheMatchesLedger` alone is not inductive: a commit copies `written` into `bal` and adds
  `moved` to `ledger`. The strengthening `IInv` adds what an open transaction knows: a row it holds
  stands at the committed balance plus its own movements (`HeldExact` – true because nobody else
  can commit that row meanwhile), it has moved nothing on rows it does not hold (`UnheldUnmoved`),
  where there is no row the balance is zero (`NoRowNoStock`), and a request's current line is one
  it has (`LineOpen`). For the rebuild it adds that one writes nothing but its replacement
  (`RebuildOnly`), that its sums are of every shelf and lot (`SumsCover`), that while it has not
  overlapped nobody else is open (`RebuildAlone`) and so its sums are still the ledger's
  (`SumsCurrent`).
- `InvoiceNumbersSequential` (StockLedgerProofs): the numbers of recorded sales are exactly
  1..n, each once. The strengthening is `CounterHeld`: from taking a number to its end a sale
  holds the counter's row, and its number is still the next – which is why a rollback leaves no
  gap (DECISIONS.md wants gap-free numbers).
- `BalancesAreExplained` (StockLedgerProofs): while requests do not overlap no balance is below zero
  but where a movement was forced, and once the product has options nothing is left under none. Half
  way through a line both are false of what has been written: a pick leaves a shelf in several
  movements and the save of the first options empties one shelf before it fills the other. So the
  invariant (`BInv`) speaks of what a balance comes to once the line is written (`Coming` = committed
  + moved + still to move): each step of the line leaves it alone, and only reading the next line
  changes it, by a pick that `IsFefoPick` says takes no more than there is – anything beyond is
  `lack`, and borne only by force (`LineIsAt`). For options, nothing is brought under none but by a
  transfer that will be refused (`LeavesNonePlain`).
- `MovementsComeOutEven` (StockLedgerProofs): `MovesComeOutEven`, in every interleaving: a committed
  transfer, and the move into a first option, leave every lot's total as it was, and a committed sale
  takes off the ledger exactly what its lines say. The invariant (`EInv`) counts what a request has
  moved together with what it has still to move: over all shelves that comes to nothing for every lot
  (`EvenOut`), or to the lines read so far, short of what is still to be borne (`TakesAsked`). Writing
  a movement changes neither; a pick changes the second by its line, because what `IsFefoPick` takes
  and what is short come to the quantity. That the first options get what the shelves without one give
  up needs `OptionOf` to send no two shelves to one (`SumByParts`).
- `PromptOneHolder` (OnceProofs): while no handler outlives `STALE_CLAIM_MS`, one request
  at a time works on a key. The invariant relates each holder's `readAt` to the row's
  `createdAt`: a takeover needs a claim older than any prompt holder can be.
- `InterceptorImplementsOnceOnly` (OnceProofs): under either safe regime `Spec`
  implies `OnceOnly`'s specification, as a step simulation from an invariant that ties the
  stored answer, the answers given and the work done together. The regimes are: (a) a process
  may die before its commit and a release may fail, but a commit is promptly followed by storing
  its reply; (b) anything may go wrong, and the handler's row carries the client's own id.
- `NobodyGetsAnothersAnswer`, `IdempotencyTypes` (OnceProofs): in every regime no attempt is
  answered with what was stored for another body. The strengthening (`SameCall`) is that whoever
  takes over or works on a row has its body, and so has whoever's answer is stored in it.
- `AShelfIsCountedOnce` (OnceProofs): `CountedOnce`. What a request that is to open or post
  has seen is tied to what there is: while openings do not overlap nobody else can have opened a
  count between the look and the insert.
- `AFormMakesOneEntry`, `AFormKeepsWhatIsTyped`, `FormsKeepToTheirTypes` (OnceProofs): for any
  number of forms, presses and edits. The invariant follows the id: one minted with a form stays
  with its matter from screen to draft to request to entry (`IdsFollow`); unless an answer was given
  up on one request is under way for a matter, and the one that made its entry is the last
  (`OneCallEach`, `EntryIsLast`); and what a screen says was checked is what is typed, or something
  was typed while the check was under way (`CheckFollows`).
- `MoneyReceivedSettlesOnce`, `InvoicesAddUp`, `NobodyOwesUnallowed`, `BooksKeepToTheirTypes`
  (BooksProofs): for any accounts, opening invoices and requests, and sums of any length. The
  strengthening is `BooksTypes` – the rows, what a request read of them, and the fact that rows are
  only added or rewritten in place, so that what was read still names rows that are there – and
  `Alone`: while requests have not overlapped, the one under way has read what the tables still
  hold. What a payment, a price put right and a payment replaced do to a balance then follows from
  sums that differ in one summand (`PaySettles`, `CorrectionSettles`). `PaymentNotOverspent` and
  `ReplacedOnce` need no `Alone`: they hold in every interleaving. In the general case a *total* is
  any integer: overlapping corrections may leave one that is not the sum of its lines, and later
  differences may take it below zero, so `TypeOK` asks for no more.
- `VendorsAccountAddsUp`, `VendorsCreditsHold` (PurchasingProofs): for any bills, payments, rebates,
  deliveries and requests, deliveries and their corrections writing bills too. The strengthening is
  `Quiet`, while requests have not overlapped: the books are `Sound` (nothing counts on a bill that is
  not live nor beyond what it came to, and a credit is on a bill of its vendor's), at most one request
  is about to write, and what it was let through for still holds of the rows (`OneWrites`). Each write
  then has a lemma of its own (`BillIsRepriced`, `PaymentIsMade`, `RebateIsWritten`, …) on sums that
  differ in one summand. The three totals of a statement come from three queries; they agree because
  each counts, bill by bill, what the others count (`StatementOfSoundBooks`, by `SumByParts`).
- `FeeIsSharedFairly` (PurchasingProofs): whatever the fee and the lines of a delivery, the shares
  `splitDeliveryFee` hands out are whole, come to the fee exactly, are each less than one off the
  line's exact part, and never put a dearer line below a cheaper one. What is left after rounding
  down is at most the number of lines that have a remainder (`QuotientAndRest`), so there are enough
  of them for one more each (`FirstFewAre`).
- `DeliveriesKeepTheirTypes`, `DeliveriesAddUp` (PurchasingProofs): for any deliveries, lines, lots,
  corrections, opening stock and sales. That types are kept, in every interleaving, is an induction of
  its own (`TypeInv`): a correction that read other lines than it finds still writes lines.
  `DeliveryAddsUp` is read off `GoodsInv`. `OpeningOnce` holds whatever overlaps, by an induction
  on the types alone (`OpeningInv`): a request that is to open goods that are in by now was overtaken
  (`LooksOvertaken`), what an opening lot holds came in (`OpenedCameIn`), two such lots of one kind of
  goods have a late request (`OpenedAgainLate`), and no correction, however stale its sheet, touches an
  opening lot, its lines being on lots of deliveries (`LinesOnLots`, `CorrectKeepsLots`). For the
  other parts: while no two requests overlapped, every line has a lot of
  its own that stands at the line's figures plus its share of the fee and holds what the line says
  came, no lot costs anything that no line is left on, a lot nobody brought holds nothing, the shares
  come to the fee, and nothing was opened twice (`GoodsStand`, which the books at the start satisfy
  too); a delivery's live bill is the value of its lines and what was agreed on it beside
  (`BillsFollow`); nothing is short that was not forced (`NoneShort`); and what the request under way
  has read is still so (`Fresh`). A correction changes many lots at once; what it brings to one lot
  of one product is a sum over the changed lines (`BroughtBy`) in which, lots being apart, only the
  line of that lot can count.
- `NothingIsSoldTwice`, `BuyersPayTheirPrices`, `CartsEndWithTheirSales`, `TillKeepsItsTypes`
  (TillProofs): for any customers, lists, prices, carts and answers in any order. A key rung up is of
  one sale wherever it went – cart, request under way, recorded sale – and each was given out before
  (`KeysKept`); of sales under way one at a time is at the server and what it was compared with is
  still what there is (`OneAtATime`); the re-pricings are numbered, the latest is for the list of
  whoever buys, and the flag is up for that one (`RunsInOrder`); and what the browser keeps is the
  cart (`Kept`). As long as the till has not been led astray the screen stands still behind a sale
  waited for (`StandsStill`), and each line is on the buyer's list or in the re-pricing under way
  (`Priced`): what `astray` names (§5) is exactly what this last induction needs to exclude.
- `SessionsHoldAlways`, `SessionsKeepTheirTypes` (TillProofs): for any tabs, browsers, calls,
  requests, hours and lives of tokens. Two inductions, for the two things that can go wrong. Until
  two tabs of a browser refresh at once or an answer is not heard (`crossed`) tokens stay `Apart`,
  whatever else overlaps: a token is in one browser and presented by one request, one just made is
  nowhere yet, and one that was replaced is with a request that only has to be answered – so no
  token presented has been replaced, and none is taken for a leak. While requests do not overlap
  (`Alone`) what the one under way has read is still so (`StillSo`), a chain's live token is its
  newest but for the one about to be replaced (`LiveIsNewest`), nothing live is from before a cut
  (`LiveIsSince`), every access token was minted during hours (`OldRunsOut`), and of staff one
  browser has anything that is let through, the one about to hear of its own (`LeavesOne`).
- `StaffStaysManaged`, `ListsKeepTheirDefault`, `MergesCarryTheAccount`, `CashStaysAccountedFor`
  (OfficeProofs): the seat cap, the owner who remains,
  the default of a list and what lies behind a removed entry, each but for the crossing the code
  does not guard. For staff: a seat that was counted is free until somebody is added, and nobody
  whom an owner is changing is changing anybody (`SeatsKept`, `ChangedByOwners`). For lists: where
  there are two defaults a request is about to clear one, unless it was cut short; and while
  requests do not overlap the one under way finds what it read, every kind that ever had a default
  has one, and what was removed has nothing behind it (`OneOrClearing`, `AsRead`, `Standing`,
  `NothingBehind`). For customers: who is on the list was never merged, so a merge closes no circle
  (`NoCircle`, which says of every set of customers that one of them leads out of it), and what the
  request under way found is still so (`CustomersAsRead`); that a merge carries all of an account
  needs no more than the types. For cash: whoever is about to confirm may (`CashTypes`), and while
  requests do not overlap what is to be banked is held, and what is to be confirmed or voided
  neither confirmed nor voided yet (`CashAsRead`); confirmed and waiting banking together are one
  sum, which each write changes in one row (`BankedOrAwaiting`, `OutChanges`).
- `PeopleAlwaysGetIn`, `AccountsKeepToTheirTypes` (OfficeProofs): for any people, shops, links,
  passwords and requests. Whoever is past proving who they are has a row that is verified or came
  with Google, unless the sweep took it (`RowsAgree`); a shop without its defaults and a person
  without a shop are each in the hands of a Google request that will see to it (`Finishing`, until
  one dies); and while requests do not overlap the one under way carries the password as it is, opens
  a shop only for who has none and mints a link only where every other is used (`Undisturbed`), so
  that a link still good has set nothing and a session older than its password is about to be ended
  (`Undied`).
- `FeedsMissNothing` (BooksProofs): for any rows, page length, lag and order of commits. A page is the
  first so many rows in an order, so whoever is left out of it comes after all of it and the page is
  full (`LeftOut`, in SumLemmas). The device's place stays behind the clock by the lag (`Behind`), so
  that a row committing behind it is `late`, and a page under way brings all there is up to where it
  sends the device (`ReplyCovers`). For whoever pages back, each row there was when they began was
  shown or is still to come (`ReaderSees`), unless it moved meanwhile.
- `FiguresAlwaysAgree`, `PastAlwaysStands`, `ReportsKeepToTheirTypes` (BooksProofs): for any baskets,
  prices, tax rates and dates. Each figure is a sum over lines and returns (`FiguresAre`), which may be
  taken key by key (`SumByParts`) or period by period (`SumOfBoth`), so that nothing depends on
  rounding: a line's tax is rounded once and kept. What the reports divide and the alert multiplies
  out decide alike (`DivisionDecides`). The invariant the figures need is that a return is of a
  line there is and that every item sold or put back has a first day (`LinesKnown`).
- `CatalogAlwaysFitsTheTill`, `CatalogKeepsToItsTypes` (OfficeProofs): for any units, price lists,
  options, codes and edits, whatever an edit lists twice. What an edit under way has read is of the
  units there are, of the same base, and was settled (`ReadsStand`): so what it may write leaves the
  base unit, and only it, of factor one (`OneBaseLeft`), even over units somebody added since, but
  where a new unit was listed twice. While edits do not overlap what was read is all there is, and
  the unit chosen on it is sold (`ChosenIsSold`). Two primary codes of a unit and option are there
  only while a request that attached one of them has yet to clear the other (`LabelsUnderWay`). That
  something is the first, last, smallest or largest of a finite set is an induction of its own
  (`MostThere`).
- `PureFunctionsAlwaysAgree` (OfficeProofs), over every behaviour of the office, and the theorems it
  rests on, each for any arguments. `LoopIsTheOnePick` (PureProofs): what `allocateFefo`'s loop does to a set of
  lots is known from what it does to the set without its last lot, so a smallest set on which it did
  something else is ruled out; there is one pick in FEFO order because two would differ first
  somewhere. `DaysAlwaysWhole` (PureProofs): a zone's clock moves once and by less than a day, so the two passes of
  `zonedStartOfDay` find every midnight that comes once (`MidnightIsFound`), the hours between two of
  them are exactly the days between (`DaysBetween`), and the cursors of a trend step from one to the
  next (`CursorsExist`, for the recursive function). `NameLetsInWhoFits`: who is looked at is
  everybody of that name when they are few enough. `OldestIsLeft`: walking back from the newest taking
  until what is held is covered, and taking what went off the oldest first, meet at the same taking,
  because what came in before it and since add up to all that came in.
- `SumChanges` and the lemmas beside it (SumLemmas): a finite sum is of its type, splits off a
  summand, and changes by what one summand changes. The sums are the community module's folds
  over sets; the induction is over finite sets, by a smallest counterexample (strict inclusion of
  finite sets is well-founded), since the induction theorems themselves take an operator.

What a theorem is conditional on is in its statement; the named `ASSUME`s of each module are
evaluated by TLC in its runs.

**Model-checked only:** the liveness properties (`EveryRequestEnds`, `DeviceCatchesUp`: liveness and
ENABLED are beyond the prover); and `PostingIsTheVariance` and `ReturnsAddUp`, which speak of folds
over sequences of lots and movements that depend on the step before (postings, refills): induction
over sequences is out of the prover's reach. The type invariants the runs list are bounded by the
instance; those proved are the same without its bounds.

## 5. What the checks found

Findings – what the program does differs from what its text says (each in a `violation` run):

1. **Balance row race** (`stock_create`, stock.service.ts:638). Two requests creating the same
   balance row: the comment at line 618 has the loser fall back to the update, but the unique
   violation has aborted its transaction, so the request fails as a whole. (Ledger and cache stay
   right.)
2. **Credit put on the sale** (`books_infull`, sale-correction.service.ts:246). A payment
   that settled a sale and left credit is replaced by one allocated whole to the corrected sale,
   which is then overpaid.
3. **Partial returns refill the same lot** (`books_lots`, sale-return.service.ts:206). Every
   restore starts again from the last movement, so a lot can get back more than it gave and
   goods take on another expiry date.
4. **A day's revenue keeps its returns** (`reports_undone`, report.service.ts:438). The daily trend
   takes off only the tax on the refunds.
5. **A carton back counts its factor twice** (`reports_undone`, report.service.ts:1130). A return's
   quantity is in base units already.
6. **A transfer sent again is made again** (`forms_twice`, TransferDialog.tsx:67). The form's id
   reaches the server as `transferGroupId`, which no row is unique by, and every attempt has an
   idempotency key of its own: after a lost answer a second press moves the goods a second time,
   where the form's comment has one transfer "however many attempts it takes".
7. **A late check unlocks Save** (`forms_checked`, CorrectDeliveryDialog.tsx:207 and
   CorrectSaleDialog.tsx:87). The fields stay open while a correction is checked and the answer is
   taken whatever was typed since, so Save is offered for figures the server has not seen.

**When requests overlap.** The `overlapped` escape is there because the code takes no lock
between reading and writing. Each of these is a two-step interleaving that TLC exhibits when the
escape is removed from the property. Two overlapping requests can: sell the last piece twice
without force (and leave a lot negative), sell from under no option while options are being added,
move stock while a rebuild has read its sums, and lose the movement from the cache; settle one debt
twice, or settle an invoice that a correction moves to another account; both take credit; return
more than was sold; write a total that is not its lines; leave a walk-in owing; open two counts;
post one count twice, or after it was cancelled; pay or credit a bill beyond its balance, remove a
bill being credited, undo one correction's amount of a bill with another's, open a product's stock
twice (`OpeningOnce` names exactly that case; the comment at opening-stock.service.ts:133-134, that two
people saving the same sheet cannot both get through, does not hold of a look that takes no lock); confirm and refuse one banking, bank the same cash twice; leave no active owner when two
step each other down, or one member over the cap when somebody is brought back; record a sale
against a customer just merged away; leave a list without default, each of two requests clearing
the other's, or with two when a request ends between its statements; take a product's last option
off sale; renew a session that is being ended (a refresh under way stores its token after the
revoke), or end a chain because two tabs refreshed at once or an answer was lost.

**Behaviour worth knowing**, where no text of the repository says otherwise:

- Forms that mint an id per attempt, or none, record a payment, a spending or a return twice when
  the first answer was lost and the person presses again; a form that mints its id with itself is
  refused with a 500 on the repeat, though the first attempt was recorded.
- A late answer shuts the form opened since, and may sweep away the draft of another delivery; two
  tabs share one draft, its id with it.
- A sale correction sent again with other figures after a lost answer is told "done" when the first
  went through; a delivery correction that was delayed may overwrite a newer one. The product
  form's second press after half a success sends only the opening stock.
- A posting's variance is the counted figure minus the stock *at posting*
  (stocktake.service.ts:277): what was sold or delivered after the count is undone in the ledger.
- The handler committed and storing its reply failed (idempotency.interceptor.ts:225): after
  `STALE_CLAIM_MS` a retry does the work again unless its row carries the client's id.
- Editing a bill asks for its payments, not for the rebates credited to it, so an edit takes its
  balance below zero; so does removing one (supplier-bill.service.ts:139), and the credited rebate
  keeps naming a bill that is gone, off the vendor's totals (`StatementAddsUp` excepts it).
- One edit that lists a new unit twice can leave a second unit of factor one (`BaseUnitStays`), and
  a product's own form sets a primary barcode without clearing the others (`OneLabel`).
- The till's override reasons are not kept between attempts (TillPage.tsx:1048), so a sale refused
  for stock and then for credit is refused for stock again. `busy` is one flag for several requests
  (TillPage.tsx:517): a lookup answered during a payment unlocks the screen.
- An option's first stock makes earlier sales of the product count for dead stock and not for the
  rate of the stock alert. A sales report's rows and its totals are separate queries.
- `customPeriod` reads typed dates as UTC midnights, a day early west of it (period.ts:261); in
  a zone whose clock moves over midnight `zonedStartOfDay` has no such hour to find
  (`PlainMidnight` leaves those zones out).
- Sales change and yet are paged by `createdAt`, so a device keeps a sale as it was first given;
  `NothingSteppedOver` asks of that feed only for some version.
- Coming in with Google does not verify an address (users.service.ts:307). Somebody who registered by
  email, never answered the code and has used Google since is swept 30 days after the code ran out,
  with their membership; the organization stays with nobody in it (`SweepSparesTheActive` excepts it).
  One stale user who once asked for a reset link makes the whole `deleteMany` fail, since that
  relation has no cascade (schema.prisma:1205), so that night, and every night, nobody is swept.
- Google sign-up cut short between its statements leaves a shop without price lists, location and
  categories, which nothing repairs, or without an owner (`died`). Two at once make two shops; two
  requests for a link at once leave two good links (`overlapped`).
- A staff name that is also an owner's username finds the owner only; of more than ten members of one
  name, which of them a name and a password let in is arbitrary (user.action.ts:133).
- A row whose transaction outlives `SYNC_LAG_MS` is stepped over for good (`late`).
- Removing a bank account asks for customer payments only; a location's stock is summed over
  products, so that one short and one over cancel (location.service.ts:113); a carton without a
  price on the default list, or with no default at all, is listed at its base price times its
  factor (product.service.ts:378); `achievedBps` can round up to "exactly met"
  (purchase-target.ts:60).

## 6. What is not modelled, and why

Several products or organisations at once in the ledger (its rows are independent per product
except for lock order, which two lots already exhibit; every statement is confined to one
organisation); unit conversion in the ledger (quantities are base units); discounts inside a line's
total; names, notes, PDFs and messages; clocks of offline devices (`occurredAt` orders nothing in
the rules modelled). In SaleReturns the movements of one sale are taken to be stored at distinct
times, and forced sales are not returned in the instance. In StockLedger the cost arithmetic of a
pick is left out, and the rebuild's delete-and-insert is the one step its transaction makes it. In
Deliveries the cost-price display, the preview (the same transaction rolled back) and lines older
than a product's options. In Forms what the
fields mean and how they are laid out, and the screens that put down one thing afresh (settings, hours,
names). In Till messages, dates, bank accounts and the loading of the customer
list. In Sessions wrong passwords and the split of a suspension's two
statements; the `/auth/me` after a sign-in is part of it. client.ts mints a new idempotency key when
it retries after a 401, which is harmless: the guard refuses before the interceptor. In Accounts
hashing and mail, profile fields, switching organizations, and the flags that close sign-up. In Reports
collections, valuation, expiry, purchases, the stock audit, targets and growth: sums of one query
each. Product import is parsing: every row it accepts is an edit of Catalog. Documents are layout;
tenancy adds one condition to every statement; the command line is one-off administration.

## 7. Plan

1. **Proofs.** Postings and refills by the argument that served for the FEFO pick: fold over the last of
   a finite set in place of a sequence, and rule out a smallest set.
2. An abstract *account* (owed, settled) that Receivables and Payables both implement, and a
   *device* that SyncFeed implements (what it has is a prefix of what there is).
3. Reports not yet modelled, once two of their figures are shown side by side.
