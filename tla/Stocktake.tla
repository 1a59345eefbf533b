----------------------------- MODULE Stocktake ------------------------------
(***************************************************************************)
(* Physical counts of one product at one location: counts are opened,      *)
(* lines recorded and removed, and a count is posted to the ledger or      *)
(* cancelled, while goods are sold and delivered and the product may be    *)
(* given options.                                                          *)
(*                                                                         *)
(* A request reads first and writes later, so requests interleave between  *)
(* the two (and a posting between its reading the count, its measuring the *)
(* ledger and its writing).  The movements a request writes are one step   *)
(* here: StockLedger has their statements, locks and rollbacks.            *)
(***************************************************************************)
EXTENDS Fefo

CONSTANTS
  Shelves,       \* what is counted as an item of its own: no option, and each option
  Plain,         \* the shelf that names no option
  First,         \* the product's first option
  Counts,        \* ids of stocktakes, in the order they are created
  Counters,      \* who asks
  MaxOpen,       \* how many requests may be under way together
  MaxMoves,      \* bound on what happens to the goods meanwhile
  MaxDelivery,   \* bound on a delivery
  Wanted,        \* what requests may ask for, a set of Ask
  Starts,        \* what the ledger says and what is really there, to begin with
  None

Options == Shelves \ {Plain}
Ask == [kind : {"open"}] \cup [kind : {"post", "cancel"}, count : Counts]
       \cup [kind : {"count", "remove"}, count : Counts, shelf : Shelves]
       \cup [kind : {"options"}]

Zero == [s \in Shelves |-> 0]
OnHandOf(ledger, s) == MapThenSumSet(LAMBDA l : ledger[s][l], Lots)
OfLot(ledger, l) == MapThenSumSet(LAMBDA s : ledger[s][l], Shelves)

ASSUME StocktakeAssumption ==
  /\ Plain \in Shelves /\ First \in Options
  /\ Counts \subseteq Nat /\ None \notin Nat /\ None \notin Ask
  /\ MaxOpen \in Nat /\ MaxMoves \in Nat /\ MaxDelivery \in Nat
  /\ Wanted \subseteq Ask
  /\ Starts \subseteq [stock : [Shelves -> [Lots -> Int]], shelf : [Shelves -> Nat]]

VARIABLES
  stock,       \* the ledger: StockBalance.quantity by shelf and lot
  shelf,       \* the goods really there, which the ledger is meant to record
  received,    \* lots that came in with a quantity
  born,        \* lots that exist
  hasOptions,
  status,      \* of each count
  lines,       \* of each count: what was counted on each shelf, or None
  moves,       \* how much has happened to the goods
  stage, ask,  \* where each request is, and what it asks
  sheet,       \* the lines a posting has read
  onHand,      \* the ledger as a posting has measured it
  overlapped,  \* two requests have been under way together
  posts        \* how often each count has been posted

goods == <<stock, shelf, received, born, moves>>
counts == <<status, lines, posts>>
stocktakeVars == <<goods, counts, hasOptions, stage, ask, sheet, onHand, overlapped>>

NoLines == [s \in Shelves |-> None]

StocktakeTypeOK ==
  /\ stock \in [Shelves -> [Lots -> Int]] /\ shelf \in [Shelves -> Nat]
  /\ received \subseteq born /\ born \subseteq Lots /\ hasOptions \in BOOLEAN
  /\ status \in [Counts -> {"none", "open", "posted", "cancelled"}]
  /\ lines \in [Counts -> [Shelves -> Nat \cup {None}]]
  /\ moves \in 0..MaxMoves /\ overlapped \in BOOLEAN
  /\ stage \in [Counters -> {"idle", "checked", "measured"}]
  /\ ask \in [Counters -> Ask \cup {None}]
  /\ sheet \in [Counters -> [Shelves -> Nat \cup {None}]]
  /\ onHand \in [Counters -> [Shelves -> Int]]
  /\ posts \in [Counts -> Nat]

StocktakeInit ==
  /\ \E start \in Starts : stock = start.stock /\ shelf = start.shelf
  /\ born = {l \in Lots : OfLot(stock, l) # 0} /\ received = born
  /\ hasOptions = (\E s \in Options, l \in Lots : stock[s][l] # 0)
  /\ status = [c \in Counts |-> "none"] /\ lines = [c \in Counts |-> NoLines]
  /\ moves = 0 /\ overlapped = FALSE
  /\ stage = [r \in Counters |-> "idle"] /\ ask = [r \in Counters |-> None]
  /\ sheet = [r \in Counters |-> NoLines] /\ onHand = [r \in Counters |-> Zero]
  /\ posts = [c \in Counts |-> 0]

-----------------------------------------------------------------------------
(* Lots. *)

Newest(lots) == CHOOSE l \in lots : \A m \in lots : ReceivedAt[m] <= ReceivedAt[l]
NextLot == CHOOSE l \in Lots \ born : \A m \in Lots \ born : ReceivedAt[l] <= ReceivedAt[m]

\* batchForSurplus: the newest lot still holding stock here, whatever option it
\* is under; else the newest that came in with a quantity; else one invented.
SurplusLot(ledger) ==
  LET here == {l \in Lots : \E s \in Shelves : ledger[s][l] > 0}
  IN  IF here # {} THEN Newest(here) ELSE IF received # {} THEN Newest(received) ELSE NextLot

\* The units of a pick, one element each, in the order they leave.
Units(taken) ==
  LET order == SetToSortSeq(Lots, Earlier)
  IN  FlattenSeq([i \in DOMAIN order |-> [j \in 1..taken[order[i]] |-> order[i]]])

-----------------------------------------------------------------------------
(* Plausible bugs, each to stand in for the operator it is named after. *)

\* A count that is not open is only looked for, not refused.
IsOpenOnceBegun(c) == status[c] # "none"

\* An open count is looked for among those that have lines.
NoneOpenWithLines == ~\E c \in Counts : status[c] = "open" /\ lines[c] # NoLines

\* What stays short after the move is forgotten when something was moved.
WriteShortMovesOnly(acc, s) ==
  LET moving == Least(acc.toMove, -acc.variance[s])
      out == IF moving > 0 THEN moving ELSE -acc.variance[s]
      pick == AllocateFefo(acc.stock[s], out)
  IN  [acc EXCEPT !.stock[s] = [l \in Lots |-> @[l] - pick.taken[l]],
                  !.toMove = @ - moving,
                  !.freed = @ \o SubSeq(Units(pick.taken), 1, moving)]

\* What is over arrives on the surplus lot, moved or not.
ArriveOnSurplus(acc, s) ==
  LET lot == SurplusLot(acc.stock)
  IN  [acc EXCEPT !.stock[s][lot] = @ + acc.variance[s]]

\* The sheet keeps the difference instead of what was counted.
CountedAsDifference(s) == shelf[s] - OnHandOf(stock, s)

-----------------------------------------------------------------------------
(* What happens to the goods, and so to the ledger. *)

\* Goods are sold, FEFO, as far as the ledger has them.
Sell(s) ==
  /\ moves < MaxMoves /\ shelf[s] > 0
  /\ LET pick == AllocateFefo(stock[s], 1)
     IN  /\ pick.remaining = 0
         /\ stock' = [stock EXCEPT ![s] = [l \in Lots |-> @[l] - pick.taken[l]]]
  /\ shelf' = [shelf EXCEPT ![s] = @ - 1]
  /\ moves' = moves + 1
  /\ UNCHANGED <<received, born, counts, hasOptions, stage, ask, sheet, onHand, overlapped>>

\* A delivery makes a lot of its own.
Deliver(s, quantity) ==
  /\ moves < MaxMoves /\ born # Lots
  /\ s \in Options <=> hasOptions
  /\ stock' = [stock EXCEPT ![s][NextLot] = quantity]
  /\ born' = born \cup {NextLot} /\ received' = received \cup {NextLot}
  /\ shelf' = [shelf EXCEPT ![s] = @ + quantity]
  /\ moves' = moves + 1
  /\ UNCHANGED <<counts, hasOptions, stage, ask, sheet, onHand, overlapped>>

-----------------------------------------------------------------------------
(* Requests: what they read. *)

UnderWay == {r \in Counters : stage[r] # "idle"}

\* requireOpen.
IsOpen(c) == status[c] = "open"

\* create: no count is open at this location.
NoneOpen == ~\E c \in Counts : status[c] = "open"

\* checkVariant: a product with options is counted by option, one without as it is.
Countable(s) == s \in Options <=> hasOptions

\* What a request is accepted for; a refused one changes nothing.
Accepts(a) ==
  CASE a.kind = "open" -> NoneOpen
    [] a.kind = "count" -> IsOpen(a.count) /\ Countable(a.shelf)
    [] a.kind = "remove" -> IsOpen(a.count) /\ lines[a.count][a.shelf] # None
    [] a.kind = "post" -> IsOpen(a.count) /\ lines[a.count] # NoLines
    [] a.kind = "cancel" -> IsOpen(a.count)
    [] a.kind = "options" -> ~hasOptions

Check(r, a) ==
  /\ stage[r] = "idle" /\ Cardinality(UnderWay) < MaxOpen
  /\ Accepts(a)
  /\ stage' = [stage EXCEPT ![r] = "checked"]
  /\ ask' = [ask EXCEPT ![r] = a]
  /\ sheet' = IF a.kind = "post" THEN [sheet EXCEPT ![r] = lines[a.count]] ELSE sheet
  /\ overlapped' = (overlapped \/ UnderWay # {})
  /\ UNCHANGED <<goods, counts, hasOptions, onHand>>

-----------------------------------------------------------------------------
(* Requests: what they write. *)

Asks(r, kind) == stage[r] = "checked" /\ ask[r].kind = kind

\* The request has ended.
End(r) ==
  /\ stage' = [stage EXCEPT ![r] = "idle"]
  /\ ask' = [ask EXCEPT ![r] = None]
  /\ sheet' = [sheet EXCEPT ![r] = NoLines]
  /\ onHand' = [onHand EXCEPT ![r] = Zero]

\* create.
Open(r) ==
  /\ Asks(r, "open")
  /\ \E c \in Counts :
       /\ status[c] = "none" /\ \A d \in Counts : status[d] = "none" => c <= d
       /\ status' = [status EXCEPT ![c] = "open"]
  /\ End(r)
  /\ UNCHANGED <<goods, lines, posts, hasOptions, overlapped>>

\* What whoever counts finds.
Counted(s) == shelf[s]

\* count: the line is updated, or created; counting again replaces it.
Count(r) ==
  /\ Asks(r, "count")
  /\ lines' = [lines EXCEPT ![ask[r].count][ask[r].shelf] = Counted(ask[r].shelf)]
  /\ End(r)
  /\ UNCHANGED <<goods, status, posts, hasOptions, overlapped>>

\* removeLine.
RemoveLine(r) ==
  /\ Asks(r, "remove")
  /\ lines' = [lines EXCEPT ![ask[r].count][ask[r].shelf] = None]
  /\ End(r)
  /\ UNCHANGED <<goods, status, posts, hasOptions, overlapped>>

\* cancel: the status is written whatever it is by now.
Cancel(r) ==
  /\ Asks(r, "cancel")
  /\ status' = [status EXCEPT ![ask[r].count] = "cancelled"]
  /\ End(r)
  /\ UNCHANGED <<goods, lines, posts, hasOptions, overlapped>>

\* The product is given options: its stock moves into the first, lot for lot,
\* and the goods turn out to be of whichever option they are.
AddOptions(r) ==
  /\ Asks(r, "options")
  /\ hasOptions' = TRUE
  /\ IF hasOptions THEN UNCHANGED stock
     ELSE stock' = [stock EXCEPT ![First] = [l \in Lots |-> @[l] + stock[Plain][l]],
                                 ![Plain] = [l \in Lots |-> 0]]
  /\ \E split \in [Options -> 0..shelf[Plain]] :
       /\ MapThenSumSet(LAMBDA s : split[s], Options) = shelf[Plain]
       /\ shelf' = [s \in Shelves |-> IF s = Plain THEN 0 ELSE shelf[s] + split[s]]
  /\ End(r)
  /\ UNCHANGED <<received, born, moves, counts, overlapped>>

OnSheet(r) == {s \in Shelves : sheet[r][s] # None}

\* post, in its transaction: a line counted before the product had options is
\* refused, and what is on hand is read again.
Measure(r) ==
  /\ Asks(r, "post")
  /\ IF \A s \in OnSheet(r) : Countable(s)
     THEN /\ stage' = [stage EXCEPT ![r] = "measured"]
          /\ onHand' = [onHand EXCEPT ![r] = [s \in Shelves |-> OnHandOf(stock, s)]]
          /\ UNCHANGED <<ask, sheet>>
     ELSE End(r)
  /\ UNCHANGED <<goods, counts, hasOptions, overlapped>>

Variance(r) == [s \in Shelves |-> IF s \in OnSheet(r) THEN sheet[r][s] - onHand[r][s] ELSE 0]
Short(v) == {s \in Shelves : v[s] < 0}
Over(v) == {s \in Shelves : v[s] > 0}
Amount(v, some) == MapThenSumSet(LAMBDA s : IF v[s] < 0 THEN -v[s] ELSE v[s], some)

\* A short line: what answers another option's surplus leaves first, as a
\* move; the rest is written off.  Both go out FEFO.
WriteShort(acc, s) ==
  LET moving == Least(acc.toMove, -acc.variance[s])
      pick == AllocateFefo(acc.stock[s], -acc.variance[s])
  IN  [acc EXCEPT !.stock[s] = [l \in Lots |-> @[l] - pick.taken[l]],
                  !.covered = @ /\ pick.remaining = 0,
                  !.toMove = @ - moving,
                  !.freed = @ \o SubSeq(Units(pick.taken), 1, Least(moving, Len(Units(pick.taken))))]

\* An over line: what was freed arrives on the lots it left, the rest is found.
WriteOver(acc, s) ==
  LET arriving == Least(acc.variance[s], Len(acc.freed))
      units == SubSeq(acc.freed, 1, arriving)
      moved == [acc.stock EXCEPT ![s] = [l \in Lots |->
                  @[l] + Cardinality({i \in DOMAIN units : units[i] = l})]]
      found == acc.variance[s] - arriving
  IN  [acc EXCEPT !.stock = IF found = 0 THEN moved
                            ELSE [moved EXCEPT ![s][SurplusLot(moved)] = @ + found],
                  !.freed = SubSeq(@, arriving + 1, Len(@))]

\* postProduct, its lines in the order the database gave them.
PostProduct(r, shorts, overs) ==
  LET v == Variance(r)
      start == [stock |-> stock, variance |-> v, freed |-> <<>>, covered |-> TRUE,
                toMove |-> Least(Amount(v, Short(v)), Amount(v, Over(v)))]
  IN  FoldLeft(WriteOver, FoldLeft(WriteShort, start, shorts), overs)

\* post, to its end: every movement and the status, or nothing.  A shortfall the
\* lots do not cover any more, or a line that can no longer be moved, refuses it.
Post(r) ==
  /\ stage[r] = "measured"
  /\ \E shorts \in SetToSeqs(Short(Variance(r))), overs \in SetToSeqs(Over(Variance(r))) :
       LET after == PostProduct(r, shorts, overs)
           c == ask[r].count
           moved == Short(Variance(r)) \cup Over(Variance(r))
       IN  IF after.covered /\ \A s \in moved : Countable(s)
           THEN /\ stock' = after.stock
                /\ born' = born \cup {l \in Lots : OfLot(after.stock, l) # 0}
                /\ status' = [status EXCEPT ![c] = "posted"]
                /\ posts' = [posts EXCEPT ![c] = @ + 1]
           ELSE UNCHANGED <<stock, born, status, posts>>
  /\ End(r)
  /\ UNCHANGED <<shelf, received, moves, lines, hasOptions, overlapped>>

-----------------------------------------------------------------------------
StocktakeNext ==
  \/ \E s \in Shelves : Sell(s) \/ \E n \in 1..MaxDelivery : Deliver(s, n)
  \/ \E r \in Counters :
       \/ \E a \in Wanted : Check(r, a)
       \/ Open(r) \/ Count(r) \/ RemoveLine(r) \/ Cancel(r) \/ AddOptions(r)
       \/ Measure(r) \/ Post(r)

StocktakeSpec == StocktakeInit /\ [][StocktakeNext]_stocktakeVars

-----------------------------------------------------------------------------
(* What a count promises. *)

Posts(r) == stage[r] = "measured" /\ posts' # posts /\ stage'[r] = "idle"
Change(s) == OnHandOf(stock', s) - OnHandOf(stock, s)

\* A posting changes each line's stock by exactly the variance it measured, and
\* touches nothing that is not on the sheet, whatever else is going on.
CorrectionIsTheVariance ==
  \A r \in Counters : Posts(r) => \A s \in Shelves : Change(s) = Variance(r)[s]

\* What one option is short and another over is a move on the same lots: a
\* posting never writes goods off one lot and on to another.
MovesKeepTheirLots ==
  \A r \in Counters : Posts(r) =>
    \/ \A l \in Lots : OfLot(stock', l) <= OfLot(stock, l)
    \/ \A l \in Lots : OfLot(stock', l) >= OfLot(stock, l)

\* While requests do not overlap, one count is open at a time.
OneOpenCount == overlapped \/ Cardinality({c \in Counts : status[c] = "open"}) <= 1

\* While requests do not overlap, a count is posted at most once, and one that
\* was cancelled has put nothing in the ledger.
PostedOnce ==
  overlapped \/ \A c \in Counts : posts[c] = IF status[c] = "posted" THEN 1 ELSE 0

\* A shelf is counted once and the count goes in once, while requests do not overlap.
CountedOnce == OneOpenCount /\ PostedOnce

\* A posting is its variance and nothing else, on the lots it is about.
PostingIsTheVariance == [][CorrectionIsTheVariance /\ MovesKeepTheirLots]_stocktakeVars
=============================================================================
