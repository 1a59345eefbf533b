---------------------------- MODULE StockLedger -----------------------------
(***************************************************************************)
(* The stock ledger of one product and its cached balances, as StockService*)
(* and StockOperationsService write them from concurrent requests.         *)
(*                                                                         *)
(* A balance row is per shelf and lot.  A shelf is one option (or none) at *)
(* one location: OptionOf maps a shelf that names no option to the shelf   *)
(* of the product's first option at the same location.                     *)
(*                                                                         *)
(* Every request runs in one transaction at PostgreSQL's READ COMMITTED:   *)
(* a read sees what is committed and what the transaction itself wrote; an *)
(* update locks its row until the transaction ends and starts from the     *)
(* latest committed value.  A movement row is invisible until commit, so   *)
(* its insert and the update of its balance are one step here.             *)
(*                                                                         *)
(* A rebuild of the cache reads before its transaction, so other requests  *)
(* may come between what it read and what it writes.                       *)
(***************************************************************************)
EXTENDS Fefo

CONSTANTS
  Txn,           \* requests
  Ops,           \* what a request may ask for, see Op
  Shelves,
  PlainShelves,  \* shelves that name no option
  OptionOf,      \* [PlainShelves -> the shelf of the product's first option, or None]
  Retired,       \* shelves of options that were retired
  InitialStock,  \* [Keys -> Int]: the stock on the day the run starts
  InitialCaches, \* what the cache may say of it: the same, or what a bad rebuild left
  MaxQuantity,   \* bound on a movement
  MaxOpen,       \* how many transactions may be open together
  None

Keys == Shelves \X Lots
Quantities == 0..MaxQuantity
OptionShelves == Shelves \ PlainShelves

Line == [shelf : Shelves, lot : Lots \cup {None},   \* a pinned lot, or None
         quantity : 1..MaxQuantity]
Op == [kind : {"sale", "adjust", "transfer", "receive", "into", "options", "rebuild"},
       lines : Seq(Line),
       to : Shelves \cup {None},    \* where a transfer goes
       force : {"no", "granted", "denied"}]  \* "force", and whether role and reason allow it

ASSUME StockAssumption ==
  /\ None \notin Lots /\ None \notin Shelves /\ None \notin Txn
  /\ MaxQuantity \in Nat /\ MaxOpen \in Nat
  /\ InitialStock \in [Keys -> Int]
  /\ InitialCaches \subseteq [Keys -> Int]
  /\ Ops \subseteq Op /\ \A o \in Ops : o.kind \notin {"options", "rebuild"} => o.lines # <<>>
  /\ PlainShelves \subseteq Shelves /\ OptionOf \in [PlainShelves -> OptionShelves \cup {None}]
  /\ \A s, r \in PlainShelves : OptionOf[s] = OptionOf[r] /\ OptionOf[s] # None => s = r

\* What the requests' schemas and checks leave of them, and the stock they start from.
ASSUME RequestAssumption ==
  /\ \A o \in Ops :
       /\ o.kind \in {"options", "rebuild"} => o.lines = <<>>
       /\ o.kind = "transfer" <=> o.to # None
       /\ \A i \in DOMAIN o.lines : o.lines[i].shelf # o.to
  /\ \A o \in Ops, s \in PlainShelves : o.kind = "options" => OptionOf[s] # None
  /\ \/ \A k \in Keys : k[1] \in PlainShelves => InitialStock[k] = 0
     \/ \A k \in Keys : k[1] \in OptionShelves => InitialStock[k] = 0
  /\ IsFiniteSet(Lots) /\ IsFiniteSet(Shelves)

VARIABLES
  bal,         \* committed StockBalance.quantity; 0 where there is no row
  rows,        \* keys that have a committed balance row
  ledger,      \* the sum of the committed movements
  forced,      \* keys that carry a committed forced movement
  hasOptions,  \* the product has options
  nextNumber,  \* organization.nextSaleNumber
  born,        \* lots that exist
  lock,        \* who holds each balance row
  orgLock,     \* who holds the organization row
  pc, op, line,\* where each request is, what it asks, at which line
  todo,        \* the movements its current line still has to make
  lack,        \* what its current line is short by
  moved,       \* the movements it inserted, per key
  forcedBy,    \* the keys it forced
  written,     \* the balance rows as it last wrote them; a rebuild's sums
  number,      \* the invoice number it took
  summed,      \* the keys a rebuild found movements of
  overlapped,  \* two requests have been under way together
  crossed,     \* the rebuilds that were under way together with another request
  apart        \* the last rebuild crossed another request, or such a one came before

committed == <<bal, rows, ledger, forced, hasOptions, nextNumber>>
local == <<pc, op, line, todo, lack, moved, forcedBy, written, number>>
history == <<overlapped, crossed, apart>>
vars == <<committed, born, lock, orgLock, local, summed, history>>

Ended == {"done", "refused", "failed", "deadlock"}
Open(t) == pc[t] \notin {"idle"} \cup Ended
Outbound == {"sale", "adjust", "transfer"}
NoMoves == [k \in Keys |-> 0]

TypeOK ==
  /\ bal \in [Keys -> Int] /\ ledger \in [Keys -> Int]
  /\ rows \subseteq Keys /\ forced \subseteq Keys
  /\ hasOptions \in BOOLEAN /\ nextNumber \in Nat \ {0} /\ born \subseteq Lots
  /\ lock \in [Keys -> Txn \cup {None}] /\ orgLock \in Txn \cup {None}
  /\ pc \in [Txn -> {"idle", "read", "bear", "move", "insert", "number", "commit",
                 "compare", "replace"} \cup Ended]
  /\ op \in [Txn -> Ops \cup {None}] /\ line \in [Txn -> Nat \ {0}]
  /\ todo \in [Txn -> [Keys -> Int]] /\ lack \in [Txn -> Nat]
  /\ moved \in [Txn -> [Keys -> Int]] /\ written \in [Txn -> [Keys -> Int]]
  /\ forcedBy \in [Txn -> SUBSET Keys] /\ number \in [Txn -> Nat]
  /\ summed \in [Txn -> SUBSET Keys]
  /\ overlapped \in BOOLEAN /\ crossed \subseteq Txn /\ apart \in BOOLEAN

Init ==
  /\ bal \in InitialCaches /\ ledger = InitialStock
  /\ rows = {k \in Keys : InitialStock[k] # 0 \/ bal[k] # 0}
  /\ forced = {k \in Keys : InitialStock[k] < 0}
  /\ hasOptions = (\E k \in Keys : k[1] \in OptionShelves /\ InitialStock[k] # 0)
  /\ nextNumber = 1
  /\ born = {l \in Lots : \E s \in Shelves : InitialStock[<<s, l>>] # 0}
  /\ lock = [k \in Keys |-> None] /\ orgLock = None
  /\ pc = [t \in Txn |-> "idle"] /\ op = [t \in Txn |-> None] /\ line = [t \in Txn |-> 1]
  /\ todo = [t \in Txn |-> NoMoves] /\ lack = [t \in Txn |-> 0]
  /\ moved = [t \in Txn |-> NoMoves] /\ written = [t \in Txn |-> NoMoves]
  /\ forcedBy = [t \in Txn |-> {}] /\ number = [t \in Txn |-> 0]
  /\ summed = [t \in Txn |-> {}]
  /\ apart = (bal # ledger) /\ overlapped = apart /\ crossed = {}

-----------------------------------------------------------------------------
(* Plausible bugs, each to stand in for the operator below it is named after. *)

\* A transaction that rolls back leaves the invoice counter locked.
ReleaseKeepsCounter(t) ==
  /\ lock' = [k \in Keys |-> IF lock[k] = t THEN None ELSE lock[k]]
  /\ moved' = [moved EXCEPT ![t] = NoMoves]
  /\ UNCHANGED orgLock

\* What is transferred arrives whole in the lot that leaves first.
MovementsIntoOneLot(t, taken) ==
  [k \in Keys |-> IF k[1] = op[t].lines[line[t]].shelf THEN -taken[k[2]]
                  ELSE IF k[1] = op[t].to /\ k[2] = FefoFirst(Lots) THEN op[t].lines[line[t]].quantity
                  ELSE 0]

\* A forced line is recorded only as far as stock covers it.
ShortfallDropped(t, lot) ==
  /\ pc[t] = "bear"
  /\ born' = born \cup {lot}
  /\ pc' = [pc EXCEPT ![t] = "move"]
  /\ UNCHANGED <<committed, lock, orgLock, op, line, todo, lack, moved, forcedBy, written, number>>

\* The movement carries no mark that it was forced.
BearWithoutMark(t, lot) ==
  /\ pc[t] = "bear"
  /\ todo' = [todo EXCEPT ![t][<<op[t].lines[line[t]].shelf, lot>>] = @ - lack[t]]
  /\ born' = born \cup {lot}
  /\ lack' = [lack EXCEPT ![t] = 0]
  /\ pc' = [pc EXCEPT ![t] = "move"]
  /\ UNCHANGED <<committed, lock, orgLock, op, line, moved, forcedBy, written, number>>

\* The mark is put on the arriving half of a transfer, which a sale does not have.
BearMarksArrival(t, lot) ==
  /\ pc[t] = "bear"
  /\ forcedBy' = [forcedBy EXCEPT ![t] = @ \cup {<<op[t].to, lot>>}]
  /\ lack' = [lack EXCEPT ![t] = 0]
  /\ pc' = [pc EXCEPT ![t] = "move"]
  /\ UNCHANGED <<committed, born, lock, orgLock, op, line, todo, moved, written, number>>

\* Only what is above zero is moved into the first option.
ReadOptionsAboveZero(t) ==
  /\ pc[t] = "read" /\ op[t].kind = "options" /\ ~hasOptions
  /\ todo' = [todo EXCEPT ![t] =
                [k \in Keys |->
                  IF k[1] \in PlainShelves THEN -OnHand(bal[k])
                  ELSE LET from == {s \in PlainShelves : OptionOf[s] = k[1]}
                       IN  MapThenSumSet(LAMBDA s : OnHand(bal[<<s, k[2]>>]), from)]]
  /\ pc' = [pc EXCEPT ![t] = "move"]
  /\ UNCHANGED <<committed, born, lock, orgLock, op, line, lack, moved, forcedBy, written, number>>

\* An update that finds no row is not followed by a create.
WriteExistingOnly(t, k) ==
  /\ lock' = [lock EXCEPT ![k] = t]
  /\ written' = [written EXCEPT ![t][k] =
                   IF lock[k] = t THEN @ + todo[t][k] ELSE IF k \in rows THEN bal[k] + todo[t][k] ELSE 0]
  /\ moved' = [moved EXCEPT ![t][k] = @ + todo[t][k]]
  /\ todo' = [todo EXCEPT ![t][k] = 0]
  /\ pc' = [pc EXCEPT ![t] = "move"]
  /\ UNCHANGED <<committed, born, orgLock, op, line, lack, forcedBy, number>>

\* The counter is read without its row being locked.
TakeNumberUnlocked(t) ==
  /\ pc[t] = "number"
  /\ orgLock' = t
  /\ number' = [number EXCEPT ![t] = nextNumber]
  /\ pc' = [pc EXCEPT ![t] = "commit"]
  /\ UNCHANGED <<committed, born, lock, op, line, todo, lack, moved, forcedBy, written>>

-----------------------------------------------------------------------------
(* Transactions. *)

Holds(t, k) == lock[k] = t
Visible(t, k) == IF Holds(t, k) THEN written[t][k] ELSE bal[k]
VisibleRow(t, k) == k \in rows \/ Holds(t, k)
Current(t) == op[t].lines[line[t]]

\* The rebuilds that are together with another request once t is open.
Crossing(t) ==
  LET open == {u \in Txn : Open(u)} \cup {t}
  IN  IF open = {t} THEN {} ELSE {u \in open : op'[u].kind = "rebuild"}

Begin(t) ==
  /\ pc[t] = "idle"
  /\ Cardinality({u \in Txn : Open(u)}) < MaxOpen
  /\ \E o \in Ops : op' = [op EXCEPT ![t] = o]
  /\ pc' = [pc EXCEPT ![t] = "read"]
  /\ overlapped' = (overlapped \/ (\E u \in Txn : Open(u)))
  /\ crossed' = crossed \cup Crossing(t)
  /\ UNCHANGED <<committed, born, lock, orgLock, line, todo, lack, moved, forcedBy, written, number,
                 summed, apart>>

Release(t) ==
  /\ lock' = [k \in Keys |-> IF Holds(t, k) THEN None ELSE lock[k]]
  /\ orgLock' = IF orgLock = t THEN None ELSE orgLock
  /\ moved' = [moved EXCEPT ![t] = NoMoves]

RollBack(t, outcome) ==
  /\ pc' = [pc EXCEPT ![t] = outcome]
  /\ Release(t)
  /\ UNCHANGED <<committed, born, op, line, todo, lack, forcedBy, written, number>>

Commit(t) ==
  /\ bal' = [k \in Keys |-> IF Holds(t, k) THEN written[t][k] ELSE bal[k]]
  /\ rows' = rows \cup {k \in Keys : Holds(t, k)}
  /\ ledger' = [k \in Keys |-> ledger[k] + moved[t][k]]
  /\ forced' = forced \cup forcedBy[t]
  /\ hasOptions' = (hasOptions \/ op[t].kind = "options")
  /\ nextNumber' = IF orgLock = t THEN number[t] + 1 ELSE nextNumber
  /\ pc' = [pc EXCEPT ![t] = "done"]
  /\ Release(t)
  /\ UNCHANGED <<born, op, line, todo, lack, forcedBy, written, number>>

-----------------------------------------------------------------------------
(* Choosing the movements of a line. *)

\* assertVariant: a product with options needs one named, a product without must
\* not be given one, and a retired one takes no new stock and is not sold.
Allowed(t, shelf) ==
  /\ shelf \in OptionShelves <=> hasOptions
  /\ op[t].kind \in {"sale", "receive"} => shelf \notin Retired

\* availableBatches: what the line may draw on.
OnShelf(t) ==
  LET ln == Current(t)
  IN  [l \in Lots |-> IF VisibleRow(t, <<ln.shelf, l>>) /\ ln.lot \in {None, l}
                      THEN Visible(t, <<ln.shelf, l>>) ELSE 0]

\* The movements that take `taken` off the line's shelf; a transfer brings the
\* same lots to the other shelf.
Movements(t, taken) ==
  [k \in Keys |-> IF k[1] = Current(t).shelf THEN -taken[k[2]]
                  ELSE IF k[1] = op[t].to THEN taken[k[2]] ELSE 0]

\* recordOutbound up to its first write: read the balances, pick, and refuse a
\* shortfall unless it is forced by somebody who may.
ReadOut(t) ==
  /\ pc[t] = "read" /\ op[t].kind \in Outbound
  /\ IF ~Allowed(t, Current(t).shelf) THEN RollBack(t, "refused")
     ELSE \E taken \in [Lots -> Quantities], shortfall \in Quantities :
            /\ IsFefoPick(OnShelf(t), Current(t).quantity, taken, shortfall)
            /\ IF shortfall > 0 /\ op[t].force # "granted" THEN RollBack(t, "refused")
               ELSE /\ todo' = [todo EXCEPT ![t] = Movements(t, taken)]
                    /\ lack' = [lack EXCEPT ![t] = shortfall]
                    /\ pc' = [pc EXCEPT ![t] = IF shortfall > 0 THEN "bear" ELSE "move"]
                    /\ UNCHANGED <<committed, born, lock, orgLock, op, line, moved, forcedBy, written, number>>

\* batchToBearShortfall: the pinned lot, else the lot FEFO prefers of those known
\* at the shelf, even an empty one, else a placeholder lot made for it.
Bears(t, lot) ==
  LET ln == Current(t)
      known == {l \in Lots : VisibleRow(t, <<ln.shelf, l>>)}
  IN  IF ln.lot # None THEN lot = ln.lot
      ELSE IF known # {} THEN lot = FefoFirst(known)
      ELSE lot \notin born /\ Expiry[lot] = NoExpiry

Bear(t, lot) ==
  /\ pc[t] = "bear"
  /\ Bears(t, lot)
  /\ LET k == <<Current(t).shelf, lot>>
         k2 == <<op[t].to, lot>>
     IN  todo' = [todo EXCEPT ![t] = [j \in Keys |-> IF j = k THEN @[j] - lack[t]
                                                     ELSE IF j = k2 THEN @[j] + lack[t] ELSE @[j]]]
  /\ forcedBy' = [forcedBy EXCEPT ![t] = @ \cup {k \in Keys : todo'[t][k] < 0}]
  /\ born' = born \cup {lot}
  /\ lack' = [lack EXCEPT ![t] = 0]
  /\ pc' = [pc EXCEPT ![t] = "move"]
  /\ UNCHANGED <<committed, lock, orgLock, op, line, moved, written, number>>

\* recordInbound into a lot: a new one for a delivery line, an opening balance or
\* stock found, the one named for an adjustment or a return.
ReadIn(t, lot) ==
  /\ pc[t] = "read" /\ op[t].kind \in {"receive", "into"}
  /\ IF op[t].kind = "into" THEN lot = Current(t).lot ELSE lot \notin born
  /\ IF ~Allowed(t, Current(t).shelf) THEN RollBack(t, "refused")
     ELSE /\ todo' = [todo EXCEPT ![t][<<Current(t).shelf, lot>>] = Current(t).quantity]
          /\ born' = born \cup {lot}
          /\ pc' = [pc EXCEPT ![t] = "move"]
          /\ UNCHANGED <<committed, lock, orgLock, op, line, lack, moved, forcedBy, written, number>>

TakesOver(shelf) == \E s \in PlainShelves : OptionOf[s] = shelf
PlainOf(shelf) == CHOOSE s \in PlainShelves : OptionOf[s] = shelf

\* A save of the product's options.  The first ones take over its stock:
\* moveIntoVariant moves every non-zero balance that names no option, on its own lot.
ReadOptions(t) ==
  /\ pc[t] = "read" /\ op[t].kind = "options"
  /\ todo' = IF hasOptions THEN todo
             ELSE [todo EXCEPT ![t] =
                     [k \in Keys |->
                        IF k[1] \in PlainShelves THEN -bal[k]
                        ELSE IF TakesOver(k[1]) THEN bal[<<PlainOf(k[1]), k[2]>>] ELSE 0]]
  /\ pc' = [pc EXCEPT ![t] = "move"]
  /\ UNCHANGED <<committed, born, lock, orgLock, op, line, lack, moved, forcedBy, written, number>>

-----------------------------------------------------------------------------
(* Writing them: stockMovement.create and applyToBalance. *)

\* Movements out come before the movements in that answer them, and lots in the
\* order they were picked in.  The move into an option takes the balances in any
\* order, each out and in at once.
PlainHalf(k) == <<PlainOf(k[1]), k[2]>>

Before(t, k, j) ==
  IF op[t].kind = "options"
  THEN \/ j[1] \in OptionShelves /\ k = PlainHalf(j)
       \/ k[1] \in OptionShelves /\ todo[t][PlainHalf(k)] = 0
  ELSE \/ todo[t][k] < 0 /\ todo[t][j] > 0
       \/ (todo[t][k] < 0 <=> todo[t][j] < 0) /\ Earlier(k[2], j[2])

NextKey(t, k) ==
  /\ todo[t][k] # 0
  /\ \A j \in Keys : todo[t][j] # 0 /\ j # k => ~Before(t, j, k)

\* The balance row as this transaction leaves it, locked until it ends.
WriteBalance(t, k) ==
  /\ lock' = [lock EXCEPT ![k] = t]
  /\ written' = [written EXCEPT ![t][k] = (IF VisibleRow(t, k) THEN Visible(t, k) ELSE 0) + todo[t][k]]
  /\ moved' = [moved EXCEPT ![t][k] = @ + todo[t][k]]
  /\ todo' = [todo EXCEPT ![t][k] = 0]
  /\ pc' = [pc EXCEPT ![t] = "move"]
  /\ UNCHANGED <<committed, born, orgLock, op, line, lack, forcedBy, number>>

\* updateMany, which waits for the row's lock, and create when there is no row -
\* which waits when somebody else is creating the same row.
Move(t, k) ==
  /\ pc[t] = "move"
  /\ NextKey(t, k)
  /\ IF op[t].kind = "transfer" /\ todo[t][k] > 0 /\ ~Allowed(t, k[1]) THEN RollBack(t, "refused")
     ELSE \/ lock[k] \in {None, t} /\ WriteBalance(t, k)
          \/ /\ lock[k] \notin {None, t} /\ k \notin rows
             /\ pc' = [pc EXCEPT ![t] = "insert"]
             /\ UNCHANGED <<committed, born, lock, orgLock, op, line, todo, lack, moved, forcedBy, written, number>>

\* The other creator has ended.  If it committed, the create is a unique
\* violation; that leaves the whole transaction aborted, so the updateMany the
\* code falls back to fails as well.
InsertResolves(t, k) ==
  /\ pc[t] = "insert"
  /\ NextKey(t, k)
  /\ lock[k] = None
  /\ IF k \in rows THEN RollBack(t, "failed") ELSE WriteBalance(t, k)

\* The line is written: on to the next one, or to the end of the request.
EndLine(t) ==
  /\ pc[t] = "move"
  /\ todo[t] = NoMoves
  /\ IF line[t] < Len(op[t].lines)
     THEN /\ line' = [line EXCEPT ![t] = @ + 1]
          /\ pc' = [pc EXCEPT ![t] = "read"]
          /\ UNCHANGED <<committed, born, lock, orgLock, op, todo, lack, moved, forcedBy, written, number>>
     ELSE IF op[t].kind = "sale"
     THEN /\ pc' = [pc EXCEPT ![t] = "number"]
          /\ UNCHANGED <<committed, born, lock, orgLock, op, line, todo, lack, moved, forcedBy, written, number>>
     ELSE Commit(t)

\* nextNumber: increment the organization's counter, locking its row.
TakeNumber(t) ==
  /\ pc[t] = "number"
  /\ orgLock = None
  /\ orgLock' = t
  /\ number' = [number EXCEPT ![t] = nextNumber]
  /\ pc' = [pc EXCEPT ![t] = "commit"]
  /\ UNCHANGED <<committed, born, lock, op, line, todo, lack, moved, forcedBy, written>>

\* The rest of the sale - the sale row, its lines, its payment - succeeds, or
\* throws: too much paid, credit refused, a duplicate id.
EndSale(t) ==
  /\ pc[t] = "commit"
  /\ Commit(t) \/ RollBack(t, "refused")

-----------------------------------------------------------------------------
(* StockLevelService.rebuild: two reads, and a transaction only if they differ. *)

\* A plausible bug: the cache is compared and nothing replaced.
ReplaceNothing(t) ==
  /\ pc[t] = "replace"
  /\ pc' = [pc EXCEPT ![t] = "done"]
  /\ UNCHANGED <<committed, born, lock, orgLock, op, line, todo, lack, moved, forcedBy, written, number, summed>>

\* The ledger, summed per key.
SumLedger(t) ==
  /\ pc[t] = "read" /\ op[t].kind = "rebuild"
  /\ written' = [written EXCEPT ![t] = ledger]
  /\ summed' = [summed EXCEPT ![t] = {k \in Keys : k \in rows \/ ledger[k] # 0}]
  /\ pc' = [pc EXCEPT ![t] = "compare"]
  /\ UNCHANGED <<committed, born, lock, orgLock, op, line, todo, lack, moved, forcedBy, number>>

Drifted(t) ==
  {k \in rows : bal[k] # written[t][k]} \cup (summed[t] \ rows)

\* The cache, compared with the sums.
Compare(t) ==
  /\ pc[t] = "compare"
  /\ pc' = [pc EXCEPT ![t] = IF Drifted(t) = {} THEN "done" ELSE "replace"]
  /\ UNCHANGED <<committed, born, lock, orgLock, op, line, todo, lack, moved, forcedBy, written, number, summed>>

\* deleteMany waits for every row that is locked, which may end in a deadlock;
\* then createMany from the sums that were read.
Replace(t) ==
  /\ pc[t] = "replace"
  /\ \/ /\ \A k \in Keys : lock[k] = None
        /\ bal' = written[t]
        /\ rows' = summed[t]
        /\ pc' = [pc EXCEPT ![t] = "done"]
        /\ UNCHANGED <<ledger, forced, hasOptions, nextNumber>>
        /\ UNCHANGED <<born, lock, orgLock, op, line, todo, lack, moved, forcedBy, written, number>>
     \/ (\E k \in Keys : lock[k] # None) /\ RollBack(t, "deadlock")
  /\ UNCHANGED summed

\* A rebuild that ends settles whether cache and ledger can be relied on to agree.
Rebuild(t) ==
  /\ SumLedger(t) \/ Compare(t) \/ Replace(t)
  /\ apart' = IF pc'[t] = "done" THEN t \in crossed ELSE apart
  /\ UNCHANGED <<overlapped, crossed>>

-----------------------------------------------------------------------------
(* Waiting for each other. *)

BlockedBy(t, u) ==
  \/ /\ pc[t] \in {"move", "insert"}
     /\ \E k \in Keys : NextKey(t, k) /\ lock[k] = u
  \/ pc[t] = "number" /\ orgLock = u

Deadlocked(t) ==
  \E S \in SUBSET Txn : t \in S /\ \A u \in S : \E v \in S \ {u} : BlockedBy(u, v)

\* PostgreSQL ends a transaction that waits in a circle.
DeadlockAbort(t) == Deadlocked(t) /\ RollBack(t, "deadlock")

-----------------------------------------------------------------------------
Statement(t) ==
  \/ ReadOut(t) \/ ReadOptions(t) \/ EndLine(t) \/ TakeNumber(t) \/ EndSale(t)
  \/ \E lot \in Lots : Bear(t, lot) \/ ReadIn(t, lot)
  \/ \E k \in Keys : Move(t, k) \/ InsertResolves(t, k)
  \/ DeadlockAbort(t)

Step(t) == Rebuild(t) \/ (Statement(t) /\ UNCHANGED <<summed, history>>)

Next == \E t \in Txn : Begin(t) \/ Step(t)

Spec == Init /\ [][Next]_vars

\* A request that was begun is carried on: the server awaits every statement.
FairSpec == Spec /\ \A t \in Txn : WF_vars(Step(t))

-----------------------------------------------------------------------------
(* What the ledger promises. *)

\* The cached balance of every shelf and lot is the sum of its movements, however
\* requests interleave, and a rebuild nobody else was under way with makes it so
\* again.  Only a rebuild that crosses another request may part the two.
CacheMatchesLedger == apart \/ \A k \in Keys : bal[k] = ledger[k]

\* A lot is below zero somewhere only if somebody forced a movement of it.
NegativeLotWasForced ==
  overlapped \/ \A k \in Keys : bal[k] < 0 => \E s \in Shelves : <<s, k[2]>> \in forced

OnLedger(lot) == SumFunction([s \in Shelves |-> ledger[<<s, lot>>]])
Ends(t) == pc[t] # "done" /\ pc'[t] = "done"

\* A transfer, and the move into a first option, leave every lot's total as it was.
TransfersConserve ==
  \A t \in Txn : Ends(t) /\ op[t].kind \in {"transfer", "options"} =>
    \A lot \in Lots : OnLedger(lot)' = OnLedger(lot)

InLines(t) == SumFunction([i \in DOMAIN op[t].lines |-> op[t].lines[i].quantity])
Total == SumFunction(ledger)

\* A sale that commits took exactly what its lines say, never a part of it.
SalesTakeTheirLines ==
  \A t \in Txn : Ends(t) /\ op[t].kind = "sale" => Total' = Total - InLines(t)

\* Invoice numbers of recorded sales are 1, 2, 3 ... with none missing or doubled.
SoldBy == {t \in Txn : pc[t] = "done" /\ op[t].kind = "sale"}
NumbersSequential ==
  /\ {number[t] : t \in SoldBy} = 1..(nextNumber - 1)
  /\ Cardinality(SoldBy) = nextNumber - 1

\* Once a product has options, nothing stays on a shelf that names none.
StockUnderAnOption ==
  overlapped \/ (hasOptions => \A k \in Keys : k[1] \in PlainShelves => bal[k] = 0)

\* Two requests racing to create the same balance row both succeed.
NoRequestFails == \A t \in Txn : pc[t] # "failed"

\* Every request that was begun ends, however its rows are contended.
EveryRequestEnds == \A t \in Txn : Open(t) ~> ~Open(t)

\* What the balances say without overlapping requests: none is below zero but by
\* force, and none is left under no option.
BalancesExplained == NegativeLotWasForced /\ StockUnderAnOption

\* What a committed request moved is what it was asked to move.
MovesComeOutEven == [][TransfersConserve /\ SalesTakeTheirLines]_vars
=============================================================================
