------------------------- MODULE StockLedgerProofs --------------------------
(***************************************************************************)
(* For any shelves, lots, requests and number of open transactions: the    *)
(* state keeps its type, and the cached balance of every shelf and lot is  *)
(* the sum of its movements.  The second needs to know what an open        *)
(* transaction has written: a row it has locked stands at the committed    *)
(* balance plus its own movements, and it has moved nothing elsewhere.     *)
(* And of a rebuild that crosses nobody: what it summed is still the       *)
(* ledger, because nobody else is open.                                    *)
(*                                                                         *)
(* And the numbers of the recorded sales are 1, 2, 3 ... without a gap or  *)
(* a double, whatever rolls back: the counter's row is locked from the     *)
(* moment a sale takes its number until it ends, so the number taken is    *)
(* still the next one.                                                     *)
(*                                                                         *)
(* And while requests do not overlap no balance is below zero but by force *)
(* and none of the stock stays under no option: what every request says of *)
(* a shelf it is still moving is what the balance comes to once its line   *)
(* is written, not what it has written so far.                             *)
(*                                                                         *)
(* And what a request that commits moved comes to nothing on the whole, or *)
(* to what the sale's lines say: at every step what it has moved and has   *)
(* still to move is that of the lines it has read, but for a shortfall     *)
(* nobody has borne yet.                                                   *)
(***************************************************************************)
EXTENDS StockLedger, SumLemmas, FiniteSetTheorems, TLAPS

\* A request starts at its first line, and its current line is one it has.
LineOpen ==
  \A t \in Txn :
    /\ pc[t] = "idle" => line[t] = 1
    /\ Open(t) => op[t] \in Ops
    /\ Open(t) /\ op[t].kind \notin {"options", "rebuild"} => line[t] \in 1..Len(op[t].lines)

\* A locked row stands at the committed balance plus the holder's movements.
HeldExact == \A t \in Txn, k \in Keys : Holds(t, k) => written[t][k] = bal[k] + moved[t][k]

\* A transaction has moved nothing on rows it has not locked.
UnheldUnmoved == \A t \in Txn, k \in Keys : ~Holds(t, k) => moved[t][k] = 0

\* Where there is no row the balance counts as nothing.
NoRowNoStock == \A k \in Keys : k \notin rows => bal[k] = 0

\* Where a rebuild can be, and that it locks no row before it writes.
RebuildOnly ==
  \A t \in Txn :
    /\ pc[t] \in {"compare", "replace"} => op[t].kind = "rebuild"
    /\ pc[t] \in {"bear", "move", "insert", "number", "commit"} => op[t].kind # "rebuild"
    /\ \A k \in Keys : Holds(t, k) => pc[t] # "idle" /\ op[t].kind # "rebuild"

Summing(t) == pc[t] \in {"compare", "replace"}

\* A key that a rebuild found no movement of sums to nothing.
SumsCover == \A t \in Txn, k \in Keys : Summing(t) /\ k \notin summed[t] => written[t][k] = 0

\* A rebuild that crosses nobody is the only open request, so its sums are still true.
RebuildAlone ==
  \A t, u \in Txn : t # u /\ Open(t) /\ Open(u) /\ op[t].kind = "rebuild" => t \in crossed
SumsCurrent == \A t \in Txn : Summing(t) /\ t \notin crossed => written[t] = ledger

RInv == RebuildOnly /\ SumsCover /\ RebuildAlone /\ SumsCurrent

IInv == /\ TypeOK /\ LineOpen /\ HeldExact /\ UnheldUnmoved /\ NoRowNoStock
        /\ CacheMatchesLedger /\ RInv

-----------------------------------------------------------------------------
(* Sums over the shelves and the lots. *)

\* What of a lot lies on all shelves together, and what of every lot does.
OfLot(h, lot) == [s \in Shelves |-> h[<<s, lot>>]]
LotSum(h, lot) == SumFunctionOnSet(OfLot(h, lot), Shelves)
LotSums(h) == [lot \in Lots |-> LotSum(h, lot)]

LEMMA LotSumType ==
  ASSUME NEW h, \A k \in Keys : h[k] \in Int, NEW lot \in Lots
  PROVE  LotSum(h, lot) \in Int
<1>1. \A s \in Shelves : OfLot(h, lot)[s] \in Int
  BY DEF OfLot, Keys
<1>2. QED
  BY <1>1, SumType, RequestAssumption DEF LotSum

LEMMA SumByLots ==
  ASSUME NEW h, \A k \in Keys : h[k] \in Int
  PROVE  SumFunctionOnSet(h, Keys) = SumFunctionOnSet(LotSums(h), Lots)
<1> DEFINE column == [lot \in Lots |-> OfLot(h, lot)]
           g == LotSums(h)
<1>1. /\ \A lot \in Lots, s \in Shelves : column[lot][s] = h[<<s, lot>>]
      /\ \A lot \in Lots : g[lot] = SumFunctionOnSet(column[lot], Shelves)
  BY DEF LotSums, LotSum, OfLot
<1>2. IsFiniteSet(Shelves) /\ IsFiniteSet(Lots) /\ Keys = Shelves \X Lots
  BY RequestAssumption DEF Keys
<1> HIDE DEF column, g
<1>3. SumFunctionOnSet(h, Keys) = SumFunctionOnSet(g, Lots)
  BY <1>1, <1>2, SumByColumns
<1>4. QED
  BY <1>3 DEF g

\* What changes on one shelf changes the lot by as much.
LEMMA LotChanges ==
  ASSUME NEW h, NEW g, \A k \in Keys : h[k] \in Int /\ g[k] \in Int, NEW lot \in Lots, NEW a \in Shelves,
         \A s \in Shelves \ {a} : g[<<s, lot>>] = h[<<s, lot>>]
  PROVE  LotSum(g, lot) = LotSum(h, lot) + (g[<<a, lot>>] - h[<<a, lot>>])
<1> DEFINE x == OfLot(h, lot)
           y == OfLot(g, lot)
<1>1. /\ \A s \in Shelves : x[s] \in Int /\ y[s] \in Int
      /\ x[a] = h[<<a, lot>>] /\ y[a] = g[<<a, lot>>]
      /\ \A s \in Shelves \ {a} : y[s] = x[s]
  BY DEF OfLot, Keys
<1> HIDE DEF x, y
<1>2. SumFunctionOnSet(y, Shelves) = SumFunctionOnSet(x, Shelves) + (y[a] - x[a])
  BY <1>1, SumChanges, RequestAssumption
<1>3. QED
  BY <1>1, <1>2 DEF x, y, LotSum

\* What leaves one shelf for another leaves the lot as it was.
LEMMA LotStays ==
  ASSUME NEW h, NEW g, \A k \in Keys : h[k] \in Int /\ g[k] \in Int, NEW lot \in Lots,
         NEW a \in Shelves, NEW b \in Shelves, a # b, NEW x \in Int,
         g[<<a, lot>>] = h[<<a, lot>>] - x, g[<<b, lot>>] = h[<<b, lot>>] + x,
         \A s \in Shelves \ {a, b} : g[<<s, lot>>] = h[<<s, lot>>]
  PROVE  LotSum(g, lot) = LotSum(h, lot)
<1> DEFINE y == OfLot(h, lot)
           z == OfLot(g, lot)
<1>1. /\ \A s \in Shelves : y[s] \in Int /\ z[s] \in Int
      /\ z[a] = y[a] - x /\ z[b] = y[b] + x
      /\ \A s \in Shelves \ {a, b} : z[s] = y[s]
  BY DEF OfLot, Keys
<1> HIDE DEF y, z
<1>2. SumFunctionOnSet(z, Shelves) = SumFunctionOnSet(y, Shelves)
  BY <1>1, SumStays, RequestAssumption, SMTT(60)
<1>3. QED
  BY <1>2 DEF y, z, LotSum

\* What is taken off one shelf, of every lot, is gone from them all together.
TakenOff(h, g, a, taken) ==
  /\ a \in Shelves /\ \A lot \in Lots : taken[lot] \in Int
  /\ \A k \in Keys : /\ h[k] \in Int /\ g[k] \in Int
                      /\ g[k] = IF k[1] = a THEN h[k] - taken[k[2]] ELSE h[k]

LEMMA LotsTaken ==
  ASSUME NEW h, NEW g, NEW a, NEW taken, TakenOff(h, g, a, taken)
  PROVE  /\ SumFunctionOnSet(LotSums(h), Lots) \in Int /\ SumFunctionOnSet(LotSums(g), Lots) \in Int
         /\ SumFunctionOnSet(taken, Lots) \in Int
         /\ SumFunctionOnSet(LotSums(h), Lots) =
              SumFunctionOnSet(LotSums(g), Lots) + SumFunctionOnSet(taken, Lots)
<1> DEFINE x == LotSums(h)
           y == LotSums(g)
<1>0. a \in Shelves /\ \A k \in Keys : h[k] \in Int /\ g[k] \in Int
  BY DEF TakenOff
<1>1. \A lot \in Lots : x[lot] \in Int /\ y[lot] \in Int /\ x[lot] = y[lot] + taken[lot]
  <2> SUFFICES ASSUME NEW lot \in Lots
               PROVE  /\ LotSum(h, lot) \in Int /\ LotSum(g, lot) \in Int
                      /\ LotSum(h, lot) = LotSum(g, lot) + taken[lot]
    BY DEF LotSums
  <2>1. LotSum(h, lot) \in Int /\ LotSum(g, lot) \in Int
    BY <1>0, LotSumType
  <2>2. /\ g[<<a, lot>>] = h[<<a, lot>>] - taken[lot] /\ h[<<a, lot>>] \in Int
        /\ \A s \in Shelves \ {a} : g[<<s, lot>>] = h[<<s, lot>>]
    BY DEF TakenOff, Keys
  <2>3. LotSum(g, lot) = LotSum(h, lot) + (g[<<a, lot>>] - h[<<a, lot>>])
    BY <1>0, <2>2, LotChanges
  <2>4. QED
    BY <2>1, <2>2, <2>3 DEF TakenOff
<1> HIDE DEF x, y
<1>2. /\ SumFunctionOnSet(x, Lots) \in Int /\ SumFunctionOnSet(y, Lots) \in Int
      /\ SumFunctionOnSet(taken, Lots) \in Int
  BY <1>1, SumType, RequestAssumption DEF TakenOff
<1>3. SumFunctionOnSet(x, Lots) = SumFunctionOnSet(y, Lots) + SumFunctionOnSet(taken, Lots)
  BY <1>1, SumOfSums, RequestAssumption DEF TakenOff
<1>4. QED
  BY <1>2, <1>3 DEF x, y

-----------------------------------------------------------------------------
(* Types, and the cache that is the ledger. *)

USE StockAssumption DEF Ended

LEMMA NoMovesType == NoMoves \in [Keys -> Int]
  BY DEF NoMoves

LEMMA InitIInv == Init => IInv
<1> SUFFICES ASSUME Init PROVE IInv
  OBVIOUS
<1>1. TypeOK
  BY NoMovesType DEF Init, TypeOK
<1>2. LineOpen
  BY DEF Init, LineOpen, Open
<1>3. HeldExact /\ UnheldUnmoved
  BY DEF Init, HeldExact, UnheldUnmoved, Holds, NoMoves
<1>4. NoRowNoStock
  BY DEF Init, NoRowNoStock
<1>5. CacheMatchesLedger
  BY DEF Init, CacheMatchesLedger
<1>6. RInv
  BY DEF Init, RInv, RebuildOnly, SumsCover, RebuildAlone, SumsCurrent, Summing, Open, Holds
<1>7. QED
  BY <1>1, <1>2, <1>3, <1>4, <1>5, <1>6 DEF IInv

\* What every open request asks for, and that its current line is one of its lines.
LEMMA CurrentLine ==
  ASSUME TypeOK, LineOpen, NEW t \in Txn, Open(t), op[t].kind \notin {"options", "rebuild"}
  PROVE  Current(t) \in Line /\ Current(t).quantity \in Nat /\ op[t] \in Op
<1>1. op[t] \in Ops /\ line[t] \in 1..Len(op[t].lines)
  BY DEF LineOpen
<1>2. op[t].lines \in Seq(Line)
  BY <1>1 DEF Op
<1>3. Current(t) \in Line
  BY <1>1, <1>2 DEF Current
<1>4. QED
  BY <1>1, <1>3 DEF Line

\* A step of a request that is no rebuild, and leaves the others where they are.
Carries(t) ==
  /\ Open(t) /\ op[t].kind # "rebuild" /\ op' = op
  /\ \A u \in Txn \ {t} : pc'[u] = pc[u] /\ written'[u] = written[u]
  /\ pc'[t] \notin {"idle", "compare", "replace"}
  /\ \A u \in Txn, k \in Keys : Holds(u, k)' => u = t \/ Holds(u, k)
  /\ UNCHANGED <<summed, crossed>>

\* Such a step leaves what is known of rebuilds true: one that is open was crossed.
LEMMA CarriesRInv ==
  ASSUME TypeOK, RInv, NEW t \in Txn, Carries(t)
  PROVE  RInv'
<1> USE DEF Carries, RInv
<1>1. \A u \in Txn : Summing(u)' => u # t /\ Summing(u)
  BY DEF Summing
<1>2. RebuildOnly'
  BY DEF RebuildOnly
<1>3. SumsCover'
  BY <1>1 DEF SumsCover
<1>4. RebuildAlone'
  <2>1. \A u \in Txn : Open(u)' => Open(u)
    BY DEF Open
  <2>2. QED
    BY <2>1 DEF RebuildAlone
<1>5. SumsCurrent'
  <2> SUFFICES ASSUME NEW u \in Txn, Summing(u)', u \notin crossed' PROVE FALSE
    BY DEF SumsCurrent
  <2>1. u # t /\ Open(u) /\ op[u].kind = "rebuild"
    BY <1>1 DEF Summing, Open, RebuildOnly
  <2>2. QED
    BY <2>1 DEF RebuildAlone
<1>6. QED
  BY <1>2, <1>3, <1>4, <1>5

Kept == UNCHANGED <<summed, history>>

\* Rolling back keeps the invariant.
LEMMA RollBackIInv ==
  ASSUME IInv, NEW t \in Txn, NEW outcome \in Ended, Open(t), op[t].kind # "rebuild",
         RollBack(t, outcome), Kept
  PROVE  IInv'
<1> USE DEF RollBack, Release, committed, IInv, Kept, history
<1>1. TypeOK'
  BY NoMovesType DEF TypeOK, Holds
<1>2. LineOpen'
  BY DEF LineOpen, Open, TypeOK
<1>3. HeldExact'
  BY DEF HeldExact, Holds, TypeOK
<1>4. UnheldUnmoved'
  BY DEF UnheldUnmoved, Holds, TypeOK, NoMoves
<1>5. NoRowNoStock' /\ CacheMatchesLedger'
  BY DEF NoRowNoStock, CacheMatchesLedger
<1>6. RInv'
  <2>1. Carries(t)
    BY DEF Carries, Holds, TypeOK
  <2>2. QED
    BY <2>1, CarriesRInv
<1>7. QED
  BY <1>1, <1>2, <1>3, <1>4, <1>5, <1>6

\* Committing keeps the invariant: the rows it held take the value it wrote, and
\* the ledger gains what it moved, which is the same.
LEMMA CommitIInv ==
  ASSUME IInv, NEW t \in Txn, Open(t), op[t].kind # "rebuild", Commit(t), Kept
  PROVE  IInv'
<1> USE DEF Commit, Release, IInv, Kept, history
<1>1. TypeOK'
  BY NoMovesType DEF TypeOK, Holds
<1>2. LineOpen'
  BY DEF LineOpen, Open, TypeOK
<1>3. HeldExact'
  <2> SUFFICES ASSUME NEW u \in Txn, NEW k \in Keys, Holds(u, k)'
               PROVE  written'[u][k] = bal'[k] + moved'[u][k]
    BY DEF HeldExact
  <2>1. u # t /\ Holds(u, k) /\ ~Holds(t, k)
    BY DEF Holds, TypeOK
  <2>2. QED
    BY <2>1 DEF HeldExact, TypeOK
<1>4. UnheldUnmoved'
  BY DEF UnheldUnmoved, Holds, TypeOK, NoMoves
<1>5. NoRowNoStock'
  BY DEF NoRowNoStock, TypeOK
<1>6. CacheMatchesLedger'
  BY DEF CacheMatchesLedger, HeldExact, UnheldUnmoved, TypeOK
<1>7. RInv'
  <2>1. Carries(t)
    BY DEF Carries, Holds, TypeOK
  <2>2. QED
    BY <2>1, CarriesRInv
<1>8. QED
  BY <1>1, <1>2, <1>3, <1>4, <1>5, <1>6, <1>7

\* Writing a balance row keeps the invariant: what the writer sees there is the
\* committed balance plus what it has moved.
LEMMA WriteIInv ==
  ASSUME IInv, NEW t \in Txn, NEW k \in Keys, lock[k] \in {None, t}, Open(t), op[t].kind # "rebuild",
         WriteBalance(t, k), Kept
  PROVE  IInv'
<1> USE DEF IInv, Kept, history
<1>0. (IF VisibleRow(t, k) THEN Visible(t, k) ELSE 0) = bal[k] + moved[t][k]
  BY SMTT(60) DEF VisibleRow, Visible, HeldExact, UnheldUnmoved, NoRowNoStock, TypeOK
<1>a. /\ todo[t][k] \in Int /\ moved[t][k] \in Int /\ bal[k] \in Int
      /\ written[t] \in [Keys -> Int] /\ moved[t] \in [Keys -> Int] /\ todo[t] \in [Keys -> Int]
  BY SMTT(60) DEF TypeOK
<1>b. /\ written' = [written EXCEPT ![t] = [written[t] EXCEPT ![k] = bal[k] + moved[t][k] + todo[t][k]]]
      /\ moved' = [moved EXCEPT ![t] = [moved[t] EXCEPT ![k] = moved[t][k] + todo[t][k]]]
      /\ todo' = [todo EXCEPT ![t] = [todo[t] EXCEPT ![k] = 0]]
      /\ lock' = [lock EXCEPT ![k] = t]
  BY <1>0 DEF WriteBalance
<1>c. /\ written' \in [Txn -> [Keys -> Int]] /\ moved' \in [Txn -> [Keys -> Int]]
      /\ todo' \in [Txn -> [Keys -> Int]] /\ lock' \in [Keys -> Txn \cup {None}]
  <2>1. /\ [written[t] EXCEPT ![k] = bal[k] + moved[t][k] + todo[t][k]] \in [Keys -> Int]
        /\ [moved[t] EXCEPT ![k] = moved[t][k] + todo[t][k]] \in [Keys -> Int]
        /\ [todo[t] EXCEPT ![k] = 0] \in [Keys -> Int]
    BY <1>a
  <2>2. QED
    BY <1>b, <2>1 DEF TypeOK
<1>d. \A u \in Txn, j \in Keys :
        /\ written'[u][j] = IF u = t /\ j = k THEN bal[k] + moved[t][k] + todo[t][k] ELSE written[u][j]
        /\ moved'[u][j] = IF u = t /\ j = k THEN moved[t][k] + todo[t][k] ELSE moved[u][j]
        /\ Holds(u, j)' <=> IF j = k THEN u = t ELSE Holds(u, j)
  BY <1>a, <1>b DEF TypeOK, Holds
<1>e. UNCHANGED <<committed, born, orgLock, op, line, lack, forcedBy, number>>
      /\ pc' = [pc EXCEPT ![t] = "move"]
  BY DEF WriteBalance
<1>1. TypeOK'
  BY <1>c, <1>e DEF TypeOK, committed
<1>2. LineOpen'
  BY <1>e DEF LineOpen, Open, TypeOK
<1>3. HeldExact'
  <2> SUFFICES ASSUME NEW u \in Txn, NEW j \in Keys, Holds(u, j)'
               PROVE  written'[u][j] = bal'[j] + moved'[u][j]
    BY DEF HeldExact
  <2>1. bal' = bal
    BY <1>e DEF committed
  <2>2. CASE j = k
    BY <1>a, <1>d, <2>1, <2>2
  <2>3. CASE j # k
    BY <1>d, <2>1, <2>3 DEF HeldExact
  <2>4. QED
    BY <2>2, <2>3
<1>4. UnheldUnmoved'
  <2> SUFFICES ASSUME NEW u \in Txn, NEW j \in Keys, ~Holds(u, j)'
               PROVE  moved'[u][j] = 0
    BY DEF UnheldUnmoved
  <2>1. CASE j = k
    BY <1>d, <2>1, SMTT(60) DEF UnheldUnmoved, Holds
  <2>2. CASE j # k
    BY <1>d, <2>2 DEF UnheldUnmoved
  <2>3. QED
    BY <2>1, <2>2
<1>5. NoRowNoStock' /\ CacheMatchesLedger'
  BY <1>e DEF NoRowNoStock, CacheMatchesLedger, committed
<1>6. RInv'
  <2>1. Carries(t)
    BY <1>b, <1>d, <1>e DEF Carries, TypeOK
  <2>2. QED
    BY <2>1, CarriesRInv
<1>7. QED
  BY <1>1, <1>2, <1>3, <1>4, <1>5, <1>6

\* A step that only turns a request's own bookkeeping keeps the invariant.
LEMMA BookkeepingIInv ==
  ASSUME IInv, UNCHANGED <<bal, rows, ledger, lock, moved, written, apart>>, TypeOK', LineOpen', RInv'
  PROVE  IInv'
BY DEF IInv, HeldExact, UnheldUnmoved, NoRowNoStock, CacheMatchesLedger, Holds

\* A request that begins crosses the rebuilds that are open, and they it.
LEMMA BeginIInv ==
  ASSUME IInv, NEW t \in Txn, Begin(t)
  PROVE  IInv'
<1>1. PICK o \in Ops : op' = [op EXCEPT ![t] = o]
  BY DEF Begin
<1>2. /\ pc[t] = "idle" /\ pc' = [pc EXCEPT ![t] = "read"]
      /\ crossed' = crossed \cup Crossing(t)
  BY DEF Begin
<1>3. TypeOK'
  <2>1. Crossing(t) \subseteq Txn
    BY DEF Crossing
  <2>2. overlapped' \in BOOLEAN
    BY DEF Begin, IInv, TypeOK
  <2>3. QED
    BY <1>1, <1>2, <2>1, <2>2 DEF Begin, committed, IInv, TypeOK
<1>4. LineOpen'
  <2>1. o.kind \notin {"options", "rebuild"} => 1 \in 1..Len(o.lines)
    <3>1. o.lines \in Seq(Line)
      BY DEF Op
    <3>2. QED
      BY <3>1
  <2>2. line[t] = 1 /\ line' = line
    BY <1>2 DEF Begin, IInv, LineOpen
  <2>3. QED
    BY <1>1, <1>2, <2>1, <2>2 DEF IInv, LineOpen, Open, TypeOK
<1>5. RInv'
  <2>1. /\ \A u \in Txn : pc'[u] = IF u = t THEN "read" ELSE pc[u]
        /\ \A u \in Txn \ {t} : op'[u] = op[u]
        /\ written' = written /\ lock' = lock /\ ledger' = ledger /\ summed' = summed
    BY <1>1, <1>2 DEF Begin, committed, IInv, TypeOK
  <2>2. RebuildOnly'
    BY <1>2, <2>1 DEF IInv, RInv, RebuildOnly, Holds
  <2>3. SumsCover' /\ SumsCurrent'
    BY <1>2, <2>1 DEF IInv, RInv, SumsCover, SumsCurrent, Summing
  <2>4. RebuildAlone'
    <3> SUFFICES ASSUME NEW v \in Txn, NEW u \in Txn, v # u, Open(v)', Open(u)', op'[v].kind = "rebuild"
                 PROVE  v \in crossed'
      BY DEF RebuildAlone
    <3>1. CASE v # t /\ u # t
      BY <1>2, <2>1, <3>1 DEF IInv, RInv, RebuildAlone, Open
    <3>2. CASE v = t \/ u = t
      <4>1. v \in {w \in Txn : Open(w)} \cup {t} /\ {w \in Txn : Open(w)} \cup {t} # {t}
        BY <2>1, <3>2 DEF Open
      <4>2. QED
        BY <1>2, <4>1 DEF Crossing
    <3>3. QED
      BY <3>1, <3>2
  <2>5. QED
    BY <2>2, <2>3, <2>4 DEF RInv
<1>6. QED
  BY <1>3, <1>4, <1>5, BookkeepingIInv DEF Begin, committed

\* Every statement of a request that is no rebuild keeps the invariant.
LEMMA StatementIInv ==
  ASSUME IInv, NEW t \in Txn, Statement(t), Kept
  PROVE  IInv'
<1> USE DEF Kept, history
<1>0. op[t].kind # "rebuild" /\ Open(t)
  BY DEF Statement, ReadOut, Outbound, ReadOptions, EndLine, TakeNumber, EndSale, Bear, ReadIn, Move,
         InsertResolves, DeadlockAbort, Deadlocked, BlockedBy, Open, IInv, RInv, RebuildOnly
<1>a. ASSUME UNCHANGED <<bal, rows, ledger, lock, moved, written, op>>, TypeOK', LineOpen',
             \E where \in {"read", "bear", "move", "insert", "number", "commit"} :
               pc' = [pc EXCEPT ![t] = where]
      PROVE  IInv'
  <2>1. Carries(t)
    BY <1>0, <1>a DEF Carries, Holds, IInv, TypeOK
  <2>2. RInv'
    BY <2>1, CarriesRInv DEF IInv
  <2>3. QED
    BY <1>a, <2>2, BookkeepingIInv
<1>2. ASSUME ReadOut(t) PROVE IInv'
  <2>1. CASE RollBack(t, "refused")
    BY <2>1, <1>0, RollBackIInv
  <2>2. CASE ~RollBack(t, "refused")
    <3>1. PICK taken \in [Lots -> Quantities], shortfall \in Quantities :
            /\ todo' = [todo EXCEPT ![t] = Movements(t, taken)]
            /\ lack' = [lack EXCEPT ![t] = shortfall]
            /\ pc' = [pc EXCEPT ![t] = IF shortfall > 0 THEN "bear" ELSE "move"]
            /\ UNCHANGED <<committed, born, lock, orgLock, op, line, moved, forcedBy, written, number>>
      BY <1>2, <2>2 DEF ReadOut
    <3>2. Movements(t, taken) \in [Keys -> Int]
      BY DEF Movements, Quantities, Keys
    <3>3. TypeOK'
      BY <3>1, <3>2, SMTT(60) DEF IInv, TypeOK, committed, Quantities
    <3>4. LineOpen'
      BY <1>2, <3>1 DEF ReadOut, IInv, LineOpen, Open, TypeOK
    <3>5. QED
      BY <3>1, <3>3, <3>4, <1>a DEF committed
  <2>3. QED BY <2>1, <2>2
<1>3. ASSUME ReadOptions(t) PROVE IInv'
  <2> DEFINE m == [k \in Keys |-> IF k[1] \in PlainShelves THEN -bal[k]
                      ELSE IF TakesOver(k[1]) THEN bal[<<PlainOf(k[1]), k[2]>>] ELSE 0]
  <2>1. m \in [Keys -> Int]
    <3>1. \A k \in Keys : TakesOver(k[1]) => <<PlainOf(k[1]), k[2]>> \in Keys
      BY DEF TakesOver, PlainOf, Keys
    <3>2. QED
      BY <3>1, SMTT(60) DEF IInv, TypeOK
  <2>2. todo' = todo \/ todo' = [todo EXCEPT ![t] = m]
    BY <1>3 DEF ReadOptions
  <2> HIDE DEF m
  <2>3. todo' \in [Txn -> [Keys -> Int]]
    <3>1. todo \in [Txn -> [Keys -> Int]]
      BY DEF IInv, TypeOK
    <3>2. QED
      BY <2>1, <2>2, <3>1, ZenonT(60)
  <2>4. TypeOK'
    BY <1>3, <2>3 DEF ReadOptions, IInv, TypeOK, committed
  <2>5. LineOpen'
    BY <1>3 DEF ReadOptions, IInv, LineOpen, Open, TypeOK
  <2>6. QED
    BY <1>3, <2>4, <2>5, <1>a DEF ReadOptions, committed
<1>4. ASSUME EndLine(t) PROVE IInv'
  <2>1. CASE line[t] < Len(op[t].lines)
    <3>1. TypeOK'
      <4>1. line[t] + 1 \in Nat \ {0}
        BY DEF IInv, TypeOK
      <4>2. line' = [line EXCEPT ![t] = line[t] + 1] /\ line' \in [Txn -> Nat \ {0}]
        <5>1. line' = [line EXCEPT ![t] = line[t] + 1]
          BY <1>4, <2>1 DEF EndLine
        <5>2. line \in [Txn -> Nat \ {0}]
          BY DEF IInv, TypeOK
        <5>3. QED
          BY <4>1, <5>1, <5>2
      <4>3. QED
        BY <1>4, <2>1, <4>2, ZenonT(60) DEF EndLine, IInv, TypeOK, committed
    <3>2. LineOpen'
      <4>1. op[t] \in Op
        BY <1>4 DEF EndLine, IInv, LineOpen, Open
      <4>2. op[t].lines \in Seq(Line)
        BY <4>1 DEF Op
      <4>3. Len(op[t].lines) \in Nat
        BY <4>2
      <4>4. QED
        <5>1. line[t] \in Nat /\ line[t] + 1 \in 1..Len(op[t].lines)
          BY <2>1, <4>3 DEF IInv, TypeOK
        <5>2. /\ line' = [line EXCEPT ![t] = line[t] + 1] /\ op' = op
              /\ pc' = [pc EXCEPT ![t] = "read"] /\ pc[t] = "move"
          BY <1>4, <2>1 DEF EndLine
        <5>3. QED
          BY <5>1, <5>2 DEF IInv, LineOpen, Open, TypeOK
    <3>3. QED
      BY <1>4, <2>1, <3>1, <3>2, <1>a DEF EndLine, committed
  <2>2. CASE ~(line[t] < Len(op[t].lines)) /\ op[t].kind = "sale"
    <3>1. TypeOK'
      BY <1>4, <2>2 DEF EndLine, IInv, TypeOK, committed
    <3>2. LineOpen'
      BY <1>4, <2>2, ZenonT(60) DEF EndLine, IInv, LineOpen, Open, TypeOK
    <3>3. QED
      BY <1>4, <2>2, <3>1, <3>2, <1>a DEF EndLine, committed
  <2>3. CASE Commit(t)
    BY <1>0, <2>3, CommitIInv
  <2>4. QED
    BY <1>4, <2>1, <2>2, <2>3 DEF EndLine
<1>5. ASSUME TakeNumber(t) PROVE IInv'
  <2>1. TypeOK'
    BY <1>5 DEF TakeNumber, IInv, TypeOK, committed
  <2>2. LineOpen'
    BY <1>5 DEF TakeNumber, IInv, LineOpen, Open, TypeOK
  <2>3. QED
    BY <1>5, <2>1, <2>2, <1>a DEF TakeNumber, committed
<1>6. ASSUME EndSale(t) PROVE IInv'
  BY <1>6, CommitIInv, <1>0, RollBackIInv DEF EndSale
<1>7. ASSUME NEW lot \in Lots, Bear(t, lot) PROVE IInv'
  <2>1. /\ todo' \in [Txn -> [Keys -> Int]] /\ forcedBy' \in [Txn -> SUBSET Keys]
        /\ lack' \in [Txn -> Nat]
    BY <1>7 DEF Bear, IInv, TypeOK
  <2>2. TypeOK'
    BY <1>7, <2>1 DEF Bear, IInv, TypeOK, committed
  <2>3. LineOpen'
    BY <1>7 DEF Bear, IInv, LineOpen, Open, TypeOK
  <2>4. QED
    BY <1>7, <2>2, <2>3, <1>a DEF Bear, committed
<1>8. ASSUME NEW lot \in Lots, ReadIn(t, lot) PROVE IInv'
  <2>1. CASE ~Allowed(t, Current(t).shelf)
    BY <1>8, <2>1, <1>0, RollBackIInv DEF ReadIn
  <2>2. CASE Allowed(t, Current(t).shelf)
    <3>1. Current(t).quantity \in Nat
      BY <1>8, CurrentLine DEF ReadIn, IInv, Open
    <3>2. [todo[t] EXCEPT ![<<Current(t).shelf, lot>>] = Current(t).quantity] \in [Keys -> Int]
      <4>1. todo[t] \in [Keys -> Int] /\ Current(t).quantity \in Int
        BY <3>1 DEF IInv, TypeOK
      <4>2. QED
        BY <4>1
    <3>3. TypeOK'
      <4>1. todo' = [todo EXCEPT ![t] = [todo[t] EXCEPT ![<<Current(t).shelf, lot>>] = Current(t).quantity]]
        BY <1>8, <2>2 DEF ReadIn
      <4>2. todo' \in [Txn -> [Keys -> Int]]
        BY <3>2, <4>1 DEF IInv, TypeOK
      <4>3. pc' = [pc EXCEPT ![t] = "move"] /\ born' = born \cup {lot}
        BY <1>8, <2>2 DEF ReadIn
      <4>4. UNCHANGED <<bal, rows, ledger, forced, hasOptions, nextNumber, lock, orgLock,
                        op, line, lack, moved, forcedBy, written, number>>
        BY <1>8, <2>2 DEF ReadIn, committed
      <4>5. QED
        BY <4>2, <4>3, <4>4 DEF IInv, TypeOK
    <3>4. LineOpen'
      BY <1>8, <2>2 DEF ReadIn, IInv, LineOpen, Open, TypeOK
    <3>5. QED
      BY <1>8, <2>2, <3>3, <3>4, <1>a DEF ReadIn, committed
  <2>3. QED BY <2>1, <2>2
<1>9. ASSUME NEW k \in Keys, Move(t, k) PROVE IInv'
  <2>1. CASE RollBack(t, "refused")
    BY <2>1, <1>0, RollBackIInv
  <2>2. CASE lock[k] \in {None, t} /\ WriteBalance(t, k)
    BY <1>9, <2>2, <1>0, WriteIInv DEF Move
  <2>3. CASE /\ pc' = [pc EXCEPT ![t] = "insert"]
             /\ UNCHANGED <<committed, born, lock, orgLock, op, line, todo, lack, moved, forcedBy, written, number>>
    <3>1. TypeOK'
      BY <2>3 DEF IInv, TypeOK, committed
    <3>2. LineOpen'
      BY <1>9, <2>3 DEF Move, IInv, LineOpen, Open, TypeOK
    <3>3. QED
      BY <2>3, <3>1, <3>2, <1>a DEF committed
  <2>4. QED
    BY <1>9, <2>1, <2>2, <2>3 DEF Move
<1>10. ASSUME NEW k \in Keys, InsertResolves(t, k) PROVE IInv'
  <2>1. CASE k \in rows
    BY <1>10, <2>1, <1>0, RollBackIInv DEF InsertResolves
  <2>2. CASE k \notin rows
    BY <1>10, <2>2, <1>0, WriteIInv DEF InsertResolves
  <2>3. QED BY <2>1, <2>2
<1>11. ASSUME DeadlockAbort(t) PROVE IInv'
  BY <1>11, <1>0, RollBackIInv DEF DeadlockAbort
<1>12. QED
  BY <1>2, <1>3, <1>4, <1>5, <1>6, <1>7, <1>8, <1>9, <1>10, <1>11 DEF Statement

\* A rebuild keeps it: what it writes is what it summed, and unless it was crossed
\* that is still the ledger; if it writes nothing, the cache was right.
LEMMA RebuildIInv ==
  ASSUME IInv, NEW t \in Txn, Rebuild(t)
  PROVE  IInv'
<1> USE DEF IInv, RInv
<1>0. UNCHANGED <<overlapped, crossed>> /\ apart' = IF pc'[t] = "done" THEN t \in crossed ELSE apart
  BY DEF Rebuild
<1>1. ASSUME SumLedger(t) PROVE IInv'
  <2>1. /\ pc[t] = "read" /\ op[t].kind = "rebuild"
        /\ pc' = [pc EXCEPT ![t] = "compare"] /\ written' = [written EXCEPT ![t] = ledger]
        /\ summed' = [summed EXCEPT ![t] = {k \in Keys : k \in rows \/ ledger[k] # 0}]
        /\ UNCHANGED <<bal, rows, ledger, forced, hasOptions, nextNumber>>
        /\ UNCHANGED <<born, lock, orgLock, op, line, todo, lack, moved, forcedBy, number>>
    BY <1>1 DEF SumLedger, committed
  <2>2. TypeOK'
    BY <1>0, <2>1 DEF TypeOK
  <2>3. LineOpen'
    BY <2>1 DEF LineOpen, Open, TypeOK
  <2>4. HeldExact' /\ UnheldUnmoved'
    BY <2>1, ZenonT(60) DEF HeldExact, UnheldUnmoved, Holds, RebuildOnly, TypeOK
  <2>5. NoRowNoStock' /\ CacheMatchesLedger'
    BY <1>0, <2>1 DEF NoRowNoStock, CacheMatchesLedger, TypeOK
  <2>6. RebuildOnly' /\ RebuildAlone'
    BY <1>0, <2>1 DEF RebuildOnly, RebuildAlone, Open, Holds, TypeOK
  <2>7. SumsCover' /\ SumsCurrent'
    BY <1>0, <2>1 DEF SumsCover, SumsCurrent, Summing, TypeOK
  <2>8. QED
    BY <2>2, <2>3, <2>4, <2>5, <2>6, <2>7
<1>2. ASSUME Compare(t) PROVE IInv'
  <2>1. /\ pc[t] = "compare" /\ pc' = [pc EXCEPT ![t] = IF Drifted(t) = {} THEN "done" ELSE "replace"]
        /\ UNCHANGED <<bal, rows, ledger, forced, hasOptions, nextNumber, summed>>
        /\ UNCHANGED <<born, lock, orgLock, op, line, todo, lack, moved, forcedBy, written, number>>
    BY <1>2 DEF Compare, committed
  <2>2. TypeOK'
    <3>1. pc'[t] \in {"done", "replace"} /\ apart' \in BOOLEAN
      <4>1. pc'[t] = IF Drifted(t) = {} THEN "done" ELSE "replace"
        BY <2>1 DEF TypeOK
      <4>2. apart \in BOOLEAN /\ (t \in crossed) \in BOOLEAN
        BY DEF TypeOK
      <4>3. apart' \in BOOLEAN
        BY <1>0, <4>2, Zenon
      <4>4. QED
        BY <4>1, <4>3
    <3>2. pc' = [pc EXCEPT ![t] = pc'[t]]
      BY <2>1 DEF TypeOK
    <3>3. UNCHANGED <<overlapped, crossed>>
      BY <1>0
    <3>4. QED
      BY <2>1, <3>1, <3>2, <3>3 DEF TypeOK
  <2>3. LineOpen'
    BY <2>1 DEF LineOpen, Open, TypeOK
  <2>4. HeldExact' /\ UnheldUnmoved' /\ NoRowNoStock'
    BY <2>1 DEF HeldExact, UnheldUnmoved, NoRowNoStock, Holds
  <2>5. CacheMatchesLedger'
    <3>1. CASE Drifted(t) # {}
      BY <1>0, <2>1, <3>1 DEF CacheMatchesLedger, TypeOK
    <3>2. CASE Drifted(t) = {} /\ t \in crossed
      BY <1>0, <2>1, <3>2 DEF CacheMatchesLedger, TypeOK
    <3>3. CASE Drifted(t) = {} /\ t \notin crossed
      <4>1. written[t] = ledger
        BY <2>1, <3>3 DEF SumsCurrent, Summing
      <4>2. ASSUME NEW k \in Keys PROVE bal[k] = ledger[k]
        <5>1. CASE k \in rows
          BY <3>3, <4>1, <5>1 DEF Drifted
        <5>2. CASE k \notin rows
          BY <2>1, <3>3, <4>1, <5>2 DEF Drifted, NoRowNoStock, SumsCover, Summing, TypeOK
        <5>3. QED
          BY <5>1, <5>2
      <4>3. QED
        BY <2>1, <4>2 DEF CacheMatchesLedger
    <3>4. QED
      BY <3>1, <3>2, <3>3
  <2>6. RebuildOnly' /\ RebuildAlone'
    BY <1>0, <2>1 DEF RebuildOnly, RebuildAlone, Open, Holds, TypeOK
  <2>7. SumsCover' /\ SumsCurrent'
    BY <1>0, <2>1 DEF SumsCover, SumsCurrent, Summing, TypeOK
  <2>8. QED
    BY <2>2, <2>3, <2>4, <2>5, <2>6, <2>7
<1>3. ASSUME Replace(t) PROVE IInv'
  <2>0. pc[t] = "replace" /\ summed' = summed
    BY <1>3 DEF Replace
  <2>a. CASE RollBack(t, "deadlock")
    <3>1. \A u \in Txn, k \in Keys : Holds(u, k) => u # t
      BY <2>0 DEF RebuildOnly
    <3>2. /\ pc' = [pc EXCEPT ![t] = "deadlock"] /\ lock' = lock
          /\ moved' = [moved EXCEPT ![t] = NoMoves]
          /\ UNCHANGED <<bal, rows, ledger, forced, hasOptions, nextNumber>>
          /\ UNCHANGED <<born, op, line, todo, lack, forcedBy, written, number>>
      BY <2>a, <3>1 DEF RollBack, Release, committed, Holds, TypeOK
    <3>3. TypeOK'
      BY <1>0, <2>0, <2>a, <3>2, NoMovesType, SMTT(60) DEF RollBack, Release, TypeOK
    <3>4. LineOpen'
      BY <3>2 DEF LineOpen, Open, TypeOK
    <3>5. HeldExact' /\ UnheldUnmoved' /\ NoRowNoStock'
      BY <3>1, <3>2 DEF HeldExact, UnheldUnmoved, NoRowNoStock, Holds, NoMoves, TypeOK
    <3>6. CacheMatchesLedger'
      BY <1>0, <3>2 DEF CacheMatchesLedger, TypeOK
    <3>7. RInv'
      BY <1>0, <2>0, <3>2 DEF RebuildOnly, RebuildAlone, SumsCover, SumsCurrent, Summing, Open, Holds, TypeOK
    <3>8. QED
      BY <3>3, <3>4, <3>5, <3>6, <3>7
  <2>b. CASE ~RollBack(t, "deadlock")
    <3>1. /\ \A k \in Keys : lock[k] = None
          /\ bal' = written[t] /\ rows' = summed[t]
          /\ pc' = [pc EXCEPT ![t] = "done"]
          /\ UNCHANGED <<ledger, forced, hasOptions, nextNumber>>
          /\ UNCHANGED <<born, lock, orgLock, op, line, todo, lack, moved, forcedBy, written, number>>
      BY <1>3, <2>b DEF Replace
    <3>2. TypeOK'
      BY <1>0, <2>0, <3>1 DEF TypeOK
    <3>3. LineOpen'
      BY <3>1 DEF LineOpen, Open, TypeOK
    <3>4. HeldExact' /\ UnheldUnmoved'
      BY <3>1 DEF HeldExact, UnheldUnmoved, Holds
    <3>5. NoRowNoStock'
      BY <2>0, <3>1 DEF NoRowNoStock, SumsCover, Summing
    <3>6. CacheMatchesLedger'
      BY <1>0, <2>0, <3>1 DEF CacheMatchesLedger, SumsCurrent, Summing, TypeOK
    <3>7. RInv'
      BY <1>0, <2>0, <3>1 DEF RebuildOnly, RebuildAlone, SumsCover, SumsCurrent, Summing, Open, Holds, TypeOK
    <3>8. QED
      BY <3>2, <3>3, <3>4, <3>5, <3>6, <3>7
  <2>1. QED
    BY <2>a, <2>b
<1>4. QED
  BY <1>1, <1>2, <1>3 DEF Rebuild

\* Every step keeps the invariant.
LEMMA StepIInv == IInv /\ [Next]_vars => IInv'
<1> SUFFICES ASSUME IInv, [Next]_vars PROVE IInv'
  OBVIOUS
<1>1. CASE UNCHANGED vars
  <2>1. TypeOK' /\ LineOpen'
    BY <1>1 DEF vars, committed, local, history, IInv, TypeOK, LineOpen, Open
  <2>2. RInv'
    BY <1>1 DEF vars, committed, local, history, IInv, RInv, RebuildOnly, RebuildAlone, SumsCover,
                SumsCurrent, Summing, Open, Holds
  <2>3. QED
    BY <1>1, <2>1, <2>2, BookkeepingIInv DEF vars, committed, local, history
<1>2. ASSUME NEW t \in Txn, Begin(t) PROVE IInv'
  BY <1>2, BeginIInv
<1>3. ASSUME NEW t \in Txn, Rebuild(t) PROVE IInv'
  BY <1>3, RebuildIInv
<1>4. ASSUME NEW t \in Txn, Statement(t), UNCHANGED <<summed, history>> PROVE IInv'
  BY <1>4, StatementIInv DEF Kept
<1>5. QED
  BY <1>1, <1>2, <1>3, <1>4 DEF Next, Step

LEMMA SpecIInv == Spec => []IInv
  BY InitIInv, StepIInv, PTL DEF Spec

\* The state of the ledger keeps its type.
THEOREM SpecTypeOK == Spec => []TypeOK
<1>1. IInv => TypeOK
  BY DEF IInv
<1>2. QED
  BY SpecIInv, <1>1, PTL

\* However requests interleave, fail or are ended in a deadlock, the cached
\* balance of every shelf and lot is the sum of its committed movements.
THEOREM CacheIsTheLedger == Spec => []CacheMatchesLedger
<1>1. IInv => CacheMatchesLedger
  BY DEF IInv
<1>2. QED
  BY SpecIInv, <1>1, PTL

-----------------------------------------------------------------------------
(* The numbers of the invoices. *)

\* The counter is locked exactly by a sale that has taken the next number.
CounterHeld ==
  \A t \in Txn :
    /\ orgLock = t => pc[t] = "commit"
    /\ pc[t] = "commit" => orgLock = t /\ number[t] = nextNumber

\* Only sales come to take a number.
OnlySalesNumber == \A t \in Txn : pc[t] \in {"number", "commit"} => op[t].kind = "sale"

NInv == NumbersSequential /\ IsFiniteSet(SoldBy) /\ CounterHeld /\ OnlySalesNumber

LEMMA InitNInv == Init => NInv
<1> SUFFICES ASSUME Init PROVE NInv
  OBVIOUS
<1>1. SoldBy = {}
  BY DEF Init, SoldBy
<1>2. nextNumber = 1 /\ 1..(nextNumber - 1) = {}
  BY DEF Init
<1>3. NumbersSequential /\ IsFiniteSet(SoldBy)
  BY <1>1, <1>2, FS_EmptySet DEF NumbersSequential
<1>4. CounterHeld /\ OnlySalesNumber
  BY DEF Init, CounterHeld, OnlySalesNumber
<1>5. QED
  BY <1>3, <1>4 DEF NInv

\* A step of t alone, which leaves the counter and everybody's number as they are.
Alone(t) ==
  /\ \A u \in Txn \ {t} : pc'[u] = pc[u] /\ op'[u] = op[u]
  /\ UNCHANGED <<number, nextNumber, orgLock>>

\* Such a step changes nothing here if it neither begins nor ends a recorded sale.
LEMMA QuietNInv ==
  ASSUME NInv, NEW t \in Txn, Alone(t),
         pc[t] \notin {"done", "commit"}, pc'[t] \notin {"done", "commit"},
         pc'[t] = "number" => op'[t].kind = "sale"
  PROVE  NInv'
<1>1. \A u \in Txn \ {t} : pc'[u] = pc[u] /\ op'[u] = op[u]
  BY DEF Alone
<1>2. number' = number /\ nextNumber' = nextNumber /\ orgLock' = orgLock
  BY DEF Alone
<1>3. SoldBy' = SoldBy
  BY <1>1 DEF SoldBy
<1>4. NumbersSequential' /\ IsFiniteSet(SoldBy)'
  BY <1>2, <1>3 DEF NInv, NumbersSequential
<1>5. CounterHeld'
  BY <1>1, <1>2 DEF NInv, CounterHeld
<1>6. OnlySalesNumber'
  BY <1>1 DEF NInv, OnlySalesNumber
<1>7. QED
  BY <1>4, <1>5, <1>6 DEF NInv

\* A rollback gives the counter back as it was.
LEMMA RollBackNInv ==
  ASSUME TypeOK, NInv, NEW t \in Txn, NEW outcome \in Ended \ {"done"},
         pc[t] # "done", RollBack(t, outcome)
  PROVE  NInv'
<1>1. /\ \A u \in Txn : pc'[u] = IF u = t THEN outcome ELSE pc[u]
      /\ orgLock' = IF orgLock = t THEN None ELSE orgLock
      /\ op' = op /\ number' = number /\ nextNumber' = nextNumber
  BY DEF TypeOK, RollBack, Release, committed
<1>2. SoldBy' = SoldBy
  BY <1>1 DEF SoldBy
<1>3. NumbersSequential' /\ IsFiniteSet(SoldBy)'
  BY <1>1, <1>2 DEF NInv, NumbersSequential
<1>4. CounterHeld'
  BY <1>1 DEF NInv, CounterHeld
<1>5. OnlySalesNumber'
  BY <1>1 DEF NInv, OnlySalesNumber
<1>6. QED
  BY <1>3, <1>4, <1>5 DEF NInv

\* Recording anything but a sale leaves the counter alone.
LEMMA CommitOtherNInv ==
  ASSUME TypeOK, NInv, NEW t \in Txn, pc[t] = "move", op[t].kind # "sale", Commit(t)
  PROVE  NInv'
<1>1. orgLock # t
  BY DEF NInv, CounterHeld
<1>2. /\ \A u \in Txn : pc'[u] = IF u = t THEN "done" ELSE pc[u]
      /\ orgLock' = orgLock /\ op' = op /\ number' = number /\ nextNumber' = nextNumber
  BY <1>1 DEF TypeOK, Commit, Release
<1>3. SoldBy' = SoldBy
  BY <1>2 DEF SoldBy
<1>4. NumbersSequential' /\ IsFiniteSet(SoldBy)'
  BY <1>2, <1>3 DEF NInv, NumbersSequential
<1>5. CounterHeld' /\ OnlySalesNumber'
  BY <1>2 DEF NInv, CounterHeld, OnlySalesNumber
<1>6. QED
  BY <1>4, <1>5 DEF NInv

\* Recording a sale puts the number it holds at the end of those recorded.
LEMMA CommitSaleNInv ==
  ASSUME TypeOK, NInv, NEW t \in Txn, pc[t] = "commit", Commit(t)
  PROVE  NInv'
<1>1. orgLock = t /\ number[t] = nextNumber /\ op[t].kind = "sale"
  BY DEF NInv, CounterHeld, OnlySalesNumber
<1>2. /\ \A u \in Txn : pc'[u] = IF u = t THEN "done" ELSE pc[u]
      /\ orgLock' = None /\ op' = op /\ number' = number /\ nextNumber' = nextNumber + 1
  BY <1>1 DEF TypeOK, Commit, Release
<1>3. SoldBy' = SoldBy \cup {t} /\ t \notin SoldBy
  BY <1>1, <1>2 DEF SoldBy
<1>4. nextNumber \in Nat \ {0}
  BY DEF TypeOK
<1>5. IsFiniteSet(SoldBy') /\ Cardinality(SoldBy') = nextNumber' - 1
  <2>1. IsFiniteSet(SoldBy) /\ Cardinality(SoldBy) = nextNumber - 1
    BY DEF NInv, NumbersSequential
  <2>2. IsFiniteSet(SoldBy \cup {t}) /\ Cardinality(SoldBy \cup {t}) = Cardinality(SoldBy) + 1
    BY <2>1, <1>3, FS_AddElement
  <2>3. QED
    BY <2>1, <2>2, <1>2, <1>3, <1>4
<1> DEFINE Given == {number[u] : u \in SoldBy}
           GivenNow == {number'[u] : u \in SoldBy'}
<1>6. GivenNow = 1..(nextNumber' - 1)
  <2>1. Given = 1..(nextNumber - 1)
    BY DEF NInv, NumbersSequential
  <2>2. GivenNow = Given \cup {nextNumber}
    <3>1. number' = number /\ SoldBy' = SoldBy \cup {t}
      BY <1>2, <1>3
    <3>2. QED
      BY <3>1, <1>1
  <2>3. nextNumber' - 1 = nextNumber
    BY <1>2, <1>4
  <2>4. 1..(nextNumber - 1) \cup {nextNumber} = 1..nextNumber
    BY <1>4
  <2> HIDE DEF Given, GivenNow
  <2>5. GivenNow = 1..nextNumber
    BY <2>1, <2>2, <2>4, Zenon
  <2>6. QED
    BY <2>3, <2>5, Zenon
<1>7. NumbersSequential'
  BY <1>5, <1>6 DEF NumbersSequential
<1> HIDE DEF Given, GivenNow
<1>8. CounterHeld'
  BY <1>1, <1>2 DEF NInv, CounterHeld
<1>9. OnlySalesNumber'
  BY <1>2 DEF NInv, OnlySalesNumber
<1>10. QED
  BY <1>5, <1>7, <1>8, <1>9 DEF NInv

\* A sale that takes the next number finds the counter free.
LEMMA TakeNumberNInv ==
  ASSUME TypeOK, NInv, NEW t \in Txn, TakeNumber(t)
  PROVE  NInv'
<1>1. /\ pc[t] = "number" /\ orgLock = None /\ orgLock' = t
      /\ \A u \in Txn : pc'[u] = IF u = t THEN "commit" ELSE pc[u]
      /\ \A u \in Txn : number'[u] = IF u = t THEN nextNumber ELSE number[u]
      /\ op' = op /\ nextNumber' = nextNumber
  BY DEF TypeOK, TakeNumber, committed
<1>2. SoldBy' = SoldBy /\ t \notin SoldBy /\ SoldBy \subseteq Txn
  BY <1>1 DEF SoldBy
<1>3. {number'[u] : u \in SoldBy'} = {number[u] : u \in SoldBy}
  BY <1>1, <1>2
<1>4. NumbersSequential' /\ IsFiniteSet(SoldBy)'
  BY <1>1, <1>2, <1>3 DEF NInv, NumbersSequential
<1>5. CounterHeld'
  BY <1>1 DEF NInv, CounterHeld
<1>6. OnlySalesNumber'
  BY <1>1 DEF NInv, OnlySalesNumber
<1>7. QED
  BY <1>4, <1>5, <1>6 DEF NInv

\* Neither does writing a balance.
LEMMA WriteNInv ==
  ASSUME TypeOK, NInv, NEW t \in Txn, NEW k \in Keys, pc[t] \in {"move", "insert"}, WriteBalance(t, k)
  PROVE  NInv'
<1>1. Alone(t) /\ pc'[t] = "move"
  BY DEF WriteBalance, committed, Alone, TypeOK
<1>2. QED
  BY <1>1, QuietNInv

\* A rebuild takes no number and is no sale.
LEMMA RebuildNInv ==
  ASSUME TypeOK, RebuildOnly, NInv, NEW t \in Txn, Rebuild(t)
  PROVE  NInv'
<1>1. CASE RollBack(t, "deadlock") /\ pc[t] = "replace"
  BY <1>1, RollBackNInv
<1>2. CASE ~(RollBack(t, "deadlock") /\ pc[t] = "replace")
  <2>1. pc[t] \in {"read", "compare", "replace"} /\ pc'[t] \in {"compare", "replace", "done"}
    BY <1>2 DEF Rebuild, SumLedger, Compare, Replace, TypeOK
  <2>2. Alone(t) /\ op' = op
    BY <1>2 DEF Rebuild, SumLedger, Compare, Replace, Alone, TypeOK, committed
  <2>3. op[t].kind = "rebuild"
    BY <1>2 DEF Rebuild, SumLedger, Compare, Replace, RebuildOnly
  <2>4. SoldBy' = SoldBy
    BY <2>1, <2>2, <2>3 DEF Alone, SoldBy
  <2>5. NumbersSequential' /\ IsFiniteSet(SoldBy)'
    BY <2>2, <2>4 DEF Alone, NInv, NumbersSequential
  <2>6. CounterHeld' /\ OnlySalesNumber'
    BY <2>1, <2>2 DEF Alone, NInv, CounterHeld, OnlySalesNumber
  <2>7. QED
    BY <2>5, <2>6 DEF NInv
<1>3. QED
  BY <1>1, <1>2

LEMMA StepNInv == TypeOK /\ RebuildOnly /\ NInv /\ [Next]_vars => NInv'
<1> SUFFICES ASSUME TypeOK, RebuildOnly, NInv, [Next]_vars PROVE NInv'
  OBVIOUS
<1>0. CASE UNCHANGED vars
  BY <1>0 DEF vars, committed, local, history, NInv, NumbersSequential, SoldBy, CounterHeld, OnlySalesNumber
<1>1. ASSUME NEW t \in Txn, Begin(t) PROVE NInv'
  <2>1. Alone(t) /\ pc[t] = "idle" /\ pc'[t] = "read"
    BY <1>1 DEF Begin, Alone, TypeOK, committed
  <2>2. QED
    BY <2>1, QuietNInv
<1>2. ASSUME NEW t \in Txn, ReadOut(t) PROVE NInv'
  <2>1. CASE RollBack(t, "refused")
    BY <1>2, <2>1, RollBackNInv DEF ReadOut
  <2>2. CASE ~RollBack(t, "refused")
    <3>1. Alone(t) /\ pc[t] = "read" /\ pc'[t] \in {"bear", "move"}
      BY <1>2, <2>2 DEF ReadOut, Alone, TypeOK, committed
    <3>2. QED
      BY <3>1, QuietNInv
  <2>3. QED
    BY <2>1, <2>2
<1>3. ASSUME NEW t \in Txn, ReadOptions(t) PROVE NInv'
  <2>1. Alone(t) /\ pc[t] = "read" /\ pc'[t] = "move"
    BY <1>3 DEF ReadOptions, Alone, TypeOK, committed
  <2>2. QED
    BY <2>1, QuietNInv
<1>4. ASSUME NEW t \in Txn, EndLine(t) PROVE NInv'
  <2>1. CASE line[t] < Len(op[t].lines)
    <3>1. Alone(t) /\ pc[t] = "move" /\ pc'[t] = "read"
      BY <1>4, <2>1 DEF EndLine, Alone, TypeOK, committed
    <3>2. QED
      BY <3>1, QuietNInv
  <2>2. CASE ~(line[t] < Len(op[t].lines)) /\ op[t].kind = "sale"
    <3>1. Alone(t) /\ pc[t] = "move" /\ pc'[t] = "number" /\ op' = op
      BY <1>4, <2>2 DEF EndLine, Alone, TypeOK, committed
    <3>2. QED
      BY <2>2, <3>1, QuietNInv
  <2>3. CASE ~(line[t] < Len(op[t].lines)) /\ op[t].kind # "sale"
    BY <1>4, <2>3, CommitOtherNInv DEF EndLine
  <2>4. QED
    BY <2>1, <2>2, <2>3
<1>5. ASSUME NEW t \in Txn, TakeNumber(t) PROVE NInv'
  BY <1>5, TakeNumberNInv
<1>6. ASSUME NEW t \in Txn, EndSale(t) PROVE NInv'
  BY <1>6, CommitSaleNInv, RollBackNInv DEF EndSale
<1>7. ASSUME NEW t \in Txn, NEW lot \in Lots, Bear(t, lot) PROVE NInv'
  <2>1. Alone(t) /\ pc[t] = "bear" /\ pc'[t] = "move"
    BY <1>7 DEF Bear, Alone, TypeOK, committed
  <2>2. QED
    BY <2>1, QuietNInv
<1>8. ASSUME NEW t \in Txn, NEW lot \in Lots, ReadIn(t, lot) PROVE NInv'
  <2>1. CASE RollBack(t, "refused")
    BY <1>8, <2>1, RollBackNInv DEF ReadIn
  <2>2. CASE ~RollBack(t, "refused")
    <3>1. Alone(t) /\ pc[t] = "read" /\ pc'[t] = "move"
      BY <1>8, <2>2 DEF ReadIn, Alone, TypeOK, committed
    <3>2. QED
      BY <3>1, QuietNInv
  <2>3. QED
    BY <2>1, <2>2
<1>9. ASSUME NEW t \in Txn, NEW k \in Keys, Move(t, k) PROVE NInv'
  <2>1. CASE RollBack(t, "refused")
    BY <1>9, <2>1, RollBackNInv DEF Move
  <2>2. CASE WriteBalance(t, k)
    BY <1>9, <2>2, WriteNInv DEF Move
  <2>3. CASE ~RollBack(t, "refused") /\ ~WriteBalance(t, k)
    <3>1. Alone(t) /\ pc[t] = "move" /\ pc'[t] = "insert"
      BY <1>9, <2>3 DEF Move, Alone, TypeOK, committed
    <3>2. QED
      BY <3>1, QuietNInv
  <2>4. QED
    BY <2>1, <2>2, <2>3
<1>10. ASSUME NEW t \in Txn, NEW k \in Keys, InsertResolves(t, k) PROVE NInv'
  <2>1. CASE RollBack(t, "failed")
    BY <1>10, <2>1, RollBackNInv DEF InsertResolves
  <2>2. CASE WriteBalance(t, k)
    BY <1>10, <2>2, WriteNInv DEF InsertResolves
  <2>3. QED
    BY <1>10, <2>1, <2>2 DEF InsertResolves
<1>11. ASSUME NEW t \in Txn, DeadlockAbort(t) PROVE NInv'
  <2>1. pc[t] # "done"
    BY <1>11 DEF DeadlockAbort, Deadlocked, BlockedBy
  <2>2. QED
    BY <1>11, <2>1, RollBackNInv DEF DeadlockAbort
<1>12. ASSUME NEW t \in Txn, Rebuild(t) PROVE NInv'
  BY <1>12, RebuildNInv
<1>13. ASSUME NEW t \in Txn, Statement(t) PROVE NInv'
  BY <1>2, <1>3, <1>4, <1>5, <1>6, <1>7, <1>8, <1>9, <1>10, <1>11, <1>13 DEF Statement
<1>14. QED
  BY <1>0, <1>1, <1>12, <1>13 DEF Next, Step

\* The numbers of the recorded sales are 1, 2, 3 ... with none missing or doubled,
\* however sales overlap, wait for the counter, or roll back after taking a number.
THEOREM InvoiceNumbersSequential == Spec => []NumbersSequential
<1>1. NInv => NumbersSequential
  BY DEF NInv
<1>2. IInv => TypeOK /\ RebuildOnly
  BY DEF IInv, RInv
<1>3. QED
  BY SpecIInv, InitNInv, StepNInv, <1>1, <1>2, PTL DEF Spec

-----------------------------------------------------------------------------
(* What balances say while requests do not overlap. *)

USE RequestAssumption

\* Only a request under way holds a row.
HoldersOpen == \A t \in Txn, k \in Keys : Holds(t, k) => Open(t)

\* A request that is to read its next line, or to end, has nothing left to move; one
\* that has to bear a shortfall has only taken off the line's shelf.
LineIsAt(t) ==
  /\ pc[t] \in {"idle", "read", "number", "commit"} => \A k \in Keys : todo[t][k] = 0
  /\ pc[t] \in {"number", "commit"} => op[t].kind = "sale"
  /\ pc[t] = "read" /\ op[t].kind = "options" => \A k \in Keys : moved[t][k] = 0
  /\ pc[t] = "bear" =>
       /\ op[t].kind \in Outbound /\ lack[t] > 0
       /\ \A l \in Lots : todo[t][<<Current(t).shelf, l>>] <= 0
LinesAt == \A t \in Txn : LineIsAt(t)

\* What a balance comes to once the request's current line is written.
Coming(t, k) == bal[k] + moved[t][k] + todo[t][k]
ForcedOf(lot, keys) == \E s \in Shelves : <<s, lot>> \in keys

NegativeKnown == \A k \in Keys : bal[k] < 0 => ForcedOf(k[2], forced)
NegativeKnownTo(t) ==
  Open(t) => \A k \in Keys : Coming(t, k) < 0 => ForcedOf(k[2], forced \cup forcedBy[t])

\* Nothing is brought under no option where there are options, but by a transfer that
\* will be refused; and the save of the first ones leaves nothing there.
Plain(k) == k[1] \in PlainShelves
NonePlain == hasOptions => \A k \in Keys : Plain(k) => bal[k] = 0
LeavesNonePlain(t) ==
  Open(t) =>
    /\ pc[t] # "insert"
    /\ pc[t] = "bear" => (Current(t).shelf \in OptionShelves <=> hasOptions)
    /\ hasOptions =>
         \A k \in Keys : Plain(k) =>
           moved[t][k] = 0 /\ (todo[t][k] # 0 => todo[t][k] > 0 /\ op[t].kind = "transfer")
    /\ pc[t] = "move" /\ op[t].kind = "options" /\ ~hasOptions =>
         \A k \in Keys : Plain(k) => Coming(t, k) = 0

OneOpen == \A t, u \in Txn : Open(t) /\ Open(u) => t = u
Undisturbed ==
  /\ crossed = {} /\ ~apart /\ OneOpen /\ NegativeKnown /\ NonePlain
  /\ \A t \in Txn : NegativeKnownTo(t) /\ LeavesNonePlain(t)

BInv == HoldersOpen /\ LinesAt /\ (~overlapped => Undisturbed)

\* A step of t leaves everybody else's work alone.
Only(t) ==
  \A u \in Txn \ {t} :
    /\ pc'[u] = pc[u] /\ op'[u] = op[u] /\ line'[u] = line[u] /\ todo'[u] = todo[u]
    /\ lack'[u] = lack[u] /\ moved'[u] = moved[u] /\ forcedBy'[u] = forcedBy[u]

LEMMA InitBInv == Init => BInv
<1> SUFFICES ASSUME Init PROVE BInv
  OBVIOUS
<1>1. HoldersOpen /\ LinesAt
  <2>1. HoldersOpen
    BY DEF Init, HoldersOpen, Holds
  <2>2. \A t \in Txn : pc[t] = "idle" /\ todo[t] = NoMoves
    BY DEF Init
  <2>3. \A k \in Keys : NoMoves[k] = 0
    BY DEF NoMoves
  <2>4. LinesAt
    BY <2>2, <2>3 DEF LinesAt, LineIsAt
  <2>5. QED
    BY <2>1, <2>4
<1>2. ASSUME ~overlapped PROVE Undisturbed
  <2>1. crossed = {} /\ ~apart /\ bal = InitialStock
    BY <1>2 DEF Init
  <2>2. \A t \in Txn : ~Open(t)
    BY DEF Init, Open
  <2>3. NegativeKnown
    <3>1. \A k \in Keys : k[1] \in Shelves /\ k = <<k[1], k[2]>>
      BY DEF Keys
    <3>2. forced = {k \in Keys : InitialStock[k] < 0}
      BY DEF Init
    <3>3. QED
      BY <2>1, <3>1, <3>2 DEF NegativeKnown, ForcedOf
  <2>4. NonePlain
    <3> SUFFICES ASSUME hasOptions, NEW k \in Keys, Plain(k) PROVE bal[k] = 0
      BY DEF NonePlain
    <3>1. PICK j \in Keys : j[1] \in OptionShelves /\ InitialStock[j] # 0
      BY DEF Init
    <3>2. \A i \in Keys : i[1] \in PlainShelves => InitialStock[i] = 0
      BY <3>1
    <3>3. QED
      BY <2>1, <3>2 DEF Plain
  <2>5. QED
    BY <2>1, <2>2, <2>3, <2>4 DEF Undisturbed, OneOpen, NegativeKnownTo, LeavesNonePlain
<1>3. QED
  BY <1>1, <1>2 DEF BInv

\* A step of an open request that leaves the committed state alone has to be looked at
\* for that request only.
LEMMA OwnStep ==
  ASSUME BInv, NEW t \in Txn, Open(t), Only(t),
         UNCHANGED <<bal, forced, hasOptions, overlapped, crossed, apart>>,
         \A u \in Txn, k \in Keys : Holds(u, k)' => Open(u)',
         LineIsAt(t)',
         ~overlapped => NegativeKnownTo(t)' /\ LeavesNonePlain(t)'
  PROVE  BInv'
<1>1. HoldersOpen'
  BY DEF HoldersOpen
<1>2. LinesAt'
  <2> SUFFICES ASSUME NEW u \in Txn \ {t} PROVE LineIsAt(u)'
    BY DEF LinesAt
  <2>1. LineIsAt(u)
    BY DEF BInv, LinesAt
  <2>2. QED
    BY <2>1 DEF Only, LineIsAt, Current
<1>3. ASSUME ~overlapped PROVE Undisturbed'
  <2>1. Undisturbed
    BY <1>3 DEF BInv
  <2>2. \A u \in Txn \ {t} : ~Open(u) /\ ~Open(u)'
    BY <2>1 DEF Undisturbed, OneOpen, Only, Open
  <2>3. OneOpen'
    BY <2>2 DEF OneOpen
  <2>4. NegativeKnown' /\ NonePlain'
    BY <2>1 DEF Undisturbed, NegativeKnown, NonePlain, ForcedOf, Plain
  <2>5. \A u \in Txn : NegativeKnownTo(u)' /\ LeavesNonePlain(u)'
    BY <1>3, <2>2 DEF NegativeKnownTo, LeavesNonePlain
  <2>6. QED
    BY <2>1, <2>3, <2>4, <2>5 DEF Undisturbed
<1>4. QED
  BY <1>1, <1>2, <1>3 DEF BInv

LEMMA RollBackBInv ==
  ASSUME IInv, BInv, NEW t \in Txn, NEW outcome \in Ended, Open(t), RollBack(t, outcome),
         UNCHANGED <<overlapped, crossed, apart>>
  PROVE  BInv'
<1>1. /\ \A u \in Txn : pc'[u] = IF u = t THEN outcome ELSE pc[u]
      /\ \A u \in Txn \ {t} : moved'[u] = moved[u]
      /\ \A k \in Keys : lock'[k] = IF lock[k] = t THEN None ELSE lock[k]
  BY DEF RollBack, Release, IInv, TypeOK, Holds
<1>a. \A u \in Txn, k \in Keys : Holds(u, k)' => u # t /\ Holds(u, k)
  BY <1>1 DEF Holds
<1>b. pc'[t] \notin {"idle", "read", "number", "commit", "bear", "insert", "move"} /\ ~Open(t)'
  BY <1>1 DEF Open
<1>2. Only(t) /\ UNCHANGED <<bal, forced, hasOptions>>
  BY <1>1 DEF Only, RollBack, committed
<1>3. LineIsAt(t)'
  BY <1>b DEF LineIsAt
<1>4. \A u \in Txn, k \in Keys : Holds(u, k)' => Open(u)'
  BY <1>1, <1>a DEF BInv, HoldersOpen, Open
<1>5. QED
  BY <1>2, <1>3, <1>4, <1>b, OwnStep DEF NegativeKnownTo, LeavesNonePlain

\* What is committed is what was moved, and everything was.
LEMMA CommitBInv ==
  ASSUME IInv, BInv, NEW t \in Txn, Open(t), Commit(t), \A k \in Keys : todo[t][k] = 0,
         op[t].kind = "options" => pc[t] = "move", UNCHANGED <<overlapped, crossed, apart>>
  PROVE  BInv'
<1>1. /\ \A u \in Txn : pc'[u] = IF u = t THEN "done" ELSE pc[u]
      /\ \A k \in Keys : lock'[k] = IF lock[k] = t THEN None ELSE lock[k]
      /\ forced' = forced \cup forcedBy[t]
      /\ hasOptions' = (hasOptions \/ op[t].kind = "options")
      /\ UNCHANGED <<op, line, todo, lack, forcedBy>>
  BY DEF Commit, Release, IInv, TypeOK, Holds
<1>a. \A u \in Txn, k \in Keys : Holds(u, k)' => u # t /\ Holds(u, k)
  BY <1>1 DEF Holds
<1>b. pc'[t] \notin {"idle", "read", "number", "commit", "bear", "insert", "move"} /\ ~Open(t)'
  BY <1>1 DEF Open
<1>2. \A k \in Keys : bal'[k] = bal[k] + moved[t][k] /\ bal'[k] = Coming(t, k)
  BY DEF Commit, IInv, TypeOK, HeldExact, UnheldUnmoved, Coming
<1>3. \A u \in Txn \ {t} : moved'[u] = moved[u]
  BY DEF Commit, Release, IInv, TypeOK
<1>4. HoldersOpen' /\ LinesAt'
  <2>1. HoldersOpen'
    BY <1>1, <1>a DEF BInv, HoldersOpen, Open
  <2>2. \A u \in Txn \ {t} : LineIsAt(u)'
    BY <1>1, <1>3 DEF BInv, LinesAt, LineIsAt, Current
  <2>a. LineIsAt(t)'
    BY <1>b DEF LineIsAt
  <2>3. QED
    BY <2>1, <2>2, <2>a DEF LinesAt
<1>5. ASSUME ~overlapped PROVE Undisturbed'
  <2>1. Undisturbed /\ NegativeKnownTo(t) /\ LeavesNonePlain(t)
    BY <1>5 DEF BInv, Undisturbed
  <2>2. \A u \in Txn : ~Open(u)'
    <3>1. \A u \in Txn \ {t} : ~Open(u)
      BY <2>1 DEF Undisturbed, OneOpen
    <3>2. QED
      BY <1>1, <1>b, <3>1 DEF Open
  <2>3. NegativeKnown'
    BY <1>1, <1>2, <2>1 DEF NegativeKnown, NegativeKnownTo
  <2>4. NonePlain'
    <3> SUFFICES ASSUME hasOptions', NEW k \in Keys, Plain(k) PROVE bal'[k] = 0
      BY DEF NonePlain, Plain
    <3>1. CASE hasOptions
      <4>1. bal[k] = 0 /\ moved[t][k] = 0
        BY <2>1, <3>1 DEF Undisturbed, NonePlain, LeavesNonePlain
      <4>2. QED
        BY <1>2, <4>1
    <3>2. CASE ~hasOptions
      <4>1. Coming(t, k) = 0
        BY <1>1, <2>1, <3>2 DEF LeavesNonePlain
      <4>2. QED
        BY <1>2, <4>1
    <3>3. QED
      BY <3>1, <3>2
  <2>5. QED
    BY <2>1, <2>2, <2>3, <2>4 DEF Undisturbed, OneOpen, NegativeKnownTo, LeavesNonePlain
<1>6. QED
  BY <1>4, <1>5 DEF BInv

\* What a request sees of a balance is what is committed and what it moved.
LEMMA VisibleIs ==
  ASSUME IInv, NEW t \in Txn, NEW k \in Keys
  PROVE  Visible(t, k) = bal[k] + moved[t][k] /\ bal[k] + moved[t][k] \in Int
  BY SMTT(60) DEF IInv, TypeOK, Visible, HeldExact, UnheldUnmoved

LEMMA BeginBInv ==
  ASSUME IInv, BInv, NEW t \in Txn, Begin(t)
  PROVE  BInv'
<1>1. PICK o \in Ops : op' = [op EXCEPT ![t] = o]
  BY DEF Begin
<1>2. /\ pc[t] = "idle" /\ \A u \in Txn : pc'[u] = IF u = t THEN "read" ELSE pc[u]
      /\ overlapped' = (overlapped \/ (\E u \in Txn : Open(u)))
      /\ crossed' = crossed \cup Crossing(t)
      /\ UNCHANGED <<bal, forced, hasOptions, lock, line, todo, lack, moved, forcedBy, apart>>
  BY DEF Begin, IInv, TypeOK, committed
<1>3. \A k \in Keys : todo[t][k] = 0 /\ moved[t][k] = 0
  BY <1>2 DEF BInv, LinesAt, LineIsAt, IInv, RInv, RebuildOnly, UnheldUnmoved
<1>4. \A u \in Txn \ {t} : op'[u] = op[u]
  BY <1>1 DEF IInv, TypeOK
<1>5. HoldersOpen'
  BY <1>2 DEF BInv, HoldersOpen, Holds, Open
<1>6. LinesAt'
  <2>1. \A u \in Txn \ {t} : LineIsAt(u)'
    BY <1>2, <1>4 DEF BInv, LinesAt, LineIsAt, Current
  <2>2. LineIsAt(t)'
    BY <1>2, <1>3 DEF LineIsAt
  <2>3. QED
    BY <2>1, <2>2 DEF LinesAt
<1>7. ASSUME ~overlapped' PROVE Undisturbed'
  <2>1. Undisturbed /\ \A u \in Txn : ~Open(u)
    BY <1>2, <1>7 DEF BInv
  <2>2. \A u \in Txn \ {t} : ~Open(u)'
    BY <1>2, <2>1 DEF Open
  <2>3. Crossing(t) = {}
    BY <2>1 DEF Crossing
  <2>4. crossed' = {} /\ ~apart' /\ OneOpen'
    BY <1>2, <2>1, <2>2, <2>3 DEF Undisturbed, OneOpen
  <2>5. NegativeKnown' /\ NonePlain'
    BY <1>2, <2>1 DEF Undisturbed, NegativeKnown, NonePlain, ForcedOf, Plain
  <2>6. NegativeKnownTo(t)'
    <3> SUFFICES ASSUME NEW k \in Keys, Coming(t, k)' < 0 PROVE ForcedOf(k[2], forced \cup forcedBy[t])
      BY <1>2 DEF NegativeKnownTo, ForcedOf
    <3>1. bal[k] < 0
      BY <1>2, <1>3 DEF Coming, IInv, TypeOK
    <3>2. QED
      BY <2>1, <3>1 DEF Undisturbed, NegativeKnown, ForcedOf
  <2>7. LeavesNonePlain(t)'
    BY <1>2, <1>3 DEF LeavesNonePlain
  <2>8. QED
    BY <2>2, <2>4, <2>5, <2>6, <2>7 DEF Undisturbed, NegativeKnownTo, LeavesNonePlain
<1>8. QED
  BY <1>5, <1>6, <1>7 DEF BInv

\* A line going out takes no lot below zero.
LEMMA ReadOutBInv ==
  ASSUME IInv, BInv, NEW t \in Txn, ReadOut(t), Kept
  PROVE  BInv'
<1> USE DEF Kept, history
<1>0. pc[t] = "read" /\ Open(t) /\ op[t].kind \in Outbound
  BY DEF ReadOut, Open
<1>1. CASE RollBack(t, "refused")
  BY <1>0, <1>1, RollBackBInv
<1>2. CASE ~RollBack(t, "refused")
  <2>1. PICK taken \in [Lots -> Quantities], shortfall \in Quantities :
          /\ IsFefoPick(OnShelf(t), Current(t).quantity, taken, shortfall)
          /\ todo' = [todo EXCEPT ![t] = Movements(t, taken)]
          /\ lack' = [lack EXCEPT ![t] = shortfall]
          /\ pc' = [pc EXCEPT ![t] = IF shortfall > 0 THEN "bear" ELSE "move"]
          /\ UNCHANGED <<committed, born, lock, orgLock, op, line, moved, forcedBy, written, number>>
    BY <1>2 DEF ReadOut
  <2>2. Allowed(t, Current(t).shelf)
    BY <1>2 DEF ReadOut
  <2>3. /\ Current(t).shelf \in Shelves /\ op[t] \in Ops
        /\ Current(t)' = Current(t)
    BY <1>0, <2>1, CurrentLine DEF IInv, Line, Outbound, Current, LineOpen
  <2>4. /\ pc'[t] = (IF shortfall > 0 THEN "bear" ELSE "move") /\ lack'[t] = shortfall
        /\ \A k \in Keys : todo'[t][k] = IF k[1] = Current(t).shelf THEN -taken[k[2]]
                                         ELSE IF k[1] = op[t].to THEN taken[k[2]] ELSE 0
    BY <2>1 DEF IInv, TypeOK, Movements
  <2>5. Only(t)
    BY <2>1 DEF Only, IInv, TypeOK
  <2>6. LineIsAt(t)'
    <3>1. \A l \in Lots : <<Current(t).shelf, l>> \in Keys /\ taken[l] \in Nat
      BY <2>3 DEF Keys, Quantities
    <3>2. \A l \in Lots : todo'[t][<<Current(t).shelf, l>>] <= 0
      BY <2>4, <3>1
    <3>3. QED
      BY <1>0, <2>1, <2>3, <2>4, <3>2 DEF LineIsAt
  <2>7. ASSUME ~overlapped PROVE NegativeKnownTo(t)'
    <3> SUFFICES ASSUME NEW k \in Keys, Coming(t, k)' < 0 PROVE ForcedOf(k[2], forced \cup forcedBy[t])
      BY <2>1 DEF NegativeKnownTo, ForcedOf, committed
    <3>1. Coming(t, k)' = bal[k] + moved[t][k] + todo'[t][k]
      BY <2>1 DEF Coming, committed
    <3>2. Coming(t, k) = bal[k] + moved[t][k] /\ Coming(t, k) \in Int
      BY <1>0, SMTT(60) DEF Coming, BInv, LinesAt, LineIsAt, IInv, TypeOK
    <3>3. k[2] \in Lots /\ taken[k[2]] \in Nat /\ k = <<k[1], k[2]>>
      BY DEF Keys, Quantities
    <3>4. Coming(t, k) < 0
      <4>1. CASE k[1] = Current(t).shelf
        <5>1. taken[k[2]] <= OnHand(OnShelf(t)[k[2]])
          BY <2>1, <3>3 DEF IsFefoPick
        <5>2. OnShelf(t)[k[2]] \in {0, Visible(t, k)}
          BY <3>3, <4>1 DEF OnShelf
        <5>3. OnShelf(t)[k[2]] \in {0, Coming(t, k)}
          BY <3>2, <5>2, VisibleIs
        <5>4. Coming(t, k)' = Coming(t, k) - taken[k[2]]
          BY <2>4, <3>1, <3>2, <3>3, <4>1
        <5>5. QED
          BY <3>2, <3>3, <5>1, <5>3, <5>4 DEF OnHand
      <4>2. CASE k[1] # Current(t).shelf
        <5>1. todo'[t][k] \in Nat
          BY <2>4, <3>3, <4>2
        <5>2. QED
          BY <3>1, <3>2, <5>1
      <4>3. QED
        BY <4>1, <4>2
    <3>5. QED
      BY <1>0, <2>7, <3>4 DEF BInv, Undisturbed, NegativeKnownTo
  <2>8. ASSUME ~overlapped PROVE LeavesNonePlain(t)'
    <3>1. LeavesNonePlain(t)
      BY <2>8 DEF BInv, Undisturbed
    <3>2. pc'[t] \in {"bear", "move"} /\ hasOptions' = hasOptions /\ moved' = moved /\ op' = op
      BY <2>1, <2>4 DEF committed
    <3>3. Current(t).shelf \in OptionShelves <=> hasOptions
      BY <2>2 DEF Allowed
    <3>4. ASSUME hasOptions, NEW k \in Keys, Plain(k)
          PROVE  moved[t][k] = 0 /\ (todo'[t][k] # 0 => todo'[t][k] > 0 /\ op[t].kind = "transfer")
      <4>1. moved[t][k] = 0
        BY <1>0, <3>1, <3>4 DEF LeavesNonePlain
      <4>2. k[1] # Current(t).shelf /\ k[2] \in Lots /\ taken[k[2]] \in Nat /\ k[1] \in Shelves
        BY <3>3, <3>4 DEF Plain, OptionShelves, Keys, Quantities
      <4>3. todo'[t][k] # 0 => k[1] = op[t].to /\ todo'[t][k] > 0
        BY <2>4, <4>2
      <4>4. QED
        BY <2>3, <4>1, <4>2, <4>3
    <3>5. op[t].kind # "options"
      BY <1>0 DEF Outbound
    <3>6. QED
      BY <2>3, <3>2, <3>3, <3>4, <3>5 DEF LeavesNonePlain, Plain
  <2>9. \A u \in Txn, k \in Keys : Holds(u, k)' => Open(u)'
    BY <2>1, <2>4, <2>5 DEF BInv, HoldersOpen, Holds, Open, Only
  <2>10. QED
    BY <1>0, <2>1, <2>5, <2>6, <2>7, <2>8, <2>9, OwnStep DEF committed
<1>3. QED
  BY <1>1, <1>2

\* What a shortfall takes below zero is marked as forced.
LEMMA BearBInv ==
  ASSUME IInv, BInv, NEW t \in Txn, NEW lot \in Lots, Bear(t, lot), Kept
  PROVE  BInv'
<1> USE DEF Kept, history
<1> DEFINE at == <<Current(t).shelf, lot>>
           arrives == <<op[t].to, lot>>
<1>0. pc[t] = "bear" /\ Open(t)
  BY DEF Bear, Open
<1>1. LineIsAt(t)
  BY DEF BInv, LinesAt
<1>2. /\ op[t].kind \in Outbound /\ lack[t] \in Nat /\ lack[t] > 0 /\ at \in Keys
      /\ Current(t).shelf \in Shelves /\ todo[t][at] <= 0 /\ op[t] \in Ops
  <2>1. op[t].kind \in Outbound /\ lack[t] > 0 /\ todo[t][at] <= 0
    BY <1>0, <1>1 DEF LineIsAt
  <2>2. Current(t).shelf \in Shelves /\ op[t] \in Ops
    BY <1>0, <2>1, CurrentLine DEF IInv, Line, Outbound, LineOpen
  <2>3. lack[t] \in Nat /\ at \in Keys
    BY <2>2 DEF IInv, TypeOK, Keys
  <2>4. QED
    BY <2>1, <2>2, <2>3
<1>3. /\ \A k \in Keys : todo'[t][k] = IF k = at THEN todo[t][k] - lack[t]
                                       ELSE IF k = arrives THEN todo[t][k] + lack[t] ELSE todo[t][k]
      /\ forcedBy'[t] = forcedBy[t] \cup {k \in Keys : todo'[t][k] < 0}
      /\ pc'[t] = "move" /\ lack'[t] = 0
  BY DEF Bear, IInv, TypeOK
<1>4. UNCHANGED <<bal, forced, hasOptions, lock, op, line, moved>>
  BY DEF Bear, committed
<1>5. Only(t)
  BY DEF Bear, Only, IInv, TypeOK
<1>6. LineIsAt(t)'
  BY <1>3 DEF LineIsAt
<1>7. ASSUME ~overlapped PROVE NegativeKnownTo(t)'
  <2> SUFFICES ASSUME NEW k \in Keys, Coming(t, k)' < 0 PROVE ForcedOf(k[2], forced \cup forcedBy'[t])
    BY <1>4 DEF NegativeKnownTo, ForcedOf
  <2>1. /\ Coming(t, k)' = bal[k] + moved[t][k] + todo'[t][k] /\ todo[t][k] \in Int
        /\ bal[k] + moved[t][k] \in Int
    BY <1>4 DEF Coming, IInv, TypeOK
  <2>2. CASE k = at
    <3>1. todo'[t][k] < 0
      BY <1>2, <1>3, <2>1, <2>2
    <3>2. k \in forcedBy'[t]
      BY <1>3, <3>1
    <3>3. QED
      BY <1>2, <2>2, <3>2 DEF ForcedOf
  <2>3. CASE k # at
    <3>1. Coming(t, k) < 0
      BY <1>2, <1>3, <2>1, <2>3 DEF Coming
    <3>2. ForcedOf(k[2], forced \cup forcedBy[t])
      BY <1>0, <1>7, <3>1 DEF BInv, Undisturbed, NegativeKnownTo
    <3>3. QED
      BY <1>3, <3>2 DEF ForcedOf
  <2>4. QED
    BY <2>2, <2>3
<1>8. ASSUME ~overlapped PROVE LeavesNonePlain(t)'
  <2>1. LeavesNonePlain(t)
    BY <1>8 DEF BInv, Undisturbed
  <2>2. ASSUME hasOptions, NEW k \in Keys, Plain(k)
        PROVE  moved[t][k] = 0 /\ (todo'[t][k] # 0 => todo'[t][k] > 0 /\ op[t].kind = "transfer")
    <3>1. moved[t][k] = 0 /\ (todo[t][k] # 0 => todo[t][k] > 0 /\ op[t].kind = "transfer") /\ todo[t][k] \in Int
      BY <1>0, <2>1, <2>2 DEF LeavesNonePlain, IInv, TypeOK
    <3>2. k # at
      BY <1>0, <2>1, <2>2 DEF LeavesNonePlain, Plain, OptionShelves
    <3>3. k = arrives => op[t].kind = "transfer"
      <4>1. ASSUME k = arrives PROVE op[t].to # None
        BY <2>2, <4>1 DEF Plain
      <4>2. QED
        BY <1>2, <4>1
    <3>4. QED
      BY <1>2, <1>3, <3>1, <3>2, <3>3
  <2>3. op[t].kind # "options"
    BY <1>2 DEF Outbound
  <2>4. QED
    BY <1>3, <1>4, <2>2, <2>3 DEF LeavesNonePlain, Plain
<1>9. \A u \in Txn, k \in Keys : Holds(u, k)' => Open(u)'
  BY <1>0, <1>3, <1>4, <1>5 DEF BInv, HoldersOpen, Holds, Open, Only
<1>10. QED
  BY <1>0, <1>4, <1>5, <1>6, <1>7, <1>8, <1>9, OwnStep

\* What comes in raises a balance.
LEMMA ReadInBInv ==
  ASSUME IInv, BInv, NEW t \in Txn, NEW lot \in Lots, ReadIn(t, lot), Kept
  PROVE  BInv'
<1> USE DEF Kept, history
<1> DEFINE at == <<Current(t).shelf, lot>>
<1>0. pc[t] = "read" /\ Open(t) /\ op[t].kind \in {"receive", "into"}
  BY DEF ReadIn, Open
<1>1. CASE RollBack(t, "refused")
  BY <1>0, <1>1, RollBackBInv
<1>2. CASE ~RollBack(t, "refused")
  <2>1. /\ todo' = [todo EXCEPT ![t][at] = Current(t).quantity]
        /\ pc' = [pc EXCEPT ![t] = "move"] /\ Allowed(t, Current(t).shelf)
        /\ UNCHANGED <<bal, forced, hasOptions, lock, op, line, lack, moved, forcedBy>>
    BY <1>2 DEF ReadIn, committed
  <2>2. /\ Current(t).shelf \in Shelves /\ Current(t).quantity \in Nat /\ at \in Keys
        /\ \A k \in Keys : todo[t][k] = 0
    <3>1. Current(t).shelf \in Shelves /\ Current(t).quantity \in Nat
      BY <1>0, CurrentLine DEF IInv, Line
    <3>2. \A k \in Keys : todo[t][k] = 0
      BY <1>0 DEF BInv, LinesAt, LineIsAt
    <3>3. QED
      BY <3>1, <3>2 DEF Keys
  <2>3. \A k \in Keys : todo'[t][k] = IF k = at THEN Current(t).quantity ELSE 0
    <3>1. todo' = [todo EXCEPT ![t] = [todo[t] EXCEPT ![at] = Current(t).quantity]]
      BY <2>1
    <3>2. QED
      BY <2>2, <3>1 DEF IInv, TypeOK
  <2>4. Only(t) /\ pc'[t] = "move"
    <3>1. \A u \in Txn \ {t} : pc'[u] = pc[u] /\ todo'[u] = todo[u]
      BY <2>1 DEF IInv, TypeOK
    <3>2. QED
      BY <2>1, <3>1 DEF Only, IInv, TypeOK
  <2>5. LineIsAt(t)'
    BY <2>4 DEF LineIsAt
  <2>6. ASSUME ~overlapped PROVE NegativeKnownTo(t)'
    <3> SUFFICES ASSUME NEW k \in Keys, Coming(t, k)' < 0 PROVE ForcedOf(k[2], forced \cup forcedBy[t])
      BY <2>1 DEF NegativeKnownTo, ForcedOf
    <3>1. Coming(t, k)' = bal[k] + moved[t][k] + todo'[t][k] /\ bal[k] + moved[t][k] \in Int
      BY <2>1 DEF Coming, IInv, TypeOK
    <3>2. Coming(t, k) < 0
      BY <2>2, <2>3, <3>1 DEF Coming
    <3>3. QED
      BY <1>0, <2>6, <3>2 DEF BInv, Undisturbed, NegativeKnownTo
  <2>7. ASSUME ~overlapped PROVE LeavesNonePlain(t)'
    <3>1. LeavesNonePlain(t)
      BY <2>7 DEF BInv, Undisturbed
    <3>2. Current(t).shelf \in OptionShelves <=> hasOptions
      BY <2>1 DEF Allowed
    <3>3. ASSUME hasOptions, NEW k \in Keys, Plain(k)
          PROVE  moved[t][k] = 0 /\ todo'[t][k] = 0
      <4>1. k # at
        BY <3>2, <3>3 DEF Plain, OptionShelves
      <4>2. QED
        BY <1>0, <2>3, <3>1, <3>3, <4>1 DEF LeavesNonePlain
    <3>4. op[t].kind # "options"
      BY <1>0
    <3>5. QED
      BY <2>1, <2>4, <3>3, <3>4 DEF LeavesNonePlain, Plain
  <2>8. \A u \in Txn, k \in Keys : Holds(u, k)' => Open(u)'
    BY <1>0, <2>1, <2>4 DEF BInv, HoldersOpen, Holds, Open, Only
  <2>9. QED
    BY <1>0, <2>1, <2>4, <2>5, <2>6, <2>7, <2>8, OwnStep
<1>3. QED
  BY <1>1, <1>2

\* The first options take everything over, and what was below zero stays known.
LEMMA ReadOptionsBInv ==
  ASSUME IInv, BInv, NEW t \in Txn, ReadOptions(t), Kept
  PROVE  BInv'
<1> USE DEF Kept, history
<1>0. pc[t] = "read" /\ Open(t) /\ op[t].kind = "options"
  BY DEF ReadOptions, Open
<1>1. \A k \in Keys : todo[t][k] = 0 /\ moved[t][k] = 0
  BY <1>0 DEF BInv, LinesAt, LineIsAt
<1>2. /\ UNCHANGED <<bal, forced, hasOptions, lock, op, line, moved, forcedBy>>
      /\ pc'[t] = "move" /\ Only(t)
  BY DEF ReadOptions, committed, Only, IInv, TypeOK
<1>3. \A k \in Keys : todo'[t][k] =
        IF hasOptions THEN 0
        ELSE IF Plain(k) THEN -bal[k]
        ELSE IF TakesOver(k[1]) THEN bal[<<PlainOf(k[1]), k[2]>>] ELSE 0
  <2>1. CASE hasOptions
    BY <1>1, <2>1 DEF ReadOptions
  <2>2. CASE ~hasOptions
    BY <2>2 DEF ReadOptions, Plain, IInv, TypeOK
  <2>3. QED
    BY <2>1, <2>2
<1>4. LineIsAt(t)'
  BY <1>2 DEF LineIsAt
<1>5. ASSUME ~overlapped PROVE NegativeKnownTo(t)'
  <2> SUFFICES ASSUME NEW k \in Keys, Coming(t, k)' < 0 PROVE ForcedOf(k[2], forced \cup forcedBy[t])
    BY <1>2 DEF NegativeKnownTo, ForcedOf
  <2>1. Coming(t, k)' = bal[k] + todo'[t][k] /\ bal[k] \in Int
    BY <1>1, <1>2, <1>3, SMTT(60) DEF Coming, IInv, TypeOK
  <2>2. \A j \in Keys : bal[j] < 0 => ForcedOf(j[2], forced)
    BY <1>5 DEF BInv, Undisturbed, NegativeKnown
  <2>3. CASE bal[k] < 0
    BY <2>2, <2>3 DEF ForcedOf
  <2>4. CASE ~(bal[k] < 0)
    <3> DEFINE j == <<PlainOf(k[1]), k[2]>>
    <3>1. todo'[t][k] # 0 /\ todo'[t][k] # -bal[k]
      BY <2>1, <2>4
    <3>2. TakesOver(k[1]) /\ todo'[t][k] = bal[j]
      BY <1>3, <3>1
    <3>3. j \in Keys /\ j[2] = k[2]
      BY <3>2 DEF TakesOver, PlainOf, Keys
    <3>4. bal[j] < 0
      BY <2>1, <2>4, <3>2, <3>3, SMTT(60) DEF IInv, TypeOK
    <3>5. QED
      BY <2>2, <3>3, <3>4 DEF ForcedOf
  <2>5. QED
    BY <2>3, <2>4
<1>6. ASSUME ~overlapped PROVE LeavesNonePlain(t)'
  <2>1. ASSUME NEW k \in Keys, Plain(k), ~hasOptions PROVE Coming(t, k)' = 0
    <3>1. bal[k] \in Int /\ moved'[t][k] = 0 /\ todo'[t][k] = -bal[k] /\ bal' = bal
      BY <1>1, <1>2, <1>3, <2>1 DEF IInv, TypeOK
    <3>2. QED
      BY <3>1 DEF Coming
  <2>2. QED
    BY <1>1, <1>2, <1>3, <2>1 DEF LeavesNonePlain, Plain
<1>7. \A u \in Txn, k \in Keys : Holds(u, k)' => Open(u)'
  BY <1>0, <1>2 DEF BInv, HoldersOpen, Holds, Open, Only
<1>8. QED
  BY <1>0, <1>2, <1>4, <1>5, <1>6, <1>7, OwnStep

\* A movement written is one that no longer has to be.
LEMMA WriteBInv ==
  ASSUME IInv, BInv, NEW t \in Txn, NEW k \in Keys, pc[t] \in {"move", "insert"}, WriteBalance(t, k), Kept,
         ~overlapped => ~(hasOptions /\ Plain(k))
  PROVE  BInv'
<1> USE DEF Kept, history
<1>0. Open(t)
  BY DEF Open
<1>1. /\ moved' = [moved EXCEPT ![t] = [moved[t] EXCEPT ![k] = moved[t][k] + todo[t][k]]]
      /\ todo' = [todo EXCEPT ![t] = [todo[t] EXCEPT ![k] = 0]]
      /\ pc' = [pc EXCEPT ![t] = "move"] /\ lock' = [lock EXCEPT ![k] = t]
      /\ UNCHANGED <<bal, forced, hasOptions, op, line, lack, forcedBy>>
  BY DEF WriteBalance, committed
<1>2. \A j \in Keys : /\ moved'[t][j] = IF j = k THEN moved[t][k] + todo[t][k] ELSE moved[t][j]
                      /\ todo'[t][j] = IF j = k THEN 0 ELSE todo[t][j]
                      /\ todo[t][j] \in Int /\ moved[t][j] \in Int /\ bal[j] \in Int
  BY <1>1, SMTT(60) DEF IInv, TypeOK
<1>3. \A j \in Keys : Coming(t, j)' = Coming(t, j)
  BY <1>1, <1>2 DEF Coming
<1>4. Only(t) /\ pc'[t] = "move"
  BY <1>1 DEF Only, IInv, TypeOK
<1>5. LineIsAt(t)'
  BY <1>4 DEF LineIsAt
<1>6. ASSUME ~overlapped PROVE NegativeKnownTo(t)'
  <2>1. NegativeKnownTo(t)
    BY <1>6 DEF BInv, Undisturbed
  <2> SUFFICES ASSUME NEW j \in Keys, Coming(t, j)' < 0 PROVE ForcedOf(j[2], forced \cup forcedBy[t])
    BY <1>1 DEF NegativeKnownTo, ForcedOf
  <2>2. QED
    BY <1>0, <1>3, <2>1 DEF NegativeKnownTo
<1>7. ASSUME ~overlapped PROVE LeavesNonePlain(t)'
  <2>1. LeavesNonePlain(t) /\ ~(hasOptions /\ Plain(k))
    BY <1>7 DEF BInv, Undisturbed
  <2>2. pc[t] = "move"
    BY <1>0, <2>1 DEF LeavesNonePlain
  <2>3. ASSUME hasOptions, NEW j \in Keys, Plain(j)
        PROVE  moved'[t][j] = 0 /\ (todo'[t][j] # 0 => todo'[t][j] > 0 /\ op[t].kind = "transfer")
    <3>1. j # k
      BY <2>1, <2>3
    <3>2. QED
      BY <1>0, <1>2, <2>1, <2>3, <3>1 DEF LeavesNonePlain
  <2>4. ASSUME ~hasOptions, op[t].kind = "options", NEW j \in Keys, Plain(j)
        PROVE  Coming(t, j)' = 0
    BY <1>0, <1>3, <2>1, <2>2, <2>4 DEF LeavesNonePlain
  <2>5. QED
    BY <1>1, <1>4, <2>3, <2>4 DEF LeavesNonePlain, Plain
<1>8. \A u \in Txn, j \in Keys : Holds(u, j)' => Open(u)'
  BY <1>1, <1>4 DEF BInv, HoldersOpen, Holds, Open, Only, IInv, TypeOK
<1>9. QED
  BY <1>0, <1>1, <1>4, <1>5, <1>6, <1>7, <1>8, OwnStep

\* Nothing but a transfer's arrival is on its way to a shelf of no option where there are
\* options, and that one is refused.
LEMMA MoveBInv ==
  ASSUME IInv, BInv, NEW t \in Txn, NEW k \in Keys, Move(t, k) \/ InsertResolves(t, k), Kept
  PROVE  BInv'
<1>0. pc[t] \in {"move", "insert"} /\ Open(t) /\ todo[t][k] # 0
  BY DEF Move, InsertResolves, NextKey, Open
<1>1. CASE RollBack(t, "refused") \/ RollBack(t, "failed")
  BY <1>0, <1>1, RollBackBInv DEF Kept, history
<1>2. CASE WriteBalance(t, k) /\ ~RollBack(t, "refused")
  <2>1. ASSUME ~overlapped, hasOptions, Plain(k) PROVE FALSE
    <3>1. pc[t] = "move" /\ todo[t][k] > 0 /\ op[t].kind = "transfer"
      BY <1>0, <2>1 DEF BInv, Undisturbed, LeavesNonePlain
    <3>2. ~Allowed(t, k[1])
      BY <2>1 DEF Allowed, Plain, OptionShelves
    <3>3. QED
      BY <1>2, <3>1, <3>2 DEF Move, InsertResolves
  <2>2. QED
    BY <1>0, <1>2, <2>1, WriteBInv
<1>3. CASE /\ lock[k] \notin {None, t} /\ pc[t] = "move" /\ pc' = [pc EXCEPT ![t] = "insert"]
           /\ UNCHANGED <<committed, born, lock, orgLock, op, line, todo, lack, moved, forcedBy, written, number>>
  <2>1. PICK u \in Txn : u # t /\ Holds(u, k)
    BY <1>3 DEF Holds, IInv, TypeOK
  <2>2. overlapped
    BY <1>0, <2>1 DEF BInv, HoldersOpen, Undisturbed, OneOpen
  <2>3. Only(t) /\ pc'[t] = "insert" /\ UNCHANGED <<bal, forced, hasOptions, lock>>
    BY <1>3 DEF Only, IInv, TypeOK, committed
  <2>4. LineIsAt(t)'
    BY <2>3 DEF LineIsAt
  <2>5. \A v \in Txn, j \in Keys : Holds(v, j)' => Open(v)'
    BY <2>3 DEF BInv, HoldersOpen, Holds, Open, Only
  <2>6. QED
    BY <1>0, <2>2, <2>3, <2>4, <2>5, OwnStep DEF Kept, history
<1>4. QED
  BY <1>1, <1>2, <1>3 DEF Move, InsertResolves

\* A line that is written leaves the next to be read.
LEMMA EndLineBInv ==
  ASSUME IInv, BInv, NEW t \in Txn, EndLine(t), Kept
  PROVE  BInv'
<1> USE DEF Kept, history
<1>0. pc[t] = "move" /\ Open(t) /\ \A k \in Keys : todo[t][k] = 0
  BY DEF EndLine, Open, NoMoves
<1>1. CASE Commit(t)
  BY <1>0, <1>1, CommitBInv
<1>2. CASE ~Commit(t)
  <2>1. /\ UNCHANGED <<bal, forced, hasOptions, lock, op, todo, moved, forcedBy>>
        /\ \/ line[t] < Len(op[t].lines) /\ pc'[t] = "read"
           \/ op[t].kind = "sale" /\ pc'[t] = "number"
    BY <1>2 DEF EndLine, committed, IInv, TypeOK
  <2>2. Only(t)
    BY <1>2 DEF EndLine, Only, IInv, TypeOK
  <2>3. pc'[t] = "read" => op[t].kind # "options"
    <3>1. op[t] \in Ops
      BY <1>0 DEF IInv, LineOpen
    <3>2. op[t].kind = "options" => Len(op[t].lines) = 0
      BY <3>1
    <3>3. QED
      BY <2>1, <3>2 DEF IInv, TypeOK
  <2>4. LineIsAt(t)'
    BY <1>0, <2>1, <2>3 DEF LineIsAt
  <2>5. ASSUME ~overlapped PROVE NegativeKnownTo(t)' /\ LeavesNonePlain(t)'
    <3>1. NegativeKnownTo(t) /\ LeavesNonePlain(t)
      BY <2>5 DEF BInv, Undisturbed
    <3>2. \A k \in Keys : Coming(t, k)' = Coming(t, k)
      BY <2>1 DEF Coming
    <3>3. NegativeKnownTo(t)'
      BY <1>0, <2>1, <3>1, <3>2 DEF NegativeKnownTo, ForcedOf
    <3>4. LeavesNonePlain(t)'
      BY <1>0, <2>1, <3>1 DEF LeavesNonePlain, Plain
    <3>5. QED
      BY <3>3, <3>4
  <2>6. \A u \in Txn, k \in Keys : Holds(u, k)' => Open(u)'
    BY <1>0, <2>1, <2>2 DEF BInv, HoldersOpen, Holds, Open, Only
  <2>7. QED
    BY <1>0, <2>1, <2>2, <2>4, <2>5, <2>6, OwnStep
<1>3. QED
  BY <1>1, <1>2

\* Taking a number moves nothing, and a sale ends with everything moved or nothing.
LEMMA SaleEndsBInv ==
  ASSUME IInv, BInv, NEW t \in Txn, TakeNumber(t) \/ EndSale(t), Kept
  PROVE  BInv'
<1> USE DEF Kept, history
<1>0. pc[t] \in {"number", "commit"} /\ Open(t)
  BY DEF TakeNumber, EndSale, Open
<1>1. op[t].kind = "sale" /\ \A k \in Keys : todo[t][k] = 0
  BY <1>0 DEF BInv, LinesAt, LineIsAt
<1>2. CASE Commit(t) \/ RollBack(t, "refused")
  BY <1>0, <1>1, <1>2, CommitBInv, RollBackBInv
<1>3. CASE TakeNumber(t)
  <2>1. /\ UNCHANGED <<bal, forced, hasOptions, lock, op, todo, moved, forcedBy>>
        /\ pc'[t] = "commit" /\ Only(t)
    BY <1>3 DEF TakeNumber, committed, IInv, TypeOK, Only
  <2>2. LineIsAt(t)'
    BY <1>1, <2>1 DEF LineIsAt
  <2>3. ASSUME ~overlapped PROVE NegativeKnownTo(t)' /\ LeavesNonePlain(t)'
    <3>1. NegativeKnownTo(t) /\ LeavesNonePlain(t)
      BY <2>3 DEF BInv, Undisturbed
    <3>2. \A k \in Keys : Coming(t, k)' = Coming(t, k)
      BY <2>1 DEF Coming
    <3>3. NegativeKnownTo(t)'
      BY <1>0, <2>1, <3>1, <3>2 DEF NegativeKnownTo, ForcedOf
    <3>4. LeavesNonePlain(t)'
      BY <1>0, <2>1, <3>1 DEF LeavesNonePlain, Plain
    <3>5. QED
      BY <3>3, <3>4
  <2>4. \A u \in Txn, k \in Keys : Holds(u, k)' => Open(u)'
    BY <1>0, <2>1 DEF BInv, HoldersOpen, Holds, Open, Only
  <2>5. QED
    BY <1>0, <2>1, <2>2, <2>3, <2>4, OwnStep
<1>4. QED
  BY <1>2, <1>3 DEF EndSale

\* A rebuild that nobody disturbs writes the balances that are there.
LEMMA RebuildBInv ==
  ASSUME IInv, BInv, NEW t \in Txn, Rebuild(t)
  PROVE  BInv'
<1>0. /\ pc[t] \in {"read", "compare", "replace"} /\ Open(t) /\ op[t].kind = "rebuild"
      /\ UNCHANGED <<overlapped, crossed>>
      /\ apart' = IF pc'[t] = "done" THEN t \in crossed ELSE apart
  BY DEF Rebuild, SumLedger, Compare, Replace, Open, IInv, RInv, RebuildOnly
<1>1. \A k \in Keys : todo[t][k] = 0 \/ pc[t] # "read"
  BY DEF BInv, LinesAt, LineIsAt
<1>2. CASE RollBack(t, "deadlock")
  <2>1. pc'[t] = "deadlock"
    BY <1>2 DEF RollBack, IInv, TypeOK
  <2>2. QED
    BY <1>0, <1>2, <2>1, RollBackBInv
<1>3. CASE ~RollBack(t, "deadlock")
  <2>1. /\ pc'[t] \in {"compare", "replace", "done"}
        /\ UNCHANGED <<forced, hasOptions, lock, op, line, todo, lack, moved, forcedBy>>
        /\ \A u \in Txn \ {t} : pc'[u] = pc[u]
    BY <1>3 DEF Rebuild, SumLedger, Compare, Replace, IInv, TypeOK, committed
  <2>2. Only(t)
    BY <2>1 DEF Only
  <2>3. LineIsAt(t)'
    BY <2>1 DEF LineIsAt
  <2>4. \A u \in Txn, k \in Keys : Holds(u, k)' => u # t /\ Open(u)'
    BY <1>0, <2>1 DEF BInv, HoldersOpen, Holds, Open, IInv, RInv, RebuildOnly
  <2>5. ASSUME ~overlapped PROVE UNCHANGED <<bal, apart>>
    <3>1. crossed = {} /\ ~apart /\ apart \in BOOLEAN
      BY <2>5 DEF BInv, Undisturbed, IInv, TypeOK
    <3>2. CASE bal' = bal
      BY <1>0, <3>1, <3>2
    <3>3. CASE bal' # bal
      <4>1. pc[t] = "replace" /\ bal' = written[t]
        BY <1>3, <3>3 DEF Rebuild, SumLedger, Compare, Replace, committed
      <4>2. written[t] = ledger
        BY <3>1, <4>1 DEF IInv, RInv, SumsCurrent, Summing
      <4>3. \A k \in Keys : bal[k] = ledger[k]
        BY <3>1 DEF IInv, CacheMatchesLedger
      <4>4. QED
        BY <3>3, <4>1, <4>2, <4>3 DEF IInv, TypeOK
    <3>4. QED
      BY <3>2, <3>3
  <2>6. HoldersOpen'
    BY <2>4 DEF HoldersOpen
  <2>7. LinesAt'
    <3> SUFFICES ASSUME NEW u \in Txn \ {t} PROVE LineIsAt(u)'
      BY <2>3 DEF LinesAt
    <3>1. QED
      BY <2>1 DEF BInv, LinesAt, LineIsAt, Current
  <2>8. ASSUME ~overlapped PROVE Undisturbed'
    <3>1. Undisturbed /\ UNCHANGED <<bal, apart>>
      BY <2>5, <2>8 DEF BInv
    <3>2. \A u \in Txn \ {t} : ~Open(u)'
      BY <1>0, <2>1, <3>1 DEF Undisturbed, OneOpen, Open
    <3>3. NegativeKnown' /\ NonePlain' /\ OneOpen'
      BY <2>1, <3>1, <3>2 DEF Undisturbed, NegativeKnown, NonePlain, OneOpen, ForcedOf, Plain
    <3>4. NegativeKnownTo(t)' /\ LeavesNonePlain(t)'
      <4>1. NegativeKnownTo(t) /\ LeavesNonePlain(t)
        BY <3>1 DEF Undisturbed
      <4>2. \A k \in Keys : Coming(t, k)' = Coming(t, k)
        BY <2>1, <3>1 DEF Coming
      <4>3. NegativeKnownTo(t)'
        BY <1>0, <2>1, <4>1, <4>2 DEF NegativeKnownTo, ForcedOf
      <4>4. LeavesNonePlain(t)'
        BY <1>0, <2>1, <4>1 DEF LeavesNonePlain, Plain
      <4>5. QED
        BY <4>3, <4>4
    <3>5. \A u \in Txn : NegativeKnownTo(u)' /\ LeavesNonePlain(u)'
      <4> SUFFICES ASSUME NEW u \in Txn \ {t} PROVE NegativeKnownTo(u)' /\ LeavesNonePlain(u)'
        BY <3>4
      <4>1. QED
        BY <3>2 DEF NegativeKnownTo, LeavesNonePlain
    <3>6. crossed' = {} /\ ~apart'
      BY <1>0, <2>8, <3>1 DEF Undisturbed
    <3>7. QED
      BY <3>3, <3>5, <3>6 DEF Undisturbed
  <2>9. QED
    BY <1>0, <2>6, <2>7, <2>8 DEF BInv
<1>4. QED
  BY <1>2, <1>3

LEMMA StepBInv == IInv /\ BInv /\ [Next]_vars => BInv'
<1> SUFFICES ASSUME IInv, BInv, [Next]_vars PROVE BInv'
  OBVIOUS
<1>1. CASE UNCHANGED vars
  <2>1. UNCHANGED <<bal, lock, orgLock, forced, hasOptions, history>>
    BY <1>1 DEF vars, committed
  <2>2. UNCHANGED <<pc, op, line, todo, lack, moved, forcedBy>>
    BY <1>1 DEF vars, local
  <2>3. HoldersOpen'
    BY <2>1, <2>2 DEF BInv, HoldersOpen, Holds, Open
  <2>4. LinesAt'
    BY <2>2 DEF BInv, LinesAt, LineIsAt, Current
  <2>5. ASSUME ~overlapped PROVE Undisturbed'
    <3>1. Undisturbed
      BY <2>5 DEF BInv
    <3>2. NegativeKnown' /\ NonePlain' /\ OneOpen'
      BY <2>1, <2>2, <3>1 DEF history, Undisturbed, NegativeKnown, NonePlain, OneOpen, Open, ForcedOf, Plain
    <3>3. \A t \in Txn : NegativeKnownTo(t)' /\ LeavesNonePlain(t)'
      <4> SUFFICES ASSUME NEW t \in Txn PROVE NegativeKnownTo(t)' /\ LeavesNonePlain(t)'
        OBVIOUS
      <4>1. NegativeKnownTo(t) /\ LeavesNonePlain(t)
        BY <3>1 DEF Undisturbed
      <4>2. NegativeKnownTo(t)'
        BY <2>1, <2>2, <4>1 DEF NegativeKnownTo, Open, Coming, ForcedOf
      <4>3. LeavesNonePlain(t)'
        BY <2>1, <2>2, <4>1 DEF history, LeavesNonePlain, Open, Plain, Coming, Current
      <4>4. QED
        BY <4>2, <4>3
    <3>4. QED
      BY <2>1, <3>1, <3>2, <3>3 DEF Undisturbed, history
  <2>6. QED
    BY <2>1, <2>3, <2>4, <2>5 DEF BInv, history
<1>2. ASSUME NEW t \in Txn, Begin(t) PROVE BInv'
  BY <1>2, BeginBInv
<1>3. ASSUME NEW t \in Txn, Rebuild(t) PROVE BInv'
  BY <1>3, RebuildBInv
<1>4. ASSUME NEW t \in Txn, Statement(t), Kept PROVE BInv'
  <2>1. CASE DeadlockAbort(t)
    <3>1. Open(t)
      BY <2>1 DEF DeadlockAbort, Deadlocked, BlockedBy, Open
    <3>2. QED
      BY <1>4, <2>1, <3>1, RollBackBInv DEF DeadlockAbort, Kept, history
  <2>2. QED
    BY <1>4, <2>1, ReadOutBInv, ReadOptionsBInv, EndLineBInv, SaleEndsBInv, BearBInv, ReadInBInv, MoveBInv
       DEF Statement
<1>5. QED
  BY <1>1, <1>2, <1>3, <1>4 DEF Next, Step, Kept

\* While requests do not overlap no balance is below zero but by force, whoever forced
\* it and wherever, and once a product has options nothing stays under none: recordOutbound
\* takes no more than availableBatches found, and moveIntoVariant moves all there is.
THEOREM BalancesAreExplained == Spec => []BalancesExplained
<1>1. BInv => BalancesExplained
  BY DEF BInv, Undisturbed, BalancesExplained, NegativeLotWasForced, StockUnderAnOption,
         NegativeKnown, NonePlain, ForcedOf, Plain
<1>2. QED
  BY SpecIInv, InitBInv, StepBInv, <1>1, PTL DEF Spec

-----------------------------------------------------------------------------
(* What a request that commits has moved. *)

\* What a request has moved and has still to move of its lines so far.
Net(t) == [k \in Keys |-> moved[t][k] + todo[t][k]]
NetOfAll(t) == SumFunctionOnSet(LotSums(Net(t)), Lots)
Asked(t) == [i \in DOMAIN op[t].lines |-> op[t].lines[i].quantity]
Reached(t) == 1..(IF pc[t] = "read" THEN line[t] - 1 ELSE line[t])

EvenOut(t) ==
  Open(t) /\ op[t].kind \in {"transfer", "options"} => \A lot \in Lots : LotSum(Net(t), lot) = 0
TakesAsked(t) ==
  Open(t) /\ op[t].kind = "sale" =>
    /\ NetOfAll(t) + SumFunctionOnSet(Asked(t), Reached(t)) = IF pc[t] = "bear" THEN lack[t] ELSE 0
    /\ pc[t] \in {"number", "commit"} => line[t] = Len(op[t].lines)

EInv == \A t \in Txn : EvenOut(t) /\ TakesAsked(t)

LEMMA NetType ==
  ASSUME TypeOK, NEW t \in Txn
  PROVE  \A k \in Keys : Net(t)[k] \in Int /\ Net(t)[k] = moved[t][k] + todo[t][k]
                         /\ moved[t][k] \in Int /\ todo[t][k] \in Int
  BY DEF Net, TypeOK

\* A step of one request says nothing of the others.
LEMMA OwnEInv ==
  ASSUME EInv, NEW t \in Txn, Only(t), EvenOut(t)', TakesAsked(t)'
  PROVE  EInv'
<1> SUFFICES ASSUME NEW u \in Txn \ {t} PROVE EvenOut(u)' /\ TakesAsked(u)'
  BY DEF EInv
<1>1. EvenOut(u) /\ TakesAsked(u)
  BY DEF EInv
<1>2. /\ pc'[u] = pc[u] /\ op'[u] = op[u] /\ line'[u] = line[u] /\ lack'[u] = lack[u]
      /\ todo'[u] = todo[u] /\ moved'[u] = moved[u]
  BY DEF Only
<1>3. Net(u)' = Net(u) /\ Asked(u)' = Asked(u) /\ Reached(u)' = Reached(u)
  BY <1>2 DEF Net, Asked, Reached
<1>4. NetOfAll(u)' = NetOfAll(u) /\ \A lot \in Lots : LotSum(Net(u), lot)' = LotSum(Net(u), lot)
  BY <1>3 DEF NetOfAll, LotSums, LotSum, OfLot
<1>5. QED
  BY <1>1, <1>2, <1>3, <1>4 DEF EvenOut, TakesAsked, Open

\* So it goes for a request that ends, and one that only gets on.
LEMMA EndsEInv ==
  ASSUME EInv, NEW t \in Txn, Only(t), ~Open(t)'
  PROVE  EInv'
  BY OwnEInv DEF EvenOut, TakesAsked

LEMMA GetsOnEInv ==
  ASSUME TypeOK, EInv, NEW t \in Txn, Only(t), Open(t), op'[t] = op[t],
         Reached(t)' = Reached(t), pc[t] # "bear", pc'[t] # "bear",
         pc'[t] \in {"number", "commit"} => line'[t] = Len(op[t].lines),
         \A k \in Keys : moved'[t][k] + todo'[t][k] = moved[t][k] + todo[t][k]
  PROVE  EInv'
<1>1. EvenOut(t) /\ TakesAsked(t)
  BY DEF EInv
<1>2. Net(t)' = Net(t) /\ Asked(t)' = Asked(t)
  BY DEF Net, Asked
<1>3. NetOfAll(t)' = NetOfAll(t) /\ \A lot \in Lots : LotSum(Net(t), lot)' = LotSum(Net(t), lot)
  BY <1>2 DEF NetOfAll, LotSums, LotSum, OfLot
<1>4. EvenOut(t)'
  BY <1>1, <1>3 DEF EvenOut
<1>5. TakesAsked(t)'
  BY <1>1, <1>2, <1>3 DEF TakesAsked
<1>6. QED
  BY <1>4, <1>5, OwnEInv

\* What the lines ask for are whole numbers.
LEMMA AskedType ==
  ASSUME NEW t \in Txn, op[t] \in Ops
  PROVE  /\ DOMAIN op[t].lines = 1..Len(op[t].lines)
         /\ \A i \in 1..Len(op[t].lines) : Asked(t)[i] \in Nat
<1>1. op[t].lines \in Seq(Line)
  BY DEF Op
<1>2. DOMAIN op[t].lines = 1..Len(op[t].lines) /\ \A i \in 1..Len(op[t].lines) : op[t].lines[i] \in Line
  BY <1>1
<1>3. \A ln \in Line : ln.quantity \in Nat
  BY DEF Line
<1>4. QED
  BY <1>2, <1>3 DEF Asked

LEMMA AskedSumType ==
  ASSUME NEW t \in Txn, op[t] \in Ops, line[t] \in 1..Len(op[t].lines)
  PROVE  SumFunctionOnSet(Asked(t), Reached(t)) \in Int
<1> DEFINE reached == Reached(t)
           asked == Asked(t)
<1>1. IsFiniteSet(reached) /\ reached \subseteq 1..Len(op[t].lines)
  <2>1. Len(op[t].lines) \in Nat
    BY AskedType DEF Op
  <2>2. reached \subseteq 1..Len(op[t].lines)
    BY <2>1 DEF Reached
  <2>3. IsFiniteSet(1..Len(op[t].lines))
    BY <2>1, FS_Interval
  <2>4. QED
    BY <2>2, <2>3, FS_Subset
<1>2. \A i \in reached : asked[i] \in Int
  BY <1>1, AskedType
<1> HIDE DEF reached, asked
<1>3. SumFunctionOnSet(asked, reached) \in Int
  BY ONLY <1>1, <1>2, SumType
<1>4. QED
  BY <1>3 DEF reached, asked

\* A request that begins has moved nothing yet.
LEMMA BeginEInv ==
  ASSUME IInv, BInv, EInv, NEW t \in Txn, Begin(t)
  PROVE  EInv'
<1>1. /\ pc[t] = "idle" /\ pc'[t] = "read" /\ UNCHANGED <<line, todo, lack, moved, forcedBy>>
      /\ Only(t) /\ line[t] = 1
  BY DEF Begin, Only, IInv, TypeOK, LineOpen
<1>2. \A k \in Keys : moved[t][k] = 0 /\ todo[t][k] = 0
  <2>1. \A k \in Keys : ~Holds(t, k)
    BY <1>1 DEF IInv, RInv, RebuildOnly
  <2>2. QED
    BY <1>1, <2>1 DEF BInv, LinesAt, LineIsAt, IInv, UnheldUnmoved
<1>3. Net(t)' = [k \in Keys |-> 0]
  BY <1>1, <1>2 DEF Net
<1>4. \A lot \in Lots : LotSum(Net(t), lot)' = 0
  <2> SUFFICES ASSUME NEW lot \in Lots PROVE LotSum(Net(t), lot)' = 0
    OBVIOUS
  <2> DEFINE x == OfLot([k \in Keys |-> 0], lot)
  <2>1. \A s \in Shelves : x[s] = 0
    BY DEF OfLot, Keys
  <2> HIDE DEF x
  <2>2. SumFunctionOnSet(x, Shelves) = 0
    BY <2>1, SumOfZeros
  <2>3. QED
    BY <1>3, <2>2 DEF LotSum, x
<1>5. NetOfAll(t)' = 0
  <2> DEFINE x == LotSums(Net(t))'
  <2>1. \A lot \in Lots : x[lot] = 0
    BY <1>4 DEF LotSums
  <2> HIDE DEF x
  <2>2. SumFunctionOnSet(x, Lots) = 0
    BY <2>1, SumOfZeros
  <2>3. QED
    BY <2>2 DEF NetOfAll, x
<1>6. Reached(t)' = {}
  BY <1>1 DEF Reached
<1>7. EvenOut(t)'
  BY <1>4 DEF EvenOut
<1>8. TakesAsked(t)'
  BY <1>1, <1>5, <1>6, SumEmpty DEF TakesAsked
<1>9. QED
  BY <1>1, <1>7, <1>8, OwnEInv

\* What a request is writing it has been counted with already.
LEMMA WriteEInv ==
  ASSUME IInv, EInv, NEW t \in Txn, NEW k \in Keys, pc[t] \in {"move", "insert"}, WriteBalance(t, k)
  PROVE  EInv'
<1>1. \A j \in Keys : /\ moved'[t][j] = IF j = k THEN moved[t][k] + todo[t][k] ELSE moved[t][j]
                      /\ todo'[t][j] = IF j = k THEN 0 ELSE todo[t][j]
                      /\ moved[t][j] \in Int /\ todo[t][j] \in Int
  <2>1. /\ moved' = [moved EXCEPT ![t] = [moved[t] EXCEPT ![k] = moved[t][k] + todo[t][k]]]
        /\ todo' = [todo EXCEPT ![t] = [todo[t] EXCEPT ![k] = 0]]
    BY DEF WriteBalance
  <2>2. moved[t] \in [Keys -> Int] /\ todo[t] \in [Keys -> Int]
    BY DEF IInv, TypeOK
  <2>3. /\ moved'[t] = [moved[t] EXCEPT ![k] = moved[t][k] + todo[t][k]]
        /\ todo'[t] = [todo[t] EXCEPT ![k] = 0]
    BY <2>1 DEF IInv, TypeOK
  <2>4. QED
    BY <2>2, <2>3
<1>2. Only(t) /\ pc'[t] = "move" /\ UNCHANGED <<op, line>>
  BY DEF WriteBalance, Only, IInv, TypeOK
<1>3. Reached(t)' = Reached(t)
  BY <1>2 DEF Reached
<1>4. \A j \in Keys : moved'[t][j] + todo'[t][j] = moved[t][j] + todo[t][j]
  BY <1>1
<1>5. QED
  BY <1>2, <1>3, <1>4, GetsOnEInv DEF IInv, Open

\* The picks of a line come off its shelf, and for a transfer onto the other one.
LEMMA ReadOutEInv ==
  ASSUME IInv, BInv, EInv, NEW t \in Txn, ReadOut(t)
  PROVE  EInv'
<1>0. pc[t] = "read" /\ Open(t) /\ op[t].kind \in Outbound
  BY DEF ReadOut, Open
<1>1. CASE RollBack(t, "refused")
  <2>1. Only(t) /\ ~Open(t)'
    BY <1>1 DEF RollBack, Release, Only, Open, IInv, TypeOK
  <2>2. QED
    BY <2>1, EndsEInv
<1>2. CASE ~RollBack(t, "refused")
  <2> DEFINE a == Current(t).shelf
             n == Current(t).quantity
  <2>1. PICK taken \in [Lots -> Quantities], shortfall \in Quantities :
          /\ IsFefoPick(OnShelf(t), n, taken, shortfall)
          /\ todo' = [todo EXCEPT ![t] = Movements(t, taken)]
          /\ lack' = [lack EXCEPT ![t] = shortfall]
          /\ pc' = [pc EXCEPT ![t] = IF shortfall > 0 THEN "bear" ELSE "move"]
          /\ UNCHANGED <<committed, born, lock, orgLock, op, line, moved, forcedBy, written, number>>
    BY <1>2 DEF ReadOut
  <2>2. /\ Only(t) /\ UNCHANGED <<op, line, moved>> /\ lack'[t] = shortfall
        /\ pc'[t] = IF shortfall > 0 THEN "bear" ELSE "move"
    BY <2>1 DEF Only, IInv, TypeOK
  <2>3. /\ a \in Shelves /\ n \in Nat /\ op[t] \in Ops /\ op[t] \in Op
        /\ Current(t) = op[t].lines[line[t]] /\ line[t] \in DOMAIN op[t].lines /\ line[t] \in Nat \ {0}
    <3>1. op[t] \in Ops /\ line[t] \in 1..Len(op[t].lines) /\ op[t] \in Op
      BY <1>0 DEF IInv, LineOpen, Outbound
    <3>2. a \in Shelves /\ n \in Nat
      BY <1>0, CurrentLine DEF IInv, Line, Outbound
    <3>3. DOMAIN op[t].lines = 1..Len(op[t].lines)
      BY <3>1 DEF Op
    <3>4. QED
      BY <3>1, <3>2, <3>3 DEF Current
  <2>4. /\ \A l \in Lots : taken[l] \in Nat /\ taken[l] \in Int
        /\ shortfall \in Nat /\ SumFunctionOnSet(taken, Lots) + shortfall = n
    <3>1. SumFunction(taken) + shortfall = n
      BY <2>1 DEF IsFefoPick
    <3>2. QED
      BY <3>1 DEF Quantities, SumFunction
  <2>5. \A k \in Keys : /\ todo[t][k] = 0 /\ moved[t][k] \in Int
                        /\ todo'[t][k] = IF k[1] = a THEN -taken[k[2]]
                                         ELSE IF k[1] = op[t].to THEN taken[k[2]] ELSE 0
    <3>1. \A k \in Keys : todo'[t][k] = Movements(t, taken)[k]
      BY <2>1 DEF IInv, TypeOK
    <3>2. \A k \in Keys : todo[t][k] = 0 /\ moved[t][k] \in Int
      BY <1>0 DEF BInv, LinesAt, LineIsAt, IInv, TypeOK
    <3>3. QED
      BY <3>1, <3>2 DEF Movements
  <2> DEFINE old == Net(t)
             new == Net(t)'
  <2>6. \A k \in Keys : /\ old[k] = moved[t][k] /\ old[k] \in Int
                        /\ new[k] = IF k[1] = a THEN old[k] - taken[k[2]]
                                    ELSE IF k[1] = op[t].to THEN old[k] + taken[k[2]] ELSE old[k]
                        /\ new[k] \in Int
    <3>1. \A k \in Keys : old[k] = moved[t][k] /\ new[k] = moved[t][k] + todo'[t][k] /\ k[2] \in Lots
      BY <2>2, <2>5 DEF Net, Keys
    <3>2. QED
      BY <2>4, <2>5, <3>1
  <2> HIDE DEF old, new
  <2>7. EvenOut(t)'
    <3> SUFFICES ASSUME op[t].kind = "transfer", NEW lot \in Lots PROVE LotSum(new, lot) = 0
      BY <1>0, <2>2 DEF EvenOut, Outbound, new, LotSum, OfLot
    <3>1. op[t].to \in Shelves /\ a # op[t].to
      BY <2>3 DEF Op
    <3>2. LotSum(new, lot) = LotSum(old, lot)
      <4> DEFINE b == op[t].to
                 x == taken[lot]
      <4>1. \A s \in Shelves : <<s, lot>> \in Keys
        BY DEF Keys
      <4>2. /\ new[<<a, lot>>] = old[<<a, lot>>] - x
            /\ new[<<b, lot>>] = old[<<b, lot>>] + x
            /\ \A s \in Shelves \ {a, b} : new[<<s, lot>>] = old[<<s, lot>>]
        BY <2>3, <2>6, <3>1, <4>1
      <4>3. a \in Shelves /\ b \in Shelves /\ a # b /\ x \in Int
        BY <2>3, <2>4, <3>1
      <4>4. \A k \in Keys : old[k] \in Int /\ new[k] \in Int
        BY <2>6
      <4> HIDE DEF a, b, x
      <4>5. QED
        BY ONLY <4>2, <4>3, <4>4, LotStays, lot \in Lots
    <3>3. LotSum(old, lot) = 0
      BY <1>0 DEF EInv, EvenOut, old
    <3>4. QED
      BY <3>2, <3>3
  <2>8. TakesAsked(t)'
    <3> SUFFICES ASSUME op[t].kind = "sale" PROVE TakesAsked(t)'
      BY <2>2 DEF TakesAsked
    <3>1. \A k \in Keys : new[k] = IF k[1] = a THEN old[k] - taken[k[2]] ELSE old[k]
      <4>1. op[t].to = None
        BY <2>3
      <4>2. \A k \in Keys : k[1] # None
        BY DEF Keys
      <4>3. QED
        BY <2>6, <4>1, <4>2
    <3>2. \A k \in Keys : old[k] \in Int /\ new[k] \in Int
      BY <2>6
    <3>3. /\ NetOfAll(t) \in Int /\ NetOfAll(t)' \in Int /\ SumFunctionOnSet(taken, Lots) \in Int
          /\ NetOfAll(t) = NetOfAll(t)' + SumFunctionOnSet(taken, Lots)
      <4>1. a \in Shelves /\ \A lot \in Lots : taken[lot] \in Int
        BY <2>3, <2>4
      <4> HIDE DEF a
      <4>a. TakenOff(old, new, a, taken)
        BY <3>1, <3>2, <4>1 DEF TakenOff
      <4>2. /\ SumFunctionOnSet(LotSums(old), Lots) \in Int /\ SumFunctionOnSet(LotSums(new), Lots) \in Int
            /\ SumFunctionOnSet(taken, Lots) \in Int
            /\ SumFunctionOnSet(LotSums(old), Lots) =
                 SumFunctionOnSet(LotSums(new), Lots) + SumFunctionOnSet(taken, Lots)
        BY ONLY <4>a, LotsTaken
      <4>3. /\ SumFunctionOnSet(LotSums(old), Lots) = NetOfAll(t)
            /\ SumFunctionOnSet(LotSums(new), Lots) = NetOfAll(t)'
        BY DEF NetOfAll, old, new, LotSums, LotSum, OfLot
      <4>4. QED
        BY <4>2, <4>3
    <3> DEFINE asked == Asked(t)
    <3>5. SumFunctionOnSet(asked, 1..line[t]) = SumFunctionOnSet(asked, 1..(line[t] - 1)) + n
      <4>1. 1..line[t] = (1..(line[t] - 1)) \cup {line[t]} /\ line[t] \notin 1..(line[t] - 1)
        BY <2>3
      <4>2. \A i \in (1..(line[t] - 1)) \cup {line[t]} : asked[i] \in Int
        BY <2>3, <4>1, AskedType
      <4>3. IsFiniteSet(1..(line[t] - 1))
        <5>1. 1 \in Int /\ line[t] - 1 \in Int
          BY <2>3
        <5>2. QED
          BY ONLY <5>1, FS_Interval
      <4>4. asked[line[t]] = n
        BY <2>3 DEF Asked
      <4> DEFINE S == 1..(line[t] - 1)
                 i == line[t]
      <4>5. IsFiniteSet(S) /\ i \notin S /\ \A j \in S \cup {i} : asked[j] \in Int
        BY <4>1, <4>2, <4>3
      <4> HIDE DEF asked, n, S, i
      <4>6. SumFunctionOnSet(asked, S \cup {i}) = SumFunctionOnSet(asked, S) + asked[i]
        BY ONLY <4>5, SumWith
      <4>7. QED
        BY <4>1, <4>4, <4>6 DEF S, i
    <3>6. Asked(t)' = asked /\ Reached(t)' = 1..line[t] /\ Reached(t) = 1..(line[t] - 1)
      BY <1>0, <2>2 DEF Asked, Reached
    <3>7. NetOfAll(t) + SumFunctionOnSet(asked, Reached(t)) = 0
      BY <1>0 DEF EInv, TakesAsked
    <3>9. SumFunctionOnSet(asked, 1..(line[t] - 1)) \in Int
      <4>1. \A i \in 1..(line[t] - 1) : asked[i] \in Int
        BY <2>3, AskedType
      <4>2. IsFiniteSet(1..(line[t] - 1))
        <5>1. 1 \in Int /\ line[t] - 1 \in Int
          BY <2>3
        <5>2. QED
          BY ONLY <5>1, FS_Interval
      <4> HIDE DEF asked
      <4>3. QED
        BY <4>1, <4>2, SumType
    <3> HIDE DEF asked, n
    <3>10. NetOfAll(t)' + SumFunctionOnSet(asked, 1..line[t]) = shortfall
      <4>1. NetOfAll(t) + SumFunctionOnSet(asked, 1..(line[t] - 1)) = 0
        BY ONLY <3>6, <3>7
      <4>2. n \in Int /\ shortfall \in Int /\ SumFunctionOnSet(taken, Lots) + shortfall = n
        BY <2>3, <2>4
      <4> DEFINE before == SumFunctionOnSet(asked, 1..(line[t] - 1))
                 after == SumFunctionOnSet(asked, 1..line[t])
                 whole == SumFunctionOnSet(taken, Lots)
                 was == NetOfAll(t)
                 is == NetOfAll(t)'
      <4>3. /\ was \in Int /\ is \in Int /\ whole \in Int /\ was = is + whole
            /\ after = before + n /\ before \in Int /\ was + before = 0
            /\ n \in Int /\ shortfall \in Int /\ whole + shortfall = n
        BY ONLY <3>3, <3>5, <3>9, <4>1, <4>2
      <4> HIDE DEF before, after, whole, was, is
      <4>4. is + after = shortfall
        BY ONLY <4>3
      <4>5. QED
        BY ONLY <4>4 DEF is, after
    <3>11. shortfall > 0 <=> pc'[t] = "bear"
      BY <2>2
    <3>12. pc'[t] \notin {"number", "commit"} /\ (shortfall > 0 \/ shortfall = 0)
      BY <2>2, <2>4
    <3>13. QED
      BY <2>2, <3>6, <3>10, <3>11, <3>12 DEF TakesAsked
  <2>9. QED
    BY <2>2, <2>7, <2>8, OwnEInv
<1>3. QED
  BY <1>1, <1>2

\* What is borne beyond the stock comes off the shelf like the rest.
LEMMA BearEInv ==
  ASSUME IInv, BInv, EInv, NEW t \in Txn, NEW lot \in Lots, Bear(t, lot)
  PROVE  EInv'
<1> DEFINE a == Current(t).shelf
           b == op[t].to
           x == lack[t]
<1>0. pc[t] = "bear" /\ Open(t)
  BY DEF Bear, Open
<1>1. op[t].kind \in Outbound /\ x \in Nat /\ x > 0
  BY <1>0 DEF BInv, LinesAt, LineIsAt, IInv, TypeOK
<1>2. a \in Shelves /\ op[t] \in Ops /\ op[t] \in Op
  BY <1>0, <1>1, CurrentLine DEF IInv, Line, Outbound, LineOpen
<1>3. /\ \A k \in Keys : todo'[t][k] = IF k = <<a, lot>> THEN todo[t][k] - x
                                       ELSE IF k = <<b, lot>> THEN todo[t][k] + x ELSE todo[t][k]
      /\ pc'[t] = "move" /\ UNCHANGED <<op, line, moved>>
  BY DEF Bear, IInv, TypeOK
<1>4. Only(t)
  BY DEF Bear, Only, IInv, TypeOK
<1> DEFINE old == Net(t)
           new == Net(t)'
<1>5. \A k \in Keys : /\ old[k] \in Int /\ new[k] \in Int
                      /\ new[k] = IF k = <<a, lot>> THEN old[k] - x
                                  ELSE IF k = <<b, lot>> THEN old[k] + x ELSE old[k]
  <2>1. \A k \in Keys : /\ old[k] = moved[t][k] + todo[t][k] /\ new[k] = moved[t][k] + todo'[t][k]
                        /\ moved[t][k] \in Int /\ todo[t][k] \in Int
    BY <1>3 DEF Net, IInv, TypeOK
  <2> HIDE DEF old, new, a, b, x
  <2>2. QED
    BY ONLY <1>1, <1>3, <2>1
<1> HIDE DEF old, new
<1>6. EvenOut(t)'
  <2> SUFFICES ASSUME op[t].kind = "transfer", NEW l \in Lots PROVE LotSum(new, l) = 0
    BY <1>1, <1>3 DEF EvenOut, Outbound, new, LotSum, OfLot
  <2>1. b \in Shelves /\ a # b
    <3>1. line[t] \in DOMAIN op[t].lines
      BY <1>0, AskedType DEF IInv, LineOpen
    <3>2. QED
      BY <1>2, <3>1 DEF Op, Current
  <2>2. LotSum(old, l) = 0
    BY <1>0 DEF EInv, EvenOut, old
  <2>3. CASE l = lot
    <3>1. \A s \in Shelves : <<s, l>> \in Keys
      BY DEF Keys
    <3>2. /\ new[<<a, l>>] = old[<<a, l>>] - x
          /\ new[<<b, l>>] = old[<<b, l>>] + x
          /\ \A s \in Shelves \ {a, b} : new[<<s, l>>] = old[<<s, l>>]
      BY <1>2, <1>5, <2>1, <2>3, <3>1
    <3>3. x \in Int /\ \A k \in Keys : old[k] \in Int /\ new[k] \in Int
      BY <1>1, <1>5
    <3> HIDE DEF a, b, x
    <3>4. LotSum(new, l) = LotSum(old, l)
      BY ONLY <1>2, <2>1, <3>2, <3>3, LotStays, l \in Lots
    <3>5. QED
      BY <2>2, <3>4
  <2>4. CASE l # lot
    <3>1. \A s \in Shelves : new[<<s, l>>] = old[<<s, l>>]
      BY <1>5, <2>4 DEF Keys
    <3>2. QED
      BY <2>2, <3>1 DEF LotSum, OfLot
  <2>5. QED
    BY <2>3, <2>4
<1>7. TakesAsked(t)'
  <2> SUFFICES ASSUME op[t].kind = "sale" PROVE TakesAsked(t)'
    BY <1>3 DEF TakesAsked
  <2> DEFINE taken == [l \in Lots |-> IF l = lot THEN x ELSE 0]
  <2>1. TakenOff(old, new, a, taken)
    <3>1. b = None
      BY <1>2
    <3>2. \A k \in Keys : k[1] # None /\ k[2] \in Lots /\ (k = <<a, lot>> <=> k[1] = a /\ k[2] = lot)
                          /\ k # <<b, lot>>
      BY <3>1 DEF Keys
    <3>3. \A k \in Keys : new[k] = IF k[1] = a THEN old[k] - taken[k[2]] ELSE old[k]
      <4> SUFFICES ASSUME NEW k \in Keys PROVE new[k] = IF k[1] = a THEN old[k] - taken[k[2]] ELSE old[k]
        OBVIOUS
      <4>1. k # <<b, lot>> /\ k[2] \in Lots /\ (k = <<a, lot>> <=> k[1] = a /\ k[2] = lot)
        BY <3>2
      <4>2. new[k] = IF k = <<a, lot>> THEN old[k] - x ELSE old[k]
        BY <1>5, <4>1
      <4>3. old[k] \in Int /\ x \in Int
        BY <1>1, <1>5
      <4>4. taken[k[2]] = IF k[2] = lot THEN x ELSE 0
        BY <4>1
      <4> HIDE DEF taken, a, b, x
      <4>5. QED
        BY ONLY <4>1, <4>2, <4>3, <4>4
    <3>4. \A l \in Lots : taken[l] \in Int
      BY <1>1
    <3> HIDE DEF taken, a
    <3>5. QED
      BY <1>2, <1>5, <3>3, <3>4 DEF TakenOff
  <2>2. SumFunctionOnSet(taken, Lots) = x
    <3> DEFINE lacks == [l \in Lots |-> x]
               own == {lot}
    <3>1. /\ \A l \in own : lacks[l] \in Int
          /\ \A l \in Lots : taken[l] = IF l \in own THEN lacks[l] ELSE 0
          /\ own \subseteq Lots /\ IsFiniteSet(Lots) /\ lacks[lot] = x /\ lacks[lot] \in Int
      BY <1>1
    <3> HIDE DEF taken, lacks, own
    <3>2. SumFunctionOnSet(lacks, own) = SumFunctionOnSet(taken, Lots)
      BY ONLY <3>1, SumOfSome
    <3>3. SumFunctionOnSet(lacks, {lot}) = lacks[lot]
      BY ONLY <3>1, SumOfOne
    <3>4. QED
      BY <3>1, <3>2, <3>3 DEF own
  <2> HIDE DEF taken, a, b, x
  <2>3. /\ SumFunctionOnSet(LotSums(old), Lots) \in Int /\ SumFunctionOnSet(LotSums(new), Lots) \in Int
        /\ SumFunctionOnSet(LotSums(old), Lots) =
             SumFunctionOnSet(LotSums(new), Lots) + SumFunctionOnSet(taken, Lots)
    BY ONLY <2>1, LotsTaken
  <2>4. /\ SumFunctionOnSet(LotSums(old), Lots) = NetOfAll(t)
        /\ SumFunctionOnSet(LotSums(new), Lots) = NetOfAll(t)'
    BY DEF NetOfAll, old, new, LotSums, LotSum, OfLot
  <2>5. NetOfAll(t) + SumFunctionOnSet(Asked(t), Reached(t)) = x
    BY <1>0 DEF EInv, TakesAsked, x
  <2>6. Asked(t)' = Asked(t) /\ Reached(t)' = Reached(t)
    BY <1>0, <1>3 DEF Asked, Reached
  <2>7. SumFunctionOnSet(Asked(t), Reached(t)) \in Int
    BY <1>0, <1>2, AskedSumType DEF IInv, LineOpen
  <2>8. NetOfAll(t)' + SumFunctionOnSet(Asked(t), Reached(t)) = 0
    BY ONLY <1>1, <2>2, <2>3, <2>4, <2>5, <2>7
  <2>9. QED
    BY <1>3, <2>6, <2>8 DEF TakesAsked
<1>8. QED
  BY <1>4, <1>6, <1>7, OwnEInv

\* What comes in is no sale's, and no transfer's.
LEMMA ReadInEInv ==
  ASSUME IInv, EInv, NEW t \in Txn, NEW lot \in Lots, ReadIn(t, lot)
  PROVE  EInv'
<1>1. op[t].kind \in {"receive", "into"} /\ op'[t] = op[t]
  BY DEF ReadIn, RollBack
<1>2. Only(t)
  <2>1. CASE RollBack(t, "refused")
    BY <2>1 DEF RollBack, Release, Only, IInv, TypeOK
  <2>2. CASE ~RollBack(t, "refused")
    <3>1. /\ todo' = [todo EXCEPT ![t][<<Current(t).shelf, lot>>] = Current(t).quantity]
          /\ pc' = [pc EXCEPT ![t] = "move"]
          /\ UNCHANGED <<op, line, lack, moved, forcedBy>>
      BY <2>2 DEF ReadIn
    <3>2. \A u \in Txn \ {t} : pc'[u] = pc[u] /\ todo'[u] = todo[u]
      BY <3>1 DEF IInv, TypeOK
    <3>3. QED
      BY <3>1, <3>2 DEF Only
  <2>3. QED
    BY <2>1, <2>2
<1>3. EvenOut(t)' /\ TakesAsked(t)'
  BY <1>1 DEF EvenOut, TakesAsked
<1>4. QED
  BY <1>2, <1>3, OwnEInv

\* The first options get, lot by lot, what the shelves without one give up.
LEMMA ReadOptionsEInv ==
  ASSUME IInv, BInv, EInv, NEW t \in Txn, ReadOptions(t)
  PROVE  EInv'
<1>0. /\ pc[t] = "read" /\ Open(t) /\ op[t].kind = "options" /\ op[t] \in Ops
      /\ pc'[t] = "move" /\ UNCHANGED <<op, line, moved, lack, forcedBy>>
  BY DEF ReadOptions, Open, IInv, LineOpen, TypeOK
<1>1. Only(t)
  BY DEF ReadOptions, Only, IInv, TypeOK
<1>2. TakesAsked(t)'
  BY <1>0 DEF TakesAsked
<1>3. CASE hasOptions
  <2>1. Net(t)' = Net(t)
    BY <1>0, <1>3 DEF Net, ReadOptions
  <2>2. EvenOut(t)'
    BY <1>0, <2>1 DEF EInv, EvenOut, LotSum, OfLot
  <2>3. QED
    BY <1>1, <1>2, <2>2, OwnEInv
<1>4. CASE ~hasOptions
  <2> DEFINE new == Net(t)'
  <2>1. \A k \in Keys : new[k] = IF k[1] \in PlainShelves THEN -bal[k]
                                 ELSE IF TakesOver(k[1]) THEN bal[<<PlainOf(k[1]), k[2]>>] ELSE 0
    <3>1. \A k \in Keys : todo'[t][k] = IF k[1] \in PlainShelves THEN -bal[k]
                                        ELSE IF TakesOver(k[1]) THEN bal[<<PlainOf(k[1]), k[2]>>] ELSE 0
      BY <1>4 DEF ReadOptions, IInv, TypeOK
    <3>2. \A k \in Keys : moved[t][k] = 0
      BY <1>0 DEF BInv, LinesAt, LineIsAt
    <3>3. \A k \in Keys : new[k] = 0 + todo'[t][k] /\ k[2] \in Lots
      BY <1>0, <3>2 DEF Net, Keys
    <3>4. \A k \in Keys : bal[k] \in Int
      BY DEF IInv, TypeOK
    <3>5. \A s \in Shelves : TakesOver(s) => PlainOf(s) \in Shelves
      BY DEF TakesOver, PlainOf
    <3>6. \A k \in Keys : k[1] \in Shelves /\ (TakesOver(k[1]) => <<PlainOf(k[1]), k[2]>> \in Keys)
      BY <3>3, <3>5 DEF Keys
    <3> HIDE DEF new
    <3>7. QED
      BY ONLY <3>1, <3>3, <3>4, <3>6
  <2> HIDE DEF new
  <2>2. ASSUME NEW lot \in Lots PROVE LotSum(new, lot) = 0
    <3> DEFINE all == OfLot(new, lot)
               given == [s \in PlainShelves |-> bal[<<s, lot>>]]
               optionOf == [s \in PlainShelves |-> OptionOf[s]]
    <3>1. /\ \A s \in PlainShelves : all[s] = -given[s] /\ given[s] \in Int
          /\ PlainShelves \subseteq Shelves /\ IsFiniteSet(PlainShelves) /\ IsFiniteSet(OptionShelves)
          /\ PlainShelves \cup OptionShelves = Shelves /\ PlainShelves \cap OptionShelves = {}
      <4>1. \A s \in PlainShelves : <<s, lot>> \in Keys /\ bal[<<s, lot>>] \in Int
        BY DEF Keys, IInv, TypeOK
      <4>2. \A s \in PlainShelves : all[s] = -given[s] /\ given[s] \in Int
        BY <2>1, <4>1 DEF OfLot
      <4>3. IsFiniteSet(PlainShelves) /\ IsFiniteSet(OptionShelves)
        BY FS_Subset DEF OptionShelves
      <4>4. QED
        BY <4>2, <4>3 DEF OptionShelves
    <3>2. \A s \in PlainShelves : optionOf[s] \in OptionShelves
      BY <1>0
    <3>3. ASSUME NEW s \in OptionShelves
          PROVE  all[s] = SumFunctionOnSet(given, Keyed(PlainShelves, optionOf, s)) /\ all[s] \in Int
      <4>1. <<s, lot>> \in Keys /\ s \in Shelves /\ s \notin PlainShelves
        BY DEF Keys, OptionShelves
      <4>2. CASE TakesOver(s)
        <5>1. PICK r \in PlainShelves : OptionOf[r] = s /\ PlainOf(s) = r
          BY <4>2 DEF TakesOver, PlainOf
        <5>2. Keyed(PlainShelves, optionOf, s) = {r}
          BY <1>0, <5>1 DEF Keyed
        <5>3. all[s] = given[r] /\ given[r] \in Int
          BY <2>1, <3>1, <4>1, <4>2, <5>1, ZenonT(60) DEF OfLot
        <5> HIDE DEF all, given
        <5>4. SumFunctionOnSet(given, {r}) = given[r]
          BY ONLY <5>3, SumOfOne
        <5>5. QED
          BY <5>2, <5>3, <5>4
      <4>3. CASE ~TakesOver(s)
        <5>1. Keyed(PlainShelves, optionOf, s) = {}
          BY <4>3 DEF Keyed, TakesOver
        <5>2. \A k \in Keys : k = <<s, lot>> => ~TakesOver(k[1]) /\ k[1] \notin PlainShelves
          BY <4>1, <4>3
        <5>3. all[s] = 0
          <6>1. new[<<s, lot>>] = 0
            BY <2>1, <4>1, <5>2
          <6>2. all[s] = new[<<s, lot>>]
            BY <4>1 DEF OfLot
          <6>3. QED
            BY <6>1, <6>2
        <5> HIDE DEF all, given
        <5>4. SumFunctionOnSet(given, {}) = 0
          BY ONLY SumEmpty
        <5>5. QED
          BY ONLY <5>1, <5>3, <5>4
      <4>4. QED
        BY <4>2, <4>3
    <3>4. \A s \in OptionShelves :
            all[s] = SumFunctionOnSet(given, Keyed(PlainShelves, optionOf, s)) /\ all[s] \in Int
      BY <3>3
    <3> HIDE DEF all, given, optionOf
    <3>5. SumFunctionOnSet(given, PlainShelves) = SumFunctionOnSet(all, OptionShelves)
      BY ONLY <3>1, <3>2, <3>4, SumByParts
    <3>6. /\ \A s \in PlainShelves : given[s] \in Int /\ all[s] = (-1) * given[s]
          /\ -1 \in Int /\ IsFiniteSet(PlainShelves)
      BY ONLY <3>1
    <3>7. SumFunctionOnSet(all, PlainShelves) = (-1) * SumFunctionOnSet(given, PlainShelves)
      BY ONLY <3>6, SumScaled
    <3>8. SumFunctionOnSet(given, PlainShelves) \in Int
      BY ONLY <3>6, SumType
    <3>9. \A s \in PlainShelves \cup OptionShelves : all[s] \in Int
      BY ONLY <3>1, <3>4
    <3>10. SumFunctionOnSet(all, PlainShelves \cup OptionShelves) =
             SumFunctionOnSet(all, PlainShelves) + SumFunctionOnSet(all, OptionShelves)
      BY ONLY <3>1, <3>9, SumOfBoth
    <3>11. SumFunctionOnSet(all, Shelves) = 0
      <4>1. SumFunctionOnSet(all, Shelves) =
              SumFunctionOnSet(all, PlainShelves) + SumFunctionOnSet(all, OptionShelves)
        BY ONLY <3>1, <3>10
      <4>2. QED
        BY ONLY <3>5, <3>7, <3>8, <4>1
    <3>12. QED
      BY <3>11 DEF LotSum, all
  <2>3. EvenOut(t)'
    BY <2>2 DEF EvenOut, new, LotSum, OfLot
  <2>4. QED
    BY <1>1, <1>2, <2>3, OwnEInv
<1>5. QED
  BY <1>3, <1>4

\* Writing, the end of a line, and the number of a sale move nothing further.
LEMMA MoveEInv ==
  ASSUME IInv, EInv, NEW t \in Txn, NEW k \in Keys, Move(t, k) \/ InsertResolves(t, k)
  PROVE  EInv'
<1>0. pc[t] \in {"move", "insert"} /\ Open(t)
  BY DEF Move, InsertResolves, Open
<1>1. CASE RollBack(t, "refused") \/ RollBack(t, "failed")
  <2>1. Only(t) /\ ~Open(t)'
    BY <1>1, SMTT(60) DEF RollBack, Release, Only, Open, IInv, TypeOK
  <2>2. QED
    BY <2>1, EndsEInv
<1>2. CASE WriteBalance(t, k)
  BY <1>0, <1>2, WriteEInv
<1>3. CASE /\ pc[t] = "move" /\ pc' = [pc EXCEPT ![t] = "insert"]
           /\ UNCHANGED <<committed, born, lock, orgLock, op, line, todo, lack, moved, forcedBy, written, number>>
  <2>1. Only(t) /\ pc'[t] = "insert" /\ UNCHANGED <<op, line, todo, moved>>
    BY <1>3 DEF Only, IInv, TypeOK
  <2>2. Reached(t)' = Reached(t)
    BY <1>0, <2>1 DEF Reached
  <2>3. QED
    BY <1>0, <2>1, <2>2, GetsOnEInv DEF IInv
<1>4. QED
  BY <1>1, <1>2, <1>3 DEF Move, InsertResolves

LEMMA EndLineEInv ==
  ASSUME IInv, EInv, NEW t \in Txn, EndLine(t)
  PROVE  EInv'
<1>0. pc[t] = "move" /\ Open(t) /\ op[t] \in Ops
  BY DEF EndLine, Open, IInv, LineOpen
<1>1. CASE Commit(t)
  <2>1. Only(t) /\ ~Open(t)'
    BY <1>1 DEF Commit, Release, Only, Open, IInv, TypeOK
  <2>2. QED
    BY <2>1, EndsEInv
<1>2. CASE ~Commit(t)
  <2>1. /\ UNCHANGED <<op, todo, moved>>
        /\ \/ line[t] < Len(op[t].lines) /\ pc'[t] = "read" /\ line'[t] = line[t] + 1
           \/ ~(line[t] < Len(op[t].lines)) /\ op[t].kind = "sale" /\ pc'[t] = "number" /\ line'[t] = line[t]
    BY <1>2 DEF EndLine, IInv, TypeOK
  <2>2. Only(t)
    BY <1>2 DEF EndLine, Only, IInv, TypeOK
  <2>3. line[t] \in Nat \ {0} /\ Len(op[t].lines) \in Nat
    BY <1>0 DEF IInv, TypeOK, Op
  <2>4. Reached(t)' = Reached(t)
    <3>1. pc'[t] = "read" => line'[t] - 1 = line[t]
      BY <1>0, <2>1, <2>3
    <3>2. pc'[t] # "read" => line'[t] = line[t]
      BY <2>1
    <3>3. QED
      BY <1>0, <3>1, <3>2 DEF Reached
  <2>5. pc'[t] = "number" => line'[t] = Len(op[t].lines)
    BY <1>0, <2>1, <2>3 DEF IInv, LineOpen
  <2>6. pc'[t] \in {"read", "number"}
    BY <2>1
  <2>7. QED
    BY <1>0, <2>1, <2>2, <2>4, <2>5, <2>6, GetsOnEInv DEF IInv
<1>3. QED
  BY <1>1, <1>2

LEMMA SaleEndsEInv ==
  ASSUME IInv, BInv, EInv, NEW t \in Txn, TakeNumber(t) \/ EndSale(t)
  PROVE  EInv'
<1>1. CASE EndSale(t)
  <2>1. Only(t) /\ ~Open(t)'
    BY <1>1 DEF EndSale, Commit, RollBack, Release, Only, Open, IInv, TypeOK
  <2>2. QED
    BY <2>1, EndsEInv
<1>2. CASE TakeNumber(t)
  <2>1. /\ pc[t] = "number" /\ Open(t) /\ pc'[t] = "commit" /\ Only(t)
        /\ UNCHANGED <<op, line, todo, moved>>
    BY <1>2 DEF TakeNumber, Open, Only, IInv, TypeOK
  <2>2. Reached(t)' = Reached(t)
    BY <2>1 DEF Reached
  <2>3. line'[t] = Len(op[t].lines)
    BY <2>1 DEF EInv, TakesAsked, BInv, LinesAt, LineIsAt
  <2>4. QED
    BY <2>1, <2>2, <2>3, GetsOnEInv DEF IInv
<1>3. QED
  BY <1>1, <1>2

LEMMA RebuildEInv ==
  ASSUME IInv, EInv, NEW t \in Txn, Rebuild(t)
  PROVE  EInv'
<1>1. op[t].kind = "rebuild"
  BY DEF Rebuild, SumLedger, Compare, Replace, IInv, RInv, RebuildOnly
<1>2. Only(t) /\ op'[t] = op[t]
  BY DEF Rebuild, SumLedger, Compare, Replace, RollBack, Release, Only, IInv, TypeOK
<1>3. EvenOut(t)' /\ TakesAsked(t)'
  BY <1>1, <1>2 DEF EvenOut, TakesAsked
<1>4. QED
  BY <1>2, <1>3, OwnEInv

LEMMA StepEInv == IInv /\ BInv /\ EInv /\ [Next]_vars => EInv'
<1> SUFFICES ASSUME IInv, BInv, EInv, [Next]_vars PROVE EInv'
  OBVIOUS
<1>1. CASE UNCHANGED vars
  <2> SUFFICES ASSUME NEW t \in Txn PROVE EvenOut(t)' /\ TakesAsked(t)'
    BY DEF EInv
  <2>1. EvenOut(t) /\ TakesAsked(t)
    BY DEF EInv
  <2>2. UNCHANGED <<pc, op, line, todo, lack, moved>>
    BY <1>1 DEF vars, local
  <2>3. Net(t)' = Net(t) /\ Asked(t)' = Asked(t) /\ Reached(t)' = Reached(t)
    BY <2>2 DEF Net, Asked, Reached
  <2>4. NetOfAll(t)' = NetOfAll(t) /\ \A lot \in Lots : LotSum(Net(t), lot)' = LotSum(Net(t), lot)
    BY <2>3 DEF NetOfAll, LotSums, LotSum, OfLot
  <2>5. QED
    BY <2>1, <2>2, <2>3, <2>4 DEF EvenOut, TakesAsked, Open
<1>2. ASSUME NEW t \in Txn, Begin(t) PROVE EInv'
  BY <1>2, BeginEInv
<1>3. ASSUME NEW t \in Txn, Rebuild(t) PROVE EInv'
  BY <1>3, RebuildEInv
<1>4. ASSUME NEW t \in Txn, Statement(t) PROVE EInv'
  <2>1. CASE DeadlockAbort(t)
    <3>1. Only(t) /\ ~Open(t)'
      BY <2>1 DEF DeadlockAbort, RollBack, Release, Only, Open, IInv, TypeOK
    <3>2. QED
      BY <3>1, EndsEInv
  <2>2. QED
    BY <1>4, <2>1, ReadOutEInv, ReadOptionsEInv, EndLineEInv, SaleEndsEInv, BearEInv, ReadInEInv, MoveEInv
       DEF Statement
<1>5. QED
  BY <1>1, <1>2, <1>3, <1>4 DEF Next, Step

LEMMA InitEInv == Init => EInv
  BY DEF Init, EInv, EvenOut, TakesAsked, Open

\* A step moves one request on, and only a commit is the end of one that wrote.
LEMMA StepsOneRequest ==
  ASSUME TypeOK, NEW t \in Txn, Begin(t) \/ Rebuild(t) \/ Statement(t), NEW u \in Txn \ {t}
  PROVE  pc'[u] = pc[u]
<1>1. CASE Begin(t)
  BY <1>1 DEF Begin, TypeOK
<1>2. CASE Rebuild(t)
  BY <1>2 DEF Rebuild, SumLedger, Compare, Replace, RollBack, TypeOK
<1>3. CASE ReadOut(t) \/ ReadOptions(t)
  BY <1>3 DEF ReadOut, ReadOptions, RollBack, TypeOK
<1>4. CASE EndLine(t) \/ TakeNumber(t) \/ EndSale(t) \/ DeadlockAbort(t)
  BY <1>4 DEF EndLine, TakeNumber, EndSale, DeadlockAbort, Commit, RollBack, TypeOK
<1>5. ASSUME NEW lot \in Lots, Bear(t, lot) \/ ReadIn(t, lot) PROVE pc'[u] = pc[u]
  <2>1. \E outcome : pc' = [pc EXCEPT ![t] = outcome]
    BY <1>5 DEF Bear, ReadIn, RollBack
  <2>2. QED
    BY <2>1 DEF TypeOK
<1>6. ASSUME NEW k \in Keys, Move(t, k) \/ InsertResolves(t, k) PROVE pc'[u] = pc[u]
  <2>1. \E outcome : pc' = [pc EXCEPT ![t] = outcome]
    BY <1>6 DEF Move, InsertResolves, RollBack, WriteBalance
  <2>2. QED
    BY <2>1 DEF TypeOK
<1>7. QED
  BY <1>1, <1>2, <1>3, <1>4, <1>5, <1>6 DEF Statement

LEMMA OnlyCommitsEnd ==
  ASSUME TypeOK, NEW t \in Txn, Statement(t), pc'[t] = "done"
  PROVE  Commit(t) /\ (EndLine(t) \/ EndSale(t))
<1>1. ~ReadOut(t) /\ ~ReadOptions(t)
  <2>1. ~RollBack(t, "refused")
    BY DEF RollBack, TypeOK
  <2>2. QED
    BY <2>1 DEF ReadOut, ReadOptions, TypeOK
<1>2. ~TakeNumber(t) /\ ~DeadlockAbort(t)
  BY DEF TakeNumber, DeadlockAbort, RollBack, TypeOK
<1>3. ASSUME NEW lot \in Lots PROVE ~Bear(t, lot) /\ ~ReadIn(t, lot)
  <2>1. Bear(t, lot) \/ ReadIn(t, lot) =>
          pc' = [pc EXCEPT ![t] = "move"] \/ pc' = [pc EXCEPT ![t] = "refused"]
    BY DEF Bear, ReadIn, RollBack
  <2>2. QED
    BY <2>1 DEF TypeOK
<1>4. ASSUME NEW k \in Keys PROVE ~Move(t, k) /\ ~InsertResolves(t, k)
  <2>1. Move(t, k) \/ InsertResolves(t, k) =>
          \E there \in {"move", "insert", "refused", "failed"} : pc' = [pc EXCEPT ![t] = there]
    BY DEF Move, InsertResolves, RollBack, WriteBalance
  <2>2. QED
    BY <2>1 DEF TypeOK
<1>5. EndLine(t) => Commit(t)
  BY DEF EndLine, TypeOK
<1>6. EndSale(t) => Commit(t)
  BY DEF EndSale, RollBack, TypeOK
<1>7. QED
  BY <1>1, <1>2, <1>3, <1>4, <1>5, <1>6 DEF Statement

\* What a commit adds to the ledger is what the request moved: of a transfer and of
\* the move into a first option nothing on the whole, of a sale what its lines say.
THEOREM MovementsComeOutEven == Spec => MovesComeOutEven
<1>1. ASSUME IInv, BInv, EInv, [Next]_vars PROVE [TransfersConserve /\ SalesTakeTheirLines]_vars
  <2> SUFFICES ASSUME Next PROVE TransfersConserve /\ SalesTakeTheirLines
    BY <1>1
  <2>1. ASSUME NEW t \in Txn, Ends(t), op[t].kind # "rebuild"
        PROVE  /\ Open(t) /\ op[t] \in Ops /\ op'[t] = op[t]
               /\ ledger' = [k \in Keys |-> ledger[k] + moved[t][k]]
               /\ \A k \in Keys : todo[t][k] = 0
               /\ op[t].kind = "sale" => pc[t] = "commit"
    <3>1. pc[t] # "done" /\ pc'[t] = "done"
      BY <2>1 DEF Ends
    <3>2. PICK u \in Txn : Begin(u) \/ Rebuild(u) \/ Statement(u)
      BY DEF Next, Step
    <3>3. \A v \in Txn \ {u} : pc'[v] = pc[v]
      BY <1>1, <3>2, StepsOneRequest DEF IInv
    <3>4. u = t
      BY <3>1, <3>3
    <3>5. ~Begin(t) /\ ~Rebuild(t)
      BY <1>1, <2>1, <3>1 DEF Begin, Rebuild, SumLedger, Compare, Replace, IInv, TypeOK, RInv, RebuildOnly
    <3>6. Commit(t) /\ (EndLine(t) \/ EndSale(t))
      BY <1>1, <3>1, <3>2, <3>4, <3>5, OnlyCommitsEnd DEF IInv
    <3>7. Open(t) /\ op[t] \in Ops /\ (op[t].kind = "sale" => pc[t] = "commit")
      <4>1. Open(t)
        BY <3>6 DEF EndLine, EndSale, Open
      <4>2. CASE EndSale(t)
        BY <1>1, <4>1, <4>2 DEF EndSale, IInv, LineOpen
      <4>3. CASE EndLine(t)
        <5>1. op[t].kind # "sale"
          BY <1>1, <3>1, <4>3 DEF EndLine, IInv, TypeOK
        <5>2. QED
          BY <1>1, <4>1, <5>1 DEF IInv, LineOpen
      <4>4. QED
        BY <3>6, <4>2, <4>3
    <3>8. \A k \in Keys : todo[t][k] = 0
      BY <1>1, <3>6 DEF EndLine, EndSale, NoMoves, BInv, LinesAt, LineIsAt
    <3>9. QED
      BY <3>6, <3>7, <3>8 DEF Commit
  <2>2. TransfersConserve
    <3> SUFFICES ASSUME NEW t \in Txn, Ends(t), op[t].kind \in {"transfer", "options"}, NEW lot \in Lots
                 PROVE  OnLedger(lot)' = OnLedger(lot)
      BY DEF TransfersConserve
    <3> DEFINE x == OfLot(ledger, lot)
               y == OfLot(ledger', lot)
               z == OfLot(Net(t), lot)
    <3>1. \A s \in Shelves : x[s] \in Int /\ z[s] \in Int /\ y[s] = x[s] + z[s]
      <4>1. \A s \in Shelves : <<s, lot>> \in Keys
        BY DEF Keys
      <4>2. \A k \in Keys : /\ Net(t)[k] \in Int /\ Net(t)[k] = moved[t][k] + todo[t][k]
                            /\ moved[t][k] \in Int /\ todo[t][k] = 0 /\ ledger[k] \in Int
                            /\ ledger'[k] = ledger[k] + moved[t][k]
        <5>1. ledger' = [k \in Keys |-> ledger[k] + moved[t][k]] /\ \A k \in Keys : todo[t][k] = 0
          BY <2>1
        <5>2. \A k \in Keys : /\ Net(t)[k] \in Int /\ Net(t)[k] = moved[t][k] + todo[t][k]
                              /\ moved[t][k] \in Int
          BY <1>1, NetType DEF IInv
        <5>3. \A k \in Keys : ledger[k] \in Int
          BY <1>1 DEF IInv, TypeOK
        <5>4. QED
          BY ONLY <5>1, <5>2, <5>3
      <4>3. \A k \in Keys : ledger'[k] = ledger[k] + Net(t)[k]
        BY ONLY <4>2
      <4>4. QED
        BY <4>1, <4>2, <4>3 DEF OfLot
    <3>2. SumFunctionOnSet(z, Shelves) = 0
      BY <1>1, <2>1 DEF EInv, EvenOut, LotSum
    <3>3. /\ OnLedger(lot) = SumFunctionOnSet(x, Shelves) /\ OnLedger(lot)' = SumFunctionOnSet(y, Shelves)
      BY DEF OnLedger, OfLot, SumFunction
    <3>4. IsFiniteSet(Shelves)
      OBVIOUS
    <3> HIDE DEF x, y, z
    <3>5. SumFunctionOnSet(y, Shelves) = SumFunctionOnSet(x, Shelves) + SumFunctionOnSet(z, Shelves)
      BY ONLY <3>1, <3>4, SumOfSums
    <3>6. SumFunctionOnSet(x, Shelves) \in Int
      BY ONLY <3>1, <3>4, SumType
    <3>7. QED
      BY ONLY <3>2, <3>3, <3>5, <3>6
  <2>3. SalesTakeTheirLines
    <3> SUFFICES ASSUME NEW t \in Txn, Ends(t), op[t].kind = "sale" PROVE Total' = Total - InLines(t)
      BY DEF SalesTakeTheirLines
    <3> DEFINE z == Net(t)
    <3>1. \A k \in Keys : ledger[k] \in Int /\ z[k] \in Int /\ ledger'[k] = ledger[k] + z[k]
      <4>1. \A k \in Keys : /\ z[k] \in Int /\ z[k] = moved[t][k] + todo[t][k]
                            /\ moved[t][k] \in Int /\ todo[t][k] = 0 /\ ledger[k] \in Int
                            /\ ledger'[k] = ledger[k] + moved[t][k]
        <5>1. ledger' = [k \in Keys |-> ledger[k] + moved[t][k]] /\ \A k \in Keys : todo[t][k] = 0
          BY <2>1
        <5>2. \A k \in Keys : /\ Net(t)[k] \in Int /\ Net(t)[k] = moved[t][k] + todo[t][k]
                              /\ moved[t][k] \in Int
          BY <1>1, NetType DEF IInv
        <5>3. \A k \in Keys : ledger[k] \in Int
          BY <1>1 DEF IInv, TypeOK
        <5>4. QED
          BY ONLY <5>1, <5>2, <5>3
      <4> HIDE DEF z
      <4>2. QED
        BY ONLY <4>1
    <3>2. Total = SumFunctionOnSet(ledger, Keys) /\ Total' = SumFunctionOnSet(ledger', Keys)
      <4>1. DOMAIN ledger = Keys
        BY <1>1 DEF IInv, TypeOK
      <4>2. DOMAIN ledger' = Keys
        BY <2>1
      <4>3. QED
        BY <4>1, <4>2 DEF Total, SumFunction
    <3>3. IsFiniteSet(Keys)
      BY FS_Product DEF Keys
    <3>4. NetOfAll(t) = SumFunctionOnSet(z, Keys)
      BY <3>1, SumByLots DEF NetOfAll
    <3>5. InLines(t) = SumFunctionOnSet(Asked(t), Reached(t)) /\ InLines(t) \in Int
      <4>1. op[t] \in Ops /\ pc[t] = "commit" /\ line[t] = Len(op[t].lines)
        BY <1>1, <2>1 DEF EInv, TakesAsked
      <4>2. DOMAIN Asked(t) = Reached(t)
        BY <4>1, AskedType DEF Asked, Reached
      <4>3. InLines(t) = SumFunctionOnSet(Asked(t), Reached(t))
        BY <4>2 DEF InLines, SumFunction, Asked
      <4>4. line[t] \in 1..Len(op[t].lines)
        BY <1>1, <2>1 DEF IInv, LineOpen
      <4>5. QED
        BY <4>1, <4>3, <4>4, AskedSumType
    <3>6. NetOfAll(t) + SumFunctionOnSet(Asked(t), Reached(t)) = 0
      BY <1>1, <2>1 DEF EInv, TakesAsked
    <3> HIDE DEF z
    <3>7. SumFunctionOnSet(ledger', Keys) = SumFunctionOnSet(ledger, Keys) + SumFunctionOnSet(z, Keys)
      BY ONLY <3>1, <3>3, SumOfSums
    <3>8. SumFunctionOnSet(ledger, Keys) \in Int /\ SumFunctionOnSet(z, Keys) \in Int
      BY ONLY <3>1, <3>3, SumType
    <3>9. QED
      BY ONLY <3>2, <3>4, <3>5, <3>6, <3>7, <3>8
  <2>4. QED
    BY <2>2, <2>3
<1>2. QED
  BY SpecIInv, InitBInv, StepBInv, InitEInv, StepEInv, <1>1, PTL DEF Spec, MovesComeOutEven
=============================================================================
