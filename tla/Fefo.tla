-------------------------------- MODULE Fefo --------------------------------
(***************************************************************************)
(* First expired, first out: the order lots leave the shelf in, and how a  *)
(* pick is spread over them.  fefo.ts is a pure function; so is this.      *)
(***************************************************************************)
EXTENDS Integers, FiniteSetsExt, SequencesExt

CONSTANTS Lots,        \* lot ids, naturals: their order is the order of the ids
          Expiry,      \* [Lots -> expiry date, or NoExpiry]
          ReceivedAt,  \* [Lots -> when the lot came in]
          NoExpiry     \* goods that do not perish

ASSUME LotsAssumption ==
  /\ Lots \subseteq Nat /\ IsFiniteSet(Lots)
  /\ ReceivedAt \in [Lots -> Nat]
  /\ Expiry \in [Lots -> Nat \cup {NoExpiry}]
  /\ NoExpiry \notin Nat

\* sortFefo: earliest expiry first, undated last, then oldest receipt, then id.
Earlier(a, b) ==
  \/ Expiry[a] # Expiry[b] /\ Expiry[b] = NoExpiry
  \/ Expiry[a] # Expiry[b] /\ NoExpiry \notin {Expiry[a], Expiry[b]} /\ Expiry[a] < Expiry[b]
  \/ Expiry[a] = Expiry[b] /\ ReceivedAt[a] < ReceivedAt[b]
  \/ Expiry[a] = Expiry[b] /\ ReceivedAt[a] = ReceivedAt[b] /\ a < b

FefoFirst(lots) == CHOOSE a \in lots : \A b \in lots \ {a} : Earlier(a, b)
FefoLast(lots) == CHOOSE a \in lots : \A b \in lots \ {a} : Earlier(b, a)

Least(a, b) == IF a < b THEN a ELSE b
OnHand(n) == IF n > 0 THEN n ELSE 0     \* a lot driven negative holds nothing

\* A plausible bug: a lot below zero is drawn on further.
TakeFromNegative(onHand, pick, lot) ==
  LET take == Least(onHand[lot], pick.remaining)
  IN  [remaining |-> pick.remaining - take,
       taken |-> [pick.taken EXCEPT ![lot] = take]]

\* The loop of allocateFefo: each lot in order, the last one after all others, gives
\* what it holds, or what is still missing.
TakeFrom(onHand, pick, lot) ==
  LET take == Least(OnHand(onHand[lot]), pick.remaining)
  IN  [remaining |-> pick.remaining - take,
       taken |-> [pick.taken EXCEPT ![lot] = take]]

AllocateFefo(onHand, quantity) ==
  MapThenFoldSet(LAMBDA lot, pick : TakeFrom(onHand, pick, lot),
                 [remaining |-> quantity, taken |-> [lot \in Lots |-> 0]],
                 LAMBDA lot : lot, FefoLast, Lots)

\* What that loop returns, said without a loop: no lot gives more than it holds,
\* a lot gives only when every earlier one is exhausted, and what is short is
\* short only when all are.
IsFefoPick(onHand, quantity, taken, shortfall) ==
  /\ \A a \in Lots : taken[a] <= OnHand(onHand[a])
  /\ \A a, b \in Lots : Earlier(a, b) /\ taken[b] > 0 => taken[a] = OnHand(onHand[a])
  /\ shortfall > 0 => \A a \in Lots : taken[a] = OnHand(onHand[a])
  /\ SumFunction(taken) + shortfall = quantity
=============================================================================
