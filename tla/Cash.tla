-------------------------------- MODULE Cash --------------------------------
(***************************************************************************)
(* Whose hands the shop's cash is in (modules/cash): what each person took *)
(* and paid out, the banking that takes cash out of their hands, and who   *)
(* may say that it arrived.  Amounts are small numbers; dates, notes and   *)
(* bank accounts are left out.                                             *)
(***************************************************************************)
EXTENDS Desk, Integers, FiniteSetsExt, SequencesExt

CONSTANTS
  People,
  Role,        \* of each person: "owner", "manager" or "staff"
  Takings,     \* ids of cash payments by customers: numbers, in id order
  Bankings,    \* ids of bankings
  Dates,       \* when a payment is said to have happened
  Amounts,
  MaxPaidOut   \* bound: cash one person pays out

\* A row of the payments, a row of the bankings, and what a handler goes on with.
TakingRows == [by : People, amount : Amounts, at : Dates, voided : BOOLEAN]
BankingRows == [by : People, amount : Amounts, confirmedBy : People \cup {None}, refused : BOOLEAN]
CashAsks == [kind : {"bank"}, me : People, holder : People, amount : Amounts]
              \cup [kind : {"confirm", "void"}, me : People, banking : Bankings]

ASSUME CashAssumption ==
  /\ Role \in [People -> {"owner", "manager", "staff"}]
  /\ Takings \subseteq Nat /\ IsFiniteSet(Takings) /\ IsFiniteSet(Bankings)
  /\ Dates \subseteq Nat /\ Amounts \subseteq Nat \ {0} /\ MaxPaidOut \in Nat
  /\ None \notin People \cup TakingRows \cup BankingRows \cup CashAsks

VARIABLES
  takings,     \* cash payments: who took it, how much, when, and whether voided
  paidOut,     \* refunds, expenses, supplier payments and delivery fees in cash, by person
  banking      \* bankings: whose cash, how much, who confirmed it, and whether it was refused

cashVars == <<takings, paidOut, banking>>

CashTypeOK ==
  /\ takings \in [Takings -> TakingRows \cup {None}]
  /\ paidOut \in [People -> 0..MaxPaidOut]
  /\ banking \in [Bankings -> BankingRows \cup {None}]

CashInit ==
  /\ takings = [i \in Takings |-> None]
  /\ paidOut = [p \in People |-> 0]
  /\ banking = [b \in Bankings |-> None]

-----------------------------------------------------------------------------
(* cash.ts and the figures it is given. *)

Confirmers == {"owner", "manager"}

TakenBy(p) == {i \in Takings : takings[i] # None /\ takings[i].by = p /\ ~takings[i].voided}
BankedOf(p) == {b \in Bankings : banking[b] # None /\ banking[b].by = p /\ ~banking[b].refused}

Received(p) == SumFunction([i \in TakenBy(p) |-> takings[i].amount])

Confirmed(p) == {b \in BankedOf(p) : banking[b].confirmedBy # None}
Banked(p) == SumFunction([b \in Confirmed(p) |-> banking[b].amount])

\* Bug: banking nobody has confirmed yet is taken to be still in hand.
NothingWaits(p) == 0

AwaitingWord(p) == SumFunction([b \in BankedOf(p) \ Confirmed(p) |-> banking[b].amount])

StillHolding(p) == Received(p) - paidOut[p] - Banked(p) - AwaitingWord(p)

NotBanked == MapThenSumSet(LAMBDA p : IF StillHolding(p) > 0 THEN StillHolding(p) ELSE 0, People)

\* The order takings are read in, newest first: the later date, then the larger id.
Newer(i, j) ==
  \/ takings[i].at > takings[j].at
  \/ takings[i].at = takings[j].at /\ i > j

NewestOf(S) == CHOOSE i \in S : \A j \in S \ {i} : Newer(i, j)
OldestOf(S) == CHOOSE i \in S : \A j \in S \ {i} : Newer(j, i)

SumOf(S) == SumFunction([i \in S |-> takings[i].amount])

\* Where a walk back from the newest has come to what is held.
Covering(p, held) ==
  {i \in TakenBy(p) : SumOf({j \in TakenBy(p) : j = i \/ Newer(j, i)}) >= held}

\* Bug: the walk goes on past a receipt that covers what is held exactly.
OldestPastCover(p) ==
  LET enough == Covering(p, StillHolding(p) + 1)
  IN  IF StillHolding(p) <= 0 \/ TakenBy(p) = {} THEN None
      ELSE takings[IF enough = {} THEN OldestOf(TakenBy(p)) ELSE NewestOf(enough)].at

OldestUnbanked(p) ==
  LET enough == Covering(p, StillHolding(p))
  IN  IF StillHolding(p) <= 0 \/ TakenBy(p) = {} THEN None
      ELSE takings[IF enough = {} THEN OldestOf(TakenBy(p)) ELSE NewestOf(enough)].at

\* Bug: a manager's own banking counts as confirmed.
MayConfirmAny(me, holder) == Role[me] \in Confirmers

MayConfirm(me, holder) ==
  Role[me] = "owner" \/ (Role[me] = "manager" /\ holder # me)

-----------------------------------------------------------------------------
(* Money taken and paid out by the rest of the program. *)

TakeCash(i, p, a, d) ==
  /\ takings[i] = None /\ \A j \in Takings : j < i => takings[j] # None
  /\ takings' = [takings EXCEPT ![i] = [by |-> p, amount |-> a, at |-> d, voided |-> FALSE]]
  /\ Aside /\ UNCHANGED <<paidOut, banking>>

VoidTaking(i) ==
  /\ takings[i] # None /\ ~takings[i].voided
  /\ takings' = [takings EXCEPT ![i].voided = TRUE]
  /\ Aside /\ UNCHANGED <<paidOut, banking>>

PayOut(p, a) ==
  /\ paidOut[p] + a <= MaxPaidOut
  /\ paidOut' = [paidOut EXCEPT ![p] = @ + a]
  /\ Aside /\ UNCHANGED <<takings, banking>>

\* An expense or a supplier payment is removed, and its cash is back.
TakeBack(p, a) ==
  /\ paidOut[p] >= a
  /\ paidOut' = [paidOut EXCEPT ![p] = @ - a]
  /\ Aside /\ UNCHANGED <<takings, banking>>

-----------------------------------------------------------------------------
(* CashService. *)

\* create, up to the figures it compares.
ReadHolding(r, me, holder, a) ==
  /\ holder = me \/ Role[me] \in Confirmers
  /\ a <= StillHolding(holder)
  /\ Take(r, [kind |-> "bank", me |-> me, holder |-> holder, amount |-> a])
  /\ UNCHANGED cashVars

\* create: confirmed as it is written when the writer could have confirmed it.
RecordBanking(r, b) ==
  /\ Asked(r, "bank") /\ banking[b] = None
  /\ LET ask == doing[r]
     IN  banking' = [banking EXCEPT ![b] =
           [by |-> ask.holder, amount |-> ask.amount, refused |-> FALSE,
            confirmedBy |-> IF MayConfirm(ask.me, ask.holder) THEN ask.me ELSE None]]
  /\ Finish(r) /\ UNCHANGED <<takings, paidOut>>

\* Bug: only what was confirmed is looked at, not what was refused.
ConfirmableWhenRefused(me, b) ==
  banking[b] # None /\ banking[b].confirmedBy = None /\ MayConfirm(me, banking[b].by)

Confirmable(me, b) ==
  /\ banking[b] # None /\ ~banking[b].refused /\ banking[b].confirmedBy = None
  /\ MayConfirm(me, banking[b].by)

ReadToConfirm(r, me, b) ==
  /\ Confirmable(me, b)
  /\ Take(r, [kind |-> "confirm", me |-> me, banking |-> b])
  /\ UNCHANGED cashVars

ConfirmBanking(r) ==
  /\ Asked(r, "confirm")
  /\ banking' = [banking EXCEPT ![doing[r].banking].confirmedBy = doing[r].me]
  /\ Finish(r) /\ UNCHANGED <<takings, paidOut>>

\* voidBanking: confirmed or not, by anybody who confirms.
ReadToVoid(r, me, b) ==
  /\ banking[b] # None /\ ~banking[b].refused /\ Role[me] \in Confirmers
  /\ Take(r, [kind |-> "void", me |-> me, banking |-> b])
  /\ UNCHANGED cashVars

VoidBanking(r) ==
  /\ Asked(r, "void")
  /\ banking' = [banking EXCEPT ![doing[r].banking].refused = TRUE]
  /\ Finish(r) /\ UNCHANGED <<takings, paidOut>>

CashNext ==
  \/ \E p \in People, a \in Amounts :
       PayOut(p, a) \/ TakeBack(p, a) \/ \E i \in Takings, d \in Dates : TakeCash(i, p, a, d)
  \/ \E i \in Takings : VoidTaking(i)
  \/ \E r \in Requests : \/ \E me, holder \in People, a \in Amounts : ReadHolding(r, me, holder, a)
                         \/ \E me \in People, b \in Bankings : ReadToConfirm(r, me, b) \/ ReadToVoid(r, me, b)
                         \/ \E b \in Bankings : RecordBanking(r, b)
                         \/ ConfirmBanking(r) \/ VoidBanking(r)

CashSpec == DeskInit /\ CashInit /\ [][CashNext]_<<deskVars, cashVars>>

-----------------------------------------------------------------------------
(* Properties. *)

\* create compares with what is held without a lock: while nothing happens between
\* its reading and its writing, no banking takes anybody below what they hold.
BankedWithinHeld ==
  ~overlapped' => \A p \in People : banking' # banking
    => StillHolding(p)' >= StillHolding(p) \/ StillHolding(p)' >= 0

\* oldestUnbanked walks back from the newest takings; the date it lands on is the
\* oldest money left when whatever went is taken off the oldest first.
OldestIsWhatIsLeft ==
  \A p \in People :
    LET gone == Received(p) - StillHolding(p)
        left == {i \in TakenBy(p) : gone < SumOf({j \in TakenBy(p) : j = i \/ Newer(i, j)})}
    IN  OldestUnbanked(p) = IF StillHolding(p) <= 0 THEN None ELSE takings[OldestOf(left)].at

\* Nobody but the owner is the one who says that their own cash arrived, in
\* whatever way the banking came to be confirmed.
ConfirmedByAnother ==
  \A b \in Bankings : banking[b] # None /\ banking[b].confirmedBy # None
    => banking[b].confirmedBy # banking[b].by \/ Role[banking[b].by] = "owner"

\* A banking that was marked not received is not confirmed afterwards, so nobody is
\* let go of cash that never arrived: while requests do not overlap.
RefusedStaysRefused ==
  \A b \in Bankings : banking[b] # None /\ banking[b].refused /\ ~overlapped'
    => banking'[b] = banking[b]

\* All cash is with somebody, on its way or confirmed by another.
CashIsAccountedFor ==
  [][ConfirmedByAnother' /\ BankedWithinHeld /\ RefusedStaysRefused]_<<deskVars, cashVars>>
=============================================================================
