------------------------------- MODULE MCOnce -------------------------------
(***************************************************************************)
(* What must happen once: the work behind an idempotency key, the posting  *)
(* of a count, the entry a form makes.  Each is followed with the others   *)
(* standing still.                                                         *)
(***************************************************************************)
EXTENDS Idempotency, Stocktake, Forms, TLC

CONSTANTS
  r1, r2, r3, r4, nobody,
  plain, chicken, onion, none, never, a, b,
  blank,
  Parts    \* the parts this instance follows

-----------------------------------------------------------------------------
(* Idempotency. *)

ThreeRequests == {r1, r2, r3}
FourRequests == {r1, r2, r3, r4}

\* r1, r2 and r3 are one call and its retries, r4 the same key on another body.
OneOtherBody == [r \in FourRequests |-> IF r = r4 THEN "other" ELSE "sale"]

\* The two ways to be safe: every commit is promptly followed by the storing of
\* its answer, or the handler's row carries the client's own id and anything
\* may go wrong.
SafeRegimes == { [faults |-> {"dies_before_commit", "release_fails"}, ownId |-> FALSE],
                 [faults |-> AllFaults, ownId |-> TRUE] }

-----------------------------------------------------------------------------
(* Stocktake. *)

MCShelves == {plain, chicken, onion}
MCLots == 1..3
MCExpiry == <<20, 10, never>>
MCReceivedAt == <<1, 2, 3>>
MCCounts == {1, 2}
TwoCounters == {a, b}

\* Everything about count 1; count 2 counts one shelf and is posted.
MCWanted == {[kind |-> "open"], [kind |-> "options"],
             [kind |-> "remove", count |-> 1, shelf |-> chicken],
             [kind |-> "count", count |-> 2, shelf |-> chicken]}
            \cup [kind : {"post"}, count : MCCounts] \cup [kind : {"cancel"}, count : {1}]
            \cup [kind : {"count"}, count : {1}, shelf : MCShelves]

\* Two lots, all under the first option; the shelf says otherwise.
AllChicken == [stock |-> [s \in MCShelves |-> IF s = chicken THEN <<1, 1, 0>> ELSE <<0, 0, 0>>],
               shelf |-> [s \in MCShelves |-> IF s = plain THEN 0 ELSE 1]]

\* No options yet, and one lot owed to a sale that was forced.
BeforeOptions == [stock |-> [s \in MCShelves |-> IF s = plain THEN <<2, -1, 0>> ELSE <<0, 0, 0>>],
                  shelf |-> [s \in MCShelves |-> IF s = plain THEN 2 ELSE 0]]

\* One of the goods is under the wrong option, and the other is gone.
OneGone == [AllChicken EXCEPT !.shelf = [s \in MCShelves |-> IF s = onion THEN 1 ELSE 0]]

AnyStart == {AllChicken, BeforeOptions, OneGone}

-----------------------------------------------------------------------------
\* Who asks does not matter.
AnyOrder == Permutations(ThreeRequests) \cup Permutations(TwoCounters)

VARIABLE part    \* the part that moves

onceVars == <<vars, stocktakeVars, formVars, part>>

\* Where a part does not move it does not matter where it begins.
MCInit ==
  /\ part \in Parts
  /\ Init /\ StocktakeInit /\ FormsInit
  /\ part # "keys" => regime = CHOOSE x \in Regimes : TRUE
  /\ part # "counts" => LET start == CHOOSE x \in Starts : TRUE
                        IN  stock = start.stock /\ shelf = start.shelf
  /\ part # "forms" => form = CHOOSE x \in FormKinds : TRUE

MCNext ==
  /\ UNCHANGED part
  /\ \/ part = "keys" /\ Next /\ UNCHANGED <<stocktakeVars, formVars>>
     \/ part = "counts" /\ StocktakeNext /\ UNCHANGED <<vars, formVars>>
     \/ part = "forms" /\ FormsNext /\ UNCHANGED <<vars, stocktakeVars>>

MCSpec == MCInit /\ [][MCNext]_onceVars

\* The part that moves keeps to its types.
AllTypesOK ==
  /\ part = "keys" => TypeOK
  /\ part = "counts" => StocktakeTypeOK
  /\ part = "forms" => FormsTypeOK
=============================================================================
