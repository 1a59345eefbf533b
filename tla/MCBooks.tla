------------------------------- MODULE MCBooks -------------------------------
(***************************************************************************)
(* The books of the shop: what customers owe, where a return is a whole    *)
(* line and what it refunds; and the goods of one sale coming back, lot by *)
(* lot and part by part.  Each is followed with the other standing still.  *)
(***************************************************************************)
EXTENDS Receivables, SaleReturns, TLC

CONSTANTS
  r1, r2, r3,
  old, ada, bayo, nobody, same,
  gold, classic, none, never,
  Parts    \* the parts this instance follows

TwoRequests == {r1, r2}
ThreeRequests == {r1, r2, r3}

-----------------------------------------------------------------------------
(* Receivables. *)

Everybody == {ada, bayo, nobody}

\* What Ada owes on, and what was sold over the counter and not yet paid.
Owing(customer, lines, at) ==
  [customer |-> customer, lines |-> lines, total |-> Amounts(lines),
   refunded |-> [l \in DOMAIN lines |-> 0], at |-> at]
Books == old :> Owing(ada, <<2, 2>>, 0)

Paying(customer, amount) == [kind |-> "pay", customer |-> customer, amount |-> amount, named |-> Nothing]
PayingOff(customer, i, part, amount) == [Paying(customer, amount) EXCEPT !.named = i :> part]
Voiding(p) == [kind |-> "void", payment |-> p]
Selling(customer, lines, paid, override) ==
  [kind |-> "sell", customer |-> customer, lines |-> lines, paid |-> paid, override |-> override]
Returning(i, l) == [kind |-> "return", invoice |-> i, line |-> l]
Correcting(i, customer, prices) ==
  [kind |-> "correct", invoice |-> i, customer |-> customer, prices |-> prices]

Payments == { Paying(ada, 3), Paying(ada, 6), Paying(ada, -2), PayingOff(bayo, old, 4, 4),
              PayingOff(ada, old, 6, 6), PayingOff(ada, old, 4, 3), PayingOff(ada, r1, 1, 1) }
EveryOp ==
  Payments \cup { Voiding(r1), Voiding(r2) }
  \cup { Selling(ada, <<2>>, 0, FALSE), Selling(ada, <<3>>, 1, FALSE), Selling(bayo, <<3>>, 1, TRUE), Selling(nobody, <<2>>, 2, FALSE) }
  \cup { Returning(old, 1), Returning(old, 2), Returning(r1, 1) }
  \cup { Correcting(old, same, 1 :> 1), Correcting(old, same, 2 :> 3), Correcting(old, bayo, Nothing),
         Correcting(old, nobody, 1 :> 1), Correcting(r1, ada, 1 :> 3), Correcting(r1, same, 1 :> 1) }

-----------------------------------------------------------------------------
(* SaleReturns. *)

TwoOptions == {gold, classic}

\* Lot 1 perishes first, lot 2 later, lot 3 never.
ThreeLots == 1..3
Dates == <<5, 9, never>>
Receipts == <<2, 1, 3>>

Line(option, base, total) == [option |-> option, base |-> base, total |-> total]
Hands(line, quantity) == [line |-> line, quantity |-> quantity, option |-> none, restocked |-> TRUE]
As(asked, option) == [asked EXCEPT !.option = option]
Broken(asked) == [asked EXCEPT !.restocked = FALSE]

\* Two lines of one option; one of each; goods sold before
\* there were options.
TheSales == {<<Line(gold, 3, 4), Line(gold, 2, 5)>>,
             <<Line(gold, 3, 4), Line(classic, 2, 5)>>,
             <<Line(none, 3, 4)>>}

Shelf(n, m) == [k \in Kinds |-> IF k = classic THEN m ELSE n]
TheShelves == {Shelf(<<2, 3, 1>>, <<1, 1, 0>>), Shelf(<<1, 1, 4>>, <<0, 0, 2>>)}

Visits == {<<Hands(1, 1)>>, <<Hands(1, 2)>>, <<Hands(1, 3)>>, <<Hands(2, 2)>>, <<Hands(2, 1)>>,
           <<Broken(Hands(1, 1))>>, <<As(Hands(1, 2), gold)>>, <<As(Hands(2, 1), classic)>>,
           <<As(Hands(1, 1), gold), As(Hands(1, 1), gold), As(Hands(1, 1), gold)>>,
           <<Hands(1, 2), Broken(Hands(2, 1)), Hands(1, 2)>>, <<Hands(3, 1)>>}

-----------------------------------------------------------------------------
VARIABLE part    \* the part that moves

MCInit ==
  /\ part \in Parts
  /\ Init /\ ReturnsInit
  /\ part = "money" => sale = <<Line(none, 3, 4)>> /\ movements = Sold(sale, Shelf(<<2, 3, 1>>, <<1, 1, 0>>))

MCNext ==
  /\ UNCHANGED part
  /\ \/ part = "money" /\ Next /\ UNCHANGED returnsVars
     \/ part = "returns" /\ ReturnsNext /\ UNCHANGED vars

MCSpec == MCInit /\ [][MCNext]_<<vars, returnsVars, part>>

\* Both parts keep to their types.
AllTypesOK == TypeOK /\ ReturnsTypeOK
=============================================================================
