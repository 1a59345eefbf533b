---------------------------- MODULE DeliveryFee -----------------------------
(***************************************************************************)
(* A delivery fee shared across what it brought, by value: delivery-fee.ts *)
(* is a pure function; so is this.  A line is a record with its `value`    *)
(* and what was `received` of it.                                          *)
(***************************************************************************)
EXTENDS Integers, FiniteSets, Functions

SumOver(f(_), S) == SumFunction([x \in S |-> f(x)])

\* By value; by what arrived when everything was free; nothing arrived, nothing borne.
Weights(lines) ==
  LET byValue == [l \in DOMAIN lines |-> IF lines[l].received > 0 THEN lines[l].value ELSE 0]
  IN  IF \E l \in DOMAIN lines : byValue[l] > 0 THEN byValue
      ELSE [l \in DOMAIN lines |-> lines[l].received]

HasSomewhereToGo(lines) == \E l \in DOMAIN lines : lines[l].received > 0

\* Plausible bugs: each share rounded to the nearest on its own; by value even
\* where nothing arrived; the first lines get what is left over.
SplitRounding(fee, lines) ==
  LET w == Weights(lines)
      total == SumFunction(w)
  IN  [l \in DOMAIN lines |-> IF fee <= 0 THEN 0 ELSE (2 * fee * w[l] + total) \div (2 * total)]

SplitFirstTakesRest(fee, lines) ==
  LET w == Weights(lines)
      total == SumFunction(w)
      whole == [l \in DOMAIN lines |-> (fee * w[l]) \div total]
      left == fee - SumFunction(whole)
  IN  [l \in DOMAIN lines |-> IF fee <= 0 THEN 0 ELSE whole[l] + IF l <= left THEN 1 ELSE 0]

\* splitDeliveryFee: the rounded-down part of each share, and what is left over one
\* each to the lines with the largest remainders, the earlier of two that tie.
SplitFee(fee, lines) ==
  LET w == Weights(lines)
      total == SumFunction(w)
      whole == [l \in DOMAIN lines |-> (fee * w[l]) \div total]
      rest == [l \in DOMAIN lines |-> (fee * w[l]) % total]
      left == fee - SumFunction(whole)
      before(l) == {k \in DOMAIN lines : /\ w[k] > 0
                                         /\ \/ rest[k] > rest[l]
                                            \/ rest[k] = rest[l] /\ k < l}
  IN  IF fee <= 0 THEN [l \in DOMAIN lines |-> 0]
      ELSE [l \in DOMAIN lines |->
              whole[l] + IF w[l] > 0 /\ Cardinality(before(l)) < left THEN 1 ELSE 0]

\* Said without the rounding: whole shares that come to the fee, none off its
\* exact part by as much as one, nothing on a line of which nothing arrived, and
\* the dearer of two lines with no less.
IsFairSplit(fee, lines, share) ==
  LET w == Weights(lines)
      total == SumFunction(w)
  IN  /\ SumFunction(share) = fee
      /\ \A l \in DOMAIN lines :
           /\ share[l] * total < fee * w[l] + total /\ share[l] * total > fee * w[l] - total
           /\ w[l] = 0 => share[l] = 0
           /\ \A k \in DOMAIN lines : w[k] > w[l] => share[k] >= share[l]
=============================================================================
