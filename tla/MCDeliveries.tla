---------------------------- MODULE MCDeliveries ----------------------------
(* Instances of Payables and Deliveries for TLC. *)
EXTENDS Deliveries, TLC

CONSTANTS r1, r2, r3, p0, ade, bola, soap, milk, gold, mint, plain, b1, b2, b3, x1, x2, d1, d2, none

Soap == <<soap, gold>>
SoapMint == <<soap, mint>>
Milk == <<milk, plain>>
MCGoods == {soap, milk} \X {gold, mint, plain}
MCLots == 1..5
MCVendorOf == (x1 :> ade) @@ (x2 :> bola)
MCBillOf == (d1 :> b1) @@ (d2 :> b2)
Three == Permutations({r1, r2, r3})

\* A delivery of soap and milk from Ade, worth 7 with a fee of 2, of which 2 was paid.
Line(goods, at, received, value, share) ==
  [goods |-> goods, lot |-> at, received |-> received, value |-> value, share |-> share]
FirstDelivery ==
  [receipt |-> (d1 :> [fee |-> 2, lines |-> <<Line(Soap, 1, 2, 4, 1), Line(Milk, 2, 1, 3, 1)>>])
               @@ (d2 :> NoReceipt),
   lot |-> [x \in MCLots |-> CASE x = 1 -> [from |-> "delivery", received |-> 2, cost |-> 5]
                               [] x = 2 -> [from |-> "delivery", received |-> 1, cost |-> 4]
                               [] OTHER -> NoLot],
   moved |-> [x \in MCLots |-> [g \in MCGoods |->
                IF x = 1 /\ g = Soap THEN 2 ELSE IF x = 2 /\ g = Milk THEN 1 ELSE 0]],
   stocked |-> {Soap, Milk}]
MCOpeningGoods == {FirstDelivery}

NoBill == [state |-> "none", vendor |-> none, due |-> 0]
Owing(vendor, due) == [state |-> "live", vendor |-> vendor, due |-> due]
Promised == [state |-> "expected", bill |-> none, expected |-> 3, credited |-> 0]
PartPaid ==
  [bill |-> (b1 :> Owing(ade, 7)) @@ (b2 :> NoBill) @@ (b3 :> Owing(ade, 4)),
   payment |-> [p \in {r1, r2, r3, p0} |-> IF p = p0 THEN [bill |-> b1, amount |-> 2, live |-> TRUE] ELSE none],
   rebate |-> (x1 :> Promised) @@ (x2 :> NoRebate)]
Credited ==
  [PartPaid EXCEPT !.rebate[x1] = [state |-> "credited", bill |-> b1, expected |-> 3, credited |-> 3]]
MCOpeningBooks == {PartPaid, Credited}

BookAsks ==
  [kind : {"pay"}, bill : {b1}, amount : {3, 5}]
  \cup [kind : {"pay"}, bill : {b3}, amount : {4}]
  \cup [kind : {"void"}, payment : {p0}]
  \cup [kind : {"edit"}, bill : {b1}, amount : {1, 4}]
  \cup [kind : {"remove"}, bill : {b1, b3}]
  \cup [kind : {"enter"}, bill : {b3}, vendor : {bola}, amount : {3}]
  \cup [kind : {"credit"}, rebate : {x1}, bill : {b1, b3}, amount : {3}]
  \cup [kind : {"credit"}, rebate : {x2}, bill : {b3}, amount : {2}]
  \cup [kind : {"uncredit", "drop"}, rebate : {x1}]
  \cup [kind : {"reestimate"}, rebate : {x1}, amount : {1}]
  \cup [kind : {"expect"}, rebate : {x1, x2}, amount : {2}]

New(goods, received, value) == [goods |-> goods, received |-> received, value |-> value]
Fix(truths, fee, force) ==
  [kind |-> "correct", receipt |-> d1, truths |-> truths, fee |-> fee, force |-> force]
GoodsAsks ==
  { [kind |-> "deliver", receipt |-> d2, vendor |-> bola, due |-> due, paid |-> 1, fee |-> 1,
     lines |-> <<New(Milk, 1, 2), New(SoapMint, 1, 0)>>] : due \in {none, 0, 3} }
  \cup { Fix(1 :> New(Soap, 1, 2), none, FALSE), Fix(1 :> New(Soap, 3, 6), 3, FALSE),
         Fix(1 :> New(SoapMint, 2, 4), none, FALSE), Fix(1 :> New(Milk, 2, 3), none, TRUE),
         Fix((1 :> New(Soap, 0, 0)) @@ (2 :> New(Milk, 0, 0)), none, TRUE),
         Fix(2 :> New(Milk, 0, 0), 0, FALSE), Fix(2 :> New(Milk, 1, 6), none, FALSE),
         Fix([l \in {} |-> l], 2, FALSE) }
  \cup [kind : {"open"}, goods : {SoapMint, Milk}, received : {1}, value : {2}]
  \cup [kind : {"recost"}, lot : {1, 3}, value : {3}]

MCAsks == BookAsks \cup GoodsAsks
=============================================================================
