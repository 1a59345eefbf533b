--------------------------- MODULE MCStockLedger ----------------------------
(* Instances of StockLedger for TLC. *)
EXTENDS StockLedger

CONSTANTS t1, t2, shop, van, shopTea, vanTea, none, never

TwoRequests == {t1, t2}

\* Lot 2 came in last and expires first; the others carry no date.
MCLots == 1..5
MCExpiry == <<20, 10, never, never, never>>
MCReceivedAt == <<1, 2, 3, 4, 5>>

\* A product at a shop and in a van, about to be given its first option.
TwoPlaces == {shop, van}
WithTea == {shop, van, shopTea, vanTea}
TeaFirst == [s \in TwoPlaces |-> IF s = shop THEN shopTea ELSE vanTea]
OnTheShelves == [k \in WithTea \X MCLots |->
                   CASE k = <<shop, 1>> -> 2 [] k \in {<<shop, 2>>, <<van, 2>>} -> 1
                     [] k = <<van, 3>> -> -1 [] OTHER -> 0]

\* The cache agrees, or misses the last sale and does not know a delivery.
Caches == {OnTheShelves, [OnTheShelves EXCEPT ![<<shop, 1>>] = 3, ![<<van, 2>>] = 0]}

On(shelf, quantity) == [shelf |-> shelf, lot |-> none, quantity |-> quantity]
Pin(shelf, lot, quantity) == [shelf |-> shelf, lot |-> lot, quantity |-> quantity]
Ask(kind, lines, to, force) == [kind |-> kind, lines |-> lines, to |-> to, force |-> force]

Sales == { Ask("sale", <<On(shop, 2)>>, none, "no"),
           Ask("sale", <<On(van, 1)>>, none, "granted"),
           Ask("sale", <<On(shop, 1), On(van, 1)>>, none, "granted"),
           Ask("sale", <<On(van, 1), On(shop, 2)>>, none, "granted") }

Moves == { Ask("transfer", <<On(shop, 2)>>, van, "no"),
           Ask("adjust", <<Pin(shop, 1, 2)>>, none, "denied"),
           Ask("into", <<Pin(van, 1, 1)>>, none, "no"),
           Ask("receive", <<On(van, 2)>>, none, "no") }

OptionOps == { Ask("options", <<>>, none, "no"),
               Ask("sale", <<On(shopTea, 1)>>, none, "granted"),
               Ask("receive", <<On(vanTea, 1)>>, none, "no"),
               Ask("adjust", <<On(vanTea, 2)>>, none, "granted") }

EveryOp == Sales \cup Moves \cup OptionOps \cup {Ask("rebuild", <<>>, none, "no")}
=============================================================================
