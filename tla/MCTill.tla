------------------------------- MODULE MCTill -------------------------------
(***************************************************************************)
(* What a browser keeps: one till, with a customer on the trade list who   *)
(* owes, walk-ins on the retail list, a piece and a carton the trade list  *)
(* has no price for; and the sessions of one member, in two tabs of the    *)
(* shop's browser and one at home.                                         *)
(***************************************************************************)
EXTENDS Till, Sessions

CONSTANTS trader, walkin, retail, trade, piece, carton, nil,
          front, back, phone, shop, home, c1, c2, c3, w1, w2

MCCustomers == {trader}
MCTiers == {retail, trade}
MCUnits == {piece, carton}
MCTierOf == [c \in {trader, walkin} |-> IF c = trader THEN trade ELSE retail]
MCPrice == [t \in MCTiers |-> [u \in MCUnits |->
  IF t = retail THEN (IF u = piece THEN 2 ELSE 20) ELSE IF u = piece THEN 1 ELSE nil]]
MCTyped == {3}
MCOwes == {trader}
MCJarOf == [t \in {front, back, phone} |-> IF t = phone THEN home ELSE shop]
MCTabOf == [c \in {c1, c2, c3} |-> IF c = c3 THEN back ELSE front]

-----------------------------------------------------------------------------
VARIABLE slice

(* Two slices of the till's behaviour, each followed to its end.  "prices":*)
(* everything the cashier and the answers do to the cart, up to a payment  *)
(* that meets no refusal and no fault, for as long as nothing has gone     *)
(* astray.  "sale": refusals, overrides, lost replies and reloads, over a  *)
(* cart filled from the search.                                            *)
PricesSlice ==
  /\ ~astray /\ ~short /\ isManager
  /\ reloads' = 0 /\ ~credit' /\ asking' = nil
  /\ completed = nil /\ (saleId' # saleId => repricing)
  /\ \A p \in posts' : p.waiting
  /\ Cardinality({r \in asked' : r.kind # "reprice"}) <= 1

SaleSlice ==
  /\ asked' = {} /\ ~camera'
  /\ Len(lines') <= 1 /\ \A i \in DOMAIN lines' : lines'[i].unit = piece /\ lines'[i].charged = lines'[i].list

(* And two of the sessions.  "alone": one request at a time, in one tab of *)
(* each browser, a call made when it will be refused, a suspension for     *)
(* good, a password changed once, an answer lost to a signing out.         *)
(* "shared": a manager signed in once at the shop, calls of two tabs at    *)
(* once, the sessions ended once, until two tabs refresh at once.          *)
AloneSlice ==
  /\ ~overlapped' /\ work'[w2] = nil /\ call'[c2] = Idle /\ call'[c3] = Idle
  /\ work'[w1] # nil => work'[w1].tab # back
  /\ call[c1] = Idle /\ call'[c1] # Idle => ~Usable(jar[shop].access)
  /\ changed' # changed => changed.mints = 0
  /\ active' # active => active
  /\ work[w1] # nil => now' = now /\ work'[w1] # work[w1] /\ (GiveUp(w1) => work[w1].kind = "out")

SharedSlice ==
  /\ ~crossed' /\ ~oneDevice /\ UNCHANGED <<changed, active>>
  /\ cutAt' # cutAt => cutAt = 0 /\ cutAt' = 2
  /\ now' # now => Working = {}
  /\ \A w \in Workers : work'[w] # nil =>
       /\ work'[w].tab \in {front, back} /\ (work'[w].kind = "out" => work'[w].tab = back)
       /\ work'[w].kind = "in" => mints = 0 \/ work[w] # nil
  /\ call[c2] = Idle /\ call'[c2] # Idle => call[c1].at = "sent"
  /\ call'[c2] = Idle \/ call'[c3] = Idle
  /\ \A c \in Calls : call[c] = Idle /\ call'[c] # Idle => Usable(call'[c].access)

MCInit ==
  /\ Init /\ SessionsInit /\ slice \in {"prices", "sale", "alone", "shared"}
  /\ slice \in {"prices", "sale"} => oneDevice
  /\ slice \in {"alone", "shared"} => isManager /\ short

MCNext ==
  /\ UNCHANGED slice
  /\ \/ slice \in {"prices", "sale"} /\ Next /\ UNCHANGED sessionsVars
        /\ (slice = "prices" => PricesSlice) /\ (slice = "sale" => SaleSlice)
     \/ slice \in {"alone", "shared"} /\ SessionsNext /\ UNCHANGED vars
        /\ (slice = "alone" => AloneSlice) /\ (slice = "shared" => SharedSlice)

MCSpec == MCInit /\ [][MCNext]_<<vars, sessionsVars, slice>>

\* Both parts keep to their types.
TypeOK == TillTypeOK /\ SessionsTypeOK
=============================================================================
