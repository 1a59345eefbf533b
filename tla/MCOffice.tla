------------------------------ MODULE MCOffice ------------------------------
(***************************************************************************)
(* The office services, each followed on its own while the others stand    *)
(* still: cash and its bankings, the staff, customers, the lists with a    *)
(* default, one product of the catalogue, accounts and their passwords, a  *)
(* device and a reader on a feed, the reports, the periods they cover, and *)
(* the FEFO pick.  No property relates the state of two of them, so no     *)
(* step of one is missed by leaving it out while another moves.            *)
(***************************************************************************)
EXTENDS Cash, Staff, Customers, Lists, Catalog, Accounts, SyncFeed, Reports, Periods, Fefo

CONSTANTS
  nil, r1, r2,
  owner, manager, seller,
  ann, ben, cora,
  retail, trade, store, van, gtb, uba, milk, soap,
  piece, carton, gold, classic, ean, own,
  invoice, payment,
  MinStock, MaxStock, MaxPick,  \* bounds of the FEFO pick
  Parts        \* the parts this instance follows

-----------------------------------------------------------------------------
(* The instance. *)

MCRole == [p \in {owner, manager, seller} |->
  IF p = owner THEN "owner" ELSE IF p = manager THEN "manager" ELSE "staff"]

MCFirstStaff == [m \in {ann, ben, cora} |-> IF m = ann THEN "owner" ELSE nil]

MCAmount == [b \in {invoice, payment} |-> IF b = payment THEN -1 ELSE 1]

MCKindOf == [e \in {retail, trade, store, van, gtb, uba} |->
  IF e \in {retail, trade} THEN "tier" ELSE IF e \in {store, van} THEN "location" ELSE "account"]

\* Edits of the product: each says one thing, some of them wrongly.
Nothing == [base |-> nil, units |-> <<>>, prices |-> <<>>, options |-> <<>>, codes |-> <<>>]
Unit(u, n, sells, leads) == [name |-> u, factor |-> n, sold |-> sells, first |-> leads]
Costs(t, u, o, p) == [Nothing EXCEPT !.prices = <<[tier |-> t, unit |-> u, option |-> o, price |-> p]>>]
Comes(o, s) == [option |-> o, state |-> s]

Starts == {
  [Nothing EXCEPT !.base = 2, !.units = <<Unit(piece, 1, nil, FALSE)>>],
  [Nothing EXCEPT !.base = 2, !.units = <<Unit(piece, 1, nil, FALSE), Unit(carton, 2, nil, FALSE)>>]}

UnitEdits == {[Nothing EXCEPT !.units = us] : us \in {
  <<Unit(carton, 2, nil, TRUE)>>, <<Unit(carton, 3, FALSE, FALSE)>>, <<Unit(carton, 1, nil, FALSE)>>,
  <<Unit(piece, 1, FALSE, FALSE)>>, <<Unit(piece, 1, TRUE, TRUE)>>, <<Unit(piece, 2, nil, FALSE)>>,
  <<Unit(carton, 1, nil, FALSE), Unit(carton, 2, nil, FALSE)>>}}

PriceEdits == {
  Costs(nil, carton, nil, 3), Costs(trade, carton, nil, 2), Costs(retail, carton, gold, 4),
  Costs(retail, carton, gold, nil), [Nothing EXCEPT !.base = 1],
  [Nothing EXCEPT !.options = <<Comes(gold, "sold"), Comes(classic, "sold")>>],
  [Nothing EXCEPT !.options = <<Comes(gold, "retired")>>],
  [Nothing EXCEPT !.options = <<Comes(classic, "retired")>>]}

CodeEdits == {
  [Nothing EXCEPT !.options = <<Comes(gold, "sold")>>],
  [Nothing EXCEPT !.codes = <<[code |-> ean, unit |-> piece, option |-> nil, primary |-> TRUE]>>]}

MCEdits == Starts \cup UnitEdits \cup PriceEdits \cup CodeEdits

\* What is sold: a piece, a carton of two, both on one invoice.
APiece == [product |-> milk, factor |-> 1, base |-> 1, total |-> 3, cost |-> 1, rate |-> 5000]
ACarton == [product |-> milk, factor |-> 2, base |-> 2, total |-> 5, cost |-> 3, rate |-> 5000]
ASoap == [product |-> soap, factor |-> 1, base |-> 1, total |-> 2, cost |-> 1, rate |-> 0]
MCBaskets == {<<APiece>>, <<ACarton, ASoap>>}
Cartons == {<<ACarton>>}

MCCategory == [p \in {milk, soap} |-> p]

\* Zones east and west of where it is midnight, the clock moving back or forward at
\* every hour of two days.
MCZones == {z \in [before : {-2, 0, 2}, after : -3..3, moves : 30..45] : z.after - z.before \in {-1, 1}}
MCMonths == <<5, 3, 5>>

\* Three people, owners or staff of three shops, with two names and two passwords.
Rosters == {f \in [1..3 -> [name : {1, 2}, shop : {nil, 1, 2, 3}, pass : {1, 2}]] :
  \A i, j \in 1..3 : i # j => <<f[i].name, f[i].shop>> # <<f[j].name, f[j].shop>>}

\* Lots 1 and 2 tie on expiry and differ in receipt; 3 and 4 do not perish and tie on
\* both; 2 expires no earlier than 1.
MCLots == 1..4
MCExpiry == <<10, 10, nil, nil>>
MCReceivedAt == <<2, 1, 3, 3>>
Below == -1

ASSUME OfficeAssumption ==
  /\ None \notin 1..3 /\ Zones # {}
  /\ MinStock \in Int /\ MaxStock \in Int /\ MaxPick \in Nat

-----------------------------------------------------------------------------
VARIABLES
  focus,              \* the part that moves
  onHand, quantity    \* what the FEFO pick is given

pickVars == <<onHand, quantity>>
allVars == <<focus, pickVars, deskVars, cashVars, staffVars, customersVars, listsVars, catalogVars,
             accountsVars, syncVars, reportsVars, periodsVars>>

MCInit ==
  /\ focus \in Parts
  /\ DeskInit /\ CashInit /\ StaffInit /\ ListsInit /\ AccountsInit /\ ReportsInit
  /\ CustomersInit /\ \A c \in Customers : customer[c].phone = (c = ann)
  /\ CatalogInit /\ flagged = {retail}
  /\ SyncInit /\ feed \in (CASE focus = "feed" -> {"payments", "sales"} [] focus = "browse" -> {"payments"}
                            [] OTHER -> {"ledger"})
  /\ IF focus = "periods" THEN PeriodsInit
     ELSE instant = DayHours /\ zone = CHOOSE z \in Zones : TRUE
  /\ IF focus = "pick" THEN onHand \in [Lots -> MinStock..MaxStock] /\ quantity \in 1..MaxPick
     ELSE onHand = [l \in Lots |-> 0] /\ quantity = 1

\* The two requests are alike: the second takes something up while the first is at work.
FirstIsBusy == doing[r1] = nil => doing'[r2] \in {doing[r2], nil}

\* Of the cash, what people hold is followed with one handler at a time and one banking,
\* the second taking of 1; what becomes of bankings, with two of each and all
\* of 1, over cash already taken.
CashStep ==
  /\ CashNext /\ FirstIsBusy
  /\ \A i \in Takings : takings'[i] # nil => takings'[i].by # owner
  /\ \A p \in People \ {seller} : paidOut'[p] = 0
  /\ focus = "cash" => /\ doing'[r2] = nil /\ banking'[2] = nil
                       /\ takings'[1] # nil => takings'[1].by = seller
                       /\ takings'[2] # nil => takings'[2].amount = 1
  /\ focus = "bankings" => /\ paidOut' = paidOut
                           /\ \A b \in Bankings : banking'[b] # nil => banking'[b].amount = 1
                           /\ \A r \in Requests : Asked(r, "bank")' => doing'[r].amount = 1
                           /\ \A i \in Takings : takings'[i] # nil =>
                                /\ ~takings'[i].voided /\ takings'[i].at = 1
                                /\ takings'[i].by = seller <=> i = 1
                                /\ takings'[i].amount = IF i = 1 THEN 2 ELSE 1

\* A change of a member names a role or a status, and who is added is staff.
StaffStep ==
  /\ StaffNext /\ FirstIsBusy
  /\ \A r \in Requests : Asked(r, "add")' => doing'[r].role = "staff"
  /\ \A r \in Requests : Asked(r, "change")' => (doing'[r].role = nil) # (doing'[r].active = nil)

\* Of the lists one kind is followed at a time, with goods in the van, one of them short
\* and one moved at a time; of the product its units, its prices and options, where the
\* second edit names a price, or its codes.
OfKind(kind) == \A e \in Entries : KindOf[e] # kind => entry'[e] = entry[e]

ListsStep ==
  /\ ListsNext
  /\ LET kind == IF focus = "tiers" THEN "tier" ELSE IF focus = "places" THEN "location" ELSE "account"
     IN  /\ OfKind(kind) /\ goods'[store] = goods[store] /\ goods'[van][milk] >= 0 /\ goods'[van][soap] <= 0
         /\ \A r \in Requests : doing'[r] # None =>
              /\ doing'[r].kind = "move" => r = r1
              /\ KindOf[IF doing'[r].kind = "clear" THEN doing'[r].keep ELSE doing'[r].entry] = kind

Begun(r) == Asked(r, "edit")' /\ ~Asked(r, "edit")

CatalogStep ==
  /\ CatalogNext /\ FirstIsBusy
  /\ \A r \in Requests : Begun(r) => doing'[r].edit \in
       (CASE focus = "units" -> UnitEdits [] focus = "prices" -> PriceEdits [] focus = "codes" -> CodeEdits)
  /\ focus = "prices" /\ Begun(r2) => doing'[r2].edit.prices # <<>>
  /\ focus # "codes" => code' = code
  /\ focus # "prices" => flagged' = flagged

\* A feed is followed with a device and two rows, one of them written again, or with a
\* person paging back past three, one written at a time and in time, of which one is
\* written again.  Until one is, payments behave as the ledger does, and so do sales for
\* the person.
FeedStep ==
  /\ SyncNext
  /\ focus = "feed" => reader' = nil /\ writing'[3] = nil /\ moved' \subseteq {1} /\ ~RollBack(2)
  /\ focus = "browse" => /\ reply' = nil /\ now' < MaxTime /\ late' = {}
                         /\ Cardinality(moved') <= 1
                         /\ Cardinality({i \in Rows : writing'[i] # nil}) <= 1
                         /\ \A i \in Rows : ~RollBack(i)

\* The reports are followed over sales entered on the last day, two of them at most one
\* of several lines, with no options and no stock; alerts over the stock of one product
\* sold once, by the piece, to nobody in particular, and what is put back on the shelf.
ReportsStep ==
  /\ ReportsNext
  /\ focus = "reports" => /\ optioned' = optioned /\ \A x \in Items : held'[x] <= 0
                          /\ sales' # <<>> => today = LastDay
                          /\ Len(sales') = 2 => Len(sales'[2].lines) = 1
                          /\ \A r \in DOMAIN returns' : returns'[r].into = nil
  /\ focus = "alerts" => /\ \A p \in optioned' : p = milk
                         /\ \A x \in Items : held'[x] # 0 => x[1] = milk
                         /\ \A i \in DOMAIN sales' : i = 1 /\ sales'[i].customer = nil /\ Len(sales'[i].lines) = 1
                         /\ \A r \in DOMAIN returns' : returns'[r].into # nil

\* Accounts are followed one request at a time, with everything that changes a password,
\* until one dies half way; and two at a time, while somebody signs up.
AccountsStep ==
  /\ AccountsNext /\ FirstIsBusy
  /\ focus = "passwords" => ~died /\ doing'[r2] = nil
  /\ focus = "sign up" =>
       /\ ~died' /\ link' = link
       /\ \A r \in Requests : doing'[r] # nil => doing'[r].kind \notin {"login", "password", "forgot", "cli"}

MCNext ==
  /\ UNCHANGED <<focus, pickVars>>
  /\ \/ focus \in {"cash", "bankings"} /\ CashStep
        /\ UNCHANGED <<staffVars, customersVars, listsVars, catalogVars, accountsVars, syncVars, reportsVars, periodsVars>>
     \/ focus = "staff" /\ StaffStep
        /\ UNCHANGED <<cashVars, customersVars, listsVars, catalogVars, accountsVars, syncVars, reportsVars, periodsVars>>
     \/ focus = "customers" /\ CustomersNext /\ FirstIsBusy
        /\ UNCHANGED <<cashVars, staffVars, listsVars, catalogVars, accountsVars, syncVars, reportsVars, periodsVars>>
     \/ focus \in {"tiers", "places", "accounts"} /\ ListsStep
        /\ UNCHANGED <<cashVars, staffVars, customersVars, catalogVars, accountsVars, syncVars, reportsVars, periodsVars>>
     \/ focus \in {"units", "prices", "codes"} /\ CatalogStep
        /\ UNCHANGED <<cashVars, staffVars, customersVars, listsVars, accountsVars, syncVars, reportsVars, periodsVars>>
     \/ focus \in {"feed", "browse"} /\ FeedStep
        /\ UNCHANGED <<deskVars, cashVars, staffVars, customersVars, listsVars, catalogVars, accountsVars, reportsVars, periodsVars>>
     \/ focus \in {"reports", "alerts"} /\ ReportsStep
        /\ UNCHANGED <<deskVars, cashVars, staffVars, customersVars, listsVars, catalogVars, accountsVars, syncVars, periodsVars>>
     \/ focus = "periods" /\ PeriodsNext
        /\ UNCHANGED <<deskVars, cashVars, staffVars, customersVars, listsVars, catalogVars, accountsVars, syncVars, reportsVars>>
     \/ focus \in {"passwords", "sign up"} /\ AccountsStep
        /\ UNCHANGED <<cashVars, staffVars, customersVars, listsVars, catalogVars, syncVars, reportsVars, periodsVars>>

\* Time passes, the device keeps pulling, and of the pages it asks for some arrive.
Alone == UNCHANGED <<focus, pickVars, deskVars, cashVars, staffVars, customersVars, listsVars, catalogVars,
                     accountsVars, reportsVars, periodsVars>>
FeedFairness ==
  /\ WF_allVars(focus = "feed" /\ Tick /\ Alone)
  /\ WF_allVars(focus = "feed" /\ Pull /\ Alone)
  /\ SF_allVars(focus = "feed" /\ Receive /\ Alone)

MCSpec == MCInit /\ [][MCNext]_allVars /\ FeedFairness

-----------------------------------------------------------------------------
(* Properties. *)

\* Every part keeps to its types.
TypeOK ==
  /\ CashTypeOK /\ StaffTypeOK /\ CustomersTypeOK /\ ListsTypeOK /\ CatalogTypeOK /\ AccountsTypeOK
  /\ SyncTypeOK /\ ReportsTypeOK /\ PeriodsTypeOK

\* A device that keeps asking, over a connection that sometimes answers, comes to have
\* every row as it is, however pages are lost.
DeviceCatchesUp == focus = "feed" => EveryRowArrives

\* allocateFefo returns a pick in FEFO order, never more than a lot holds and
\* nothing from a lot below zero, and there is only one such pick.
LoopIsThePick ==
  focus = "pick" =>
    LET pick == AllocateFefo(onHand, quantity)
    IN  \A taken \in [Lots -> 0..MaxPick], shortfall \in 0..MaxPick :
          IsFefoPick(onHand, quantity, taken, shortfall)
            <=> taken = pick.taken /\ shortfall = pick.remaining

\* A plain name and a password let in the one they fit (signInCandidate).
NamesAreEnough == focus = "names" => \A roster \in Rosters : NameIsEnough(roster)

\* What is worked out from its arguments alone is what it says it is: the pick of lots
\* (allocateFefo), the days of a period (period.ts), who a name lets in and the oldest
\* cash in hand (oldestUnbanked).
PureFunctionsAgree == LoopIsThePick /\ DaysAreWhole /\ NamesAreEnough /\ OldestIsWhatIsLeft
=============================================================================
