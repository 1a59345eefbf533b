------------------------------- MODULE Catalog -------------------------------
(***************************************************************************)
(* One product of the catalogue (catalog/product.service.ts): its units,   *)
(* its prices by price list, unit and option, its options and its          *)
(* barcodes, and what the till and the products list make of them.  An     *)
(* edit writes the product's own row, then everything else in one          *)
(* transaction that works from the units as it read them; a refused        *)
(* transaction leaves the row written.  Names, pictures, stock moving into *)
(* first options (StockLedger) and parsing of codes are left out.          *)
(***************************************************************************)
EXTENDS Desk, Integers, Sequences, FiniteSetsExt

CONSTANTS
  Units, Tiers, Options, Codes,
  Edits,       \* the contents of requests, see Edit below
  Business     \* "retail", "wholesale" or "mixed"

VARIABLES
  unit,        \* of each unit: factor, whether base, sold at the till, the till's first; or None
  base,        \* the product's base price, or None
  price,       \* of <<price list, unit, option or None>>: the amount, or None
  option,      \* of each option: "sold", "retired" or None
  code,        \* of each barcode: its unit, option and whether primary, or None
  flagged,     \* price lists flagged the default (Lists)
  firstBase,   \* history: the base unit the product was created with
  listedTwice, \* history: one edit listed a new unit twice
  inline,      \* history: a product's own form attached a primary code
  uncleared    \* history: a request ended before it cleared the other primaries

catalogVars == <<unit, base, price, option, code, flagged, firstBase, listedTwice, inline, uncleared>>

\* An edit: rows of units, prices, options and codes in the order they are sent, each
\* field None where the row leaves it out.  A price row without a list is for the
\* default one, and one of None takes an option's own price away.
UnitRow == [name : Units, factor : Nat \ {0}, sold : BOOLEAN \cup {None}, first : BOOLEAN]
PriceRow == [unit : Units, tier : Tiers \cup {None}, option : Options \cup {None}, price : Nat \cup {None}]
OptionRow == [option : Options, state : {"sold", "retired"}]
CodeRow == [code : Codes, unit : Units, option : Options \cup {None}, primary : BOOLEAN]
Edit == [base : Nat \cup {None}, units : Seq(UnitRow), prices : Seq(PriceRow),
         options : Seq(OptionRow), codes : Seq(CodeRow)]

PriceKeys == Tiers \X Units \X (Options \cup {None})

\* What is written of a unit and of a barcode, and what an edit under way has read.
UnitState == [factor : Nat \ {0}, base : BOOLEAN, sold : BOOLEAN, first : BOOLEAN]
CodeState == [unit : Units, option : Options \cup {None}, primary : BOOLEAN]
EditAsk == [kind : {"edit"}, edit : Edit, read : [Units -> UnitState \cup {None}], default : Tiers \cup {None}]
LabelAsk == [kind : {"label"}, keep : Codes, unit : Units, option : Options \cup {None}]

ASSUME CatalogAssumption ==
  /\ Edits \subseteq Edit /\ Business \in {"retail", "wholesale", "mixed"}
  /\ IsFiniteSet(Units) /\ None \notin UnitState \cup EditAsk \cup LabelAsk

CatalogTypeOK ==
  /\ unit \in [Units -> UnitState \cup {None}] /\ price \in [PriceKeys -> Nat \cup {None}]
  /\ option \in [Options -> {"sold", "retired", None}] /\ code \in [Codes -> CodeState \cup {None}]
  /\ flagged \subseteq Tiers

CatalogInit ==
  /\ unit = [u \in Units |-> None] /\ base = None
  /\ price = [k \in PriceKeys |-> None]
  /\ option = [o \in Options |-> None]
  /\ code = [c \in Codes |-> None]
  /\ flagged \in {{t} : t \in Tiers} /\ firstBase = None
  /\ listedTwice = FALSE /\ inline = FALSE /\ uncleared = FALSE

UnitsThere == {u \in Units : unit[u] # None}
Exists == UnitsThere # {}

-----------------------------------------------------------------------------
(* Units: selling-units.ts, writeUnits, settleSellingUnits. *)

DefaultIsSellable(row, count) == count <= 1 \/ row.factor # 1 \/ Business # "wholesale"

Names(rows) == {rows[i].name : i \in DOMAIN rows}

\* assertExactlyOneBaseUnit, of a new product.
OneBaseOf(rows) ==
  /\ Cardinality({i \in DOMAIN rows : rows[i].factor = 1}) = 1
  /\ Cardinality(Names(rows)) = Len(rows)

RowsOf(rows, n) == {i \in DOMAIN rows : rows[i].name = n}

\* The rows laid over the units in turn: the first that names a new unit creates it,
\* and of what they say of a unit, its factor or whether it is sold, the last stands.
WriteUnits(us, rows, count) ==
  [n \in Units |->
     LET naming == RowsOf(rows, n)
         telling == {i \in naming : rows[i].sold # None}
         created == rows[Min(naming)]
     IN  IF naming = {} THEN us[n]
         ELSE [factor |-> rows[Max(naming)].factor,
               base |-> IF us[n] = None THEN created.factor = 1 ELSE us[n].base,
               first |-> us[n] # None /\ us[n].first,
               sold |-> IF telling # {} THEN rows[Max(telling)].sold
                        ELSE IF us[n] = None THEN DefaultIsSellable(created, count) ELSE us[n].sold]]

\* The factor of each unit once the rows are laid over it.
Merged(us, rows) ==
  [n \in Names(rows) \cup {u \in Units : us[u] # None} |->
     IF n \in Names(rows) THEN rows[Max(RowsOf(rows, n))].factor ELSE us[n].factor]

\* Bug: only the units the edit lists are counted, as on a new product.
MayWriteListed(us, rows) == Cardinality({i \in DOMAIN rows : rows[i].factor = 1}) <= 1

\* writeUnits: one base unit in the merged result, and no unit becomes or stops being it.
MayWrite(us, rows) ==
  LET merged == Merged(us, rows)
  IN  /\ Cardinality({n \in DOMAIN merged : merged[n] = 1}) = 1
      /\ \A i \in DOMAIN rows :
           us[rows[i].name] # None => us[rows[i].name].base = (rows[i].factor = 1)

Sold(us) == {u \in Units : us[u] # None /\ us[u].sold}

RequestedFirst(rows) ==
  LET asking == {i \in DOMAIN rows : rows[i].first}
  IN  IF asking = {} THEN None ELSE rows[Min(asking)].name

MaySettle(us, requested) == Sold(us) # {} /\ (requested = None \/ requested \in Sold(us))

Smallest(us, S) == CHOOSE u \in S : \A v \in S : us[u].factor <= us[v].factor
Largest(us, S) == CHOOSE u \in S : \A v \in S : us[v].factor <= us[u].factor

ChooseDefaultSellingUnit(us, requested) ==
  LET current == {u \in Sold(us) : us[u].first}
  IN  IF requested # None THEN requested
      ELSE IF current # {} THEN CHOOSE u \in current : TRUE
      ELSE IF Business = "wholesale" THEN Largest(us, Sold(us)) ELSE Smallest(us, Sold(us))

\* Bug: the till's first unit is settled only when the edit names one.
SettleWhenAsked(us, read, requested) ==
  IF requested = None THEN us
  ELSE [u \in Units |-> IF us[u] = None THEN None ELSE [us[u] EXCEPT !.first = u = requested]]

\* Decided on the units as read, written over the units as they are.
SettleSellingUnits(us, read, requested) ==
  LET chosen == ChooseDefaultSellingUnit(read, requested)
  IN  [u \in Units |-> IF us[u] = None THEN None ELSE [us[u] EXCEPT !.first = u = chosen]]

TillFirstUnit ==
  LET first == {u \in Sold(unit) : unit[u].first}
  IN  IF Sold(unit) = {} THEN None
      ELSE IF first # {} THEN CHOOSE u \in first : TRUE ELSE Smallest(unit, Sold(unit))

-----------------------------------------------------------------------------
(* Prices, options and codes: writePrices, writeOptions, writeBarcodes. *)

KeyOf(row, default) == <<IF row.tier = None THEN default ELSE row.tier, row.unit, row.option>>

\* A list for every price, a unit and an option there for every row, and only an
\* option's own price taken away.
MayPrice(us, os, rows, default) ==
  \A i \in DOMAIN rows :
    /\ us[rows[i].unit] # None /\ (rows[i].tier = None => default # None)
    /\ rows[i].option # None => os[rows[i].option] # None
    /\ rows[i].price = None => rows[i].option # None

\* Bug: the option is left out of what a price is found by.
WritePricesAnyOption(ps, rows, default) ==
  [k \in PriceKeys |->
     LET naming == {i \in DOMAIN rows :
           LET named == KeyOf(rows[i], default)
           IN  named[1] = k[1] /\ named[2] = k[2] /\ (named[3] = k[3] \/ ps[k] # None)}
     IN  IF naming = {} THEN ps[k] ELSE rows[Max(naming)].price]

\* Of the rows that name a price or an option, the last stands.
WritePrices(ps, rows, default) ==
  [k \in PriceKeys |->
     LET naming == {i \in DOMAIN rows : KeyOf(rows[i], default) = k}
     IN  IF naming = {} THEN ps[k] ELSE rows[Max(naming)].price]

WriteOptions(os, rows) ==
  [o \in Options |->
     LET naming == {i \in DOMAIN rows : rows[i].option = o}
     IN  IF naming = {} THEN os[o] ELSE rows[Max(naming)].state]

\* Bug: nobody asks whether an option is left to sell.
MayRetireAll(os, rows) == TRUE

MayOption(os, rows) ==
  LET after == WriteOptions(os, rows)
  IN  (\E o \in Options : after[o] # None) => \E o \in Options : after[o] = "sold"

MayCode(us, os, rows) ==
  \A i \in DOMAIN rows :
    /\ us[rows[i].unit] # None /\ (rows[i].option # None => os[rows[i].option] # None)
    /\ code[rows[i].code] = None
    /\ \A j \in DOMAIN rows : rows[i].code = rows[j].code => i = j

\* Codes attached in the product's own form take the flag from no other code.
WriteBarcodes(cs, rows) ==
  [c \in Codes |->
     LET naming == {i \in DOMAIN rows : rows[i].code = c}
         row == rows[Max(naming)]
     IN  IF naming = {} THEN cs[c] ELSE [unit |-> row.unit, option |-> row.option, primary |-> row.primary]]

\* The transaction's writes, given the units as it read them.
Write(e, read, default) ==
  LET count == Cardinality(DOMAIN Merged(read, e.units))
      written == WriteUnits(unit, e.units, count)
      seen == WriteUnits(read, e.units, count)
  IN  /\ unit' = IF e.units = <<>> THEN unit
                 ELSE SettleSellingUnits(written, seen, RequestedFirst(e.units))
      /\ option' = WriteOptions(option, e.options)
      /\ price' = WritePrices(price, e.prices, default)
      /\ code' = WriteBarcodes(code, e.codes)
      /\ inline' = (inline \/ \E i \in DOMAIN e.codes : e.codes[i].primary)

Acceptable(e, read, default) ==
  LET seen == WriteUnits(read, e.units, Cardinality(DOMAIN Merged(read, e.units)))
      options == WriteOptions(option, e.options)
  IN  /\ e.units # <<>> => MaySettle(seen, RequestedFirst(e.units))
      /\ MayOption(option, e.options)
      /\ MayPrice(seen, options, e.prices, default)
      /\ MayCode(seen, options, e.codes)

DefaultTiers(e) ==
  IF \E i \in DOMAIN e.prices : e.prices[i].tier = None THEN flagged ELSE {None}

-----------------------------------------------------------------------------
Create(e) ==
  /\ ~Exists /\ OneBaseOf(e.units)
  /\ \E default \in DefaultTiers(e) : Acceptable(e, unit, default) /\ Write(e, unit, default)
  /\ base' = e.base
  /\ firstBase' = (CHOOSE n \in Names(e.units) : unit'[n].base)
  /\ Aside /\ UNCHANGED <<flagged, listedTwice, uncleared>>

\* update: the default list is looked up and the product's row written, then the
\* transaction reads the units.
ReadToEdit(r, e) ==
  /\ Exists /\ DefaultTiers(e) # {}
  /\ \E default \in DefaultTiers(e) :
       Take(r, [kind |-> "edit", edit |-> e, read |-> unit, default |-> default])
  /\ base' = IF e.base = None THEN base ELSE e.base
  /\ UNCHANGED <<unit, price, option, code, flagged, firstBase, listedTwice, inline, uncleared>>

MayCommit(ask) ==
  /\ ask.edit.units # <<>> => MayWrite(ask.read, ask.edit.units)
  /\ Acceptable(ask.edit, ask.read, ask.default)

CommitEdit(r) ==
  /\ Asked(r, "edit") /\ MayCommit(doing[r])
  /\ Write(doing[r].edit, doing[r].read, doing[r].default)
  /\ listedTwice' = (listedTwice \/ Cardinality(Names(doing[r].edit.units)) < Len(doing[r].edit.units))
  /\ Finish(r) /\ UNCHANGED <<base, flagged, firstBase, uncleared>>

\* Refused for what it asks, or given up for another edit of the same rows.
RollBackEdit(r) ==
  /\ Asked(r, "edit") /\ (~MayCommit(doing[r]) \/ Cardinality(Busy) > 1)
  /\ Finish(r) /\ UNCHANGED catalogVars

\* BarcodeService.create: the code is written, then the other primaries are cleared.
AttachCode(r, c, u, o, primary) ==
  /\ doing[r] = None /\ code[c] = None /\ unit[u] # None /\ (o # None => option[o] # None)
  /\ \A q \in Busy : Asked(q, "label") => doing[q].keep # c
  /\ code' = [code EXCEPT ![c] = [unit |-> u, option |-> o, primary |-> primary]]
  /\ doing' = [doing EXCEPT ![r] = IF primary THEN [kind |-> "label", keep |-> c, unit |-> u, option |-> o]
                                   ELSE None]
  /\ overlapped' = (overlapped \/ Busy # {})
  /\ UNCHANGED <<unit, base, price, option, flagged, firstBase, listedTwice, inline, uncleared>>

\* Bug: the option is left out, so the codes of every option lose the flag but one of
\* the product as a whole keeps it.
SameLabelOption(d, u, o) == code[d] # None /\ code[d].unit = u /\ code[d].option # None

SameLabel(d, u, o) == code[d] # None /\ code[d].unit = u /\ code[d].option = o

ClearOtherPrimaries(r) ==
  /\ Asked(r, "label")
  /\ LET ask == doing[r]
     IN  code' = [d \in Codes |-> IF d # ask.keep /\ SameLabel(d, ask.unit, ask.option)
                                  THEN [code[d] EXCEPT !.primary = FALSE] ELSE code[d]]
  /\ Finish(r)
  /\ UNCHANGED <<unit, base, price, option, flagged, firstBase, listedTwice, inline, uncleared>>

LabelCutShort(r) ==
  /\ Asked(r, "label") /\ Finish(r) /\ uncleared' = TRUE
  /\ UNCHANGED <<unit, base, price, option, code, flagged, firstBase, listedTwice, inline>>

RemoveCode(c) ==
  /\ code[c] # None
  /\ code' = [code EXCEPT ![c] = None] /\ Aside
  /\ UNCHANGED <<unit, base, price, option, flagged, firstBase, listedTwice, inline, uncleared>>

\* Another price list is made the default, or none is.
FlagTier(tiers) ==
  /\ flagged' = tiers /\ flagged' # flagged /\ Aside
  /\ UNCHANGED <<unit, base, price, option, code, firstBase, listedTwice, inline, uncleared>>

CatalogNext ==
  \/ \E e \in Edits : Create(e) \/ \E r \in Requests : ReadToEdit(r, e)
  \/ \E r \in Requests :
       \/ CommitEdit(r) \/ RollBackEdit(r) \/ ClearOtherPrimaries(r) \/ LabelCutShort(r)
       \/ \E c \in Codes, u \in Units, o \in Options \cup {None}, primary \in BOOLEAN :
            AttachCode(r, c, u, o, primary)
  \/ \E c \in Codes : RemoveCode(c)
  \/ \E tiers \in {{}} \cup {{t} : t \in Tiers} : FlagTier(tiers)

CatalogSpec == DeskInit /\ CatalogInit /\ [][CatalogNext]_<<catalogVars, deskVars>>

-----------------------------------------------------------------------------
(* What one unit costs a buyer: pricing.ts, read by the till and the list. *)

ResolveUnitPrice(t, u, o) ==
  IF t # None /\ o # None /\ price[<<t, u, o>>] # None THEN price[<<t, u, o>>]
  ELSE IF t # None /\ price[<<t, u, None>>] # None THEN price[<<t, u, None>>]
  ELSE IF base = None THEN None ELSE base * unit[u].factor

\* Bug: the list reads the first price there is, whatever list it is on.
ListTierAny ==
  LET rows == {k \in PriceKeys : price[k] # None}
  IN  IF rows = {} THEN None ELSE (CHOOSE k \in rows : TRUE)[1]

\* withTillUnit: the default list is read off the prices the product carries.
ListTier ==
  LET rows == {k \in PriceKeys : price[k] # None /\ k[1] \in flagged}
  IN  IF rows = {} THEN None ELSE (CHOOSE k \in rows : TRUE)[1]

\* tillSearch, scan and resolvePrice look it up.
TillTier == IF flagged = {} THEN None ELSE CHOOSE t \in flagged : TRUE

-----------------------------------------------------------------------------
(* Properties. *)

\* Stock is counted in the unit a product was created with: it stays the one base
\* unit, and stays of factor one, however edits overlap and whatever they list, except
\* that one edit naming a new unit twice can leave a second.
BaseUnitStays ==
  Exists => /\ unit[firstBase].base /\ unit[firstBase].factor = 1
            /\ listedTwice \/ {u \in UnitsThere : unit[u].base \/ unit[u].factor = 1} = {firstBase}

\* The till is always handed one unit, and one it may sell, though an edit that stops
\* selling a unit says nothing of which takes over, while edits do not overlap.
TillUnitIsSold ==
  overlapped \/ (Exists =>
    /\ Cardinality({u \in UnitsThere : unit[u].first}) = 1
    /\ \A u \in UnitsThere : unit[u].first => unit[u].sold)

\* Pricing one option, unit or list leaves every price an edit does not name alone.
OtherPricesStay ==
  \A r \in Requests : Asked(r, "edit") /\ doing'[r] = None =>
    LET e == doing[r].edit
    IN  \A k \in PriceKeys : price'[k] # price[k] =>
          \E i \in DOMAIN e.prices : KeyOf(e.prices[i], doing[r].default) = k

\* A products list shows the price of the unit a cashier is handed and what a walk-in
\* is charged for it, though the two find the default price list in different ways.
ListShowsTillPrice ==
  Exists /\ TillFirstUnit # None =>
    ResolveUnitPrice(ListTier, TillFirstUnit, None) = ResolveUnitPrice(TillTier, TillFirstUnit, None)

\* A product with options keeps one that is on sale, while edits do not overlap.
SomeOptionOnSale ==
  overlapped \/ (\A o \in Options : option[o] = None) \/ \E o \in Options : option[o] = "sold"

\* One code to print on a label of each unit and option, once every request that set
\* one has cleared the others, unless the product's own form set it, which clears none.
OneLabel ==
  inline \/ uncleared \/ (\E r \in Requests : Asked(r, "label")) \/
  \A c, d \in Codes : c # d /\ code[c] # None /\ code[d] # None /\ code[c].primary /\ code[d].primary
    => <<code[c].unit, code[c].option>> # <<code[d].unit, code[d].option>>

\* Whatever is edited, the till is left with something to sell at the price shown.
CatalogFitsTheTill ==
  [][/\ BaseUnitStays' /\ TillUnitIsSold' /\ ListShowsTillPrice'
     /\ SomeOptionOnSale' /\ OneLabel' /\ OtherPricesStay]_<<catalogVars, deskVars>>
=============================================================================
