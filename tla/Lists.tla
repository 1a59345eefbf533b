-------------------------------- MODULE Lists --------------------------------
(***************************************************************************)
(* The shop's lists with a default entry (catalog/price-tier.service.ts,   *)
(* inventory/location.service.ts, payments/bank-account.service.ts): which *)
(* entry is the default, which may be removed, and what is recorded        *)
(* against an entry meanwhile.  The default is set in one statement and    *)
(* the others are cleared in a second one, outside a transaction.  Names,  *)
(* order and whether an account is active are left out.                    *)
(***************************************************************************)
EXTENDS Desk, Integers, FiniteSetsExt

CONSTANTS
  Entries,
  KindOf,      \* of each entry: "tier", "location" or "account"
  FirstDefaults,  \* the entries a business starts with, each the default of its kind
  Goods,       \* products stocked at locations
  MaxGoods     \* bound: of one product at one location, above or below nothing

\* A business starts with one default of a kind at most.
ASSUME ListsAssumption ==
  /\ IsFiniteSet(Entries) /\ IsFiniteSet(Goods)
  /\ KindOf \in [Entries -> {"tier", "location", "account"}]
  /\ FirstDefaults \subseteq Entries /\ MaxGoods \in Nat
  /\ \A e, f \in FirstDefaults : KindOf[e] = KindOf[f] => e = f
  /\ None \notin [live : BOOLEAN, default : BOOLEAN] \cup [kind : {"clear"}, keep : Entries]

VARIABLES
  entry,       \* of each entry: whether live and whether flagged the default, or None
  goods,       \* what each location holds
  bankedInto,  \* accounts some customer payment names
  switchedOff, \* history: kinds whose default was taken away by name
  cut          \* history: a request ended between its two statements

listsVars == <<entry, goods, bankedInto, switchedOff, cut>>

ListsTypeOK ==
  /\ \A e \in Entries : entry[e] = None \/ entry[e] \in [live : BOOLEAN, default : BOOLEAN]
  /\ goods \in [Entries -> [Goods -> -MaxGoods..MaxGoods]]
  /\ bankedInto \subseteq Entries /\ cut \in BOOLEAN

ListsInit ==
  /\ entry = [e \in Entries |-> IF e \in FirstDefaults THEN [live |-> TRUE, default |-> TRUE] ELSE None]
  /\ goods = [e \in Entries |-> [g \in Goods |-> 0]]
  /\ bankedInto = {} /\ switchedOff = {} /\ cut = FALSE

Live(e) == entry[e] # None /\ entry[e].live
Alike(e) == {f \in Entries : KindOf[f] = KindOf[e] /\ entry[f] # None}
Defaults(kind) == {e \in Entries : KindOf[e] = kind /\ entry[e] # None /\ entry[e].default}

-----------------------------------------------------------------------------
(* create and update. *)

\* Flags that come of a write, and the second statement if the entry is the default.
ThenClear(r, e) ==
  IF entry'[e].default
  THEN doing' = [doing EXCEPT ![r] = [kind |-> "clear", keep |-> e]]
  ELSE doing' = [doing EXCEPT ![r] = None]

Insert(r, e, default) ==
  /\ doing[r] = None /\ entry[e] = None
  /\ entry' = [entry EXCEPT ![e] = [live |-> TRUE, default |-> default]]
  /\ ThenClear(r, e) /\ overlapped' = (overlapped \/ Busy # {})
  /\ UNCHANGED <<goods, bankedInto, switchedOff, cut>>

\* A location whose name was buried is brought back, with the flag it had.
FindBuried(r, e) ==
  /\ KindOf[e] = "location" /\ entry[e] # None /\ ~entry[e].live
  /\ Take(r, [kind |-> "revive", entry |-> e])
  /\ UNCHANGED listsVars

Revive(r) ==
  /\ Asked(r, "revive")
  /\ entry' = [entry EXCEPT ![doing[r].entry].live = TRUE]
  /\ Finish(r) /\ UNCHANGED <<goods, bankedInto, switchedOff, cut>>

\* default is what the request says of the flag, or None.
FindToUpdate(r, e, default) ==
  /\ Live(e)
  /\ Take(r, [kind |-> "update", entry |-> e, default |-> default])
  /\ UNCHANGED listsVars

Written(ask) == IF ask.default = None THEN entry[ask.entry].default ELSE ask.default

Switched(ask) ==
  IF entry[ask.entry].default /\ ~Written(ask) THEN switchedOff \cup {KindOf[ask.entry]} ELSE switchedOff

\* Bug: only a new entry takes the flag from the others.
UpdateLeavesOthers(r) ==
  /\ Asked(r, "update")
  /\ entry' = [entry EXCEPT ![doing[r].entry].default = Written(doing[r])]
  /\ switchedOff' = Switched(doing[r])
  /\ Finish(r) /\ UNCHANGED <<goods, bankedInto, cut>>

Update(r) ==
  /\ Asked(r, "update")
  /\ entry' = [entry EXCEPT ![doing[r].entry].default = Written(doing[r])]
  /\ switchedOff' = Switched(doing[r])
  /\ ThenClear(r, doing[r].entry) /\ UNCHANGED <<overlapped, goods, bankedInto, cut>>

\* clearOtherDefaults, demoteOtherDefaults: removed entries included.
ClearOtherDefaults(r) ==
  /\ Asked(r, "clear")
  /\ entry' = [e \in Entries |->
       IF e # doing[r].keep /\ e \in Alike(doing[r].keep) THEN [entry[e] EXCEPT !.default = FALSE]
       ELSE entry[e]]
  /\ Finish(r) /\ UNCHANGED <<goods, bankedInto, switchedOff, cut>>

\* The server goes down, or the database does not answer, between the two.
CutShort(r) ==
  /\ Asked(r, "clear") /\ cut' = TRUE
  /\ Finish(r) /\ UNCHANGED <<entry, goods, bankedInto, switchedOff>>

-----------------------------------------------------------------------------
(* remove. *)

\* Bugs: the default may go; an account's payments are not counted.
RemovableDefault(e) ==
  CASE KindOf[e] = "location" -> MapThenSumSet(LAMBDA g : goods[e][g], Goods) = 0
    [] KindOf[e] = "tier" -> TRUE
    [] OTHER -> e \notin bankedInto

RemovableUncounted(e) ==
  CASE KindOf[e] = "location" -> ~entry[e].default /\ MapThenSumSet(LAMBDA g : goods[e][g], Goods) = 0
    [] KindOf[e] = "tier" -> ~entry[e].default
    [] OTHER -> TRUE

\* Quantities are summed over every product, so some below zero make up for others.
Removable(e) ==
  CASE KindOf[e] = "location" -> ~entry[e].default /\ MapThenSumSet(LAMBDA g : goods[e][g], Goods) = 0
    [] KindOf[e] = "tier" -> ~entry[e].default
    [] OTHER -> e \notin bankedInto

FindToDelete(r, e) ==
  /\ Live(e) /\ Removable(e)
  /\ Take(r, [kind |-> "delete", entry |-> e])
  /\ UNCHANGED listsVars

Delete(r) ==
  /\ Asked(r, "delete")
  /\ entry' = [entry EXCEPT ![doing[r].entry].live = FALSE]
  /\ Finish(r) /\ UNCHANGED <<goods, bankedInto, switchedOff, cut>>

-----------------------------------------------------------------------------
(* What is recorded against an entry. *)

\* resolveDefaultId: the default, or when none is flagged any location there is.
DefaultPlaces ==
  LET places == {e \in Entries : KindOf[e] = "location" /\ Live(e)}
      flagged == {e \in places : entry[e].default}
  IN  IF flagged # {} THEN flagged ELSE places

\* A movement names a live location, or none.
ChoosePlace(r, e, g, q) ==
  /\ KindOf[e] = "location" /\ (Live(e) \/ e \in DefaultPlaces)
  /\ Take(r, [kind |-> "move", entry |-> e, goods |-> g, quantity |-> q])
  /\ UNCHANGED listsVars

MoveGoods(r) ==
  /\ Asked(r, "move")
  /\ goods' = [goods EXCEPT ![doing[r].entry][doing[r].goods] = @ + doing[r].quantity]
  /\ goods'[doing[r].entry][doing[r].goods] \in -MaxGoods..MaxGoods
  /\ Finish(r) /\ UNCHANGED <<entry, bankedInto, switchedOff, cut>>

ChooseAccount(r, e) ==
  /\ KindOf[e] = "account" /\ Live(e)
  /\ Take(r, [kind |-> "pay", entry |-> e])
  /\ UNCHANGED listsVars

RecordPaymentInto(r) ==
  /\ Asked(r, "pay") /\ bankedInto' = bankedInto \cup {doing[r].entry}
  /\ Finish(r) /\ UNCHANGED <<entry, goods, switchedOff, cut>>

ListsNext ==
  \E r \in Requests :
    \/ \E e \in Entries :
         \/ \E default \in BOOLEAN : Insert(r, e, default)
         \/ \E default \in BOOLEAN \cup {None} : FindToUpdate(r, e, default)
         \/ FindBuried(r, e) \/ FindToDelete(r, e) \/ ChooseAccount(r, e)
         \/ \E g \in Goods, q \in {-1, 1} : ChoosePlace(r, e, g, q)
    \/ Revive(r) \/ Update(r) \/ ClearOtherDefaults(r) \/ CutShort(r) \/ Delete(r)
    \/ MoveGoods(r) \/ RecordPaymentInto(r)

ListsSpec == DeskInit /\ ListsInit /\ [][ListsNext]_<<deskVars, listsVars>>

-----------------------------------------------------------------------------
(* Properties. *)

Clearing(kind) == \E r \in Requests : Asked(r, "clear") /\ KindOf[doing[r].keep] = kind

\* However the two statements of several requests interleave, a list has no second
\* default once every request that set one has cleared the others: the statement
\* that clears last leaves only its own.
OneDefaultAtMost ==
  cut \/ \A kind \in {"tier", "location", "account"} :
    Clearing(kind) \/ Cardinality(Defaults(kind)) <= 1

\* There is always a price list and a location to fall back on, and it is one that
\* can be seen, unless an update says of the default that it is not, or two requests
\* that set one overlap and each clears the other's.
DefaultRemains ==
  overlapped \/ \A kind \in {"tier", "location"} \ switchedOff :
    \/ FirstDefaults \cap {e \in Entries : KindOf[e] = kind} = {}
    \/ \E e \in Defaults(kind) : Live(e)

\* What a removed location still holds nets to nothing, and no payment names an
\* account that was removed, while requests do not overlap.
NothingBehindTheRemoved ==
  overlapped \/ \A e \in Entries : entry[e] # None /\ ~entry[e].live =>
    e \notin bankedInto /\ MapThenSumSet(LAMBDA g : goods[e][g], Goods) = 0

\* A list keeps one default, and nothing stays behind what is taken off it.
ListsKeepADefault == OneDefaultAtMost /\ DefaultRemains /\ NothingBehindTheRemoved
=============================================================================
