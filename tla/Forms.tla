------------------------------- MODULE Forms --------------------------------
(***************************************************************************)
(* The recording forms of the web client: one form of one kind, filled in, *)
(* checked where it is checked, saved, left, brought back and opened       *)
(* again, by one person in one browser.  A request reaches the server when *)
(* it likes, or not at all, and its answer may be given up on while the    *)
(* server still works: api.post mints a new Idempotency-Key each time, so  *)
(* what makes two attempts one is what the form itself sends along.        *)
(*                                                                         *)
(* What is typed is told apart only by its version.  A form opened blank   *)
(* is for another matter: nobody enters a thing again on purpose.          *)
(***************************************************************************)
EXTENDS Integers, FiniteSets

CONSTANTS
  FormKinds,     \* the forms to follow, a set of Form
  MaxForms,      \* bound on forms opened
  MaxPresses,    \* bound on presses of Save or Check
  MaxTyping,     \* bound on what is typed, over all forms
  Blank          \* no form, no draft, no check, no id

Form ==
  [mints : {"form", "attempt", "never"},       \* when the id sent along is minted
   known : {"id", "name", "entry", "no"},      \* what the server knows a repeat by
   repeat : {"refused", "done", "rewritten"},  \* what it makes of one
   keeps : BOOLEAN,    \* what is typed is kept in the browser
   checks : BOOLEAN,   \* Save comes after a Check by the server
   stages : 1..2,      \* requests one Save makes, one after the other
   page : BOOLEAN,     \* the request is the page's and outlives the dialog
   locks : BOOLEAN]    \* the fields are locked while it is under way

VARIABLES
  form,       \* its kind
  screen,     \* what is on the screen, or Blank
  draft,      \* what the browser keeps, or Blank
  calls,      \* requests the server or the browser is not done with
  entries,    \* what the server has recorded
  opened, pressed, typing,    \* forms, presses and edits so far
  gaveUp,     \* matters of which the answer to a request was given up on
  saidSaved,  \* what the person was told is saved
  begun,      \* matters something was typed about
  dropped,    \* matters the person let go of
  crossed,    \* matters something was typed about while they were checked
  swept       \* matters swept away by the late answer about another

history == <<opened, pressed, typing, gaveUp, saidSaved, begun, dropped, crossed, swept>>
formVars == <<form, screen, draft, calls, entries, history>>

Matters == 1..MaxForms
Version == 0..MaxTyping
Ids == ({"form"} \X Matters) \cup ({"attempt"} \X (1..MaxPresses)) \cup {Blank}
Screen == [mount : Matters, matter : Matters, id : Ids, typed : Version,
           checked : Version \cup {Blank}, saved : BOOLEAN]
Draft == [matter : Matters, id : Ids, typed : Version]
Call == [n : 1..MaxPresses, mount : Matters, matter : Matters, id : Ids, typed : Version,
         checked : Version \cup {Blank}, does : {"check", "save", "openStock"},
         at : {"server", "accepted", "refused"}, awaited : BOOLEAN]
Entry == [n : 1..MaxPresses, matter : Matters, does : {"save", "openStock"}, id : Ids, typed : Version]

FormsTypeOK ==
  /\ form \in FormKinds /\ screen \in Screen \cup {Blank} /\ draft \in Draft \cup {Blank}
  /\ calls \subseteq Call /\ entries \subseteq Entry
  /\ opened \in 0..MaxForms /\ pressed \in 0..MaxPresses /\ typing \in Version
  /\ saidSaved \subseteq Matters \X Version
  /\ gaveUp \cup begun \cup dropped \cup crossed \cup swept \subseteq Matters

FormsInit ==
  /\ form \in FormKinds
  /\ screen = Blank /\ draft = Blank /\ calls = {} /\ entries = {}
  /\ opened = 0 /\ pressed = 0 /\ typing = 0
  /\ gaveUp = {} /\ saidSaved = {} /\ begun = {} /\ dropped = {} /\ crossed = {} /\ swept = {}

-----------------------------------------------------------------------------
(* The kinds of form. *)

\* An id is minted for each attempt and nothing else tells two apart.
PerAttempt == [mints |-> "attempt", known |-> "no", repeat |-> "refused", keeps |-> FALSE,
               checks |-> FALSE, stages |-> 1, page |-> FALSE, locks |-> FALSE]
SpendingForm == PerAttempt
CustomerForm == PerAttempt

\* The request belongs to the page behind the dialog, which locks its fields.
OfThePage == [PerAttempt EXCEPT !.page = TRUE, !.locks = TRUE]
RecordPaymentForm == OfThePage
PaySupplierForm == OfThePage
RefundForm == OfThePage
ReturnForm == OfThePage

\* What is entered has a name of its own, or is one to a vendor and a month.
Named == [PerAttempt EXCEPT !.known = "name"]
AccountForm == Named
LocationForm == Named
SupplierForm == Named
PurchaseTargetForm == Named
MoneyTargetForm == Named

\* The id is minted with the form and is the key of the row it makes.
PerForm == [PerAttempt EXCEPT !.mints = "form", !.known = "id"]
AdjustForm == PerForm
BankingForm == PerForm
DeliveryForm == [PerForm EXCEPT !.keeps = TRUE]
ProductForm == [PerForm EXCEPT !.stages = 2]

\* The id of a transfer is its transferGroupId, which no row is unique by.
TransferForm == [PerForm EXCEPT !.known = "no"]

\* Corrections: one asks whether its id is there already, one has no id and
\* puts down what is true of each line, whatever was there.
SaleCorrectionForm == [PerForm EXCEPT !.checks = TRUE, !.repeat = "done"]
DeliveryCorrectionForm ==
  [PerAttempt EXCEPT !.mints = "never", !.known = "entry", !.checks = TRUE, !.repeat = "rewritten"]

AllForms ==
  {SpendingForm, CustomerForm, RecordPaymentForm, PaySupplierForm, RefundForm, ReturnForm,
   AccountForm, LocationForm, SupplierForm, PurchaseTargetForm, MoneyTargetForm,
   AdjustForm, BankingForm, DeliveryForm, ProductForm, TransferForm,
   SaleCorrectionForm, DeliveryCorrectionForm}

ASSUME FormsAssumption ==
  /\ FormKinds \subseteq AllForms
  /\ MaxForms \in Nat /\ MaxPresses \in Nat /\ MaxTyping \in Nat
  /\ Blank \notin Nat /\ Blank \notin Screen /\ Blank \notin Draft

-----------------------------------------------------------------------------
(* Plausible bugs, each to stand in for the operator it is named after. *)

\* The button does not wait for the answer.
NeverBusy == FALSE

\* The id is not kept with the draft.
RestoredAnew(m) ==
  [mount |-> m, matter |-> draft.matter, id |-> <<"form", m>>, typed |-> draft.typed,
   checked |-> Blank, saved |-> FALSE]

\* What was checked is kept when something is typed.
TypedOver(v) == [screen EXCEPT !.typed = v]

\* Any answer to a save throws the kept copy away.
DraftGoneWithAny(c) == Blank

\* A refusal shuts the form as an answer does.
ShutByAny(c) == c.does # "check"

-----------------------------------------------------------------------------
(* The person and the browser. *)

\* Something the screen waits for: its own mutation, or the page's.
Busy == \E c \in calls : c.awaited /\ (form.page \/ c.mount = screen.mount)

NewScreen(m) == [mount |-> m, matter |-> m, id |-> IF form.mints = "form" THEN <<"form", m>> ELSE Blank,
                 typed |-> 0, checked |-> Blank, saved |-> FALSE]

\* The kept copy is handed back with the id it was kept with.
Restored(m) == [mount |-> m, matter |-> draft.matter, id |-> draft.id, typed |-> draft.typed,
                checked |-> Blank, saved |-> FALSE]

OpenForm ==
  /\ screen = Blank /\ opened < MaxForms
  /\ opened' = opened + 1
  /\ screen' = IF draft = Blank THEN NewScreen(opened') ELSE Restored(opened')
  /\ UNCHANGED <<form, draft, calls, entries, pressed, typing, gaveUp, saidSaved, begun, dropped, crossed, swept>>

\* Changing anything clears the check.
Typed(v) == [screen EXCEPT !.typed = v, !.checked = Blank]

TypeIn ==
  /\ screen # Blank /\ typing < MaxTyping
  /\ form.locks => ~Busy
  /\ typing' = typing + 1
  /\ screen' = Typed(typing')
  /\ draft' = IF form.keeps THEN [matter |-> screen.matter, id |-> screen.id, typed |-> typing']
              ELSE draft
  /\ begun' = begun \cup {screen.matter}
  /\ crossed' = IF \E c \in calls : c.awaited /\ c.does = "check" /\ c.mount = screen.mount
                THEN crossed \cup {screen.matter} ELSE crossed
  /\ UNCHANGED <<form, calls, entries, opened, pressed, gaveUp, saidSaved, dropped, swept>>

\* What the next press asks for.
NextRequest ==
  IF form.checks /\ screen.checked = Blank THEN "check"
  ELSE IF screen.saved THEN "openStock" ELSE "save"

IdSent == IF form.mints = "attempt" THEN <<"attempt", pressed + 1>> ELSE screen.id

Press ==
  /\ screen # Blank /\ screen.typed # 0 /\ ~Busy /\ pressed < MaxPresses
  /\ pressed' = pressed + 1
  /\ calls' = calls \cup
       {[n |-> pressed + 1, mount |-> screen.mount, matter |-> screen.matter, id |-> IdSent,
         typed |-> screen.typed, checked |-> screen.checked, does |-> NextRequest,
         at |-> "server", awaited |-> TRUE]}
  /\ UNCHANGED <<form, screen, draft, entries, opened, typing, gaveUp, saidSaved, begun, dropped, crossed, swept>>

\* The x of a dialog, or another page; neither waits for what is under way.
Leave ==
  /\ screen # Blank
  /\ screen' = Blank
  /\ UNCHANGED <<form, draft, calls, entries, history>>

\* Leaving on purpose throws the kept copy away.
CancelForm ==
  /\ form.keeps /\ screen # Blank
  /\ screen' = Blank /\ draft' = Blank
  /\ dropped' = dropped \cup {screen.matter}
  /\ UNCHANGED <<form, calls, entries, opened, pressed, typing, gaveUp, saidSaved, begun, crossed, swept>>

Awaited == {c \in calls : c.awaited}

\* The page is loaded again: only what the browser keeps is left, and nobody
\* hears the answers.
Reload ==
  /\ screen # Blank \/ Awaited # {}
  /\ screen' = Blank
  /\ calls' = {[c EXCEPT !.awaited = FALSE] : c \in {d \in calls : d.at = "server"}}
  /\ gaveUp' = gaveUp \cup {c.matter : c \in Awaited}
  /\ UNCHANGED <<form, draft, entries, opened, pressed, typing, saidSaved, begun, dropped, crossed, swept>>

-----------------------------------------------------------------------------
(* The server. *)

\* What the server has of this already, by what it knows it by.
Already(c) ==
  {e \in entries :
     /\ e.does = c.does
     /\ IF c.does = "openStock" THEN e.matter = c.matter
        ELSE CASE form.known = "id" -> e.id = c.id
               [] form.known = "name" -> e.matter = c.matter /\ e.typed = c.typed
               [] form.known = "entry" -> e.matter = c.matter
               [] form.known = "no" -> FALSE}

\* The server has dealt with the request, whether or not anybody still waits.
Dealt(c, how) ==
  calls' = (calls \ {c}) \cup (IF c.awaited THEN {[c EXCEPT !.at = how]} ELSE {})

Record(c) ==
  /\ Already(c) = {}
  /\ entries' = entries \cup
       {[n |-> c.n, matter |-> c.matter, does |-> c.does, id |-> c.id, typed |-> c.typed]}
  /\ Dealt(c, "accepted")

\* A correction of what is there puts down what is true now.
Rewrite(c) ==
  /\ form.repeat = "rewritten" /\ \E e \in Already(c) : e.typed # c.typed
  /\ entries' = (entries \ Already(c)) \cup {[e EXCEPT !.typed = c.typed] : e \in Already(c)}
  /\ Dealt(c, "accepted")

\* A check is the real thing rolled back, and a correction with an id the
\* server has is taken for done.
Agree(c) ==
  /\ c.does = "check" \/ (form.repeat = "done" /\ Already(c) # {})
  /\ Dealt(c, "accepted") /\ UNCHANGED entries

\* A rule refuses it, or the key of what is there already: a correction that
\* was asked about before another attempt was in meets its key too.
Refuse(c) ==
  /\ Already(c) # {} => c.does # "check" /\ (form.repeat = "rewritten" => \A e \in Already(c) : e.typed = c.typed)
  /\ Dealt(c, "refused") /\ UNCHANGED entries

Serve(c) ==
  /\ c.at = "server"
  /\ (c.does # "check" /\ Record(c)) \/ Rewrite(c) \/ Agree(c) \/ Refuse(c)
  /\ UNCHANGED <<form, screen, draft, history>>

-----------------------------------------------------------------------------
(* The answers. *)

\* The save is complete, and the page shuts the form: the one on the screen.
Shut(c) == c.at = "accepted" /\ c.does # "check" /\ (form.stages = 2 => c.does = "openStock")

\* The product is in and its stock is next, if the form is still there or not.
GoOn(c) == c.at = "accepted" /\ c.does = "save" /\ form.stages = 2

OnScreen(c) == screen # Blank /\ screen.mount = c.mount

Others(c) == ((IF screen = Blank THEN {} ELSE {screen.matter})
              \cup (IF draft = Blank THEN {} ELSE {draft.matter})) \ {c.matter}

\* The kept copy is thrown away the moment the server has accepted it.
DraftAfter(c) == IF Shut(c) THEN Blank ELSE draft

Answer(c) ==
  /\ c.awaited /\ c.at # "server"
  /\ calls' = (calls \ {c}) \cup (IF GoOn(c) THEN {[c EXCEPT !.does = "openStock", !.at = "server"]} ELSE {})
  /\ screen' = CASE Shut(c) -> Blank
                 [] GoOn(c) /\ OnScreen(c) -> [screen EXCEPT !.saved = TRUE]
                 [] c.does = "check" /\ c.at = "accepted" /\ OnScreen(c) -> [screen EXCEPT !.checked = c.typed]
                 [] OTHER -> screen
  /\ draft' = DraftAfter(c)
  /\ saidSaved' = IF Shut(c) THEN saidSaved \cup {<<c.matter, c.typed>>} ELSE saidSaved
  /\ swept' = IF Shut(c) THEN swept \cup Others(c) ELSE swept
  /\ UNCHANGED <<form, entries, opened, pressed, typing, gaveUp, begun, dropped, crossed>>

\* The connection is lost: the form says so and stays as it is, and the server
\* may have done it, be doing it or never hear of it.
GiveUp(c) ==
  /\ c.awaited
  /\ calls' = (calls \ {c}) \cup (IF c.at = "server" THEN {[c EXCEPT !.awaited = FALSE]} ELSE {})
  /\ gaveUp' = gaveUp \cup {c.matter}
  /\ UNCHANGED <<form, screen, draft, entries, opened, pressed, typing, saidSaved, begun, dropped, crossed, swept>>

-----------------------------------------------------------------------------
FormsNext ==
  \/ OpenForm \/ TypeIn \/ Press \/ Leave \/ CancelForm \/ Reload
  \/ \E c \in calls : Serve(c) \/ Answer(c) \/ GiveUp(c)

FormsSpec == FormsInit /\ [][FormsNext]_formVars

-----------------------------------------------------------------------------
(* What a form promises. *)

EntriesOf(m, does) == {e \in entries : e.matter = m /\ e.does = does}

\* However often a form is sent, left and come back to, what it is about is
\* recorded once; only where an answer was given up on and the server cannot
\* tell the next attempt is another may it be there twice.
RecordedOnce ==
  \A m \in Matters, does \in {"save", "openStock"} :
    \/ Cardinality(EntriesOf(m, does)) <= 1
    \/ m \in gaveUp /\ form.known \in {"name", "no"}

\* A form that shuts as saved is in the books with the figures it sent, and a
\* product is there with its stock - unless an attempt that was given up on got
\* there first, or later, and the correction cannot be told from it.
ToldIsRecorded ==
  \A t \in saidSaved :
    \/ /\ \E e \in entries : e.matter = t[1] /\ e.typed = t[2]
       /\ form.stages = 2 => EntriesOf(t[1], "save") # {} /\ EntriesOf(t[1], "openStock") # {}
    \/ t[1] \in gaveUp /\ form.repeat # "refused"

\* What a correction saves is what the server checked, unless something was
\* typed while it was checking.
SavedAsChecked ==
  \A c \in calls : form.checks /\ c.does = "save" => c.checked = c.typed \/ c.matter \in crossed

\* What was typed into a form that is kept comes back until it is recorded or
\* let go of, and is gone as soon as the server has accepted it - unless the
\* late answer about another sweeps it away.
TypingIsKept ==
  form.keeps =>
    /\ \A m \in begun \ (dropped \cup swept \cup {t[1] : t \in saidSaved}) :
         \/ screen # Blank /\ screen.matter = m
         \/ draft # Blank /\ draft.matter = m /\ draft.typed # 0
    /\ draft # Blank => draft.matter \notin {t[1] : t \in saidSaved}

\* A form makes one entry, the one it says it made.
FormMakesOneEntry == RecordedOnce /\ ToldIsRecorded

\* A form saves what was checked and keeps what was typed.
FormKeepsWhatIsTyped == SavedAsChecked /\ TypingIsKept

-----------------------------------------------------------------------------
(* What the comments say without reservation. *)

\* TransferDialog.tsx: "One transfer, however many attempts it takes."
OneTransferHoweverManyAttempts ==
  form = TransferForm => \A m \in Matters : Cardinality(EntriesOf(m, "save")) <= 1

\* CorrectDeliveryDialog.tsx: "Changing anything clears the check."
ChangingClearsTheCheck ==
  screen # Blank /\ screen.checked # Blank => screen.checked = screen.typed
=============================================================================
