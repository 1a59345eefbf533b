-------------------------------- MODULE Desk --------------------------------
(***************************************************************************)
(* The handlers of the office services (cash, staff, customers, lists,     *)
(* catalogue) as the server runs them: each reads what it decides on, and  *)
(* writes afterwards, in a statement or a transaction of its own, while    *)
(* others do the same.  A handler that refuses changes nothing, so only    *)
(* those that pass their checks are taken up here.                         *)
(***************************************************************************)
EXTENDS Naturals, FiniteSets

CONSTANTS
  Requests,    \* the handlers that may be under way at once
  None         \* no value

VARIABLES
  doing,       \* of each request: what it was asked and what it read, or None
  overlapped   \* some request was under way while something else happened

deskVars == <<doing, overlapped>>

DeskInit == doing = [r \in Requests |-> None] /\ overlapped = FALSE

Busy == {r \in Requests : doing[r] # None}

\* The reads of a handler that passes its checks.
Take(r, read) ==
  /\ doing[r] = None
  /\ doing' = [doing EXCEPT ![r] = read]
  /\ overlapped' = (overlapped \/ Busy # {})

\* A handler of another part of the program runs from start to end.
Aside == UNCHANGED doing /\ overlapped' = (overlapped \/ Busy # {})

\* The write a handler ends with, and one it goes on from.
Finish(r) == doing' = [doing EXCEPT ![r] = None] /\ UNCHANGED overlapped
GoOn(r, step) == doing' = [doing EXCEPT ![r].step = step] /\ UNCHANGED overlapped

Asked(r, kind) == doing[r] # None /\ doing[r].kind = kind
=============================================================================
