------------------------------ MODULE OnceOnly ------------------------------
(***************************************************************************)
(* What an Idempotency-Key promises, with nothing said about how: the work *)
(* behind one key is performed at most once, and every caller that gets an *)
(* answer gets the answer of that one performance.  A caller may also get  *)
(* no answer at all.  Idempotency.tla implements this.                     *)
(***************************************************************************)
CONSTANTS Requests,  \* the attempts made with one key
          Nobody     \* no request

VARIABLES performed, \* the request whose handler did the work, or Nobody
          told       \* whose answer each request was given, or Nobody

vars == <<performed, told>>

Init ==
  /\ performed = Nobody
  /\ told = [r \in Requests |-> Nobody]

Perform(r) ==
  /\ performed = Nobody
  /\ performed' = r
  /\ UNCHANGED told

Tell(r) ==
  /\ performed # Nobody
  /\ told[r] = Nobody
  /\ told' = [told EXCEPT ![r] = performed]
  /\ UNCHANGED performed

Next == \E r \in Requests : Perform(r) \/ Tell(r)

Spec == Init /\ [][Next]_vars
=============================================================================
