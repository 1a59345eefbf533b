---------------------------- MODULE Idempotency -----------------------------
(***************************************************************************)
(* The idempotency interceptor and the housekeeping sweep, for one key of  *)
(* one organisation.  Every request in Requests carries that key: they are *)
(* the first attempt and its retries.  Each database statement is a step,  *)
(* so requests interleave between the insert, the read, the takeover, the  *)
(* handler's commit and the storing of the answer.                         *)
(***************************************************************************)
EXTENDS Integers, Sequences

CONSTANTS Requests,      \* attempts that carry the key
          BodyOf,        \* [Requests -> what identifies the call: endpoint and body hash]
          Nobody,        \* stands for no request and no row
          StaleClaim,    \* STALE_CLAIM_MS, in ticks
          Retention,     \* RETENTION_HOURS, in ticks
          MaxClock,      \* bound on the clock
          Regimes        \* the circumstances to consider, see Regime

AllFaults == {"dies_before_commit", "dies_after_commit", "store_fails", "release_fails", "slow"}

\* Which faults may happen, and whether the row the handler inserts carries the
\* client's own id (a sale or a payment does, opening stock does not).
Regime == [faults : SUBSET AllFaults, ownId : BOOLEAN]

\* A stored IdempotencyKey row: answer is the request whose response it holds.
Row == [id : Nat, body : {BodyOf[r] : r \in Requests}, answer : Requests \cup {Nobody},
        createdAt : Nat, expiresAt : Nat]

ASSUME NobodyAssumption == Nobody \notin Requests /\ Nobody \notin Row
ASSUME TimesAssumption == /\ StaleClaim \in Nat \ {0}
                          /\ Retention \in Nat
                          /\ MaxClock \in Nat
                          /\ StaleClaim <= Retention
ASSUME RegimesAssumption == Regimes \subseteq Regime

VARIABLES
  regime,    \* the circumstances of this behaviour, never changed
  clock,     \* Date.now(), in ticks
  row,       \* the IdempotencyKey row, or Nobody
  rows,      \* how many rows have been inserted: the next row's id
  pc,        \* where each request is
  attempt,   \* the attempt argument of claim()
  claimId,   \* the row id a request holds or has read
  readAt,    \* the createdAt a request has read, or was given
  effects,   \* the requests whose handler committed, in order
  told       \* whose answer each request was given

vars == <<regime, clock, row, rows, pc, attempt, claimId, readAt, effects, told>>

Running == {"handle", "store", "release"}          \* holds a claim
Ended == {"answered", "refused", "failed", "dead"}

Faults == regime.faults
OwnId == regime.ownId

TypeOK ==
  /\ regime \in Regimes
  /\ clock \in 0..MaxClock
  /\ row # Nobody => row \in Row /\ row.id <= rows /\ row.createdAt <= clock
  /\ rows \in Nat
  /\ pc \in [Requests -> {"new", "insert", "find", "takeover"} \cup Running \cup Ended]
  /\ attempt \in [Requests -> 1..2]
  /\ claimId \in [Requests -> 0..rows]
  /\ readAt \in [Requests -> 0..MaxClock]
  /\ effects \in Seq(Requests)
  /\ told \in [Requests -> Requests \cup {Nobody}]

Init ==
  /\ regime \in Regimes
  /\ clock = 0
  /\ row = Nobody
  /\ rows = 0
  /\ pc = [r \in Requests |-> "new"]
  /\ attempt = [r \in Requests |-> 1]
  /\ claimId = [r \in Requests |-> 0]
  /\ readAt = [r \in Requests |-> 0]
  /\ effects = <<>>
  /\ told = [r \in Requests |-> Nobody]

\* The row is the one r claimed or read.
RowIs(r) == row # Nobody /\ row.id = claimId[r]

Go(r, where) == pc' = [pc EXCEPT ![r] = where]

-----------------------------------------------------------------------------
(* Plausible bugs, for the mutation of the actions below. *)

\* The takeover does not look at createdAt: two waiters both win.
TakeoverUnguarded(r) ==
  /\ pc[r] = "takeover"
  /\ IF RowIs(r) /\ row.answer = Nobody
     THEN /\ row' = [row EXCEPT !.createdAt = clock]
          /\ readAt' = [readAt EXCEPT ![r] = clock]
          /\ Go(r, "handle")
     ELSE Go(r, "refused") /\ UNCHANGED <<row, readAt>>
  /\ UNCHANGED <<regime, clock, rows, attempt, claimId, effects, told>>

\* The vanished row is chased for ever.
FindGoneUnbounded(r) ==
  /\ pc[r] = "find"
  /\ row = Nobody
  /\ Go(r, "insert")
  /\ attempt' = [attempt EXCEPT ![r] = @ + 1]
  /\ UNCHANGED <<regime, clock, row, rows, claimId, readAt, effects, told>>

\* The stored answer is replayed whatever the call was.
FindAnyBody(r) ==
  /\ pc[r] = "find"
  /\ row # Nobody
  /\ claimId' = [claimId EXCEPT ![r] = row.id]
  /\ readAt' = [readAt EXCEPT ![r] = row.createdAt]
  /\ IF row.answer # Nobody
     THEN Go(r, "answered") /\ told' = [told EXCEPT ![r] = row.answer]
     ELSE /\ Go(r, IF clock - row.createdAt < StaleClaim THEN "refused" ELSE "takeover")
          /\ UNCHANGED told
  /\ UNCHANGED <<regime, clock, row, rows, attempt, effects>>

\* The handler does not check the id the client gave its row.
WorkUnchecked(r) ==
  /\ pc[r] = "handle"
  /\ effects' = Append(effects, r)
  /\ Go(r, "store")
  /\ UNCHANGED <<regime, clock, row, rows, attempt, claimId, readAt, told>>

-----------------------------------------------------------------------------
\* claim(): idempotencyKey.create.  The unique constraint on the key lets one
\* insert through; anyone else goes on to read the row that is there.  Nothing
\* retries past the window a stored reply is kept for (sweep() relies on it).
Claim(r) ==
  /\ pc[r] = "insert" \/ (pc[r] = "new" /\ clock <= Retention)
  /\ IF row = Nobody
     THEN /\ row' = [id |-> rows + 1, body |-> BodyOf[r], answer |-> Nobody,
                     createdAt |-> clock, expiresAt |-> clock + Retention]
          /\ rows' = rows + 1
          /\ claimId' = [claimId EXCEPT ![r] = rows + 1]
          /\ readAt' = [readAt EXCEPT ![r] = clock]
          /\ Go(r, "handle")
     ELSE /\ Go(r, "find")
          /\ UNCHANGED <<row, rows, claimId, readAt>>
  /\ UNCHANGED <<regime, clock, attempt, effects, told>>

\* claim(): the row vanished between the failed insert and this read.
FindGone(r) ==
  /\ pc[r] = "find"
  /\ row = Nobody
  /\ IF attempt[r] >= 2
     THEN Go(r, "refused") /\ UNCHANGED attempt
     ELSE Go(r, "insert") /\ attempt' = [attempt EXCEPT ![r] = @ + 1]
  /\ UNCHANGED <<regime, clock, row, rows, claimId, readAt, effects, told>>

\* claim(): what the existing row means for this caller - a mismatch or a claim
\* still in flight refuses it, a stored answer is replayed, and a claim older
\* than StaleClaim may be taken over.
Find(r) ==
  /\ pc[r] = "find"
  /\ row # Nobody
  /\ claimId' = [claimId EXCEPT ![r] = row.id]
  /\ readAt' = [readAt EXCEPT ![r] = row.createdAt]
  /\ IF row.body # BodyOf[r]
     THEN Go(r, "refused") /\ UNCHANGED told
     ELSE IF row.answer # Nobody
     THEN Go(r, "answered") /\ told' = [told EXCEPT ![r] = row.answer]
     ELSE /\ Go(r, IF clock - row.createdAt < StaleClaim THEN "refused" ELSE "takeover")
          /\ UNCHANGED told
  /\ UNCHANGED <<regime, clock, row, rows, attempt, effects>>

\* claim(): updateMany where the row still has the createdAt that was read.
Takeover(r) ==
  /\ pc[r] = "takeover"
  /\ IF RowIs(r) /\ row.answer = Nobody /\ row.createdAt = readAt[r]
     THEN /\ row' = [row EXCEPT !.createdAt = clock]
          /\ readAt' = [readAt EXCEPT ![r] = clock]
          /\ Go(r, "handle")
     ELSE Go(r, "refused") /\ UNCHANGED <<row, readAt>>
  /\ UNCHANGED <<regime, clock, rows, attempt, claimId, effects, told>>

\* The handler's transaction commits, unless the row it inserts carries the
\* client's id and a committed one already has it.
Work(r) ==
  /\ pc[r] = "handle"
  /\ ~(OwnId /\ effects # <<>>)
  /\ effects' = Append(effects, r)
  /\ Go(r, "store")
  /\ UNCHANGED <<regime, clock, row, rows, attempt, claimId, readAt, told>>

\* The handler throws: a refusal, or the unique violation Work describes.
WorkFails(r) ==
  /\ pc[r] = "handle"
  /\ Go(r, "release")
  /\ UNCHANGED <<regime, clock, row, rows, attempt, claimId, readAt, effects, told>>

\* complete(): update by id, whatever the row holds by now.  An error is
\* logged and the caller is answered all the same.
Complete(r) ==
  /\ pc[r] = "store"
  /\ \/ /\ RowIs(r)
        /\ row' = [row EXCEPT !.answer = r]
     \/ /\ ~RowIs(r) \/ "store_fails" \in Faults
        /\ UNCHANGED row
  /\ Go(r, "answered")
  /\ told' = [told EXCEPT ![r] = r]
  /\ UNCHANGED <<regime, clock, rows, attempt, claimId, readAt, effects>>

\* release(): delete by id, whatever the row holds by now.
Release(r) ==
  /\ pc[r] = "release"
  /\ \/ /\ RowIs(r)
        /\ row' = Nobody
     \/ /\ ~RowIs(r) \/ "release_fails" \in Faults
        /\ UNCHANGED row
  /\ Go(r, "failed")
  /\ UNCHANGED <<regime, clock, rows, attempt, claimId, readAt, effects, told>>

\* The process serving r dies; an open transaction rolls back.
Die(r) ==
  /\ \/ pc[r] \in {"insert", "find", "takeover", "handle"} /\ "dies_before_commit" \in Faults
     \/ pc[r] \in {"store", "release"} /\ "dies_after_commit" \in Faults
  /\ Go(r, "dead")
  /\ UNCHANGED <<regime, clock, row, rows, attempt, claimId, readAt, effects, told>>

\* HousekeepingService.sweep(): stored replies past their window are deleted.
Sweep ==
  /\ row # Nobody
  /\ row.expiresAt < clock
  /\ row' = Nobody
  /\ UNCHANGED <<regime, clock, rows, pc, attempt, claimId, readAt, effects, told>>

\* Time passes.  Unless requests may be slow, none runs for StaleClaim ticks
\* after it claimed the key - what the comment on STALE_CLAIM_MS asks for - and
\* the statements of claim() itself take less than a tick.
Prompt(r) ==
  /\ pc[r] \notin {"insert", "find"}
  /\ pc[r] \in Running => clock + 1 - readAt[r] < StaleClaim

Tick ==
  /\ clock < MaxClock
  /\ "slow" \in Faults \/ \A r \in Requests : Prompt(r)
  /\ clock' = clock + 1
  /\ UNCHANGED <<regime, row, rows, pc, attempt, claimId, readAt, effects, told>>

Next ==
  \/ \E r \in Requests :
       \/ Claim(r) \/ FindGone(r) \/ Find(r) \/ Takeover(r)
       \/ Work(r) \/ WorkFails(r) \/ Complete(r) \/ Release(r) \/ Die(r)
  \/ Sweep
  \/ Tick

Spec == Init /\ [][Next]_vars

-----------------------------------------------------------------------------
(* What the interceptor is for. *)

\* A caller is never given the answer to another call made with the same key.
NoBorrowedAnswer ==
  \A r \in Requests : told[r] # Nobody => BodyOf[told[r]] = BodyOf[r]

\* While no handler outlives StaleClaim a key is worked on by one request at a
\* time: the insert and the takeover never let two handlers run together.
OneHolder ==
  "slow" \notin Faults =>
    \A r, s \in Requests : pc[r] \in Running /\ pc[s] \in Running => r = s

\* The interceptor implements OnceOnly: the work behind a key is performed at
\* most once and every answer given, first or replayed, is that work's answer.
Performed == IF effects = <<>> THEN Nobody ELSE effects[Len(effects)]

Once == INSTANCE OnceOnly WITH performed <- Performed

ImplementsOnceOnly == Once!Spec
=============================================================================
