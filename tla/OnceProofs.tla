------------------------------ MODULE OnceProofs -----------------------------
(***************************************************************************)
(* What is done once is done once.                                         *)
(*                                                                         *)
(* Behind an idempotency key, for any number of requests, any bodies and   *)
(* any length of the windows: while no handler outlives STALE_CLAIM_MS one *)
(* request at a time works on a key; and when moreover every commit is     *)
(* followed by the storing of its answer, or when the handler's row carries*)
(* the client's own id whatever goes wrong, the interceptor implements     *)
(* OnceOnly.  And whatever goes wrong, however slow a handler is and       *)
(* whatever is swept, nobody is given the answer to another call.          *)
(*                                                                         *)
(* While requests do not overlap a shelf is counted once and the count     *)
(* goes in once, for any shelves, counts and people counting, whatever is  *)
(* sold or delivered meanwhile.  What a posting writes to the ledger is a  *)
(* fold over the lots and stays with TLC; nothing here rests on it.        *)
(*                                                                         *)
(* The recording forms, whichever they are and however often they are      *)
(* opened, pressed and given up on, make one entry each and keep what is   *)
(* typed into them.                                                        *)
(***************************************************************************)
EXTENDS Idempotency, Stocktake, Forms, FiniteSetTheorems, TLAPS

-----------------------------------------------------------------------------
(* Behind an idempotency key. *)

\* The shape of the state the other facts rest on.
Shape ==
  /\ clock \in Nat
  /\ row # Nobody => row \in Row
  /\ rows \in Nat
  /\ pc \in [Requests -> {"new", "insert", "find", "takeover"} \cup Running \cup Ended]
  /\ claimId \in [Requests -> Nat]
  /\ readAt \in [Requests -> Nat]

\* The clock cannot have left the window while a request may still insert, and
\* a row is not swept before the window is over.
Window ==
  /\ \A r \in Requests : pc[r] \in {"insert", "find"} => clock <= Retention
  /\ row # Nobody => row.expiresAt >= Retention

\* A working request holds the row, and holds it freshly; only after the window
\* may the sweep have taken the row from under it.
HolderOwnsRow ==
  \A r \in Requests : pc[r] \in Running =>
    \/ row = Nobody /\ clock > Retention
    \/ /\ RowIs(r)
       /\ row.createdAt = readAt[r]
       /\ row.answer = Nobody
       /\ clock - readAt[r] < StaleClaim

\* A request about to take a claim over read one that was stale.
TakersSawStale ==
  \A r \in Requests : pc[r] = "takeover" => clock - readAt[r] >= StaleClaim

HInv == Shape /\ Window /\ HolderOwnsRow /\ TakersSawStale /\ OneHolder

\* HInv holds initially.
LEMMA HInvInit == Init => HInv
  BY NobodyAssumption, TimesAssumption
  DEF Init, RowIs, HInv, Shape, Window, HolderOwnsRow, TakersSawStale, OneHolder, Running, Ended

\* The circumstances of a behaviour do not change.
LEMMA RegimeStays == [Next]_vars => regime' = regime
  BY DEF Next, Claim, FindGone, Find, Takeover, Work, WorkFails, Complete, Release, Die, Sweep, Tick, vars

\* Every step keeps HInv when no request is slow.
LEMMA HInvStep == "slow" \notin Faults /\ HInv /\ [Next]_vars => HInv'
<1> SUFFICES ASSUME "slow" \notin Faults, HInv, [Next]_vars PROVE HInv'
  OBVIOUS
<1> USE NobodyAssumption, TimesAssumption DEF Running, Ended, Row, RowIs, Faults
<1>a. regime' = regime
  BY RegimeStays
<1> USE <1>a
<1>0. CASE UNCHANGED vars
  BY <1>0 DEF vars, HInv, Shape, Window, HolderOwnsRow, TakersSawStale, OneHolder
<1>1. ASSUME NEW r \in Requests, Claim(r) PROVE HInv'
  <2> USE <1>1 DEF Claim, Go, HInv
  <2>1. CASE row = Nobody
    <3>1. \A s \in Requests : pc[s] \notin Running
      BY <2>1 DEF Window, HolderOwnsRow, Shape
    <3>2. Shape'
      BY <2>1 DEF Shape
    <3>3. Window'
      BY <2>1 DEF Window, Shape
    <3>4. HolderOwnsRow'
      BY <2>1, <3>1 DEF HolderOwnsRow, Shape
    <3>5. TakersSawStale'
      BY <2>1 DEF TakersSawStale, Shape
    <3>6. OneHolder'
      BY <2>1, <3>1 DEF OneHolder, Shape
    <3>7. QED BY <3>2, <3>3, <3>4, <3>5, <3>6
  <2>2. CASE row # Nobody
    BY <2>2 DEF Shape, Window, HolderOwnsRow, TakersSawStale, OneHolder
  <2>3. QED BY <2>1, <2>2
<1>2. ASSUME NEW r \in Requests, FindGone(r) PROVE HInv'
  BY <1>2 DEF FindGone, Go, HInv, Shape, Window, HolderOwnsRow, TakersSawStale, OneHolder
<1>3. ASSUME NEW r \in Requests, Find(r) PROVE HInv'
  <2> USE <1>3 DEF Find, Go, HInv
  <2>1. Shape'
    BY DEF Shape
  <2>2. Window'
    BY DEF Window, Shape
  <2>3. HolderOwnsRow'
    BY DEF HolderOwnsRow, Shape
  <2>4. TakersSawStale'
    BY DEF TakersSawStale, Shape
  <2>5. OneHolder'
    BY DEF OneHolder, Shape
  <2>6. QED BY <2>1, <2>2, <2>3, <2>4, <2>5
<1>4. ASSUME NEW r \in Requests, Takeover(r) PROVE HInv'
  <2> USE <1>4 DEF Takeover, Go, HInv, RowIs
  <2>1. CASE RowIs(r) /\ row.answer = Nobody /\ row.createdAt = readAt[r]
    <3>1. \A s \in Requests : pc[s] \notin Running
      BY <2>1 DEF HolderOwnsRow, TakersSawStale, Shape
    <3>2. QED
      BY <2>1, <3>1 DEF Shape, Window, HolderOwnsRow, TakersSawStale, OneHolder
  <2>2. CASE ~(RowIs(r) /\ row.answer = Nobody /\ row.createdAt = readAt[r])
    BY <2>2 DEF Shape, Window, HolderOwnsRow, TakersSawStale, OneHolder
  <2>3. QED BY <2>1, <2>2
<1>5. ASSUME NEW r \in Requests, Work(r) PROVE HInv'
  BY <1>5 DEF Work, Go, HInv, Shape, Window, HolderOwnsRow, TakersSawStale, OneHolder
<1>6. ASSUME NEW r \in Requests, WorkFails(r) PROVE HInv'
  BY <1>6 DEF WorkFails, Go, HInv, Shape, Window, HolderOwnsRow, TakersSawStale, OneHolder
<1>7. ASSUME NEW r \in Requests, Complete(r) PROVE HInv'
  BY <1>7 DEF Complete, RowIs, Go, HInv, Shape, Window, HolderOwnsRow, TakersSawStale, OneHolder
<1>8. ASSUME NEW r \in Requests, Release(r) PROVE HInv'
  BY <1>8 DEF Release, RowIs, Go, HInv, Shape, Window, HolderOwnsRow, TakersSawStale, OneHolder
<1>9. ASSUME NEW r \in Requests, Die(r) PROVE HInv'
  BY <1>9 DEF Die, Go, HInv, Shape, Window, HolderOwnsRow, TakersSawStale, OneHolder
<1>10. CASE Sweep
  BY <1>10 DEF Sweep, HInv, Shape, Window, HolderOwnsRow, TakersSawStale, OneHolder
<1>11. CASE Tick
  BY <1>11 DEF Tick, Prompt, HInv, Shape, Window, HolderOwnsRow, TakersSawStale, OneHolder
<1>12. QED
  BY <1>0, <1>1, <1>2, <1>3, <1>4, <1>5, <1>6, <1>7, <1>8, <1>9, <1>10, <1>11 DEF Next

\* While no handler outlives the stale-claim window, at most one request works
\* on a key at any time, whatever dies and whatever write fails.
THEOREM PromptOneHolder == Spec => []OneHolder
<1> DEFINE Cond == "slow" \notin Faults => HInv
<1>1. Init => Cond
  BY HInvInit
<1>2. Cond /\ [Next]_vars => Cond'
  BY HInvStep, RegimeStays DEF Faults
<1>3. Cond => OneHolder
  BY DEF HInv, OneHolder
<1>4. QED
  BY <1>1, <1>2, <1>3, PTL DEF Spec

-----------------------------------------------------------------------------
(* The refinement. *)

\* Either way to be safe: an id of the client's own on the handler's row, or no
\* fault that separates a commit from the storing of its answer.
Safe(g) == g.ownId \/ g.faults \cap {"slow", "dies_after_commit", "store_fails"} = {}

\* What was performed, who knows of it, and who has been told.
Told ==
  /\ effects \in {<<>>} \cup {<<r>> : r \in Requests}
  /\ told \in [Requests -> Requests \cup {Nobody}]
  /\ pc \in [Requests -> {"new", "insert", "find", "takeover"} \cup Running \cup Ended]
  /\ row # Nobody => row \in Row
  /\ rows \in Nat /\ clock \in Nat
  /\ \A r \in Requests : pc[r] = "store" => effects = <<r>>
  /\ row # Nobody /\ row.answer # Nobody => effects = <<row.answer>>
  /\ \A r \in Requests : told[r] # Nobody => pc[r] \in Ended

\* Without the client's id, nobody starts over once the work is done: its answer
\* is being stored, is stored, or has outlived its window.
Spent ==
  effects # <<>> =>
    /\ \A r \in Requests : pc[r] # "handle"
    /\ \/ \E r \in Requests : pc[r] = "store"
       \/ row # Nobody /\ row.answer # Nobody
       \/ row = Nobody /\ clock > Retention

OInv ==
  /\ Safe(regime) /\ Told
  /\ ~OwnId => HInv /\ Spent

\* The sequences effects takes, and the request they stand for.
LEMMA PerformedIs ==
  /\ \A r \in Requests : Append(<<>>, r) = <<r>> /\ <<r>> # <<>>
  /\ effects = <<>> => Performed = Nobody
  /\ \A r \in Requests : effects = <<r>> => Performed = r
  BY DEF Performed

\* OInv holds initially, if every regime is safe.
LEMMA OInvInit == (\A g \in Regimes : Safe(g)) /\ Init => OInv /\ Once!Init
<1> SUFFICES ASSUME \A g \in Regimes : Safe(g), Init PROVE OInv /\ Once!Init
  OBVIOUS
<1>1. HInv
  BY HInvInit
<1>2. Told /\ Spent /\ Safe(regime)
  BY NobodyAssumption, TimesAssumption DEF Init, Told, Spent, Running, Ended
<1>3. Once!Init
  BY PerformedIs DEF Init, Once!Init
<1>4. QED
  BY <1>1, <1>2, <1>3 DEF OInv

\* Every step keeps OInv, and is a step of OnceOnly or none.
LEMMA OInvStep == OInv /\ [Next]_vars => OInv' /\ [Once!Next]_(Once!vars)
<1> SUFFICES ASSUME OInv, [Next]_vars PROVE OInv' /\ [Once!Next]_(Once!vars)
  OBVIOUS
<1> USE NobodyAssumption, TimesAssumption, PerformedIs DEF Running, Ended, Row, RowIs
<1>a. regime' = regime /\ Safe(regime)'
  BY RegimeStays DEF OInv, Safe
<1> DEFINE Quiet == Performed' = Performed /\ told' = told
           Good == Told' /\ (~OwnId => Spent') /\ [Once!Next]_(Once!vars)
<1>b. Quiet => [Once!Next]_(Once!vars)
  BY DEF Once!vars
<1>c. ~OwnId => "slow" \notin Faults /\ "dies_after_commit" \notin Faults /\ "store_fails" \notin Faults
  BY DEF OInv, Safe, OwnId, Faults
<1>d. ~OwnId => HInv'
  BY <1>c, HInvStep DEF OInv
<1>e. ~OwnId => OneHolder /\ \A r, s \in Requests : pc[r] \in Running /\ pc[s] \in Running => r = s
  BY <1>c DEF OInv, HInv, OneHolder
<1>0. CASE UNCHANGED vars
  <2>1. Told' /\ (~OwnId => Spent')
    BY <1>0 DEF vars, OInv, Told, Spent
  <2>2. Quiet
    BY <1>0 DEF vars, Performed
  <2>3. QED BY <2>1, <2>2, <1>a, <1>b, <1>d DEF OInv, OwnId
<1>1. ASSUME NEW r \in Requests, Claim(r) PROVE Good
  <2>1. Told'
    BY <1>1 DEF Claim, Go, OInv, Told
  <2>2. ASSUME ~OwnId PROVE Spent'
    BY <1>1, <2>2 DEF Claim, Go, OInv, HInv, Shape, Window, HolderOwnsRow, Told, Spent
  <2>3. Quiet
    BY <1>1 DEF Claim, Performed
  <2>4. QED BY <2>1, <2>2, <2>3, <1>b
<1>2. ASSUME NEW r \in Requests, FindGone(r) PROVE Good
  <2>1. Told' /\ (~OwnId => Spent')
    BY <1>2 DEF FindGone, Go, OInv, Told, Spent
  <2>2. Quiet
    BY <1>2 DEF FindGone, Performed
  <2>3. QED BY <2>1, <2>2, <1>b
<1>3. ASSUME NEW r \in Requests, Find(r) PROVE Good
  <2>1. Told' /\ (~OwnId => Spent')
    BY <1>3 DEF Find, Go, OInv, Told, Spent
  <2>2. Performed' = Performed
    BY <1>3 DEF Find, Performed
  <2>3. CASE told' = told
    BY <2>1, <2>2, <2>3, <1>b
  <2>4. CASE row.answer # Nobody /\ told' = [told EXCEPT ![r] = row.answer]
    <3>1. row.answer \in Requests /\ Performed = row.answer
      BY <1>3, <2>4 DEF Find, OInv, Told
    <3>2. told[r] = Nobody
      BY <1>3 DEF Find, OInv, Told
    <3>3. Once!Tell(r)
      BY <2>2, <2>4, <3>1, <3>2 DEF Once!Tell
    <3>4. QED BY <2>1, <3>3 DEF Once!Next
  <2>5. QED BY <1>3, <2>3, <2>4 DEF Find
<1>4. ASSUME NEW r \in Requests, Takeover(r) PROVE Good
  <2>1. Told'
    BY <1>4 DEF Takeover, Go, OInv, Told
  <2>2. ASSUME ~OwnId PROVE Spent'
    <3>1. CASE UNCHANGED row
      BY <1>4, <2>2, <3>1, SMTT(60) DEF Takeover, Go, OInv, HInv, TakersSawStale, HolderOwnsRow, Shape, Told, Spent
    <3>2. CASE RowIs(r) /\ row.answer = Nobody /\ row.createdAt = readAt[r]
      <4>1. \A s \in Requests : pc[s] \notin Running
        BY <1>4, <2>2, <3>2 DEF Takeover, OInv, HInv, HolderOwnsRow, TakersSawStale, Shape
      <4>2. effects = <<>>
        BY <3>2, <4>1, <2>2 DEF OInv, Spent
      <4>3. QED BY <1>4, <4>2 DEF Takeover, Spent
    <3>3. QED BY <1>4, <3>1, <3>2 DEF Takeover
  <2>3. Quiet
    BY <1>4 DEF Takeover, Performed
  <2>4. QED BY <2>1, <2>2, <2>3, <1>b
<1>5. ASSUME NEW r \in Requests, Work(r) PROVE Good
  <2>1. effects = <<>>
    BY <1>5 DEF Work, OInv, Spent
  <2>2. effects' = <<r>>
    BY <1>5, <2>1 DEF Work
  <2>3. Told'
    BY <1>5, <2>1, <2>2 DEF Work, Go, OInv, Told
  <2>4. ASSUME ~OwnId PROVE Spent'
    <3>1. \A s \in Requests : s # r => pc[s] # "handle"
      BY <1>5, <2>4, <1>e DEF Work
    <3>2. pc' = [pc EXCEPT ![r] = "store"] /\ pc'[r] = "store"
      BY <1>5 DEF Work, Go, OInv, Told
    <3>3. QED BY <2>2, <3>1, <3>2 DEF Spent, OInv, Told
  <2>5. Once!Perform(r)
    <3>1. Performed = Nobody
      BY <2>1
    <3>2. Performed' = r
      BY <2>2 DEF Performed
    <3>3. QED BY <1>5, <3>1, <3>2 DEF Work, Once!Perform
  <2>6. QED BY <2>3, <2>4, <2>5 DEF Once!Next
<1>6. ASSUME NEW r \in Requests, WorkFails(r) PROVE Good
  <2>1. Told' /\ (~OwnId => Spent')
    BY <1>6 DEF WorkFails, Go, OInv, Told, Spent
  <2>2. Quiet
    BY <1>6 DEF WorkFails, Performed
  <2>3. QED BY <2>1, <2>2, <1>b
<1>7. ASSUME NEW r \in Requests, Complete(r) PROVE Good
  <2>1. effects = <<r>> /\ Performed = r /\ Performed' = Performed
    BY <1>7 DEF Complete, OInv, Told, Performed
  <2>2. Told'
    BY <1>7, <2>1 DEF Complete, Go, OInv, Told
  <2>3. ASSUME ~OwnId PROVE Spent'
    <3>1. CASE RowIs(r)
      BY <1>7, <1>c, <2>1, <2>3, <3>1 DEF Complete, Go, OInv, Told, Spent
    <3>2. CASE ~RowIs(r)
      BY <1>7, <2>1, <2>3, <3>2 DEF Complete, Go, OInv, Told, Spent, HInv, HolderOwnsRow
    <3>3. QED BY <3>1, <3>2
  <2>4. Once!Tell(r)
    BY <1>7, <2>1 DEF Complete, OInv, Told, Once!Tell
  <2>5. QED BY <2>2, <2>3, <2>4 DEF Once!Next
<1>8. ASSUME NEW r \in Requests, Release(r) PROVE Good
  <2>1. Told'
    BY <1>8 DEF Release, Go, OInv, Told
  <2>2. ASSUME ~OwnId PROVE Spent'
    <3>1. \A s \in Requests : pc[s] # "store"
      BY <1>8, <2>2, <1>e DEF Release
    <3>2. QED BY <1>8, <2>2, <3>1 DEF Release, Go, OInv, Told, Spent, HInv, HolderOwnsRow
  <2>3. Quiet
    BY <1>8 DEF Release, Performed
  <2>4. QED BY <2>1, <2>2, <2>3, <1>b
<1>9. ASSUME NEW r \in Requests, Die(r) PROVE Good
  <2>1. Told'
    BY <1>9 DEF Die, Go, OInv, Told
  <2>2. ASSUME ~OwnId PROVE Spent'
    BY <1>9, <2>2, <1>c DEF Die, Go, OInv, Told, Spent
  <2>3. Quiet
    BY <1>9 DEF Die, Performed
  <2>4. QED BY <2>1, <2>2, <2>3, <1>b
<1>10. ASSUME Sweep PROVE Good
  <2>1. Told' /\ (~OwnId => Spent')
    BY <1>10 DEF Sweep, OInv, Told, Spent, HInv, Window
  <2>2. Quiet
    BY <1>10 DEF Sweep, Performed
  <2>3. QED BY <2>1, <2>2, <1>b
<1>11. ASSUME Tick PROVE Good
  <2>1. Told' /\ (~OwnId => Spent')
    BY <1>11 DEF Tick, OInv, Told, Spent
  <2>2. Quiet
    BY <1>11 DEF Tick, Performed
  <2>3. QED BY <2>1, <2>2, <1>b
<1>12. ASSUME Good PROVE OInv' /\ [Once!Next]_(Once!vars)
  BY <1>12, <1>a, <1>d DEF OInv, OwnId
<1>13. QED
  BY <1>0, <1>1, <1>2, <1>3, <1>4, <1>5, <1>6, <1>7, <1>8, <1>9, <1>10, <1>11, <1>12 DEF Next

\* If every regime is safe, the work behind a key is performed at most once and
\* every answer given is the answer of that performance.
THEOREM InterceptorImplementsOnceOnly ==
  (\A g \in Regimes : Safe(g)) => (Spec => ImplementsOnceOnly)
<1> SUFFICES ASSUME \A g \in Regimes : Safe(g) PROVE Spec => ImplementsOnceOnly
  OBVIOUS
<1>1. Init => OInv /\ Once!Init
  BY OInvInit
<1>2. OInv /\ [Next]_vars => OInv' /\ [Once!Next]_(Once!vars)
  BY OInvStep
<1>3. QED
  BY <1>1, <1>2, PTL DEF Spec, ImplementsOnceOnly, Once!Spec

-----------------------------------------------------------------------------
(* Whatever goes wrong. *)

\* The state keeps to its types: the ids of rows are never used again, and no
\* time is read that has not been.
THEOREM IdempotencyTypes == Spec => []TypeOK
<1> USE NobodyAssumption, TimesAssumption DEF Running, Ended
<1>1. Init => TypeOK
  BY DEF Init, TypeOK
<1>2. TypeOK /\ [Next]_vars => TypeOK'
  <2> SUFFICES ASSUME TypeOK, [Next]_vars PROVE TypeOK'
    OBVIOUS
  <2> USE DEF TypeOK, Go, RowIs
  <2>0. CASE UNCHANGED vars
    BY <2>0 DEF vars
  <2>1. ASSUME NEW r \in Requests, Claim(r) PROVE TypeOK'
    <3>1. CASE row = Nobody
      <4>1. /\ row' = [id |-> rows + 1, body |-> BodyOf[r], answer |-> Nobody,
                       createdAt |-> clock, expiresAt |-> clock + Retention]
            /\ rows' = rows + 1
        BY <2>1, <3>1 DEF Claim
      <4>2. row' \in Row /\ row'.id <= rows' /\ row'.createdAt <= clock
        BY <4>1 DEF Row
      <4>3. claimId' \in [Requests -> 0..rows'] /\ readAt' \in [Requests -> 0..MaxClock]
        <5>1. claimId' = [claimId EXCEPT ![r] = rows + 1] /\ readAt' = [readAt EXCEPT ![r] = clock]
          BY <2>1, <3>1 DEF Claim
        <5>2. \A q \in Requests : claimId[q] \in 0..(rows + 1)
          OBVIOUS
        <5>3. rows + 1 \in 0..(rows + 1)
          OBVIOUS
        <5>4. QED BY <4>1, <5>1, <5>2, <5>3
      <4>a. pc' = [pc EXCEPT ![r] = "handle"]
        BY <2>1, <3>1 DEF Claim
      <4>4. pc' \in [Requests -> {"new", "insert", "find", "takeover"} \cup Running \cup Ended]
        BY <4>a
      <4>5. QED BY <2>1, <4>1, <4>2, <4>3, <4>4 DEF Claim
    <3>2. CASE row # Nobody
      BY <2>1, <3>2 DEF Claim
    <3>3. QED BY <3>1, <3>2
  <2>2. ASSUME NEW r \in Requests, FindGone(r) PROVE TypeOK'
    <3>1. attempt' \in [Requests -> 1..2]
      <4>1. attempt[r] \in 1..2
        OBVIOUS
      <4>2. CASE attempt[r] >= 2
        BY <2>2, <4>2 DEF FindGone
      <4>3. CASE ~(attempt[r] >= 2)
        <5>1. attempt' = [attempt EXCEPT ![r] = attempt[r] + 1]
          BY <2>2, <4>3 DEF FindGone
        <5>2. attempt[r] + 1 \in 1..2
          BY <4>1, <4>3
        <5>3. QED BY <5>1, <5>2
      <4>4. QED BY <4>2, <4>3
    <3>2. pc' \in [Requests -> {"new", "insert", "find", "takeover"} \cup Running \cup Ended]
      BY <2>2 DEF FindGone
    <3>3. QED BY <2>2, <3>1, <3>2 DEF FindGone
  <2>3. ASSUME NEW r \in Requests, Find(r) PROVE TypeOK'
    <3>1. row \in Row /\ row.id <= rows /\ row.createdAt <= clock /\ row.answer \in Requests \cup {Nobody}
      BY <2>3 DEF Find, Row
    <3>b. row.id \in 0..rows /\ row.createdAt \in 0..MaxClock
      BY <3>1 DEF Row
    <3>c. claimId' = [claimId EXCEPT ![r] = row.id] /\ readAt' = [readAt EXCEPT ![r] = row.createdAt] /\ rows' = rows
      BY <2>3 DEF Find
    <3>2. claimId' \in [Requests -> 0..rows] /\ readAt' \in [Requests -> 0..MaxClock]
      BY <3>b, <3>c
    <3>a. \E p \in {"refused", "answered", "takeover"} : pc' = [pc EXCEPT ![r] = p]
      <4>1. CASE row.body # BodyOf[r]
        BY <2>3, <4>1 DEF Find
      <4>2. CASE row.body = BodyOf[r] /\ row.answer # Nobody
        BY <2>3, <4>2 DEF Find
      <4>3. CASE row.body = BodyOf[r] /\ row.answer = Nobody
        BY <2>3, <4>3 DEF Find
      <4>4. QED BY <4>1, <4>2, <4>3
    <3>3. pc' \in [Requests -> {"new", "insert", "find", "takeover"} \cup Running \cup Ended]
      BY <3>a
    <3>4. told' \in [Requests -> Requests \cup {Nobody}]
      BY <2>3, <3>1 DEF Find
    <3>5. QED BY <2>3, <3>2, <3>3, <3>4 DEF Find
  <2>4. ASSUME NEW r \in Requests, Takeover(r) PROVE TypeOK'
    <3>1. pc' \in [Requests -> {"new", "insert", "find", "takeover"} \cup Running \cup Ended]
      BY <2>4 DEF Takeover
    <3>2. CASE UNCHANGED <<row, readAt>>
      BY <2>4, <3>1, <3>2 DEF Takeover
    <3>3. CASE ~UNCHANGED <<row, readAt>>
      <4>1. row # Nobody /\ row' = [row EXCEPT !.createdAt = clock] /\ readAt' = [readAt EXCEPT ![r] = clock]
        BY <2>4, <3>3 DEF Takeover
      <4>2. row' \in Row /\ row'.id <= rows /\ row'.createdAt <= clock
        <5>1. row \in Row /\ row.id <= rows /\ clock \in Nat
          BY <4>1
        <5>2. row' = [id |-> row.id, body |-> row.body, answer |-> row.answer,
                      createdAt |-> clock, expiresAt |-> row.expiresAt]
          BY <4>1, <5>1 DEF Row
        <5>3. QED BY <5>1, <5>2 DEF Row
      <4>3. readAt' \in [Requests -> 0..MaxClock]
        BY <4>1
      <4>4. QED BY <2>4, <3>1, <4>2, <4>3 DEF Takeover
    <3>4. QED BY <3>2, <3>3
  <2>5. ASSUME NEW r \in Requests, Work(r) PROVE TypeOK'
    BY <2>5 DEF Work
  <2>6. ASSUME NEW r \in Requests, WorkFails(r) PROVE TypeOK'
    BY <2>6 DEF WorkFails
  <2>7. ASSUME NEW r \in Requests, Complete(r) PROVE TypeOK'
    <3>1. row' # Nobody => row' \in Row /\ row'.id <= rows /\ row'.createdAt <= clock
      <4>1. CASE row' = row
        BY <4>1
      <4>2. CASE row # Nobody /\ row' = [row EXCEPT !.answer = r]
        <5>1. row \in Row /\ row.id <= rows /\ row.createdAt <= clock
          BY <4>2
        <5>2. QED BY <4>2, <5>1 DEF Row
      <4>3. QED BY <2>7, <4>1, <4>2 DEF Complete
    <3>2. QED BY <2>7, <3>1 DEF Complete
  <2>8. ASSUME NEW r \in Requests, Release(r) PROVE TypeOK'
    BY <2>8 DEF Release
  <2>9. ASSUME NEW r \in Requests, Die(r) PROVE TypeOK'
    BY <2>9 DEF Die
  <2>10. CASE Sweep
    BY <2>10 DEF Sweep
  <2>11. CASE Tick
    <3>1. clock' \in 0..MaxClock /\ clock <= clock'
      BY <2>11 DEF Tick
    <3>2. row # Nobody => row.createdAt \in Nat
      BY DEF Row
    <3>3. row' # Nobody => row' \in Row /\ row'.id <= rows' /\ row'.createdAt <= clock'
      BY <2>11, <3>1, <3>2 DEF Tick
    <3>4. QED BY <2>11, <3>1, <3>3 DEF Tick
  <2>12. QED
    BY <2>0, <2>1, <2>2, <2>3, <2>4, <2>5, <2>6, <2>7, <2>8, <2>9, <2>10, <2>11 DEF Next
<1>3. QED
  BY <1>1, <1>2, PTL DEF Spec

\* A request that goes on with a row - to take it over, to work, to store its
\* answer - goes on with one made for the same call, or with one that is gone;
\* and a stored answer is that of the call its row was made for.
SameCall ==
  /\ \A r \in Requests : pc[r] \in {"takeover"} \cup Running /\ RowIs(r) => row.body = BodyOf[r]
  /\ row # Nobody /\ row.answer # Nobody => BodyOf[row.answer] = row.body

\* However the requests interleave, die, or outlive their claim, and whatever
\* the sweep deletes in between, a caller is never given the answer to another
\* call made with the same key.
THEOREM NobodyGetsAnothersAnswer == Spec => []NoBorrowedAnswer
<1> USE NobodyAssumption DEF Running, Ended, Row, RowIs, NoBorrowedAnswer, SameCall
<1>1. Init => SameCall /\ NoBorrowedAnswer
  BY DEF Init
<1>2. TypeOK /\ TypeOK' /\ SameCall /\ NoBorrowedAnswer /\ [Next]_vars => SameCall' /\ NoBorrowedAnswer'
  <2> SUFFICES ASSUME TypeOK, TypeOK', SameCall, NoBorrowedAnswer, [Next]_vars
               PROVE SameCall' /\ NoBorrowedAnswer'
    OBVIOUS
  <2> USE DEF TypeOK, Go
  <2>0. CASE UNCHANGED vars
    BY <2>0 DEF vars
  <2>1. ASSUME NEW r \in Requests, Claim(r) PROVE SameCall' /\ NoBorrowedAnswer'
    <3>1. CASE row = Nobody
      <4>1. \A q \in Requests : q # r => claimId'[q] # row'.id
        BY <2>1, <3>1 DEF Claim
      <4>2. row'.body = BodyOf[r] /\ row'.answer = Nobody
        BY <2>1, <3>1 DEF Claim
      <4>3. SameCall'
        BY <2>1, <4>1, <4>2 DEF Claim
      <4>4. QED BY <2>1, <4>3 DEF Claim
    <3>2. CASE row # Nobody
      BY <2>1, <3>2 DEF Claim
    <3>3. QED BY <3>1, <3>2
  <2>2. ASSUME NEW r \in Requests, FindGone(r) PROVE SameCall' /\ NoBorrowedAnswer'
    BY <2>2 DEF FindGone
  <2>3. ASSUME NEW r \in Requests, Find(r) PROVE SameCall' /\ NoBorrowedAnswer'
    <3>1. CASE row.body # BodyOf[r]
      BY <2>3, <3>1, ZenonT(60) DEF Find
    <3>2. CASE row.body = BodyOf[r] /\ row.answer # Nobody
      <4>1. BodyOf[row.answer] = BodyOf[r]
        BY <2>3, <3>2 DEF Find
      <4>2. NoBorrowedAnswer'
        BY <2>3, <3>2, <4>1, ZenonT(60) DEF Find
      <4>3. SameCall'
        BY <2>3, <3>2 DEF Find
      <4>4. QED BY <4>2, <4>3
    <3>3. CASE row.body = BodyOf[r] /\ row.answer = Nobody
      BY <2>3, <3>3, SMTT(60) DEF Find
    <3>4. QED BY <3>1, <3>2, <3>3
  <2>4. ASSUME NEW r \in Requests, Takeover(r) PROVE SameCall' /\ NoBorrowedAnswer'
    <3>1. CASE UNCHANGED row
      BY <2>4, <3>1, SMTT(60) DEF Takeover
    <3>2. CASE RowIs(r) /\ row' = [row EXCEPT !.createdAt = clock]
      <4>1. row'.id = row.id /\ row'.body = row.body /\ row'.answer = row.answer /\ row # Nobody
        <5>1. row \in Row
          BY <2>4, <3>2
        <5>2. QED BY <5>1, <3>2 DEF Row
      <4>2. \E p \in {"handle", "refused"} :
              pc' = [pc EXCEPT ![r] = p] /\ row.body = BodyOf[r] /\ UNCHANGED <<claimId, told>>
        <5>1. pc[r] = "takeover"
          BY <2>4 DEF Takeover
        <5>2. row.body = BodyOf[r]
          BY <3>2, <4>1, <5>1
        <5>4. CASE row.answer = Nobody /\ row.createdAt = readAt[r]
          BY <2>4, <5>2, <5>4 DEF Takeover
        <5>5. CASE ~(row.answer = Nobody /\ row.createdAt = readAt[r])
          BY <2>4, <5>2, <5>5 DEF Takeover
        <5>6. QED BY <5>4, <5>5
      <4>a. SameCall'
        BY <3>2, <4>1, <4>2, ZenonT(60)
      <4>3. QED BY <4>2, <4>a
    <3>3. QED BY <2>4, <3>1, <3>2 DEF Takeover
  <2>5. ASSUME NEW r \in Requests, Work(r) PROVE SameCall' /\ NoBorrowedAnswer'
    BY <2>5 DEF Work
  <2>6. ASSUME NEW r \in Requests, WorkFails(r) PROVE SameCall' /\ NoBorrowedAnswer'
    BY <2>6 DEF WorkFails
  <2>7. ASSUME NEW r \in Requests, Complete(r) PROVE SameCall' /\ NoBorrowedAnswer'
    BY <2>7, SMTT(60) DEF Complete
  <2>8. ASSUME NEW r \in Requests, Release(r) PROVE SameCall' /\ NoBorrowedAnswer'
    BY <2>8 DEF Release
  <2>9. ASSUME NEW r \in Requests, Die(r) PROVE SameCall' /\ NoBorrowedAnswer'
    BY <2>9 DEF Die
  <2>10. CASE Sweep
    BY <2>10 DEF Sweep
  <2>11. CASE Tick
    BY <2>11 DEF Tick
  <2>12. QED
    BY <2>0, <2>1, <2>2, <2>3, <2>4, <2>5, <2>6, <2>7, <2>8, <2>9, <2>10, <2>11 DEF Next
<1>3. QED
  BY <1>1, <1>2, IdempotencyTypes, PTL DEF Spec

-----------------------------------------------------------------------------
(* A shelf counted. *)

\* The types of what the facts below speak of.
CountTypes ==
  /\ status \in [Counts -> {"none", "open", "posted", "cancelled"}]
  /\ posts \in [Counts -> Nat]
  /\ overlapped \in BOOLEAN
  /\ stage \in [Counters -> {"idle", "checked", "measured"}]
  /\ ask \in [Counters -> Ask \cup {None}]
  /\ \A r \in Counters : stage[r] # "idle" => ask[r] \in Ask
  /\ \A r \in Counters : stage[r] = "measured" => ask[r].kind = "post"

\* One request at a time is under way, and what it was accepted for still holds:
\* nobody else has opened, posted or cancelled a count since.
OneUnderWay == \A q, r \in Counters : stage[q] # "idle" /\ stage[r] # "idle" => q = r

StillAccepted ==
  \A r \in Counters : stage[r] # "idle" =>
    /\ ask[r].kind = "open" => NoneOpen
    /\ ask[r].kind \in {"count", "remove", "post", "cancel"} => IsOpen(ask[r].count)

\* The two promises, without the cardinality.
OpenIsOne == \A c, d \in Counts : IsOpen(c) /\ IsOpen(d) => c = d
PostsTell == \A c \in Counts : posts[c] = IF status[c] = "posted" THEN 1 ELSE 0

Orderly == OneUnderWay /\ StillAccepted /\ OpenIsOne /\ PostsTell

\* The inductive invariant.
SInv == CountTypes /\ (overlapped \/ Orderly)

-----------------------------------------------------------------------------
\* What each kind of step leaves alone.
LEMMA GoodsSteps ==
  ASSUME NEW s \in Shelves, NEW n, Sell(s) \/ Deliver(s, n)
  PROVE  UNCHANGED <<counts, stage, ask, overlapped>>
  BY DEF Sell, Deliver, counts

\* SInv holds initially.
LEMMA SInvInit == StocktakeInit => SInv
<1> SUFFICES ASSUME StocktakeInit PROVE SInv
  OBVIOUS
<1>1. /\ status = [c \in Counts |-> "none"] /\ posts = [c \in Counts |-> 0]
      /\ overlapped = FALSE
      /\ stage = [r \in Counters |-> "idle"] /\ ask = [r \in Counters |-> None]
  BY DEF StocktakeInit
<1>2. QED
  BY <1>1 DEF SInv, CountTypes, Orderly, OneUnderWay, StillAccepted, OpenIsOne, PostsTell, IsOpen

\* A request that ends leaves nobody under way, if it was alone.
LEMMA EndLeavesNobody ==
  ASSUME CountTypes, NEW r \in Counters, End(r), stage[r] # "idle"
  PROVE  /\ stage' \in [Counters -> {"idle", "checked", "measured"}]
         /\ ask' \in [Counters -> Ask \cup {None}]
         /\ \A q \in Counters : stage'[q] # "idle" => q # r /\ stage[q] = stage'[q] /\ ask'[q] = ask[q]
         /\ OneUnderWay => \A q \in Counters : stage'[q] = "idle"
  BY DEF CountTypes, End, OneUnderWay

\* Every step keeps the types.
LEMMA CountTypesStep == CountTypes /\ [StocktakeNext]_stocktakeVars => CountTypes'
<1> SUFFICES ASSUME CountTypes, [StocktakeNext]_stocktakeVars PROVE CountTypes'
  OBVIOUS
<1> USE StocktakeAssumption
<1>0. CASE UNCHANGED stocktakeVars
  BY <1>0 DEF stocktakeVars, counts, CountTypes
<1>1. ASSUME NEW s \in Shelves, NEW n, Sell(s) \/ Deliver(s, n) PROVE CountTypes'
  BY <1>1, GoodsSteps DEF counts, CountTypes
<1>2. ASSUME NEW r \in Counters, NEW a \in Wanted, Check(r, a) PROVE CountTypes'
  <2>1. a \in Ask
    OBVIOUS
  <2>2. QED BY <1>2, <2>1 DEF Check, counts, CountTypes
<1>3. ASSUME NEW r \in Counters, Open(r) PROVE CountTypes'
  BY <1>3, EndLeavesNobody DEF Open, Asks, CountTypes
<1>4. ASSUME NEW r \in Counters, Count(r) \/ RemoveLine(r) PROVE CountTypes'
  BY <1>4, EndLeavesNobody DEF Count, RemoveLine, Asks, CountTypes
<1>5. ASSUME NEW r \in Counters, Cancel(r) PROVE CountTypes'
  BY <1>5, EndLeavesNobody, ZenonT(60) DEF Cancel, Asks, CountTypes
<1>6. ASSUME NEW r \in Counters, AddOptions(r) PROVE CountTypes'
  BY <1>6, EndLeavesNobody DEF AddOptions, Asks, counts, CountTypes
<1>7. ASSUME NEW r \in Counters, Measure(r) PROVE CountTypes'
  <2>1. CASE End(r)
    BY <1>7, <2>1, EndLeavesNobody DEF Measure, Asks, counts, CountTypes
  <2>2. CASE stage' = [stage EXCEPT ![r] = "measured"] /\ UNCHANGED ask
    BY <1>7, <2>2 DEF Measure, Asks, counts, CountTypes
  <2>3. QED BY <1>7, <2>1, <2>2 DEF Measure
<1>8. ASSUME NEW r \in Counters, Post(r) PROVE CountTypes'
  <2>1. End(r) /\ stage[r] = "measured" /\ overlapped' = overlapped
    BY <1>8 DEF Post
  <2>2. \/ UNCHANGED <<status, posts>>
        \/ /\ status' = [status EXCEPT ![ask[r].count] = "posted"]
           /\ posts' = [posts EXCEPT ![ask[r].count] = @ + 1]
    BY <1>8 DEF Post
  <2>3. status' \in [Counts -> {"none", "open", "posted", "cancelled"}] /\ posts' \in [Counts -> Nat]
    BY <2>2 DEF CountTypes
  <2>4. QED BY <2>1, <2>3, EndLeavesNobody DEF CountTypes
<1>9. QED
  BY <1>0, <1>1, <1>2, <1>3, <1>4, <1>5, <1>6, <1>7, <1>8 DEF StocktakeNext

\* Every step that is not the second request at once keeps things orderly.
LEMMA OrderlyStep ==
  CountTypes /\ ~overlapped' /\ Orderly /\ [StocktakeNext]_stocktakeVars => Orderly'
<1> SUFFICES ASSUME CountTypes, ~overlapped', Orderly, [StocktakeNext]_stocktakeVars PROVE Orderly'
  OBVIOUS
<1> USE StocktakeAssumption DEF Orderly, IsOpen, NoneOpen
<1>0. CASE UNCHANGED stocktakeVars
  BY <1>0 DEF stocktakeVars, counts, OneUnderWay, StillAccepted, OpenIsOne, PostsTell
<1>1. ASSUME NEW s \in Shelves, NEW n, Sell(s) \/ Deliver(s, n) PROVE Orderly'
  BY <1>1, GoodsSteps DEF counts, OneUnderWay, StillAccepted, OpenIsOne, PostsTell
<1>2. ASSUME NEW r \in Counters, NEW a \in Wanted, Check(r, a) PROVE Orderly'
  <2>1. \A q \in Counters : stage[q] = "idle"
    BY <1>2 DEF Check, UnderWay
  <2>2. \A q \in Counters : stage'[q] # "idle" => q = r
    BY <1>2, <2>1 DEF Check, CountTypes
  <2>3. ask'[r] = a /\ Accepts(a) /\ UNCHANGED <<status, posts>>
    BY <1>2 DEF Check, counts, CountTypes
  <2>4. StillAccepted'
    BY <2>2, <2>3 DEF StillAccepted, Accepts
  <2>5. QED BY <2>2, <2>3, <2>4 DEF OneUnderWay, OpenIsOne, PostsTell
<1>a. ASSUME NEW r \in Counters, End(r), stage[r] # "idle" PROVE OneUnderWay' /\ StillAccepted'
  BY <1>a, EndLeavesNobody DEF OneUnderWay, StillAccepted
<1>3. ASSUME NEW r \in Counters, Open(r) PROVE Orderly'
  <2>1. stage[r] # "idle" /\ ask[r].kind = "open" /\ End(r) /\ posts' = posts
    BY <1>3 DEF Open, Asks
  <2>2. NoneOpen
    BY <2>1 DEF StillAccepted
  <2>3. PICK c \in Counts : status[c] = "none" /\ status' = [status EXCEPT ![c] = "open"]
    BY <1>3 DEF Open
  <2>4. OpenIsOne' /\ PostsTell'
    BY <2>1, <2>2, <2>3 DEF CountTypes, OpenIsOne, PostsTell
  <2>5. QED BY <1>a, <2>1, <2>4
<1>4. ASSUME NEW r \in Counters, Count(r) \/ RemoveLine(r) \/ AddOptions(r) PROVE Orderly'
  <2>1. stage[r] # "idle" /\ End(r) /\ UNCHANGED <<status, posts>>
    BY <1>4 DEF Count, RemoveLine, AddOptions, Asks, counts
  <2>2. QED BY <1>a, <2>1 DEF OpenIsOne, PostsTell
<1>5. ASSUME NEW r \in Counters, Cancel(r) PROVE Orderly'
  <2>1. stage[r] # "idle" /\ ask[r].kind = "cancel" /\ End(r) /\ posts' = posts
    BY <1>5 DEF Cancel, Asks
  <2>2. IsOpen(ask[r].count) /\ status' = [status EXCEPT ![ask[r].count] = "cancelled"]
    BY <1>5, <2>1 DEF Cancel, StillAccepted
  <2>3. OpenIsOne' /\ PostsTell'
    BY <2>1, <2>2 DEF CountTypes, OpenIsOne, PostsTell
  <2>4. QED BY <1>a, <2>1, <2>3
<1>6. ASSUME NEW r \in Counters, Measure(r) PROVE Orderly'
  <2>1. stage[r] # "idle" /\ UNCHANGED <<status, posts>>
    BY <1>6 DEF Measure, Asks, counts
  <2>2. CASE End(r)
    BY <1>a, <2>1, <2>2 DEF OpenIsOne, PostsTell
  <2>3. CASE stage' = [stage EXCEPT ![r] = "measured"] /\ UNCHANGED ask
    BY <2>1, <2>3 DEF CountTypes, OneUnderWay, StillAccepted, OpenIsOne, PostsTell
  <2>4. QED BY <1>6, <2>2, <2>3 DEF Measure
<1>7. ASSUME NEW r \in Counters, Post(r) PROVE Orderly'
  <2>1. stage[r] = "measured" /\ End(r)
    BY <1>7 DEF Post
  <2>2. \/ UNCHANGED <<status, posts>>
        \/ /\ status' = [status EXCEPT ![ask[r].count] = "posted"]
           /\ posts' = [posts EXCEPT ![ask[r].count] = @ + 1]
    BY <1>7 DEF Post
  <2>3. IsOpen(ask[r].count)
    BY <2>1 DEF CountTypes, StillAccepted
  <2>4. OpenIsOne' /\ PostsTell'
    BY <2>2, <2>3 DEF CountTypes, OpenIsOne, PostsTell
  <2>5. QED BY <1>a, <2>1, <2>4
<1>8. QED
  BY <1>0, <1>1, <1>2, <1>3, <1>4, <1>5, <1>6, <1>7 DEF StocktakeNext

\* Once two requests have overlapped, they have.
LEMMA OverlappedStays == [StocktakeNext]_stocktakeVars /\ overlapped => overlapped'
  BY DEF StocktakeNext, Sell, Deliver, Check, Open, Count, RemoveLine, Cancel, AddOptions, Measure, Post,
         stocktakeVars

\* Where at most one count is open, their number says so.
LEMMA OpenIsOneCard == OpenIsOne => Cardinality({c \in Counts : status[c] = "open"}) <= 1
<1> SUFFICES ASSUME OpenIsOne PROVE Cardinality({c \in Counts : status[c] = "open"}) <= 1
  OBVIOUS
<1>1. CASE {c \in Counts : status[c] = "open"} = {}
  BY <1>1, FS_EmptySet
<1>2. ASSUME NEW c \in Counts, status[c] = "open" PROVE Cardinality({d \in Counts : status[d] = "open"}) <= 1
  <2>1. {d \in Counts : status[d] = "open"} = {c}
    BY <1>2 DEF OpenIsOne, IsOpen
  <2>2. Cardinality({c}) = 1
    BY FS_Singleton
  <2>3. QED BY <2>1, <2>2
<1>3. QED BY <1>1, <1>2

\* While requests do not overlap, one count is open at a time, each is posted at
\* most once, and one that was cancelled has put nothing in the ledger - for any
\* number of shelves, lots, counts and people, whatever happens to the goods.
THEOREM AShelfIsCountedOnce == StocktakeSpec => []CountedOnce
<1>1. StocktakeInit => SInv
  BY SInvInit
<1>2. SInv /\ [StocktakeNext]_stocktakeVars => SInv'
  BY CountTypesStep, OrderlyStep, OverlappedStays DEF SInv
<1>3. SInv => CountedOnce
  BY OpenIsOneCard DEF SInv, Orderly, PostsTell, CountedOnce, OneOpenCount, PostedOnce
<1>4. QED
  BY <1>1, <1>2, <1>3, PTL DEF StocktakeSpec

-----------------------------------------------------------------------------
(* A form: the inductive invariant. *)

\* Nothing is about a form that was not opened yet.
Opened ==
  /\ screen # Blank => screen.mount <= opened /\ screen.matter <= opened
  /\ draft # Blank => draft.matter <= opened
  /\ \A c \in calls : c.mount <= opened /\ c.matter <= opened
  /\ \A e \in entries : e.matter <= opened
  /\ \A t \in saidSaved : t[1] <= opened

\* An id minted with the form stays with the matter, kept, sent and recorded.
IdsFollow ==
  form.mints = "form" =>
    /\ screen # Blank => screen.id = <<"form", screen.matter>>
    /\ draft # Blank => draft.id = <<"form", draft.matter>>
    /\ \A c \in calls : c.id = <<"form", c.matter>>
    /\ \A e \in entries : e.id = <<"form", e.matter>>

\* A form that keeps nothing is about one matter each time it is opened.
MountsFollow ==
  ~form.keeps =>
    /\ draft = Blank
    /\ screen # Blank => screen.mount = screen.matter
    /\ \A c \in calls : c.mount = c.matter

\* The second request of a save comes after the first was accepted.
StagesFollow ==
  /\ form.stages = 1 => /\ screen # Blank => ~screen.saved
                        /\ \A c \in calls : c.does # "openStock"
  /\ screen # Blank /\ screen.saved => EntriesOf(screen.matter, "save") # {}
  /\ \A c \in calls : c.does = "openStock" => EntriesOf(c.matter, "save") # {}

\* What the server accepted is recorded, or what was taken for it.
AcceptedIsIn ==
  \A c \in calls : c.at = "accepted" /\ c.does # "check" =>
    \/ \E e \in entries : e.matter = c.matter /\ e.does = c.does /\ e.typed = c.typed
    \/ c.matter \in gaveUp /\ form.repeat # "refused"

\* Of a form that is saved in one request and whose answers were all heard, one
\* request is under way at most, and once it has made its entry it is the last.
OneCallEach ==
  \A c, d \in calls : c.matter = d.matter /\ c.matter \notin gaveUp => c = d /\ c.awaited
EntryIsLast ==
  \A e \in entries : e.matter \notin gaveUp =>
    \/ \E c \in calls : c.matter = e.matter /\ c.at = "accepted" /\ c.does = "save"
    \/ /\ \A c \in calls : c.matter # e.matter
       /\ screen # Blank => screen.matter # e.matter
Simple == ~form.keeps /\ form.stages = 1

NoTwin ==
  \A e, f \in entries : e.matter = f.matter /\ e.does = f.does =>
    e = f \/ (e.matter \in gaveUp /\ form.known \in {"name", "no"})

\* What was checked is what is typed, and what is being checked too.
CheckFollows ==
  /\ screen # Blank /\ screen.checked # Blank =>
       screen.checked = screen.typed \/ screen.matter \in crossed
  /\ \A c \in calls : c.awaited /\ c.does = "check" /\ OnScreen(c) =>
       c.typed = screen.typed \/ screen.matter \in crossed

ToldSo == {t[1] : t \in saidSaved}
KeptUntilTold ==
  form.keeps =>
    /\ \A m \in begun \ (dropped \cup swept \cup ToldSo) :
         draft # Blank /\ draft.matter = m /\ draft.typed # 0
    /\ draft # Blank => draft.matter \notin ToldSo
    /\ screen # Blank => screen.matter \notin ToldSo
    /\ screen # Blank /\ draft # Blank => screen.matter = draft.matter

FormsInv ==
  /\ FormsTypeOK /\ Opened /\ IdsFollow /\ MountsFollow /\ StagesFollow
  /\ AcceptedIsIn /\ (Simple => OneCallEach /\ EntryIsLast) /\ NoTwin /\ ToldIsRecorded
  /\ CheckFollows /\ SavedAsChecked /\ KeptUntilTold

-----------------------------------------------------------------------------
(* What the kinds of form have in common. *)

LEMMA KindFacts ==
  ASSUME NEW f \in AllForms
  PROVE  /\ f.stages \in {1, 2} /\ f.known \in {"id", "name", "entry", "no"}
         /\ f.repeat \in {"refused", "done", "rewritten"}
         /\ f.known = "id" => f.mints = "form" /\ f.repeat # "rewritten"
         /\ f.known \in {"name", "no"} => ~f.keeps /\ f.stages = 1 /\ f.repeat = "refused"
         /\ f.known = "entry" <=> f.repeat = "rewritten"
         /\ f.repeat # "refused" => ~f.keeps /\ f.stages = 1
         /\ f.keeps => f.stages = 1 /\ f.known = "id"
         /\ f.stages = 2 => f.known = "id" /\ ~f.checks
<1>1. \/ f = PerAttempt \/ f = OfThePage \/ f = Named \/ f = PerForm \/ f = DeliveryForm
      \/ f = ProductForm \/ f = TransferForm \/ f = SaleCorrectionForm \/ f = DeliveryCorrectionForm
  BY DEF AllForms, SpendingForm, CustomerForm, RecordPaymentForm, PaySupplierForm, RefundForm, ReturnForm,
         AccountForm, LocationForm, SupplierForm, PurchaseTargetForm, MoneyTargetForm, AdjustForm, BankingForm
<1>2. CASE f = PerAttempt
  BY <1>2 DEF PerAttempt
<1>3. CASE f = OfThePage
  BY <1>3 DEF PerAttempt, OfThePage
<1>4. CASE f = Named
  BY <1>4 DEF PerAttempt, Named
<1>5. CASE f = PerForm
  BY <1>5 DEF PerAttempt, PerForm
<1>6. CASE f = DeliveryForm
  BY <1>6 DEF PerAttempt, PerForm, DeliveryForm
<1>7. CASE f = ProductForm
  BY <1>7 DEF PerAttempt, PerForm, ProductForm
<1>8. CASE f = TransferForm
  BY <1>8 DEF PerAttempt, PerForm, TransferForm
<1>9. CASE f = SaleCorrectionForm
  BY <1>9 DEF PerAttempt, PerForm, SaleCorrectionForm
<1>10. CASE f = DeliveryCorrectionForm
  BY <1>10 DEF PerAttempt, DeliveryCorrectionForm
<1>11. QED
  BY <1>1, <1>2, <1>3, <1>4, <1>5, <1>6, <1>7, <1>8, <1>9, <1>10

-----------------------------------------------------------------------------
(* What the steps do to the requests. *)

\* The same request, whatever has become of it.
SameSaving(d, c) ==
  /\ d.n = c.n /\ d.mount = c.mount /\ d.matter = c.matter /\ d.id = c.id
  /\ d.typed = c.typed /\ d.checked = c.checked

LEMMA CallWrites ==
  ASSUME NEW c \in Call
  PROVE  /\ \A how \in {"server", "accepted", "refused"} :
              /\ [c EXCEPT !.at = how] \in Call /\ SameSaving([c EXCEPT !.at = how], c)
              /\ [c EXCEPT !.at = how].at = how /\ [c EXCEPT !.at = how].does = c.does
              /\ [c EXCEPT !.at = how].awaited = c.awaited
         /\ [c EXCEPT !.awaited = FALSE] \in Call /\ SameSaving([c EXCEPT !.awaited = FALSE], c)
         /\ [c EXCEPT !.awaited = FALSE].at = c.at /\ [c EXCEPT !.awaited = FALSE].does = c.does
         /\ [c EXCEPT !.awaited = FALSE].awaited = FALSE
         /\ [c EXCEPT !.does = "openStock", !.at = "server"] \in Call
         /\ SameSaving([c EXCEPT !.does = "openStock", !.at = "server"], c)
         /\ [c EXCEPT !.does = "openStock", !.at = "server"].at = "server"
         /\ [c EXCEPT !.does = "openStock", !.at = "server"].does = "openStock"
         /\ [c EXCEPT !.does = "openStock", !.at = "server"].awaited = c.awaited
  BY DEF Call, SameSaving

\* Every request but one just sent is one from before.
CameFrom(d, c) ==
  /\ SameSaving(d, c) /\ (d.awaited => c.awaited)
  /\ d.does = c.does \/ (form.stages = 2 /\ d.does = "openStock" /\ c.does = "save" /\ c.at = "accepted")
CallsFrom == calls' \subseteq Call /\ \A d \in calls' : \E c \in calls : CameFrom(d, c)

LEMMA DealtIs ==
  ASSUME calls \subseteq Call, NEW c \in calls, NEW how \in {"accepted", "refused"}, Dealt(c, how)
  PROVE  /\ calls' \subseteq Call
         /\ \A d \in calls' :
              \/ d \in calls /\ d # c
              \/ c.awaited /\ SameSaving(d, c) /\ d.does = c.does /\ d.awaited /\ d.at = how
         /\ \A d \in calls \ {c} : d \in calls'
         /\ c.awaited => \E d \in calls' : SameSaving(d, c) /\ d.does = c.does /\ d.awaited /\ d.at = how
<1>1. PICK d : d = [c EXCEPT !.at = how]
  OBVIOUS
<1>2. d \in Call /\ SameSaving(d, c) /\ d.at = how /\ d.does = c.does /\ d.awaited = c.awaited
  <2>1. how \in {"server", "accepted", "refused"} /\ c \in Call
    OBVIOUS
  <2>2. QED
    BY <1>1, <2>1, CallWrites, ZenonT(60)
<1>3. calls' = (calls \ {c}) \cup (IF c.awaited THEN {d} ELSE {})
  BY <1>1 DEF Dealt
<1>4. CASE c.awaited
  BY <1>2, <1>3, <1>4
<1>5. CASE ~c.awaited
  BY <1>3, <1>5
<1>6. QED
  BY <1>4, <1>5

LEMMA GiveUpIs ==
  ASSUME calls \subseteq Call, NEW c \in calls, GiveUp(c)
  PROVE  /\ calls' \subseteq Call
         /\ \A d \in calls' :
              \/ d \in calls /\ d # c
              \/ c.at = "server" /\ SameSaving(d, c) /\ d.does = c.does /\ ~d.awaited /\ d.at = "server"
<1>1. PICK d : d = [c EXCEPT !.awaited = FALSE]
  OBVIOUS
<1>2. d \in Call /\ SameSaving(d, c) /\ d.at = c.at /\ d.does = c.does /\ d.awaited = FALSE
  BY <1>1, CallWrites
<1>3. calls' = (calls \ {c}) \cup (IF c.at = "server" THEN {d} ELSE {})
  BY <1>1 DEF GiveUp
<1>4. CASE c.at = "server"
  BY <1>2, <1>3, <1>4
<1>5. CASE c.at # "server"
  BY <1>3, <1>5
<1>6. QED
  BY <1>4, <1>5

LEMMA AnswerIs ==
  ASSUME calls \subseteq Call, NEW c \in calls, Answer(c)
  PROVE  /\ calls' \subseteq Call
         /\ \A d \in calls' :
              \/ d \in calls /\ d # c
              \/ GoOn(c) /\ SameSaving(d, c) /\ d.does = "openStock" /\ d.awaited /\ d.at = "server"
<1> DEFINE d == [c EXCEPT !.does = "openStock", !.at = "server"]
<1>1. d \in Call /\ SameSaving(d, c) /\ d.at = "server" /\ d.does = "openStock" /\ d.awaited = c.awaited
  BY CallWrites
<1>2. calls' = (calls \ {c}) \cup (IF GoOn(c) THEN {d} ELSE {}) /\ c.awaited
  BY DEF Answer
<1> HIDE DEF d
<1>3. CASE GoOn(c)
  BY <1>1, <1>2, <1>3
<1>4. CASE ~GoOn(c)
  BY <1>2, <1>4
<1>5. QED
  BY <1>3, <1>4

LEMMA ReloadIs ==
  ASSUME calls \subseteq Call, Reload
  PROVE  /\ calls' \subseteq Call
         /\ \A d \in calls' : \E c \in calls :
              c.at = "server" /\ SameSaving(d, c) /\ d.does = c.does /\ ~d.awaited /\ d.at = "server"
<1>1. ASSUME NEW d \in calls'
      PROVE  /\ d \in Call
             /\ \E c \in calls :
                  c.at = "server" /\ SameSaving(d, c) /\ d.does = c.does /\ ~d.awaited /\ d.at = "server"
  <2>1. PICK c \in calls : c.at = "server" /\ d = [c EXCEPT !.awaited = FALSE]
    BY <1>1 DEF Reload
  <2>2. d \in Call /\ SameSaving(d, c) /\ d.at = c.at /\ d.does = c.does /\ d.awaited = FALSE
    BY <2>1, CallWrites
  <2>3. QED
    BY <2>1, <2>2
<1>2. QED
  BY <1>1

\* What is sent, about what is on the screen.
LEMMA PressIs ==
  ASSUME FormsTypeOK, Press
  PROVE  \E d \in Call :
           /\ calls' = calls \cup {d}
           /\ d.mount = screen.mount /\ d.matter = screen.matter /\ d.id = IdSent
           /\ d.typed = screen.typed /\ d.checked = screen.checked /\ d.does = NextRequest
           /\ d.at = "server" /\ d.awaited
<1> DEFINE d == [n |-> pressed + 1, mount |-> screen.mount, matter |-> screen.matter, id |-> IdSent,
                 typed |-> screen.typed, checked |-> screen.checked, does |-> NextRequest,
                 at |-> "server", awaited |-> TRUE]
<1>1. screen \in Screen /\ pressed \in Nat /\ pressed < MaxPresses /\ MaxPresses \in Nat
  BY FormsAssumption DEF FormsTypeOK, Press
<1>2. pressed + 1 \in 1..MaxPresses
  BY <1>1
<1>3. IdSent \in Ids
  <2>1. CASE form.mints = "attempt"
    BY <1>2, <2>1 DEF IdSent, Ids
  <2>2. CASE form.mints # "attempt"
    BY <1>1, <2>2 DEF IdSent, Screen
  <2>3. QED
    BY <2>1, <2>2
<1>4. NextRequest \in {"check", "save", "openStock"}
  BY DEF NextRequest
<1>5. d \in Call
  BY <1>1, <1>2, <1>3, <1>4 DEF Call, Screen
<1>6. calls' = calls \cup {d}
  BY DEF Press
<1>7. /\ d.mount = screen.mount /\ d.matter = screen.matter /\ d.id = IdSent
      /\ d.typed = screen.typed /\ d.checked = screen.checked /\ d.does = NextRequest
      /\ d.at = "server" /\ d.awaited = TRUE
  OBVIOUS
<1> HIDE DEF d
<1>8. QED
  BY <1>5, <1>6, <1>7

LEMMA CallsComeFrom ==
  ASSUME FormsTypeOK, [FormsNext]_formVars, ~Press
  PROVE  CallsFrom
<1>1. calls \subseteq Call
  BY DEF FormsTypeOK
<1>2. \A c : CameFrom(c, c)
  BY DEF CameFrom, SameSaving
<1>3. CASE OpenForm \/ TypeIn \/ Leave \/ CancelForm \/ UNCHANGED formVars
  <2>1. calls' = calls
    BY <1>3 DEF OpenForm, TypeIn, Leave, CancelForm, formVars
  <2>2. QED
    BY <1>1, <1>2, <2>1 DEF CallsFrom
<1>4. CASE Reload
  BY <1>1, <1>4, ReloadIs DEF CallsFrom, CameFrom
<1>5. ASSUME NEW c \in calls, Serve(c)
      PROVE  CallsFrom
  <2>1. \E how \in {"accepted", "refused"} : Dealt(c, how)
    BY <1>5 DEF Serve, Record, Rewrite, Agree, Refuse
  <2>2. calls' \subseteq Call /\ \A d \in calls' : d \in calls \/ CameFrom(d, c)
    BY <1>1, <2>1, DealtIs DEF CameFrom
  <2>3. QED
    BY <1>2, <2>2 DEF CallsFrom
<1>6. ASSUME NEW c \in calls, GiveUp(c)
      PROVE  CallsFrom
  <2>1. calls' \subseteq Call /\ \A d \in calls' : d \in calls \/ CameFrom(d, c)
    BY <1>1, <1>6, GiveUpIs DEF CameFrom
  <2>2. QED
    BY <1>2, <2>1 DEF CallsFrom
<1>7. ASSUME NEW c \in calls, Answer(c)
      PROVE  CallsFrom
  <2>1. calls' \subseteq Call /\ \A d \in calls' : d \in calls \/ CameFrom(d, c)
    BY <1>1, <1>7, AnswerIs DEF CameFrom, GoOn, Answer
  <2>2. QED
    BY <1>2, <2>1 DEF CallsFrom
<1>8. QED
  BY <1>3, <1>4, <1>5, <1>6, <1>7 DEF FormsNext

-----------------------------------------------------------------------------
(* What the steps do to the screen, the kept copy and the entries. *)

LEMMA OpenIs ==
  ASSUME FormsTypeOK, OpenForm
  PROVE  /\ opened + 1 \in Matters /\ opened' = opened + 1
         /\ screen' \in Screen /\ screen' # Blank /\ screen'.mount = opened + 1
         /\ screen'.checked = Blank /\ screen'.saved = FALSE
         /\ draft = Blank => /\ screen'.matter = opened + 1
                             /\ form.mints = "form" => screen'.id = <<"form", opened + 1>>
         /\ draft # Blank => screen'.matter = draft.matter /\ screen'.id = draft.id
<1>1. opened + 1 \in Matters /\ opened' = opened + 1
  BY FormsAssumption DEF FormsTypeOK, OpenForm, Matters
<1>2. CASE draft = Blank
  <2> DEFINE m == opened + 1
             id == IF form.mints = "form" THEN <<"form", m>> ELSE Blank
             s == [mount |-> m, matter |-> m, id |-> id, typed |-> 0, checked |-> Blank, saved |-> FALSE]
  <2>1. id \in Ids
    BY <1>1 DEF Ids
  <2>2. screen' = s
    BY <1>1, <1>2 DEF OpenForm, NewScreen
  <2>3. 0 \in Version
    BY FormsAssumption DEF Version
  <2> HIDE DEF id
  <2>4. /\ s \in Screen /\ s.mount = m /\ s.matter = m /\ s.id = id
        /\ s.checked = Blank /\ s.saved = FALSE
    BY <1>1, <2>1, <2>3 DEF Screen
  <2> HIDE DEF s
  <2>5. s # Blank
    BY <2>4, FormsAssumption
  <2>6. QED
    BY <1>1, <1>2, <2>2, <2>4, <2>5 DEF id
<1>3. CASE draft # Blank
  <2> DEFINE m == opened + 1
             s == [mount |-> m, matter |-> draft.matter, id |-> draft.id, typed |-> draft.typed,
                   checked |-> Blank, saved |-> FALSE]
  <2>1. draft \in Draft
    BY <1>3 DEF FormsTypeOK
  <2>2. screen' = s
    BY <1>1, <1>3 DEF OpenForm, Restored
  <2>3. /\ s \in Screen /\ s.mount = m /\ s.matter = draft.matter /\ s.id = draft.id
        /\ s.checked = Blank /\ s.saved = FALSE
    BY <1>1, <2>1 DEF Screen, Draft
  <2> HIDE DEF s
  <2>4. s # Blank
    BY <2>3, FormsAssumption
  <2>5. QED
    BY <1>1, <1>3, <2>2, <2>3, <2>4
<1>4. QED
  BY <1>2, <1>3

LEMMA TypeInIs ==
  ASSUME FormsTypeOK, TypeIn
  PROVE  /\ typing' \in Version /\ typing' # 0 /\ screen \in Screen /\ screen # Blank
         /\ screen' \in Screen /\ screen' # Blank
         /\ screen'.mount = screen.mount /\ screen'.matter = screen.matter /\ screen'.id = screen.id
         /\ screen'.typed = typing' /\ screen'.checked = Blank /\ screen'.saved = screen.saved
         /\ ~form.keeps => draft' = draft
         /\ form.keeps => /\ draft' \in Draft /\ draft' # Blank /\ draft'.matter = screen.matter
                          /\ draft'.id = screen.id /\ draft'.typed = typing'
<1>1. typing' \in Version /\ typing' # 0
  BY FormsAssumption DEF FormsTypeOK, TypeIn, Version
<1>2. screen \in Screen /\ screen # Blank
  BY DEF FormsTypeOK, TypeIn
<1>3. PICK v \in Version : v = typing'
  BY <1>1
<1>4. PICK s : s = [screen EXCEPT !.typed = v, !.checked = Blank]
  OBVIOUS
<1>5. /\ s \in Screen /\ s.mount = screen.mount /\ s.matter = screen.matter /\ s.id = screen.id
      /\ s.typed = v /\ s.checked = Blank /\ s.saved = screen.saved
  BY <1>2, <1>4 DEF Screen
<1>6. screen' = s
  BY <1>3, <1>4 DEF TypeIn, Typed
<1>7. PICK k : k = [matter |-> screen.matter, id |-> screen.id, typed |-> v]
  OBVIOUS
<1>8. k \in Draft /\ k.matter = screen.matter /\ k.id = screen.id /\ k.typed = v
  BY <1>2, <1>7 DEF Draft, Screen
<1>9. draft' = IF form.keeps THEN k ELSE draft
  BY <1>3, <1>7 DEF TypeIn
<1>10. QED
  BY <1>1, <1>2, <1>3, <1>5, <1>6, <1>8, <1>9, FormsAssumption

LEMMA ScreenAnswered ==
  ASSUME FormsTypeOK, NEW c \in calls, Answer(c)
  PROVE  \/ Shut(c) /\ screen' = Blank
         \/ ~Shut(c) /\ screen' = screen /\ (GoOn(c) => ~OnScreen(c))
         \/ /\ ~Shut(c) /\ OnScreen(c) /\ screen \in Screen /\ screen' \in Screen /\ screen' # Blank
            /\ screen'.mount = screen.mount /\ screen'.matter = screen.matter /\ screen'.id = screen.id
            /\ screen'.typed = screen.typed
            /\ \/ GoOn(c) /\ screen'.saved = TRUE /\ screen'.checked = screen.checked
               \/ /\ ~GoOn(c) /\ c.does = "check" /\ c.awaited /\ screen'.checked = c.typed
                  /\ screen'.saved = screen.saved
<1>1. CASE Shut(c)
  BY <1>1 DEF Answer, Shut, GoOn
<1>2. CASE ~Shut(c) /\ GoOn(c) /\ OnScreen(c)
  <2>1. PICK s : s = [screen EXCEPT !.saved = TRUE]
    OBVIOUS
  <2>2. screen \in Screen /\ screen' = s
    BY <1>2, <2>1 DEF Answer, OnScreen, FormsTypeOK, Shut, GoOn
  <2>3. /\ s \in Screen /\ s.mount = screen.mount /\ s.matter = screen.matter /\ s.id = screen.id
        /\ s.typed = screen.typed /\ s.saved = TRUE /\ s.checked = screen.checked
    BY <2>1, <2>2 DEF Screen
  <2>4. QED
    BY <1>2, <2>2, <2>3, FormsAssumption
<1>3. CASE /\ ~Shut(c) /\ ~(GoOn(c) /\ OnScreen(c))
           /\ c.does = "check" /\ c.at = "accepted" /\ OnScreen(c)
  <2>1. PICK s : s = [screen EXCEPT !.checked = c.typed]
    OBVIOUS
  <2>2. screen \in Screen /\ screen' = s
    BY <1>3, <2>1 DEF Answer, OnScreen, FormsTypeOK
  <2>3. c.typed \in Version
    BY DEF FormsTypeOK, Call
  <2>4. /\ s \in Screen /\ s.mount = screen.mount /\ s.matter = screen.matter /\ s.id = screen.id
        /\ s.typed = screen.typed /\ s.saved = screen.saved /\ s.checked = c.typed
    BY <2>1, <2>2, <2>3 DEF Screen
  <2>5. QED
    BY <1>3, <2>2, <2>4, FormsAssumption DEF Answer
<1>4. CASE /\ ~Shut(c) /\ ~(GoOn(c) /\ OnScreen(c))
           /\ ~(c.does = "check" /\ c.at = "accepted" /\ OnScreen(c))
  BY <1>4 DEF Answer
<1>5. QED
  BY <1>1, <1>2, <1>3, <1>4

\* The same entry, whatever its figures.
SameEntry(e, f) == e.n = f.n /\ e.matter = f.matter /\ e.does = f.does /\ e.id = f.id

LEMMA RecordIs ==
  ASSUME FormsTypeOK, NEW c \in calls, c.does # "check", Record(c)
  PROVE  \E e \in Entry : /\ entries' = entries \cup {e}
                          /\ e.matter = c.matter /\ e.does = c.does /\ e.id = c.id /\ e.typed = c.typed
<1>1. PICK e : e = [n |-> c.n, matter |-> c.matter, does |-> c.does, id |-> c.id, typed |-> c.typed]
  OBVIOUS
<1>2. /\ e \in Entry /\ e.matter = c.matter /\ e.does = c.does /\ e.id = c.id /\ e.typed = c.typed
  BY <1>1 DEF Entry, Call, FormsTypeOK
<1>3. entries' = entries \cup {e}
  BY <1>1 DEF Record
<1>4. QED
  BY <1>2, <1>3

LEMMA RewriteIs ==
  ASSUME FormsTypeOK, NEW c \in calls, Rewrite(c), NEW f \in entries, Already(c) = {f}
  PROVE  /\ form.repeat = "rewritten"
         /\ \E e \in Entry : /\ entries' = (entries \ {f}) \cup {e}
                             /\ SameEntry(e, f) /\ e.typed = c.typed
<1>1. c.typed \in Version /\ f \in Entry
  BY DEF FormsTypeOK, Call
<1>2. PICK e : e = [f EXCEPT !.typed = c.typed]
  OBVIOUS
<1>3. e \in Entry /\ SameEntry(e, f) /\ e.typed = c.typed
  BY <1>1, <1>2 DEF Entry, SameEntry
<1>4. entries' = (entries \ {f}) \cup {e}
  BY <1>2 DEF Rewrite
<1>5. QED
  BY <1>3, <1>4 DEF Rewrite

\* What the server knows a repeat by, where it knows it, is the matter.
LEMMA AlreadyIs ==
  ASSUME FormsTypeOK, IdsFollow, NoTwin, NEW c \in calls, form.known \in {"id", "entry"}
  PROVE  /\ Already(c) = EntriesOf(c.matter, c.does)
         /\ \A f \in Already(c) : Already(c) = {f}
<1>1. form.known = "id" => form.mints = "form"
  BY KindFacts, FormsAssumption DEF FormsTypeOK
<1>2. \A m, k : <<"form", m>> = <<"form", k>> => m = k
  OBVIOUS
<1>3. Already(c) = EntriesOf(c.matter, c.does)
  <2>1. CASE c.does = "openStock"
    BY <2>1 DEF Already, EntriesOf
  <2>2. CASE c.does # "openStock" /\ form.known = "entry"
    BY <2>2 DEF Already, EntriesOf
  <2>3. CASE c.does # "openStock" /\ form.known = "id"
    <3>1. c.id = <<"form", c.matter>> /\ \A e \in entries : e.id = <<"form", e.matter>>
      BY <1>1, <2>3 DEF IdsFollow
    <3>2. Already(c) = {e \in entries : e.does = c.does /\ e.id = c.id}
      BY <2>3 DEF Already
    <3>3. QED
      BY <1>2, <3>1, <3>2 DEF EntriesOf
  <2>4. QED
    BY <2>1, <2>2, <2>3
<1>4. \A e, f \in EntriesOf(c.matter, c.does) : e = f
  BY DEF EntriesOf, NoTwin
<1>5. QED
  BY <1>3, <1>4

LEMMA RewrittenIsKnown ==
  ASSUME FormsTypeOK, IdsFollow, NoTwin, NEW c \in calls, Rewrite(c)
  PROVE  \E f \in entries, e \in Entry :
           /\ form.repeat = "rewritten" /\ Already(c) = {f} /\ f.matter = c.matter /\ f.does = c.does
           /\ entries' = (entries \ {f}) \cup {e} /\ SameEntry(e, f) /\ e.typed = c.typed
<1>1. form.repeat = "rewritten" /\ form.known = "entry"
  BY KindFacts, FormsAssumption DEF FormsTypeOK, Rewrite
<1>2. PICK f \in entries : f \in Already(c)
  BY DEF Rewrite, Already
<1>3. Already(c) = {f} /\ f.matter = c.matter /\ f.does = c.does
  BY <1>1, <1>2, AlreadyIs DEF EntriesOf
<1>4. QED
  BY <1>1, <1>3, RewriteIs

\* Entries stay, under the id they came with, and come of the requests.
EntriesFrom ==
  /\ entries' \subseteq Entry
  /\ \A e \in entries' : \/ \E f \in entries : SameEntry(e, f)
                         \/ \E c \in calls : e.matter = c.matter /\ e.does = c.does /\ e.id = c.id
  /\ \A f \in entries : \E e \in entries' :
       SameEntry(e, f) /\ (form.repeat = "rewritten" \/ e.typed = f.typed)

LEMMA EntriesComeFrom ==
  ASSUME FormsTypeOK, IdsFollow, NoTwin, [FormsNext]_formVars
  PROVE  EntriesFrom
<1>1. \A e : SameEntry(e, e)
  BY DEF SameEntry
<1>2. CASE entries' = entries
  BY <1>1, <1>2 DEF EntriesFrom, FormsTypeOK
<1>3. ASSUME NEW c \in calls, c.does # "check", Record(c)
      PROVE  EntriesFrom
  BY <1>1, <1>3, RecordIs DEF EntriesFrom, FormsTypeOK
<1>4. ASSUME NEW c \in calls, Rewrite(c)
      PROVE  EntriesFrom
  <2>1. PICK f \in entries, e \in Entry :
          form.repeat = "rewritten" /\ entries' = (entries \ {f}) \cup {e} /\ SameEntry(e, f)
    BY <1>4, RewrittenIsKnown
  <2>2. QED
    BY <1>1, <2>1 DEF EntriesFrom, FormsTypeOK
<1>5. \A c \in calls : Answer(c) \/ GiveUp(c) => entries' = entries
  BY DEF Answer, GiveUp
<1>6. \A c \in calls : Serve(c) => (c.does # "check" /\ Record(c)) \/ Rewrite(c) \/ entries' = entries
  BY DEF Serve, Agree, Refuse
<1>7. OpenForm \/ TypeIn \/ Press \/ Leave \/ CancelForm \/ Reload \/ UNCHANGED formVars => entries' = entries
  BY DEF OpenForm, TypeIn, Press, Leave, CancelForm, Reload, formVars
<1>8. QED
  BY <1>2, <1>3, <1>4, <1>5, <1>6, <1>7 DEF FormsNext

LEMMA FormStays ==
  ASSUME [FormsNext]_formVars
  PROVE  form' = form
BY DEF FormsNext, OpenForm, TypeIn, Press, Leave, CancelForm, Reload, Serve, Answer, GiveUp, formVars

-----------------------------------------------------------------------------
(* The invariant stays, part by part. *)

LEMMA FormTypesStay ==
  ASSUME FormsTypeOK, IdsFollow, NoTwin, [FormsNext]_formVars
  PROVE  FormsTypeOK'
<1>1. form' \in FormKinds /\ entries' \subseteq Entry
  BY FormStays, EntriesComeFrom DEF FormsTypeOK, EntriesFrom
<1>2. calls' \subseteq Call
  <2>1. CASE Press
    BY <2>1, PressIs DEF FormsTypeOK
  <2>2. CASE ~Press
    BY <2>2, CallsComeFrom DEF CallsFrom
  <2>3. QED
    BY <2>1, <2>2
<1>3. CASE OpenForm
  <2>1. /\ screen' \in Screen /\ opened' \in 0..MaxForms
        /\ UNCHANGED <<draft, pressed, typing, gaveUp, saidSaved, begun, dropped, crossed, swept>>
    BY <1>3, OpenIs DEF OpenForm, Matters
  <2>2. QED
    BY <1>1, <1>2, <2>1 DEF FormsTypeOK
<1>4. CASE TypeIn
  <2>1. /\ screen' \in Screen /\ screen \in Screen /\ typing' \in Version
        /\ draft' \in Draft \cup {Blank}
        /\ UNCHANGED <<opened, pressed, gaveUp, saidSaved, dropped, swept>>
    BY <1>4, TypeInIs DEF TypeIn, FormsTypeOK
  <2>2. begun' \subseteq Matters /\ crossed' \subseteq Matters
    BY <1>4, <2>1 DEF TypeIn, FormsTypeOK, Screen
  <2>3. QED
    BY <1>1, <1>2, <2>1, <2>2 DEF FormsTypeOK
<1>5. CASE Press
  <2>1. /\ pressed' \in 0..MaxPresses
        /\ UNCHANGED <<screen, draft, opened, typing, gaveUp, saidSaved, begun, dropped, crossed, swept>>
    BY <1>5, FormsAssumption DEF Press, FormsTypeOK
  <2>2. QED
    BY <1>1, <1>2, <2>1 DEF FormsTypeOK
<1>6. CASE Leave
  BY <1>1, <1>2, <1>6 DEF Leave, history, FormsTypeOK
<1>7. CASE CancelForm
  <2>1. screen.matter \in Matters
    BY <1>7 DEF CancelForm, FormsTypeOK, Screen
  <2>2. QED
    BY <1>1, <1>2, <1>7, <2>1 DEF CancelForm, FormsTypeOK
<1>8. CASE Reload
  <2>1. gaveUp' \subseteq Matters
    BY <1>8 DEF Reload, Awaited, FormsTypeOK, Call
  <2>2. QED
    BY <1>1, <1>2, <1>8, <2>1 DEF Reload, FormsTypeOK
<1>9. ASSUME NEW c \in calls, Serve(c)
      PROVE  FormsTypeOK'
  BY <1>1, <1>2, <1>9 DEF Serve, history, FormsTypeOK
<1>10. ASSUME NEW c \in calls, GiveUp(c)
       PROVE  FormsTypeOK'
  BY <1>1, <1>2, <1>10 DEF GiveUp, FormsTypeOK, Call
<1>11. ASSUME NEW c \in calls, Answer(c)
       PROVE  FormsTypeOK'
  <2>1. screen' \in Screen \cup {Blank}
    BY <1>11, ScreenAnswered DEF FormsTypeOK
  <2>2. draft' \in Draft \cup {Blank}
    BY <1>11 DEF Answer, DraftAfter, FormsTypeOK
  <2>3. saidSaved' \subseteq Matters \X Version
    <3>1. c.matter \in Matters /\ c.typed \in Version /\ saidSaved \subseteq Matters \X Version
      BY DEF FormsTypeOK, Call
    <3>2. QED
      BY <1>11, <3>1 DEF Answer
  <2>4. Others(c) \subseteq Matters
    BY DEF Others, FormsTypeOK, Screen, Draft
  <2>5. swept' \subseteq Matters /\ UNCHANGED <<opened, pressed, typing, gaveUp, begun, dropped, crossed>>
    BY <1>11, <2>4 DEF Answer, FormsTypeOK
  <2>6. QED
    BY <1>1, <1>2, <2>1, <2>2, <2>3, <2>5 DEF FormsTypeOK
<1>12. CASE UNCHANGED formVars
  BY <1>12 DEF formVars, history, FormsTypeOK
<1>13. QED
  BY <1>3, <1>4, <1>5, <1>6, <1>7, <1>8, <1>9, <1>10, <1>11, <1>12 DEF FormsNext

\* What is on the screen was there, but for a form just opened.
LEMMA ScreenStays ==
  ASSUME FormsTypeOK, [FormsNext]_formVars, ~OpenForm, screen' # Blank
  PROVE  /\ screen # Blank /\ screen \in Screen
         /\ screen'.mount = screen.mount /\ screen'.matter = screen.matter /\ screen'.id = screen.id
<1>1. CASE TypeIn
  BY <1>1, TypeInIs
<1>2. ASSUME NEW c \in calls, Answer(c)
      PROVE  /\ screen # Blank
             /\ screen'.mount = screen.mount /\ screen'.matter = screen.matter /\ screen'.id = screen.id
  BY <1>2, ScreenAnswered DEF OnScreen
<1>3. CASE ~TypeIn /\ \A c \in calls : ~Answer(c)
  <2>1. screen' = screen \/ screen' = Blank
    BY <1>3 DEF FormsNext, Press, Leave, CancelForm, Reload, Serve, GiveUp, formVars, history
  <2>2. QED
    BY <2>1 DEF FormsTypeOK
<1>4. QED
  BY <1>1, <1>2, <1>3 DEF FormsTypeOK

\* The kept copy is what was kept, or what is on the screen.
LEMMA DraftStays ==
  ASSUME FormsTypeOK, [FormsNext]_formVars, draft' # Blank
  PROVE  \/ draft # Blank /\ draft' = draft
         \/ /\ form.keeps /\ screen # Blank /\ draft'.matter = screen.matter /\ draft'.id = screen.id
            /\ TypeIn
<1>1. CASE TypeIn
  BY <1>1, TypeInIs
<1>2. CASE ~TypeIn
  BY <1>2 DEF FormsNext, OpenForm, Press, Leave, CancelForm, Reload, Serve, GiveUp, formVars, history,
              Answer, DraftAfter
<1>3. QED
  BY <1>1, <1>2

LEMMA OpenedStays ==
  ASSUME FormsTypeOK, IdsFollow, NoTwin, Opened, [FormsNext]_formVars
  PROVE  Opened'
<1>1. opened' \in Nat /\ opened \in Nat /\ opened <= opened'
  <2>1. opened \in Nat /\ opened + 1 \in Nat /\ opened <= opened + 1
    BY FormsAssumption DEF FormsTypeOK
  <2>2. opened' = opened \/ opened' = opened + 1
    BY DEF FormsNext, OpenForm, TypeIn, Press, Leave, CancelForm, Reload, Serve, Answer, GiveUp, formVars, history
  <2>3. QED
    BY <2>1, <2>2
<1>2. \A k \in Nat : k <= opened => k <= opened'
  BY <1>1
<1>3. Matters \subseteq Nat
  BY FormsAssumption DEF Matters
<1>4. \A e \in entries' : e.matter <= opened'
  <2>1. \A e \in entries' : e.matter \in Nat
    BY <1>3, FormTypesStay DEF FormsTypeOK, Entry
  <2>2. \A e \in entries' : e.matter <= opened
    BY EntriesComeFrom DEF EntriesFrom, SameEntry, Opened
  <2>3. QED
    BY <1>2, <2>1, <2>2
<1>5. \A c \in calls' : c.mount <= opened' /\ c.matter <= opened'
  <2>1. \A c \in calls' : c.mount \in Nat /\ c.matter \in Nat
    BY <1>3, FormTypesStay DEF FormsTypeOK, Call
  <2>2. \A c \in calls' : c.mount <= opened /\ c.matter <= opened
    <3>1. CASE Press
      BY <3>1, PressIs DEF Opened, Press
    <3>2. CASE ~Press
      <4>1. CallsFrom
        BY <3>2, CallsComeFrom
      <4>2. QED
        BY <4>1 DEF CallsFrom, CameFrom, SameSaving, Opened
    <3>3. QED
      BY <3>1, <3>2
  <2>3. QED
    BY <1>2, <2>1, <2>2
<1>6. \A t \in saidSaved' : t[1] <= opened'
  <2>1. \A t \in saidSaved' : t[1] \in Nat
    BY <1>3, FormTypesStay DEF FormsTypeOK
  <2>2. \A t \in saidSaved' : t[1] <= opened
    <3>1. ASSUME NEW c \in calls, Answer(c)
          PROVE  \A t \in saidSaved' : t[1] <= opened
      BY <3>1 DEF Answer, Opened
    <3>2. (\A c \in calls : ~Answer(c)) => saidSaved' = saidSaved
      BY DEF FormsNext, OpenForm, TypeIn, Press, Leave, CancelForm, Reload, Serve, GiveUp, formVars, history
    <3>3. QED
      BY <3>1, <3>2 DEF Opened
  <2>3. QED
    BY <1>2, <2>1, <2>2
<1>7. CASE OpenForm
  <2>1. /\ screen'.mount = opened' /\ (draft = Blank => screen'.matter = opened')
        /\ (draft # Blank => screen'.matter = draft.matter) /\ draft' = draft
    BY <1>7, OpenIs DEF OpenForm
  <2>2. draft # Blank => draft.matter \in Nat /\ draft.matter <= opened
    BY <1>3 DEF FormsTypeOK, Draft, Opened
  <2>3. QED
    BY <1>1, <1>2, <1>4, <1>5, <1>6, <2>1, <2>2 DEF Opened
<1>8. CASE ~OpenForm
  <2>1. opened' = opened
    BY <1>8 DEF FormsNext, TypeIn, Press, Leave, CancelForm, Reload, Serve, Answer, GiveUp, formVars, history
  <2>2. QED
    BY <1>4, <1>5, <1>6, <1>8, <2>1, ScreenStays, DraftStays DEF Opened
<1>9. QED
  BY <1>7, <1>8

LEMMA IdsStay ==
  ASSUME FormsTypeOK, IdsFollow, NoTwin, [FormsNext]_formVars
  PROVE  IdsFollow'
<1> SUFFICES ASSUME form.mints = "form"
             PROVE  /\ screen' # Blank => screen'.id = <<"form", screen'.matter>>
                    /\ draft' # Blank => draft'.id = <<"form", draft'.matter>>
                    /\ \A c \in calls' : c.id = <<"form", c.matter>>
                    /\ \A e \in entries' : e.id = <<"form", e.matter>>
  BY FormStays DEF IdsFollow
<1>1. screen' # Blank => screen'.id = <<"form", screen'.matter>>
  <2>1. CASE OpenForm
    BY <2>1, OpenIs DEF IdsFollow
  <2>2. CASE ~OpenForm
    BY <2>2, ScreenStays DEF IdsFollow
  <2>3. QED
    BY <2>1, <2>2
<1>2. draft' # Blank => draft'.id = <<"form", draft'.matter>>
  BY DraftStays DEF IdsFollow
<1>3. \A c \in calls' : c.id = <<"form", c.matter>>
  <2>1. CASE Press
    BY <2>1, PressIs DEF IdsFollow, Press, IdSent
  <2>2. CASE ~Press
    <3>1. CallsFrom
      BY <2>2, CallsComeFrom
    <3>2. QED
      BY <3>1 DEF CallsFrom, CameFrom, SameSaving, IdsFollow
  <2>3. QED
    BY <2>1, <2>2
<1>4. \A e \in entries' : e.id = <<"form", e.matter>>
  BY EntriesComeFrom DEF EntriesFrom, SameEntry, IdsFollow
<1>5. QED
  BY <1>1, <1>2, <1>3, <1>4

LEMMA MountsStay ==
  ASSUME FormsTypeOK, MountsFollow, [FormsNext]_formVars
  PROVE  MountsFollow'
<1> SUFFICES ASSUME ~form.keeps
             PROVE  /\ draft' = Blank
                    /\ screen' # Blank => screen'.mount = screen'.matter
                    /\ \A c \in calls' : c.mount = c.matter
  BY FormStays DEF MountsFollow
<1>1. draft' = Blank
  BY DraftStays DEF MountsFollow
<1>2. screen' # Blank => screen'.mount = screen'.matter
  <2>1. CASE OpenForm
    BY <2>1, OpenIs DEF MountsFollow
  <2>2. CASE ~OpenForm
    BY <2>2, ScreenStays DEF MountsFollow
  <2>3. QED
    BY <2>1, <2>2
<1>3. \A c \in calls' : c.mount = c.matter
  <2>1. CASE Press
    BY <2>1, PressIs DEF MountsFollow, Press
  <2>2. CASE ~Press
    <3>1. CallsFrom
      BY <2>2, CallsComeFrom
    <3>2. QED
      BY <3>1 DEF CallsFrom, CameFrom, SameSaving, MountsFollow
  <2>3. QED
    BY <2>1, <2>2
<1>4. QED
  BY <1>1, <1>2, <1>3

\* An entry there is stays there, and what it says unless it is corrected.
LEMMA EntriesOfStay ==
  ASSUME EntriesFrom, NEW m, NEW does, EntriesOf(m, does) # {}
  PROVE  EntriesOf(m, does)' # {}
BY DEF EntriesFrom, EntriesOf, SameEntry

LEMMA StagesStay ==
  ASSUME FormsTypeOK, IdsFollow, NoTwin, MountsFollow, AcceptedIsIn, StagesFollow, [FormsNext]_formVars
  PROVE  StagesFollow'
<1>1. EntriesFrom /\ form' = form
  BY EntriesComeFrom, FormStays
<1>2. form.stages = 2 => ~form.keeps /\ form.repeat = "refused"
  BY KindFacts, FormsAssumption DEF FormsTypeOK
<1>3. ASSUME NEW c \in calls, form.stages = 2, c.does = "save", c.at = "accepted"
      PROVE  EntriesOf(c.matter, "save")' # {}
  <2>1. EntriesOf(c.matter, "save") # {}
    BY <1>2, <1>3 DEF AcceptedIsIn, EntriesOf
  <2>2. QED
    BY <1>1, <2>1, EntriesOfStay
<1>4. ASSUME screen' # Blank, screen'.saved, NEW m, m = screen'.matter
      PROVE  form.stages # 1 /\ EntriesOf(m, "save")' # {}
  <2>1. CASE OpenForm
    BY <1>4, <2>1, OpenIs
  <2>2. CASE ~OpenForm /\ screen.saved
    <3>1. screen # Blank /\ screen'.matter = screen.matter
      BY <1>4, <2>2, ScreenStays
    <3>2. form.stages # 1 /\ EntriesOf(m, "save") # {}
      BY <1>4, <2>2, <3>1, KindFacts, FormsAssumption DEF StagesFollow, FormsTypeOK
    <3>3. QED
      BY <1>1, <3>2, EntriesOfStay
  <2>3. CASE ~OpenForm /\ ~screen.saved
    <3>1. PICK c \in calls : Answer(c) /\ GoOn(c) /\ OnScreen(c)
      <4>1. ASSUME NEW c \in calls, Answer(c)
            PROVE  GoOn(c) /\ OnScreen(c)
        BY <1>4, <2>3, <4>1, ScreenAnswered
      <4>2. CASE TypeIn
        BY <1>4, <2>3, <4>2, TypeInIs
      <4>3. CASE ~TypeIn /\ \A c \in calls : ~Answer(c)
        <5>1. screen' = screen \/ screen' = Blank
          BY <2>3, <4>3 DEF FormsNext, Press, Leave, CancelForm, Reload, Serve, GiveUp, formVars, history
        <5>2. QED
          BY <1>4, <2>3, <5>1
      <4>4. QED
        BY <4>1, <4>2, <4>3
    <3>2. screen # Blank /\ screen.mount = c.mount /\ form.stages = 2 /\ c.does = "save" /\ c.at = "accepted"
      BY <3>1 DEF GoOn, OnScreen
    <3>3. m = c.matter
      BY <1>2, <1>4, <2>3, <3>2, ScreenStays DEF MountsFollow
    <3>4. QED
      BY <1>3, <3>2, <3>3
  <2>4. QED
    BY <2>1, <2>2, <2>3
<1>5. ASSUME NEW d \in calls', d.does = "openStock"
      PROVE  form.stages # 1 /\ EntriesOf(d.matter, "save")' # {}
  <2>1. ASSUME NEW c \in calls, c.does = "openStock", c.matter = d.matter
        PROVE  form.stages # 1 /\ EntriesOf(d.matter, "save")' # {}
    BY <1>1, <2>1, EntriesOfStay DEF StagesFollow
  <2>2. CASE Press
    <3>1. PICK s \in Call : calls' = calls \cup {s} /\ s.matter = screen.matter /\ s.does = NextRequest
      BY <2>2, PressIs
    <3>2. CASE d = s
      <4>1. screen # Blank /\ screen.saved
        BY <1>5, <2>2, <3>1, <3>2 DEF NextRequest, Press
      <4>2. QED
        BY <1>1, <3>1, <3>2, <4>1, EntriesOfStay DEF StagesFollow
    <3>3. CASE d # s
      BY <1>5, <2>1, <3>1, <3>3
    <3>4. QED
      BY <3>2, <3>3
  <2>3. CASE ~Press
    <3>1. CallsFrom
      BY <2>3, CallsComeFrom
    <3>2. PICK c \in calls : CameFrom(d, c)
      BY <3>1 DEF CallsFrom
    <3>3. QED
      BY <1>3, <1>5, <2>1, <3>2 DEF CameFrom, SameSaving
  <2>4. QED
    BY <2>2, <2>3
<1>6. screen' # Blank /\ screen'.saved => form.stages # 1 /\ (EntriesOf(screen.matter, "save") # {})'
  <2>1. PICK m : m = screen'.matter
    OBVIOUS
  <2>2. QED
    BY <1>4, <2>1 DEF EntriesOf
<1>7. QED
  BY <1>1, <1>5, <1>6 DEF StagesFollow

\* While every answer was heard, a request at the server is the first about its matter.
LEMMA FirstOfItsMatter ==
  ASSUME OneCallEach, EntryIsLast, NEW c \in calls, c.at = "server",
         NEW e \in entries, e.matter = c.matter
  PROVE  c.matter \in gaveUp
BY DEF OneCallEach, EntryIsLast

LEMMA GaveUpStays ==
  ASSUME [FormsNext]_formVars
  PROVE  gaveUp \subseteq gaveUp'
BY DEF FormsNext, OpenForm, TypeIn, Press, Leave, CancelForm, Reload, Serve, Answer, GiveUp, formVars, history

LEMMA NoTwinStays ==
  ASSUME FormsTypeOK, IdsFollow, NoTwin, Simple => OneCallEach /\ EntryIsLast, [FormsNext]_formVars
  PROVE  NoTwin'
<1>1. form' = form /\ gaveUp \subseteq gaveUp'
  BY FormStays, GaveUpStays
<1>2. form.known \in {"id", "entry"} \/ (form.known \in {"name", "no"} /\ Simple)
  BY KindFacts, FormsAssumption DEF FormsTypeOK, Simple
<1>3. CASE entries' = entries
  BY <1>1, <1>3 DEF NoTwin
<1>4. ASSUME NEW c \in calls, c.at = "server", c.does # "check", Record(c)
      PROVE  NoTwin'
  <2>1. PICK x \in Entry : entries' = entries \cup {x} /\ x.matter = c.matter /\ x.does = c.does
    BY <1>4, RecordIs
  <2>2. ASSUME NEW f \in entries, f.matter = c.matter, f.does = c.does
        PROVE  c.matter \in gaveUp /\ form.known \in {"name", "no"}
    <3>1. CASE form.known \in {"id", "entry"}
      BY <1>4, <2>2, <3>1, AlreadyIs DEF Record, EntriesOf
    <3>2. CASE form.known \in {"name", "no"} /\ Simple
      BY <1>4, <2>2, <3>2, FirstOfItsMatter
    <3>3. QED
      BY <1>2, <3>1, <3>2
  <2>3. QED
    BY <1>1, <2>1, <2>2 DEF NoTwin
<1>5. ASSUME NEW c \in calls, Rewrite(c)
      PROVE  NoTwin'
  <2>1. PICK f \in entries, x \in Entry :
          form.repeat = "rewritten" /\ entries' = (entries \ {f}) \cup {x} /\ SameEntry(x, f)
    BY <1>5, RewrittenIsKnown
  <2>2. form.known = "entry"
    BY <2>1, KindFacts, FormsAssumption DEF FormsTypeOK
  <2>3. QED
    BY <1>1, <2>1, <2>2 DEF NoTwin, SameEntry
<1>6. \A c \in calls : Answer(c) \/ GiveUp(c) => entries' = entries
  BY DEF Answer, GiveUp
<1>7. \A c \in calls : Serve(c) =>
        c.at = "server" /\ ((c.does # "check" /\ Record(c)) \/ Rewrite(c) \/ entries' = entries)
  BY DEF Serve, Agree, Refuse
<1>8. OpenForm \/ TypeIn \/ Press \/ Leave \/ CancelForm \/ Reload \/ UNCHANGED formVars => entries' = entries
  BY DEF OpenForm, TypeIn, Press, Leave, CancelForm, Reload, formVars
<1>9. QED
  BY <1>3, <1>4, <1>5, <1>6, <1>7, <1>8 DEF FormsNext

\* What an entry says changes only where an answer about it was given up on.
LEMMA FiguresStay ==
  ASSUME FormsTypeOK, IdsFollow, NoTwin, Simple => OneCallEach /\ EntryIsLast, [FormsNext]_formVars
  PROVE  \A f \in entries :
           \/ \E e \in entries' : SameEntry(e, f) /\ e.typed = f.typed
           \/ f.matter \in gaveUp /\ form.repeat = "rewritten"
<1>1. \A e : SameEntry(e, e)
  BY DEF SameEntry
<1>2. ASSUME NEW c \in calls, c.at = "server", Rewrite(c), NEW f \in entries
      PROVE  \/ \E e \in entries' : SameEntry(e, f) /\ e.typed = f.typed
             \/ f.matter \in gaveUp /\ form.repeat = "rewritten"
  <2>1. PICK g \in entries, x \in Entry :
          /\ form.repeat = "rewritten" /\ g.matter = c.matter
          /\ entries' = (entries \ {g}) \cup {x}
    BY <1>2, RewrittenIsKnown
  <2>2. Simple
    BY <2>1, KindFacts, FormsAssumption DEF FormsTypeOK, Simple
  <2>3. CASE f = g
    BY <1>2, <2>1, <2>2, <2>3, FirstOfItsMatter
  <2>4. CASE f # g
    BY <1>1, <2>1, <2>4
  <2>5. QED
    BY <2>3, <2>4
<1>3. CASE \A c \in calls : ~(c.at = "server" /\ Rewrite(c))
  <2>1. entries \subseteq entries'
    BY <1>3 DEF FormsNext, OpenForm, TypeIn, Press, Leave, CancelForm, Reload, Serve, Record, Agree, Refuse,
                Answer, GiveUp, formVars
  <2>2. QED
    BY <1>1, <2>1
<1>4. QED
  BY <1>2, <1>3

LEMMA AcceptedStays ==
  ASSUME FormsTypeOK, IdsFollow, NoTwin, AcceptedIsIn, Simple => OneCallEach /\ EntryIsLast,
         [FormsNext]_formVars
  PROVE  AcceptedIsIn'
<1> DEFINE In(c) == \/ \E e \in entries' : e.matter = c.matter /\ e.does = c.does /\ e.typed = c.typed
                    \/ c.matter \in gaveUp' /\ form.repeat # "refused"
<1>1. form' = form /\ gaveUp \subseteq gaveUp'
  BY FormStays, GaveUpStays
<1>2. ASSUME NEW c \in calls, c.at = "accepted", c.does # "check"
      PROVE  In(c)
  <2>1. CASE \E f \in entries : f.matter = c.matter /\ f.does = c.does /\ f.typed = c.typed
    <3>1. PICK f \in entries : f.matter = c.matter /\ f.does = c.does /\ f.typed = c.typed
      BY <2>1
    <3>2. \/ \E e \in entries' : SameEntry(e, f) /\ e.typed = f.typed
          \/ f.matter \in gaveUp /\ form.repeat = "rewritten"
      BY FiguresStay
    <3>3. QED
      BY <1>1, <3>1, <3>2 DEF SameEntry
  <2>2. CASE c.matter \in gaveUp /\ form.repeat # "refused"
    BY <1>1, <2>2
  <2>3. QED
    BY <1>2, <2>1, <2>2 DEF AcceptedIsIn
<1>3. ASSUME NEW c \in calls, c.at = "server", c.does # "check", Record(c) \/ Rewrite(c) \/ Agree(c)
      PROVE  In(c)
  <2>1. CASE Record(c)
    BY <1>3, <2>1, RecordIs
  <2>2. CASE Rewrite(c)
    BY <2>2, RewrittenIsKnown DEF SameEntry
  <2>3. CASE Agree(c)
    <3>1. form.repeat = "done" /\ Already(c) # {}
      BY <1>3, <2>3 DEF Agree
    <3>2. Simple /\ form.known \in {"id", "entry"}
      BY <3>1, KindFacts, FormsAssumption DEF FormsTypeOK, Simple
    <3>3. PICK f \in entries : f.matter = c.matter
      BY <3>1, <3>2, AlreadyIs DEF EntriesOf
    <3>4. c.matter \in gaveUp
      BY <1>3, <3>2, <3>3, FirstOfItsMatter
    <3>5. QED
      BY <1>1, <3>1, <3>4
  <2>4. QED
    BY <1>3, <2>1, <2>2, <2>3
<1>4. calls \subseteq Call
  BY DEF FormsTypeOK
<1> SUFFICES ASSUME NEW d \in calls', d.at = "accepted", d.does # "check"
             PROVE  In(d)
  BY <1>1 DEF AcceptedIsIn
<1>5. CASE d \in calls
  BY <1>2, <1>5
<1>6. ASSUME NEW c \in calls, Serve(c), d \notin calls
      PROVE  In(d)
  <2>1. CASE (c.does # "check" /\ Record(c)) \/ Rewrite(c) \/ Agree(c)
    <3>1. Dealt(c, "accepted")
      BY <2>1 DEF Record, Rewrite, Agree
    <3>2. SameSaving(d, c) /\ d.does = c.does
      BY <1>4, <1>6, <3>1, DealtIs
    <3>3. In(c)
      BY <1>3, <1>6, <2>1, <3>2 DEF Serve
    <3>4. QED
      BY <3>2, <3>3 DEF SameSaving
  <2>2. CASE Refuse(c)
    <3>1. Dealt(c, "refused")
      BY <2>2 DEF Refuse
    <3>2. QED
      BY <1>4, <1>6, <3>1, DealtIs
  <2>3. QED
    BY <1>6, <2>1, <2>2 DEF Serve
<1>7. CASE d \notin calls /\ \A c \in calls : ~Serve(c)
  <2>1. CASE Press
    BY <1>7, <2>1, PressIs
  <2>2. CASE Reload
    BY <1>4, <2>2, ReloadIs
  <2>3. \A c \in calls : ~Answer(c) /\ ~GiveUp(c)
    BY <1>4, <1>7, AnswerIs, GiveUpIs
  <2>4. QED
    BY <1>7, <2>1, <2>2, <2>3 DEF FormsNext, OpenForm, TypeIn, Leave, CancelForm, formVars
<1>8. QED
  BY <1>5, <1>6, <1>7

\* The request dealt with takes its own place.
LEMMA DealtOnce ==
  ASSUME calls \subseteq Call, NEW c \in calls, NEW how \in {"accepted", "refused"}, Dealt(c, how)
  PROVE  \E x \in Call : /\ SameSaving(x, c) /\ x.does = c.does /\ x.awaited = c.awaited /\ x.at = how
                         /\ calls' = (calls \ {c}) \cup (IF c.awaited THEN {x} ELSE {})
<1>1. PICK d : d = [c EXCEPT !.at = how]
  OBVIOUS
<1>2. d \in Call /\ SameSaving(d, c) /\ d.at = how /\ d.does = c.does /\ d.awaited = c.awaited
  <2>1. how \in {"server", "accepted", "refused"} /\ c \in Call
    OBVIOUS
  <2>2. QED
    BY <1>1, <2>1, CallWrites, ZenonT(60)
<1>3. calls' = (calls \ {c}) \cup (IF c.awaited THEN {d} ELSE {})
  BY <1>1 DEF Dealt
<1>4. QED
  BY <1>2, <1>3

LEMMA SimpleStays ==
  ASSUME FormsTypeOK, Opened, IdsFollow, NoTwin, MountsFollow, StagesFollow,
         Simple, OneCallEach, EntryIsLast, [FormsNext]_formVars
  PROVE  OneCallEach' /\ EntryIsLast'
<1>1. /\ form.stages = 1 /\ ~form.keeps /\ draft = Blank
      /\ screen # Blank => screen.mount = screen.matter /\ ~screen.saved
      /\ \A c \in calls : c.mount = c.matter /\ c.does # "openStock"
  BY DEF Simple, MountsFollow, StagesFollow
<1>2. gaveUp \subseteq gaveUp' /\ calls \subseteq Call
  BY GaveUpStays DEF FormsTypeOK
<1>3. CASE OpenForm
  <2>1. calls' = calls /\ entries' = entries /\ gaveUp' = gaveUp
    BY <1>3 DEF OpenForm
  <2>2. screen'.matter = opened + 1 /\ opened \in Nat
    <3>1. screen'.matter = opened + 1
      BY <1>1, <1>3, OpenIs
    <3>2. QED
      BY <3>1, FormsAssumption DEF FormsTypeOK
  <2>3. \A e \in entries : e.matter \in Nat /\ e.matter <= opened
    BY FormsAssumption DEF Opened, FormsTypeOK, Entry, Matters
  <2>4. \A e \in entries : screen'.matter # e.matter
    BY <2>2, <2>3
  <2>5. QED
    BY <2>1, <2>4 DEF OneCallEach, EntryIsLast
<1>4. CASE TypeIn
  <2>1. calls' = calls /\ entries' = entries /\ gaveUp' = gaveUp
    BY <1>4 DEF TypeIn
  <2>2. screen'.matter = screen.matter /\ screen # Blank
    BY <1>4, TypeInIs
  <2>3. QED
    BY <2>1, <2>2 DEF OneCallEach, EntryIsLast
<1>5. CASE Press
  <2>1. PICK s \in Call : calls' = calls \cup {s} /\ s.matter = screen.matter /\ s.awaited
    BY <1>5, PressIs
  <2>2. entries' = entries /\ gaveUp' = gaveUp /\ screen' = screen /\ screen # Blank
    BY <1>5 DEF Press
  <2>3. \A c \in calls : c.matter = screen.matter => c.matter \in gaveUp
    BY <1>1, <1>5 DEF Press, Busy, OneCallEach
  <2>4. \A e \in entries : e.matter = screen.matter => e.matter \in gaveUp
    BY <2>2, <2>3 DEF EntryIsLast
  <2>5. OneCallEach'
    BY <2>1, <2>2, <2>3 DEF OneCallEach
  <2>6. EntryIsLast'
    BY <2>1, <2>2, <2>4 DEF EntryIsLast
  <2>7. QED
    BY <2>5, <2>6
<1>6. CASE Leave \/ UNCHANGED formVars
  BY <1>6 DEF Leave, formVars, history, OneCallEach, EntryIsLast
<1>7. CASE CancelForm
  BY <1>1, <1>7 DEF CancelForm
<1>8. CASE Reload
  <2>1. entries' = entries /\ screen' = Blank
    BY <1>8 DEF Reload
  <2>2. \A d \in calls' : \E c \in calls : d.matter = c.matter
    BY <1>2, <1>8, ReloadIs DEF SameSaving
  <2>3. \A c \in calls : c.matter \in gaveUp'
    BY <1>8 DEF Reload, Awaited, OneCallEach
  <2>4. QED
    BY <1>2, <2>1, <2>2, <2>3 DEF OneCallEach, EntryIsLast
<1>9. ASSUME NEW c \in calls, Serve(c)
      PROVE  OneCallEach' /\ EntryIsLast'
  <2>1. PICK how \in {"accepted", "refused"} :
          Dealt(c, how) /\ (how = "refused" => entries' = entries)
    BY <1>9 DEF Serve, Record, Rewrite, Agree, Refuse
  <2>2. PICK x \in Call : /\ SameSaving(x, c) /\ x.does = c.does /\ x.awaited = c.awaited /\ x.at = how
                          /\ calls' = (calls \ {c}) \cup (IF c.awaited THEN {x} ELSE {})
    BY <1>2, <2>1, DealtOnce
  <2>3. screen' = screen /\ gaveUp' = gaveUp /\ c.at = "server"
    BY <1>9 DEF Serve, history
  <2>4. OneCallEach'
    BY <2>2, <2>3 DEF OneCallEach, SameSaving
  <2>5. \A f \in entries : f.matter \notin gaveUp => f.matter # c.matter
    BY <2>3, FirstOfItsMatter
  <2>6. ASSUME NEW f \in entries, f.matter \notin gaveUp
        PROVE  \/ \E d \in calls' : d.matter = f.matter /\ d.at = "accepted" /\ d.does = "save"
               \/ /\ \A d \in calls' : d.matter # f.matter
                  /\ screen # Blank => screen.matter # f.matter
    <3>1. f.matter # c.matter /\ \A d \in calls' : d # x => d \in calls
      BY <2>2, <2>5, <2>6
    <3>2. CASE \E d \in calls : d.matter = f.matter /\ d.at = "accepted" /\ d.does = "save"
      BY <2>2, <3>1, <3>2
    <3>3. CASE /\ \A d \in calls : d.matter # f.matter
               /\ screen # Blank => screen.matter # f.matter
      BY <2>2, <3>1, <3>3 DEF SameSaving
    <3>4. QED
      BY <2>6, <3>2, <3>3 DEF EntryIsLast
  <2>7. ASSUME NEW e \in entries', e.matter \notin gaveUp
        PROVE  \/ \E d \in calls' : d.matter = e.matter /\ d.at = "accepted" /\ d.does = "save"
               \/ /\ \A d \in calls' : d.matter # e.matter
                  /\ screen # Blank => screen.matter # e.matter
    <3>1. CASE e \in entries
      BY <2>6, <2>7, <3>1
    <3>2. CASE e \notin entries /\ Rewrite(c)
      <4>1. PICK f \in entries, y \in Entry :
              /\ f.matter = c.matter /\ SameEntry(y, f) /\ entries' = (entries \ {f}) \cup {y}
        BY <3>2, RewrittenIsKnown
      <4>2. QED
        BY <2>5, <2>7, <3>2, <4>1 DEF SameEntry
    <3>3. CASE e \notin entries /\ c.does # "check" /\ Record(c)
      <4>1. e.matter = c.matter
        BY <3>3, RecordIs
      <4>2. c.awaited /\ c.does = "save"
        BY <1>1, <1>2, <2>7, <3>3, <4>1 DEF OneCallEach, Call
      <4>3. how = "accepted"
        BY <2>1, <3>3
      <4>4. QED
        BY <2>2, <4>1, <4>2, <4>3 DEF SameSaving
    <3>4. QED
      BY <1>9, <3>1, <3>2, <3>3 DEF Serve, Agree, Refuse
  <2>8. EntryIsLast'
    BY <2>3, <2>7 DEF EntryIsLast
  <2>9. QED
    BY <2>4, <2>8
<1>10. ASSUME NEW c \in calls, GiveUp(c)
       PROVE  OneCallEach' /\ EntryIsLast'
  <2>1. /\ entries' = entries /\ screen' = screen /\ gaveUp' = gaveUp \cup {c.matter}
    BY <1>10 DEF GiveUp
  <2>2. \A d \in calls' : d \in calls \/ d.matter = c.matter
    BY <1>2, <1>10, GiveUpIs DEF SameSaving
  <2>3. \A d \in calls : d # c => d \in calls'
    BY <1>10 DEF GiveUp
  <2>4. QED
    BY <2>1, <2>2, <2>3 DEF OneCallEach, EntryIsLast
<1>11. ASSUME NEW c \in calls, Answer(c)
       PROVE  OneCallEach' /\ EntryIsLast'
  <2>1. entries' = entries /\ gaveUp' = gaveUp
    BY <1>11 DEF Answer
  <2>2. calls' = calls \ {c}
    BY <1>1, <1>11 DEF Answer, GoOn
  <2>3. screen' # Blank => screen # Blank /\ screen'.matter = screen.matter
    BY <1>11, ScreenAnswered DEF OnScreen
  <2>4. c.at = "accepted" /\ c.does = "save" => screen' = Blank
    <3>1. c.at = "accepted" /\ c.does = "save" => Shut(c)
      BY <1>1 DEF Shut
    <3>2. QED
      BY <1>11, <3>1, ScreenAnswered
  <2>5. ASSUME NEW e \in entries, e.matter \notin gaveUp
        PROVE  \/ \E d \in calls' : d.matter = e.matter /\ d.at = "accepted" /\ d.does = "save"
               \/ /\ \A d \in calls' : d.matter # e.matter
                  /\ screen' # Blank => screen'.matter # e.matter
    <3>1. CASE \E d \in calls : d.matter = e.matter /\ d.at = "accepted" /\ d.does = "save"
      <4>1. PICK d \in calls : d.matter = e.matter /\ d.at = "accepted" /\ d.does = "save"
        BY <3>1
      <4>2. CASE d = c
        BY <2>2, <2>4, <2>5, <4>1, <4>2 DEF OneCallEach
      <4>3. CASE d # c
        BY <2>2, <4>1, <4>3
      <4>4. QED
        BY <4>2, <4>3
    <3>2. CASE /\ \A d \in calls : d.matter # e.matter
               /\ screen # Blank => screen.matter # e.matter
      BY <2>2, <2>3, <3>2
    <3>3. QED
      BY <2>5, <3>1, <3>2 DEF EntryIsLast
  <2>6. OneCallEach'
    BY <2>1, <2>2 DEF OneCallEach
  <2>7. EntryIsLast'
    BY <2>1, <2>5 DEF EntryIsLast
  <2>8. QED
    BY <2>6, <2>7
<1>12. QED
  BY <1>3, <1>4, <1>5, <1>6, <1>7, <1>8, <1>9, <1>10, <1>11 DEF FormsNext

LEMMA ToldStays ==
  ASSUME FormsTypeOK, IdsFollow, NoTwin, Simple => OneCallEach /\ EntryIsLast,
         StagesFollow, AcceptedIsIn, ToldIsRecorded, [FormsNext]_formVars
  PROVE  ToldIsRecorded'
<1> DEFINE In(t) ==
      \/ /\ \E e \in entries' : e.matter = t[1] /\ e.typed = t[2]
         /\ form.stages = 2 => EntriesOf(t[1], "save")' # {} /\ EntriesOf(t[1], "openStock")' # {}
      \/ t[1] \in gaveUp' /\ form.repeat # "refused"
<1>1. form' = form /\ gaveUp \subseteq gaveUp' /\ EntriesFrom
  BY FormStays, GaveUpStays, EntriesComeFrom
<1>2. ASSUME NEW m, NEW v, NEW f \in entries, f.matter = m, f.typed = v,
             form.stages = 2 => EntriesOf(m, "save") # {} /\ EntriesOf(m, "openStock") # {}
      PROVE  \/ /\ \E e \in entries' : e.matter = m /\ e.typed = v
                /\ form.stages = 2 => EntriesOf(m, "save")' # {} /\ EntriesOf(m, "openStock")' # {}
             \/ m \in gaveUp' /\ form.repeat # "refused"
  <2>1. form.stages = 2 => EntriesOf(m, "save")' # {} /\ EntriesOf(m, "openStock")' # {}
    BY <1>1, <1>2, EntriesOfStay
  <2>2. \/ \E e \in entries' : SameEntry(e, f) /\ e.typed = f.typed
        \/ f.matter \in gaveUp /\ form.repeat = "rewritten"
    BY FiguresStay
  <2>3. QED
    BY <1>1, <1>2, <2>1, <2>2 DEF SameEntry
<1>3. ASSUME NEW t \in saidSaved
      PROVE  In(t)
  <2>1. CASE t[1] \in gaveUp /\ form.repeat # "refused"
    BY <1>1, <2>1
  <2>2. CASE ~(t[1] \in gaveUp /\ form.repeat # "refused")
    <3>1. /\ \E e \in entries : e.matter = t[1] /\ e.typed = t[2]
          /\ form.stages = 2 => EntriesOf(t[1], "save") # {} /\ EntriesOf(t[1], "openStock") # {}
      BY <2>2 DEF ToldIsRecorded
    <3>2. QED
      BY <1>2, <3>1
  <2>3. QED
    BY <2>1, <2>2
<1>4. ASSUME NEW c \in calls, Shut(c)
      PROVE  In(<<c.matter, c.typed>>)
  <2>1. CASE c.matter \in gaveUp /\ form.repeat # "refused"
    BY <1>1, <2>1
  <2>2. CASE ~(c.matter \in gaveUp /\ form.repeat # "refused")
    <3>1. PICK e \in entries : e.matter = c.matter /\ e.does = c.does /\ e.typed = c.typed
      BY <1>4, <2>2 DEF AcceptedIsIn, Shut
    <3>2. form.stages = 2 => EntriesOf(c.matter, "save") # {} /\ EntriesOf(c.matter, "openStock") # {}
      BY <1>4, <3>1 DEF StagesFollow, EntriesOf, Shut
    <3>3. QED
      BY <1>2, <3>1, <3>2
  <2>3. QED
    BY <2>1, <2>2
<1>5. ASSUME NEW t \in saidSaved'
      PROVE  In(t)
  <2>1. \/ t \in saidSaved
        \/ \E c \in calls : Shut(c) /\ t = <<c.matter, c.typed>>
    BY DEF FormsNext, OpenForm, TypeIn, Press, Leave, CancelForm, Reload, Serve, Answer, GiveUp, formVars, history
  <2>2. QED
    BY <1>3, <1>4, <2>1
<1>6. QED
  BY <1>1, <1>5 DEF ToldIsRecorded

LEMMA CheckStays ==
  ASSUME FormsTypeOK, Opened, StagesFollow, CheckFollows, SavedAsChecked, [FormsNext]_formVars
  PROVE  CheckFollows' /\ SavedAsChecked'
<1>1. form' = form /\ crossed \subseteq crossed'
  BY FormStays DEF FormsNext, OpenForm, TypeIn, Press, Leave, CancelForm, Reload, Serve, Answer, GiveUp,
                   formVars, history
<1>2. form.checks => form.stages = 1
  BY KindFacts, FormsAssumption DEF FormsTypeOK
<1>3. CASE Press
  <2>1. PICK s \in Call :
          /\ calls' = calls \cup {s}
          /\ s.mount = screen.mount /\ s.matter = screen.matter
          /\ s.typed = screen.typed /\ s.checked = screen.checked /\ s.does = NextRequest
    BY <1>3, PressIs
  <2>2. screen' = screen /\ screen # Blank
    BY <1>3 DEF Press
  <2>3. form.checks /\ s.does = "save" => s.checked = s.typed \/ s.matter \in crossed
    BY <2>1, <2>2 DEF NextRequest, CheckFollows
  <2>4. SavedAsChecked'
    BY <1>1, <2>1, <2>3 DEF SavedAsChecked
  <2>5. CheckFollows'
    BY <1>1, <2>1, <2>2 DEF CheckFollows, OnScreen
  <2>6. QED
    BY <2>4, <2>5
<1>4. CASE ~Press
  <2>1. CallsFrom
    BY <1>4, CallsComeFrom
  <2>2. SavedAsChecked'
    BY <1>1, <2>1 DEF CallsFrom, CameFrom, SameSaving, SavedAsChecked
  <2>3. ASSUME NEW d \in calls', d.awaited, d.does = "check"
        PROVE  \E c \in calls : c.awaited /\ c.does = "check" /\ c.mount = d.mount /\ c.typed = d.typed
    BY <2>1, <2>3 DEF CallsFrom, CameFrom, SameSaving
  <2>4. CASE OpenForm
    <3>1. screen'.checked = Blank /\ screen'.mount = opened + 1
      BY <2>4, OpenIs
    <3>2. \A c \in calls : c.mount # opened + 1
      <4>1. opened \in Nat /\ \A c \in calls : c.mount \in Nat /\ c.mount <= opened
        BY FormsAssumption DEF FormsTypeOK, Call, Matters, Opened
      <4>2. QED
        BY <4>1
    <3>3. QED
      BY <2>2, <2>3, <3>1, <3>2 DEF CheckFollows, OnScreen
  <2>5. CASE TypeIn
    <3>1. /\ screen # Blank /\ screen'.mount = screen.mount /\ screen'.matter = screen.matter
          /\ screen'.checked = Blank
      BY <2>5, TypeInIs
    <3>2. (\E c \in calls : c.awaited /\ c.does = "check" /\ c.mount = screen.mount) => screen.matter \in crossed'
      BY <2>5 DEF TypeIn
    <3>3. QED
      BY <2>2, <2>3, <3>1, <3>2 DEF CheckFollows, OnScreen
  <2>6. ASSUME screen' # Blank, screen # Blank, NEW s, s = screen', NEW o, o = screen,
               s.mount = o.mount, s.matter = o.matter, s.typed = o.typed,
               \/ s.checked = o.checked
               \/ \E c \in calls : c.awaited /\ c.does = "check" /\ OnScreen(c) /\ s.checked = c.typed
        PROVE  CheckFollows'
    <3>1. o.checked # Blank => o.checked = o.typed \/ o.matter \in crossed
      BY <2>6 DEF CheckFollows
    <3>2. \A c \in calls : c.awaited /\ c.does = "check" /\ c.mount = o.mount =>
            c.typed = o.typed \/ o.matter \in crossed
      BY <2>6 DEF CheckFollows, OnScreen
    <3>3. \A c \in calls : OnScreen(c) => c.mount = o.mount
      BY <2>6 DEF OnScreen
    <3>4. s.checked # Blank => s.checked = s.typed \/ s.matter \in crossed
      BY <2>6, <3>1, <3>2, <3>3
    <3>5. \A d \in calls' : d.awaited /\ d.does = "check" /\ d.mount = s.mount =>
            d.typed = s.typed \/ s.matter \in crossed
      BY <2>3, <2>6, <3>2
    <3>6. QED
      BY <1>1, <2>6, <3>4, <3>5 DEF CheckFollows, OnScreen
  <2>7. CASE screen' = Blank
    <3>1. \A c : ~OnScreen(c)'
      BY <2>7 DEF OnScreen
    <3>2. QED
      BY <2>2, <2>7, <3>1 DEF CheckFollows
  <2>8. CASE screen' = screen /\ screen # Blank
    <3>1. PICK s : s = screen'
      OBVIOUS
    <3>2. s = screen /\ s # Blank
      BY <2>8, <3>1
    <3>3. QED
      BY <2>2, <2>6, <3>1, <3>2
  <2>9. ASSUME NEW c \in calls, Answer(c)
        PROVE  CheckFollows'
    BY <2>6, <2>7, <2>8, <2>9, ScreenAnswered DEF OnScreen
  <2>10. QED
    <3>1. (~OpenForm /\ ~TypeIn /\ \A c \in calls : ~Answer(c)) => screen' = screen \/ screen' = Blank
      BY <1>4 DEF FormsNext, Leave, CancelForm, Reload, Serve, GiveUp, formVars, history
    <3>2. QED
      BY <2>2, <2>4, <2>5, <2>7, <2>8, <2>9, <3>1
<1>5. QED
  BY <1>3, <1>4

LEMMA KeptStays ==
  ASSUME FormsTypeOK, Opened, KeptUntilTold, [FormsNext]_formVars
  PROVE  KeptUntilTold'
<1>1. form' = form
  BY FormStays
<1> SUFFICES ASSUME form.keeps
             PROVE  /\ \A m \in begun' \ (dropped' \cup swept' \cup ToldSo') :
                         draft' # Blank /\ draft'.matter = m /\ draft'.typed # 0
                    /\ draft' # Blank => draft'.matter \notin ToldSo'
                    /\ screen' # Blank => screen'.matter \notin ToldSo'
                    /\ screen' # Blank /\ draft' # Blank => screen'.matter = draft'.matter
  BY <1>1 DEF KeptUntilTold
<1>2. /\ \A m \in begun \ (dropped \cup swept \cup ToldSo) :
           draft # Blank /\ draft.matter = m /\ draft.typed # 0
      /\ draft # Blank => draft.matter \notin ToldSo
      /\ screen # Blank => screen.matter \notin ToldSo
      /\ screen # Blank /\ draft # Blank => screen.matter = draft.matter
  BY DEF KeptUntilTold
<1>3. CASE OpenForm
  <2>1. UNCHANGED <<draft, begun, dropped, swept>> /\ ToldSo' = ToldSo
    BY <1>3 DEF OpenForm, ToldSo
  <2>2. draft = Blank => screen'.matter \notin ToldSo
    <3>1. opened \in Nat /\ \A t \in saidSaved : t[1] \in Nat /\ t[1] <= opened
      BY FormsAssumption DEF FormsTypeOK, Matters, Opened
    <3>2. \A t \in saidSaved : t[1] # opened + 1
      BY <3>1
    <3>3. draft = Blank => screen'.matter = opened + 1
      BY <1>3, OpenIs
    <3>4. QED
      BY <3>2, <3>3 DEF ToldSo
  <2>3. draft # Blank => screen'.matter = draft.matter
    BY <1>3, OpenIs
  <2>4. QED
    BY <1>2, <2>1, <2>2, <2>3
<1>4. CASE TypeIn
  <2>1. /\ screen # Blank /\ screen'.matter = screen.matter
        /\ draft' # Blank /\ draft'.matter = screen.matter /\ draft'.typed # 0
    BY <1>4, TypeInIs, FormsAssumption
  <2>2. begun' = begun \cup {screen.matter} /\ UNCHANGED <<dropped, swept>> /\ ToldSo' = ToldSo
    BY <1>4 DEF TypeIn, ToldSo
  <2>3. QED
    BY <1>2, <2>1, <2>2
<1>5. CASE CancelForm
  <2>1. /\ screen # Blank /\ screen' = Blank /\ draft' = Blank /\ dropped' = dropped \cup {screen.matter}
        /\ UNCHANGED <<begun, swept>> /\ ToldSo' = ToldSo
    BY <1>5 DEF CancelForm, ToldSo
  <2>2. QED
    BY <1>2, <2>1
<1>6. ASSUME NEW c \in calls, Answer(c), Shut(c)
      PROVE  /\ screen' = Blank /\ draft' = Blank
             /\ \A m \in begun' : m \in dropped' \cup swept' \cup ToldSo'
  <2>1. screen' = Blank /\ draft' = Blank
    BY <1>6, ScreenAnswered DEF Answer, DraftAfter
  <2>2. /\ begun' = begun /\ dropped' = dropped /\ swept' = swept \cup Others(c)
        /\ saidSaved' = saidSaved \cup {<<c.matter, c.typed>>}
    BY <1>6 DEF Answer
  <2>3. ToldSo \cup {c.matter} \subseteq ToldSo'
    <3>1. <<c.matter, c.typed>>[1] = c.matter /\ <<c.matter, c.typed>> \in saidSaved'
      BY <2>2
    <3>2. c.matter \in ToldSo'
      BY <3>1 DEF ToldSo
    <3>3. QED
      BY <2>2, <3>2 DEF ToldSo
  <2>4. draft # Blank => draft.matter \in Others(c) \cup {c.matter}
    BY DEF Others
  <2>5. QED
    BY <1>2, <2>1, <2>2, <2>3, <2>4
<1>7. CASE Press \/ Leave \/ Reload \/ UNCHANGED formVars
           \/ \E c \in calls : Serve(c) \/ GiveUp(c) \/ (Answer(c) /\ ~Shut(c))
  <2>1. UNCHANGED <<draft, begun, dropped, swept, saidSaved>>
    BY <1>7 DEF Press, Leave, Reload, formVars, history, Serve, GiveUp, Answer, DraftAfter
  <2>2. ToldSo' = ToldSo
    BY <2>1 DEF ToldSo
  <2>3. screen' # Blank => screen # Blank /\ screen'.matter = screen.matter
    <3>1. ~OpenForm
      <4>1. opened' = opened
        BY <1>7 DEF Press, Leave, Reload, formVars, history, Serve, GiveUp, Answer
      <4>2. opened # opened + 1
        BY FormsAssumption DEF FormsTypeOK
      <4>3. QED
        BY <4>1, <4>2 DEF OpenForm
    <3>2. QED
      BY <3>1, ScreenStays
  <2>4. QED
    BY <1>2, <2>1, <2>2, <2>3
<1>8. QED
  BY <1>3, <1>4, <1>5, <1>6, <1>7 DEF FormsNext

-----------------------------------------------------------------------------
(* What a form promises. *)

LEMMA FormsInvHolds == FormsSpec => []FormsInv
<1>1. FormsInit => FormsInv
  <2> SUFFICES ASSUME FormsInit
               PROVE  FormsInv
    OBVIOUS
  <2>1. FormsTypeOK
    BY FormsAssumption DEF FormsInit, FormsTypeOK, Version
  <2>2. Opened /\ IdsFollow /\ MountsFollow /\ StagesFollow
    BY DEF FormsInit, Opened, IdsFollow, MountsFollow, StagesFollow
  <2>3. AcceptedIsIn /\ OneCallEach /\ EntryIsLast /\ NoTwin /\ ToldIsRecorded
    BY DEF FormsInit, AcceptedIsIn, OneCallEach, EntryIsLast, NoTwin, ToldIsRecorded
  <2>4. CheckFollows /\ SavedAsChecked /\ KeptUntilTold
    BY DEF FormsInit, CheckFollows, SavedAsChecked, KeptUntilTold
  <2>5. QED
    BY <2>1, <2>2, <2>3, <2>4 DEF FormsInv
<1>2. FormsInv /\ [FormsNext]_formVars => FormsInv'
  <2> SUFFICES ASSUME FormsInv, [FormsNext]_formVars
               PROVE  FormsInv'
    OBVIOUS
  <2>1. FormsTypeOK' /\ Opened' /\ IdsFollow' /\ MountsFollow' /\ StagesFollow'
    BY FormTypesStay, OpenedStays, IdsStay, MountsStay, StagesStay DEF FormsInv
  <2>2. AcceptedIsIn' /\ NoTwin' /\ ToldIsRecorded'
    BY AcceptedStays, NoTwinStays, ToldStays DEF FormsInv
  <2>3. (Simple => OneCallEach /\ EntryIsLast)'
    BY SimpleStays, FormStays DEF FormsInv, Simple
  <2>4. CheckFollows' /\ SavedAsChecked' /\ KeptUntilTold'
    BY CheckStays, KeptStays DEF FormsInv
  <2>5. QED
    BY <2>1, <2>2, <2>3, <2>4 DEF FormsInv
<1>3. QED
  BY <1>1, <1>2, PTL DEF FormsSpec

\* However often a form is opened, pressed, left, given up on and answered late,
\* what it is about is recorded once, and what the person is told is saved is in
\* the books, but for forms whose attempts the server cannot tell apart, once an
\* answer was given up on (the save handlers of web/src and the ids they mint).
THEOREM AFormMakesOneEntry == FormsSpec => []FormMakesOneEntry
<1>1. FormsInv => FormMakesOneEntry
  <2> SUFFICES ASSUME FormsInv
               PROVE  FormMakesOneEntry
    OBVIOUS
  <2>1. ASSUME NEW m \in Matters, NEW does \in {"save", "openStock"},
               ~(m \in gaveUp /\ form.known \in {"name", "no"})
        PROVE  Cardinality(EntriesOf(m, does)) <= 1
    <3>1. \A e, f \in EntriesOf(m, does) : e = f
      BY <2>1 DEF FormsInv, NoTwin, EntriesOf
    <3>2. CASE EntriesOf(m, does) = {}
      BY <3>2, FS_EmptySet
    <3>3. CASE EntriesOf(m, does) # {}
      <4>1. PICK e : EntriesOf(m, does) = {e}
        BY <3>1, <3>3
      <4>2. QED
        BY <4>1, FS_Singleton
    <3>4. QED
      BY <3>2, <3>3
  <2>2. RecordedOnce
    BY <2>1 DEF RecordedOnce
  <2>3. QED
    BY <2>2 DEF FormsInv, FormMakesOneEntry
<1>2. QED
  BY <1>1, FormsInvHolds, PTL

\* What a correction saves is what the server checked of it, and what is typed
\* into a form that keeps it comes back until it is recorded or let go of, but
\* for the two crossings of a late answer (CorrectSaleDialog.tsx,
\* CorrectDeliveryDialog.tsx, ReceiveDeliveryPage.tsx).
THEOREM AFormKeepsWhatIsTyped == FormsSpec => []FormKeepsWhatIsTyped
<1>1. FormsInv => FormKeepsWhatIsTyped
  BY DEF FormsInv, FormKeepsWhatIsTyped, TypingIsKept, KeptUntilTold, ToldSo
<1>2. QED
  BY <1>1, FormsInvHolds, PTL

\* The screen, the kept copy, the requests and the entries keep to their types:
\* what is sent and recorded is about a form that was opened and a press of it.
THEOREM FormsKeepToTheirTypes == FormsSpec => []FormsTypeOK
<1>1. FormsInv => FormsTypeOK
  BY DEF FormsInv
<1>2. QED
  BY <1>1, FormsInvHolds, PTL
=============================================================================
