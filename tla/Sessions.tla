------------------------------ MODULE Sessions ------------------------------
(***************************************************************************)
(* One member of a shop signing in and staying signed in.  In the browser  *)
(* (api/client.ts, AuthProvider): tabs that share a jar of cookies, their  *)
(* calls, and one refresh that the calls of a tab wait on together.  At    *)
(* the server (token.service, auth.service, jwt.strategy): chains of       *)
(* refresh tokens, each revoked as the next is issued, access tokens that  *)
(* run out by themselves, and the cut before which they are refused.  Time *)
(* orders issues and cuts by `mints`; `now` is the clock tokens expire by. *)
(***************************************************************************)
EXTENDS Naturals, Sequences, FiniteSets

CONSTANTS
  Tabs, Jars, JarOf,   \* open tabs, and the browser each is in
  Calls, TabOf,        \* requests a screen may have under way at once
  Workers,             \* sign-in requests the server may be at work on
  Open,                \* the times within the member's working hours
  AccessLife, RefreshLife,
  MaxTime, MaxTokens, Nil

ASSUME SessionsAssumption ==
  /\ JarOf \in [Tabs -> Jars] /\ TabOf \in [Calls -> Tabs]
  /\ {AccessLife, RefreshLife, MaxTime, MaxTokens} \subseteq Nat /\ Open \subseteq 0..MaxTime

VARIABLES
  now, mints,
  oneDevice,    \* signsInOnOneDevice of the member's role
  token,        \* refresh token rows in the order they were made
  cutAt,        \* Membership.sessionsEndedAt
  active,       \* the membership is active, and a suspension's revoking has been done
  jar,          \* the cookies of each browser
  work,         \* what each worker is at, and the tab that waits for it
  call,         \* each call of a screen: where it is, and the access token it carries
  signedIn,     \* the tabs that show somebody signed in
  changed,      \* the last change of password: when, and after how many mints
  overlapped,   \* something else happened while a worker was at a request
  crossed,      \* two tabs of a browser were refreshing, or one did not hear the answer
  reused        \* a token was taken to have leaked

sessionsVars == <<now, mints, oneDevice, token, cutAt, active, jar, work, call, signedIn,
                  changed, overlapped, crossed, reused>>

Access == [issued : Nat, expires : Nat] \cup {Nil}
Job ==
  [kind : {"in", "out", "refresh"}, tab : Tabs \cup {Nil},
   step : {"read", "end", "mint", "store", "replace", "done", "refused"},
   token : Nat, family : Nat, access : Access, made : Nat]

\* Nil is no number, no tab, no token and no request.
ASSUME NilAssumption == Nil \notin Nat \cup Tabs /\ Nil \notin [issued : Nat, expires : Nat] /\ Nil \notin Job

SessionsTypeOK ==
  /\ \A i \in DOMAIN token : token[i].family \in 1..i /\ token[i].replaced \in 0..Len(token)
  /\ \A j \in Jars : jar[j].access \in Access /\ jar[j].refresh \in 0..Len(token)
  /\ \A c \in Calls : call[c].at \in {"idle", "sent", "waiting", "again"} /\ call[c].access \in Access
                        /\ call[c].me \in BOOLEAN
  /\ work \in [Workers -> Job \cup {Nil}]
  /\ signedIn \subseteq Tabs /\ cutAt <= mints /\ now <= MaxTime

Idle == [at |-> "idle", access |-> Nil, me |-> FALSE]
NoCookies == [access |-> Nil, refresh |-> 0]

SessionsInit ==
  /\ now = 0 /\ mints = 0 /\ oneDevice \in BOOLEAN /\ token = <<>> /\ cutAt = 0 /\ active = TRUE
  /\ jar = [j \in Jars |-> NoCookies] /\ work = [w \in Workers |-> Nil]
  /\ call = [c \in Calls |-> Idle] /\ signedIn = {} /\ changed = [at |-> 0, mints |-> 0]
  /\ overlapped = FALSE /\ crossed = FALSE /\ reused = FALSE

-----------------------------------------------------------------------------
Working == {w \in Workers : work[w] # Nil}
Live(i) == ~token[i].revoked /\ now < token[i].expires
Revoked(S) == [i \in DOMAIN token |-> IF i \in S THEN [token[i] EXCEPT !.revoked = TRUE] ELSE token[i]]
Family(f) == {i \in DOMAIN token : token[i].family = f}

\* issuedBeforeCut, the life of an access token and validate: what the guard lets pass.
Usable(a) == a # Nil /\ a.issued > cutAt /\ now < a.expires /\ active

\* What a tab is waiting for: its refresh, or its signing in or out.
WorkOf(t) == {w \in Working : work[w].tab = t}
Refreshing(t) == \E w \in WorkOf(t) : work[w].kind = "refresh"

Meanwhile == overlapped' = (overlapped \/ Working # {})
Alongside(w) == overlapped' = (overlapped \/ Working \ {w} # {})

Asked(t, kind) ==
  [kind |-> kind, tab |-> t, step |-> "read", token |-> jar[JarOf[t]].refresh, family |-> 0,
   access |-> Nil, made |-> 0]

\* Bug: each call refreshes for itself.
RefreshEach(t) ==
  \E w \in Workers \ Working : work' = [work EXCEPT ![w] = Asked(t, "refresh")] /\ Meanwhile
\* attemptRefresh: begun unless one of the tab is under way already.
RefreshShared(t) ==
  IF Refreshing(t) THEN UNCHANGED <<work, overlapped>>
  ELSE \E w \in Workers \ Working : work' = [work EXCEPT ![w] = Asked(t, "refresh")] /\ Meanwhile

-----------------------------------------------------------------------------
(* The browser. *)

\* A call carries the access cookie of the moment.  A tab without anybody signed in asks
\* who it is when it loads.
Send(c) ==
  /\ call[c] = Idle
  /\ TabOf[c] \notin signedIn => jar[JarOf[TabOf[c]]] # NoCookies /\ WorkOf(TabOf[c]) = {}
  /\ call' = [call EXCEPT ![c] = [at |-> "sent", access |-> jar[JarOf[TabOf[c]]].access,
                                  me |-> TabOf[c] \notin signedIn]]
  /\ UNCHANGED <<now, mints, oneDevice, token, cutAt, active, jar, work, signedIn, changed, overlapped, crossed, reused>>

Serve(c) ==
  /\ call[c].at \in {"sent", "again"} /\ Usable(call[c].access)
  /\ call' = [call EXCEPT ![c] = Idle] 
  /\ signedIn' = IF call[c].me THEN signedIn \cup {TabOf[c]} ELSE signedIn
  /\ UNCHANGED <<now, mints, oneDevice, token, cutAt, active, jar, work, changed, overlapped, crossed, reused>>

\* Refused the first time, a call waits on the tab's refresh.
Unauthorized(c) ==
  LET t == TabOf[c]
  IN  /\ call[c].at = "sent" /\ ~Usable(call[c].access)
      /\ call' = [call EXCEPT ![c].at = "waiting"]
      /\ RefreshShared(t)
      /\ crossed' = (crossed \/ \E w \in Working : work[w].kind = "refresh" /\ work[w].tab # t
                                               /\ work[w].token = jar[JarOf[t]].refresh)
      /\ UNCHANGED <<now, mints, oneDevice, token, cutAt, active, jar, signedIn, changed, reused>>

\* Refused again after a refresh, it fails where it was made.
StillUnauthorized(c) ==
  /\ call[c].at = "again" /\ ~Usable(call[c].access)
  /\ call' = [call EXCEPT ![c] = Idle]
  /\ UNCHANGED <<now, mints, oneDevice, token, cutAt, active, jar, work, signedIn, changed, overlapped, crossed, reused>>

AskToSign(t, kind) ==
  /\ kind = "out" => t \in signedIn
  /\ kind = "in" => t \notin signedIn /\ WorkOf(t) = {} /\ \A c \in Calls : TabOf[c] = t => call[c] = Idle
  /\ \A w \in WorkOf(t) : work[w].kind = "refresh"
  /\ \E w \in Workers \ Working : work' = [work EXCEPT ![w] = Asked(t, kind)]
  /\ Meanwhile
  /\ UNCHANGED <<now, mints, oneDevice, token, cutAt, active, jar, call, signedIn, changed, crossed, reused>>

\* The calls that waited on a refresh are made again with its cookies, or fail.
Resume(w, ok) ==
  call' = [c \in Calls |-> IF work[w].kind # "refresh" \/ TabOf[c] # work[w].tab \/ call[c].at # "waiting" THEN call[c]
                           ELSE IF ok THEN [call[c] EXCEPT !.at = "again", !.access = work[w].access] ELSE Idle]

\* The answer to a tab: cookies set, or cleared by signing out, or none and a session
\* lost.  After signing in the tab asks at once who it is.
Hear(w) ==
  LET t == work[w].tab
      ok == work[w].step = "done"
      cookies == IF work[w].kind = "out" THEN NoCookies ELSE [access |-> work[w].access, refresh |-> work[w].made]
  IN  /\ work[w] # Nil /\ work[w].step \in {"done", "refused"} /\ t # Nil
      /\ jar' = [jar EXCEPT ![JarOf[t]] = IF ok THEN cookies ELSE @]
      /\ Resume(w, ok)
      /\ signedIn' = IF ok /\ work[w].kind # "out" THEN signedIn \cup (IF work[w].kind = "in" THEN {t} ELSE {}) ELSE signedIn \ {t}
      /\ work' = [work EXCEPT ![w] = Nil]
      /\ UNCHANGED <<now, mints, oneDevice, token, cutAt, active, changed, overlapped, crossed, reused>>

\* The connection fails while the server works on: the tab hears nothing and takes it for
\* a refusal.
GiveUp(w) ==
  LET t == work[w].tab
  IN  /\ work[w] # Nil /\ t # Nil /\ work' = [work EXCEPT ![w].tab = Nil]
      /\ Resume(w, FALSE) /\ signedIn' = signedIn \ {t}
      /\ crossed' = (crossed \/ work[w].kind = "refresh")
      /\ UNCHANGED <<now, mints, oneDevice, token, cutAt, active, jar, changed, overlapped, reused>>

Unheard(w) ==
  /\ work[w] # Nil /\ work[w].step \in {"done", "refused"} /\ work[w].tab = Nil
  /\ work' = [work EXCEPT ![w] = Nil]
  /\ UNCHANGED <<now, mints, oneDevice, token, cutAt, active, jar, call, signedIn, changed, overlapped, crossed, reused>>

-----------------------------------------------------------------------------
(* The server. *)

\* rotate up to the new pair: the token presented, and the membership and its hours.
Presented(w) == IF work[w].token = 0 THEN Nil ELSE token[work[w].token]
\* Bug: a session ended on purpose is not told from a leak.
NeverEnded(row) == FALSE
\* Revoked and never replaced.
Ended(row) == row.revoked /\ row.replaced = 0

\* Bug: the hours are asked for at sign-in only.
RenewableAnyTime(row) == ~row.revoked /\ row.replaced = 0 /\ now < row.expires /\ active
Renewable(row) == ~row.revoked /\ row.replaced = 0 /\ now < row.expires /\ active /\ now \in Open

ReadToRotate(w) ==
  LET row == Presented(w)
      leaked == row # Nil /\ ~Ended(row) /\ (row.revoked \/ row.replaced # 0)
      good == row # Nil /\ Renewable(row)
  IN  /\ work[w] # Nil /\ work[w].kind = "refresh" /\ work[w].step = "read"
      /\ token' = IF leaked THEN Revoked(Family(row.family)) ELSE token
      /\ reused' = (reused \/ leaked)
      /\ work' = [work EXCEPT ![w].step = IF good THEN "mint" ELSE "refused",
                              ![w].family = IF good THEN row.family ELSE 0]
      /\ Alongside(w)
      /\ UNCHANGED <<now, mints, oneDevice, cutAt, active, jar, call, signedIn, changed, crossed>>

\* issueForUser and switchOrganization: for staff this ends every other session.
ReadToSignIn(w) ==
  /\ work[w] # Nil /\ work[w].kind = "in" /\ work[w].step = "read"
  /\ work' = [work EXCEPT ![w].step = IF active /\ now \in Open THEN IF oneDevice THEN "end" ELSE "mint" ELSE "refused"]
  /\ Alongside(w)
  /\ UNCHANGED <<now, mints, oneDevice, token, cutAt, active, jar, call, signedIn, changed, crossed, reused>>

\* endSessions: the tokens and the cut in one transaction.
\* Bugs: only the one, or only the other.
RevokeOnly == token' = Revoked(DOMAIN token) /\ UNCHANGED cutAt
CutOnly == token' = token /\ cutAt' = mints
EndSessions == token' = Revoked(DOMAIN token) /\ cutAt' = mints

EndOthers(w) ==
  /\ work[w] # Nil /\ work[w].step = "end" /\ EndSessions
  /\ work' = [work EXCEPT ![w].step = "mint"] /\ Alongside(w)
  /\ UNCHANGED <<now, mints, oneDevice, active, jar, call, signedIn, changed, crossed, reused>>

\* issuePair signs the access token, hashes the verifier and then stores the row.
Mint(w) ==
  /\ work[w] # Nil /\ work[w].step = "mint" /\ mints < MaxTokens
  /\ mints' = mints + 1
  /\ work' = [work EXCEPT ![w].step = "store", ![w].access = [issued |-> mints + 1, expires |-> now + AccessLife]]
  /\ Alongside(w)
  /\ UNCHANGED <<now, oneDevice, token, cutAt, active, jar, call, signedIn, changed, crossed, reused>>

Store(w) ==
  LET i == Len(token) + 1
      row == [family |-> IF work[w].family = 0 THEN i ELSE work[w].family, issued |-> work[w].access.issued,
              expires |-> now + RefreshLife, revoked |-> FALSE, replaced |-> 0]
  IN  /\ work[w] # Nil /\ work[w].step = "store"
      /\ token' = Append(token, row)
      /\ work' = [work EXCEPT ![w].step = IF work[w].kind = "refresh" THEN "replace" ELSE "done", ![w].made = i]
      /\ Alongside(w)
      /\ UNCHANGED <<now, mints, oneDevice, cutAt, active, jar, call, signedIn, changed, crossed, reused>>

\* Bug: the row about to be made.
OneAhead(f) == Len(token) + 1
Newest(f) == CHOOSE i \in Family(f) : \A k \in Family(f) : k <= i

\* Bug: the token is linked to the next and not revoked.
PointedAt(w) == [token EXCEPT ![work[w].token].replaced = Newest(work[w].family)]
\* The token presented is revoked in favour of the newest of its chain.
Replaced(w) == [token EXCEPT ![work[w].token].revoked = TRUE, ![work[w].token].replaced = Newest(work[w].family)]

Replace(w) ==
  /\ work[w] # Nil /\ work[w].step = "replace"
  /\ token' = Replaced(w)
  /\ work' = [work EXCEPT ![w].step = "done"] /\ Alongside(w)
  /\ UNCHANGED <<now, mints, oneDevice, cutAt, active, jar, call, signedIn, changed, crossed, reused>>

\* logout revokes the chain of the token it is shown.
RevokeChain(w) ==
  /\ work[w] # Nil /\ work[w].kind = "out" /\ work[w].step = "read"
  /\ token' = IF work[w].token = 0 THEN token ELSE Revoked(Family(Presented(w).family))
  /\ work' = [work EXCEPT ![w].step = "done"] /\ Alongside(w)
  /\ UNCHANGED <<now, mints, oneDevice, cutAt, active, jar, call, signedIn, changed, crossed, reused>>

-----------------------------------------------------------------------------
(* The owner, the password, and the clock. *)

SignOutByOwner ==
  /\ EndSessions /\ Meanwhile
  /\ UNCHANGED <<now, mints, oneDevice, active, jar, work, call, signedIn, changed, crossed, reused>>

\* The refresh tokens go in the next statement, before which a suspended member's are
\* refused for the membership.
Suspend ==
  /\ active /\ active' = FALSE /\ Meanwhile
  /\ token' = Revoked(DOMAIN token)
  /\ UNCHANGED <<now, mints, oneDevice, cutAt, jar, work, call, signedIn, changed, crossed, reused>>

BringBack ==
  /\ ~active /\ active' = TRUE /\ Meanwhile
  /\ UNCHANGED <<now, mints, oneDevice, token, cutAt, jar, work, call, signedIn, changed, crossed, reused>>

\* changePassword and both resets.
ChangePassword ==
  /\ token' = Revoked(DOMAIN token) /\ changed' = [at |-> now, mints |-> mints] /\ Meanwhile
  /\ UNCHANGED <<now, mints, oneDevice, cutAt, active, jar, work, call, signedIn, crossed, reused>>

Tick ==
  /\ now < MaxTime /\ now' = now + 1 /\ Meanwhile
  /\ UNCHANGED <<mints, oneDevice, token, cutAt, active, jar, work, call, signedIn, changed, crossed, reused>>

SessionsNext ==
  \/ \E c \in Calls : Send(c) \/ Serve(c) \/ Unauthorized(c) \/ StillUnauthorized(c)
  \/ \E t \in Tabs, kind \in {"in", "out"} : AskToSign(t, kind)
  \/ \E w \in Workers :
       \/ Hear(w) \/ GiveUp(w) \/ Unheard(w)
       \/ ReadToRotate(w) \/ ReadToSignIn(w) \/ EndOthers(w) \/ Mint(w) \/ Store(w) \/ Replace(w) \/ RevokeChain(w)
  \/ SignOutByOwner \/ Suspend \/ BringBack \/ ChangePassword \/ Tick

SessionsSpec == SessionsInit /\ [][SessionsNext]_sessionsVars

-----------------------------------------------------------------------------
(* Properties. *)

\* A tab's calls wait on one refresh, and sessions are ended without being replaced, so
\* reuse is detected only when two tabs of a browser refreshed at once or the answer to
\* a refresh was never heard (attemptRefresh, TokenService.rotate).
NotTakenForReuse == reused => crossed

\* Of staff, signed in on one device at a time, one chain lives and one browser is let
\* through: signing in takes the others out on their next tap (signsInOnOneDevice,
\* endSessions), unless it overlapped another request.
OneSessionLeft ==
  oneDevice /\ ~overlapped =>
    /\ Cardinality({token[i].family : i \in {k \in DOMAIN token : Live(k)}}) <= 1
    /\ Cardinality({j \in Jars : Usable(jar[j].access)}) <= 1

\* Between requests a chain has one live token, its newest, which is what the owner's
\* list of who is signed in counts on (SessionsService.summary).
OneLiveTokenPerChain ==
  ~overlapped /\ Working = {} =>
    \A i \in DOMAIN token : Live(i) => \A k \in Family(token[i].family) : k # i => ~Live(k) /\ k < i

\* Nothing from before sessions were ended, or the password changed, renews itself, and
\* an access token from before a new password is good for no longer than its own life
\* (endSessions, revokeAllForUser).
EndedStaysEnded ==
  ~overlapped =>
    /\ \A i \in DOMAIN token : Live(i) => token[i].issued > cutAt /\ token[i].issued > changed.mints
    /\ \A j \in Jars : Usable(jar[j].access) /\ jar[j].access.issued <= changed.mints
                         => now < changed.at + AccessLife

\* Nobody works longer past closing than an access token lasts: renewing asks for the
\* hours as signing in does (assertWithinHours).
LockedOutAfterHours ==
  ~overlapped => \A j \in Jars : Usable(jar[j].access) => \E t \in Open : t <= now /\ now < t + AccessLife

\* Tokens are rotated one for one, and what ends a session ends it.
SessionsHold ==
  NotTakenForReuse /\ OneLiveTokenPerChain /\ OneSessionLeft /\ EndedStaysEnded /\ LockedOutAfterHours
=============================================================================
