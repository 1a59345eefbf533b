------------------------------ MODULE Accounts ------------------------------
(***************************************************************************)
(* How people come to have a shop and a password (auth.service.ts,         *)
(* users.service.ts): signing up by code, by username, from the command    *)
(* line or with Google, links that reset a password, and the nightly sweep *)
(* of those who never answered their code.  One address or username for    *)
(* each person; self-serve sign-up and mail are on.  What a session does   *)
(* afterwards is in Sessions, staff in Staff.                              *)
(***************************************************************************)
EXTENDS Desk, Integers

CONSTANTS
  Founders,    \* people, each with an address or a username of their own
  Shops,       \* ids of organizations
  Links,       \* ids of reset links
  CodeLife, LinkLife, StaleAfter,  \* OTP_TTL_MS, RESET_TTL_MS and the sweep's 30 days, in ticks
  LastTick, MaxPasswords,          \* bounds
  Shown        \* at most so many of one name are looked at

\* A password is known by its number; nobody knows number 0, which Google accounts get.
Account == [verified : BOOLEAN, google : BOOLEAN, pass : 0..MaxPasswords,
            code : 0..(LastTick + CodeLife) \cup {None}, in : BOOLEAN]
ShopRow == [by : Founders, owned : BOOLEAN, seeded : BOOLEAN]
LinkRow == [of : Founders, used : BOOLEAN, until : 0..(LastTick + LinkLife), set : Nat]
AskKinds == {"register", "signup", "cli", "verify", "resend", "login", "google", "forgot", "password"}
StepNames == {"write", "issue", "clear", "store", "user", "member", "open", "join", "seed", "void", "mint",
              "set", "mark", "revoke"}
AccountAsk ==
  [kind : AskKinds, who : Founders, step : StepNames, at : Shops \cup Links \cup {None},
   pass : 0..MaxPasswords, found : BOOLEAN, swept : BOOLEAN]

ASSUME AccountsAssumption ==
  /\ {CodeLife, LinkLife, StaleAfter, LastTick, Shown} \subseteq Nat /\ MaxPasswords \in Nat \ {0}
  /\ None \notin Links \cup Account \cup ShopRow \cup LinkRow \cup AccountAsk

VARIABLES
  tick,
  user,        \* of each person: the account, or None
  shop,        \* organizations: who it was made for, whether they are in it, whether it has its defaults
  link,        \* reset links: whose, whether used, until when, and how often a password was set with it
  session,     \* live sessions: whose, and the password of that time
  died         \* history: a request ended between two of its statements

accountsVars == <<tick, user, shop, link, session, died>>

AccountsTypeOK ==
  /\ tick \in 0..LastTick /\ died \in BOOLEAN
  /\ user \in [Founders -> Account \cup {None}]
  /\ shop \in [Shops -> ShopRow \cup {None}]
  /\ link \in [Links -> LinkRow \cup {None}]
  /\ session \subseteq [of : Founders, pass : 0..MaxPasswords]

AccountsInit ==
  /\ tick = 0 /\ user = [p \in Founders |-> None] /\ shop = [s \in Shops |-> None]
  /\ link = [l \in Links |-> None] /\ session = {} /\ died = FALSE

Belongs(p) == \E s \in Shops : shop[s] # None /\ shop[s].by = p /\ shop[s].owned

Unused(rows) == CHOOSE i \in DOMAIN rows : rows[i] = None    \* a new id
Room(rows) == \E i \in DOMAIN rows : rows[i] = None          \* bound: as many as there are ids

Asks(kind, p, step) == [kind |-> kind, who |-> p, step |-> step, at |-> None, pass |-> 0, found |-> FALSE, swept |-> FALSE]
Begins(r, kind, p, step) == Take(r, Asks(kind, p, step)) /\ UNCHANGED accountsVars
At(r, kind, step) == Asked(r, kind) /\ doing[r].step = step
Who(r) == doing[r].who

\* The row a request began with, which it writes by its id, is still there.
There(r) == user[Who(r)] # None /\ ~doing[r].swept

-----------------------------------------------------------------------------
(* Signing up. *)

\* An account, its shop and the owner's membership, and what a shop starts with.
Whole(p, account) ==
  /\ user' = [user EXCEPT ![p] = account]
  /\ shop' = [shop EXCEPT ![Unused(shop)] = [by |-> p, owned |-> TRUE, seeded |-> TRUE]]

\* Bugs: the shop is made after the account, outside the transaction; without its defaults.
AccountAlone(p, account) == user' = [user EXCEPT ![p] = account] /\ UNCHANGED shop
BareShop(p, account) ==
  /\ user' = [user EXCEPT ![p] = account]
  /\ shop' = [shop EXCEPT ![Unused(shop)] = [by |-> p, owned |-> TRUE, seeded |-> FALSE]]

InOneTransaction(p, account) == Whole(p, account)

\* register and createVerifiedOwner look for the address or the username, and then write
\* everything in one transaction, which its unique column refuses if another was faster.
LookUpIdentifier(r, kind, p) ==
  /\ kind \in {"register", "signup", "cli"} /\ user[p] = None /\ Room(shop)
  /\ Begins(r, kind, p, "write")

Register(r) ==
  /\ At(r, "register", "write")
  /\ \/ /\ user[Who(r)] = None /\ Room(shop)
        /\ InOneTransaction(Who(r), [verified |-> FALSE, google |-> FALSE, pass |-> 1,
                                     code |-> tick + CodeLife, in |-> FALSE])
     \/ user[Who(r)] # None /\ UNCHANGED <<user, shop>>
  /\ Finish(r) /\ UNCHANGED <<tick, link, session, died>>

CreateVerifiedOwner(r) ==
  /\ At(r, "signup", "write") \/ At(r, "cli", "write")
  /\ \/ /\ user[Who(r)] = None /\ Room(shop)
        /\ InOneTransaction(Who(r), [verified |-> TRUE, google |-> FALSE, pass |-> 1, code |-> None, in |-> FALSE])
        /\ IF Asked(r, "signup") THEN doing' = [doing EXCEPT ![r].step = "issue", ![r].pass = 1, ![r].swept = FALSE]
           ELSE doing' = [doing EXCEPT ![r] = None]
     \/ user[Who(r)] # None /\ UNCHANGED <<user, shop>> /\ doing' = [doing EXCEPT ![r] = None]
  /\ UNCHANGED <<overlapped, tick, link, session, died>>

\* issueForUser: whoever belongs to a shop gets a session there.
IssueForUser(r) ==
  /\ doing[r] # None /\ doing[r].step = "issue"
  /\ IF There(r) /\ Belongs(Who(r))
     THEN /\ session' = session \cup {[of |-> Who(r), pass |-> doing[r].pass]}
          /\ user' = [user EXCEPT ![Who(r)].in = TRUE]
     ELSE UNCHANGED <<session, user>>
  /\ Finish(r) /\ UNCHANGED <<tick, shop, link, died>>

-----------------------------------------------------------------------------
(* The code that proves an address. *)

Pending(p) == user[p] # None /\ ~user[p].verified

MatchOtp(r, p) ==
  /\ Pending(p) /\ user[p].code # None /\ tick <= user[p].code
  /\ Begins(r, "verify", p, "clear")

\* Bug: UsersService.clearOtpOnly, which leaves the account unverified.
ClearOtpOnly(p) == [user EXCEPT ![p].code = None]
ClearOtp(p) == [user EXCEPT ![p].code = None, ![p].verified = TRUE]

\* The row is written by its id; gone, the request fails.
VerifyOtp(r) ==
  /\ At(r, "verify", "clear")
  /\ IF ~There(r) THEN UNCHANGED user /\ doing' = [doing EXCEPT ![r] = None]
     ELSE /\ user' = ClearOtp(Who(r))
          /\ doing' = [doing EXCEPT ![r].step = "issue", ![r].pass = user[Who(r)].pass]
  /\ UNCHANGED <<overlapped, tick, shop, link, session, died>>

ReadToResend(r, p) == Pending(p) /\ Begins(r, "resend", p, "store")

ResendOtp(r) ==
  /\ At(r, "resend", "store")
  /\ user' = IF ~There(r) THEN user ELSE [user EXCEPT ![Who(r)].code = tick + CodeLife]
  /\ Finish(r) /\ UNCHANGED <<tick, shop, link, session, died>>

Login(r, p) ==
  /\ user[p] # None /\ user[p].verified /\ user[p].pass > 0
  /\ Take(r, [Asks("login", p, "issue") EXCEPT !.pass = user[p].pass]) /\ UNCHANGED accountsVars

-----------------------------------------------------------------------------
(* Google: found or made, linked, and given a shop, each in its own statement. *)

\* An account that came with Google before has nothing to be linked.
GoogleFinds(r, p) ==
  /\ Take(r, IF user[p] # None /\ user[p].google THEN [Asks("google", p, "member") EXCEPT !.pass = user[p].pass]
             ELSE [Asks("google", p, "user") EXCEPT !.found = user[p] # None])
  /\ UNCHANGED accountsVars

\* createGoogleUser fails where the address came to be there, linkGoogleAccount where it went.
GoogleUser(r) ==
  /\ At(r, "google", "user")
  /\ LET p == Who(r)
     IN  IF IF doing[r].found THEN ~There(r) ELSE user[p] # None
         THEN UNCHANGED user /\ doing' = [doing EXCEPT ![r] = None]
         ELSE /\ user' = [user EXCEPT ![p] =
                   IF doing[r].found THEN [@ EXCEPT !.google = TRUE]
                   ELSE [verified |-> TRUE, google |-> TRUE, pass |-> 0, code |-> None, in |-> FALSE]]
              /\ doing' = [doing EXCEPT ![r].step = "member", ![r].pass = user'[p].pass, ![r].swept = FALSE]
  /\ UNCHANGED <<overlapped, tick, shop, link, session, died>>

\* Bug: a shop is opened without looking.
OpensAnother(r) == At(r, "google", "member") /\ GoOn(r, "open") /\ UNCHANGED accountsVars

GoogleMembership(r) ==
  /\ At(r, "google", "member")
  /\ GoOn(r, IF There(r) /\ Belongs(Who(r)) THEN "issue" ELSE "open") /\ UNCHANGED accountsVars

OpenShop(r) ==
  /\ At(r, "google", "open") /\ Room(shop)
  /\ shop' = [shop EXCEPT ![Unused(shop)] = [by |-> Who(r), owned |-> FALSE, seeded |-> FALSE]]
  /\ doing' = [doing EXCEPT ![r].step = "join", ![r].at = Unused(shop)]
  /\ UNCHANGED <<overlapped, tick, user, link, session, died>>

\* A membership needs its user to be there still.
JoinShop(r) ==
  /\ At(r, "google", "join")
  /\ IF ~There(r) THEN UNCHANGED shop /\ died' = TRUE /\ doing' = [doing EXCEPT ![r] = None]
     ELSE /\ shop' = [shop EXCEPT ![doing[r].at].owned = TRUE]
          /\ doing' = [doing EXCEPT ![r].step = "seed"] /\ UNCHANGED died
  /\ UNCHANGED <<overlapped, tick, user, link, session>>

\* Bug: what Google sign-up used to do, open the shop and stop.
SeedNothing(r) == At(r, "google", "seed") /\ GoOn(r, "issue") /\ UNCHANGED accountsVars

SeedOrganizationDefaults(r) ==
  /\ At(r, "google", "seed")
  /\ shop' = [shop EXCEPT ![doing[r].at].seeded = TRUE]
  /\ GoOn(r, "issue") /\ UNCHANGED <<tick, user, link, session, died>>

-----------------------------------------------------------------------------
(* Passwords. *)

ReadToForget(r, p) == user[p] # None /\ Room(link) /\ Begins(r, "forgot", p, "void")

LinksOf(p) == {l \in Links : link[l] # None /\ link[l].of = p}

\* Bug: the links sent before stay good.
VoidNoLinks(r) == At(r, "forgot", "void") /\ GoOn(r, "mint") /\ UNCHANGED accountsVars

InvalidateLinks(r) ==
  /\ At(r, "forgot", "void")
  /\ link' = [l \in Links |-> IF l \in LinksOf(Who(r)) THEN [link[l] EXCEPT !.used = TRUE] ELSE link[l]]
  /\ GoOn(r, "mint") /\ UNCHANGED <<tick, user, shop, session, died>>

MintLink(r) ==
  /\ At(r, "forgot", "mint") /\ Room(link)
  /\ link' = IF ~There(r) THEN link
             ELSE [link EXCEPT ![Unused(link)] =
                     [of |-> Who(r), used |-> FALSE, until |-> tick + LinkLife, set |-> 0]]
  /\ Finish(r) /\ UNCHANGED <<tick, user, shop, session, died>>

\* A link that is good; changePassword by one who knows it, StaffService.resetPassword by
\* an owner and setPasswordByIdentifier from the command line need none.
ReadLink(r, l) ==
  /\ link[l] # None /\ ~link[l].used /\ tick < link[l].until
  /\ Take(r, [Asks("password", link[l].of, "set") EXCEPT !.at = l]) /\ UNCHANGED accountsVars

ReadToChange(r, p) == user[p] # None /\ Begins(r, "password", p, "set")

UpdatePassword(r) ==
  /\ At(r, "password", "set")
  /\ \/ ~There(r) /\ Finish(r) /\ UNCHANGED <<user, link>>
     \/ /\ There(r) /\ user[Who(r)].pass < MaxPasswords
        /\ user' = [user EXCEPT ![Who(r)].pass = @ + 1]
        /\ IF doing[r].at = None THEN UNCHANGED link /\ GoOn(r, "revoke")
           ELSE link' = [link EXCEPT ![doing[r].at].set = @ + 1] /\ GoOn(r, "mark")
  /\ UNCHANGED <<tick, shop, session, died>>

\* Bugs: the link is not marked; those signed in stay so.
MarkNothing(r) == At(r, "password", "mark") /\ GoOn(r, "revoke") /\ UNCHANGED accountsVars
RevokeNothing(r) == At(r, "password", "revoke") /\ Finish(r) /\ UNCHANGED accountsVars

MarkAsUsed(r) ==
  /\ At(r, "password", "mark")
  /\ link' = [link EXCEPT ![doing[r].at].used = TRUE]
  /\ GoOn(r, "revoke") /\ UNCHANGED <<tick, user, shop, session, died>>

RevokeAllForUser(r) ==
  /\ At(r, "password", "revoke")
  /\ session' = {s \in session : s.of # Who(r)}
  /\ Finish(r) /\ UNCHANGED <<tick, user, shop, link, died>>

-----------------------------------------------------------------------------
(* Time, the sweep, and requests that die half way. *)

\* One statement, which a reset link of any of them refuses for all.
Stale == {p \in Founders : Pending(p) /\ user[p].code # None /\ user[p].code + StaleAfter < tick}

CleanStaleUnverifiedUsers ==
  /\ Stale # {} /\ \A p \in Stale : LinksOf(p) = {}
  /\ user' = [p \in Founders |-> IF p \in Stale THEN None ELSE user[p]]
  /\ shop' = [s \in Shops |-> IF shop[s] # None /\ shop[s].by \in Stale THEN [shop[s] EXCEPT !.owned = FALSE]
                              ELSE shop[s]]
  /\ session' = {s \in session : s.of \notin Stale}
  /\ doing' = [r \in Requests |-> IF doing[r] # None /\ Who(r) \in Stale THEN [doing[r] EXCEPT !.swept = TRUE]
                               ELSE doing[r]]
  /\ overlapped' = (overlapped \/ Busy # {}) /\ UNCHANGED <<tick, link, died>>

CutShortAccount(r) ==
  /\ doing[r] # None /\ died' = TRUE /\ Finish(r)
  /\ UNCHANGED <<tick, user, shop, link, session>>

TimePasses == tick < LastTick /\ tick' = tick + 1 /\ UNCHANGED <<deskVars, user, shop, link, session, died>>

AccountsNext ==
  \/ TimePasses \/ CleanStaleUnverifiedUsers
  \/ \E r \in Requests :
       \/ Register(r) \/ CreateVerifiedOwner(r) \/ IssueForUser(r) \/ VerifyOtp(r) \/ ResendOtp(r)
       \/ GoogleUser(r) \/ GoogleMembership(r) \/ OpenShop(r) \/ JoinShop(r) \/ SeedOrganizationDefaults(r)
       \/ InvalidateLinks(r) \/ MintLink(r) \/ UpdatePassword(r) \/ MarkAsUsed(r) \/ RevokeAllForUser(r)
       \/ CutShortAccount(r) \/ \E l \in Links : ReadLink(r, l)
       \/ \E p \in Founders :
            \/ MatchOtp(r, p) \/ ReadToResend(r, p) \/ Login(r, p) \/ GoogleFinds(r, p)
            \/ ReadToForget(r, p) \/ ReadToChange(r, p)
            \/ \E kind \in {"register", "signup", "cli"} : LookUpIdentifier(r, kind, p)

AccountsSpec == DeskInit /\ AccountsInit /\ [][AccountsNext]_<<accountsVars, deskVars>>

-----------------------------------------------------------------------------
(* Who signs in with a name alone.  `roster` gives of each person the name, *)
(* the shop a staff name is qualified by or None for an owner's plain one,  *)
(* and the password.                                                        *)

\* findCredentials, and if there is none of that very name, the staff of any shop who
\* have it, as many as are looked at and in no order.
Candidates(roster, name) ==
  LET plain == {p \in DOMAIN roster : roster[p].name = name /\ roster[p].shop = None}
      staff == {p \in DOMAIN roster : roster[p].name = name /\ roster[p].shop # None}
  IN  IF plain # {} THEN {plain}
      ELSE {S \in SUBSET staff : Cardinality(S) = IF Cardinality(staff) < Shown THEN Cardinality(staff) ELSE Shown}

\* Bug: the first whose password fits is let in.
FirstThatFits(candidates, pass) ==
  LET fits == {p \in candidates : pass[p]} IN IF fits = {} THEN None ELSE CHOOSE p \in fits : TRUE

\* signInCandidate: the one whose password fits, nobody if several do.
SignInCandidate(candidates, pass) ==
  LET fits == {p \in candidates : pass[p]}
  IN  IF Cardinality(fits) = 1 THEN CHOOSE p \in fits : TRUE ELSE None

-----------------------------------------------------------------------------
(* Properties. *)

Under(r, kind, p) == Asked(r, kind) /\ Who(r) = p

\* A shop that was signed up for has its price lists, location and categories
\* (seedOrganizationDefaults), however it came about, unless the request died before.
ShopIsComplete ==
  died \/ \A s \in Shops : shop[s] # None => shop[s].seeded \/ \E r \in Requests : Under(r, "google", shop[s].by)

\* Nobody has an account that can neither sign in nor sign up again: each belongs to
\* a shop, but for what Google's statements have yet to write or were cut off from.
NobodyLockedOut ==
  died \/ \A p \in Founders : user[p] # None => Belongs(p) \/ \E r \in Requests : Under(r, "google", p)

\* Signing up again, by another way or with Google, leads to the shop there is, not to
\* a second one, while requests do not overlap.
OneShopEach ==
  overlapped \/ died \/ \A p \in Founders :
    Cardinality({s \in Shops : shop[s] # None /\ shop[s].by = p /\ shop[s].owned}) <= 1

\* The nightly sweep takes accounts nobody ever used, however long codes, verification
\* and resends took to cross it; but those who came in with Google, which does not
\* count as verifying the address, are taken too.
SweepSparesTheActive ==
  \A p \in Founders : user[p] # None /\ user'[p] = None => ~user[p].in \/ user[p].google

\* forgotPassword voids what was sent before, so one link of a person is good at most,
\* and resetPassword lets each set one password, while requests do not overlap.
OneUseOfALink ==
  /\ overlapped \/ \A p \in Founders : Cardinality({l \in LinksOf(p) : ~link[l].used}) <= 1
  /\ overlapped \/ died \/ \A l \in Links : link[l] = None \/ link[l].set <= 1

\* Whoever was signed in with an older password is no longer (revokeAllForUser), once
\* the request that changed it is done, while requests do not overlap.
OldPasswordOpensNothing ==
  overlapped \/ died \/ \A s \in session :
    user[s.of].pass = s.pass \/ \E r \in Requests : Under(r, "password", s.of)

\* Accounts, shops and passwords belong together however people sign up.
PeopleGetIn ==
  [][/\ ShopIsComplete' /\ NobodyLockedOut' /\ OneShopEach' /\ OneUseOfALink' /\ OldPasswordOpensNothing'
     /\ SweepSparesTheActive]_<<accountsVars, deskVars>>

\* A name that is nobody's username lets in the one member of staff of that name whose
\* password fits, and nobody else, as long as no more share it than are looked at.
NameIsEnough(roster) ==
  \A p \in DOMAIN roster, pass \in {roster[q].pass : q \in DOMAIN roster} :
    LET name == roster[p].name
        fits == [q \in DOMAIN roster |-> roster[q].pass = pass]
        alike == {q \in DOMAIN roster : roster[q].name = name}
    IN  \A S \in Candidates(roster, name) :
          LET in == SignInCandidate(S, fits)
          IN  /\ in # None => fits[in] /\ in \in alike
              /\ (\A q \in alike : roster[q].shop # None) /\ Cardinality(alike) <= Shown
                   => IF \E q \in alike : fits[q] /\ \A o \in alike \ {q} : ~fits[o]
                      THEN in # None ELSE in = None
=============================================================================
