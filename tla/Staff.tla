-------------------------------- MODULE Staff --------------------------------
(***************************************************************************)
(* The people of one business (modules/staff/staff.service.ts): seats      *)
(* under the plan's cap, and the owner who must remain.  Only owners reach *)
(* these handlers.  Names, passwords, hours and sessions are left out.     *)
(***************************************************************************)
EXTENDS Desk

CONSTANTS
  Members,     \* people who work or may come to work in the business
  MaxUsers,    \* the plan's cap on active members
  FirstStaff   \* who is there at first: a member's role, or None

\* A business is signed up by an owner and starts within its plan.
ASSUME StaffAssumption ==
  /\ IsFiniteSet(Members) /\ MaxUsers \in Nat
  /\ FirstStaff \in [Members -> {"owner", "staff", None}]
  /\ \E m \in Members : FirstStaff[m] = "owner"
  /\ Cardinality({m \in Members : FirstStaff[m] # None}) <= MaxUsers
  /\ None \notin {"owner", "staff"} /\ None \notin BOOLEAN
  /\ None \notin [role : {"owner", "staff"}, active : BOOLEAN]

VARIABLES
  member,      \* membership: role and status, or None
  joined,      \* how many were ever added: what a serializable count conflicts on
  crossed,     \* history: somebody was brought back while another seat was being taken
  mutual       \* history: an owner was being changed while changing somebody else

staffVars == <<member, joined, crossed, mutual>>

Roles == {"owner", "staff"}

StaffTypeOK ==
  /\ \A m \in Members : member[m] = None \/ member[m] \in [role : Roles, active : BOOLEAN]
  /\ joined \in 0..Cardinality(Members) /\ {crossed, mutual} \subseteq BOOLEAN

StaffInit ==
  /\ member = [m \in Members |-> IF FirstStaff[m] = None THEN None
                                 ELSE [role |-> FirstStaff[m], active |-> TRUE]]
  /\ joined = 0 /\ crossed = FALSE /\ mutual = FALSE

Active == {m \in Members : member[m] # None /\ member[m].active}
Owners == {m \in Active : member[m].role = "owner"}

SeatAvailable == Cardinality(Active) < MaxUsers

-----------------------------------------------------------------------------
BringsBack(r) == Asked(r, "change") /\ doing[r].active = TRUE

\* create: the count and the insert are one serializable transaction ...
CountSeats(r, m, role) ==
  /\ Owners # {} /\ member[m] = None /\ SeatAvailable
  /\ Take(r, [kind |-> "add", member |-> m, role |-> role, joined |-> joined])
  /\ crossed' = (crossed \/ \E q \in Busy : BringsBack(q))
  /\ UNCHANGED <<member, joined, mutual>>

\* Bug: the seats are counted before the transaction.
AddUncounted(r) ==
  /\ Asked(r, "add") /\ member[doing[r].member] = None
  /\ member' = [member EXCEPT ![doing[r].member] = [role |-> doing[r].role, active |-> TRUE]]
  /\ joined' = joined + 1
  /\ Finish(r) /\ UNCHANGED <<crossed, mutual>>

\* ... so of two that counted the same seats one is rolled back.  Changing a
\* member is not serializable and conflicts with neither.
AddMember(r) ==
  /\ Asked(r, "add") /\ doing[r].joined = joined /\ member[doing[r].member] = None
  /\ member' = [member EXCEPT ![doing[r].member] = [role |-> doing[r].role, active |-> TRUE]]
  /\ joined' = joined + 1
  /\ Finish(r) /\ UNCHANGED <<crossed, mutual>>

AddConflicts(r) ==
  /\ Asked(r, "add") /\ (doing[r].joined # joined \/ member[doing[r].member] # None)
  /\ Finish(r) /\ UNCHANGED staffVars

\* Bug: only the role is looked at, not the suspension.
NotOneselfRole(me, m, role, active) ==
  m = me => role \in {None, member[m].role}

\* Changing one's own role and suspending oneself are refused.
NotOneself(me, m, role, active) ==
  m = me => role \in {None, member[m].role} /\ active # FALSE

NotLastOwner(m, role, active) ==
  LET losing == /\ member[m].role = "owner"
                /\ role \notin {None, "owner"} \/ active = FALSE
  IN  losing => Owners \ {m} # {}

SeatToReturnTo(m, active) == (active = TRUE /\ ~member[m].active) => SeatAvailable

\* update and suspend, up to the write: role and active are what the request names,
\* or None.
ReadMember(r, me, m, role, active) ==
  /\ me \in Owners /\ member[m] # None
  /\ NotOneself(me, m, role, active)
  /\ NotLastOwner(m, role, active)
  /\ SeatToReturnTo(m, active)
  /\ Take(r, [kind |-> "change", me |-> me, member |-> m, role |-> role, active |-> active])
  /\ crossed' = (crossed \/ (active = TRUE /\ \E q \in Busy : Asked(q, "add") \/ BringsBack(q)))
  /\ mutual' = (mutual \/ \E q \in Busy :
       /\ Asked(q, "change") /\ doing[q].me # doing[q].member /\ me # m
       /\ doing[q].me = m \/ doing[q].member = me)
  /\ UNCHANGED <<member, joined>>

ChangeMember(r) ==
  /\ Asked(r, "change")
  /\ LET ask == doing[r]
     IN  member' = [member EXCEPT
           ![ask.member].role = IF ask.role = None THEN @ ELSE ask.role,
           ![ask.member].active = IF ask.active = None THEN @ ELSE ask.active]
  /\ Finish(r) /\ UNCHANGED <<joined, crossed, mutual>>

StaffNext ==
  \E r \in Requests :
    \/ AddMember(r) \/ AddConflicts(r) \/ ChangeMember(r)
    \/ \E m \in Members, role \in Roles : CountSeats(r, m, role)
    \/ \E me, m \in Members, role \in Roles \cup {None}, active \in BOOLEAN \cup {None} :
         ReadMember(r, me, m, role, active)

StaffSpec == DeskInit /\ StaffInit /\ [][StaffNext]_<<deskVars, staffVars>>

-----------------------------------------------------------------------------
(* Properties. *)

\* The plan's cap holds however many are added at once, which the serializable
\* transaction is for, unless bringing somebody back, which counts outside one, met
\* another request that takes a seat.
SeatsWithinPlan == crossed \/ Cardinality(Active) <= MaxUsers

\* Somebody is left who can manage the staff, however requests overlap, unless two
\* owners were changed by each other at once: update refuses to change oneself, so
\* whoever takes an owner away stays one.
OwnerRemains == mutual \/ Owners # {}

\* The plan's seats are kept to and somebody can manage who sits in them.
StaffStayManaged == SeatsWithinPlan /\ OwnerRemains
=============================================================================
