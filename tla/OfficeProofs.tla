---------------------------- MODULE OfficeProofs ----------------------------
(***************************************************************************)
(* What holds of the office services however many requests are under way   *)
(* and in whatever order they read and write: the seats and the owners of  *)
(* staff, the lists with a default, the customers and the books that name  *)
(* them, whose hands the cash is in, how people come to have a shop and a  *)
(* password, and what an edit of the catalogue leaves the till with.       *)
(* Last, what is worked out from arguments alone: oldest cash and names,   *)
(* with the days and the FEFO pick of PureProofs.                          *)
(***************************************************************************)
EXTENDS MCOffice, PureProofs, SumLemmas, FiniteSetTheorems, TLAPS

-----------------------------------------------------------------------------
(* The staff. *)

Adds == [kind : {"add"}, member : Members, role : Roles, joined : Nat]
Changes == [kind : {"change"}, me : Members, member : Members,
            role : Roles \cup {None}, active : BOOLEAN \cup {None}]

StaffTypes ==
  /\ member \in [Members -> [role : Roles, active : BOOLEAN] \cup {None}]
  /\ joined \in Nat /\ crossed \in BOOLEAN /\ mutual \in BOOLEAN
  /\ doing \in [Requests -> Adds \cup Changes \cup {None}]
  /\ \A r \in Requests : Asked(r, "add") => doing[r].joined <= joined
  /\ \A r \in Requests : Asked(r, "change") => member[doing[r].member] # None

\* A seat that was counted is free until somebody is added, and who is brought
\* back has one: nobody else takes a seat meanwhile.
SeatsKept ==
  /\ Cardinality(Active) <= MaxUsers
  /\ \A r \in Requests : Asked(r, "add") /\ doing[r].joined = joined => SeatAvailable
  /\ \A q \in Requests : BringsBack(q) =>
       /\ doing[q].member \in Active \/ SeatAvailable
       /\ \A r \in Requests : ~Asked(r, "add") /\ (BringsBack(r) => r = q)

\* Whoever changes somebody else is an owner until it is done, and nobody whom
\* an owner is changing is changing anybody; nobody takes the owner from himself.
ChangedByOwners ==
  /\ Owners # {}
  /\ \A r \in Requests : Asked(r, "change") =>
       IF doing[r].me = doing[r].member
       THEN doing[r].role \in {None, "owner"} /\ doing[r].active # FALSE
       ELSE doing[r].me \in Owners
  /\ \A q, r \in Requests :
       /\ Asked(q, "change") /\ doing[q].me # doing[q].member
       /\ Asked(r, "change") /\ doing[r].me # doing[r].member
       => doing[q].me # doing[r].member

StaffInv == StaffTypes /\ (crossed \/ SeatsKept) /\ (mutual \/ ChangedByOwners)

LEMMA ActiveIsFinite == IsFiniteSet(Active)
  BY FS_Subset, StaffAssumption DEF Active

\* What the two writes do to a member.
LEMMA AddedIs ==
  ASSUME StaffTypes, NEW r \in Requests, AddMember(r)
  PROVE  /\ doing[r] \in Adds /\ doing[r].member \notin Active
         /\ member' = [member EXCEPT ![doing[r].member] = [role |-> doing[r].role, active |-> TRUE]]
         /\ Active' = Active \cup {doing[r].member} /\ Owners \subseteq Owners'
<1>1. doing[r] \in Adds
  BY DEF StaffTypes, AddMember, Asked, Adds, Changes
<1>2. member[doing[r].member] = None
  BY DEF AddMember
<1>3. member' = [member EXCEPT ![doing[r].member] = [role |-> doing[r].role, active |-> TRUE]]
  BY DEF AddMember
<1>4. [role |-> doing[r].role, active |-> TRUE] # None
  <2>1. [role |-> doing[r].role, active |-> TRUE] \in [role : Roles, active : BOOLEAN]
    BY <1>1 DEF Adds
  <2>2. QED
    BY <2>1, StaffAssumption DEF Roles
<1>5. QED
  BY <1>1, <1>2, <1>3, <1>4 DEF StaffTypes, Active, Owners, Adds

LEMMA ChangedIs ==
  ASSUME StaffTypes, NEW r \in Requests, ChangeMember(r)
  PROVE  LET ask == doing[r]
             m == ask.member
         IN  /\ ask \in Changes /\ member[m] \in [role : Roles, active : BOOLEAN]
             /\ member' = [member EXCEPT ![m] =
                  [role |-> IF ask.role = None THEN member[m].role ELSE ask.role,
                   active |-> IF ask.active = None THEN member[m].active ELSE ask.active]]
             /\ member'[m] \in [role : Roles, active : BOOLEAN]
<1> DEFINE ask == doing[r]
           m == ask.member
<1>1. ask \in Changes
  BY DEF StaffTypes, ChangeMember, Asked, Adds, Changes
<1>2. member[m] \in [role : Roles, active : BOOLEAN] /\ m \in Members
  BY <1>1 DEF StaffTypes, ChangeMember, Changes
<1>3. member' = [member EXCEPT ![m] =
                  [role |-> IF ask.role = None THEN member[m].role ELSE ask.role,
                   active |-> IF ask.active = None THEN member[m].active ELSE ask.active]]
  <2> DEFINE role == IF ask.role = None THEN member[m].role ELSE ask.role
             active == IF ask.active = None THEN member[m].active ELSE ask.active
  <2> DEFINE afterwards == [member[m] EXCEPT !.role = role]
  <2>1. afterwards = [role |-> role, active |-> member[m].active]
    BY <1>2
  <2>2. [afterwards EXCEPT !.active = active] = [role |-> role, active |-> active]
    <3> HIDE DEF afterwards, role, active
    <3> QED
      BY <2>1
  <2>3. member' = [member EXCEPT ![m].role = role, ![m].active = active]
    BY <1>1, <1>2 DEF StaffTypes, ChangeMember
  <2>4. member' = [member EXCEPT ![m] = [[member[m] EXCEPT !.role = role] EXCEPT !.active = active]]
    BY <2>3, <1>2 DEF StaffTypes
  <2>5. QED
    BY <2>2, <2>4
<1>4. member'[m] \in [role : Roles, active : BOOLEAN]
  BY <1>1, <1>2, <1>3 DEF StaffTypes, Changes
<1>5. QED
  BY <1>1, <1>2, <1>3, <1>4

\* Every step of the office keeps to the types.
LEMMA StaffTypesStay ==
  ASSUME StaffTypes, [StaffNext]_<<deskVars, staffVars>>
  PROVE  StaffTypes'
<1>1. ASSUME NEW r \in Requests, NEW m \in Members, NEW role \in Roles, CountSeats(r, m, role)
      PROVE  StaffTypes'
  <2> DEFINE read == [kind |-> "add", member |-> m, role |-> role, joined |-> joined]
  <2>1. doing' = [doing EXCEPT ![r] = read] /\ read \in Adds
    BY <1>1 DEF CountSeats, Take, Adds, StaffTypes
  <2>2. crossed' \in BOOLEAN
    BY <1>1 DEF CountSeats, StaffTypes
  <2>3. UNCHANGED <<member, joined, mutual>>
    BY <1>1 DEF CountSeats
  <2>4. QED
    BY <2>1, <2>2, <2>3 DEF StaffTypes, Asked
<1>2. ASSUME NEW r \in Requests, AddMember(r)
      PROVE  StaffTypes'
  <2>1. doing' = [doing EXCEPT ![r] = None] /\ joined' = joined + 1 /\ UNCHANGED <<crossed, mutual>>
    BY <1>2 DEF AddMember, Finish
  <2>2. /\ doing[r] \in Adds
        /\ member' = [member EXCEPT ![doing[r].member] = [role |-> doing[r].role, active |-> TRUE]]
    BY <1>2, AddedIs
  <2>3. [role |-> doing[r].role, active |-> TRUE] \in [role : Roles, active : BOOLEAN]
    BY <2>2 DEF Adds
  <2>4. member' \in [Members -> [role : Roles, active : BOOLEAN] \cup {None}]
    BY <2>2, <2>3 DEF StaffTypes
  <2>5. [role |-> doing[r].role, active |-> TRUE] # None
    BY <2>3, StaffAssumption DEF Roles
  <2>6. \A q \in Requests : Asked(q, "change")' => member'[doing'[q].member] # None
    BY <2>1, <2>2, <2>5 DEF StaffTypes, Asked, Changes, Adds
  <2>7. \A q \in Requests : Asked(q, "add")' => doing'[q].joined <= joined'
    <3>1. \A q \in Requests : Asked(q, "add") => doing[q].joined \in Nat
      BY DEF StaffTypes, Asked, Adds, Changes
    <3>2. QED
      BY <2>1, <3>1 DEF StaffTypes, Asked
  <2>8. QED
    BY <2>1, <2>4, <2>6, <2>7 DEF StaffTypes
<1>3. ASSUME NEW r \in Requests, AddConflicts(r)
      PROVE  StaffTypes'
  BY <1>3 DEF AddConflicts, Finish, StaffTypes, staffVars, Asked
<1>4. ASSUME NEW r \in Requests, NEW me \in Members, NEW m \in Members,
             NEW role \in Roles \cup {None}, NEW active \in BOOLEAN \cup {None},
             ReadMember(r, me, m, role, active)
      PROVE  StaffTypes'
  <2> DEFINE read == [kind |-> "change", me |-> me, member |-> m, role |-> role, active |-> active]
  <2>1. doing' = [doing EXCEPT ![r] = read] /\ read \in Changes /\ member[m] # None
    BY <1>4 DEF ReadMember, Take, Changes
  <2>2. crossed' \in BOOLEAN /\ mutual' \in BOOLEAN
    BY <1>4 DEF ReadMember, StaffTypes
  <2>3. UNCHANGED <<member, joined>>
    BY <1>4 DEF ReadMember
  <2>4. QED
    BY <2>1, <2>2, <2>3 DEF StaffTypes, Asked
<1>5. ASSUME NEW r \in Requests, ChangeMember(r)
      PROVE  StaffTypes'
  <2>1. doing' = [doing EXCEPT ![r] = None] /\ UNCHANGED <<joined, crossed, mutual>>
    BY <1>5 DEF ChangeMember, Finish
  <2> DEFINE m == doing[r].member
             oneRow == [role |-> IF doing[r].role = None THEN member[m].role ELSE doing[r].role,
                     active |-> IF doing[r].active = None THEN member[m].active ELSE doing[r].active]
  <2>2. m \in Members /\ member' = [member EXCEPT ![m] = oneRow] /\ member'[m] \in [role : Roles, active : BOOLEAN]
    BY <1>5, ChangedIs DEF Changes
  <2> HIDE DEF m, oneRow
  <2>3. oneRow \in [role : Roles, active : BOOLEAN] /\ oneRow # None
    BY <2>2, StaffAssumption DEF StaffTypes, Roles
  <2>4. member' \in [Members -> [role : Roles, active : BOOLEAN] \cup {None}]
    BY <2>2, <2>3 DEF StaffTypes
  <2>5. \A q \in Requests : Asked(q, "change")' => member'[doing'[q].member] # None
    BY <2>1, <2>2, <2>3 DEF StaffTypes, Asked, Changes, Adds
  <2>6. QED
    BY <2>1, <2>4, <2>5 DEF StaffTypes, Asked
<1>6. CASE UNCHANGED <<deskVars, staffVars>>
  BY <1>6 DEF deskVars, staffVars, StaffTypes, Asked
<1>7. QED
  BY <1>1, <1>2, <1>3, <1>4, <1>5, <1>6 DEF StaffNext

\* Who is active after a change: nobody new, unless it brings somebody back.
LEMMA ChangedSeats ==
  ASSUME StaffTypes, NEW r \in Requests, ChangeMember(r)
  PROVE  /\ ~BringsBack(r) => Active' \subseteq Active
         /\ BringsBack(r) => Active' = Active \cup {doing[r].member}
<1> DEFINE m == doing[r].member
<1>1. /\ doing[r] \in Changes /\ m \in Members /\ member[m] # None
      /\ member'[m] \in [role : Roles, active : BOOLEAN]
      /\ member'[m].active = IF doing[r].active = None THEN member[m].active ELSE doing[r].active
      /\ \A n \in Members \ {m} : member'[n] = member[n]
  <2>1. Asked(r, "change")
    BY DEF ChangeMember
  <2> DEFINE oneRow == [role |-> IF doing[r].role = None THEN member[m].role ELSE doing[r].role,
                     active |-> IF doing[r].active = None THEN member[m].active ELSE doing[r].active]
  <2>2. /\ doing[r] \in Changes /\ member' = [member EXCEPT ![m] = oneRow]
        /\ member'[m] \in [role : Roles, active : BOOLEAN]
    BY ChangedIs
  <2>3. m \in Members /\ member[m] # None
    BY <2>1, <2>2 DEF StaffTypes, Changes
  <2>4. member'[m] = oneRow /\ \A n \in Members \ {m} : member'[n] = member[n]
    BY <2>2, <2>3 DEF StaffTypes
  <2>5. QED
    BY <2>2, <2>3, <2>4
<1>2. member'[m] # None
  BY <1>1, StaffAssumption DEF Roles
<1>3. Asked(r, "change") /\ None \notin BOOLEAN
  BY StaffAssumption DEF ChangeMember
<1>4. CASE BringsBack(r)
  <2>1. member'[m].active = TRUE
    BY <1>1, <1>3, <1>4 DEF BringsBack
  <2>2. QED
    BY <1>1, <1>2, <1>4, <2>1 DEF Active
<1>5. CASE ~BringsBack(r)
  <2>1. doing[r].active = FALSE \/ doing[r].active = None
    BY <1>1, <1>3, <1>5 DEF BringsBack, Changes
  <2>2. member'[m].active => member[m].active
    BY <1>1, <2>1
  <2>3. QED
    BY <1>1, <1>2, <1>5, <2>2 DEF Active
<1>6. QED
  BY <1>4, <1>5

\* The write a request ends with leaves the others what they were asked.
LEMMA OthersAsk ==
  ASSUME StaffTypes, NEW r \in Requests, Finish(r)
  PROVE  \A q \in Requests :
           /\ \A kind : Asked(q, kind)' => Asked(q, kind) /\ q # r /\ doing'[q] = doing[q]
           /\ BringsBack(q)' => BringsBack(q) /\ q # r
  BY DEF StaffTypes, Finish, Asked, BringsBack

\* The plan's seats are kept to by every step.
LEMMA SeatsStay ==
  ASSUME StaffTypes, [StaffNext]_<<deskVars, staffVars>>, crossed \/ SeatsKept
  PROVE  (crossed \/ SeatsKept)'
<1>0. IsFiniteSet(Active) /\ Cardinality(Active) \in Nat /\ MaxUsers \in Nat
  BY ActiveIsFinite, FS_CardinalityType, StaffAssumption
<1>1. ASSUME NEW r \in Requests, NEW m \in Members, NEW role \in Roles, CountSeats(r, m, role)
      PROVE  (crossed \/ SeatsKept)'
  <2> DEFINE read == [kind |-> "add", member |-> m, role |-> role, joined |-> joined]
  <2>1. doing' = [doing EXCEPT ![r] = read] /\ UNCHANGED <<member, joined>> /\ SeatAvailable
    BY <1>1 DEF CountSeats, Take
  <2>2. crossed' = (crossed \/ \E q \in Busy : BringsBack(q))
    BY <1>1 DEF CountSeats
  <2>3. CASE ~crossed'
    <3>1. SeatsKept /\ \A q \in Requests : ~BringsBack(q)
      BY <2>2, <2>3 DEF Busy, BringsBack, Asked
    <3>2. \A q \in Requests : ~BringsBack(q)'
      BY <2>1, <3>1 DEF StaffTypes, BringsBack, Asked
    <3>3. Active' = Active
      BY <2>1 DEF Active
    <3>4. QED
      BY <2>1, <3>1, <3>2, <3>3 DEF SeatsKept, SeatAvailable
  <2>4. QED
    BY <2>3
<1>2. ASSUME NEW r \in Requests, AddMember(r)
      PROVE  (crossed \/ SeatsKept)'
  <2>1. /\ Finish(r) /\ joined' = joined + 1 /\ crossed' = crossed
        /\ Asked(r, "add") /\ doing[r].joined = joined
    BY <1>2 DEF AddMember
  <2>2. CASE ~crossed
    <3>1. SeatsKept /\ SeatAvailable /\ \A q \in Requests : ~BringsBack(q)
      BY <2>1, <2>2 DEF SeatsKept
    <3>2. Cardinality(Active') = Cardinality(Active) + 1
      BY <1>0, <1>2, AddedIs, FS_AddElement
    <3>3. Cardinality(Active') <= MaxUsers
      BY <1>0, <3>1, <3>2 DEF SeatAvailable
    <3>4. \A q \in Requests : Asked(q, "add")' => doing'[q].joined # joined'
      <4>1. \A q \in Requests : Asked(q, "add") => doing[q].joined \in Nat /\ doing[q].joined <= joined
        BY DEF StaffTypes, Asked, Adds, Changes
      <4>2. QED
        BY <2>1, <4>1, OthersAsk DEF StaffTypes
    <3>5. \A q \in Requests : ~BringsBack(q)'
      BY <2>1, <3>1, OthersAsk
    <3>6. QED
      BY <3>3, <3>4, <3>5 DEF SeatsKept
  <2>3. QED
    BY <2>1, <2>2
<1>3. ASSUME NEW r \in Requests, AddConflicts(r)
      PROVE  (crossed \/ SeatsKept)'
  <2>1. Finish(r) /\ UNCHANGED <<member, joined, crossed>>
    BY <1>3 DEF AddConflicts, staffVars
  <2>2. Active' = Active
    BY <2>1 DEF Active
  <2>3. QED
    BY <2>1, <2>2, OthersAsk DEF SeatsKept, SeatAvailable, BringsBack
<1>4. ASSUME NEW r \in Requests, NEW me \in Members, NEW m \in Members,
             NEW role \in Roles \cup {None}, NEW active \in BOOLEAN \cup {None},
             ReadMember(r, me, m, role, active)
      PROVE  (crossed \/ SeatsKept)'
  <2> DEFINE read == [kind |-> "change", me |-> me, member |-> m, role |-> role, active |-> active]
  <2>1. /\ doing' = [doing EXCEPT ![r] = read] /\ UNCHANGED <<member, joined>>
        /\ doing[r] = None /\ member[m] # None /\ SeatToReturnTo(m, active)
    BY <1>4 DEF ReadMember, Take
  <2>2. crossed' = (crossed \/ (active = TRUE /\ \E q \in Busy : Asked(q, "add") \/ BringsBack(q)))
    BY <1>4 DEF ReadMember
  <2>3. CASE ~crossed'
    <3>1. SeatsKept /\ (active = TRUE => \A q \in Requests : ~Asked(q, "add") /\ ~BringsBack(q))
      BY <2>2, <2>3 DEF Busy, BringsBack, Asked
    <3>2. Active' = Active
      BY <2>1 DEF Active
    <3>3. \A q \in Requests \ {r} :
            /\ \A kind : Asked(q, kind)' <=> Asked(q, kind)
            /\ doing'[q] = doing[q] /\ (BringsBack(q)' <=> BringsBack(q))
      BY <2>1 DEF StaffTypes, Asked, BringsBack
    <3>4. /\ ~Asked(r, "add")' /\ doing'[r].member = m
          /\ BringsBack(r)' => active = TRUE
      BY <2>1 DEF StaffTypes, Asked, BringsBack
    <3>5. active = TRUE => m \in Active \/ SeatAvailable
      BY <2>1, StaffAssumption DEF SeatToReturnTo, Active
    <3>6. \A q \in Requests : Asked(q, "add")' /\ doing'[q].joined = joined' => SeatAvailable'
      BY <2>1, <3>1, <3>2, <3>3, <3>4 DEF SeatsKept, SeatAvailable
    <3>7. ASSUME NEW q \in Requests, BringsBack(q)'
          PROVE  /\ doing'[q].member \in Active' \/ SeatAvailable'
                 /\ \A p \in Requests : ~Asked(p, "add")' /\ (BringsBack(p)' => p = q)
      <4>1. CASE q = r
        BY <3>1, <3>2, <3>3, <3>4, <3>5, <3>7, <4>1 DEF SeatAvailable
      <4>2. CASE q # r
        <5>1. BringsBack(q) /\ doing'[q] = doing[q] /\ active # TRUE
          BY <3>1, <3>3, <3>7, <4>2
        <5>2. QED
          BY <3>1, <3>2, <3>3, <3>4, <5>1 DEF SeatsKept, SeatAvailable
      <4>3. QED
        BY <4>1, <4>2
    <3>8. QED
      BY <3>1, <3>2, <3>6, <3>7 DEF SeatsKept
  <2>4. QED
    BY <2>3
<1>5. ASSUME NEW r \in Requests, ChangeMember(r)
      PROVE  (crossed \/ SeatsKept)'
  <2>1. Finish(r) /\ joined' = joined /\ crossed' = crossed
    BY <1>5 DEF ChangeMember
  <2>2. CASE ~crossed /\ BringsBack(r)
    <3>1. /\ Cardinality(Active) <= MaxUsers /\ (doing[r].member \in Active \/ SeatAvailable)
          /\ \A q \in Requests : ~Asked(q, "add") /\ (BringsBack(q) => q = r)
      BY <2>2 DEF SeatsKept
    <3>2. Active' = Active \cup {doing[r].member}
      BY <1>5, <2>2, ChangedSeats
    <3>3. Cardinality(Active') <= MaxUsers
      <4>1. CASE doing[r].member \in Active
        BY <3>1, <3>2, <4>1
      <4>2. CASE doing[r].member \notin Active
        <5>1. Cardinality(Active') = Cardinality(Active) + 1
          BY <1>0, <3>2, <4>2, FS_AddElement
        <5>2. QED
          BY <1>0, <3>1, <4>2, <5>1 DEF SeatAvailable
      <4>3. QED
        BY <4>1, <4>2
    <3>4. \A q \in Requests : ~Asked(q, "add")' /\ ~BringsBack(q)'
      BY <2>1, <3>1, OthersAsk
    <3>5. QED
      BY <3>3, <3>4 DEF SeatsKept
  <2>3. CASE ~crossed /\ ~BringsBack(r)
    <3>1. SeatsKept /\ Active' \subseteq Active
      BY <1>5, <2>3, ChangedSeats
    <3>2. /\ IsFiniteSet(Active') /\ Cardinality(Active') \in Nat
          /\ Cardinality(Active') <= Cardinality(Active)
          /\ Active' # Active => Cardinality(Active') < Cardinality(Active)
      BY <1>0, <3>1, FS_Subset, FS_CardinalityType
    <3>3. Cardinality(Active') <= MaxUsers /\ (SeatAvailable \/ Active' # Active => SeatAvailable')
      BY <1>0, <3>1, <3>2 DEF SeatsKept, SeatAvailable
    <3>4. \A q \in Requests : Asked(q, "add")' /\ doing'[q].joined = joined' => SeatAvailable'
      BY <2>1, <3>1, <3>3, OthersAsk DEF SeatsKept
    <3>5. ASSUME NEW q \in Requests, BringsBack(q)'
          PROVE  /\ doing'[q].member \in Active' \/ SeatAvailable'
                 /\ \A p \in Requests : ~Asked(p, "add")' /\ (BringsBack(p)' => p = q)
      <4>1. BringsBack(q) /\ doing'[q] = doing[q]
        BY <2>1, <3>5, OthersAsk DEF BringsBack
      <4>2. doing[q].member \in Active \/ SeatAvailable
        BY <3>1, <4>1 DEF SeatsKept
      <4>3. \A p \in Requests : ~Asked(p, "add")' /\ (BringsBack(p)' => p = q)
        BY <2>1, <3>1, <4>1, OthersAsk DEF SeatsKept
      <4>4. QED
        BY <3>3, <4>1, <4>2, <4>3
    <3>6. QED
      BY <3>3, <3>4, <3>5 DEF SeatsKept
  <2>4. QED
    BY <2>1, <2>2, <2>3
<1>6. CASE UNCHANGED <<deskVars, staffVars>>
  BY <1>6 DEF deskVars, staffVars, SeatsKept, SeatAvailable, Active, Asked, BringsBack
<1>7. QED
  BY <1>1, <1>2, <1>3, <1>4, <1>5, <1>6 DEF StaffNext

\* Whoever manages the staff stays an owner meanwhile, at every step.
LEMMA OwnersStay ==
  ASSUME StaffTypes, [StaffNext]_<<deskVars, staffVars>>, mutual \/ ChangedByOwners
  PROVE  (mutual \/ ChangedByOwners)'
<1>1. ASSUME NEW r \in Requests, NEW m \in Members, NEW role \in Roles, CountSeats(r, m, role)
      PROVE  (mutual \/ ChangedByOwners)'
  <2> DEFINE read == [kind |-> "add", member |-> m, role |-> role, joined |-> joined]
  <2>1. doing' = [doing EXCEPT ![r] = read] /\ UNCHANGED <<member, mutual>>
    BY <1>1 DEF CountSeats, Take
  <2>2. Owners' = Owners
    BY <2>1 DEF Owners, Active
  <2>3. \A q \in Requests : Asked(q, "change")' => Asked(q, "change") /\ doing'[q] = doing[q]
    BY <2>1 DEF StaffTypes, Asked
  <2>4. CASE ~mutual
    <3>1. ChangedByOwners
      BY <2>4
    <3>2. QED
      BY <2>2, <2>3, <3>1 DEF ChangedByOwners
  <2>5. QED
    BY <2>1, <2>4
<1>2. ASSUME NEW r \in Requests, AddMember(r)
      PROVE  (mutual \/ ChangedByOwners)'
  <2>1. Finish(r) /\ mutual' = mutual /\ Owners \subseteq Owners'
    BY <1>2, AddedIs DEF AddMember
  <2>2. QED
    BY <2>1, OthersAsk DEF ChangedByOwners
<1>3. ASSUME NEW r \in Requests, AddConflicts(r)
      PROVE  (mutual \/ ChangedByOwners)'
  <2>1. Finish(r) /\ UNCHANGED <<member, mutual>>
    BY <1>3 DEF AddConflicts, staffVars
  <2>2. Owners' = Owners
    BY <2>1 DEF Owners, Active
  <2>3. QED
    BY <2>1, <2>2, OthersAsk DEF ChangedByOwners
<1>4. ASSUME NEW r \in Requests, NEW me \in Members, NEW m \in Members,
             NEW role \in Roles \cup {None}, NEW active \in BOOLEAN \cup {None},
             ReadMember(r, me, m, role, active)
      PROVE  (mutual \/ ChangedByOwners)'
  <2> DEFINE read == [kind |-> "change", me |-> me, member |-> m, role |-> role, active |-> active]
  <2>1. /\ doing' = [doing EXCEPT ![r] = read] /\ UNCHANGED <<member, joined>>
        /\ me \in Owners /\ NotOneself(me, m, role, active)
    BY <1>4 DEF ReadMember, Take
  <2>2. mutual' = (mutual \/ \E q \in Busy :
          /\ Asked(q, "change") /\ doing[q].me # doing[q].member /\ me # m
          /\ doing[q].me = m \/ doing[q].member = me)
    BY <1>4 DEF ReadMember
  <2>3. CASE ~mutual'
    <3>1. ChangedByOwners /\ Owners' = Owners
      BY <2>1, <2>2, <2>3 DEF Owners, Active
    <3>2. \A q \in Requests : Asked(q, "change") /\ doing[q].me # doing[q].member /\ me # m
            => doing[q].me # m /\ doing[q].member # me
      BY <2>2, <2>3 DEF Busy, Asked
    <3>3. /\ \A q \in Requests \ {r} : /\ Asked(q, "change")' => Asked(q, "change")
                                       /\ doing'[q] = doing[q]
          /\ doing'[r].me = me /\ doing'[r].member = m
          /\ doing'[r].role = role /\ doing'[r].active = active
      BY <2>1 DEF StaffTypes, Asked
    <3>4. me = m => role \in {None, "owner"} /\ active # FALSE
      BY <2>1 DEF NotOneself, Owners, Active
    <3>5. \A q \in Requests : Asked(q, "change")' =>
            IF doing'[q].me = doing'[q].member
            THEN doing'[q].role \in {None, "owner"} /\ doing'[q].active # FALSE
            ELSE doing'[q].me \in Owners'
      <4>1. \A q \in Requests \ {r} : Asked(q, "change")' =>
              IF doing'[q].me = doing'[q].member
              THEN doing'[q].role \in {None, "owner"} /\ doing'[q].active # FALSE
              ELSE doing'[q].me \in Owners'
        BY <3>1, <3>3 DEF ChangedByOwners
      <4>2. IF doing'[r].me = doing'[r].member
            THEN doing'[r].role \in {None, "owner"} /\ doing'[r].active # FALSE
            ELSE doing'[r].me \in Owners'
        <5>1. CASE me = m
          BY <3>3, <3>4, <5>1
        <5>2. CASE me # m
          <6>1. doing'[r].me # doing'[r].member
            BY <3>3, <5>2
          <6>2. doing'[r].me \in Owners'
            BY <2>1, <3>1, <3>3
          <6>3. QED
            BY <6>1, <6>2
        <5>3. QED
          BY <5>1, <5>2
      <4>3. QED
        BY <4>1, <4>2
    <3>6. \A q, p \in Requests :
            /\ Asked(q, "change")' /\ doing'[q].me # doing'[q].member
            /\ Asked(p, "change")' /\ doing'[p].me # doing'[p].member
            => doing'[q].me # doing'[p].member
      BY <3>1, <3>2, <3>3 DEF ChangedByOwners
    <3>7. QED
      BY <3>1, <3>5, <3>6 DEF ChangedByOwners
  <2>4. QED
    BY <2>3
<1>5. ASSUME NEW r \in Requests, ChangeMember(r)
      PROVE  (mutual \/ ChangedByOwners)'
  <2> DEFINE m == doing[r].member
             oneRow == [role |-> IF doing[r].role = None THEN member[m].role ELSE doing[r].role,
                     active |-> IF doing[r].active = None THEN member[m].active ELSE doing[r].active]
  <2>1. Finish(r) /\ mutual' = mutual /\ Asked(r, "change")
    BY <1>5 DEF ChangeMember
  <2>2. /\ doing[r] \in Changes /\ member' = [member EXCEPT ![m] = oneRow]
        /\ member'[m] \in [role : Roles, active : BOOLEAN]
    BY <1>5, ChangedIs
  <2>3. m \in Members /\ member'[m] = oneRow /\ \A n \in Members \ {m} : member'[n] = member[n]
    BY <2>1, <2>2 DEF StaffTypes, Changes
  <2>4. member'[m] # None
    BY <2>2, StaffAssumption DEF Roles
  <2>5. CASE ~mutual /\ doing[r].me = m
    <3>1. ChangedByOwners /\ doing[r].role \in {None, "owner"} /\ doing[r].active \in {TRUE, None}
      BY <2>1, <2>2, <2>5 DEF ChangedByOwners, Changes
    <3>2. m \in Owners => member'[m].role = "owner" /\ member'[m].active = TRUE
      <4>1. m \in Owners => member[m].role = "owner" /\ member[m].active = TRUE
        BY DEF Owners, Active, StaffTypes
      <4>2. doing[r].role \in {None, "owner"} => oneRow.role \in {member[m].role, "owner"}
        OBVIOUS
      <4>3. doing[r].active \in {TRUE, None} => oneRow.active \in {member[m].active, TRUE}
        OBVIOUS
      <4>4. QED
        BY <2>3, <3>1, <4>1, <4>2, <4>3
    <3>3. Owners \subseteq Owners'
      BY <2>3, <2>4, <3>2 DEF Owners, Active
    <3>4. QED
      BY <2>1, <3>1, <3>3, OthersAsk DEF ChangedByOwners
  <2>6. CASE ~mutual /\ doing[r].me # m
    <3>1. ChangedByOwners /\ doing[r].me \in Owners
      BY <2>1, <2>6 DEF ChangedByOwners
    <3>2. Owners \ {m} \subseteq Owners'
      BY <2>3, <2>4 DEF Owners, Active
    <3>3. doing[r].me \in Owners'
      BY <2>6, <3>1, <3>2
    <3>4. \A q \in Requests : Asked(q, "change") /\ doing[q].me # doing[q].member
            => doing[q].me \in Owners'
      BY <2>1, <2>6, <3>1, <3>2 DEF ChangedByOwners
    <3>5. QED
      BY <2>1, <3>1, <3>3, <3>4, OthersAsk, ZenonT(60) DEF ChangedByOwners
  <2>7. QED
    BY <2>1, <2>5, <2>6
<1>6. CASE UNCHANGED <<deskVars, staffVars>>
  BY <1>6 DEF deskVars, staffVars, ChangedByOwners, Owners, Active, Asked
<1>7. QED
  BY <1>1, <1>2, <1>3, <1>4, <1>5, <1>6 DEF StaffNext

\* Whatever overlaps with what, the plan's seats are kept to unless bringing
\* somebody back met another request that takes a seat (staff.service.ts counts
\* those outside the serializable transaction), and an owner is left unless two
\* were changed by each other at once.
THEOREM StaffStaysManaged == StaffSpec => []StaffStayManaged
<1>1. DeskInit /\ StaffInit => StaffInv
  <2> SUFFICES ASSUME DeskInit, StaffInit PROVE StaffInv
    OBVIOUS
  <2>1. \A r \in Requests : \A kind : ~Asked(r, kind)
    BY DEF DeskInit, Asked
  <2>2. StaffTypes
    <3>1. \A m \in Members : member[m] \in [role : Roles, active : BOOLEAN] \cup {None}
      BY StaffAssumption DEF StaffInit, Roles
    <3>2. member \in [Members -> [role : Roles, active : BOOLEAN] \cup {None}]
      BY <3>1 DEF StaffInit
    <3>3. QED
      BY <2>1, <3>2 DEF StaffTypes, StaffInit, DeskInit
  <2>3. Active = {m \in Members : FirstStaff[m] # None}
    <3>1. \A m \in Members : FirstStaff[m] # None =>
            [role |-> FirstStaff[m], active |-> TRUE] \in [role : Roles, active : BOOLEAN]
      BY StaffAssumption DEF Roles
    <3>2. \A m \in Members : FirstStaff[m] # None => member[m] # None /\ member[m].active = TRUE
      BY <3>1, StaffAssumption DEF StaffInit, Roles
    <3>3. \A m \in Members : FirstStaff[m] = None => member[m] = None
      BY DEF StaffInit
    <3>4. QED
      BY <3>2, <3>3 DEF Active
  <2>4. Owners # {}
    BY <2>3, StaffAssumption DEF StaffInit, Owners
  <2>5. QED
    BY <2>1, <2>2, <2>3, <2>4, StaffAssumption DEF StaffInv, SeatsKept, ChangedByOwners, BringsBack
<1>2. StaffInv /\ [StaffNext]_<<deskVars, staffVars>> => StaffInv'
  BY StaffTypesStay, SeatsStay, OwnersStay DEF StaffInv
<1>3. StaffInv => StaffStayManaged
  BY DEF StaffInv, SeatsKept, ChangedByOwners, StaffStayManaged, SeatsWithinPlan, OwnerRemains
<1>4. QED
  BY <1>1, <1>2, <1>3, PTL DEF StaffSpec

-----------------------------------------------------------------------------
(* The lists with a default. *)

Kinds == {"tier", "location", "account"}
Flags == [live : BOOLEAN, default : BOOLEAN]
ListAsks ==
  [kind : {"clear"}, keep : Entries] \cup [kind : {"revive", "delete", "pay"}, entry : Entries]
  \cup [kind : {"update"}, entry : Entries, default : BOOLEAN \cup {None}]
  \cup [kind : {"move"}, entry : Entries, goods : Goods, quantity : {-1, 1}]

ListTypes ==
  /\ entry \in [Entries -> Flags \cup {None}]
  /\ goods \in [Entries -> [Goods -> Int]]
  /\ bankedInto \subseteq Entries /\ cut \in BOOLEAN /\ overlapped \in BOOLEAN
  /\ doing \in [Requests -> ListAsks \cup {None}]
  /\ \A r \in Requests : /\ Asked(r, "clear") => entry[doing[r].keep] # None
                         /\ \A kind \in {"revive", "delete", "update"} :
                              Asked(r, kind) => entry[doing[r].entry] # None

\* A second default is about to be cleared.
OneOrClearing ==
  \A kind \in Kinds : Clearing(kind) \/ \A e, f \in Defaults(kind) : e = f

\* Goods are at locations and payments name accounts.
InTheirPlaces ==
  /\ \A e \in Entries : KindOf[e] # "location" => \A g \in Goods : goods[e][g] = 0
  /\ \A e \in bankedInto : KindOf[e] = "account"
  /\ \A r \in Requests : /\ Asked(r, "move") => KindOf[doing[r].entry] = "location"
                         /\ Asked(r, "pay") => KindOf[doing[r].entry] = "account"

\* While requests do not overlap, one is under way at most and finds what it read.
OneAtATime == \A q, r \in Busy : q = r
AsRead ==
  \A r \in Requests :
    /\ \A kind \in {"update", "delete", "move", "pay"} : Asked(r, kind) => Live(doing[r].entry)
    /\ Asked(r, "delete") => Removable(doing[r].entry)
    /\ Asked(r, "clear") => Live(doing[r].keep) /\ entry[doing[r].keep].default

Standing ==
  \A kind \in {"tier", "location"} \ switchedOff :
    \/ FirstDefaults \cap {e \in Entries : KindOf[e] = kind} = {}
    \/ \E e \in Defaults(kind) : Live(e)

HeldAt(e) == MapThenSumSet(LAMBDA g : goods[e][g], Goods)
NothingBehind ==
  \A e \in Entries : entry[e] # None /\ ~entry[e].live => e \notin bankedInto /\ HeldAt(e) = 0

ListsInv ==
  /\ ListTypes /\ InTheirPlaces /\ (cut \/ OneOrClearing)
  /\ overlapped \/ (OneAtATime /\ AsRead /\ Standing /\ NothingBehind)

LEMMA FlagWrites ==
  ASSUME NEW oneRow \in Flags, NEW b \in BOOLEAN
  PROVE  /\ [oneRow EXCEPT !.live = b] \in Flags /\ [oneRow EXCEPT !.live = b] # None
         /\ [oneRow EXCEPT !.live = b].live = b /\ [oneRow EXCEPT !.live = b].default = oneRow.default
         /\ [oneRow EXCEPT !.default = b] \in Flags /\ [oneRow EXCEPT !.default = b] # None
         /\ [oneRow EXCEPT !.default = b].default = b /\ [oneRow EXCEPT !.default = b].live = oneRow.live
  BY ListsAssumption DEF Flags

LEMMA AsksAre ==
  ASSUME ListTypes, NEW r \in Requests
  PROVE  /\ Asked(r, "clear") => doing[r].keep \in Entries /\ entry[doing[r].keep] \in Flags
         /\ \A kind \in {"revive", "delete", "pay", "update", "move"} :
              Asked(r, kind) => doing[r].entry \in Entries
         /\ \A kind \in {"revive", "delete", "update"} :
              Asked(r, kind) => entry[doing[r].entry] \in Flags
         /\ Asked(r, "update") => doing[r].default \in BOOLEAN \cup {None}
         /\ Asked(r, "move") => doing[r].goods \in Goods /\ doing[r].quantity \in Int
<1>1. Asked(r, "clear") => doing[r] \in [kind : {"clear"}, keep : Entries]
  BY DEF ListTypes, ListAsks, Asked
<1>2. \A kind \in {"revive", "delete", "pay"} :
        Asked(r, kind) => doing[r] \in [kind : {"revive", "delete", "pay"}, entry : Entries]
  BY DEF ListTypes, ListAsks, Asked
<1>3. Asked(r, "update") =>
        doing[r] \in [kind : {"update"}, entry : Entries, default : BOOLEAN \cup {None}]
  BY DEF ListTypes, ListAsks, Asked
<1>4. Asked(r, "move") =>
        doing[r] \in [kind : {"move"}, entry : Entries, goods : Goods, quantity : {-1, 1}]
  BY DEF ListTypes, ListAsks, Asked
<1>5. \A kind \in {"revive", "delete", "update"} :
        Asked(r, kind) => entry[doing[r].entry] # None /\ doing[r].entry \in Entries
  BY <1>2, <1>3 DEF ListTypes
<1>6. QED
  BY <1>1, <1>2, <1>3, <1>4, <1>5 DEF ListTypes

\* What a request finds before it asks for more.
FoundFor(r, ask) ==
  /\ Take(r, ask) /\ UNCHANGED listsVars
  /\ ask \in ListAsks /\ ask.kind # "clear" /\ entry[ask.entry] # None
  /\ ask.kind # "revive" => Live(ask.entry)
  /\ ask.kind = "delete" => Removable(ask.entry)
  /\ ask.kind = "move" => KindOf[ask.entry] = "location"
  /\ ask.kind = "pay" => KindOf[ask.entry] = "account"

\* The flags of an entry after a write of one of them.
Rewritten(x, isLive, isDefault) ==
  /\ entry' \in [Entries -> Flags \cup {None}]
  /\ \A e \in Entries \ {x} : entry'[e] = entry[e]
  /\ entry'[x] # None /\ entry'[x].live = isLive /\ entry'[x].default = isDefault

LEMMA FindsAre ==
  ASSUME ListTypes, NEW r \in Requests, NEW e \in Entries,
         \/ \E default \in BOOLEAN \cup {None} : FindToUpdate(r, e, default)
         \/ FindBuried(r, e) \/ FindToDelete(r, e) \/ ChooseAccount(r, e)
         \/ \E g \in Goods, q \in {-1, 1} : ChoosePlace(r, e, g, q)
  PROVE  \E ask : FoundFor(r, ask)
<1>1. ASSUME NEW default \in BOOLEAN \cup {None}, FindToUpdate(r, e, default)
      PROVE  FoundFor(r, [kind |-> "update", entry |-> e, default |-> default])
  BY <1>1 DEF FindToUpdate, FoundFor, ListAsks, Live
<1>2. ASSUME FindBuried(r, e)
      PROVE  FoundFor(r, [kind |-> "revive", entry |-> e])
  BY <1>2 DEF FindBuried, FoundFor, ListAsks
<1>3. ASSUME FindToDelete(r, e)
      PROVE  FoundFor(r, [kind |-> "delete", entry |-> e])
  BY <1>3 DEF FindToDelete, FoundFor, ListAsks, Live
<1>4. ASSUME ChooseAccount(r, e)
      PROVE  FoundFor(r, [kind |-> "pay", entry |-> e])
  BY <1>4 DEF ChooseAccount, FoundFor, ListAsks, Live
<1>5. ASSUME NEW g \in Goods, NEW q \in {-1, 1}, ChoosePlace(r, e, g, q)
      PROVE  FoundFor(r, [kind |-> "move", entry |-> e, goods |-> g, quantity |-> q])
  <2>1. Live(e)
    BY <1>5 DEF ChoosePlace, DefaultPlaces
  <2>2. QED
    BY <1>5, <2>1 DEF ChoosePlace, FoundFor, ListAsks, Live
<1>6. QED
  BY <1>1, <1>2, <1>3, <1>4, <1>5

LEMMA InsertIs ==
  ASSUME ListTypes, NEW r \in Requests, NEW e \in Entries, NEW default \in BOOLEAN,
         Insert(r, e, default)
  PROVE  /\ Rewritten(e, TRUE, default) /\ doing[r] = None /\ entry[e] = None
         /\ default => doing' = [doing EXCEPT ![r] = [kind |-> "clear", keep |-> e]]
         /\ ~default => doing' = [doing EXCEPT ![r] = None]
<1> DEFINE oneRow == [live |-> TRUE, default |-> default]
<1>1. oneRow \in Flags /\ oneRow # None /\ oneRow.live = TRUE /\ oneRow.default = default
  <2>1. oneRow \in Flags
    BY DEF Flags
  <2>2. QED
    BY <2>1, ListsAssumption DEF Flags
<1>2. entry' = [entry EXCEPT ![e] = oneRow]
  BY DEF Insert
<1> HIDE DEF oneRow
<1>3. Rewritten(e, TRUE, default)
  BY <1>1, <1>2 DEF ListTypes, Rewritten
<1>4. QED
  BY <1>3 DEF Insert, ThenClear, Rewritten

LEMMA LiveWritten ==
  ASSUME ListTypes, NEW x \in Entries, entry[x] \in Flags, NEW b \in BOOLEAN,
         entry' = [entry EXCEPT ![x].live = b]
  PROVE  Rewritten(x, b, entry[x].default)
<1> DEFINE oneRow == [entry[x] EXCEPT !.live = b]
<1>1. oneRow \in Flags /\ oneRow # None /\ oneRow.live = b /\ oneRow.default = entry[x].default
  <2>1. oneRow \in Flags /\ oneRow.live = b /\ oneRow.default = entry[x].default
    BY DEF Flags
  <2>2. QED
    BY <2>1, ListsAssumption DEF Flags
<1>2. entry' = [entry EXCEPT ![x] = oneRow]
  OBVIOUS
<1> HIDE DEF oneRow
<1>3. QED
  BY <1>1, <1>2 DEF ListTypes, Rewritten

LEMMA DefaultWritten ==
  ASSUME ListTypes, NEW x \in Entries, entry[x] \in Flags, NEW b \in BOOLEAN,
         entry' = [entry EXCEPT ![x].default = b]
  PROVE  Rewritten(x, entry[x].live, b)
<1> DEFINE oneRow == [entry[x] EXCEPT !.default = b]
<1>1. oneRow \in Flags /\ oneRow # None /\ oneRow.live = entry[x].live /\ oneRow.default = b
  <2>1. oneRow \in Flags /\ oneRow.live = entry[x].live /\ oneRow.default = b
    BY DEF Flags
  <2>2. QED
    BY <2>1, ListsAssumption DEF Flags
<1>2. entry' = [entry EXCEPT ![x] = oneRow]
  OBVIOUS
<1> HIDE DEF oneRow
<1>3. QED
  BY <1>1, <1>2 DEF ListTypes, Rewritten

LEMMA UpdateIs ==
  ASSUME ListTypes, NEW r \in Requests, Update(r)
  PROVE  LET x == doing[r].entry
         IN  /\ Asked(r, "update") /\ x \in Entries /\ entry[x] \in Flags /\ Written(doing[r]) \in BOOLEAN
             /\ Rewritten(x, entry[x].live, Written(doing[r]))
             /\ Written(doing[r]) => doing' = [doing EXCEPT ![r] = [kind |-> "clear", keep |-> x]]
             /\ ~Written(doing[r]) => doing' = [doing EXCEPT ![r] = None]
<1> DEFINE x == doing[r].entry
<1>1. /\ Asked(r, "update") /\ x \in Entries /\ entry[x] \in Flags
      /\ doing[r].default \in BOOLEAN \cup {None}
  BY AsksAre DEF Update
<1>2. Written(doing[r]) \in BOOLEAN
  BY <1>1 DEF Written, Flags
<1>3. Rewritten(x, entry[x].live, Written(doing[r]))
  BY <1>1, <1>2, DefaultWritten DEF Update
<1>4. QED
  BY <1>1, <1>2, <1>3 DEF Update, ThenClear, Rewritten

LEMMA ClearIs ==
  ASSUME ListTypes, NEW r \in Requests, ClearOtherDefaults(r)
  PROVE  LET x == doing[r].keep
         IN  /\ Asked(r, "clear") /\ x \in Entries /\ entry[x] \in Flags
             /\ entry' \in [Entries -> Flags \cup {None}] /\ entry'[x] = entry[x]
             /\ \A e \in Entries : entry'[e] = None <=> entry[e] = None
             /\ \A e \in Entries : entry[e] # None => entry'[e].live = entry[e].live
             /\ \A e \in Entries \ {x} : entry[e] # None =>
                  entry'[e].default = IF KindOf[e] = KindOf[x] THEN FALSE ELSE entry[e].default
<1> DEFINE x == doing[r].keep
<1>1. Asked(r, "clear") /\ x \in Entries /\ entry[x] \in Flags
  BY AsksAre DEF ClearOtherDefaults
<1>2. entry' = [e \in Entries |->
        IF e # x /\ KindOf[e] = KindOf[x] /\ entry[e] # None THEN [entry[e] EXCEPT !.default = FALSE]
        ELSE entry[e]]
  BY <1>1 DEF ClearOtherDefaults, Alike
<1>3. ASSUME NEW e \in Entries
      PROVE  /\ entry'[e] \in Flags \cup {None} /\ (entry'[e] = None <=> entry[e] = None)
             /\ entry[e] # None => entry'[e].live = entry[e].live
             /\ e # x /\ entry[e] # None =>
                  entry'[e].default = IF KindOf[e] = KindOf[x] THEN FALSE ELSE entry[e].default
  <2>1. CASE e # x /\ KindOf[e] = KindOf[x] /\ entry[e] # None
    <3>1. entry[e] \in Flags /\ entry'[e] = [entry[e] EXCEPT !.default = FALSE]
      BY <1>2, <2>1 DEF ListTypes
    <3>2. /\ entry'[e] \in Flags /\ entry'[e] # None
          /\ entry'[e].default = FALSE /\ entry'[e].live = entry[e].live
      <4> DEFINE oneRow == [entry[e] EXCEPT !.default = FALSE]
      <4>1. /\ oneRow \in Flags /\ oneRow # None /\ oneRow.default = FALSE /\ oneRow.live = entry[e].live
        BY <3>1, FlagWrites, FALSE \in BOOLEAN
      <4>2. entry'[e] = oneRow
        BY <3>1
      <4> HIDE DEF oneRow
      <4>3. QED
        BY <4>1, <4>2
    <3>3. QED
      BY <2>1, <3>2
  <2>2. CASE ~(e # x /\ KindOf[e] = KindOf[x] /\ entry[e] # None)
    BY <1>2, <2>2 DEF ListTypes
  <2>3. QED
    BY <2>1, <2>2
<1>4. entry' \in [Entries -> Flags \cup {None}]
  BY <1>2, <1>3
<1>5. entry'[x] = entry[x]
  BY <1>1, <1>2
<1>6. QED
  BY <1>1, <1>3, <1>4, <1>5

\* Every step of the lists: something found, something written, or what is
\* recorded against an entry.
LEMMA ListsSteps ==
  ASSUME ListTypes, ListsNext
  PROVE  \E r \in Requests :
           \/ \E e \in Entries, default \in BOOLEAN : Insert(r, e, default)
           \/ \E ask : FoundFor(r, ask)
           \/ Revive(r) \/ Update(r) \/ ClearOtherDefaults(r) \/ CutShort(r) \/ Delete(r)
           \/ MoveGoods(r) \/ RecordPaymentInto(r)
  BY FindsAre DEF ListsNext

\* Of the others nothing changes in what they ask, of the one that ends all.
LEMMA WhoAsks ==
  ASSUME ListTypes, NEW r \in Requests, NEW ask, doing' = [doing EXCEPT ![r] = ask]
  PROVE  /\ \A q \in Requests \ {r} : /\ doing'[q] = doing[q]
                                      /\ \A kind : Asked(q, kind)' <=> Asked(q, kind)
         /\ doing'[r] = ask /\ (ask = None => \A kind : ~Asked(r, kind)')
         /\ \A kind : Asked(r, kind)' => ask.kind = kind
  BY DEF ListTypes, Asked

\* What was asked about an entry that stays is asked still.
LEMMA TypesFromParts ==
  ASSUME ListTypes, NEW r \in Requests, NEW ask \in ListAsks \cup {None},
         doing' = [doing EXCEPT ![r] = ask],
         entry' \in [Entries -> Flags \cup {None}],
         \A e \in Entries : entry[e] # None => entry'[e] # None,
         ask # None /\ ask.kind = "clear" => entry'[ask.keep] # None,
         ask # None /\ ask.kind \in {"revive", "delete", "update"} => entry'[ask.entry] # None,
         goods' \in [Entries -> [Goods -> Int]], bankedInto' \subseteq Entries,
         cut' \in BOOLEAN, overlapped' \in BOOLEAN
  PROVE  ListTypes'
<1>1. doing' \in [Requests -> ListAsks \cup {None}]
  BY DEF ListTypes
<1>2. ASSUME NEW q \in Requests
      PROVE  /\ Asked(q, "clear")' => entry'[doing'[q].keep] # None
             /\ \A kind \in {"revive", "delete", "update"} :
                  Asked(q, kind)' => entry'[doing'[q].entry] # None
  <2>1. CASE q = r
    BY <2>1 DEF Asked, ListTypes
  <2>2. CASE q # r
    <3>1. doing'[q] = doing[q] /\ \A kind : Asked(q, kind)' <=> Asked(q, kind)
      BY <2>2, WhoAsks
    <3>2. /\ Asked(q, "clear") => doing[q].keep \in Entries /\ entry[doing[q].keep] # None
          /\ \A kind \in {"revive", "delete", "update"} :
               Asked(q, kind) => doing[q].entry \in Entries /\ entry[doing[q].entry] # None
      BY AsksAre DEF ListTypes
    <3>3. QED
      BY <3>1, <3>2
  <2>3. QED
    BY <2>1, <2>2
<1>3. QED
  BY <1>1, <1>2 DEF ListTypes

LEMMA ListTypesStay ==
  ASSUME ListTypes, [ListsNext]_<<deskVars, listsVars>>
  PROVE  ListTypes'
<1>1. ASSUME NEW r \in Requests, NEW e \in Entries, NEW default \in BOOLEAN, Insert(r, e, default)
      PROVE  ListTypes'
  <2> DEFINE ask == IF default THEN [kind |-> "clear", keep |-> e] ELSE None
  <2>1. doing' = [doing EXCEPT ![r] = ask] /\ Rewritten(e, TRUE, default)
    <3>1. Rewritten(e, TRUE, default)
      BY <1>1, InsertIs
    <3>2. CASE default = TRUE
      BY <1>1, <3>1, <3>2, InsertIs
    <3>3. CASE default = FALSE
      BY <1>1, <3>1, <3>3, InsertIs
    <3>4. QED
      BY <3>1, <3>2, <3>3
  <2>2. ask \in ListAsks \cup {None} /\ (ask # None => ask.kind = "clear" /\ ask.keep = e)
    BY DEF ListAsks
  <2>3. overlapped' \in BOOLEAN /\ UNCHANGED <<goods, bankedInto, cut>>
    BY <1>1 DEF Insert, ListTypes
  <2> HIDE DEF ask
  <2>4. QED
    BY <2>1, <2>2, <2>3, TypesFromParts DEF Rewritten, ListTypes
<1>2. ASSUME NEW r \in Requests, NEW ask, FoundFor(r, ask)
      PROVE  ListTypes'
  <2>1. /\ ask \in ListAsks /\ doing' = [doing EXCEPT ![r] = ask] /\ ask.kind # "clear"
        /\ entry[ask.entry] # None /\ overlapped' \in BOOLEAN
        /\ UNCHANGED <<entry, goods, bankedInto, cut>>
    BY <1>2 DEF FoundFor, Take, listsVars, ListTypes
  <2>2. QED
    BY <2>1, TypesFromParts DEF ListTypes
<1>3. ASSUME NEW r \in Requests, Revive(r) \/ Delete(r)
      PROVE  ListTypes'
  <2> DEFINE x == doing[r].entry
  <2>1. x \in Entries /\ entry[x] \in Flags
    BY <1>3, AsksAre DEF Revive, Delete
  <2>2. \E b \in BOOLEAN : entry' = [entry EXCEPT ![x].live = b]
    BY <1>3 DEF Revive, Delete
  <2>3. \E b \in BOOLEAN : Rewritten(x, b, entry[x].default)
    BY <2>1, <2>2, LiveWritten
  <2>4. doing' = [doing EXCEPT ![r] = None] /\ UNCHANGED <<goods, bankedInto, cut, overlapped>>
    BY <1>3 DEF Revive, Delete, Finish
  <2>5. QED
    BY <2>1, <2>3, <2>4, TypesFromParts DEF Rewritten, ListTypes
<1>4. ASSUME NEW r \in Requests, Update(r)
      PROVE  ListTypes'
  <2> DEFINE x == doing[r].entry
             ask == IF Written(doing[r]) THEN [kind |-> "clear", keep |-> x] ELSE None
  <2>1. /\ x \in Entries /\ doing' = [doing EXCEPT ![r] = ask]
        /\ Rewritten(x, entry[x].live, Written(doing[r]))
    BY <1>4, UpdateIs
  <2>2. ask \in ListAsks \cup {None} /\ (ask # None => ask.kind = "clear" /\ ask.keep = x)
    BY <2>1 DEF ListAsks
  <2>3. UNCHANGED <<goods, bankedInto, cut, overlapped>>
    BY <1>4 DEF Update
  <2> HIDE DEF ask, x
  <2>4. /\ entry' \in [Entries -> Flags \cup {None}]
        /\ \A e \in Entries : entry[e] # None => entry'[e] # None
        /\ entry'[x] # None
    BY <2>1 DEF Rewritten
  <2>5. ask # None => ask.kind = "clear" /\ entry'[ask.keep] # None
    BY <2>2, <2>4
  <2>6. /\ goods' \in [Entries -> [Goods -> Int]] /\ bankedInto' \subseteq Entries
        /\ cut' \in BOOLEAN /\ overlapped' \in BOOLEAN
    BY <2>3 DEF ListTypes
  <2>7. QED
    BY <2>1, <2>2, <2>4, <2>5, <2>6, TypesFromParts
<1>5. ASSUME NEW r \in Requests, ClearOtherDefaults(r)
      PROVE  ListTypes'
  <2>1. doing' = [doing EXCEPT ![r] = None] /\ UNCHANGED <<goods, bankedInto, cut, overlapped>>
    BY <1>5 DEF ClearOtherDefaults, Finish
  <2>2. QED
    BY <1>5, <2>1, ClearIs, TypesFromParts DEF ListTypes
<1>6. ASSUME NEW r \in Requests, CutShort(r) \/ RecordPaymentInto(r)
      PROVE  ListTypes'
  <2>1. doing' = [doing EXCEPT ![r] = None] /\ UNCHANGED <<goods, entry, overlapped>>
    BY <1>6 DEF CutShort, RecordPaymentInto, Finish
  <2>2. bankedInto' \subseteq Entries /\ cut' \in BOOLEAN
    BY <1>6, AsksAre DEF CutShort, RecordPaymentInto, ListTypes
  <2>3. QED
    BY <2>1, <2>2, TypesFromParts DEF ListTypes
<1>7. ASSUME NEW r \in Requests, MoveGoods(r)
      PROVE  ListTypes'
  <2>1. /\ doing[r].entry \in Entries /\ doing[r].goods \in Goods /\ doing[r].quantity \in Int
    BY <1>7, AsksAre DEF MoveGoods
  <2>2. /\ doing' = [doing EXCEPT ![r] = None] /\ UNCHANGED <<entry, bankedInto, cut, overlapped>>
        /\ goods' = [goods EXCEPT ![doing[r].entry][doing[r].goods] = @ + doing[r].quantity]
    BY <1>7 DEF MoveGoods, Finish
  <2>3. goods' \in [Entries -> [Goods -> Int]]
    BY <2>1, <2>2 DEF ListTypes
  <2>4. QED
    BY <2>2, <2>3, TypesFromParts DEF ListTypes
<1>8. CASE UNCHANGED <<deskVars, listsVars>>
  BY <1>8 DEF deskVars, listsVars, ListTypes, Asked
<1>9. QED
  BY <1>1, <1>2, <1>3, <1>4, <1>5, <1>6, <1>7, <1>8, ListsSteps

\* A list whose flags do not grow, and whose clearing goes on, is as good as it was.
LEMMA StillOne ==
  ASSUME NEW kind \in Kinds, Clearing(kind) => Clearing(kind)', Defaults(kind)' \subseteq Defaults(kind),
         Clearing(kind) \/ \A e, f \in Defaults(kind) : e = f
  PROVE  (Clearing(kind) \/ \A e, f \in Defaults(kind) : e = f)'
  OBVIOUS

LEMMA ClearingGoesOn ==
  ASSUME ListTypes, NEW r \in Requests, NEW ask, doing' = [doing EXCEPT ![r] = ask], ~Asked(r, "clear")
  PROVE  \A kind \in Kinds : Clearing(kind) => Clearing(kind)'
<1> SUFFICES ASSUME NEW kind \in Kinds, NEW q \in Requests, Asked(q, "clear"),
                    KindOf[doing[q].keep] = kind
             PROVE  Clearing(kind)'
  BY DEF Clearing
<1>1. q # r /\ doing'[q] = doing[q] /\ Asked(q, "clear")'
  BY WhoAsks
<1>2. QED
  BY <1>1 DEF Clearing

\* One write that sets a flag asks for the others to be cleared.
LEMMA WriteThenClear ==
  ASSUME ListTypes, NEW r \in Requests, NEW x \in Entries, NEW default \in BOOLEAN,
         \E isLive \in BOOLEAN : Rewritten(x, isLive, default), ~Asked(r, "clear"), OneOrClearing,
         default => doing' = [doing EXCEPT ![r] = [kind |-> "clear", keep |-> x]],
         ~default => doing' = [doing EXCEPT ![r] = None]
  PROVE  OneOrClearing'
<1>1. CASE default = TRUE
  <2>1. doing' = [doing EXCEPT ![r] = [kind |-> "clear", keep |-> x]]
    BY <1>1
  <2>2. \A kind \in Kinds : Clearing(kind) => Clearing(kind)'
    BY <2>1, ClearingGoesOn
  <2>3. Asked(r, "clear")' /\ doing'[r].keep = x
    <3>1. [kind |-> "clear", keep |-> x] \in [kind : {"clear"}, keep : Entries]
      OBVIOUS
    <3>2. doing'[r] = [kind |-> "clear", keep |-> x]
      BY <2>1 DEF ListTypes
    <3>3. QED
      BY <3>1, <3>2, ListsAssumption DEF Asked
  <2>4. \A kind \in Kinds \ {KindOf[x]} : Defaults(kind)' \subseteq Defaults(kind)
    BY DEF Rewritten, Defaults
  <2>5. Clearing(KindOf[x])'
    BY <2>3 DEF Clearing
  <2>6. QED
    BY <2>2, <2>4, <2>5, StillOne DEF OneOrClearing
<1>2. CASE default = FALSE
  <2>1. doing' = [doing EXCEPT ![r] = None]
    BY <1>2
  <2>2. \A kind \in Kinds : Clearing(kind) => Clearing(kind)'
    BY <2>1, ClearingGoesOn
  <2>3. \A kind \in Kinds : Defaults(kind)' \subseteq Defaults(kind)
    BY <1>2 DEF Rewritten, Defaults
  <2>4. QED
    BY <2>2, <2>3, StillOne DEF OneOrClearing
<1>3. QED
  BY <1>1, <1>2

\* Whoever sets a default clears the others or is about to.
LEMMA OneOrClearingStays ==
  ASSUME ListTypes, [ListsNext]_<<deskVars, listsVars>>, cut \/ OneOrClearing
  PROVE  (cut \/ OneOrClearing)'
<1>1. ASSUME NEW r \in Requests, NEW e \in Entries, NEW default \in BOOLEAN, Insert(r, e, default), OneOrClearing
      PROVE  OneOrClearing'
  <2>1. /\ ~Asked(r, "clear") /\ \E isLive \in BOOLEAN : Rewritten(e, isLive, default)
        /\ default => doing' = [doing EXCEPT ![r] = [kind |-> "clear", keep |-> e]]
        /\ ~default => doing' = [doing EXCEPT ![r] = None]
    BY <1>1, InsertIs, ZenonT(60) DEF Asked
  <2>2. QED
    BY <1>1, <2>1, WriteThenClear
<1>2. ASSUME NEW r \in Requests, NEW ask, FoundFor(r, ask), OneOrClearing
      PROVE  OneOrClearing'
  <2>1. ~Asked(r, "clear") /\ doing' = [doing EXCEPT ![r] = ask] /\ entry' = entry
    BY <1>2 DEF FoundFor, Take, Asked, listsVars
  <2>2. \A kind \in Kinds : Clearing(kind) => Clearing(kind)'
    BY <2>1, ClearingGoesOn
  <2>3. QED
    BY <1>2, <2>1, <2>2, StillOne DEF OneOrClearing, Defaults
<1>3. ASSUME NEW r \in Requests, Revive(r) \/ Delete(r), OneOrClearing
      PROVE  OneOrClearing'
  <2> DEFINE x == doing[r].entry
  <2>1. ~Asked(r, "clear") /\ x \in Entries /\ entry[x] \in Flags
    BY <1>3, AsksAre DEF Revive, Delete, Asked
  <2>2. \E b \in BOOLEAN : entry' = [entry EXCEPT ![x].live = b]
    BY <1>3 DEF Revive, Delete
  <2>3. \E b \in BOOLEAN : Rewritten(x, b, entry[x].default)
    BY <2>1, <2>2, LiveWritten
  <2>4. doing' = [doing EXCEPT ![r] = None]
    BY <1>3 DEF Revive, Delete, Finish
  <2>5. \A kind \in Kinds : Defaults(kind)' \subseteq Defaults(kind)
    BY <2>1, <2>3, ListsAssumption DEF Rewritten, Defaults, Flags
  <2>6. \A kind \in Kinds : Clearing(kind) => Clearing(kind)'
    BY <2>1, <2>4, ClearingGoesOn
  <2>7. QED
    BY <1>3, <2>5, <2>6, StillOne DEF OneOrClearing
<1>4. ASSUME NEW r \in Requests, Update(r), OneOrClearing
      PROVE  OneOrClearing'
  <2>1. PICK x \in Entries : x = doing[r].entry
    BY <1>4, UpdateIs
  <2>2. /\ ~Asked(r, "clear") /\ Written(doing[r]) \in BOOLEAN
        /\ \E isLive \in BOOLEAN : Rewritten(x, isLive, Written(doing[r]))
        /\ Written(doing[r]) => doing' = [doing EXCEPT ![r] = [kind |-> "clear", keep |-> x]]
        /\ ~Written(doing[r]) => doing' = [doing EXCEPT ![r] = None]
    BY <1>4, <2>1, UpdateIs DEF Asked, Flags
  <2>3. QED
    BY <1>4, <2>2, WriteThenClear
<1>5. ASSUME NEW r \in Requests, ClearOtherDefaults(r), OneOrClearing
      PROVE  OneOrClearing'
  <2>1. PICK x \in Entries : x = doing[r].keep
    BY <1>5, ClearIs
  <2>2. /\ Asked(r, "clear")
        /\ \A e \in Entries : entry'[e] = None <=> entry[e] = None
        /\ entry'[x] = entry[x]
        /\ \A e \in Entries \ {x} : entry[e] # None =>
             entry'[e].default = IF KindOf[e] = KindOf[x] THEN FALSE ELSE entry[e].default
    BY <1>5, <2>1, ClearIs
  <2>3. doing' = [doing EXCEPT ![r] = None]
    BY <1>5 DEF ClearOtherDefaults, Finish
  <2>4. Defaults(KindOf[x])' \subseteq {x}
    BY <2>2 DEF Defaults
  <2>5. \A kind \in Kinds \ {KindOf[x]} : Defaults(kind)' \subseteq Defaults(kind)
    <3> SUFFICES ASSUME NEW kind \in Kinds \ {KindOf[x]}, NEW e \in Entries, KindOf[e] = kind,
                        entry'[e] # None, entry'[e].default
                 PROVE  entry[e] # None /\ entry[e].default
      BY DEF Defaults
    <3>1. CASE e = x
      BY <2>2, <3>1
    <3>2. CASE e # x
      BY <2>2, <3>2
    <3>3. QED
      BY <3>1, <3>2
  <2>6. ASSUME NEW kind \in Kinds \ {KindOf[x]}, Clearing(kind)
        PROVE  Clearing(kind)'
    <3>1. PICK q \in Requests : Asked(q, "clear") /\ KindOf[doing[q].keep] = kind
      BY <2>6 DEF Clearing
    <3>2. q # r
      BY <2>1, <3>1
    <3>3. doing'[q] = doing[q]
      BY <2>3, <3>2 DEF ListTypes
    <3>4. QED
      BY <3>1, <3>3 DEF Clearing, Asked
  <2>7. ASSUME NEW kind \in Kinds
        PROVE  (Clearing(kind) \/ \A e, f \in Defaults(kind) : e = f)'
    <3>1. CASE kind = KindOf[x]
      BY <2>4, <3>1
    <3>2. CASE kind # KindOf[x]
      BY <1>5, <2>5, <2>6, <3>2, StillOne DEF OneOrClearing
    <3>3. QED
      BY <3>1, <3>2
  <2>8. QED
    BY <2>7 DEF OneOrClearing
<1>6. ASSUME NEW r \in Requests, CutShort(r)
      PROVE  cut'
  BY <1>6 DEF CutShort
<1>7. ASSUME NEW r \in Requests, MoveGoods(r) \/ RecordPaymentInto(r), OneOrClearing
      PROVE  OneOrClearing'
  <2>1. ~Asked(r, "clear") /\ doing' = [doing EXCEPT ![r] = None] /\ entry' = entry
    BY <1>7 DEF MoveGoods, RecordPaymentInto, Finish, Asked
  <2>2. \A kind \in Kinds : Clearing(kind) => Clearing(kind)'
    BY <2>1, ClearingGoesOn
  <2>3. QED
    BY <1>7, <2>1, <2>2, StillOne DEF OneOrClearing, Defaults
<1>8. ASSUME UNCHANGED <<deskVars, listsVars>>, OneOrClearing
      PROVE  OneOrClearing'
  BY <1>8 DEF deskVars, listsVars, OneOrClearing, Clearing, Defaults, Asked
<1>9. cut => cut'
  <2>1. \A r \in Requests, e \in Entries, default \in BOOLEAN : Insert(r, e, default) => cut' = cut
    BY DEF Insert
  <2>2. \A r \in Requests : \A ask : FoundFor(r, ask) => cut' = cut
    BY DEF FoundFor, listsVars
  <2>3. \A r \in Requests : CutShort(r) => cut' = TRUE
    BY DEF CutShort
  <2>4. \A r \in Requests :
          \/ Revive(r) \/ Update(r) \/ ClearOtherDefaults(r) \/ Delete(r) \/ MoveGoods(r) \/ RecordPaymentInto(r)
          => cut' = cut
    BY DEF Revive, Update, ClearOtherDefaults, Delete, MoveGoods, RecordPaymentInto
  <2>5. UNCHANGED <<deskVars, listsVars>> => cut' = cut
    BY DEF listsVars
  <2>6. QED
    BY <2>1, <2>2, <2>3, <2>4, <2>5, ListsSteps
<1>10. QED
  BY <1>1, <1>2, <1>3, <1>4, <1>5, <1>6, <1>7, <1>8, <1>9, ListsSteps
\* Goods and payments go where their kind belongs.
LEMMA PlacesFromParts ==
  ASSUME ListTypes, InTheirPlaces, NEW r \in Requests, NEW ask, doing' = [doing EXCEPT ![r] = ask],
         ask # None => /\ ask.kind = "move" => KindOf[ask.entry] = "location"
                       /\ ask.kind = "pay" => KindOf[ask.entry] = "account",
         \A e \in Entries : KindOf[e] # "location" => \A g \in Goods : goods'[e][g] = 0,
         \A e \in bankedInto' : KindOf[e] = "account"
  PROVE  InTheirPlaces'
<1>1. ASSUME NEW q \in Requests
      PROVE  /\ Asked(q, "move")' => KindOf[doing'[q].entry] = "location"
             /\ Asked(q, "pay")' => KindOf[doing'[q].entry] = "account"
  <2>1. CASE q = r
    BY <2>1 DEF Asked, ListTypes
  <2>2. CASE q # r
    <3>1. doing'[q] = doing[q] /\ \A kind : Asked(q, kind)' <=> Asked(q, kind)
      BY <2>2, WhoAsks
    <3>2. QED
      BY <3>1 DEF InTheirPlaces
  <2>3. QED
    BY <2>1, <2>2
<1>2. QED
  BY <1>1 DEF InTheirPlaces

LEMMA InTheirPlacesStays ==
  ASSUME ListTypes, InTheirPlaces, [ListsNext]_<<deskVars, listsVars>>
  PROVE  InTheirPlaces'
<1>1. ASSUME NEW r \in Requests, NEW e \in Entries, NEW default \in BOOLEAN, Insert(r, e, default)
      PROVE  InTheirPlaces'
  <2>1. /\ default => doing' = [doing EXCEPT ![r] = [kind |-> "clear", keep |-> e]]
        /\ ~default => doing' = [doing EXCEPT ![r] = None]
    BY <1>1, InsertIs, ZenonT(60)
  <2>2. UNCHANGED <<goods, bankedInto>>
    BY <1>1 DEF Insert
  <2>3. QED
    BY <2>1, <2>2, PlacesFromParts DEF InTheirPlaces
<1>2. ASSUME NEW r \in Requests, NEW ask, FoundFor(r, ask)
      PROVE  InTheirPlaces'
  BY <1>2, PlacesFromParts DEF FoundFor, Take, listsVars, InTheirPlaces
<1>3. ASSUME NEW r \in Requests, Revive(r) \/ ClearOtherDefaults(r) \/ CutShort(r) \/ Delete(r)
      PROVE  InTheirPlaces'
  <2>1. doing' = [doing EXCEPT ![r] = None] /\ UNCHANGED <<goods, bankedInto>>
    BY <1>3 DEF Revive, ClearOtherDefaults, CutShort, Delete, Finish
  <2>2. QED
    BY <2>1, PlacesFromParts DEF InTheirPlaces
<1>4. ASSUME NEW r \in Requests, Update(r)
      PROVE  InTheirPlaces'
  <2>1. PICK x : x = doing[r].entry
    OBVIOUS
  <2>2. UNCHANGED <<goods, bankedInto>>
    BY <1>4 DEF Update
  <2>3. CASE Written(doing[r])
    <3>1. doing' = [doing EXCEPT ![r] = [kind |-> "clear", keep |-> x]]
      BY <1>4, <2>1, <2>3, UpdateIs
    <3>2. QED
      BY <2>2, <3>1, PlacesFromParts DEF InTheirPlaces
  <2>4. CASE ~Written(doing[r])
    <3>1. doing' = [doing EXCEPT ![r] = None]
      BY <1>4, <2>4, UpdateIs
    <3>2. QED
      BY <2>2, <3>1, PlacesFromParts DEF InTheirPlaces
  <2>5. QED
    BY <2>3, <2>4
<1>5. ASSUME NEW r \in Requests, MoveGoods(r)
      PROVE  InTheirPlaces'
  <2>1. KindOf[doing[r].entry] = "location"
    BY <1>5 DEF MoveGoods, InTheirPlaces
  <2>2. /\ doing' = [doing EXCEPT ![r] = None] /\ UNCHANGED bankedInto
        /\ goods' = [goods EXCEPT ![doing[r].entry][doing[r].goods] = @ + doing[r].quantity]
    BY <1>5 DEF MoveGoods, Finish
  <2>3. \A e \in Entries : KindOf[e] # "location" => goods'[e] = goods[e]
    BY <2>1, <2>2 DEF ListTypes
  <2>4. \A e \in Entries : KindOf[e] # "location" => \A g \in Goods : goods'[e][g] = 0
    BY <2>3 DEF InTheirPlaces
  <2>5. \A e \in bankedInto' : KindOf[e] = "account"
    BY <2>2 DEF InTheirPlaces
  <2>6. QED
    BY <2>2, <2>4, <2>5, PlacesFromParts
<1>6. ASSUME NEW r \in Requests, RecordPaymentInto(r)
      PROVE  InTheirPlaces'
  <2>1. KindOf[doing[r].entry] = "account"
    BY <1>6 DEF RecordPaymentInto, InTheirPlaces
  <2>2. /\ doing' = [doing EXCEPT ![r] = None] /\ UNCHANGED goods
        /\ bankedInto' = bankedInto \cup {doing[r].entry}
    BY <1>6 DEF RecordPaymentInto, Finish
  <2>3. \A e \in Entries : KindOf[e] # "location" => \A g \in Goods : goods'[e][g] = 0
    BY <2>2 DEF InTheirPlaces
  <2>4. \A e \in bankedInto' : KindOf[e] = "account"
    BY <2>1, <2>2 DEF InTheirPlaces
  <2>5. QED
    BY <2>2, <2>3, <2>4, PlacesFromParts
<1>7. CASE UNCHANGED <<deskVars, listsVars>>
  BY <1>7 DEF deskVars, listsVars, InTheirPlaces, Asked
<1>8. QED
  BY <1>1, <1>2, <1>3, <1>4, <1>5, <1>6, <1>7, ListsSteps

\* Where no other is under way, only what this one asks next is to be read.
LEMMA AloneAsks ==
  ASSUME ListTypes, NEW r \in Requests, NEW ask, doing' = [doing EXCEPT ![r] = ask],
         \A q \in Requests \ {r} : doing[q] = None,
         ask # None => ask.kind = "clear" /\ entry'[ask.keep] # None
                       /\ entry'[ask.keep].live /\ entry'[ask.keep].default
  PROVE  OneAtATime' /\ AsRead'
<1>1. \A q \in Requests \ {r} : doing'[q] = None
  OBVIOUS
<1>2. doing'[r] = ask
  BY DEF ListTypes
<1>3. OneAtATime'
  BY <1>1 DEF OneAtATime, Busy
<1>4. ASSUME NEW q \in Requests
      PROVE  /\ \A kind \in {"update", "delete", "move", "pay"} : ~Asked(q, kind)'
             /\ Asked(q, "clear")' => Live(doing[q].keep)' /\ entry'[doing'[q].keep].default
  <2>1. CASE q = r
    BY <1>2, <2>1 DEF Asked, Live
  <2>2. CASE q # r
    BY <1>1, <2>2 DEF Asked
  <2>3. QED
    BY <2>1, <2>2
<1>5. QED
  BY <1>3, <1>4 DEF AsRead

\* What a location holds in all.
LEMMA HeldIsSum ==
  ASSUME NEW e
  PROVE  HeldAt(e) = SumFunctionOnSet(goods[e], Goods) /\ HeldAt(e)' = SumFunctionOnSet(goods'[e], Goods)
<1>1. HeldAt(e) = SumFunctionOnSet(goods[e], Goods)
  BY DEF HeldAt, MapThenSumSet, SumFunctionOnSet, FoldFunctionOnSet, MapThenFoldSet
<1>2. HeldAt(e)' = SumFunctionOnSet(goods'[e], Goods)
  BY DEF HeldAt, MapThenSumSet, SumFunctionOnSet, FoldFunctionOnSet, MapThenFoldSet
<1>3. QED
  BY <1>1, <1>2

\* What reads and what writes when nobody is in between.
Quiet == OneAtATime /\ AsRead /\ Standing /\ NothingBehind

LEMMA NobodyElse ==
  ASSUME ListTypes, OneAtATime, NEW r \in Requests, r \in Busy \/ Busy = {}
  PROVE  \A q \in Requests \ {r} : doing[q] = None
  BY DEF OneAtATime, Busy

LEMMA InsertQuiet ==
  ASSUME ListTypes, NEW r \in Requests, NEW x \in Entries, NEW default \in BOOLEAN,
         Insert(r, x, default), ~overlapped', Quiet
  PROVE  Quiet'
<1>1. /\ Rewritten(x, TRUE, default) /\ entry[x] = None
      /\ default => doing' = [doing EXCEPT ![r] = [kind |-> "clear", keep |-> x]]
      /\ ~default => doing' = [doing EXCEPT ![r] = None]
  BY InsertIs, ZenonT(60)
<1>2. Busy = {} /\ UNCHANGED <<goods, bankedInto, switchedOff>>
  BY DEF Insert
<1>3. \A q \in Requests \ {r} : doing[q] = None
  BY <1>2 DEF Busy
<1>4. OneAtATime' /\ AsRead'
  <2>1. CASE default = TRUE
    <3>1. doing' = [doing EXCEPT ![r] = [kind |-> "clear", keep |-> x]]
      BY <1>1, <2>1
    <3>2. QED
      BY <1>1, <1>3, <2>1, <3>1, AloneAsks DEF Rewritten
  <2>2. CASE default = FALSE
    BY <1>1, <1>3, <2>2, AloneAsks
  <2>3. QED
    BY <2>1, <2>2
<1>5. Standing'
  <2> SUFFICES ASSUME NEW kind \in {"tier", "location"} \ switchedOff,
                      FirstDefaults \cap {e \in Entries : KindOf[e] = kind} # {}
               PROVE  (\E e \in Defaults(kind) : Live(e))'
    BY <1>2 DEF Standing
  <2>1. PICK e \in Defaults(kind) : Live(e)
    BY DEF Quiet, Standing
  <2>2. e # x /\ entry'[e] = entry[e]
    BY <1>1, <2>1 DEF Rewritten, Defaults
  <2>3. QED
    BY <2>1, <2>2 DEF Defaults, Live
<1>6. NothingBehind'
  <2> SUFFICES ASSUME NEW e \in Entries, entry'[e] # None, ~entry'[e].live
               PROVE  e \notin bankedInto /\ HeldAt(e)' = 0
    BY <1>2 DEF NothingBehind
  <2>1. entry'[e] = entry[e]
    BY <1>1 DEF Rewritten
  <2>2. QED
    BY <1>2, <2>1, HeldIsSum DEF Quiet, NothingBehind
<1>7. QED
  BY <1>4, <1>5, <1>6 DEF Quiet


LEMMA FindQuiet ==
  ASSUME ListTypes, NEW r \in Requests, NEW ask, FoundFor(r, ask), ~overlapped', Quiet
  PROVE  Quiet'
<1>1. /\ Busy = {} /\ doing' = [doing EXCEPT ![r] = ask]
      /\ entry' = entry /\ goods' = goods /\ bankedInto' = bankedInto /\ switchedOff' = switchedOff
  BY DEF FoundFor, Take, listsVars
<1>2. (\A q \in Requests \ {r} : doing'[q] = None) /\ doing'[r] = ask
  BY <1>1 DEF Busy, ListTypes
<1>3. OneAtATime'
  BY <1>2 DEF OneAtATime, Busy
<1>4. AsRead'
  <2>1. /\ ask.kind # "clear" /\ (ask.kind # "revive" => Live(ask.entry)')
        /\ ask.kind = "delete" => Removable(ask.entry)'
    <3>1. \A e : Live(e)' = Live(e)
      BY <1>1 DEF Live
    <3>2. \A e : Removable(e)' = Removable(e)
      <4> SUFFICES ASSUME NEW e
                   PROVE  Removable(e)' = Removable(e)
        OBVIOUS
      <4>1. HeldAt(e)' = HeldAt(e)
        BY <1>1, HeldIsSum
      <4>2. QED
        BY <1>1, <4>1 DEF Removable, HeldAt
    <3>3. QED
      BY <3>1, <3>2 DEF FoundFor
  <2>2. ASSUME NEW q \in Requests
        PROVE  /\ \A kind \in {"update", "delete", "move", "pay"} :
                    Asked(q, kind)' => Live(doing[q].entry)'
               /\ Asked(q, "delete")' => Removable(doing[q].entry)'
               /\ ~Asked(q, "clear")'
    BY <1>2, <2>1 DEF Asked
  <2>3. QED
    BY <2>2 DEF AsRead
<1>5. Standing'
  BY <1>1 DEF Quiet, Standing, Defaults, Live
<1>6. NothingBehind'
  BY <1>1, HeldIsSum DEF Quiet, NothingBehind
<1>7. QED
  BY <1>3, <1>4, <1>5, <1>6 DEF Quiet

LEMMA ReviveQuiet ==
  ASSUME ListTypes, NEW r \in Requests, Revive(r), Quiet
  PROVE  Quiet'
<1>1. PICK x \in Entries : x = doing[r].entry /\ entry[x] \in Flags
  BY AsksAre DEF Revive
<1>2. Rewritten(x, TRUE, entry[x].default)
  <2>1. \E b \in BOOLEAN : b = TRUE /\ entry' = [entry EXCEPT ![x].live = b]
    BY <1>1 DEF Revive
  <2>2. QED
    BY <1>1, <2>1, LiveWritten
<1>3. doing' = [doing EXCEPT ![r] = None] /\ UNCHANGED <<goods, bankedInto, switchedOff>>
  BY DEF Revive, Finish
<1>4. OneAtATime' /\ AsRead'
  BY <1>3, NobodyElse, AloneAsks DEF Quiet, Revive, Asked, Busy
<1>5. Standing'
  <2> SUFFICES ASSUME NEW kind \in {"tier", "location"} \ switchedOff,
                      FirstDefaults \cap {e \in Entries : KindOf[e] = kind} # {}
               PROVE  (\E e \in Defaults(kind) : Live(e))'
    BY <1>3 DEF Standing
  <2>1. PICK e \in Defaults(kind) : Live(e)
    BY DEF Quiet, Standing
  <2>2. entry'[e] # None /\ entry'[e].live /\ entry'[e].default
    BY <1>2, <2>1 DEF Rewritten, Defaults, Live
  <2>3. QED
    BY <2>1, <2>2 DEF Defaults, Live
<1>6. NothingBehind'
  BY <1>2, <1>3, HeldIsSum DEF Quiet, NothingBehind, Rewritten
<1>7. QED
  BY <1>4, <1>5, <1>6 DEF Quiet

LEMMA UpdateQuiet ==
  ASSUME ListTypes, NEW r \in Requests, Update(r), Quiet
  PROVE  Quiet'
<1>1. PICK x \in Entries : x = doing[r].entry
  BY UpdateIs
<1>2. PICK b \in BOOLEAN : b = Written(doing[r])
  BY UpdateIs
<1>3. /\ entry[x] \in Flags /\ Rewritten(x, entry[x].live, b) /\ Live(x)
      /\ b => doing' = [doing EXCEPT ![r] = [kind |-> "clear", keep |-> x]]
      /\ ~b => doing' = [doing EXCEPT ![r] = None]
  BY <1>1, <1>2, UpdateIs DEF Quiet, AsRead
<1>4. /\ UNCHANGED <<goods, bankedInto>>
      /\ switchedOff' = IF entry[x].default /\ ~b THEN switchedOff \cup {KindOf[x]} ELSE switchedOff
  BY <1>1, <1>2 DEF Update, Switched
<1>5. \A q \in Requests \ {r} : doing[q] = None
  BY NobodyElse DEF Quiet, Update, Asked, Busy
<1>6. OneAtATime' /\ AsRead'
  <2>1. CASE b = TRUE
    <3>1. doing' = [doing EXCEPT ![r] = [kind |-> "clear", keep |-> x]]
      BY <1>3, <2>1
    <3>2. entry'[x] # None /\ entry'[x].live /\ entry'[x].default
      BY <1>3, <2>1 DEF Rewritten, Live
    <3>3. QED
      BY <1>5, <3>1, <3>2, AloneAsks
  <2>2. CASE b = FALSE
    BY <1>3, <1>5, <2>2, AloneAsks
  <2>3. QED
    BY <2>1, <2>2
<1>7. Standing'
  <2> SUFFICES ASSUME NEW kind \in {"tier", "location"} \ switchedOff',
                      FirstDefaults \cap {e \in Entries : KindOf[e] = kind} # {}
               PROVE  (\E e \in Defaults(kind) : Live(e))'
    BY DEF Standing
  <2>1. PICK e \in Defaults(kind) : Live(e)
    BY <1>4 DEF Quiet, Standing
  <2>2. CASE e # x
    <3>1. entry'[e] = entry[e]
      BY <1>3, <2>1, <2>2 DEF Rewritten, Defaults
    <3>2. QED
      BY <2>1, <3>1 DEF Defaults, Live
  <2>3. CASE e = x
    <3>1. b
      BY <1>4, <2>1, <2>3 DEF Defaults
    <3>2. QED
      BY <1>3, <2>1, <2>3, <3>1 DEF Defaults, Live, Rewritten
  <2>4. QED
    BY <2>2, <2>3
<1>8. NothingBehind'
  <2>1. \A e \in Entries : entry'[e] # None => entry[e] # None /\ entry'[e].live = entry[e].live
    BY <1>3 DEF Rewritten, Live
  <2>2. QED
    BY <1>4, <2>1, HeldIsSum DEF Quiet, NothingBehind
<1>9. QED
  BY <1>6, <1>7, <1>8 DEF Quiet

LEMMA ClearQuiet ==
  ASSUME ListTypes, NEW r \in Requests, ClearOtherDefaults(r), Quiet
  PROVE  Quiet'
<1>1. PICK x \in Entries : x = doing[r].keep
  BY ClearIs
<1>2. /\ entry[x] \in Flags /\ entry'[x] = entry[x]
      /\ \A e \in Entries : entry'[e] = None <=> entry[e] = None
      /\ \A e \in Entries : entry[e] # None => entry'[e].live = entry[e].live
      /\ \A e \in Entries \ {x} : entry[e] # None =>
           entry'[e].default = IF KindOf[e] = KindOf[x] THEN FALSE ELSE entry[e].default
  BY <1>1, ClearIs
<1>3. Live(x) /\ entry[x].default
  BY <1>1 DEF ClearOtherDefaults, Quiet, AsRead
<1>4. doing' = [doing EXCEPT ![r] = None] /\ UNCHANGED <<goods, bankedInto, switchedOff>>
  BY DEF ClearOtherDefaults, Finish
<1>5. OneAtATime' /\ AsRead'
  BY <1>4, NobodyElse, AloneAsks DEF Quiet, ClearOtherDefaults, Asked, Busy
<1>6. Standing'
  <2> SUFFICES ASSUME NEW kind \in {"tier", "location"} \ switchedOff,
                      FirstDefaults \cap {e \in Entries : KindOf[e] = kind} # {}
               PROVE  (\E e \in Defaults(kind) : Live(e))'
    BY <1>4 DEF Standing
  <2>1. PICK e \in Defaults(kind) : Live(e)
    BY DEF Quiet, Standing
  <2>2. CASE kind = KindOf[x]
    BY <1>2, <1>3, <2>2 DEF Defaults, Live
  <2>3. CASE kind # KindOf[x]
    <3>1. e # x /\ entry'[e] # None /\ entry'[e].live /\ entry'[e].default
      BY <1>2, <2>1, <2>3 DEF Defaults, Live
    <3>2. QED
      BY <2>1, <3>1 DEF Defaults, Live
  <2>4. QED
    BY <2>2, <2>3
<1>7. NothingBehind'
  BY <1>2, <1>4, HeldIsSum DEF Quiet, NothingBehind
<1>8. QED
  BY <1>5, <1>6, <1>7 DEF Quiet


LEMMA DeleteQuiet ==
  ASSUME ListTypes, InTheirPlaces, NEW r \in Requests, Delete(r), Quiet
  PROVE  Quiet'
<1>1. PICK x \in Entries : x = doing[r].entry /\ entry[x] \in Flags
  BY AsksAre DEF Delete
<1>2. Rewritten(x, FALSE, entry[x].default)
  <2>1. \E b \in BOOLEAN : b = FALSE /\ entry' = [entry EXCEPT ![x].live = b]
    BY <1>1 DEF Delete
  <2>2. QED
    BY <1>1, <2>1, LiveWritten
<1>3. doing' = [doing EXCEPT ![r] = None] /\ UNCHANGED <<goods, bankedInto, switchedOff>>
  BY DEF Delete, Finish
<1>4. Removable(x)
  BY <1>1 DEF Delete, Quiet, AsRead
<1>5. OneAtATime' /\ AsRead'
  BY <1>3, NobodyElse, AloneAsks DEF Quiet, Delete, Asked, Busy
<1>6. Standing'
  <2> SUFFICES ASSUME NEW kind \in {"tier", "location"} \ switchedOff,
                      FirstDefaults \cap {e \in Entries : KindOf[e] = kind} # {}
               PROVE  (\E e \in Defaults(kind) : Live(e))'
    BY <1>3 DEF Standing
  <2>1. PICK e \in Defaults(kind) : Live(e)
    BY DEF Quiet, Standing
  <2>2. e # x
    BY <1>4, <2>1 DEF Removable, Defaults
  <2>3. entry'[e] = entry[e]
    BY <1>2, <2>1, <2>2 DEF Rewritten, Defaults
  <2>4. QED
    BY <2>1, <2>3 DEF Defaults, Live
<1>7. x \notin bankedInto /\ HeldAt(x) = 0
  <2>1. CASE KindOf[x] = "location"
    BY <1>4, <2>1 DEF Removable, InTheirPlaces, HeldAt
  <2>2. CASE KindOf[x] # "location"
    <3>1. HeldAt(x) = 0
      BY <2>2, HeldIsSum, SumOfZeros, ListsAssumption DEF InTheirPlaces
    <3>2. x \notin bankedInto
      BY <1>4, <2>2, ListsAssumption DEF Removable, InTheirPlaces
    <3>3. QED
      BY <3>1, <3>2
  <2>3. QED
    BY <2>1, <2>2
<1>8. NothingBehind'
  <2> SUFFICES ASSUME NEW e \in Entries, entry'[e] # None, ~entry'[e].live
               PROVE  e \notin bankedInto /\ HeldAt(e)' = 0
    BY <1>3 DEF NothingBehind
  <2>1. HeldAt(e)' = HeldAt(e)
    BY <1>3, HeldIsSum
  <2>2. CASE e = x
    BY <1>7, <2>1, <2>2
  <2>3. CASE e # x
    BY <1>2, <2>1, <2>3 DEF Quiet, NothingBehind, Rewritten
  <2>4. QED
    BY <2>2, <2>3
<1>9. QED
  BY <1>5, <1>6, <1>8 DEF Quiet

LEMMA RecordQuiet ==
  ASSUME ListTypes, NEW r \in Requests, CutShort(r) \/ MoveGoods(r) \/ RecordPaymentInto(r), Quiet
  PROVE  Quiet'
<1>1. doing' = [doing EXCEPT ![r] = None] /\ UNCHANGED <<entry, switchedOff>>
  BY DEF CutShort, MoveGoods, RecordPaymentInto, Finish
<1>2. OneAtATime' /\ AsRead'
  BY <1>1, NobodyElse, AloneAsks DEF Quiet, CutShort, MoveGoods, RecordPaymentInto, Asked, Busy
<1>3. Standing'
  BY <1>1 DEF Quiet, Standing, Defaults, Live
<1>4. ASSUME NEW e \in Entries, entry[e] # None, ~entry[e].live
      PROVE  e \notin bankedInto' /\ goods'[e] = goods[e]
  <2>1. e \notin bankedInto
    BY <1>4 DEF Quiet, NothingBehind
  <2>2. CASE CutShort(r)
    BY <2>1, <2>2 DEF CutShort
  <2>3. CASE MoveGoods(r)
    <3>1. Live(doing[r].entry)
      BY <2>3 DEF MoveGoods, Quiet, AsRead
    <3>2. e # doing[r].entry
      BY <1>4, <3>1 DEF Live
    <3>3. QED
      BY <2>1, <2>3, <3>2 DEF MoveGoods, ListTypes
  <2>4. CASE RecordPaymentInto(r)
    <3>1. Live(doing[r].entry)
      BY <2>4 DEF RecordPaymentInto, Quiet, AsRead
    <3>2. e # doing[r].entry
      BY <1>4, <3>1 DEF Live
    <3>3. QED
      BY <2>1, <2>4, <3>2 DEF RecordPaymentInto
  <2>5. QED
    BY <2>2, <2>3, <2>4
<1>5. NothingBehind'
  BY <1>1, <1>4, HeldIsSum DEF Quiet, NothingBehind
<1>6. QED
  BY <1>2, <1>3, <1>5 DEF Quiet

LEMMA QuietStays ==
  ASSUME ListTypes, InTheirPlaces, [ListsNext]_<<deskVars, listsVars>>, overlapped \/ Quiet
  PROVE  (overlapped \/ Quiet)'
<1> SUFFICES ASSUME ~overlapped'
             PROVE  Quiet'
  OBVIOUS
<1>1. ASSUME NEW r \in Requests, NEW e \in Entries, NEW default \in BOOLEAN, Insert(r, e, default)
      PROVE  Quiet'
  BY <1>1, InsertQuiet DEF Insert
<1>2. ASSUME NEW r \in Requests, NEW ask, FoundFor(r, ask)
      PROVE  Quiet'
  BY <1>2, FindQuiet DEF FoundFor, Take
<1>3. ASSUME NEW r \in Requests,
             \/ Revive(r) \/ Update(r) \/ ClearOtherDefaults(r) \/ CutShort(r) \/ Delete(r)
             \/ MoveGoods(r) \/ RecordPaymentInto(r)
      PROVE  Quiet'
  <2>1. overlapped' = overlapped
    BY <1>3 DEF Revive, Update, ClearOtherDefaults, CutShort, Delete, MoveGoods, RecordPaymentInto, Finish
  <2>2. QED
    BY <1>3, <2>1, ReviveQuiet, UpdateQuiet, ClearQuiet, DeleteQuiet, RecordQuiet
<1>4. CASE UNCHANGED <<deskVars, listsVars>>
  <2>1. /\ doing' = doing /\ overlapped' = overlapped
        /\ entry' = entry /\ goods' = goods /\ bankedInto' = bankedInto /\ switchedOff' = switchedOff
    BY <1>4 DEF deskVars, listsVars
  <2>2. \A e : HeldAt(e)' = HeldAt(e)
    BY <2>1, HeldIsSum
  <2>3. OneAtATime' /\ Standing' /\ NothingBehind'
    BY <2>1, <2>2 DEF Quiet, OneAtATime, Busy, Standing, NothingBehind, Defaults, Live
  <2>4. ASSUME NEW e
        PROVE  Removable(e)' = Removable(e)
    <3>1. HeldAt(e)' = HeldAt(e)
      BY <2>2
    <3>2. QED
      BY <2>1, <3>1 DEF Removable, HeldAt
  <2>5. AsRead'
    BY <2>1, <2>4 DEF Quiet, AsRead, Asked, Live
  <2>6. QED
    BY <2>3, <2>5 DEF Quiet
<1>5. QED
  BY <1>1, <1>2, <1>3, <1>4, ListsSteps

\* A list keeps the default it started with, and one only, and nothing stays behind
\* what is taken off it, whatever requests are under way: an entry is removed only
\* where it is not the default and nothing is recorded against it
\* (price-tier.service.ts, location.service.ts, bank-account.service.ts), and a
\* request that sets a default clears the others in a statement of its own.
THEOREM ListsKeepTheirDefault == ListsSpec => []ListsKeepADefault
<1>1. DeskInit /\ ListsInit => ListsInv
  <2> SUFFICES ASSUME DeskInit, ListsInit
               PROVE  ListsInv
    OBVIOUS
  <2> DEFINE oneRow == [live |-> TRUE, default |-> TRUE]
  <2>1. oneRow \in Flags /\ oneRow # None /\ oneRow.live /\ oneRow.default
    <3>1. oneRow \in Flags
      BY DEF Flags
    <3>2. QED
      BY <3>1, ListsAssumption DEF Flags
  <2>2. entry = [e \in Entries |-> IF e \in FirstDefaults THEN oneRow ELSE None]
    BY DEF ListsInit
  <2> HIDE DEF oneRow
  <2>3. \A r \in Requests : doing[r] = None /\ \A kind : ~Asked(r, kind)
    BY DEF DeskInit, Asked
  <2>4. ListTypes
    <3>1. entry \in [Entries -> Flags \cup {None}]
      BY <2>1, <2>2
    <3>2. goods \in [Entries -> [Goods -> Int]]
      BY DEF ListsInit
    <3>3. bankedInto \subseteq Entries /\ cut \in BOOLEAN
      BY DEF ListsInit
    <3>4. doing \in [Requests -> ListAsks \cup {None}] /\ overlapped \in BOOLEAN
      BY DEF DeskInit
    <3>5. QED
      BY <2>3, <3>1, <3>2, <3>3, <3>4 DEF ListTypes
  <2>5. InTheirPlaces
    BY <2>3, ListsAssumption DEF InTheirPlaces, ListsInit
  <2>6. OneOrClearing
    BY <2>2, ListsAssumption DEF OneOrClearing, Defaults
  <2>7. OneAtATime /\ AsRead
    BY <2>3 DEF OneAtATime, Busy, AsRead
  <2>8. Standing
    BY <2>1, <2>2, ListsAssumption DEF Standing, Defaults, Live
  <2>9. NothingBehind
    BY <2>1, <2>2 DEF NothingBehind
  <2>10. QED
    BY <2>4, <2>5, <2>6, <2>7, <2>8, <2>9 DEF ListsInv
<1>2. ListsInv /\ [ListsNext]_<<deskVars, listsVars>> => ListsInv'
  BY ListTypesStay, InTheirPlacesStays, OneOrClearingStays, QuietStays DEF ListsInv, Quiet
<1>3. ListsInv => ListsKeepADefault
  <2> SUFFICES ASSUME ListsInv
               PROVE  ListsKeepADefault
    OBVIOUS
  <2>1. OneDefaultAtMost
    <3> SUFFICES ASSUME ~cut, NEW kind \in Kinds, ~Clearing(kind)
                 PROVE  Cardinality(Defaults(kind)) <= 1
      BY DEF OneDefaultAtMost, Kinds
    <3>1. \A e, f \in Defaults(kind) : e = f
      BY DEF ListsInv, OneOrClearing
    <3>2. CASE Defaults(kind) = {}
      BY <3>2, FS_EmptySet
    <3>3. CASE Defaults(kind) # {}
      <4>1. PICK e : Defaults(kind) = {e}
        BY <3>1, <3>3
      <4>2. Cardinality(Defaults(kind)) = 1
        BY ONLY <4>1, FS_Singleton
      <4>3. QED
        BY <4>2
    <3>4. QED
      BY <3>2, <3>3
  <2>2. DefaultRemains
    BY DEF ListsInv, Standing, DefaultRemains
  <2>3. NothingBehindTheRemoved
    BY DEF ListsInv, NothingBehind, HeldAt, NothingBehindTheRemoved
  <2>4. QED
    BY <2>1, <2>2, <2>3 DEF ListsKeepADefault
<1>4. QED
  BY <1>1, <1>2, <1>3, PTL DEF ListsSpec

-----------------------------------------------------------------------------
(* The customers. *)

Contacts == [live : BOOLEAN, into : Customers \cup {None}, phone : BOOLEAN]

\* Only who is off the list was merged, and never into himself.
CustomerTypes ==
  /\ customer \in [Customers -> Contacts]
  /\ named \in [Books -> Customers \cup {None}]
  /\ merges \in Nat /\ overlapped \in BOOLEAN
  /\ doing \in [Requests -> CustomerAsks \cup {None}]
  /\ \A r \in Requests : Asked(r, "merge") => doing[r].from # doing[r].into
  /\ \A c \in Customers : customer[c].live => customer[c].into = None

\* While requests do not overlap, the one under way finds what it read: who it names
\* is on the list, and nothing names whom it removes.
CustomersAsRead ==
  \A r \in Requests :
    /\ Asked(r, "book") => Found(doing[r].customer)
    /\ Asked(r, "merge") => Found(doing[r].from) /\ Found(doing[r].into)
    /\ Asked(r, "remove") => NoBooks(doing[r].customer)

NamesTheLiving == \A b \in Books : named[b] # None => customer[named[b]].live
NoCircle ==
  \A circle \in SUBSET Customers :
    circle # {} => \E c \in circle : customer[c].into \notin circle

CustomersQuiet == OneAtATime /\ CustomersAsRead /\ NamesTheLiving /\ NoCircle

CustomersInv == CustomerTypes /\ (overlapped \/ CustomersQuiet)

\* What a request that is written was asked.
LEMMA CustomerAsked ==
  ASSUME CustomerTypes, NEW r \in Requests
  PROVE  /\ Asked(r, "book") => doing[r] \in BookAsks
         /\ Asked(r, "merge") => doing[r] \in MergeAsks /\ doing[r].from # doing[r].into
         /\ Asked(r, "remove") => doing[r] \in RemoveAsks
  BY DEF CustomerTypes, Asked, CustomerAsks, BookAsks, MergeAsks, RemoveAsks

\* What the writes do to the customers.
LEMMA MergedIs ==
  ASSUME CustomerTypes, NEW r \in Requests, Merge(r)
  PROVE  \E d, k \in Customers :
           /\ d # k /\ doing[r].from = d /\ doing[r].into = k /\ Asked(r, "merge")
           /\ customer' \in [Customers -> Contacts]
           /\ \A c \in Customers \ {d, k} : customer'[c] = customer[c]
           /\ ~customer'[d].live /\ customer'[d].into = k
           /\ (customer'[k].live <=> customer[k].live) /\ customer'[k].into = customer[k].into
           /\ named' = Moved(d, k) /\ merges' = merges + 1
           /\ doing' = [doing EXCEPT ![r] = None] /\ overlapped' = overlapped
<1>1. Asked(r, "merge") /\ doing[r] \in MergeAsks /\ doing[r].from # doing[r].into
  BY CustomerAsked DEF Merge
<1>2. PICK d \in Customers, k \in Customers, p \in BOOLEAN :
        d # k /\ doing[r].from = d /\ doing[r].into = k /\ doing[r].phone = p
  BY <1>1 DEF MergeAsks
<1>3. /\ named' = Moved(d, k)
      /\ customer' = [customer EXCEPT ![k].phone = @ \/ p, ![d].live = FALSE, ![d].into = k]
      /\ merges' = merges + 1 /\ doing' = [doing EXCEPT ![r] = None] /\ overlapped' = overlapped
  BY <1>2 DEF Merge, Finish
<1>4. PICK kept \in Contacts : kept = customer[k]
  BY DEF CustomerTypes
<1>5. PICK gone \in Contacts : gone = customer[d]
  BY DEF CustomerTypes
<1> DEFINE keeps == [kept EXCEPT !.phone = @ \/ p]
           goes == [[gone EXCEPT !.live = FALSE] EXCEPT !.into = k]
<1>6. /\ customer'[k] = keeps /\ customer'[d] = goes
      /\ customer' = [customer EXCEPT ![k] = keeps, ![d] = goes]
  BY <1>2, <1>3, <1>4, <1>5 DEF CustomerTypes
<1>7. keeps \in Contacts /\ (keeps.live <=> kept.live) /\ keeps.into = kept.into
  BY DEF Contacts
<1>8. goes \in Contacts /\ ~goes.live /\ goes.into = k
  BY DEF Contacts
<1> HIDE DEF keeps, goes
<1>9. /\ customer' \in [Customers -> Contacts]
      /\ \A c \in Customers \ {d, k} : customer'[c] = customer[c]
  BY <1>6, <1>7, <1>8 DEF CustomerTypes
<1>10. QED
  BY <1>1, <1>2, <1>3, <1>4, <1>6, <1>7, <1>8, <1>9

LEMMA RemovedIs ==
  ASSUME CustomerTypes, NEW r \in Requests, RemoveCustomer(r)
  PROVE  \E x \in Customers :
           /\ doing[r].customer = x /\ Asked(r, "remove")
           /\ customer' \in [Customers -> Contacts]
           /\ \A c \in Customers \ {x} : customer'[c] = customer[c]
           /\ ~customer'[x].live /\ customer'[x].into = customer[x].into
           /\ named' = named /\ merges' = merges
           /\ doing' = [doing EXCEPT ![r] = None] /\ overlapped' = overlapped
<1>1. Asked(r, "remove") /\ doing[r] \in RemoveAsks
  BY CustomerAsked DEF RemoveCustomer
<1>2. PICK x \in Customers : doing[r].customer = x
  BY <1>1 DEF RemoveAsks
<1>3. /\ customer' = [customer EXCEPT ![x].live = FALSE] /\ named' = named /\ merges' = merges
      /\ doing' = [doing EXCEPT ![r] = None] /\ overlapped' = overlapped
  BY <1>2 DEF RemoveCustomer, Finish
<1>4. PICK gone \in Contacts : gone = customer[x]
  BY DEF CustomerTypes
<1> DEFINE goes == [gone EXCEPT !.live = FALSE]
<1>5. customer' = [customer EXCEPT ![x] = goes]
  BY <1>3, <1>4 DEF CustomerTypes
<1>6. goes \in Contacts /\ ~goes.live /\ goes.into = gone.into
  BY DEF Contacts
<1> HIDE DEF goes
<1>7. /\ customer' \in [Customers -> Contacts] /\ customer'[x] = goes
      /\ \A c \in Customers \ {x} : customer'[c] = customer[c]
  BY <1>5, <1>6 DEF CustomerTypes
<1>8. QED
  BY <1>1, <1>2, <1>3, <1>4, <1>6, <1>7

\* A request taken up reads what it was asked, of customers as they are.
LEMMA CustomersTaken ==
  ASSUME CustomerTypes, NEW r \in Requests,
         \/ \E b \in Books, c \in Customers : LookUpCustomer(r, b, c)
         \/ \E d, k \in Customers : ReadToMerge(r, d, k)
         \/ \E c \in Customers : ReadToRemove(r, c)
  PROVE  /\ \E ask \in CustomerAsks :
              /\ doing' = [doing EXCEPT ![r] = ask] /\ doing[r] = None
              /\ ask.kind = "merge" => ask.from # ask.into /\ Found(ask.from) /\ Found(ask.into)
              /\ ask.kind = "book" => Found(ask.customer)
              /\ ask.kind = "remove" => NoBooks(ask.customer)
         /\ overlapped' \in BOOLEAN /\ (~overlapped' => ~overlapped /\ Busy = {})
         /\ UNCHANGED customersVars
<1>1. CASE \E b \in Books, c \in Customers : LookUpCustomer(r, b, c)
  <2>1. PICK b \in Books, c \in Customers : LookUpCustomer(r, b, c)
    BY <1>1
  <2> DEFINE ask == [kind |-> "book", book |-> b, customer |-> c]
  <2>2. ask \in CustomerAsks
    BY DEF CustomerAsks, BookAsks
  <2>3. QED
    BY <2>1, <2>2 DEF LookUpCustomer, Take, CustomerTypes
<1>2. CASE \E d, k \in Customers : ReadToMerge(r, d, k)
  <2>1. PICK d \in Customers, k \in Customers : ReadToMerge(r, d, k)
    BY <1>2
  <2> DEFINE p == ~customer[k].phone /\ customer[d].phone
             ask == [kind |-> "merge", from |-> d, into |-> k, phone |-> p]
  <2>2. p \in BOOLEAN
    OBVIOUS
  <2>3. doing' = [doing EXCEPT ![r] = ask] /\ doing[r] = None /\ d # k /\ Found(d) /\ Found(k)
    BY <2>1 DEF ReadToMerge, Take
  <2>4. overlapped' = (overlapped \/ Busy # {}) /\ UNCHANGED customersVars
    BY <2>1 DEF ReadToMerge, Take
  <2> HIDE DEF p
  <2>5. ask \in CustomerAsks
    BY <2>2 DEF CustomerAsks, MergeAsks
  <2>6. QED
    BY <2>3, <2>4, <2>5 DEF CustomerTypes
<1>3. CASE \E c \in Customers : ReadToRemove(r, c)
  <2>1. PICK c \in Customers : ReadToRemove(r, c)
    BY <1>3
  <2> DEFINE ask == [kind |-> "remove", customer |-> c]
  <2>2. ask \in CustomerAsks
    BY DEF CustomerAsks, RemoveAsks
  <2>3. QED
    BY <2>1, <2>2 DEF ReadToRemove, Take, CustomerTypes
<1>4. QED
  BY <1>1, <1>2, <1>3

\* A row that is written names whom it was looked up for.
LEMMA RecordedIs ==
  ASSUME CustomerTypes, NEW r \in Requests, RecordBook(r)
  PROVE  \E x \in Books, c \in Customers :
           /\ doing[r].customer = c /\ Asked(r, "book")
           /\ named' = [named EXCEPT ![x] = c] /\ customer' = customer /\ merges' = merges
           /\ doing' = [doing EXCEPT ![r] = None] /\ overlapped' = overlapped
<1>1. Asked(r, "book") /\ doing[r] \in BookAsks
  BY CustomerAsked DEF RecordBook
<1>2. PICK x \in Books, c \in Customers : doing[r].book = x /\ doing[r].customer = c
  BY <1>1 DEF BookAsks
<1>3. QED
  BY <1>1, <1>2 DEF RecordBook, Finish

\* A request that ends leaves the others what they were asked.
LEMMA CustomersStillAsked ==
  ASSUME CustomerTypes, NEW r \in Requests, doing' = [doing EXCEPT ![r] = None]
  PROVE  \A q \in Requests :
           /\ doing'[q] # None => q # r /\ doing[q] # None
           /\ \A kind : Asked(q, kind)' => Asked(q, kind) /\ q # r /\ doing'[q] = doing[q]
  BY DEF CustomerTypes, Asked

LEMMA CustomerTypesStay ==
  ASSUME CustomerTypes, [CustomersNext]_<<deskVars, customersVars>>
  PROVE  CustomerTypes'
<1>1. ASSUME NEW r \in Requests,
             \/ \E b \in Books, c \in Customers : LookUpCustomer(r, b, c)
             \/ \E d, k \in Customers : ReadToMerge(r, d, k)
             \/ \E c \in Customers : ReadToRemove(r, c)
      PROVE  CustomerTypes'
  <2>1. PICK ask \in CustomerAsks :
          doing' = [doing EXCEPT ![r] = ask] /\ (ask.kind = "merge" => ask.from # ask.into)
    BY <1>1, CustomersTaken
  <2>2. customer' = customer /\ named' = named /\ merges' = merges /\ overlapped' \in BOOLEAN
    BY <1>1, CustomersTaken DEF customersVars
  <2>3. doing' \in [Requests -> CustomerAsks \cup {None}]
    BY <2>1 DEF CustomerTypes
  <2>4. \A q \in Requests : Asked(q, "merge")' => doing'[q].from # doing'[q].into
    BY <2>1 DEF CustomerTypes, Asked
  <2>5. QED
    BY <2>2, <2>3, <2>4 DEF CustomerTypes
<1>2. ASSUME NEW r \in Requests, doing' = [doing EXCEPT ![r] = None]
      PROVE  /\ doing' \in [Requests -> CustomerAsks \cup {None}]
             /\ \A q \in Requests : Asked(q, "merge")' => doing'[q].from # doing'[q].into
  <2>1. doing' \in [Requests -> CustomerAsks \cup {None}]
    BY <1>2 DEF CustomerTypes
  <2>2. QED
    BY <1>2, <2>1, CustomersStillAsked DEF CustomerTypes
<1>3. ASSUME NEW r \in Requests, RecordBook(r)
      PROVE  CustomerTypes'
  <2>1. PICK x \in Books, c \in Customers :
          /\ named' = [named EXCEPT ![x] = c] /\ customer' = customer /\ merges' = merges
          /\ doing' = [doing EXCEPT ![r] = None] /\ overlapped' = overlapped
    BY <1>3, RecordedIs
  <2>2. QED
    BY <1>2, <2>1 DEF CustomerTypes
<1>4. ASSUME NEW r \in Requests, Merge(r)
      PROVE  CustomerTypes'
  <2>1. PICK d \in Customers, k \in Customers :
          /\ customer' \in [Customers -> Contacts]
          /\ \A c \in Customers \ {d, k} : customer'[c] = customer[c]
          /\ ~customer'[d].live
          /\ (customer'[k].live <=> customer[k].live) /\ customer'[k].into = customer[k].into
          /\ named' = Moved(d, k) /\ merges' = merges + 1
          /\ doing' = [doing EXCEPT ![r] = None] /\ overlapped' = overlapped
    BY <1>4, MergedIs
  <2>2. \A c \in Customers : customer'[c].live => customer'[c].into = None
    BY <2>1 DEF CustomerTypes
  <2>3. named' \in [Books -> Customers \cup {None}] /\ merges' \in Nat
    BY <2>1 DEF CustomerTypes, Moved
  <2>4. QED
    BY <1>2, <2>1, <2>2, <2>3 DEF CustomerTypes
<1>5. ASSUME NEW r \in Requests, RemoveCustomer(r)
      PROVE  CustomerTypes'
  <2>1. PICK x \in Customers :
          /\ customer' \in [Customers -> Contacts]
          /\ \A c \in Customers \ {x} : customer'[c] = customer[c]
          /\ ~customer'[x].live
          /\ named' = named /\ merges' = merges
          /\ doing' = [doing EXCEPT ![r] = None] /\ overlapped' = overlapped
    BY <1>5, RemovedIs
  <2>2. \A c \in Customers : customer'[c].live => customer'[c].into = None
    BY <2>1 DEF CustomerTypes
  <2>3. QED
    BY <1>2, <2>1, <2>2 DEF CustomerTypes
<1>6. CASE UNCHANGED <<deskVars, customersVars>>
  BY <1>6 DEF deskVars, customersVars, CustomerTypes, Asked
<1>7. QED
  BY <1>1, <1>3, <1>4, <1>5, <1>6 DEF CustomersNext

\* Where requests do not overlap, each finds what it read, every book names somebody
\* on the list, and the merged lead to somebody.
LEMMA CustomersQuietStay ==
  ASSUME CustomerTypes, [CustomersNext]_<<deskVars, customersVars>>, overlapped \/ CustomersQuiet
  PROVE  (overlapped \/ CustomersQuiet)'
<1> SUFFICES ASSUME ~overlapped'
             PROVE  CustomersQuiet'
  OBVIOUS
<1>1. ASSUME NEW r \in Requests,
             \/ \E b \in Books, c \in Customers : LookUpCustomer(r, b, c)
             \/ \E d, k \in Customers : ReadToMerge(r, d, k)
             \/ \E c \in Customers : ReadToRemove(r, c)
      PROVE  CustomersQuiet'
  <2>1. PICK ask \in CustomerAsks :
          /\ doing' = [doing EXCEPT ![r] = ask]
          /\ ask.kind = "merge" => Found(ask.from) /\ Found(ask.into)
          /\ ask.kind = "book" => Found(ask.customer)
          /\ ask.kind = "remove" => NoBooks(ask.customer)
    BY <1>1, CustomersTaken
  <2>2. Busy = {} /\ CustomersQuiet /\ customer' = customer /\ named' = named
    BY <1>1, CustomersTaken DEF customersVars
  <2>3. \A q \in Requests \ {r} : doing'[q] = None
    BY <2>1, <2>2 DEF Busy, CustomerTypes
  <2>4. OneAtATime'
    BY <2>3 DEF OneAtATime, Busy
  <2>5. doing'[r] = ask
    BY <2>1 DEF CustomerTypes
  <2>6. CustomersAsRead'
    BY <2>1, <2>2, <2>3, <2>5 DEF CustomersAsRead, Asked, Found, NoBooks
  <2>7. QED
    BY <2>2, <2>4, <2>6 DEF CustomersQuiet, NamesTheLiving, NoCircle
<1>2. ASSUME NEW r \in Requests, doing[r] # None, doing' = [doing EXCEPT ![r] = None], CustomersQuiet
      PROVE  OneAtATime' /\ CustomersAsRead'
  <2>1. \A q \in Requests : doing'[q] = None
    BY <1>2 DEF CustomersQuiet, OneAtATime, Busy, CustomerTypes
  <2>2. QED
    BY <2>1 DEF OneAtATime, Busy, CustomersAsRead, Asked
<1>3. ASSUME NEW r \in Requests, RecordBook(r)
      PROVE  CustomersQuiet'
  <2>1. PICK x \in Books, c \in Customers :
          /\ doing[r].customer = c /\ Asked(r, "book")
          /\ named' = [named EXCEPT ![x] = c] /\ customer' = customer
          /\ doing' = [doing EXCEPT ![r] = None] /\ overlapped' = overlapped
    BY <1>3, RecordedIs
  <2>2. CustomersQuiet /\ customer[c].live /\ doing[r] # None
    BY <2>1 DEF CustomersQuiet, CustomersAsRead, Found, Asked
  <2>3. NamesTheLiving'
    BY <2>1, <2>2 DEF CustomersQuiet, NamesTheLiving, CustomerTypes
  <2>4. QED
    BY <1>2, <2>1, <2>2, <2>3 DEF CustomersQuiet, NoCircle
<1>4. ASSUME NEW r \in Requests, Merge(r)
      PROVE  CustomersQuiet'
  <2>1. PICK d \in Customers, k \in Customers :
          /\ d # k /\ doing[r].from = d /\ doing[r].into = k /\ Asked(r, "merge")
          /\ \A c \in Customers \ {d, k} : customer'[c] = customer[c]
          /\ customer'[d].into = k
          /\ (customer'[k].live <=> customer[k].live) /\ customer'[k].into = customer[k].into
          /\ named' = Moved(d, k)
          /\ doing' = [doing EXCEPT ![r] = None] /\ overlapped' = overlapped
    BY <1>4, MergedIs
  <2>2. CustomersQuiet /\ customer[d].live /\ customer[k].live /\ doing[r] # None
    BY <2>1 DEF CustomersQuiet, CustomersAsRead, Found, Asked
  <2>3. NamesTheLiving'
    <3> SUFFICES ASSUME NEW b \in Books, named'[b] # None
                 PROVE  customer'[named'[b]].live
      BY DEF NamesTheLiving
    <3>1. named'[b] = IF named[b] = d THEN k ELSE named[b]
      BY <2>1 DEF Moved
    <3>2. CASE named[b] = d
      BY <2>1, <2>2, <3>1, <3>2
    <3>3. CASE named[b] # d
      <4>1. named'[b] = named[b] /\ named[b] \in Customers \ {d} /\ customer[named[b]].live
        BY <2>2, <3>1, <3>3 DEF CustomersQuiet, NamesTheLiving, CustomerTypes
      <4>2. QED
        BY <2>1, <2>2, <4>1
    <3>4. QED
      BY <3>2, <3>3
  <2>4. NoCircle'
    <3> SUFFICES ASSUME NEW circle \in SUBSET Customers, circle # {}
                 PROVE  \E c \in circle : customer'[c].into \notin circle
      BY DEF NoCircle
    <3>1. CASE k \in circle
      <4>1. customer'[k].into = None
        BY <2>1, <2>2 DEF CustomerTypes
      <4>2. QED
        BY <3>1, <4>1, CustomersAssumption
    <3>2. CASE k \notin circle
      <4>1. PICK c \in circle : customer[c].into \notin circle
        BY <2>2 DEF CustomersQuiet, NoCircle
      <4>2. QED
        BY <2>1, <3>2, <4>1
    <3>3. QED
      BY <3>1, <3>2
  <2>5. QED
    BY <1>2, <2>1, <2>2, <2>3, <2>4 DEF CustomersQuiet
<1>5. ASSUME NEW r \in Requests, RemoveCustomer(r)
      PROVE  CustomersQuiet'
  <2>1. PICK x \in Customers :
          /\ doing[r].customer = x /\ Asked(r, "remove")
          /\ \A c \in Customers \ {x} : customer'[c] = customer[c]
          /\ customer'[x].into = customer[x].into /\ named' = named
          /\ doing' = [doing EXCEPT ![r] = None] /\ overlapped' = overlapped
    BY <1>5, RemovedIs
  <2>2. CustomersQuiet /\ NoBooks(x) /\ doing[r] # None
    BY <2>1 DEF CustomersQuiet, CustomersAsRead, Asked
  <2>3. NamesTheLiving'
    BY <2>1, <2>2 DEF CustomersQuiet, NamesTheLiving, NoBooks, CustomerTypes
  <2>4. \A c \in Customers : customer'[c].into = customer[c].into
    BY <2>1
  <2>5. NoCircle'
    BY <2>2, <2>4 DEF CustomersQuiet, NoCircle
  <2>6. QED
    BY <1>2, <2>1, <2>2, <2>3, <2>5 DEF CustomersQuiet
<1>6. CASE UNCHANGED <<deskVars, customersVars>>
  BY <1>6 DEF deskVars, customersVars, CustomersQuiet, OneAtATime, Busy, CustomersAsRead, Asked,
              Found, NoBooks, NamesTheLiving, NoCircle
<1>7. QED
  BY <1>1, <1>3, <1>4, <1>5, <1>6 DEF CustomersNext

\* What is owed, of the books a step leaves to a customer.
LEMMA MergedOwed ==
  ASSUME CustomerTypes, NEW d \in Customers, NEW k \in Customers, d # k, named' = Moved(d, k)
  PROVE  /\ Owed(k)' = Owed(k) + Owed(d) /\ Owed(d)' = 0
         /\ \A c \in Customers \ {d, k} : Owed(c)' = Owed(c)
<1>1. \A c : IsFiniteSet(BooksOf(c)) /\ BooksOf(c) \subseteq Books
  BY FS_Subset, CustomersAssumption DEF BooksOf
<1>2. \A b \in Books : named'[b] = IF named[b] = d THEN k ELSE named[b]
  BY DEF Moved
<1>3. /\ BooksOf(k)' = BooksOf(k) \cup BooksOf(d) /\ BooksOf(k) \cap BooksOf(d) = {}
      /\ BooksOf(d)' = {} /\ \A c \in Customers \ {d, k} : BooksOf(c)' = BooksOf(c)
  BY <1>2 DEF BooksOf
<1>4. \A b \in BooksOf(k) \cup BooksOf(d) : Amount[b] \in Int
  BY <1>1, CustomersAssumption
<1>5. Owed(k)' = Owed(k) + Owed(d)
  <2>1. SumFunctionOnSet(Amount, BooksOf(k) \cup BooksOf(d))
          = SumFunctionOnSet(Amount, BooksOf(k)) + SumFunctionOnSet(Amount, BooksOf(d))
    BY <1>1, <1>3, <1>4, SumOfBoth
  <2>2. QED
    BY <1>3, <2>1 DEF Owed
<1>6. Owed(d)' = 0
  BY <1>3, SumEmpty DEF Owed
<1>7. \A c \in Customers \ {d, k} : Owed(c)' = Owed(c)
  BY <1>3 DEF Owed
<1>8. QED
  BY <1>5, <1>6, <1>7

\* Only a merge counts as one, and the request it ends is the one that asked for it.
LEMMA OnlyMergesCount ==
  ASSUME CustomerTypes, CustomersNext, merges' # merges,
         NEW r \in Requests, doing[r] # None, doing'[r] = None
  PROVE  Merge(r)
<1>1. PICK q \in Requests :
        \/ \E b \in Books, c \in Customers : LookUpCustomer(q, b, c)
        \/ \E d, k \in Customers : ReadToMerge(q, d, k)
        \/ \E c \in Customers : ReadToRemove(q, c)
        \/ RecordBook(q) \/ Merge(q) \/ RemoveCustomer(q)
  BY DEF CustomersNext
<1>2. Merge(q)
  BY <1>1 DEF LookUpCustomer, ReadToMerge, ReadToRemove, RecordBook, RemoveCustomer, customersVars
<1>3. doing' = [doing EXCEPT ![q] = None]
  BY <1>2 DEF Merge, Finish
<1>4. q = r
  BY <1>3 DEF CustomerTypes
<1>5. QED
  BY <1>2, <1>4

LEMMA MergesAddUp ==
  ASSUME CustomerTypes, CustomersNext
  PROVE  MergeAddsUp
<1> SUFFICES ASSUME NEW r \in Requests, NEW d \in Customers, NEW k \in Customers, Asked(r, "merge"),
                    d = doing[r].from, k = doing[r].into, merges' # merges, doing'[r] = None
             PROVE  /\ Owed(k)' = Owed(k) + Owed(d) /\ Owed(d)' = 0
                    /\ \A c \in Customers \ {d, k} : Owed(c)' = Owed(c)
  BY DEF MergeAddsUp
<1>1. Merge(r)
  BY OnlyMergesCount DEF Asked
<1>2. d # k /\ named' = Moved(d, k)
  BY <1>1, MergedIs
<1>3. QED
  BY <1>2, MergedOwed

\* While requests do not overlap every invoice and payment names a customer on the
\* list, and following a merged customer ends at one; a merge adds what the duplicate
\* owes to what the kept customer owes and moves nobody else's account, overlapping or
\* not (customer.service.ts: both are found, and every invoice and payment of the
\* duplicate is moved in one transaction).
THEOREM MergesCarryTheAccount == CustomersSpec => AccountsFollowMerges
<1>1. DeskInit /\ CustomersInit => CustomersInv
  <2> SUFFICES ASSUME DeskInit, CustomersInit
               PROVE  CustomersInv
    OBVIOUS
  <2>1. \A r \in Requests : doing[r] = None /\ \A kind : ~Asked(r, kind)
    BY DEF DeskInit, Asked
  <2>2. customer \in [Customers -> Contacts] /\ \A c \in Customers : customer[c].into = None
    BY DEF CustomersInit, Contacts
  <2>3. named \in [Books -> Customers \cup {None}] /\ \A b \in Books : named[b] = None
    BY DEF CustomersInit
  <2>4. CustomerTypes
    BY <2>1, <2>2, <2>3 DEF CustomerTypes, DeskInit, CustomersInit
  <2>5. NoCircle
    BY <2>2, CustomersAssumption DEF NoCircle
  <2>6. CustomersQuiet
    BY <2>1, <2>3, <2>5 DEF CustomersQuiet, OneAtATime, Busy, CustomersAsRead, NamesTheLiving
  <2>7. QED
    BY <2>4, <2>6 DEF CustomersInv
<1>2. CustomersInv /\ [CustomersNext]_<<deskVars, customersVars>> => CustomersInv'
  BY CustomerTypesStay, CustomersQuietStay DEF CustomersInv
<1>3. CustomersInv /\ CustomersInv' /\ [CustomersNext]_<<deskVars, customersVars>>
        => [BooksNameTheLiving' /\ MergesLeadSomewhere' /\ MergeAddsUp]_<<deskVars, customersVars>>
  <2> SUFFICES ASSUME CustomersInv, CustomersInv', CustomersNext
               PROVE  BooksNameTheLiving' /\ MergesLeadSomewhere' /\ MergeAddsUp
    OBVIOUS
  <2>1. BooksNameTheLiving' /\ MergesLeadSomewhere'
    BY DEF CustomersInv, CustomersQuiet, NamesTheLiving, NoCircle, BooksNameTheLiving, MergesLeadSomewhere
  <2>2. MergeAddsUp
    BY MergesAddUp DEF CustomersInv
  <2>3. QED
    BY <2>1, <2>2
<1>4. QED
  BY <1>1, <1>2, <1>3, PTL DEF CustomersSpec, AccountsFollowMerges

-----------------------------------------------------------------------------
(* The cash. *)

CashRows ==
  /\ takings \in [Takings -> TakingRows \cup {None}]
  /\ paidOut \in [People -> Nat]
  /\ banking \in [Bankings -> BankingRows \cup {None}]

\* Who is about to confirm a banking may.
CashTypes ==
  /\ CashRows
  /\ overlapped \in BOOLEAN
  /\ doing \in [Requests -> CashAsks \cup {None}]
  /\ \A r \in Requests :
       /\ Asked(r, "confirm") => LET b == doing[r].banking
                                 IN  banking[b] # None /\ MayConfirm(doing[r].me, banking[b].by)
       /\ Asked(r, "void") => banking[doing[r].banking] # None

\* While requests do not overlap, the one under way finds what it read.
CashAsRead ==
  \A r \in Requests :
    /\ Asked(r, "bank") => doing[r].amount <= StillHolding(doing[r].holder)
    /\ Asked(r, "confirm") => Confirmable(doing[r].me, doing[r].banking)
    /\ Asked(r, "void") => ~banking[doing[r].banking].refused

CashInv == CashTypes /\ ConfirmedByAnother /\ (overlapped \/ (OneAtATime /\ CashAsRead))

\* What a row of the bankings takes out of somebody's hands, confirmed or not.
TakenOut(oneRow, p) == IF oneRow # None /\ oneRow.by = p /\ ~oneRow.refused THEN oneRow.amount ELSE 0
OutOf(rows, p) == SumFunctionOnSet([b \in Bankings |-> TakenOut(rows[b], p)], Bankings)

LEMMA BankedOrAwaiting ==
  ASSUME banking \in [Bankings -> BankingRows \cup {None}], NEW p
  PROVE  Banked(p) + AwaitingWord(p) = OutOf(banking, p)
<1> DEFINE C == Confirmed(p)
           W == BankedOf(p) \ Confirmed(p)
           amountOf(S) == [b \in S |-> banking[b].amount]
           f == [b \in Bankings |-> IF b \in C THEN amountOf(C)[b] ELSE 0]
           g == [b \in Bankings |-> IF b \in W THEN amountOf(W)[b] ELSE 0]
           h == [b \in Bankings |-> TakenOut(banking[b], p)]
<1>1. IsFiniteSet(Bankings) /\ C \subseteq Bankings /\ W \subseteq Bankings /\ C \cap W = {}
  BY CashAssumption DEF Confirmed, BankedOf
<1>2. \A b \in BankedOf(p) : banking[b].amount \in Nat /\ b \in Bankings
  BY CashAssumption DEF BankedOf, BankingRows
<1>3. \A b \in C : amountOf(C)[b] \in Int
  BY <1>2 DEF Confirmed
<1>4. \A b \in W : amountOf(W)[b] \in Int
  BY <1>2
<1>5. \A b \in Bankings : f[b] \in Int /\ g[b] \in Int /\ h[b] = f[b] + g[b]
  <2> SUFFICES ASSUME NEW b \in Bankings
               PROVE  f[b] \in Int /\ g[b] \in Int /\ h[b] = f[b] + g[b]
    OBVIOUS
  <2>1. CASE b \in C
    <3>1. b \notin W /\ b \in BankedOf(p)
      BY <2>1 DEF Confirmed
    <3>2. h[b] = banking[b].amount
      BY <3>1 DEF BankedOf, TakenOut
    <3>3. QED
      BY <1>2, <2>1, <3>1, <3>2
  <2>2. CASE b \in W
    <3>1. b \notin C /\ b \in BankedOf(p)
      BY <2>2
    <3>2. h[b] = banking[b].amount
      BY <3>1 DEF BankedOf, TakenOut
    <3>3. QED
      BY <1>2, <2>2, <3>1, <3>2
  <2>3. CASE b \notin C /\ b \notin W
    <3>1. h[b] = 0
      BY <2>3 DEF BankedOf, TakenOut
    <3>2. QED
      BY <2>3, <3>1
  <2>4. QED
    BY <2>1, <2>2, <2>3
<1>6. \A b \in Bankings : /\ f[b] = IF b \in C THEN amountOf(C)[b] ELSE 0
                          /\ g[b] = IF b \in W THEN amountOf(W)[b] ELSE 0
  OBVIOUS
<1>7. /\ Banked(p) = SumFunctionOnSet(amountOf(C), C)
      /\ AwaitingWord(p) = SumFunctionOnSet(amountOf(W), W)
      /\ OutOf(banking, p) = SumFunctionOnSet(h, Bankings)
  BY DEF Banked, AwaitingWord, OutOf, SumFunction
<1> HIDE DEF C, W, f, g, h, amountOf
<1>8. SumFunctionOnSet(amountOf(C), C) = SumFunctionOnSet(f, Bankings)
  BY <1>1, <1>3, <1>6, SumOfSome
<1>9. SumFunctionOnSet(amountOf(W), W) = SumFunctionOnSet(g, Bankings)
  BY <1>1, <1>4, <1>6, SumOfSome
<1>10. SumFunctionOnSet(h, Bankings) = SumFunctionOnSet(f, Bankings) + SumFunctionOnSet(g, Bankings)
  BY <1>1, <1>5, SumOfSums
<1>11. QED
  BY <1>7, <1>8, <1>9, <1>10

LEMMA OutIsCounted ==
  ASSUME NEW rows \in [Bankings -> BankingRows \cup {None}], NEW p
  PROVE  OutOf(rows, p) \in Int /\ \A b \in Bankings : TakenOut(rows[b], p) \in Nat
<1>1. \A b \in Bankings : TakenOut(rows[b], p) \in Nat
  BY CashAssumption DEF TakenOut, BankingRows
<1>2. OutOf(rows, p) \in Int
  BY <1>1, SumType, CashAssumption DEF OutOf
<1>3. QED
  BY <1>1, <1>2

\* One row changed changes what is out by what that row takes.
LEMMA OutChanges ==
  ASSUME NEW rows \in [Bankings -> BankingRows \cup {None}], NEW b \in Bankings,
         NEW oneRow \in BankingRows, NEW p
  PROVE  OutOf([rows EXCEPT ![b] = oneRow], p)
           = OutOf(rows, p) + (TakenOut(oneRow, p) - TakenOut(rows[b], p))
<1> DEFINE after == [rows EXCEPT ![b] = oneRow]
           h == [c \in Bankings |-> TakenOut(rows[c], p)]
           g == [c \in Bankings |-> TakenOut(after[c], p)]
<1>1. after \in [Bankings -> BankingRows \cup {None}] /\ after[b] = oneRow
      /\ \A c \in Bankings \ {b} : after[c] = rows[c]
  OBVIOUS
<1> HIDE DEF after
<1>2. \A c \in Bankings : h[c] \in Int /\ g[c] \in Int
  BY <1>1, OutIsCounted
<1>3. \A c \in Bankings \ {b} : g[c] = h[c]
  BY <1>1
<1>4. h[b] = TakenOut(rows[b], p) /\ g[b] = TakenOut(oneRow, p)
  BY <1>1
<1>5. OutOf(rows, p) = SumFunctionOnSet(h, Bankings) /\ OutOf(after, p) = SumFunctionOnSet(g, Bankings)
  BY DEF OutOf
<1> HIDE DEF h, g
<1>6. SumFunctionOnSet(g, Bankings) = SumFunctionOnSet(h, Bankings) + (g[b] - h[b])
  BY <1>2, <1>3, SumChanges, CashAssumption
<1>7. QED
  BY <1>4, <1>5, <1>6 DEF after

\* What somebody holds, before and after a banking is written.
LEMMA HoldingIs ==
  ASSUME CashRows, NEW p \in People
  PROVE  /\ Received(p) - paidOut[p] \in Int
         /\ StillHolding(p) = Received(p) - paidOut[p] - OutOf(banking, p)
<1> DEFINE S == TakenBy(p)
           h == [i \in S |-> takings[i].amount]
<1>1. IsFiniteSet(S) /\ S \subseteq Takings
  BY FS_Subset, CashAssumption DEF TakenBy
<1>2. \A i \in S : h[i] \in Int
  BY <1>1, CashAssumption DEF CashRows, TakenBy, TakingRows
<1>3. Received(p) = SumFunctionOnSet(h, S)
  BY DEF Received, SumFunction
<1> HIDE DEF S, h
<1>4. Received(p) \in Int /\ paidOut[p] \in Nat
  BY <1>1, <1>2, <1>3, SumType DEF CashRows
<1>5. Banked(p) \in Int /\ AwaitingWord(p) \in Int
  <2> DEFINE C == Confirmed(p)
             W == BankedOf(p) \ Confirmed(p)
             f == [b \in C |-> banking[b].amount]
             g == [b \in W |-> banking[b].amount]
  <2>1. IsFiniteSet(BankedOf(p)) /\ \A b \in BankedOf(p) : banking[b].amount \in Int
    BY FS_Subset, CashAssumption DEF CashRows, BankedOf, BankingRows
  <2>2. IsFiniteSet(C) /\ IsFiniteSet(W)
    BY <2>1, FS_Subset DEF Confirmed
  <2>3. (\A b \in C : f[b] \in Int) /\ (\A b \in W : g[b] \in Int)
    BY <2>1 DEF Confirmed
  <2>4. Banked(p) = SumFunctionOnSet(f, C) /\ AwaitingWord(p) = SumFunctionOnSet(g, W)
    BY DEF Banked, AwaitingWord, SumFunction
  <2> HIDE DEF C, W, f, g
  <2>5. QED
    BY <2>2, <2>3, <2>4, SumType
<1>6. Banked(p) + AwaitingWord(p) = OutOf(banking, p)
  BY BankedOrAwaiting DEF CashRows
<1>7. QED
  BY <1>4, <1>5, <1>6 DEF StillHolding

LEMMA HoldingAfter ==
  ASSUME CashTypes, CashTypes', UNCHANGED <<takings, paidOut>>,
         NEW b \in Bankings, NEW oneRow \in BankingRows, banking' = [banking EXCEPT ![b] = oneRow],
         NEW p \in People
  PROVE  /\ StillHolding(p) \in Int
         /\ StillHolding(p)' = StillHolding(p) - (TakenOut(oneRow, p) - TakenOut(banking[b], p))
<1>. CashRows /\ CashRows'
  BY DEF CashTypes, CashRows
<1>1. /\ Received(p) - paidOut[p] \in Int
      /\ StillHolding(p) = Received(p) - paidOut[p] - OutOf(banking, p)
  BY HoldingIs
<1>2. StillHolding(p)' = Received(p)' - paidOut'[p] - OutOf(banking', p)
  <2>1. (StillHolding(p) = Received(p) - paidOut[p] - OutOf(banking, p))'
    BY HoldingIs, PTL
  <2>2. QED
    BY <2>1 DEF OutOf
<1>3. Received(p)' = Received(p) /\ paidOut'[p] = paidOut[p]
  BY DEF Received, TakenBy
<1>4. OutOf(banking', p) = OutOf(banking, p) + (TakenOut(oneRow, p) - TakenOut(banking[b], p))
  <2>1. banking \in [Bankings -> BankingRows \cup {None}]
    BY DEF CashTypes, CashRows
  <2>2. OutOf([banking EXCEPT ![b] = oneRow], p)
          = OutOf(banking, p) + (TakenOut(oneRow, p) - TakenOut(banking[b], p))
    BY <2>1, OutChanges
  <2>3. QED
    BY <2>2
<1>5. OutOf(banking, p) \in Int /\ TakenOut(oneRow, p) \in Nat /\ TakenOut(banking[b], p) \in Nat
  BY OutIsCounted, CashAssumption DEF CashTypes, CashRows, TakenOut, BankingRows
<1>6. QED
  BY <1>1, <1>2, <1>3, <1>4, <1>5

\* What the three writes do to the bankings.
LEMMA RecordedBankingIs ==
  ASSUME CashTypes, NEW r \in Requests, NEW b \in Bankings, RecordBanking(r, b)
  PROVE  \E oneRow \in BankingRows :
          /\ Asked(r, "bank") /\ banking[b] = None
          /\ oneRow.by = doing[r].holder /\ oneRow.amount = doing[r].amount /\ ~oneRow.refused
          /\ oneRow.confirmedBy \in People => MayConfirm(oneRow.confirmedBy, oneRow.by)
          /\ banking' = [banking EXCEPT ![b] = oneRow]
<1>1. doing[r].me \in People /\ doing[r].holder \in People /\ doing[r].amount \in Amounts
  BY DEF RecordBanking, Asked, CashTypes, CashRows, CashAsks
<1>2. PICK me \in People, holder \in People, a \in Amounts :
        me = doing[r].me /\ holder = doing[r].holder /\ a = doing[r].amount
  BY <1>1
<1> DEFINE oneRow == [by |-> holder, amount |-> a, refused |-> FALSE,
                   confirmedBy |-> IF MayConfirm(me, holder) THEN me ELSE None]
<1>3. oneRow \in BankingRows
  BY DEF BankingRows
<1>4. oneRow.confirmedBy \in People => MayConfirm(oneRow.confirmedBy, oneRow.by)
  BY CashAssumption
<1>5. Asked(r, "bank") /\ banking[b] = None /\ banking' = [banking EXCEPT ![b] = oneRow]
  BY <1>2 DEF RecordBanking
<1>6. oneRow.by = holder /\ oneRow.amount = a /\ ~oneRow.refused
  OBVIOUS
<1> HIDE DEF oneRow
<1>7. QED
  BY <1>2, <1>3, <1>4, <1>5, <1>6

LEMMA ConfirmedBankingIs ==
  ASSUME CashTypes, NEW r \in Requests, ConfirmBanking(r)
  PROVE  \E b \in Bankings, oneRow \in BankingRows :
          /\ Asked(r, "confirm") /\ banking[b] # None
          /\ b = doing[r].banking /\ oneRow.confirmedBy = doing[r].me
          /\ oneRow.by = banking[b].by /\ oneRow.amount = banking[b].amount
          /\ oneRow.refused = banking[b].refused /\ MayConfirm(oneRow.confirmedBy, oneRow.by)
          /\ banking' = [banking EXCEPT ![b] = oneRow]
<1>1. Asked(r, "confirm") /\ doing[r].me \in People /\ doing[r].banking \in Bankings
  BY DEF ConfirmBanking, Asked, CashTypes, CashRows, CashAsks
<1>2. PICK me \in People, b \in Bankings : me = doing[r].me /\ b = doing[r].banking
  BY <1>1
<1>3. banking[b] # None /\ MayConfirm(me, banking[b].by)
  BY <1>1, <1>2 DEF CashTypes, CashRows
<1>4. PICK old \in BankingRows : old = banking[b]
  BY <1>3 DEF CashTypes, CashRows
<1> DEFINE oneRow == [old EXCEPT !.confirmedBy = me]
<1>5. /\ oneRow \in BankingRows /\ oneRow.confirmedBy = me /\ oneRow.by = old.by
      /\ oneRow.amount = old.amount /\ oneRow.refused = old.refused
  BY DEF BankingRows
<1>6. banking' = [banking EXCEPT ![b] = oneRow]
  BY <1>2, <1>4 DEF ConfirmBanking, CashTypes, CashRows
<1> HIDE DEF oneRow
<1>7. QED
  BY <1>1, <1>2, <1>3, <1>4, <1>5, <1>6

LEMMA VoidedBankingIs ==
  ASSUME CashTypes, NEW r \in Requests, VoidBanking(r)
  PROVE  \E b \in Bankings, oneRow \in BankingRows :
          /\ Asked(r, "void") /\ banking[b] # None /\ b = doing[r].banking
          /\ oneRow.by = banking[b].by /\ oneRow.amount = banking[b].amount
          /\ oneRow.refused = TRUE /\ oneRow.confirmedBy = banking[b].confirmedBy
          /\ banking' = [banking EXCEPT ![b] = oneRow]
<1>1. Asked(r, "void") /\ doing[r].banking \in Bankings
  BY DEF VoidBanking, Asked, CashTypes, CashRows, CashAsks
<1>2. PICK b \in Bankings : b = doing[r].banking
  BY <1>1
<1>3. banking[b] # None
  BY <1>1, <1>2 DEF CashTypes, CashRows
<1>4. PICK old \in BankingRows : old = banking[b]
  BY <1>3 DEF CashTypes, CashRows
<1> DEFINE oneRow == [old EXCEPT !.refused = TRUE]
<1>5. /\ oneRow \in BankingRows /\ oneRow.confirmedBy = old.confirmedBy /\ oneRow.by = old.by
      /\ oneRow.amount = old.amount /\ oneRow.refused = TRUE
  BY DEF BankingRows
<1>6. banking' = [banking EXCEPT ![b] = oneRow]
  BY <1>2, <1>4 DEF VoidBanking, CashTypes, CashRows
<1> HIDE DEF oneRow
<1>7. QED
  BY <1>1, <1>2, <1>3, <1>4, <1>5, <1>6

\* Cash taken, voided, paid out and taken back leaves the bankings and the requests.
LEMMA MoneyMoves ==
  ASSUME CashTypes,
         \/ \E p \in People, a \in Amounts :
              PayOut(p, a) \/ TakeBack(p, a) \/ \E i \in Takings, d \in Dates : TakeCash(i, p, a, d)
         \/ \E i \in Takings : VoidTaking(i)
  PROVE  /\ takings' \in [Takings -> TakingRows \cup {None}] /\ paidOut' \in [People -> Nat]
         /\ banking' = banking /\ doing' = doing /\ overlapped' = (overlapped \/ Busy # {})
<1>1. ASSUME NEW p \in People, NEW a \in Amounts, PayOut(p, a)
      PROVE  takings' = takings /\ paidOut' \in [People -> Nat]
  BY <1>1, CashAssumption DEF PayOut, CashTypes, CashRows
<1>2. ASSUME NEW p \in People, NEW a \in Amounts, TakeBack(p, a)
      PROVE  takings' = takings /\ paidOut' \in [People -> Nat]
  BY <1>2, CashAssumption DEF TakeBack, CashTypes, CashRows
<1>3. ASSUME NEW p \in People, NEW a \in Amounts, NEW i \in Takings, NEW d \in Dates, TakeCash(i, p, a, d)
      PROVE  takings' \in [Takings -> TakingRows \cup {None}] /\ paidOut' = paidOut
  <2> DEFINE oneRow == [by |-> p, amount |-> a, at |-> d, voided |-> FALSE]
  <2>1. oneRow \in TakingRows
    BY DEF TakingRows
  <2>2. takings' = [takings EXCEPT ![i] = oneRow] /\ paidOut' = paidOut
    BY <1>3 DEF TakeCash
  <2>3. QED
    BY <2>1, <2>2 DEF CashTypes, CashRows
<1>4. ASSUME NEW i \in Takings, VoidTaking(i)
      PROVE  takings' \in [Takings -> TakingRows \cup {None}] /\ paidOut' = paidOut
  <2>1. PICK oneRow \in TakingRows : takings[i] = oneRow
    BY <1>4 DEF VoidTaking, CashTypes, CashRows
  <2>2. [oneRow EXCEPT !.voided = TRUE] \in TakingRows
    BY DEF TakingRows
  <2>3. takings' = [takings EXCEPT ![i] = [oneRow EXCEPT !.voided = TRUE]] /\ paidOut' = paidOut
    BY <1>4, <2>1 DEF VoidTaking, CashTypes, CashRows
  <2>4. QED
    BY <2>2, <2>3 DEF CashTypes, CashRows
<1>5. banking' = banking /\ doing' = doing /\ overlapped' = (overlapped \/ Busy # {})
  BY DEF PayOut, TakeBack, TakeCash, VoidTaking, Aside
<1>6. takings' \in [Takings -> TakingRows \cup {None}] /\ paidOut' \in [People -> Nat]
  BY <1>1, <1>2, <1>3, <1>4 DEF CashTypes, CashRows
<1>7. QED
  BY <1>5, <1>6

LEMMA CashTaken ==
  ASSUME CashTypes, NEW r \in Requests,
         \/ \E me, holder \in People, a \in Amounts : ReadHolding(r, me, holder, a)
         \/ \E me \in People, b \in Bankings : ReadToConfirm(r, me, b) \/ ReadToVoid(r, me, b)
  PROVE  /\ \E ask \in CashAsks :
              /\ doing' = [doing EXCEPT ![r] = ask]
              /\ ask.kind = "bank" => ask.amount <= StillHolding(ask.holder)
              /\ ask.kind = "confirm" => Confirmable(ask.me, ask.banking)
              /\ ask.kind = "void" => banking[ask.banking] # None /\ ~banking[ask.banking].refused
         /\ overlapped' = (overlapped \/ Busy # {})
         /\ takings' = takings /\ paidOut' = paidOut /\ banking' = banking
<1>1. ASSUME NEW me \in People, NEW holder \in People, NEW a \in Amounts, ReadHolding(r, me, holder, a)
      PROVE  \E ask \in CashAsks :
               doing' = [doing EXCEPT ![r] = ask] /\ ask.kind = "bank" /\ ask.amount <= StillHolding(ask.holder)
  <2> DEFINE ask == [kind |-> "bank", me |-> me, holder |-> holder, amount |-> a]
  <2>1. ask \in CashAsks /\ ask.kind = "bank" /\ ask.holder = holder /\ ask.amount = a
    BY DEF CashAsks
  <2>2. doing' = [doing EXCEPT ![r] = ask] /\ a <= StillHolding(holder)
    BY <1>1 DEF ReadHolding, Take
  <2> HIDE DEF ask
  <2>3. QED
    BY <2>1, <2>2
<1>2. ASSUME NEW me \in People, NEW b \in Bankings, ReadToConfirm(r, me, b)
      PROVE  \E ask \in CashAsks :
               doing' = [doing EXCEPT ![r] = ask] /\ ask.kind = "confirm" /\ Confirmable(ask.me, ask.banking)
  <2> DEFINE ask == [kind |-> "confirm", me |-> me, banking |-> b]
  <2>1. ask \in CashAsks /\ ask.kind = "confirm" /\ ask.me = me /\ ask.banking = b
    BY DEF CashAsks
  <2>2. doing' = [doing EXCEPT ![r] = ask] /\ Confirmable(me, b)
    BY <1>2 DEF ReadToConfirm, Take
  <2> HIDE DEF ask
  <2>3. QED
    BY <2>1, <2>2
<1>3. ASSUME NEW me \in People, NEW b \in Bankings, ReadToVoid(r, me, b)
      PROVE  \E ask \in CashAsks :
               /\ doing' = [doing EXCEPT ![r] = ask] /\ ask.kind = "void"
               /\ banking[ask.banking] # None /\ ~banking[ask.banking].refused
  <2> DEFINE ask == [kind |-> "void", me |-> me, banking |-> b]
  <2>1. ask \in CashAsks /\ ask.kind = "void" /\ ask.banking = b
    BY DEF CashAsks
  <2>2. doing' = [doing EXCEPT ![r] = ask] /\ banking[b] # None /\ ~banking[b].refused
    BY <1>3 DEF ReadToVoid, Take
  <2> HIDE DEF ask
  <2>3. QED
    BY <2>1, <2>2
<1>4. /\ overlapped' = (overlapped \/ Busy # {})
      /\ takings' = takings /\ paidOut' = paidOut /\ banking' = banking
  BY DEF ReadHolding, ReadToConfirm, ReadToVoid, Take, cashVars
<1>5. \E ask \in CashAsks :
        /\ doing' = [doing EXCEPT ![r] = ask]
        /\ ask.kind = "bank" => ask.amount <= StillHolding(ask.holder)
        /\ ask.kind = "confirm" => Confirmable(ask.me, ask.banking)
        /\ ask.kind = "void" => banking[ask.banking] # None /\ ~banking[ask.banking].refused
  <2>1. CASE \E me, holder \in People, a \in Amounts : ReadHolding(r, me, holder, a)
    <3>1. PICK ask \in CashAsks :
            doing' = [doing EXCEPT ![r] = ask] /\ ask.kind = "bank" /\ ask.amount <= StillHolding(ask.holder)
      BY <1>1, <2>1
    <3>2. QED
      BY <3>1
  <2>2. CASE \E me \in People, b \in Bankings : ReadToConfirm(r, me, b)
    <3>1. PICK ask \in CashAsks :
            doing' = [doing EXCEPT ![r] = ask] /\ ask.kind = "confirm" /\ Confirmable(ask.me, ask.banking)
      BY <1>2, <2>2
    <3>2. QED
      BY <3>1
  <2>3. CASE \E me \in People, b \in Bankings : ReadToVoid(r, me, b)
    <3>1. PICK ask \in CashAsks :
            /\ doing' = [doing EXCEPT ![r] = ask] /\ ask.kind = "void"
            /\ banking[ask.banking] # None /\ ~banking[ask.banking].refused
      BY <1>3, <2>3
    <3>2. QED
      BY <3>1
  <2>4. QED
    BY <2>1, <2>2, <2>3
<1>6. QED
  BY <1>4, <1>5

\* The write a request ends with: one row, whose holder stays and which is not taken away.
LEMMA BankingWritten ==
  ASSUME CashTypes, NEW r \in Requests,
         \/ \E b \in Bankings : RecordBanking(r, b)
         \/ ConfirmBanking(r) \/ VoidBanking(r)
  PROVE  /\ \E b \in Bankings, oneRow \in BankingRows :
              banking' = [banking EXCEPT ![b] = oneRow] /\ (banking[b] # None => oneRow.by = banking[b].by)
         /\ doing' = [doing EXCEPT ![r] = None] /\ doing[r] # None /\ overlapped' = overlapped
         /\ takings' = takings /\ paidOut' = paidOut
<1>1. /\ doing' = [doing EXCEPT ![r] = None] /\ doing[r] # None /\ overlapped' = overlapped
      /\ takings' = takings /\ paidOut' = paidOut
  BY DEF RecordBanking, ConfirmBanking, VoidBanking, Finish, Asked
<1>2. \E b \in Bankings, oneRow \in BankingRows :
        banking' = [banking EXCEPT ![b] = oneRow] /\ (banking[b] # None => oneRow.by = banking[b].by)
  <2>1. ASSUME NEW b \in Bankings, RecordBanking(r, b)
        PROVE  \E oneRow \in BankingRows : banking[b] = None /\ banking' = [banking EXCEPT ![b] = oneRow]
    BY <2>1, RecordedBankingIs
  <2>2. ASSUME ConfirmBanking(r)
        PROVE  \E b \in Bankings, oneRow \in BankingRows :
                 oneRow.by = banking[b].by /\ banking' = [banking EXCEPT ![b] = oneRow]
    BY <2>2, ConfirmedBankingIs
  <2>3. ASSUME VoidBanking(r)
        PROVE  \E b \in Bankings, oneRow \in BankingRows :
                 oneRow.by = banking[b].by /\ banking' = [banking EXCEPT ![b] = oneRow]
    BY <2>3, VoidedBankingIs
  <2>4. QED
    BY <2>1, <2>2, <2>3
<1>3. QED
  BY <1>1, <1>2

LEMMA CashTypesStay ==
  ASSUME CashTypes, [CashNext]_<<deskVars, cashVars>>
  PROVE  CashTypes'
<1>1. CASE \/ \E p \in People, a \in Amounts :
                PayOut(p, a) \/ TakeBack(p, a) \/ \E i \in Takings, d \in Dates : TakeCash(i, p, a, d)
           \/ \E i \in Takings : VoidTaking(i)
  <2>1. /\ takings' \in [Takings -> TakingRows \cup {None}] /\ paidOut' \in [People -> Nat]
        /\ banking' = banking /\ doing' = doing /\ overlapped' = (overlapped \/ Busy # {})
    BY <1>1, MoneyMoves
  <2>2. QED
    BY <2>1 DEF CashTypes, CashRows, Asked
<1>2. ASSUME NEW r \in Requests,
             \/ \E me, holder \in People, a \in Amounts : ReadHolding(r, me, holder, a)
             \/ \E me \in People, b \in Bankings : ReadToConfirm(r, me, b) \/ ReadToVoid(r, me, b)
      PROVE  CashTypes'
  <2>1. PICK ask \in CashAsks :
          /\ doing' = [doing EXCEPT ![r] = ask]
          /\ ask.kind = "confirm" => Confirmable(ask.me, ask.banking)
          /\ ask.kind = "void" => banking[ask.banking] # None
    BY <1>2, CashTaken
  <2>2. /\ overlapped' \in BOOLEAN
        /\ takings' = takings /\ paidOut' = paidOut /\ banking' = banking
    BY <1>2, CashTaken
  <2>3. doing' \in [Requests -> CashAsks \cup {None}]
    BY <2>1 DEF CashTypes, CashRows
  <2>4. ASSUME NEW q \in Requests
        PROVE  /\ Asked(q, "confirm")' => LET b == doing'[q].banking
                                          IN  banking[b] # None /\ MayConfirm(doing'[q].me, banking[b].by)
               /\ Asked(q, "void")' => banking[doing'[q].banking] # None
    <3>1. CASE q = r
      BY <2>1, <3>1 DEF CashTypes, CashRows, Asked, Confirmable
    <3>2. CASE q # r
      BY <2>1, <3>2 DEF CashTypes, CashRows, Asked
    <3>3. QED
      BY <3>1, <3>2
  <2>5. QED
    BY <2>2, <2>3, <2>4 DEF CashTypes, CashRows
<1>3. ASSUME NEW r \in Requests,
             \/ \E b \in Bankings : RecordBanking(r, b)
             \/ ConfirmBanking(r) \/ VoidBanking(r)
      PROVE  CashTypes'
  <2>1. PICK b \in Bankings, oneRow \in BankingRows :
          banking' = [banking EXCEPT ![b] = oneRow] /\ (banking[b] # None => oneRow.by = banking[b].by)
    BY <1>3, BankingWritten
  <2>2. /\ doing' = [doing EXCEPT ![r] = None] /\ overlapped' = overlapped
        /\ takings' = takings /\ paidOut' = paidOut
    BY <1>3, BankingWritten
  <2>3. /\ banking' \in [Bankings -> BankingRows \cup {None}] /\ oneRow # None
        /\ \A c \in Bankings : banking[c] # None => banking'[c] # None /\ banking'[c].by = banking[c].by
    BY <2>1, CashAssumption DEF CashTypes, CashRows
  <2>4. /\ doing' \in [Requests -> CashAsks \cup {None}]
        /\ \A q \in Requests : doing'[q] # None => doing'[q] = doing[q] /\ q # r
    BY <2>2 DEF CashTypes, CashRows
  <2>5. ASSUME NEW q \in Requests
        PROVE  /\ Asked(q, "confirm")' => LET c == doing'[q].banking
                                          IN  banking'[c] # None /\ MayConfirm(doing'[q].me, banking'[c].by)
               /\ Asked(q, "void")' => banking'[doing'[q].banking] # None
    <3>1. Asked(q, "confirm") \/ Asked(q, "void") => doing[q].banking \in Bankings
      BY DEF CashTypes, CashRows, Asked, CashAsks
    <3>2. QED
      BY <2>3, <2>4, <3>1 DEF CashTypes, CashRows, Asked
  <2>6. QED
    BY <2>2, <2>3, <2>4, <2>5 DEF CashTypes, CashRows
<1>4. CASE UNCHANGED <<deskVars, cashVars>>
  BY <1>4 DEF deskVars, cashVars, CashTypes, CashRows, Asked
<1>5. QED
  BY <1>1, <1>2, <1>3, <1>4 DEF CashNext

\* Whoever confirms another's banking is not the one it was with, unless the owner is.
LEMMA ConfirmedByAnotherStays ==
  ASSUME CashTypes, ConfirmedByAnother, [CashNext]_<<deskVars, cashVars>>
  PROVE  ConfirmedByAnother'
<1>1. ASSUME NEW b \in Bankings, NEW oneRow \in BankingRows, banking' = [banking EXCEPT ![b] = oneRow],
             oneRow.confirmedBy # None => oneRow.confirmedBy # oneRow.by \/ Role[oneRow.by] = "owner"
      PROVE  ConfirmedByAnother'
  BY <1>1 DEF CashTypes, CashRows, ConfirmedByAnother
<1>2. \A me, holder : MayConfirm(me, holder) => me # holder \/ Role[holder] = "owner"
  BY DEF MayConfirm
<1>3. ASSUME NEW r \in Requests, NEW b \in Bankings, RecordBanking(r, b)
      PROVE  ConfirmedByAnother'
  <2>1. PICK oneRow \in BankingRows :
          /\ oneRow.confirmedBy \in People => MayConfirm(oneRow.confirmedBy, oneRow.by)
          /\ banking' = [banking EXCEPT ![b] = oneRow]
    BY <1>3, RecordedBankingIs
  <2>2. oneRow.confirmedBy # None => oneRow.confirmedBy \in People
    BY DEF BankingRows
  <2>3. QED
    BY <1>1, <1>2, <2>1, <2>2
<1>4. ASSUME NEW r \in Requests, ConfirmBanking(r)
      PROVE  ConfirmedByAnother'
  <2>1. PICK b \in Bankings, oneRow \in BankingRows :
          MayConfirm(oneRow.confirmedBy, oneRow.by) /\ banking' = [banking EXCEPT ![b] = oneRow]
    BY <1>4, ConfirmedBankingIs
  <2>2. QED
    BY <1>1, <1>2, <2>1
<1>5. ASSUME NEW r \in Requests, VoidBanking(r)
      PROVE  ConfirmedByAnother'
  <2>1. PICK b \in Bankings, oneRow \in BankingRows :
          /\ banking[b] # None /\ oneRow.by = banking[b].by /\ oneRow.confirmedBy = banking[b].confirmedBy
          /\ banking' = [banking EXCEPT ![b] = oneRow]
    BY <1>5, VoidedBankingIs
  <2>2. oneRow.confirmedBy # None => oneRow.confirmedBy # oneRow.by \/ Role[oneRow.by] = "owner"
    BY <2>1 DEF ConfirmedByAnother
  <2>3. QED
    BY <1>1, <2>1, <2>2
<1>6. ASSUME banking' = banking
      PROVE  ConfirmedByAnother'
  BY <1>6 DEF ConfirmedByAnother
<1>7. QED
  BY <1>3, <1>4, <1>5, <1>6, MoneyMoves, CashTaken DEF CashNext, deskVars, cashVars

LEMMA CashQuietStays ==
  ASSUME CashTypes, [CashNext]_<<deskVars, cashVars>>, overlapped \/ (OneAtATime /\ CashAsRead)
  PROVE  (overlapped \/ (OneAtATime /\ CashAsRead))'
<1> SUFFICES ASSUME ~overlapped'
             PROVE  OneAtATime' /\ CashAsRead'
  OBVIOUS
<1>0. ASSUME \A q \in Requests : doing'[q] = None
      PROVE  OneAtATime' /\ CashAsRead'
  BY <1>0 DEF OneAtATime, Busy, CashAsRead, Asked
<1>1. CASE \/ \E p \in People, a \in Amounts :
                PayOut(p, a) \/ TakeBack(p, a) \/ \E i \in Takings, d \in Dates : TakeCash(i, p, a, d)
           \/ \E i \in Takings : VoidTaking(i)
  <2>1. doing' = doing /\ Busy = {}
    BY <1>1, MoneyMoves
  <2>2. QED
    BY <1>0, <2>1 DEF Busy
<1>2. ASSUME NEW r \in Requests,
             \/ \E me, holder \in People, a \in Amounts : ReadHolding(r, me, holder, a)
             \/ \E me \in People, b \in Bankings : ReadToConfirm(r, me, b) \/ ReadToVoid(r, me, b)
      PROVE  OneAtATime' /\ CashAsRead'
  <2>1. PICK ask \in CashAsks :
          /\ doing' = [doing EXCEPT ![r] = ask]
          /\ ask.kind = "bank" => ask.amount <= StillHolding(ask.holder)
          /\ ask.kind = "confirm" => Confirmable(ask.me, ask.banking)
          /\ ask.kind = "void" => ~banking[ask.banking].refused
    BY <1>2, CashTaken
  <2>2. Busy = {} /\ takings' = takings /\ paidOut' = paidOut /\ banking' = banking
    BY <1>2, CashTaken
  <2>3. doing'[r] = ask /\ \A q \in Requests \ {r} : doing'[q] = None
    BY <2>1, <2>2 DEF Busy, CashTypes, CashRows
  <2>4. OneAtATime'
    BY <2>3 DEF OneAtATime, Busy
  <2>5. CashAsRead'
    <3> SUFFICES ASSUME NEW q \in Requests
                 PROVE  (/\ Asked(q, "bank") => doing[q].amount <= StillHolding(doing[q].holder)
                         /\ Asked(q, "confirm") => Confirmable(doing[q].me, doing[q].banking)
                         /\ Asked(q, "void") => ~banking[doing[q].banking].refused)'
      BY DEF CashAsRead
    <3>1. CASE q = r
      <4>1. (Asked(q, "bank") => doing[q].amount <= StillHolding(doing[q].holder))'
        BY <2>1, <2>2, <2>3, <3>1 DEF Asked, StillHolding, Received, Banked, AwaitingWord,
           Confirmed, BankedOf, TakenBy
      <4>2. (Asked(q, "confirm") => Confirmable(doing[q].me, doing[q].banking))'
        BY <2>1, <2>2, <2>3, <3>1 DEF Asked, Confirmable
      <4>3. (Asked(q, "void") => ~banking[doing[q].banking].refused)'
        BY <2>1, <2>2, <2>3, <3>1 DEF Asked
      <4>4. QED
        BY <4>1, <4>2, <4>3
    <3>2. CASE q # r
      BY <2>3, <3>2 DEF Asked
    <3>3. QED
      BY <3>1, <3>2
  <2>6. QED
    BY <2>4, <2>5
<1>3. ASSUME NEW r \in Requests,
             \/ \E b \in Bankings : RecordBanking(r, b)
             \/ ConfirmBanking(r) \/ VoidBanking(r)
      PROVE  OneAtATime' /\ CashAsRead'
  <2>1. doing' = [doing EXCEPT ![r] = None] /\ doing[r] # None /\ overlapped' = overlapped
    BY <1>3, BankingWritten
  <2>2. \A q \in Requests : doing'[q] = None
    BY <2>1 DEF OneAtATime, Busy, CashTypes, CashRows
  <2>3. QED
    BY <1>0, <2>2
<1>4. CASE UNCHANGED <<deskVars, cashVars>>
  BY <1>4, ZenonT(60) DEF deskVars, cashVars, OneAtATime, Busy, CashAsRead, Asked, Confirmable, StillHolding,
              Received, Banked, AwaitingWord, Confirmed, BankedOf, TakenBy
<1>5. QED
  BY <1>1, <1>2, <1>3, <1>4 DEF CashNext

\* What a banking takes out of somebody's hands was there, and a refused one stays.
LEMMA BankedFromHeld ==
  ASSUME CashInv, CashTypes', CashNext
  PROVE  BankedWithinHeld
<1> SUFFICES ASSUME ~overlapped', NEW p \in People, banking' # banking
             PROVE  StillHolding(p)' >= StillHolding(p) \/ StillHolding(p)' >= 0
  BY DEF BankedWithinHeld
<1>1. CashTypes
  BY DEF CashInv
<1>2. PICK r \in Requests : (\E b \in Bankings : RecordBanking(r, b)) \/ ConfirmBanking(r) \/ VoidBanking(r)
  BY <1>1, MoneyMoves, CashTaken DEF CashNext
<1>3. takings' = takings /\ paidOut' = paidOut /\ OneAtATime /\ CashAsRead
  BY <1>1, <1>2, BankingWritten DEF CashInv
<1>4. ASSUME NEW b \in Bankings, NEW oneRow \in BankingRows, banking' = [banking EXCEPT ![b] = oneRow]
      PROVE  /\ StillHolding(p) \in Int /\ TakenOut(oneRow, p) \in Nat /\ TakenOut(banking[b], p) \in Nat
             /\ StillHolding(p)' = StillHolding(p) - (TakenOut(oneRow, p) - TakenOut(banking[b], p))
  <2>1. TakenOut(oneRow, p) \in Nat /\ TakenOut(banking[b], p) \in Nat
    BY <1>1, OutIsCounted, CashAssumption DEF CashTypes, CashRows, TakenOut, BankingRows
  <2>2. QED
    BY <1>1, <1>3, <1>4, <2>1, HoldingAfter
<1>5. ASSUME NEW b \in Bankings, RecordBanking(r, b)
      PROVE  StillHolding(p)' >= StillHolding(p) \/ StillHolding(p)' >= 0
  <2>1. PICK oneRow \in BankingRows :
          /\ Asked(r, "bank") /\ banking[b] = None
          /\ oneRow.by = doing[r].holder /\ oneRow.amount = doing[r].amount
          /\ banking' = [banking EXCEPT ![b] = oneRow]
    BY <1>1, <1>5, RecordedBankingIs
  <2>2. TakenOut(banking[b], p) = 0
    BY <2>1 DEF TakenOut
  <2>3. /\ StillHolding(p) \in Int /\ TakenOut(oneRow, p) \in Nat /\ TakenOut(banking[b], p) \in Nat
        /\ StillHolding(p)' = StillHolding(p) - (TakenOut(oneRow, p) - TakenOut(banking[b], p))
    BY <1>4, <2>1
  <2>4. CASE p = doing[r].holder
    <3>1. oneRow.amount <= StillHolding(p)
      BY <1>3, <2>1, <2>4 DEF CashAsRead
    <3>2. TakenOut(oneRow, p) <= StillHolding(p)
      <4>1. TakenOut(oneRow, p) = oneRow.amount \/ TakenOut(oneRow, p) = 0
        BY DEF TakenOut
      <4>2. oneRow.amount \in Nat
        BY CashAssumption DEF BankingRows
      <4>3. QED
        BY <2>3, <3>1, <4>1, <4>2
    <3>3. QED
      BY <2>2, <2>3, <3>2
  <2>5. CASE p # doing[r].holder
    <3>1. TakenOut(oneRow, p) = 0
      BY <2>1, <2>5 DEF TakenOut
    <3>2. QED
      BY <2>2, <2>3, <3>1
  <2>6. QED
    BY <2>4, <2>5
<1>6. ASSUME ConfirmBanking(r)
      PROVE  StillHolding(p)' >= StillHolding(p) \/ StillHolding(p)' >= 0
  <2>1. PICK b \in Bankings, oneRow \in BankingRows :
          /\ banking[b] # None /\ oneRow.by = banking[b].by /\ oneRow.amount = banking[b].amount
          /\ oneRow.refused = banking[b].refused /\ banking' = [banking EXCEPT ![b] = oneRow]
    BY <1>1, <1>6, ConfirmedBankingIs
  <2>2. TakenOut(oneRow, p) = TakenOut(banking[b], p)
    BY <2>1, CashAssumption DEF TakenOut
  <2>3. /\ StillHolding(p) \in Int /\ TakenOut(oneRow, p) \in Nat /\ TakenOut(banking[b], p) \in Nat
        /\ StillHolding(p)' = StillHolding(p) - (TakenOut(oneRow, p) - TakenOut(banking[b], p))
    BY <1>4, <2>1
  <2>4. QED
    BY <2>2, <2>3
<1>7. ASSUME VoidBanking(r)
      PROVE  StillHolding(p)' >= StillHolding(p) \/ StillHolding(p)' >= 0
  <2>1. PICK b \in Bankings, oneRow \in BankingRows :
          /\ Asked(r, "void") /\ banking[b] # None /\ b = doing[r].banking
          /\ oneRow.by = banking[b].by /\ oneRow.amount = banking[b].amount
          /\ oneRow.refused = TRUE /\ oneRow.confirmedBy = banking[b].confirmedBy
          /\ banking' = [banking EXCEPT ![b] = oneRow]
    BY <1>1, <1>7, VoidedBankingIs
  <2>2. TakenOut(oneRow, p) = 0
    BY <2>1 DEF TakenOut
  <2>3. /\ StillHolding(p) \in Int /\ TakenOut(oneRow, p) \in Nat /\ TakenOut(banking[b], p) \in Nat
        /\ StillHolding(p)' = StillHolding(p) - (TakenOut(oneRow, p) - TakenOut(banking[b], p))
    BY <1>4, <2>1
  <2>4. QED
    BY <2>2, <2>3
<1>8. QED
  BY <1>2, <1>5, <1>6, <1>7

LEMMA RefusedIsLeft ==
  ASSUME CashInv, CashNext
  PROVE  RefusedStaysRefused
<1> SUFFICES ASSUME NEW x \in Bankings, banking[x] # None, banking[x].refused, ~overlapped'
             PROVE  banking'[x] = banking[x]
  BY DEF RefusedStaysRefused
<1>1. CashTypes
  BY DEF CashInv
<1>2. ASSUME NEW r \in Requests, (\E b \in Bankings : RecordBanking(r, b)) \/ ConfirmBanking(r) \/ VoidBanking(r)
      PROVE  CashAsRead
  BY <1>1, <1>2, BankingWritten DEF CashInv
<1>3. ASSUME NEW r \in Requests, NEW b \in Bankings, RecordBanking(r, b)
      PROVE  banking'[x] = banking[x]
  <2>1. PICK oneRow : banking[b] = None /\ banking' = [banking EXCEPT ![b] = oneRow]
    BY <1>1, <1>3, RecordedBankingIs
  <2>2. QED
    BY <1>1, <2>1 DEF CashTypes, CashRows
<1>4. ASSUME NEW r \in Requests, ConfirmBanking(r)
      PROVE  banking'[x] = banking[x]
  <2>1. PICK b \in Bankings, oneRow \in BankingRows :
          Asked(r, "confirm") /\ b = doing[r].banking /\ banking' = [banking EXCEPT ![b] = oneRow]
    BY <1>1, <1>4, ConfirmedBankingIs
  <2>2. ~banking[b].refused
    BY <1>2, <1>4, <2>1 DEF CashAsRead, Confirmable
  <2>3. QED
    BY <1>1, <2>1, <2>2 DEF CashTypes, CashRows
<1>5. ASSUME NEW r \in Requests, VoidBanking(r)
      PROVE  banking'[x] = banking[x]
  <2>1. PICK b \in Bankings, oneRow \in BankingRows :
          Asked(r, "void") /\ b = doing[r].banking /\ banking' = [banking EXCEPT ![b] = oneRow]
    BY <1>1, <1>5, VoidedBankingIs
  <2>2. ~banking[b].refused
    BY <1>2, <1>5, <2>1 DEF CashAsRead
  <2>3. QED
    BY <1>1, <2>1, <2>2 DEF CashTypes, CashRows
<1>6. QED
  BY <1>1, <1>3, <1>4, <1>5, MoneyMoves, CashTaken DEF CashNext

\* No banking is confirmed by the person whose cash it is, the owner apart, whatever
\* requests overlap (mayConfirm); and while they do not, a banking takes no more than
\* its holder holds and one marked not received is not written again
\* (cash.service.ts: the amount is compared with what is held, and a banking that is
\* voided or confirmed is refused, before the row is written).
THEOREM CashStaysAccountedFor == CashSpec => CashIsAccountedFor
<1>1. DeskInit /\ CashInit => CashInv
  <2> SUFFICES ASSUME DeskInit, CashInit
               PROVE  CashInv
    OBVIOUS
  <2>1. \A r \in Requests : doing[r] = None /\ \A kind : ~Asked(r, kind)
    BY DEF DeskInit, Asked
  <2>2. CashTypes
    BY <2>1 DEF CashTypes, CashRows, DeskInit, CashInit
  <2>3. ConfirmedByAnother
    BY DEF ConfirmedByAnother, CashInit
  <2>4. OneAtATime /\ CashAsRead
    BY <2>1 DEF OneAtATime, Busy, CashAsRead
  <2>5. QED
    BY <2>2, <2>3, <2>4 DEF CashInv
<1>2. CashInv /\ [CashNext]_<<deskVars, cashVars>> => CashInv'
  BY CashTypesStay, ConfirmedByAnotherStays, CashQuietStays DEF CashInv
<1>3. CashInv /\ CashInv' /\ [CashNext]_<<deskVars, cashVars>>
        => [ConfirmedByAnother' /\ BankedWithinHeld /\ RefusedStaysRefused]_<<deskVars, cashVars>>
  <2> SUFFICES ASSUME CashInv, CashInv', CashNext
               PROVE  ConfirmedByAnother' /\ BankedWithinHeld /\ RefusedStaysRefused
    OBVIOUS
  <2>1. ConfirmedByAnother' /\ CashTypes'
    BY DEF CashInv
  <2>2. QED
    BY <2>1, BankedFromHeld, RefusedIsLeft
<1>4. QED
  BY <1>1, <1>2, <1>3, PTL DEF CashSpec, CashIsAccountedFor

-----------------------------------------------------------------------------
(* The accounts: what holds of people, shops, links and sessions however    *)
(* many requests are under way and whenever they die.                       *)

AccountsTypes ==
  /\ AccountsTypeOK /\ overlapped \in BOOLEAN
  /\ doing \in [Requests -> AccountAsk \cup {None}]

\* The steps each handler goes through.
Steps(kind) ==
  CASE kind = "signup" -> {"write", "issue"}
    [] kind \in {"register", "cli"} -> {"write"}
    [] kind = "verify" -> {"clear", "issue"}
    [] kind = "resend" -> {"store"}
    [] kind = "login" -> {"issue"}
    [] kind = "google" -> {"user", "member", "open", "join", "seed", "issue"}
    [] kind = "forgot" -> {"void", "mint"}
    [] kind = "password" -> {"set", "mark", "revoke"}

\* What a request names is what it is about: the shop Google sign-up opened, the link of
\* a reset.
PlacesKept ==
  \A r \in Requests : doing[r] # None =>
    /\ doing[r].step \in Steps(doing[r].kind)
    /\ At(r, "google", "join") \/ At(r, "google", "seed") =>
         /\ doing[r].at \in Shops /\ shop[doing[r].at] # None
         /\ shop[doing[r].at].by = Who(r)
    /\ Asked(r, "password") => doing[r].at \in Links \cup {None}
    /\ Asked(r, "password") /\ doing[r].at # None =>
         link[doing[r].at] # None /\ link[doing[r].at].of = Who(r)
    /\ At(r, "password", "mark") => doing[r].at # None

\* Requests that have proved who is asking.
Coming(r) == doing[r] # None /\ doing[r].step \in {"issue", "member", "open", "join", "seed"}

\* Shops, sessions and those coming in have an account, and whoever came in had
\* proved the address.
RowsAgree ==
  /\ \A s \in Shops : shop[s] # None /\ shop[s].owned => user[shop[s].by] # None
  /\ \A x \in session : user[x.of] # None
  /\ \A p \in Founders : user[p] # None /\ user[p].in => user[p].verified \/ user[p].google
  /\ \A r \in Requests : Coming(r) /\ ~doing[r].swept =>
       user[Who(r)] # None /\ (user[Who(r)].verified \/ user[Who(r)].google)

\* What is half done has a request that will finish it.
Finishing ==
  /\ \A s \in Shops : shop[s] # None /\ ~shop[s].seeded =>
       \E r \in Requests : (At(r, "google", "join") \/ At(r, "google", "seed")) /\ doing[r].at = s
  /\ \A p \in Founders : user[p] # None => Belongs(p) \/ \E r \in Requests :
       (At(r, "google", "member") \/ At(r, "google", "open") \/ At(r, "google", "join")) /\ Who(r) = p

\* While requests do not overlap there is one at a time, and what it read still holds:
\* it has not been swept by, it opens the one shop its person has, and no row it read
\* has changed under it.
OneAtOnce == \A q, r \in Busy : q = r

NoneSwept == \A r \in Busy : ~doing[r].swept

OneShopApiece ==
  \A s, t \in Shops : shop[s] # None /\ shop[t] # None /\ shop[s].owned /\ shop[t].owned
                      /\ shop[s].by = shop[t].by => s = t

OpenersHaveNone == \A r \in Requests : At(r, "google", "open") \/ At(r, "google", "join") => ~Belongs(Who(r))

OneLinkEach ==
  \A l, m \in Links : link[l] # None /\ link[m] # None /\ ~link[l].used /\ ~link[m].used
                      /\ link[l].of = link[m].of => l = m

MintersVoidedAll == \A r \in Requests : At(r, "forgot", "mint") => \A l \in LinksOf(Who(r)) : link[l].used

ComersKnowThePass == \A r \in Requests : Coming(r) => user[Who(r)] # None /\ doing[r].pass = user[Who(r)].pass

Undisturbed ==
  /\ OneAtOnce /\ NoneSwept /\ OneShopApiece /\ OpenersHaveNone
  /\ OneLinkEach /\ MintersVoidedAll /\ ComersKnowThePass

\* And unless one dies half way, a link that is good has set no password yet but the one
\* being set, and no session is older than the password.
GoodLinksSetNone ==
  \A l \in Links : link[l] # None => link[l].set <= 1 /\
    (~link[l].used => link[l].set = 0 \/ \E r \in Requests : At(r, "password", "mark") /\ doing[r].at = l)

SettersHoldGoodLinks ==
  \A r \in Requests : At(r, "password", "set") /\ doing[r].at # None =>
    ~link[doing[r].at].used /\ link[doing[r].at].set = 0

NoSessionIsOlder ==
  \A x \in session : user[x.of].pass = x.pass \/ \E r \in Requests :
    (At(r, "password", "mark") \/ At(r, "password", "revoke")) /\ Who(r) = x.of

Undied == GoodLinksSetNone /\ SettersHoldGoodLinks /\ NoSessionIsOlder

AccountsInv ==
  /\ AccountsTypes /\ PlacesKept /\ RowsAgree
  /\ (died \/ Finishing) /\ (overlapped \/ Undisturbed) /\ (overlapped \/ died \/ Undied)


-----------------------------------------------------------------------------
(* What the writes make of a row. *)

LEMMA AskSteps == \A a \in AccountAsk, s \in StepNames : [a EXCEPT !.step = s] \in AccountAsk
  BY DEF AccountAsk

LEMMA AskProves ==
  \A a \in AccountAsk, s \in StepNames, n \in 0..MaxPasswords :
    /\ [a EXCEPT !.step = s, !.pass = n] \in AccountAsk
    /\ [a EXCEPT !.step = s, !.pass = n, !.swept = FALSE] \in AccountAsk
  BY DEF AccountAsk

LEMMA AskOpens ==
  \A a \in AccountAsk, s \in StepNames, at \in Shops : [a EXCEPT !.step = s, !.at = at] \in AccountAsk
  BY DEF AccountAsk

LEMMA AskPass == \A a \in AccountAsk, n \in 0..MaxPasswords : [a EXCEPT !.pass = n] \in AccountAsk
  BY DEF AccountAsk

LEMMA AskNames ==
  \A a \in AccountAsk :
    /\ \A at \in Links : [a EXCEPT !.at = at] \in AccountAsk
    /\ \A b \in BOOLEAN : [a EXCEPT !.found = b] \in AccountAsk
  BY DEF AccountAsk

LEMMA AskSwept == \A a \in AccountAsk : [a EXCEPT !.swept = TRUE] \in AccountAsk
  BY DEF AccountAsk

LEMMA AskRead ==
  \A kind \in AskKinds, p \in Founders, s \in StepNames : Asks(kind, p, s) \in AccountAsk
  BY AccountsAssumption DEF AccountAsk, Asks

LEMMA AccountWrites ==
  \A a \in Account, n \in 0..MaxPasswords, c \in 0..(LastTick + CodeLife) :
    /\ [a EXCEPT !.in = TRUE] \in Account
    /\ [a EXCEPT !.code = c] \in Account
    /\ [a EXCEPT !.google = TRUE] \in Account
    /\ [a EXCEPT !.pass = n] \in Account
  BY DEF Account

LEMMA AccountCleared == \A a \in Account : [a EXCEPT !.code = None, !.verified = TRUE] \in Account
  BY DEF Account

LEMMA ShopWrites ==
  \A s \in ShopRow : [s EXCEPT !.owned = TRUE] \in ShopRow /\ [s EXCEPT !.seeded = TRUE] \in ShopRow
                     /\ [s EXCEPT !.owned = FALSE] \in ShopRow
  BY DEF ShopRow

LEMMA LinkWrites ==
  \A l \in LinkRow, n \in Nat : [l EXCEPT !.used = TRUE] \in LinkRow /\ [l EXCEPT !.set = n] \in LinkRow
  BY DEF LinkRow

\* A new id has no row.
LEMMA UnusedIsFree ==
  /\ \A i : Room(shop) /\ i = Unused(shop) => i \in DOMAIN shop /\ shop[i] = None
  /\ \A i : Room(link) /\ i = Unused(link) => i \in DOMAIN link /\ link[i] = None
  BY DEF Room, Unused


LEMMA StepsAre ==
  /\ Steps("signup") = {"write", "issue"} /\ Steps("verify") = {"clear", "issue"}
  /\ Steps("google") = {"user", "member", "open", "join", "seed", "issue"}
  /\ Steps("forgot") = {"void", "mint"} /\ Steps("password") = {"set", "mark", "revoke"}
  /\ Steps("login") = {"issue"} /\ Steps("resend") = {"store"}
  /\ Steps("register") = {"write"} /\ Steps("cli") = {"write"}
  BY SMT DEF Steps

\* What becomes of the requests when one finishes, goes on or is taken up.
LEMMA FinishIs ==
  ASSUME AccountsTypes, NEW r \in Requests, Finish(r)
  PROVE  /\ doing' \in [Requests -> AccountAsk \cup {None}] /\ overlapped' \in BOOLEAN
         /\ overlapped' = overlapped /\ doing'[r] = None
         /\ \A q \in Requests : q # r => doing'[q] = doing[q]
  BY DEF AccountsTypes, Finish

LEMMA MovedIs ==
  ASSUME AccountsTypes, NEW r \in Requests, NEW ask \in AccountAsk,
         doing' = [doing EXCEPT ![r] = ask], overlapped' = overlapped
  PROVE  /\ doing' \in [Requests -> AccountAsk \cup {None}] /\ overlapped' \in BOOLEAN
         /\ doing'[r] = ask /\ doing'[r] # None
         /\ \A q \in Requests : q # r => doing'[q] = doing[q]
  BY AccountsAssumption DEF AccountsTypes

LEMMA GoOnIs ==
  ASSUME AccountsTypes, NEW r \in Requests, NEW s \in StepNames, GoOn(r, s), doing[r] # None
  PROVE  /\ doing' \in [Requests -> AccountAsk \cup {None}] /\ overlapped' \in BOOLEAN
         /\ overlapped' = overlapped
         /\ doing'[r] # None /\ doing'[r].step = s /\ doing'[r].kind = doing[r].kind
         /\ doing'[r].who = doing[r].who /\ doing'[r].at = doing[r].at
         /\ doing'[r].pass = doing[r].pass /\ doing'[r].swept = doing[r].swept
         /\ \A q \in Requests : q # r => doing'[q] = doing[q]
<1>1. doing[r] \in AccountAsk
  BY DEF AccountsTypes
<1> DEFINE ask == [doing[r] EXCEPT !.step = s]
<1>2. /\ ask \in AccountAsk /\ ask.step = s /\ ask.kind = doing[r].kind /\ ask.who = doing[r].who
      /\ ask.at = doing[r].at /\ ask.pass = doing[r].pass /\ ask.swept = doing[r].swept
  BY <1>1 DEF AccountAsk
<1>3. doing' = [doing EXCEPT ![r] = ask] /\ overlapped' = overlapped
  BY DEF GoOn
<1> HIDE DEF ask
<1>4. QED
  BY <1>2, <1>3, MovedIs

LEMMA TakeIs ==
  ASSUME AccountsTypes, NEW r \in Requests, NEW ask \in AccountAsk, Take(r, ask)
  PROVE  /\ doing' \in [Requests -> AccountAsk \cup {None}] /\ overlapped' \in BOOLEAN
         /\ doing[r] = None /\ doing'[r] = ask /\ doing'[r] # None
         /\ \A q \in Requests : q # r => doing'[q] = doing[q]
         /\ overlapped' = (overlapped \/ \E q \in Requests : doing[q] # None)
<1>1. doing[r] = None /\ doing' = [doing EXCEPT ![r] = ask]
      /\ overlapped' = (overlapped \/ \E q \in Requests : doing[q] # None)
  BY DEF Take, Busy
<1>2. QED
  BY <1>1, AccountsAssumption DEF AccountsTypes

LEMMA AskerIs ==
  ASSUME AccountsTypes, NEW r \in Requests, doing[r] # None
  PROVE  doing[r] \in AccountAsk /\ Who(r) \in Founders /\ doing[r].pass \in 0..MaxPasswords
  BY DEF AccountsTypes, AccountAsk, Who

\* An account made with its shop, as registering and signing up make it.
MadeWhole(p, s, oneRow) ==
  /\ user[p] = None /\ shop[s] = None
  /\ user' = [user EXCEPT ![p] = oneRow]
  /\ shop' = [shop EXCEPT ![s] = [by |-> p, owned |-> TRUE, seeded |-> TRUE]]

LEMMA WholeIs ==
  ASSUME AccountsTypes, NEW p \in Founders, NEW oneRow \in Account, user[p] = None, Room(shop),
         InOneTransaction(p, oneRow)
  PROVE  \E s \in Shops : MadeWhole(p, s, oneRow)
<1>1. Unused(shop) \in Shops /\ shop[Unused(shop)] = None
  BY UnusedIsFree DEF AccountsTypes, AccountsTypeOK
<1>2. QED
  BY <1>1 DEF InOneTransaction, Whole, MadeWhole

LEMMA WholeTypes ==
  ASSUME AccountsTypes, NEW p \in Founders, NEW s \in Shops, NEW oneRow \in Account, MadeWhole(p, s, oneRow)
  PROVE  /\ user' \in [Founders -> Account \cup {None}] /\ shop' \in [Shops -> ShopRow \cup {None}]
         /\ user' [p] = oneRow /\ oneRow # None /\ \A q \in Founders : q # p => user'[q] = user[q]
         /\ shop'[s] = [by |-> p, owned |-> TRUE, seeded |-> TRUE] /\ shop'[s] # None
         /\ \A t \in Shops : t # s => shop'[t] = shop[t]
<1>1. [by |-> p, owned |-> TRUE, seeded |-> TRUE] \in ShopRow
  BY DEF ShopRow
<1>2. QED
  BY <1>1, AccountsAssumption DEF AccountsTypes, AccountsTypeOK, MadeWhole

LEMMA RegisterIs ==
  ASSUME AccountsTypes, NEW r \in Requests, Register(r)
  PROVE  /\ Finish(r) /\ Asked(r, "register") /\ UNCHANGED <<tick, link, session, died>>
         /\ \/ UNCHANGED <<user, shop>>
            \/ \E s \in Shops, oneRow \in Account : MadeWhole(Who(r), s, oneRow) /\ ~oneRow.in
<1>1. Who(r) \in Founders
  BY DEF AccountsTypes, Register, At, Asked, Who, AccountAsk
<1> DEFINE oneRow == [verified |-> FALSE, google |-> FALSE, pass |-> 1, code |-> tick + CodeLife, in |-> FALSE]
<1>2. oneRow \in Account /\ ~oneRow.in
  BY AccountsAssumption DEF Account, AccountsTypes, AccountsTypeOK
<1> HIDE DEF oneRow
<1>3. CASE user[Who(r)] = None /\ Room(shop) /\ InOneTransaction(Who(r), oneRow)
  BY <1>1, <1>2, <1>3, WholeIs DEF Register, At
<1>4. CASE UNCHANGED <<user, shop>>
  BY <1>4 DEF Register, At
<1>5. QED
  BY <1>3, <1>4 DEF Register, oneRow

\* Those coming in know the password still, if the one at work knew it before.
LEMMA ComersStay ==
  ASSUME ComersKnowThePass, NEW r \in Requests, user' = user,
         \A q \in Requests : q # r => doing'[q] = doing[q],
         Coming(r) /\ doing'[r].who = doing[r].who /\ doing'[r].pass = doing[r].pass
  PROVE  ComersKnowThePass'
<1>1. \A q \in Requests : q # r => (Coming(q)' <=> Coming(q)) /\ Who(q)' = Who(q) /\ doing'[q].pass = doing[q].pass
  BY DEF Coming, Who
<1>2. Who(r)' = Who(r) /\ doing'[r].pass = doing[r].pass /\ Coming(r)
  BY DEF Who
<1>3. QED
  BY <1>1, <1>2 DEF ComersKnowThePass

-----------------------------------------------------------------------------
(* Each step keeps the invariant. *)

LEMMA RegisterKeeps ==
  ASSUME AccountsInv, NEW r \in Requests, Register(r)
  PROVE  AccountsInv'
<1> DEFINE p == Who(r)
<1> USE DEF AccountsInv
<1>0. /\ AccountsTypes /\ Finish(r) /\ Asked(r, "register") /\ UNCHANGED <<tick, link, session, died>>
      /\ doing \in [Requests -> AccountAsk \cup {None}] /\ doing[r] # None /\ p \in Founders /\ doing[r] \in AccountAsk
  BY RegisterIs DEF AccountsTypes, Asked, AccountAsk, Who
<1>d. /\ doing' \in [Requests -> AccountAsk \cup {None}] /\ overlapped' \in BOOLEAN /\ overlapped' = overlapped
      /\ doing'[r] = None /\ \A q \in Requests : q # r => doing'[q] = doing[q]
  BY <1>0, FinishIs DEF Finish
<1>1. CASE UNCHANGED <<user, shop>>
  <2>1. AccountsTypes'
    BY <1>0, <1>1, <1>d DEF AccountsTypes, AccountsTypeOK
  <2>2. PlacesKept'
    BY <1>0, <1>1, <1>d DEF PlacesKept, At, Asked, Who
  <2>3. RowsAgree'
    BY <1>0, <1>1, <1>d DEF RowsAgree, Coming, Who
  <2>4. (died \/ Finishing)'
    BY <1>0, <1>1, <1>d DEF Finishing, Belongs, At, Asked, Who
  <2>5. (overlapped \/ Undisturbed)'
    BY <1>0, <1>1, <1>d, SMTT(60) DEF Undisturbed, OneAtOnce, NoneSwept, OneShopApiece, OpenersHaveNone, OneLinkEach,
       MintersVoidedAll, ComersKnowThePass, Busy, LinksOf, Coming, Belongs, At, Asked, Who
  <2>6. (overlapped \/ died \/ Undied)'
    BY <1>0, <1>1, <1>d, SMTT(60) DEF Undied, GoodLinksSetNone, SettersHoldGoodLinks, NoSessionIsOlder, At, Asked, Who
  <2>7. QED BY <2>1, <2>2, <2>3, <2>4, <2>5, <2>6
<1>2. ASSUME NEW s \in Shops, NEW oneRow \in Account, MadeWhole(p, s, oneRow), ~oneRow.in PROVE AccountsInv'
  <2>0. /\ user' \in [Founders -> Account \cup {None}] /\ shop' \in [Shops -> ShopRow \cup {None}]
        /\ user'[p] = oneRow /\ oneRow # None /\ \A q \in Founders : q # p => user'[q] = user[q]
        /\ shop'[s] = [by |-> p, owned |-> TRUE, seeded |-> TRUE] /\ shop'[s] # None
        /\ \A t \in Shops : t # s => shop'[t] = shop[t]
    BY <1>0, <1>2, WholeTypes
  <2>w. user[p] = None /\ shop[s] = None
    BY <1>2 DEF MadeWhole
  <2>1. AccountsTypes'
    BY <1>0, <2>0, <1>d DEF AccountsTypes, AccountsTypeOK
  <2>2. PlacesKept'
    BY <1>0, <2>0, <2>w, <1>d DEF PlacesKept, At, Asked, Who
  <2>3. RowsAgree'
    BY <1>0, <1>2, <2>0, <2>w, <1>d DEF RowsAgree, Coming, Who, AccountsTypes, AccountsTypeOK, AccountAsk, ShopRow
  <2>4. (died \/ Finishing)'
    BY <1>0, <1>2, <2>0, <2>w, <1>d DEF Finishing, Belongs, At, Asked, Who
  <2>5. (overlapped \/ Undisturbed)'
    <3> SUFFICES ASSUME Undisturbed PROVE Undisturbed'
      BY <1>0, <1>2, <2>0, <2>w, <1>d
    <3>1. OneAtOnce'
      BY <1>0, <1>2, <2>0, <2>w, <1>d DEF Undisturbed, OneAtOnce, Busy
    <3>2. NoneSwept'
      BY <1>0, <1>2, <2>0, <2>w, <1>d DEF Undisturbed, NoneSwept, Busy
    <3>3. OneShopApiece'
      BY <1>0, <1>2, <2>0, <2>w, <1>d DEF Undisturbed, OneShopApiece, RowsAgree
    <3>4. OpenersHaveNone'
      BY <1>0, <1>2, <2>0, <2>w, <1>d DEF Undisturbed, OpenersHaveNone, Belongs, At, Asked, Who, OneAtOnce, Busy
    <3>5. OneLinkEach'
      BY <1>0, <1>2, <2>0, <2>w, <1>d DEF Undisturbed, OneLinkEach
    <3>6. MintersVoidedAll'
      BY <1>0, <1>2, <2>0, <2>w, <1>d DEF Undisturbed, MintersVoidedAll, LinksOf, At, Asked, Who
    <3>7. ComersKnowThePass'
      BY <1>0, <1>2, <2>0, <2>w, <1>d DEF Undisturbed, ComersKnowThePass, Coming, Who, OneAtOnce, Busy
    <3>8. QED
      BY <3>1, <3>2, <3>3, <3>4, <3>5, <3>6, <3>7 DEF Undisturbed
  <2>6. (overlapped \/ died \/ Undied)'
    BY <1>0, <1>2, <2>0, <2>w, <1>d, SMTT(60) DEF Undied, GoodLinksSetNone, SettersHoldGoodLinks, NoSessionIsOlder, At, Asked, Who,
       RowsAgree, AccountsTypes, AccountsTypeOK
  <2>7. QED BY <2>1, <2>2, <2>3, <2>4, <2>5, <2>6
<1>3. QED
  BY <1>0, <1>1, <1>2, RegisterIs

LEMMA ResendOtpKeeps ==
  ASSUME AccountsInv, NEW r \in Requests, ResendOtp(r)
  PROVE  AccountsInv'
<1> USE DEF AccountsInv
<1> DEFINE p == Who(r)
<1>a. AccountsTypes /\ At(r, "resend", "store") /\ doing[r] # None /\ Finish(r) /\ UNCHANGED <<tick, shop, link, session, died>>
  BY DEF ResendOtp, At, Asked
<1>b. p \in Founders
  BY <1>a, AskerIs
<1>c. /\ doing' \in [Requests -> AccountAsk \cup {None}] /\ overlapped' \in BOOLEAN
      /\ overlapped' = overlapped /\ doing'[r] = None
      /\ \A q \in Requests : q # r => doing'[q] = doing[q]
  BY <1>a, FinishIs
<1>d. /\ user' \in [Founders -> Account \cup {None}]
      /\ \A q \in Founders : /\ user'[q] = None <=> user[q] = None
                             /\ user[q] # None => /\ user'[q].verified = user[q].verified
                                                  /\ user'[q].google = user[q].google
                                                  /\ user'[q].in = user[q].in
                                                  /\ user'[q].pass = user[q].pass
  <2>1. CASE There(r)
    <3> DEFINE oneRow == [user[p] EXCEPT !.code = tick + CodeLife]
    <3>1. user[p] \in Account /\ tick + CodeLife \in 0..(LastTick + CodeLife)
      BY <1>a, <1>b, <2>1, AccountsAssumption DEF There, AccountsTypes, AccountsTypeOK
    <3>2. /\ oneRow \in Account /\ oneRow.verified = user[p].verified /\ oneRow.google = user[p].google
          /\ oneRow.in = user[p].in /\ oneRow.pass = user[p].pass
      BY <3>1 DEF Account
    <3>3. user' = [user EXCEPT ![p] = oneRow] /\ user[p] # None
      BY <2>1 DEF ResendOtp, There
    <3> HIDE DEF oneRow
    <3>4. QED
      BY <1>a, <1>b, <3>2, <3>3, AccountsAssumption DEF AccountsTypes, AccountsTypeOK
  <2>2. CASE ~There(r)
    BY <1>a, <2>2 DEF ResendOtp, AccountsTypes, AccountsTypeOK
  <2>3. QED BY <2>1, <2>2
<1>1. AccountsTypes'
  BY <1>a, <1>b, <1>c, <1>d DEF AccountsTypes, AccountsTypeOK
<1>2. PlacesKept'
  BY <1>a, <1>b, <1>c, <1>d DEF PlacesKept, At, Asked, Who
<1>3. RowsAgree'
  BY <1>a, <1>b, <1>c, <1>d DEF RowsAgree, Coming, Who, AccountsTypes, AccountsTypeOK, AccountAsk, ShopRow
<1>4. (died \/ Finishing)'
  BY <1>a, <1>b, <1>c, <1>d DEF Finishing, Belongs, At, Asked, Who
<1>5. (overlapped \/ Undisturbed)'
  BY <1>a, <1>b, <1>c, <1>d DEF Undisturbed, OneAtOnce, NoneSwept, OneShopApiece, OpenersHaveNone, OneLinkEach,
     MintersVoidedAll, ComersKnowThePass, Busy, LinksOf, Coming, Belongs, At, Asked, Who
<1>6. (overlapped \/ died \/ Undied)'
  BY <1>a, <1>b, <1>c, <1>d DEF Undied, GoodLinksSetNone, SettersHoldGoodLinks, NoSessionIsOlder, At, Asked, Who,
     RowsAgree, AccountsTypes, AccountsTypeOK
<1>7. QED
  BY <1>1, <1>2, <1>3, <1>4, <1>5, <1>6

LEMMA CreateVerifiedOwnerIs ==
  ASSUME AccountsTypes, NEW r \in Requests, CreateVerifiedOwner(r)
  PROVE  /\ At(r, "signup", "write") \/ At(r, "cli", "write")
         /\ UNCHANGED <<overlapped, tick, link, session, died>>
         /\ \/ UNCHANGED <<user, shop>> /\ doing' = [doing EXCEPT ![r] = None]
            \/ \E s \in Shops, oneRow \in Account :
                 /\ MadeWhole(Who(r), s, oneRow) /\ ~oneRow.in /\ oneRow.verified /\ oneRow.pass = 1
                 /\ IF Asked(r, "signup")
                    THEN doing' = [doing EXCEPT ![r] = [doing[r] EXCEPT !.step = "issue", !.pass = 1, !.swept = FALSE]]
                    ELSE doing' = [doing EXCEPT ![r] = None]
<1>1. Who(r) \in Founders
  BY AskerIs DEF CreateVerifiedOwner, At, Asked
<1> DEFINE oneRow == [verified |-> TRUE, google |-> FALSE, pass |-> 1, code |-> None, in |-> FALSE]
           proves == IF Asked(r, "signup")
                     THEN doing' = [doing EXCEPT ![r] = [doing[r] EXCEPT !.step = "issue", !.pass = 1, !.swept = FALSE]]
                     ELSE doing' = [doing EXCEPT ![r] = None]
<1>2. oneRow \in Account /\ ~oneRow.in /\ oneRow.verified /\ oneRow.pass = 1
  BY AccountsAssumption DEF Account
<1>3. \/ user[Who(r)] = None /\ Room(shop) /\ InOneTransaction(Who(r), oneRow) /\ proves
      \/ UNCHANGED <<user, shop>> /\ doing' = [doing EXCEPT ![r] = None]
  BY DEF CreateVerifiedOwner
<1>4. At(r, "signup", "write") \/ At(r, "cli", "write")
  BY DEF CreateVerifiedOwner
<1>5. UNCHANGED <<overlapped, tick, link, session, died>>
  BY DEF CreateVerifiedOwner
<1> HIDE DEF oneRow, proves
<1>6. CASE user[Who(r)] = None /\ Room(shop) /\ InOneTransaction(Who(r), oneRow) /\ proves
  <2>1. \E s \in Shops : MadeWhole(Who(r), s, oneRow)
    BY <1>1, <1>2, <1>6, WholeIs
  <2>2. QED
    BY <1>2, <1>4, <1>5, <1>6, <2>1 DEF proves
<1>7. QED
  BY <1>3, <1>4, <1>5, <1>6

LEMMA CreateVerifiedOwnerKeeps ==
  ASSUME AccountsInv, NEW r \in Requests, CreateVerifiedOwner(r)
  PROVE  AccountsInv'
<1> USE DEF AccountsInv
<1> DEFINE p == Who(r)
<1>a. /\ AccountsTypes /\ doing[r] # None /\ UNCHANGED <<overlapped, tick, link, session, died>>
      /\ At(r, "signup", "write") \/ At(r, "cli", "write")
  BY CreateVerifiedOwnerIs DEF At, Asked
<1>b. p \in Founders /\ doing[r] \in AccountAsk
  BY <1>a, AskerIs
<1>1. CASE UNCHANGED <<user, shop>> /\ doing' = [doing EXCEPT ![r] = None]
  <2>c. /\ doing' \in [Requests -> AccountAsk \cup {None}] /\ overlapped' \in BOOLEAN
        /\ overlapped' = overlapped /\ doing'[r] = None
        /\ \A q \in Requests : q # r => doing'[q] = doing[q]
    BY <1>1, <1>a, FinishIs DEF Finish
  <2>1. AccountsTypes'
    BY <1>1, <1>a, <1>b, <2>c DEF AccountsTypes, AccountsTypeOK
  <2>2. PlacesKept'
    BY <1>1, <1>a, <1>b, <2>c DEF PlacesKept, At, Asked, Who
  <2>3. RowsAgree'
    BY <1>1, <1>a, <1>b, <2>c DEF RowsAgree, Coming, Who, AccountsTypes, AccountsTypeOK, AccountAsk, ShopRow
  <2>4. (died \/ Finishing)'
    BY <1>1, <1>a, <1>b, <2>c DEF Finishing, Belongs, At, Asked, Who
  <2>5. (overlapped \/ Undisturbed)'
    BY <1>1, <1>a, <1>b, <2>c, SMTT(60) DEF Undisturbed, OneAtOnce, NoneSwept, OneShopApiece, OpenersHaveNone, OneLinkEach,
       MintersVoidedAll, ComersKnowThePass, Busy, LinksOf, Coming, Belongs, At, Asked, Who
  <2>6. (overlapped \/ died \/ Undied)'
    BY <1>1, <1>a, <1>b, <2>c, SMTT(60) DEF Undied, GoodLinksSetNone, SettersHoldGoodLinks, NoSessionIsOlder, At, Asked, Who
  <2>7. QED
    BY <2>1, <2>2, <2>3, <2>4, <2>5, <2>6
<1>2. ASSUME NEW s \in Shops, NEW oneRow \in Account, MadeWhole(p, s, oneRow), ~oneRow.in, oneRow.verified, oneRow.pass = 1,
             IF Asked(r, "signup")
             THEN doing' = [doing EXCEPT ![r] = [doing[r] EXCEPT !.step = "issue", !.pass = 1, !.swept = FALSE]]
             ELSE doing' = [doing EXCEPT ![r] = None]
      PROVE  AccountsInv'
  <2>a. /\ user' \in [Founders -> Account \cup {None}] /\ shop' \in [Shops -> ShopRow \cup {None}]
        /\ user'[p] = oneRow /\ oneRow # None /\ \A q \in Founders : q # p => user'[q] = user[q]
        /\ shop'[s] = [by |-> p, owned |-> TRUE, seeded |-> TRUE] /\ shop'[s] # None
        /\ \A t \in Shops : t # s => shop'[t] = shop[t]
    BY <1>a, <1>b, <1>2, WholeTypes
  <2>b. user[p] = None /\ shop[s] = None
    BY <1>2 DEF MadeWhole
  <2>c. /\ doing' \in [Requests -> AccountAsk \cup {None}] /\ overlapped' \in BOOLEAN
        /\ overlapped' = overlapped
        /\ doing'[r] # None => /\ doing'[r].kind = "signup" /\ doing'[r].step = "issue" /\ doing'[r].who = p
                               /\ doing'[r].pass = 1 /\ ~doing'[r].swept
        /\ \A q \in Requests : q # r => doing'[q] = doing[q]
    <3>1. CASE Asked(r, "signup")
      <4> DEFINE ask == [doing[r] EXCEPT !.step = "issue", !.pass = 1, !.swept = FALSE]
      <4>1. ask \in AccountAsk
        <5>1. "issue" \in StepNames /\ 1 \in 0..MaxPasswords
          BY AccountsAssumption DEF StepNames
        <5>2. QED BY <1>b, <5>1, AskProves
      <4>2. /\ ask.kind = "signup" /\ ask.step = "issue" /\ ask.who = p /\ ask.pass = 1 /\ ask.swept = FALSE
        BY <1>b, <3>1 DEF AccountAsk, Asked, Who
      <4>3. doing' = [doing EXCEPT ![r] = ask]
        BY <1>2, <3>1
      <4> HIDE DEF ask
      <4>4. QED
        BY <1>a, <4>1, <4>2, <4>3, MovedIs
    <3>2. CASE ~Asked(r, "signup")
      BY <1>2, <1>a, <3>2, FinishIs DEF Finish
    <3>3. QED BY <3>1, <3>2
  <2>1. AccountsTypes'
    BY <1>2, <1>a, <1>b, <2>a, <2>b, <2>c DEF AccountsTypes, AccountsTypeOK
  <2>2. PlacesKept'
    BY <1>2, <1>a, <1>b, <2>a, <2>b, <2>c, StepsAre DEF PlacesKept, At, Asked, Who
  <2>3. RowsAgree'
    BY <1>2, <1>a, <1>b, <2>a, <2>b, <2>c DEF RowsAgree, Coming, Who, AccountsTypes, AccountsTypeOK, AccountAsk, ShopRow
  <2>4. (died \/ Finishing)'
    BY <1>2, <1>a, <1>b, <2>a, <2>b, <2>c DEF Finishing, Belongs, At, Asked, Who
  <2>5. (overlapped \/ Undisturbed)'
    <3> SUFFICES ASSUME Undisturbed PROVE Undisturbed'
      BY <1>2, <1>a, <1>b, <2>a, <2>b, <2>c
    <3>1. OneAtOnce'
      BY <1>2, <1>a, <1>b, <2>a, <2>b, <2>c DEF Undisturbed, OneAtOnce, Busy
    <3>2. NoneSwept'
      BY <1>2, <1>a, <1>b, <2>a, <2>b, <2>c DEF Undisturbed, NoneSwept, Busy
    <3>3. OneShopApiece'
      BY <1>2, <1>a, <1>b, <2>a, <2>b, <2>c DEF Undisturbed, OneShopApiece, RowsAgree
    <3>4. OpenersHaveNone'
      BY <1>2, <1>a, <1>b, <2>a, <2>b, <2>c DEF Undisturbed, OpenersHaveNone, Belongs, At, Asked, Who, OneAtOnce, Busy
    <3>5. OneLinkEach'
      BY <1>2, <1>a, <1>b, <2>a, <2>b, <2>c DEF Undisturbed, OneLinkEach
    <3>6. MintersVoidedAll'
      BY <1>2, <1>a, <1>b, <2>a, <2>b, <2>c DEF Undisturbed, MintersVoidedAll, LinksOf, At, Asked, Who
    <3>7. ComersKnowThePass'
      BY <1>2, <1>a, <1>b, <2>a, <2>b, <2>c DEF Undisturbed, ComersKnowThePass, Coming, Who, OneAtOnce, Busy
    <3>8. QED
      BY <3>1, <3>2, <3>3, <3>4, <3>5, <3>6, <3>7 DEF Undisturbed
  <2>6. (overlapped \/ died \/ Undied)'
    <3> SUFFICES ASSUME Undisturbed, Undied PROVE Undied'
      BY <1>2, <1>a, <1>b, <2>a, <2>b, <2>c
    <3>1. GoodLinksSetNone'
      BY <1>2, <1>a, <1>b, <2>a, <2>b, <2>c DEF Undied, GoodLinksSetNone, At, Asked
    <3>2. SettersHoldGoodLinks'
      BY <1>2, <1>a, <1>b, <2>a, <2>b, <2>c DEF Undied, SettersHoldGoodLinks, At, Asked
    <3>3. NoSessionIsOlder'
      BY <1>2, <1>a, <1>b, <2>a, <2>b, <2>c DEF Undied, NoSessionIsOlder, At, Asked, Who, RowsAgree, AccountsTypes, AccountsTypeOK
    <3>4. QED
      BY <3>1, <3>2, <3>3 DEF Undied
  <2>7. QED
    BY <2>1, <2>2, <2>3, <2>4, <2>5, <2>6
<1>3. QED
  BY <1>a, <1>1, <1>2, CreateVerifiedOwnerIs

LEMMA IssueForUserKeeps ==
  ASSUME AccountsInv, NEW r \in Requests, IssueForUser(r)
  PROVE  AccountsInv'
<1> USE DEF AccountsInv
<1> DEFINE p == Who(r)
<1>a. /\ AccountsTypes /\ doing[r] # None /\ doing[r].step = "issue" /\ Finish(r)
      /\ UNCHANGED <<tick, shop, link, died>>
  BY DEF IssueForUser
<1>b. p \in Founders /\ doing[r].pass \in 0..MaxPasswords
  BY <1>a, AskerIs
<1>c. /\ doing' \in [Requests -> AccountAsk \cup {None}] /\ overlapped' \in BOOLEAN
      /\ overlapped' = overlapped /\ doing'[r] = None
      /\ \A q \in Requests : q # r => doing'[q] = doing[q]
  BY <1>a, FinishIs
<1>1. CASE UNCHANGED <<session, user>>
  <2>1. AccountsTypes'
    BY <1>1, <1>a, <1>b, <1>c DEF AccountsTypes, AccountsTypeOK
  <2>2. PlacesKept'
    BY <1>1, <1>a, <1>b, <1>c DEF PlacesKept, At, Asked, Who
  <2>3. RowsAgree'
    BY <1>1, <1>a, <1>b, <1>c DEF RowsAgree, Coming, Who, AccountsTypes, AccountsTypeOK, AccountAsk, ShopRow
  <2>4. (died \/ Finishing)'
    BY <1>1, <1>a, <1>b, <1>c DEF Finishing, Belongs, At, Asked, Who
  <2>5. (overlapped \/ Undisturbed)'
    BY <1>1, <1>a, <1>b, <1>c, SMTT(60) DEF Undisturbed, OneAtOnce, NoneSwept, OneShopApiece, OpenersHaveNone, OneLinkEach,
       MintersVoidedAll, ComersKnowThePass, Busy, LinksOf, Coming, Belongs, At, Asked, Who
  <2>6. (overlapped \/ died \/ Undied)'
    BY <1>1, <1>a, <1>b, <1>c, SMTT(60) DEF Undied, GoodLinksSetNone, SettersHoldGoodLinks, NoSessionIsOlder, At, Asked, Who
  <2>7. QED
    BY <2>1, <2>2, <2>3, <2>4, <2>5, <2>6
<1>2. CASE ~UNCHANGED <<session, user>>
  <2>a. /\ There(r) /\ Belongs(p) /\ session' = session \cup {[of |-> p, pass |-> doing[r].pass]}
        /\ user' = [user EXCEPT ![p] = [user[p] EXCEPT !.in = TRUE]]
    BY <1>2 DEF IssueForUser
  <2>b. user[p] # None /\ user[p] \in Account /\ ~doing[r].swept
    BY <1>b, <2>a DEF There, AccountsTypes, AccountsTypeOK
  <2> DEFINE oneRow == [user[p] EXCEPT !.in = TRUE]
  <2>c. /\ oneRow \in Account /\ oneRow.verified = user[p].verified /\ oneRow.google = user[p].google
        /\ oneRow.pass = user[p].pass
    BY <2>b DEF Account
  <2>d. oneRow.verified \/ oneRow.google
    BY <1>a, <2>b, <2>c DEF RowsAgree, Coming
  <2> HIDE DEF oneRow
  <2>e. /\ user' \in [Founders -> Account \cup {None}] /\ user'[p] = oneRow /\ oneRow # None
        /\ \A q \in Founders : q # p => user'[q] = user[q]
    BY <1>a, <1>b, <2>a, <2>c, AccountsAssumption DEF oneRow, AccountsTypes, AccountsTypeOK
  <2>1. AccountsTypes'
    BY <1>a, <1>b, <1>c, <2>a, <2>b, <2>c, <2>d, <2>e DEF AccountsTypes, AccountsTypeOK
  <2>2. PlacesKept'
    BY <1>a, <1>b, <1>c, <2>a, <2>b, <2>c, <2>d, <2>e DEF PlacesKept, At, Asked, Who
  <2>3. RowsAgree'
    <3>1. \A q \in Founders : user[q] # None => user'[q] # None
      BY <2>e
    <3>2. (\A t \in Shops : shop[t] # None /\ shop[t].owned => user[shop[t].by] # None)'
      BY <1>a, <3>1 DEF RowsAgree, AccountsTypes, AccountsTypeOK, ShopRow
    <3>3. (\A x \in session : user[x.of] # None)'
      <4> SUFFICES ASSUME NEW x \in session' PROVE user'[x.of] # None
        OBVIOUS
      <4>1. CASE x \in session
        BY <3>1, <4>1 DEF RowsAgree, AccountsTypes, AccountsTypeOK
      <4>2. CASE x = [of |-> p, pass |-> doing[r].pass]
        BY <2>e, <4>2
      <4>3. QED BY <2>a, <4>1, <4>2
    <3>4. (\A q \in Founders : user[q] # None /\ user[q].in => user[q].verified \/ user[q].google)'
      BY <2>d, <2>e DEF RowsAgree
    <3>5. (\A q \in Requests : Coming(q) /\ ~doing[q].swept =>
             user[Who(q)] # None /\ (user[Who(q)].verified \/ user[Who(q)].google))'
      BY <1>a, <1>b, <1>c, <2>c, <2>d, <2>e DEF RowsAgree, Coming, Who, AccountsTypes, AccountAsk
    <3>6. QED
      BY <3>2, <3>3, <3>4, <3>5 DEF RowsAgree
  <2>4. (died \/ Finishing)'
    <3> SUFFICES ASSUME Finishing PROVE Finishing'
      BY <1>a, <1>b, <1>c, <2>a, <2>b, <2>c, <2>d, <2>e
    <3>1. (\A t \in Shops : shop[t] # None /\ ~shop[t].seeded =>
             \E q \in Requests : (At(q, "google", "join") \/ At(q, "google", "seed")) /\ doing[q].at = t)'
      BY <1>a, <1>b, <1>c, <2>a, <2>b, <2>c, <2>d, <2>e DEF Finishing, At, Asked
    <3>2. (\A o \in Founders : user[o] # None => Belongs(o) \/ \E q \in Requests :
             (At(q, "google", "member") \/ At(q, "google", "open") \/ At(q, "google", "join")) /\ Who(q) = o)'
      <4>1. \A o \in Founders : user'[o] # None => user[o] # None
        BY <2>b, <2>e
      <4>2. \A o \in Founders : Belongs(o)' = Belongs(o)
        BY <1>a DEF Belongs
      <4>3. \A q \in Requests : At(q, "google", "member") \/ At(q, "google", "open") \/ At(q, "google", "join") => doing'[q] = doing[q]
        BY <1>a, <1>c DEF At, Asked
      <4>4. QED
        BY <4>1, <4>2, <4>3 DEF Finishing, At, Asked, Who
    <3>3. QED
      BY <3>1, <3>2 DEF Finishing
  <2>5. (overlapped \/ Undisturbed)'
    <3> SUFFICES ASSUME Undisturbed PROVE Undisturbed'
      BY <1>a, <1>b, <1>c, <2>a, <2>b, <2>c, <2>d, <2>e
    <3>1. OneAtOnce'
      BY <1>a, <1>b, <1>c, <2>a, <2>b, <2>c, <2>d, <2>e DEF Undisturbed, OneAtOnce, Busy
    <3>2. NoneSwept'
      BY <1>a, <1>b, <1>c, <2>a, <2>b, <2>c, <2>d, <2>e DEF Undisturbed, NoneSwept, Busy
    <3>3. OneShopApiece'
      BY <1>a, <1>b, <1>c, <2>a, <2>b, <2>c, <2>d, <2>e DEF Undisturbed, OneShopApiece
    <3>4. OpenersHaveNone'
      BY <1>a, <1>b, <1>c, <2>a, <2>b, <2>c, <2>d, <2>e DEF Undisturbed, OpenersHaveNone, Belongs, At, Asked, Who
    <3>5. OneLinkEach'
      BY <1>a, <1>b, <1>c, <2>a, <2>b, <2>c, <2>d, <2>e DEF Undisturbed, OneLinkEach
    <3>6. MintersVoidedAll'
      BY <1>a, <1>b, <1>c, <2>a, <2>b, <2>c, <2>d, <2>e DEF Undisturbed, MintersVoidedAll, LinksOf, At, Asked, Who
    <3>7. ComersKnowThePass'
      BY <1>a, <1>b, <1>c, <2>a, <2>b, <2>c, <2>d, <2>e
         DEF Undisturbed, ComersKnowThePass, Coming, Who, OneAtOnce, Busy, AccountsTypes, AccountsTypeOK
    <3>8. QED
      BY <3>1, <3>2, <3>3, <3>4, <3>5, <3>6, <3>7 DEF Undisturbed
  <2>6. (overlapped \/ died \/ Undied)'
    <3> SUFFICES ASSUME Undisturbed, Undied PROVE Undied'
      BY <1>a, <1>b, <1>c, <2>a, <2>b, <2>c, <2>d, <2>e
    <3>1. GoodLinksSetNone'
      BY <1>a, <1>b, <1>c, <2>a, <2>b, <2>c, <2>d, <2>e DEF Undied, GoodLinksSetNone, At, Asked
    <3>2. SettersHoldGoodLinks'
      BY <1>a, <1>b, <1>c, <2>a, <2>b, <2>c, <2>d, <2>e DEF Undied, SettersHoldGoodLinks, At, Asked
    <3>3. NoSessionIsOlder'
      <4>1. doing[r].pass = user[p].pass
        BY <1>a, <1>b DEF Undisturbed, ComersKnowThePass, Coming, Who
      <4>2. SUFFICES ASSUME NEW x \in session', user'[x.of].pass # x.pass
                     PROVE  \E q \in Requests : (At(q, "password", "mark") \/ At(q, "password", "revoke"))' /\ Who(q)' = x.of
        BY DEF NoSessionIsOlder
      <4>3. x \in session /\ x.of \in Founders /\ user[x.of].pass = user'[x.of].pass
        <5>1. CASE x \in session
          BY <1>b, <2>c, <2>e, <5>1 DEF AccountsTypes, AccountsTypeOK
        <5>2. CASE x = [of |-> p, pass |-> doing[r].pass]
          BY <2>c, <2>e, <4>1, <4>2, <5>2
        <5>3. QED
          BY <2>a, <5>1, <5>2
      <4>4. PICK q \in Requests : (At(q, "password", "mark") \/ At(q, "password", "revoke")) /\ Who(q) = x.of
        BY <4>2, <4>3 DEF Undied, NoSessionIsOlder
      <4>5. q # r /\ doing'[q] = doing[q]
        BY <1>a, <1>c, <4>4 DEF At, Asked
      <4>6. QED
        BY <4>4, <4>5 DEF At, Asked, Who
    <3>4. QED
      BY <3>1, <3>2, <3>3 DEF Undied
  <2>7. QED
    BY <2>1, <2>2, <2>3, <2>4, <2>5, <2>6
<1>3. QED
  BY <1>1, <1>2

LEMMA VerifyOtpKeeps ==
  ASSUME AccountsInv, NEW r \in Requests, VerifyOtp(r)
  PROVE  AccountsInv'
<1> USE DEF AccountsInv
<1> DEFINE p == Who(r)
<1>a. /\ AccountsTypes /\ doing[r] # None /\ At(r, "verify", "clear")
      /\ UNCHANGED <<overlapped, tick, shop, link, session, died>>
  BY DEF VerifyOtp, At, Asked
<1>b. p \in Founders /\ doing[r] \in AccountAsk
  BY <1>a, AskerIs
<1>1. CASE ~There(r)
  <2>c. /\ doing' \in [Requests -> AccountAsk \cup {None}] /\ overlapped' \in BOOLEAN
        /\ overlapped' = overlapped /\ doing'[r] = None /\ UNCHANGED user
        /\ \A q \in Requests : q # r => doing'[q] = doing[q]
    BY <1>1, <1>a, FinishIs DEF Finish, VerifyOtp
  <2>1. AccountsTypes'
    BY <1>a, <1>b, <2>c DEF AccountsTypes, AccountsTypeOK
  <2>2. PlacesKept'
    BY <1>a, <1>b, <2>c DEF PlacesKept, At, Asked, Who
  <2>3. RowsAgree'
    BY <1>a, <1>b, <2>c DEF RowsAgree, Coming, Who, AccountsTypes, AccountsTypeOK, AccountAsk, ShopRow
  <2>4. (died \/ Finishing)'
    BY <1>a, <1>b, <2>c DEF Finishing, Belongs, At, Asked, Who
  <2>5. (overlapped \/ Undisturbed)'
    <3> SUFFICES ASSUME Undisturbed
                 PROVE  Undisturbed'
      BY <1>a, <1>b, <2>c
    <3>1. OneAtOnce'
      BY <1>a, <1>b, <2>c DEF Undisturbed, OneAtOnce, Busy
    <3>2. NoneSwept'
      BY <1>a, <1>b, <2>c DEF Undisturbed, NoneSwept, Busy
    <3>3. OneShopApiece'
      BY <1>a, <1>b, <2>c DEF Undisturbed, OneShopApiece, Belongs
    <3>4. OpenersHaveNone'
      BY <1>a, <1>b, <2>c DEF Undisturbed, OpenersHaveNone, Belongs, At, Asked, Who, RowsAgree
    <3>5. OneLinkEach'
      BY <1>a, <1>b, <2>c DEF Undisturbed, OneLinkEach, LinksOf
    <3>6. MintersVoidedAll'
      BY <1>a, <1>b, <2>c DEF Undisturbed, MintersVoidedAll, LinksOf, At, Asked, Who
    <3>7. ComersKnowThePass'
      BY <1>a, <1>b, <2>c DEF Undisturbed, ComersKnowThePass, Coming, Who, AccountsTypes, AccountsTypeOK
    <3>8. QED
      BY <3>1, <3>2, <3>3, <3>4, <3>5, <3>6, <3>7 DEF Undisturbed
  <2>6. (overlapped \/ died \/ Undied)'
    BY <1>a, <1>b, <2>c, SMTT(60) DEF Undied, GoodLinksSetNone, SettersHoldGoodLinks, NoSessionIsOlder, At, Asked, Who
  <2>7. QED
    BY <2>1, <2>2, <2>3, <2>4, <2>5, <2>6
<1>2. CASE There(r)
  <2>a. user[p] # None /\ user[p] \in Account /\ ~doing[r].swept
    BY <1>b, <1>2 DEF There, AccountsTypes, AccountsTypeOK
  <2> DEFINE oneRow == [user[p] EXCEPT !.code = None, !.verified = TRUE]
             ask == [doing[r] EXCEPT !.step = "issue", !.pass = user[p].pass]
  <2>b. oneRow \in Account /\ oneRow.pass = user[p].pass /\ oneRow.verified /\ oneRow.pass \in 0..MaxPasswords
    BY <2>a, AccountCleared DEF Account
  <2>c. ask \in AccountAsk
    BY <1>b, <2>b, AskProves DEF StepNames
  <2>d. /\ ask.step = "issue" /\ ask.kind = "verify" /\ ask.who = p /\ ask.pass = user[p].pass
        /\ ask.swept = doing[r].swept
    BY <1>a, <1>b DEF AccountAsk, At, Asked, Who
  <2>e. user' = [user EXCEPT ![p] = oneRow] /\ doing' = [doing EXCEPT ![r] = ask]
    BY <1>2 DEF VerifyOtp, ClearOtp
  <2> HIDE DEF oneRow, ask
  <2>f. /\ user' \in [Founders -> Account \cup {None}] /\ user'[p] = oneRow /\ oneRow # None
        /\ \A q \in Founders : q # p => user'[q] = user[q]
    BY <1>a, <1>b, <2>b, <2>e, AccountsAssumption DEF AccountsTypes, AccountsTypeOK
  <2>g. /\ doing' \in [Requests -> AccountAsk \cup {None}] /\ overlapped' \in BOOLEAN
        /\ doing'[r] = ask /\ doing'[r] # None
        /\ \A q \in Requests : q # r => doing'[q] = doing[q]
    BY <1>a, <2>c, <2>e, MovedIs
  <2>1. AccountsTypes'
    BY <1>a, <1>b, <2>a, <2>b, <2>d, <2>f, <2>g DEF AccountsTypes, AccountsTypeOK
  <2>2. PlacesKept'
    BY <1>a, <1>b, <2>a, <2>b, <2>d, <2>f, <2>g, StepsAre DEF PlacesKept, At, Asked, Who
  <2>3. RowsAgree'
    BY <1>a, <1>b, <2>a, <2>b, <2>d, <2>f, <2>g DEF RowsAgree, Coming, Who, AccountsTypes, AccountsTypeOK, AccountAsk, ShopRow
  <2>4. (died \/ Finishing)'
    BY <1>a, <1>b, <2>a, <2>b, <2>d, <2>f, <2>g DEF Finishing, Belongs, At, Asked, Who
  <2>5. (overlapped \/ Undisturbed)'
    <3> SUFFICES ASSUME Undisturbed
                 PROVE  Undisturbed'
      BY <1>a, <1>b, <2>a, <2>b, <2>d, <2>f, <2>g
    <3>1. OneAtOnce'
      BY <1>a, <1>b, <2>a, <2>b, <2>d, <2>f, <2>g DEF Undisturbed, OneAtOnce, Busy
    <3>2. NoneSwept'
      BY <1>a, <1>b, <2>a, <2>b, <2>d, <2>f, <2>g DEF Undisturbed, NoneSwept, Busy
    <3>3. OneShopApiece'
      BY <1>a, <1>b, <2>a, <2>b, <2>d, <2>f, <2>g DEF Undisturbed, OneShopApiece, Belongs
    <3>4. OpenersHaveNone'
      BY <1>a, <1>b, <2>a, <2>b, <2>d, <2>f, <2>g DEF Undisturbed, OpenersHaveNone, Belongs, At, Asked, Who, RowsAgree
    <3>5. OneLinkEach'
      BY <1>a, <1>b, <2>a, <2>b, <2>d, <2>f, <2>g DEF Undisturbed, OneLinkEach, LinksOf
    <3>6. MintersVoidedAll'
      BY <1>a, <1>b, <2>a, <2>b, <2>d, <2>f, <2>g DEF Undisturbed, MintersVoidedAll, LinksOf, At, Asked, Who
    <3>7. ComersKnowThePass'
      <4>1. \A q \in Requests : q # r => doing'[q] = None
        BY <1>a, <1>b, <2>g DEF Undisturbed, OneAtOnce, Busy
      <4>2. doing'[r].who = p /\ doing'[r].pass = user'[p].pass /\ user'[p] # None
        BY <2>b, <2>d, <2>f, <2>g
      <4>3. \A q \in Requests : Coming(q)' => q = r
        BY <4>1 DEF Coming
      <4>4. QED
        BY <4>2, <4>3 DEF ComersKnowThePass, Who
    <3>8. QED
      BY <3>1, <3>2, <3>3, <3>4, <3>5, <3>6, <3>7 DEF Undisturbed
  <2>6. (overlapped \/ died \/ Undied)'
    <3> SUFFICES ASSUME Undisturbed, Undied PROVE Undied'
      BY <1>a, <1>b, <2>a, <2>b, <2>d, <2>f, <2>g
    <3>1. GoodLinksSetNone'
      BY <1>a, <1>b, <2>a, <2>b, <2>d, <2>f, <2>g DEF Undied, GoodLinksSetNone, At, Asked
    <3>2. SettersHoldGoodLinks'
      BY <1>a, <1>b, <2>a, <2>b, <2>d, <2>f, <2>g DEF Undied, SettersHoldGoodLinks, At, Asked
    <3>3. NoSessionIsOlder'
      BY <1>a, <1>b, <2>a, <2>b, <2>d, <2>f, <2>g DEF Undied, NoSessionIsOlder, At, Asked, Who, AccountsTypes, AccountsTypeOK
    <3>4. QED
      BY <3>1, <3>2, <3>3 DEF Undied
  <2>7. QED
    BY <2>1, <2>2, <2>3, <2>4, <2>5, <2>6
<1>3. QED
  BY <1>1, <1>2

LEMMA GoogleUserKeeps ==
  ASSUME AccountsInv, NEW r \in Requests, GoogleUser(r)
  PROVE  AccountsInv'
<1> USE DEF AccountsInv
<1> DEFINE p == Who(r)
<1>a. /\ AccountsTypes /\ doing[r] # None /\ At(r, "google", "user")
      /\ UNCHANGED <<overlapped, tick, shop, link, session, died>>
  BY DEF GoogleUser, At, Asked
<1>b. p \in Founders /\ doing[r] \in AccountAsk
  BY <1>a, AskerIs
<1>1. CASE UNCHANGED user /\ doing' = [doing EXCEPT ![r] = None]
  <2>c. /\ doing' \in [Requests -> AccountAsk \cup {None}] /\ overlapped' \in BOOLEAN
        /\ overlapped' = overlapped /\ doing'[r] = None
        /\ \A q \in Requests : q # r => doing'[q] = doing[q]
    BY <1>1, <1>a, FinishIs DEF Finish
  <2>1. AccountsTypes'
    BY <1>1, <1>a, <1>b, <2>c DEF AccountsTypes, AccountsTypeOK
  <2>2. PlacesKept'
    BY <1>1, <1>a, <1>b, <2>c DEF PlacesKept, At, Asked, Who
  <2>3. RowsAgree'
    BY <1>1, <1>a, <1>b, <2>c DEF RowsAgree, Coming, Who, AccountsTypes, AccountsTypeOK, AccountAsk, ShopRow
  <2>4. (died \/ Finishing)'
    BY <1>1, <1>a, <1>b, <2>c DEF Finishing, Belongs, At, Asked, Who
  <2>5. (overlapped \/ Undisturbed)'
    <3> SUFFICES ASSUME Undisturbed PROVE Undisturbed'
      BY <1>1, <1>a, <1>b, <2>c
    <3>1. OneAtOnce'
      BY <1>1, <1>a, <1>b, <2>c DEF Undisturbed, OneAtOnce, Busy
    <3>2. NoneSwept'
      BY <1>1, <1>a, <1>b, <2>c DEF Undisturbed, NoneSwept, Busy
    <3>3. OneShopApiece'
      BY <1>1, <1>a, <1>b, <2>c DEF Undisturbed, OneShopApiece
    <3>4. OpenersHaveNone'
      BY <1>1, <1>a, <1>b, <2>c DEF Undisturbed, OpenersHaveNone, Belongs, At, Asked, Who
    <3>5. OneLinkEach'
      BY <1>1, <1>a, <1>b, <2>c DEF Undisturbed, OneLinkEach
    <3>6. MintersVoidedAll'
      BY <1>1, <1>a, <1>b, <2>c DEF Undisturbed, MintersVoidedAll, LinksOf, At, Asked, Who
    <3>7. ComersKnowThePass'
      BY <1>1, <1>a, <1>b, <2>c DEF Undisturbed, ComersKnowThePass, Coming, Who
    <3>8. QED
      BY <3>1, <3>2, <3>3, <3>4, <3>5, <3>6, <3>7 DEF Undisturbed
  <2>6. (overlapped \/ died \/ Undied)'
    BY <1>1, <1>a, <1>b, <2>c, SMTT(60) DEF Undied, GoodLinksSetNone, SettersHoldGoodLinks, NoSessionIsOlder, At, Asked, Who
  <2>7. QED
    BY <2>1, <2>2, <2>3, <2>4, <2>5, <2>6
<1>2. ASSUME NEW oneRow \in Account, oneRow.google,
             user' = [user EXCEPT ![p] = oneRow],
             doing' = [doing EXCEPT ![r].step = "member", ![r].pass = oneRow.pass, ![r].swept = FALSE],
             user[p] # None => /\ oneRow.verified = user[p].verified /\ oneRow.in = user[p].in /\ oneRow.pass = user[p].pass,
             user[p] = None => ~oneRow.in
      PROVE  AccountsInv'
  <2> DEFINE ask == [doing[r] EXCEPT !.step = "member", !.pass = oneRow.pass, !.swept = FALSE]
  <2>a. ask \in AccountAsk
    <3>1. "member" \in StepNames /\ oneRow.pass \in 0..MaxPasswords
      BY DEF StepNames, Account
    <3>2. QED BY <1>b, <3>1, AskProves
  <2>b. /\ ask.kind = "google" /\ ask.step = "member" /\ ask.who = p /\ ask.pass = oneRow.pass /\ ~ask.swept
    BY <1>a, <1>b DEF AccountAsk, At, Asked, Who
  <2>c. doing' = [doing EXCEPT ![r] = ask]
    BY <1>2
  <2> HIDE DEF ask
  <2>d. /\ doing' \in [Requests -> AccountAsk \cup {None}] /\ overlapped' \in BOOLEAN
        /\ doing'[r] = ask /\ doing'[r] # None
        /\ \A q \in Requests : q # r => doing'[q] = doing[q]
    BY <1>a, <2>a, <2>c, MovedIs
  <2>e. /\ user' \in [Founders -> Account \cup {None}] /\ user'[p] = oneRow /\ oneRow # None
        /\ \A q \in Founders : q # p => user'[q] = user[q]
    BY <1>a, <1>b, <1>2, AccountsAssumption DEF AccountsTypes, AccountsTypeOK
  <2>f. \A q \in Requests : At(q, "google", "join") \/ At(q, "google", "seed") => doing'[q] = doing[q]
    BY <1>a, <2>d DEF At, Asked
  <2>1. AccountsTypes'
    BY <1>a, <1>b, <1>2, <2>b, <2>d, <2>e DEF AccountsTypes, AccountsTypeOK
  <2>2. PlacesKept'
    <3>1. doing'[r].step \in Steps(doing'[r].kind) /\ ~Asked(r, "password")'
          /\ ~At(r, "google", "join")' /\ ~At(r, "google", "seed")' /\ ~At(r, "password", "mark")'
      BY <2>b, <2>d, StepsAre DEF At, Asked
    <3>2. UNCHANGED <<shop, link>>
      BY <1>a
    <3>3. \A q \in Requests : q # r => doing'[q] = doing[q] /\ Who(q)' = Who(q)
      BY <2>d DEF Who
    <3>4. QED
      BY <3>1, <3>2, <3>3 DEF PlacesKept, At, Asked
  <2>3. RowsAgree'
    <3>1. (\A t \in Shops : shop[t] # None /\ shop[t].owned => user[shop[t].by] # None)'
      BY <1>a, <1>b, <1>2, <2>b, <2>d, <2>e DEF RowsAgree
    <3>2. (\A x \in session : user[x.of] # None)'
      BY <1>a, <1>b, <1>2, <2>b, <2>d, <2>e DEF RowsAgree
    <3>3. (\A q \in Founders : user[q] # None /\ user[q].in => user[q].verified \/ user[q].google)'
      BY <1>a, <1>b, <1>2, <2>b, <2>d, <2>e DEF RowsAgree
    <3>4. (\A q \in Requests : Coming(q) /\ ~doing[q].swept =>
             user[Who(q)] # None /\ (user[Who(q)].verified \/ user[Who(q)].google))'
      BY <1>a, <1>b, <1>2, <2>b, <2>d, <2>e DEF RowsAgree, Coming, At, Asked, Who
    <3>5. QED
      BY <3>1, <3>2, <3>3, <3>4 DEF RowsAgree
  <2>4. (died \/ Finishing)'
    <3> SUFFICES ASSUME Finishing PROVE Finishing'
      BY <1>a
    <3>1. (\A t \in Shops : shop[t] # None /\ ~shop[t].seeded =>
             \E q \in Requests : (At(q, "google", "join") \/ At(q, "google", "seed")) /\ doing[q].at = t)'
      BY <1>a, <2>f DEF Finishing, At, Asked
    <3>2. At(r, "google", "member")' /\ Who(r)' = p
      BY <2>b, <2>d DEF At, Asked, Who
    <3>3. \A q \in Requests : q # r => /\ At(q, "google", "member")' = At(q, "google", "member")
                                     /\ At(q, "google", "open")' = At(q, "google", "open")
                                     /\ At(q, "google", "join")' = At(q, "google", "join")
                                     /\ Who(q)' = Who(q)
      BY <2>d DEF At, Asked, Who
    <3>4. \A o \in Founders : Belongs(o)' = Belongs(o)
      BY <1>a DEF Belongs
    <3>5. ~At(r, "google", "member") /\ ~At(r, "google", "open") /\ ~At(r, "google", "join")
      BY <1>a DEF At
    <3>6. \A o \in Founders : user'[o] # None => Belongs(o)' \/ \E q \in Requests :
            (At(q, "google", "member") \/ At(q, "google", "open") \/ At(q, "google", "join"))' /\ Who(q)' = o
      BY <3>2, <3>3, <3>4, <3>5, <2>e DEF Finishing
    <3>7. QED
      BY <3>1, <3>6 DEF Finishing
  <2>5. (overlapped \/ Undisturbed)'
    <3> SUFFICES ASSUME Undisturbed PROVE Undisturbed'
      BY <1>a, <1>b, <1>2, <2>b, <2>d, <2>e
    <3>1. OneAtOnce'
      BY <1>a, <1>b, <1>2, <2>b, <2>d, <2>e DEF Undisturbed, OneAtOnce, Busy
    <3>2. NoneSwept'
      BY <1>a, <1>b, <1>2, <2>b, <2>d, <2>e DEF Undisturbed, NoneSwept, Busy
    <3>3. OneShopApiece'
      BY <1>a, <1>b, <1>2, <2>b, <2>d, <2>e DEF Undisturbed, OneShopApiece
    <3>4. OpenersHaveNone'
      BY <1>a, <1>b, <1>2, <2>b, <2>d, <2>e DEF Undisturbed, OpenersHaveNone, Belongs, At, Asked, Who
    <3>5. OneLinkEach'
      BY <1>a, <1>b, <1>2, <2>b, <2>d, <2>e DEF Undisturbed, OneLinkEach
    <3>6. MintersVoidedAll'
      BY <1>a, <1>b, <1>2, <2>b, <2>d, <2>e DEF Undisturbed, MintersVoidedAll, LinksOf, At, Asked, Who
    <3>7. ComersKnowThePass'
      BY <1>a, <1>b, <1>2, <2>b, <2>d, <2>e DEF Undisturbed, ComersKnowThePass, Coming, Who
    <3>8. QED
      BY <3>1, <3>2, <3>3, <3>4, <3>5, <3>6, <3>7 DEF Undisturbed
  <2>6. (overlapped \/ died \/ Undied)'
    <3> SUFFICES ASSUME Undisturbed, Undied PROVE Undied'
      BY <1>a, <1>b, <1>2, <2>b, <2>d, <2>e
    <3>1. GoodLinksSetNone'
      BY <1>a, <1>b, <1>2, <2>b, <2>d, <2>e DEF Undied, GoodLinksSetNone, At, Asked
    <3>2. SettersHoldGoodLinks'
      BY <1>a, <1>b, <1>2, <2>b, <2>d, <2>e DEF Undied, SettersHoldGoodLinks, At, Asked
    <3>3. NoSessionIsOlder'
      <4>1. SUFFICES ASSUME NEW x \in session', user'[x.of].pass # x.pass
                     PROVE  \E q \in Requests : (At(q, "password", "mark") \/ At(q, "password", "revoke"))' /\ Who(q)' = x.of
        BY DEF NoSessionIsOlder
      <4>2. x \in session /\ x.of \in Founders
        BY <1>a DEF AccountsTypes, AccountsTypeOK
      <4>3. user[x.of] # None
        BY <4>2 DEF RowsAgree
      <4>4. user[x.of].pass = user'[x.of].pass
        BY <1>2, <2>e, <4>2, <4>3
      <4>5. PICK q \in Requests : (At(q, "password", "mark") \/ At(q, "password", "revoke")) /\ Who(q) = x.of
        BY <4>1, <4>2, <4>4 DEF Undied, NoSessionIsOlder
      <4>6. q # r /\ doing'[q] = doing[q]
        BY <1>a, <2>d, <4>5 DEF At, Asked
      <4>7. QED
        BY <4>5, <4>6 DEF At, Asked, Who
    <3>4. QED
      BY <3>1, <3>2, <3>3 DEF Undied
  <2>7. QED
    BY <2>1, <2>2, <2>3, <2>4, <2>5, <2>6
<1>3. QED
  <2>1. CASE IF doing[r].found THEN ~There(r) ELSE user[p] # None
    BY <1>1, <2>1 DEF GoogleUser
  <2>2. CASE ~(IF doing[r].found THEN ~There(r) ELSE user[p] # None)
    <3> DEFINE oneRow == IF doing[r].found THEN [user[p] EXCEPT !.google = TRUE]
                      ELSE [verified |-> TRUE, google |-> TRUE, pass |-> 0, code |-> None, in |-> FALSE]
    <3>1. /\ user' = [user EXCEPT ![p] = oneRow]
          /\ doing' = [doing EXCEPT ![r].step = "member", ![r].pass = user'[p].pass, ![r].swept = FALSE]
      BY <2>2 DEF GoogleUser
    <3>2. oneRow \in Account /\ oneRow.google /\ (user[p] = None => ~oneRow.in)
          /\ (user[p] # None => oneRow.verified = user[p].verified /\ oneRow.in = user[p].in /\ oneRow.pass = user[p].pass)
      <4>1. CASE doing[r].found
        <5>1. user[p] \in Account /\ user[p] # None
          BY <1>a, <1>b, <2>2, <4>1 DEF There, AccountsTypes, AccountsTypeOK
        <5>2. QED BY <4>1, <5>1 DEF Account
      <4>2. CASE ~doing[r].found
        <5>1. [verified |-> TRUE, google |-> TRUE, pass |-> 0, code |-> None, in |-> FALSE] \in Account
          BY AccountsAssumption DEF Account
        <5>2. QED BY <2>2, <4>2, <5>1
      <4>3. QED BY <4>1, <4>2
    <3> HIDE DEF oneRow
    <3>3. user'[p] = oneRow
      BY <1>a, <1>b, <3>1 DEF AccountsTypes, AccountsTypeOK
    <3>4. doing' = [doing EXCEPT ![r].step = "member", ![r].pass = oneRow.pass, ![r].swept = FALSE]
      BY <3>1, <3>3
    <3>5. QED BY <1>2, <3>1, <3>2, <3>4
  <2>3. QED BY <2>1, <2>2

LEMMA GoogleMembershipKeeps ==
  ASSUME AccountsInv, NEW r \in Requests, GoogleMembership(r)
  PROVE  AccountsInv'
<1> USE DEF AccountsInv
<1> DEFINE p == Who(r)
<1>a. /\ AccountsTypes /\ doing[r] # None /\ At(r, "google", "member")
      /\ UNCHANGED accountsVars
      /\ GoOn(r, IF There(r) /\ Belongs(Who(r)) THEN "issue" ELSE "open")
  BY DEF GoogleMembership, At, Asked
<1>b. p \in Founders /\ doing[r] \in AccountAsk
  BY <1>a, AskerIs
<1>u. UNCHANGED <<tick, user, shop, link, session, died>>
  BY <1>a DEF accountsVars
<1>1. CASE There(r) /\ Belongs(p)
  <2>c. /\ doing' \in [Requests -> AccountAsk \cup {None}] /\ overlapped' \in BOOLEAN
        /\ overlapped' = overlapped
        /\ doing'[r] # None /\ doing'[r].step = "issue" /\ doing'[r].kind = "google"
        /\ doing'[r].who = p /\ doing'[r].at = doing[r].at
        /\ doing'[r].pass = doing[r].pass /\ doing'[r].swept = doing[r].swept
        /\ \A q \in Requests : q # r => doing'[q] = doing[q]
    BY <1>1, <1>a, GoOnIs DEF StepNames, At, Asked, Who
  <2>1. AccountsTypes'
    BY <1>1, <1>a, <1>b, <1>u, <2>c DEF AccountsTypes, AccountsTypeOK
  <2>2. PlacesKept'
    BY <1>1, <1>a, <1>b, <1>u, <2>c, StepsAre DEF PlacesKept, At, Asked, Who
  <2>3. RowsAgree'
    <3>1. (\A t \in Shops : shop[t] # None /\ shop[t].owned => user[shop[t].by] # None)'
      BY <1>1, <1>a, <1>b, <1>u, <2>c DEF RowsAgree, AccountsTypes, AccountsTypeOK, ShopRow
    <3>2. (\A x \in session : user[x.of] # None)'
      BY <1>1, <1>a, <1>b, <1>u, <2>c DEF RowsAgree, AccountsTypes, AccountsTypeOK
    <3>3. (\A q \in Founders : user[q] # None /\ user[q].in => user[q].verified \/ user[q].google)'
      BY <1>1, <1>a, <1>b, <1>u, <2>c DEF RowsAgree
    <3>4. (\A q \in Requests : Coming(q) /\ ~doing[q].swept =>
             user[Who(q)] # None /\ (user[Who(q)].verified \/ user[Who(q)].google))'
      BY <1>1, <1>a, <1>b, <1>u, <2>c DEF RowsAgree, Coming, At, Asked, Who, AccountsTypes, AccountAsk
    <3>5. QED
      BY <3>1, <3>2, <3>3, <3>4 DEF RowsAgree
  <2>4. (died \/ Finishing)'
    BY <1>1, <1>a, <1>b, <1>u, <2>c DEF Finishing, Belongs, At, Asked, Who
  <2>5. (overlapped \/ Undisturbed)'
    <3> SUFFICES ASSUME Undisturbed PROVE Undisturbed'
      BY <1>1, <1>a, <1>b, <1>u, <2>c
    <3>1. OneAtOnce'
      BY <1>1, <1>a, <1>b, <1>u, <2>c DEF Undisturbed, OneAtOnce, Busy
    <3>2. NoneSwept'
      BY <1>1, <1>a, <1>b, <1>u, <2>c DEF Undisturbed, NoneSwept, Busy
    <3>3. OneShopApiece'
      BY <1>1, <1>a, <1>b, <1>u, <2>c DEF Undisturbed, OneShopApiece
    <3>4. OpenersHaveNone'
      BY <1>1, <1>a, <1>b, <1>u, <2>c DEF Undisturbed, OpenersHaveNone, Belongs, At, Asked, Who
    <3>5. OneLinkEach'
      BY <1>1, <1>a, <1>b, <1>u, <2>c DEF Undisturbed, OneLinkEach
    <3>6. MintersVoidedAll'
      BY <1>1, <1>a, <1>b, <1>u, <2>c DEF Undisturbed, MintersVoidedAll, LinksOf, At, Asked, Who
    <3>7. ComersKnowThePass'
      <4>1. Coming(r) /\ doing'[r].who = doing[r].who /\ doing'[r].pass = doing[r].pass
        BY <1>1, <1>a, <1>b, <1>u, <2>c DEF Coming, At, Asked, Who
      <4>2. QED
        BY <1>a, <1>u, <2>c, <4>1, ComersStay DEF Undisturbed
    <3>8. QED
      BY <3>1, <3>2, <3>3, <3>4, <3>5, <3>6, <3>7 DEF Undisturbed
  <2>6. (overlapped \/ died \/ Undied)'
    BY <1>1, <1>a, <1>b, <1>u, <2>c, SMTT(60) DEF Undied, GoodLinksSetNone, SettersHoldGoodLinks, NoSessionIsOlder, At, Asked, Who
  <2>7. QED
    BY <2>1, <2>2, <2>3, <2>4, <2>5, <2>6
<1>2. CASE ~(There(r) /\ Belongs(p))
  <2>c. /\ doing' \in [Requests -> AccountAsk \cup {None}] /\ overlapped' \in BOOLEAN
        /\ overlapped' = overlapped
        /\ doing'[r] # None /\ doing'[r].step = "open" /\ doing'[r].kind = "google"
        /\ doing'[r].who = p /\ doing'[r].at = doing[r].at
        /\ doing'[r].pass = doing[r].pass /\ doing'[r].swept = doing[r].swept
        /\ \A q \in Requests : q # r => doing'[q] = doing[q]
    BY <1>2, <1>a, GoOnIs DEF StepNames, At, Asked, Who
  <2>d. overlapped \/ Undisturbed => overlapped \/ ~Belongs(p)
    BY <1>2, <1>a, <1>b DEF There, Undisturbed, OneAtOnce, NoneSwept, OneShopApiece, OpenersHaveNone, OneLinkEach,
       MintersVoidedAll, ComersKnowThePass, Coming, Busy, At, Asked
  <2>1. AccountsTypes'
    BY <1>a, <1>b, <1>u, <2>c, <2>d DEF AccountsTypes, AccountsTypeOK
  <2>2. PlacesKept'
    BY <1>a, <1>b, <1>u, <2>c, <2>d, StepsAre DEF PlacesKept, At, Asked, Who
  <2>3. RowsAgree'
    <3>1. (\A t \in Shops : shop[t] # None /\ shop[t].owned => user[shop[t].by] # None)'
      BY <1>a, <1>b, <1>u, <2>c, <2>d DEF RowsAgree, AccountsTypes, AccountsTypeOK, ShopRow
    <3>2. (\A x \in session : user[x.of] # None)'
      BY <1>a, <1>b, <1>u, <2>c, <2>d DEF RowsAgree, AccountsTypes, AccountsTypeOK
    <3>3. (\A q \in Founders : user[q] # None /\ user[q].in => user[q].verified \/ user[q].google)'
      BY <1>a, <1>b, <1>u, <2>c, <2>d DEF RowsAgree
    <3>4. (\A q \in Requests : Coming(q) /\ ~doing[q].swept =>
             user[Who(q)] # None /\ (user[Who(q)].verified \/ user[Who(q)].google))'
      BY <1>a, <1>b, <1>u, <2>c, <2>d DEF RowsAgree, Coming, At, Asked, Who, AccountsTypes, AccountAsk
    <3>5. QED
      BY <3>1, <3>2, <3>3, <3>4 DEF RowsAgree
  <2>4. (died \/ Finishing)'
    BY <1>a, <1>b, <1>u, <2>c, <2>d DEF Finishing, Belongs, At, Asked, Who
  <2>5. (overlapped \/ Undisturbed)'
    <3> SUFFICES ASSUME Undisturbed, ~overlapped PROVE Undisturbed'
      BY <1>a, <1>b, <1>u, <2>c, <2>d
    <3>1. OneAtOnce'
      BY <1>a, <1>b, <1>u, <2>c, <2>d DEF Undisturbed, OneAtOnce, Busy
    <3>2. NoneSwept'
      BY <1>a, <1>b, <1>u, <2>c, <2>d DEF Undisturbed, NoneSwept, Busy
    <3>3. OneShopApiece'
      BY <1>a, <1>b, <1>u, <2>c, <2>d DEF Undisturbed, OneShopApiece
    <3>4. OpenersHaveNone'
      <4>1. ~Belongs(p) /\ Who(r)' = p
        BY <2>c, <2>d DEF Who
      <4>2. \A o \in Founders : Belongs(o)' = Belongs(o)
        BY <1>u DEF Belongs
      <4>3. \A q \in Requests : q # r => /\ At(q, "google", "open")' = At(q, "google", "open") /\ Who(q)' = Who(q)
                                       /\ At(q, "google", "join")' = At(q, "google", "join")
        BY <2>c DEF At, Asked, Who
      <4>4. \A q \in Requests : doing[q] # None => Who(q) \in Founders
        BY <1>a, AskerIs
      <4>5. QED
        BY <1>b, <4>1, <4>2, <4>3, <4>4 DEF Undisturbed, OpenersHaveNone, At, Asked
    <3>5. OneLinkEach'
      BY <1>a, <1>b, <1>u, <2>c, <2>d DEF Undisturbed, OneLinkEach
    <3>6. MintersVoidedAll'
      BY <1>a, <1>b, <1>u, <2>c, <2>d DEF Undisturbed, MintersVoidedAll, LinksOf, At, Asked, Who
    <3>7. ComersKnowThePass'
      <4>1. Coming(r) /\ doing'[r].who = doing[r].who /\ doing'[r].pass = doing[r].pass
        BY <1>a, <2>c DEF Coming, At, Asked, Who
      <4>2. QED
        BY <1>u, <2>c, <4>1, ComersStay DEF Undisturbed
    <3>8. QED
      BY <3>1, <3>2, <3>3, <3>4, <3>5, <3>6, <3>7 DEF Undisturbed
  <2>6. (overlapped \/ died \/ Undied)'
    BY <1>a, <1>b, <1>u, <2>c, <2>d, SMTT(60) DEF Undied, GoodLinksSetNone, SettersHoldGoodLinks, NoSessionIsOlder, At, Asked, Who
  <2>7. QED
    BY <2>1, <2>2, <2>3, <2>4, <2>5, <2>6
<1>3. QED
  BY <1>1, <1>2

LEMMA OpenShopKeeps ==
  ASSUME AccountsInv, NEW r \in Requests, OpenShop(r)
  PROVE  AccountsInv'
<1> USE DEF AccountsInv
<1> DEFINE p == Who(r)
           s == Unused(shop)
           ask == [doing[r] EXCEPT !.step = "join", !.at = s]
<1>a. /\ AccountsTypes /\ doing[r] # None /\ At(r, "google", "open")
      /\ UNCHANGED <<overlapped, tick, user, link, session, died>>
      /\ shop' = [shop EXCEPT ![s] = [by |-> p, owned |-> FALSE, seeded |-> FALSE]]
      /\ doing' = [doing EXCEPT ![r] = ask]
  BY DEF OpenShop, At, Asked
<1>b. p \in Founders /\ doing[r] \in AccountAsk
  BY <1>a, AskerIs
<1>s. s \in Shops /\ shop[s] = None
  BY UnusedIsFree DEF OpenShop, AccountsTypes, AccountsTypeOK
<1>e. /\ ask \in AccountAsk /\ ask.kind = "google" /\ ask.step = "join" /\ ask.who = p /\ ask.at = s
      /\ ask.pass = doing[r].pass /\ ask.swept = doing[r].swept
  <2>1. "join" \in StepNames
    BY DEF StepNames
  <2>2. ask \in AccountAsk
    BY <1>b, <1>s, <2>1, AskOpens
  <2>3. QED
    BY <1>a, <1>b, <2>2 DEF AccountAsk, At, Asked, Who
<1> HIDE DEF ask, s
<1>c. /\ doing' \in [Requests -> AccountAsk \cup {None}] /\ overlapped' \in BOOLEAN
      /\ doing'[r] = ask /\ doing'[r] # None
      /\ \A q \in Requests : q # r => doing'[q] = doing[q]
  BY <1>a, <1>e, MovedIs
<1>f. /\ shop' \in [Shops -> ShopRow \cup {None}]
      /\ shop'[s] # None /\ shop'[s].by = p /\ ~shop'[s].owned /\ ~shop'[s].seeded
      /\ \A t \in Shops : t # s => shop'[t] = shop[t]
  <2>1. [by |-> p, owned |-> FALSE, seeded |-> FALSE] \in ShopRow
    BY <1>b DEF ShopRow
  <2>2. QED
    BY <1>a, <1>s, <2>1, AccountsAssumption DEF AccountsTypes, AccountsTypeOK
<1>1. AccountsTypes'
  BY <1>a, <1>b, <1>s, <1>e, <1>c, <1>f DEF AccountsTypes, AccountsTypeOK
<1>2. PlacesKept'
  BY <1>a, <1>b, <1>s, <1>e, <1>c, <1>f, StepsAre DEF PlacesKept, At, Asked, Who
<1>3. RowsAgree'
  <2>1. (\A t \in Shops : shop[t] # None /\ shop[t].owned => user[shop[t].by] # None)'
    BY <1>a, <1>b, <1>s, <1>e, <1>c, <1>f DEF RowsAgree, AccountsTypes, AccountsTypeOK, ShopRow
  <2>2. (\A x \in session : user[x.of] # None)'
    BY <1>a, <1>b, <1>s, <1>e, <1>c, <1>f DEF RowsAgree, AccountsTypes, AccountsTypeOK
  <2>3. (\A q \in Founders : user[q] # None /\ user[q].in => user[q].verified \/ user[q].google)'
    BY <1>a, <1>b, <1>s, <1>e, <1>c, <1>f DEF RowsAgree
  <2>4. (\A q \in Requests : Coming(q) /\ ~doing[q].swept =>
           user[Who(q)] # None /\ (user[Who(q)].verified \/ user[Who(q)].google))'
    BY <1>a, <1>b, <1>s, <1>e, <1>c, <1>f DEF RowsAgree, Coming, At, Asked, Who, AccountsTypes, AccountAsk
  <2>5. QED
    BY <2>1, <2>2, <2>3, <2>4 DEF RowsAgree
<1>4. (died \/ Finishing)'
  BY <1>a, <1>b, <1>s, <1>e, <1>c, <1>f DEF Finishing, Belongs, At, Asked, Who
<1>5. (overlapped \/ Undisturbed)'
  <2> SUFFICES ASSUME Undisturbed PROVE Undisturbed'
    BY <1>a, <1>b, <1>s, <1>e, <1>c, <1>f
  <2>1. OneAtOnce'
    BY <1>a, <1>b, <1>s, <1>e, <1>c, <1>f DEF Undisturbed, OneAtOnce, Busy
  <2>2. NoneSwept'
    BY <1>a, <1>b, <1>s, <1>e, <1>c, <1>f DEF Undisturbed, NoneSwept, Busy
  <2>3. OneShopApiece'
    BY <1>a, <1>b, <1>s, <1>e, <1>c, <1>f DEF Undisturbed, OneShopApiece
  <2>4. OpenersHaveNone'
    BY <1>a, <1>b, <1>s, <1>e, <1>c, <1>f DEF Undisturbed, OpenersHaveNone, Belongs, At, Asked, Who
  <2>5. OneLinkEach'
    BY <1>a, <1>b, <1>s, <1>e, <1>c, <1>f DEF Undisturbed, OneLinkEach
  <2>6. MintersVoidedAll'
    BY <1>a, <1>b, <1>s, <1>e, <1>c, <1>f DEF Undisturbed, MintersVoidedAll, LinksOf, At, Asked, Who
  <2>7. ComersKnowThePass'
    <3>1. Coming(r) /\ doing'[r].who = doing[r].who /\ doing'[r].pass = doing[r].pass
      BY <1>a, <1>c, <1>e DEF Coming, At, Asked, Who
    <3>2. QED
      BY <1>a, <1>c, <3>1, ComersStay DEF Undisturbed
  <2>8. QED
    BY <2>1, <2>2, <2>3, <2>4, <2>5, <2>6, <2>7 DEF Undisturbed
<1>6. (overlapped \/ died \/ Undied)'
  <2> SUFFICES ASSUME Undied PROVE Undied'
    BY <1>a, <1>b, <1>s, <1>e, <1>c, <1>f
  <2>1. GoodLinksSetNone'
    BY <1>a, <1>b, <1>s, <1>e, <1>c, <1>f DEF Undied, GoodLinksSetNone, At, Asked
  <2>2. SettersHoldGoodLinks'
    BY <1>a, <1>b, <1>s, <1>e, <1>c, <1>f DEF Undied, SettersHoldGoodLinks, At, Asked
  <2>3. NoSessionIsOlder'
    BY <1>a, <1>b, <1>s, <1>e, <1>c, <1>f DEF Undied, NoSessionIsOlder, At, Asked, Who
  <2>4. QED
    BY <2>1, <2>2, <2>3 DEF Undied
<1>7. QED
  BY <1>1, <1>2, <1>3, <1>4, <1>5, <1>6

LEMMA JoinShopKeeps ==
  ASSUME AccountsInv, NEW r \in Requests, JoinShop(r)
  PROVE  AccountsInv'
<1> USE DEF AccountsInv
<1> DEFINE p == Who(r)
           s == doing[r].at
<1>a. /\ AccountsTypes /\ doing[r] # None /\ At(r, "google", "join")
      /\ UNCHANGED <<overlapped, tick, user, link, session>>
  BY DEF JoinShop, At, Asked
<1>b. /\ p \in Founders /\ doing[r] \in AccountAsk
      /\ s \in Shops /\ shop[s] \in ShopRow /\ shop[s].by = p
  BY <1>a, AskerIs DEF PlacesKept, AccountsTypes, AccountsTypeOK
<1>1. CASE ~There(r)
  <2>c. /\ doing' \in [Requests -> AccountAsk \cup {None}] /\ overlapped' \in BOOLEAN
        /\ doing'[r] = None /\ UNCHANGED shop /\ died' = TRUE
        /\ \A q \in Requests : q # r => doing'[q] = doing[q]
    BY <1>1, <1>a, FinishIs DEF Finish, JoinShop
  <2>1. AccountsTypes'
    BY <1>a, <1>b, <2>c DEF AccountsTypes, AccountsTypeOK
  <2>2. PlacesKept'
    BY <1>a, <1>b, <2>c DEF PlacesKept, At, Asked, Who
  <2>3. RowsAgree'
    BY <1>a, <1>b, <2>c DEF RowsAgree, Coming, Who, AccountsTypes, AccountsTypeOK, AccountAsk, ShopRow
  <2>4. (died \/ Finishing)'
    BY <1>a, <1>b, <2>c DEF Finishing, Belongs, At, Asked, Who
  <2>5. (overlapped \/ Undisturbed)'
    BY <1>a, <1>b, <2>c, SMTT(60) DEF Undisturbed, OneAtOnce, NoneSwept, OneShopApiece, OpenersHaveNone, OneLinkEach,
       MintersVoidedAll, ComersKnowThePass, Busy, LinksOf, Coming, Belongs, At, Asked, Who
  <2>6. (overlapped \/ died \/ Undied)'
    BY <1>a, <1>b, <2>c, SMTT(60) DEF Undied, GoodLinksSetNone, SettersHoldGoodLinks, NoSessionIsOlder, At, Asked, Who
  <2>7. QED
    BY <2>1, <2>2, <2>3, <2>4, <2>5, <2>6
<1>2. CASE There(r)
  <2> DEFINE ask == [doing[r] EXCEPT !.step = "seed"]
             oneRow == [shop[s] EXCEPT !.owned = TRUE]
  <2>a. doing' = [doing EXCEPT ![r] = ask] /\ shop' = [shop EXCEPT ![s] = oneRow] /\ died' = died
    BY <1>2 DEF JoinShop
  <2>b. /\ ask \in AccountAsk /\ ask.kind = "google" /\ ask.step = "seed" /\ ask.who = p /\ ask.at = s
        /\ ask.pass = doing[r].pass /\ ask.swept = doing[r].swept
    <3>1. "seed" \in StepNames
      BY DEF StepNames
    <3>2. ask \in AccountAsk
      BY <1>b, <3>1, AskSteps
    <3>3. QED
      BY <1>a, <1>b, <3>2 DEF AccountAsk, At, Asked, Who
  <2>d. oneRow \in ShopRow /\ oneRow.by = p /\ oneRow.owned /\ oneRow.seeded = shop[s].seeded
    BY <1>b, ShopWrites DEF ShopRow
  <2> HIDE DEF ask, oneRow
  <2>e. /\ doing' \in [Requests -> AccountAsk \cup {None}] /\ overlapped' \in BOOLEAN
        /\ doing'[r] = ask /\ doing'[r] # None
        /\ \A q \in Requests : q # r => doing'[q] = doing[q]
    BY <1>a, <2>a, <2>b, MovedIs
  <2>f. /\ shop' \in [Shops -> ShopRow \cup {None}] /\ shop'[s] = oneRow /\ shop'[s] # None /\ shop[s] # None
        /\ \A t \in Shops : t # s => shop'[t] = shop[t]
    BY <1>a, <1>b, <2>a, <2>d, AccountsAssumption DEF AccountsTypes, AccountsTypeOK
  <2>g. user[p] # None
    BY <1>2 DEF There
  <2>1. AccountsTypes'
    BY <1>a, <1>b, <2>a, <2>b, <2>d, <2>e, <2>f, <2>g DEF AccountsTypes, AccountsTypeOK
  <2>2. PlacesKept'
    BY <1>a, <1>b, <2>a, <2>b, <2>d, <2>e, <2>f, <2>g, StepsAre DEF PlacesKept, At, Asked, Who
  <2>3. RowsAgree'
    <3>1. (\A t \in Shops : shop[t] # None /\ shop[t].owned => user[shop[t].by] # None)'
      BY <1>a, <1>b, <2>a, <2>b, <2>d, <2>e, <2>f, <2>g DEF RowsAgree, AccountsTypes, AccountsTypeOK, ShopRow
    <3>2. (\A x \in session : user[x.of] # None)'
      BY <1>a, <1>b, <2>a, <2>b, <2>d, <2>e, <2>f, <2>g DEF RowsAgree, AccountsTypes, AccountsTypeOK
    <3>3. (\A q \in Founders : user[q] # None /\ user[q].in => user[q].verified \/ user[q].google)'
      BY <1>a, <1>b, <2>a, <2>b, <2>d, <2>e, <2>f, <2>g DEF RowsAgree
    <3>4. (\A q \in Requests : Coming(q) /\ ~doing[q].swept =>
             user[Who(q)] # None /\ (user[Who(q)].verified \/ user[Who(q)].google))'
      BY <1>a, <1>b, <2>a, <2>b, <2>d, <2>e, <2>f, <2>g DEF RowsAgree, Coming, At, Asked, Who, AccountsTypes, AccountAsk
    <3>5. QED
      BY <3>1, <3>2, <3>3, <3>4 DEF RowsAgree
  <2>4. (died \/ Finishing)'
    <3> SUFFICES ASSUME Finishing PROVE Finishing'
      BY <1>a, <1>b, <2>a, <2>b, <2>d, <2>e, <2>f, <2>g
    <3>1. (\A t \in Shops : shop[t] # None /\ ~shop[t].seeded =>
           \E q \in Requests : (At(q, "google", "join") \/ At(q, "google", "seed")) /\ doing[q].at = t)'
      BY <1>a, <1>b, <2>a, <2>b, <2>d, <2>e, <2>f, <2>g DEF Finishing, At, Asked, Who
    <3>2. (\A o \in Founders : user[o] # None => Belongs(o) \/ \E q \in Requests :
           (At(q, "google", "member") \/ At(q, "google", "open") \/ At(q, "google", "join")) /\ Who(q) = o)'
      BY <1>a, <1>b, <2>a, <2>b, <2>d, <2>e, <2>f, <2>g DEF Finishing, Belongs, At, Asked, Who
    <3>3. QED
      BY <3>1, <3>2 DEF Finishing
  <2>5. (overlapped \/ Undisturbed)'
    <3> SUFFICES ASSUME Undisturbed PROVE Undisturbed'
      BY <1>a, <1>b, <2>a, <2>b, <2>d, <2>e, <2>f, <2>g
    <3>1. OneAtOnce'
      BY <1>a, <1>b, <2>a, <2>b, <2>d, <2>e, <2>f, <2>g DEF Undisturbed, OneAtOnce, Busy
    <3>2. NoneSwept'
      BY <1>a, <1>b, <2>a, <2>b, <2>d, <2>e, <2>f, <2>g DEF Undisturbed, NoneSwept, Busy
    <3>3. OneShopApiece'
      <4>1. ~Belongs(p)
        BY <1>a DEF Undisturbed, OpenersHaveNone
      <4>2. \A t \in Shops : shop'[t] # None /\ shop'[t].owned /\ shop'[t].by = p => t = s
        BY <2>f, <4>1 DEF Belongs
      <4>3. QED
        BY <2>d, <2>f, <4>2 DEF Undisturbed, OneShopApiece
    <3>4. OpenersHaveNone'
      BY <1>a, <1>b, <2>a, <2>b, <2>d, <2>e, <2>f, <2>g DEF Undisturbed, OpenersHaveNone, Belongs, At, Asked, Who, OneAtOnce, Busy
    <3>5. OneLinkEach'
      BY <1>a, <1>b, <2>a, <2>b, <2>d, <2>e, <2>f, <2>g DEF Undisturbed, OneLinkEach
    <3>6. MintersVoidedAll'
      BY <1>a, <1>b, <2>a, <2>b, <2>d, <2>e, <2>f, <2>g DEF Undisturbed, MintersVoidedAll, LinksOf, At, Asked, Who
    <3>7. ComersKnowThePass'
      <4>1. Coming(r) /\ doing'[r].who = doing[r].who /\ doing'[r].pass = doing[r].pass
        BY <1>a, <2>b, <2>e DEF Coming, At, Asked, Who
      <4>2. QED
        BY <1>a, <2>e, <4>1, ComersStay DEF Undisturbed
    <3>8. QED
      BY <3>1, <3>2, <3>3, <3>4, <3>5, <3>6, <3>7 DEF Undisturbed
  <2>6. (overlapped \/ died \/ Undied)'
    BY <1>a, <1>b, <2>a, <2>b, <2>d, <2>e, <2>f, <2>g
       DEF Undied, GoodLinksSetNone, SettersHoldGoodLinks, NoSessionIsOlder, At, Asked, Who
  <2>7. QED
    BY <2>1, <2>2, <2>3, <2>4, <2>5, <2>6
<1>3. QED
  BY <1>1, <1>2

LEMMA SeedOrganizationDefaultsKeeps ==
  ASSUME AccountsInv, NEW r \in Requests, SeedOrganizationDefaults(r)
  PROVE  AccountsInv'
<1> USE DEF AccountsInv
<1> DEFINE p == Who(r)
           s == doing[r].at
           oneRow == [shop[s] EXCEPT !.seeded = TRUE]
<1>a. /\ AccountsTypes /\ doing[r] # None /\ At(r, "google", "seed") /\ GoOn(r, "issue")
      /\ UNCHANGED <<tick, user, link, session, died>> /\ shop' = [shop EXCEPT ![s] = oneRow]
  BY DEF SeedOrganizationDefaults, At, Asked
<1>b. /\ p \in Founders /\ s \in Shops /\ shop[s] \in ShopRow /\ shop[s].by = p /\ shop[s] # None
  BY <1>a, AskerIs DEF PlacesKept, AccountsTypes, AccountsTypeOK
<1>c. /\ doing' \in [Requests -> AccountAsk \cup {None}] /\ overlapped' \in BOOLEAN
      /\ overlapped' = overlapped
      /\ doing'[r] # None /\ doing'[r].step = "issue" /\ doing'[r].kind = "google"
      /\ doing'[r].who = p /\ doing'[r].at = doing[r].at
      /\ doing'[r].pass = doing[r].pass /\ doing'[r].swept = doing[r].swept
      /\ \A q \in Requests : q # r => doing'[q] = doing[q]
  BY <1>a, GoOnIs DEF StepNames, At, Asked, Who
<1>d. oneRow \in ShopRow /\ oneRow.by = p /\ oneRow.owned = shop[s].owned /\ oneRow.seeded
  BY <1>b, ShopWrites DEF ShopRow
<1> HIDE DEF oneRow
<1>e. /\ shop' \in [Shops -> ShopRow \cup {None}] /\ shop'[s] = oneRow /\ shop'[s] # None
      /\ \A t \in Shops : t # s => shop'[t] = shop[t]
  BY <1>a, <1>b, <1>d, AccountsAssumption DEF AccountsTypes, AccountsTypeOK
<1>1. AccountsTypes'
  BY <1>a, <1>b, <1>c, <1>d, <1>e DEF AccountsTypes, AccountsTypeOK
<1>2. PlacesKept'
  BY <1>a, <1>b, <1>c, <1>d, <1>e, StepsAre DEF PlacesKept, At, Asked, Who
<1>3. RowsAgree'
  <2>1. (\A t \in Shops : shop[t] # None /\ shop[t].owned => user[shop[t].by] # None)'
    BY <1>a, <1>b, <1>c, <1>d, <1>e DEF RowsAgree, AccountsTypes, AccountsTypeOK, ShopRow
  <2>2. (\A x \in session : user[x.of] # None)'
    BY <1>a, <1>b, <1>c, <1>d, <1>e DEF RowsAgree, AccountsTypes, AccountsTypeOK
  <2>3. (\A q \in Founders : user[q] # None /\ user[q].in => user[q].verified \/ user[q].google)'
    BY <1>a, <1>b, <1>c, <1>d, <1>e DEF RowsAgree
  <2>4. (\A q \in Requests : Coming(q) /\ ~doing[q].swept =>
           user[Who(q)] # None /\ (user[Who(q)].verified \/ user[Who(q)].google))'
    BY <1>a, <1>b, <1>c, <1>d, <1>e DEF RowsAgree, Coming, At, Asked, Who, AccountsTypes, AccountAsk
  <2>5. QED
    BY <2>1, <2>2, <2>3, <2>4 DEF RowsAgree
<1>4. (died \/ Finishing)'
  <2> SUFFICES ASSUME Finishing PROVE Finishing'
    BY <1>a, <1>b, <1>c, <1>d, <1>e
  <2>1. (\A t \in Shops : shop[t] # None /\ ~shop[t].seeded =>
         \E q \in Requests : (At(q, "google", "join") \/ At(q, "google", "seed")) /\ doing[q].at = t)'
    BY <1>a, <1>b, <1>c, <1>d, <1>e DEF Finishing, At, Asked, Who
  <2>2. (\A o \in Founders : user[o] # None => Belongs(o) \/ \E q \in Requests :
         (At(q, "google", "member") \/ At(q, "google", "open") \/ At(q, "google", "join")) /\ Who(q) = o)'
    BY <1>a, <1>b, <1>c, <1>d, <1>e DEF Finishing, Belongs, At, Asked, Who
  <2>3. QED
    BY <2>1, <2>2 DEF Finishing
<1>5. (overlapped \/ Undisturbed)'
  <2> SUFFICES ASSUME Undisturbed PROVE Undisturbed'
    BY <1>a, <1>b, <1>c, <1>d, <1>e
  <2>1. OneAtOnce'
    BY <1>a, <1>b, <1>c, <1>d, <1>e DEF Undisturbed, OneAtOnce, Busy
  <2>2. NoneSwept'
    BY <1>a, <1>b, <1>c, <1>d, <1>e DEF Undisturbed, NoneSwept, Busy
  <2>3. OneShopApiece'
    BY <1>a, <1>b, <1>c, <1>d, <1>e DEF Undisturbed, OneShopApiece
  <2>4. OpenersHaveNone'
    BY <1>a, <1>b, <1>c, <1>d, <1>e DEF Undisturbed, OpenersHaveNone, Belongs, At, Asked, Who
  <2>5. OneLinkEach'
    BY <1>a, <1>b, <1>c, <1>d, <1>e DEF Undisturbed, OneLinkEach
  <2>6. MintersVoidedAll'
    BY <1>a, <1>b, <1>c, <1>d, <1>e DEF Undisturbed, MintersVoidedAll, LinksOf, At, Asked, Who
  <2>7. ComersKnowThePass'
    <3>1. Coming(r) /\ doing'[r].who = doing[r].who /\ doing'[r].pass = doing[r].pass
      BY <1>a, <1>c DEF Coming, At, Asked, Who
    <3>2. QED
      BY <1>a, <1>c, <3>1, ComersStay DEF Undisturbed
  <2>8. QED
    BY <2>1, <2>2, <2>3, <2>4, <2>5, <2>6, <2>7 DEF Undisturbed
<1>6. (overlapped \/ died \/ Undied)'
  <2> SUFFICES ASSUME Undisturbed, Undied PROVE Undied'
    BY <1>a, <1>b, <1>c, <1>d, <1>e
  <2>1. GoodLinksSetNone'
    BY <1>a, <1>b, <1>c, <1>d, <1>e DEF Undied, GoodLinksSetNone, At, Asked
  <2>2. SettersHoldGoodLinks'
    BY <1>a, <1>b, <1>c, <1>d, <1>e DEF Undied, SettersHoldGoodLinks, At, Asked
  <2>3. NoSessionIsOlder'
    BY <1>a, <1>b, <1>c, <1>d, <1>e DEF Undied, NoSessionIsOlder, At, Asked, Who
  <2>4. QED
    BY <2>1, <2>2, <2>3 DEF Undied
<1>7. QED
  BY <1>1, <1>2, <1>3, <1>4, <1>5, <1>6

LEMMA InvalidateLinksKeeps ==
  ASSUME AccountsInv, NEW r \in Requests, InvalidateLinks(r)
  PROVE  AccountsInv'
<1> USE DEF AccountsInv
<1> DEFINE p == Who(r)
<1>a. /\ AccountsTypes /\ doing[r] # None /\ At(r, "forgot", "void") /\ GoOn(r, "mint")
      /\ UNCHANGED <<tick, user, shop, session, died>>
  BY DEF InvalidateLinks, At, Asked
<1>b. p \in Founders
  BY <1>a, AskerIs
<1>c. /\ doing' \in [Requests -> AccountAsk \cup {None}] /\ overlapped' \in BOOLEAN
      /\ overlapped' = overlapped
      /\ doing'[r] # None /\ doing'[r].step = "mint" /\ doing'[r].kind = "forgot"
      /\ doing'[r].who = p /\ doing'[r].at = doing[r].at
      /\ doing'[r].pass = doing[r].pass /\ doing'[r].swept = doing[r].swept
      /\ \A q \in Requests : q # r => doing'[q] = doing[q]
  BY <1>a, GoOnIs DEF StepNames, At, Asked, Who
<1>d. /\ link' \in [Links -> LinkRow \cup {None}]
      /\ \A l \in Links : /\ link'[l] = None <=> link[l] = None
                          /\ link[l] # None => /\ link'[l].of = link[l].of /\ link'[l].set = link[l].set
                                               /\ link[l].used => link'[l].used
                                               /\ link[l].of = p => link'[l].used
                                               /\ ~(link[l].of = p) => link'[l].used = link[l].used
  <2>1. link' = [l \in Links |-> IF l \in LinksOf(p) THEN [link[l] EXCEPT !.used = TRUE] ELSE link[l]]
    BY DEF InvalidateLinks
  <2>2. \A l \in Links : link[l] # None => link[l] \in LinkRow
    BY <1>a DEF AccountsTypes, AccountsTypeOK
  <2>3. \A l \in LinkRow : LET oneRow == [l EXCEPT !.used = TRUE]
                           IN  oneRow \in LinkRow /\ oneRow # None /\ oneRow.used /\ oneRow.of = l.of /\ oneRow.set = l.set
    BY LinkWrites, AccountsAssumption DEF LinkRow
  <2>4. \A l \in Links : link'[l] \in LinkRow \cup {None}
    BY <1>a, <2>1, <2>2, <2>3 DEF LinksOf, AccountsTypes, AccountsTypeOK
  <2>5. QED
    BY <2>1, <2>2, <2>3, <2>4 DEF LinksOf
<1>1. AccountsTypes'
  BY <1>a, <1>b, <1>c, <1>d DEF AccountsTypes, AccountsTypeOK
<1>2. PlacesKept'
  BY <1>a, <1>b, <1>c, <1>d, StepsAre DEF PlacesKept, At, Asked, Who
<1>3. RowsAgree'
  <2>1. (\A t \in Shops : shop[t] # None /\ shop[t].owned => user[shop[t].by] # None)'
    BY <1>a, <1>b, <1>c, <1>d DEF RowsAgree, AccountsTypes, AccountsTypeOK, ShopRow
  <2>2. (\A x \in session : user[x.of] # None)'
    BY <1>a, <1>b, <1>c, <1>d DEF RowsAgree, AccountsTypes, AccountsTypeOK
  <2>3. (\A q \in Founders : user[q] # None /\ user[q].in => user[q].verified \/ user[q].google)'
    BY <1>a, <1>b, <1>c, <1>d DEF RowsAgree
  <2>4. (\A q \in Requests : Coming(q) /\ ~doing[q].swept =>
           user[Who(q)] # None /\ (user[Who(q)].verified \/ user[Who(q)].google))'
    BY <1>a, <1>b, <1>c, <1>d DEF RowsAgree, Coming, At, Asked, Who, AccountsTypes, AccountAsk
  <2>5. QED
    BY <2>1, <2>2, <2>3, <2>4 DEF RowsAgree
<1>4. (died \/ Finishing)'
  BY <1>a, <1>b, <1>c, <1>d DEF Finishing, Belongs, At, Asked, Who
<1>5. (overlapped \/ Undisturbed)'
  <2> SUFFICES ASSUME Undisturbed PROVE Undisturbed'
    BY <1>a, <1>b, <1>c, <1>d
  <2>1. OneAtOnce'
    BY <1>a, <1>b, <1>c, <1>d DEF Undisturbed, OneAtOnce, Busy
  <2>2. NoneSwept'
    BY <1>a, <1>b, <1>c, <1>d DEF Undisturbed, NoneSwept, Busy
  <2>3. OneShopApiece'
    BY <1>a, <1>b, <1>c, <1>d DEF Undisturbed, OneShopApiece
  <2>4. OpenersHaveNone'
    BY <1>a, <1>b, <1>c, <1>d DEF Undisturbed, OpenersHaveNone, Belongs, At, Asked, Who
  <2>5. OneLinkEach'
    BY <1>a, <1>b, <1>c, <1>d DEF Undisturbed, OneLinkEach
  <2>6. MintersVoidedAll'
    BY <1>a, <1>b, <1>c, <1>d DEF Undisturbed, MintersVoidedAll, LinksOf, At, Asked, Who
  <2>7. ComersKnowThePass'
    BY <1>a, <1>b, <1>c, <1>d DEF Undisturbed, ComersKnowThePass, Coming, Who
  <2>8. QED
    BY <2>1, <2>2, <2>3, <2>4, <2>5, <2>6, <2>7 DEF Undisturbed
<1>6. (overlapped \/ died \/ Undied)'
  <2> SUFFICES ASSUME Undisturbed, Undied PROVE Undied'
    BY <1>a, <1>b, <1>c, <1>d
  <2>1. GoodLinksSetNone'
    BY <1>a, <1>b, <1>c, <1>d DEF Undied, GoodLinksSetNone, At, Asked
  <2>2. SettersHoldGoodLinks'
    BY <1>a, <1>b, <1>c, <1>d DEF Undisturbed, Undied, SettersHoldGoodLinks, At, Asked, OneAtOnce, Busy
  <2>3. NoSessionIsOlder'
    BY <1>a, <1>b, <1>c, <1>d DEF Undied, NoSessionIsOlder, At, Asked, Who
  <2>4. QED
    BY <2>1, <2>2, <2>3 DEF Undied
<1>7. QED
  BY <1>1, <1>2, <1>3, <1>4, <1>5, <1>6

LEMMA MintLinkKeeps ==
  ASSUME AccountsInv, NEW r \in Requests, MintLink(r)
  PROVE  AccountsInv'
<1> USE DEF AccountsInv
<1> DEFINE p == Who(r)
<1>a. /\ AccountsTypes /\ doing[r] # None /\ At(r, "forgot", "mint") /\ Finish(r)
      /\ UNCHANGED <<tick, user, shop, session, died>>
  BY DEF MintLink, At, Asked
<1>b. p \in Founders
  BY <1>a, AskerIs
<1>c. /\ doing' \in [Requests -> AccountAsk \cup {None}] /\ overlapped' \in BOOLEAN
      /\ overlapped' = overlapped /\ doing'[r] = None
      /\ \A q \in Requests : q # r => doing'[q] = doing[q]
  BY <1>a, FinishIs
<1>1. CASE UNCHANGED link
  <2>1. AccountsTypes'
    BY <1>1, <1>a, <1>b, <1>c DEF AccountsTypes, AccountsTypeOK
  <2>2. PlacesKept'
    BY <1>1, <1>a, <1>b, <1>c DEF PlacesKept, At, Asked, Who
  <2>3. RowsAgree'
    BY <1>1, <1>a, <1>b, <1>c DEF RowsAgree, Coming, Who, AccountsTypes, AccountsTypeOK, AccountAsk, ShopRow
  <2>4. (died \/ Finishing)'
    BY <1>1, <1>a, <1>b, <1>c DEF Finishing, Belongs, At, Asked, Who
  <2>5. (overlapped \/ Undisturbed)'
    BY <1>1, <1>a, <1>b, <1>c, SMTT(60) DEF Undisturbed, OneAtOnce, NoneSwept, OneShopApiece, OpenersHaveNone, OneLinkEach,
       MintersVoidedAll, ComersKnowThePass, Busy, LinksOf, Coming, Belongs, At, Asked, Who
  <2>6. (overlapped \/ died \/ Undied)'
    BY <1>1, <1>a, <1>b, <1>c, SMTT(60) DEF Undied, GoodLinksSetNone, SettersHoldGoodLinks, NoSessionIsOlder, At, Asked, Who
  <2>7. QED
    BY <2>1, <2>2, <2>3, <2>4, <2>5, <2>6
<1>2. CASE link' # link
  <2> DEFINE l == Unused(link)
             oneRow == [of |-> p, used |-> FALSE, until |-> tick + LinkLife, set |-> 0]
  <2>a. link' = [link EXCEPT ![l] = oneRow]
    BY <1>2 DEF MintLink
  <2>b. l \in Links /\ link[l] = None
    BY UnusedIsFree DEF MintLink, AccountsTypes, AccountsTypeOK
  <2>d. oneRow \in LinkRow
    BY <1>a, <1>b, AccountsAssumption DEF LinkRow, AccountsTypes, AccountsTypeOK
  <2>e. oneRow.of = p /\ ~oneRow.used /\ oneRow.set = 0
    OBVIOUS
  <2> HIDE DEF l, oneRow
  <2>f. /\ link' \in [Links -> LinkRow \cup {None}] /\ link'[l] = oneRow /\ link'[l] # None
        /\ \A m \in Links : m # l => link'[m] = link[m]
    BY <1>a, <2>a, <2>b, <2>d, AccountsAssumption DEF AccountsTypes, AccountsTypeOK
  <2>1. AccountsTypes'
    BY <1>a, <1>b, <1>c, <2>b, <2>e, <2>f DEF AccountsTypes, AccountsTypeOK
  <2>2. PlacesKept'
    BY <1>a, <1>b, <1>c, <2>b, <2>e, <2>f DEF PlacesKept, At, Asked, Who
  <2>3. RowsAgree'
    BY <1>a, <1>b, <1>c, <2>b, <2>e, <2>f DEF RowsAgree, Coming, Who, AccountsTypes, AccountsTypeOK, AccountAsk, ShopRow
  <2>4. (died \/ Finishing)'
    BY <1>a, <1>b, <1>c, <2>b, <2>e, <2>f DEF Finishing, Belongs, At, Asked, Who
  <2>5. (overlapped \/ Undisturbed)'
    BY <1>a, <1>b, <1>c, <2>b, <2>e, <2>f, SMTT(60) DEF Undisturbed, OneAtOnce, NoneSwept, OneShopApiece, OpenersHaveNone,
       OneLinkEach, MintersVoidedAll, ComersKnowThePass, Busy, LinksOf, Coming, Belongs, At, Asked, Who, AccountsTypes,
       AccountsTypeOK
  <2>6. (overlapped \/ died \/ Undied)'
    <3> SUFFICES ASSUME Undisturbed, Undied PROVE Undied'
      BY <1>a, <1>b, <1>c, <2>b, <2>e, <2>f
    <3>1. GoodLinksSetNone'
      BY <1>a, <1>b, <1>c, <2>b, <2>e, <2>f DEF Undied, GoodLinksSetNone, At, Asked
    <3>2. SettersHoldGoodLinks'
      BY <1>a, <1>b, <1>c, <2>b, <2>e, <2>f DEF Undisturbed, Undied, SettersHoldGoodLinks, At, Asked, OneAtOnce, Busy
    <3>3. NoSessionIsOlder'
      BY <1>a, <1>b, <1>c, <2>b, <2>e, <2>f DEF Undied, NoSessionIsOlder, At, Asked, Who
    <3>4. QED
      BY <3>1, <3>2, <3>3 DEF Undied
  <2>7. QED
    BY <2>1, <2>2, <2>3, <2>4, <2>5, <2>6
<1>3. QED
  BY <1>1, <1>2

LEMMA UpdatePasswordKeeps ==
  ASSUME AccountsInv, NEW r \in Requests, UpdatePassword(r)
  PROVE  AccountsInv'
<1> USE DEF AccountsInv
<1> DEFINE p == Who(r)
           l == doing[r].at
<1>a. /\ AccountsTypes /\ doing[r] # None /\ At(r, "password", "set")
      /\ UNCHANGED <<tick, shop, session, died>>
  BY DEF UpdatePassword, At, Asked
<1>b. p \in Founders
  BY <1>a, AskerIs
<1>1. CASE ~There(r) /\ Finish(r) /\ UNCHANGED <<user, link>>
  <2>c. /\ doing' \in [Requests -> AccountAsk \cup {None}] /\ overlapped' \in BOOLEAN
        /\ overlapped' = overlapped /\ doing'[r] = None
        /\ \A q \in Requests : q # r => doing'[q] = doing[q]
    BY <1>1, <1>a, FinishIs
  <2>1. AccountsTypes'
    BY <1>1, <1>a, <1>b, <2>c DEF AccountsTypes, AccountsTypeOK
  <2>2. PlacesKept'
    BY <1>1, <1>a, <1>b, <2>c DEF PlacesKept, At, Asked, Who
  <2>3. RowsAgree'
    BY <1>1, <1>a, <1>b, <2>c DEF RowsAgree, Coming, Who, AccountsTypes, AccountsTypeOK, AccountAsk, ShopRow
  <2>4. (died \/ Finishing)'
    BY <1>1, <1>a, <1>b, <2>c DEF Finishing, Belongs, At, Asked, Who
  <2>5. (overlapped \/ Undisturbed)'
    BY <1>1, <1>a, <1>b, <2>c, SMTT(60) DEF Undisturbed, OneAtOnce, NoneSwept, OneShopApiece, OpenersHaveNone, OneLinkEach,
       MintersVoidedAll, ComersKnowThePass, Busy, LinksOf, Coming, Belongs, At, Asked, Who, AccountsTypes, AccountsTypeOK
  <2>6. (overlapped \/ died \/ Undied)'
    BY <1>1, <1>a, <1>b, <2>c, SMTT(60) DEF Undied, GoodLinksSetNone, SettersHoldGoodLinks, NoSessionIsOlder, At, Asked, Who
  <2>7. QED
    BY <2>1, <2>2, <2>3, <2>4, <2>5, <2>6
<1>2. CASE /\ There(r) /\ user[p].pass < MaxPasswords
           /\ user' = [user EXCEPT ![p].pass = @ + 1]
  <2> DEFINE oneRow == [user[p] EXCEPT !.pass = user[p].pass + 1]
  <2>d. user[p] # None /\ user[p] \in Account
    BY <1>b, <1>2 DEF There, AccountsTypes, AccountsTypeOK
  <2>e. /\ oneRow \in Account /\ oneRow.verified = user[p].verified /\ oneRow.google = user[p].google
        /\ oneRow.in = user[p].in
    <3>1. user[p].pass + 1 \in 0..MaxPasswords
      BY <1>2, <2>d, AccountsAssumption DEF Account
    <3>2. QED
      BY <2>d, <3>1, AccountWrites DEF Account
  <2>x. user' = [user EXCEPT ![p] = oneRow]
    BY <1>2
  <2> HIDE DEF oneRow
  <2>f. /\ user' \in [Founders -> Account \cup {None}] /\ user'[p] = oneRow /\ oneRow # None
        /\ \A q \in Founders : q # p => user'[q] = user[q]
    BY <1>a, <1>b, <2>e, <2>x, AccountsAssumption DEF AccountsTypes, AccountsTypeOK
  <2>1. CASE l = None /\ UNCHANGED link /\ GoOn(r, "revoke")
    <3>c. /\ doing' \in [Requests -> AccountAsk \cup {None}] /\ overlapped' \in BOOLEAN
          /\ overlapped' = overlapped
          /\ doing'[r] # None /\ doing'[r].step = "revoke" /\ doing'[r].kind = "password"
          /\ doing'[r].who = p /\ doing'[r].at = doing[r].at
          /\ doing'[r].pass = doing[r].pass /\ doing'[r].swept = doing[r].swept
          /\ \A q \in Requests : q # r => doing'[q] = doing[q]
      BY <2>1, <1>a, GoOnIs DEF StepNames, At, Asked, Who
    <3>1. AccountsTypes'
      BY <1>a, <1>b, <2>d, <2>e, <2>f, <2>1, <3>c DEF AccountsTypes, AccountsTypeOK
    <3>2. PlacesKept'
      BY <1>a, <1>b, <2>d, <2>e, <2>f, <2>1, <3>c, StepsAre DEF PlacesKept, At, Asked, Who
    <3>3. RowsAgree'
      BY <1>a, <1>b, <2>d, <2>e, <2>f, <2>1, <3>c DEF RowsAgree, Coming, Who, AccountsTypes, AccountsTypeOK, AccountAsk, ShopRow
    <3>4. (died \/ Finishing)'
      BY <1>a, <1>b, <2>d, <2>e, <2>f, <2>1, <3>c DEF Finishing, Belongs, At, Asked, Who
    <3>5. (overlapped \/ Undisturbed)'
      <4> SUFFICES ASSUME Undisturbed PROVE Undisturbed'
        BY <1>a, <1>b, <2>d, <2>e, <2>f, <2>1, <3>c
      <4>1. OneAtOnce'
        BY <1>a, <1>b, <2>d, <2>e, <2>f, <2>1, <3>c DEF Undisturbed, OneAtOnce, Busy
      <4>2. NoneSwept'
        BY <1>a, <1>b, <2>d, <2>e, <2>f, <2>1, <3>c DEF Undisturbed, NoneSwept, Busy
      <4>3. OneShopApiece'
        BY <1>a, <1>b, <2>d, <2>e, <2>f, <2>1, <3>c DEF Undisturbed, OneShopApiece
      <4>4. OpenersHaveNone'
        BY <1>a, <1>b, <2>d, <2>e, <2>f, <2>1, <3>c
           DEF Undisturbed, OpenersHaveNone, Belongs, At, Asked, Who, AccountsTypes, AccountsTypeOK
      <4>5. OneLinkEach'
        BY <1>a, <1>b, <2>d, <2>e, <2>f, <2>1, <3>c DEF Undisturbed, OneLinkEach
      <4>6. MintersVoidedAll'
        BY <1>a, <1>b, <2>d, <2>e, <2>f, <2>1, <3>c DEF Undisturbed, MintersVoidedAll, LinksOf, At, Asked, Who
      <4>7. ComersKnowThePass'
        BY <1>a, <1>b, <2>d, <2>e, <2>f, <2>1, <3>c DEF Undisturbed, ComersKnowThePass, Coming, Who, OneAtOnce, Busy
      <4>8. QED
        BY <4>1, <4>2, <4>3, <4>4, <4>5, <4>6, <4>7 DEF Undisturbed
    <3>6. (overlapped \/ died \/ Undied)'
      <4> SUFFICES ASSUME Undisturbed, Undied PROVE Undied'
        BY <1>a, <1>b, <2>d, <2>e, <2>f, <2>1, <3>c
      <4>1. GoodLinksSetNone'
        BY <1>a, <1>b, <2>d, <2>e, <2>f, <2>1, <3>c DEF Undied, GoodLinksSetNone, At, Asked
      <4>2. SettersHoldGoodLinks'
        BY <1>a, <1>b, <2>d, <2>e, <2>f, <2>1, <3>c DEF Undied, SettersHoldGoodLinks, At, Asked
      <4>3. NoSessionIsOlder'
        BY <1>a, <1>b, <2>d, <2>e, <2>f, <2>1, <3>c DEF Undied, NoSessionIsOlder, At, Asked, Who, AccountsTypes, AccountsTypeOK
      <4>4. QED
        BY <4>1, <4>2, <4>3 DEF Undied
    <3>7. QED
      BY <3>1, <3>2, <3>3, <3>4, <3>5, <3>6
  <2>2. CASE l # None /\ link' = [link EXCEPT ![l].set = @ + 1] /\ GoOn(r, "mark")
    <3> DEFINE sent == [link[l] EXCEPT !.set = link[l].set + 1]
    <3>c. /\ doing' \in [Requests -> AccountAsk \cup {None}] /\ overlapped' \in BOOLEAN
          /\ overlapped' = overlapped
          /\ doing'[r] # None /\ doing'[r].step = "mark" /\ doing'[r].kind = "password"
          /\ doing'[r].who = p /\ doing'[r].at = doing[r].at
          /\ doing'[r].pass = doing[r].pass /\ doing'[r].swept = doing[r].swept
          /\ \A q \in Requests : q # r => doing'[q] = doing[q]
      BY <2>2, <1>a, GoOnIs DEF StepNames, At, Asked, Who
    <3>h. l \in Links /\ link[l] # None /\ link[l] \in LinkRow /\ link[l].of = p
      BY <1>a, <2>2 DEF PlacesKept, At, Asked, AccountsTypes, AccountsTypeOK
    <3>i. /\ sent \in LinkRow /\ sent.of = p /\ sent.used = link[l].used /\ sent.set = link[l].set + 1
      <4>1. link[l].set + 1 \in Nat
        BY <3>h DEF LinkRow
      <4>2. QED BY <3>h, <4>1, LinkWrites DEF LinkRow
    <3>x. link' = [link EXCEPT ![l] = sent]
      BY <2>2
    <3> HIDE DEF sent
    <3>k. /\ link' \in [Links -> LinkRow \cup {None}] /\ link'[l] = sent /\ link'[l] # None
          /\ \A m \in Links : m # l => link'[m] = link[m]
      BY <1>a, <3>h, <3>i, <3>x, AccountsAssumption DEF AccountsTypes, AccountsTypeOK
    <3>1. AccountsTypes'
      BY <1>a, <1>b, <2>d, <2>e, <2>f, <2>2, <3>c, <3>h, <3>i, <3>k DEF AccountsTypes, AccountsTypeOK
    <3>2. PlacesKept'
      <4>1. doing'[r].step \in Steps(doing'[r].kind)
        BY <3>c, StepsAre
      <4>2. /\ Who(r)' = p /\ doing'[r].at = l /\ link'[l].of = p
            /\ ~At(r, "google", "join")' /\ ~At(r, "google", "seed")'
        BY <3>c, <3>i, <3>k DEF At, Asked, Who
      <4>3. \A m \in Links : link[m] # None => link'[m] # None /\ link'[m].of = link[m].of
        BY <3>h, <3>i, <3>k
      <4>4. \A q \in Requests : q # r /\ doing'[q] # None =>
              /\ doing[q] = doing'[q] /\ Who(q)' = Who(q)
              /\ \A kind, st : At(q, kind, st)' = At(q, kind, st) /\ Asked(q, kind)' = Asked(q, kind)
        BY <3>c DEF At, Asked, Who
      <4>5. \A q \in Requests : q # r /\ doing'[q] # None =>
              /\ doing'[q].step \in Steps(doing'[q].kind)
              /\ At(q, "google", "join")' \/ At(q, "google", "seed")' =>
                   doing'[q].at \in Shops /\ shop'[doing'[q].at] # None /\ shop'[doing'[q].at].by = Who(q)'
              /\ Asked(q, "password")' => doing'[q].at \in Links \cup {None}
              /\ Asked(q, "password")' /\ doing'[q].at # None =>
                   link'[doing'[q].at] # None /\ link'[doing'[q].at].of = Who(q)'
              /\ At(q, "password", "mark")' => doing'[q].at # None
        <5> SUFFICES ASSUME NEW q \in Requests, q # r, doing'[q] # None
                     PROVE  /\ doing'[q].step \in Steps(doing'[q].kind)
                            /\ At(q, "google", "join") \/ At(q, "google", "seed") =>
                                 doing[q].at \in Shops /\ shop[doing[q].at] # None /\ shop[doing[q].at].by = Who(q)
                            /\ Asked(q, "password") => doing[q].at \in Links \cup {None}
                            /\ Asked(q, "password") /\ doing[q].at # None =>
                                 link[doing[q].at] # None /\ link[doing[q].at].of = Who(q)
                            /\ At(q, "password", "mark") => doing[q].at # None
          BY <1>a, <4>3, <4>4
        <5>1. QED
          BY <4>4 DEF PlacesKept
      <4>6. QED
        BY <2>2, <3>c, <3>h, <3>k, <4>1, <4>2, <4>5 DEF PlacesKept, Asked
    <3>3. RowsAgree'
      <4>1. (\A t \in Shops : shop[t] # None /\ shop[t].owned => user[shop[t].by] # None)'
        BY <1>a, <1>b, <2>d, <2>e, <2>f, <2>2, <3>c, <3>h, <3>i, <3>k
           DEF RowsAgree, AccountsTypes, AccountsTypeOK, AccountAsk, ShopRow
      <4>2. (\A x \in session : user[x.of] # None)'
        BY <1>a, <1>b, <2>d, <2>e, <2>f, <2>2, <3>c, <3>h, <3>i, <3>k DEF RowsAgree, AccountsTypes, AccountsTypeOK
      <4>3. (\A q \in Founders : user[q] # None /\ user[q].in => user[q].verified \/ user[q].google)'
        BY <1>a, <1>b, <2>d, <2>e, <2>f, <2>2, <3>c, <3>h, <3>i, <3>k DEF RowsAgree
      <4>4. (\A q \in Requests : Coming(q) /\ ~doing[q].swept =>
               user[Who(q)] # None /\ (user[Who(q)].verified \/ user[Who(q)].google))'
        <5>1. \A q \in Requests : Coming(q)' => q # r /\ doing'[q] = doing[q] /\ Coming(q) /\ Who(q)' = Who(q)
          BY <3>c DEF Coming, Who
        <5>2. \A o \in Founders : user[o] # None =>
                user'[o] # None /\ user'[o].verified = user[o].verified /\ user'[o].google = user[o].google
          BY <2>e, <2>f
        <5>3. \A q \in Requests : Coming(q) => Who(q) \in Founders
          BY <1>a, AskerIs DEF Coming
        <5>4. QED
          BY <5>1, <5>2, <5>3 DEF RowsAgree
      <4>5. QED
        BY <4>1, <4>2, <4>3, <4>4 DEF RowsAgree
    <3>4. (died \/ Finishing)'
      <4> SUFFICES ASSUME Finishing PROVE Finishing'
        BY <1>a, <1>b, <2>d, <2>e, <2>f, <2>2, <3>c, <3>h, <3>i, <3>k
      <4>1. (\A t \in Shops : shop[t] # None /\ ~shop[t].seeded =>
               \E q \in Requests : (At(q, "google", "join") \/ At(q, "google", "seed")) /\ doing[q].at = t)'
        <5>1. \A q \in Requests : At(q, "google", "join") \/ At(q, "google", "seed") => doing'[q] = doing[q]
          BY <1>a, <3>c DEF At, Asked
        <5>2. QED
          BY <1>a, <5>1 DEF Finishing, At, Asked
      <4>2. (\A o \in Founders : user[o] # None => Belongs(o) \/ \E q \in Requests :
               (At(q, "google", "member") \/ At(q, "google", "open") \/ At(q, "google", "join")) /\ Who(q) = o)'
        <5>1. \A q \in Requests : At(q, "google", "member") \/ At(q, "google", "open") \/ At(q, "google", "join") => doing'[q] = doing[q]
          BY <1>a, <3>c DEF At, Asked
        <5>2. \A o \in Founders : Belongs(o)' = Belongs(o) /\ (user'[o] # None => user[o] # None)
          BY <1>a, <2>d, <2>f DEF Belongs
        <5>3. QED
          BY <5>1, <5>2 DEF Finishing, At, Asked, Who
      <4>3. QED
        BY <4>1, <4>2 DEF Finishing
    <3>5. (overlapped \/ Undisturbed)'
      <4> SUFFICES ASSUME Undisturbed PROVE Undisturbed'
        BY <3>c
      <4>1. \A q \in Requests : q # r => doing'[q] = None
        BY <1>a, <3>c DEF Undisturbed, OneAtOnce, Busy
      <4>2. ~Coming(r)' /\ ~At(r, "google", "open")' /\ ~At(r, "google", "join")' /\ ~At(r, "forgot", "mint")'
        BY <3>c DEF Coming, At, Asked
      <4>3. (\A k, m \in Links : link[k] # None /\ link[m] # None /\ ~link[k].used /\ ~link[m].used
                                /\ link[k].of = link[m].of => k = m)'
        BY <3>h, <3>i, <3>k DEF Undisturbed, OneLinkEach
      <4>4. ~doing'[r].swept
        BY <1>a, <3>c DEF Undisturbed, NoneSwept, Busy
      <4>5. QED
        BY <1>a, <4>1, <4>2, <4>3, <4>4, SMTT(60) DEF Undisturbed, OneAtOnce, NoneSwept, OneShopApiece, OpenersHaveNone, OneLinkEach,
           MintersVoidedAll, ComersKnowThePass, Busy, Coming, At, Asked
    <3>6. (overlapped \/ died \/ Undied)'
      <4> SUFFICES ASSUME Undisturbed, Undied PROVE Undied'
        BY <1>a, <3>c
      <4>1. \A q \in Requests : q # r => doing[q] = None /\ doing'[q] = None
        BY <1>a, <3>c DEF Undisturbed, OneAtOnce, Busy
      <4>2. At(r, "password", "mark")' /\ ~At(r, "password", "set")' /\ Who(r)' = p /\ doing'[r].at = l
        BY <3>c DEF At, Asked, Who
      <4>3. \A q \in Requests : ~At(q, "password", "mark") /\ ~At(q, "password", "revoke")
        BY <1>a, <4>1 DEF At, Asked
      <4>4. link[l].set = 0 /\ ~link[l].used
        BY <1>a, <2>2, SMTT(60) DEF Undied, GoodLinksSetNone, SettersHoldGoodLinks, NoSessionIsOlder
      <4>5. (\A m \in Links : link[m] # None => link[m].set <= 1 /\
              (~link[m].used => link[m].set = 0 \/ \E q \in Requests : At(q, "password", "mark") /\ doing[q].at = m))'
        BY <3>i, <3>k, <4>2, <4>3, <4>4, SMTT(60) DEF Undied, GoodLinksSetNone, SettersHoldGoodLinks, NoSessionIsOlder
      <4>6. (\A q \in Requests : At(q, "password", "set") /\ doing[q].at # None =>
              ~link[doing[q].at].used /\ link[doing[q].at].set = 0)'
        BY <4>1, <4>2 DEF At, Asked
      <4>7. (\A x \in session : user[x.of].pass = x.pass \/ \E q \in Requests :
              (At(q, "password", "mark") \/ At(q, "password", "revoke")) /\ Who(q) = x.of)'
        BY <1>a, <2>f, <4>2, <4>3, SMTT(60) DEF Undied, GoodLinksSetNone, SettersHoldGoodLinks, NoSessionIsOlder, AccountsTypes,
           AccountsTypeOK
      <4>8. QED
        BY <4>5, <4>6, <4>7, SMTT(60) DEF Undied, GoodLinksSetNone, SettersHoldGoodLinks, NoSessionIsOlder
    <3>7. QED
      BY <3>1, <3>2, <3>3, <3>4, <3>5, <3>6
  <2>3. QED
    BY <1>1, <1>2, <2>1, <2>2 DEF UpdatePassword
<1>3. QED
  BY <1>1, <1>2 DEF UpdatePassword

LEMMA MarkAsUsedKeeps ==
  ASSUME AccountsInv, NEW r \in Requests, MarkAsUsed(r)
  PROVE  AccountsInv'
<1> USE DEF AccountsInv
<1> DEFINE p == Who(r)
           l == doing[r].at
           sent == [link[l] EXCEPT !.used = TRUE]
<1>a. /\ AccountsTypes /\ doing[r] # None /\ At(r, "password", "mark") /\ GoOn(r, "revoke")
      /\ UNCHANGED <<tick, user, shop, session, died>> /\ link' = [link EXCEPT ![l] = sent]
  BY DEF MarkAsUsed, At, Asked
<1>b. /\ p \in Founders /\ l \in Links /\ link[l] # None /\ link[l] \in LinkRow /\ link[l].of = p
  BY <1>a, AskerIs DEF PlacesKept, At, Asked, AccountsTypes, AccountsTypeOK
<1>c. /\ doing' \in [Requests -> AccountAsk \cup {None}] /\ overlapped' \in BOOLEAN
      /\ overlapped' = overlapped
      /\ doing'[r] # None /\ doing'[r].step = "revoke" /\ doing'[r].kind = "password"
      /\ doing'[r].who = p /\ doing'[r].at = doing[r].at
      /\ doing'[r].pass = doing[r].pass /\ doing'[r].swept = doing[r].swept
      /\ \A q \in Requests : q # r => doing'[q] = doing[q]
  BY <1>a, GoOnIs DEF StepNames, At, Asked, Who
<1>d. sent \in LinkRow /\ sent.of = p /\ sent.used /\ sent.set = link[l].set
  BY <1>b, LinkWrites DEF LinkRow
<1> HIDE DEF sent
<1>e. /\ link' \in [Links -> LinkRow \cup {None}] /\ link'[l] = sent /\ link'[l] # None
      /\ \A m \in Links : m # l => link'[m] = link[m]
  BY <1>a, <1>b, <1>d, AccountsAssumption DEF AccountsTypes, AccountsTypeOK
<1>1. AccountsTypes'
  BY <1>a, <1>b, <1>c, <1>d, <1>e DEF AccountsTypes, AccountsTypeOK
<1>2. PlacesKept'
  BY <1>a, <1>b, <1>c, <1>d, <1>e, StepsAre DEF PlacesKept, At, Asked, Who
<1>3. RowsAgree'
  BY <1>a, <1>b, <1>c, <1>d, <1>e DEF RowsAgree, Coming, Who, AccountsTypes, AccountsTypeOK, AccountAsk, ShopRow
<1>4. (died \/ Finishing)'
  BY <1>a, <1>b, <1>c, <1>d, <1>e DEF Finishing, Belongs, At, Asked, Who
<1>5. (overlapped \/ Undisturbed)'
  <2> SUFFICES ASSUME Undisturbed PROVE Undisturbed'
    BY <1>a, <1>b, <1>c, <1>d, <1>e
  <2>1. OneAtOnce'
    BY <1>a, <1>b, <1>c, <1>d, <1>e DEF Undisturbed, OneAtOnce, Busy
  <2>2. NoneSwept'
    BY <1>a, <1>b, <1>c, <1>d, <1>e DEF Undisturbed, NoneSwept, Busy
  <2>3. OneShopApiece'
    BY <1>a, <1>b, <1>c, <1>d, <1>e DEF Undisturbed, OneShopApiece
  <2>4. OpenersHaveNone'
    BY <1>a, <1>b, <1>c, <1>d, <1>e DEF Undisturbed, OpenersHaveNone, Belongs, At, Asked, Who
  <2>5. OneLinkEach'
    BY <1>a, <1>b, <1>c, <1>d, <1>e DEF Undisturbed, OneLinkEach
  <2>6. MintersVoidedAll'
    BY <1>a, <1>b, <1>c, <1>d, <1>e DEF Undisturbed, MintersVoidedAll, LinksOf, At, Asked, Who
  <2>7. ComersKnowThePass'
    BY <1>a, <1>b, <1>c, <1>d, <1>e DEF Undisturbed, ComersKnowThePass, Coming, Who
  <2>8. QED
    BY <2>1, <2>2, <2>3, <2>4, <2>5, <2>6, <2>7 DEF Undisturbed
<1>6. (overlapped \/ died \/ Undied)'
  <2> SUFFICES ASSUME Undisturbed, Undied PROVE Undied'
    BY <1>a, <1>b, <1>c, <1>d, <1>e
  <2>1. GoodLinksSetNone'
    BY <1>a, <1>b, <1>c, <1>d, <1>e DEF Undied, GoodLinksSetNone, At, Asked
  <2>2. SettersHoldGoodLinks'
    BY <1>a, <1>b, <1>c, <1>d, <1>e DEF Undisturbed, Undied, SettersHoldGoodLinks, At, Asked, OneAtOnce, Busy
  <2>3. NoSessionIsOlder'
    BY <1>a, <1>b, <1>c, <1>d, <1>e DEF Undied, NoSessionIsOlder, At, Asked, Who
  <2>4. QED
    BY <2>1, <2>2, <2>3 DEF Undied
<1>7. QED
  BY <1>1, <1>2, <1>3, <1>4, <1>5, <1>6

LEMMA RevokeAllForUserKeeps ==
  ASSUME AccountsInv, NEW r \in Requests, RevokeAllForUser(r)
  PROVE  AccountsInv'
<1> USE DEF AccountsInv
<1>a. /\ AccountsTypes /\ doing[r] # None /\ At(r, "password", "revoke") /\ Finish(r)
      /\ UNCHANGED <<tick, user, shop, link, died>> /\ session' = {x \in session : x.of # Who(r)}
  BY DEF RevokeAllForUser, At, Asked
<1>b. Who(r) \in Founders
  BY <1>a, AskerIs
<1>c. /\ doing' \in [Requests -> AccountAsk \cup {None}] /\ overlapped' \in BOOLEAN
      /\ overlapped' = overlapped /\ doing'[r] = None
      /\ \A q \in Requests : q # r => doing'[q] = doing[q]
  BY <1>a, FinishIs
<1>1. AccountsTypes'
  BY <1>a, <1>b, <1>c DEF AccountsTypes, AccountsTypeOK
<1>2. PlacesKept'
  BY <1>a, <1>b, <1>c DEF PlacesKept, At, Asked, Who
<1>3. RowsAgree'
  BY <1>a, <1>b, <1>c DEF RowsAgree, Coming, Who, AccountsTypes, AccountsTypeOK, AccountAsk, ShopRow
<1>4. (died \/ Finishing)'
  BY <1>a, <1>b, <1>c DEF Finishing, Belongs, At, Asked, Who
<1>5. (overlapped \/ Undisturbed)'
  BY <1>a, <1>b, <1>c, SMTT(60) DEF Undisturbed, OneAtOnce, NoneSwept, OneShopApiece, OpenersHaveNone, OneLinkEach, MintersVoidedAll,
     ComersKnowThePass, Busy, LinksOf, Coming, Belongs, At, Asked, Who
<1>6. (overlapped \/ died \/ Undied)'
  BY <1>a, <1>b, <1>c, SMTT(60) DEF Undied, GoodLinksSetNone, SettersHoldGoodLinks, NoSessionIsOlder, At, Asked, Who
<1>7. QED
  BY <1>1, <1>2, <1>3, <1>4, <1>5, <1>6

LEMMA CutShortAccountKeeps ==
  ASSUME AccountsInv, NEW r \in Requests, CutShortAccount(r)
  PROVE  AccountsInv'
<1> USE DEF AccountsInv
<1>a. /\ AccountsTypes /\ doing[r] # None /\ Finish(r)
      /\ UNCHANGED <<tick, user, shop, link, session>> /\ died' = TRUE
  BY DEF CutShortAccount, At, Asked
<1>b. Who(r) \in Founders
  BY <1>a, AskerIs
<1>c. /\ doing' \in [Requests -> AccountAsk \cup {None}] /\ overlapped' \in BOOLEAN
      /\ overlapped' = overlapped /\ doing'[r] = None
      /\ \A q \in Requests : q # r => doing'[q] = doing[q]
  BY <1>a, FinishIs
<1>1. AccountsTypes'
  BY <1>a, <1>b, <1>c DEF AccountsTypes, AccountsTypeOK
<1>2. PlacesKept'
  BY <1>a, <1>b, <1>c DEF PlacesKept, At, Asked, Who
<1>3. RowsAgree'
  BY <1>a, <1>b, <1>c DEF RowsAgree, Coming, Who, AccountsTypes, AccountsTypeOK, AccountAsk, ShopRow
<1>4. (died \/ Finishing)'
  BY <1>a, <1>b, <1>c DEF Finishing, Belongs, At, Asked, Who
<1>5. (overlapped \/ Undisturbed)'
  BY <1>a, <1>b, <1>c, SMTT(60) DEF Undisturbed, OneAtOnce, NoneSwept, OneShopApiece, OpenersHaveNone, OneLinkEach, MintersVoidedAll,
     ComersKnowThePass, Busy, LinksOf, Coming, Belongs, At, Asked, Who
<1>6. (overlapped \/ died \/ Undied)'
  BY <1>a, <1>b, <1>c, SMTT(60) DEF Undied, GoodLinksSetNone, SettersHoldGoodLinks, NoSessionIsOlder, At, Asked, Who
<1>7. QED
  BY <1>1, <1>2, <1>3, <1>4, <1>5, <1>6

LEMMA MatchOtpKeeps ==
  ASSUME AccountsInv, NEW r \in Requests, NEW p \in Founders, MatchOtp(r, p)
  PROVE  AccountsInv'
<1> USE DEF AccountsInv
<1> DEFINE ask == Asks("verify", p, "clear")
<1>a. AccountsTypes /\ Take(r, ask) /\ UNCHANGED <<tick, user, shop, link, session, died>>
  BY DEF MatchOtp, Begins, accountsVars
<1>b. /\ ask \in AccountAsk /\ ask.kind = "verify" /\ ask.step = "clear" /\ ask.who = p /\ ask.at = None
      /\ ~ask.swept
  BY AskRead DEF StepNames, AskKinds, Asks
<1> HIDE DEF ask
<1>c. /\ doing' \in [Requests -> AccountAsk \cup {None}] /\ overlapped' \in BOOLEAN
      /\ doing[r] = None /\ doing'[r] = ask /\ doing'[r] # None
      /\ \A q \in Requests : q # r => doing'[q] = doing[q]
      /\ overlapped' = (overlapped \/ \E q \in Requests : doing[q] # None)
  BY <1>a, <1>b, TakeIs
<1>1. AccountsTypes'
  BY <1>a, <1>b, <1>c DEF AccountsTypes, AccountsTypeOK
<1>2. PlacesKept'
  BY <1>a, <1>b, <1>c, StepsAre DEF PlacesKept, At, Asked, Who
<1>3. RowsAgree'
  BY <1>a, <1>b, <1>c DEF RowsAgree, Coming, Who, AccountsTypes, AccountsTypeOK, AccountAsk, ShopRow
<1>4. (died \/ Finishing)'
  BY <1>a, <1>b, <1>c DEF Finishing, Belongs, At, Asked, Who
<1>5. (overlapped \/ Undisturbed)'
  <2> SUFFICES ASSUME ~overlapped'
               PROVE  Undisturbed'
    OBVIOUS
  <2>1. Undisturbed /\ \A q \in Requests : doing[q] = None
    BY <1>a, <1>b, <1>c
  <2>2. \A q \in Requests : doing'[q] # None => q = r
    BY <1>a, <1>b, <1>c, <2>1
  <2>3. OneAtOnce'
    BY <2>2 DEF OneAtOnce, Busy
  <2>4. NoneSwept'
    BY <1>a, <1>b, <1>c, <2>2 DEF NoneSwept, Busy
  <2>5. OneShopApiece'
    BY <1>a, <1>b, <1>c, <2>1 DEF Undisturbed, OneShopApiece
  <2>6. OpenersHaveNone'
    BY <1>a, <1>b, <1>c, <2>2 DEF OpenersHaveNone, At, Asked
  <2>7. OneLinkEach'
    BY <1>a, <1>b, <1>c, <2>1 DEF Undisturbed, OneLinkEach
  <2>8. MintersVoidedAll'
    BY <1>a, <1>b, <1>c, <2>2 DEF MintersVoidedAll, At, Asked
  <2>9. ComersKnowThePass'
    BY <1>a, <1>b, <1>c, <2>2 DEF ComersKnowThePass, Coming, Who
  <2>10. QED
    BY <2>3, <2>4, <2>5, <2>6, <2>7, <2>8, <2>9 DEF Undisturbed
<1>6. (overlapped \/ died \/ Undied)'
  BY <1>a, <1>b, <1>c, SMTT(60) DEF Undied, GoodLinksSetNone, SettersHoldGoodLinks, NoSessionIsOlder, At, Asked, Who, AccountsTypes,
     AccountsTypeOK
<1>7. QED
  BY <1>1, <1>2, <1>3, <1>4, <1>5, <1>6

LEMMA ReadToResendKeeps ==
  ASSUME AccountsInv, NEW r \in Requests, NEW p \in Founders, ReadToResend(r, p)
  PROVE  AccountsInv'
<1> USE DEF AccountsInv
<1> DEFINE ask == Asks("resend", p, "store")
<1>a. AccountsTypes /\ Take(r, ask) /\ UNCHANGED <<tick, user, shop, link, session, died>>
  BY DEF ReadToResend, Begins, accountsVars
<1>b. /\ ask \in AccountAsk /\ ask.kind = "resend" /\ ask.step = "store" /\ ask.who = p /\ ask.at = None
      /\ ~ask.swept
  BY AskRead DEF StepNames, AskKinds, Asks
<1> HIDE DEF ask
<1>c. /\ doing' \in [Requests -> AccountAsk \cup {None}] /\ overlapped' \in BOOLEAN
      /\ doing[r] = None /\ doing'[r] = ask /\ doing'[r] # None
      /\ \A q \in Requests : q # r => doing'[q] = doing[q]
      /\ overlapped' = (overlapped \/ \E q \in Requests : doing[q] # None)
  BY <1>a, <1>b, TakeIs
<1>1. AccountsTypes'
  BY <1>a, <1>b, <1>c DEF AccountsTypes, AccountsTypeOK
<1>2. PlacesKept'
  BY <1>a, <1>b, <1>c, StepsAre DEF PlacesKept, At, Asked, Who
<1>3. RowsAgree'
  BY <1>a, <1>b, <1>c DEF RowsAgree, Coming, Who, AccountsTypes, AccountsTypeOK, AccountAsk, ShopRow
<1>4. (died \/ Finishing)'
  BY <1>a, <1>b, <1>c DEF Finishing, Belongs, At, Asked, Who
<1>5. (overlapped \/ Undisturbed)'
  <2> SUFFICES ASSUME ~overlapped'
               PROVE  Undisturbed'
    OBVIOUS
  <2>1. Undisturbed /\ \A q \in Requests : doing[q] = None
    BY <1>a, <1>b, <1>c
  <2>2. \A q \in Requests : doing'[q] # None => q = r
    BY <1>a, <1>b, <1>c, <2>1
  <2>3. OneAtOnce'
    BY <2>2 DEF OneAtOnce, Busy
  <2>4. NoneSwept'
    BY <1>a, <1>b, <1>c, <2>2 DEF NoneSwept, Busy
  <2>5. OneShopApiece'
    BY <1>a, <1>b, <1>c, <2>1 DEF Undisturbed, OneShopApiece
  <2>6. OpenersHaveNone'
    BY <1>a, <1>b, <1>c, <2>2 DEF OpenersHaveNone, At, Asked
  <2>7. OneLinkEach'
    BY <1>a, <1>b, <1>c, <2>1 DEF Undisturbed, OneLinkEach
  <2>8. MintersVoidedAll'
    BY <1>a, <1>b, <1>c, <2>2 DEF MintersVoidedAll, At, Asked
  <2>9. ComersKnowThePass'
    BY <1>a, <1>b, <1>c, <2>2 DEF ComersKnowThePass, Coming, Who
  <2>10. QED
    BY <2>3, <2>4, <2>5, <2>6, <2>7, <2>8, <2>9 DEF Undisturbed
<1>6. (overlapped \/ died \/ Undied)'
  <2> SUFFICES ASSUME Undisturbed, Undied PROVE Undied'
    BY <1>a, <1>b, <1>c
  <2>1. GoodLinksSetNone'
    BY <1>a, <1>b, <1>c DEF Undied, GoodLinksSetNone, At, Asked
  <2>2. SettersHoldGoodLinks'
    BY <1>a, <1>b, <1>c DEF Undied, SettersHoldGoodLinks, At, Asked
  <2>3. NoSessionIsOlder'
    BY <1>a, <1>b, <1>c DEF Undied, NoSessionIsOlder, At, Asked, Who
  <2>4. QED
    BY <2>1, <2>2, <2>3 DEF Undied
<1>7. QED
  BY <1>1, <1>2, <1>3, <1>4, <1>5, <1>6

LEMMA ReadToForgetKeeps ==
  ASSUME AccountsInv, NEW r \in Requests, NEW p \in Founders, ReadToForget(r, p)
  PROVE  AccountsInv'
<1> USE DEF AccountsInv
<1> DEFINE ask == Asks("forgot", p, "void")
<1>a. AccountsTypes /\ Take(r, ask) /\ UNCHANGED <<tick, user, shop, link, session, died>>
  BY DEF ReadToForget, Begins, accountsVars
<1>b. /\ ask \in AccountAsk /\ ask.kind = "forgot" /\ ask.step = "void" /\ ask.who = p /\ ask.at = None
      /\ ~ask.swept
  BY AskRead DEF StepNames, AskKinds, Asks
<1> HIDE DEF ask
<1>c. /\ doing' \in [Requests -> AccountAsk \cup {None}] /\ overlapped' \in BOOLEAN
      /\ doing[r] = None /\ doing'[r] = ask /\ doing'[r] # None
      /\ \A q \in Requests : q # r => doing'[q] = doing[q]
      /\ overlapped' = (overlapped \/ \E q \in Requests : doing[q] # None)
  BY <1>a, <1>b, TakeIs
<1>1. AccountsTypes'
  BY <1>a, <1>b, <1>c DEF AccountsTypes, AccountsTypeOK
<1>2. PlacesKept'
  BY <1>a, <1>b, <1>c, StepsAre DEF PlacesKept, At, Asked, Who
<1>3. RowsAgree'
  BY <1>a, <1>b, <1>c DEF RowsAgree, Coming, Who, AccountsTypes, AccountsTypeOK, AccountAsk, ShopRow
<1>4. (died \/ Finishing)'
  BY <1>a, <1>b, <1>c DEF Finishing, Belongs, At, Asked, Who
<1>5. (overlapped \/ Undisturbed)'
  <2> SUFFICES ASSUME ~overlapped'
               PROVE  Undisturbed'
    OBVIOUS
  <2>1. Undisturbed /\ \A q \in Requests : doing[q] = None
    BY <1>a, <1>b, <1>c
  <2>2. \A q \in Requests : doing'[q] # None => q = r
    BY <1>a, <1>b, <1>c, <2>1
  <2>3. OneAtOnce'
    BY <2>2 DEF OneAtOnce, Busy
  <2>4. NoneSwept'
    BY <1>a, <1>b, <1>c, <2>2 DEF NoneSwept, Busy
  <2>5. OneShopApiece'
    BY <1>a, <1>b, <1>c, <2>1 DEF Undisturbed, OneShopApiece
  <2>6. OpenersHaveNone'
    BY <1>a, <1>b, <1>c, <2>2 DEF OpenersHaveNone, At, Asked
  <2>7. OneLinkEach'
    BY <1>a, <1>b, <1>c, <2>1 DEF Undisturbed, OneLinkEach
  <2>8. MintersVoidedAll'
    BY <1>a, <1>b, <1>c, <2>2 DEF MintersVoidedAll, At, Asked
  <2>9. ComersKnowThePass'
    BY <1>a, <1>b, <1>c, <2>2 DEF ComersKnowThePass, Coming, Who
  <2>10. QED
    BY <2>3, <2>4, <2>5, <2>6, <2>7, <2>8, <2>9 DEF Undisturbed
<1>6. (overlapped \/ died \/ Undied)'
  BY <1>a, <1>b, <1>c, SMTT(60) DEF Undied, GoodLinksSetNone, SettersHoldGoodLinks, NoSessionIsOlder, At, Asked, Who, AccountsTypes,
     AccountsTypeOK
<1>7. QED
  BY <1>1, <1>2, <1>3, <1>4, <1>5, <1>6

LEMMA ReadToChangeKeeps ==
  ASSUME AccountsInv, NEW r \in Requests, NEW p \in Founders, ReadToChange(r, p)
  PROVE  AccountsInv'
<1> USE DEF AccountsInv
<1> DEFINE ask == Asks("password", p, "set")
<1>a. AccountsTypes /\ Take(r, ask) /\ UNCHANGED <<tick, user, shop, link, session, died>>
  BY DEF ReadToChange, Begins, accountsVars
<1>b. /\ ask \in AccountAsk /\ ask.kind = "password" /\ ask.step = "set" /\ ask.who = p /\ ask.at = None
      /\ ~ask.swept
  BY AskRead DEF StepNames, AskKinds, Asks
<1> HIDE DEF ask
<1>c. /\ doing' \in [Requests -> AccountAsk \cup {None}] /\ overlapped' \in BOOLEAN
      /\ doing[r] = None /\ doing'[r] = ask /\ doing'[r] # None
      /\ \A q \in Requests : q # r => doing'[q] = doing[q]
      /\ overlapped' = (overlapped \/ \E q \in Requests : doing[q] # None)
  BY <1>a, <1>b, TakeIs
<1>1. AccountsTypes'
  BY <1>a, <1>b, <1>c DEF AccountsTypes, AccountsTypeOK
<1>2. PlacesKept'
  BY <1>a, <1>b, <1>c, StepsAre DEF PlacesKept, At, Asked, Who
<1>3. RowsAgree'
  BY <1>a, <1>b, <1>c DEF RowsAgree, Coming, Who, AccountsTypes, AccountsTypeOK, AccountAsk, ShopRow
<1>4. (died \/ Finishing)'
  BY <1>a, <1>b, <1>c DEF Finishing, Belongs, At, Asked, Who
<1>5. (overlapped \/ Undisturbed)'
  <2> SUFFICES ASSUME ~overlapped'
               PROVE  Undisturbed'
    OBVIOUS
  <2>1. Undisturbed /\ \A q \in Requests : doing[q] = None
    BY <1>a, <1>b, <1>c
  <2>2. \A q \in Requests : doing'[q] # None => q = r
    BY <1>a, <1>b, <1>c, <2>1
  <2>3. OneAtOnce'
    BY <2>2 DEF OneAtOnce, Busy
  <2>4. NoneSwept'
    BY <1>a, <1>b, <1>c, <2>2 DEF NoneSwept, Busy
  <2>5. OneShopApiece'
    BY <1>a, <1>b, <1>c, <2>1 DEF Undisturbed, OneShopApiece
  <2>6. OpenersHaveNone'
    BY <1>a, <1>b, <1>c, <2>2 DEF OpenersHaveNone, At, Asked
  <2>7. OneLinkEach'
    BY <1>a, <1>b, <1>c, <2>1 DEF Undisturbed, OneLinkEach
  <2>8. MintersVoidedAll'
    BY <1>a, <1>b, <1>c, <2>2 DEF MintersVoidedAll, At, Asked
  <2>9. ComersKnowThePass'
    BY <1>a, <1>b, <1>c, <2>2 DEF ComersKnowThePass, Coming, Who
  <2>10. QED
    BY <2>3, <2>4, <2>5, <2>6, <2>7, <2>8, <2>9 DEF Undisturbed
<1>6. (overlapped \/ died \/ Undied)'
  BY <1>a, <1>b, <1>c, SMTT(60) DEF Undied, GoodLinksSetNone, SettersHoldGoodLinks, NoSessionIsOlder, At, Asked, Who, AccountsTypes,
     AccountsTypeOK
<1>7. QED
  BY <1>1, <1>2, <1>3, <1>4, <1>5, <1>6

LEMMA LookUpIdentifierKeeps ==
  ASSUME AccountsInv, NEW r \in Requests, NEW p \in Founders, NEW kind \in {"register", "signup", "cli"}, LookUpIdentifier(r, kind, p)
  PROVE  AccountsInv'
<1> USE DEF AccountsInv
<1> DEFINE ask == Asks(kind, p, "write")
<1>a. AccountsTypes /\ Take(r, ask) /\ UNCHANGED <<tick, user, shop, link, session, died>>
  BY DEF LookUpIdentifier, Begins, accountsVars
<1>b. /\ ask \in AccountAsk /\ ask.kind = kind /\ ask.step = "write" /\ ask.who = p /\ ask.at = None
      /\ ~ask.swept
  BY AskRead DEF StepNames, AskKinds, Asks
<1> HIDE DEF ask
<1>c. /\ doing' \in [Requests -> AccountAsk \cup {None}] /\ overlapped' \in BOOLEAN
      /\ doing[r] = None /\ doing'[r] = ask /\ doing'[r] # None
      /\ \A q \in Requests : q # r => doing'[q] = doing[q]
      /\ overlapped' = (overlapped \/ \E q \in Requests : doing[q] # None)
  BY <1>a, <1>b, TakeIs
<1>1. AccountsTypes'
  BY <1>a, <1>b, <1>c DEF AccountsTypes, AccountsTypeOK
<1>2. PlacesKept'
  BY <1>a, <1>b, <1>c, StepsAre DEF PlacesKept, At, Asked, Who
<1>3. RowsAgree'
  BY <1>a, <1>b, <1>c DEF RowsAgree, Coming, Who, AccountsTypes, AccountsTypeOK, AccountAsk, ShopRow
<1>4. (died \/ Finishing)'
  BY <1>a, <1>b, <1>c DEF Finishing, Belongs, At, Asked, Who
<1>5. (overlapped \/ Undisturbed)'
  <2> SUFFICES ASSUME ~overlapped'
               PROVE  Undisturbed'
    OBVIOUS
  <2>1. Undisturbed /\ \A q \in Requests : doing[q] = None
    BY <1>a, <1>b, <1>c
  <2>2. \A q \in Requests : doing'[q] # None => q = r
    BY <1>a, <1>b, <1>c, <2>1
  <2>3. OneAtOnce'
    BY <2>2 DEF OneAtOnce, Busy
  <2>4. NoneSwept'
    BY <1>a, <1>b, <1>c, <2>2 DEF NoneSwept, Busy
  <2>5. OneShopApiece'
    BY <1>a, <1>b, <1>c, <2>1 DEF Undisturbed, OneShopApiece
  <2>6. OpenersHaveNone'
    BY <1>a, <1>b, <1>c, <2>2 DEF OpenersHaveNone, At, Asked
  <2>7. OneLinkEach'
    BY <1>a, <1>b, <1>c, <2>1 DEF Undisturbed, OneLinkEach
  <2>8. MintersVoidedAll'
    BY <1>a, <1>b, <1>c, <2>2 DEF MintersVoidedAll, At, Asked
  <2>9. ComersKnowThePass'
    BY <1>a, <1>b, <1>c, <2>2 DEF ComersKnowThePass, Coming, Who
  <2>10. QED
    BY <2>3, <2>4, <2>5, <2>6, <2>7, <2>8, <2>9 DEF Undisturbed
<1>6. (overlapped \/ died \/ Undied)'
  BY <1>a, <1>b, <1>c, SMTT(60) DEF Undied, GoodLinksSetNone, SettersHoldGoodLinks, NoSessionIsOlder, At, Asked, Who, AccountsTypes,
     AccountsTypeOK
<1>7. QED
  BY <1>1, <1>2, <1>3, <1>4, <1>5, <1>6

LEMMA LoginKeeps ==
  ASSUME AccountsInv, NEW r \in Requests, NEW p \in Founders, Login(r, p)
  PROVE  AccountsInv'
<1> USE DEF AccountsInv
<1> DEFINE ask == [Asks("login", p, "issue") EXCEPT !.pass = user[p].pass]
<1>a. AccountsTypes /\ Take(r, ask) /\ UNCHANGED <<tick, user, shop, link, session, died>> /\ user[p] # None /\ user[p].verified
  BY DEF Login, accountsVars
<1>b. /\ ask \in AccountAsk /\ ask.kind = "login" /\ ask.step = "issue" /\ ask.who = p /\ ask.at = None
      /\ ~ask.swept /\ ask.pass = user[p].pass
  <2>1. "login" \in AskKinds /\ "issue" \in StepNames /\ user[p].pass \in 0..MaxPasswords
    BY <1>a DEF AskKinds, StepNames, AccountsTypes, AccountsTypeOK, Account
  <2>2. Asks("login", p, "issue") \in AccountAsk
    BY <2>1, AskRead
  <2>3. ask \in AccountAsk
    BY <2>1, <2>2, AskPass
  <2>4. QED
    BY <2>3 DEF Asks
<1> HIDE DEF ask
<1>c. /\ doing' \in [Requests -> AccountAsk \cup {None}] /\ overlapped' \in BOOLEAN
      /\ doing[r] = None /\ doing'[r] = ask /\ doing'[r] # None
      /\ \A q \in Requests : q # r => doing'[q] = doing[q]
      /\ overlapped' = (overlapped \/ \E q \in Requests : doing[q] # None)
  BY <1>a, <1>b, TakeIs
<1>1. AccountsTypes'
  BY <1>a, <1>b, <1>c DEF AccountsTypes, AccountsTypeOK
<1>2. PlacesKept'
  BY <1>a, <1>b, <1>c, StepsAre DEF PlacesKept, At, Asked, Who
<1>3. RowsAgree'
  BY <1>a, <1>b, <1>c DEF RowsAgree, Coming, Who, AccountsTypes, AccountsTypeOK, AccountAsk, ShopRow
<1>4. (died \/ Finishing)'
  BY <1>a, <1>b, <1>c DEF Finishing, Belongs, At, Asked, Who
<1>5. (overlapped \/ Undisturbed)'
  <2> SUFFICES ASSUME ~overlapped'
               PROVE  Undisturbed'
    OBVIOUS
  <2>1. Undisturbed /\ \A q \in Requests : doing[q] = None
    BY <1>a, <1>b, <1>c
  <2>2. \A q \in Requests : doing'[q] # None => q = r
    BY <1>a, <1>b, <1>c, <2>1
  <2>3. OneAtOnce'
    BY <2>2 DEF OneAtOnce, Busy
  <2>4. NoneSwept'
    BY <1>a, <1>b, <1>c, <2>2 DEF NoneSwept, Busy
  <2>5. OneShopApiece'
    BY <1>a, <1>b, <1>c, <2>1 DEF Undisturbed, OneShopApiece
  <2>6. OpenersHaveNone'
    BY <1>a, <1>b, <1>c, <2>2 DEF OpenersHaveNone, At, Asked
  <2>7. OneLinkEach'
    BY <1>a, <1>b, <1>c, <2>1 DEF Undisturbed, OneLinkEach
  <2>8. MintersVoidedAll'
    BY <1>a, <1>b, <1>c, <2>2 DEF MintersVoidedAll, At, Asked
  <2>9. ComersKnowThePass'
    BY <1>a, <1>b, <1>c, <2>2 DEF ComersKnowThePass, Coming, Who
  <2>10. QED
    BY <2>3, <2>4, <2>5, <2>6, <2>7, <2>8, <2>9 DEF Undisturbed
<1>6. (overlapped \/ died \/ Undied)'
  BY <1>a, <1>b, <1>c, SMTT(60) DEF Undied, GoodLinksSetNone, SettersHoldGoodLinks, NoSessionIsOlder, At, Asked, Who, AccountsTypes,
     AccountsTypeOK
<1>7. QED
  BY <1>1, <1>2, <1>3, <1>4, <1>5, <1>6

LEMMA ReadLinkKeeps ==
  ASSUME AccountsInv, NEW r \in Requests, NEW l \in Links, ReadLink(r, l)
  PROVE  AccountsInv'
<1> USE DEF AccountsInv
<1> DEFINE p == link[l].of
           ask == [Asks("password", link[l].of, "set") EXCEPT !.at = l]
<1>a. AccountsTypes /\ Take(r, ask) /\ UNCHANGED <<tick, user, shop, link, session, died>> /\ link[l] # None /\ ~link[l].used
  BY DEF ReadLink, accountsVars
<1>b. /\ ask \in AccountAsk /\ ask.kind = "password" /\ ask.step = "set" /\ ask.who = p /\ ask.at = l
      /\ ~ask.swept
  <2>1. "password" \in AskKinds /\ "set" \in StepNames /\ p \in Founders
    BY <1>a DEF AskKinds, StepNames, AccountsTypes, AccountsTypeOK, LinkRow
  <2>2. Asks("password", p, "set") \in AccountAsk
    BY <2>1, AskRead
  <2>3. ask \in AccountAsk
    BY <2>1, <2>2, AskNames
  <2>4. QED
    BY <2>3 DEF Asks
<1> HIDE DEF ask
<1>c. /\ doing' \in [Requests -> AccountAsk \cup {None}] /\ overlapped' \in BOOLEAN
      /\ doing[r] = None /\ doing'[r] = ask /\ doing'[r] # None
      /\ \A q \in Requests : q # r => doing'[q] = doing[q]
      /\ overlapped' = (overlapped \/ \E q \in Requests : doing[q] # None)
  BY <1>a, <1>b, TakeIs
<1>1. AccountsTypes'
  BY <1>a, <1>b, <1>c DEF AccountsTypes, AccountsTypeOK
<1>2. PlacesKept'
  BY <1>a, <1>b, <1>c, StepsAre DEF PlacesKept, At, Asked, Who
<1>3. RowsAgree'
  BY <1>a, <1>b, <1>c DEF RowsAgree, Coming, Who, AccountsTypes, AccountsTypeOK, AccountAsk, ShopRow
<1>4. (died \/ Finishing)'
  BY <1>a, <1>b, <1>c DEF Finishing, Belongs, At, Asked, Who
<1>5. (overlapped \/ Undisturbed)'
  <2> SUFFICES ASSUME ~overlapped'
               PROVE  Undisturbed'
    OBVIOUS
  <2>1. Undisturbed /\ \A q \in Requests : doing[q] = None
    BY <1>a, <1>b, <1>c
  <2>2. \A q \in Requests : doing'[q] # None => q = r
    BY <1>a, <1>b, <1>c, <2>1
  <2>3. OneAtOnce'
    BY <2>2 DEF OneAtOnce, Busy
  <2>4. NoneSwept'
    BY <1>a, <1>b, <1>c, <2>2 DEF NoneSwept, Busy
  <2>5. OneShopApiece'
    BY <1>a, <1>b, <1>c, <2>1 DEF Undisturbed, OneShopApiece
  <2>6. OpenersHaveNone'
    BY <1>a, <1>b, <1>c, <2>2 DEF OpenersHaveNone, At, Asked
  <2>7. OneLinkEach'
    BY <1>a, <1>b, <1>c, <2>1 DEF Undisturbed, OneLinkEach
  <2>8. MintersVoidedAll'
    BY <1>a, <1>b, <1>c, <2>2 DEF MintersVoidedAll, At, Asked
  <2>9. ComersKnowThePass'
    BY <1>a, <1>b, <1>c, <2>2 DEF ComersKnowThePass, Coming, Who
  <2>10. QED
    BY <2>3, <2>4, <2>5, <2>6, <2>7, <2>8, <2>9 DEF Undisturbed
<1>6. (overlapped \/ died \/ Undied)'
  <2> SUFFICES ASSUME ~overlapped', ~died'
               PROVE  Undied'
    OBVIOUS
  <2>1. Undied /\ \A q \in Requests : doing[q] = None
    BY <1>a, <1>b, <1>c
  <2>2. \A q \in Requests : doing'[q] # None => q = r
    BY <1>a, <1>b, <1>c, <2>1
  <2>3. /\ \A k \in Links : link[k] # None => link[k].set <= 1 /\ (~link[k].used => link[k].set = 0)
        /\ \A x \in session : user[x.of].pass = x.pass
    BY <2>1, SMTT(60) DEF Undied, GoodLinksSetNone, SettersHoldGoodLinks, NoSessionIsOlder, At, Asked, Who
  <2>4. (\A q \in Requests : At(q, "password", "set") /\ doing[q].at # None =>
           ~link[doing[q].at].used /\ link[doing[q].at].set = 0)'
    BY <1>a, <1>b, <1>c, <2>2, <2>3 DEF At, Asked
  <2>5. (\A k \in Links : link[k] # None => link[k].set <= 1 /\ (~link[k].used => link[k].set = 0))'
    BY <1>a, <2>3
  <2>6. (\A x \in session : user[x.of].pass = x.pass)'
    BY <1>a, <2>3
  <2>7. QED
    BY <2>4, <2>5, <2>6, SMTT(60) DEF Undied, GoodLinksSetNone, SettersHoldGoodLinks, NoSessionIsOlder
<1>7. QED
  BY <1>1, <1>2, <1>3, <1>4, <1>5, <1>6

LEMMA GoogleKnowsKeeps ==
  ASSUME AccountsInv, NEW r \in Requests, NEW p \in Founders, GoogleFinds(r, p), user[p] # None /\ user[p].google
  PROVE  AccountsInv'
<1> USE DEF AccountsInv
<1> DEFINE ask == [Asks("google", p, "member") EXCEPT !.pass = user[p].pass]
<1>a. AccountsTypes /\ Take(r, ask) /\ UNCHANGED <<tick, user, shop, link, session, died>> /\ user[p] # None /\ user[p].google
  BY DEF GoogleFinds, accountsVars
<1>b. /\ ask \in AccountAsk /\ ask.kind = "google" /\ ask.step = "member" /\ ask.who = p /\ ask.at = None
      /\ ~ask.swept /\ ask.pass = user[p].pass
  <2>1. "google" \in AskKinds /\ "member" \in StepNames /\ user[p].pass \in 0..MaxPasswords
    BY <1>a DEF AskKinds, StepNames, AccountsTypes, AccountsTypeOK, Account
  <2>2. Asks("google", p, "member") \in AccountAsk
    BY <2>1, AskRead
  <2>3. ask \in AccountAsk
    BY <2>1, <2>2, AskPass
  <2>4. QED
    BY <2>3 DEF Asks
<1> HIDE DEF ask
<1>c. /\ doing' \in [Requests -> AccountAsk \cup {None}] /\ overlapped' \in BOOLEAN
      /\ doing[r] = None /\ doing'[r] = ask /\ doing'[r] # None
      /\ \A q \in Requests : q # r => doing'[q] = doing[q]
      /\ overlapped' = (overlapped \/ \E q \in Requests : doing[q] # None)
  BY <1>a, <1>b, TakeIs
<1>1. AccountsTypes'
  BY <1>a, <1>b, <1>c DEF AccountsTypes, AccountsTypeOK
<1>2. PlacesKept'
  BY <1>a, <1>b, <1>c, StepsAre DEF PlacesKept, At, Asked, Who
<1>3. RowsAgree'
  BY <1>a, <1>b, <1>c DEF RowsAgree, Coming, Who, AccountsTypes, AccountsTypeOK, AccountAsk, ShopRow
<1>4. (died \/ Finishing)'
  BY <1>a, <1>b, <1>c DEF Finishing, Belongs, At, Asked, Who
<1>5. (overlapped \/ Undisturbed)'
  <2> SUFFICES ASSUME ~overlapped'
               PROVE  Undisturbed'
    OBVIOUS
  <2>1. Undisturbed /\ \A q \in Requests : doing[q] = None
    BY <1>a, <1>b, <1>c
  <2>2. \A q \in Requests : doing'[q] # None => q = r
    BY <1>a, <1>b, <1>c, <2>1
  <2>3. OneAtOnce'
    BY <2>2 DEF OneAtOnce, Busy
  <2>4. NoneSwept'
    BY <1>a, <1>b, <1>c, <2>2 DEF NoneSwept, Busy
  <2>5. OneShopApiece'
    BY <1>a, <1>b, <1>c, <2>1 DEF Undisturbed, OneShopApiece
  <2>6. OpenersHaveNone'
    BY <1>a, <1>b, <1>c, <2>2 DEF OpenersHaveNone, At, Asked
  <2>7. OneLinkEach'
    BY <1>a, <1>b, <1>c, <2>1 DEF Undisturbed, OneLinkEach
  <2>8. MintersVoidedAll'
    BY <1>a, <1>b, <1>c, <2>2 DEF MintersVoidedAll, At, Asked
  <2>9. ComersKnowThePass'
    BY <1>a, <1>b, <1>c, <2>2 DEF ComersKnowThePass, Coming, Who
  <2>10. QED
    BY <2>3, <2>4, <2>5, <2>6, <2>7, <2>8, <2>9 DEF Undisturbed
<1>6. (overlapped \/ died \/ Undied)'
  <2> SUFFICES ASSUME Undisturbed, Undied PROVE Undied'
    BY <1>a, <1>b, <1>c
  <2>1. GoodLinksSetNone'
    BY <1>a, <1>b, <1>c DEF Undied, GoodLinksSetNone, At, Asked
  <2>2. SettersHoldGoodLinks'
    BY <1>a, <1>b, <1>c DEF Undied, SettersHoldGoodLinks, At, Asked
  <2>3. NoSessionIsOlder'
    BY <1>a, <1>b, <1>c DEF Undied, NoSessionIsOlder, At, Asked, Who
  <2>4. QED
    BY <2>1, <2>2, <2>3 DEF Undied
<1>7. QED
  BY <1>1, <1>2, <1>3, <1>4, <1>5, <1>6

LEMMA GoogleMeetsKeeps ==
  ASSUME AccountsInv, NEW r \in Requests, NEW p \in Founders, GoogleFinds(r, p), ~(user[p] # None /\ user[p].google)
  PROVE  AccountsInv'
<1> USE DEF AccountsInv
<1> DEFINE ask == [Asks("google", p, "user") EXCEPT !.found = user[p] # None]
<1>a. AccountsTypes /\ Take(r, ask) /\ UNCHANGED <<tick, user, shop, link, session, died>>
  BY DEF GoogleFinds, accountsVars
<1>b. /\ ask \in AccountAsk /\ ask.kind = "google" /\ ask.step = "user" /\ ask.who = p /\ ask.at = None
      /\ ~ask.swept
  <2>1. "google" \in AskKinds /\ "user" \in StepNames
    BY <1>a DEF AskKinds, StepNames, AccountsTypes, AccountsTypeOK, LinkRow
  <2>2. Asks("google", p, "user") \in AccountAsk
    BY <2>1, AskRead
  <2>3. ask \in AccountAsk
    BY <2>1, <2>2, AskNames
  <2>4. QED
    BY <2>3 DEF Asks
<1> HIDE DEF ask
<1>c. /\ doing' \in [Requests -> AccountAsk \cup {None}] /\ overlapped' \in BOOLEAN
      /\ doing[r] = None /\ doing'[r] = ask /\ doing'[r] # None
      /\ \A q \in Requests : q # r => doing'[q] = doing[q]
      /\ overlapped' = (overlapped \/ \E q \in Requests : doing[q] # None)
  BY <1>a, <1>b, TakeIs
<1>1. AccountsTypes'
  BY <1>a, <1>b, <1>c DEF AccountsTypes, AccountsTypeOK
<1>2. PlacesKept'
  BY <1>a, <1>b, <1>c, StepsAre DEF PlacesKept, At, Asked, Who
<1>3. RowsAgree'
  BY <1>a, <1>b, <1>c DEF RowsAgree, Coming, Who, AccountsTypes, AccountsTypeOK, AccountAsk, ShopRow
<1>4. (died \/ Finishing)'
  BY <1>a, <1>b, <1>c DEF Finishing, Belongs, At, Asked, Who
<1>5. (overlapped \/ Undisturbed)'
  <2> SUFFICES ASSUME ~overlapped'
               PROVE  Undisturbed'
    OBVIOUS
  <2>1. Undisturbed /\ \A q \in Requests : doing[q] = None
    BY <1>a, <1>b, <1>c
  <2>2. \A q \in Requests : doing'[q] # None => q = r
    BY <1>a, <1>b, <1>c, <2>1
  <2>3. OneAtOnce'
    BY <2>2 DEF OneAtOnce, Busy
  <2>4. NoneSwept'
    BY <1>a, <1>b, <1>c, <2>2 DEF NoneSwept, Busy
  <2>5. OneShopApiece'
    BY <1>a, <1>b, <1>c, <2>1 DEF Undisturbed, OneShopApiece
  <2>6. OpenersHaveNone'
    BY <1>a, <1>b, <1>c, <2>2 DEF OpenersHaveNone, At, Asked
  <2>7. OneLinkEach'
    BY <1>a, <1>b, <1>c, <2>1 DEF Undisturbed, OneLinkEach
  <2>8. MintersVoidedAll'
    BY <1>a, <1>b, <1>c, <2>2 DEF MintersVoidedAll, At, Asked
  <2>9. ComersKnowThePass'
    BY <1>a, <1>b, <1>c, <2>2 DEF ComersKnowThePass, Coming, Who
  <2>10. QED
    BY <2>3, <2>4, <2>5, <2>6, <2>7, <2>8, <2>9 DEF Undisturbed
<1>6. (overlapped \/ died \/ Undied)'
  <2> SUFFICES ASSUME Undied, ~overlapped'
               PROVE  Undied'
    BY <1>a, <1>b, <1>c
  <2>1. \A q \in Requests : doing[q] = None
    BY <1>a, <1>b, <1>c
  <2>2. GoodLinksSetNone'
    BY <1>a, <1>b, <1>c, <2>1 DEF Undied, GoodLinksSetNone, At, Asked
  <2>3. SettersHoldGoodLinks'
    BY <1>a, <1>b, <1>c, <2>1 DEF SettersHoldGoodLinks, At, Asked
  <2>4. NoSessionIsOlder'
    BY <1>a, <1>b, <1>c, <2>1 DEF Undied, NoSessionIsOlder, At, Asked, Who
  <2>5. QED
    BY <2>2, <2>3, <2>4 DEF Undied
<1>7. QED
  BY <1>1, <1>2, <1>3, <1>4, <1>5, <1>6

LEMMA SweepKeeps ==
  ASSUME AccountsInv, CleanStaleUnverifiedUsers
  PROVE  AccountsInv'
<1> USE DEF AccountsInv
<1>a. /\ AccountsTypes /\ UNCHANGED <<tick, link, died>> /\ session' = {x \in session : x.of \notin Stale}
      /\ overlapped' = (overlapped \/ \E q \in Requests : doing[q] # None)
      /\ Stale \subseteq Founders
  BY DEF CleanStaleUnverifiedUsers, Busy, Stale
<1>u. /\ user' \in [Founders -> Account \cup {None}]
      /\ \A p \in Founders : user'[p] = IF p \in Stale THEN None ELSE user[p]
  BY <1>a DEF CleanStaleUnverifiedUsers, AccountsTypes, AccountsTypeOK
<1>s. /\ shop' \in [Shops -> ShopRow \cup {None}]
      /\ \A s \in Shops : /\ shop'[s] = None <=> shop[s] = None
                          /\ shop[s] # None => /\ shop'[s].by = shop[s].by /\ shop'[s].seeded = shop[s].seeded
                                               /\ shop[s].by \in Stale => ~shop'[s].owned
                                               /\ shop[s].by \notin Stale => shop'[s].owned = shop[s].owned
  <2>1. shop' = [s \in Shops |-> IF shop[s] # None /\ shop[s].by \in Stale
                                 THEN [shop[s] EXCEPT !.owned = FALSE] ELSE shop[s]]
    BY DEF CleanStaleUnverifiedUsers
  <2>2. \A s \in Shops : shop[s] # None => shop[s] \in ShopRow
    BY <1>a DEF AccountsTypes, AccountsTypeOK
  <2>3. \A s \in ShopRow : LET oneRow == [s EXCEPT !.owned = FALSE]
                           IN  oneRow \in ShopRow /\ oneRow # None /\ ~oneRow.owned /\ oneRow.by = s.by /\ oneRow.seeded = s.seeded
    <3> TAKE s \in ShopRow
    <3> DEFINE oneRow == [s EXCEPT !.owned = FALSE]
    <3>1. oneRow \in ShopRow
      BY ShopWrites
    <3>2. oneRow # None
      BY <3>1, AccountsAssumption
    <3>3. QED
      BY <3>1, <3>2 DEF ShopRow
  <2>4. \A s \in Shops : shop'[s] \in ShopRow \cup {None}
    BY <1>a, <2>1, <2>2, <2>3 DEF AccountsTypes, AccountsTypeOK
  <2>5. QED
    BY <2>1, <2>2, <2>3, <2>4
<1>d. /\ doing' \in [Requests -> AccountAsk \cup {None}] /\ overlapped' \in BOOLEAN
      /\ \A q \in Requests : /\ doing'[q] = None <=> doing[q] = None
                             /\ doing[q] # None => /\ doing'[q].kind = doing[q].kind /\ doing'[q].who = doing[q].who
                                                   /\ doing'[q].step = doing[q].step /\ doing'[q].at = doing[q].at
                                                   /\ doing'[q].pass = doing[q].pass
                                                   /\ doing[q].who \in Stale => doing'[q].swept
                                                   /\ doing[q].who \notin Stale => doing'[q].swept = doing[q].swept
  <2>1. doing' = [q \in Requests |-> IF doing[q] # None /\ Who(q) \in Stale
                                     THEN [doing[q] EXCEPT !.swept = TRUE] ELSE doing[q]]
    BY DEF CleanStaleUnverifiedUsers
  <2>2. \A q \in Requests : doing[q] # None => doing[q] \in AccountAsk
    BY <1>a DEF AccountsTypes
  <2>3. \A b \in AccountAsk : LET ask == [b EXCEPT !.swept = TRUE]
                              IN  /\ ask \in AccountAsk /\ ask # None /\ ask.kind = b.kind /\ ask.who = b.who
                                  /\ ask.step = b.step /\ ask.at = b.at /\ ask.pass = b.pass /\ ask.swept
    <3> TAKE b \in AccountAsk
    <3> DEFINE ask == [b EXCEPT !.swept = TRUE]
    <3>1. ask \in AccountAsk
      BY AskSwept
    <3>2. ask # None
      BY <3>1, AccountsAssumption
    <3>3. QED
      BY <3>1, <3>2 DEF AccountAsk
  <2>4. \A q \in Requests : doing'[q] \in AccountAsk \cup {None}
    BY <1>a, <2>1, <2>2, <2>3 DEF AccountsTypes
  <2>5. doing' \in [Requests -> AccountAsk \cup {None}] /\ overlapped' \in BOOLEAN
    BY <1>a, <2>1, <2>4 DEF AccountsTypes
  <2>6. QED
    BY <2>1, <2>2, <2>3, <2>5 DEF Who
<1>1. AccountsTypes'
  BY <1>a, <1>u, <1>s, <1>d DEF AccountsTypes, AccountsTypeOK
<1>2. PlacesKept'
  BY <1>a, <1>u, <1>s, <1>d DEF PlacesKept, At, Asked, Who
<1>3. RowsAgree'
  BY <1>a, <1>u, <1>s, <1>d DEF RowsAgree, Coming, Who, AccountsTypes, AccountsTypeOK, AccountAsk, ShopRow
<1>4. (died \/ Finishing)'
  BY <1>a, <1>u, <1>s, <1>d DEF Finishing, Belongs, At, Asked, Who
<1>5. (overlapped \/ Undisturbed)'
  <2> SUFFICES ASSUME Undisturbed, ~overlapped' PROVE Undisturbed'
    BY <1>a, <1>u, <1>s, <1>d
  <2>q. \A q \in Requests : doing[q] = None /\ doing'[q] = None
    BY <1>a, <1>d
  <2>1. OneAtOnce'
    BY <1>a, <1>u, <1>s, <1>d DEF Undisturbed, OneAtOnce, Busy
  <2>2. NoneSwept'
    BY <2>q DEF NoneSwept, Busy
  <2>3. OneShopApiece'
    BY <1>a, <1>u, <1>s, <1>d DEF Undisturbed, OneShopApiece
  <2>4. OpenersHaveNone'
    BY <1>a, <1>u, <1>s, <1>d DEF Undisturbed, OpenersHaveNone, Belongs, At, Asked, Who
  <2>5. OneLinkEach'
    BY <1>a, <1>u, <1>s, <1>d DEF Undisturbed, OneLinkEach
  <2>6. MintersVoidedAll'
    BY <1>a, <1>u, <1>s, <1>d DEF Undisturbed, MintersVoidedAll, LinksOf, At, Asked, Who
  <2>7. ComersKnowThePass'
    BY <2>q DEF ComersKnowThePass, Coming
  <2>8. QED
    BY <2>1, <2>2, <2>3, <2>4, <2>5, <2>6, <2>7 DEF Undisturbed
<1>6. (overlapped \/ died \/ Undied)'
  <2> SUFFICES ASSUME Undied, ~overlapped' PROVE Undied'
    BY <1>a, <1>u, <1>s, <1>d
  <2>q. \A q \in Requests : doing[q] = None /\ doing'[q] = None
    BY <1>a, <1>d
  <2>1. GoodLinksSetNone'
    BY <1>a, <2>q DEF Undied, GoodLinksSetNone, At, Asked
  <2>2. SettersHoldGoodLinks'
    BY <2>q DEF SettersHoldGoodLinks, At, Asked
  <2>3. ASSUME NEW x \in session'
        PROVE  user'[x.of].pass = x.pass
    <3>1. x \in session /\ x.of \in Founders /\ x.of \notin Stale
      BY <1>a, <2>3 DEF AccountsTypes, AccountsTypeOK
    <3>2. user[x.of].pass = x.pass
      BY <2>q, <3>1 DEF Undied, NoSessionIsOlder, At, Asked
    <3>3. QED
      BY <1>u, <3>1, <3>2
  <2>4. NoSessionIsOlder'
    BY <2>3 DEF NoSessionIsOlder
  <2>5. QED
    BY <2>1, <2>2, <2>4 DEF Undied
<1>7. QED
  BY <1>1, <1>2, <1>3, <1>4, <1>5, <1>6

LEMMA TimeKeeps ==
  ASSUME AccountsInv, TimePasses \/ UNCHANGED <<accountsVars, deskVars>>
  PROVE  AccountsInv'
<1> USE DEF AccountsInv
<1>a. AccountsTypes /\ UNCHANGED <<doing, overlapped, user, shop, link, session, died>> 
  BY DEF TimePasses, deskVars, accountsVars
<1>b. tick \in 0..LastTick /\ LastTick \in Nat
  BY <1>a, AccountsAssumption DEF AccountsTypes, AccountsTypeOK
<1>c. (tick < LastTick /\ tick' = tick + 1) \/ tick' = tick
  BY DEF TimePasses, accountsVars
<1>d. tick' \in 0..LastTick
  BY <1>b, <1>c
<1>1. AccountsTypes'
  BY <1>a, <1>d DEF AccountsTypes, AccountsTypeOK
<1>2. PlacesKept'
  BY <1>a, <1>d DEF PlacesKept, At, Asked, Who
<1>3. RowsAgree'
  BY <1>a, <1>d DEF RowsAgree, Coming, Who, AccountsTypes, AccountsTypeOK, AccountAsk, ShopRow
<1>4. (died \/ Finishing)'
  BY <1>a, <1>d DEF Finishing, Belongs, At, Asked, Who
<1>5. (overlapped \/ Undisturbed)'
  BY <1>a, <1>d, SMTT(60) DEF Undisturbed, OneAtOnce, NoneSwept, OneShopApiece, OpenersHaveNone, OneLinkEach, MintersVoidedAll,
     ComersKnowThePass, Busy, LinksOf, Coming, Belongs, At, Asked, Who
<1>6. (overlapped \/ died \/ Undied)'
  BY <1>a, <1>d, SMTT(60) DEF Undied, GoodLinksSetNone, SettersHoldGoodLinks, NoSessionIsOlder, At, Asked, Who
<1>7. QED
  BY <1>1, <1>2, <1>3, <1>4, <1>5, <1>6

LEMMA GoogleFindsKeeps ==
  ASSUME AccountsInv, NEW r \in Requests, NEW p \in Founders, GoogleFinds(r, p)
  PROVE  AccountsInv'
<1>1. CASE user[p] # None /\ user[p].google
  BY <1>1, GoogleKnowsKeeps
<1>2. CASE ~(user[p] # None /\ user[p].google)
  BY <1>2, GoogleMeetsKeeps
<1>3. QED BY <1>1, <1>2

LEMMA AccountsBegin ==
  ASSUME DeskInit, AccountsInit
  PROVE  AccountsInv
<1>1. /\ tick = 0 /\ died = FALSE /\ overlapped = FALSE /\ session = {}
      /\ \A p \in Founders : user[p] = None
      /\ \A s \in Shops : shop[s] = None
      /\ \A l \in Links : link[l] = None
      /\ \A r \in Requests : doing[r] = None
  BY DEF DeskInit, AccountsInit
<1>2. AccountsTypes
  <2>1. tick \in 0..LastTick /\ died \in BOOLEAN /\ overlapped \in BOOLEAN
    <3>1. LastTick \in Nat
      BY AccountsAssumption
    <3>2. tick \in 0..LastTick
      BY <1>1, <3>1
    <3>3. QED
      BY <1>1, <3>2
  <2>2. session \subseteq [of : Founders, pass : 0..MaxPasswords]
    BY <1>1
  <2>3. /\ user \in [Founders -> Account \cup {None}] /\ shop \in [Shops -> ShopRow \cup {None}]
        /\ link \in [Links -> LinkRow \cup {None}] /\ doing \in [Requests -> AccountAsk \cup {None}]
    BY DEF DeskInit, AccountsInit
  <2>4. QED
    BY <2>1, <2>2, <2>3 DEF AccountsTypes, AccountsTypeOK
<1>3. PlacesKept
  BY <1>1 DEF PlacesKept
<1>4. RowsAgree
  BY <1>1 DEF RowsAgree, Coming
<1>5. Finishing
  BY <1>1 DEF Finishing
<1>6. Undisturbed
  BY <1>1, SMTT(60) DEF Undisturbed, OneAtOnce, NoneSwept, OneShopApiece, OpenersHaveNone, OneLinkEach, MintersVoidedAll,
     ComersKnowThePass, Busy, At, Asked, Coming
<1>7. Undied
  BY <1>1, SMTT(60) DEF Undied, GoodLinksSetNone, SettersHoldGoodLinks, NoSessionIsOlder, At, Asked, Who
<1>8. QED
  BY <1>2, <1>3, <1>4, <1>5, <1>6, <1>7 DEF AccountsInv

LEMMA AccountsActs ==
  ASSUME AccountsInv, [AccountsNext]_<<accountsVars, deskVars>>
  PROVE  AccountsInv'
<1>1. CASE TimePasses \/ UNCHANGED <<accountsVars, deskVars>>
  BY <1>1, TimeKeeps
<1>2. CASE CleanStaleUnverifiedUsers
  BY <1>2, SweepKeeps
<1>3. ASSUME NEW r \in Requests,
             \/ Register(r) \/ CreateVerifiedOwner(r) \/ IssueForUser(r) \/ VerifyOtp(r) \/ ResendOtp(r)
             \/ GoogleUser(r) \/ GoogleMembership(r) \/ OpenShop(r) \/ JoinShop(r) \/ SeedOrganizationDefaults(r)
      PROVE  AccountsInv'
  BY <1>3, RegisterKeeps, CreateVerifiedOwnerKeeps, IssueForUserKeeps, VerifyOtpKeeps, ResendOtpKeeps,
     GoogleUserKeeps, GoogleMembershipKeeps, OpenShopKeeps, JoinShopKeeps, SeedOrganizationDefaultsKeeps
<1>4. ASSUME NEW r \in Requests,
             \/ InvalidateLinks(r) \/ MintLink(r) \/ UpdatePassword(r) \/ MarkAsUsed(r) \/ RevokeAllForUser(r)
             \/ CutShortAccount(r) \/ \E l \in Links : ReadLink(r, l)
      PROVE  AccountsInv'
  BY <1>4, InvalidateLinksKeeps, MintLinkKeeps, UpdatePasswordKeeps, MarkAsUsedKeeps, RevokeAllForUserKeeps,
     CutShortAccountKeeps, ReadLinkKeeps
<1>5. ASSUME NEW r \in Requests, NEW p \in Founders,
             \/ MatchOtp(r, p) \/ ReadToResend(r, p) \/ Login(r, p) \/ GoogleFinds(r, p)
             \/ ReadToForget(r, p) \/ ReadToChange(r, p)
             \/ \E kind \in {"register", "signup", "cli"} : LookUpIdentifier(r, kind, p)
      PROVE  AccountsInv'
  BY <1>5, MatchOtpKeeps, ReadToResendKeeps, LoginKeeps, GoogleFindsKeeps, ReadToForgetKeeps, ReadToChangeKeeps,
     LookUpIdentifierKeeps
<1>6. QED
  BY <1>1, <1>2, <1>3, <1>4, <1>5 DEF AccountsNext

-----------------------------------------------------------------------------
(* What follows from it. *)

LEMMA AtMostOne ==
  ASSUME NEW S, \A a, b \in S : a = b
  PROVE  Cardinality(S) <= 1
<1>1. CASE S = {}
  BY <1>1, FS_EmptySet
<1>2. CASE S # {}
  <2>1. PICK a : a \in S
    BY <1>2
  <2>2. S = {a}
    BY <2>1
  <2>3. Cardinality(S) = 1
    BY <2>2, FS_Singleton
  <2>4. QED
    BY <2>3
<1>3. QED BY <1>1, <1>2

LEMMA InvShops ==
  ASSUME AccountsInv
  PROVE  ShopIsComplete /\ NobodyLockedOut /\ OneShopEach
<1> USE DEF AccountsInv
<1>1. ShopIsComplete
  <2> SUFFICES ASSUME ~died, NEW s \in Shops, shop[s] # None, ~shop[s].seeded
               PROVE  \E r \in Requests : Under(r, "google", shop[s].by)
    BY DEF ShopIsComplete
  <2>1. PICK r \in Requests : (At(r, "google", "join") \/ At(r, "google", "seed")) /\ doing[r].at = s
    BY DEF Finishing
  <2>2. shop[s].by = Who(r)
    BY <2>1 DEF PlacesKept, At, Asked
  <2>3. QED
    BY <2>1, <2>2 DEF Under, At
<1>2. NobodyLockedOut
  BY DEF NobodyLockedOut, Finishing, Under, At
<1>3. OneShopEach
  <2> SUFFICES ASSUME ~overlapped, NEW p \in Founders
               PROVE  Cardinality({s \in Shops : shop[s] # None /\ shop[s].by = p /\ shop[s].owned}) <= 1
    BY DEF OneShopEach
  <2> DEFINE S == {s \in Shops : shop[s] # None /\ shop[s].by = p /\ shop[s].owned}
  <2>1. \A s, t \in S : s = t
    BY SMTT(60) DEF Undisturbed, OneAtOnce, NoneSwept, OneShopApiece, OpenersHaveNone, OneLinkEach, MintersVoidedAll, ComersKnowThePass
  <2> HIDE DEF S
  <2>2. Cardinality(S) <= 1
    BY <2>1, AtMostOne
  <2>3. QED
    BY <2>2 DEF S
<1>4. QED
  BY <1>1, <1>2, <1>3

LEMMA InvPasswords ==
  ASSUME AccountsInv
  PROVE  OneUseOfALink /\ OldPasswordOpensNothing
<1> USE DEF AccountsInv
<1>1. ASSUME ~overlapped, NEW p \in Founders PROVE Cardinality({l \in LinksOf(p) : ~link[l].used}) <= 1
  <2> DEFINE S == {l \in LinksOf(p) : ~link[l].used}
  <2>1. \A l, m \in S : l = m
    BY <1>1, SMTT(60) DEF Undisturbed, OneAtOnce, NoneSwept, OneShopApiece, OpenersHaveNone, OneLinkEach, MintersVoidedAll,
       ComersKnowThePass, LinksOf
  <2> HIDE DEF S
  <2>2. Cardinality(S) <= 1
    BY <2>1, AtMostOne
  <2>3. QED
    BY <2>2 DEF S
<1>2. overlapped \/ died \/ \A l \in Links : link[l] = None \/ link[l].set <= 1
  BY SMTT(60) DEF Undied, GoodLinksSetNone, SettersHoldGoodLinks, NoSessionIsOlder
<1>3. OldPasswordOpensNothing
  BY DEF OldPasswordOpensNothing, Undied, GoodLinksSetNone, SettersHoldGoodLinks, NoSessionIsOlder, Under, At
<1>4. QED
  BY <1>1, <1>2, <1>3 DEF OneUseOfALink

\* Only the sweep takes an account away.
LEMMA OnlySweptGo ==
  ASSUME AccountsInv, [AccountsNext]_<<accountsVars, deskVars>>,
         NEW p \in Founders, user[p] # None, user'[p] = None
  PROVE  CleanStaleUnverifiedUsers
<1> SUFFICES ASSUME ~CleanStaleUnverifiedUsers PROVE FALSE
  OBVIOUS
<1>1. /\ user \in [Founders -> Account \cup {None}] /\ user[p] \in Account /\ None \notin Account
      /\ AccountsTypes
  BY AccountsAssumption DEF AccountsInv, AccountsTypes, AccountsTypeOK
<1>2. user' # user
  OBVIOUS
<1>3. PICK r \in Requests : \/ Register(r) \/ CreateVerifiedOwner(r) \/ IssueForUser(r) \/ VerifyOtp(r)
                            \/ ResendOtp(r) \/ GoogleUser(r) \/ UpdatePassword(r)
  <2>1. ~UNCHANGED <<accountsVars, deskVars>> /\ ~TimePasses
    BY <1>2 DEF accountsVars, TimePasses
  <2>2. ASSUME NEW r \in Requests,
               \/ GoogleMembership(r) \/ OpenShop(r) \/ JoinShop(r) \/ SeedOrganizationDefaults(r)
               \/ InvalidateLinks(r) \/ MintLink(r) \/ MarkAsUsed(r) \/ RevokeAllForUser(r)
               \/ CutShortAccount(r) \/ \E l \in Links : ReadLink(r, l)
        PROVE  FALSE
    BY <1>2, <2>2 DEF GoogleMembership, OpenShop, JoinShop, SeedOrganizationDefaults, InvalidateLinks, MintLink,
       MarkAsUsed, RevokeAllForUser, CutShortAccount, ReadLink, accountsVars
  <2>3. ASSUME NEW r \in Requests, NEW q \in Founders,
               \/ MatchOtp(r, q) \/ ReadToResend(r, q) \/ Login(r, q) \/ GoogleFinds(r, q)
               \/ ReadToForget(r, q) \/ ReadToChange(r, q)
               \/ \E kind \in {"register", "signup", "cli"} : LookUpIdentifier(r, kind, q)
        PROVE  FALSE
    BY <1>2, <2>3 DEF MatchOtp, ReadToResend, Login, GoogleFinds, ReadToForget, ReadToChange, LookUpIdentifier,
       Begins, accountsVars
  <2>4. QED
    BY <2>1, <2>2, <2>3 DEF AccountsNext
<1>4. ~Register(r)
  BY <1>1 DEF Register, InOneTransaction, Whole
<1>5. ~CreateVerifiedOwner(r)
  BY <1>1 DEF CreateVerifiedOwner, InOneTransaction, Whole
<1>6. ~IssueForUser(r)
  <2>1. [user[p] EXCEPT !.in = TRUE] \in Account
    BY <1>1 DEF Account
  <2>2. SUFFICES ASSUME IssueForUser(r) PROVE FALSE
    OBVIOUS
  <2>3. user' = [user EXCEPT ![Who(r)] = [user[Who(r)] EXCEPT !.in = TRUE]]
    BY <1>2, <2>2 DEF IssueForUser
  <2>4. QED
    BY <1>1, <2>1, <2>3
<1>7. ~VerifyOtp(r)
  <2>1. [user[p] EXCEPT !.code = None, !.verified = TRUE] \in Account
    BY <1>1, AccountCleared
  <2>2. SUFFICES ASSUME VerifyOtp(r) PROVE FALSE
    OBVIOUS
  <2>3. user' = [user EXCEPT ![Who(r)] = [user[Who(r)] EXCEPT !.code = None, !.verified = TRUE]]
    BY <1>2, <2>2 DEF VerifyOtp, ClearOtp
  <2>4. QED
    BY <1>1, <2>1, <2>3
<1>8. ~ResendOtp(r)
  <2>1. tick + CodeLife \in 0..(LastTick + CodeLife)
    BY <1>1, AccountsAssumption DEF AccountsTypes, AccountsTypeOK
  <2>2. [user[p] EXCEPT !.code = tick + CodeLife] \in Account
    BY <1>1, <2>1 DEF Account
  <2>3. SUFFICES ASSUME ResendOtp(r) PROVE FALSE
    OBVIOUS
  <2>4. user' = [user EXCEPT ![Who(r)] = [user[Who(r)] EXCEPT !.code = tick + CodeLife]]
    BY <1>2, <2>3 DEF ResendOtp
  <2>5. QED
    BY <1>1, <2>2, <2>4
<1>9. ~GoogleUser(r)
  <2>1. [user[p] EXCEPT !.google = TRUE] \in Account
    BY <1>1 DEF Account
  <2>2. SUFFICES ASSUME GoogleUser(r) PROVE FALSE
    OBVIOUS
  <2>3. \/ user' = [user EXCEPT ![Who(r)] = [user[Who(r)] EXCEPT !.google = TRUE]]
        \/ \E oneRow : user[Who(r)] = None /\ user' = [user EXCEPT ![Who(r)] = oneRow]
    BY <1>2, <2>2 DEF GoogleUser
  <2>4. QED
    BY <1>1, <2>1, <2>3
<1>10. ~UpdatePassword(r)
  <2>1. SUFFICES ASSUME UpdatePassword(r), Who(r) = p PROVE FALSE
    BY <1>1 DEF UpdatePassword
  <2>2. user[p].pass < MaxPasswords /\ user' = [user EXCEPT ![p] = [user[p] EXCEPT !.pass = user[p].pass + 1]]
    BY <1>1, <2>1 DEF UpdatePassword
  <2>3. user[p].pass + 1 \in 0..MaxPasswords
    <3>1. user[p].pass \in 0..MaxPasswords
      BY <1>1 DEF Account
    <3>2. QED
      BY <2>2, <3>1, AccountsAssumption
  <2>4. [user[p] EXCEPT !.pass = user[p].pass + 1] \in Account
    BY <1>1, <2>3 DEF Account
  <2>5. QED
    BY <1>1, <2>2, <2>4
<1>11. QED
  BY <1>3, <1>4, <1>5, <1>6, <1>7, <1>8, <1>9, <1>10

LEMMA SweepSpares ==
  ASSUME AccountsInv, [AccountsNext]_<<accountsVars, deskVars>>
  PROVE  SweepSparesTheActive
<1> SUFFICES ASSUME NEW p \in Founders, user[p] # None, user'[p] = None, user[p].in PROVE user[p].google
  BY DEF SweepSparesTheActive
<1>1. CleanStaleUnverifiedUsers
  BY OnlySweptGo
<1>2. ~user[p].verified
  BY <1>1 DEF CleanStaleUnverifiedUsers, Stale, Pending
<1>3. QED
  BY <1>2 DEF AccountsInv, RowsAgree

-----------------------------------------------------------------------------
(* Theorems. *)

\* Everything the argument rests on holds in every state, whatever the numbers of people,
\* shops, links and requests (auth.service.ts, users.service.ts).
THEOREM AccountsHoldAlways == AccountsSpec => []AccountsInv
<1>1. AccountsInv /\ [AccountsNext]_<<accountsVars, deskVars>> => AccountsInv'
  BY AccountsActs
<1>2. DeskInit /\ AccountsInit => AccountsInv
  BY AccountsBegin
<1>3. QED
  BY <1>1, <1>2, PTL DEF AccountsSpec

\* Accounts, shops, links, sessions and the clock keep to their types.
THEOREM AccountsKeepToTheirTypes == AccountsSpec => []AccountsTypeOK
<1>1. AccountsInv => AccountsTypeOK
  BY DEF AccountsInv, AccountsTypes
<1>2. QED
  BY <1>1, AccountsHoldAlways, PTL

\* Whoever signs up, by whatever way and with whatever else under way, ends with one
\* shop that has its defaults; a link sets one password and an old password opens
\* nothing; and the sweep takes nobody who came in, but for Google's.
THEOREM PeopleAlwaysGetIn == AccountsSpec => PeopleGetIn
<1>1. /\ AccountsInv /\ AccountsInv' /\ [AccountsNext]_<<accountsVars, deskVars>>
      => [/\ ShopIsComplete' /\ NobodyLockedOut' /\ OneShopEach' /\ OneUseOfALink' /\ OldPasswordOpensNothing'
          /\ SweepSparesTheActive]_<<accountsVars, deskVars>>
  <2> SUFFICES ASSUME AccountsInv, AccountsInv', [AccountsNext]_<<accountsVars, deskVars>>
               PROVE  /\ ShopIsComplete' /\ NobodyLockedOut' /\ OneShopEach' /\ OneUseOfALink'
                      /\ OldPasswordOpensNothing' /\ SweepSparesTheActive
    OBVIOUS
  <2>1. SweepSparesTheActive
    BY SweepSpares
  <2>2. (ShopIsComplete /\ NobodyLockedOut /\ OneShopEach)'
    BY InvShops, PTL
  <2>3. (OneUseOfALink /\ OldPasswordOpensNothing)'
    BY InvPasswords, PTL
  <2>4. QED
    BY <2>1, <2>2, <2>3
<1>2. QED
  BY <1>1, AccountsHoldAlways, PTL DEF AccountsSpec, PeopleGetIn

-----------------------------------------------------------------------------
(* The catalogue. *)

\* Of the rows of a form some are the first and the last.
LEMMA EndsThere ==
  ASSUME NEW n \in Nat, NEW T \in SUBSET (1..n), T # {}
  PROVE  Min(T) \in T /\ Max(T) \in T
<1>1. IsFiniteSet(T)
  <2>1. IsFiniteSet(1..n)
    BY FS_Interval
  <2>2. QED
    BY <2>1, FS_Subset
<1>2. \E x \in T : \A y \in T : y <= x
  <2> DEFINE f == [x \in T |-> x]
  <2>1. f \in [T -> Int]
    OBVIOUS
  <2> HIDE DEF f
  <2>2. PICK x \in T : \A y \in T : f[y] <= f[x]
    BY <1>1, <2>1, MostThere
  <2> USE DEF f
  <2>3. QED
    BY <2>2
<1>3. \E x \in T : \A y \in T : x <= y
  <2> DEFINE f == [x \in T |-> -x]
  <2>1. f \in [T -> Int]
    OBVIOUS
  <2> HIDE DEF f
  <2>2. PICK x \in T : \A y \in T : f[y] <= f[x]
    BY <1>1, <2>1, MostThere
  <2> USE DEF f
  <2>3. \A y \in T : x <= y
    BY <2>2
  <2>4. QED
    BY <2>3
<1>4. Min(T) \in T
  BY <1>3 DEF Min
<1>5. Max(T) \in T
  <2>1. \E x \in T : \A y \in T : x >= y
    BY <1>2
  <2>2. QED
    BY <2>1 DEF Max
<1>6. QED
  BY <1>4, <1>5

\* A smallest and a largest unit are among those there are.
LEMMA SizesThere ==
  ASSUME NEW us \in [Units -> UnitState \cup {None}], NEW S \in SUBSET Units, S # {},
         \A u \in S : us[u] # None
  PROVE  Smallest(us, S) \in S /\ Largest(us, S) \in S
<1>1. IsFiniteSet(S)
  BY FS_Subset, CatalogAssumption
<1>2. \A u \in S : us[u].factor \in Int
  BY DEF UnitState
<1>3. \E x \in S : \A y \in S : us[y].factor <= us[x].factor
  <2> DEFINE f == [u \in S |-> us[u].factor]
  <2>1. f \in [S -> Int]
    BY <1>2
  <2> HIDE DEF f
  <2>2. PICK x \in S : \A y \in S : f[y] <= f[x]
    BY <1>1, <2>1, MostThere
  <2> USE DEF f
  <2>3. QED
    BY <2>2
<1>4. \E x \in S : \A y \in S : us[x].factor <= us[y].factor
  <2> DEFINE f == [u \in S |-> -us[u].factor]
  <2>1. f \in [S -> Int]
    BY <1>2
  <2> HIDE DEF f
  <2>2. PICK x \in S : \A y \in S : f[y] <= f[x]
    BY <1>1, <2>1, MostThere
  <2> USE DEF f
  <2>3. \A y \in S : us[x].factor <= us[y].factor
    BY <1>2, <2>2
  <2>4. QED
    BY <2>3
<1>5. QED
  BY <1>3, <1>4 DEF Smallest, Largest

LEMMA RowsAre ==
  ASSUME NEW S, NEW rows \in Seq(S)
  PROVE  /\ Len(rows) \in Nat /\ DOMAIN rows = 1..Len(rows) /\ IsFiniteSet(DOMAIN rows)
         /\ \A i \in DOMAIN rows : rows[i] \in S
<1>1. Len(rows) \in Nat /\ DOMAIN rows = 1..Len(rows) /\ \A i \in DOMAIN rows : rows[i] \in S
  OBVIOUS
<1>2. IsFiniteSet(1..Len(rows))
  BY <1>1, FS_Interval
<1>3. QED
  BY <1>1, <1>2

\* What the rows laid over the units leave of each.
LEMMA LaidOver ==
  ASSUME NEW us \in [Units -> UnitState \cup {None}], NEW rows \in Seq(UnitRow), NEW count, NEW n \in Units
  PROVE  LET naming == RowsOf(rows, n)
             w == WriteUnits(us, rows, count)
         IN  /\ w[n] \in UnitState \cup {None}
             /\ naming = {} => w[n] = us[n]
             /\ naming # {} =>
                  /\ Min(naming) \in naming /\ Max(naming) \in naming
                  /\ w[n] \in UnitState /\ w[n].factor = rows[Max(naming)].factor
                  /\ w[n].base = IF us[n] = None THEN rows[Min(naming)].factor = 1 ELSE us[n].base
<1> DEFINE naming == RowsOf(rows, n)
           telling == {i \in naming : rows[i].sold # None}
           w == WriteUnits(us, rows, count)
           created == rows[Min(naming)]
<1>1. /\ Len(rows) \in Nat /\ DOMAIN rows = 1..Len(rows)
      /\ naming \in SUBSET (1..Len(rows)) /\ telling \in SUBSET naming
      /\ \A i \in naming : rows[i] \in UnitRow
  BY DEF RowsOf
<1>2. naming # {} => Min(naming) \in naming /\ Max(naming) \in naming
  BY <1>1, EndsThere
<1>3. telling # {} => Max(telling) \in telling
  <2>1. telling \in SUBSET (1..Len(rows))
    BY <1>1
  <2> HIDE DEF telling
  <2>2. QED
    BY <1>1, <2>1, EndsThere
<1>4. w[n] = IF naming = {} THEN us[n]
             ELSE [factor |-> rows[Max(naming)].factor,
                   base |-> IF us[n] = None THEN created.factor = 1 ELSE us[n].base,
                   first |-> us[n] # None /\ us[n].first,
                   sold |-> IF telling # {} THEN rows[Max(telling)].sold
                            ELSE IF us[n] = None THEN DefaultIsSellable(created, count) ELSE us[n].sold]
  BY DEF WriteUnits
<1>5. CASE naming = {}
  BY <1>4, <1>5
<1>6. CASE naming # {}
  <2> HIDE DEF naming, telling, w
  <2>1. created \in UnitRow /\ rows[Max(naming)] \in UnitRow
    BY <1>1, <1>2, <1>6
  <2>2. us[n] # None => us[n] \in UnitState
    OBVIOUS
  <2>3. telling # {} => rows[Max(telling)].sold \in BOOLEAN
    <3>1. telling # {} => rows[Max(telling)] \in UnitRow /\ rows[Max(telling)].sold # None
      BY <1>1, <1>3 DEF telling
    <3>2. QED
      BY <3>1 DEF UnitRow
  <2>4. DefaultIsSellable(created, count) \in BOOLEAN
    BY DEF DefaultIsSellable
  <2>5. (IF us[n] = None THEN created.factor = 1 ELSE us[n].base) \in BOOLEAN
    BY <2>2 DEF UnitState
  <2>6. (us[n] # None /\ us[n].first) \in BOOLEAN
    OBVIOUS
  <2>7. (IF telling # {} THEN rows[Max(telling)].sold
         ELSE IF us[n] = None THEN DefaultIsSellable(created, count) ELSE us[n].sold) \in BOOLEAN
    BY <2>2, <2>3, <2>4 DEF UnitState
  <2>8. rows[Max(naming)].factor \in Nat \ {0}
    BY <2>1 DEF UnitRow
  <2>9. w[n] \in UnitState
    BY <1>4, <1>6, <2>5, <2>6, <2>7, <2>8 DEF UnitState
  <2>10. /\ w[n].factor = rows[Max(naming)].factor
         /\ w[n].base = IF us[n] = None THEN rows[Min(naming)].factor = 1 ELSE us[n].base
    BY <1>4, <1>6
  <2>11. QED
    BY <1>2, <1>6, <2>9, <2>10 DEF naming, w
<1>7. QED
  BY <1>5, <1>6

LEMMA LaidUnits ==
  ASSUME NEW us \in [Units -> UnitState \cup {None}], NEW rows \in Seq(UnitRow), NEW count
  PROVE  WriteUnits(us, rows, count) \in [Units -> UnitState \cup {None}]
<1>1. \A n \in Units : WriteUnits(us, rows, count)[n] \in UnitState \cup {None}
  BY LaidOver
<1>2. WriteUnits(us, rows, count) = [n \in Units |-> WriteUnits(us, rows, count)[n]]
  BY DEF WriteUnits
<1>3. QED
  BY <1>1, <1>2

\* Who is chosen is sold.
LEMMA ChosenIsSold ==
  ASSUME NEW us \in [Units -> UnitState \cup {None}], NEW asked, MaySettle(us, asked)
  PROVE  ChooseDefaultSellingUnit(us, asked) \in Sold(us)
<1>1. Sold(us) \in SUBSET Units /\ Sold(us) # {} /\ \A u \in Sold(us) : us[u] # None
  BY DEF MaySettle, Sold
<1>2. Smallest(us, Sold(us)) \in Sold(us) /\ Largest(us, Sold(us)) \in Sold(us)
  BY <1>1, SizesThere
<1>3. asked # None => asked \in Sold(us)
  BY DEF MaySettle
<1> DEFINE current == {u \in Sold(us) : us[u].first}
<1>4. current # {} => (CHOOSE u \in current : TRUE) \in Sold(us)
  OBVIOUS
<1>5. QED
  BY <1>2, <1>3, <1>4 DEF ChooseDefaultSellingUnit

\* Settling changes nothing of a unit but whether the till picks it first.
LEMMA SettledIs ==
  ASSUME NEW us \in [Units -> UnitState \cup {None}], NEW read, NEW asked,
         NEW s, s = SettleSellingUnits(us, read, asked)
  PROVE  /\ s \in [Units -> UnitState \cup {None}]
         /\ \A u \in Units :
              /\ us[u] = None => s[u] = None
              /\ us[u] # None =>
                   /\ s[u] \in UnitState /\ s[u] # None /\ s[u].factor = us[u].factor
                   /\ s[u].base = us[u].base /\ s[u].sold = us[u].sold
                   /\ s[u].first = (u = ChooseDefaultSellingUnit(read, asked))
<1> DEFINE chosen == ChooseDefaultSellingUnit(read, asked)
<1>1. s = [u \in Units |-> IF us[u] = None THEN None ELSE [us[u] EXCEPT !.first = u = chosen]]
  BY DEF SettleSellingUnits
<1> HIDE DEF chosen
<1>2. ASSUME NEW u \in Units, us[u] # None
      PROVE  /\ s[u] \in UnitState /\ s[u].factor = us[u].factor
             /\ s[u].base = us[u].base /\ s[u].sold = us[u].sold /\ s[u].first = (u = chosen)
  <2>1. us[u] \in UnitState /\ s[u] = [us[u] EXCEPT !.first = u = chosen]
    BY <1>1, <1>2
  <2>2. QED
    BY <2>1 DEF UnitState
<1>3. \A u \in Units : us[u] = None => s[u] = None
  BY <1>1
<1>4. s \in [Units -> UnitState \cup {None}]
  BY <1>1, <1>2, <1>3
<1>5. QED
  BY <1>2, <1>3, <1>4, CatalogAssumption DEF chosen

\* An edit that may be written leaves the base unit, and only it, of factor one.
LEMMA OneBaseLeft ==
  ASSUME NEW us \in [Units -> UnitState \cup {None}], NEW rows \in Seq(UnitRow), MayWrite(us, rows),
         NEW b \in Units, us[b] # None, us[b].base, us[b].factor = 1,
         NEW n \in Units, RowsOf(rows, n) # {}
  PROVE  rows[Max(RowsOf(rows, n))].factor = 1 <=> n = b
<1> DEFINE merged == Merged(us, rows)
           ones == {m \in DOMAIN merged : merged[m] = 1}
           there == Names(rows) \cup {u \in Units : us[u] # None}
<1>1. /\ Len(rows) \in Nat /\ DOMAIN rows = 1..Len(rows)
      /\ \A m \in Units : RowsOf(rows, m) \in SUBSET (1..Len(rows))
      /\ \A i \in DOMAIN rows : rows[i] \in UnitRow /\ rows[i].name \in Units
  <2>1. Len(rows) \in Nat /\ DOMAIN rows = 1..Len(rows) /\ \A i \in DOMAIN rows : rows[i] \in UnitRow
    OBVIOUS
  <2>2. \A m \in Units : RowsOf(rows, m) \in SUBSET (1..Len(rows))
    BY <2>1 DEF RowsOf
  <2>3. \A oneRow \in UnitRow : oneRow.name \in Units
    BY DEF UnitRow
  <2>4. QED
    BY <2>1, <2>2, <2>3
<1>2. \A m \in Units : RowsOf(rows, m) # {} => m \in Names(rows) /\ Max(RowsOf(rows, m)) \in RowsOf(rows, m)
  <2>1. \A m \in Units : RowsOf(rows, m) # {} => m \in Names(rows)
    BY DEF RowsOf, Names
  <2>2. QED
    BY <1>1, <2>1, EndsThere
<1>3. \A m \in there : merged[m] = IF m \in Names(rows) THEN rows[Max(RowsOf(rows, m))].factor ELSE us[m].factor
  BY DEF Merged
<1>4. DOMAIN merged = there /\ there \in SUBSET Units
  BY <1>1 DEF Merged, Names
<1>5. Cardinality(ones) = 1 /\ \A i \in DOMAIN rows : us[rows[i].name] # None => us[rows[i].name].base = (rows[i].factor = 1)
  BY DEF MayWrite
<1>6. merged[b] = 1 /\ b \in there
  <2>1. b \in there
    OBVIOUS
  <2>2. CASE b \in Names(rows)
    <3>1. RowsOf(rows, b) # {}
      BY <2>2 DEF Names, RowsOf
    <3>2. Max(RowsOf(rows, b)) \in RowsOf(rows, b)
      BY <1>2, <3>1
    <3>3. rows[Max(RowsOf(rows, b))].factor = 1
      BY <1>5, <3>2 DEF RowsOf
    <3>4. QED
      BY <1>3, <2>1, <2>2, <3>3
  <2>3. CASE b \notin Names(rows)
    BY <1>3, <2>1, <2>3
  <2>4. QED
    BY <2>2, <2>3
<1>7. PICK x : ones = {x}
  <2>1. IsFiniteSet(Units)
    BY CatalogAssumption
  <2>2. ones \in SUBSET Units
    BY <1>4
  <2>3. IsFiniteSet(ones)
    BY ONLY <2>1, <2>2, FS_Subset
  <2> HIDE DEF ones
  <2>4. QED
    BY <1>5, <2>3, FS_Singleton
<1>8. n \in there /\ merged[n] = rows[Max(RowsOf(rows, n))].factor
  BY <1>2, <1>3
<1> HIDE DEF merged, there
<1>9. \A m \in there : merged[m] = 1 => m = x
  BY <1>4, <1>7
<1>10. QED
  BY <1>6, <1>8, <1>9

-----------------------------------------------------------------------------
(* The invariant. *)

CatalogAsks == EditAsk \cup LabelAsk

CatalogTypes ==
  /\ CatalogTypeOK /\ doing \in [Requests -> CatalogAsks \cup {None}]
  /\ overlapped \in BOOLEAN /\ listedTwice \in BOOLEAN /\ inline \in BOOLEAN /\ uncleared \in BOOLEAN

\* Whatever an edit under way has read is still there, of the same base, and was
\* settled; and when nothing overlaps it is all there is.
ReadsStand ==
  /\ \A r \in Requests : Asked(r, "edit") =>
       LET read == doing[r].read
       IN  /\ \A u \in Units : read[u] # None => unit[u] # None /\ unit[u].base = read[u].base
           /\ firstBase \in Units /\ read[firstBase] # None /\ read[firstBase].factor = 1
           /\ overlapped \/ read = unit
  /\ ~overlapped => \A q, r \in Busy : q = r

\* Two labels of a unit and option are there only while a request that attached one
\* of them has yet to clear the other.
LabelsUnderWay ==
  inline \/ uncleared \/
  \A c, d \in Codes : c # d /\ code[c] # None /\ code[d] # None /\ code[c].primary /\ code[d].primary
                      /\ <<code[c].unit, code[c].option>> = <<code[d].unit, code[d].option>> =>
    \E r \in Requests : Asked(r, "label") /\ doing[r].unit = code[c].unit /\ doing[r].option = code[c].option

CatalogInv ==
  /\ CatalogTypes /\ (Exists => firstBase \in UnitsThere)
  /\ BaseUnitStays /\ TillUnitIsSold /\ SomeOptionOnSale
  /\ \A s, t \in flagged : s = t
  /\ ReadsStand /\ LabelsUnderWay

-----------------------------------------------------------------------------
(* The units after an edit. *)

\* A form that names as many as it has rows names each once.
LEMMA NamedOnce ==
  ASSUME NEW rows \in Seq(UnitRow), ~(Cardinality(Names(rows)) < Len(rows)),
         NEW n, NEW i \in RowsOf(rows, n), NEW j \in RowsOf(rows, n)
  PROVE  i = j
<1> DEFINE f == [k \in 1..Len(rows) |-> rows[k].name]
<1>1. Len(rows) \in Nat /\ DOMAIN rows = 1..Len(rows)
  OBVIOUS
<1>2. IsFiniteSet(1..Len(rows)) /\ Cardinality(1..Len(rows)) = Len(rows)
  BY <1>1, FS_Interval
<1>3. f \in Surjection(1..Len(rows), Names(rows))
  BY <1>1 DEF Surjection, Names
<1> HIDE DEF f
<1>4. /\ IsFiniteSet(Names(rows)) /\ Cardinality(Names(rows)) <= Cardinality(1..Len(rows))
      /\ (Cardinality(Names(rows)) = Cardinality(1..Len(rows)) <=> f \in Injection(1..Len(rows), Names(rows)))
  BY <1>2, <1>3, FS_Surjection
<1>5. Cardinality(Names(rows)) \in Nat
  BY <1>4, FS_CardinalityType
<1>6. f \in Injection(1..Len(rows), Names(rows))
  BY <1>1, <1>2, <1>4, <1>5
<1>7. i \in 1..Len(rows) /\ j \in 1..Len(rows) /\ rows[i].name = rows[j].name
  BY <1>1 DEF RowsOf
<1>8. f[i] = f[j]
  BY <1>7 DEF f
<1>9. QED
  BY <1>6, <1>7, <1>8 DEF Injection, IsInjective

LEMMA EditedUnits ==
  ASSUME CatalogInv, NEW r \in Requests, CommitEdit(r)
  PROVE  /\ unit' \in [Units -> UnitState \cup {None}]
         /\ firstBase \in UnitsThere /\ firstBase \in Units
         /\ \A u \in Units : unit[u] # None => unit'[u] # None /\ unit'[u].base = unit[u].base
         /\ unit'[firstBase].factor = 1 /\ unit'[firstBase].base
         /\ listedTwice' \/ \A u \in Units : unit'[u] # None /\ (unit'[u].base \/ unit'[u].factor = 1) => u = firstBase
         /\ overlapped \/ doing[r].edit.units = <<>> \/
              \E chosen \in Units : /\ unit'[chosen] # None /\ unit'[chosen].sold
                                    /\ \A u \in Units : unit'[u] # None => unit'[u].first = (u = chosen)
<1> DEFINE ask == doing[r]
           rows == ask.edit.units
           read == ask.read
           b == firstBase
           count == Cardinality(DOMAIN Merged(read, rows))
           written == WriteUnits(unit, rows, count)
           seen == WriteUnits(read, rows, count)
           asked == RequestedFirst(rows)
<1>1. ask \in EditAsk
  BY DEF CatalogInv, CatalogTypes, CommitEdit, Asked, CatalogAsks, LabelAsk
<1>2. read \in [Units -> UnitState \cup {None}] /\ rows \in Seq(UnitRow)
  BY <1>1 DEF EditAsk, Edit
<1>3. unit \in [Units -> UnitState \cup {None}]
  BY DEF CatalogInv, CatalogTypes, CatalogTypeOK
<1>4. /\ \A u \in Units : read[u] # None => unit[u] # None /\ unit[u].base = read[u].base
      /\ b \in Units /\ read[b] # None /\ read[b].factor = 1 /\ unit[b] # None
      /\ overlapped \/ read = unit
  BY DEF CatalogInv, ReadsStand, CommitEdit
<1>5. unit[b].base /\ unit[b].factor = 1 /\ read[b].base
      /\ (listedTwice \/ {u \in UnitsThere : unit[u].base \/ unit[u].factor = 1} = {b})
  BY <1>4 DEF CatalogInv, BaseUnitStays, Exists, UnitsThere
<1>6. /\ rows # <<>> => MayWrite(read, rows) /\ MaySettle(seen, asked)
      /\ unit' = IF rows = <<>> THEN unit ELSE SettleSellingUnits(written, seen, asked)
      /\ listedTwice' = (listedTwice \/ Cardinality(Names(rows)) < Len(rows))
  BY DEF CommitEdit, MayCommit, Acceptable, Write
<1>7. b \in UnitsThere
  BY <1>4 DEF UnitsThere
<1>8. CASE rows = <<>>
  <2>1. unit' = unit /\ (listedTwice => listedTwice')
    BY <1>6, <1>8
  <2>2. QED
    BY <1>3, <1>4, <1>5, <1>7, <1>8, <2>1 DEF UnitsThere
<1>9. CASE rows # <<>>
  <2> HIDE DEF rows, read, b
  <2>1. MayWrite(read, rows) /\ MaySettle(seen, asked) /\ unit' = SettleSellingUnits(written, seen, asked)
    BY <1>6, <1>9
  <2>2. written \in [Units -> UnitState \cup {None}] /\ seen \in [Units -> UnitState \cup {None}]
    BY <1>2, <1>3, LaidUnits
  <2>3. \A n \in Units : RowsOf(rows, n) = {} => written[n] = unit[n]
    BY <1>2, <1>3, LaidOver
  <2>4. \A n \in Units : RowsOf(rows, n) # {} =>
          /\ Min(RowsOf(rows, n)) \in RowsOf(rows, n) /\ Max(RowsOf(rows, n)) \in RowsOf(rows, n)
          /\ written[n] \in UnitState /\ written[n].factor = rows[Max(RowsOf(rows, n))].factor
          /\ written[n].base = IF unit[n] = None THEN rows[Min(RowsOf(rows, n))].factor = 1 ELSE unit[n].base
    BY <1>2, <1>3, LaidOver
  <2>5. \A n \in Units : RowsOf(rows, n) # {} => (rows[Max(RowsOf(rows, n))].factor = 1 <=> n = b)
    BY <1>2, <1>4, <1>5, <2>1, OneBaseLeft
  <2> DEFINE chosen == ChooseDefaultSellingUnit(seen, asked)
  <2>6. /\ unit' \in [Units -> UnitState \cup {None}]
        /\ \A u \in Units :
             /\ written[u] = None => unit'[u] = None
             /\ written[u] # None =>
                  /\ unit'[u] \in UnitState /\ unit'[u] # None /\ unit'[u].factor = written[u].factor
                  /\ unit'[u].base = written[u].base /\ unit'[u].sold = written[u].sold
                  /\ unit'[u].first = (u = chosen)
    BY <2>1, <2>2, SettledIs
  <2>7. chosen \in Sold(seen)
    BY <2>1, <2>2, ChosenIsSold
  <2> HIDE DEF written, seen, asked, chosen, count
  <2>8. \A u \in Units : unit[u] # None => written[u] # None /\ written[u].base = unit[u].base
    BY <2>3, <2>4, CatalogAssumption
  <2>9. \A u \in Units : unit[u] # None => unit'[u] # None /\ unit'[u].base = unit[u].base
    BY <2>6, <2>8
  <2>10. written[b] # None /\ written[b].factor = 1 /\ written[b].base
    BY <1>4, <1>5, <2>3, <2>4, <2>5, <2>8
  <2>11. unit'[b].factor = 1 /\ unit'[b].base
    BY <1>4, <2>6, <2>10
  <2>12. ASSUME ~listedTwice', NEW u \in Units, unit'[u] # None, unit'[u].base \/ unit'[u].factor = 1
         PROVE  u = b
    <3>1. written[u] # None /\ (written[u].base \/ written[u].factor = 1)
      BY <2>6, <2>12
    <3>2. CASE RowsOf(rows, u) = {}
      <4>1. unit[u] # None /\ (unit[u].base \/ unit[u].factor = 1) /\ ~listedTwice
        BY <1>6, <2>3, <2>12, <3>1, <3>2
      <4>2. QED
        BY <1>5, <4>1 DEF UnitsThere
    <3>3. CASE RowsOf(rows, u) # {}
      <4>1. CASE written[u].factor = 1
        BY <2>4, <2>5, <3>3, <4>1
      <4>2. CASE unit[u] # None /\ written[u].base
        <5>1. unit[u].base /\ ~listedTwice
          BY <1>6, <2>8, <2>12, <4>2
        <5>2. QED
          BY <1>5, <4>2, <5>1 DEF UnitsThere
      <4>3. CASE unit[u] = None /\ written[u].base
        <5>1. ~(Cardinality(Names(rows)) < Len(rows))
          BY <1>6, <2>12
        <5>2. Min(RowsOf(rows, u)) \in RowsOf(rows, u) /\ Max(RowsOf(rows, u)) \in RowsOf(rows, u)
          BY <2>4, <3>3
        <5>3. Min(RowsOf(rows, u)) = Max(RowsOf(rows, u))
          BY ONLY <1>2, <5>1, <5>2, NamedOnce
        <5>4. QED
          BY <2>4, <2>5, <3>3, <4>3, <5>3
      <4>4. QED
        BY <3>1, <4>1, <4>2, <4>3
    <3>4. QED
      BY <3>2, <3>3
  <2>13. ASSUME ~overlapped
         PROVE  \E c \in Units : /\ unit'[c] # None /\ unit'[c].sold
                                 /\ \A u \in Units : unit'[u] # None => unit'[u].first = (u = c)
    <3>1. written = seen
      BY <1>4, <2>13 DEF written, seen
    <3>2. chosen \in Units /\ written[chosen] # None /\ written[chosen].sold
      BY <2>7, <3>1 DEF Sold
    <3>3. \A u \in Units : unit'[u] # None => unit'[u].first = (u = chosen)
      BY <2>6
    <3>4. QED
      BY <2>6, <3>2, <3>3
  <2>14. QED
    BY <1>4, <1>7, <2>6, <2>9, <2>11, <2>12, <2>13 DEF b
<1>10. QED
  BY <1>8, <1>9

\* A product is created with one base unit, which nobody is editing yet.
LEMMA CreatedUnits ==
  ASSUME CatalogInv, NEW e \in Edits, Create(e)
  PROVE  /\ unit' \in [Units -> UnitState \cup {None}]
         /\ firstBase' \in Units /\ unit'[firstBase'] # None
         /\ unit'[firstBase'].factor = 1 /\ unit'[firstBase'].base
         /\ \A u \in Units : unit'[u] # None /\ (unit'[u].base \/ unit'[u].factor = 1) => u = firstBase'
         /\ \E chosen \in Units : /\ unit'[chosen] # None /\ unit'[chosen].sold
                                  /\ \A u \in Units : unit'[u] # None => unit'[u].first = (u = chosen)
         /\ \A r \in Requests : ~Asked(r, "edit")
<1> DEFINE rows == e.units
           count == Cardinality(DOMAIN Merged(unit, rows))
           written == WriteUnits(unit, rows, count)
           asked == RequestedFirst(rows)
           chosen == ChooseDefaultSellingUnit(written, asked)
           ones == {i \in DOMAIN rows : rows[i].factor = 1}
<1>1. rows \in Seq(UnitRow)
  BY CatalogAssumption DEF Edit
<1>2. unit \in [Units -> UnitState \cup {None}] /\ \A u \in Units : unit[u] = None
  BY DEF CatalogInv, CatalogTypes, CatalogTypeOK, Create, Exists, UnitsThere
<1>3. Cardinality(ones) = 1 /\ Cardinality(Names(rows)) = Len(rows)
  BY DEF Create, OneBaseOf
<1>4. /\ Len(rows) \in Nat /\ DOMAIN rows = 1..Len(rows) /\ IsFiniteSet(1..Len(rows))
      /\ \A i \in DOMAIN rows : rows[i] \in UnitRow
  <2>1. Len(rows) \in Nat /\ DOMAIN rows = 1..Len(rows) /\ IsFiniteSet(DOMAIN rows) /\ \A i \in DOMAIN rows : rows[i] \in UnitRow
    BY <1>1, RowsAre
  <2>2. QED
    BY <2>1
<1>5. PICK first : ones = {first}
  <2>1. ones \in SUBSET (1..Len(rows))
    BY <1>4
  <2>2. IsFiniteSet(ones)
    BY ONLY <1>4, <2>1, FS_Subset
  <2> HIDE DEF ones
  <2>3. QED
    BY <1>3, <2>2, FS_Singleton
<1>6. rows # <<>>
  BY <1>4, <1>5
<1>7. /\ MaySettle(written, asked) /\ unit' = SettleSellingUnits(written, written, asked)
      /\ firstBase' = CHOOSE n \in Names(rows) : unit'[n].base
  BY <1>6 DEF Create, Acceptable, Write
<1>8. first \in DOMAIN rows /\ rows[first].factor = 1 /\ \A i \in DOMAIN rows : rows[i].factor = 1 => i = first
  BY <1>5
<1> DEFINE b == rows[first].name
<1>9. b \in Units /\ b \in Names(rows) /\ first \in RowsOf(rows, b)
  BY <1>4, <1>8 DEF UnitRow, Names, RowsOf
<1> HIDE DEF rows, ones, b
<1>10. written \in [Units -> UnitState \cup {None}]
  BY <1>1, <1>2, LaidUnits
<1>11. \A n \in Units : RowsOf(rows, n) = {} => written[n] = None
  BY <1>1, <1>2, LaidOver
<1>12. \A n \in Units : RowsOf(rows, n) # {} =>
         /\ Min(RowsOf(rows, n)) \in RowsOf(rows, n) /\ Max(RowsOf(rows, n)) \in RowsOf(rows, n)
         /\ written[n] \in UnitState /\ written[n].factor = rows[Max(RowsOf(rows, n))].factor
         /\ written[n].base = (rows[Min(RowsOf(rows, n))].factor = 1)
  BY <1>1, <1>2, LaidOver
<1>13. \A n \in Units : RowsOf(rows, n) # {} => Min(RowsOf(rows, n)) = Max(RowsOf(rows, n))
  <2>1. ~(Cardinality(Names(rows)) < Len(rows))
    BY <1>3, <1>4
  <2>2. QED
    BY <1>1, <1>12, <2>1, NamedOnce
<1>14. /\ unit' \in [Units -> UnitState \cup {None}]
       /\ \A u \in Units :
            /\ written[u] = None => unit'[u] = None
            /\ written[u] # None =>
                 /\ unit'[u] \in UnitState /\ unit'[u] # None /\ unit'[u].factor = written[u].factor
                 /\ unit'[u].base = written[u].base /\ unit'[u].sold = written[u].sold
                 /\ unit'[u].first = (u = chosen)
  BY <1>7, <1>10, SettledIs
<1>15. chosen \in Sold(written)
  BY <1>7, <1>10, ChosenIsSold
<1> HIDE DEF written, chosen, asked
<1>16. \A u \in Units : written[u] # None => (written[u].base <=> u = b) /\ (written[u].factor = 1 <=> u = b)
  <2> SUFFICES ASSUME NEW u \in Units, written[u] # None
               PROVE  (written[u].base <=> u = b) /\ (written[u].factor = 1 <=> u = b)
    OBVIOUS
  <2> DEFINE last == Max(RowsOf(rows, u))
  <2>1. RowsOf(rows, u) # {}
    BY <1>11
  <2>2. last \in RowsOf(rows, u) /\ written[u].factor = rows[last].factor /\ written[u].base = (rows[last].factor = 1)
    BY <1>12, <1>13, <2>1
  <2>3. rows[last].factor = 1 => u = b
    BY <1>8, <2>2 DEF b, RowsOf
  <2>4. u = b => rows[last].factor = 1
    <3>1. SUFFICES ASSUME u = b PROVE last = first
      BY <1>8
    <3>2. QED
      BY <1>1, <1>3, <1>4, <1>9, <2>2, <3>1, NamedOnce
  <2>5. QED
    BY <2>2, <2>3, <2>4
<1>17. written[b] # None
  BY <1>9, <1>12, CatalogAssumption
<1>18. unit'[b].base /\ unit'[b] # None /\ unit'[b].factor = 1
  BY <1>9, <1>14, <1>16, <1>17
<1>19. \A u \in Units : unit'[u] # None /\ (unit'[u].base \/ unit'[u].factor = 1) => u = b
  BY <1>14, <1>16
<1>20. \A n \in Names(rows) : n \in Units /\ unit'[n] # None
  <2>1. ASSUME NEW n \in Names(rows) PROVE n \in Units /\ RowsOf(rows, n) # {}
    BY <1>4 DEF Names, RowsOf, UnitRow
  <2>2. QED
    BY <1>12, <1>14, <2>1, CatalogAssumption
<1>21. firstBase' = b
  BY <1>7, <1>9, <1>18, <1>19, <1>20
<1>22. \E c \in Units : /\ unit'[c] # None /\ unit'[c].sold
                        /\ \A u \in Units : unit'[u] # None => unit'[u].first = (u = c)
  <2>1. chosen \in Units /\ written[chosen] # None /\ written[chosen].sold
    BY <1>15 DEF Sold
  <2>2. \A u \in Units : unit'[u] # None => unit'[u].first = (u = chosen)
    BY <1>14
  <2>3. QED
    BY <1>14, <2>1, <2>2
<1>23. \A r \in Requests : ~Asked(r, "edit")
  BY <1>2 DEF CatalogInv, ReadsStand
<1>24. QED
  BY <1>9, <1>14, <1>18, <1>19, <1>21, <1>22, <1>23

\* Prices, options and codes after an edit.
LEMMA WrittenRest ==
  ASSUME CatalogTypes, NEW e \in Edit, NEW read, NEW default,
         Acceptable(e, read, default), Write(e, read, default)
  PROVE  /\ price' \in [PriceKeys -> Nat \cup {None}] /\ option' \in [Options -> {"sold", "retired", None}]
         /\ code' \in [Codes -> CodeState \cup {None}] /\ inline' \in BOOLEAN
         /\ SomeOptionOnSale'
         /\ \A k \in PriceKeys : price'[k] # price[k] => \E i \in DOMAIN e.prices : KeyOf(e.prices[i], default) = k
         /\ inline => inline'
         /\ inline' \/ \A c \in Codes : code'[c] # None /\ code'[c].primary => code'[c] = code[c]
<1>1. /\ price \in [PriceKeys -> Nat \cup {None}] /\ option \in [Options -> {"sold", "retired", None}]
      /\ code \in [Codes -> CodeState \cup {None}] /\ inline \in BOOLEAN
  BY DEF CatalogTypes, CatalogTypeOK
<1>2. e.prices \in Seq(PriceRow) /\ e.options \in Seq(OptionRow) /\ e.codes \in Seq(CodeRow)
  BY DEF Edit
<1>3. /\ price' = WritePrices(price, e.prices, default) /\ option' = WriteOptions(option, e.options)
      /\ code' = WriteBarcodes(code, e.codes) /\ inline' = (inline \/ \E i \in DOMAIN e.codes : e.codes[i].primary)
  BY DEF Write
<1>4. ASSUME NEW k \in PriceKeys
      PROVE  /\ price'[k] \in Nat \cup {None}
             /\ price'[k] # price[k] => \E i \in DOMAIN e.prices : KeyOf(e.prices[i], default) = k
  <2> DEFINE naming == {i \in DOMAIN e.prices : KeyOf(e.prices[i], default) = k}
  <2>1. price'[k] = IF naming = {} THEN price[k] ELSE e.prices[Max(naming)].price
    BY <1>3 DEF WritePrices
  <2>2. naming # {} => Max(naming) \in naming
    <3>1. Len(e.prices) \in Nat /\ naming \in SUBSET (1..Len(e.prices))
      BY <1>2
    <3> HIDE DEF naming
    <3>2. QED
      BY <3>1, EndsThere
  <2>3. naming # {} => e.prices[Max(naming)] \in PriceRow
    BY <1>2, <2>2, RowsAre
  <2>4. QED
    BY <1>1, <2>1, <2>3 DEF PriceRow
<1>5. ASSUME NEW o \in Options PROVE option'[o] \in {"sold", "retired", None}
  <2> DEFINE naming == {i \in DOMAIN e.options : e.options[i].option = o}
  <2>1. option'[o] = IF naming = {} THEN option[o] ELSE e.options[Max(naming)].state
    BY <1>3 DEF WriteOptions
  <2>2. naming # {} => Max(naming) \in naming
    <3>1. Len(e.options) \in Nat /\ naming \in SUBSET (1..Len(e.options))
      BY <1>2
    <3> HIDE DEF naming
    <3>2. QED
      BY <3>1, EndsThere
  <2>3. naming # {} => e.options[Max(naming)] \in OptionRow
    BY <1>2, <2>2, RowsAre
  <2>4. QED
    BY <1>1, <2>1, <2>3 DEF OptionRow
<1>6. ASSUME NEW c \in Codes
      PROVE  /\ code'[c] \in CodeState \cup {None}
             /\ inline' \/ (code'[c] # None /\ code'[c].primary => code'[c] = code[c])
  <2> DEFINE naming == {i \in DOMAIN e.codes : e.codes[i].code = c}
             oneRow == e.codes[Max(naming)]
  <2>1. code'[c] = IF naming = {} THEN code[c]
                   ELSE [unit |-> oneRow.unit, option |-> oneRow.option, primary |-> oneRow.primary]
    BY <1>3 DEF WriteBarcodes
  <2>2. naming # {} => Max(naming) \in naming
    <3>1. Len(e.codes) \in Nat /\ naming \in SUBSET (1..Len(e.codes))
      BY <1>2
    <3> HIDE DEF naming
    <3>2. QED
      BY <3>1, EndsThere
  <2>3. naming # {} => oneRow \in CodeRow /\ (oneRow.primary => inline')
    BY <1>2, <1>3, <2>2, RowsAre
  <2> HIDE DEF naming, oneRow
  <2>4. CASE naming = {}
    BY <1>1, <2>1, <2>4
  <2>5. CASE naming # {}
    <3>1. code'[c] \in CodeState
      BY <2>1, <2>3, <2>5 DEF CodeRow, CodeState
    <3>2. code'[c].primary => inline'
      BY <2>1, <2>3, <2>5
    <3>3. QED
      BY <3>1, <3>2
  <2>6. QED
    BY <2>4, <2>5
<1>7. SomeOptionOnSale'
  <2>1. (\E o \in Options : option'[o] # None) => \E o \in Options : option'[o] = "sold"
    BY <1>3 DEF Acceptable, MayOption
  <2>2. QED
    BY <2>1 DEF SomeOptionOnSale
<1>8. price' = [k \in PriceKeys |-> price'[k]] /\ option' = [o \in Options |-> option'[o]] /\ code' = [c \in Codes |-> code'[c]]
  BY <1>3 DEF WritePrices, WriteOptions, WriteBarcodes
<1>9. QED
  BY <1>1, <1>3, <1>4, <1>5, <1>6, <1>7, <1>8

-----------------------------------------------------------------------------
(* Who is at work. *)

\* Nothing is under way beside a handler that overlaps with nothing.
NoneBeside == ~overlapped => \A q, r \in Busy : q = r

LEMMA TakenAlone ==
  ASSUME NEW r \in Requests, doing[r] = None, doing \in [Requests -> CatalogAsks \cup {None}], NEW ask,
         doing' = [doing EXCEPT ![r] = ask], overlapped' = (overlapped \/ Busy # {})
  PROVE  NoneBeside'
<1>1. ASSUME ~overlapped' PROVE \A q \in Requests : q # r => doing'[q] = None
  BY <1>1 DEF Busy
<1>2. QED
  BY <1>1 DEF NoneBeside, Busy

LEMMA AsideAlone == ASSUME Aside PROVE NoneBeside'
  BY DEF Aside, NoneBeside, Busy

LEMMA FinishedAlone ==
  ASSUME NoneBeside, doing \in [Requests -> CatalogAsks \cup {None}], NEW r \in Requests, Finish(r)
  PROVE  NoneBeside'
<1>1. \A q \in Requests : doing'[q] # None => doing[q] # None
  BY DEF Finish
<1>2. QED
  BY <1>1 DEF Finish, NoneBeside, Busy

\* What edits have read goes on standing while the units stay as they are.
LEMMA ReadsCarry ==
  ASSUME ReadsStand, NoneBeside', unit' = unit, firstBase' = firstBase, overlapped => overlapped',
         \A q \in Requests : Asked(q, "edit")' => Asked(q, "edit") /\ doing'[q] = doing[q]
  PROVE  ReadsStand'
<1>1. ASSUME NEW q \in Requests, Asked(q, "edit")'
      PROVE  LET read == doing'[q].read
             IN  /\ \A u \in Units : read[u] # None => unit'[u] # None /\ unit'[u].base = read[u].base
                 /\ firstBase' \in Units /\ read[firstBase'] # None /\ read[firstBase'].factor = 1
                 /\ overlapped' \/ read = unit'
  <2>1. Asked(q, "edit") /\ doing'[q] = doing[q]
    BY <1>1
  <2>2. LET read == doing[q].read
        IN  /\ \A u \in Units : read[u] # None => unit[u] # None /\ unit[u].base = read[u].base
            /\ firstBase \in Units /\ read[firstBase] # None /\ read[firstBase].factor = 1
            /\ overlapped \/ read = unit
    BY <2>1 DEF ReadsStand
  <2>3. QED
    BY <2>1, <2>2
<1>2. QED
  BY <1>1 DEF ReadsStand, NoneBeside

\* Labels stay explained while nobody attaches one or leaves another to clear.
LEMMA LabelsCarry ==
  ASSUME LabelsUnderWay, inline => inline', uncleared => uncleared',
         \A q \in Requests : Asked(q, "label") => Asked(q, "label")' /\ doing'[q] = doing[q],
         inline' \/ \A c \in Codes : code'[c] # None /\ code'[c].primary => code'[c] = code[c]
  PROVE  LabelsUnderWay'
<1>1. SUFFICES ASSUME ~inline', ~uncleared', NEW c \in Codes, NEW d \in Codes, c # d,
                      code'[c] # None, code'[d] # None, code'[c].primary, code'[d].primary,
                      <<code'[c].unit, code'[c].option>> = <<code'[d].unit, code'[d].option>>
               PROVE  \E r \in Requests : Asked(r, "label")' /\ doing'[r].unit = code'[c].unit
                                          /\ doing'[r].option = code'[c].option
  BY DEF LabelsUnderWay
<1>2. code'[c] = code[c] /\ code'[d] = code[d]
  BY <1>1
<1>3. PICK r \in Requests : Asked(r, "label") /\ doing[r].unit = code[c].unit /\ doing[r].option = code[c].option
  BY <1>1, <1>2 DEF LabelsUnderWay
<1>4. QED
  BY <1>2, <1>3

\* The base unit and the till's unit, of units written and settled.
LEMMA UnitsHold ==
  ASSUME unit' \in [Units -> UnitState \cup {None}], firstBase' \in Units, unit'[firstBase'] # None,
         unit'[firstBase'].factor = 1, unit'[firstBase'].base,
         listedTwice' \/ \A u \in Units : unit'[u] # None /\ (unit'[u].base \/ unit'[u].factor = 1) => u = firstBase'
  PROVE  firstBase' \in UnitsThere' /\ Exists' /\ BaseUnitStays'
<1>1. firstBase' \in UnitsThere' /\ Exists'
  BY DEF UnitsThere, Exists
<1>2. listedTwice' \/ {u \in UnitsThere' : unit'[u].base \/ unit'[u].factor = 1} = {firstBase'}
  BY <1>1 DEF UnitsThere
<1>3. QED
  BY <1>1, <1>2 DEF BaseUnitStays

LEMMA TillHolds ==
  ASSUME overlapped' \/ \E chosen \in Units : /\ unit'[chosen] # None /\ unit'[chosen].sold
                                              /\ \A u \in Units : unit'[u] # None => unit'[u].first = (u = chosen)
  PROVE  TillUnitIsSold'
<1>1. SUFFICES ASSUME ~overlapped' PROVE (Exists => /\ Cardinality({u \in UnitsThere : unit[u].first}) = 1
                                                    /\ \A u \in UnitsThere : unit[u].first => unit[u].sold)'
  BY DEF TillUnitIsSold
<1>2. PICK chosen \in Units : /\ unit'[chosen] # None /\ unit'[chosen].sold
                              /\ \A u \in Units : unit'[u] # None => unit'[u].first = (u = chosen)
  BY <1>1
<1>3. {u \in UnitsThere' : unit'[u].first} = {chosen}
  BY <1>2 DEF UnitsThere
<1>4. Cardinality({u \in UnitsThere' : unit'[u].first}) = 1
  BY <1>3, FS_Singleton, ZenonT(60)
<1>5. \A u \in UnitsThere' : unit'[u].first => unit'[u].sold
  BY <1>2 DEF UnitsThere
<1>6. QED
  BY <1>4, <1>5

-----------------------------------------------------------------------------
(* One handler at a time. *)

CatalogKept == CatalogInv' /\ OtherPricesStay

LEMMA CreateKeeps == ASSUME CatalogInv, NEW e \in Edits, Create(e) PROVE CatalogKept
<1>1. PICK default \in DefaultTiers(e) : Acceptable(e, unit, default) /\ Write(e, unit, default)
  BY DEF Create
<1>2. e \in Edit /\ CatalogTypes
  BY CatalogAssumption DEF CatalogInv
<1>3. /\ price' \in [PriceKeys -> Nat \cup {None}] /\ option' \in [Options -> {"sold", "retired", None}]
      /\ code' \in [Codes -> CodeState \cup {None}] /\ inline' \in BOOLEAN
      /\ SomeOptionOnSale' /\ (inline => inline')
      /\ inline' \/ \A c \in Codes : code'[c] # None /\ code'[c].primary => code'[c] = code[c]
  BY <1>1, <1>2, WrittenRest
<1>4. /\ unit' \in [Units -> UnitState \cup {None}]
      /\ firstBase' \in Units /\ unit'[firstBase'] # None
      /\ unit'[firstBase'].factor = 1 /\ unit'[firstBase'].base
      /\ \A u \in Units : unit'[u] # None /\ (unit'[u].base \/ unit'[u].factor = 1) => u = firstBase'
      /\ \E chosen \in Units : /\ unit'[chosen] # None /\ unit'[chosen].sold
                               /\ \A u \in Units : unit'[u] # None => unit'[u].first = (u = chosen)
      /\ \A r \in Requests : ~Asked(r, "edit")
  BY CreatedUnits
<1>5. /\ doing' = doing /\ (overlapped => overlapped') /\ overlapped' \in BOOLEAN
      /\ flagged' = flagged /\ listedTwice' = listedTwice /\ uncleared' = uncleared
  BY <1>2 DEF Create, Aside, CatalogTypes
<1>6. CatalogTypes'
  BY <1>2, <1>3, <1>4, <1>5 DEF CatalogTypes, CatalogTypeOK
<1>7. firstBase' \in UnitsThere' /\ BaseUnitStays'
  BY <1>4, UnitsHold
<1>8. TillUnitIsSold'
  BY <1>4, TillHolds
<1>9. \A q \in Requests : ~Asked(q, "edit")'
  BY <1>4, <1>5 DEF Asked
<1>10. NoneBeside'
  BY AsideAlone DEF Create
<1>11. ReadsStand'
  BY <1>9, <1>10 DEF ReadsStand, NoneBeside
<1>12. \A q \in Requests : Asked(q, "label") => Asked(q, "label")' /\ doing'[q] = doing[q]
  BY <1>5 DEF Asked
<1>13. LabelsUnderWay'
  BY <1>3, <1>5, <1>12, LabelsCarry DEF CatalogInv
<1>14. OtherPricesStay
  BY <1>4 DEF OtherPricesStay
<1>15. QED
  BY <1>3, <1>5, <1>6, <1>7, <1>8, <1>11, <1>13, <1>14 DEF CatalogInv, CatalogKept

LEMMA CommitEditKeeps == ASSUME CatalogInv, NEW r \in Requests, CommitEdit(r) PROVE CatalogKept
<1> DEFINE ask == doing[r]
<1>1. CatalogTypes /\ ask \in EditAsk
  BY DEF CatalogInv, CatalogTypes, CommitEdit, Asked, CatalogAsks, LabelAsk
<1>2. ask.edit \in Edit
  BY <1>1 DEF EditAsk
<1>3. Acceptable(ask.edit, ask.read, ask.default) /\ Write(ask.edit, ask.read, ask.default)
  BY DEF CommitEdit, MayCommit
<1>4. /\ price' \in [PriceKeys -> Nat \cup {None}] /\ option' \in [Options -> {"sold", "retired", None}]
      /\ code' \in [Codes -> CodeState \cup {None}] /\ inline' \in BOOLEAN
      /\ SomeOptionOnSale' /\ (inline => inline')
      /\ inline' \/ \A c \in Codes : code'[c] # None /\ code'[c].primary => code'[c] = code[c]
      /\ \A k \in PriceKeys : price'[k] # price[k] =>
           \E i \in DOMAIN ask.edit.prices : KeyOf(ask.edit.prices[i], ask.default) = k
  BY <1>1, <1>2, <1>3, WrittenRest
<1>5. /\ unit' \in [Units -> UnitState \cup {None}]
      /\ firstBase \in UnitsThere /\ firstBase \in Units
      /\ \A u \in Units : unit[u] # None => unit'[u] # None /\ unit'[u].base = unit[u].base
      /\ unit'[firstBase].factor = 1 /\ unit'[firstBase].base
      /\ listedTwice' \/ \A u \in Units : unit'[u] # None /\ (unit'[u].base \/ unit'[u].factor = 1) => u = firstBase
      /\ overlapped \/ ask.edit.units = <<>> \/
           \E chosen \in Units : /\ unit'[chosen] # None /\ unit'[chosen].sold
                                 /\ \A u \in Units : unit'[u] # None => unit'[u].first = (u = chosen)
  BY EditedUnits
<1>6. /\ doing' = [doing EXCEPT ![r] = None] /\ overlapped' = overlapped /\ firstBase' = firstBase
      /\ flagged' = flagged /\ uncleared' = uncleared
      /\ listedTwice' = (listedTwice \/ Cardinality(Names(ask.edit.units)) < Len(ask.edit.units))
      /\ (ask.edit.units = <<>> => unit' = unit)
  BY DEF CommitEdit, Finish, Write
<1> HIDE DEF ask
<1>7. doing \in [Requests -> CatalogAsks \cup {None}]
  BY <1>1 DEF CatalogTypes
<1>8. CatalogTypes'
  <2>1. doing' \in [Requests -> CatalogAsks \cup {None}] /\ listedTwice' \in BOOLEAN
    BY <1>1, <1>6, <1>7 DEF CatalogTypes
  <2>2. QED
    BY <1>1, <1>4, <1>5, <1>6, <2>1 DEF CatalogTypes, CatalogTypeOK
<1>9. firstBase' \in UnitsThere' /\ BaseUnitStays'
  <2>1. unit'[firstBase] # None
    BY <1>5 DEF UnitsThere
  <2>2. QED
    BY <1>5, <1>6, <2>1, UnitsHold
<1>10. TillUnitIsSold'
  <2>1. CASE ask.edit.units = <<>>
    BY <1>6, <2>1 DEF CatalogInv, TillUnitIsSold, Exists, UnitsThere
  <2>2. CASE ask.edit.units # <<>>
    BY <1>5, <1>6, <2>2, TillHolds
  <2>3. QED
    BY <2>1, <2>2
<1>11. NoneBeside'
  BY <1>7, FinishedAlone DEF CatalogInv, ReadsStand, NoneBeside, CommitEdit
<1>12. \A q \in Requests : Asked(q, "edit")' => q # r /\ Asked(q, "edit") /\ doing'[q] = doing[q]
  BY <1>6, <1>7 DEF Asked
<1>13. ReadsStand'
  <2>1. ASSUME NEW q \in Requests, Asked(q, "edit")'
        PROVE  LET read == doing'[q].read
               IN  /\ \A u \in Units : read[u] # None => unit'[u] # None /\ unit'[u].base = read[u].base
                   /\ firstBase' \in Units /\ read[firstBase'] # None /\ read[firstBase'].factor = 1
                   /\ overlapped' \/ read = unit'
    <3>1. q # r /\ Asked(q, "edit") /\ doing'[q] = doing[q]
      BY <1>12, <2>1
    <3>2. LET read == doing[q].read
          IN  /\ \A u \in Units : read[u] # None => unit[u] # None /\ unit[u].base = read[u].base
              /\ firstBase \in Units /\ read[firstBase] # None /\ read[firstBase].factor = 1
      BY <3>1 DEF CatalogInv, ReadsStand
    <3>3. overlapped
      BY <3>1 DEF CatalogInv, ReadsStand, Busy, Asked, CommitEdit
    <3>4. QED
      BY <1>5, <1>6, <3>1, <3>2, <3>3
  <2>2. QED
    BY <1>11, <2>1 DEF ReadsStand, NoneBeside
<1>14. \A q \in Requests : Asked(q, "label") => Asked(q, "label")' /\ doing'[q] = doing[q]
  <2>1. ~Asked(r, "label")
    BY <1>1 DEF Asked, EditAsk, ask
  <2>2. QED
    BY <1>6, <1>7, <2>1 DEF Asked
<1>15. LabelsUnderWay'
  BY <1>4, <1>6, <1>14, LabelsCarry DEF CatalogInv
<1>16. OtherPricesStay
  <2>1. ASSUME NEW q \in Requests, Asked(q, "edit"), doing'[q] = None PROVE q = r
    BY <1>6, <1>7, <2>1 DEF Asked
  <2>2. QED
    BY <1>4, <2>1 DEF OtherPricesStay, ask
<1>17. QED
  BY <1>4, <1>6, <1>8, <1>9, <1>10, <1>13, <1>15, <1>16 DEF CatalogInv, CatalogKept

\* The steps that leave the units, the options and the base unit alone.
LEMMA RestKeeps ==
  ASSUME CatalogInv, UNCHANGED <<unit, option, firstBase, listedTwice, inline>>, CatalogTypes',
         NoneBeside', overlapped => overlapped', \A s, t \in flagged' : s = t,
         \A q \in Requests : Asked(q, "edit")' => Asked(q, "edit") /\ doing'[q] = doing[q],
         LabelsUnderWay', price' = price
  PROVE  CatalogKept
<1>1. (Exists => firstBase \in UnitsThere)' /\ BaseUnitStays' /\ TillUnitIsSold' /\ SomeOptionOnSale'
  BY DEF CatalogInv, Exists, UnitsThere, BaseUnitStays, TillUnitIsSold, SomeOptionOnSale
<1>2. ReadsStand'
  BY ReadsCarry DEF CatalogInv
<1>3. OtherPricesStay
  BY DEF OtherPricesStay
<1>4. QED
  BY <1>1, <1>2, <1>3 DEF CatalogInv, CatalogKept

LEMMA ReadToEditKeeps ==
  ASSUME CatalogInv, NEW r \in Requests, NEW e \in Edits, ReadToEdit(r, e) PROVE CatalogKept
<1>1. PICK default \in DefaultTiers(e) :
        Take(r, [kind |-> "edit", edit |-> e, read |-> unit, default |-> default])
  BY DEF ReadToEdit
<1> DEFINE ask == [kind |-> "edit", edit |-> e, read |-> unit, default |-> default]
<1>2. /\ CatalogTypes /\ unit \in [Units -> UnitState \cup {None}] /\ flagged \subseteq Tiers
      /\ doing \in [Requests -> CatalogAsks \cup {None}] /\ overlapped \in BOOLEAN
  BY DEF CatalogInv, CatalogTypes, CatalogTypeOK
<1>3. /\ doing[r] = None /\ doing' = [doing EXCEPT ![r] = ask] /\ overlapped' = (overlapped \/ Busy # {})
      /\ UNCHANGED <<unit, price, option, code, flagged, firstBase, listedTwice, inline, uncleared>> /\ Exists
  BY <1>1 DEF ReadToEdit, Take
<1>4. ask \in EditAsk
  <2>1. default \in Tiers \cup {None}
    BY <1>2 DEF DefaultTiers
  <2>2. e \in Edit
    BY CatalogAssumption
  <2>3. QED
    BY <1>2, <2>1, <2>2 DEF EditAsk
<1> HIDE DEF ask
<1>5. CatalogTypes'
  <2>1. doing' \in [Requests -> CatalogAsks \cup {None}]
    BY <1>2, <1>3, <1>4 DEF CatalogAsks
  <2>2. QED
    BY <1>2, <1>3, <2>1 DEF CatalogTypes, CatalogTypeOK
<1>6. NoneBeside'
  BY <1>2, <1>3, TakenAlone
<1>7. (Exists => firstBase \in UnitsThere)' /\ BaseUnitStays' /\ TillUnitIsSold' /\ SomeOptionOnSale'
  BY <1>3 DEF CatalogInv, Exists, UnitsThere, BaseUnitStays, TillUnitIsSold, SomeOptionOnSale
<1>8. firstBase \in Units /\ unit[firstBase] # None /\ unit[firstBase].factor = 1
  BY <1>3 DEF CatalogInv, UnitsThere, BaseUnitStays
<1>9. ReadsStand'
  <2>1. ASSUME NEW q \in Requests, Asked(q, "edit")'
        PROVE  LET read == doing'[q].read
               IN  /\ \A u \in Units : read[u] # None => unit'[u] # None /\ unit'[u].base = read[u].base
                   /\ firstBase' \in Units /\ read[firstBase'] # None /\ read[firstBase'].factor = 1
                   /\ overlapped' \/ read = unit'
    <3>1. CASE q = r
      <4>1. doing'[q].read = unit
        BY <1>2, <1>3, <3>1 DEF ask
      <4>2. QED
        BY <1>3, <1>8, <4>1
    <3>2. CASE q # r
      <4>1. doing'[q] = doing[q] /\ Asked(q, "edit")
        BY <1>2, <1>3, <2>1, <3>2 DEF Asked
      <4>2. LET read == doing[q].read
            IN  /\ \A u \in Units : read[u] # None => unit[u] # None /\ unit[u].base = read[u].base
                /\ firstBase \in Units /\ read[firstBase] # None /\ read[firstBase].factor = 1
                /\ overlapped \/ read = unit
        BY <4>1 DEF CatalogInv, ReadsStand
      <4>3. QED
        BY <1>3, <4>1, <4>2
    <3>3. QED
      BY <3>1, <3>2
  <2>2. QED
    BY <1>6, <2>1 DEF ReadsStand, NoneBeside
<1>10. \A q \in Requests : Asked(q, "label") => Asked(q, "label")' /\ doing'[q] = doing[q]
  BY <1>2, <1>3 DEF Asked
<1>11. LabelsUnderWay'
  BY <1>3, <1>10, LabelsCarry DEF CatalogInv
<1>12. OtherPricesStay
  BY <1>3 DEF OtherPricesStay
<1>13. QED
  BY <1>3, <1>5, <1>7, <1>9, <1>11, <1>12 DEF CatalogInv, CatalogKept

LEMMA RollBackEditKeeps == ASSUME CatalogInv, NEW r \in Requests, RollBackEdit(r) PROVE CatalogKept
<1>1. /\ CatalogTypes /\ doing \in [Requests -> CatalogAsks \cup {None}] /\ Asked(r, "edit")
      /\ doing' = [doing EXCEPT ![r] = None] /\ overlapped' = overlapped /\ UNCHANGED catalogVars
  BY DEF CatalogInv, CatalogTypes, RollBackEdit, Finish
<1>2. CatalogTypes'
  <2>1. doing' \in [Requests -> CatalogAsks \cup {None}]
    BY <1>1
  <2>2. QED
    BY <1>1, <2>1 DEF CatalogTypes, CatalogTypeOK, catalogVars
<1>3. NoneBeside'
  BY <1>1, FinishedAlone DEF CatalogInv, ReadsStand, NoneBeside, RollBackEdit
<1>4. \A q \in Requests : Asked(q, "edit")' => Asked(q, "edit") /\ doing'[q] = doing[q]
  BY <1>1 DEF Asked
<1>5. \A q \in Requests : Asked(q, "label") => Asked(q, "label")' /\ doing'[q] = doing[q]
  BY <1>1 DEF Asked
<1>6. LabelsUnderWay'
  BY <1>1, <1>5, LabelsCarry DEF CatalogInv, catalogVars
<1>7. UNCHANGED <<unit, option, firstBase, listedTwice, inline, price, flagged>>
  BY <1>1 DEF catalogVars
<1>8. QED
  BY <1>1, <1>2, <1>3, <1>4, <1>6, <1>7, RestKeeps DEF CatalogInv

LEMMA AttachCodeKeeps ==
  ASSUME CatalogInv, NEW r \in Requests, NEW c \in Codes, NEW u \in Units, NEW o \in Options \cup {None},
         NEW primary \in BOOLEAN, AttachCode(r, c, u, o, primary)
  PROVE  CatalogKept
<1> DEFINE ask == [kind |-> "label", keep |-> c, unit |-> u, option |-> o]
           new == [unit |-> u, option |-> o, primary |-> primary]
<1>1. /\ CatalogTypes /\ doing \in [Requests -> CatalogAsks \cup {None}] /\ code \in [Codes -> CodeState \cup {None}]
      /\ overlapped \in BOOLEAN
  BY DEF CatalogInv, CatalogTypes, CatalogTypeOK
<1>2. /\ doing[r] = None /\ code[c] = None /\ code' = [code EXCEPT ![c] = new]
      /\ doing' = [doing EXCEPT ![r] = IF primary THEN ask ELSE None]
      /\ overlapped' = (overlapped \/ Busy # {})
      /\ UNCHANGED <<unit, base, price, option, flagged, firstBase, listedTwice, inline, uncleared>>
  BY DEF AttachCode
<1>3. ask \in LabelAsk /\ new \in CodeState /\ ask # None
  <2>1. ask \in LabelAsk /\ new \in CodeState
    BY DEF LabelAsk, CodeState
  <2>2. QED
    BY <2>1, CatalogAssumption
<1>4. /\ ask.kind = "label" /\ ask.unit = u /\ ask.option = o
      /\ new.unit = u /\ new.option = o /\ new.primary = primary
  OBVIOUS
<1> HIDE DEF ask, new
<1>5. CatalogTypes'
  <2>1. doing' \in [Requests -> CatalogAsks \cup {None}] /\ code' \in [Codes -> CodeState \cup {None}]
    BY <1>1, <1>2, <1>3 DEF CatalogAsks
  <2>2. QED
    BY <1>1, <1>2, <2>1 DEF CatalogTypes, CatalogTypeOK
<1>6. NoneBeside'
  BY <1>1, <1>2, TakenAlone
<1>7. \A q \in Requests : q # r => doing'[q] = doing[q]
  BY <1>1, <1>2
<1>8. doing'[r] = IF primary THEN ask ELSE None
  BY <1>1, <1>2
<1>9. \A q \in Requests : Asked(q, "edit")' => Asked(q, "edit") /\ doing'[q] = doing[q]
  BY <1>4, <1>7, <1>8 DEF Asked
<1>10. \A q \in Requests : Asked(q, "label") => Asked(q, "label")' /\ doing'[q] = doing[q]
  BY <1>2, <1>7 DEF Asked
<1>11. LabelsUnderWay'
  <2>1. SUFFICES ASSUME ~inline', ~uncleared', NEW d \in Codes, NEW f \in Codes, d # f,
                        code'[d] # None, code'[f] # None, code'[d].primary, code'[f].primary,
                        <<code'[d].unit, code'[d].option>> = <<code'[f].unit, code'[f].option>>
                 PROVE  \E q \in Requests : Asked(q, "label")' /\ doing'[q].unit = code'[d].unit
                                            /\ doing'[q].option = code'[d].option
    BY DEF LabelsUnderWay
  <2>2. code'[c] = new /\ \A x \in Codes : x # c => code'[x] = code[x]
    BY <1>1, <1>2
  <2>3. CASE c \in {d, f}
    <3>1. code'[c] = new /\ primary
      BY <1>4, <2>1, <2>2, <2>3
    <3>2. code'[d].unit = u /\ code'[d].option = o
      BY <1>4, <2>1, <2>3, <3>1
    <3>3. Asked(r, "label")' /\ doing'[r] = ask
      BY <1>3, <1>4, <1>8, <3>1 DEF Asked
    <3>4. QED
      BY <1>4, <3>2, <3>3
  <2>4. CASE c \notin {d, f}
    <3>1. code'[d] = code[d] /\ code'[f] = code[f] /\ ~inline /\ ~uncleared
      BY <1>2, <2>1, <2>2, <2>4
    <3>2. PICK q \in Requests : Asked(q, "label") /\ doing[q].unit = code[d].unit /\ doing[q].option = code[d].option
      BY <2>1, <3>1 DEF CatalogInv, LabelsUnderWay
    <3>3. QED
      BY <1>10, <3>1, <3>2
  <2>5. QED
    BY <2>3, <2>4
<1>12. QED
  BY <1>2, <1>5, <1>6, <1>9, <1>11, RestKeeps DEF CatalogInv

LEMMA ClearOtherPrimariesKeeps ==
  ASSUME CatalogInv, NEW r \in Requests, ClearOtherPrimaries(r) PROVE CatalogKept
<1> DEFINE ask == doing[r]
           Cleared(d) == d # ask.keep /\ SameLabel(d, ask.unit, ask.option)
<1>1. /\ CatalogTypes /\ doing \in [Requests -> CatalogAsks \cup {None}] /\ code \in [Codes -> CodeState \cup {None}]
      /\ Asked(r, "label")
  BY DEF CatalogInv, CatalogTypes, CatalogTypeOK, ClearOtherPrimaries
<1>2. /\ code' = [d \in Codes |-> IF Cleared(d) THEN [code[d] EXCEPT !.primary = FALSE] ELSE code[d]]
      /\ doing' = [doing EXCEPT ![r] = None] /\ overlapped' = overlapped
      /\ UNCHANGED <<unit, base, price, option, flagged, firstBase, listedTwice, inline, uncleared>>
  BY DEF ClearOtherPrimaries, Finish
<1>3. \A d \in Codes : Cleared(d) =>
        /\ d # ask.keep /\ code[d] \in CodeState /\ code[d] # None
        /\ code[d].unit = ask.unit /\ code[d].option = ask.option
  BY <1>1 DEF SameLabel
<1>4. \A d \in Codes : code[d] # None /\ d # ask.keep /\ code[d].unit = ask.unit /\ code[d].option = ask.option => Cleared(d)
  BY DEF SameLabel
<1> HIDE DEF Cleared, ask
<1>5. \A d \in Codes : Cleared(d) => code'[d] \in CodeState /\ ~code'[d].primary
  <2> SUFFICES ASSUME NEW d \in Codes, Cleared(d) PROVE code'[d] \in CodeState /\ ~code'[d].primary
    OBVIOUS
  <2>1. code'[d] = [code[d] EXCEPT !.primary = FALSE] /\ code[d] \in CodeState
    BY <1>2, <1>3
  <2>2. QED
    BY <2>1 DEF CodeState
<1>6. \A d \in Codes : ~Cleared(d) => code'[d] = code[d]
  BY <1>2
<1>7. CatalogTypes'
  <2>1. doing' \in [Requests -> CatalogAsks \cup {None}] /\ code' \in [Codes -> CodeState \cup {None}]
    BY <1>1, <1>2, <1>5, <1>6
  <2>2. QED
    BY <1>1, <1>2, <2>1 DEF CatalogTypes, CatalogTypeOK
<1>8. NoneBeside'
  BY <1>1, FinishedAlone DEF CatalogInv, ReadsStand, NoneBeside, ClearOtherPrimaries
<1>9. \A q \in Requests : q # r => doing'[q] = doing[q]
  BY <1>1, <1>2
<1>10. \A q \in Requests : Asked(q, "edit")' => Asked(q, "edit") /\ doing'[q] = doing[q]
  BY <1>1, <1>2 DEF Asked
<1>11. LabelsUnderWay'
  <2>1. SUFFICES ASSUME ~inline', ~uncleared', NEW c \in Codes, NEW d \in Codes, c # d,
                        code'[c] # None, code'[d] # None, code'[c].primary, code'[d].primary,
                        <<code'[c].unit, code'[c].option>> = <<code'[d].unit, code'[d].option>>
                 PROVE  \E q \in Requests : Asked(q, "label")' /\ doing'[q].unit = code'[c].unit
                                            /\ doing'[q].option = code'[c].option
    BY DEF LabelsUnderWay
  <2>2. ~Cleared(c) /\ ~Cleared(d)
    BY <1>5, <2>1
  <2>3. code'[c] = code[c] /\ code'[d] = code[d] /\ ~inline /\ ~uncleared
    BY <1>2, <1>6, <2>1, <2>2
  <2>4. PICK q \in Requests : Asked(q, "label") /\ doing[q].unit = code[c].unit /\ doing[q].option = code[c].option
    BY <2>1, <2>3 DEF CatalogInv, LabelsUnderWay
  <2>5. q # r
    <3>1. SUFFICES ASSUME q = r PROVE FALSE
      OBVIOUS
    <3>2. code[c].unit = ask.unit /\ code[c].option = ask.option /\ code[d].unit = ask.unit /\ code[d].option = ask.option
      BY <2>1, <2>3, <2>4, <3>1 DEF ask
    <3>3. c = ask.keep /\ d = ask.keep
      BY <1>4, <2>1, <2>2, <2>3, <3>2
    <3>4. QED
      BY <2>1, <3>3
  <2>6. Asked(q, "label")' /\ doing'[q] = doing[q]
    BY <1>9, <2>4, <2>5 DEF Asked
  <2>7. QED
    BY <2>3, <2>4, <2>6
<1>12. QED
  BY <1>2, <1>7, <1>8, <1>10, <1>11, RestKeeps DEF CatalogInv

LEMMA LabelCutShortKeeps == ASSUME CatalogInv, NEW r \in Requests, LabelCutShort(r) PROVE CatalogKept
<1>1. /\ CatalogTypes /\ doing \in [Requests -> CatalogAsks \cup {None}]
      /\ doing' = [doing EXCEPT ![r] = None] /\ overlapped' = overlapped /\ uncleared' = TRUE
      /\ UNCHANGED <<unit, base, price, option, code, flagged, firstBase, listedTwice, inline>>
  BY DEF CatalogInv, CatalogTypes, LabelCutShort, Finish
<1>2. CatalogTypes'
  <2>1. doing' \in [Requests -> CatalogAsks \cup {None}]
    BY <1>1
  <2>2. QED
    BY <1>1, <2>1 DEF CatalogTypes, CatalogTypeOK
<1>3. NoneBeside'
  BY <1>1, FinishedAlone DEF CatalogInv, ReadsStand, NoneBeside, LabelCutShort
<1>4. \A q \in Requests : Asked(q, "edit")' => Asked(q, "edit") /\ doing'[q] = doing[q]
  BY <1>1 DEF Asked
<1>5. LabelsUnderWay'
  BY <1>1 DEF LabelsUnderWay
<1>6. QED
  BY <1>1, <1>2, <1>3, <1>4, <1>5, RestKeeps DEF CatalogInv

LEMMA RemoveCodeKeeps == ASSUME CatalogInv, NEW c \in Codes, RemoveCode(c) PROVE CatalogKept
<1>1. /\ CatalogTypes /\ code \in [Codes -> CodeState \cup {None}] /\ overlapped \in BOOLEAN
      /\ code' = [code EXCEPT ![c] = None] /\ doing' = doing /\ overlapped' = (overlapped \/ Busy # {})
      /\ UNCHANGED <<unit, base, price, option, flagged, firstBase, listedTwice, inline, uncleared>>
  BY DEF CatalogInv, CatalogTypes, CatalogTypeOK, RemoveCode, Aside
<1>2. CatalogTypes'
  <2>1. code' \in [Codes -> CodeState \cup {None}]
    BY <1>1
  <2>2. QED
    BY <1>1, <2>1 DEF CatalogTypes, CatalogTypeOK
<1>3. NoneBeside'
  BY AsideAlone DEF RemoveCode
<1>4. \A q \in Requests : Asked(q, "edit")' => Asked(q, "edit") /\ doing'[q] = doing[q]
  BY <1>1 DEF Asked
<1>5. \A q \in Requests : Asked(q, "label") => Asked(q, "label")' /\ doing'[q] = doing[q]
  BY <1>1 DEF Asked
<1>6. \A d \in Codes : code'[d] # None => code'[d] = code[d]
  BY <1>1
<1>7. LabelsUnderWay'
  BY <1>1, <1>5, <1>6, LabelsCarry DEF CatalogInv
<1>8. QED
  BY <1>1, <1>2, <1>3, <1>4, <1>7, RestKeeps DEF CatalogInv

LEMMA FlagTierKeeps ==
  ASSUME CatalogInv, NEW tiers \in {{}} \cup {{t} : t \in Tiers}, FlagTier(tiers) PROVE CatalogKept
<1>1. /\ CatalogTypes /\ overlapped \in BOOLEAN
      /\ flagged' = tiers /\ doing' = doing /\ overlapped' = (overlapped \/ Busy # {})
      /\ UNCHANGED <<unit, base, price, option, code, firstBase, listedTwice, inline, uncleared>>
  BY DEF CatalogInv, CatalogTypes, FlagTier, Aside
<1>2. flagged' \subseteq Tiers /\ \A s, t \in flagged' : s = t
  BY <1>1
<1>3. CatalogTypes'
  BY <1>1, <1>2 DEF CatalogTypes, CatalogTypeOK
<1>4. NoneBeside'
  BY AsideAlone DEF FlagTier
<1>5. \A q \in Requests : Asked(q, "edit")' => Asked(q, "edit") /\ doing'[q] = doing[q]
  BY <1>1 DEF Asked
<1>6. \A q \in Requests : Asked(q, "label") => Asked(q, "label")' /\ doing'[q] = doing[q]
  BY <1>1 DEF Asked
<1>7. LabelsUnderWay'
  BY <1>1, <1>6, LabelsCarry DEF CatalogInv
<1>8. QED
  BY <1>1, <1>2, <1>3, <1>4, <1>5, <1>7, RestKeeps

-----------------------------------------------------------------------------
(* The theorems. *)

LEMMA CatalogStarts == DeskInit /\ CatalogInit => CatalogInv
<1> SUFFICES ASSUME DeskInit, CatalogInit PROVE CatalogInv
  OBVIOUS
<1> USE DEF DeskInit, CatalogInit
<1>1. CatalogTypes
  BY DEF CatalogTypes, CatalogTypeOK
<1>2. ~Exists
  BY DEF Exists, UnitsThere
<1>3. BaseUnitStays /\ TillUnitIsSold /\ SomeOptionOnSale
  BY <1>2 DEF BaseUnitStays, TillUnitIsSold, SomeOptionOnSale
<1>4. ReadsStand /\ LabelsUnderWay
  BY DEF ReadsStand, LabelsUnderWay, Asked, Busy
<1>5. \A s, t \in flagged : s = t
  OBVIOUS
<1>6. QED
  BY <1>1, <1>2, <1>3, <1>4, <1>5 DEF CatalogInv

LEMMA CatalogSteps == ASSUME CatalogInv, CatalogNext PROVE CatalogKept
<1>1. CASE \E e \in Edits : Create(e)
  BY <1>1, CreateKeeps
<1>2. CASE \E e \in Edits, r \in Requests : ReadToEdit(r, e)
  BY <1>2, ReadToEditKeeps
<1>3. CASE \E r \in Requests : CommitEdit(r)
  BY <1>3, CommitEditKeeps
<1>4. CASE \E r \in Requests : RollBackEdit(r)
  BY <1>4, RollBackEditKeeps
<1>5. CASE \E r \in Requests : ClearOtherPrimaries(r)
  BY <1>5, ClearOtherPrimariesKeeps
<1>6. CASE \E r \in Requests : LabelCutShort(r)
  BY <1>6, LabelCutShortKeeps
<1>7. CASE \E r \in Requests, c \in Codes, u \in Units, o \in Options \cup {None}, primary \in BOOLEAN :
             AttachCode(r, c, u, o, primary)
  BY <1>7, AttachCodeKeeps
<1>8. CASE \E c \in Codes : RemoveCode(c)
  BY <1>8, RemoveCodeKeeps
<1>9. CASE \E tiers \in {{}} \cup {{t} : t \in Tiers} : FlagTier(tiers)
  BY <1>9, FlagTierKeeps
<1>10. QED
  BY <1>1, <1>2, <1>3, <1>4, <1>5, <1>6, <1>7, <1>8, <1>9 DEF CatalogNext

LEMMA CatalogStutters ==
  ASSUME CatalogInv, UNCHANGED <<catalogVars, deskVars>> PROVE CatalogInv'
<1>1. UNCHANGED <<unit, base, price, option, code, flagged, firstBase, listedTwice, inline, uncleared, doing, overlapped>>
  BY DEF catalogVars, deskVars
<1>2. CatalogTypes' /\ (Exists => firstBase \in UnitsThere)'
  BY <1>1 DEF CatalogInv, CatalogTypes, CatalogTypeOK, Exists, UnitsThere
<1>3. BaseUnitStays' /\ TillUnitIsSold' /\ SomeOptionOnSale'
  BY <1>1 DEF CatalogInv, BaseUnitStays, TillUnitIsSold, SomeOptionOnSale, Exists, UnitsThere
<1>4. ReadsStand' /\ LabelsUnderWay' /\ (\A s, t \in flagged : s = t)'
  BY <1>1 DEF CatalogInv, ReadsStand, LabelsUnderWay, Asked, Busy
<1>5. QED
  BY <1>2, <1>3, <1>4 DEF CatalogInv

\* The list and the till come to one price: where the list finds no default list, no
\* price is on it, and both fall back on the product's own.
LEMMA ListAndTillAgree == ASSUME CatalogInv PROVE ListShowsTillPrice
<1> DEFINE rows == {k \in PriceKeys : price[k] # None /\ k[1] \in flagged}
           u == TillFirstUnit
<1>1. SUFFICES ASSUME Exists, u # None
               PROVE  ResolveUnitPrice(ListTier, u, None) = ResolveUnitPrice(TillTier, u, None)
  BY DEF ListShowsTillPrice
<1>2. unit \in [Units -> UnitState \cup {None}] /\ flagged \subseteq Tiers /\ \A s, t \in flagged : s = t
  BY DEF CatalogInv, CatalogTypes, CatalogTypeOK
<1>3. u \in Units
  <2>1. Sold(unit) # {} /\ Sold(unit) \in SUBSET Units /\ \A v \in Sold(unit) : unit[v] # None
    BY <1>1 DEF TillFirstUnit, Sold
  <2>2. Smallest(unit, Sold(unit)) \in Sold(unit)
    BY <1>2, <2>1, SizesThere
  <2> DEFINE first == {v \in Sold(unit) : unit[v].first}
  <2>3. first # {} => (CHOOSE v \in first : TRUE) \in Sold(unit)
    OBVIOUS
  <2>4. QED
    BY <2>1, <2>2, <2>3 DEF TillFirstUnit
<1> HIDE DEF u
<1>4. CASE rows # {}
  <2>1. ListTier \in flagged
    <3>1. (CHOOSE k \in rows : TRUE) \in rows
      BY <1>4
    <3>2. QED
      BY <1>4, <3>1 DEF ListTier
  <2>2. TillTier \in flagged
    BY <2>1 DEF TillTier
  <2>3. QED
    BY <1>2, <2>1, <2>2
<1>5. CASE rows = {}
  <2>1. ListTier = None
    BY <1>5 DEF ListTier
  <2>2. TillTier # None => TillTier \in flagged
    BY DEF TillTier
  <2>3. TillTier # None => price[<<TillTier, u, None>>] = None
    <3>1. TillTier # None => <<TillTier, u, None>> \in PriceKeys
      BY <1>2, <1>3, <2>2 DEF PriceKeys
    <3>2. QED
      BY <1>5, <2>2, <3>1
  <2>4. QED
    BY <2>1, <2>3 DEF ResolveUnitPrice
<1>6. QED
  BY <1>4, <1>5

LEMMA LabelsAreOne == ASSUME CatalogInv PROVE OneLabel
  BY DEF CatalogInv, LabelsUnderWay, OneLabel

\* The invariant the two theorems below rest on.
THEOREM CatalogHoldsAlways == CatalogSpec => []CatalogInv
<1>1. DeskInit /\ CatalogInit => CatalogInv
  BY CatalogStarts
<1>2. CatalogInv /\ [CatalogNext]_<<catalogVars, deskVars>> => CatalogInv'
  BY CatalogSteps, CatalogStutters DEF CatalogKept
<1>3. QED
  BY <1>1, <1>2, PTL DEF CatalogSpec

\* The catalogue keeps to its types (CatalogTypeOK): what an edit writes of a unit, a
\* price, an option or a code is one.
THEOREM CatalogKeepsToItsTypes == CatalogSpec => []CatalogTypeOK
<1>1. CatalogInv => CatalogTypeOK
  BY DEF CatalogInv, CatalogTypes
<1>2. QED
  BY <1>1, CatalogHoldsAlways, PTL

\* Whatever is edited, by however many at once, the till is left with something to sell
\* at the price the list shows (CatalogFitsTheTill): ProductService.update and
\* BarcodeService.create, over any units, price lists, options and codes.
THEOREM CatalogAlwaysFitsTheTill == CatalogSpec => CatalogFitsTheTill
<1> DEFINE Fits == /\ BaseUnitStays' /\ TillUnitIsSold' /\ ListShowsTillPrice'
                   /\ SomeOptionOnSale' /\ OneLabel' /\ OtherPricesStay
<1>1. CatalogInv => BaseUnitStays /\ TillUnitIsSold /\ ListShowsTillPrice /\ SomeOptionOnSale /\ OneLabel
  BY ListAndTillAgree, LabelsAreOne DEF CatalogInv
<1>2. CatalogInv' => BaseUnitStays' /\ TillUnitIsSold' /\ ListShowsTillPrice' /\ SomeOptionOnSale' /\ OneLabel'
  BY <1>1, PTL
<1>3. CatalogInv /\ [CatalogNext]_<<catalogVars, deskVars>> => [Fits]_<<catalogVars, deskVars>>
  BY <1>2, CatalogSteps DEF CatalogKept
<1> HIDE DEF Fits
<1>4. CatalogSpec => [][Fits]_<<catalogVars, deskVars>>
  BY <1>3, CatalogHoldsAlways, PTL DEF CatalogSpec
<1>5. QED
  BY <1>4 DEF CatalogFitsTheTill, Fits

-----------------------------------------------------------------------------
(* What is worked out from its arguments alone.                             *)

\* Takings are in one order, and any of them that are of one person add up.
LEMMA TakingsAreOrdered ==
  ASSUME CashRows, NEW p \in People
  PROVE  /\ IsFiniteSet(TakenBy(p)) /\ \A i \in TakenBy(p) : takings[i].amount \in Nat \ {0}
         /\ \A i \in TakenBy(p) : ~Newer(i, i)
         /\ \A i, j \in TakenBy(p) : i = j \/ Newer(i, j) \/ Newer(j, i)
         /\ \A i, j, k \in TakenBy(p) : Newer(i, j) /\ Newer(j, k) => Newer(i, k)
<1>1. TakenBy(p) \subseteq Takings /\ IsFiniteSet(TakenBy(p))
  BY FS_Subset, CashAssumption DEF TakenBy
<1>2. \A i \in TakenBy(p) : i \in Nat /\ takings[i].amount \in Nat \ {0} /\ takings[i].at \in Nat
  BY <1>1, CashAssumption DEF TakenBy, CashRows, TakingRows
<1>3. \A i \in TakenBy(p) : ~Newer(i, i)
  BY <1>2 DEF Newer
<1>4. \A i, j \in TakenBy(p) : i = j \/ Newer(i, j) \/ Newer(j, i)
  BY <1>2 DEF Newer
<1>5. \A i, j, k \in TakenBy(p) : Newer(i, j) /\ Newer(j, k) => Newer(i, k)
  BY <1>2 DEF Newer
<1>6. QED
  BY <1>1, <1>2, <1>3, <1>4, <1>5

LEMMA EndsOfTakings ==
  ASSUME CashRows, NEW p \in People, NEW T \in SUBSET TakenBy(p), T # {}
  PROVE  /\ NewestOf(T) \in T /\ \A j \in T \ {NewestOf(T)} : Newer(NewestOf(T), j)
         /\ OldestOf(T) \in T /\ \A j \in T \ {OldestOf(T)} : Newer(j, OldestOf(T))
<1> DEFINE S == TakenBy(p)
           R == {q \in S \X S : Newer(q[1], q[2])}
<1>1. \A i, j \in S : <<i, j>> \in R <=> Newer(i, j)
  OBVIOUS
<1> HIDE DEF R
<1>2. TotalOrder(R, S) /\ IsFiniteSet(S)
  BY <1>1, TakingsAreOrdered DEF TotalOrder
<1>3. \E i \in T : \A j \in T \ {i} : <<i, j>> \in R
  BY ONLY <1>2, T \in SUBSET S, T # {}, FirstThere
<1>4. \E i \in T : \A j \in T \ {i} : <<j, i>> \in R
  BY ONLY <1>2, T \in SUBSET S, T # {}, LastThere
<1>5. \E i \in T : \A j \in T \ {i} : Newer(i, j)
  BY <1>1, <1>3
<1>6. \E i \in T : \A j \in T \ {i} : Newer(j, i)
  BY <1>1, <1>4
<1>7. QED
  BY <1>5, <1>6 DEF NewestOf, OldestOf

LEMMA TakingsAddUp ==
  ASSUME NEW U, IsFiniteSet(U), \A i \in U : takings[i].amount \in Nat \ {0},
         NEW S \in SUBSET U, NEW T \in SUBSET U, S \cap T = {}
  PROVE  /\ SumOf(S) \in Nat /\ SumOf(T) \in Nat
         /\ SumOf(S \cup T) = SumOf(S) + SumOf(T)
<1> DEFINE h == [i \in U |-> takings[i].amount]
<1>1. \A V \in SUBSET U : IsFiniteSet(V) /\ SumOf(V) = SumFunctionOnSet(h, V)
  <2> SUFFICES ASSUME NEW V \in SUBSET U PROVE IsFiniteSet(V) /\ SumOf(V) = SumFunctionOnSet(h, V)
    OBVIOUS
  <2> DEFINE g == [i \in V |-> takings[i].amount]
  <2>1. IsFiniteSet(V) /\ SumOf(V) = SumFunctionOnSet(g, V)
    BY FS_Subset DEF SumOf, SumFunction
  <2>2. \A i \in V : g[i] \in Int /\ h[i] \in Int /\ g[i] = h[i]
    OBVIOUS
  <2> HIDE DEF g, h
  <2>3. SumFunctionOnSet(g, V) = SumFunctionOnSet(h, V)
    BY ONLY <2>1, <2>2, SumSame
  <2>4. QED
    BY <2>1, <2>3
<1>2. \A i \in U : h[i] \in Nat
  OBVIOUS
<1> HIDE DEF h
<1>3. IsFiniteSet(S) /\ IsFiniteSet(T) /\ (\A x \in S \cup T : h[x] \in Int) /\ (\A x \in S : h[x] \in Nat) /\ (\A x \in T : h[x] \in Nat)
  BY <1>1, <1>2
<1>4. SumFunctionOnSet(h, S \cup T) = SumFunctionOnSet(h, S) + SumFunctionOnSet(h, T)
  BY ONLY <1>3, S \cap T = {}, SumOfBoth
<1>5. SumFunctionOnSet(h, S) \in Nat /\ SumFunctionOnSet(h, T) \in Nat
  BY ONLY <1>3, SumIsMost
<1>6. QED
  BY <1>1, <1>4, <1>5

\* Whatever went is taken off the oldest first: the walk back ends at what is then left.
LEMMA OldestIsLeft ==
  ASSUME CashRows PROVE OldestIsWhatIsLeft
<1> SUFFICES ASSUME NEW p \in People
             PROVE  LET gone == Received(p) - StillHolding(p)
                        left == {i \in TakenBy(p) : gone < SumOf({j \in TakenBy(p) : j = i \/ Newer(i, j)})}
                    IN  OldestUnbanked(p) = IF StillHolding(p) <= 0 THEN None ELSE takings[OldestOf(left)].at
  BY DEF OldestIsWhatIsLeft
<1> DEFINE U == TakenBy(p)
           H == StillHolding(p)
           from(i) == {j \in U : j = i \/ Newer(j, i)}
           newer(i) == {j \in U : Newer(j, i)}
           upTo(i) == {j \in U : j = i \/ Newer(i, j)}
           left == {i \in U : Received(p) - H < SumOf(upTo(i))}
           enough == Covering(p, H)
<1> SUFFICES ASSUME ~(H <= 0) PROVE OldestUnbanked(p) = takings[OldestOf(left)].at
  BY DEF OldestUnbanked
<1>1. /\ IsFiniteSet(U) /\ \A i \in U : takings[i].amount \in Nat \ {0}
      /\ \A i \in U : ~Newer(i, i)
      /\ \A i, j \in U : i = j \/ Newer(i, j) \/ Newer(j, i)
      /\ \A i, j, k \in U : Newer(i, j) /\ Newer(j, k) => Newer(i, k)
  BY TakingsAreOrdered
<1>2. \A S, T \in SUBSET U : S \cap T = {} => /\ SumOf(S) \in Nat /\ SumOf(T) \in Nat
                                              /\ SumOf(S \cup T) = SumOf(S) + SumOf(T)
  BY ONLY <1>1, TakingsAddUp
<1>3. \A S \in SUBSET U : SumOf(S) \in Nat
  <2> SUFFICES ASSUME NEW S \in SUBSET U PROVE SumOf(S) \in Nat
    OBVIOUS
  <2>1. {} \in SUBSET U /\ S \cap {} = {}
    OBVIOUS
  <2>2. QED
    BY ONLY <1>2, <2>1, S \in SUBSET U
<1>4. \A S, T \in SUBSET U : S \subseteq T => SumOf(S) <= SumOf(T)
  <2> SUFFICES ASSUME NEW S \in SUBSET U, NEW T \in SUBSET U, S \subseteq T PROVE SumOf(S) <= SumOf(T)
    OBVIOUS
  <2>1. T = S \cup (T \ S) /\ S \cap (T \ S) = {} /\ T \ S \in SUBSET U
    OBVIOUS
  <2>2. SumOf(T) = SumOf(S) + SumOf(T \ S) /\ SumOf(S) \in Nat /\ SumOf(T \ S) \in Nat
    BY <1>2, <2>1
  <2>3. QED
    BY <2>2
<1>5. Received(p) = SumOf(U) /\ H \in Int /\ 0 < H /\ H <= SumOf(U)
  <2>1. Received(p) = SumOf(U)
    BY DEF Received, SumOf
  <2>2. Received(p) - paidOut[p] \in Int /\ H = Received(p) - paidOut[p] - OutOf(banking, p) /\ paidOut[p] \in Nat
    BY HoldingIs DEF CashRows
  <2>3. OutOf(banking, p) \in Nat
    <3> DEFINE t == [b \in Bankings |-> TakenOut(banking[b], p)]
    <3>1. \A b \in Bankings : t[b] \in Nat
      BY CashAssumption DEF CashRows, TakenOut, BankingRows
    <3> HIDE DEF t
    <3>2. SumFunctionOnSet(t, Bankings) \in Nat
      BY <3>1, SumIsMost, CashAssumption
    <3>3. QED
      BY <3>2 DEF OutOf, t
  <2>4. SumOf(U) \in Nat
    BY <1>3
  <2>5. QED
    BY <2>1, <2>2, <2>3, <2>4
<1>6. enough = {i \in U : SumOf(from(i)) >= H}
  BY DEF Covering
<1>7. \A i \in U : Received(p) - H < SumOf(upTo(i)) <=> SumOf(newer(i)) < H
  <2> SUFFICES ASSUME NEW i \in U PROVE Received(p) - H < SumOf(upTo(i)) <=> SumOf(newer(i)) < H
    OBVIOUS
  <2>1. upTo(i) \in SUBSET U /\ newer(i) \in SUBSET U /\ upTo(i) \cap newer(i) = {} /\ upTo(i) \cup newer(i) = U
    BY <1>1
  <2>2. SumOf(U) = SumOf(upTo(i)) + SumOf(newer(i)) /\ SumOf(upTo(i)) \in Nat /\ SumOf(newer(i)) \in Nat
    BY <1>2, <2>1
  <2>3. QED
    BY <1>5, <2>2
<1>8. left = {i \in U : SumOf(newer(i)) < H}
  BY <1>7
<1>9. SumOf({}) = 0
  <2>1. {} \in SUBSET U /\ {} \cap {} = {} /\ {} \cup {} = {}
    OBVIOUS
  <2>2. SumOf({}) \in Nat /\ SumOf({}) = SumOf({}) + SumOf({})
    BY <1>2, <2>1
  <2>3. \A n \in Nat : n = n + n => n = 0
    OBVIOUS
  <2> HIDE DEF SumOf
  <2>4. QED
    BY <2>2, <2>3
<1> HIDE DEF U, H, enough, left
<1>10. U # {}
  BY <1>5, <1>9
<1>11. enough # {}
  <2>1. OldestOf(U) \in U /\ \A j \in U \ {OldestOf(U)} : Newer(j, OldestOf(U))
    BY <1>10, EndsOfTakings DEF U
  <2>2. from(OldestOf(U)) = U
    BY <2>1
  <2>3. SumOf(from(OldestOf(U))) >= H
    BY <1>3, <1>5, <2>2
  <2>4. QED
    BY <1>6, <2>1, <2>3
<1> DEFINE i == NewestOf(enough)
<1>12. i \in enough /\ \A j \in enough \ {i} : Newer(i, j)
  BY <1>6, <1>11, EndsOfTakings DEF U
<1> HIDE DEF i
<1>13. i \in U /\ SumOf(from(i)) >= H
  BY <1>6, <1>12
<1>14. i \in left
  <2>1. CASE newer(i) = {}
    BY <1>5, <1>8, <1>9, <1>13, <2>1
  <2>2. CASE newer(i) # {}
    <3> DEFINE k == OldestOf(newer(i))
    <3>1. k \in newer(i) /\ \A j \in newer(i) \ {k} : Newer(j, k)
      BY <2>2, EndsOfTakings DEF U
    <3> HIDE DEF k
    <3>2. k \in U /\ Newer(k, i)
      BY <3>1
    <3>3. newer(i) = from(k)
      BY <1>1, <1>13, <3>1, <3>2
    <3>4. k \notin enough
      BY <1>1, <1>12, <1>13, <3>2
    <3>5. SumOf(from(k)) < H
      <4>1. SumOf(from(k)) \in Nat
        BY <1>3
      <4>2. QED
        BY <1>5, <1>6, <3>2, <3>4, <4>1
    <3>6. QED
      BY <1>8, <1>13, <3>3, <3>5
  <2>3. QED
    BY <2>1, <2>2
<1>15. \A j \in left \ {i} : Newer(j, i)
  <2> SUFFICES ASSUME NEW j \in left \ {i}, ~Newer(j, i) PROVE FALSE
    OBVIOUS
  <2>1. j \in U /\ SumOf(newer(j)) < H
    BY <1>8
  <2>2. Newer(i, j)
    BY <1>1, <1>13, <2>1
  <2>3. from(i) \subseteq newer(j) /\ from(i) \in SUBSET U /\ newer(j) \in SUBSET U
    BY <1>1, <1>13, <2>1, <2>2
  <2>4. SumOf(from(i)) <= SumOf(newer(j)) /\ SumOf(from(i)) \in Nat /\ SumOf(newer(j)) \in Nat
    BY <1>3, <1>4, <2>3
  <2>5. QED
    BY <1>5, <1>13, <2>1, <2>4
<1>16. OldestOf(left) = i
  <2>1. left \in SUBSET U
    BY <1>8
  <2>2. OldestOf(left) \in left /\ \A j \in left \ {OldestOf(left)} : Newer(j, OldestOf(left))
    BY <1>14, <2>1, EndsOfTakings DEF U
  <2>3. QED
    BY <1>1, <1>14, <1>15, <2>1, <2>2
<1>17. OldestUnbanked(p) = takings[i].at
  BY <1>5, <1>10, <1>11 DEF OldestUnbanked, U, H, enough, i
<1>18. QED
  BY <1>16, <1>17

\* A name lets in the one member of staff it fits, for any roster and however many
\* of a name are looked at.
LEMMA NameLetsInWhoFits ==
  ASSUME NEW roster, IsFiniteSet(DOMAIN roster), None \notin DOMAIN roster
  PROVE  NameIsEnough(roster)
<1> SUFFICES ASSUME NEW p \in DOMAIN roster, NEW pass \in {roster[q].pass : q \in DOMAIN roster},
                    NEW S \in Candidates(roster, roster[p].name)
             PROVE  LET fits == [q \in DOMAIN roster |-> roster[q].pass = pass]
                        alike == {q \in DOMAIN roster : roster[q].name = roster[p].name}
                        in == SignInCandidate(S, fits)
                    IN  /\ in # None => fits[in] /\ in \in alike
                        /\ (\A q \in alike : roster[q].shop # None) /\ Cardinality(alike) <= Shown
                             => IF \E q \in alike : fits[q] /\ \A o \in alike \ {q} : ~fits[o]
                                THEN in # None ELSE in = None
  BY DEF NameIsEnough
<1> DEFINE D == DOMAIN roster
           name == roster[p].name
           fits == [q \in D |-> roster[q].pass = pass]
           alike == {q \in D : roster[q].name = name}
           staff == {q \in D : roster[q].name = name /\ roster[q].shop # None}
           plain == {q \in D : roster[q].name = name /\ roster[q].shop = None}
           in == SignInCandidate(S, fits)
           fitting == {q \in S : fits[q]}
<1>1. IsFiniteSet(alike) /\ IsFiniteSet(staff) /\ staff \subseteq alike
  BY FS_Subset
<1>2. S \subseteq alike
  BY DEF Candidates
<1>3. IsFiniteSet(S) /\ IsFiniteSet(fitting)
  BY <1>1, <1>2, FS_Subset
<1>4. in = IF Cardinality(fitting) = 1 THEN CHOOSE q \in fitting : TRUE ELSE None
  BY DEF SignInCandidate
<1>5. Cardinality(fitting) = 1 => /\ in \in fitting /\ \A q \in fitting : q = in
  <2> SUFFICES ASSUME Cardinality(fitting) = 1 PROVE in \in fitting /\ \A q \in fitting : q = in
    OBVIOUS
  <2>1. PICK q : fitting = {q}
    BY ONLY <1>3, Cardinality(fitting) = 1, FS_Singleton
  <2>2. QED
    BY <1>4, <2>1
<1>6. in # None => fits[in] /\ in \in alike
  BY <1>2, <1>4, <1>5
<1>7. ASSUME \A q \in alike : roster[q].shop # None, Cardinality(alike) <= Shown
      PROVE  S = alike
  <2>1. plain = {} /\ staff = alike
    BY <1>7
  <2>2. S \in SUBSET staff /\ Cardinality(S) = IF Cardinality(staff) < Shown THEN Cardinality(staff) ELSE Shown
    BY <2>1 DEF Candidates
  <2>3. Cardinality(alike) \in Nat /\ Shown \in Nat
    BY <1>1, FS_CardinalityType, AccountsAssumption
  <2>4. Cardinality(S) = Cardinality(alike)
    <3> HIDE DEF alike, staff, plain
    <3>1. Cardinality(S) = IF Cardinality(alike) < Shown THEN Cardinality(alike) ELSE Shown
      BY <2>1, <2>2
    <3>2. QED
      BY ONLY <1>7, <2>3, <3>1
  <2>5. QED
    BY ONLY <1>1, <1>2, <2>4, FS_Subset
<1>8. ASSUME S = alike, NEW q \in alike, fits[q], \A o \in alike \ {q} : ~fits[o]
      PROVE  in # None
  <2>1. fitting = {q}
    BY <1>8
  <2>2. Cardinality(fitting) = 1
    BY <2>1, FS_Singleton
  <2>3. in = q
    BY <1>5, <2>1, <2>2
  <2>4. QED
    BY <2>3
<1>9. ASSUME S = alike, in # None
      PROVE  \E q \in alike : fits[q] /\ \A o \in alike \ {q} : ~fits[o]
  <2>1. in \in alike /\ fits[in] /\ \A o \in fitting : o = in
    BY <1>4, <1>5, <1>6, <1>9
  <2>2. \A o \in alike \ {in} : ~fits[o]
    BY <1>9, <2>1
  <2>3. QED
    BY <2>1, <2>2
<1>10. QED
  BY <1>6, <1>7, <1>8, <1>9

-----------------------------------------------------------------------------
(* The office as a whole, as far as what is worked out from arguments goes. *)

\* What those functions are given, whichever part moves.
ArgumentsAreGood ==
  /\ PeriodsTypeOK /\ CashRows /\ (focus \in {"cash", "bankings"} => CashTypes)
  /\ focus = "pick" => onHand \in [Lots -> Int] /\ quantity \in Nat

LEMMA ArgumentsStartGood == MCInit => ArgumentsAreGood
<1> SUFFICES ASSUME MCInit PROVE ArgumentsAreGood
  OBVIOUS
<1>1. PeriodsInit => PeriodsTypeOK
  BY PeriodsStartTyped
<1>2. (CHOOSE z \in Zones : TRUE) \in Zones
  BY OfficeAssumption
<1>3. zone \in Zones /\ instant = DayHours
  BY <1>2 DEF MCInit, PeriodsInit
<1>4. PeriodsTypeOK
  BY <1>1, <1>3 DEF PeriodsInit
<1>5. CashTypes
  BY CashAssumption DEF MCInit, DeskInit, CashInit, CashTypes, CashRows, Asked
<1>6. focus = "pick" => onHand \in [Lots -> MinStock..MaxStock] /\ quantity \in 1..MaxPick
  BY DEF MCInit
<1>7. MinStock..MaxStock \subseteq Int /\ 1..MaxPick \subseteq Nat
  BY OfficeAssumption
<1>8. QED
  BY <1>4, <1>5, <1>6, <1>7 DEF ArgumentsAreGood, CashTypes, CashRows

LEMMA ArgumentsStayGood == ArgumentsAreGood /\ [MCNext]_allVars => ArgumentsAreGood'
<1> SUFFICES ASSUME ArgumentsAreGood, [MCNext]_allVars PROVE ArgumentsAreGood'
  OBVIOUS
<1>1. UNCHANGED <<focus, onHand, quantity>>
  BY DEF MCNext, allVars, pickVars
<1>2. PeriodsNext \/ UNCHANGED periodsVars
  BY DEF MCNext, allVars
<1>3. PeriodsTypeOK'
  BY <1>2, PeriodsStayTyped DEF ArgumentsAreGood
<1>4. \/ focus \in {"cash", "bankings"} /\ CashNext
      \/ focus \notin {"cash", "bankings"} /\ UNCHANGED cashVars
      \/ UNCHANGED <<deskVars, cashVars>>
  BY DEF MCNext, allVars, CashStep
<1>5. CashRows' /\ (focus \in {"cash", "bankings"} => CashTypes')
  <2>1. CASE focus \in {"cash", "bankings"} /\ CashNext
    BY <2>1, CashTypesStay DEF ArgumentsAreGood, CashTypes, CashRows
  <2>2. CASE focus \notin {"cash", "bankings"} /\ UNCHANGED cashVars
    BY <2>2 DEF ArgumentsAreGood, CashRows, cashVars
  <2>3. CASE UNCHANGED <<deskVars, cashVars>>
    <3>1. focus \in {"cash", "bankings"} => CashTypes'
      BY <2>3, CashTypesStay DEF ArgumentsAreGood
    <3>2. CashRows'
      BY <2>3 DEF ArgumentsAreGood, CashRows, cashVars
    <3>3. QED
      BY <3>1, <3>2
  <2>4. QED
    BY <1>4, <2>1, <2>2, <2>3
<1>6. QED
  BY <1>1, <1>3, <1>5 DEF ArgumentsAreGood

LEMMA ThePickIsOne == ArgumentsAreGood => LoopIsThePick
<1> SUFFICES ASSUME ArgumentsAreGood, focus = "pick",
                    NEW taken \in [Lots -> 0..MaxPick], NEW shortfall \in 0..MaxPick
             PROVE  IsFefoPick(onHand, quantity, taken, shortfall)
                      <=> /\ taken = AllocateFefo(onHand, quantity).taken
                          /\ shortfall = AllocateFefo(onHand, quantity).remaining
  BY DEF LoopIsThePick
<1>1. onHand \in [Lots -> Int] /\ quantity \in Nat
  BY DEF ArgumentsAreGood
<1>2. taken \in [Lots -> Nat] /\ shortfall \in Nat
  BY OfficeAssumption
<1>3. QED
  BY ONLY <1>1, <1>2, LoopIsTheOnePick

LEMMA NamesLetIn == NamesAreEnough
<1> SUFFICES ASSUME NEW roster \in Rosters PROVE NameIsEnough(roster)
  BY DEF NamesAreEnough
<1>1. DOMAIN roster = 1..3
  BY DEF Rosters
<1>2. IsFiniteSet(1..3)
  <2>1. 1 \in Int /\ 3 \in Int
    OBVIOUS
  <2>2. QED
    BY ONLY <2>1, FS_Interval
<1>3. IsFiniteSet(DOMAIN roster) /\ None \notin DOMAIN roster
  BY <1>1, <1>2, OfficeAssumption
<1>4. QED
  BY <1>3, NameLetsInWhoFits

\* However many lots, months, zones and takings there are: the pick of allocateFefo, the
\* days of period.ts, the people signInCandidate lets in and the date oldestUnbanked
\* lands on are what a reader would say they are.
THEOREM PureFunctionsAlwaysAgree == MCSpec => []PureFunctionsAgree
<1>1. ArgumentsAreGood => DaysAreWhole
  BY DaysFromTypes DEF ArgumentsAreGood
<1>2. ArgumentsAreGood => PureFunctionsAgree
  BY <1>1, ThePickIsOne, NamesLetIn, OldestIsLeft DEF PureFunctionsAgree, ArgumentsAreGood
<1>3. QED
  BY <1>2, ArgumentsStartGood, ArgumentsStayGood, PTL DEF MCSpec
==============================================================================
