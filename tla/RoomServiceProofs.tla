--------------------------- MODULE RoomServiceProofs ---------------------------
(***************************************************************************)
(* Theorems about RoomService, for every set of users, rooms, passwords    *)
(* and request slots and every value of the other constants: its tables,   *)
(* and then the lock of a room after wrong passwords.                      *)
(***************************************************************************)
EXTENDS RoomService, FiniteSetTheorems, TLAPS

\* A slot whose op is 'join' (or 'setPassword') holds a request of that kind.
LEMMA RequestKinds ==
    ASSUME RoomTypeOK, NEW q \in Reqs
    PROVE  /\ reqs[q].op = "join" => reqs[q] \in JoinRequest
           /\ reqs[q].op = "setPassword" => reqs[q] \in SetPasswordRequest
<1>1. reqs[q] \in Request
  BY DEF RoomTypeOK
<1>2. Idle.op = "idle"
  BY DEF Idle
<1>3. \A x \in JoinRequest : x.op = "join"
  BY DEF JoinRequest
<1>4. \A x \in SetPasswordRequest : x.op = "setPassword"
  BY DEF SetPasswordRequest
<1> QED
  BY <1>1, <1>2, <1>3, <1>4 DEF Request

LEMMA AfterFailureType ==
    ASSUME NEW a \in Attempt
    PROVE  AfterFailure(a) \in Attempt
BY ThresholdAssumption DEF AfterFailure, Attempt

LEMMA ReleaseType ==
    ASSUME RoomTypeOK
    PROVE  /\ \A q \in Reqs : Release(q) => reqs' \in [Reqs -> Request]
           /\ ReleaseAll => reqs' \in [Reqs -> Request]
BY DEF RoomTypeOK, Release, ReleaseAll, Request

\* InsertMember and DropAllMembers write rows and nothing else.
LEMMA RowsType ==
    ASSUME RoomTypeOK, NEW r \in Rooms, NEW u \in Users
    PROVE  /\ InsertMember(r, u) => memberRow' \in [Rooms -> [Users -> Row]]
           /\ DropAllMembers(r) => memberRow' \in [Rooms -> [Users -> Row]]
<1>1. [role |-> "member", at |-> now] \in Row
  BY DEF RoomTypeOK, Row, Role
<1>2. NoRow \in Row
  BY ClockAssumption DEF Row, Role, NoRow
<1>3. memberRow \in [Rooms -> [Users -> Row]]
  BY DEF RoomTypeOK
<1>4. ASSUME InsertMember(r, u)
      PROVE  memberRow' \in [Rooms -> [Users -> Row]]
  BY <1>1, <1>3, <1>4 DEF InsertMember
<1>5. ASSUME DropAllMembers(r)
      PROVE  memberRow' \in [Rooms -> [Users -> Row]]
  BY <1>2, <1>3, <1>5 DEF DropAllMembers
<1> QED
  BY <1>4, <1>5

LEMMA TypeInit == RoomInit => RoomTypeOK
BY ClockAssumption, NullAssumption
   DEF RoomInit, RoomTypeOK, Row, Role, NoRow, Attempt, NoAttempt, Request

LEMMA TypeStep == RoomTypeOK /\ [RoomNext]_roomVars => RoomTypeOK'
<1> SUFFICES ASSUME RoomTypeOK, [RoomNext]_roomVars
             PROVE  RoomTypeOK'
  OBVIOUS
<1> USE DEF RoomTypeOK, roomTables
<1>0. NoRow \in Row /\ NoAttempt \in Attempt
  BY ClockAssumption DEF NoRow, Row, Role, NoAttempt, Attempt
<1>1. ASSUME NEW u \in Users, NEW r \in Rooms, NEW p \in Passwords,
             NEW max \in MaxMembersArgs, CreateRoom(u, r, p, max)
      PROVE  RoomTypeOK'
  <2>1. [role |-> "owner", at |-> now] \in Row
    BY DEF Row, Role
  <2> QED
    BY <1>1, <2>1, MaxMembersAssumption DEF CreateRoom
<1>2. ASSUME NEW q \in Reqs, NEW u \in Users, NEW r \in Rooms, NEW p \in Passwords,
             JoinBegin(q, u, r, p)
      PROVE  RoomTypeOK'
  <2>1. [op |-> "join", user |-> u, room |-> r, given |-> p, seen |-> password[r]]
          \in Request
    BY DEF Request, JoinRequest
  <2> QED
    BY <1>2, <2>1 DEF JoinBegin
<1>3. ASSUME NEW q \in Reqs, NEW u \in Users, NEW r \in Rooms, NEW p \in Passwords,
             SetPasswordBegin(q, u, r, p)
      PROVE  RoomTypeOK'
  <2>1. [op |-> "setPassword", user |-> u, room |-> r, given |-> p] \in Request
    BY DEF Request, SetPasswordRequest
  <2> QED
    BY <1>3, <2>1 DEF SetPasswordBegin
<1>4. ASSUME NEW q \in Reqs, JoinFail(q)
      PROVE  RoomTypeOK'
  <2>1. reqs[q].room \in Rooms /\ reqs[q].user \in Users
    BY <1>4, RequestKinds DEF JoinFail, JoinRequest
  <2>2. AfterFailure(attempts[reqs[q].room][reqs[q].user]) \in Attempt
    BY <2>1, AfterFailureType
  <2> QED
    BY <1>4, <2>1, <2>2, ReleaseType DEF JoinFail
<1>5. ASSUME NEW q \in Reqs, JoinFull(q)
      PROVE  RoomTypeOK'
  BY <1>5, ReleaseType DEF JoinFull
<1>6. ASSUME NEW q \in Reqs, JoinAdmit(q) \/ JoinAdmitCrash(q)
      PROVE  RoomTypeOK'
  <2>1. reqs[q].room \in Rooms /\ reqs[q].user \in Users
    BY <1>6, RequestKinds DEF JoinAdmit, JoinAdmitCrash, PasswordAccepted, JoinRequest
  <2>2. memberRow' \in [Rooms -> [Users -> Row]]
    BY <1>6, <2>1, RowsType DEF JoinAdmit, JoinAdmitCrash
  <2>3. attempts' \in [Rooms -> [Users -> Attempt]]
    <3>1. CASE JoinAdmit(q)
      BY <1>0, <2>1, <3>1 DEF JoinAdmit
    <3>2. CASE JoinAdmitCrash(q)
      BY <3>2 DEF JoinAdmitCrash
    <3> QED
      BY <1>6, <3>1, <3>2
  <2> QED
    BY <1>6, <2>2, <2>3, ReleaseType DEF JoinAdmit, JoinAdmitCrash
<1>7. ASSUME NEW q \in Reqs, SetPasswordCommit(q)
      PROVE  RoomTypeOK'
  <2>1. reqs[q].room \in Rooms /\ reqs[q].given \in Passwords
    BY <1>7, RequestKinds DEF SetPasswordCommit, SetPasswordRequest
  <2> QED
    BY <1>7, <2>1, ReleaseType DEF SetPasswordCommit
<1>8. ASSUME NEW u \in Users, NEW r \in Rooms, LeaveAsMember(u, r)
      PROVE  RoomTypeOK'
  BY <1>0, <1>8 DEF LeaveAsMember
<1>9. ASSUME NEW u \in Users, NEW r \in Rooms,
             LeaveDelete(u, r) \/ LeaveDeleteCrash(u, r) \/ DeleteRoom(u, r)
      PROVE  RoomTypeOK'
  BY <1>9, RowsType, ReleaseType DEF LeaveDelete, LeaveDeleteCrash, DeleteRoom
<1>10. ASSUME NEW u \in Users, NEW r \in Rooms, LockExpires(r, u)
       PROVE  RoomTypeOK'
  <2>1. [attempts[r][u] EXCEPT !.lock = "expired"] \in Attempt
    <3>1. attempts[r][u] \in Attempt
      OBVIOUS
    <3> QED
      BY <3>1 DEF Attempt
  <2> QED
    BY <1>10, <2>1 DEF LockExpires
<1>11. ASSUME NEW u \in Users, NEW v \in Users, NEW r \in Rooms, LeaveTransfer(u, r, v)
       PROVE  RoomTypeOK'
  <2>1. [memberRow[r][v] EXCEPT !.role = "owner"] \in Row
    <3>1. memberRow[r][v] \in Row
      OBVIOUS
    <3> QED
      BY <3>1 DEF Row, Role
  <2> QED
    BY <1>0, <1>11, <2>1 DEF LeaveTransfer
<1>12. ASSUME NEW u \in Users, NEW v \in Users, NEW r \in Rooms, KickMember(u, r, v)
       PROVE  RoomTypeOK'
  BY <1>0, <1>12 DEF KickMember
<1>13. CASE Tick
  BY <1>13, ClockAssumption DEF Tick
<1>14. CASE RoomCrash
  BY <1>14, ReleaseType DEF RoomCrash
<1>15. CASE UNCHANGED roomVars
  BY <1>15 DEF roomVars
<1> QED
  BY <1>1, <1>2, <1>3, <1>4, <1>5, <1>6, <1>7, <1>8, <1>9, <1>10, <1>11, <1>12,
     <1>13, <1>14, <1>15 DEF RoomNext

\* Every reachable state of the tables and of the suspended requests is well
\* formed: no row refers to a user or a room that is not there, and no request
\* resumes without the values it needs.
THEOREM RoomTypeCorrect == RoomSpec => []RoomTypeOK
BY TypeInit, TypeStep, PTL DEF RoomSpec

-------------------------------------------------------------------------------
(***************************************************************************)
(* Ownership and capacity.  OwnerSeated is not inductive as it stands: a    *)
(* row or a suspended join of a room that does not exist yet would outlive  *)
(* its creation.  A room id without a row has neither, and no ban.          *)
(***************************************************************************)
FreshRooms ==
    \A r \in Rooms : status[r] = "absent" =>
        /\ \A u \in Users : memberRow[r][u].role = "none"
        /\ \A q \in Reqs : reqs[q].op = "idle" \/ reqs[q].room # r
        /\ banned[r] = {}

SeatInv == RoomTypeOK /\ FreshRooms /\ OwnerSeated /\ WithinCapacity

\* What an insertion does to every row.
LEMMA InsertedRows ==
    ASSUME RoomTypeOK, NEW r \in Rooms, NEW u \in Users, InsertMember(r, u)
    PROVE  \A s \in Rooms, v \in Users :
             memberRow'[s][v] = IF s = r /\ v = u /\ memberRow[r][u].role = "none"
                                  THEN [role |-> "member", at |-> now] ELSE memberRow[s][v]
BY DEF RoomTypeOK, InsertMember

LEMMA DroppedRows ==
    ASSUME RoomTypeOK, NEW r \in Rooms, DropAllMembers(r)
    PROVE  \A s \in Rooms, v \in Users :
             memberRow'[s][v] = IF s = r THEN NoRow ELSE memberRow[s][v]
BY DEF RoomTypeOK, DropAllMembers

LEMMA MembersFinite ==
    \A r \in Rooms : IsFiniteSet(Members(r)) /\ Cardinality(Members(r)) \in Nat
<1> SUFFICES ASSUME NEW r \in Rooms
             PROVE  IsFiniteSet(Members(r)) /\ Cardinality(Members(r)) \in Nat
  OBVIOUS
<1>1. Members(r) \subseteq Users
  BY DEF Members
<1> QED
  BY <1>1, UsersAssumption, FS_Subset, FS_CardinalityType

\* After a request ends, the other slots are as they were; after a crash all
\* slots are idle.
LEMMA Released ==
    ASSUME RoomTypeOK
    PROVE  /\ \A q \in Reqs : Release(q) => \A p \in Reqs : reqs'[p] = reqs[p] \/ reqs'[p] = Idle
           /\ ReleaseAll => \A p \in Reqs : reqs'[p] = Idle
BY DEF RoomTypeOK, Release, ReleaseAll

LEMMA FreshRoomsStep == SeatInv /\ [RoomNext]_roomVars => FreshRooms'
<1> SUFFICES ASSUME SeatInv, [RoomNext]_roomVars,
                    NEW s \in Rooms, status'[s] = "absent"
             PROVE  /\ \A v \in Users : memberRow'[s][v].role = "none"
                    /\ \A p \in Reqs : reqs'[p].op = "idle" \/ reqs'[p].room # s
                    /\ banned'[s] = {}
  BY DEF FreshRooms
<1> USE DEF roomTables
<1>t. RoomTypeOK
  BY DEF SeatInv
<1>i. Idle.op = "idle"
  BY DEF Idle
<1>f. status[s] = "absent" =>
        /\ \A v \in Users : memberRow[s][v].role = "none"
        /\ \A p \in Reqs : reqs[p].op = "idle" \/ reqs[p].room # s
        /\ banned[s] = {}
  BY DEF SeatInv, FreshRooms
<1>1. ASSUME NEW u \in Users, NEW r \in Rooms, NEW p \in Passwords,
             NEW max \in MaxMembersArgs, CreateRoom(u, r, p, max)
      PROVE  s # r /\ status[s] = "absent" /\ memberRow'[s] = memberRow[s] /\ reqs' = reqs
  BY <1>1, <1>t DEF CreateRoom, RoomTypeOK
<1>2. ASSUME NEW q \in Reqs, NEW u \in Users, NEW r \in Rooms, NEW p \in Passwords,
             JoinBegin(q, u, r, p) \/ SetPasswordBegin(q, u, r, p)
      PROVE  /\ status[s] = "absent" /\ memberRow' = memberRow
             /\ \A x \in Reqs : reqs'[x] = reqs[x] \/ reqs'[x].room # s
  BY <1>2, <1>t DEF JoinBegin, SetPasswordBegin, RoomExists, IsOwner, RoomTypeOK
<1>3. ASSUME NEW q \in Reqs,
             JoinFail(q) \/ JoinFull(q) \/ SetPasswordCommit(q)
      PROVE  /\ status[s] = "absent" /\ memberRow' = memberRow
             /\ \A x \in Reqs : reqs'[x] = reqs[x] \/ reqs'[x] = Idle
  BY <1>3, <1>t, Released DEF JoinFail, JoinFull, SetPasswordCommit
<1>4. ASSUME NEW q \in Reqs, JoinAdmit(q) \/ JoinAdmitCrash(q)
      PROVE  /\ status[s] = "absent"
             /\ \A v \in Users : memberRow'[s][v] = memberRow[s][v]
             /\ \A x \in Reqs : reqs'[x] = reqs[x] \/ reqs'[x] = Idle
  <2>1. status[s] = "absent" /\ InsertMember(reqs[q].room, reqs[q].user)
    BY <1>4 DEF JoinAdmit, JoinAdmitCrash
  <2>2. reqs[q].op = "join" /\ reqs[q].room \in Rooms /\ reqs[q].user \in Users
    BY <1>4, <1>t, RequestKinds DEF JoinAdmit, JoinAdmitCrash, PasswordAccepted, JoinRequest
  <2>3. reqs[q].room # s
    BY <1>f, <2>1, <2>2
  <2> QED
    BY <1>4, <1>t, <2>1, <2>2, <2>3, InsertedRows, Released DEF JoinAdmit, JoinAdmitCrash
<1>5. ASSUME NEW u \in Users, NEW r \in Rooms, LeaveAsMember(u, r)
      PROVE  s # r /\ status[s] = "absent" /\ memberRow'[s] = memberRow[s] /\ reqs' = reqs
  BY <1>5, <1>t DEF LeaveAsMember, RoomExists, RoomTypeOK
<1>6. ASSUME NEW u \in Users, NEW r \in Rooms, LeaveDelete(u, r) \/ DeleteRoom(u, r)
      PROVE  s # r /\ status[s] = "absent" /\ memberRow'[s] = memberRow[s] /\ reqs' = reqs
  BY <1>6, <1>t DEF LeaveDelete, DeleteRoom, AloneInRoom, DropAllMembers, RoomTypeOK
<1>7. ASSUME NEW u \in Users, NEW r \in Rooms, LeaveDeleteCrash(u, r)
      PROVE  /\ status[s] = "absent" /\ memberRow' = memberRow
             /\ \A x \in Reqs : reqs'[x] = Idle
  BY <1>7, <1>t, Released DEF LeaveDeleteCrash, AloneInRoom, RoomTypeOK
<1>8. ASSUME NEW u \in Users, NEW r \in Rooms, LockExpires(r, u)
      PROVE  status[s] = "absent" /\ memberRow' = memberRow /\ reqs' = reqs
  BY <1>8 DEF LockExpires
<1>9. ASSUME NEW u \in Users, NEW v \in Users, NEW r \in Rooms,
             LeaveTransfer(u, r, v) \/ KickMember(u, r, v)
      PROVE  s # r /\ status[s] = "absent" /\ memberRow'[s] = memberRow[s] /\ reqs' = reqs
  BY <1>9, <1>t DEF LeaveTransfer, KickMember, IsOwner, RoomExists, RoomTypeOK
<1>10. CASE Tick
  BY <1>10, <1>f DEF Tick
<1>11. CASE RoomCrash
  BY <1>11, <1>f, <1>i, <1>t, Released DEF RoomCrash
<1>b. banned'[s] = banned[s] \/ \E u, v \in Users, r \in Rooms : KickMember(u, r, v)
  BY ZenonT(30) DEF RoomNext, CreateRoom, JoinBegin, SetPasswordBegin, JoinFail, JoinFull, JoinAdmit,
         JoinAdmitCrash, SetPasswordCommit, LeaveAsMember, LeaveDelete, LeaveDeleteCrash,
         DeleteRoom, LockExpires, LeaveTransfer, Tick, RoomCrash, roomVars
<1>k. ASSUME NEW u \in Users, NEW v \in Users, NEW r \in Rooms, KickMember(u, r, v)
      PROVE  banned'[s] = banned[s]
  BY <1>k, <1>t DEF KickMember, IsOwner, RoomExists, RoomTypeOK
<1>12. CASE UNCHANGED roomVars
  BY <1>12, <1>f DEF roomVars
<1> QED
  BY <1>f, <1>i, <1>1, <1>2, <1>3, <1>4, <1>5, <1>6, <1>7, <1>8, <1>9, <1>10, <1>11,
     <1>12, <1>b, <1>k DEF RoomNext

LEMMA OwnerSeatedStep == SeatInv /\ [RoomNext]_roomVars => OwnerSeated'
<1> SUFFICES ASSUME SeatInv, [RoomNext]_roomVars,
                    NEW s \in Rooms, status'[s] = "live"
             PROVE  /\ owner'[s] \in Users
                    /\ \A v \in Users : memberRow'[s][v].role = "owner" <=> v = owner'[s]
  BY DEF OwnerSeated
<1> USE DEF roomTables
<1>t. RoomTypeOK
  BY DEF SeatInv
<1>s. status[s] = "live" =>
        /\ owner[s] \in Users
        /\ \A v \in Users : memberRow[s][v].role = "owner" <=> v = owner[s]
  BY DEF SeatInv, OwnerSeated
<1>1. ASSUME NEW u \in Users, NEW r \in Rooms, NEW p \in Passwords,
             NEW max \in MaxMembersArgs, CreateRoom(u, r, p, max)
      PROVE  /\ owner'[s] \in Users
             /\ \A v \in Users : memberRow'[s][v].role = "owner" <=> v = owner'[s]
  <2>1. CASE s = r
    <3>1. \A v \in Users : memberRow[s][v].role = "none"
      BY <1>1, <2>1 DEF SeatInv, FreshRooms, CreateRoom
    <3>2. owner'[s] = u
      BY <1>1, <1>t, <2>1 DEF CreateRoom, RoomTypeOK
    <3>3. \A v \in Users : memberRow'[s][v] =
            IF v = u THEN [role |-> "owner", at |-> now] ELSE memberRow[s][v]
      BY <1>1, <1>t, <2>1 DEF CreateRoom, RoomTypeOK
    <3> QED
      BY <3>1, <3>2, <3>3
  <2>2. CASE s # r
    BY <1>1, <1>s, <1>t, <2>2 DEF CreateRoom, RoomTypeOK
  <2> QED
    BY <2>1, <2>2
<1>2. ASSUME NEW q \in Reqs,
             \/ \E u \in Users, r \in Rooms, p \in Passwords :
                   JoinBegin(q, u, r, p) \/ SetPasswordBegin(q, u, r, p)
             \/ JoinFail(q) \/ JoinFull(q) \/ SetPasswordCommit(q)
      PROVE  UNCHANGED <<status, owner, memberRow>>
  BY <1>2 DEF JoinBegin, SetPasswordBegin, JoinFail, JoinFull, SetPasswordCommit
<1>3. ASSUME NEW q \in Reqs, JoinAdmit(q) \/ JoinAdmitCrash(q)
      PROVE  /\ UNCHANGED <<status, owner>>
             /\ \A v \in Users : \/ memberRow'[s][v] = memberRow[s][v]
                                 \/ /\ memberRow[s][v].role = "none"
                                    /\ memberRow'[s][v].role = "member"
  <2>1. reqs[q].op = "join" /\ reqs[q].room \in Rooms /\ reqs[q].user \in Users
    BY <1>3, <1>t, RequestKinds DEF JoinAdmit, JoinAdmitCrash, PasswordAccepted, JoinRequest
  <2> QED
    BY <1>3, <1>t, <2>1, InsertedRows DEF JoinAdmit, JoinAdmitCrash
<1>4. ASSUME NEW u \in Users, NEW r \in Rooms, LeaveAsMember(u, r)
      PROVE  /\ UNCHANGED <<status, owner>>
             /\ \A v \in Users : \/ memberRow'[s][v] = memberRow[s][v]
                                 \/ /\ v # owner[s]
                                    /\ memberRow'[s][v].role = "none"
  BY <1>4, <1>t DEF LeaveAsMember, RoomTypeOK, NoRow
<1>5. ASSUME NEW u \in Users, NEW r \in Rooms,
             LeaveDelete(u, r) \/ LeaveDeleteCrash(u, r) \/ DeleteRoom(u, r)
      PROVE  s # r /\ status[s] = "live" /\ owner' = owner /\ memberRow'[s] = memberRow[s]
  BY <1>5, <1>t DEF LeaveDelete, LeaveDeleteCrash, DeleteRoom, DropAllMembers, RoomTypeOK
<1>6. ASSUME NEW u \in Users, NEW v \in Users, NEW r \in Rooms, LeaveTransfer(u, r, v)
      PROVE  /\ owner'[s] \in Users
             /\ \A x \in Users : memberRow'[s][x].role = "owner" <=> x = owner'[s]
  <2>1. status' = status /\ u # v /\ owner[r] = u
    BY <1>6 DEF LeaveTransfer, IsOwner
  <2>2. owner'[s] = IF s = r THEN v ELSE owner[s]
    BY <1>6, <1>t DEF LeaveTransfer, RoomTypeOK
  <2>3. CASE s = r
    <3>1. \A x \in Users : x # u /\ x # v => memberRow'[s][x] = memberRow[s][x]
      BY <1>6, <1>t, <2>3 DEF LeaveTransfer, RoomTypeOK
    <3>2. memberRow'[s][u].role = "none"
      BY <1>6, <1>t, <2>1, <2>3 DEF LeaveTransfer, RoomTypeOK, NoRow
    <3>3. memberRow'[s][v].role = "owner"
      <4>1. memberRow[s][v] \in Row
        BY <1>t DEF RoomTypeOK
      <4>2. memberRow'[s][v] = [memberRow[s][v] EXCEPT !.role = "owner"]
        BY <1>6, <1>t, <2>1, <2>3 DEF LeaveTransfer, RoomTypeOK
      <4> QED
        BY <4>1, <4>2 DEF Row
    <3> QED
      BY <1>s, <2>1, <2>2, <2>3, <3>1, <3>2, <3>3
  <2>4. CASE s # r
    BY <1>6, <1>s, <1>t, <2>2, <2>4 DEF LeaveTransfer, RoomTypeOK
  <2> QED
    BY <2>3, <2>4
<1>7. ASSUME NEW u \in Users, NEW v \in Users, NEW r \in Rooms, KickMember(u, r, v)
      PROVE  /\ UNCHANGED <<status, owner>>
             /\ \A x \in Users : \/ memberRow'[s][x] = memberRow[s][x]
                                 \/ /\ x # owner[s]
                                    /\ memberRow'[s][x].role = "none"
  BY <1>7, <1>t DEF KickMember, IsOwner, RoomTypeOK, NoRow
<1>8. ASSUME \/ \E u \in Users, r \in Rooms : LockExpires(r, u)
             \/ Tick \/ RoomCrash \/ UNCHANGED roomVars
      PROVE  UNCHANGED <<status, owner, memberRow>>
  BY <1>8 DEF LockExpires, Tick, RoomCrash, roomVars
<1> QED
  BY <1>s, <1>1, <1>2, <1>3, <1>4, <1>5, <1>6, <1>7, <1>8 DEF RoomNext

LEMMA WithinCapacityStep == SeatInv /\ [RoomNext]_roomVars => WithinCapacity'
<1> SUFFICES ASSUME SeatInv, [RoomNext]_roomVars, NEW s \in Rooms
             PROVE  \/ Cardinality(Members(s)') <= maxMembers'[s]
                    \/ Cardinality(Members(s)') <= 1
  BY DEF WithinCapacity
<1> USE DEF roomTables
<1>t. RoomTypeOK
  BY DEF SeatInv
<1>c. /\ IsFiniteSet(Members(s)) /\ Cardinality(Members(s)) \in Nat
      /\ \/ Cardinality(Members(s)) <= maxMembers[s]
         \/ Cardinality(Members(s)) <= 1
  BY MembersFinite DEF SeatInv, WithinCapacity
<1>m. maxMembers[s] \in Int
  BY <1>t DEF RoomTypeOK
<1>1. ASSUME Members(s)' \subseteq Members(s), maxMembers'[s] = maxMembers[s]
      PROVE  \/ Cardinality(Members(s)') <= maxMembers'[s]
             \/ Cardinality(Members(s)') <= 1
  <2>1. Cardinality(Members(s)') <= Cardinality(Members(s)) /\ Cardinality(Members(s)') \in Nat
    BY <1>1, <1>c, FS_Subset, FS_CardinalityType
  <2> QED
    BY <1>1, <1>c, <1>m, <2>1
<1>2. ASSUME NEW u \in Users, NEW r \in Rooms, NEW p \in Passwords,
             NEW max \in MaxMembersArgs, CreateRoom(u, r, p, max), s = r
      PROVE  Cardinality(Members(s)') <= 1
  <2>1. \A v \in Users : memberRow[s][v].role = "none"
    BY <1>2 DEF SeatInv, FreshRooms, CreateRoom
  <2>2. \A v \in Users : memberRow'[s][v] =
          IF v = u THEN [role |-> "owner", at |-> now] ELSE memberRow[s][v]
    BY <1>2, <1>t DEF CreateRoom, RoomTypeOK
  <2>3. Members(s)' = {u}
    BY <2>1, <2>2 DEF Members, IsMember
  <2> QED
    BY <2>3, FS_Singleton
<1>3. ASSUME NEW q \in Reqs, JoinAdmit(q) \/ JoinAdmitCrash(q)
      PROVE  \/ Cardinality(Members(s)') <= maxMembers'[s]
             \/ Cardinality(Members(s)') <= 1
  <2> DEFINE r == reqs[q].room
             u == reqs[q].user
  <2>1. r \in Rooms /\ u \in Users
    BY <1>3, <1>t, RequestKinds DEF JoinAdmit, JoinAdmitCrash, PasswordAccepted, JoinRequest
  <2>2. InsertMember(r, u) /\ ~RoomFull(r) /\ maxMembers' = maxMembers
    BY <1>3 DEF JoinAdmit, JoinAdmitCrash
  <2> HIDE DEF r, u
  <2>3. Members(s)' \subseteq Members(s) \/ (s = r /\ Members(s)' \subseteq Members(s) \cup {u})
    BY <1>t, <2>1, <2>2, InsertedRows DEF Members, IsMember
  <2>4. CASE Members(s)' \subseteq Members(s)
    BY <1>1, <2>2, <2>4
  <2>5. CASE s = r /\ Members(s)' \subseteq Members(s) \cup {u}
    <3>1. Cardinality(Members(s)) < maxMembers[s]
      BY <1>c, <1>m, <2>2, <2>5 DEF RoomFull
    <3>2. /\ IsFiniteSet(Members(s) \cup {u})
          /\ Cardinality(Members(s) \cup {u}) <= Cardinality(Members(s)) + 1
      BY <1>c, FS_AddElement
    <3>3. Cardinality(Members(s)') <= Cardinality(Members(s) \cup {u})
      BY <2>5, <3>2, FS_Subset
    <3>4. Cardinality(Members(s)') \in Nat /\ Cardinality(Members(s) \cup {u}) \in Nat
      BY <2>5, <3>2, FS_Subset, FS_CardinalityType
    <3> QED
      BY <1>c, <1>m, <2>2, <3>1, <3>2, <3>3, <3>4
  <2> QED
    BY <2>3, <2>4, <2>5
<1>4. ASSUME NEW u \in Users, NEW r \in Rooms, NEW p \in Passwords,
             NEW max \in MaxMembersArgs, CreateRoom(u, r, p, max), s # r
      PROVE  Members(s)' = Members(s) /\ maxMembers'[s] = maxMembers[s]
  BY <1>4, <1>t DEF CreateRoom, Members, IsMember, RoomTypeOK
<1>5. ASSUME NEW q \in Reqs,
             \/ \E u \in Users, r \in Rooms, p \in Passwords :
                   JoinBegin(q, u, r, p) \/ SetPasswordBegin(q, u, r, p)
             \/ JoinFail(q) \/ JoinFull(q) \/ SetPasswordCommit(q)
      PROVE  UNCHANGED <<maxMembers, memberRow>>
  BY <1>5 DEF JoinBegin, SetPasswordBegin, JoinFail, JoinFull, SetPasswordCommit
<1>6. ASSUME NEW u \in Users, NEW r \in Rooms,
             \/ LeaveAsMember(u, r) \/ LeaveDelete(u, r) \/ LeaveDeleteCrash(u, r)
             \/ DeleteRoom(u, r)
      PROVE  Members(s)' \subseteq Members(s) /\ maxMembers' = maxMembers
  <2>1. NoRow.role = "none"
    BY DEF NoRow
  <2>2. \A x \in Users : memberRow'[s][x] = memberRow[s][x] \/ memberRow'[s][x] = NoRow
    <3>1. CASE LeaveAsMember(u, r)
      BY <1>t, <3>1 DEF LeaveAsMember, RoomTypeOK
    <3>2. CASE LeaveDelete(u, r) \/ DeleteRoom(u, r)
      BY <1>t, <3>2, DroppedRows DEF LeaveDelete, DeleteRoom
    <3>3. CASE LeaveDeleteCrash(u, r)
      BY <3>3 DEF LeaveDeleteCrash
    <3> QED
      BY <1>6, <3>1, <3>2, <3>3
  <2>3. maxMembers' = maxMembers
    BY <1>6 DEF LeaveAsMember, LeaveDelete, LeaveDeleteCrash, DeleteRoom
  <2> QED
    BY <2>1, <2>2, <2>3 DEF Members, IsMember
<1>7. ASSUME NEW u \in Users, NEW v \in Users, NEW r \in Rooms,
             LeaveTransfer(u, r, v) \/ KickMember(u, r, v)
      PROVE  Members(s)' \subseteq Members(s) /\ maxMembers' = maxMembers
  <2>1. NoRow.role = "none"
    BY DEF NoRow
  <2>2. CASE KickMember(u, r, v)
    BY <1>t, <2>1, <2>2 DEF KickMember, Members, IsMember, RoomTypeOK
  <2>3. CASE LeaveTransfer(u, r, v)
    <3>1. \A x \in Users : x # v => \/ memberRow'[s][x] = memberRow[s][x]
                                    \/ memberRow'[s][x] = NoRow
      BY <1>t, <2>3 DEF LeaveTransfer, RoomTypeOK
    <3>2. s # r => memberRow'[s] = memberRow[s]
      BY <1>t, <2>3 DEF LeaveTransfer, RoomTypeOK
    <3>3. v \in Members(r) /\ maxMembers' = maxMembers
      BY <2>3 DEF LeaveTransfer
    <3> QED
      BY <2>1, <3>1, <3>2, <3>3 DEF Members, IsMember
  <2> QED
    BY <1>7, <2>2, <2>3
<1>8. ASSUME \/ \E u \in Users, r \in Rooms : LockExpires(r, u)
             \/ Tick \/ RoomCrash \/ UNCHANGED roomVars
      PROVE  UNCHANGED <<maxMembers, memberRow>>
  BY <1>8 DEF LockExpires, Tick, RoomCrash, roomVars
<1>9. UNCHANGED <<maxMembers, memberRow>> => Members(s)' = Members(s) /\ maxMembers'[s] = maxMembers[s]
  BY DEF Members, IsMember
<1> QED
  BY <1>1, <1>2, <1>3, <1>4, <1>5, <1>6, <1>7, <1>8, <1>9 DEF RoomNext

LEMMA SeatInvariant == RoomSpec => []SeatInv
<1>1. RoomInit => SeatInv
  <2>1. RoomInit => FreshRooms /\ OwnerSeated
    BY DEF RoomInit, FreshRooms, OwnerSeated, NoRow, Idle
  <2>2. RoomInit => \A r \in Rooms : Members(r) = {}
    BY DEF RoomInit, Members, IsMember, NoRow
  <2>3. RoomInit => WithinCapacity
    BY <2>2, FS_EmptySet DEF WithinCapacity
  <2> QED
    BY <2>1, <2>3, TypeInit DEF SeatInv
<1>2. SeatInv /\ [RoomNext]_roomVars => SeatInv'
  BY TypeStep, FreshRoomsStep, OwnerSeatedStep, WithinCapacityStep DEF SeatInv
<1> QED
  BY <1>1, <1>2, PTL DEF RoomSpec

\* A live room always has exactly one owner row, the one of rooms.owner_id,
\* through every interleaving of joins, kicks, transfers and crashes.
THEOREM OwnershipHolds == RoomSpec => []OwnerSeated
<1>1. SeatInv => OwnerSeated
  BY DEF SeatInv
<1> QED
  BY <1>1, SeatInvariant, PTL

\* joinRoom never seats a user beyond max_members, although it reads the number
\* of members after an await: no other request runs between count and insert.
THEOREM CapacityHolds == RoomSpec => []WithinCapacity
<1>1. SeatInv => WithinCapacity
  BY DEF SeatInv
<1> QED
  BY <1>1, SeatInvariant, PTL

-------------------------------------------------------------------------------
(***************************************************************************)
(* What a step may do to a row.  The three action properties follow from   *)
(* one description of how each action changes the row of one user in one   *)
(* room.                                                                   *)
(***************************************************************************)
RowStep(s, v) ==
    \/ memberRow'[s][v] = memberRow[s][v]
    \/ memberRow'[s][v] = NoRow
    \/ status[s] = "absent" /\ status'[s] = "live"
    \/ ~IsMember(s, v) /\ JoinsInFlight(s, v) # {}
    \/ /\ status[s] = "live" /\ IsMember(s, v) /\ owner'[s] = v
       /\ memberRow'[s][v] = [role |-> "owner", at |-> memberRow[s][v].at]
       /\ memberRow'[s][owner[s]].role = "none"

LEMMA RowSteps ==
    ASSUME SeatInv, [RoomNext]_roomVars, NEW s \in Rooms, NEW v \in Users
    PROVE  RowStep(s, v)
<1> USE DEF roomTables
<1>t. RoomTypeOK
  BY DEF SeatInv
<1>1. ASSUME NEW u \in Users, NEW r \in Rooms, NEW p \in Passwords,
             NEW max \in MaxMembersArgs, CreateRoom(u, r, p, max)
      PROVE  RowStep(s, v)
  BY <1>1, <1>t DEF CreateRoom, RoomTypeOK, RowStep
<1>2. ASSUME NEW q \in Reqs, JoinAdmit(q) \/ JoinAdmitCrash(q)
      PROVE  RowStep(s, v)
  <2>1. reqs[q].op = "join" /\ reqs[q].room \in Rooms /\ reqs[q].user \in Users
    BY <1>2, <1>t, RequestKinds DEF JoinAdmit, JoinAdmitCrash, PasswordAccepted, JoinRequest
  <2>2. q \in JoinsInFlight(reqs[q].room, reqs[q].user)
    BY <2>1 DEF JoinsInFlight
  <2> QED
    BY <1>2, <1>t, <2>1, <2>2, InsertedRows DEF JoinAdmit, JoinAdmitCrash, RowStep, IsMember
<1>3. ASSUME NEW u \in Users, NEW r \in Rooms, LeaveAsMember(u, r)
      PROVE  RowStep(s, v)
  BY <1>3, <1>t DEF LeaveAsMember, RoomTypeOK, RowStep
<1>4. ASSUME NEW u \in Users, NEW r \in Rooms, LeaveDelete(u, r) \/ DeleteRoom(u, r)
      PROVE  RowStep(s, v)
  BY <1>4, <1>t, DroppedRows DEF LeaveDelete, DeleteRoom, RowStep
<1>5. ASSUME NEW u \in Users, NEW w \in Users, NEW r \in Rooms, KickMember(u, r, w)
      PROVE  RowStep(s, v)
  BY <1>5, <1>t DEF KickMember, RoomTypeOK, RowStep
<1>6. ASSUME NEW u \in Users, NEW w \in Users, NEW r \in Rooms, LeaveTransfer(u, r, w)
      PROVE  RowStep(s, v)
  <2>1. u # w /\ IsMember(r, w) /\ owner[r] = u /\ status[r] = "live"
    BY <1>6 DEF LeaveTransfer, Members, IsOwner, RoomExists
  <2>2. CASE s = r /\ v = w
    <3>0. memberRow[s][v] \in Row
      BY <1>t DEF RoomTypeOK
    <3>1. /\ memberRow'[s][v] = [role |-> "owner", at |-> memberRow[s][v].at]
          /\ owner'[s] = v
      BY <1>6, <1>t, <2>1, <2>2, <3>0 DEF LeaveTransfer, RoomTypeOK, Row
    <3>2. memberRow'[s][u].role = "none"
      BY <1>6, <1>t, <2>1, <2>2 DEF LeaveTransfer, RoomTypeOK, NoRow
    <3> QED
      BY <2>1, <2>2, <3>1, <3>2 DEF RowStep
  <2>3. CASE ~(s = r /\ v = w)
    BY <1>6, <1>t, <2>3 DEF LeaveTransfer, RoomTypeOK, RowStep
  <2> QED
    BY <2>2, <2>3
<1> QED
  BY <1>1, <1>2, <1>3, <1>4, <1>5, <1>6
     DEF RoomNext, RowStep, JoinBegin, SetPasswordBegin, JoinFail, JoinFull,
         SetPasswordCommit, LeaveDeleteCrash, LockExpires, Tick, RoomCrash, roomVars

\* No join starts for a banned user or in a deleted room, bans stay, and a
\* deleted room stays deleted.
LEMMA DoorsStayShut ==
    ASSUME SeatInv, [RoomNext]_roomVars, NEW s \in Rooms, NEW v \in Users
    PROVE  /\ banned[s] \subseteq banned'[s]
           /\ status[s] = "deleted" => status'[s] = "deleted"
           /\ v \in banned[s] \/ status[s] = "deleted"
                => JoinsInFlight(s, v)' \subseteq JoinsInFlight(s, v)
<1> USE DEF roomTables
<1>t. RoomTypeOK
  BY DEF SeatInv
<1>i. Idle.op # "join"
  BY DEF Idle
<1>1. banned[s] \subseteq banned'[s]
  <2>1. ASSUME NEW u \in Users, NEW w \in Users, NEW r \in Rooms, KickMember(u, r, w)
        PROVE  banned[s] \subseteq banned'[s]
    BY <2>1, <1>t DEF KickMember, RoomTypeOK
  <2> QED
    BY <2>1, ZenonT(30) DEF RoomNext, CreateRoom, JoinBegin, SetPasswordBegin, JoinFail, JoinFull, JoinAdmit,
         JoinAdmitCrash, SetPasswordCommit, LeaveAsMember, LeaveDelete, LeaveDeleteCrash,
         DeleteRoom, LockExpires, LeaveTransfer, Tick, RoomCrash, roomVars
<1>2. ASSUME status[s] = "deleted"
      PROVE  status'[s] = "deleted"
  <2>1. ASSUME NEW u \in Users, NEW r \in Rooms,
               \/ \E p \in Passwords, max \in MaxMembersArgs : CreateRoom(u, r, p, max)
               \/ LeaveDelete(u, r) \/ LeaveDeleteCrash(u, r) \/ DeleteRoom(u, r)
        PROVE  status'[s] = "deleted"
    BY <1>2, <1>t, <2>1 DEF CreateRoom, LeaveDelete, LeaveDeleteCrash, DeleteRoom, RoomTypeOK
  <2> QED
    BY <1>2, <2>1, ZenonT(30) DEF RoomNext, JoinBegin, SetPasswordBegin, JoinFail, JoinFull, JoinAdmit,
         JoinAdmitCrash, SetPasswordCommit, LeaveAsMember, KickMember,
         LockExpires, LeaveTransfer, Tick, RoomCrash, roomVars
<1>3. ASSUME v \in banned[s] \/ status[s] = "deleted"
      PROVE  JoinsInFlight(s, v)' \subseteq JoinsInFlight(s, v)
  <2>1. ASSUME NEW q \in Reqs, NEW u \in Users, NEW r \in Rooms, NEW p \in Passwords,
               JoinBegin(q, u, r, p) \/ SetPasswordBegin(q, u, r, p)
        PROVE  \A x \in Reqs : \/ reqs'[x] = reqs[x]
                               \/ reqs'[x].op # "join" \/ reqs'[x].user # v \/ reqs'[x].room # s
    BY <1>3, <1>t, <2>1 DEF JoinBegin, SetPasswordBegin, IsBanned, RoomExists, RoomTypeOK
  <2>2. ASSUME NEW q \in Reqs,
               \/ JoinFail(q) \/ JoinFull(q) \/ JoinAdmit(q) \/ JoinAdmitCrash(q)
               \/ SetPasswordCommit(q)
        PROVE  \A x \in Reqs : reqs'[x] = reqs[x] \/ reqs'[x] = Idle
    BY <1>t, <2>2, Released DEF JoinFail, JoinFull, JoinAdmit, JoinAdmitCrash, SetPasswordCommit
  <2>3. ASSUME NEW u \in Users, NEW r \in Rooms, LeaveDeleteCrash(u, r) \/ RoomCrash
        PROVE  \A x \in Reqs : reqs'[x] = Idle
    BY <1>t, <2>3, Released DEF LeaveDeleteCrash, RoomCrash
  <2>4. \A x \in Reqs : \/ reqs'[x] = reqs[x]
                        \/ reqs'[x].op # "join" \/ reqs'[x].user # v \/ reqs'[x].room # s
    <3>1. CASE RoomCrash
      BY <1>i, <1>t, <3>1, Released DEF RoomCrash
    <3> QED
      BY <1>i, <2>1, <2>2, <2>3, <3>1
         DEF RoomNext, CreateRoom, LeaveAsMember, LeaveDelete, DeleteRoom, LockExpires,
             LeaveTransfer, KickMember, Tick, roomVars
  <2> QED
    BY <1>3, <2>4 DEF JoinsInFlight
<1> QED
  BY <1>1, <1>2, <1>3

\* Once the joins that were suspended at his ban are over, a banned user stays
\* out for good.
THEOREM BansHold == RoomSpec => BanIsFinal
<1>1. ASSUME SeatInv, [RoomNext]_roomVars, NEW r \in Rooms, NEW u \in Users,
             u \in banned[r], ~IsMember(r, u), JoinsInFlight(r, u) = {}
      PROVE  u \in banned'[r] /\ ~IsMember(r, u)' /\ JoinsInFlight(r, u)' = {}
  <2>1. status[r] # "absent"
    BY <1>1 DEF SeatInv, FreshRooms
  <2>2. RowStep(r, u)
    BY <1>1, RowSteps
  <2> QED
    BY <1>1, <2>1, <2>2, DoorsStayShut DEF RowStep, IsMember, NoRow
<1>2. SeatInv /\ [RoomNext]_roomVars =>
        [\A r \in Rooms, u \in Users :
           u \in banned[r] /\ ~IsMember(r, u) /\ JoinsInFlight(r, u) = {}
             => u \in banned'[r] /\ ~IsMember(r, u)' /\ JoinsInFlight(r, u)' = {}]_roomVars
  BY <1>1
<1> QED
  BY <1>2, SeatInvariant, PTL DEF RoomSpec, BanIsFinal

\* A deleted room stays deleted, no join of it begins, and only one that was
\* suspended at its deletion can still enter it.
THEOREM DeletionHolds == RoomSpec => DeletionIsFinal
<1>1. ASSUME SeatInv, [RoomNext]_roomVars, NEW r \in Rooms, status[r] = "deleted",
             NEW u \in Users, IsMember(r, u)'
      PROVE  IsMember(r, u) \/ JoinsInFlight(r, u) # {}
  <2>1. RowStep(r, u)
    BY <1>1, RowSteps
  <2> QED
    BY <1>1, <2>1 DEF RowStep, IsMember, NoRow
<1>2. ASSUME SeatInv, [RoomNext]_roomVars, NEW r \in Rooms, status[r] = "deleted"
      PROVE  status'[r] = "deleted"
  <2>1. CASE Users = {}
    BY <1>2, <2>1 DEF RoomNext, roomVars, roomTables, JoinFail, JoinFull, JoinAdmit,
       JoinAdmitCrash, SetPasswordCommit, Tick, RoomCrash
  <2> QED
    BY <1>2, <2>1, DoorsStayShut
<1>3. ASSUME SeatInv, [RoomNext]_roomVars, NEW r \in Rooms, status[r] = "deleted",
             NEW u \in Users
      PROVE  JoinsInFlight(r, u)' \subseteq JoinsInFlight(r, u)
  BY <1>3, DoorsStayShut
<1>4. SeatInv /\ [RoomNext]_roomVars =>
        [\A r \in Rooms : status[r] = "deleted" =>
          /\ status'[r] = "deleted"
          /\ \A u \in Users :
                /\ JoinsInFlight(r, u)' \subseteq JoinsInFlight(r, u)
                /\ IsMember(r, u)' => IsMember(r, u) \/ JoinsInFlight(r, u) # {}]_roomVars
  BY <1>1, <1>2, <1>3
<1> QED
  BY <1>4, SeatInvariant, PTL DEF RoomSpec, DeletionIsFinal

\* A member's row changes only when he inherits the room from an owner who
\* leaves it: a second join that was in flight cannot demote or rejuvenate him.
THEOREM SeniorityHolds == RoomSpec => SeniorityKept
<1>1. ASSUME SeatInv, [RoomNext]_roomVars, NEW r \in Rooms, NEW u \in Users,
             IsMember(r, u), IsMember(r, u)'
      PROVE  \/ memberRow'[r][u] = memberRow[r][u]
             \/ /\ memberRow'[r][u] = [memberRow[r][u] EXCEPT !.role = "owner"]
                /\ owner'[r] = u
                /\ memberRow'[r][owner[r]].role = "none"
  <2>1. status[r] # "absent"
    BY <1>1 DEF SeatInv, FreshRooms, IsMember
  <2>2. RowStep(r, u) /\ memberRow[r][u] \in Row
    BY <1>1, RowSteps DEF SeatInv, RoomTypeOK
  <2>3. [memberRow[r][u] EXCEPT !.role = "owner"] = [role |-> "owner", at |-> memberRow[r][u].at]
    BY <2>2 DEF Row
  <2> QED
    BY <1>1, <2>1, <2>2, <2>3 DEF RowStep, IsMember, NoRow
<1>2. SeatInv /\ [RoomNext]_roomVars =>
        [\A r \in Rooms, u \in Users :
          IsMember(r, u) /\ IsMember(r, u)' =>
              \/ memberRow'[r][u] = memberRow[r][u]
              \/ /\ memberRow'[r][u] = [memberRow[r][u] EXCEPT !.role = "owner"]
                 /\ owner'[r] = u
                 /\ memberRow'[r][owner[r]].role = "none"]_roomVars
  BY <1>1
<1> QED
  BY <1>2, SeatInvariant, PTL DEF RoomSpec, SeniorityKept

-------------------------------------------------------------------------------
(***************************************************************************)
(* GuessBound is not inductive: once a row is locked, each join that was   *)
(* suspended before may still fail and count.  So the failures and the     *)
(* joins in flight are bounded together while the lock holds.              *)
(***************************************************************************)
GuessLimit == FailThreshold - 1 + Cardinality(Reqs)

GuessesBounded(r, u) ==
    LET a == attempts[r][u]
    IN  /\ a.lock = "none" => a.fails < FailThreshold
        /\ a.lock = "locked" => a.fails + Cardinality(JoinsInFlight(r, u)) <= GuessLimit
        /\ a.lock = "expired" => a.fails <= GuessLimit

LockInv == RoomTypeOK /\ \A r \in Rooms, u \in Users : GuessesBounded(r, u)

LEMMA FlightFinite ==
    \A r \in Rooms, u \in Users :
        /\ JoinsInFlight(r, u) \subseteq Reqs
        /\ IsFiniteSet(JoinsInFlight(r, u))
        /\ Cardinality(JoinsInFlight(r, u)) \in Nat
<1> SUFFICES ASSUME NEW r \in Rooms, NEW u \in Users
             PROVE  /\ JoinsInFlight(r, u) \subseteq Reqs
                    /\ IsFiniteSet(JoinsInFlight(r, u))
                    /\ Cardinality(JoinsInFlight(r, u)) \in Nat
  OBVIOUS
<1>1. JoinsInFlight(r, u) \subseteq Reqs
  BY DEF JoinsInFlight
<1> QED
  BY <1>1, ReqsAssumption, FS_Subset, FS_CardinalityType

\* A row stays within its bound while it does not change and no join begins.
LEMMA BoundKept ==
    ASSUME RoomTypeOK, NEW r \in Rooms, NEW u \in Users, GuessesBounded(r, u),
           attempts'[r][u] = attempts[r][u],
           \/ attempts[r][u].lock # "locked"
           \/ JoinsInFlight(r, u)' \subseteq JoinsInFlight(r, u)
    PROVE  GuessesBounded(r, u)'
<1>1. CASE attempts[r][u].lock # "locked"
  BY <1>1 DEF GuessesBounded, GuessLimit
<1>2. CASE JoinsInFlight(r, u)' \subseteq JoinsInFlight(r, u)
  <2>1. /\ Cardinality(JoinsInFlight(r, u)') <= Cardinality(JoinsInFlight(r, u))
        /\ Cardinality(JoinsInFlight(r, u)') \in Nat
    BY <1>2, FlightFinite, FS_Subset, FS_CardinalityType
  <2>2. attempts[r][u].fails \in Nat /\ Cardinality(JoinsInFlight(r, u)) \in Nat
    BY FlightFinite DEF RoomTypeOK, Attempt
  <2>3. GuessLimit \in Int
    BY ThresholdAssumption, ReqsAssumption, FS_CardinalityType DEF GuessLimit
  <2> DEFINE before == Cardinality(JoinsInFlight(r, u))
             after  == Cardinality(JoinsInFlight(r, u)')
             fails  == attempts[r][u].fails
  <2>4. fails + before <= GuessLimit => fails + after <= GuessLimit
    <3> HIDE DEF before, after, fails
    <3> QED
      BY <2>1, <2>2, <2>3 DEF before, after, fails
  <2> QED
    BY <2>4 DEF GuessesBounded, GuessLimit
<1> QED
  BY <1>1, <1>2

\* A failure that is counted takes its join out of flight.
LEMMA FailureCounted ==
    ASSUME LockInv, NEW q \in Reqs, JoinFail(q)
    PROVE  LockInv'
<1>t. RoomTypeOK
  BY DEF LockInv
<1>0. reqs[q] \in JoinRequest /\ reqs[q].op = "join"
  BY <1>t, RequestKinds DEF JoinFail
<1>1. PICK r \in Rooms, u \in Users : r = reqs[q].room /\ u = reqs[q].user
  BY <1>0 DEF JoinRequest
<1> DEFINE a == attempts[r][u]
<1>2. /\ \A s \in Rooms, v \in Users :
            attempts'[s][v] = IF s = r /\ v = u THEN AfterFailure(a) ELSE attempts[s][v]
      /\ \A s \in Rooms, v \in Users :
            JoinsInFlight(s, v)' = JoinsInFlight(s, v) \ {q}
  BY <1>t, <1>1 DEF JoinFail, RoomTypeOK, Release, Idle, JoinsInFlight
<1>3. GuessesBounded(r, u)'
  <2> DEFINE before == Cardinality(JoinsInFlight(r, u))
             after  == Cardinality(JoinsInFlight(r, u)')
             next   == IF a.lock = "expired" THEN 1 ELSE a.fails + 1
  <2>1. a \in Attempt /\ a.fails \in Nat /\ a.lock \in {"none", "locked", "expired"}
    BY <1>t, <1>1 DEF RoomTypeOK, Attempt
  <2>2. after = before - 1 /\ before \in Nat
    <3>1. q \in JoinsInFlight(r, u)
      BY <1>0, <1>1 DEF JoinsInFlight
    <3> QED
      BY <1>1, <1>2, <3>1, FlightFinite, FS_RemoveElement
  <2>3. after <= Cardinality(Reqs) - 1 /\ after \in Nat /\ Cardinality(Reqs) \in Nat
    <3>1. JoinsInFlight(r, u)' \subseteq Reqs \ {q}
      BY <1>1, <1>2, FlightFinite
    <3>2. IsFiniteSet(Reqs \ {q}) /\ Cardinality(Reqs \ {q}) = Cardinality(Reqs) - 1
      BY ReqsAssumption, FS_RemoveElement
    <3> QED
      BY <3>1, <3>2, ReqsAssumption, FS_Subset, FS_CardinalityType
  <2>4. /\ attempts'[r][u].fails = next
        /\ attempts'[r][u].lock = IF next >= FailThreshold THEN "locked" ELSE "none"
    BY <1>1, <1>2 DEF AfterFailure
  <2>5. /\ a.lock = "none" => a.fails < FailThreshold
        /\ a.lock = "locked" => a.fails + before <= FailThreshold - 1 + Cardinality(Reqs)
    BY <1>1 DEF LockInv, GuessesBounded, GuessLimit
  <2>6. /\ next < FailThreshold => attempts'[r][u].lock = "none"
        /\ next >= FailThreshold => attempts'[r][u].lock = "locked"
        /\ next \in Nat
    BY <2>1, <2>4, ThresholdAssumption
  <2>7. next >= FailThreshold => next + after <= FailThreshold - 1 + Cardinality(Reqs)
    <3>1. \A x, y, z, f \in Nat, t \in Nat \ {0} :
            /\ y <= z - 1 /\ x < t => (x + 1) + y <= t - 1 + z
            /\ f + x <= t - 1 + z /\ y = x - 1 => (f + 1) + y <= t - 1 + z
            /\ y <= z - 1 /\ 1 >= t => 1 + y <= t - 1 + z
      OBVIOUS
    <3> HIDE DEF before, after, a
    <3>2. CASE a.lock = "none"
      BY <2>1, <2>3, <2>5, <3>1, <3>2, ThresholdAssumption
    <3>3. CASE a.lock = "locked"
      BY <2>1, <2>2, <2>3, <2>5, <3>1, <3>3, ThresholdAssumption
    <3>4. CASE a.lock = "expired"
      BY <2>3, <3>1, <3>4, ThresholdAssumption
    <3> QED
      BY <2>1, <3>2, <3>3, <3>4
  <2> QED
    BY <2>4, <2>6, <2>7, ThresholdAssumption DEF GuessesBounded, GuessLimit
<1>4. ASSUME NEW s \in Rooms, NEW v \in Users, ~(s = r /\ v = u)
      PROVE  GuessesBounded(s, v)'
  BY <1>2, <1>4, <1>t, BoundKept DEF LockInv
<1>5. RoomTypeOK'
  BY <1>t, TypeStep DEF RoomNext
<1> QED
  BY <1>3, <1>4, <1>5 DEF LockInv

LEMMA FlightShrinks ==
    ASSUME RoomTypeOK,
           \A q \in Reqs : reqs'[q] = reqs[q] \/ reqs'[q].op # "join"
    PROVE  \A r \in Rooms, u \in Users : JoinsInFlight(r, u)' \subseteq JoinsInFlight(r, u)
BY DEF JoinsInFlight

LEMMA LockStep == LockInv /\ [RoomNext]_roomVars => LockInv'
<1> SUFFICES ASSUME LockInv, [RoomNext]_roomVars
             PROVE  LockInv'
  OBVIOUS
<1>t. RoomTypeOK /\ RoomTypeOK'
  BY TypeStep DEF LockInv
<1>i. Idle.op # "join"
  BY DEF Idle
<1>g. \A s \in Rooms, v \in Users : GuessesBounded(s, v)
  BY DEF LockInv
<1> USE DEF roomTables
<1>1. ASSUME NEW q \in Reqs, NEW u \in Users, NEW r \in Rooms, NEW p \in Passwords,
             JoinBegin(q, u, r, p)
      PROVE  LockInv'
  <2>1. attempts' = attempts /\ attempts[r][u].lock # "locked"
    BY <1>1 DEF JoinBegin
  <2>2. \A s \in Rooms, v \in Users : ~(s = r /\ v = u) =>
          JoinsInFlight(s, v)' \subseteq JoinsInFlight(s, v)
    BY <1>1, <1>t DEF JoinBegin, JoinsInFlight, RoomTypeOK
  <2>3. ASSUME NEW s \in Rooms, NEW v \in Users
        PROVE  GuessesBounded(s, v)'
    BY <1>t, <1>g, <2>1, <2>2, BoundKept
  <2> QED
    BY <1>t, <2>3 DEF LockInv
<1>2. ASSUME attempts' = attempts,
             \A q \in Reqs : reqs'[q] = reqs[q] \/ reqs'[q].op # "join"
      PROVE  LockInv'
  <2>1. ASSUME NEW s \in Rooms, NEW v \in Users
        PROVE  GuessesBounded(s, v)'
    BY <1>t, <1>g, <1>2, FlightShrinks, BoundKept
  <2> QED
    BY <1>t, <2>1 DEF LockInv
<1>3. ASSUME NEW q \in Reqs, JoinAdmit(q)
      PROVE  LockInv'
  <2>0. reqs[q] \in JoinRequest
    BY <1>3, <1>t, RequestKinds DEF JoinAdmit, PasswordAccepted
  <2>1. PICK r \in Rooms, u \in Users : r = reqs[q].room /\ u = reqs[q].user
    BY <2>0 DEF JoinRequest
  <2>2. \A s \in Rooms, v \in Users :
          attempts'[s][v] = IF s = r /\ v = u THEN NoAttempt ELSE attempts[s][v]
    BY <1>3, <1>t, <2>1 DEF JoinAdmit, RoomTypeOK
  <2>3. \A s \in Rooms, v \in Users : JoinsInFlight(s, v)' \subseteq JoinsInFlight(s, v)
    BY <1>3, <1>t, <1>i, Released, FlightShrinks DEF JoinAdmit
  <2>4. GuessesBounded(r, u)'
    BY <2>2, ThresholdAssumption DEF GuessesBounded, NoAttempt
  <2>5. ASSUME NEW s \in Rooms, NEW v \in Users, ~(s = r /\ v = u)
        PROVE  GuessesBounded(s, v)'
    BY <1>t, <1>g, <2>2, <2>3, <2>5, BoundKept
  <2> QED
    BY <1>t, <2>4, <2>5 DEF LockInv
<1>4. ASSUME NEW u \in Users, NEW r \in Rooms, LockExpires(r, u)
      PROVE  LockInv'
  <2>1. /\ attempts'[r][u].lock = "expired" /\ attempts'[r][u].fails = attempts[r][u].fails
        /\ attempts[r][u].lock = "locked" /\ attempts[r][u].fails \in Nat
        /\ \A s \in Rooms, v \in Users :
              ~(s = r /\ v = u) => attempts'[s][v] = attempts[s][v]
    <3>1. attempts[r][u] \in Attempt
      BY <1>t DEF RoomTypeOK
    <3>2. attempts'[r][u] = [attempts[r][u] EXCEPT !.lock = "expired"]
      BY <1>4, <1>t DEF LockExpires, RoomTypeOK
    <3> QED
      BY <1>4, <1>t, <3>1, <3>2 DEF LockExpires, RoomTypeOK, Attempt
  <2>2. \A s \in Rooms, v \in Users : JoinsInFlight(s, v)' \subseteq JoinsInFlight(s, v)
    BY <1>4, <1>t, FlightShrinks DEF LockExpires
  <2>3. GuessesBounded(r, u)'
    <3>1. attempts[r][u].fails + Cardinality(JoinsInFlight(r, u)) <= GuessLimit
      BY <1>g, <2>1 DEF GuessesBounded
    <3>2. GuessLimit \in Int /\ Cardinality(JoinsInFlight(r, u)) \in Nat
      BY ThresholdAssumption, ReqsAssumption, FS_CardinalityType, FlightFinite DEF GuessLimit
    <3>3. attempts[r][u].fails <= GuessLimit
      BY <2>1, <3>1, <3>2
    <3> QED
      BY <2>1, <3>3 DEF GuessesBounded, GuessLimit
  <2>4. ASSUME NEW s \in Rooms, NEW v \in Users, ~(s = r /\ v = u)
        PROVE  GuessesBounded(s, v)'
    BY <1>t, <1>g, <2>1, <2>2, <2>4, BoundKept
  <2> QED
    BY <1>t, <2>3, <2>4 DEF LockInv
<1>5. ASSUME NEW q \in Reqs, NEW u \in Users, NEW r \in Rooms, NEW p \in Passwords,
             SetPasswordBegin(q, u, r, p)
      PROVE  LockInv'
  BY <1>5, <1>t, <1>2 DEF SetPasswordBegin, RoomTypeOK
<1>6. ASSUME NEW q \in Reqs, JoinFull(q) \/ JoinAdmitCrash(q) \/ SetPasswordCommit(q)
      PROVE  LockInv'
  BY <1>6, <1>t, <1>i, <1>2, Released DEF JoinFull, JoinAdmitCrash, SetPasswordCommit
<1>7. ASSUME NEW u \in Users, NEW r \in Rooms,
             \/ LeaveAsMember(u, r) \/ LeaveDelete(u, r) \/ LeaveDeleteCrash(u, r)
             \/ DeleteRoom(u, r)
      PROVE  LockInv'
  BY <1>7, <1>t, <1>i, <1>2, Released
     DEF LeaveAsMember, LeaveDelete, LeaveDeleteCrash, DeleteRoom
<1>8. ASSUME NEW u \in Users, NEW v \in Users, NEW r \in Rooms,
             LeaveTransfer(u, r, v) \/ KickMember(u, r, v)
      PROVE  LockInv'
  BY <1>8, <1>2 DEF LeaveTransfer, KickMember
<1>9. ASSUME \/ \E u \in Users, r \in Rooms, p \in Passwords, max \in MaxMembersArgs :
                   CreateRoom(u, r, p, max)
             \/ Tick \/ RoomCrash \/ UNCHANGED roomVars
      PROVE  LockInv'
  BY <1>9, <1>t, <1>i, <1>2, Released DEF CreateRoom, Tick, RoomCrash, roomVars
<1> QED
  BY <1>1, <1>3, <1>4, <1>5, <1>6, <1>7, <1>8, <1>9, FailureCounted DEF RoomNext

\* No account ever has more than the threshold plus the other request slots
\* counted against it in a room: concurrency stretches the five guesses of
\* config.room.failThreshold by the joins that run at once and no further.
THEOREM GuessesLimited == RoomSpec => []GuessBound
<1>1. RoomInit => LockInv
  BY TypeInit, ThresholdAssumption DEF RoomInit, LockInv, GuessesBounded, NoAttempt
<1>2. LockInv => GuessBound
  <2> SUFFICES ASSUME LockInv, NEW r \in Rooms, NEW u \in Users
               PROVE  attempts[r][u].fails <= GuessLimit
    BY DEF GuessBound, GuessLimit
  <2>1. /\ attempts[r][u].fails \in Nat
        /\ attempts[r][u].lock \in {"none", "locked", "expired"}
    BY DEF LockInv, RoomTypeOK, Attempt
  <2>2. Cardinality(Reqs) \in Nat /\ Cardinality(JoinsInFlight(r, u)) \in Nat
    BY ReqsAssumption, FlightFinite, FS_CardinalityType
  <2> QED
    BY <2>1, <2>2, ThresholdAssumption DEF LockInv, GuessesBounded, GuessLimit
<1> QED
  BY <1>1, <1>2, LockStep, PTL DEF RoomSpec
===============================================================================
