------------------------------ MODULE RoomService ------------------------------
(***************************************************************************)
(* backend/src/services/room.service.js with the parts of                  *)
(* membership.service.js and join-attempt.service.js it calls: the tables  *)
(* rooms, room_members, room_bans and join_attempts, and the operations    *)
(* that change them.                                                       *)
(*                                                                         *)
(* The backend is one Node process and better-sqlite3 is synchronous, so   *)
(* what runs between two awaits is one atomic step and nothing else can    *)
(* happen in between.  joinRoom and updateRoomPassword are suspended at    *)
(* the await on bcrypt, after their checks and before their writes: each   *)
(* is a Begin action that checks and a second action that writes, and any  *)
(* other request may run between the two.  A suspended request lives in a  *)
(* slot of reqs.  A request that is refused before it writes anything      *)
(* leaves the state as it was and is not an action.                        *)
(*                                                                         *)
(* A crash loses the suspended requests and keeps the tables.  Where the   *)
(* code makes two writes outside db.transaction, a crash can also fall     *)
(* between them (the actions whose name ends in Crash).                    *)
(***************************************************************************)
EXTENDS ChatBase

CONSTANTS
    Passwords,        \* room passwords; a bcrypt hash matches its own only
    Reqs,             \* slots for requests suspended at an await
    FailThreshold,    \* config.room.failThreshold
    MaxMembersArgs,   \* values of max_members a creation may carry
    TicksPerSecond,   \* instants the clock of the model has in one second
    MaxTime           \* bound on that clock

ASSUME ReqsAssumption      == IsFiniteSet(Reqs)
ASSUME PasswordsAssumption == NULL \notin Passwords
ASSUME ThresholdAssumption == FailThreshold \in Nat \ {0}
ASSUME MaxMembersAssumption == MaxMembersArgs \subseteq Int
ASSUME ClockAssumption     == TicksPerSecond \in Nat \ {0} /\ MaxTime \in Nat

VARIABLES
    status,      \* rooms: no row yet, live, or deleted_at set
    owner,       \* rooms.owner_id
    maxMembers,  \* rooms.max_members, never updated
    password,    \* rooms.password_hash
    memberRow,   \* room_members: role and joined_at of each (room, user)
    banned,      \* room_bans
    attempts,    \* join_attempts: fail_count and locked_until
    reqs,        \* requests suspended at an await
    now          \* the wall clock

roomTables == <<status, owner, maxMembers, password, memberRow, banned, attempts>>
roomVars   == <<roomTables, reqs, now>>

-------------------------------------------------------------------------------
Role == {"none", "member", "owner"}

\* A row of room_members; the role "none" stands for the absent row.
Row   == [role : Role, at : 0 .. MaxTime]
NoRow == [role |-> "none", at |-> 0]

\* A row of join_attempts.  locked_until is NULL, in the future or in the past;
\* no failures and no lock stand for the absent row.
Attempt   == [fails : Nat, lock : {"none", "locked", "expired"}]
NoAttempt == [fails |-> 0, lock |-> "none"]

\* A suspended request keeps what the code read or was given before the await.
Idle        == [op |-> "idle"]
JoinRequest == [op : {"join"}, user : Users, room : Rooms,
                given : Passwords, seen : Passwords \cup {NULL}]
SetPasswordRequest == [op : {"setPassword"}, user : Users, room : Rooms,
                       given : Passwords]
Request == {Idle} \cup JoinRequest \cup SetPasswordRequest

RoomTypeOK ==
    /\ status \in [Rooms -> {"absent", "live", "deleted"}]
    /\ owner \in [Rooms -> Users \cup {NULL}]
    /\ maxMembers \in [Rooms -> Int]
    /\ password \in [Rooms -> Passwords \cup {NULL}]
    /\ memberRow \in [Rooms -> [Users -> Row]]
    /\ banned \in [Rooms -> SUBSET Users]
    /\ attempts \in [Rooms -> [Users -> Attempt]]
    /\ reqs \in [Reqs -> Request]
    /\ now \in 0 .. MaxTime

RoomInit ==
    /\ status = [r \in Rooms |-> "absent"]
    /\ owner = [r \in Rooms |-> NULL]
    /\ maxMembers = [r \in Rooms |-> 0]
    /\ password = [r \in Rooms |-> NULL]
    /\ memberRow = [r \in Rooms |-> [u \in Users |-> NoRow]]
    /\ banned = [r \in Rooms |-> {}]
    /\ attempts = [r \in Rooms |-> [u \in Users |-> NoAttempt]]
    /\ reqs = [q \in Reqs |-> Idle]
    /\ now = 0

-------------------------------------------------------------------------------
\* getMembership, countMembers
IsMember(r, u) == memberRow[r][u].role # "none"
Members(r)     == {u \in Users : IsMember(r, u)}

\* getRoomById, getRoomByCode: deleted_at IS NULL.  The mutant forgets that.
RoomExists_SeesDeleted(r) == status[r] # "absent"
RoomExists(r) == status[r] = "live"

\* requireOwner
IsOwner(r, u) == RoomExists(r) /\ owner[r] = u

\* isBanned.  The mutant is a ban nobody reads.
IsBanned_Never(r, u) == FALSE
IsBanned(r, u) == u \in banned[r]

\* joined_at is CURRENT_TIMESTAMP, which has whole seconds.
JoinedAt(r, u) == memberRow[r][u].at \div TicksPerSecond

\* ORDER BY joined_at ASC, user_id ASC: u comes before v
Precedes(r, u, v) ==
    \/ JoinedAt(r, u) < JoinedAt(r, v)
    \/ JoinedAt(r, u) = JoinedAt(r, v) /\ u <= v

\* The row a failed attempt leaves (recordFailure).  The mutant locks one late.
AfterFailure_Late(a) ==
    LET next == IF a.lock = "expired" THEN 1 ELSE a.fails + 1
    IN  [fails |-> next,
         lock  |-> IF next > FailThreshold THEN "locked" ELSE "none"]
AfterFailure(a) ==
    LET next == IF a.lock = "expired" THEN 1 ELSE a.fails + 1
    IN  [fails |-> next,
         lock  |-> IF next >= FailThreshold THEN "locked" ELSE "none"]

\* Suspended joins of u into r
JoinsInFlight(r, u) ==
    {q \in Reqs : reqs[q].op = "join" /\ reqs[q].room = r /\ reqs[q].user = u}

Release(q) == reqs' = [reqs EXCEPT ![q] = Idle]
ReleaseAll == reqs' = [q \in Reqs |-> Idle]

-------------------------------------------------------------------------------
\* createRoom: the hash is awaited first and nothing is read before it.
CreateRoom(u, r, p, max) ==
    /\ status[r] = "absent"
    /\ status' = [status EXCEPT ![r] = "live"]
    /\ owner' = [owner EXCEPT ![r] = u]
    /\ maxMembers' = [maxMembers EXCEPT ![r] = max]
    /\ password' = [password EXCEPT ![r] = p]
    /\ memberRow' = [memberRow EXCEPT ![r][u] = [role |-> "owner", at |-> now]]
    /\ UNCHANGED <<banned, attempts, reqs, now>>

\* joinRoom up to the await: found, not banned, not a member, not locked.
JoinBegin(q, u, r, p) ==
    /\ reqs[q] = Idle
    /\ RoomExists(r)
    /\ ~IsBanned(r, u)
    /\ ~IsMember(r, u)
    /\ attempts[r][u].lock # "locked"
    /\ reqs' = [reqs EXCEPT ![q] = [op |-> "join", user |-> u, room |-> r,
                                    given |-> p, seen |-> password[r]]]
    /\ UNCHANGED <<roomTables, now>>

\* comparePassword said no: recordFailure, in one transaction.
JoinFail(q) ==
    /\ reqs[q].op = "join"
    /\ reqs[q].given # reqs[q].seen
    /\ attempts' = [attempts EXCEPT ![reqs[q].room][reqs[q].user] = AfterFailure(@)]
    /\ Release(q)
    /\ UNCHANGED <<status, owner, maxMembers, password, memberRow, banned, now>>

PasswordAccepted(q) == reqs[q].op = "join" /\ reqs[q].given = reqs[q].seen
RoomFull_OffByOne(r) == Cardinality(Members(r)) > maxMembers[r]
RoomFull(r) == Cardinality(Members(r)) >= maxMembers[r]

JoinFull(q) ==
    /\ PasswordAccepted(q)
    /\ RoomFull(reqs[q].room)
    /\ Release(q)
    /\ UNCHANGED <<roomTables, now>>

\* INSERT OR IGNORE INTO room_members.  The mutants are INSERT OR REPLACE and an
\* INSERT without the role.
InsertMember_Replaces(r, u) ==
    memberRow' = [memberRow EXCEPT ![r][u] = [role |-> "member", at |-> now]]
InsertMember_NoRole(r, u) ==
    memberRow' = [memberRow EXCEPT ![r][u] =
                    IF @.role = "none" THEN [role |-> NULL, at |-> now] ELSE @]
InsertMember(r, u) ==
    memberRow' = [memberRow EXCEPT ![r][u] =
                    IF @.role = "none" THEN [role |-> "member", at |-> now] ELSE @]

\* joinRoom after the await: insert the row, then reset the attempts.
JoinAdmit(q) ==
    /\ PasswordAccepted(q)
    /\ ~RoomFull(reqs[q].room)
    /\ InsertMember(reqs[q].room, reqs[q].user)
    /\ attempts' = [attempts EXCEPT ![reqs[q].room][reqs[q].user] = NoAttempt]
    /\ Release(q)
    /\ UNCHANGED <<status, owner, maxMembers, password, banned, now>>

\* The process dies between those two statements.
JoinAdmitCrash(q) ==
    /\ PasswordAccepted(q)
    /\ ~RoomFull(reqs[q].room)
    /\ InsertMember(reqs[q].room, reqs[q].user)
    /\ ReleaseAll
    /\ UNCHANGED <<status, owner, maxMembers, password, banned, attempts, now>>

-------------------------------------------------------------------------------
\* leaveRoom of a member who is not the owner
LeaveAsMember(u, r) ==
    /\ RoomExists(r)
    /\ IsMember(r, u)
    /\ owner[r] # u
    /\ memberRow' = [memberRow EXCEPT ![r][u] = NoRow]
    /\ UNCHANGED <<status, owner, maxMembers, password, banned, attempts, reqs, now>>

\* leaveRoom of the owner: heir is the first of the others, one transaction.
LeaveTransfer(u, r, heir) ==
    /\ IsOwner(r, u)
    /\ IsMember(r, u)
    /\ heir \in Members(r) \ {u}
    /\ \A v \in Members(r) \ {u} : Precedes(r, heir, v)
    /\ owner' = [owner EXCEPT ![r] = heir]
    /\ memberRow' = [memberRow EXCEPT ![r][heir].role = "owner", ![r][u] = NoRow]
    /\ UNCHANGED <<status, maxMembers, password, banned, attempts, reqs, now>>

DropAllMembers(r) == memberRow' = [memberRow EXCEPT ![r] = [u \in Users |-> NoRow]]

\* leaveRoom of an owner who is alone: the room goes, in two statements.
AloneInRoom(u, r) == IsOwner(r, u) /\ Members(r) = {u}

LeaveDelete(u, r) ==
    /\ AloneInRoom(u, r)
    /\ status' = [status EXCEPT ![r] = "deleted"]
    /\ DropAllMembers(r)
    /\ UNCHANGED <<owner, maxMembers, password, banned, attempts, reqs, now>>

\* The process dies between those two statements.
LeaveDeleteCrash(u, r) ==
    /\ AloneInRoom(u, r)
    /\ status' = [status EXCEPT ![r] = "deleted"]
    /\ ReleaseAll
    /\ UNCHANGED <<owner, maxMembers, password, memberRow, banned, attempts, now>>

\* kickMember, one transaction
KickMember(u, r, target) ==
    /\ IsOwner(r, u)
    /\ target # u
    /\ IsMember(r, target)
    /\ memberRow' = [memberRow EXCEPT ![r][target] = NoRow]
    /\ banned' = [banned EXCEPT ![r] = @ \cup {target}]
    /\ UNCHANGED <<status, owner, maxMembers, password, attempts, reqs, now>>

\* deleteRoom, one transaction
DeleteRoom(u, r) ==
    /\ IsOwner(r, u)
    /\ status' = [status EXCEPT ![r] = "deleted"]
    /\ DropAllMembers(r)
    /\ UNCHANGED <<owner, maxMembers, password, banned, attempts, reqs, now>>

-------------------------------------------------------------------------------
\* updateRoomPassword: ownership is checked before the await on the hash ...
SetPasswordBegin(q, u, r, p) ==
    /\ reqs[q] = Idle
    /\ IsOwner(r, u)
    /\ reqs' = [reqs EXCEPT ![q] = [op |-> "setPassword", user |-> u, room |-> r,
                                    given |-> p]]
    /\ UNCHANGED <<roomTables, now>>

\* ... and the UPDATE after it has no condition but the room id.
SetPasswordCommit(q) ==
    /\ reqs[q].op = "setPassword"
    /\ password' = [password EXCEPT ![reqs[q].room] = reqs[q].given]
    /\ Release(q)
    /\ UNCHANGED <<status, owner, maxMembers, memberRow, banned, attempts, now>>

-------------------------------------------------------------------------------
\* lockMinutes go by; the stored locked_until is now in the past.
LockExpires(r, u) ==
    /\ attempts[r][u].lock = "locked"
    /\ attempts' = [attempts EXCEPT ![r][u].lock = "expired"]
    /\ UNCHANGED <<status, owner, maxMembers, password, memberRow, banned, reqs, now>>

Tick ==
    /\ now < MaxTime
    /\ now' = now + 1
    /\ UNCHANGED <<roomTables, reqs>>

\* The process dies at rest and is restarted.
RoomCrash ==
    /\ ReleaseAll
    /\ UNCHANGED <<roomTables, now>>

RoomNext ==
    \/ \E u \in Users, r \in Rooms, p \in Passwords, max \in MaxMembersArgs :
          CreateRoom(u, r, p, max)
    \/ \E q \in Reqs, u \in Users, r \in Rooms, p \in Passwords :
          JoinBegin(q, u, r, p) \/ SetPasswordBegin(q, u, r, p)
    \/ \E q \in Reqs :
          \/ JoinFail(q) \/ JoinFull(q) \/ JoinAdmit(q) \/ JoinAdmitCrash(q)
          \/ SetPasswordCommit(q)
    \/ \E u \in Users, r \in Rooms :
          \/ LeaveAsMember(u, r) \/ LeaveDelete(u, r) \/ LeaveDeleteCrash(u, r)
          \/ DeleteRoom(u, r) \/ LockExpires(r, u)
    \/ \E u, v \in Users, r \in Rooms : LeaveTransfer(u, r, v) \/ KickMember(u, r, v)
    \/ Tick
    \/ RoomCrash

RoomSpec == RoomInit /\ [][RoomNext]_roomVars

-------------------------------------------------------------------------------
\* A live room is owned by one of its members, who holds the only row with the
\* role 'owner'.  rooms.owner_id and room_members.role are written by different
\* statements of createRoom, joinRoom, leaveRoom and kickMember.
OwnerSeated ==
    \A r \in Rooms : status[r] = "live" =>
        /\ owner[r] \in Users
        /\ \A u \in Users : memberRow[r][u].role = "owner" <=> u = owner[r]

\* A room never has more members than max_members, however many joins were
\* suspended in bcrypt when the last seat went.  The creator always has a seat:
\* chat_create_room lets max_members be 0 or negative.
WithinCapacity ==
    \A r \in Rooms :
        \/ Cardinality(Members(r)) <= maxMembers[r]
        \/ Cardinality(Members(r)) <= 1

\* recordFailure and assertNotLocked bound the wrong passwords that are compared
\* before the lock holds: the requests that passed assertNotLocked together may
\* all fail, so the bound is the threshold plus the other slots.
GuessBound ==
    \A r \in Rooms, u \in Users :
        attempts[r][u].fails <= FailThreshold - 1 + Cardinality(Reqs)

\* A ban holds: a banned user who is outside, with no join of his suspended,
\* never gets in again, whatever others do.
BanIsFinal ==
    [][\A r \in Rooms, u \in Users :
          u \in banned[r] /\ ~IsMember(r, u) /\ JoinsInFlight(r, u) = {}
              => u \in banned'[r] /\ ~IsMember(r, u)' /\ JoinsInFlight(r, u)' = {}]_roomVars

\* A deleted room stays deleted and no join of it begins any more, so once the
\* joins suspended at its deletion are over nobody enters it.
DeletionIsFinal ==
    [][\A r \in Rooms : status[r] = "deleted" =>
          /\ status'[r] = "deleted"
          /\ \A u \in Users :
                /\ JoinsInFlight(r, u)' \subseteq JoinsInFlight(r, u)
                /\ IsMember(r, u)' => IsMember(r, u) \/ JoinsInFlight(r, u) # {}]_roomVars

\* A second join of a member that was suspended when the first one was admitted
\* (INSERT OR IGNORE) takes away neither his seniority nor his ownership: a row
\* that stays changes only when its user inherits from an owner who leaves.
SeniorityKept ==
    [][\A r \in Rooms, u \in Users :
          IsMember(r, u) /\ IsMember(r, u)' =>
              \/ memberRow'[r][u] = memberRow[r][u]
              \/ /\ memberRow'[r][u] = [memberRow[r][u] EXCEPT !.role = "owner"]
                 /\ owner'[r] = u
                 /\ memberRow'[r][owner[r]].role = "none"]_roomVars

-------------------------------------------------------------------------------
\* What the repository says of this component and the code does not keep.

\* README: a kicked user is in room_bans and is refused from then on.
BannedStaysOut == \A r \in Rooms : Members(r) \cap banned[r] = {}

\* README: five wrong passwords lock the account out of the room.
LockedAfterThreshold ==
    \A r \in Rooms, u \in Users : attempts[r][u].fails <= FailThreshold

\* docs/api.md: only the owner changes the password.
OnlyOwnerSetsPassword ==
    [][\A r \in Rooms : password[r] # NULL /\ password'[r] # password[r] =>
          \E q \in Reqs : /\ reqs[q].op = "setPassword" /\ reqs'[q] = Idle
                          /\ IsOwner(r, reqs[q].user)]_roomVars
===============================================================================
