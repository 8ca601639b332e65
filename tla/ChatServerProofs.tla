---------------------------- MODULE ChatServerProofs ----------------------------
(***************************************************************************)
(* Theorems about ChatServer: it is a use of RoomService and of Hub, so    *)
(* what holds of them holds here, and the routes keep the two in step.     *)
(***************************************************************************)
EXTENDS ChatServer, RoomServiceProofs, HubProofs

LEMMA StepIsRoomStep == [ChatNext]_chatVars => [RoomNext]_roomVars
BY DEF ChatNext, chatVars, roomVars, RoomNext, Unannounced, JoinRoute, LeaveRoute, DeleteRoute,
       KickRoute, HandleSubscribe, HandleUnsubscribe, Sockets, Crash

LEMMA StepIsHubStep == [ChatNext]_chatVars => [HubNext]_hubVars
<1> SUFFICES ASSUME [ChatNext]_chatVars
             PROVE  [HubNext]_hubVars
  OBVIOUS
<1>1. CASE UNCHANGED hubVars
  BY <1>1
<1>2. ASSUME NEW u \in Users, NEW r \in Rooms, RemoveUserFromRoom(u, r) \/ ClearRoom(r)
      PROVE  HubNext
  BY <1>2 DEF HubNext, HubCall
<1>3. ASSUME NEW c \in Conns, NEW r \in Rooms, Subscribe(c, r) \/ Unsubscribe(c, r)
      PROVE  HubNext
  BY <1>3 DEF HubNext, HubCall
<1>4. CASE SocketStep \/ HubLost
  BY <1>4 DEF HubNext
<1> QED
  BY <1>1, <1>2, <1>3, <1>4
     DEF ChatNext, chatVars, Unannounced, JoinRoute, LeaveRoute, DeleteRoute, KickRoute,
         HandleSubscribe, HandleUnsubscribe, Sockets, Crash, EmitMemberJoined, EmitMemberLeft,
         EmitRoomDeleted

\* Seen through its tables the server is RoomService: routes, tools and
\* handlers change them through its operations only.
THEOREM ServerUsesRoomService == ChatSpec => RoomSpec
BY StepIsRoomStep, PTL DEF ChatSpec, RoomSpec, ChatInit

\* Seen through its registry of connections the server is Hub.
THEOREM ServerUsesHub == ChatSpec => HubSafety
BY StepIsHubStep, PTL DEF ChatSpec, HubSafety, ChatInit

-------------------------------------------------------------------------------
(***************************************************************************)
(* How each operation changes the set of members of a room.                *)
(***************************************************************************)
Roster == [r \in Rooms |-> Members(r)]

LEMMA MembersAfterJoin ==
    ASSUME RoomTypeOK, NEW r \in Rooms, NEW u \in Users, InsertMember(r, u)
    PROVE  \A s \in Rooms :
             Roster'[s] = IF s = r THEN Roster[s] \cup {u} ELSE Roster[s]
<1>1. \A s \in Rooms, v \in Users :
        (memberRow'[s][v].role # "none") <=> (memberRow[s][v].role # "none" \/ (s = r /\ v = u))
  BY InsertedRows
<1> QED
  BY <1>1 DEF Roster, Members, IsMember

LEMMA MembersAfterDeparture ==
    ASSUME RoomTypeOK, NEW r \in Rooms, NEW x \in Users,
           \/ LeaveAsMember(x, r)
           \/ \E heir \in Users : LeaveTransfer(x, r, heir)
           \/ \E u \in Users : KickMember(u, r, x)
    PROVE  \A s \in Rooms : Roster'[s] = IF s = r THEN Roster[s] \ {x} ELSE Roster[s]
<1>n. NoRow.role = "none"
  BY DEF NoRow
<1>1. CASE LeaveAsMember(x, r)
  BY <1>1, <1>n DEF LeaveAsMember, Roster, Members, IsMember, RoomTypeOK
<1>2. ASSUME NEW u \in Users, KickMember(u, r, x)
      PROVE  \A s \in Rooms : Roster'[s] = IF s = r THEN Roster[s] \ {x} ELSE Roster[s]
  BY <1>2, <1>n DEF KickMember, Roster, Members, IsMember, RoomTypeOK
<1>3. ASSUME NEW heir \in Users, LeaveTransfer(x, r, heir)
      PROVE  \A s \in Rooms : Roster'[s] = IF s = r THEN Roster[s] \ {x} ELSE Roster[s]
  <2>1. heir # x /\ memberRow[r][heir].role # "none" /\ memberRow[r][heir] \in Row
    BY <1>3 DEF LeaveTransfer, Members, IsMember, RoomTypeOK
  <2>2. \A s \in Rooms, v \in Users : ~(s = r /\ v \in {x, heir}) => memberRow'[s][v] = memberRow[s][v]
    BY <1>3 DEF LeaveTransfer, RoomTypeOK
  <2>3. memberRow'[r][x] = NoRow
    BY <1>3, <2>1 DEF LeaveTransfer, RoomTypeOK
  <2>4. memberRow'[r][heir].role = "owner"
    BY <1>3, <2>1 DEF LeaveTransfer, RoomTypeOK, Row
  <2> QED
    BY <1>n, <2>1, <2>2, <2>3, <2>4 DEF Roster, Members, IsMember
<1> QED
  BY <1>1, <1>2, <1>3

LEMMA MembersAfterDeletion ==
    ASSUME RoomTypeOK, NEW r \in Rooms, DropAllMembers(r)
    PROVE  \A s \in Rooms : Roster'[s] = IF s = r THEN {} ELSE Roster[s]
BY DroppedRows DEF Roster, Members, IsMember, NoRow

-------------------------------------------------------------------------------
(***************************************************************************)
(* The invariant: both components are in order, subscribers are members,   *)
(* and what the connections have heard is true.                            *)
(***************************************************************************)
HeardTypeOK == heard \in [Conns -> [Rooms -> SUBSET Users]]

InStep == HeardTypeOK /\ SubscribersAreMembers /\ FramesTellTheTruth

ChatInv == SeatInv /\ HubInv /\ InStep

\* What the proofs below use of the two components.
LEMMA ComponentFacts ==
    ASSUME ChatInv
    PROVE  /\ RoomTypeOK /\ HubTypeOK
           /\ \A c \in Conns, s \in Rooms : s \in subRooms[c] <=> c \in roomSubs[s]
           /\ \A c \in Conns, u \in Users : c \in userConns[u] <=> Attached(c) /\ uid[c] = u
           /\ \A c \in Conns : subRooms[c] # {} => Attached(c)
           /\ \A c \in Conns : Attached(c) => uid[c] \in Users
           /\ \A c \in Conns : subRooms[c] \subseteq Rooms
           /\ \A c \in Conns, s \in Rooms : s \in subRooms[c] => uid[c] \in Roster[s]
<1>1. \A c \in Conns, s \in Rooms : s \in subRooms[c] => uid[c] \in Users
  BY DEF ChatInv, HubInv, HubConsistent, HubTypeOK, Attached
<1> QED
  BY <1>1 DEF ChatInv, SeatInv, HubInv, HubConsistent, HubTypeOK, Attached, InStep,
              SubscribersAreMembers, Roster, Members, IsMember

\* The two conditions in terms of Roster.
LEMMA InStepByRoster ==
    ASSUME HeardTypeOK',
           \A c \in Conns : \A s \in subRooms'[c] : s \in Rooms /\ uid'[c] \in Roster'[s],
           \A c \in Conns, s \in Rooms : Writable(c)' =>
               heard'[c][s] = IF s \in subRooms'[c] THEN Roster'[s] ELSE {}
    PROVE  InStep'
BY DEF InStep, SubscribersAreMembers, FramesTellTheTruth, Roster, Members, IsMember

\* A join is announced to all subscribers and changes no subscription.
LEMMA JoinKeepsStep ==
    ASSUME ChatInv, NEW r \in Rooms, NEW u \in Users,
           InsertMember(r, u), EmitMemberJoined(r, u)
    PROVE  InStep'
<1>t. HeardTypeOK
  BY DEF ChatInv, InStep
<1>1. \A s \in Rooms : Roster'[s] = IF s = r THEN Roster[s] \cup {u} ELSE Roster[s]
  BY MembersAfterJoin, ComponentFacts
<1>2. /\ HeardTypeOK'
      /\ \A c \in Conns, s \in Rooms :
            heard'[c][s] = IF s = r /\ c \in roomSubs[r] /\ Writable(c)
                             THEN heard[c][r] \cup {u} ELSE heard[c][s]
  <2> DEFINE news == [c \in Conns |-> heard[c][r] \cup {u}]
  <2>1. news \in [Conns -> SUBSET Users]
    BY <1>t DEF HeardTypeOK
  <2>2. Broadcast(r, roomSubs[r], news) /\ roomSubs[r] \in SUBSET Conns
    BY ComponentFacts DEF EmitMemberJoined, HubTypeOK
  <2>3. \A c \in Conns : news[c] = heard[c][r] \cup {u}
    OBVIOUS
  <2> HIDE DEF news
  <2> QED
    BY <1>t, <2>1, <2>2, <2>3 DEF Broadcast, HeardTypeOK
<1>3. UNCHANGED <<sock, uid, roomSubs, subRooms>>
  BY DEF EmitMemberJoined, hubVars
<1>4. \A c \in Conns, s \in Rooms : Writable(c) =>
        heard[c][s] = IF s \in subRooms[c] THEN Roster[s] ELSE {}
  BY DEF ChatInv, InStep, FramesTellTheTruth, Roster
<1>5. ASSUME NEW c \in Conns, NEW s \in Rooms, Writable(c)'
      PROVE  heard'[c][s] = IF s \in subRooms'[c] THEN Roster'[s] ELSE {}
  <2>1. /\ Writable(c) /\ Attached(c)
        /\ heard[c][s] = IF s \in subRooms[c] THEN Roster[s] ELSE {}
    BY <1>3, <1>4, <1>5 DEF Writable, Attached
  <2>2. s \in subRooms[c] <=> c \in roomSubs[s]
    BY ComponentFacts
  <2>4. CASE s = r
    BY <1>1, <1>2, <1>3, <2>1, <2>2, <2>4
  <2>5. CASE s # r
    BY <1>1, <1>2, <1>3, <2>1, <2>5
  <2> QED
    BY <2>4, <2>5
<1>6. ASSUME NEW c \in Conns, NEW s \in subRooms'[c]
      PROVE  s \in Rooms /\ uid'[c] \in Roster'[s]
  <2>1. s \in subRooms[c] /\ uid'[c] = uid[c]
    BY <1>3
  <2>2. s \in Rooms /\ uid[c] \in Roster[s]
    BY <2>1, ComponentFacts
  <2> QED
    BY <1>1, <2>1, <2>2
<1> QED
  BY <1>2, <1>5, <1>6, InStepByRoster

\* A departure is announced to all subscribers, and then the one who goes has no
\* subscription left.
LEMMA DepartureKeepsStep ==
    ASSUME ChatInv, NEW r \in Rooms, NEW x \in Users, EmitMemberLeft(r, x),
           \A s \in Rooms : Roster'[s] = IF s = r THEN Roster[s] \ {x} ELSE Roster[s]
    PROVE  InStep'
<1>t. HeardTypeOK
  BY DEF ChatInv, InStep
<1>1. \A s \in Rooms : Roster'[s] = IF s = r THEN Roster[s] \ {x} ELSE Roster[s]
  OBVIOUS
<1>2. /\ HeardTypeOK'
      /\ \A c \in Conns, s \in Rooms :
            heard'[c][s] = IF s = r /\ c \in roomSubs[r] /\ Writable(c)
                             THEN IF uid[c] = x THEN {} ELSE heard[c][r] \ {x}
                             ELSE heard[c][s]
  <2>1. News(r, x) \in [Conns -> SUBSET Users]
    BY <1>t DEF HeardTypeOK, News
  <2>2. Broadcast(r, roomSubs[r], News(r, x)) /\ roomSubs[r] \in SUBSET Conns
    BY ComponentFacts DEF EmitMemberLeft, HubTypeOK
  <2>3. \A c \in Conns : News(r, x)[c] = IF uid[c] = x THEN {} ELSE heard[c][r] \ {x}
    BY DEF News
  <2> QED
    BY <1>t, <2>1, <2>2, <2>3 DEF Broadcast, HeardTypeOK
<1>3. /\ UNCHANGED <<sock, uid>>
      /\ \A c \in Conns : subRooms'[c] = IF c \in userConns[x] THEN subRooms[c] \ {r}
                                                            ELSE subRooms[c]
  BY DEF EmitMemberLeft, RemoveUserFromRoom
<1>4. \A c \in Conns, s \in Rooms : Writable(c) =>
        heard[c][s] = IF s \in subRooms[c] THEN Roster[s] ELSE {}
  BY DEF ChatInv, InStep, FramesTellTheTruth, Roster
<1>5. \A c \in Conns, s \in Rooms : s \in subRooms[c] /\ uid[c] = x => c \in userConns[x]
  BY ComponentFacts
<1>6. ASSUME NEW c \in Conns, NEW s \in Rooms, Writable(c)'
      PROVE  heard'[c][s] = IF s \in subRooms'[c] THEN Roster'[s] ELSE {}
  <2>1. /\ Writable(c) /\ Attached(c)
        /\ heard[c][s] = IF s \in subRooms[c] THEN Roster[s] ELSE {}
    BY <1>3, <1>4, <1>6 DEF Writable, Attached
  <2>2. s \in subRooms[c] <=> c \in roomSubs[s]
    BY ComponentFacts
  <2>3. c \in userConns[x] <=> uid[c] = x
    BY <2>1, ComponentFacts
  <2>4. CASE s = r
    BY <1>1, <1>2, <1>3, <2>1, <2>2, <2>3, <2>4
  <2>5. CASE s # r
    BY <1>1, <1>2, <1>3, <2>1, <2>5
  <2> QED
    BY <2>4, <2>5
<1>7. ASSUME NEW c \in Conns, NEW s \in subRooms'[c]
      PROVE  s \in Rooms /\ uid'[c] \in Roster'[s]
  <2>1. s \in subRooms[c] /\ uid'[c] = uid[c] /\ (s = r => c \notin userConns[x])
    BY <1>3
  <2>2. s \in Rooms /\ uid[c] \in Roster[s]
    BY <2>1, ComponentFacts
  <2> QED
    BY <1>1, <1>5, <2>1, <2>2
<1> QED
  BY <1>2, <1>6, <1>7, InStepByRoster

\* A deletion is announced to all subscribers and leaves none.
LEMMA DeletionKeepsStep ==
    ASSUME ChatInv, NEW r \in Rooms, DropAllMembers(r), EmitRoomDeleted(r)
    PROVE  InStep'
<1>t. HeardTypeOK
  BY DEF ChatInv, InStep
<1>1. \A s \in Rooms : Roster'[s] = IF s = r THEN {} ELSE Roster[s]
  BY MembersAfterDeletion, ComponentFacts
<1>2. /\ HeardTypeOK'
      /\ \A c \in Conns, s \in Rooms :
            heard'[c][s] = IF s = r /\ c \in roomSubs[r] /\ Writable(c)
                             THEN {} ELSE heard[c][s]
  <2> DEFINE news == [c \in Conns |-> {}]
  <2>1. news \in [Conns -> SUBSET Users]
    OBVIOUS
  <2>2. Broadcast(r, roomSubs[r], news) /\ roomSubs[r] \in SUBSET Conns
    BY ComponentFacts DEF EmitRoomDeleted, HubTypeOK
  <2>3. \A c \in Conns : news[c] = {}
    OBVIOUS
  <2> HIDE DEF news
  <2> QED
    BY <1>t, <2>1, <2>2, <2>3 DEF Broadcast, HeardTypeOK
<1>3. /\ UNCHANGED <<sock, uid>>
      /\ \A c \in Conns : subRooms'[c] = IF c \in roomSubs[r] THEN subRooms[c] \ {r}
                                                           ELSE subRooms[c]
  BY DEF EmitRoomDeleted, ClearRoom
<1>4. \A c \in Conns, s \in Rooms : Writable(c) =>
        heard[c][s] = IF s \in subRooms[c] THEN Roster[s] ELSE {}
  BY DEF ChatInv, InStep, FramesTellTheTruth, Roster
<1>5. ASSUME NEW c \in Conns, NEW s \in Rooms, Writable(c)'
      PROVE  heard'[c][s] = IF s \in subRooms'[c] THEN Roster'[s] ELSE {}
  <2>1. /\ Writable(c) /\ Attached(c)
        /\ heard[c][s] = IF s \in subRooms[c] THEN Roster[s] ELSE {}
    BY <1>3, <1>4, <1>5 DEF Writable, Attached
  <2>2. s \in subRooms[c] <=> c \in roomSubs[s]
    BY ComponentFacts
  <2>4. CASE s = r
    BY <1>1, <1>2, <1>3, <2>1, <2>2, <2>4
  <2>5. CASE s # r
    BY <1>1, <1>2, <1>3, <2>1, <2>5
  <2> QED
    BY <2>4, <2>5
<1>6. ASSUME NEW c \in Conns, NEW s \in subRooms'[c]
      PROVE  s \in Rooms /\ uid'[c] \in Roster'[s]
  <2>1. s \in subRooms[c] /\ uid'[c] = uid[c] /\ (s = r => c \notin roomSubs[r])
    BY <1>3
  <2>2. s \in Rooms /\ uid[c] \in Roster[s] /\ c \in roomSubs[s]
    BY <2>1, ComponentFacts
  <2> QED
    BY <1>1, <2>1, <2>2
<1> QED
  BY <1>2, <1>5, <1>6, InStepByRoster

\* Requests without news change members only by creating a room, which nobody
\* can be subscribed to yet.
LEMMA UnannouncedKeepsStep == ChatInv /\ Unannounced => InStep'
<1> SUFFICES ASSUME ChatInv, Unannounced
             PROVE  InStep'
  OBVIOUS
<1>t. HeardTypeOK /\ RoomTypeOK
  BY ComponentFacts DEF ChatInv, InStep
<1>u. UNCHANGED <<sock, uid, subRooms, roomSubs, heard>>
  BY DEF Unannounced, hubVars
<1>o. \A c \in Conns, s \in Rooms : Writable(c) =>
        heard[c][s] = IF s \in subRooms[c] THEN Roster[s] ELSE {}
  BY DEF ChatInv, InStep, FramesTellTheTruth, Roster
<1>1. ASSUME NEW c \in Conns, NEW s \in subRooms[c]
      PROVE  s \in Rooms /\ uid[c] \in Roster[s] /\ Roster'[s] = Roster[s]
  <2>1. s \in Rooms /\ uid[c] \in Roster[s]
    BY ComponentFacts
  <2>2. status[s] # "absent"
    BY <2>1 DEF ChatInv, SeatInv, FreshRooms, Roster, Members, IsMember
  <2>3. memberRow'[s] = memberRow[s]
    <3>1. ASSUME NEW u \in Users, NEW r \in Rooms, NEW p \in Passwords,
                 NEW max \in MaxMembersArgs, CreateRoom(u, r, p, max)
          PROVE  memberRow'[s] = memberRow[s]
      BY <1>t, <2>1, <2>2, <3>1 DEF CreateRoom, RoomTypeOK
    <3> QED
      BY <3>1 DEF Unannounced, JoinBegin, SetPasswordBegin, JoinFail, JoinFull,
                  SetPasswordCommit, LockExpires, Tick, roomTables
  <2> QED
    BY <2>1, <2>3 DEF Roster, Members, IsMember
<1>2. ASSUME NEW c \in Conns, NEW s \in Rooms, Writable(c)'
      PROVE  heard'[c][s] = IF s \in subRooms'[c] THEN Roster'[s] ELSE {}
  BY <1>u, <1>o, <1>1, <1>2 DEF Writable
<1>3. HeardTypeOK'
  BY <1>t, <1>u DEF HeardTypeOK
<1>4. ASSUME NEW c \in Conns, NEW s \in subRooms'[c]
      PROVE  s \in Rooms /\ uid'[c] \in Roster'[s]
  BY <1>u, <1>1
<1> QED
  BY <1>2, <1>3, <1>4, InStepByRoster

LEMMA SubscriptionKeepsStep ==
    ASSUME ChatInv, NEW d \in Conns, NEW r \in Rooms,
           HandleSubscribe(d, r) \/ HandleUnsubscribe(d, r)
    PROVE  InStep'
<1>t. HeardTypeOK /\ RoomTypeOK /\ HubTypeOK
  BY ComponentFacts DEF ChatInv, InStep
<1>u. UNCHANGED <<sock, uid>> /\ Roster' = Roster
  <2>1. UNCHANGED <<sock, uid, memberRow>>
    BY DEF HandleSubscribe, HandleUnsubscribe, Subscribe, Unsubscribe, roomVars, roomTables
  <2> QED
    BY <2>1 DEF Roster, Members, IsMember
<1>o. \A c \in Conns, s \in Rooms : Writable(c) =>
        heard[c][s] = IF s \in subRooms[c] THEN Roster[s] ELSE {}
  BY DEF ChatInv, InStep, FramesTellTheTruth, Roster
<1>r. Roster \in [Rooms -> SUBSET Users] /\ Members(r) = Roster[r]
  BY DEF Roster, Members
<1>1. CASE HandleSubscribe(d, r)
  <2>1. uid[d] \in Roster[r]
    <3>1. uid[d] \in Users
      BY <1>1, ComponentFacts DEF HandleSubscribe
    <3> QED
      BY <1>1, <3>1 DEF HandleSubscribe, MaySubscribe, Roster, Members
  <2>2. \A c \in Conns : subRooms'[c] = IF c = d THEN subRooms[c] \cup {r} ELSE subRooms[c]
    BY <1>1, <1>t DEF HandleSubscribe, Subscribe, HubTypeOK
  <2>3. \A c \in Conns, s \in Rooms :
          heard'[c][s] = IF c = d /\ s = r /\ Writable(d) THEN Roster[r] ELSE heard[c][s]
    BY <1>1, <1>t, <1>r DEF HandleSubscribe, HeardTypeOK
  <2>4. HeardTypeOK'
    BY <1>1, <1>t, <1>r DEF HandleSubscribe, HeardTypeOK
  <2>5. ASSUME NEW c \in Conns, NEW s \in subRooms'[c]
        PROVE  s \in Rooms /\ uid'[c] \in Roster'[s]
    <3>1. CASE s \in subRooms[c]
      BY <1>u, <3>1, ComponentFacts
    <3>2. CASE c = d /\ s = r
      BY <1>u, <2>1, <3>2
    <3> QED
      BY <2>2, <2>5, <3>1, <3>2
  <2>6. ASSUME NEW c \in Conns, NEW s \in Rooms, Writable(c)'
        PROVE  heard'[c][s] = IF s \in subRooms'[c] THEN Roster'[s] ELSE {}
    <3>1. Writable(c) /\ heard[c][s] = IF s \in subRooms[c] THEN Roster[s] ELSE {}
      BY <1>u, <1>o, <2>6 DEF Writable
    <3>2. CASE c = d /\ s = r
      BY <1>u, <2>2, <2>3, <3>1, <3>2
    <3>3. CASE ~(c = d /\ s = r)
      BY <1>u, <2>2, <2>3, <3>1, <3>3
    <3> QED
      BY <3>2, <3>3
  <2> QED
    BY <2>4, <2>5, <2>6, InStepByRoster
<1>2. CASE HandleUnsubscribe(d, r)
  <2>2. \A c \in Conns : subRooms'[c] = IF c = d THEN subRooms[c] \ {r} ELSE subRooms[c]
    BY <1>2, <1>t DEF HandleUnsubscribe, Unsubscribe, HubTypeOK
  <2>3. \A c \in Conns, s \in Rooms :
          heard'[c][s] = IF c = d /\ s = r /\ Writable(d) THEN {} ELSE heard[c][s]
    BY <1>2, <1>t DEF HandleUnsubscribe, HeardTypeOK
  <2>4. HeardTypeOK'
    BY <1>2, <1>t DEF HandleUnsubscribe, HeardTypeOK
  <2>5. ASSUME NEW c \in Conns, NEW s \in subRooms'[c]
        PROVE  s \in Rooms /\ uid'[c] \in Roster'[s]
    <3>1. s \in subRooms[c]
      BY <2>2, <2>5
    <3> QED
      BY <1>u, <3>1, ComponentFacts
  <2>6. ASSUME NEW c \in Conns, NEW s \in Rooms, Writable(c)'
        PROVE  heard'[c][s] = IF s \in subRooms'[c] THEN Roster'[s] ELSE {}
    <3>1. Writable(c) /\ heard[c][s] = IF s \in subRooms[c] THEN Roster[s] ELSE {}
      BY <1>u, <1>o, <2>6 DEF Writable
    <3>2. CASE c = d /\ s = r
      BY <1>u, <2>2, <2>3, <3>1, <3>2
    <3>3. CASE ~(c = d /\ s = r)
      BY <1>u, <2>2, <2>3, <3>1, <3>3
    <3> QED
      BY <3>2, <3>3
  <2> QED
    BY <2>4, <2>5, <2>6, InStepByRoster
<1> QED
  BY <1>1, <1>2

\* Connections come without subscriptions and go with them.
LEMMA SocketsKeepStep == ChatInv /\ Sockets => InStep'
<1> SUFFICES ASSUME ChatInv, Sockets
             PROVE  InStep'
  OBVIOUS
<1>t. HeardTypeOK /\ RoomTypeOK /\ HubTypeOK
  BY ComponentFacts DEF ChatInv, InStep
<1>u. Roster' = Roster
  BY DEF Sockets, roomVars, roomTables, Roster, Members, IsMember
<1>o. \A c \in Conns, s \in Rooms : Writable(c) =>
        heard[c][s] = IF s \in subRooms[c] THEN Roster[s] ELSE {}
  BY DEF ChatInv, InStep, FramesTellTheTruth, Roster
<1>h. \A c \in Conns, s \in Rooms :
        heard'[c][s] = IF sock[c] # "none" /\ sock'[c] # "none" THEN heard[c][s] ELSE {}
  BY DEF Sockets, Attached, HeardNothing
<1>1. HeardTypeOK'
  BY <1>t DEF Sockets, Attached, HeardNothing, HeardTypeOK
<1>2. \A c \in Conns :
        \/ /\ sock[c] # "none" /\ uid'[c] = uid[c] /\ subRooms'[c] = subRooms[c]
           /\ Writable(c)' => Writable(c)
        \/ subRooms'[c] = {} /\ (sock'[c] = "none" \/ sock[c] = "none")
        \/ sock[c] = "none" /\ sock'[c] = "none" /\ subRooms'[c] = subRooms[c]
  <2>1. ASSUME NEW d \in Conns, NEW u \in Users, AddConn(d, u), NEW c \in Conns
        PROVE  \/ sock'[c] = sock[c] /\ uid'[c] = uid[c] /\ subRooms'[c] = subRooms[c]
               \/ subRooms'[c] = {} /\ sock[c] = "none"
    BY <1>t, <2>1 DEF AddConn, Attached, HubTypeOK
  <2>2. ASSUME NEW d \in Conns, PeerVanishes(d) \/ PeerCloses(d) \/ HeartbeatTimeout(d),
               NEW c \in Conns
        PROVE  /\ uid'[c] = uid[c] /\ subRooms'[c] = subRooms[c]
               /\ \/ sock'[c] = sock[c]
                  \/ sock[c] \in {"open", "lost"} /\ sock'[c] # "none"
    BY <1>t, <2>2 DEF PeerVanishes, PeerCloses, HeartbeatTimeout, HeartbeatRunsFor, Writable,
                      HubTypeOK
  <2>3. ASSUME NEW d \in Conns, CloseEvent(d), NEW c \in Conns
        PROVE  \/ sock'[c] = sock[c] /\ uid'[c] = uid[c] /\ subRooms'[c] = subRooms[c]
               \/ subRooms'[c] = {} /\ sock'[c] = "none"
    BY <1>t, <2>3 DEF CloseEvent, HubTypeOK
  <2>4. ASSUME NEW u \in Users, OfflineTimerFires(u)
        PROVE  UNCHANGED <<sock, uid, subRooms>>
    BY <2>4 DEF OfflineTimerFires
  <2>5. SocketStep
    BY DEF Sockets
  <2> QED
    BY <2>1, <2>2, <2>3, <2>4, <2>5 DEF SocketStep, Writable
<1>3. \A c \in Conns : sock[c] = "none" => subRooms[c] = {}
  BY ComponentFacts DEF Attached
<1>4. ASSUME NEW c \in Conns, NEW s \in subRooms'[c]
      PROVE  s \in Rooms /\ uid'[c] \in Roster'[s]
  <2>1. s \in subRooms[c] /\ uid'[c] = uid[c]
    BY <1>2, <1>3, <1>4
  <2> QED
    BY <1>u, <2>1, ComponentFacts
<1>5. ASSUME NEW c \in Conns, NEW s \in Rooms, Writable(c)'
      PROVE  heard'[c][s] = IF s \in subRooms'[c] THEN Roster'[s] ELSE {}
  <2>1. sock'[c] # "none"
    BY <1>5 DEF Writable
  <2>2. CASE sock[c] = "none"
    BY <1>2, <1>3, <1>h, <2>1, <2>2
  <2>3. CASE sock[c] # "none"
    BY <1>2, <1>5, <1>h, <1>o, <1>u, <2>1, <2>3
  <2> QED
    BY <2>2, <2>3
<1> QED
  BY <1>1, <1>4, <1>5, InStepByRoster

LEMMA InStepStep == ChatInv /\ [ChatNext]_chatVars => InStep'
<1> SUFFICES ASSUME ChatInv, [ChatNext]_chatVars
             PROVE  InStep'
  OBVIOUS
<1>t. RoomTypeOK
  BY ComponentFacts
<1>1. ASSUME NEW q \in Reqs, JoinRoute(q)
      PROVE  InStep'
  <2>1. reqs[q] \in JoinRequest
    BY <1>1, <1>t, RequestKinds DEF JoinRoute, JoinAdmit, PasswordAccepted
  <2>2. PICK r \in Rooms, u \in Users : r = reqs[q].room /\ u = reqs[q].user
    BY <2>1 DEF JoinRequest
  <2>3. InsertMember(r, u) /\ EmitMemberJoined(r, u)
    BY <1>1, <2>2 DEF JoinRoute, JoinAdmit, InsertMember, EmitMemberJoined, Broadcast
  <2> QED
    BY <2>3, JoinKeepsStep
<1>2. ASSUME NEW u \in Users, NEW r \in Rooms, LeaveRoute(u, r)
      PROVE  InStep'
  <2>1. CASE LeaveDelete(u, r) /\ EmitRoomDeleted(r)
    BY <2>1, DeletionKeepsStep DEF LeaveDelete
  <2>2. CASE /\ LeaveAsMember(u, r) \/ \E heir \in Users : LeaveTransfer(u, r, heir)
             /\ EmitMemberLeft(r, u)
    BY <1>t, <2>2, MembersAfterDeparture, DepartureKeepsStep
  <2> QED
    BY <1>2, <2>1, <2>2 DEF LeaveRoute
<1>3. ASSUME NEW u \in Users, NEW r \in Rooms, DeleteRoute(u, r)
      PROVE  InStep'
  BY <1>3, DeletionKeepsStep DEF DeleteRoute, DeleteRoom
<1>4. ASSUME NEW u \in Users, NEW target \in Users, NEW r \in Rooms, KickRoute(u, r, target)
      PROVE  InStep'
  BY <1>4, <1>t, MembersAfterDeparture, DepartureKeepsStep DEF KickRoute
<1>5. CASE Crash
  <2>1. \A c \in Conns : sock'[c] = "none" /\ subRooms'[c] = {}
    BY <1>5 DEF Crash, HubLost
  <2>2. HeardTypeOK'
    BY <1>5 DEF Crash, HeardTypeOK, HeardNothing
  <2> QED
    BY <2>1, <2>2, InStepByRoster DEF Writable
<1>6. CASE UNCHANGED chatVars
  BY <1>6 DEF ChatInv, InStep, HeardTypeOK, SubscribersAreMembers, FramesTellTheTruth, Members,
              IsMember, Writable, chatVars, roomVars, roomTables, hubVars
<1> QED
  BY <1>1, <1>2, <1>3, <1>4, <1>5, <1>6, UnannouncedKeepsStep, SubscriptionKeepsStep,
     SocketsKeepStep DEF ChatNext

LEMMA ChatInvariant == ChatSpec => []InStep
<1>1. ChatInit => InStep
  BY DEF ChatInit, HubInit, InStep, HeardTypeOK, HeardNothing, SubscribersAreMembers,
         FramesTellTheTruth, Writable
<1>2. SeatInv /\ HubInv /\ InStep /\ [ChatNext]_chatVars => InStep'
  BY InStepStep DEF ChatInv
<1> QED
  BY <1>1, <1>2, ServerUsesRoomService, ServerUsesHub, SeatInvariant, HubInvariant, PTL
     DEF ChatSpec

\* Frames of a room go to its members only, although membership is checked once,
\* at subscription: no order of leaving, kicking, deleting, re-joining and
\* crashing leaves a subscription behind.
THEOREM OnlyMembersListen == ChatSpec => []SubscribersAreMembers
<1>1. InStep => SubscribersAreMembers
  BY DEF InStep
<1> QED
  BY <1>1, ChatInvariant, PTL

\* A client that applies the frames it is sent knows its subscriptions and the
\* members of their rooms.
THEOREM ListenersAreToldTheTruth == ChatSpec => []FramesTellTheTruth
<1>1. InStep => FramesTellTheTruth
  BY DEF InStep
<1> QED
  BY <1>1, ChatInvariant, PTL

\* The tables, the hub and what was heard of them stay well-formed.
THEOREM ChatTypeCorrect == ChatSpec => []ChatTypeOK
<1>1. RoomTypeOK /\ HubInv /\ InStep => ChatTypeOK
  BY DEF HubInv, InStep, HeardTypeOK, ChatTypeOK
<1> QED
  BY <1>1, ServerUsesRoomService, ServerUsesHub, RoomTypeCorrect, HubInvariant, ChatInvariant,
     PTL
===============================================================================
