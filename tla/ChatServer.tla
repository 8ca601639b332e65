------------------------------- MODULE ChatServer -------------------------------
(***************************************************************************)
(* The backend as its clients meet it: RoomService and Hub joined by the   *)
(* REST routes (routes/room.routes.js), the MCP tools that do the same     *)
(* (mcp/server.js), the WebSocket handlers (ws/handlers.js) and the        *)
(* broadcaster (ws/broadcaster.js).                                        *)
(*                                                                         *)
(* A route changes the tables, then tells the subscribers of the room,     *)
(* then corrects the subscriptions, all before anything else runs.  The    *)
(* tables survive a crash, the hub does not; nothing but these routes      *)
(* keeps the two in step.                                                  *)
(*                                                                         *)
(* heard is what a client believes that reads the member list of a room at *)
(* the moment its connection is subscribed and applies every frame it is   *)
(* sent from then on: the members of each room it is subscribed to.  It is *)
(* no state of the server.                                                 *)
(***************************************************************************)
EXTENDS RoomService, Hub

VARIABLE heard    \* heard[c][r]: the members of r as c knows them, or nobody

chatVars == <<roomVars, hubVars, heard>>

ChatTypeOK ==
    /\ RoomTypeOK
    /\ HubTypeOK
    /\ heard \in [Conns -> [Rooms -> SUBSET Users]]

HeardNothing == [r \in Rooms |-> {}]

ChatInit ==
    /\ RoomInit
    /\ HubInit
    /\ heard = [c \in Conns |-> HeardNothing]

-------------------------------------------------------------------------------
\* hub.broadcastRoom: every subscriber that can be written to learns its news.
Broadcast(r, audience, news) ==
    heard' = [c \in Conns |-> IF c \in audience /\ Writable(c)
                                THEN [heard[c] EXCEPT ![r] = news[c]]
                                ELSE heard[c]]

\* emitMemberJoined
EmitMemberJoined(r, u) ==
    /\ Broadcast(r, roomSubs[r], [c \in Conns |-> heard[c][r] \cup {u}])
    /\ UNCHANGED hubVars

\* emitMemberLeft and emitMemberKicked: first tell everybody, the user who goes
\* included, then take away his subscriptions.  The mutant does it the other way
\* round.
News(r, u) == [c \in Conns |-> IF uid[c] = u THEN {} ELSE heard[c][r] \ {u}]

EmitMemberLeft_Swapped(r, u) ==
    /\ RemoveUserFromRoom(u, r)
    /\ Broadcast(r, roomSubs[r] \ userConns[u], News(r, u))

EmitMemberLeft(r, u) ==
    /\ Broadcast(r, roomSubs[r], News(r, u))
    /\ RemoveUserFromRoom(u, r)

\* emitRoomDeleted
EmitRoomDeleted(r) ==
    /\ Broadcast(r, roomSubs[r], [c \in Conns |-> {}])
    /\ ClearRoom(r)

-------------------------------------------------------------------------------
\* Requests and passing time that no subscriber is told about.  emitRoomUpdated
\* carries no data and the clients do nothing with it.
Unannounced ==
    /\ \/ \E u \in Users, r \in Rooms, p \in Passwords, max \in MaxMembersArgs :
             CreateRoom(u, r, p, max)
       \/ \E q \in Reqs, u \in Users, r \in Rooms, p \in Passwords :
             JoinBegin(q, u, r, p) \/ SetPasswordBegin(q, u, r, p)
       \/ \E q \in Reqs : JoinFail(q) \/ JoinFull(q) \/ SetPasswordCommit(q)
       \/ \E u \in Users, r \in Rooms : LockExpires(r, u)
       \/ Tick
    /\ UNCHANGED <<hubVars, heard>>

\* POST /rooms/join and chat_join_room.  A second join that was in flight tells
\* the room again that its user has joined.
JoinRoute(q) ==
    /\ JoinAdmit(q)
    /\ EmitMemberJoined(reqs[q].room, reqs[q].user)

\* POST /rooms/:id/leave and chat_leave_room
LeaveRoute(u, r) ==
    \/ /\ LeaveAsMember(u, r) \/ \E heir \in Users : LeaveTransfer(u, r, heir)
       /\ EmitMemberLeft(r, u)
    \/ /\ LeaveDelete(u, r)
       /\ EmitRoomDeleted(r)

\* POST /rooms/:id/kick
KickRoute(u, r, target) ==
    /\ KickMember(u, r, target)
    /\ EmitMemberLeft(r, target)

\* DELETE /rooms/:id
DeleteRoute(u, r) ==
    /\ DeleteRoom(u, r)
    /\ EmitRoomDeleted(r)

\* What handleSubscribe asks: a row in room_members, and nothing about the room.
\* The mutant asks about the room only.
MaySubscribe_LiveRoom(c, r) == RoomExists(r)
MaySubscribe(c, r) == IsMember(r, uid[c])

\* handleSubscribe: the ack is not sent to a socket that is closing.
HandleSubscribe(c, r) ==
    /\ Attached(c)
    /\ MaySubscribe(c, r)
    /\ Subscribe(c, r)
    /\ heard' = IF Writable(c) THEN [heard EXCEPT ![c][r] = Members(r)] ELSE heard
    /\ UNCHANGED roomVars

\* handleUnsubscribe
HandleUnsubscribe(c, r) ==
    /\ Unsubscribe(c, r)
    /\ heard' = IF Writable(c) THEN [heard EXCEPT ![c][r] = {}] ELSE heard
    /\ UNCHANGED roomVars

\* A new connection has been told nothing.
Sockets ==
    /\ SocketStep
    /\ heard' = [c \in Conns |-> IF Attached(c) /\ Attached(c)' THEN heard[c]
                                                            ELSE HeardNothing]
    /\ UNCHANGED roomVars

\* The process dies, at rest or between two statements, and is restarted.
Crash ==
    /\ \/ RoomCrash
       \/ \E q \in Reqs : JoinAdmitCrash(q)
       \/ \E u \in Users, r \in Rooms : LeaveDeleteCrash(u, r)
    /\ HubLost
    /\ heard' = [c \in Conns |-> HeardNothing]

ChatNext ==
    \/ Unannounced
    \/ \E q \in Reqs : JoinRoute(q)
    \/ \E u \in Users, r \in Rooms : LeaveRoute(u, r) \/ DeleteRoute(u, r)
    \/ \E u, target \in Users, r \in Rooms : KickRoute(u, r, target)
    \/ \E c \in Conns, r \in Rooms : HandleSubscribe(c, r) \/ HandleUnsubscribe(c, r)
    \/ Sockets
    \/ Crash

ChatSpec == ChatInit /\ [][ChatNext]_chatVars

-------------------------------------------------------------------------------
\* handleSubscribe checks membership once.  Whoever is subscribed later on is
\* still a member, so frames of a room reach its members only: every route that
\* ends a membership also ends the subscriptions of all connections of the user.
SubscribersAreMembers ==
    \A c \in Conns : \A r \in subRooms[c] : IsMember(r, uid[c])

\* The frames sent to a connection add up to the truth: it believes to be
\* subscribed to the rooms it is subscribed to, and knows their members.
FramesTellTheTruth ==
    \A c \in Conns : Writable(c) =>
        \A r \in Rooms :
            heard[c][r] = IF r \in subRooms[c] THEN Members(r) ELSE {}

\* docs/ws-protocol.md: subscribing to a deleted room is refused.
NoAudienceInDeletedRoom ==
    \A r \in Rooms : status[r] = "deleted" => roomSubs[r] = {}
===============================================================================
