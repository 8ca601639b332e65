---------------------------------- MODULE Hub ----------------------------------
(***************************************************************************)
(* backend/src/ws/hub.js and the life of a connection in ws/server.js: who *)
(* is connected, which connection is subscribed to which room, and the     *)
(* timer that announces, some time after his last connection closed, that  *)
(* a user is offline (schedulePresenceOffline of ws/broadcaster.js).       *)
(*                                                                         *)
(* The hub keeps each subscription twice (the Set on the ws object and the *)
(* Set of the room), which the code must keep equal by hand, and it keeps  *)
(* timers that outlive the connections they were started for.              *)
(*                                                                         *)
(* A connection is open, lost (the peer vanished and the server does not   *)
(* know), or closing (readyState is no longer OPEN, the 'close' event has  *)
(* not been emitted).  The ws library may still hand out frames it had     *)
(* buffered until it emits 'close'.  After that the ws object is garbage   *)
(* and the model uses its id for a later connection.                       *)
(***************************************************************************)
EXTENDS ChatBase

CONSTANT Conns    \* ids of WebSocket connections

VARIABLES
    sock,         \* state of each connection
    uid,          \* ws.uid
    userConns,    \* hub.userConns; the empty set is the absent entry
    roomSubs,     \* hub.roomSubscribers; the empty set is the absent entry
    subRooms,     \* ws.subscribedRooms
    timer         \* hub.offlineTimers: the rooms it will tell; empty if none

hubVars == <<sock, uid, userConns, roomSubs, subRooms, timer>>

HubTypeOK ==
    /\ sock \in [Conns -> {"none", "open", "lost", "closing"}]
    /\ uid \in [Conns -> Users \cup {NULL}]
    /\ userConns \in [Users -> SUBSET Conns]
    /\ roomSubs \in [Rooms -> SUBSET Conns]
    /\ subRooms \in [Conns -> SUBSET Rooms]
    /\ timer \in [Users -> SUBSET Rooms]
    /\ \A c \in Conns : sock[c] # "none" => uid[c] \in Users

HubInit ==
    /\ sock = [c \in Conns |-> "none"]
    /\ uid = [c \in Conns |-> NULL]
    /\ userConns = [u \in Users |-> {}]
    /\ roomSubs = [r \in Rooms |-> {}]
    /\ subRooms = [c \in Conns |-> {}]
    /\ timer = [u \in Users |-> {}]

\* hub.has
Has(u) == userConns[u] # {}

\* sendRaw writes to a socket whose readyState is OPEN, dead peer or not.
Writable(c) == sock[c] \in {"open", "lost"}

\* The ws object is alive: its handlers may still run.
Attached(c) == sock[c] # "none"

-------------------------------------------------------------------------------
\* clearTimeout and delete in addConn.  The mutants leave the timer running, or
\* leave an undefined timer in the Map.
CancelTimer_Forgotten(u) == UNCHANGED timer
CancelTimer_Undefined(u) == timer' = [timer EXCEPT ![u] = {NULL}]
CancelTimer(u) == timer' = [timer EXCEPT ![u] = {}]

\* setupConnection, hub.addConn
AddConn(c, u) ==
    /\ ~Attached(c)
    /\ sock' = [sock EXCEPT ![c] = "open"]
    /\ uid' = [uid EXCEPT ![c] = u]
    /\ subRooms' = [subRooms EXCEPT ![c] = {}]
    /\ userConns' = [userConns EXCEPT ![u] = @ \cup {c}]
    /\ CancelTimer(u)
    /\ UNCHANGED roomSubs

\* The peer's network disappears without a word.
PeerVanishes(c) ==
    /\ sock[c] = "open"
    /\ sock' = [sock EXCEPT ![c] = "lost"]
    /\ UNCHANGED <<uid, userConns, roomSubs, subRooms, timer>>

\* The peer closes, or its end of the connection is reset.
PeerCloses(c) ==
    /\ Writable(c)
    /\ sock' = [sock EXCEPT ![c] = "closing"]
    /\ UNCHANGED <<uid, userConns, roomSubs, subRooms, timer>>

\* Nothing came from the peer for heartbeatTimeoutMs: ws.terminate().  The
\* mutant is a heartbeat that is armed only for peers that answer.
HeartbeatRunsFor_Answering(c) == sock[c] = "open"
HeartbeatRunsFor(c) == Writable(c)

HeartbeatTimeout(c) ==
    /\ HeartbeatRunsFor(c)
    /\ sock' = [sock EXCEPT ![c] = "closing"]
    /\ UNCHANGED <<uid, userConns, roomSubs, subRooms, timer>>

\* schedulePresenceOffline, called when the last connection had subscriptions;
\* the rooms are those of this connection only.  The mutant takes them after
\* rooms.clear().
ScheduleOffline_Cleared(u, rooms) == timer' = [timer EXCEPT ![u] = {}]
ScheduleOffline(u, rooms) == timer' = [timer EXCEPT ![u] = rooms]

\* Leave the subscriber sets of these rooms.  The mutant skips that.
LeaveRoomSets_Skipped(cs, rooms) == UNCHANGED roomSubs
LeaveRoomSets(cs, rooms) ==
    roomSubs' = [r \in Rooms |-> IF r \in rooms THEN roomSubs[r] \ cs ELSE roomSubs[r]]

\* The 'close' event: hub.removeConn, then the timer.
CloseEvent(c) ==
    LET u == uid[c] IN
    /\ sock[c] = "closing"
    /\ sock' = [sock EXCEPT ![c] = "none"]
    /\ uid' = [uid EXCEPT ![c] = NULL]
    /\ LeaveRoomSets({c}, subRooms[c])
    /\ subRooms' = [subRooms EXCEPT ![c] = {}]
    /\ userConns' = [userConns EXCEPT ![u] = @ \ {c}]
    /\ IF userConns[u] = {c} /\ subRooms[c] # {}
         THEN ScheduleOffline(u, subRooms[c])
         ELSE UNCHANGED timer

\* The timer fires.  The presence frames it sends leave the hub as it is.
OfflineTimerFires(u) ==
    /\ timer[u] # {}
    /\ timer' = [timer EXCEPT ![u] = {}]
    /\ UNCHANGED <<sock, uid, userConns, roomSubs, subRooms>>

-------------------------------------------------------------------------------
\* hub.subscribe
Subscribe(c, r) ==
    /\ Attached(c)
    /\ subRooms' = [subRooms EXCEPT ![c] = @ \cup {r}]
    /\ roomSubs' = [roomSubs EXCEPT ![r] = @ \cup {c}]
    /\ UNCHANGED <<sock, uid, userConns, timer>>

\* hub.unsubscribe
Unsubscribe(c, r) ==
    /\ Attached(c)
    /\ subRooms' = [subRooms EXCEPT ![c] = @ \ {r}]
    /\ LeaveRoomSets({c}, subRooms[c] \cap {r})
    /\ UNCHANGED <<sock, uid, userConns, timer>>

\* hub.removeUserFromRoom: all connections of the user
RemoveUserFromRoom(u, r) ==
    /\ subRooms' = [c \in Conns |-> IF c \in userConns[u] THEN subRooms[c] \ {r}
                                                          ELSE subRooms[c]]
    /\ LeaveRoomSets(userConns[u], {r})
    /\ UNCHANGED <<sock, uid, userConns, timer>>

\* hub.clearRoom
ClearRoom(r) ==
    /\ subRooms' = [c \in Conns |-> IF c \in roomSubs[r] THEN subRooms[c] \ {r}
                                                         ELSE subRooms[c]]
    /\ roomSubs' = [roomSubs EXCEPT ![r] = {}]
    /\ UNCHANGED <<sock, uid, userConns, timer>>

\* The process dies: sockets, hub and timers go with it.
HubLost ==
    /\ sock' = [c \in Conns |-> "none"]
    /\ uid' = [c \in Conns |-> NULL]
    /\ userConns' = [u \in Users |-> {}]
    /\ roomSubs' = [r \in Rooms |-> {}]
    /\ subRooms' = [c \in Conns |-> {}]
    /\ timer' = [u \in Users |-> {}]

-------------------------------------------------------------------------------
\* What happens to sockets and timers whoever uses the hub
SocketStep ==
    \/ \E c \in Conns :
          \/ \E u \in Users : AddConn(c, u)
          \/ PeerVanishes(c) \/ PeerCloses(c) \/ HeartbeatTimeout(c) \/ CloseEvent(c)
    \/ \E u \in Users : OfflineTimerFires(u)

\* The calls of handlers and routes, in any order
HubCall ==
    \/ \E c \in Conns, r \in Rooms : Subscribe(c, r) \/ Unsubscribe(c, r)
    \/ \E u \in Users, r \in Rooms : RemoveUserFromRoom(u, r)
    \/ \E r \in Rooms : ClearRoom(r)

HubNext == SocketStep \/ HubCall \/ HubLost

\* Timers of the process fire and sockets that were torn down report it.  The
\* heartbeat of an open connection need not run out: its peer may keep sending.
HubFairness ==
    /\ \A c \in Conns : /\ WF_hubVars(sock[c] = "lost" /\ HeartbeatTimeout(c))
                        /\ WF_hubVars(CloseEvent(c))
    /\ \A u \in Users : WF_hubVars(OfflineTimerFires(u))

HubSafety == HubInit /\ [][HubNext]_hubVars
HubSpec   == HubSafety /\ HubFairness

-------------------------------------------------------------------------------
\* The two records of a subscription agree, and the connections of a user are
\* those that carry his id.
HubConsistent ==
    /\ \A c \in Conns, r \in Rooms : r \in subRooms[c] <=> c \in roomSubs[r]
    /\ \A c \in Conns, u \in Users : c \in userConns[u] <=> Attached(c) /\ uid[c] = u
    /\ \A c \in Conns : Attached(c) \/ subRooms[c] = {}

\* An offline timer waits only for a user who has no connection, so nobody who
\* is connected is announced as offline by it.
TimerOnlyWhenAway == \A u \in Users : timer[u] # {} => ~Has(u)

Forgotten(u) ==
    /\ ~Has(u) /\ timer[u] = {}
    /\ \A c \in Conns : uid[c] # u

\* A user whose peers have all gone for good, without a word or not, is
\* forgotten: no connection, no subscription and no timer of his is left.
GoneIsForgotten ==
    \A u \in Users :
        <>[](\A c \in Conns : uid[c] = u => sock[c] # "open") => <>[]Forgotten(u)
===============================================================================
