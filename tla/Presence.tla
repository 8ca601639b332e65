-------------------------------- MODULE Presence --------------------------------
(***************************************************************************)
(* Who is shown online to whom: presence.service.js, the presence frames   *)
(* of ws/broadcaster.js and handleSubscribe on top of the hub.             *)
(*                                                                         *)
(* A user is online if he has a connection or was seen within the last     *)
(* ONLINE_WINDOW_MS (isOnline).  A room learns of it by the list in the    *)
(* subscribe:ack, by an online frame when a user first subscribes, and by  *)
(* an offline frame that a timer sends some time after his last connection *)
(* closed.  Nothing is announced when the window of an agent, who never    *)
(* connects, has passed.                                                   *)
(*                                                                         *)
(* shown is what a client shows that applies the ack and every frame that  *)
(* reaches it; like the chat view it shows a user who joins as online.     *)
(* Memberships come and go as in ChatServer; here they are a set.          *)
(***************************************************************************)
EXTENDS Hub

VARIABLES
    member,    \* the members of each room
    recent,    \* last_seen_at is less than ONLINE_WINDOW_MS ago
    shown,     \* shown[c][r]: the users shown online to c in r
    owed       \* rooms still to be told since his last connection closed; a
               \* record of what happened, no state of the server

presenceVars == <<hubVars, member, recent, shown, owed>>

ShowsNobody == [r \in Rooms |-> {}]

PresenceTypeOK ==
    /\ HubTypeOK
    /\ member \in [Rooms -> SUBSET Users]
    /\ recent \in [Users -> BOOLEAN]
    /\ shown \in [Conns -> [Rooms -> SUBSET Users]]
    /\ owed \in [Users -> SUBSET Rooms]

PresenceInit ==
    /\ HubInit
    /\ member = [r \in Rooms |-> {}]
    /\ recent = [u \in Users |-> FALSE]
    /\ shown = [c \in Conns |-> ShowsNobody]
    /\ owed = [u \in Users |-> {}]

-------------------------------------------------------------------------------
\* isOnline
IsOnline(u) == Has(u) \/ recent[u]

\* touch: a call within TOUCH_THROTTLE_MS of the last write writes nothing, but
\* then last_seen_at is younger than that and well inside the window.
Touch(u) == recent' = [recent EXCEPT ![u] = TRUE]

\* Frames reach the subscribers whose peers are alive.
Audience(r) == {c \in roomSubs[r] : sock[c] = "open"}

\* firstSubForUid of hub.subscribe.  The mutant asks for the first connection.
FirstSub_Connection(c, r) == r \notin subRooms[c] /\ userConns[uid[c]] = {c}
FirstSub(c, r) == \A d \in userConns[uid[c]] : r \notin subRooms[d]

-------------------------------------------------------------------------------
\* setupConnection
Connect(c, u) ==
    /\ AddConn(c, u)
    /\ Touch(u)
    /\ owed' = [owed EXCEPT ![u] = {}]
    /\ UNCHANGED <<member, shown>>

\* handleSubscribe: the ack lists who is online; the other subscribers hear of
\* the user when it is his first subscription to the room.
HandleSubscribe(c, r) ==
    /\ Attached(c)
    /\ uid[c] \in member[r]
    /\ Subscribe(c, r)
    /\ shown' = [d \in Conns |->
          IF d = c
            THEN IF sock[c] = "open"
                   THEN [shown[c] EXCEPT ![r] = {u \in member[r] : IsOnline(u)}]
                   ELSE shown[c]
            ELSE IF d \in Audience(r) /\ FirstSub(c, r)
                   THEN [shown[d] EXCEPT ![r] = @ \cup {uid[c]}]
                   ELSE shown[d]]
    /\ Touch(uid[c])
    /\ UNCHANGED <<member, owed>>

\* handleUnsubscribe
HandleUnsubscribe(c, r) ==
    /\ Unsubscribe(c, r)
    /\ shown' = [shown EXCEPT ![c][r] = {}]
    /\ Touch(uid[c])
    /\ UNCHANGED <<member, owed>>

\* requireAuth, an MCP call, or any other frame of a connection
Request(u) ==
    /\ Touch(u)
    /\ UNCHANGED <<hubVars, member, shown, owed>>

\* A user joins and emitMemberJoined tells the room.
Join(u, r) ==
    /\ u \notin member[r]
    /\ member' = [member EXCEPT ![r] = @ \cup {u}]
    /\ shown' = [c \in Conns |-> IF c \in Audience(r)
                                   THEN [shown[c] EXCEPT ![r] = @ \cup {u}]
                                   ELSE shown[c]]
    /\ Touch(u)
    /\ UNCHANGED <<hubVars, owed>>

\* A user leaves, or another kicks him: emitMemberLeft, emitMemberKicked.
Depart(u, by, r) ==
    /\ u \in member[r]
    /\ member' = [member EXCEPT ![r] = @ \ {u}]
    /\ shown' = [c \in Conns |->
                   IF uid[c] = u THEN [shown[c] EXCEPT ![r] = {}]
                                 ELSE [shown[c] EXCEPT ![r] = @ \ {u}]]
    /\ RemoveUserFromRoom(u, r)
    /\ Touch(by)
    /\ UNCHANGED owed

-------------------------------------------------------------------------------
\* ONLINE_WINDOW_MS go by without a touch.
WindowPasses(u) ==
    /\ recent[u]
    /\ recent' = [recent EXCEPT ![u] = FALSE]
    /\ UNCHANGED <<hubVars, member, shown, owed>>

\* The peer is gone, or the connection is on its way out: its client shows
\* nothing any more.
Ends(c) ==
    /\ PeerVanishes(c) \/ PeerCloses(c) \/ HeartbeatTimeout(c)
    /\ shown' = [shown EXCEPT ![c] = ShowsNobody]
    /\ UNCHANGED <<member, recent, owed>>

\* The 'close' event
Close(c) ==
    /\ CloseEvent(c)
    /\ owed' = [owed EXCEPT ![uid[c]] = IF userConns[uid[c]] = {c} THEN subRooms[c] ELSE @]
    /\ UNCHANGED <<member, recent, shown>>

\* The offline timer: emitPresenceChanged to the rooms of the snapshot.
TellOffline(u) ==
    /\ OfflineTimerFires(u)
    /\ shown' = [c \in Conns |-> [r \in Rooms |->
                   IF ~Has(u) /\ r \in timer[u] /\ c \in Audience(r)
                     THEN shown[c][r] \ {u} ELSE shown[c][r]]]
    /\ owed' = [owed EXCEPT ![u] = @ \ timer[u]]
    /\ UNCHANGED <<member, recent>>

\* The process dies: its clients lose their connections and start afresh.
Crash ==
    /\ HubLost
    /\ shown' = [c \in Conns |-> ShowsNobody]
    /\ owed' = [u \in Users |-> {}]
    /\ UNCHANGED <<member, recent>>

PresenceNext ==
    \/ \E c \in Conns :
          \/ \E u \in Users : Connect(c, u)
          \/ \E r \in Rooms : HandleSubscribe(c, r) \/ HandleUnsubscribe(c, r)
          \/ Ends(c) \/ Close(c)
    \/ \E u \in Users :
          \/ \E r \in Rooms : Join(u, r) \/ \E by \in Users : Depart(u, by, r)
          \/ Request(u) \/ WindowPasses(u) \/ TellOffline(u)
    \/ Crash

\* As for the hub: timers fire and torn-down sockets report it.
PresenceFairness ==
    /\ \A c \in Conns : /\ WF_presenceVars(sock[c] = "lost" /\ HeartbeatTimeout(c) /\ Ends(c))
                        /\ WF_presenceVars(Close(c))
    /\ \A u \in Users : WF_presenceVars(TellOffline(u))

PresenceSafety == PresenceInit /\ [][PresenceNext]_presenceVars
PresenceSpec   == PresenceSafety /\ PresenceFairness

-------------------------------------------------------------------------------
\* Whoever has a tab on a room is shown online to all who watch the room:
\* through second tabs, pending timers and reconnections, departures and
\* returns.  Online frames are sent for first subscriptions only, so somebody
\* must have kept what they said.
HereIsShown ==
    \A c, d \in Conns : \A r \in subRooms[c] \cap subRooms[d] :
        sock[c] = "open" => uid[d] \in shown[c][r]

SeenByNobody(u, r) == \A c \in Conns : u \notin shown[c][r]

\* A room that a user's last connection was subscribed to when it closed hears
\* that he is offline, unless he comes back first.
LeaverIsShownOffline ==
    \A u \in Users, r \in Rooms :
        r \in owed[u] ~> r \notin owed[u] /\ (Has(u) \/ SeenByNobody(u, r))

\* docs/ws-protocol.md: when the last connection of a user closes and he stays
\* away, he is broadcast as offline.  So whoever shows him then will stop.
GoneIsAnnounced ==
    \A u \in Users, c \in Conns, r \in Rooms :
        userConns[u] = {c} /\ sock[c] = "closing"
            ~> SeenByNobody(u, r) \/ \E d \in userConns[u] : sock[d] = "open"
===============================================================================
