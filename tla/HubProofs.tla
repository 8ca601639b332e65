------------------------------- MODULE HubProofs -------------------------------
(***************************************************************************)
(* Theorems about Hub for any number of users, rooms and connections, and  *)
(* for callers that use it in any order.                                   *)
(***************************************************************************)
EXTENDS Hub, TLAPS

HubInv == HubTypeOK /\ HubConsistent /\ TimerOnlyWhenAway

LEMMA HubInitially == HubInit => HubInv
BY DEF HubInit, HubInv, HubTypeOK, HubConsistent, TimerOnlyWhenAway, Attached, Has

LEMMA HubTypeStep == HubInv /\ [HubNext]_hubVars => HubTypeOK'
<1> SUFFICES ASSUME HubInv, [HubNext]_hubVars
             PROVE  HubTypeOK'
  OBVIOUS
<1>t. HubTypeOK
  BY DEF HubInv
<1> USE DEF HubTypeOK
<1>1. ASSUME NEW c \in Conns, NEW u \in Users, AddConn(c, u)
      PROVE  HubTypeOK'
  BY <1>1, <1>t DEF AddConn, CancelTimer
<1>2. ASSUME NEW c \in Conns, PeerVanishes(c) \/ PeerCloses(c) \/ HeartbeatTimeout(c)
      PROVE  HubTypeOK'
  BY <1>2, <1>t DEF PeerVanishes, PeerCloses, HeartbeatTimeout, HeartbeatRunsFor, Writable
<1>3. ASSUME NEW c \in Conns, CloseEvent(c)
      PROVE  HubTypeOK'
  BY <1>3, <1>t DEF CloseEvent, ScheduleOffline, LeaveRoomSets
<1>4. ASSUME NEW u \in Users, OfflineTimerFires(u)
      PROVE  HubTypeOK'
  BY <1>4, <1>t DEF OfflineTimerFires
<1>5. ASSUME NEW c \in Conns, NEW r \in Rooms, Subscribe(c, r) \/ Unsubscribe(c, r)
      PROVE  HubTypeOK'
  BY <1>5, <1>t DEF Subscribe, Unsubscribe, LeaveRoomSets
<1>6. ASSUME NEW u \in Users, NEW r \in Rooms, RemoveUserFromRoom(u, r)
      PROVE  HubTypeOK'
  BY <1>6, <1>t DEF RemoveUserFromRoom, LeaveRoomSets
<1>7. ASSUME NEW r \in Rooms, ClearRoom(r)
      PROVE  HubTypeOK'
  BY <1>7, <1>t DEF ClearRoom
<1>8. CASE HubLost
  BY <1>8 DEF HubLost
<1>9. CASE UNCHANGED hubVars
  BY <1>9, <1>t DEF hubVars
<1> QED
  BY <1>1, <1>2, <1>3, <1>4, <1>5, <1>6, <1>7, <1>8, <1>9 DEF HubNext, SocketStep, HubCall

LEMMA HubConsistentStep == HubInv /\ [HubNext]_hubVars => HubConsistent'
<1> SUFFICES ASSUME HubInv, [HubNext]_hubVars
             PROVE  HubConsistent'
  OBVIOUS
<1>t. HubTypeOK
  BY DEF HubInv
<1>c. HubConsistent
  BY DEF HubInv
<1> USE DEF HubTypeOK, HubConsistent, Attached
<1>1. ASSUME NEW c \in Conns, NEW u \in Users, AddConn(c, u)
      PROVE  HubConsistent'
  BY <1>1, <1>t, <1>c DEF AddConn
<1>2. ASSUME NEW c \in Conns, PeerVanishes(c) \/ PeerCloses(c) \/ HeartbeatTimeout(c)
      PROVE  HubConsistent'
  BY <1>2, <1>t, <1>c DEF PeerVanishes, PeerCloses, HeartbeatTimeout, HeartbeatRunsFor, Writable
<1>3. ASSUME NEW c \in Conns, CloseEvent(c)
      PROVE  HubConsistent'
  BY <1>3, <1>t, <1>c DEF CloseEvent, LeaveRoomSets
<1>4. ASSUME NEW u \in Users, OfflineTimerFires(u)
      PROVE  HubConsistent'
  BY <1>4, <1>t, <1>c DEF OfflineTimerFires
<1>5. ASSUME NEW c \in Conns, NEW r \in Rooms, Subscribe(c, r) \/ Unsubscribe(c, r)
      PROVE  HubConsistent'
  BY <1>5, <1>t, <1>c DEF Subscribe, Unsubscribe, LeaveRoomSets
<1>6. ASSUME NEW u \in Users, NEW r \in Rooms, RemoveUserFromRoom(u, r)
      PROVE  HubConsistent'
  BY <1>6, <1>t, <1>c DEF RemoveUserFromRoom, LeaveRoomSets
<1>7. ASSUME NEW r \in Rooms, ClearRoom(r)
      PROVE  HubConsistent'
  BY <1>7, <1>t, <1>c DEF ClearRoom
<1>8. CASE HubLost
  BY <1>8 DEF HubLost
<1>9. CASE UNCHANGED hubVars
  BY <1>9, <1>t, <1>c DEF hubVars
<1> QED
  BY <1>1, <1>2, <1>3, <1>4, <1>5, <1>6, <1>7, <1>8, <1>9 DEF HubNext, SocketStep, HubCall

LEMMA TimerStep == HubInv /\ [HubNext]_hubVars => TimerOnlyWhenAway'
<1> SUFFICES ASSUME HubInv, [HubNext]_hubVars, NEW v \in Users, timer'[v] # {}
             PROVE  userConns'[v] = {}
  BY DEF TimerOnlyWhenAway, Has
<1>t. HubTypeOK
  BY DEF HubInv
<1>w. timer[v] # {} => userConns[v] = {}
  BY DEF HubInv, TimerOnlyWhenAway, Has
<1> USE DEF HubTypeOK
<1>1. ASSUME NEW c \in Conns, NEW u \in Users, AddConn(c, u)
      PROVE  userConns'[v] = {}
  BY <1>1, <1>t, <1>w DEF AddConn, CancelTimer
<1>2. ASSUME NEW c \in Conns, CloseEvent(c)
      PROVE  userConns'[v] = {}
  <2>1. uid[c] \in Users
    BY <1>2, <1>t DEF CloseEvent
  <2>2. CASE v = uid[c] /\ userConns[v] = {c}
    BY <1>2, <1>t, <2>2 DEF CloseEvent
  <2>3. CASE ~(v = uid[c] /\ userConns[v] = {c})
    BY <1>2, <1>t, <1>w, <2>1, <2>3 DEF CloseEvent, ScheduleOffline
  <2> QED
    BY <2>2, <2>3
<1>3. ASSUME NEW u \in Users, OfflineTimerFires(u)
      PROVE  userConns'[v] = {}
  BY <1>3, <1>t, <1>w DEF OfflineTimerFires
<1>4. CASE HubLost
  BY <1>4 DEF HubLost
<1>5. ASSUME UNCHANGED <<userConns, timer>>
      PROVE  userConns'[v] = {}
  BY <1>5, <1>w
<1> QED
  BY <1>1, <1>2, <1>3, <1>4, <1>5
     DEF HubNext, SocketStep, HubCall, PeerVanishes, PeerCloses, HeartbeatTimeout, Subscribe,
         Unsubscribe, RemoveUserFromRoom, ClearRoom, hubVars

LEMMA HubInvariant == HubSafety => []HubInv
<1>1. HubInv /\ [HubNext]_hubVars => HubInv'
  BY HubTypeStep, HubConsistentStep, TimerStep DEF HubInv
<1> QED
  BY HubInitially, <1>1, PTL DEF HubSafety

\* The Set of a ws object and the Sets of the rooms never disagree, whatever
\* handlers, routes and 'close' events do in whatever order.
THEOREM HubStaysConsistent == HubSpec => []HubConsistent
<1>1. HubInv => HubConsistent
  BY DEF HubInv
<1> QED
  BY <1>1, HubInvariant, PTL DEF HubSpec

\* A pending offline timer belongs to a user without connections: the check for
\* a reconnection in the timer's callback never has anything to skip.
THEOREM TimersAreForTheAway == HubSpec => []TimerOnlyWhenAway
<1>1. HubInv => TimerOnlyWhenAway
  BY DEF HubInv
<1> QED
  BY <1>1, HubInvariant, PTL DEF HubSpec
===============================================================================
