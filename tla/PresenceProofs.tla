----------------------------- MODULE PresenceProofs -----------------------------
(***************************************************************************)
(* Theorems about Presence, on top of those about Hub.                     *)
(***************************************************************************)
EXTENDS Presence, HubProofs

LEMMA PresenceStepIsHubStep == [PresenceNext]_presenceVars => [HubNext]_hubVars
<1> SUFFICES ASSUME [PresenceNext]_presenceVars
             PROVE  [HubNext]_hubVars
  OBVIOUS
<1>1. CASE UNCHANGED hubVars
  BY <1>1
<1>2. ASSUME NEW c \in Conns, NEW r \in Rooms, Subscribe(c, r) \/ Unsubscribe(c, r)
      PROVE  HubNext
  BY <1>2 DEF HubNext, HubCall
<1>3. ASSUME NEW u \in Users, NEW r \in Rooms, RemoveUserFromRoom(u, r)
      PROVE  HubNext
  BY <1>3 DEF HubNext, HubCall
<1>4. ASSUME NEW c \in Conns, NEW u \in Users,
             \/ AddConn(c, u) \/ PeerVanishes(c) \/ PeerCloses(c) \/ HeartbeatTimeout(c)
             \/ CloseEvent(c) \/ OfflineTimerFires(u)
      PROVE  HubNext
  BY <1>4 DEF HubNext, SocketStep
<1>5. CASE HubLost
  BY <1>5 DEF HubNext
<1>6. ASSUME NEW c \in Conns, PeerVanishes(c) \/ PeerCloses(c) \/ HeartbeatTimeout(c) \/ CloseEvent(c)
      PROVE  HubNext
  BY <1>6 DEF HubNext, SocketStep
<1>7. ASSUME NEW u \in Users, OfflineTimerFires(u)
      PROVE  HubNext
  BY <1>7 DEF HubNext, SocketStep
<1> QED
  BY <1>1, <1>2, <1>3, <1>4, <1>5, <1>6, <1>7
     DEF PresenceNext, presenceVars, Connect, HandleSubscribe, HandleUnsubscribe, Ends, Close,
         Join, Depart, Request, WindowPasses, TellOffline, Crash

\* The presence layer is one more user of the hub.
THEOREM PresenceUsesHub == PresenceSafety => HubSafety
BY PresenceStepIsHubStep, PTL DEF PresenceSafety, HubSafety, PresenceInit

-------------------------------------------------------------------------------
(***************************************************************************)
(* The invariant.  A subscriber's ack lists members only, so whoever is    *)
(* subscribed must be a member, or a later subscriber would miss him.      *)
(***************************************************************************)
ShownTypeOK ==
    /\ member \in [Rooms -> SUBSET Users]
    /\ shown \in [Conns -> [Rooms -> SUBSET Users]]

WatchersAreMembers == \A d \in Conns : \A r \in subRooms[d] : uid[d] \in member[r]

ShownInv == HubInv /\ ShownTypeOK /\ WatchersAreMembers /\ HereIsShown

\* What the steps below use of the hub.
LEMMA HubFacts ==
    ASSUME HubInv
    PROVE  /\ HubTypeOK
           /\ \A c \in Conns, r \in Rooms : r \in subRooms[c] <=> c \in roomSubs[r]
           /\ \A c \in Conns, u \in Users : c \in userConns[u] <=> Attached(c) /\ uid[c] = u
           /\ \A c \in Conns : subRooms[c] # {} => Attached(c) /\ uid[c] \in Users
           /\ \A c \in Conns : subRooms[c] \subseteq Rooms
BY DEF HubInv, HubConsistent, HubTypeOK, Attached

LEMMA ShownTypeStep == HubInv /\ ShownTypeOK /\ [PresenceNext]_presenceVars => ShownTypeOK'
<1> SUFFICES ASSUME HubInv, ShownTypeOK, [PresenceNext]_presenceVars
             PROVE  ShownTypeOK'
  OBVIOUS
<1>h. HubTypeOK /\ \A c \in Conns : subRooms[c] # {} => uid[c] \in Users
  BY HubFacts
<1> USE DEF ShownTypeOK
<1>1. ASSUME NEW c \in Conns, NEW r \in Rooms, HandleSubscribe(c, r)
      PROVE  ShownTypeOK'
  <2>1. uid[c] \in Users
    BY <1>1, <1>h DEF HandleSubscribe, Attached, HubTypeOK
  <2>2. /\ [shown[c] EXCEPT ![r] = {u \in member[r] : IsOnline(u)}] \in [Rooms -> SUBSET Users]
        /\ \A d \in Conns : [shown[d] EXCEPT ![r] = @ \cup {uid[c]}] \in [Rooms -> SUBSET Users]
    BY <2>1
  <2> QED
    BY <1>1, <2>2 DEF HandleSubscribe
<1>2. ASSUME NEW c \in Conns, NEW r \in Rooms, HandleUnsubscribe(c, r)
      PROVE  ShownTypeOK'
  BY <1>2 DEF HandleUnsubscribe
<1>3. ASSUME NEW u \in Users, NEW r \in Rooms, Join(u, r)
      PROVE  ShownTypeOK'
  BY <1>3 DEF Join
<1>4. ASSUME NEW u \in Users, NEW by \in Users, NEW r \in Rooms, Depart(u, by, r)
      PROVE  ShownTypeOK'
  BY <1>4 DEF Depart
<1>5. ASSUME NEW c \in Conns, Ends(c)
      PROVE  ShownTypeOK'
  BY <1>5 DEF Ends, ShowsNobody
<1>6. ASSUME NEW u \in Users, TellOffline(u)
      PROVE  ShownTypeOK'
  BY <1>6 DEF TellOffline
<1>7. CASE Crash
  BY <1>7 DEF Crash, ShowsNobody
<1>8. CASE UNCHANGED <<member, shown>>
  BY <1>8
<1> QED
  BY <1>1, <1>2, <1>3, <1>4, <1>5, <1>6, <1>7, <1>8
     DEF PresenceNext, presenceVars, Connect, Close, Request, WindowPasses

LEMMA WatchersStep == ShownInv /\ [PresenceNext]_presenceVars => WatchersAreMembers'
<1> SUFFICES ASSUME ShownInv, [PresenceNext]_presenceVars,
                    NEW d \in Conns, NEW s \in subRooms'[d]
             PROVE  uid'[d] \in member'[s]
  BY DEF WatchersAreMembers
<1>h. /\ HubTypeOK
      /\ \A c \in Conns, u \in Users : c \in userConns[u] <=> Attached(c) /\ uid[c] = u
      /\ \A c \in Conns : subRooms[c] # {} => Attached(c) /\ uid[c] \in Users
      /\ \A c \in Conns : subRooms[c] \subseteq Rooms
  BY HubFacts DEF ShownInv
<1>m. ShownTypeOK /\ WatchersAreMembers
  BY DEF ShownInv
<1>1. ASSUME NEW c \in Conns, NEW u \in Users, Connect(c, u)
      PROVE  uid'[d] \in member'[s]
  BY <1>1, <1>h, <1>m DEF Connect, AddConn, HubTypeOK, WatchersAreMembers
<1>2. ASSUME NEW c \in Conns, NEW r \in Rooms, HandleSubscribe(c, r) \/ HandleUnsubscribe(c, r)
      PROVE  uid'[d] \in member'[s]
  BY <1>2, <1>h, <1>m DEF HandleSubscribe, HandleUnsubscribe, Subscribe, Unsubscribe, HubTypeOK,
                         WatchersAreMembers
<1>3. ASSUME NEW u \in Users, NEW r \in Rooms, Join(u, r)
      PROVE  uid'[d] \in member'[s]
  BY <1>3, <1>h, <1>m DEF Join, hubVars, ShownTypeOK, WatchersAreMembers
<1>4. ASSUME NEW u \in Users, NEW by \in Users, NEW r \in Rooms, Depart(u, by, r)
      PROVE  uid'[d] \in member'[s]
  <2>1. s \in subRooms[d] /\ uid'[d] = uid[d] /\ (s = r => d \notin userConns[u])
    BY <1>4, <1>h DEF Depart, RemoveUserFromRoom, HubTypeOK
  <2>2. s = r => uid[d] # u
    BY <1>h, <2>1
  <2> QED
    BY <1>4, <1>h, <1>m, <2>1, <2>2 DEF Depart, ShownTypeOK, WatchersAreMembers
<1>5. ASSUME NEW c \in Conns, Ends(c) \/ Close(c)
      PROVE  uid'[d] \in member'[s]
  BY <1>5, <1>h, <1>m DEF Ends, Close, PeerVanishes, PeerCloses, HeartbeatTimeout, CloseEvent,
                         HubTypeOK, WatchersAreMembers
<1>6. CASE Crash
  BY <1>6 DEF Crash, HubLost
<1>7. CASE UNCHANGED <<uid, subRooms, member>>
  BY <1>7, <1>m DEF WatchersAreMembers
<1> QED
  BY <1>1, <1>2, <1>3, <1>4, <1>5, <1>6, <1>7
     DEF PresenceNext, presenceVars, hubVars, Request, WindowPasses, TellOffline, OfflineTimerFires

\* One watcher c, one subscription of d, one case per action.
LEMMA HereIsShownStep == ShownInv /\ [PresenceNext]_presenceVars => HereIsShown'
<1> SUFFICES ASSUME ShownInv, [PresenceNext]_presenceVars,
                    NEW c \in Conns, NEW d \in Conns, NEW s \in subRooms'[c] \cap subRooms'[d],
                    sock'[c] = "open"
             PROVE  uid'[d] \in shown'[c][s]
  BY DEF HereIsShown
<1>h. /\ HubTypeOK
      /\ \A e \in Conns, r \in Rooms : r \in subRooms[e] <=> e \in roomSubs[r]
      /\ \A e \in Conns, u \in Users : e \in userConns[u] <=> Attached(e) /\ uid[e] = u
      /\ \A e \in Conns : subRooms[e] # {} => Attached(e) /\ uid[e] \in Users
      /\ \A e \in Conns : subRooms[e] \subseteq Rooms
  BY HubFacts DEF ShownInv
<1>m. ShownTypeOK /\ WatchersAreMembers /\ HereIsShown
  BY DEF ShownInv
<1>o. ASSUME s \in subRooms[c], s \in subRooms[d], sock[c] = "open"
      PROVE  uid[d] \in shown[c][s]
  BY <1>o, <1>m DEF HereIsShown
<1>1. ASSUME NEW x \in Conns, NEW u \in Users, Connect(x, u)
      PROVE  uid'[d] \in shown'[c][s]
  <2>1. c # x /\ d # x /\ shown' = shown
    BY <1>1, <1>h DEF Connect, AddConn, HubTypeOK
  <2> QED
    BY <1>1, <1>h, <1>o, <2>1 DEF Connect, AddConn, HubTypeOK
<1>2. ASSUME NEW x \in Conns, NEW r \in Rooms, HandleSubscribe(x, r)
      PROVE  uid'[d] \in shown'[c][s]
  <2>1. /\ uid' = uid /\ sock' = sock
        /\ \A e \in Conns : s \in subRooms'[e] => s \in subRooms[e] \/ (e = x /\ s = r)
    BY <1>2, <1>h DEF HandleSubscribe, Subscribe, HubTypeOK
  <2>2. s \in Rooms /\ Attached(x) /\ uid[x] \in Users /\ uid[x] \in member[r]
    BY <1>2, <1>h, <2>1 DEF HandleSubscribe, Attached, HubTypeOK
  <2>3. CASE c = x /\ s = r
    <3>1. uid[d] \in member[r] /\ Attached(d) /\ uid[d] \in Users
      BY <1>h, <1>m, <2>1, <2>2, <2>3 DEF WatchersAreMembers
    <3>2. IsOnline(uid[d])
      BY <1>h, <3>1 DEF IsOnline, Has
    <3>3. shown'[c] = [shown[c] EXCEPT ![r] = {u \in member[r] : IsOnline(u)}]
      BY <1>2, <2>1, <2>3 DEF HandleSubscribe
    <3> QED
      BY <1>m, <2>1, <2>3, <3>1, <3>2, <3>3 DEF ShownTypeOK
  <2>4. CASE c = x /\ s # r
    <3>1. shown'[c][s] = shown[c][s]
      BY <1>2, <1>m, <2>2, <2>4 DEF HandleSubscribe, ShownTypeOK
    <3> QED
      BY <1>o, <2>1, <2>4, <3>1
  <2>5. CASE c # x
    <3>1. s \in subRooms[c] /\ sock[c] = "open"
      BY <2>1, <2>5
    <3>2. /\ shown[c][s] \subseteq shown'[c][s]
          /\ s = r /\ c \in Audience(r) /\ FirstSub(x, r) => uid[x] \in shown'[c][s]
      BY <1>2, <1>m, <2>2, <2>5 DEF HandleSubscribe, ShownTypeOK
    <3>3. CASE s \in subRooms[d]
      BY <1>o, <2>1, <3>1, <3>2, <3>3
    <3>4. CASE d = x /\ s = r /\ FirstSub(x, r)
      BY <1>h, <2>1, <2>2, <3>1, <3>2, <3>4 DEF Audience
    <3>5. CASE d = x /\ s = r /\ ~FirstSub(x, r)
      <4>1. PICK e \in userConns[uid[x]] : r \in subRooms[e]
        BY <3>5 DEF FirstSub
      <4>2. e \in Conns /\ uid[e] = uid[x]
        BY <1>h, <2>2, <4>1 DEF HubTypeOK
      <4>3. uid[e] \in shown[c][r]
        BY <1>m, <3>1, <3>5, <4>1, <4>2 DEF HereIsShown
      <4> QED
        BY <2>1, <3>2, <3>5, <4>2, <4>3
    <3> QED
      BY <2>1, <3>3, <3>4, <3>5
  <2> QED
    BY <2>3, <2>4, <2>5
<1>3. ASSUME NEW x \in Conns, NEW r \in Rooms, HandleUnsubscribe(x, r)
      PROVE  uid'[d] \in shown'[c][s]
  <2>1. /\ uid' = uid /\ sock' = sock
        /\ s \in subRooms[c] /\ s \in subRooms[d] /\ (c = x => s # r)
    BY <1>3, <1>h DEF HandleUnsubscribe, Unsubscribe, HubTypeOK
  <2>2. shown'[c][s] = shown[c][s]
    BY <1>3, <1>h, <1>m, <2>1 DEF HandleUnsubscribe, ShownTypeOK
  <2> QED
    BY <1>o, <2>1, <2>2
<1>4. ASSUME NEW u \in Users, NEW r \in Rooms, Join(u, r)
      PROVE  uid'[d] \in shown'[c][s]
  <2>1. /\ uid' = uid /\ sock' = sock /\ subRooms' = subRooms
    BY <1>4 DEF Join, hubVars
  <2>2. shown[c][s] \subseteq shown'[c][s]
    BY <1>4, <1>h, <1>m, <2>1 DEF Join, ShownTypeOK
  <2> QED
    BY <1>o, <2>1, <2>2
<1>5. ASSUME NEW u \in Users, NEW by \in Users, NEW r \in Rooms, Depart(u, by, r)
      PROVE  uid'[d] \in shown'[c][s]
  <2>1. /\ uid' = uid /\ sock' = sock
        /\ s \in subRooms[c] /\ s \in subRooms[d] /\ s \in Rooms
        /\ s = r => c \notin userConns[u] /\ d \notin userConns[u]
    BY <1>5, <1>h DEF Depart, RemoveUserFromRoom, HubTypeOK
  <2>2. s = r => uid[c] # u /\ uid[d] # u
    BY <1>h, <2>1
  <2>3. shown[c][s] \ {u} \subseteq shown'[c][s] /\ (s # r => shown'[c][s] = shown[c][s])
    BY <1>5, <1>m, <2>1, <2>2 DEF Depart, ShownTypeOK
  <2> QED
    BY <1>o, <2>1, <2>2, <2>3
<1>6. ASSUME NEW x \in Conns, Ends(x)
      PROVE  uid'[d] \in shown'[c][s]
  <2>1. c # x
    BY <1>6, <1>h DEF Ends, PeerVanishes, PeerCloses, HeartbeatTimeout, HubTypeOK
  <2> QED
    BY <1>6, <1>h, <1>m, <1>o, <2>1
       DEF Ends, PeerVanishes, PeerCloses, HeartbeatTimeout, HubTypeOK, ShownTypeOK
<1>7. ASSUME NEW x \in Conns, Close(x)
      PROVE  uid'[d] \in shown'[c][s]
  <2>1. c # x /\ d # x /\ shown' = shown
    BY <1>7, <1>h DEF Close, CloseEvent, HubTypeOK
  <2> QED
    BY <1>7, <1>h, <1>o, <2>1 DEF Close, CloseEvent, HubTypeOK
<1>8. ASSUME NEW u \in Users, TellOffline(u)
      PROVE  uid'[d] \in shown'[c][s]
  <2>1. uid' = uid /\ sock' = sock /\ subRooms' = subRooms
    BY <1>8 DEF TellOffline, OfflineTimerFires
  <2>2. s \in Rooms /\ Attached(d) /\ uid[d] \in Users
    BY <1>h, <2>1
  <2>3. ~Has(u) => uid[d] # u
    BY <1>h, <2>2 DEF Has
  <2>4. shown'[c][s] = IF ~Has(u) /\ s \in timer[u] /\ c \in Audience(s)
                         THEN shown[c][s] \ {u} ELSE shown[c][s]
    BY <1>8, <2>2 DEF TellOffline
  <2> QED
    BY <1>o, <2>1, <2>3, <2>4
<1>9. CASE Crash
  BY <1>9 DEF Crash, HubLost
<1>10. CASE UNCHANGED <<sock, uid, subRooms, shown>>
  BY <1>10, <1>o
<1> QED
  BY <1>1, <1>2, <1>3, <1>4, <1>5, <1>6, <1>7, <1>8, <1>9, <1>10
     DEF PresenceNext, presenceVars, hubVars, Request, WindowPasses

LEMMA ShownInvariant == PresenceSafety => []ShownInv
<1>1. PresenceInit => ShownTypeOK /\ WatchersAreMembers /\ HereIsShown
  BY DEF PresenceInit, HubInit, ShowsNobody, ShownTypeOK, WatchersAreMembers, HereIsShown
<1>2. ShownInv /\ [PresenceNext]_presenceVars
        => ShownTypeOK' /\ WatchersAreMembers' /\ HereIsShown'
  BY ShownTypeStep, WatchersStep, HereIsShownStep DEF ShownInv
<1> QED
  BY PresenceUsesHub, HubInvariant, <1>1, <1>2, PTL DEF PresenceSafety, ShownInv

\* Whoever has a tab on a room is shown online to all who watch it, for any
\* number of users, rooms and connections.
THEOREM PresentAreShown == PresenceSpec => []HereIsShown
BY ShownInvariant, PTL DEF PresenceSpec, ShownInv

\* What is recent and what is owed: the rooms of a connection that closes are rooms.
LEMMA RecordTypeStep ==
    ASSUME HubTypeOK, [PresenceNext]_presenceVars,
           recent \in [Users -> BOOLEAN], owed \in [Users -> SUBSET Rooms]
    PROVE  recent' \in [Users -> BOOLEAN] /\ owed' \in [Users -> SUBSET Rooms]
<1>1. recent' \in [Users -> BOOLEAN]
  BY DEF PresenceNext, presenceVars, Connect, HandleSubscribe, HandleUnsubscribe, Ends, Close,
         Join, Depart, Request, WindowPasses, TellOffline, Crash, Touch
<1>2. ASSUME NEW c \in Conns, Close(c)
      PROVE  owed' \in [Users -> SUBSET Rooms]
  BY <1>2 DEF Close, CloseEvent, HubTypeOK
<1>3. ASSUME NEW u \in Users, TellOffline(u)
      PROVE  owed' \in [Users -> SUBSET Rooms]
  BY <1>3 DEF TellOffline
<1>4. owed' \in [Users -> SUBSET Rooms]
  BY <1>2, <1>3
     DEF PresenceNext, presenceVars, Connect, HandleSubscribe, HandleUnsubscribe, Ends,
         Join, Depart, Request, WindowPasses, Crash
<1> QED
  BY <1>1, <1>4

\* The presence layer and the records kept about it stay well-formed.
THEOREM PresenceTypeCorrect == PresenceSpec => []PresenceTypeOK
<1> DEFINE RecordTypeOK == recent \in [Users -> BOOLEAN] /\ owed \in [Users -> SUBSET Rooms]
<1>1. PresenceInit => RecordTypeOK
  BY DEF PresenceInit
<1>2. HubTypeOK /\ RecordTypeOK /\ [PresenceNext]_presenceVars => RecordTypeOK'
  BY RecordTypeStep
<1>3. ShownInv => HubTypeOK /\ ShownTypeOK
  BY DEF ShownInv, HubInv
<1>4. HubTypeOK /\ ShownTypeOK /\ RecordTypeOK => PresenceTypeOK
  BY DEF PresenceTypeOK, ShownTypeOK
<1> HIDE DEF RecordTypeOK
<1> QED
  BY <1>1, <1>2, <1>3, <1>4, ShownInvariant, PTL DEF PresenceSpec, PresenceSafety
===============================================================================
