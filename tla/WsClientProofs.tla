---------------------------- MODULE WsClientProofs ----------------------------
(***************************************************************************)
(* While one user uses the tab, WsClient implements ReliablePost, for any  *)
(* number of rooms, messages and suspended 'ready' handlers and however    *)
(* long the connection's queues grow.                                      *)
(*                                                                         *)
(* Every send that is anywhere, waiting to be sent again, on the line or   *)
(* on its way from a connection that was lost, was written; and every ok   *)
(* that is on the line was preceded by its message's row.  The one user    *)
(* matters for the index only, which tells authors apart.                  *)
(*                                                                         *)
(* The same invariant gives most of the types of WsClient; what the flags, *)
(* the runs of the 'ready' handler and the answers add follows it.         *)
(***************************************************************************)
EXTENDS WsClient, SequenceTheorems, TLAPS

LiveIds   == {i \in Ids : result[i] # "unsent"}
StoredIds == {log[k].id : k \in DOMAIN log}
Entries   == [id : Ids, by : Users]

UpFrames   == ({"sub", "unsub"} \X Rooms \X Waiters) \cup ({"send"} \X LiveIds \X Waiters)
DownFrames == ({"ready"} \X {NULL} \X Waiters) \cup ({"err"} \X Items \X Waiters)
                \cup ({"ok"} \X (Rooms \cup StoredIds) \X Waiters)

RoomsOK ==
    /\ subscribedRooms \subseteq Rooms
    /\ view \in Rooms \cup {NULL}
    /\ onReady => view \in Rooms

SpeakerOK ==
    /\ token \in Users \cup {NULL}
    /\ conn # "none" => speaker \in Users
    /\ conn # "open" => up = <<>>

SendsOK ==
    /\ result \in [Ids -> {"unsent", "waiting", "acked", "failed"}]
    /\ pendingSends \subseteq LiveIds
    /\ late \subseteq LiveIds \X Users
    /\ up \in Seq(UpFrames)

StoreOK ==
    /\ log \in Seq(Entries)
    /\ down \in Seq(DownFrames)

PostInv == RoomsOK /\ SpeakerOK /\ SendsOK /\ StoreOK

-------------------------------------------------------------------------------
LEMMA Initially == WsInit => PostInv
BY EmptySeq DEF WsInit, PostInv, RoomsOK, SpeakerOK, SendsOK, StoreOK, LiveIds

LEMMA FramesAreUpFrames ==
    /\ \A r \in Rooms : <<"sub", r, "user">> \in UpFrames /\ <<"unsub", r, "user">> \in UpFrames
    /\ \A r \in Rooms, h \in Runs : <<"sub", r, h>> \in UpFrames
    /\ \A i \in LiveIds, w \in Waiters : <<"send", i, w>> \in UpFrames
BY DEF UpFrames, Waiters

\* A send on the line was written, any other frame is about a room.
LEMMA ReadUpFrame ==
    ASSUME NEW f \in UpFrames
    PROVE  /\ f[1] \in {"sub", "unsub", "send"} /\ f[3] \in Waiters
           /\ IF f[1] = "send" THEN f[2] \in LiveIds ELSE f[2] \in Rooms
BY DEF UpFrames

LEMMA ReadDownFrame ==
    ASSUME NEW f \in DownFrames, f[1] = "ok"
    PROVE  f[2] \in Rooms \cup StoredIds
BY DEF DownFrames

LEMMA TransmitKeeps ==
    ASSUME up \in Seq(UpFrames), NEW f \in UpFrames, Transmit(<<f>>)
    PROVE  up' \in Seq(UpFrames) /\ (conn # "open" => up' = up)
<1>1. <<f>> \in Seq(UpFrames)
  OBVIOUS
<1> QED
  BY <1>1, ConcatProperties DEF Transmit

\* Nothing that was written is unwritten: what was well-formed stays so.
LEMMA UpStays ==
    ASSUME NEW s \in Seq(UpFrames), LiveIds \subseteq LiveIds'
    PROVE  s \in Seq(UpFrames')
<1>1. UpFrames \subseteq UpFrames'
  BY DEF UpFrames
<1> QED
  BY <1>1, SeqMonotonic

LEMMA DownStays ==
    ASSUME NEW s \in Seq(DownFrames), StoredIds \subseteq StoredIds'
    PROVE  s \in Seq(DownFrames')
<1>1. DownFrames \subseteq DownFrames'
  BY DEF DownFrames
<1> QED
  BY <1>1, SeqMonotonic

\* What a projection of the log looks like after one more entry.
LEMMA ProjectAppend ==
    ASSUME NEW s \in Seq(Entries), NEW e \in Entries
    PROVE  [k \in DOMAIN Append(s, e) |-> Append(s, e)[k].id]
             = Append([k \in DOMAIN s |-> s[k].id], e.id)
<1> DEFINE p == [k \in DOMAIN s |-> s[k].id]
           q == [k \in DOMAIN Append(s, e) |-> Append(s, e)[k].id]
<1>1. /\ DOMAIN s = 1..Len(s) /\ Len(s) \in Nat
      /\ DOMAIN Append(s, e) = 1..(Len(s) + 1)
      /\ \A k \in 1..Len(s) : Append(s, e)[k] = s[k]
      /\ Append(s, e)[Len(s) + 1] = e
      /\ \A k \in DOMAIN s : s[k] \in Entries
  BY AppendProperties, LenProperties
<1>2. p \in Seq(Ids) /\ Len(p) = Len(s) /\ \A k \in 1..Len(s) : p[k] = s[k].id
  <2>1. p \in [1..Len(s) -> Ids]
    BY <1>1 DEF Entries
  <2> QED
    BY <1>1, <2>1
<1>3. q \in Seq(Ids) /\ Len(q) = Len(s) + 1
      /\ \A k \in 1..(Len(s) + 1) : q[k] = Append(s, e)[k].id
  <2>1. q \in [1..(Len(s) + 1) -> Ids]
    BY <1>1 DEF Entries
  <2> QED
    BY <1>1, <2>1
<1>4. e.id \in Ids
  BY DEF Entries
<1> HIDE DEF p, q
<1>5. /\ Append(p, e.id) \in Seq(Ids) /\ Len(Append(p, e.id)) = Len(s) + 1
      /\ \A k \in 1..Len(s) : Append(p, e.id)[k] = p[k]
      /\ Append(p, e.id)[Len(s) + 1] = e.id
  BY <1>2, <1>4, AppendProperties
<1>6. \A k \in 1..(Len(s) + 1) : q[k] = Append(p, e.id)[k]
  BY <1>1, <1>2, <1>3, <1>5
<1>7. q = Append(p, e.id)
  BY <1>3, <1>5, <1>6, SeqEqual
<1> QED
  BY <1>7 DEF p, q

LEMMA StoreKeeps ==
    ASSUME log \in Seq(Entries), NEW i \in Ids, NEW u \in Users, Store(i, u)
    PROVE  log' \in Seq(Entries) /\ StoredIds \subseteq StoredIds' /\ i \in StoredIds'
<1> DEFINE e == [id |-> i, by |-> u]
<1>1. e \in Entries
  BY DEF Entries
<1>2. CASE Known(i, u)
  <2>1. log' = log
    BY <1>2 DEF Store
  <2>2. i \in StoredIds
    BY <1>2 DEF Known, StoredIds
  <2>3. StoredIds' = StoredIds
    BY <2>1 DEF StoredIds
  <2> QED
    BY <2>1, <2>2, <2>3
<1>3. CASE ~Known(i, u)
  <2>1. log' = Append(log, e)
    BY <1>3 DEF Store
  <2>2. /\ log' \in Seq(Entries)
        /\ DOMAIN log = 1..Len(log) /\ DOMAIN log' = 1..(Len(log) + 1) /\ Len(log) \in Nat
        /\ \A k \in 1..Len(log) : log'[k] = log[k]
        /\ log'[Len(log) + 1] = e
    BY <1>1, <2>1, AppendProperties, LenProperties
  <2>3. StoredIds \subseteq StoredIds'
    BY <2>2 DEF StoredIds
  <2>4. i \in StoredIds'
    BY <2>2 DEF StoredIds
  <2> QED
    BY <2>2, <2>3, <2>4
<1> QED
  BY <1>2, <1>3

-------------------------------------------------------------------------------
LEMMA RoomsStep == RoomsOK /\ [WsNext]_wsVars => RoomsOK'
<1> SUFFICES ASSUME RoomsOK, [WsNext]_wsVars
             PROVE  RoomsOK'
  OBVIOUS
<1> USE DEF RoomsOK
<1>1. ASSUME NEW r \in Rooms, Mount(r)
      PROVE  RoomsOK'
  BY <1>1 DEF Mount
<1>2. CASE Unmount
  BY <1>2 DEF Unmount
<1>3. ASSUME NEW h \in Runs, RunEnds(h)
      PROVE  RoomsOK'
  BY <1>3 DEF RunEnds
<1>4. CASE UNCHANGED <<subscribedRooms, view, onReady>>
  BY <1>4
<1> QED
  BY <1>1, <1>2, <1>3, <1>4
     DEF WsNext, GoOn, Events, wsVars, clientVars, RunAsks, RunTurns, UserSend, UserTimeout,
         Establish, Lose, RetryFires, ReceiveReady, ReceiveAnswer, RunTimeout, ServerHandles,
         ServerRefuses, LateFrame, SetSession, ClearSession

LEMMA SpeakerStep == SpeakerOK /\ [WsNext]_wsVars => SpeakerOK'
<1> SUFFICES ASSUME SpeakerOK, [WsNext]_wsVars
             PROVE  SpeakerOK'
  OBVIOUS
<1> USE DEF SpeakerOK
<1>1. ASSUME NEW r \in Rooms, Mount(r)
      PROVE  SpeakerOK'
  BY <1>1 DEF Mount, Connect, Transmit
<1>2. CASE RetryFires
  BY <1>2 DEF RetryFires, Connect
<1>3. CASE Unmount \/ \E i \in Ids : UserSend(i)
  BY <1>3 DEF Unmount, UserSend, Transmit
<1>4. ASSUME NEW h \in Runs, RunAsks(h) \/ RunEnds(h)
      PROVE  SpeakerOK'
  BY <1>4 DEF RunAsks, RunEnds, Transmit
<1>5. CASE Establish \/ Lose
  BY <1>5 DEF Establish, Lose, clientVars
<1>6. CASE ServerHandles \/ ServerRefuses
  BY <1>6 DEF ServerHandles, ServerRefuses, clientVars
<1>7. ASSUME NEW u \in Users, SetSession(u)
      PROVE  SpeakerOK'
  BY <1>7 DEF SetSession, lineVars
<1>8. CASE ClearSession
  BY <1>8 DEF ClearSession, lineVars
<1>9. CASE UNCHANGED <<token, conn, speaker, up>>
  BY <1>9
<1> QED
  BY <1>1, <1>2, <1>3, <1>4, <1>5, <1>6, <1>7, <1>8, <1>9
     DEF WsNext, GoOn, Events, wsVars, clientVars, lineVars, RunTurns, UserTimeout,
         ReceiveReady, ReceiveAnswer, RunTimeout, LateFrame

\* What is asked for is on the line only if it was written.
LEMMA SendsStep == PostInv /\ [WsNext]_wsVars => SendsOK'
<1> SUFFICES ASSUME PostInv, [WsNext]_wsVars
             PROVE  SendsOK'
  OBVIOUS
<1>t. RoomsOK /\ SpeakerOK /\ SendsOK
  BY DEF PostInv
<1>k. ASSUME UNCHANGED result, up' \in Seq(UpFrames),
             pendingSends' \subseteq pendingSends, late' \subseteq LiveIds \X Users
      PROVE  SendsOK'
  <2>1. LiveIds' = LiveIds /\ UpFrames' = UpFrames
    BY <1>k DEF LiveIds, UpFrames
  <2> QED
    BY <1>k, <1>t, <2>1 DEF SendsOK
<1>s. pendingSends \subseteq pendingSends /\ up \in Seq(UpFrames) /\ late \subseteq LiveIds \X Users
  BY <1>t DEF SendsOK
<1>1. ASSUME NEW r \in Rooms, Mount(r)
      PROVE  SendsOK'
  <2>1. up' = up \/ Transmit(<< <<"sub", r, "user">> >>)
    BY <1>1 DEF Mount
  <2>2. up' \in Seq(UpFrames)
    BY <1>s, <2>1, FramesAreUpFrames, TransmitKeeps
  <2> QED
    BY <1>1, <1>s, <1>k, <2>2 DEF Mount
<1>2. CASE Unmount
  <2>1. view \in Rooms
    BY <1>2, <1>t DEF Unmount, RoomsOK
  <2>2. up' = up \/ Transmit(<< <<"unsub", view, "user">> >>)
    BY <1>2 DEF Unmount
  <2>3. up' \in Seq(UpFrames)
    BY <1>s, <2>1, <2>2, FramesAreUpFrames, TransmitKeeps
  <2> QED
    BY <1>2, <1>s, <1>k, <2>3 DEF Unmount
<1>3. ASSUME NEW i \in Ids, UserSend(i)
      PROVE  SendsOK'
  <2>1. LiveIds' = LiveIds \cup {i} /\ result' \in [Ids -> {"unsent", "waiting", "acked", "failed"}]
    BY <1>3, <1>t DEF UserSend, SendsOK, LiveIds
  <2>2. <<"send", i, "user">> \in UpFrames'
    BY <2>1 DEF UpFrames, Waiters
  <2>3. up \in Seq(UpFrames') /\ << <<"send", i, "user">> >> \in Seq(UpFrames')
    BY <1>s, <2>1, <2>2, UpStays
  <2>4. up' \in Seq(UpFrames')
    BY <1>3, <2>3, ConcatProperties DEF UserSend, Transmit
  <2> QED
    BY <1>3, <1>t, <2>1, <2>4 DEF UserSend, SendsOK
<1>4. ASSUME NEW i \in Ids, UserTimeout(i)
      PROVE  SendsOK'
  <2>1. LiveIds' = LiveIds /\ result' \in [Ids -> {"unsent", "waiting", "acked", "failed"}]
    BY <1>4, <1>t DEF UserTimeout, SendsOK, LiveIds
  <2>2. up' \in Seq(UpFrames')
    BY <1>4, <1>s, <2>1, UpStays DEF UserTimeout, lineVars
  <2> QED
    BY <1>4, <1>t, <2>1, <2>2 DEF UserTimeout, GivenUp, SendsOK
<1>5. CASE ReceiveAnswer
  <2>1. LiveIds' = LiveIds /\ result' \in [Ids -> {"unsent", "waiting", "acked", "failed"}]
    BY <1>5, <1>t DEF ReceiveAnswer, SendsOK, LiveIds
  <2>2. up' \in Seq(UpFrames')
    BY <1>5, <1>s, <2>1, UpStays DEF ReceiveAnswer
  <2>3. pendingSends' \subseteq pendingSends /\ late' = late
    BY <1>5 DEF ReceiveAnswer
  <2> QED
    BY <1>t, <2>1, <2>2, <2>3 DEF SendsOK
<1>6. CASE Lose
  <2>1. SendsIn(up) \subseteq LiveIds
    <3>1. \A n \in DOMAIN up : up[n] \in UpFrames
      BY <1>s, LenProperties
    <3> QED
      BY <3>1, ReadUpFrame DEF SendsIn
  <2>2. speaker \in Users
    BY <1>6, <1>t DEF Lose, SpeakerOK
  <2>3. late' \subseteq LiveIds \X Users
    BY <1>6, <1>s, <2>1, <2>2 DEF Lose
  <2> QED
    BY <1>6, <1>k, <2>3, EmptySeq DEF Lose
<1>7. ASSUME NEW h \in Runs, RunAsks(h)
      PROVE  SendsOK'
  <2>1. ASSUME NEW item \in Todo(h), Transmit(<< <<IF item \in Rooms THEN "sub" ELSE "send", item, h>> >>)
        PROVE  up' \in Seq(UpFrames)
    <3>1. item \in Rooms \/ item \in LiveIds
      BY <1>t, <2>1 DEF Todo, RoomsOK, SendsOK
    <3>2. <<IF item \in Rooms THEN "sub" ELSE "send", item, h>> \in UpFrames
      BY <3>1, FramesAreUpFrames DEF Waiters
    <3> QED
      BY <1>s, <2>1, <3>2, TransmitKeeps
  <2>2. up' \in Seq(UpFrames)
    BY <1>7, <1>s, <2>1 DEF RunAsks
  <2> QED
    BY <1>7, <1>s, <1>k, <2>2 DEF RunAsks
<1>8. ASSUME NEW h \in Runs, RunEnds(h)
      PROVE  SendsOK'
  <2>1. up' = up \/ (view \in Rooms /\ Transmit(<< <<"sub", view, "user">> >>))
    BY <1>8, <1>t DEF RunEnds, RoomsOK
  <2>2. up' \in Seq(UpFrames)
    BY <1>s, <2>1, FramesAreUpFrames, TransmitKeeps
  <2> QED
    BY <1>8, <1>s, <1>k, <2>2 DEF RunEnds
<1>9. CASE ServerHandles \/ ServerRefuses
  <2>1. up' \in Seq(UpFrames)
    BY <1>9, <1>s, HeadTailProperties DEF ServerHandles, ServerRefuses
  <2> QED
    BY <1>9, <1>s, <1>k, <2>1 DEF ServerHandles, ServerRefuses, clientVars
<1>10. CASE LateFrame
  BY <1>10, <1>s, <1>k DEF LateFrame, clientVars, lineVars
<1>11. CASE UNCHANGED <<result, pendingSends, late, up>>
  BY <1>11, <1>s, <1>k
<1> QED
  BY <1>1, <1>2, <1>3, <1>4, <1>5, <1>6, <1>7, <1>8, <1>9, <1>10, <1>11
     DEF WsNext, GoOn, Events, wsVars, clientVars, lineVars, RunTurns, Establish, RetryFires,
         ReceiveReady, RunTimeout, SetSession, ClearSession

\* An ok follows the row of its message.
LEMMA StoreStep == PostInv /\ [WsNext]_wsVars => StoreOK'
<1> SUFFICES ASSUME PostInv, [WsNext]_wsVars
             PROVE  StoreOK'
  OBVIOUS
<1>t. RoomsOK /\ SpeakerOK /\ SendsOK /\ StoreOK
  BY DEF PostInv
<1>k. ASSUME UNCHANGED log, down' \in Seq(DownFrames)
      PROVE  StoreOK'
  <2>1. DownFrames' = DownFrames
    BY <1>k DEF DownFrames, StoredIds
  <2> QED
    BY <1>k, <1>t, <2>1 DEF StoreOK
<1>1. CASE Establish
  <2>1. <<"ready", NULL, "user">> \in DownFrames
    BY DEF DownFrames, Waiters
  <2>2. down' \in Seq(DownFrames)
    BY <1>1, <2>1 DEF Establish
  <2> QED
    BY <1>1, <1>k, <2>2 DEF Establish
<1>2. CASE Lose
  BY <1>2, <1>k, EmptySeq DEF Lose
<1>3. CASE ReceiveReady \/ ReceiveAnswer
  <2>1. down' \in Seq(DownFrames)
    BY <1>3, <1>t, HeadTailProperties DEF ReceiveReady, ReceiveAnswer, StoreOK
  <2> QED
    BY <1>3, <1>k, <2>1 DEF ReceiveReady, ReceiveAnswer
<1>4. CASE ServerHandles
  <2> DEFINE f == Head(up)
  <2>1. f \in UpFrames
    BY <1>4, <1>t, HeadTailProperties DEF ServerHandles, SendsOK
  <2>2. speaker \in Users
    BY <1>4, <1>t DEF ServerHandles, SpeakerOK
  <2>3. f[3] \in Waiters /\ IF f[1] = "send" THEN f[2] \in LiveIds ELSE f[2] \in Rooms
    BY <2>1, ReadUpFrame
  <2>4. log' \in Seq(Entries) /\ StoredIds \subseteq StoredIds' /\ (f[1] = "send" => f[2] \in StoredIds')
    <3>1. CASE f[1] = "send"
      BY <1>4, <1>t, <2>2, <2>3, <3>1, StoreKeeps DEF ServerHandles, StoreOK, LiveIds
    <3>2. CASE f[1] # "send"
      BY <1>4, <1>t, <3>2 DEF ServerHandles, StoreOK, StoredIds
    <3> QED
      BY <3>1, <3>2
  <2>5. <<"ok", f[2], f[3]>> \in DownFrames'
    BY <2>3, <2>4 DEF DownFrames
  <2>6. down \in Seq(DownFrames')
    BY <1>t, <2>4, DownStays DEF StoreOK
  <2>7. down' \in {down, Append(down, <<"ok", f[2], f[3]>>)}
    BY <1>4 DEF ServerHandles, Answer
  <2>8. down' \in Seq(DownFrames')
    <3>1. Append(down, <<"ok", f[2], f[3]>>) \in Seq(DownFrames')
      BY <2>5, <2>6, AppendProperties
    <3> QED
      BY <2>6, <2>7, <3>1
  <2> QED
    BY <2>4, <2>8 DEF StoreOK
<1>5. CASE ServerRefuses
  <2> DEFINE f == Head(up)
  <2>1. f \in UpFrames
    BY <1>5, <1>t, HeadTailProperties DEF ServerRefuses, SendsOK
  <2>2. f[3] \in Waiters /\ f[2] \in Items
    BY <2>1, ReadUpFrame DEF LiveIds, Items
  <2>3. <<"err", f[2], f[3]>> \in DownFrames
    BY <2>2 DEF DownFrames
  <2>4. down' \in {down, Append(down, <<"err", f[2], f[3]>>)}
    BY <1>5 DEF ServerRefuses, Answer
  <2>5. down \in Seq(DownFrames)
    BY <1>t DEF StoreOK
  <2>6. Append(down, <<"err", f[2], f[3]>>) \in Seq(DownFrames)
    BY <2>3, <2>5, AppendProperties
  <2>7. down' \in Seq(DownFrames)
    BY <2>4, <2>5, <2>6
  <2> QED
    BY <1>5, <1>k, <2>7 DEF ServerRefuses
<1>6. CASE LateFrame
  <2>1. PICK f \in late : Store(f[1], f[2]) \/ UNCHANGED log
    BY <1>6 DEF LateFrame
  <2>2. f[1] \in Ids /\ f[2] \in Users
    BY <1>t, <2>1 DEF SendsOK, LiveIds
  <2>3. log' \in Seq(Entries) /\ StoredIds \subseteq StoredIds'
    <3>1. CASE Store(f[1], f[2])
      BY <1>t, <2>2, <3>1, StoreKeeps DEF StoreOK
    <3>2. CASE UNCHANGED log
      BY <1>t, <3>2 DEF StoreOK, StoredIds
    <3> QED
      BY <2>1, <3>1, <3>2
  <2>4. down \in Seq(DownFrames') /\ down' = down
    BY <1>6, <1>t, <2>3, DownStays DEF StoreOK, LateFrame, lineVars
  <2> QED
    BY <2>3, <2>4 DEF StoreOK
<1>7. CASE UNCHANGED <<down, log>>
  BY <1>7, <1>t, <1>k DEF StoreOK
<1> QED
  BY <1>1, <1>2, <1>3, <1>4, <1>5, <1>6, <1>7
     DEF WsNext, GoOn, Events, wsVars, lineVars, RunAsks, RunTurns, RunEnds, Mount, Connect,
         Unmount, UserSend, UserTimeout, RetryFires, RunTimeout, SetSession, ClearSession

LEMMA PostInvariant == WsSafety => []PostInv
<1>1. PostInv /\ [WsNext]_wsVars => PostInv'
  BY RoomsStep, SpeakerStep, SendsStep, StoreStep DEF PostInv
<1> QED
  BY Initially, <1>1, PTL DEF WsSafety

-------------------------------------------------------------------------------
\* What PostInv leaves open of the types: the flags, of which ready is up only
\* on an open socket, as frames of the server are; the runs of the 'ready'
\* handler, which wait for requests and deal with rooms and messages alone; and
\* what is left when a send was acknowledged or refused.
FlagsOK ==
    /\ speaker \in Users \cup {NULL}
    /\ conn \in {"none", "connecting", "open"}
    /\ ready \in BOOLEAN /\ retry \in BOOLEAN /\ onReady \in BOOLEAN
    /\ ready => conn = "open"
    /\ down # <<>> => conn = "open"

RunRecords == [phase : {"off", "subs", "sends"}, seen : SUBSET Items, wait : Items \cup {NULL}]

RunsOK == run \in [Runs -> RunRecords]

SendingOK == sending \in Ids \cup {NULL}

AnswersOK ==
    /\ serverSubs \subseteq Rooms
    /\ refused \subseteq Ids
    /\ \A i \in Ids : result[i] = "acked" => i \notin pendingSends

\* Everything but 'ready' is an answer, to a request about a room or a message.
LEMMA ReadAnswer ==
    ASSUME PostInv, NEW f \in DownFrames, f[1] # "ready"
    PROVE  f[2] \in Items /\ f[3] \in Waiters
<1>1. StoredIds \subseteq Ids
  <2>1. \A k \in DOMAIN log : log[k] \in Entries
    BY LenProperties DEF PostInv, StoreOK
  <2> QED
    BY <2>1 DEF StoredIds, Entries
<1> QED
  BY <1>1 DEF DownFrames, Items

LEMMA FlagsInit == WsInit => FlagsOK
BY DEF WsInit, FlagsOK

LEMMA RunsInit == WsInit => RunsOK
BY DEF WsInit, RunsOK, RunRecords, Idle

LEMMA AnswersInit == WsInit => AnswersOK
BY DEF WsInit, AnswersOK

LEMMA ConnectKeeps ==
    ASSUME SpeakerOK, FlagsOK, Connect
    PROVE  /\ speaker' \in Users \cup {NULL}
           /\ conn' \in {"none", "connecting", "open"}
           /\ conn = "open" => conn' = "open"
BY DEF SpeakerOK, FlagsOK, Connect

LEMMA FlagsStep == PostInv /\ FlagsOK /\ [WsNext]_wsVars => FlagsOK'
<1> SUFFICES ASSUME PostInv, FlagsOK, [WsNext]_wsVars
             PROVE  FlagsOK'
  OBVIOUS
<1>t. SpeakerOK
  BY DEF PostInv
<1>1. ASSUME NEW r \in Rooms, Mount(r)
      PROVE  FlagsOK'
  <2>1. Connect /\ UNCHANGED <<ready, down, retry>> /\ onReady' \in BOOLEAN
    BY <1>1 DEF Mount, Connect, FlagsOK
  <2> QED
    BY <1>t, <2>1, ConnectKeeps DEF FlagsOK
<1>2. CASE RetryFires
  <2>1. Connect /\ UNCHANGED <<ready, down, onReady>> /\ retry' \in BOOLEAN
    BY <1>2 DEF RetryFires, Connect, FlagsOK
  <2> QED
    BY <1>t, <2>1, ConnectKeeps DEF FlagsOK
<1>3. CASE Unmount
  <2>1. UNCHANGED <<conn, speaker, ready, retry, down>> /\ onReady' \in BOOLEAN
    BY <1>3 DEF Unmount
  <2> QED
    BY <2>1 DEF FlagsOK
<1>4. ASSUME NEW h \in Runs, RunEnds(h)
      PROVE  FlagsOK'
  <2>1. UNCHANGED <<conn, speaker, ready, retry, down>> /\ onReady' \in BOOLEAN
    BY <1>4 DEF RunEnds
  <2> QED
    BY <2>1 DEF FlagsOK
<1>5. CASE Establish
  BY <1>5 DEF Establish, clientVars, FlagsOK
<1>6. CASE Lose
  <2>1. /\ speaker' = NULL /\ conn' = "none" /\ down' = <<>> /\ UNCHANGED onReady
        /\ ready' \in BOOLEAN /\ ~ready' /\ retry' \in BOOLEAN
    BY <1>6 DEF Lose
  <2> QED
    BY <2>1 DEF FlagsOK
<1>7. CASE ReceiveReady
  <2>1. /\ UNCHANGED <<conn, speaker, retry, onReady>> /\ ready' \in BOOLEAN /\ conn = "open"
    BY <1>7 DEF ReceiveReady, FlagsOK
  <2> QED
    BY <2>1 DEF FlagsOK
<1>8. CASE ReceiveAnswer
  <2>1. UNCHANGED <<conn, speaker, ready, retry, onReady>> /\ conn = "open"
    BY <1>8 DEF ReceiveAnswer, FlagsOK
  <2> QED
    BY <2>1 DEF FlagsOK
<1>9. CASE ServerHandles \/ ServerRefuses
  <2>1. UNCHANGED <<conn, speaker, ready, retry, onReady>> /\ up # <<>>
    BY <1>9 DEF ServerHandles, ServerRefuses, clientVars
  <2>2. conn = "open"
    BY <1>t, <2>1 DEF SpeakerOK
  <2> QED
    BY <2>1, <2>2 DEF FlagsOK
<1>10. CASE UNCHANGED <<conn, speaker, ready, retry, onReady, down>>
  BY <1>10 DEF FlagsOK
<1> QED
  BY <1>1, <1>2, <1>3, <1>4, <1>5, <1>6, <1>7, <1>8, <1>9, <1>10
     DEF WsNext, GoOn, Events, wsVars, clientVars, lineVars, RunAsks, RunTurns, UserSend,
         UserTimeout, RunTimeout, LateFrame, SetSession, ClearSession

\* A run turns to a room or a message, awaits it, and has dealt with it.
LEMMA RunsStep == PostInv /\ RunsOK /\ [WsNext]_wsVars => RunsOK'
<1> SUFFICES ASSUME PostInv, RunsOK, [WsNext]_wsVars
             PROVE  RunsOK'
  OBVIOUS
<1>t. RoomsOK /\ SendsOK /\ StoreOK
  BY DEF PostInv
<1>f. \A h \in Runs : run[h] \in RunRecords
  BY DEF RunsOK
<1>k. ASSUME NEW h \in Runs, NEW rec \in RunRecords, run' = [run EXCEPT ![h] = rec]
      PROVE  RunsOK'
  BY <1>k DEF RunsOK
<1>r. /\ \A rec \in RunRecords : rec.seen \subseteq Items /\ rec.wait \in Items \cup {NULL}
      /\ \A rec \in RunRecords, S \in SUBSET Items : [rec EXCEPT !.seen = S] \in RunRecords
      /\ \A rec \in RunRecords, w \in Items \cup {NULL} : [rec EXCEPT !.wait = w] \in RunRecords
      /\ \A rec \in RunRecords, p \in {"off", "subs", "sends"} :
            [rec EXCEPT !.phase = p] \in RunRecords
      /\ \A rec \in RunRecords, x \in Items :
            [rec EXCEPT !.seen = @ \cup {x}, !.wait = NULL] \in RunRecords
      /\ Idle \in RunRecords
  BY DEF RunRecords, Idle
<1>1. CASE Unmount
  <2>1. \A h \in Runs : [run[h] EXCEPT !.seen = @ \ {view}] \in RunRecords
    BY <1>f DEF RunRecords
  <2>2. run' = [h \in Runs |-> [run[h] EXCEPT !.seen = @ \ {view}]]
    BY <1>1 DEF Unmount
  <2> QED
    BY <2>1, <2>2 DEF RunsOK
<1>2. CASE ReceiveReady
  <2>1. PICK h \in Runs : run' = [run EXCEPT ![h] = [run[h] EXCEPT !.phase = "subs"]]
    BY <1>2 DEF ReceiveReady
  <2> QED
    BY <1>f, <1>r, <1>k, <2>1
<1>3. CASE ReceiveAnswer
  <2> DEFINE f == Head(down)
  <2>1. f \in DownFrames /\ f[1] # "ready"
    BY <1>3, <1>t, HeadTailProperties DEF ReceiveAnswer, StoreOK
  <2>2. f[2] \in Items /\ f[3] \in Waiters
    BY <2>1, ReadAnswer
  <2>3. run' = run \/ (/\ f[3] # "user"
                       /\ run' = [run EXCEPT ![f[3]] =
                                    [run[f[3]] EXCEPT !.seen = @ \cup {f[2]}, !.wait = NULL]])
    BY <1>3 DEF ReceiveAnswer
  <2> HIDE DEF f
  <2>4. CASE run' = run
    BY <2>4 DEF RunsOK
  <2>5. CASE run' # run
    <3>1. f[3] \in Runs
      BY <2>2, <2>3, <2>5 DEF Waiters
    <3>2. [run[f[3]] EXCEPT !.seen = @ \cup {f[2]}, !.wait = NULL] \in RunRecords
      BY <1>f, <1>r, <2>2, <3>1
    <3> QED
      BY <1>k, <2>3, <2>5, <3>1, <3>2
  <2> QED
    BY <2>4, <2>5
<1>4. ASSUME NEW h \in Runs, RunAsks(h)
      PROVE  RunsOK'
  <2>1. PICK item \in Todo(h) : \/ run' = [run EXCEPT ![h] = [run[h] EXCEPT !.wait = item]]
                                \/ run' = [run EXCEPT ![h] =
                                             [run[h] EXCEPT !.seen = @ \cup {item}]]
    BY <1>4 DEF RunAsks
  <2>2. item \in Items
    BY <1>t, <2>1 DEF Todo, RoomsOK, SendsOK, LiveIds, Items
  <2>3. [run[h] EXCEPT !.wait = item] \in RunRecords
    BY <1>f, <1>r, <2>2
  <2>4. [run[h] EXCEPT !.seen = @ \cup {item}] \in RunRecords
    BY <1>f, <2>2 DEF RunRecords
  <2> QED
    BY <1>k, <2>1, <2>3, <2>4
<1>5. ASSUME NEW h \in Runs, RunTurns(h)
      PROVE  RunsOK'
  <2>1. run' = [run EXCEPT ![h] = [run[h] EXCEPT !.phase = "sends"]]
    BY <1>5 DEF RunTurns
  <2> QED
    BY <1>f, <1>r, <1>k, <2>1
<1>6. ASSUME NEW h \in Runs, RunEnds(h)
      PROVE  RunsOK'
  BY <1>6, <1>r, <1>k DEF RunEnds
<1>7. ASSUME NEW h \in Runs, RunTimeout(h)
      PROVE  RunsOK'
  <2> DEFINE w == run[h].wait
  <2>1. run' = [run EXCEPT ![h] = [run[h] EXCEPT !.seen = @ \cup {w}, !.wait = NULL]]
    BY <1>7 DEF RunTimeout
  <2>2. w \in Items
    BY <1>7, <1>f, <1>r DEF RunTimeout
  <2> HIDE DEF w
  <2>3. [run[h] EXCEPT !.seen = @ \cup {w}, !.wait = NULL] \in RunRecords
    BY <1>f, <1>r, <2>2
  <2> QED
    BY <1>k, <2>1, <2>3
<1>8. CASE UNCHANGED run
  BY <1>8 DEF RunsOK
<1> QED
  BY <1>1, <1>2, <1>3, <1>4, <1>5, <1>6, <1>7, <1>8
     DEF WsNext, GoOn, Events, wsVars, clientVars, Mount, UserSend, UserTimeout, Establish, Lose,
         RetryFires, ServerHandles, ServerRefuses, LateFrame, SetSession, ClearSession

\* Only an ok that is awaited acknowledges a send, which is then forgotten; only
\* a send that was never tried is remembered anew.
LEMMA AnswersStep == PostInv /\ AnswersOK /\ [WsNext]_wsVars => AnswersOK'
<1> SUFFICES ASSUME PostInv, AnswersOK, [WsNext]_wsVars
             PROVE  AnswersOK'
  OBVIOUS
<1>t. SendsOK
  BY DEF PostInv
<1> USE DEF AnswersOK
<1>1. ASSUME NEW i \in Ids, UserSend(i)
      PROVE  AnswersOK'
  BY <1>1, <1>t DEF UserSend, SendsOK
<1>2. ASSUME NEW i \in Ids, UserTimeout(i)
      PROVE  AnswersOK'
  BY <1>2, <1>t DEF UserTimeout, GivenUp, SendsOK, lineVars
<1>3. CASE ReceiveAnswer
  <2>1. UNCHANGED <<serverSubs, refused>> /\ pendingSends' \subseteq pendingSends
    BY <1>3 DEF ReceiveAnswer
  <2>2. ASSUME NEW i \in Ids, result'[i] = "acked"
        PROVE  i \notin pendingSends'
    <3>1. CASE result[i] = "acked"
      BY <2>1, <3>1
    <3>2. CASE result[i] # "acked"
      <4>1. Head(down)[2] = i /\ pendingSends' = pendingSends \ {i}
        BY <1>3, <1>t, <2>2, <3>2 DEF ReceiveAnswer, Settled, SendsOK
      <4> QED
        BY <4>1
    <3> QED
      BY <3>1, <3>2
  <2> QED
    BY <2>1, <2>2
<1>4. CASE Lose
  BY <1>4 DEF Lose
<1>5. CASE ServerHandles \/ ServerRefuses
  <2> DEFINE f == Head(up)
  <2>1. f \in UpFrames
    BY <1>5, <1>t, HeadTailProperties DEF ServerHandles, ServerRefuses, SendsOK
  <2>2. IF f[1] = "send" THEN f[2] \in Ids ELSE f[2] \in Rooms
    BY <2>1, ReadUpFrame DEF LiveIds
  <2>3. UNCHANGED <<result, pendingSends>>
    BY <1>5 DEF ServerHandles, ServerRefuses, clientVars
  <2>4. serverSubs' \subseteq Rooms
    BY <1>5, <2>2 DEF ServerHandles, ServerRefuses
  <2>5. refused' \subseteq Ids
    BY <1>5, <2>2 DEF ServerHandles, ServerRefuses
  <2> QED
    BY <2>3, <2>4, <2>5
<1>6. CASE UNCHANGED <<result, pendingSends, serverSubs, refused>>
  BY <1>6
<1> QED
  BY <1>1, <1>2, <1>3, <1>4, <1>5, <1>6
     DEF WsNext, GoOn, Events, wsVars, clientVars, lineVars, RunAsks, RunTurns, RunEnds, Mount,
         Connect, Unmount, Establish, RetryFires, ReceiveReady, RunTimeout, LateFrame, SetSession,
         ClearSession

\* A view that starts or ends a send, or goes away
LEMMA SendingStep == SendingOK /\ [WsNext]_wsVars => SendingOK'
<1> SUFFICES ASSUME SendingOK, [WsNext]_wsVars
             PROVE  SendingOK'
  OBVIOUS
<1>1. ASSUME NEW i \in Ids, UserSend(i)
      PROVE  SendingOK'
  BY <1>1 DEF UserSend, SendingOK
<1>2. ASSUME NEW i \in Ids, UserTimeout(i)
      PROVE  SendingOK'
  BY <1>2 DEF UserTimeout, SendDone, SendingOK
<1>3. CASE ReceiveAnswer
  BY <1>3 DEF ReceiveAnswer, SendDone, SendingOK
<1>4. CASE Unmount
  BY <1>4 DEF Unmount, SendingOK
<1>5. CASE UNCHANGED sending
  BY <1>5 DEF SendingOK
<1> QED
  BY <1>1, <1>2, <1>3, <1>4, <1>5
     DEF WsNext, GoOn, Events, wsVars, clientVars, lineVars, RunAsks, RunTurns, RunEnds, Mount,
         Establish, Lose, RetryFires, ReceiveReady, RunTimeout, ServerHandles, ServerRefuses,
         LateFrame, SetSession, ClearSession

LEMMA WsTyped == PostInv /\ FlagsOK /\ RunsOK /\ AnswersOK /\ SendingOK => WsTypeOK
<1> SUFFICES ASSUME PostInv, FlagsOK, RunsOK, AnswersOK, SendingOK
             PROVE  WsTypeOK
  OBVIOUS
<1>t. RoomsOK /\ SpeakerOK /\ SendsOK /\ StoreOK
  BY DEF PostInv
<1>1. up \in Seq({"sub", "unsub", "send"} \X Items \X Waiters)
  <2>1. UpFrames \subseteq {"sub", "unsub", "send"} \X Items \X Waiters
    BY DEF UpFrames, Items, LiveIds
  <2> QED
    BY <1>t, <2>1, SeqMonotonic DEF SendsOK
<1>2. down \in Seq({"ready", "ok", "err"} \X (Items \cup {NULL}) \X Waiters)
  <2>1. DownFrames \subseteq {"ready", "ok", "err"} \X (Items \cup {NULL}) \X Waiters
    <3> SUFFICES ASSUME NEW f \in DownFrames
                 PROVE  f \in {"ready", "ok", "err"} \X (Items \cup {NULL}) \X Waiters
      OBVIOUS
    <3>1. CASE f[1] = "ready"
      BY <3>1 DEF DownFrames
    <3>2. CASE f[1] # "ready"
      BY <3>2, ReadAnswer DEF DownFrames
    <3> QED
      BY <3>1, <3>2
  <2> QED
    BY <1>t, <2>1, SeqMonotonic DEF StoreOK
<1>3. pendingSends \subseteq Ids /\ late \subseteq Ids \X Users
  BY <1>t DEF SendsOK, LiveIds
<1>4. run \in [Runs -> [phase : {"off", "subs", "sends"}, seen : SUBSET Items,
                        wait : Items \cup {NULL}]]
  BY DEF RunsOK, RunRecords
<1>5. {ready, retry, onReady} \subseteq BOOLEAN
  BY DEF FlagsOK
<1> QED
  BY <1>t, <1>1, <1>2, <1>3, <1>4, <1>5
     DEF WsTypeOK, RoomsOK, SpeakerOK, SendsOK, StoreOK, FlagsOK, AnswersOK, SendingOK, Entries

\* The client's and the server's variables keep their types, 'ready' is up only
\* on an open socket, and a send that was acknowledged is not sent again, which
\* onMessage sees to by the deletion from pendingSends.
THEOREM WsTypeCorrect == WsSafety => []WsTypeOK
<1>1. PostInv /\ FlagsOK /\ [WsNext]_wsVars => FlagsOK'
  BY FlagsStep
<1>2. PostInv /\ RunsOK /\ [WsNext]_wsVars => RunsOK'
  BY RunsStep
<1>3. PostInv /\ AnswersOK /\ [WsNext]_wsVars => AnswersOK'
  BY AnswersStep
<1>4. SendingOK /\ [WsNext]_wsVars => SendingOK'
  BY SendingStep
<1>5. WsInit => SendingOK
  BY DEF WsInit, SendingOK
<1> QED
  BY <1>1, <1>2, <1>3, <1>4, <1>5, PostInvariant, FlagsInit, RunsInit, AnswersInit, WsTyped, PTL
     DEF WsSafety

-------------------------------------------------------------------------------
posted == [k \in DOMAIN log |-> log[k].id]

OneUser == \A u, v \in Users : u = v

\* What is stored was posted, and nothing else.
LEMMA PostedIsStored ==
    ASSUME log \in Seq(Entries), NEW i
    PROVE  Posting!Posted(i) <=> i \in StoredIds
BY DEF Posting!Posted, StoredIds

\* A row, or no row, is stored: a post or no step.
LEMMA StoreRefines ==
    ASSUME OneUser, PostInv, NEW i \in LiveIds, NEW u \in Users, Store(i, u), UNCHANGED result
    PROVE  Posting!Post(i) \/ UNCHANGED <<posted, result>>
<1>1. CASE Known(i, u)
  BY <1>1 DEF Store, posted
<1>2. CASE ~Known(i, u)
  <2> DEFINE e == [id |-> i, by |-> u]
  <2>1. e \in Entries /\ e.id = i /\ log \in Seq(Entries)
    BY DEF Entries, LiveIds, PostInv, StoreOK
  <2>2. log' = Append(log, e)
    BY <1>2 DEF Store
  <2> HIDE DEF e
  <2>3. posted' = Append(posted, i)
    BY <2>1, <2>2, ProjectAppend DEF posted
  <2>4. i \notin StoredIds
    <3> SUFFICES ASSUME NEW k \in DOMAIN log, log[k].id = i
                 PROVE  FALSE
      BY DEF StoredIds
    <3>1. log[k] \in Entries
      BY <2>1, LenProperties
    <3>2. log[k] = [id |-> i, by |-> u]
      BY <3>1 DEF Entries, OneUser
    <3> QED
      BY <1>2, <3>2 DEF Known
  <2>5. ~Posting!Posted(i)
    BY <2>1, <2>4, PostedIsStored
  <2>6. result[i] # "unsent"
    BY DEF LiveIds
  <2> QED
    BY <2>3, <2>5, <2>6 DEF Posting!Post, posted
<1> QED
  BY <1>1, <1>2

LEMMA StepRefines ==
    ASSUME OneUser, PostInv, [WsNext]_wsVars
    PROVE  [Posting!PostNext]_(Posting!postVars)
<1>t. SpeakerOK /\ SendsOK /\ StoreOK
  BY DEF PostInv
<1>s. UNCHANGED <<log, result>> => UNCHANGED Posting!postVars
  BY DEF Posting!postVars
<1>1. ASSUME NEW i \in Ids, UserSend(i)
      PROVE  Posting!Write(i)
  BY <1>1 DEF UserSend, Posting!Write
<1>2. ASSUME NEW i \in Ids, UserTimeout(i)
      PROVE  Posting!GiveUp(i)
  BY <1>2 DEF UserTimeout, Posting!GiveUp
<1>3. CASE ReceiveAnswer
  <2> DEFINE f == Head(down)
             told == f[3] = "user" /\ f[2] \in Ids /\ result[f[2]] = "waiting"
  <2>1. f \in DownFrames /\ log' = log
    BY <1>3, <1>t, HeadTailProperties DEF ReceiveAnswer, StoreOK
  <2>2. CASE told /\ f[1] = "ok"
    <3>1. f[2] \in StoredIds
      BY <2>1, <2>2, ReadDownFrame, IdsAssumption
    <3>2. Posting!Posted(f[2])
      BY <1>t, <3>1, PostedIsStored DEF StoreOK
    <3>3. Posting!Confirm(f[2])
      BY <1>3, <2>1, <2>2, <3>2 DEF ReceiveAnswer, Posting!Confirm
    <3> QED
      BY <2>2, <3>3 DEF Posting!PostNext
  <2>3. CASE told /\ f[1] # "ok"
    <3>1. Posting!GiveUp(f[2])
      BY <1>3, <2>1, <2>3 DEF ReceiveAnswer, Posting!GiveUp
    <3> QED
      BY <2>3, <3>1 DEF Posting!PostNext
  <2>4. CASE ~told
    BY <1>3, <1>s, <2>1, <2>4 DEF ReceiveAnswer
  <2> QED
    BY <2>2, <2>3, <2>4
<1>4. CASE ServerHandles
  <2> DEFINE f == Head(up)
  <2>1. f \in UpFrames
    BY <1>4, <1>t, HeadTailProperties DEF ServerHandles, SendsOK
  <2>2. speaker \in Users /\ result' = result
    BY <1>4, <1>t DEF ServerHandles, SpeakerOK, clientVars
  <2>3. CASE f[1] = "send"
    <3>1. PICK i \in LiveIds : Store(i, speaker)
      BY <1>4, <2>1, <2>3, ReadUpFrame DEF ServerHandles
    <3> HIDE DEF f
    <3>2. Posting!Post(i) \/ UNCHANGED <<posted, result>>
      BY <2>2, <3>1, StoreRefines
    <3> QED
      BY <3>2 DEF Posting!PostNext, Posting!postVars, posted, LiveIds
  <2>4. CASE f[1] # "send"
    BY <1>4, <1>s, <2>2, <2>4 DEF ServerHandles
  <2> QED
    BY <2>3, <2>4
<1>5. CASE LateFrame
  <2>1. PICK f \in late : Store(f[1], f[2]) \/ UNCHANGED log
    BY <1>5 DEF LateFrame
  <2>2. f[1] \in LiveIds /\ f[2] \in Users /\ result' = result
    BY <1>5, <1>t, <2>1 DEF LateFrame, SendsOK, clientVars
  <2>3. CASE Store(f[1], f[2])
    <3>1. Posting!Post(f[1]) \/ UNCHANGED <<posted, result>>
      BY <2>2, <2>3, StoreRefines
    <3> QED
      BY <2>2, <3>1 DEF Posting!PostNext, Posting!postVars, posted, LiveIds
  <2>4. CASE UNCHANGED log
    BY <1>s, <2>2, <2>4
  <2> QED
    BY <2>1, <2>3, <2>4
<1>6. CASE UNCHANGED <<log, result>>
  BY <1>6, <1>s
<1> QED
  BY <1>1, <1>2, <1>3, <1>4, <1>5, <1>6
     DEF Posting!PostNext, WsNext, GoOn, Events, wsVars, clientVars, RunAsks, RunTurns, RunEnds,
         Mount, Unmount, Establish, Lose, RetryFires, ReceiveReady, RunTimeout, ServerRefuses,
         SetSession, ClearSession

\* While one user uses the tab, sendMessage, the resends of the 'ready' handler
\* and the server's index implement ReliablePost: a message is posted at most
\* once, after it was written, and nobody is told "sent" before it is posted,
\* whatever is lost, late, timed out or sent again.
THEOREM ClientPostsReliably == OneUser => (WsSafety => PostsReliably)
<1> SUFFICES ASSUME OneUser
             PROVE  WsSafety => PostsReliably
  OBVIOUS
<1>1. WsInit => Posting!PostInit
  BY DEF WsInit, Posting!PostInit
<1>2. PostInv /\ [WsNext]_wsVars => [Posting!PostNext]_(Posting!postVars)
  BY StepRefines
<1> QED
  BY <1>1, <1>2, PostInvariant, PTL DEF WsSafety, PostsReliably, Posting!PostSpec
=============================================================================
