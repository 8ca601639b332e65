-------------------------------- MODULE WsClient --------------------------------
(***************************************************************************)
(* frontend/src/ws/client.ts: the one WebSocket of a browser tab, with its *)
(* reconnections, resubscriptions and resends, against the server's        *)
(* handling of its frames; the chat view mounts, unmounts and sends        *)
(* through it (ChatView has its switches between rooms), and the session   *)
(* store gives it its token.                                               *)
(*                                                                         *)
(* A connection carries frames in order both ways until it is lost.  Then  *)
(* what the server sent is gone, while frames of the client may still      *)
(* reach the server, even after those of its next connection.  close() has *)
(* no caller, so explicitClose stays false and there is one socket at a    *)
(* time.  Request ids are never used twice, so a request is named by its   *)
(* item and by who waits for it: a run of the 'ready' handler or the user. *)
(* Heartbeats and the length of the timeouts are left out: a connection    *)
(* may be lost, and a wait may time out, at any moment.                    *)
(***************************************************************************)
EXTENDS ChatBase, Sequences

CONSTANTS
    Ids,         \* client_msg_ids; genClientMsgId makes a new one for each send
    Runs,        \* bound: 'ready' handlers that are suspended at one time
    MaxFrames    \* bound: frames under way before the view, or a run whose
                 \* request timed out, sends more

\* A client_msg_id is no id of a room.
ASSUME IdsAssumption == Ids \cap Rooms = {}

VARIABLES
    token,          \* the user whose token getToken() returns, or NULL
    conn,           \* this.ws
    speaker,        \* the user whose token the connection carries, or NULL
    ready,          \* this.ready
    retry,          \* reconnectTimer is pending
    subscribedRooms,
    pendingSends,
    run,            \* the running 'ready' handlers, see Idle
    result,         \* what became of each sendMessage
    view,           \* the room of the mounted chat view, or NULL
    sending,        \* the send its onSend awaits, which lets it start no other, or NULL
    onReady,        \* its 'ready' listener, which will subscribe, is registered
    up, down,       \* frames under way on the connection
    late,           \* sends of lost connections that are still under way
    serverSubs,     \* the rooms the server has the connection subscribed to
    refused,        \* the sends that were ever refused; a record for the properties
    log             \* messages: the table of messages, with author and id

clientVars == <<token, speaker, retry, subscribedRooms, pendingSends, run, result, view, sending,
                onReady>>
lineVars   == <<conn, ready, up, down, serverSubs>>
wsVars     == <<clientVars, lineVars, late, log, refused>>

\* A run walks over subscribedRooms, then over pendingSends, as they are at
\* each step; it has dealt with the items in seen and awaits the answer for wait.
Idle    == [phase |-> "off", seen |-> {}, wait |-> NULL]
Items   == Rooms \cup Ids
Waiters == Runs \cup {"user"}

WsTypeOK ==
    /\ {token, speaker} \subseteq Users \cup {NULL}
    /\ conn \in {"none", "connecting", "open"}
    /\ {ready, retry, onReady} \subseteq BOOLEAN
    /\ subscribedRooms \subseteq Rooms /\ serverSubs \subseteq Rooms
    /\ pendingSends \subseteq Ids
    /\ run \in [Runs -> [phase : {"off", "subs", "sends"}, seen : SUBSET Items,
                         wait : Items \cup {NULL}]]
    /\ result \in [Ids -> {"unsent", "waiting", "acked", "failed"}]
    /\ view \in Rooms \cup {NULL} /\ sending \in Ids \cup {NULL}
    /\ up \in Seq({"sub", "unsub", "send"} \X Items \X Waiters)
    /\ down \in Seq({"ready", "ok", "err"} \X (Items \cup {NULL}) \X Waiters)
    /\ late \subseteq Ids \X Users
    /\ refused \subseteq Ids
    /\ log \in Seq([id : Ids, by : Users])
    /\ ready => conn = "open"
    /\ \A i \in Ids : result[i] = "acked" => i \notin pendingSends

WsInit ==
    /\ token = NULL /\ speaker = NULL
    /\ conn = "none" /\ ready = FALSE /\ retry = FALSE
    /\ subscribedRooms = {} /\ pendingSends = {}
    /\ run = [h \in Runs |-> Idle]
    /\ result = [i \in Ids |-> "unsent"]
    /\ view = NULL /\ sending = NULL /\ onReady = FALSE
    /\ up = <<>> /\ down = <<>> /\ late = {} /\ serverSubs = {}
    /\ refused = {}
    /\ log = <<>>

-------------------------------------------------------------------------------
\* send: nothing leaves unless the socket is open.
Transmit(frames) == up' = IF conn = "open" THEN up \o frames ELSE up

MayCall == Len(up) < MaxFrames

\* connect, which does nothing when there is a socket or no token
Connect ==
    /\ IF conn = "none" /\ token # NULL
         THEN conn' = "connecting" /\ speaker' = token
         ELSE UNCHANGED <<conn, speaker>>
    /\ UNCHANGED <<ready, down, serverSubs>>

\* ChatView's onMounted: setupWs
Mount(r) ==
    /\ view = NULL /\ token # NULL /\ MayCall
    /\ view' = r
    /\ IF ready
         THEN /\ subscribedRooms' = subscribedRooms \cup {r}
              /\ Transmit(<< <<"sub", r, "user">> >>)
              /\ UNCHANGED onReady
         ELSE /\ onReady' = TRUE
              /\ UNCHANGED <<up, subscribedRooms>>
    /\ Connect
    /\ UNCHANGED <<token, retry, pendingSends, run, result, sending, late, log, refused>>

\* onUnmounted; unsubscribe tells the server only when the client is ready.
\* Runs go on with the Set as it becomes: a room that is dropped and added
\* again is walked over again.
Unmount ==
    /\ view # NULL /\ MayCall
    /\ view' = NULL /\ sending' = NULL /\ onReady' = FALSE
    /\ subscribedRooms' = subscribedRooms \ {view}
    /\ IF ready THEN Transmit(<< <<"unsub", view, "user">> >>) ELSE UNCHANGED up
    /\ run' = [h \in Runs |-> [run[h] EXCEPT !.seen = @ \ {view}]]
    /\ UNCHANGED <<token, conn, speaker, ready, retry, pendingSends, result, down, late,
                   serverSubs, log, refused>>

\* onSend over the socket and sendMessage.  A view awaits one send at a time;
\* what a view that is gone awaited goes on.
UserSend(i) ==
    /\ view # NULL /\ ready
    /\ result[i] = "unsent" /\ sending = NULL
    /\ sending' = i
    /\ result' = [result EXCEPT ![i] = "waiting"]
    /\ pendingSends' = pendingSends \cup {i}
    /\ Transmit(<< <<"send", i, "user">> >>)
    /\ UNCHANGED <<token, conn, speaker, ready, retry, subscribedRooms, run, view, onReady,
                   down, late, serverSubs, log, refused>>

\* The end of onSend
SendDone(i) == sending' = IF sending = i THEN NULL ELSE sending

\* The timeout of req rejects sendMessage.  The message stays in pendingSends;
\* the mutant drops it.
GivenUp_Dropped(i) == pendingSends' = pendingSends \ {i}
GivenUp(i) == UNCHANGED pendingSends

UserTimeout(i) ==
    /\ result[i] = "waiting"
    /\ result' = [result EXCEPT ![i] = "failed"]
    /\ SendDone(i) /\ GivenUp(i)
    /\ UNCHANGED <<token, speaker, retry, subscribedRooms, run, view, onReady,
                   lineVars, late, log, refused>>

-------------------------------------------------------------------------------
\* The upgrade succeeds; the server sends 'ready' at once.
Establish ==
    /\ conn = "connecting"
    /\ conn' = "open"
    /\ down' = << <<"ready", NULL, "user">> >>
    /\ UNCHANGED <<clientVars, ready, up, serverSubs, late, log, refused>>

\* A connection is refused or lost, and onClose sets the reconnect timer.
SendsIn(frames) == {frames[k][2] : k \in {k \in DOMAIN frames : frames[k][1] = "send"}}

Lose ==
    /\ conn # "none"
    /\ conn' = "none" /\ speaker' = NULL /\ ready' = FALSE /\ retry' = TRUE
    /\ late' = late \cup (SendsIn(up) \X {speaker})
    /\ up' = <<>> /\ down' = <<>> /\ serverSubs' = {}
    /\ UNCHANGED <<token, subscribedRooms, pendingSends, run, result, view, sending, onReady, log,
                   refused>>

\* The reconnect timer
RetryFires ==
    /\ retry
    /\ retry' = FALSE
    /\ Connect
    /\ UNCHANGED <<token, subscribedRooms, pendingSends, run, result, view, sending, onReady, up,
                   late, log, refused>>

\* onMessage, frame 'ready'
ReceiveReady ==
    /\ down # <<>> /\ Head(down)[1] = "ready"
    /\ down' = Tail(down)
    /\ ready' = TRUE
    /\ \E h \in Runs :
          /\ run[h] = Idle
          /\ run' = [run EXCEPT ![h].phase = "subs"]
    /\ UNCHANGED <<token, conn, speaker, retry, subscribedRooms, pendingSends, result, view,
                   sending, onReady, up, late, serverSubs, log, refused>>

\* An acknowledged send is forgotten.  The mutant forgets none.
Settled_None(kind, i) == {}
Settled(kind, i) == IF kind = "ok" THEN {i} ELSE {}

\* onMessage, answer to a request.  Nobody waits for it if it timed out.
ReceiveAnswer ==
    LET kind == Head(down)[1]
        item == Head(down)[2]
        who  == Head(down)[3]
        awaited == IF who = "user" THEN item \in Ids /\ result[item] = "waiting"
                                   ELSE run[who].wait = item
    IN
    /\ down # <<>> /\ kind # "ready"
    /\ down' = Tail(down)
    /\ run' = IF awaited /\ who # "user"
                THEN [run EXCEPT ![who].seen = @ \cup {item}, ![who].wait = NULL] ELSE run
    /\ result' = IF awaited /\ who = "user"
                   THEN [result EXCEPT ![item] = IF kind = "ok" THEN "acked" ELSE "failed"]
                   ELSE result
    /\ IF awaited /\ who = "user" THEN SendDone(item) ELSE UNCHANGED sending
    /\ pendingSends' = IF awaited THEN pendingSends \ Settled(kind, item) ELSE pendingSends
    /\ UNCHANGED <<token, conn, speaker, ready, retry, subscribedRooms, view, onReady, up, late,
                   serverSubs, log, refused>>

-------------------------------------------------------------------------------
\* What a run of the handler has left to ask for: rooms, and then, once it has
\* turned to them, sends.  The mutant does not resubscribe.
Todo_NoRooms(h) == IF run[h].phase = "subs" THEN {} ELSE pendingSends \ run[h].seen
Todo(h) == IF run[h].phase = "subs" THEN subscribedRooms \ run[h].seen
                                    ELSE pendingSends \ run[h].seen

Going(h) == run[h].phase # "off" /\ run[h].wait = NULL

\* The next request; it is rejected at once when the socket is not open.
RunAsks(h) ==
    /\ Going(h)
    /\ \E item \in Todo(h) :
          IF conn = "open"
            THEN /\ Transmit(<< <<IF item \in Rooms THEN "sub" ELSE "send", item, h>> >>)
                 /\ run' = [run EXCEPT ![h].wait = item]
            ELSE run' = [run EXCEPT ![h].seen = @ \cup {item}] /\ UNCHANGED up
    /\ UNCHANGED <<token, conn, speaker, ready, retry, subscribedRooms, pendingSends, result,
                   view, sending, onReady, down, late, serverSubs, log, refused>>

RunTurns(h) ==
    /\ Going(h) /\ run[h].phase = "subs" /\ Todo(h) = {}
    /\ run' = [run EXCEPT ![h].phase = "sends"]
    /\ UNCHANGED <<token, speaker, retry, subscribedRooms, pendingSends, result, view, sending,
                   onReady, lineVars, late, log, refused>>

\* The run ends with the 'ready' event, on which a view that was mounted
\* before subscribes.
RunEnds(h) ==
    /\ Going(h) /\ run[h].phase = "sends" /\ Todo(h) = {}
    /\ run' = [run EXCEPT ![h] = Idle]
    /\ onReady' = FALSE
    /\ subscribedRooms' = IF onReady THEN subscribedRooms \cup {view} ELSE subscribedRooms
    /\ IF onReady /\ ready THEN Transmit(<< <<"sub", view, "user">> >>) ELSE UNCHANGED up
    /\ UNCHANGED <<token, conn, speaker, ready, retry, pendingSends, result, view, sending, down,
                   late, serverSubs, log, refused>>

RunTimeout(h) ==
    /\ run[h].wait # NULL /\ (conn = "open" => MayCall)
    /\ run' = [run EXCEPT ![h].seen = @ \cup {run[h].wait}, ![h].wait = NULL]
    /\ UNCHANGED <<token, speaker, retry, subscribedRooms, pendingSends, result, view, sending,
                   onReady, lineVars, late, log, refused>>

-------------------------------------------------------------------------------
\* sendMessage on the server: a client_msg_id of a user and room is stored
\* once.  The mutant has no such index.
Known_Never(i, u) == FALSE
Known(i, u) == \E k \in DOMAIN log : log[k] = [id |-> i, by |-> u]

Store(i, u) == log' = IF Known(i, u) THEN log ELSE Append(log, [id |-> i, by |-> u])

\* dispatchFrame: handleSubscribe, handleUnsubscribe, handleSend.  The view
\* waits for no answer to its own subscriptions.
Answer(kind) ==
    LET frame == Head(up) IN
    down' = IF frame[1] = "unsub" \/ (frame[1] = "sub" /\ frame[3] = "user") THEN down
            ELSE Append(down, <<kind, frame[2], frame[3]>>)

ServerHandles ==
    LET kind == Head(up)[1]
        item == Head(up)[2]
    IN
    /\ up # <<>>
    /\ up' = Tail(up)
    /\ serverSubs' = CASE kind = "sub"   -> serverSubs \cup {item}
                       [] kind = "unsub" -> serverSubs \ {item}
                       [] OTHER          -> serverSubs
    /\ IF kind = "send" THEN Store(item, speaker) ELSE UNCHANGED log
    /\ Answer("ok")
    /\ UNCHANGED <<clientVars, conn, ready, late, refused>>

\* Storing the message fails.  The user stays a member of his rooms, so that
\* his subscriptions are accepted.
ServerRefuses ==
    /\ up # <<>> /\ Head(up)[1] = "send"
    /\ up' = Tail(up)
    /\ Answer("err")
    /\ refused' = refused \cup {Head(up)[2]}
    /\ UNCHANGED <<clientVars, conn, ready, late, serverSubs, log>>

\* A send of a lost connection reaches the server after all, or never does.
LateFrame ==
    /\ \E f \in late :
          /\ late' = late \ {f}
          /\ Store(f[1], f[2]) \/ UNCHANGED log
    /\ UNCHANGED <<clientVars, lineVars, refused>>

\* setSession on the login page; clearSession by logging out, on the list of
\* rooms, or by a 401.  The socket is left alone.
SetSession(u) ==
    /\ token = NULL /\ view = NULL
    /\ token' = u
    /\ UNCHANGED <<speaker, retry, subscribedRooms, pendingSends, run, result, view, sending,
                   onReady, lineVars, late, log, refused>>

ClearSession ==
    /\ token # NULL /\ view = NULL
    /\ token' = NULL
    /\ UNCHANGED <<speaker, retry, subscribedRooms, pendingSends, run, result, view, sending,
                   onReady, lineVars, late, log, refused>>

\* Whatever happens to the tab waits until its promises have gone on; and so
\* may, without a difference to anyone, the server.
Events ==
    \/ \E r \in Rooms : Mount(r)
    \/ Unmount
    \/ \E i \in Ids : UserSend(i) \/ UserTimeout(i)
    \/ Establish \/ Lose \/ RetryFires \/ ReceiveReady \/ ReceiveAnswer
    \/ \E h \in Runs : RunTimeout(h)
    \/ ServerHandles \/ ServerRefuses \/ LateFrame
    \/ \E u \in Users : SetSession(u)
    \/ ClearSession

GoOn(h) == RunAsks(h) \/ RunTurns(h) \/ RunEnds(h)

Quiet == \A h \in Runs : ~Going(h)

WsNext ==
    \/ \E h \in Runs : GoOn(h)
    \/ Quiet /\ Events

\* Timers fire, promises go on, and a connection that stays up makes progress.
WsFairness ==
    /\ WF_wsVars(Quiet /\ Establish) /\ WF_wsVars(Quiet /\ RetryFires)
    /\ WF_wsVars(Quiet /\ ServerHandles)
    /\ WF_wsVars(Quiet /\ (ReceiveReady \/ ReceiveAnswer))
    /\ \A i \in Ids : WF_wsVars(Quiet /\ UserTimeout(i))
    /\ \A h \in Runs : WF_wsVars(GoOn(h)) /\ WF_wsVars(Quiet /\ RunTimeout(h))

WsSafety == WsInit /\ [][WsNext]_wsVars
WsSpec   == WsSafety /\ WsFairness

-------------------------------------------------------------------------------
\* While one user uses the tab, the client and the server post reliably: every
\* resend, late frame, late answer and overlapping run is a step of
\* ReliablePost, or none.
Posting == INSTANCE ReliablePost WITH posts <- [k \in DOMAIN log |-> log[k].id],
                                      told  <- result
PostsReliably == Posting!PostSpec

\* From some time on the tab shows r, its user is logged in and no connection
\* is lost.
Steady(r) ==
    /\ <>[](view = r /\ token # NULL)
    /\ <>[][~Lose]_wsVars

\* docs/ws-protocol.md: what was not acknowledged is sent again after a
\* reconnection.  So whatever connections were lost and requests timed out
\* before, a message that was sent is stored in the end, although the user may
\* have been told that it failed.
SendIsStored ==
    \A r \in Rooms, i \in Ids : Steady(r) =>
        result[i] # "unsent" ~> i \in refused \/ \E k \in DOMAIN log : log[k].id = i

\* However mounts, unmounts and runs interleaved with losses, the room that is
\* shown is in the end subscribed to.
ShownIsSubscribed ==
    \A r \in Rooms : Steady(r) => <>[](r \in serverSubs)

\* README.md: client_msg_id is unique, a resend is not stored twice.
ResendStoresOnce ==
    \A k, n \in DOMAIN log : log[k].id = log[n].id => k = n
===============================================================================
