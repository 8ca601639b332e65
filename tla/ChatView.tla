-------------------------------- MODULE ChatView --------------------------------
(***************************************************************************)
(* The message list of frontend/src/views/ChatView.vue: pages of history   *)
(* over REST, message frames over the socket, and the user's own message   *)
(* over REST when the socket is not ready, each landing in the list when   *)
(* it comes, while the user pages back and goes from room to room.         *)
(*                                                                         *)
(* A request is in calls from its await to its answer, which may come      *)
(* after those of later requests; a component that is unmounted is gone    *)
(* with its calls, but one that only switches rooms meets them later.  The *)
(* server answers one connection's frames in order.  An id is the place of *)
(* the message in log.                                                     *)
(***************************************************************************)
EXTENDS ChatBase, SequencesExt

CONSTANTS
    Old,            \* the number of messages there are at first
    PageSize,       \* the limit of a page: 50 in the code
    MaxMessages,    \* bound on the table
    MaxVisits       \* bound: rooms that one mounted component shows in turn

ASSUME ViewAssumption ==
    /\ NULL \notin Rooms \cup Nat
    /\ {PageSize, MaxVisits} \subseteq Nat \ {0} /\ {Old, MaxMessages} \subseteq Nat

VARIABLES
    log,                 \* messages: the room of each
    subs,                \* the room the server has the connection subscribed to
    ready,               \* ws.ready
    line,                \* message frames under way, in order
    roomId,              \* the room of the mounted view, or NULL
    visit,               \* counts the rooms this component has shown
    messages, seenMessageIds, hasMore, loadingHistory,
    calls,               \* requests that are awaited, see Call
    base,                \* record: length of log for this visit's first page, or 0
    early,               \* record: pushed while this visit's first page was loading
    gone,                \* record: what the socket does not bring in this visit
    disturbed            \* record: see Receive and Land

listVars   == <<messages, seenMessageIds, hasMore, loadingHistory>>
recordVars == <<base, early, gone, disturbed>>
serverVars == <<log, subs, line, ready>>
viewVars   == <<serverVars, roomId, visit, listVars, calls, recordVars>>

\* asof is the length of log when the server answered, NULL before; before is
\* the before_id of an older page, 0 without one.
Call(kind, v, r, before) ==
    [kind |-> kind, visit |-> v, room |-> r, before |-> before, asof |-> NULL]

ViewInit ==
    /\ log \in [1..Old -> Rooms] /\ subs = NULL /\ ready = FALSE /\ line = <<>>
    /\ roomId = NULL /\ visit = 0
    /\ messages = <<>> /\ seenMessageIds = {} /\ hasMore = FALSE /\ loadingHistory = FALSE
    /\ calls = {}
    /\ base = 0 /\ early = {} /\ gone = {} /\ disturbed = FALSE

Loading == \E c \in calls : c.kind = "page" /\ c.visit = visit

-------------------------------------------------------------------------------
\* pushMessage: a message that was not seen finds its place by its id.  The
\* mutant appends it.
Placed_Last(m) == Append(messages, m)
Placed(m) ==
    LET k == Cardinality({n \in DOMAIN messages : messages[n] < m}) IN
    InsertAt(messages, k + 1, m)

PushMessage(m) ==
    IF m \in seenMessageIds
      THEN UNCHANGED <<messages, seenMessageIds, early, disturbed>>
      ELSE /\ messages' = Placed(m)
           /\ seenMessageIds' = seenMessageIds \cup {m}
           /\ early' = IF Loading THEN early \cup {m} ELSE early
           /\ disturbed' = (disturbed \/ (messages # <<>> /\ m < Head(messages)))

\* The numbers of S in order
InOrder(S) ==
    CHOOSE s \in [1..Cardinality(S) -> S] : \A k, n \in DOMAIN s : k < n => s[k] < s[n]

\* listMessages: the last PageSize messages of a room before a given one, and
\* whether there are more
Before(c) == {i \in 1..c.asof : log[i] = c.room /\ (c.before = 0 \/ i < c.before)}
Newest(S) == {i \in S : Cardinality({j \in S : j >= i}) <= PageSize}
Page(c)   == InOrder(Newest(Before(c)))
More(c)   == Cardinality(Before(c)) > PageSize

\* The first page is the list, an older one goes before it.  The mutant shows
\* the older page alone.
Landed_Alone(c) == Page(c)
Landed(c) == IF c.kind = "page" THEN Page(c) ELSE Page(c) \o messages

-------------------------------------------------------------------------------
\* A mounted component is new.  setupWs has the client subscribe, see Subscribe;
\* loadInitialHistory asks for the first page.
Mount(r) ==
    /\ roomId = NULL
    /\ roomId' = r /\ visit' = 1
    /\ messages' = <<>> /\ seenMessageIds' = {} /\ hasMore' = FALSE /\ loadingHistory' = TRUE
    /\ calls' = {Call("page", 1, r, 0)}
    /\ base' = 0 /\ early' = {} /\ gone' = DOMAIN log /\ disturbed' = FALSE
    /\ UNCHANGED serverVars

Unmount ==
    /\ roomId # NULL
    /\ roomId' = NULL /\ visit' = 0
    /\ messages' = <<>> /\ seenMessageIds' = {} /\ hasMore' = FALSE /\ loadingHistory' = FALSE
    /\ calls' = {}
    /\ base' = 0 /\ early' = {} /\ gone' = {} /\ disturbed' = FALSE
    /\ UNCHANGED serverVars

\* The watch on roomId clears the list and what was seen; the mutant keeps the
\* list until the page comes.
Cleared_LeavesList == UNCHANGED messages /\ seenMessageIds' = {}
Cleared == messages' = <<>> /\ seenMessageIds' = {}

Switch(r) ==
    /\ roomId \notin {NULL, r} /\ visit < MaxVisits
    /\ roomId' = r /\ visit' = visit + 1
    /\ Cleared
    /\ loadingHistory' = TRUE
    /\ calls' = calls \cup {Call("page", visit + 1, r, 0)}
    /\ base' = 0 /\ early' = {} /\ gone' = DOMAIN log /\ disturbed' = FALSE
    /\ UNCHANGED <<serverVars, hasMore>>

\* loadMoreHistory
LoadMore ==
    /\ roomId # NULL /\ ~loadingHistory /\ hasMore /\ messages # <<>>
    /\ loadingHistory' = TRUE
    /\ calls' = calls \cup {Call("older", visit, roomId, Head(messages))}
    /\ UNCHANGED <<serverVars, roomId, visit, messages, seenMessageIds, hasMore, recordVars>>

\* onSend, while the socket is not ready; one at a time (sending)
SendOverRest ==
    /\ roomId # NULL /\ ~ready
    /\ \A c \in calls : c.kind # "post"
    /\ calls' = calls \cup {Call("post", visit, roomId, 0)}
    /\ UNCHANGED <<serverVars, roomId, visit, listVars, recordVars>>

-------------------------------------------------------------------------------
\* A message is stored and broadcast to the subscribers of its room.
Store(r) ==
    LET m == Len(log) + 1 IN
    /\ m <= MaxMessages
    /\ log' = Append(log, r)
    /\ line' = IF subs = r THEN Append(line, m) ELSE line
    /\ gone' = IF subs = r THEN gone ELSE gone \cup {m}
    /\ UNCHANGED <<subs, ready>>

\* Anybody posts, this user over the socket included.
Post(r) == Store(r) /\ UNCHANGED <<roomId, visit, listVars, calls, base, early, disturbed>>

Serve(c) ==
    /\ c.asof = NULL
    /\ IF c.kind = "post" THEN Store(c.room) ELSE UNCHANGED <<serverVars, gone>>
    /\ calls' = (calls \ {c}) \cup {[c EXCEPT !.asof = Len(log')]}
    /\ UNCHANGED <<roomId, visit, listVars, base, early, disturbed>>

\* An answer is used in the room that is shown now, whichever it was asked for.
\* disturbed notes an answer of an earlier visit, and (in PushMessage) a message
\* older than all that are shown.
LandPage(c) ==
    /\ c.kind \in {"page", "older"} /\ c.asof # NULL
    /\ calls' = calls \ {c}
    /\ seenMessageIds' = seenMessageIds \cup Newest(Before(c))
    /\ messages' = Landed(c)
    /\ hasMore' = More(c)
    /\ loadingHistory' = FALSE
    /\ base' = IF c.kind = "page" THEN c.asof ELSE base
    /\ disturbed' = (disturbed \/ c.visit # visit)
    /\ UNCHANGED <<serverVars, roomId, visit, early, gone>>

LandPost(c) ==
    /\ c.kind = "post" /\ c.asof # NULL
    /\ calls' = calls \ {c}
    /\ IF c.visit = visit
         THEN PushMessage(c.asof)
         ELSE /\ messages' = IF c.asof \in seenMessageIds THEN messages ELSE Placed(c.asof)
              /\ seenMessageIds' = seenMessageIds \cup {c.asof}
              /\ disturbed' = TRUE
              /\ UNCHANGED early
    /\ UNCHANGED <<serverVars, roomId, visit, hasMore, loadingHistory, base, gone>>

\* A request fails, before or after the server has dealt with it.  A failed
\* page is no longer loading; the mutant has no finally.
Freed_OnSuccess(c) == loadingHistory
Freed(c) == IF c.kind = "post" THEN loadingHistory ELSE FALSE

Fail(c) ==
    /\ calls' = calls \ {c}
    /\ loadingHistory' = Freed(c)
    /\ disturbed' = (disturbed \/ (c.kind # "post" /\ c.visit # visit))
    /\ UNCHANGED <<serverVars, roomId, visit, messages, seenMessageIds, hasMore, base, early, gone>>

-------------------------------------------------------------------------------
\* The socket.  The client asks for the room that is shown and gives up the one
\* that was; the server hears of it some time later.
Subscribe ==
    /\ ready /\ subs # roomId
    /\ subs' = IF subs = NULL THEN roomId ELSE NULL
    /\ UNCHANGED <<log, line, ready, roomId, visit, listVars, calls, recordVars>>

Receive ==
    /\ line # <<>>
    /\ line' = Tail(line)
    /\ IF log[Head(line)] = roomId
         THEN PushMessage(Head(line))
         ELSE UNCHANGED <<messages, seenMessageIds, early, disturbed>>
    /\ UNCHANGED <<log, subs, ready, roomId, visit, hasMore, loadingHistory, calls, base, gone>>

\* The frames under way are lost with the connection.
Disconnect ==
    /\ ready
    /\ ready' = FALSE /\ subs' = NULL /\ line' = <<>>
    /\ gone' = IF roomId = NULL THEN gone ELSE gone \cup ToSet(line)
    /\ UNCHANGED <<log, roomId, visit, listVars, calls, base, early, disturbed>>

Reconnect ==
    /\ ~ready
    /\ ready' = TRUE
    /\ UNCHANGED <<log, subs, line, roomId, visit, listVars, calls, recordVars>>

ViewNext ==
    \/ \E r \in Rooms : Mount(r) \/ Switch(r) \/ Post(r)
    \/ Unmount \/ LoadMore \/ SendOverRest
    \/ \E c \in calls : Serve(c) \/ LandPage(c) \/ LandPost(c) \/ Fail(c)
    \/ Subscribe \/ Receive \/ Disconnect \/ Reconnect

ViewSpec == ViewInit /\ [][ViewNext]_viewVars

-------------------------------------------------------------------------------
Shown == ToSet(messages)
InRoom == {i \in DOMAIN log : log[i] = roomId}

ViewTypeOK ==
    /\ log \in Seq(Rooms)
    /\ {subs, roomId} \subseteq Rooms \cup {NULL}
    /\ {ready, hasMore, loadingHistory, disturbed} \subseteq BOOLEAN
    /\ {messages, line} \subseteq Seq(DOMAIN log)
    /\ \A S \in {early, gone} : S \subseteq DOMAIN log
    /\ seenMessageIds \subseteq DOMAIN log /\ Shown \subseteq seenMessageIds
    /\ visit \in 0..MaxVisits /\ base \in 0..Len(log)
    /\ \A c \in calls : c.kind \in {"page", "older", "post"} /\ c.visit \in 1..visit

\* The list has the messages of the room that is shown, each once and in
\* order, through every interleaving of pages, frames and own messages, unless
\* an answer of an earlier visit or a message older than the list came in.
ShownInOrder ==
    ~disturbed =>
        /\ Shown \subseteq InRoom
        /\ \A k, n \in DOMAIN messages : k < n => messages[k] < messages[n]

\* From the oldest message that is shown on nothing is missing, except what
\* was posted after the first page was made and either came before that page
\* and was overwritten by it, or was not brought by the socket.
NothingElseIsMissing ==
    ~disturbed /\ messages # <<>> =>
        \A m \in InRoom : m >= Head(messages) =>
            m \in Shown \cup ToSet(line) \/ (m > base /\ m \in early \cup gone)

\* The list is not kept from loading pages for ever: while it is, a page is
\* awaited.
LoadingIsAwaited == loadingHistory => \E c \in calls : c.kind \in {"page", "older"}
===============================================================================
