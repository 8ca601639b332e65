----------------------------- MODULE MessageService -----------------------------
(***************************************************************************)
(* message.service.js behind its three entrances (the send frame, the POST *)
(* route, chat_send) and its readers (chat_read, the GET route).           *)
(*                                                                         *)
(* A call runs without an await, so it is one step up to its broadcast.    *)
(* What makes it hard is that answers get lost: a caller who heard nothing *)
(* calls again with the same client_msg_id, any number of times, and any   *)
(* time later.  So every action may happen again and again.                *)
(*                                                                         *)
(* Ids are AUTOINCREMENT and no row is ever deleted: the id of a message   *)
(* is its place in log, across all rooms.                                  *)
(***************************************************************************)
EXTENDS ChatBase, Sequences, FiniteSets

CONSTANTS
    Keys,           \* client_msg_ids other than the empty string
    EmptyKey,       \* the empty string, which the schemas let pass
    Readers,        \* users who read history
    Limits,         \* page sizes
    MaxMessages     \* bound on the table

ASSUME MessageAssumption ==
    /\ NULL \notin Keys \cup {EmptyKey} \cup Rooms
    /\ EmptyKey \notin Keys
    /\ Readers \subseteq Users
    /\ Limits \subseteq Nat \ {0}
    /\ MaxMessages \in Nat

VARIABLES
    open,         \* rooms that are not deleted
    member,       \* the members of each room
    log,          \* table messages
    announced,    \* ids in the order of their message frames
    told,         \* told[u][r][k]: message ids in answers to calls with key k
    view          \* what a reader has read so far, from which moment and how

messageVars == <<open, member, log, announced, told, view>>

GivenKeys == Keys \cup {EmptyKey}
Message == [room : Rooms, user : Users, key : GivenKeys \cup {NULL}]
View    == [room : Rooms \cup {NULL}, ids : SUBSET Nat, more : BOOLEAN, asof : Nat, limit : Nat]
NoView  == [room |-> NULL, ids |-> {}, more |-> FALSE, asof |-> 0, limit |-> 0]

MessageTypeOK ==
    /\ open \subseteq Rooms
    /\ member \in [Rooms -> SUBSET Users]
    /\ log \in Seq(Message)
    /\ announced \in Seq(Nat)
    /\ told \in [Users -> [Rooms -> [GivenKeys -> SUBSET Nat]]]
    /\ view \in [Readers -> View]

MessageInit ==
    /\ open = Rooms
    /\ member = [r \in Rooms |-> {}]
    /\ log = <<>>
    /\ announced = <<>>
    /\ told = [u \in Users |-> [r \in Rooms |-> [k \in GivenKeys |-> {}]]]
    /\ view = [u \in Readers |-> NoView]

-------------------------------------------------------------------------------
\* requireRoom and getMembership
MayUse(u, r) == r \in open /\ u \in member[r]

\* client_msg_id ?? null.  The mutant binds String(undefined) for an absent key.
Row_Stringified(u, r, k) ==
    [room |-> r, user |-> u, key |-> IF k = NULL THEN "undefined" ELSE k]
Row(u, r, k) == [room |-> r, user |-> u, key |-> k]
Ids(row) == {i \in DOMAIN log : log[i] = row}

\* The lookup before the insert.  It is skipped for a key that JavaScript takes
\* for false.  The mutant forgets room_id.
Existing_AnyRoom(u, r, k) ==
    IF k \in Keys THEN {i \in DOMAIN log : log[i].user = u /\ log[i].key = k} ELSE {}
Existing(u, r, k) == IF k \in Keys THEN Ids(Row(u, r, k)) ELSE {}

\* idx_messages_client_id
IndexAllows(u, r, k) == k = NULL \/ Ids(Row(u, r, k)) = {}

Tell(u, r, k, id) ==
    told' = IF k = NULL THEN told ELSE [told EXCEPT ![u][r][k] = @ \cup {id}]

\* emitMessageCreated, unless idempotent.  The mutant does not look.
Announce_Always(id, idempotent) == announced' = Append(announced, id)
Announce(id, idempotent) ==
    announced' = IF idempotent THEN announced ELSE Append(announced, id)

\* sendMessage finds the message of an earlier call.
SendAgain(u, r, k) ==
    /\ MayUse(u, r)
    /\ \E id \in Existing(u, r, k) : Tell(u, r, k, id) /\ Announce(id, TRUE)
    /\ UNCHANGED <<open, member, log, view>>

\* sendMessage inserts.  Where the index refuses the row, which only the empty
\* key can bring about, the caller gets INTERNAL and nothing changes.
Insert(u, r, k) ==
    /\ MayUse(u, r)
    /\ Existing(u, r, k) = {} /\ IndexAllows(u, r, k)
    /\ Len(log) < MaxMessages
    /\ log' = Append(log, Row(u, r, k))
    /\ UNCHANGED <<open, member, view>>

Send(u, r, k) ==
    /\ Insert(u, r, k)
    /\ Tell(u, r, k, Len(log) + 1)
    /\ Announce(Len(log) + 1, FALSE)

\* The process dies after the insert: nobody is told.
SendCrash(u, r, k) == Insert(u, r, k) /\ UNCHANGED <<announced, told>>

-------------------------------------------------------------------------------
InRoom(r) == {i \in DOMAIN log : log[i].room = r}

\* WHERE id < before_id, the oldest id the reader has.  The mutant has <=.
Before_Inclusive(r, ids) == {i \in InRoom(r) : \A j \in ids : i <= j}
Before(r, ids) == {i \in InRoom(r) : \A j \in ids : i < j}

\* The rows of S that ORDER BY id DESC LIMIT n returns
Page(S, n) == {i \in S : Cardinality({j \in S : j >= i}) <= n}

\* One row more than the limit is asked for.  The mutant is off by one.
HasMore_OffByOne(S, n) == Cardinality(S) > n + 1
HasMore(S, n) == Cardinality(S) > n

\* listMessages without before_id.  A reader starts over only when he is not in
\* the middle of reading that room.
ReadLatest(u, r, n) ==
    LET S == Before(r, {}) IN
    /\ MayUse(u, r)
    /\ view[u].room # r \/ ~view[u].more
    /\ view' = [view EXCEPT ![u] =
                  [room |-> r, ids |-> Page(S, n), more |-> HasMore(S, n),
                   asof |-> Len(log), limit |-> n]]
    /\ UNCHANGED <<open, member, log, announced, told>>

\* listMessages with the oldest id he has as before_id, while has_more
ReadOlder(u) ==
    LET v == view[u]
        S == Before(v.room, v.ids) IN
    /\ v.more /\ MayUse(u, v.room)
    /\ view' = [view EXCEPT ![u] =
                  [v EXCEPT !.ids = @ \cup Page(S, v.limit), !.more = HasMore(S, v.limit)]]
    /\ UNCHANGED <<open, member, log, announced, told>>

-------------------------------------------------------------------------------
\* Members come and go (a join in bcrypt may enter even a deleted room), and
\* rooms are deleted.
Enter(u, r) ==
    /\ u \notin member[r]
    /\ member' = [member EXCEPT ![r] = @ \cup {u}]
    /\ UNCHANGED <<open, log, announced, told, view>>

Exit(u, r) ==
    /\ u \in member[r]
    /\ member' = [member EXCEPT ![r] = @ \ {u}]
    /\ UNCHANGED <<open, log, announced, told, view>>

Delete(r) ==
    /\ r \in open
    /\ open' = open \ {r}
    /\ member' = [member EXCEPT ![r] = {}]
    /\ UNCHANGED <<log, announced, told, view>>

MessageNext ==
    \/ \E u \in Users, r \in Rooms :
          \/ \E k \in GivenKeys \cup {NULL} : Send(u, r, k) \/ SendAgain(u, r, k) \/ SendCrash(u, r, k)
          \/ Enter(u, r) \/ Exit(u, r)
    \/ \E u \in Readers : ReadOlder(u) \/ \E r \in Rooms, n \in Limits : ReadLatest(u, r, n)
    \/ \E r \in Rooms : Delete(r)

\* A reader who has not reached the beginning goes on asking.
MessageFairness == \A u \in Readers : WF_messageVars(ReadOlder(u))

MessageSafety == MessageInit /\ [][MessageNext]_messageVars
MessageSpec   == MessageSafety /\ MessageFairness

-------------------------------------------------------------------------------
\* However often a call is made with one key, in whatever rooms the same key is
\* used, its answers name one message, and that is the caller's in that room.
KeyNamesOneMessage ==
    \A u \in Users, r \in Rooms, k \in GivenKeys :
        \A i, j \in told[u][r][k] : i = j /\ i \in DOMAIN log /\ log[i] = Row(u, r, k)

\* Every message is announced at most once, and messages in the order of their
\* ids, through retries and crashes.
AnnouncedOnceInOrder ==
    /\ \A i, j \in DOMAIN announced : i < j => announced[i] < announced[j]
    /\ \A i \in DOMAIN announced : announced[i] \in DOMAIN log

\* A reader who pages back while others write has, of the room he reads, all
\* messages from the oldest he has to the newest there was when he began, and
\* when he is told that there are no more he has them all.
PagesHaveNoGaps ==
    \A u \in Readers :
        LET v == view[u] IN
        /\ v.ids \subseteq InRoom(v.room)
        /\ \A j \in InRoom(v.room) :
              j <= v.asof /\ (~v.more \/ \E i \in v.ids : i <= j) => j \in v.ids

\* A reader who goes on asking reaches the beginning, unless he loses access
\* or turns to another room.
ReadingEnds ==
    \A u \in Readers, r \in Rooms :
        view[u].room = r /\ view[u].more
            ~> ~MayUse(u, r) \/ view[u].room # r \/ ~view[u].more
===============================================================================
