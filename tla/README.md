# chatroom-ai, specified

TLA+ models of the chat room server in `backend/` (Node, Express, better-sqlite3,
`ws`, MCP) and its browser client in `frontend/`, checked with TLC; every
invariant and action property the passing runs check is also proved with TLAPS. The source is the reference: every definition is read
off the code, and `PROJECT.json` names the lines it stands for.

## The system

One Node process (PM2, one instance, restarted when it dies) serves three kinds
of clients: browsers over REST and a WebSocket, and agents over MCP. State lives
in SQLite, through a synchronous driver, and in the memory of the process.

Because the driver is synchronous, JavaScript that runs between two `await`s is
atomic. On the server concurrency comes from requests that are suspended:
`joinRoom`, `updateRoomPassword`, `createRoom`, `registerUser` and `authenticate`
wait for bcrypt, and everything else may run meanwhile. What follows an `await` of
an `async` service function in its route (the broadcast after a join) is a microtask
of the same turn, so a service's last step and the route's broadcast are one step.
In the browser it comes from answers that land whenever they like, in components
that have moved on.

| component | state | operations | how it meets the others |
|---|---|---|---|
| room service, membership, join attempts (`services/`) | tables `rooms`, `room_members`, `room_bans`, `join_attempts` | create, join, leave, kick, delete, set password | called by routes and MCP tools |
| hub (`ws/hub.js`) | `userConns`, `roomSubscribers`, `offlineTimers`, the room set of each socket | add and remove a connection, subscribe, unsubscribe, remove a user from a room, clear a room, broadcast | called by `ws/server.js`, `ws/handlers.js`, `ws/broadcaster.js` |
| ws server (`ws/server.js`) | a heartbeat timer per socket | upgrade, message, close, heartbeat timeout | feeds the hub, dispatches frames |
| handlers (`ws/handlers.js`) | none | subscribe, unsubscribe, send, typing, ping | tables and hub |
| broadcaster (`ws/broadcaster.js`) | the offline timers | one function per kind of frame | called after a service returns, changes subscriptions |
| presence (`services/presence.service.js`) | `lastTouchAt`, `users.last_seen_at` | touch, isOnline | every authenticated call touches |
| message service (`services/message.service.js`) | table `messages` | send (idempotent by `client_msg_id`), page through history | routes, handlers, MCP tools |
| user service, authentication | table `users`, signed tokens | register, log in, update profile | routes, MCP tools, upgrade |
| rate limiter (`utils/rate-limit.js`) | a sliding window per key | hit, check, reset | routes |
| migrations (`db/migrate.js`) | `_migrations` | migrate | process start |
| ws client (`frontend/src/ws/client.ts`) | socket, pending requests, pending sends, wanted rooms | connect, subscribe, send, the 'ready' handler, reconnect, resend | the chat view, the session's token |
| chat view (`views/ChatView.vue`) | message list, seen ids, detail with members, typing entries | load history and detail, live frames, switch rooms, leave | REST and ws client, the router |
| chat input (`components/ChatInput.vue`) | text, typing timers, list of mentions | type, send, pick a mention | emits `typing` and `send` to the chat view |
| session (`stores/auth.ts`, `api/client.ts`, `router.ts`, the login, register and room list views) | token in memory and in localStorage, the page, navigations under way | log in, register, log out, any request, navigate, reload | REST; a 401 ends the session |

What is hard, and what correct means:

- **Tables.** Checks made before an `await` may no longer hold after it. A live
  room has exactly one owner, seated in it; a room is not overfilled; bans and
  deletions are final; guessing is bounded.
- **Hub.** The same subscription is recorded twice and kept equal by hand; timers
  outlive connections; a peer may vanish without a word.
- **Tables and hub together.** Tables survive a crash and the hub does not.
  Membership is checked once, when a connection subscribes, and has to be
  withdrawn by every route that ends a membership. Frames have to be sent before
  the subscription of their addressee goes.
- **Presence.** Offline is announced from a snapshot after a delay; a reconnection
  cancels it. Does everybody who was shown a user online learn that he is gone?
- **Messages and their delivery.** Resending, reconnecting and answers that come
  too late should neither lose nor repeat a message, and the room on the screen
  should be subscribed to in the end.
- **The chat view.** History, frames and own messages land in one list in any
  order, also those of the room that was left.
- **Typing.** An announcement is throttled, its retraction may be lost, and the
  entry has to go all the same.
- **Accounts and sessions.** Registrations race for a name; limiters count over
  sliding windows; an answer of an earlier session may end or move the present one.

`PROJECT.json` lists these as hazards, each at its line.

## Modules

| module | models |
|---|---|
| `Null`, `ChatBase` | SQL's and JavaScript's null; user ids and room ids |
| `RoomService` | `room.service.js` with `membership.service.js` and `join-attempt.service.js` |
| `Hub` | `hub.js`, the life of a socket in `ws/server.js`, `schedulePresenceOffline` |
| `ChatServer` | `RoomService` and `Hub` joined by routes, MCP tools, handlers and broadcaster |
| `Presence` | `presence.service.js`, the presence frames of `broadcaster.js` and of `handleSubscribe`, on top of `Hub` |
| `MessageService` | `message.service.js` behind the send frame, the POST route and `chat_send`, and the readers of history |
| `ReliablePost` | abstract: what a client and the server promise together about sending |
| `WsClient` | `ws/client.ts` with the mounts and sends of the chat view, a lossy connection, and the server's handling of its frames; implements `ReliablePost` |
| `ChatView` | the message list of `ChatView.vue` against the table of messages |
| `ChatInput` | `ChatInput.vue`: typing announcements and the list of mentions |
| `RoomPeople` | members and typing as another tab shows them, on top of `ChatInput` |
| `Accounts` | `user.service.js`, the login and register routes and tools, `rate-limit.js` |
| `Session` | the session of a tab, its navigations and the answers that end or move it, on top of `Accounts` |
| `RoomServiceProofs`, `HubProofs`, `ChatServerProofs`, `PresenceProofs`, `MessageProofs`, `WsClientProofs`, `SessionProofs`, `ViewProofs` (`ChatView`, `ChatInput` and `RoomPeople`) | theorems |
| `MCRoomService`, `MCChatServer`, `MCSession` | symmetry for TLC |

### RoomService

A row of `room_members` is `memberRow[r][u]` with its role and the instant of
`joined_at`; the role `none` is the absent row. `status` is `absent` before the
insert, `live`, and `deleted` when `deleted_at` is set. `attempts[r][u]` is the row
of `join_attempts`: the count, and whether `locked_until` is NULL, ahead or past. A
room code is drawn until no row has it, deleted rows included, so the room id stands
for the code. A password hash matches the password it was made from and nothing else.

`joinRoom` is `JoinBegin` (found, not banned, not a member, not locked; it keeps the
hash it read) and then one of `JoinFail`, `JoinFull`, `JoinAdmit`.
`updateRoomPassword` is `SetPasswordBegin` and `SetPasswordCommit`. `createRoom` reads
nothing before its `await`, so it is one action. `leaveRoom` has three outcomes
(`LeaveAsMember`, `LeaveTransfer`, `LeaveDelete`). Requests refused before they write
anything change nothing and are not actions.

`RoomCrash` drops the suspended requests. `LeaveDeleteCrash` and `JoinAdmitCrash` are
crashes between two statements the code does not put into one transaction; everything
inside `db.transaction` is one step. The clock is there for `joined_at`: it counts
instants, `TicksPerSecond` of which make one second of CURRENT_TIMESTAMP.

### Hub

`sock[c]` is `open`, `lost` (the peer is gone, the server does not know), or `closing`
(`readyState` left OPEN, 'close' not emitted). Frames the `ws` library had buffered may
still reach the handlers of a closing socket, so `Subscribe` needs only a socket that
is still attached. After 'close' the id is free for a later connection. `timer[u]` holds
the rooms the pending offline timer will tell; a timer is only ever set with rooms, so
the empty set is no timer. `SocketStep` is what happens to sockets and timers, `HubCall`
the methods in any order.

### ChatServer

Each action is a whole route: change the tables, tell the subscribers, correct the
subscriptions. `Crash` conjoins the crashes of RoomService with the loss of the hub.
`heard[c][r]` is not a state of the server but of an ideal client that takes the
member list at its subscription and applies every frame after that. It lets the model
say that the frames add up to the truth.

### Presence

`Presence` extends `Hub` with `last_seen_at` (`recent[u]`: touched within
ONLINE_WINDOW_MS) and with what each client shows: the list of its `subscribe:ack`,
then every `presence`, `member_joined`, `member_left` and `member_kicked` frame.
Every action says which hub method it calls, so a behaviour of `Presence` is one of
`Hub`. `owed[u]` records the rooms that the close of his last connection obliged the
server to tell. Memberships come and go freely; `ChatServer` is where they are the
tables. The throttle of `touch` is left out: it is shorter than the window, so a
throttled call finds `recent` true already.

### MessageService

`log` is the table `messages`; ids are AUTOINCREMENT and rows are never deleted, so a
message's id is its place, across rooms. A call runs without an `await`: `Send` is
`sendMessage` together with the broadcast and the answer, `SendAgain` the idempotent
branch, `SendCrash` a crash after the insert. A lost answer needs no action: a call
may be made again at any time. `told` and `announced` are the answers and the frames,
kept to state properties. The empty string is a key of its own: it skips the lookup
and meets the unique index. A reader (`view`) takes the newest page and then pages
back with the oldest id he has, as `chat_read` is used and as the chat view does.

### WsClient

One tab has one socket (`conn`; `close()` has no caller). A connection carries frames in
order both ways (`up`, `down`) until it is lost; what the server sent is then gone, while
sends of the client may still reach the server later, even after those of the next
connection (`late`). A run of the 'ready' handler awaits one request after the other
while the socket may drop and be ready again, so several runs may be suspended at one
time (`Runs`), each walking `subscribedRooms` and then `pendingSends` as they are at each
step. A view awaits one send at a time (`sending`); the one that a view which is gone awaited
goes on. What a promise's continuation does before the next event is a step of its own
(`GoOn`) that goes before every event (`Quiet`). Request ids are never reused, so an
answer is named by its item and by who waits for it. The server's side is the
idempotent `Store` of `MessageService` and the subscriptions of one connection.

### ChatView

`log` gives the room of each message, its id is its place. Requests are in `calls` from
their `await` to their answer; a component that only switches rooms meets the answers of
the old room later (`visit`), one that is unmounted does not. `line` is the frames of the
connection. The records `base`, `early`, `gone` and `disturbed` keep what the code itself
gives up: frames that came before the first page and were overwritten by it, frames that
no subscription brought, and answers of an earlier visit, or messages older than the
list, that came in.

### ChatInput and RoomPeople

Time goes in ticks of 500 ms. The text is blank or not, the cursor is at an @-token or
not, and of the members that match there is the number. `RoomPeople` puts the user at his
keyboard (`ChatInput`) and the server in front of one watcher, whose view loads the detail
of the room once and then follows frames; membership changes, and frames are lost with the
watcher's connection, with the typist's socket and with his membership. `Handle` is the
handlers `member_joined`, `member_left`, `member_kicked`, `message` and `typing`; `Tick` is the
clock of the input's timers and of the sweep of `typingUsers`. The watcher stays in his room,
and so does the typist: what a switch of rooms does to the list of messages is in `ChatView`, a
detail of the old room that arrives in the new one is not modelled. `MessageSent` is a message
of the typist that reaches the room, whatever the typist's own view shows by then.

### Accounts and Session

`registerUser` and `authenticate` are split at bcrypt: `Register` and `Login` look the name up
and go through the limiter, `FinishRegister` and `FinishLogin` do the rest. The unique
index decides races (`Free`). Names are taken up to case, as the column and the limiter's
key take them. The model sees one address; calls of the MCP tools and of other clients
("elsewhere") are not limited, and a login of theirs changes nothing. A refusal by the limiter
is an error like any other: the views show its text. `admitted` is every hit since the last reset, kept to state
the limiters' property. `Restart` empties the buckets, which are in memory, and drops what waits
for bcrypt; accounts and tokens survive it.

`Session` adds a tab. A call reaches the server when it is made and is answered at any
time later; the answer is acted on whatever page the tab is on and whoever is logged in
by then. A navigation asks its guard at once (`Asked`) and its page arrives later, or the
navigation is superseded. `Goes` is `push` and `replace` as vue-router 4.5 has them: they give up
the navigation under way first, and only then find out whether they lead to the address that is
shown; if so they do nothing and ask no guard. The list of rooms has one address; rooms have
one each, and the login page has the one its guard redirected from in its query, so a navigation
from one of these to its like may or may not be such a duplicate (`Several`). Links, buttons and frames
lead to other pages, and the browser's history asks the guard in any case; that is `Navigate`.
`hydrate` runs when `App` is mounted, before the guard of the first navigation.
Page loads may be slow but do not fail. Other tabs write the same localStorage, and a JWT
may expire at any moment. The requests of the member pages are told apart by what their
answers do: let the tab into a room, show one, leave one, or only fill the page.

## Runs

| run | instance | states | asks |
|---|---|---|---|
| `rooms` | 3 users, 1 room, 2 passwords, 2 slots, threshold 2, seats 0 or 2, clock 0..1, 2 instants a second | 769 580 | types, ownership, capacity, bounded guessing, seniority, deletion, bans |
| `presence` | 2 users, 3 connections, 1 room | 28 688 | the hub's double bookkeeping and timers, whoever is subscribed is shown online, the rooms of a last connection hear that he left, whoever is gone is forgotten |
| `chat` | 2 users, 1 room, 3 connections, 2 passwords, 1 slot | 369 796 | only members listen, frames tell the truth |
| `messages` | 1 user, 2 rooms, 1 key besides the empty one and none, 3 messages, pages of 1 or 2 | 576 208 | one message per key, one frame per message, pages without gaps |
| `delivery` | 1 user, 1 room, 1 message, 2 overlapping 'ready' handlers | 321 418 | client and server implement `ReliablePost`; a send is stored and the room on the screen subscribed in the end |
| `chat_view` | 2 rooms, 4 messages, pages of 1, 2 visits | 2 254 202 | the list is in order and complete, loading is not blocked for ever |
| `people` | throttle 1, stop 2, expiry 3 ticks, 2 frames under way | 215 464 | members are right, typing is founded, not put off, and ends |
| `session` | 1 name, 2 passwords, 2 calls, one login per window of 1 and one registration per window of 2, clock 0..2 | 843 538 | who registered can log in, limiters admit neither more nor less than they should, only an answer that sends the tab where it is strands it |

State counts are after symmetry reduction. Why the bounds are enough:

- Rooms do not interact in `RoomService`, so one room shows all of it; three users give an
  owner, an heir and a rival; two slots race for a seat and run past a threshold of two; a
  creation with 0 or 2 seats makes rooms full at once.
- Three connections are two tabs and a stranger. In `chat` one slot suffices: what two
  suspended joins do to the tables is the matter of `rooms`. Its clock stands still
  (`MaxTime` 0), because only the order of `joined_at` would tell.
- Three messages in two rooms interleave the ids of a room with others and still make
  three pages of one.
- In `delivery` one message may be in the user's hands, pending, resent by two runs,
  late and answered twice at the same time; `MaxFrames` lets the view and runs that timed
  out send on only while nothing is under way before them, a run that goes on is not
  bounded. `ClientPostsReliably` proves the refinement without these bounds.
- Two rooms and two visits let an answer of the old room meet the list of the new one.
  Pages of one make three of them out of four messages.
- The constants of `people` keep the order of the code's 2.5 s (throttle), 3 s (retraction)
  and 4 s (expiry): a tick stands for as much of them as it needs to. Every entry of the
  watcher belongs to one user, and users do not interact.
- In `session` two calls are enough for a race for a name, for a login against a limiter
  that is reset meanwhile, and for a late answer against a new session. The boundary of
  a login's window (a hit exactly a window old) and what lies beyond are within the clock;
  of a registration's window only the boundary is.

`MaxTime`, `TicksPerSecond`, `MaxMembersArgs`, `MaxMessages`, `MaxVisits`, `MaxFrames`, `MaxLine`,
`MaxMatches` and the sizes of `Reqs`, `Runs` and `Calls` are the bounds; `fails` needs none, it is
bounded by `GuessBound`. No run turns deadlock checking off: requests keep arriving.

Each property is stated with a comment at the end of its module, and `PROJECT.json`
names for each a plausible bug that breaks it.

### Where the code differs from what the repository says

| run | property | what happens |
|---|---|---|
| `banned_inside` | `BannedStaysOut` | two joins of one user are in bcrypt; one is admitted, the owner kicks him, the other is admitted |
| `stale_owner` | `OnlyOwnerSetsPassword` | the owner leaves while his new password is hashed |
| `gone_announced` | `GoneIsAnnounced` | a last connection that is not subscribed to the room closes: no timer starts, or the one that was pending is cancelled and not started again |
| `account_change` | `ResendStoresOnce` | a message that was not acknowledged is resent after the tab's next user has logged in, and stored once more under his name |

Four more can be reproduced with configurations that are not among the runs:

- `MCSessionStranded.cfg` (`PageFitsSession`): `leaveRoom` and `loadDetail` call
  `router.replace('/rooms')` (`ChatView.vue:117`, `189`) whatever page the tab shows and whoever is
  logged in when their answer lands. On the list of rooms that is a duplicate: the router asks no
  guard and gives up the navigation to the login page that logout (`stores/auth.ts:59`) or a 401
  (line 68), that of the leave itself included, has started. The tab stays on the list of rooms,
  which `router.ts:12` says `requiresAuth`, without a token; `stores/auth.ts:62` says
  '401 时自动退出'. A bug.
- `MCRoomThreshold.cfg` (`LockedAfterThreshold`): guesses that passed the lock check
  together are all compared.
- `MCChatDeletedRoom.cfg` (`NoAudienceInDeletedRoom`): a join in bcrypt enters a room deleted
  meanwhile, or a crash falls between the two statements of a lone owner's leave; the member
  left behind subscribes to the deleted room.
- `ChatInputEscape.cfg` (`EscapeCloses`): the release of the Escape key opens the list again
  that its press closed.

`BanIsFinal`, `DeletionIsFinal` and `GuessBound` bound the damage: only requests already in
flight get through. TLC's trace of `stale_owner` is the one in which the leave deletes the room;
a transfer to an heir gives the same unconditional UPDATE, on a room that then has another
owner. `OnlyAnswersStrand`, which the run `session` checks, bounds the stranded tab: an answer
that sends the tab to the page it shows is the only way. Without a token the next 401 no longer
ends anything; a navigation or a reload brings the login page.

Facts met while modelling that no property states:

- A caller who waits `retry_after_seconds` to the millisecond is refused once more, since a
  hit exactly a window old still counts (`docs/agent-onboarding.md:124` says it is enough).
- `README.md:112` says that WebSocket connections are limited; there is no such limiter.
- `room_updated` is broadcast and no client listens to it.
- What is typed while a send is awaited is cleared with the text that was sent.
- The answer to a leave, or a `NOT_MEMBER` for a detail, takes the tab out of whatever room
  it shows by then.
- A mention index beyond a shrunken list of candidates makes Enter throw.
- A message that the user was told had failed may be posted later; if he sends it again
  it has a new id and is there twice. `ReliablePost` allows it.
- The client of `Presence` takes the list of the `subscribe:ack`, as `docs/ws-protocol.md`
  has it; the chat view takes the online flags of the room's detail instead.

### Fairness

- `GoneIsForgotten`, `LeaverIsShownOffline` and the counterexample to `GoneIsAnnounced` need
  `HubFairness`, or `PresenceFairness` which lifts it: weak fairness of three things the code
  arranges for itself, the heartbeat timeout of a *lost* connection (`setTimeout` in
  `refreshHeartbeat`, re-armed only by frames the lost peer no longer sends), the 'close'
  event of a connection that is closing (the `ws` library emits it after `terminate` or a
  closing handshake), and the offline timer (`setTimeout` in `schedulePresenceOffline`).
  An open connection is not forced to time out and nobody is forced to connect, close or
  subscribe. `GoneIsForgotten` has the premise that from some time on no peer of the user
  is open; that he comes back once more is allowed, that he does so forever is not.
- `MessageFairness` says of a client, not of the server, that a reader who was told there
  is more goes on asking; `ReadingEnds` is about him.
- `WsFairness`: promises go on, the reconnect and request timers fire, a connection under
  way is established or refused, the server handles frames and the client receives
  them while the connection is up. `SendIsStored` and `ShownIsSubscribed` have the premise
  `Steady`: from some time on the tab shows the room, its user is logged in and no
  connection is lost; what happened before is arbitrary.
- `PeopleFairness`: time passes and frames that are under way arrive. `IndicatorEnds` has
  the premise that the user stops typing.

## Proofs

All proofs hold for every value of the constants that meets the named assumptions:
`Users` is a finite set of naturals, `Reqs` is finite, `NULL` is no value of
another kind (user, room, password, key, page, reply, number), the threshold, `TicksPerSecond`, the limiters' maxima and the size of a page are
positive, a `client_msg_id` is no room id. The assumptions are named where the constants
are declared, and TLC evaluates them on the runs of the module.

- `RoomServiceProofs`. The inductive invariant is `SeatInv`: types; `FreshRooms` (a room
  without a row has no members, which makes creation preserve the count of owners);
  `OwnerSeated`; `WithinCapacity`. `OwnerSeated` needs the exact equivalence of
  role and owner id: "some member owns the room" is not inductive, because a transfer
  would leave two rows with the role `owner`. Capacity is preserved by `JoinAdmit`
  because the count is taken in the same step as the insert; the lemma is that
  adding one user to a finite set adds at most one. `BansHold`, `DeletionHolds` and
  `SeniorityHolds` are action properties, proved from the types action by action.
  `GuessBound` (`GuessesLimited`) needs `GuessesBounded`: failures plus the joins
  still in flight stay below the threshold plus the number of slots as long as the pair is
  not locked out, and stay so while it is, because joins in flight can only be used up
  once the lock holds.
- `HubProofs`. `HubInv` is types, `HubConsistent` and `TimerOnlyWhenAway`. The proof is by
  the actions of `HubNext`; `RemoveUserFromRoom` needs `HubConsistent` itself to
  know that all sockets of the user are visited.
- `ChatServerProofs`. Every step of the composed server is a step or a stutter of
  `RoomService` and of `Hub` (`ServerUsesRoomService`, `ServerUsesHub`), so their theorems
  carry over; with them `SubscribersAreMembers` and `FramesTellTheTruth` are
  inductive.
- `PresenceProofs`. Every step of `Presence` is a step or a stutter of `Hub`
  (`PresenceUsesHub`). `HereIsShown` needs `WatchersAreMembers`, because the ack of a
  later subscriber lists members only, and for a second tab the invariant itself:
  the watcher learnt of the user from the subscription of the first tab.
- `MessageProofs`. `KeyNamesOneMessage` needs `OneRowPerKey`, which is what the unique
  index gives: an answer given later is found by the row's contents. `PagesHaveNoGaps`
  rests on `PageFacts` (a page ends above everything it leaves out, and without
  `has_more` it is everything), and on the moment a reader began having passed, so that
  no row inserted later is one he should have had.
- `WsClientProofs`. `ClientPostsReliably`: while one user uses the tab, `WsClient` implements
  `ReliablePost`, for any number of messages, rooms and overlapping runs and queues of any
  length. `PostInv` says that every send that is anywhere (pending, on the line, late) was
  written (`SendsOK`), that every ok on the line follows the row of its message
  (`StoreOK`), and that an open connection speaks for a user (`SpeakerOK`). The premise
  `OneUser` is needed: `account_change` is the counterexample without it. The lemma
  `StoreRefines` is where it enters: the index tells authors apart, `ReliablePost` does not.
  `WsTypeCorrect` adds what `PostInv` leaves open: `FlagsOK` (the client is ready, and
  frames of the server are on their way, only on an open socket), `RunsOK` (a run deals with
  rooms and messages, since every frame but 'ready' answers a request about one) and
  `AnswersOK` (a send is forgotten in the step that acknowledges it, and only a send that
  was never tried is remembered anew).
- `SessionProofs`. "The navigation under way would be let pass by its guard still" (`TabInv`) is
  inductive: whoever changes the token starts a navigation in the same step. Either it is guarded
  with the new token and supersedes any that an old guard let pass, or it is a duplicate and leaves
  none (`WhereItGoes`). So a page that arrives fits. `OnlyAnswersStrand` (`AnswersAloneStrand`)
  follows step by step: a navigation that was asked about ends at a page that fits (`AskedFits`), and
  of the duplicates those of a login, a logout and a 401 lead to a page that fits the new token, which
  leaves the answers of `SentTo`. `EnrolledCanLogIn` follows from `Unique` and `Kept`: names are unique
  and rows stay, so the row that `authenticate` finds is the one that was promised.
  `LimitersLimit` and `RefusalsAreDue` are about `hit`, whose loop drops what is older than the
  window from the front of the bucket. `LimitInv` says of every key (`BucketFits`) that the bucket
  is the end of what was admitted since the last reset, that what it lacks of that is older
  than the window, that times ascend up to the clock, and `LimitHolds`: a bucket that still has
  room lacks the hit that is the maximum's number of places back, so that hit is too old.
  How many the loop drops is a cardinality, and the entry it stops at is a first one: the
  lemma `Least` is the principle of the least number, drawn from the well-foundedness of <.
  `SessionTypeCorrect` is the same invariant with `TabFits` and, of each call, `CallFits`: what
  an answer will do is fixed when the call is made.
- `ViewProofs`, first half (`ChatView`). `ViewInv` is types (`AllFit`), `LoadingIsAwaited`, and,
  until an answer of an earlier visit or a message older than the list came in, `Quiet`: the
  list has messages of its room, in ascending order (`Increasing`); a page is awaited at most
  once per visit, and an older one from where the list still begins (`Awaited`); each message of
  the room is shown, on the line, or one that the code gives up, and up to the end of the
  table that made the first page the list has no gap (`Accounted`), which is what makes
  `NothingElseIsMissing` inductive. The lemmas are about the insertion of `pushMessage` (a message is put
  in its place, and nothing else changes), about a page (its members, sorted: the rank in a
  finite set is one to one) and about putting an older page before the list.
- `ViewProofs`, second half (`RoomPeople`). `MembersAreRight` and `IndicatorIsFounded` speak of the
  moment when no frame is under way, so the invariant looks ahead along the frames.
  `MembersInv`: once an answer to loadDetail is made or in, the last frame about the
  membership tells right, and without one what the watcher knows is right. `TypingInv`: if the
  frames under way will leave the entry shown (`WillShow`), the user is announced as typing
  now, and if one of them will put it off (`WillPutOff`), a retraction did not get through.
  Appending a frame changes what the last one is; handling the first one changes nothing
  that lies ahead.

Only model-checked: the liveness properties (`GoneIsForgotten`, `LeaverIsShownOffline`,
`ReadingEnds`, `SendIsStored`, `ShownIsSubscribed`, `IndicatorEnds`), which are out of the prover's
reach. Every invariant and action property of a passing run is a theorem. The runs that end in
a violation are counterexamples and need no proof.

## Plan

Done: everything above. Worth doing next:

1. A clock for the lock of `join-attempt.service.js` (its length in whole seconds), which
   refines the lock of `RoomService` that may expire at any moment.
2. The online dots of the chat view, which come from the detail of the room and from
   presence frames, against `Presence`.
3. An abstract registry of rooms that `RoomService` implements.

## Not modelled

- Migrations: `migrate` runs once, before the server listens, in the one process there is.
- `updateProfile`, `GET` and `PUT /me`: nothing else depends on a nickname or an avatar.
- The limiter of `POST /messages` is one more instance of the class that `Accounts` models.
- The password form and the kick dialogue of the chat view and its member panel: they
  call the server and show its answer; the room service is where the calls are modelled,
  `Session` has their 401s.
- Forms, layout, formatting and text (markdown, contents of mentions, validation schemas),
  token signing and hashing (a hash is its password), logging, configuration and deployment.
- Reads that change nothing (`listMyRooms`) are not actions.

The components are listed in `PROJECT.json` with the reason.
