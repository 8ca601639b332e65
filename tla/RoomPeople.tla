------------------------------- MODULE RoomPeople -------------------------------
(***************************************************************************)
(* What a tab shows of another user of its room: whether he is a member    *)
(* (ChatView.vue, detail) and whether he is typing (typingUsers), against  *)
(* the server and that user's own tab with its ChatInput.                  *)
(*                                                                         *)
(* The watcher's view loads the detail of the room once and then follows   *)
(* frames, in the order in which the server sent them.  A frame is lost    *)
(* with the connection, and for those who are not subscribed.  The other   *)
(* user's ChatInput stays when his view switches to another room.          *)
(***************************************************************************)
EXTENDS ChatInput, SequencesExt, FiniteSets, Null

CONSTANTS
    Expiry,      \* ticks for which a typing entry lasts: 4000 ms
    MaxLine      \* bound: frames under way before anybody does more

ASSUME PeopleAssumption == Expiry \in Nat \ {0} /\ MaxLine \in Nat /\ NULL \notin Nat

VARIABLES
    speaks,         \* the other user's socket is ready and his view shows the room
    member,         \* he has a row in room_members
    subscribed,     \* the server has the watcher's connection subscribed
    frames,         \* frames under way to the watcher
    mounted,        \* the watcher's view shows the room
    call,           \* its loadDetail: "none", "asked", or answered "in" or "out"
    detail,         \* detail: NULL, or the number of entries for the other user
    expires,        \* ticks until his entry in typingUsers is swept, 0 without one
    missed,         \* record: the membership changed and nothing will tell the watcher
    unretracted     \* record: a retraction did not get through

watcherVars == <<mounted, call, detail, expires>>
peopleVars  == <<inputVars, speaks, member, subscribed, frames, watcherVars, missed, unretracted>>

Rows == IF member THEN 1 ELSE 0

PeopleInit ==
    /\ InputInit
    /\ speaks = FALSE /\ member = TRUE
    /\ subscribed = FALSE /\ frames = <<>>
    /\ mounted = FALSE /\ call = "none" /\ detail = NULL /\ expires = 0
    /\ missed = FALSE /\ unretracted = FALSE

MayAct == Len(frames) < MaxLine

-------------------------------------------------------------------------------
\* sendTyping and handleTyping: what ChatInput emits reaches the watcher if the
\* sender is ready, shows this room and is a member of it.
Frame(isTyping) == IF isTyping THEN "typing" ELSE "idle"
Passes == speaks /\ member /\ subscribed

Through(told) == IF Passes THEN [k \in DOMAIN told |-> Frame(told[k])] ELSE <<>>
Lost(told)    == ~Passes /\ FALSE \in ToSet(told)

Typing(told) ==
    /\ frames' = frames \o Through(told)
    /\ unretracted' = (unretracted \/ Lost(told))

\* What one action of ChatInput may emit
Tells == {<<>>, <<TRUE>>, <<FALSE>>, <<TRUE, FALSE>>}

\* The other user at his keyboard, and the end of his request
UserActs ==
    /\ MayAct
    /\ \/ \E told \in Tells : (Type(told) \/ SendFails(told)) /\ Typing(told)
       \/ /\ \/ Click \/ KeyUp \/ Arrow(1) \/ Arrow(-1) \/ Pick \/ Escape \/ Submit
             \/ \E n \in 0..MaxMatches : MatchesChange(n)
          /\ UNCHANGED <<frames, unretracted>>
    /\ UNCHANGED <<speaks, member, subscribed, watcherVars, missed>>

\* His message was stored and broadcast before his request was answered.
MessageSent ==
    /\ MayAct /\ member
    /\ \E told \in Tells :
          /\ Sent(told)
          /\ frames' = frames \o (IF subscribed THEN <<"message">> ELSE <<>>) \o Through(told)
          /\ unretracted' = (unretracted \/ Lost(told))
    /\ UNCHANGED <<speaks, member, subscribed, watcherVars, missed>>

\* Whatever ChatInput emits when it unmounts, onUnmounted of the view retracts
\* once more.
UserLeavesView ==
    /\ MayAct
    /\ \E told \in Tells :
          /\ LeaveInput(told)
          /\ frames' = frames \o Through(told \o <<FALSE>>)
          /\ unretracted' = (unretracted \/ Lost(told))
    /\ UNCHANGED <<speaks, member, subscribed, watcherVars, missed>>

\* His socket gets ready or is lost, or his view switches to another room or
\* back: ChatInput does not notice.
UserSpeaks ==
    /\ speaks' = ~speaks
    /\ UNCHANGED <<inputVars, member, subscribed, frames, watcherVars, missed, unretracted>>

Idle == UNCHANGED <<inputVars, speaks>>

\* He joins the room, or leaves or is kicked; member_kicked does to others what
\* member_left does.
MembershipChanges ==
    /\ MayAct
    /\ member' = ~member
    /\ frames' = IF subscribed THEN Append(frames, IF member THEN "left" ELSE "joined") ELSE frames
    /\ missed' = ~subscribed
    /\ Idle /\ UNCHANGED <<subscribed, watcherVars, unretracted>>

-------------------------------------------------------------------------------
\* onMounted: loadDetail
WatcherMounts ==
    /\ ~mounted
    /\ mounted' = TRUE /\ call' = "asked"
    /\ UNCHANGED <<detail, expires, member, subscribed, frames, missed, unretracted>> /\ Idle

WatcherUnmounts ==
    /\ mounted
    /\ mounted' = FALSE /\ call' = "none" /\ detail' = NULL /\ expires' = 0
    /\ missed' = FALSE
    /\ UNCHANGED <<member, subscribed, frames, unretracted>> /\ Idle

\* getRoomDetail answers with the table; from here on only frames tell more.
\* The last one under way tells wrong if it is older than a change that was not
\* broadcast to this tab.
News == {k \in DOMAIN frames : frames[k] \in {"joined", "left"}}
NewsIsRight ==
    \A k \in News : (\A n \in News : n <= k) => (frames[k] = "joined") = member

DetailServed ==
    /\ call = "asked"
    /\ call' = IF member THEN "in" ELSE "out"
    /\ missed' = ~NewsIsRight
    /\ UNCHANGED <<mounted, detail, expires, member, subscribed, frames, unretracted>> /\ Idle

DetailLands ==
    /\ call \in {"in", "out"}
    /\ call' = "none" /\ detail' = IF call = "in" THEN 1 ELSE 0
    /\ UNCHANGED <<mounted, expires, member, subscribed, frames, missed, unretracted>> /\ Idle

DetailFails ==
    /\ call # "none"
    /\ call' = "none"
    /\ UNCHANGED <<mounted, detail, expires, member, subscribed, frames, missed, unretracted>> /\ Idle

\* The server hears of the watcher's subscription, or of its end.
SubscriptionHeard ==
    /\ subscribed # mounted
    /\ subscribed' = mounted
    /\ UNCHANGED <<member, frames, watcherVars, missed, unretracted>> /\ Idle

WatcherDisconnects ==
    /\ subscribed
    /\ subscribed' = FALSE /\ frames' = <<>>
    /\ missed' = (missed \/ {"joined", "left"} \cap ToSet(frames) # {})
    /\ unretracted' = (unretracted \/ "idle" \in ToSet(frames))
    /\ UNCHANGED <<member, watcherVars>> /\ Idle

\* member_joined adds the user unless he is listed; the mutant does not look.
\* member_left removes him; the mutant only stops showing him as typing.
Joined_Again(n) == n + 1
Joined(n) == IF n > 0 THEN n ELSE n + 1
Departed_Stays(n) == n
Departed(n) == 0

\* The handlers of setupWs.  Without a detail those of membership do nothing.
\* An announcement counts only for a member who is listed.
Handle ==
    LET f == Head(frames) IN
    /\ frames # <<>>
    /\ frames' = Tail(frames)
    /\ detail' = IF detail = NULL THEN NULL
                 ELSE CASE f = "joined" -> Joined(detail)
                        [] f = "left"   -> Departed(detail)
                        [] OTHER        -> detail
    /\ expires' = CASE ~mounted -> 0
                    [] f \in {"idle", "message"} -> 0
                    [] f = "left" /\ detail # NULL -> 0
                    [] f = "typing" /\ detail \notin {NULL, 0} -> Expiry
                    [] OTHER -> expires
    /\ missed' = \/ missed
                 \/ (f = "joined" /\ call = "out") \/ (f = "left" /\ call = "in")
    /\ unretracted' = (unretracted /\ (f # "idle" \/ "typing" \in ToSet(frames')))
    /\ UNCHANGED <<member, subscribed, mounted, call>> /\ Idle

\* The sweep of typingUsers.  The mutant never removes an entry.
Swept_Never(n) == n
Swept(n) == IF n = 0 THEN 0 ELSE n - 1

Tick ==
    /\ expires' = Swept(expires)
    /\ \E told \in Tells :
          /\ InputTick(told)
          /\ frames' = frames \o Through(told)
          /\ unretracted' = \/ Lost(told)
                            \/ unretracted /\ (expires' > 0 \/ "typing" \in ToSet(frames))
    /\ UNCHANGED <<speaks, member, subscribed, mounted, call, detail, missed>>

PeopleNext ==
    \/ UserActs \/ MessageSent \/ UserLeavesView \/ UserSpeaks
    \/ MembershipChanges
    \/ WatcherMounts \/ WatcherUnmounts \/ DetailServed \/ DetailLands \/ DetailFails
    \/ SubscriptionHeard \/ WatcherDisconnects \/ Handle
    \/ Tick

\* Time passes and frames arrive.
PeopleFairness == WF_peopleVars(Tick) /\ WF_peopleVars(Handle)

PeopleSafety == PeopleInit /\ [][PeopleNext]_peopleVars
PeopleSpec   == PeopleSafety /\ PeopleFairness

-------------------------------------------------------------------------------
PeopleTypeOK ==
    /\ InputTypeOK
    /\ {speaks, member, subscribed, mounted, missed, unretracted} \subseteq BOOLEAN
    /\ frames \in Seq({"typing", "idle", "message", "joined", "left"})
    /\ call \in {"none", "asked", "in", "out"}
    /\ detail \in {NULL, 0, 1} /\ expires \in 0..Expiry
    /\ ~mounted => call = "none" /\ detail = NULL /\ expires = 0
    /\ expires > 0 => detail = 1

\* Once the frames under way have come, the list of members is right, each
\* member once, however joins and departures interleaved with the answer to
\* loadDetail; except that what happened between that answer and the
\* subscription, or came before the answer, or was lost, stays unknown.
MembersAreRight ==
    mounted /\ detail # NULL /\ frames = <<>> /\ ~missed => detail = Rows

\* Who is shown as typing is announced as typing now, unless a retraction did
\* not get through.
IndicatorIsFounded ==
    expires > 0 /\ frames = <<>> => lastEmittedState \/ unretracted

\* An announcement is not repeated: a frame that would put off the expiry of an
\* entry comes only when a retraction did not get through.  So who types on for
\* longer than Expiry is no longer shown, for all the throttling in
\* noteUserActivity.
NeverPutOff ==
    [][frames # <<>> /\ frames' = Tail(frames) /\ Head(frames) = "typing" /\ expires > 0
          => unretracted]_peopleVars

\* Who stops typing, whether or not he sends, is in the end not shown as typing
\* any more, whatever frames were lost.
IndicatorEnds ==
    <>[][\A told \in Tells : ~Type(told)]_peopleVars => <>[](expires = 0)
===============================================================================
