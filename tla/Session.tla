-------------------------------- MODULE Session --------------------------------
(***************************************************************************)
(* The session of a browser tab: stores/auth.ts, the 401 rule of           *)
(* api/client.ts, the guard of router.ts, the login and register views     *)
(* and the pages behind them, against Accounts.                            *)
(*                                                                         *)
(* A fetch has no owner: its answer is acted on whatever page the tab is   *)
(* on by then and whoever is logged in.  A navigation asks its guard at    *)
(* once, loads its page in the background and may be superseded until it   *)
(* is done, even by one that vue-router then finds to lead nowhere else.   *)
(* localStorage is shared with the other tabs of the browser.              *)
(* A call reaches the server when it is made; its answer takes any time.   *)
(***************************************************************************)
EXTENDS Accounts

VARIABLES
    token,      \* auth.token
    stored,     \* localStorage's token
    page,       \* what the router shows
    nav         \* the page of a navigation that its guard let pass, or NULL

sessionVars == <<accountVars, token, stored, page, nav>>

Members == {"rooms", "chat"}         \* meta.requiresAuth
Doors   == {"login", "register"}
Pages   == Members \cup Doors \cup {"agent-readme"}

\* The pages that have several addresses: one for each room, and the login page
\* with and without the address its guard came from
Several == {"chat", "login"}

ASSUME NullPageAssumption == NULL \notin Pages \cup {"blank"}

SessionTypeOK ==
    /\ AccountTypeOK
    /\ {token, stored} \subseteq Tokens \cup {NULL}
    /\ page \in Pages \cup {"blank"}
    /\ nav \in Pages \cup {NULL}
    /\ page = "blank" => nav # NULL
    /\ \A k \in Calls : call[k].waits = "form" => page \in Doors

SessionInit ==
    /\ AccountInit
    /\ token = NULL /\ stored = NULL
    /\ page = "blank" /\ nav = "login"

-------------------------------------------------------------------------------
\* router.beforeEach, asked with the token t
Guard(to, t) ==
    CASE to \in Members /\ t = NULL -> "login"
      [] to \in Doors /\ t # NULL   -> "rooms"
      [] OTHER                      -> to

\* The form of a page that goes away waits no more, but its call goes on.  The
\* mutant keeps the page alive.
Leave_KeptAlive(c) == c
Leave(c) == IF c.waits = "form" THEN [c EXCEPT !.waits = "page"] ELSE c

\* vue-router asks the guard, and goes where it redirects to.  If that is the
\* address which is shown, the navigation is over.
Asked(to, t) ==
    \/ nav' = Guard(to, t)
    \/ Guard(to, t) # to /\ Guard(to, t) = page /\ nav' = NULL

\* router.push and router.replace give up the navigation under way.  To the
\* address that is shown they then do nothing: no guard is asked.
Goes(to, t) ==
    \/ to = page /\ nav' = NULL
    \/ (to # page \/ to \in Several) /\ Asked(to, t)

\* A link, a button, or a frame that puts the user out of his room (member_kicked,
\* room_deleted), all of which lead to another page; or the browser's history,
\* whose guard is asked even about the address that is shown
Navigate(to) ==
    /\ page # "blank"
    /\ Asked(to, token)
    /\ UNCHANGED <<accountVars, token, stored, page>>

\* The page has been loaded.  Another address of the page that is shown keeps it
\* alive, with its form.
Arrive ==
    /\ nav # NULL
    /\ page' = nav /\ nav' = NULL
    /\ call' = IF page' = page THEN call ELSE [k \in Calls |-> Leave(call[k])]
    /\ UNCHANGED <<accounts, hits, clock, admitted, enrolled, token, stored>>

\* submit, whose button is disabled while it waits
Submit(k) ==
    /\ page \in Doors
    /\ \A j \in Calls : call[j].waits # "form"
    /\ \E n \in Names, p \in Passwords, valid \in BOOLEAN :
          IF page = "login" THEN Login(k, n, p, valid) ELSE Register(k, "form", n, p, valid)
    /\ UNCHANGED <<token, stored, page, nav>>

\* What the pages of a member ask for: to be let into a room, by the form to
\* create or the form to join; the details of the room that is shown; to leave
\* it.  "stay" is everything whose answer changes only what the page shows:
\* lists, history, a kick, a new password.
AskedOn(task) == CASE task = "enter"               -> {"rooms"}
                   [] task \in {"detail", "leave"} -> {"chat"}
                   [] OTHER                        -> Members

\* request, with the token in its header, and requireAuth.  A room may refuse
\* (NOT_MEMBER, ROOM_LOCKED and so on), which the tab tells from success where it
\* asked to be let in or for the details.
Outcomes(task) == IF task \in {"enter", "detail"} THEN {"done", "error"} ELSE {"done"}

Request(k, task) ==
    /\ page \in AskedOn(task)
    /\ call[k] = NoCall
    /\ \E r \in IF Accepts(token) THEN Outcomes(task) ELSE {"unauthenticated"} :
          call' = [call EXCEPT ![k] = Answered([NoCall EXCEPT !.task = task, !.waits = "page"], r)]
    /\ UNCHANGED <<accounts, hits, clock, admitted, enrolled, token, stored, page, nav>>

\* setSession and router.replace of the views: to the list of rooms or, after a
\* login, to the page the guard had sent to the login page
Enter(t) ==
    /\ token' = t /\ stored' = t
    /\ \E to \in Members : Goes(to, t)

\* clearSession and router.replace.  The mutant forgets the token and stays.
End_Stays ==
    /\ token' = NULL /\ stored' = NULL
    /\ UNCHANGED nav
End ==
    /\ token' = NULL /\ stored' = NULL
    /\ Goes("login", NULL)

\* onUnauthenticated
Unauthenticated == IF token # NULL THEN End ELSE UNCHANGED <<token, stored, nav>>

\* Where an answer sends the tab: into the room it was let into, out of a room
\* it is no member of, and out of a room it asked to leave, however that went.
SentTo(c) ==
    CASE c.task = "enter"  /\ c.reply = "done"  -> {"chat"}
      [] c.task = "detail" /\ c.reply = "error" -> {NULL, "rooms"}
      [] c.task = "leave"                       -> {"rooms"}
      [] OTHER                                  -> {NULL}

\* An answer lands in the tab.  Any 401 ends the session, a failed login's too;
\* the end of leaveRoom then supersedes the navigation to the login page, which
\* it has started, and does so on the list of rooms too.
Land(k) ==
    LET c == call[k] IN
    /\ c.stage = "answered" /\ c.waits \in {"form", "page"}
    /\ call' = [call EXCEPT ![k] = NoCall]
    /\ \/ c.reply = "token" /\ Enter(c.grant)
       \/ c.reply = "unauthenticated" /\ c.task # "leave" /\ Unauthenticated
       \/ /\ c.reply = "unauthenticated" /\ c.task = "leave"
          /\ token' = NULL /\ stored' = IF token = NULL THEN stored ELSE NULL
          /\ Goes("rooms", NULL)
       \/ /\ c.reply \in {"error", "done"}
          /\ \E to \in SentTo(c) : IF to = NULL THEN UNCHANGED nav ELSE Goes(to, token)
          /\ UNCHANGED <<token, stored>>
    /\ UNCHANGED <<accounts, hits, clock, admitted, enrolled, page>>

\* logout, on the list of rooms
Logout ==
    /\ page = "rooms"
    /\ End
    /\ UNCHANGED <<accountVars, page>>

\* The tab is loaded anew: hydrate runs before the guard of the first navigation.
\* What waited for an answer is gone.
Orphan(c) == IF Suspended(c) THEN [c EXCEPT !.waits = "nothing"] ELSE NoCall

Reload ==
    /\ page # "blank"
    /\ token' = stored
    /\ nav' = Guard(page, token')
    /\ page' = "blank"
    /\ call' = [k \in Calls |-> Orphan(call[k])]
    /\ UNCHANGED <<accounts, hits, clock, admitted, enrolled, stored>>

\* Another tab logs in or out.
OtherTab ==
    /\ stored' \in {NULL} \cup {[uid |-> i, live |-> TRUE] : i \in DOMAIN accounts}
    /\ UNCHANGED <<accountVars, token, page, nav>>

\* JWT_EXPIRES_IN after they were signed, the tokens that are about expire.
Stale(t) == IF t = NULL THEN NULL ELSE [t EXCEPT !.live = FALSE]

Expire ==
    /\ token' = Stale(token) /\ stored' = Stale(stored)
    /\ call' = [k \in Calls |-> [call[k] EXCEPT !.grant = Stale(@)]]
    /\ UNCHANGED <<accounts, hits, clock, admitted, enrolled, page, nav>>

-------------------------------------------------------------------------------
Server ==
    /\ \/ \E k \in Calls :
             \/ FinishLogin(k) \/ FinishRegister(k)
             \/ \E n \in Names, p \in Passwords : Register(k, "elsewhere", n, p, TRUE)
       \/ Tick \/ Restart
    /\ UNCHANGED <<token, stored, page, nav>>

SessionNext ==
    \/ Server
    \/ \E k \in Calls : Submit(k) \/ Land(k) \/ \E task \in Tasks \ {"session"} : Request(k, task)
    \/ \E to \in Pages : Navigate(to)
    \/ Arrive \/ Logout \/ Reload \/ OtherTab \/ Expire

SessionSpec == SessionInit /\ [][SessionNext]_sessionVars

-------------------------------------------------------------------------------
\* A page of a member wants a token, a door wants none.
Fits(p, t) == (p \in Members => t # NULL) /\ (p \in Doors => t = NULL)

\* A tab that has settled shows what its session may see (requiresAuth in
\* router.ts; a 401 logs out, as the comment in stores/auth.ts says).
PageFitsSession == nav = NULL => Fits(page, token)

\* A tab settles on a page that its session may not see only when an answer
\* sends it to the page that it shows already: leaveRoom's or loadDetail's on the
\* list of rooms, that of a create or a join in the room it is about.  No other
\* step does it, in whatever order logins, logouts, 401s, answers of earlier
\* sessions, navigations, reloads and other tabs come.
OnlyAnswersStrand ==
    [][nav' = NULL /\ ~Fits(page', token') /\ (nav # NULL \/ Fits(page, token))
         => \E k \in Calls : /\ call[k].stage = "answered" /\ call'[k] = NoCall
                             /\ page \in SentTo(call[k])]_sessionVars
===============================================================================
