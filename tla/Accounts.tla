-------------------------------- MODULE Accounts --------------------------------
(***************************************************************************)
(* Accounts on the server: registerUser and authenticate of                *)
(* user.service.js, the routes and MCP tools that call them, the limiters  *)
(* of utils/rate-limit.js in front of the routes, and what a token is      *)
(* good for.                                                               *)
(*                                                                         *)
(* Hashing and comparing a password are awaited, so a call has a first     *)
(* part, which reads, and a second one, which writes and answers; calls    *)
(* interleave in between.  User names are taken up to case, as the column  *)
(* (COLLATE NOCASE) and the limiter's key take them.  Seen from one        *)
(* address, calls from elsewhere and calls of the MCP tools are not        *)
(* limited; a login of theirs changes nothing.  A token names an account   *)
(* and may expire.                                                         *)
(***************************************************************************)
EXTENDS Integers, Sequences, FiniteSets

CONSTANTS
    Names, Passwords,
    Calls,                              \* bound: calls under way at one time
    LoginMax, LoginWindow,              \* of loginLimiter, for each name
    RegisterMax, RegisterWindow,        \* of registerLimiter
    MaxTime,                            \* bound of the clock
    NULL

ASSUME LimitAssumption ==
    /\ {LoginMax, RegisterMax} \subseteq Nat \ {0}
    /\ {LoginWindow, RegisterWindow, MaxTime} \subseteq Nat
    /\ "register" \notin Names

VARIABLES
    accounts,    \* the rows of users, by id
    hits,        \* the limiters' buckets: when each key was hit
    clock,       \* Date.now()
    call,        \* the calls under way, see NoCall
    admitted,    \* every hit since the bucket was reset, and
    enrolled     \* who was told that he is registered: records for the properties

accountVars == <<accounts, hits, clock, call, admitted, enrolled>>

\* task: what the call is for, see Session.
\* waits: what of the browser tab waits for the answer, see Session; "nothing"
\* once it has been reloaded, "elsewhere" for a registration by another client.
NoCall  == [stage |-> "none", task |-> "session", waits |-> "nothing", name |-> NULL,
            password |-> NULL, row |-> NULL, reply |-> NULL, grant |-> NULL]
Tokens  == [uid : DOMAIN accounts, live : BOOLEAN]
Tasks   == {"session", "stay", "enter", "detail", "leave"}
Replies == {"token", "unauthenticated", "error", "done"}
Waits   == {"nothing", "form", "page", "elsewhere"}
Keys    == Names \cup {"register"}

ASSUME NullAssumption == NULL \notin Nat \cup Replies \cup [uid : Nat, live : BOOLEAN]

AccountTypeOK ==
    /\ accounts \in Seq([name : Names, password : Passwords])
    /\ {hits, admitted} \subseteq [Keys -> Seq(Nat)]
    /\ clock \in 0..MaxTime
    /\ \A k \in Calls :
          /\ DOMAIN call[k] = DOMAIN NoCall
          /\ call[k].stage \in {"none", "comparing", "hashing", "answered"}
          /\ call[k].task \in Tasks /\ call[k].waits \in Waits
          /\ call[k].row \in (DOMAIN accounts) \cup {NULL}
          /\ call[k].reply \in Replies \cup {NULL}
          /\ call[k].grant \in Tokens \cup {NULL}
          /\ call[k].reply = "token" <=> call[k].grant # NULL
          /\ call[k].stage = "comparing" => call[k].row # NULL
          /\ call[k].stage = "answered" <=> call[k].reply # NULL
    /\ enrolled \subseteq Names \X Passwords

AccountInit ==
    /\ accounts = <<>>
    /\ hits = [k \in Keys |-> <<>>] /\ admitted = hits
    /\ clock = 0
    /\ call = [k \in Calls |-> NoCall]
    /\ enrolled = {}

-------------------------------------------------------------------------------
Most(key)   == IF key = "register" THEN RegisterMax ELSE LoginMax
Window(key) == IF key = "register" THEN RegisterWindow ELSE LoginWindow

\* The hits that count; one that is exactly a window old still does.  The mutant
\* drops it.
Counts_Open(t, key) == t > clock - Window(key)
Counts(t, key) == t >= clock - Window(key)

\* Those before the first that counts are shifted out of the bucket.
Expired(key) == {i \in DOMAIN hits[key] : \A j \in 1..i : ~Counts(hits[key][j], key)}
Recent(key)  == SubSeq(hits[key], Cardinality(Expired(key)) + 1, Len(hits[key]))
Admits(key) == Len(Recent(key)) < Most(key)

\* A refused hit is not recorded.  The mutant records it.
Bucket_CountsAll(key) == Append(Recent(key), clock)
Bucket(key) == IF Admits(key) THEN Append(Recent(key), clock) ELSE Recent(key)

\* check
Hit(key) ==
    /\ hits' = [hits EXCEPT ![key] = Bucket(key)]
    /\ admitted' = IF Admits(key) THEN [admitted EXCEPT ![key] = Append(@, clock)] ELSE admitted

\* reset
Forget(key) ==
    /\ hits' = [hits EXCEPT ![key] = <<>>]
    /\ admitted' = [admitted EXCEPT ![key] = <<>>]

NoHit == UNCHANGED <<hits, admitted>>

-------------------------------------------------------------------------------
\* SELECT ... WHERE username = ?: the row of this name, or none
RowOf(n) == {i \in DOMAIN accounts : accounts[i].name = n}
Row(n)   == CHOOSE i \in RowOf(n) : TRUE

\* Of a call is left what it was for and the answer, and not even that when
\* nothing in the tab waits for it.
Answered(c, r) == IF c.waits \notin {"form", "page"} THEN NoCall
                  ELSE [NoCall EXCEPT !.stage = "answered", !.task = c.task, !.waits = c.waits,
                                      !.reply = r]
Granted(c, i)  == IF c.waits \notin {"form", "page"} THEN NoCall
                  ELSE [Answered(c, "token") EXCEPT !.grant = [uid |-> i, live |-> TRUE]]
Called(waits, n, p) == [NoCall EXCEPT !.waits = waits, !.name = n, !.password = p]

\* chat_register has no limiter, and another address has buckets of its own.
Limited(waits) == waits # "elsewhere"

\* POST /api/login, up to comparePassword.  The schema comes before the limiter,
\* whose refusal the view shows like any error.
Login(k, n, p, valid) ==
    LET c == Called("form", n, p) IN
    /\ call[k] = NoCall
    /\ call' = [call EXCEPT ![k] =
          IF ~valid THEN Answered(c, "error")
          ELSE IF ~Admits(n) THEN Answered(c, "error")
          ELSE IF RowOf(n) = {} THEN Answered(c, "unauthenticated")
          ELSE [c EXCEPT !.stage = "comparing", !.row = Row(n)]]
    /\ IF valid THEN Hit(n) ELSE NoHit
    /\ UNCHANGED <<accounts, clock, enrolled>>

\* comparePassword
Matches(row, p) == accounts[row].password = p

\* The rest of authenticate, and of the route, which resets the name's bucket.
FinishLogin(k) ==
    LET c == call[k] IN
    /\ c.stage = "comparing"
    /\ call' = [call EXCEPT ![k] =
          IF Matches(c.row, c.password) THEN Granted(c, c.row)
                                        ELSE Answered(c, "unauthenticated")]
    /\ IF Matches(c.row, c.password) THEN Forget(c.name) ELSE NoHit
    /\ UNCHANGED <<accounts, clock, enrolled>>

\* POST /api/register and chat_register, up to hashPassword.  The limiter comes
\* before the schema.
Register(k, waits, n, p, valid) ==
    LET c == Called(waits, n, p) IN
    /\ call[k] = NoCall
    /\ call' = [call EXCEPT ![k] =
          IF Limited(waits) /\ ~Admits("register") THEN Answered(c, "error")
          ELSE IF ~valid THEN Answered(c, "error")
          ELSE IF RowOf(n) # {} THEN Answered(c, "error")
          ELSE [c EXCEPT !.stage = "hashing"]]
    /\ IF Limited(waits) THEN Hit("register") ELSE NoHit
    /\ UNCHANGED <<accounts, clock, enrolled>>

\* The unique index on users.username.  The mutant has none.
Free_Unchecked(n) == TRUE
Free(n) == RowOf(n) = {}

\* The INSERT; a name that was taken meanwhile is an INTERNAL error.
FinishRegister(k) ==
    LET c == call[k] IN
    /\ c.stage = "hashing"
    /\ IF Free(c.name)
         THEN /\ accounts' = Append(accounts, [name |-> c.name, password |-> c.password])
              /\ call' = [call EXCEPT ![k] = Granted(c, Len(accounts) + 1)]
              /\ enrolled' = enrolled \cup {<<c.name, c.password>>}
         ELSE /\ call' = [call EXCEPT ![k] = Answered(c, "error")]
              /\ UNCHANGED <<accounts, enrolled>>
    /\ UNCHANGED clock /\ NoHit

Tick ==
    /\ clock < MaxTime
    /\ clock' = clock + 1
    /\ UNCHANGED <<accounts, call, enrolled>> /\ NoHit

\* The process dies and is started again: the buckets were in its memory, and
\* what waited for bcrypt gets no answer but a lost connection.
Suspended(c) == c.stage \in {"comparing", "hashing"}

Restart ==
    /\ call' = [k \in Calls |-> IF Suspended(call[k]) THEN Answered(call[k], "error") ELSE call[k]]
    /\ hits' = [key \in Keys |-> <<>>] /\ admitted' = hits'
    /\ UNCHANGED <<accounts, clock, enrolled>>

\* verifyToken and getUserById
Accepts(t) == t # NULL /\ t.live /\ t.uid \in DOMAIN accounts

-------------------------------------------------------------------------------
\* Whoever was told that he is registered can log in with the password he
\* gave, however his registration raced with others for the name.
EnrolledCanLogIn ==
    \A e \in enrolled : RowOf(e[1]) # {} /\ accounts[Row(e[1])].password = e[2]

\* In no span of a window's length, both ends included, are more hits admitted
\* than the limiter's maximum, unless a login succeeded or the process was
\* started anew in between.
LimitHolds ==
    \A key \in Keys : \A i \in DOMAIN admitted[key] :
        LET j == i + Most(key) IN
        j \in DOMAIN admitted[key] => admitted[key][j] - admitted[key][i] > Window(key)

\* A key is refused only if its last admitted hits, as many as the maximum, all
\* lie within the window: refusals do not prolong themselves, and a login that
\* succeeded meanwhile does not leave its name refused.
RefusalIsDue ==
    \A key \in Keys : ~Admits(key) =>
        \E i \in DOMAIN admitted[key] :
            /\ admitted[key][i] >= clock - Window(key)
            /\ Len(admitted[key]) - i >= Most(key) - 1
===============================================================================
