---------------------------- MODULE SessionProofs ----------------------------
(***************************************************************************)
(* Theorems about Session for any number of names, passwords and calls.    *)
(*                                                                         *)
(* A navigation never rests on an old answer of its guard: whoever changes *)
(* the token starts a navigation in the same step, which supersedes those  *)
(* under way and is guarded with the new one, or is to the page that is    *)
(* shown and leaves none.  So what arrives fits, and a tab is stranded     *)
(* only by those that go where it is.                                      *)
(* That every enrolled user can log in rests on the unique index alone.    *)
(* A limiter's bucket is the end of what was admitted, and what it no      *)
(* longer has is older than the window.                                    *)
(***************************************************************************)
EXTENDS Session, SequenceTheorems, FiniteSetTheorems, WellFoundedInduction, TLAPS

Account == [name : Names, password : Passwords]
Token   == [uid : Nat, live : BOOLEAN]
CallRec == [stage : {"none", "comparing", "hashing", "answered"}, task : Tasks, waits : Waits,
            name : Names \cup {NULL}, password : Passwords \cup {NULL}, row : Nat \cup {NULL},
            reply : Replies \cup {NULL}, grant : Token \cup {NULL}]

\* What a call that is under way may rely on, with the ids D in the table
CallFits(c, D) ==
    /\ c.row \in D \cup {NULL} /\ (c.stage = "comparing" => c.row # NULL)
    /\ c.stage = "hashing" => c.name \in Names /\ c.password \in Passwords
    /\ c.stage = "answered" <=> c.reply # NULL
    /\ c.reply = "token" <=> c.grant # NULL
    /\ c.grant # NULL => c.grant.uid \in D

CallsFit == call \in [Calls -> CallRec] /\ \A k \in Calls : CallFits(call[k], DOMAIN accounts)

Unique ==
    \A i, j \in DOMAIN accounts : accounts[i].name = accounts[j].name => i = j

Kept ==
    /\ enrolled \subseteq Names \X Passwords
    /\ \A e \in enrolled : \E i \in DOMAIN accounts :
          accounts[i].name = e[1] /\ accounts[i].password = e[2]

AccountInv == accounts \in Seq(Account) /\ CallsFit /\ Unique /\ Kept

\* The navigation under way would be let pass by its guard still.
TabInv ==
    /\ {token, stored} \subseteq Token \cup {NULL}
    /\ page \in Pages \cup {"blank"}
    /\ nav \in Pages \cup {NULL}
    /\ nav # NULL => Guard(nav, token) = nav

\* What belongs to a tab that is open: tokens are of accounts in the table, and
\* only the forms of the page that is shown are waiting.
TabFits ==
    /\ \A t \in {token, stored} \ {NULL} : t.uid \in DOMAIN accounts
    /\ page = "blank" => nav # NULL
    /\ \A k \in Calls : call[k].waits = "form" => page \in Doors

SessionInv == AccountInv /\ TabInv /\ TabFits

-------------------------------------------------------------------------------
LEMMA NullIsNothingElse == NULL \notin Nat /\ NULL \notin Pages \cup Replies \cup {"blank"} /\ NULL \notin Token
BY NullAssumption, NullPageAssumption DEF Token

\* The guard lets pass what it answers, and answers what the session may see.
LEMMA GuardIsSettled ==
    ASSUME NEW to \in Pages, NEW t
    PROVE  /\ Guard(to, t) \in Pages
           /\ Guard(to, t) # NULL
           /\ Guard(Guard(to, t), t) = Guard(to, t)
BY NullIsNothingElse DEF Guard, Pages, Members, Doors

\* Of a navigation is left one that its guard lets pass, or, when it ended at
\* the page that is shown, none.
LEMMA WhereItGoes ==
    ASSUME NEW to \in Pages, NEW t, Goes(to, t) \/ Asked(to, t)
    PROVE  /\ nav' \in Pages \cup {NULL}
           /\ nav' # NULL => Guard(nav', t) = nav'
           /\ nav' = NULL => page \in Pages
BY GuardIsSettled DEF Goes, Asked

\* What the guard lets pass fits.
LEMMA PassedFits ==
    ASSUME NEW p, NEW t, Guard(p, t) = p
    PROVE  Fits(p, t)
BY DEF Guard, Fits, Members, Doors

\* A navigation that was asked about ends at a page that fits.
LEMMA AskedFits ==
    ASSUME NEW to \in Pages, NEW t, Asked(to, t), nav' = NULL
    PROVE  Fits(page, t)
<1>1. Guard(to, t) = page /\ Guard(page, t) = page
  BY GuardIsSettled DEF Asked
<1> QED
  BY <1>1, PassedFits

LEMMA NoCallFits == NoCall \in CallRec /\ \A D : CallFits(NoCall, D)
BY NullIsNothingElse DEF NoCall, CallRec, CallFits, Tasks, Waits, Replies

LEMMA AnsweredFits ==
    ASSUME NEW c \in CallRec, NEW r \in Replies \ {"token"}
    PROVE  Answered(c, r) \in CallRec /\ \A D : CallFits(Answered(c, r), D)
<1>1. Answered(c, r) \in CallRec
  BY NullIsNothingElse DEF Answered, NoCall, CallRec, Tasks, Waits, Replies
<1>2. \A D : CallFits(Answered(c, r), D)
  BY NullIsNothingElse DEF Answered, NoCall, CallRec, CallFits, Tasks, Waits, Replies
<1> QED
  BY <1>1, <1>2

LEMMA GrantedFits ==
    ASSUME NEW c \in CallRec, NEW D, NEW i \in D, i \in Nat
    PROVE  Granted(c, i) \in CallRec /\ CallFits(Granted(c, i), D)
<1> DEFINE r == Answered(c, "token")
           g == [uid |-> i, live |-> TRUE]
<1>1. g \in Token
  BY DEF Token
<1>2. CASE c.waits \notin {"form", "page"}
  BY <1>2, NoCallFits DEF Granted
<1>3. CASE c.waits \in {"form", "page"}
  <2>1. r \in CallRec /\ r.stage = "answered" /\ r.reply = "token" /\ r.row = NULL
    BY <1>3 DEF Answered, NoCall, CallRec, Tasks, Waits, Replies
  <2>2. Granted(c, i) = [r EXCEPT !.grant = g]
    BY <1>3 DEF Granted
  <2> HIDE DEF r, g
  <2>3. Granted(c, i) \in CallRec
    BY <1>1, <2>1, <2>2 DEF CallRec
  <2>4. /\ Granted(c, i).stage = "answered" /\ Granted(c, i).reply = "token"
        /\ Granted(c, i).row = NULL /\ Granted(c, i).grant = g
    BY <1>1, <2>1, <2>2 DEF CallRec
  <2>5. g.uid \in D /\ g # NULL
    BY <1>1, NullIsNothingElse DEF g
  <2> QED
    BY <2>3, <2>4, <2>5, NullIsNothingElse DEF CallFits, Replies
<1> QED
  BY <1>2, <1>3

LEMMA CalledFits ==
    ASSUME NEW n \in Names, NEW p \in Passwords, NEW w \in Waits
    PROVE  Called(w, n, p) \in CallRec /\ \A D : CallFits(Called(w, n, p), D)
BY NullIsNothingElse DEF Called, NoCall, CallRec, CallFits, Tasks, Waits, Replies

\* A row that the SELECT finds is a row.
LEMMA RowIsRow ==
    ASSUME NEW n, RowOf(n) # {}
    PROVE  Row(n) \in DOMAIN accounts /\ accounts[Row(n)].name = n
BY DEF Row, RowOf

\* One call is replaced by one that fits; accounts are not touched.
LEMMA OneCallChanges ==
    ASSUME AccountInv, NEW k \in Calls, NEW c \in CallRec, CallFits(c, DOMAIN accounts),
           call' = [call EXCEPT ![k] = c], UNCHANGED <<accounts, enrolled>>
    PROVE  AccountInv'
BY DEF AccountInv, CallsFit, CallFits, Unique, Kept


LEMMA AccountInitially == SessionInit => AccountInv
<1> SUFFICES ASSUME SessionInit
             PROVE  AccountInv
  OBVIOUS
<1>1. accounts = <<>> /\ enrolled = {} /\ call = [k \in Calls |-> NoCall]
  BY DEF SessionInit, AccountInit
<1>2. accounts \in Seq(Account) /\ DOMAIN accounts = {}
  BY <1>1, EmptySeq
<1> QED
  BY <1>1, <1>2, NoCallFits DEF AccountInv, CallsFit, CallFits, Unique, Kept

LEMMA LoginKeeps ==
    ASSUME AccountInv, NEW k \in Calls, NEW n \in Names, NEW p \in Passwords,
           NEW valid \in BOOLEAN, Login(k, n, p, valid)
    PROVE  AccountInv'
<1> DEFINE c == Called("form", n, p)
           looked == [c EXCEPT !.stage = "comparing", !.row = Row(n)]
           new == IF ~valid THEN Answered(c, "error")
                  ELSE IF ~Admits(n) THEN Answered(c, "error")
                  ELSE IF RowOf(n) = {} THEN Answered(c, "unauthenticated")
                  ELSE looked
<1>1. c \in CallRec /\ c.reply = NULL /\ c.grant = NULL
  BY CalledFits, NullIsNothingElse DEF Called, NoCall, Replies, Waits
<1>2. RowOf(n) # {} => looked \in CallRec /\ CallFits(looked, DOMAIN accounts)
  <2> SUFFICES ASSUME RowOf(n) # {}
               PROVE  looked \in CallRec /\ CallFits(looked, DOMAIN accounts)
    OBVIOUS
  <2>1. Row(n) \in DOMAIN accounts /\ Row(n) \in Nat
    BY RowIsRow, LenProperties DEF AccountInv
  <2> HIDE DEF c
  <2>2. looked \in CallRec /\ looked.stage = "comparing" /\ looked.row = Row(n)
        /\ looked.reply = NULL /\ looked.grant = NULL
    BY <1>1, <2>1 DEF CallRec
  <2> QED
    BY <2>1, <2>2, NullIsNothingElse DEF CallFits, Replies
<1>3. new \in CallRec /\ CallFits(new, DOMAIN accounts)
  BY <1>1, <1>2, AnsweredFits DEF Replies
<1>4. call' = [call EXCEPT ![k] = new] /\ UNCHANGED <<accounts, enrolled>>
  BY DEF Login
<1> QED
  BY <1>3, <1>4, OneCallChanges

LEMMA RegisterKeeps ==
    ASSUME AccountInv, NEW k \in Calls, NEW w \in Waits, NEW n \in Names, NEW p \in Passwords,
           NEW valid \in BOOLEAN, Register(k, w, n, p, valid)
    PROVE  AccountInv'
<1> DEFINE c == Called(w, n, p)
           begun == [c EXCEPT !.stage = "hashing"]
           new == IF Limited(w) /\ ~Admits("register") THEN Answered(c, "error")
                  ELSE IF ~valid THEN Answered(c, "error")
                  ELSE IF RowOf(n) # {} THEN Answered(c, "error")
                  ELSE begun
<1>1. /\ c \in CallRec /\ c.name = n /\ c.password = p
      /\ c.reply = NULL /\ c.grant = NULL /\ c.row = NULL
  BY CalledFits, NullIsNothingElse DEF Called, NoCall, Replies
<1> HIDE DEF c
<1>2. /\ begun \in CallRec /\ begun.stage = "hashing" /\ begun.name = n /\ begun.password = p
      /\ begun.reply = NULL /\ begun.grant = NULL /\ begun.row = NULL
  BY <1>1 DEF CallRec
<1>3. CallFits(begun, DOMAIN accounts)
  BY <1>2, NullIsNothingElse DEF CallFits, Replies
<1>4. new \in CallRec /\ CallFits(new, DOMAIN accounts)
  BY <1>1, <1>2, <1>3, AnsweredFits DEF Replies
<1>5. call' = [call EXCEPT ![k] = new] /\ UNCHANGED <<accounts, enrolled>>
  BY DEF Register, c
<1> QED
  BY <1>4, <1>5, OneCallChanges

LEMMA FinishLoginKeeps ==
    ASSUME AccountInv, NEW k \in Calls, FinishLogin(k)
    PROVE  AccountInv'
<1> DEFINE c == call[k]
           new == IF Matches(c.row, c.password) THEN Granted(c, c.row)
                                                ELSE Answered(c, "unauthenticated")
<1>1. c \in CallRec /\ c.row \in DOMAIN accounts /\ c.row \in Nat
  BY LenProperties DEF FinishLogin, AccountInv, CallsFit, CallFits
<1>2. new \in CallRec /\ CallFits(new, DOMAIN accounts)
  BY <1>1, GrantedFits, AnsweredFits DEF Replies
<1>3. call' = [call EXCEPT ![k] = new] /\ UNCHANGED <<accounts, enrolled>>
  BY DEF FinishLogin
<1> QED
  BY <1>2, <1>3, OneCallChanges

\* The unique index: the row is appended only if no row has its name.
LEMMA FinishRegisterKeeps ==
    ASSUME AccountInv, NEW k \in Calls, FinishRegister(k)
    PROVE  AccountInv'
<1> DEFINE c == call[k]
           row == [name |-> c.name, password |-> c.password]
<1>1. c \in CallRec /\ c.name \in Names /\ c.password \in Passwords
  BY DEF FinishRegister, AccountInv, CallsFit, CallFits
<1>2. CASE ~Free(c.name)
  <2>1. Answered(c, "error") \in CallRec /\ CallFits(Answered(c, "error"), DOMAIN accounts)
    BY <1>1, AnsweredFits DEF Replies
  <2>2. call' = [call EXCEPT ![k] = Answered(c, "error")] /\ UNCHANGED <<accounts, enrolled>>
    BY <1>2 DEF FinishRegister
  <2> QED
    BY <2>1, <2>2, OneCallChanges
<1>3. CASE Free(c.name)
  <2>1. /\ accounts' = Append(accounts, row)
        /\ call' = [call EXCEPT ![k] = Granted(c, Len(accounts) + 1)]
        /\ enrolled' = enrolled \cup {<<c.name, c.password>>}
    BY <1>3 DEF FinishRegister
  <2>2. accounts \in Seq(Account) /\ row \in Account
    BY <1>1 DEF AccountInv, Account
  <2>3. /\ accounts' \in Seq(Account)
        /\ DOMAIN accounts = 1..Len(accounts)
        /\ DOMAIN accounts' = 1..(Len(accounts) + 1)
        /\ \A i \in DOMAIN accounts : accounts'[i] = accounts[i]
        /\ accounts'[Len(accounts) + 1] = row
        /\ Len(accounts) \in Nat
    BY <2>1, <2>2, AppendProperties, LenProperties
  <2>4. Granted(c, Len(accounts) + 1) \in CallRec /\ CallFits(Granted(c, Len(accounts) + 1), DOMAIN accounts')
    BY <1>1, <2>3, GrantedFits
  <2>5. call' \in [Calls -> CallRec]
    BY <2>1, <2>4 DEF AccountInv, CallsFit
  <2>6. ASSUME NEW j \in Calls
        PROVE  CallFits(call'[j], DOMAIN accounts')
    <3>1. CASE j = k
      BY <2>1, <2>4, <3>1 DEF AccountInv, CallsFit
    <3>2. CASE j # k
      <4>1. call'[j] = call[j] /\ CallFits(call[j], DOMAIN accounts)
        BY <2>1, <3>2 DEF AccountInv, CallsFit
      <4> QED
        BY <2>3, <4>1 DEF CallFits
    <3> QED
      BY <3>1, <3>2
  <2>7. CallsFit'
    BY <2>5, <2>6 DEF CallsFit
  <2>8. \A i \in DOMAIN accounts : accounts[i].name # c.name
    BY <1>3 DEF Free, RowOf
  <2>9. Unique'
    BY <2>3, <2>8 DEF AccountInv, Unique
  <2>10. Kept'
    <3>1. enrolled' \subseteq Names \X Passwords
      BY <1>1, <2>1 DEF AccountInv, Kept
    <3>2. \E i \in DOMAIN accounts' : accounts'[i].name = c.name /\ accounts'[i].password = c.password
      BY <2>3
    <3>3. ASSUME NEW e \in enrolled
          PROVE  \E i \in DOMAIN accounts' : accounts'[i].name = e[1] /\ accounts'[i].password = e[2]
      BY <2>3 DEF AccountInv, Kept
    <3> QED
      BY <2>1, <3>1, <3>2, <3>3 DEF Kept
  <2> QED
    BY <2>3, <2>7, <2>9, <2>10 DEF AccountInv
<1> QED
  BY <1>2, <1>3

\* A call that goes on without its form, without its tab, or past the expiry of its token.
LEMMA LeftCallsFit ==
    ASSUME NEW D, NEW c \in CallRec, CallFits(c, D)
    PROVE  /\ Leave(c) \in CallRec /\ CallFits(Leave(c), D)
           /\ Orphan(c) \in CallRec /\ CallFits(Orphan(c), D)
<1>1. Leave(c) \in CallRec /\ CallFits(Leave(c), D)
  BY DEF Leave, CallRec, CallFits, Waits
<1>2. Orphan(c) \in CallRec /\ CallFits(Orphan(c), D)
  BY NoCallFits DEF Orphan, Suspended, CallRec, CallFits, Waits
<1> QED
  BY <1>1, <1>2

LEMMA StaleIsToken ==
    ASSUME NEW t \in Token \cup {NULL}
    PROVE  /\ Stale(t) \in Token \cup {NULL} /\ (Stale(t) = NULL <=> t = NULL)
           /\ t # NULL => Stale(t).uid = t.uid
BY NullIsNothingElse DEF Stale, Token

LEMMA StaleCallFits ==
    ASSUME NEW D, NEW c \in CallRec, CallFits(c, D)
    PROVE  [c EXCEPT !.grant = Stale(@)] \in CallRec /\ CallFits([c EXCEPT !.grant = Stale(@)], D)
<1> DEFINE d == [c EXCEPT !.grant = Stale(@)]
<1>1. /\ Stale(c.grant) \in Token \cup {NULL} /\ (Stale(c.grant) = NULL <=> c.grant = NULL)
      /\ c.grant # NULL => Stale(c.grant).uid = c.grant.uid
  BY StaleIsToken DEF CallRec
<1>2. /\ d \in CallRec
      /\ d.stage = c.stage /\ d.row = c.row /\ d.name = c.name
      /\ d.password = c.password /\ d.reply = c.reply /\ d.grant = Stale(c.grant)
  BY <1>1 DEF CallRec
<1> HIDE DEF d
<1>3. CallFits(d, D)
  BY <1>1, <1>2 DEF CallFits
<1> QED
  BY <1>2, <1>3 DEF d

\* Every call is replaced by one that fits; accounts are not touched.
LEMMA CallsChange ==
    ASSUME AccountInv, UNCHANGED <<accounts, enrolled>>, call' \in [Calls -> CallRec],
           \A k \in Calls : CallFits(call'[k], DOMAIN accounts)
    PROVE  AccountInv'
BY DEF AccountInv, CallsFit, CallFits, Unique, Kept

LEMMA RequestKeeps ==
    ASSUME AccountInv, NEW k \in Calls, NEW task \in Tasks, Request(k, task)
    PROVE  AccountInv'
<1> DEFINE c == [NoCall EXCEPT !.task = task, !.waits = "page"]
<1>1. c \in CallRec
  BY NoCallFits DEF CallRec, Waits
<1>2. PICK r \in Replies \ {"token"} : call' = [call EXCEPT ![k] = Answered(c, r)]
  BY DEF Request, Outcomes, Replies
<1>3. Answered(c, r) \in CallRec /\ CallFits(Answered(c, r), DOMAIN accounts)
  BY <1>1, AnsweredFits
<1>4. UNCHANGED <<accounts, enrolled>>
  BY DEF Request
<1> QED
  BY <1>2, <1>3, <1>4, OneCallChanges

LEMMA AccountStep == AccountInv /\ TabInv /\ [SessionNext]_sessionVars => AccountInv'
<1> SUFFICES ASSUME AccountInv, TabInv, [SessionNext]_sessionVars
             PROVE  AccountInv'
  OBVIOUS
<1>f. call \in [Calls -> CallRec] /\ \A k \in Calls : CallFits(call[k], DOMAIN accounts)
  BY DEF AccountInv, CallsFit
<1>1. CASE Server
  <2>1. ASSUME NEW k \in Calls, FinishLogin(k)
        PROVE  AccountInv'
    BY <2>1, FinishLoginKeeps
  <2>2. ASSUME NEW k \in Calls, FinishRegister(k)
        PROVE  AccountInv'
    BY <2>2, FinishRegisterKeeps
  <2>3. ASSUME NEW k \in Calls, NEW n \in Names, NEW p \in Passwords,
               Register(k, "elsewhere", n, p, TRUE)
        PROVE  AccountInv'
    BY <2>3, RegisterKeeps DEF Waits
  <2>4. CASE Tick
    BY <2>4 DEF Tick, AccountInv, CallsFit, CallFits, Unique, Kept
  <2>5. CASE Restart
    <3>1. ASSUME NEW k \in Calls
          PROVE  LET c == IF Suspended(call[k]) THEN Answered(call[k], "error") ELSE call[k]
                 IN  c \in CallRec /\ CallFits(c, DOMAIN accounts)
      BY <1>f, AnsweredFits DEF Replies
    <3>2. /\ call' = [k \in Calls |-> IF Suspended(call[k]) THEN Answered(call[k], "error")
                                                          ELSE call[k]]
          /\ UNCHANGED <<accounts, enrolled>>
      BY <2>5 DEF Restart
    <3> QED
      BY <3>1, <3>2, CallsChange
  <2> QED
    BY <1>1, <2>1, <2>2, <2>3, <2>4, <2>5 DEF Server
<1>2. ASSUME NEW k \in Calls, Submit(k)
      PROVE  AccountInv'
  <2>1. PICK n \in Names, p \in Passwords, valid \in BOOLEAN :
             IF page = "login" THEN Login(k, n, p, valid) ELSE Register(k, "form", n, p, valid)
    BY <1>2 DEF Submit
  <2> QED
    BY <2>1, LoginKeeps, RegisterKeeps DEF Waits
<1>3. ASSUME NEW k \in Calls, Land(k)
      PROVE  AccountInv'
  <2>1. call' = [call EXCEPT ![k] = NoCall] /\ UNCHANGED <<accounts, enrolled>>
    BY <1>3 DEF Land
  <2> QED
    BY <2>1, NoCallFits, OneCallChanges
<1>4. ASSUME NEW k \in Calls, NEW task \in Tasks, Request(k, task)
      PROVE  AccountInv'
  BY <1>4, RequestKeeps
<1>5. CASE Arrive
  <2>1. /\ call' = call \/ call' = [k \in Calls |-> Leave(call[k])]
        /\ UNCHANGED <<accounts, enrolled>>
    BY <1>5 DEF Arrive
  <2> QED
    BY <1>f, <2>1, LeftCallsFit, CallsChange
<1>6. CASE Reload
  <2>1. call' = [k \in Calls |-> Orphan(call[k])] /\ UNCHANGED <<accounts, enrolled>>
    BY <1>6 DEF Reload
  <2> QED
    BY <1>f, <2>1, LeftCallsFit, CallsChange
<1>7. CASE Expire
  <2>1. /\ call' = [k \in Calls |-> [call[k] EXCEPT !.grant = Stale(@)]]
        /\ UNCHANGED <<accounts, enrolled>>
    BY <1>7 DEF Expire
  <2> QED
    BY <1>f, <2>1, StaleCallFits, CallsChange
<1>8. CASE Logout \/ OtherTab \/ (\E to \in Pages : Navigate(to)) \/ UNCHANGED sessionVars
  <2>1. UNCHANGED <<accounts, call, enrolled>>
    BY <1>8 DEF Logout, OtherTab, Navigate, sessionVars, accountVars
  <2> QED
    BY <1>f, <2>1, CallsChange
<1> QED
  BY <1>1, <1>2, <1>3, <1>4, <1>5, <1>6, <1>7, <1>8 DEF SessionNext

-------------------------------------------------------------------------------
\* A navigation that starts with the token as it is now.
LEMMA GuardedAnew ==
    ASSUME NEW to \in Pages, Goes(to, token') \/ Asked(to, token'),
           page' \in Pages \cup {"blank"},
           token' \in Token \cup {NULL}, stored' \in Token \cup {NULL}
    PROVE  TabInv'
BY WhereItGoes DEF TabInv, Guard

\* The token may expire, but is not set or cleared.
LEMMA TabRests ==
    ASSUME TabInv, UNCHANGED <<page, nav>>,
           token' \in Token \cup {NULL}, stored' \in Token \cup {NULL},
           token' = NULL <=> token = NULL
    PROVE  TabInv'
BY DEF TabInv, Guard

LEMMA LandKeeps ==
    ASSUME AccountInv, TabInv, NEW k \in Calls, Land(k)
    PROVE  TabInv'
<1> DEFINE c == call[k]
<1>1. /\ token \in Token \cup {NULL} /\ stored \in Token \cup {NULL}
      /\ page' = page /\ page \in Pages \cup {"blank"}
      /\ nav \in Pages \cup {NULL}
  BY DEF TabInv, Land
<1>2. {"login", "rooms", "chat"} \subseteq Pages /\ Members \subseteq Pages
  BY DEF Pages, Doors, Members
<1>3. CASE c.reply = "token" /\ Enter(c.grant)
  <2>1. c.grant \in Token
    BY <1>3 DEF AccountInv, CallsFit, CallFits, CallRec
  <2>2. token' = c.grant /\ stored' = c.grant /\ \E to \in Members : Goes(to, token')
    BY <1>3 DEF Enter
  <2> QED
    BY <1>1, <1>2, <2>1, <2>2, GuardedAnew
<1>4. CASE Unauthenticated
  <2>1. CASE token # NULL
    <3>1. Goes("login", token') /\ token' = NULL /\ stored' = NULL
      BY <1>4, <2>1 DEF Unauthenticated, End
    <3> QED
      BY <1>1, <1>2, <3>1, GuardedAnew
  <2>2. CASE token = NULL
    BY <1>1, <1>4, <2>2, TabRests DEF Unauthenticated
  <2> QED
    BY <2>1, <2>2
<1>5. CASE token' = NULL /\ stored' = (IF token = NULL THEN stored ELSE NULL) /\ Goes("rooms", NULL)
  <2>1. Goes("rooms", token')
    BY <1>5
  <2> QED
    BY <1>1, <1>2, <1>5, <2>1, GuardedAnew
<1>6. CASE /\ \E to \in SentTo(c) : IF to = NULL THEN UNCHANGED nav ELSE Goes(to, token)
           /\ UNCHANGED <<token, stored>>
  <2>1. PICK to \in SentTo(c) : IF to = NULL THEN UNCHANGED nav ELSE Goes(to, token)
    BY <1>6
  <2>2. to \in Pages \cup {NULL}
    BY <1>2 DEF SentTo
  <2>3. CASE to = NULL
    BY <1>1, <1>6, <2>1, <2>3, TabRests
  <2>4. CASE to # NULL
    <3>1. Goes(to, token') /\ to \in Pages
      BY <1>6, <2>1, <2>2, <2>4
    <3> QED
      BY <1>1, <1>6, <3>1, GuardedAnew
  <2> QED
    BY <2>3, <2>4
<1> QED
  BY <1>3, <1>4, <1>5, <1>6 DEF Land

LEMMA TabStep == AccountInv /\ TabInv /\ [SessionNext]_sessionVars => TabInv'
<1> SUFFICES ASSUME AccountInv, TabInv, [SessionNext]_sessionVars
             PROVE  TabInv'
  OBVIOUS
<1>t. /\ token \in Token \cup {NULL} /\ stored \in Token \cup {NULL}
      /\ page \in Pages \cup {"blank"}
      /\ nav \in Pages \cup {NULL}
  BY DEF TabInv
<1>1. ASSUME NEW k \in Calls, Land(k)
      PROVE  TabInv'
  BY <1>1, LandKeeps
<1>2. ASSUME NEW to \in Pages, Navigate(to)
      PROVE  TabInv'
  <2>1. Asked(to, token')
    BY <1>2 DEF Navigate
  <2> QED
    BY <1>2, <1>t, <2>1, GuardedAnew DEF Navigate
<1>3. CASE Arrive
  BY <1>3, <1>t DEF Arrive, TabInv
<1>4. CASE Logout
  <2>1. "login" \in Pages /\ Goes("login", token')
    BY <1>4 DEF Logout, End, Pages, Doors
  <2> QED
    BY <1>4, <1>t, <2>1, GuardedAnew DEF Logout, End
<1>5. CASE Reload
  <2>1. page \in Pages
    BY <1>5, <1>t DEF Reload
  <2>2. /\ nav' \in Pages /\ Guard(nav', token') = nav'
        /\ page' = "blank" /\ token' = stored /\ stored' = stored
    BY <1>5, <2>1, GuardIsSettled DEF Reload
  <2> QED
    BY <1>t, <2>2 DEF TabInv, Guard
<1>6. CASE OtherTab
  <2>1. \A i \in DOMAIN accounts : [uid |-> i, live |-> TRUE] \in Token
    BY LenProperties DEF AccountInv, Token
  <2>2. stored' \in Token \cup {NULL}
    BY <1>6, <2>1 DEF OtherTab
  <2> QED
    BY <1>6, <1>t, <2>2, TabRests DEF OtherTab
<1>7. CASE Expire
  BY <1>7, <1>t, StaleIsToken, TabRests DEF Expire
<1>8. CASE \/ Server \/ UNCHANGED sessionVars
           \/ \E k \in Calls : Submit(k) \/ \E task \in Tasks : Request(k, task)
  <2>1. UNCHANGED <<token, stored, page, nav>>
    BY <1>8 DEF Server, Submit, Request, sessionVars
  <2> QED
    BY <1>t, <2>1, TabRests
<1> QED
  BY <1>1, <1>2, <1>3, <1>4, <1>5, <1>6, <1>7, <1>8 DEF SessionNext

-------------------------------------------------------------------------------
\* Who waits for the call after a step
LEMMA AnswerWaits ==
    ASSUME NEW c \in CallRec, NEW r \in Replies, NEW i \in Nat
    PROVE  {Answered(c, r).waits, Granted(c, i).waits} \subseteq {c.waits, "nothing"}
<1> DEFINE a == Answered(c, "token")
           g == [uid |-> i, live |-> TRUE]
<1>1. NoCall.waits = "nothing"
  BY DEF NoCall
<1>2. ASSUME NEW x \in Replies
      PROVE  Answered(c, x).waits \in {c.waits, "nothing"}
  BY <1>1 DEF Answered, NoCall
<1>3. Granted(c, i).waits \in {c.waits, "nothing"}
  <2>1. CASE c.waits \notin {"form", "page"}
    BY <1>1, <2>1 DEF Granted
  <2>2. CASE c.waits \in {"form", "page"}
    <3>1. a \in CallRec /\ a.waits = c.waits
      BY <2>2 DEF Answered, NoCall, CallRec, Tasks, Waits, Replies
    <3>2. Granted(c, i) = [a EXCEPT !.grant = g]
      BY <2>2 DEF Granted
    <3> HIDE DEF a, g
    <3> QED
      BY <3>1, <3>2 DEF CallRec
  <2> QED
    BY <2>1, <2>2
<1> QED
  BY <1>2, <1>3

LEMMA BeginWaits ==
    ASSUME AccountInv, NEW k \in Calls, NEW w \in Waits, NEW n \in Names, NEW p \in Passwords,
           NEW valid \in BOOLEAN,
           (Login(k, n, p, valid) /\ w = "form") \/ Register(k, w, n, p, valid)
    PROVE  \A j \in Calls : call'[j].waits = "form" => call[j].waits = "form" \/ w = "form"
<1> DEFINE c == Called(w, n, p)
<1>1. c \in CallRec /\ c.waits = w
  BY CalledFits DEF Called, NoCall
<1>2. \A r \in Replies : Answered(c, r).waits \in {w, "nothing"}
  BY <1>1, AnswerWaits
<1>3. /\ [c EXCEPT !.stage = "hashing"].waits = w
      /\ [c EXCEPT !.stage = "comparing", !.row = Row(n)].waits = w
  <2> HIDE DEF c
  <2> QED
    BY <1>1 DEF CallRec
<1>4. PICK new : call' = [call EXCEPT ![k] = new] /\ new.waits \in {w, "nothing"}
  BY <1>2, <1>3 DEF Login, Register, Replies
<1> QED
  BY <1>4 DEF AccountInv, CallsFit

LEMMA FinishWaits ==
    ASSUME AccountInv, NEW k \in Calls, FinishLogin(k) \/ FinishRegister(k)
    PROVE  \A j \in Calls : call'[j].waits = "form" => call[j].waits = "form"
<1> DEFINE c == call[k]
<1>1. c \in CallRec /\ Len(accounts) + 1 \in Nat /\ (FinishLogin(k) => c.row \in Nat)
  BY LenProperties DEF FinishLogin, AccountInv, CallsFit, CallFits
<1>2. /\ \A r \in Replies : Answered(c, r).waits \in {c.waits, "nothing"}
      /\ \A i \in Nat : Granted(c, i).waits \in {c.waits, "nothing"}
  BY <1>1, AnswerWaits DEF Replies
<1>3. PICK new : call' = [call EXCEPT ![k] = new] /\ new.waits \in {c.waits, "nothing"}
  BY <1>1, <1>2 DEF FinishLogin, FinishRegister, Replies
<1> QED
  BY <1>3 DEF AccountInv, CallsFit

\* Rows stay, so a token stays one of an account.
LEMMA AccountsStay ==
    ASSUME AccountInv, [SessionNext]_sessionVars
    PROVE  DOMAIN accounts \subseteq DOMAIN accounts'
<1>1. ASSUME NEW k \in Calls, FinishRegister(k)
      PROVE  DOMAIN accounts \subseteq DOMAIN accounts'
  <2>1. PICK e : accounts' = Append(accounts, e) \/ accounts' = accounts
    BY <1>1 DEF FinishRegister
  <2>2. accounts \in Seq(Account)
    BY DEF AccountInv
  <2>3. DOMAIN accounts = 1..Len(accounts) /\ Len(accounts) \in Nat
    BY <2>2, LenProperties
  <2>4. CASE accounts' = Append(accounts, e)
    <3>1. e \in Account \cup {e} /\ accounts \in Seq(Account \cup {e})
      BY <2>2
    <3>2. DOMAIN accounts' = 1..Len(accounts) + 1
      BY <2>4, <3>1, AppendProperties, LenProperties
    <3> QED
      BY <2>3, <3>2
  <2> QED
    BY <2>1, <2>4
<1>2. CASE ~\E k \in Calls : FinishRegister(k)
  <2>1. /\ \A k, n, p, valid : Login(k, n, p, valid) => accounts' = accounts
        /\ \A k, w, n, p, valid : Register(k, w, n, p, valid) => accounts' = accounts
    BY DEF Login, Register
  <2>2. Server => accounts' = accounts
    BY <1>2, <2>1 DEF Server, FinishLogin, Tick, Restart
  <2>3. \A k \in Calls : Submit(k) \/ Land(k) => accounts' = accounts
    BY <2>1 DEF Submit, Land
  <2>4. \A k \in Calls, task \in Tasks : Request(k, task) => accounts' = accounts
    BY DEF Request
  <2>5. (\/ \E to \in Pages : Navigate(to)
         \/ Arrive \/ Logout \/ Reload \/ OtherTab \/ Expire \/ UNCHANGED sessionVars)
        => accounts' = accounts
    BY DEF Navigate, Arrive, Logout, Reload, OtherTab, Expire, sessionVars, accountVars
  <2> QED
    BY <2>2, <2>3, <2>4, <2>5 DEF SessionNext
<1> QED
  BY <1>1, <1>2

\* Steps that leave the tab to itself, but for what waits for the call
LEMMA TabStays ==
    ASSUME TabFits, DOMAIN accounts \subseteq DOMAIN accounts', UNCHANGED <<token, stored, page, nav>>,
           \A j \in Calls : call'[j].waits = "form" => call[j].waits = "form" \/ page \in Doors
    PROVE  TabFits'
BY DEF TabFits

LEMMA TabFitsStep ==
    ASSUME AccountInv, TabInv, TabFits, [SessionNext]_sessionVars
    PROVE  TabFits'
<1>g. DOMAIN accounts \subseteq DOMAIN accounts'
  BY AccountsStay
<1>f. call \in [Calls -> CallRec] /\ \A k \in Calls : CallFits(call[k], DOMAIN accounts)
  BY DEF AccountInv, CallsFit
<1>t. /\ token # NULL => token.uid \in DOMAIN accounts'
      /\ stored # NULL => stored.uid \in DOMAIN accounts'
  BY <1>g DEF TabFits
<1>1. CASE Server
  <2>1. \A j \in Calls : call'[j].waits = "form" => call[j].waits = "form"
    <3>1. CASE Restart
      <4>1. ASSUME NEW j \in Calls
            PROVE  Answered(call[j], "error").waits \in {call[j].waits, "nothing"}
        BY <1>f, AnswerWaits DEF Replies
      <4>2. ASSUME NEW j \in Calls
            PROVE  call'[j] = IF Suspended(call[j]) THEN Answered(call[j], "error") ELSE call[j]
        BY <3>1 DEF Restart
      <4> QED
        BY <4>1, <4>2
    <3>2. CASE ~Restart
      BY <1>1, <3>2, BeginWaits, FinishWaits DEF Server, Tick, Waits
    <3> QED
      BY <3>1, <3>2
  <2> QED
    BY <1>1, <1>g, <2>1, TabStays DEF Server
<1>2. ASSUME NEW k \in Calls, Submit(k)
      PROVE  TabFits'
  BY <1>2, <1>g, TabStays DEF Submit
<1>3. ASSUME NEW k \in Calls, NEW task \in Tasks, Request(k, task)
      PROVE  TabFits'
  <2> DEFINE c == [NoCall EXCEPT !.task = task, !.waits = "page"]
  <2>1. c \in CallRec /\ c.waits = "page"
    BY NoCallFits DEF CallRec, Waits, NoCall
  <2>2. \A r \in Replies : Answered(c, r).waits # "form"
    BY <2>1, AnswerWaits
  <2>3. PICK r \in Replies : call' = [call EXCEPT ![k] = Answered(c, r)]
    BY <1>3 DEF Request, Outcomes, Replies
  <2>4. \A j \in Calls : call'[j].waits = "form" => call[j].waits = "form"
    BY <1>f, <2>2, <2>3
  <2> QED
    BY <1>3, <1>g, <2>4, TabStays DEF Request
<1>4. ASSUME NEW k \in Calls, Land(k)
      PROVE  TabFits'
  <2>1. \A j \in Calls : call'[j].waits = "form" => call[j].waits = "form"
    BY <1>4, <1>f DEF Land, NoCall
  <2>2. page' = page /\ accounts' = accounts
    BY <1>4 DEF Land
  <2>3. \A t \in {token', stored'} \ {NULL} : t.uid \in DOMAIN accounts
    BY <1>4, <1>f, <1>t, <2>2 DEF Land, Enter, Unauthenticated, End, CallFits
  <2>4. page = "blank" => nav' # NULL
    <3>1. nav' = nav \/ \E to \in Pages, t \in Token \cup {NULL} : Goes(to, t)
      <4>1. {"login", "rooms"} \subseteq Pages /\ Members \subseteq Pages
        BY DEF Pages, Doors, Members
      <4>2. token \in Token \cup {NULL} /\ call[k].grant \in Token \cup {NULL}
        BY <1>f DEF TabInv, CallRec
      <4>3. SentTo(call[k]) \subseteq Pages \cup {NULL}
        BY <4>1 DEF SentTo, Members
      <4> QED
        BY <1>4, <4>1, <4>2, <4>3 DEF Land, Enter, Unauthenticated, End
    <3>2. page = "blank" => page \notin Pages
      BY DEF Pages, Doors, Members
    <3> QED
      BY <3>1, <3>2, WhereItGoes DEF TabFits
  <2> QED
    BY <2>1, <2>2, <2>3, <2>4 DEF TabFits
<1>5. ASSUME NEW to \in Pages, Navigate(to)
      PROVE  TabFits'
  <2>1. page \in Pages
    BY <1>5 DEF Navigate, TabInv
  <2>2. page' # "blank"
    BY <1>5, <2>1 DEF Navigate, Pages, Doors, Members
  <2> QED
    BY <1>5, <1>t, <2>2 DEF Navigate, TabFits, accountVars
<1>6. CASE Arrive
  <2>1. \A j \in Calls : call'[j].waits = "form" => call[j].waits = "form" /\ page' = page
    <3>1. CASE page' = page
      BY <1>6, <3>1 DEF Arrive
    <3>2. CASE page' # page
      <4>1. call' = [k \in Calls |-> Leave(call[k])]
        BY <1>6, <3>2 DEF Arrive
      <4>2. ASSUME NEW j \in Calls PROVE Leave(call[j]).waits # "form"
        BY <1>f DEF Leave, CallRec
      <4> QED
        BY <4>1, <4>2
    <3> QED
      BY <3>1, <3>2
  <2>2. page' # "blank"
    BY <1>6, NullIsNothingElse DEF Arrive, TabInv, Pages, Members, Doors
  <2> QED
    BY <1>6, <1>t, <2>1, <2>2 DEF Arrive, TabFits
<1>7. CASE Logout
  BY <1>7, <1>t DEF Logout, End, TabFits, accountVars
<1>8. CASE Reload
  <2>1. ASSUME NEW j \in Calls PROVE call'[j].waits # "form"
    <3>1. call'[j] = Orphan(call[j])
      BY <1>8 DEF Reload
    <3> QED
      BY <1>f, <3>1 DEF Orphan, NoCall, CallRec
  <2>2. nav' # NULL
    BY <1>8, GuardIsSettled DEF Reload, TabInv
  <2> QED
    BY <1>8, <1>t, <2>1, <2>2 DEF Reload, TabFits
<1>9. CASE OtherTab
  BY <1>9, <1>t DEF OtherTab, TabFits, accountVars
<1>10. CASE Expire
  <2>1. \A j \in Calls : call'[j].waits = call[j].waits
    BY <1>10, <1>f DEF Expire, CallRec
  <2>2. \A t \in {token', stored'} \ {NULL} : t.uid \in DOMAIN accounts'
    BY <1>10, <1>t, StaleIsToken DEF Expire, TabInv
  <2> QED
    BY <1>10, <2>1, <2>2 DEF Expire, TabFits
<1>11. CASE UNCHANGED sessionVars
  BY <1>11 DEF TabFits, sessionVars, accountVars
<1> QED
  BY <1>1, <1>2, <1>3, <1>4, <1>5, <1>6, <1>7, <1>8, <1>9, <1>10, <1>11 DEF SessionNext

LEMMA SessionInvariant == SessionSpec => []SessionInv
<1>1. SessionInit => SessionInv
  <2>1. SessionInit => TabInv
    BY NullIsNothingElse DEF SessionInit, TabInv, Guard, Pages, Doors, Members
  <2>2. SessionInit => TabFits
    BY NullIsNothingElse DEF SessionInit, AccountInit, TabFits, NoCall, Pages, Doors
  <2> QED
    BY <2>1, <2>2, AccountInitially DEF SessionInv
<1>2. SessionInv /\ [SessionNext]_sessionVars => SessionInv'
  BY AccountStep, TabStep, TabFitsStep DEF SessionInv
<1> QED
  BY <1>1, <1>2, PTL DEF SessionSpec

LEMMA LandStrands ==
    ASSUME SessionInv, NEW k \in Calls, Land(k), nav' = NULL, ~Fits(page, token'),
           nav # NULL \/ Fits(page, token)
    PROVE  call[k].stage = "answered" /\ call'[k] = NoCall /\ page \in SentTo(call[k])
<1> DEFINE c == call[k]
<1>1. c.stage = "answered" /\ call'[k] = NoCall
  BY DEF Land, SessionInv, AccountInv, CallsFit
<1>2. {"login", "rooms", "chat"} \subseteq Pages /\ Members \subseteq Pages
  BY DEF Pages, Doors, Members
<1>3. ASSUME c.reply = "token", Enter(c.grant)
      PROVE  FALSE
  <2>1. token' = c.grant /\ token' # NULL
    BY <1>3 DEF Enter, SessionInv, AccountInv, CallsFit, CallFits
  <2>2. PICK to \in Members : Goes(to, token')
    BY <1>3, <2>1 DEF Enter
  <2>3. CASE to = page
    BY <2>1, <2>3 DEF Fits, Members, Doors
  <2>4. CASE Asked(to, token')
    BY <1>2, <2>4, AskedFits
  <2> QED
    BY <2>2, <2>3, <2>4 DEF Goes
<1>4. ASSUME Unauthenticated
      PROVE  FALSE
  <2>1. CASE token # NULL
    <3>1. token' = NULL /\ Goes("login", token')
      BY <1>4, <2>1 DEF Unauthenticated, End
    <3>2. CASE page = "login"
      BY <3>1, <3>2 DEF Fits, Members, Doors
    <3>3. CASE Asked("login", token')
      BY <1>2, <3>3, AskedFits
    <3> QED
      BY <3>1, <3>2, <3>3 DEF Goes
  <2>2. CASE token = NULL
    BY <1>4, <2>2 DEF Unauthenticated
  <2> QED
    BY <2>1, <2>2
<1>5. ASSUME c.task = "leave", token' = NULL, Goes("rooms", NULL)
      PROVE  page \in SentTo(c)
  <2>1. CASE page = "rooms"
    BY <1>5, <2>1 DEF SentTo
  <2>2. CASE Asked("rooms", token')
    BY <1>2, <2>2, AskedFits
  <2> QED
    BY <1>5, <2>1, <2>2 DEF Goes
<1>6. ASSUME \E to \in SentTo(c) : IF to = NULL THEN UNCHANGED nav ELSE Goes(to, token),
             UNCHANGED token
      PROVE  page \in SentTo(c)
  <2>1. PICK to \in SentTo(c) : IF to = NULL THEN UNCHANGED nav ELSE Goes(to, token)
    BY <1>6
  <2>2. to # NULL
    BY <1>6, <2>1
  <2>3. to \in Pages
    BY <1>2, <2>2 DEF SentTo
  <2>4. ~Asked(to, token)
    BY <1>6, <2>3, AskedFits
  <2> QED
    BY <2>1, <2>2, <2>4 DEF Goes
<1> QED
  BY <1>1, <1>3, <1>4, <1>5, <1>6 DEF Land

LEMMA StrandStep ==
    ASSUME SessionInv, [SessionNext]_sessionVars, nav' = NULL, ~Fits(page', token'),
           nav # NULL \/ Fits(page, token)
    PROVE  \E k \in Calls : /\ call[k].stage = "answered" /\ call'[k] = NoCall
                            /\ page \in SentTo(call[k])
<1>1. ASSUME NEW k \in Calls, Land(k)
      PROVE  call[k].stage = "answered" /\ call'[k] = NoCall /\ page \in SentTo(call[k])
  <2>1. page' = page
    BY <1>1 DEF Land
  <2> QED
    BY <1>1, <2>1, LandStrands
<1>2. ASSUME NEW to \in Pages, Navigate(to)
      PROVE  FALSE
  <2>1. Asked(to, token) /\ UNCHANGED <<token, page>>
    BY <1>2 DEF Navigate
  <2> QED
    BY <2>1, AskedFits
<1>3. CASE Arrive
  <2>1. page' = nav /\ token' = token /\ Guard(nav, token) = nav
    BY <1>3 DEF Arrive, SessionInv, TabInv
  <2> QED
    BY <2>1, PassedFits
<1>4. CASE Logout
  <2>1. Asked("login", NULL) /\ "login" \in Pages /\ token' = NULL /\ page' = page
    BY <1>4 DEF Logout, End, Goes, Pages, Doors
  <2> QED
    BY <2>1, AskedFits
<1>5. CASE Reload
  <2>1. page \in Pages /\ nav' = Guard(page, token')
    BY <1>5 DEF Reload, SessionInv, TabInv
  <2> QED
    BY <2>1, GuardIsSettled
<1>6. CASE Expire
  <2>1. UNCHANGED <<page, nav>> /\ (token' = NULL <=> token = NULL)
    BY <1>6, StaleIsToken DEF Expire, SessionInv, TabInv
  <2> QED
    BY <2>1 DEF Fits
<1>7. CASE \/ Server \/ OtherTab \/ UNCHANGED sessionVars
           \/ \E k \in Calls : Submit(k) \/ \E task \in Tasks : Request(k, task)
  <2>1. UNCHANGED <<token, page, nav>>
    BY <1>7 DEF Server, OtherTab, Submit, Request, sessionVars
  <2> QED
    BY <2>1
<1> QED
  BY <1>1, <1>2, <1>3, <1>4, <1>5, <1>6, <1>7 DEF SessionNext

\* A tab settles on a page its session may not see (requiresAuth, the two doors)
\* only by an answer that sends it to the page it shows, where vue-router asks no
\* guard and gives up the navigation under way; logins, logouts, 401s, reloads and
\* navigations never do that by themselves, for any number of calls under way.
THEOREM AnswersAloneStrand == SessionSpec => OnlyAnswersStrand
<1>1. SessionInv /\ [SessionNext]_sessionVars =>
        [nav' = NULL /\ ~Fits(page', token') /\ (nav # NULL \/ Fits(page, token))
           => \E k \in Calls : /\ call[k].stage = "answered" /\ call'[k] = NoCall
                               /\ page \in SentTo(call[k])]_sessionVars
  BY StrandStep
<1> QED
  BY <1>1, SessionInvariant, PTL DEF SessionSpec, OnlyAnswersStrand

\* Whoever was told that he is registered (registerUser) finds a row of his name
\* with his password, and authenticate finds no other.
THEOREM SessionEnrolled == SessionSpec => []EnrolledCanLogIn
<1>1. SessionInv => EnrolledCanLogIn
  <2> SUFFICES ASSUME SessionInv, NEW e \in enrolled
               PROVE  RowOf(e[1]) # {} /\ accounts[Row(e[1])].password = e[2]
    BY DEF EnrolledCanLogIn
  <2>1. PICK i \in DOMAIN accounts : accounts[i].name = e[1] /\ accounts[i].password = e[2]
    BY DEF SessionInv, AccountInv, Kept
  <2>2. RowOf(e[1]) # {}
    BY <2>1 DEF RowOf
  <2>3. Row(e[1]) = i
    BY <2>1, <2>2, RowIsRow DEF SessionInv, AccountInv, Unique
  <2> QED
    BY <2>1, <2>2, <2>3
<1> QED
  BY <1>1, SessionInvariant, PTL

-------------------------------------------------------------------------------
\* The limiters.  Numbers have a least one, and what is shifted out of a bucket
\* are its first ones.
LEMMA Least ==
    ASSUME NEW T, T \subseteq Nat, T # {}
    PROVE  \E x \in T : \A y \in T : x <= y
<1>1. \E R : IsWellFoundedOn(R, Nat) /\ \A x, y \in Nat : y < x => <<y, x>> \in R
  <2>1. \A x, y \in Nat : y < x => <<y, x>> \in OpToRel(<, Nat)
    BY DEF OpToRel
  <2> QED
    BY <2>1, NatLessThanWellFounded
<1>2. PICK R : IsWellFoundedOn(R, Nat) /\ \A x, y \in Nat : y < x => <<y, x>> \in R
  BY <1>1
<1>3. PICK x \in T : \A y \in T : <<y, x>> \notin R
  BY <1>2, WFMin
<1>4. ASSUME NEW y \in T PROVE x <= y
  <2>1. x \in Nat /\ y \in Nat /\ ~(y < x)
    BY <1>2, <1>3
  <2> QED
    BY <2>1
<1> QED
  BY <1>4

LEMMA FirstOnes ==
    ASSUME NEW n \in Nat, NEW D, D \subseteq 1..n,
           \A i \in D, j \in 1..n : j <= i => j \in D
    PROVE  Cardinality(D) \in 0..n /\ D = 1..Cardinality(D)
<1> DEFINE T == {i \in 1..n + 1 : i \notin D}
<1>1. PICK x \in T : \A y \in T : x <= y
  <2>1. T \subseteq Nat /\ n + 1 \in T
    OBVIOUS
  <2> HIDE DEF T
  <2> QED
    BY <2>1, Least
<1>2. x \in 1..n + 1 /\ x \notin D
  OBVIOUS
<1>3. D = 1..x - 1
  <2>1. ASSUME NEW i \in D PROVE i \in 1..x - 1
    <3>1. ~(x <= i)
      BY <1>2
    <3> QED
      BY <1>2, <3>1
  <2>2. ASSUME NEW i \in 1..x - 1 PROVE i \in D
    <3>1. i \in 1..n + 1 /\ ~(x <= i)
      BY <1>2
    <3> QED
      BY <1>1, <3>1
  <2> QED
    BY <2>1, <2>2
<1>4. Cardinality(D) = x - 1
  BY <1>2, <1>3, FS_Interval
<1> QED
  BY <1>2, <1>3, <1>4

\* Of all the hits a that were admitted for a key, in their order, the bucket
\* h has the last ones, and those it has no more are older than the window w.
\* Any m of them in sequence take longer than the window.
BucketFits(a, h, now, w, m) ==
    /\ Len(h) <= Len(a)
    /\ \A i, j \in DOMAIN a : i <= j => a[i] <= a[j]
    /\ \A i \in DOMAIN a : a[i] <= now
    /\ \A i \in 1..Len(h) : h[i] = a[Len(a) - Len(h) + i]
    /\ \A i \in 1..Len(a) - Len(h) : a[i] < now - w
    /\ \A i \in DOMAIN a : i + m \in DOMAIN a => a[i + m] - a[i] > w

LimitInv ==
    /\ hits \in [Keys -> Seq(Nat)] /\ admitted \in [Keys -> Seq(Nat)]
    /\ clock \in 0..MaxTime
    /\ \A key \in Keys : BucketFits(admitted[key], hits[key], clock, Window(key), Most(key))

LEMMA LimitConstants ==
    /\ \A key \in Keys : Window(key) \in Nat /\ Most(key) \in Nat /\ Most(key) > 0
    /\ MaxTime \in Nat /\ Names \subseteq Keys /\ "register" \in Keys
BY LimitAssumption DEF Window, Most, Keys

\* What check keeps of a bucket: the last hits again, all of which count, and
\* all others are older than the window.
LEMMA RecentIs ==
    ASSUME LimitInv, NEW key \in Keys
    PROVE  /\ Recent(key) \in Seq(Nat)
           /\ BucketFits(admitted[key], Recent(key), clock, Window(key), Most(key))
           /\ \A i \in 1..Len(Recent(key)) : Recent(key)[i] >= clock - Window(key)
<1> DEFINE a == admitted[key]
           h == hits[key]
           r == Recent(key)
           w == Window(key)
           e == Cardinality(Expired(key))
<1>1. /\ a \in Seq(Nat) /\ h \in Seq(Nat) /\ Len(a) \in Nat /\ Len(h) \in Nat
      /\ DOMAIN a = 1..Len(a) /\ DOMAIN h = 1..Len(h)
      /\ clock \in Nat /\ w \in Nat
      /\ \A i \in DOMAIN a : a[i] \in Nat
      /\ \A i \in DOMAIN h : h[i] \in Nat
      /\ BucketFits(a, h, clock, w, Most(key))
  BY LimitConstants, LenProperties, ElementOfSeq DEF LimitInv
<1>2. Expired(key) = {i \in 1..Len(h) : \A j \in 1..i : h[j] < clock - w}
  <2>1. \A j \in 1..Len(h) : ~Counts(h[j], key) <=> h[j] < clock - w
    BY <1>1 DEF Counts
  <2>2. Expired(key) = {i \in 1..Len(h) : \A j \in 1..i : ~Counts(h[j], key)}
    BY <1>1 DEF Expired
  <2>3. \A i \in 1..Len(h) : \A j \in 1..i : j \in 1..Len(h)
    BY <1>1
  <2> QED
    BY <2>1, <2>2, <2>3
<1>3. e \in 0..Len(h) /\ Expired(key) = 1..e
  <2>1. \A i \in Expired(key), j \in 1..Len(h) : j <= i => j \in Expired(key)
    BY <1>1, <1>2
  <2> QED
    BY <1>1, <1>2, <2>1, FirstOnes
<1>4. r = SubSeq(h, e + 1, Len(h))
  BY DEF Recent
<1> HIDE DEF r, e, h, a, w
<1>5. /\ r \in Seq(Nat) /\ Len(r) = Len(h) - e
      /\ \A i \in 1..Len(h) - e : r[i] = h[e + i]
  <2>1. \A i \in e + 1..Len(h) : h[i] \in Nat
    BY <1>1, <1>3
  <2>2. r \in Seq(Nat) /\ Len(r) = Len(h) - e
    <3>1. e + 1 \in Int /\ Len(h) \in Int
      BY <1>1, <1>3
    <3>2. r \in Seq(Nat) /\ Len(r) = IF e + 1 <= Len(h) THEN Len(h) - (e + 1) + 1 ELSE 0
      BY <1>4, <2>1, <3>1, SubSeqProperties
    <3>3. Len(h) \in Nat /\ e \in Nat /\ e <= Len(h)
      BY <1>1, <1>3
    <3>4. (IF e + 1 <= Len(h) THEN Len(h) - (e + 1) + 1 ELSE 0) = Len(h) - e
      BY <3>3
    <3> QED
      BY <3>2, <3>4
  <2>3. \A i \in 1..Len(h) - e : r[i] = h[e + i]
    BY <1>1, <1>3, <1>4, <2>1, SubSeqProperties
  <2> QED
    BY <2>2, <2>3
<1>6. \A i \in 1..e : h[i] < clock - w
  BY <1>2, <1>3
<1>7. \A i \in e + 1..Len(h) : h[i] >= clock - w
  <2>1. ASSUME e < Len(h) PROVE h[e + 1] >= clock - w
    <3>1. e + 1 \in 1..Len(h) /\ e + 1 \notin Expired(key)
      BY <1>1, <1>3, <2>1
    <3>2. PICK j \in 1..e + 1 : ~(h[j] < clock - w)
      BY <1>2, <3>1
    <3>3. j = e + 1
      BY <1>3, <1>6, <3>2
    <3> QED
      BY <1>1, <3>1, <3>2, <3>3
  <2>2. ASSUME NEW i \in e + 1..Len(h) PROVE h[e + 1] <= h[i]
    <3>1. /\ Len(a) - Len(h) + i \in DOMAIN a /\ Len(a) - Len(h) + (e + 1) \in DOMAIN a
          /\ Len(a) - Len(h) + (e + 1) <= Len(a) - Len(h) + i
          /\ i \in 1..Len(h) /\ e + 1 \in 1..Len(h)
      BY <1>1, <1>3 DEF BucketFits
    <3>2. h[i] = a[Len(a) - Len(h) + i] /\ h[e + 1] = a[Len(a) - Len(h) + (e + 1)]
      BY <1>1, <3>1 DEF BucketFits
    <3> QED
      BY <1>1, <3>1, <3>2 DEF BucketFits
  <2>3. ASSUME NEW i \in e + 1..Len(h) PROVE h[i] >= clock - w
    <3>1. e < Len(h) /\ e + 1 \in 1..Len(h) /\ i \in 1..Len(h)
      BY <1>1, <1>3
    <3>2. h[e + 1] \in Nat /\ h[i] \in Nat
      BY <1>1, <3>1
    <3> QED
      BY <1>1, <2>1, <2>2, <3>1, <3>2
  <2> QED
    BY <2>3
<1>8. \A i \in 1..Len(r) : r[i] >= clock - w
  BY <1>1, <1>3, <1>5, <1>7
<1>9. BucketFits(a, r, clock, w, Most(key))
  <2>1. Len(r) <= Len(a)
    BY <1>1, <1>3, <1>5 DEF BucketFits
  <2>2. ASSUME NEW i \in 1..Len(r) PROVE r[i] = a[Len(a) - Len(r) + i]
    <3>1. e + i \in 1..Len(h) /\ r[i] = h[e + i]
      BY <1>1, <1>3, <1>5
    <3>2. h[e + i] = a[Len(a) - Len(h) + (e + i)]
      BY <1>1, <3>1 DEF BucketFits
    <3>3. Len(a) - Len(h) + (e + i) = Len(a) - Len(r) + i
      BY <1>1, <1>3, <1>5
    <3> QED
      BY <3>1, <3>2, <3>3
  <2>3. ASSUME NEW i \in 1..Len(a) - Len(r) PROVE a[i] < clock - w
    <3>1. CASE i <= Len(a) - Len(h)
      BY <1>1, <3>1 DEF BucketFits
    <3>2. CASE i > Len(a) - Len(h)
      <4>1. i - (Len(a) - Len(h)) \in 1..e
        BY <1>1, <1>3, <1>5, <3>2
      <4>2. i - (Len(a) - Len(h)) \in 1..Len(h)
        BY <1>1, <1>3, <4>1
      <4>3. h[i - (Len(a) - Len(h))] = a[Len(a) - Len(h) + (i - (Len(a) - Len(h)))]
        BY <1>1, <4>2 DEF BucketFits
      <4>4. Len(a) - Len(h) + (i - (Len(a) - Len(h))) = i
        BY <1>1
      <4> QED
        BY <1>6, <4>1, <4>3, <4>4
    <3> QED
      BY <1>1, <3>1, <3>2
  <2> QED
    BY <1>1, <2>1, <2>2, <2>3 DEF BucketFits
<1> QED
  BY <1>5, <1>8, <1>9 DEF r, a, w

\* A hit that is admitted comes last, and the bucket had room for it.
LEMMA OneMoreHit ==
    ASSUME NEW a \in Seq(Nat), NEW r \in Seq(Nat), NEW now \in Nat, NEW w \in Nat,
           NEW m \in Nat, m > 0, BucketFits(a, r, now, w, m), Len(r) < m
    PROVE  /\ Append(a, now) \in Seq(Nat) /\ Append(r, now) \in Seq(Nat)
           /\ BucketFits(Append(a, now), Append(r, now), now, w, m)
<1> DEFINE b == Append(a, now)
           s == Append(r, now)
           n == Len(a)
           l == Len(r)
<1>1. /\ n \in Nat /\ l \in Nat /\ DOMAIN a = 1..n /\ DOMAIN r = 1..l
      /\ b \in Seq(Nat) /\ s \in Seq(Nat) /\ Len(b) = n + 1 /\ Len(s) = l + 1
      /\ DOMAIN b = 1..n + 1 /\ b[n + 1] = now /\ s[l + 1] = now
      /\ \A i \in 1..n : b[i] = a[i] /\ a[i] \in Nat
      /\ \A i \in 1..l : s[i] = r[i]
  BY AppendProperties, LenProperties, ElementOfSeq
<1>2. /\ l <= n /\ l < m
      /\ \A i, j \in 1..n : i <= j => a[i] <= a[j]
      /\ \A i \in 1..n : a[i] <= now
      /\ \A i \in 1..l : r[i] = a[n - l + i]
      /\ \A i \in 1..n - l : a[i] < now - w
      /\ \A i \in 1..n : i + m \in 1..n => a[i + m] - a[i] > w
  BY <1>1 DEF BucketFits
<1> HIDE DEF b, s, n, l
<1>3. \A i \in 1..n + 1 : b[i] <= now
  <2>1. \A i \in 1..n : b[i] <= now
    BY <1>1, <1>2
  <2>2. \A i \in 1..n + 1 : i \in 1..n \/ i = n + 1
    BY <1>1
  <2>3. b[n + 1] <= now
    BY <1>1
  <2> QED
    BY <2>1, <2>2, <2>3
<1>4. ASSUME NEW i \in 1..n + 1, NEW j \in 1..n + 1, i <= j PROVE b[i] <= b[j]
  <2>1. CASE j = n + 1
    BY <1>1, <1>3, <2>1
  <2>2. CASE j \in 1..n
    <3>1. i \in 1..n
      BY <1>1, <1>4, <2>2
    <3> QED
      BY <1>1, <1>2, <1>4, <2>2, <3>1
  <2> QED
    BY <1>1, <2>1, <2>2
<1>5. ASSUME NEW i \in 1..l + 1 PROVE s[i] = b[n - l + i]
  <2>1. n - l + i \in 1..n + 1 /\ n - l + (l + 1) = n + 1
    BY <1>1, <1>2
  <2>2. CASE i \in 1..l
    <3>1. n - l + i \in 1..n
      BY <1>1, <1>2, <2>2
    <3> QED
      BY <1>1, <1>2, <2>2, <3>1
  <2>3. CASE i = l + 1
    BY <1>1, <2>1, <2>3
  <2> QED
    BY <1>1, <2>2, <2>3
<1>6. \A i \in 1..n - l : b[i] < now - w
  BY <1>1, <1>2
<1>7. ASSUME NEW i \in 1..n + 1, i + m \in 1..n + 1 PROVE b[i + m] - b[i] > w
  <2>1. i \in 1..n /\ b[i] = a[i] /\ a[i] \in Nat
    BY <1>1, <1>7
  <2>2. CASE i + m = n + 1
    <3>1. i \in 1..n - l
      BY <1>1, <1>2, <2>1, <2>2
    <3> QED
      <4>1. b[i] < now - w /\ b[i + m] = now /\ b[i] \in Nat
        BY <1>1, <1>6, <2>1, <2>2, <3>1
      <4> QED
        BY <4>1
  <2>3. CASE i + m \in 1..n
    BY <1>1, <1>2, <2>1, <2>3
  <2> QED
    BY <1>1, <1>7, <2>2, <2>3
<1>8. BucketFits(b, s, now, w, m)
  <2>1. (n + 1) - (l + 1) = n - l /\ l + 1 <= n + 1
    BY <1>1, <1>2
  <2> QED
    BY <1>1, <1>3, <1>4, <1>5, <1>6, <1>7, <2>1 DEF BucketFits
<1> QED
  BY <1>1, <1>8 DEF b, s

LEMMA BucketAges ==
    ASSUME NEW a \in Seq(Nat), NEW h \in Seq(Nat), NEW now \in Nat, NEW later \in Nat, now <= later,
           NEW w \in Nat, NEW m \in Nat, BucketFits(a, h, now, w, m)
    PROVE  BucketFits(a, h, later, w, m)
<1>1. Len(a) \in Nat /\ Len(h) \in Nat /\ DOMAIN a = 1..Len(a) /\ Len(h) <= Len(a)
  BY LenProperties DEF BucketFits
<1>2. \A i \in DOMAIN a : a[i] \in Nat
  BY ElementOfSeq, <1>1
<1>3. \A i \in DOMAIN a : a[i] <= later
  BY <1>2 DEF BucketFits
<1>4. \A i \in 1..Len(a) - Len(h) : a[i] < later - w
  <2>1. ASSUME NEW i \in 1..Len(a) - Len(h) PROVE a[i] < later - w
    <3>1. i \in DOMAIN a /\ a[i] < now - w
      BY <1>1 DEF BucketFits
    <3> QED
      BY <1>2, <3>1
  <2> QED
    BY <2>1
<1> QED
  BY <1>3, <1>4 DEF BucketFits

LEMMA NothingAdmitted ==
    ASSUME NEW now, NEW w, NEW m
    PROVE  <<>> \in Seq(Nat) /\ BucketFits(<<>>, <<>>, now, w, m)
BY DEF BucketFits

LEMMA HitKeeps ==
    ASSUME LimitInv, NEW key \in Keys, Hit(key), UNCHANGED clock
    PROVE  LimitInv'
<1> DEFINE r == Recent(key)
           m == Most(key)
           w == Window(key)
<1>1. /\ r \in Seq(Nat) /\ Len(r) \in Nat /\ BucketFits(admitted[key], r, clock, w, m)
      /\ w \in Nat /\ m \in Nat /\ m > 0 /\ clock \in Nat /\ admitted[key] \in Seq(Nat)
  BY RecentIs, LimitConstants DEF LimitInv
<1>2. ASSUME NEW x \in Keys, x # key
      PROVE  hits'[x] = hits[x] /\ admitted'[x] = admitted[x]
  BY <1>2 DEF Hit, LimitInv
<1>3. /\ hits'[key] \in Seq(Nat) /\ admitted'[key] \in Seq(Nat)
      /\ BucketFits(admitted'[key], hits'[key], clock, w, m)
  <2>1. CASE Admits(key)
    <3>1. Len(r) < m
      BY <2>1 DEF Admits
    <3>2. hits'[key] = Append(r, clock) /\ admitted'[key] = Append(admitted[key], clock)
      BY <2>1 DEF Hit, Bucket, LimitInv
    <3> QED
      BY <1>1, <3>1, <3>2, OneMoreHit
  <2>2. CASE ~Admits(key)
    <3>1. hits'[key] = r /\ admitted'[key] = admitted[key]
      BY <2>2 DEF Hit, Bucket, LimitInv
    <3> QED
      BY <1>1, <3>1
  <2> QED
    BY <2>1, <2>2
<1>4. hits' \in [Keys -> Seq(Nat)] /\ admitted' \in [Keys -> Seq(Nat)]
  <2>1. /\ hits' = [hits EXCEPT ![key] = hits'[key]]
        /\ admitted' = [admitted EXCEPT ![key] = admitted'[key]]
    BY DEF Hit, LimitInv
  <2> QED
    BY <1>3, <2>1 DEF LimitInv
<1>5. ASSUME NEW x \in Keys PROVE BucketFits(admitted'[x], hits'[x], clock', Window(x), Most(x))
  BY <1>2, <1>3 DEF LimitInv
<1> QED
  BY <1>4, <1>5 DEF LimitInv, Window, Most

LEMMA ForgetKeeps ==
    ASSUME LimitInv, NEW key, Forget(key), UNCHANGED clock
    PROVE  LimitInv'
<1>1. hits' \in [Keys -> Seq(Nat)] /\ admitted' \in [Keys -> Seq(Nat)]
  BY NothingAdmitted DEF Forget, LimitInv
<1>2. ASSUME NEW x \in Keys PROVE BucketFits(admitted'[x], hits'[x], clock', Window(x), Most(x))
  <2>1. CASE x = key
    BY <2>1, NothingAdmitted DEF Forget, LimitInv
  <2>2. CASE x # key
    BY <2>2 DEF Forget, LimitInv
  <2> QED
    BY <2>1, <2>2
<1> QED
  BY <1>1, <1>2 DEF LimitInv, Window, Most

LEMMA TickKeepsLimits == ASSUME LimitInv, Tick PROVE LimitInv'
<1>1. /\ clock' \in 0..MaxTime /\ clock \in Nat /\ clock' \in Nat /\ clock <= clock'
      /\ UNCHANGED <<hits, admitted>>
  BY LimitConstants DEF Tick, NoHit, LimitInv
<1>2. ASSUME NEW x \in Keys PROVE BucketFits(admitted[x], hits[x], clock', Window(x), Most(x))
  BY <1>1, LimitConstants, BucketAges DEF LimitInv
<1> QED
  BY <1>1, <1>2 DEF LimitInv, Window, Most

LEMMA LimitsRest == ASSUME LimitInv, UNCHANGED <<hits, admitted, clock>> PROVE LimitInv'
BY DEF LimitInv, Window, Most

LEMMA LimitStep == LimitInv /\ [SessionNext]_sessionVars => LimitInv'
<1> SUFFICES ASSUME LimitInv, [SessionNext]_sessionVars
             PROVE  LimitInv'
  OBVIOUS
<1>1. ASSUME NEW k, NEW n \in Names, NEW p, NEW valid, Login(k, n, p, valid)
      PROVE  LimitInv'
  BY <1>1, HitKeeps, LimitsRest, LimitConstants DEF Login, NoHit
<1>2. ASSUME NEW k, NEW w, NEW n \in Names, NEW p, NEW valid, Register(k, w, n, p, valid)
      PROVE  LimitInv'
  BY <1>2, HitKeeps, LimitsRest, LimitConstants DEF Register, NoHit
<1>3. ASSUME NEW k, FinishLogin(k)
      PROVE  LimitInv'
  BY <1>3, ForgetKeeps, LimitsRest DEF FinishLogin, NoHit
<1>4. CASE Server
  <2>1. ASSUME NEW k \in Calls, FinishRegister(k)
        PROVE  LimitInv'
    BY <2>1, LimitsRest DEF FinishRegister, NoHit
  <2>2. CASE Restart
    <3>1. /\ hits' = [key \in Keys |-> <<>>] /\ admitted' = [key \in Keys |-> <<>>]
          /\ clock' = clock
      BY <2>2 DEF Restart
    <3> QED
      BY <3>1, NothingAdmitted DEF LimitInv, Window, Most
  <2> QED
    BY <1>1, <1>2, <1>3, <1>4, <2>1, <2>2, TickKeepsLimits DEF Server
<1>5. ASSUME NEW k \in Calls, Submit(k)
      PROVE  LimitInv'
  BY <1>1, <1>2, <1>5 DEF Submit
<1>6. CASE \/ \E k \in Calls : Land(k) \/ \E task \in Tasks : Request(k, task)
           \/ \E to \in Pages : Navigate(to)
           \/ Arrive \/ Logout \/ Reload \/ OtherTab \/ Expire \/ UNCHANGED sessionVars
  <2>1. UNCHANGED <<hits, admitted, clock>>
    BY <1>6 DEF Land, Request, Navigate, Arrive, Logout, Reload, OtherTab, Expire,
                sessionVars, accountVars
  <2> QED
    BY <2>1, LimitsRest
<1> QED
  BY <1>4, <1>5, <1>6 DEF SessionNext

LEMMA LimitsHold == SessionSpec => []LimitInv
<1>1. SessionInit => LimitInv
  <2> SUFFICES ASSUME SessionInit PROVE LimitInv
    OBVIOUS
  <2>1. hits = [k \in Keys |-> <<>>] /\ admitted = [k \in Keys |-> <<>>] /\ clock = 0
    BY DEF SessionInit, AccountInit
  <2> QED
    BY <2>1, NothingAdmitted, LimitConstants DEF LimitInv
<1> QED
  BY <1>1, LimitStep, PTL DEF SessionSpec

\* In any span as long as its window a limiter of utils/rate-limit.js admits no
\* more hits of a key than its maximum, unless a login that succeeded reset the
\* key, for every maximum and window.
THEOREM LimitersLimit == SessionSpec => []LimitHolds
<1>1. LimitInv => LimitHolds
  BY DEF LimitInv, LimitHolds, BucketFits
<1> QED
  BY <1>1, LimitsHold, PTL

\* hit refuses only while the last hits that it admitted, as many as the maximum,
\* are within the window: what it refused does not count.
THEOREM RefusalsAreDue == SessionSpec => []RefusalIsDue
<1>1. LimitInv => RefusalIsDue
  <2> SUFFICES ASSUME LimitInv, NEW key \in Keys, ~Admits(key)
               PROVE  \E i \in DOMAIN admitted[key] :
                          /\ admitted[key][i] >= clock - Window(key)
                          /\ Len(admitted[key]) - i >= Most(key) - 1
    BY DEF RefusalIsDue
  <2> DEFINE a == admitted[key]
             r == Recent(key)
             m == Most(key)
             n == Len(a)
             l == Len(r)
             i == n - m + 1
  <2>1. /\ BucketFits(a, r, clock, Window(key), m)
        /\ \A j \in 1..l : r[j] >= clock - Window(key)
        /\ n \in Nat /\ l \in Nat /\ m \in Nat /\ m > 0 /\ DOMAIN a = 1..n
    BY RecentIs, LimitConstants, LenProperties DEF LimitInv
  <2>2. ~(l < m)
    BY DEF Admits
  <2>3. l <= n /\ \A j \in 1..l : r[j] = a[n - l + j]
    BY <2>1 DEF BucketFits
  <2> HIDE DEF a, r, m, n, l
  <2>4. /\ i \in 1..n /\ l - m + 1 \in 1..l
        /\ n - l + (l - m + 1) = i /\ n - i >= m - 1
    BY <2>1, <2>2, <2>3
  <2> HIDE DEF i
  <2>5. a[i] >= clock - Window(key)
    BY <2>1, <2>3, <2>4
  <2> QED
    BY <2>1, <2>4, <2>5 DEF a, m, n
<1> QED
  BY <1>1, LimitsHold, PTL

\* The tables, the limiters, the calls under way and the tab stay well formed:
\* tokens are of accounts, answers carry what belongs to them, and a form waits
\* only while its page is shown.
THEOREM SessionTypeCorrect == SessionSpec => []SessionTypeOK
<1>1. SessionInv /\ LimitInv => SessionTypeOK
  <2> SUFFICES ASSUME SessionInv, LimitInv
               PROVE  SessionTypeOK
    OBVIOUS
  <2>1. \A t \in Token : t.uid \in DOMAIN accounts => t \in Tokens
    BY DEF Token, Tokens
  <2>2. ASSUME NEW k \in Calls
        PROVE  /\ DOMAIN call[k] = DOMAIN NoCall
               /\ call[k].stage \in {"none", "comparing", "hashing", "answered"}
               /\ call[k].task \in Tasks /\ call[k].waits \in Waits
               /\ call[k].row \in (DOMAIN accounts) \cup {NULL}
               /\ call[k].reply \in Replies \cup {NULL}
               /\ call[k].grant \in Tokens \cup {NULL}
               /\ call[k].reply = "token" <=> call[k].grant # NULL
               /\ call[k].stage = "comparing" => call[k].row # NULL
               /\ call[k].stage = "answered" <=> call[k].reply # NULL
    <3>1. call[k] \in CallRec /\ CallFits(call[k], DOMAIN accounts)
      BY DEF SessionInv, AccountInv, CallsFit
    <3>2. DOMAIN call[k] = DOMAIN NoCall
      BY <3>1, NoCallFits DEF CallRec
    <3>3. call[k].grant \in Tokens \cup {NULL}
      BY <2>1, <3>1 DEF CallRec, CallFits
    <3> QED
      BY <3>1, <3>2, <3>3 DEF CallRec, CallFits
  <2>3. AccountTypeOK
    BY <2>2 DEF AccountTypeOK, SessionInv, AccountInv, Account, Kept, LimitInv
  <2>4. {token, stored} \subseteq Tokens \cup {NULL}
    BY <2>1 DEF SessionInv, TabInv, TabFits
  <2> QED
    BY <2>3, <2>4 DEF SessionTypeOK, SessionInv, TabInv, TabFits
<1> QED
  BY <1>1, SessionInvariant, LimitsHold, PTL
=============================================================================
