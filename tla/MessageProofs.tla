------------------------------ MODULE MessageProofs ------------------------------
(***************************************************************************)
(* Theorems about MessageService.                                          *)
(***************************************************************************)
EXTENDS MessageService, FiniteSetTheorems, TLAPS

\* A step of the table: nothing, or one row more.
Appends(row) == log' = Append(log, row)

\* The rows that were there stay where they were.
LEMMA RowsStay ==
    ASSUME log \in Seq(Message), NEW row \in Message, Appends(row)
    PROVE  /\ log' \in Seq(Message)
           /\ Len(log') = Len(log) + 1
           /\ DOMAIN log = 1..Len(log) /\ DOMAIN log' = 1..(Len(log) + 1)
           /\ \A i \in DOMAIN log : log'[i] = log[i]
           /\ log'[Len(log) + 1] = row
BY DEF Appends

\* A call of sendMessage that inserts appends a proper row.
LEMMA InsertAppends ==
    ASSUME NEW u \in Users, NEW r \in Rooms, NEW k \in GivenKeys \cup {NULL}, Insert(u, r, k)
    PROVE  Row(u, r, k) \in Message /\ Appends(Row(u, r, k))
BY DEF Insert, Row, Message, Appends

\* What a reader asks for is a finite set of ids.
LEMMA BeforeFacts ==
    ASSUME log \in Seq(Message), NEW r, NEW ids
    PROVE  /\ IsFiniteSet(Before(r, ids)) /\ Before(r, ids) \subseteq Nat
           /\ Cardinality(Before(r, ids)) \in Nat
<1>1. IsFiniteSet(1..Len(log)) /\ DOMAIN log = 1..Len(log) /\ Len(log) \in Nat
  BY FS_Interval
<1>2. Before(r, ids) \subseteq 1..Len(log)
  BY <1>1 DEF Before, InRoom
<1> QED
  BY <1>1, <1>2, FS_Subset, FS_CardinalityType

\* A page ends above everything it leaves out, and has_more tells the truth.
LEMMA PageFacts ==
    ASSUME NEW S, IsFiniteSet(S), S \subseteq Nat, NEW n \in Nat
    PROVE  /\ Page(S, n) \subseteq S
           /\ \A i \in Page(S, n), j \in S : j >= i => j \in Page(S, n)
           /\ ~HasMore(S, n) => Page(S, n) = S
           /\ HasMore(S, n) \in BOOLEAN
<1> DEFINE Above(i) == {j \in S : j >= i}
<1>1. \A i \in S : IsFiniteSet(Above(i)) /\ Above(i) \subseteq S
  BY FS_Subset
<1>2. Cardinality(S) \in Nat /\ \A i \in S : Cardinality(Above(i)) \in Nat
  BY <1>1, FS_CardinalityType
<1>3. \A i \in S : Cardinality(Above(i)) <= Cardinality(S)
  BY <1>1, FS_Subset
<1>4. ASSUME NEW i \in S, NEW j \in S, j >= i
      PROVE  Cardinality(Above(j)) <= Cardinality(Above(i))
  <2>1. Above(j) \subseteq Above(i)
    <3> SUFFICES ASSUME NEW k \in Above(j)
                 PROVE  k \in Above(i)
      OBVIOUS
    <3>1. k \in S /\ k >= j /\ i \in Nat /\ j \in Nat /\ k \in Nat
      OBVIOUS
    <3>2. k >= i
      BY <1>4, <3>1
    <3> QED
      BY <3>1, <3>2
  <2> QED
    BY <1>1, <2>1, FS_Subset
<1>5. Page(S, n) = {i \in S : Cardinality(Above(i)) <= n}
  BY DEF Page
<1> HIDE DEF Above
<1>6. ASSUME NEW i \in Page(S, n), NEW j \in S, j >= i
      PROVE  j \in Page(S, n)
  <2>1. i \in S /\ Cardinality(Above(i)) <= n
    BY <1>5
  <2>2. Cardinality(Above(j)) <= Cardinality(Above(i))
    BY <1>4, <1>6, <2>1
  <2>3. Cardinality(Above(i)) \in Nat /\ Cardinality(Above(j)) \in Nat
    BY <1>2, <2>1
  <2>4. Cardinality(Above(j)) <= n
    BY <2>1, <2>2, <2>3
  <2> QED
    BY <1>5, <2>4
<1>7. ASSUME ~HasMore(S, n)
      PROVE  Page(S, n) = S
  <2>1. Cardinality(S) <= n
    BY <1>2, <1>7 DEF HasMore
  <2>2. ASSUME NEW i \in S
        PROVE  Cardinality(Above(i)) <= n
    <3>1. Cardinality(Above(i)) \in Nat /\ Cardinality(Above(i)) <= Cardinality(S)
      BY <1>2, <1>3
    <3> QED
      BY <1>2, <2>1, <3>1
  <2> QED
    BY <1>5, <2>2
<1>8. HasMore(S, n) \in BOOLEAN
  BY <1>2 DEF HasMore
<1> QED
  BY <1>5, <1>6, <1>7, <1>8

LEMMA MessageTypeStep == MessageTypeOK /\ [MessageNext]_messageVars => MessageTypeOK'
<1> SUFFICES ASSUME MessageTypeOK, [MessageNext]_messageVars
             PROVE  MessageTypeOK'
  OBVIOUS
<1> USE DEF MessageTypeOK
<1>1. ASSUME NEW u \in Users, NEW r \in Rooms, NEW k \in GivenKeys \cup {NULL},
             NEW id \in Nat, Tell(u, r, k, id)
      PROVE  told' \in [Users -> [Rooms -> [GivenKeys -> SUBSET Nat]]]
  <2>1. CASE k = NULL
    BY <1>1, <2>1 DEF Tell
  <2>2. CASE k # NULL
    <3>1. k \in GivenKeys /\ told' = [told EXCEPT ![u][r][k] = @ \cup {id}]
      BY <1>1, <2>2 DEF Tell
    <3> QED
      BY <3>1
  <2> QED
    BY <2>1, <2>2
<1>2. ASSUME NEW u \in Users, NEW r \in Rooms, NEW k \in GivenKeys \cup {NULL}, SendAgain(u, r, k)
      PROVE  MessageTypeOK'
  <2>1. PICK id \in Existing(u, r, k) : Tell(u, r, k, id) /\ Announce(id, TRUE)
    BY <1>2 DEF SendAgain
  <2>2. id \in Nat
    BY <2>1 DEF Existing, Ids
  <2> QED
    BY <1>1, <1>2, <2>1, <2>2 DEF SendAgain, Announce
<1>3. ASSUME NEW u \in Users, NEW r \in Rooms, NEW k \in GivenKeys \cup {NULL},
             Send(u, r, k) \/ SendCrash(u, r, k)
      PROVE  MessageTypeOK'
  <2>1. Insert(u, r, k)
    BY <1>3 DEF Send, SendCrash
  <2>2. log' \in Seq(Message)
    BY <2>1, InsertAppends, RowsStay
  <2>3. CASE Send(u, r, k)
    <3>1. Len(log) + 1 \in Nat
      OBVIOUS
    <3>2. Tell(u, r, k, Len(log) + 1) /\ announced' = Append(announced, Len(log) + 1)
      BY <2>3 DEF Send, Announce
    <3>3. told' \in [Users -> [Rooms -> [GivenKeys -> SUBSET Nat]]]
      BY <1>1, <3>1, <3>2
    <3> QED
      BY <2>1, <2>2, <3>1, <3>2, <3>3 DEF Insert
  <2>4. CASE SendCrash(u, r, k)
    BY <2>1, <2>2, <2>4 DEF Insert, SendCrash
  <2> QED
    BY <1>3, <2>3, <2>4
<1>4. ASSUME NEW u \in Readers, NEW r \in Rooms, NEW n \in Limits, ReadLatest(u, r, n)
      PROVE  MessageTypeOK'
  <2> DEFINE S == Before(r, {})
  <2>1. n \in Nat /\ Len(log) \in Nat
    BY MessageAssumption
  <2>2. Page(S, n) \in SUBSET Nat /\ HasMore(S, n) \in BOOLEAN
    BY <2>1, BeforeFacts, PageFacts
  <2>3. view' = [view EXCEPT ![u] = [room |-> r, ids |-> Page(S, n), more |-> HasMore(S, n),
                                     asof |-> Len(log), limit |-> n]]
    BY <1>4 DEF ReadLatest
  <2> HIDE DEF S
  <2>4. [room |-> r, ids |-> Page(S, n), more |-> HasMore(S, n),
         asof |-> Len(log), limit |-> n] \in View
    BY <2>1, <2>2 DEF View
  <2> QED
    BY <1>4, <2>3, <2>4 DEF ReadLatest
<1>5. ASSUME NEW u \in Readers, ReadOlder(u)
      PROVE  MessageTypeOK'
  <2> DEFINE v == view[u]
             S == Before(v.room, v.ids)
  <2>1. v \in View /\ v.ids \subseteq Nat /\ v.limit \in Nat
    BY DEF View
  <2>2. Page(S, v.limit) \in SUBSET Nat /\ HasMore(S, v.limit) \in BOOLEAN
    BY <2>1, BeforeFacts, PageFacts
  <2>3. [v EXCEPT !.ids = @ \cup Page(S, v.limit), !.more = HasMore(S, v.limit)] \in View
    <3> HIDE DEF v, S
    <3> QED
      BY <2>1, <2>2 DEF View
  <2> QED
    BY <1>5, <2>3 DEF ReadOlder
<1>6. ASSUME NEW u \in Users, NEW r \in Rooms, Enter(u, r) \/ Exit(u, r)
      PROVE  MessageTypeOK'
  <2>1. member[r] \cup {u} \in SUBSET Users /\ member[r] \ {u} \in SUBSET Users
    OBVIOUS
  <2>2. PICK S \in SUBSET Users : member' = [member EXCEPT ![r] = S]
    BY <1>6, <2>1 DEF Enter, Exit
  <2>3. member' \in [Rooms -> SUBSET Users]
    BY <2>2
  <2> QED
    BY <1>6, <2>3 DEF Enter, Exit
<1>7. ASSUME NEW r \in Rooms, Delete(r)
      PROVE  MessageTypeOK'
  BY <1>7 DEF Delete
<1>8. CASE UNCHANGED messageVars
  BY <1>8 DEF messageVars
<1> QED
  BY <1>2, <1>3, <1>4, <1>5, <1>6, <1>7, <1>8 DEF MessageNext

LEMMA MessageTypeInit == MessageInit => MessageTypeOK
<1>1. NoView \in View
  BY DEF NoView, View
<1>2. <<>> \in Seq(Message) /\ <<>> \in Seq(Nat)
  OBVIOUS
<1> QED
  BY <1>1, <1>2 DEF MessageInit, MessageTypeOK

\* The table, the frames, the answers and the readers' pages stay well formed.
THEOREM MessageTypeCorrect == MessageSpec => []MessageTypeOK
BY MessageTypeInit, MessageTypeStep, PTL DEF MessageSpec, MessageSafety

-------------------------------------------------------------------------------
(***************************************************************************)
(* Answers.  That a key names one message rests on the index: an answer    *)
(* given later is found by the row's contents, not by its id.              *)
(***************************************************************************)
OneRowPerKey ==
    \A i, j \in DOMAIN log : log[i] = log[j] /\ log[i].key # NULL => i = j

AnswerInv == MessageTypeOK /\ OneRowPerKey /\ KeyNamesOneMessage

LEMMA OneRowStep ==
    MessageTypeOK /\ OneRowPerKey /\ [MessageNext]_messageVars => OneRowPerKey'
<1> SUFFICES ASSUME MessageTypeOK, OneRowPerKey, [MessageNext]_messageVars
             PROVE  OneRowPerKey'
  OBVIOUS
<1>1. ASSUME NEW u \in Users, NEW r \in Rooms, NEW k \in GivenKeys \cup {NULL}, Insert(u, r, k)
      PROVE  OneRowPerKey'
  <2>1. /\ DOMAIN log = 1..Len(log) /\ DOMAIN log' = 1..(Len(log) + 1)
        /\ \A i \in DOMAIN log : log'[i] = log[i]
        /\ log'[Len(log) + 1] = Row(u, r, k)
        /\ Len(log) \in Nat
    BY <1>1, InsertAppends, RowsStay DEF MessageTypeOK
  <2>2. k # NULL => \A i \in DOMAIN log : log[i] # Row(u, r, k)
    BY <1>1 DEF Insert, IndexAllows, Ids
  <2>3. Row(u, r, k).key = k
    BY DEF Row
  <2> SUFFICES ASSUME NEW i \in DOMAIN log', NEW j \in DOMAIN log',
                      log'[i] = log'[j], log'[i].key # NULL
               PROVE  i = j
    BY DEF OneRowPerKey
  <2>4. CASE i \in DOMAIN log /\ j \in DOMAIN log
    BY <2>1, <2>4 DEF OneRowPerKey
  <2>5. CASE i = Len(log) + 1 \/ j = Len(log) + 1
    BY <2>1, <2>2, <2>3, <2>5
  <2> QED
    BY <2>1, <2>4, <2>5
<1>2. CASE UNCHANGED log
  BY <1>2 DEF OneRowPerKey
<1> QED
  BY <1>1, <1>2 DEF MessageNext, messageVars, Send, SendCrash, SendAgain, ReadLatest, ReadOlder,
                    Enter, Exit, Delete

LEMMA KeyNamesStep == AnswerInv /\ [MessageNext]_messageVars => KeyNamesOneMessage'
<1> SUFFICES ASSUME AnswerInv, [MessageNext]_messageVars,
                    NEW v \in Users, NEW s \in Rooms, NEW q \in GivenKeys,
                    NEW i \in told'[v][s][q], NEW j \in told'[v][s][q]
             PROVE  i = j /\ i \in DOMAIN log' /\ log'[i] = Row(v, s, q)
  BY DEF KeyNamesOneMessage, Row
<1>t. MessageTypeOK /\ OneRowPerKey /\ KeyNamesOneMessage
  BY DEF AnswerInv
<1>n. \A k \in GivenKeys : k # NULL
  BY MessageAssumption DEF GivenKeys
<1>o. \A a, b \in told[v][s][q] : a = b /\ a \in DOMAIN log /\ log[a] = Row(v, s, q)
  BY <1>t DEF KeyNamesOneMessage
<1>1. ASSUME NEW u \in Users, NEW r \in Rooms, NEW k \in GivenKeys \cup {NULL}, NEW id,
             Tell(u, r, k, id)
      PROVE  \/ told'[v][s][q] = told[v][s][q]
             \/ u = v /\ r = s /\ k = q /\ told'[v][s][q] = told[v][s][q] \cup {id}
  BY <1>1, <1>t, <1>n DEF Tell, MessageTypeOK
<1>2. ASSUME NEW u \in Users, NEW r \in Rooms, NEW k \in GivenKeys \cup {NULL}, Insert(u, r, k)
      PROVE  /\ \A a \in DOMAIN log : a \in DOMAIN log' /\ log'[a] = log[a]
             /\ Len(log) + 1 \in DOMAIN log' /\ log'[Len(log) + 1] = Row(u, r, k)
             /\ k # NULL => told[u][r][k] = {}
  <2>1. /\ \A a \in DOMAIN log : a \in DOMAIN log' /\ log'[a] = log[a]
        /\ Len(log) + 1 \in DOMAIN log' /\ log'[Len(log) + 1] = Row(u, r, k)
    BY <1>2, <1>t, InsertAppends, RowsStay DEF MessageTypeOK
  <2>2. ASSUME k # NULL, NEW a \in told[u][r][k]
        PROVE  FALSE
    <3>1. a \in DOMAIN log /\ log[a] = Row(u, r, k)
      BY <1>t, <2>2 DEF KeyNamesOneMessage
    <3> QED
      BY <1>2, <2>2, <3>1 DEF Insert, IndexAllows, Ids
  <2> QED
    BY <2>1, <2>2
<1>3. ASSUME NEW u \in Users, NEW r \in Rooms, NEW k \in GivenKeys \cup {NULL}, Send(u, r, k)
      PROVE  i = j /\ i \in DOMAIN log' /\ log'[i] = Row(v, s, q)
  BY <1>1, <1>2, <1>3, <1>n, <1>o DEF Send
<1>4. ASSUME NEW u \in Users, NEW r \in Rooms, NEW k \in GivenKeys \cup {NULL}, SendCrash(u, r, k)
      PROVE  i = j /\ i \in DOMAIN log' /\ log'[i] = Row(v, s, q)
  BY <1>2, <1>4, <1>o DEF SendCrash
<1>5. ASSUME NEW u \in Users, NEW r \in Rooms, NEW k \in GivenKeys \cup {NULL}, SendAgain(u, r, k)
      PROVE  i = j /\ i \in DOMAIN log' /\ log'[i] = Row(v, s, q)
  <2>1. PICK id \in Existing(u, r, k) : Tell(u, r, k, id)
    BY <1>5 DEF SendAgain
  <2>2. log' = log /\ id \in DOMAIN log /\ log[id] = Row(u, r, k) /\ Row(u, r, k).key = k
    BY <1>5, <2>1 DEF SendAgain, Existing, Ids, Row
  <2>3. CASE told'[v][s][q] = told[v][s][q]
    BY <1>o, <2>2, <2>3
  <2>4. CASE u = v /\ r = s /\ k = q /\ told'[v][s][q] = told[v][s][q] \cup {id}
    <3>1. \A a \in told[v][s][q] \cup {id} : a \in DOMAIN log /\ log[a] = Row(v, s, q)
      BY <1>o, <2>2, <2>4
    <3> QED
      BY <1>t, <1>n, <2>2, <2>4, <3>1 DEF OneRowPerKey
  <2> QED
    BY <1>1, <2>1, <2>3, <2>4
<1>6. CASE UNCHANGED <<log, told>>
  BY <1>6, <1>o
<1> QED
  BY <1>3, <1>4, <1>5, <1>6 DEF MessageNext, messageVars, ReadLatest, ReadOlder, Enter, Exit, Delete

LEMMA AnswerInvariant == MessageSafety => []AnswerInv
<1>1. MessageInit => OneRowPerKey /\ KeyNamesOneMessage
  BY DEF MessageInit, OneRowPerKey, KeyNamesOneMessage
<1>2. MessageInit => AnswerInv
  BY <1>1, MessageTypeInit DEF AnswerInv
<1>3. AnswerInv /\ [MessageNext]_messageVars => AnswerInv'
  BY MessageTypeStep, OneRowStep, KeyNamesStep DEF AnswerInv
<1> QED
  BY <1>2, <1>3, PTL DEF MessageSafety

\* A call repeated with its key is always answered with the same message.
THEOREM KeysAreIdempotent == MessageSpec => []KeyNamesOneMessage
BY AnswerInvariant, PTL DEF MessageSpec, AnswerInv

-------------------------------------------------------------------------------
(***************************************************************************)
(* Frames.  AnnouncedOnceInOrder is inductive: the frame of an insert      *)
(* carries an id above all there are.                                      *)
(***************************************************************************)
LEMMA AnnouncedStep ==
    MessageTypeOK /\ AnnouncedOnceInOrder /\ [MessageNext]_messageVars => AnnouncedOnceInOrder'
<1> SUFFICES ASSUME MessageTypeOK, AnnouncedOnceInOrder, [MessageNext]_messageVars
             PROVE  AnnouncedOnceInOrder'
  OBVIOUS
<1>1. ASSUME NEW u \in Users, NEW r \in Rooms, NEW k \in GivenKeys \cup {NULL}, Insert(u, r, k)
      PROVE  /\ DOMAIN log = 1..Len(log) /\ DOMAIN log' = 1..(Len(log) + 1)
             /\ Len(log) \in Nat
  BY <1>1, InsertAppends, RowsStay DEF MessageTypeOK
<1>2. ASSUME NEW u \in Users, NEW r \in Rooms, NEW k \in GivenKeys \cup {NULL}, Send(u, r, k)
      PROVE  AnnouncedOnceInOrder'
  <2>1. Insert(u, r, k) /\ announced' = Append(announced, Len(log) + 1)
    BY <1>2 DEF Send, Announce
  <2>2. /\ DOMAIN announced = 1..Len(announced) /\ Len(announced) \in Nat
        /\ DOMAIN announced' = 1..(Len(announced) + 1)
        /\ \A i \in DOMAIN announced : announced'[i] = announced[i]
        /\ announced'[Len(announced) + 1] = Len(log) + 1
    BY <1>1, <2>1 DEF MessageTypeOK
  <2>3. \A i \in DOMAIN announced : announced[i] \in 1..Len(log)
    BY <1>1, <2>1 DEF AnnouncedOnceInOrder
  <2>4. \A i \in DOMAIN announced' : announced'[i] \in 1..(Len(log) + 1)
    BY <1>1, <2>1, <2>2, <2>3
  <2>5. ASSUME NEW i \in DOMAIN announced', NEW j \in DOMAIN announced', i < j
        PROVE  announced'[i] < announced'[j]
    <3>1. i \in DOMAIN announced
      BY <2>2, <2>5
    <3>2. CASE j \in DOMAIN announced
      BY <2>2, <2>5, <3>1, <3>2 DEF AnnouncedOnceInOrder
    <3>3. CASE j = Len(announced) + 1
      BY <1>1, <2>1, <2>2, <2>3, <3>1, <3>3
    <3> QED
      BY <2>2, <3>2, <3>3
  <2> QED
    BY <1>1, <2>1, <2>4, <2>5 DEF AnnouncedOnceInOrder
<1>3. ASSUME NEW u \in Users, NEW r \in Rooms, NEW k \in GivenKeys \cup {NULL}, SendCrash(u, r, k)
      PROVE  AnnouncedOnceInOrder'
  <2>1. announced' = announced /\ DOMAIN log \subseteq DOMAIN log'
    BY <1>1, <1>3 DEF SendCrash
  <2> QED
    BY <2>1 DEF AnnouncedOnceInOrder
<1>4. CASE UNCHANGED <<log, announced>>
  BY <1>4 DEF AnnouncedOnceInOrder
<1> QED
  BY <1>2, <1>3, <1>4 DEF MessageNext, messageVars, SendAgain, Announce, ReadLatest, ReadOlder,
                          Enter, Exit, Delete

\* No message is announced twice, and no later one before an earlier one.
THEOREM FramesAreOrdered == MessageSpec => []AnnouncedOnceInOrder
<1>1. MessageInit => AnnouncedOnceInOrder
  BY DEF MessageInit, AnnouncedOnceInOrder
<1> QED
  BY <1>1, MessageTypeInit, MessageTypeStep, AnnouncedStep, PTL DEF MessageSpec, MessageSafety

-------------------------------------------------------------------------------
(***************************************************************************)
(* Pages.  asof has to be a moment that has passed: then a new row, whose  *)
(* id is higher, is none that the reader could have missed.                *)
(***************************************************************************)
Gapless(u) ==
    LET v == view[u] IN
    /\ v.asof <= Len(log)
    /\ v.ids \subseteq InRoom(v.room)
    /\ \A j \in InRoom(v.room) :
          j <= v.asof /\ (~v.more \/ \E i \in v.ids : i <= j) => j \in v.ids

PagesInv == MessageTypeOK /\ \A u \in Readers : Gapless(u)

\* Writing disturbs nobody who reads.
LEMMA WritingKeepsPages ==
    ASSUME PagesInv, NEW u \in Users, NEW r \in Rooms, NEW k \in GivenKeys \cup {NULL},
           Insert(u, r, k)
    PROVE  \A w \in Readers : Gapless(w)'
<1> SUFFICES ASSUME NEW w \in Readers
             PROVE  Gapless(w)'
  OBVIOUS
<1> DEFINE v == view[w]
<1>1. view' = view /\ Gapless(w) /\ v.asof \in Nat /\ Len(log) \in Nat
  BY DEF Insert, PagesInv, MessageTypeOK, View
<1>2. /\ DOMAIN log = 1..Len(log) /\ DOMAIN log' = 1..(Len(log) + 1)
      /\ \A i \in DOMAIN log : log'[i] = log[i]
      /\ Len(log') = Len(log) + 1
  BY InsertAppends, RowsStay DEF PagesInv, MessageTypeOK
<1>3. /\ InRoom(v.room) \subseteq InRoom(v.room)'
      /\ \A j \in InRoom(v.room)' : j <= v.asof => j \in InRoom(v.room)
  BY <1>1, <1>2 DEF InRoom, Gapless
<1> QED
  BY <1>1, <1>2, <1>3 DEF Gapless

LEMMA LatestHasNoGaps ==
    ASSUME MessageTypeOK, NEW u \in Readers, NEW r \in Rooms, NEW n \in Limits, ReadLatest(u, r, n)
    PROVE  Gapless(u)'
<1> DEFINE S == Before(r, {})
<1>1. /\ view'[u] = [room |-> r, ids |-> Page(S, n), more |-> HasMore(S, n),
                     asof |-> Len(log), limit |-> n]
      /\ log' = log
  BY DEF ReadLatest, MessageTypeOK
<1>2. S = InRoom(r) /\ InRoom(r)' = InRoom(r)
  BY <1>1 DEF Before, InRoom
<1>3. /\ Page(S, n) \subseteq S
      /\ \A i \in Page(S, n), j \in S : j >= i => j \in Page(S, n)
      /\ ~HasMore(S, n) => Page(S, n) = S
  BY BeforeFacts, PageFacts, MessageAssumption DEF MessageTypeOK
<1>4. S \subseteq Nat /\ Len(log) \in Nat
  BY BeforeFacts DEF MessageTypeOK
<1> HIDE DEF S
<1>5. view'[u].ids = Page(S, n) /\ view'[u].room = r /\ view'[u].more = HasMore(S, n)
      /\ view'[u].asof = Len(log)
  BY <1>1
<1>6. \A j \in S : ~HasMore(S, n) \/ (\E i \in Page(S, n) : i <= j) => j \in Page(S, n)
  BY <1>3, <1>4
<1> QED
  BY <1>1, <1>2, <1>3, <1>4, <1>5, <1>6 DEF Gapless

LEMMA OlderHasNoGaps ==
    ASSUME MessageTypeOK, NEW u \in Readers, Gapless(u), ReadOlder(u)
    PROVE  Gapless(u)'
<1> DEFINE v == view[u]
           S == Before(v.room, v.ids)
           P == Page(S, v.limit)
<1>1. /\ view'[u] = [v EXCEPT !.ids = @ \cup P, !.more = HasMore(S, v.limit)]
      /\ log' = log
  BY DEF ReadOlder, MessageTypeOK
<1>2. v \in View /\ v.limit \in Nat
  BY DEF MessageTypeOK, View
<1>3. /\ P \subseteq S
      /\ \A i \in P, j \in S : j >= i => j \in P
      /\ ~HasMore(S, v.limit) => P = S
  BY <1>2, BeforeFacts, PageFacts DEF MessageTypeOK
<1>4. /\ view'[u].ids = v.ids \cup P /\ view'[u].more = HasMore(S, v.limit)
      /\ view'[u].room = v.room /\ view'[u].asof = v.asof
  BY <1>1, <1>2 DEF View
<1>5. InRoom(v.room) \subseteq Nat
  BY DEF InRoom, MessageTypeOK
<1>6. S = {j \in InRoom(v.room) : \A i \in v.ids : j < i}
  BY DEF Before
<1>7. /\ v.ids \subseteq InRoom(v.room) /\ v.asof <= Len(log)
      /\ \A j \in InRoom(v.room) : j <= v.asof /\ (\E i \in v.ids : i <= j) => j \in v.ids
  BY DEF Gapless
<1> HIDE DEF v, S, P
<1>8. ASSUME NEW j \in InRoom(v.room), j <= v.asof,
             ~HasMore(S, v.limit) \/ \E i \in v.ids \cup P : i <= j
      PROVE  j \in v.ids \cup P
  <2>1. CASE \E i \in v.ids : i <= j
    BY <1>7, <1>8, <2>1
  <2>2. CASE ~\E i \in v.ids : i <= j
    <3>1. j \in S
      BY <1>5, <1>6, <1>7, <2>2
    <3>2. CASE ~HasMore(S, v.limit)
      BY <1>3, <3>1, <3>2
    <3>3. CASE \E i \in P : i <= j
      <4>1. PICK i \in P : i <= j
        BY <3>3
      <4>2. j >= i
        BY <1>3, <1>5, <1>6, <4>1
      <4> QED
        BY <1>3, <3>1, <4>1, <4>2
    <3> QED
      BY <1>8, <2>2, <3>2, <3>3
  <2> QED
    BY <2>1, <2>2
<1>9. v.ids \cup P \subseteq InRoom(v.room)
  BY <1>3, <1>6, <1>7
<1> QED
  BY <1>1, <1>4, <1>7, <1>8, <1>9 DEF Gapless, InRoom

LEMMA PagesStep == PagesInv /\ [MessageNext]_messageVars => \A u \in Readers : Gapless(u)'
<1> SUFFICES ASSUME PagesInv, [MessageNext]_messageVars, NEW w \in Readers
             PROVE  Gapless(w)'
  OBVIOUS
<1>1. ASSUME NEW u \in Users, NEW r \in Rooms, NEW k \in GivenKeys \cup {NULL}, Insert(u, r, k)
      PROVE  Gapless(w)'
  BY <1>1, WritingKeepsPages
<1>2. ASSUME UNCHANGED log, view'[w] = view[w]
      PROVE  Gapless(w)'
  BY <1>2 DEF PagesInv, Gapless, InRoom
<1>3. ASSUME NEW u \in Readers, NEW r \in Rooms, NEW n \in Limits, ReadLatest(u, r, n)
      PROVE  Gapless(w)'
  <2>1. CASE u = w
    BY <1>3, <2>1, LatestHasNoGaps DEF PagesInv
  <2>2. CASE u # w
    BY <1>2, <1>3, <2>2 DEF ReadLatest, PagesInv, MessageTypeOK
  <2> QED
    BY <2>1, <2>2
<1>4. ASSUME NEW u \in Readers, ReadOlder(u)
      PROVE  Gapless(w)'
  <2>1. CASE u = w
    BY <1>4, <2>1, OlderHasNoGaps DEF PagesInv
  <2>2. CASE u # w
    BY <1>2, <1>4, <2>2 DEF ReadOlder, PagesInv, MessageTypeOK
  <2> QED
    BY <2>1, <2>2
<1>5. CASE UNCHANGED <<log, view>>
  BY <1>2, <1>5
<1> QED
  BY <1>1, <1>3, <1>4, <1>5 DEF MessageNext, messageVars, Send, SendCrash, SendAgain, Enter, Exit,
                                Delete

\* Whoever pages back while others write misses nothing.
THEOREM ReadersMissNothing == MessageSpec => []PagesHaveNoGaps
<1>1. MessageInit => \A u \in Readers : Gapless(u)
  BY DEF MessageInit, Gapless, NoView, InRoom
<1>2. MessageInit => PagesInv
  BY <1>1, MessageTypeInit DEF PagesInv
<1>3. PagesInv /\ [MessageNext]_messageVars => PagesInv'
  BY MessageTypeStep, PagesStep DEF PagesInv
<1>4. PagesInv => PagesHaveNoGaps
  BY DEF PagesInv, Gapless, PagesHaveNoGaps
<1> QED
  BY <1>2, <1>3, <1>4, PTL DEF MessageSpec, MessageSafety
===============================================================================
