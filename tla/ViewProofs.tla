------------------------------- MODULE ViewProofs -------------------------------
(***************************************************************************)
(* Theorems about the chat view: its list of messages (ChatView) and what  *)
(* it shows of other users (RoomPeople, on top of ChatInput).              *)
(*                                                                         *)
(* The list.  ViewInv says that while nothing disturbed the list it is     *)
(* sorted, of the room, and that every message of the room is accounted    *)
(* for: shown, under way, pushed too early, or not for this socket.  What  *)
(* a page adds is known when it is served, so the calls carry their share. *)
(*                                                                         *)
(* The people.  PeopleInv looks ahead along the frames under way: the last *)
(* of those about the membership tells right, and they show the user as    *)
(* typing only if he is announced now.                                     *)
(***************************************************************************)
EXTENDS ChatView, RoomPeople, SequenceTheorems, FiniteSetTheorems, TLAPS

-------------------------------------------------------------------------------
\* The operators of ChatView on sets and sequences of ids
Increasing(s) == \A k, n \in DOMAIN s : k < n => s[k] < s[n]

\* The rank of a number in a finite set is one to one.
RankIn(S, m) == Cardinality({n \in S : n <= m})

LEMMA Ranks ==
    ASSUME NEW S, S \subseteq Nat, IsFiniteSet(S)
    PROVE  /\ Cardinality(S) \in Nat
           /\ \A m \in S : RankIn(S, m) \in 1..Cardinality(S)
           /\ \A m, n \in S : m < n => RankIn(S, m) < RankIn(S, n)
           /\ \A k \in 1..Cardinality(S) : \E m \in S : RankIn(S, m) = k
<1> DEFINE Upto(m) == {n \in S : n <= m}
<1>1. Cardinality(S) \in Nat
  BY FS_CardinalityType
<1>2. \A m : RankIn(S, m) = Cardinality(Upto(m))
  BY DEF RankIn
<1>3. ASSUME NEW m \in S
      PROVE  IsFiniteSet(Upto(m)) /\ Cardinality(Upto(m)) \in 1..Cardinality(S)
  <2>1. IsFiniteSet(Upto(m)) /\ Cardinality(Upto(m)) <= Cardinality(S)
    <3>1. Upto(m) \in SUBSET S
      OBVIOUS
    <3> QED
      BY <3>1, FS_Subset
  <2>2. Cardinality(Upto(m)) \in Nat /\ Cardinality(Upto(m)) # 0
    <3>1. m \in Upto(m)
      OBVIOUS
    <3> HIDE DEF Upto
    <3> QED
      BY <2>1, <3>1, FS_CardinalityType, FS_EmptySet
  <2> HIDE DEF Upto
  <2> QED
    BY <1>1, <2>1, <2>2
<1>4. ASSUME NEW m \in S, NEW n \in S, m < n PROVE RankIn(S, m) < RankIn(S, n)
  <2>1. Upto(m) \in SUBSET Upto(n) /\ Upto(m) # Upto(n)
    <3>1. n \in Upto(n) /\ n \notin Upto(m)
      BY <1>4
    <3>2. \A x \in Upto(m) : x \in Upto(n)
      BY <1>4
    <3> HIDE DEF Upto
    <3> QED
      BY <3>1, <3>2
  <2> HIDE DEF Upto
  <2> QED
    BY <1>2, <1>3, <2>1, FS_Subset
<1> HIDE DEF Upto
<1>5. \A m \in S : RankIn(S, m) \in 1..Cardinality(S)
  BY <1>2, <1>3
<1> DEFINE rank == [m \in S |-> RankIn(S, m)]
<1>6. rank \in Surjection(S, 1..Cardinality(S))
  <2>1. rank \in Injection(S, 1..Cardinality(S))
    <3>1. rank \in [S -> 1..Cardinality(S)]
      BY <1>5
    <3>2. ASSUME NEW m \in S, NEW n \in S, rank[m] = rank[n] PROVE m = n
      <4>1. RankIn(S, m) \in Int /\ m \in Nat /\ n \in Nat /\ RankIn(S, m) = RankIn(S, n)
        BY <1>5, <3>2
      <4>2. ~(m < n) /\ ~(n < m)
        BY <1>4, <4>1
      <4> QED
        BY <4>1, <4>2
    <3> QED
      BY <3>1, <3>2 DEF Injection, IsInjective
  <2>2. IsFiniteSet(1..Cardinality(S)) /\ Cardinality(1..Cardinality(S)) = Cardinality(S)
    BY <1>1, FS_Interval
  <2> QED
    BY <2>1, <2>2, FS_Injection
<1> QED
  BY <1>1, <1>4, <1>5, <1>6 DEF Surjection

\* InOrder enumerates a finite set of numbers.
LEMMA InOrderIs ==
    ASSUME NEW S, S \subseteq Nat, IsFiniteSet(S)
    PROVE  /\ InOrder(S) \in Seq(S) /\ Len(InOrder(S)) = Cardinality(S) /\ Cardinality(S) \in Nat
           /\ Increasing(InOrder(S))
           /\ ToSet(InOrder(S)) = S
<1> DEFINE c == Cardinality(S)
           s == InOrder(S)
<1>1. c \in Nat /\ IsFiniteSet(1..c) /\ Cardinality(1..c) = c
  BY FS_CardinalityType, FS_Interval
<1>2. \E t \in [1..c -> S] : Increasing(t)
  <2> DEFINE t == [k \in 1..c |-> CHOOSE m \in S : RankIn(S, m) = k]
  <2>1. /\ \A k \in 1..c : \E m \in S : RankIn(S, m) = k
        /\ \A m, n \in S : m < n => RankIn(S, m) < RankIn(S, n)
    BY Ranks
  <2> HIDE DEF c
  <2>2. \A k \in 1..c : t[k] \in S /\ RankIn(S, t[k]) = k
    BY <2>1
  <2>3. t \in [1..c -> S]
    BY <2>2
  <2> HIDE DEF t
  <2>4. ASSUME NEW k \in 1..c, NEW n \in 1..c, k < n PROVE t[k] < t[n]
    <3>1. t[k] \in Nat /\ t[n] \in Nat /\ RankIn(S, t[k]) = k /\ RankIn(S, t[n]) = n
      BY <2>2
    <3>2. ~(t[n] < t[k]) /\ t[n] # t[k]
      BY <1>1, <2>1, <2>2, <2>4, <3>1
    <3> QED
      BY <3>1, <3>2
  <2> QED
    BY <2>3, <2>4 DEF Increasing
<1>3. s \in [1..c -> S] /\ Increasing(s)
  <2>1. s = CHOOSE t \in [1..c -> S] : Increasing(t)
    BY DEF InOrder, Increasing
  <2> HIDE DEF s, c
  <2> QED
    BY <1>2, <2>1
<1> HIDE DEF s
<1>4. s \in Surjection(1..c, S)
  <2>1. ASSUME NEW k \in 1..c, NEW n \in 1..c, s[k] = s[n] PROVE k = n
    <3>1. s[k] \in Nat /\ s[n] \in Nat
      BY <1>3
    <3>2. ~(k < n) /\ ~(n < k)
      BY <1>3, <2>1, <3>1 DEF Increasing
    <3> QED
      BY <1>1, <3>2
  <2>2. s \in Injection(1..c, S)
    BY <1>3, <2>1 DEF Injection, IsInjective
  <2> QED
    BY <1>1, <2>2, FS_Injection
<1>5. ToSet(s) = S
  <2>1. ToSet(s) \subseteq S
    BY <1>3 DEF ToSet
  <2>2. ASSUME NEW m \in S PROVE m \in ToSet(s)
    BY <1>3, <1>4 DEF ToSet, Surjection
  <2> QED
    BY <2>1, <2>2
<1>6. s \in Seq(S) /\ Len(s) = c
  BY <1>1, <1>3, SeqDef
<1> QED
  BY <1>1, <1>3, <1>5, <1>6 DEF s

\* A finite set of numbers that is not empty has a greatest one.
LEMMA Greatest ==
    ASSUME NEW S, S \subseteq Nat, IsFiniteSet(S), S # {}
    PROVE  \E x \in S : \A y \in S : y <= x
<1> DEFINE s == InOrder(S)
           c == Cardinality(S)
<1>1. s \in Seq(S) /\ Len(s) = c /\ c \in Nat /\ Increasing(s) /\ ToSet(s) = S /\ DOMAIN s = 1..c
  BY InOrderIs, LenProperties
<1>2. c # 0
  BY FS_EmptySet
<1> HIDE DEF s, c
<1>3. c \in 1..c /\ s[c] \in S
  BY <1>1, <1>2, ElementOfSeq
<1>4. ASSUME NEW y \in S PROVE y <= s[c]
  <2>1. PICK k \in 1..c : s[k] = y
    BY <1>1 DEF ToSet
  <2>2. k = c \/ s[k] < s[c]
    BY <1>1, <1>3 DEF Increasing
  <2>3. y \in Nat /\ s[c] \in Nat
    BY <1>3
  <2> QED
    BY <2>1, <2>2, <2>3
<1> QED
  BY <1>3, <1>4

\* The newest of a set go up to its end, and there is one if there is any.
LEMMA NewestIs ==
    ASSUME NEW S, S \subseteq Nat, IsFiniteSet(S)
    PROVE  /\ Newest(S) \subseteq S /\ IsFiniteSet(Newest(S))
           /\ \A i \in Newest(S), j \in S : j >= i => j \in Newest(S)
           /\ S # {} => Newest(S) # {}
<1> DEFINE From(i) == {j \in S : j >= i}
<1>1. Newest(S) = {i \in S : Cardinality(From(i)) <= PageSize}
  BY DEF Newest
<1>2. ASSUME NEW i \in S PROVE IsFiniteSet(From(i)) /\ Cardinality(From(i)) \in Nat
  <2>1. From(i) \in SUBSET S
    OBVIOUS
  <2> HIDE DEF From
  <2> QED
    BY <2>1, FS_Subset, FS_CardinalityType
<1>3. PageSize \in Nat /\ PageSize > 0
  BY ViewAssumption
<1>4. ASSUME NEW i \in Newest(S), NEW j \in S, j >= i PROVE j \in Newest(S)
  <2>1. i \in S /\ Cardinality(From(i)) <= PageSize
    BY <1>1
  <2>2. From(j) \in SUBSET From(i)
    <3>1. ASSUME NEW x \in S, x >= j PROVE x >= i
      <4>1. x \in Nat /\ j \in Nat /\ i \in Nat
        BY <2>1
      <4> QED
        BY <1>4, <3>1, <4>1
    <3> QED
      BY <3>1
  <2> HIDE DEF From
  <2>3. Cardinality(From(j)) <= Cardinality(From(i))
    BY <1>2, <2>1, <2>2, FS_Subset
  <2> QED
    BY <1>1, <1>2, <1>3, <2>1, <2>3
<1>5. ASSUME S # {} PROVE Newest(S) # {}
  <2>1. PICK x \in S : \A y \in S : y <= x
    BY <1>5, Greatest
  <2>2. From(x) = {x}
    <3>1. x \in From(x)
      OBVIOUS
    <3>2. ASSUME NEW y \in From(x) PROVE y = x
      <4>1. y \in Nat /\ x \in Nat /\ y >= x /\ y <= x
        BY <2>1
      <4> QED
        BY <4>1
    <3> QED
      BY <3>1, <3>2
  <2>3. Cardinality(From(x)) = 1
    BY <2>2, FS_Singleton
  <2> HIDE DEF From
  <2> QED
    BY <1>1, <1>3, <2>3
<1>6. IsFiniteSet(Newest(S))
  <2>1. Newest(S) \in SUBSET S
    BY <1>1
  <2> QED
    BY <2>1, FS_Subset
<1> QED
  BY <1>1, <1>4, <1>5, <1>6

\* Where a number belongs among the first n: those below it, in an increasing
\* sequence, are the first ones.
LEMMA FirstOnes ==
    ASSUME NEW n \in Nat, NEW D, D \subseteq 1..n,
           \A i \in D, j \in 1..n : j <= i => j \in D
    PROVE  Cardinality(D) \in 0..n /\ D = 1..Cardinality(D)
<1>1. IsFiniteSet(D) /\ Cardinality(D) \in Nat /\ D \subseteq Nat
  <2>1. D \in SUBSET (1..n) /\ IsFiniteSet(1..n)
    BY FS_Interval
  <2>2. IsFiniteSet(D)
    BY <2>1, FS_Subset
  <2> QED
    BY <2>2, FS_CardinalityType
<1>2. CASE D = {}
  BY <1>2, FS_EmptySet
<1>3. CASE D # {}
  <2>1. PICK x \in D : \A y \in D : y <= x
    BY <1>1, <1>3, Greatest
  <2>2. x \in 1..n /\ D = 1..x
    <3>1. x \in 1..n
      OBVIOUS
    <3>2. ASSUME NEW j \in 1..x PROVE j \in D
      BY <3>1
    <3>3. ASSUME NEW j \in D PROVE j \in 1..x
      BY <2>1
    <3> QED
      BY <3>1, <3>2, <3>3
  <2>3. Cardinality(1..x) = x
    BY <2>2, FS_Interval
  <2> QED
    BY <2>2, <2>3
<1> QED
  BY <1>2, <1>3

LEMMA JoinHas ==
    ASSUME NEW S, NEW s \in Seq(S), NEW t \in Seq(S)
    PROVE  ToSet(s \o t) = ToSet(s) \cup ToSet(t)
<1> DEFINE u == s \o t
<1>1. /\ u \in Seq(S) /\ Len(s) \in Nat /\ Len(t) \in Nat
      /\ DOMAIN s = 1..Len(s) /\ DOMAIN t = 1..Len(t) /\ DOMAIN u = 1..Len(s) + Len(t)
      /\ \A k \in 1..Len(s) + Len(t) : u[k] = IF k <= Len(s) THEN s[k] ELSE t[k - Len(s)]
  BY ConcatProperties, LenProperties
<1> HIDE DEF u
<1>2. ToSet(u) = ToSet(s) \cup ToSet(t)
  <2>1. ASSUME NEW k \in DOMAIN u PROVE u[k] \in ToSet(s) \cup ToSet(t)
    <3>1. CASE k <= Len(s)
      BY <1>1, <3>1 DEF ToSet
    <3>2. CASE k > Len(s)
      <4>1. k - Len(s) \in DOMAIN t /\ u[k] = t[k - Len(s)]
        BY <1>1, <3>2
      <4> QED
        BY <4>1 DEF ToSet
    <3> QED
      BY <1>1, <3>1, <3>2
  <2>2. ASSUME NEW k \in DOMAIN s PROVE s[k] \in ToSet(u)
    <3>1. k \in DOMAIN u /\ u[k] = s[k]
      BY <1>1
    <3> QED
      BY <3>1 DEF ToSet
  <2>3. ASSUME NEW k \in DOMAIN t PROVE t[k] \in ToSet(u)
    <3>1. k + Len(s) \in DOMAIN u /\ ~(k + Len(s) <= Len(s)) /\ (k + Len(s)) - Len(s) = k
      BY <1>1
    <3>2. u[k + Len(s)] = t[k]
      BY <1>1, <3>1
    <3> QED
      BY <3>1, <3>2 DEF ToSet
  <2>4. ToSet(u) \subseteq ToSet(s) \cup ToSet(t)
    BY <2>1 DEF ToSet
  <2>5. ToSet(s) \subseteq ToSet(u) /\ ToSet(t) \subseteq ToSet(u)
    BY <2>2, <2>3 DEF ToSet
  <2> QED
    BY <2>4, <2>5
<1> QED
  BY <1>2 DEF u

LEMMA JoinIs ==
    ASSUME NEW S, S \subseteq Nat, NEW s \in Seq(S), NEW t \in Seq(S)
    PROVE  /\ s \o t \in Seq(S)
           /\ s # <<>> => s \o t # <<>> /\ Head(s \o t) = Head(s)
           /\ s = <<>> => s \o t = t
           /\ Increasing(s) /\ Increasing(t) /\ (\A x \in ToSet(s), y \in ToSet(t) : x < y)
                 => Increasing(s \o t)
<1> DEFINE u == s \o t
<1>1. /\ u \in Seq(S) /\ Len(s) \in Nat /\ Len(t) \in Nat
      /\ DOMAIN s = 1..Len(s) /\ DOMAIN t = 1..Len(t) /\ DOMAIN u = 1..Len(s) + Len(t)
      /\ \A k \in 1..Len(s) + Len(t) : u[k] = IF k <= Len(s) THEN s[k] ELSE t[k - Len(s)]
  BY ConcatProperties, LenProperties
<1> HIDE DEF u
<1>2. s # <<>> => u # <<>> /\ Head(u) = Head(s)
  <2>1. ASSUME s # <<>> PROVE u # <<>> /\ Head(u) = Head(s)
    <3>1. Len(s) > 0 /\ Len(u) = Len(s) + Len(t)
      BY <1>1, <2>1, EmptySeq, LenProperties
    <3>2. 1 \in 1..Len(s) /\ u[1] = s[1] /\ u # <<>>
      BY <1>1, <3>1, EmptySeq
    <3> QED
      BY <3>2
  <2> QED
    BY <2>1
<1>3. s = <<>> => u = t
  BY ConcatEmptySeq DEF u
<1>4. ASSUME Increasing(s), Increasing(t), \A x \in ToSet(s), y \in ToSet(t) : x < y
      PROVE  Increasing(u)
  <2>1. ASSUME NEW k \in DOMAIN u, NEW n \in DOMAIN u, k < n PROVE u[k] < u[n]
    <3>1. CASE n <= Len(s)
      BY <1>1, <1>4, <2>1, <3>1 DEF Increasing
    <3>2. CASE k > Len(s)
      <4>1. /\ k - Len(s) \in DOMAIN t /\ n - Len(s) \in DOMAIN t /\ k - Len(s) < n - Len(s)
            /\ u[k] = t[k - Len(s)] /\ u[n] = t[n - Len(s)]
        BY <1>1, <2>1, <3>2
      <4> QED
        BY <1>4, <4>1 DEF Increasing
    <3>3. CASE k <= Len(s) /\ n > Len(s)
      <4>1. k \in DOMAIN s /\ n - Len(s) \in DOMAIN t /\ u[k] = s[k] /\ u[n] = t[n - Len(s)]
        BY <1>1, <2>1, <3>3
      <4>2. u[k] \in ToSet(s) /\ u[n] \in ToSet(t)
        BY <4>1 DEF ToSet
      <4> QED
        BY <1>4, <4>2
    <3> QED
      BY <1>1, <2>1, <3>1, <3>2, <3>3
  <2> QED
    BY <2>1 DEF Increasing
<1> QED
  BY <1>1, <1>2, <1>3, <1>4 DEF u

\* A message is inserted in its place.
LEMMA PlacedIs ==
    ASSUME NEW S, S \subseteq Nat, messages \in Seq(S), NEW m \in S
    PROVE  /\ Placed(m) \in Seq(S)
           /\ ToSet(Placed(m)) = Shown \cup {m}
           /\ Placed(m) # <<>>
           /\ messages = <<>> => Head(Placed(m)) = m
           /\ messages # <<>> /\ Head(messages) < m => Head(Placed(m)) = Head(messages)
           /\ Increasing(messages) /\ m \notin Shown => Increasing(Placed(m))
<1> DEFINE D == {n \in DOMAIN messages : messages[n] < m}
           k == Cardinality(D)
           front == SubSeq(messages, 1, k)
           back  == SubSeq(messages, k + 1, Len(messages))
<1>1. /\ Len(messages) \in Nat /\ DOMAIN messages = 1..Len(messages)
      /\ \A i \in 1..Len(messages) : messages[i] \in S
  BY LenProperties, ElementOfSeq
<1>2. k \in 0..Len(messages) /\ (D # {} => k > 0)
  <2>1. D \in SUBSET (1..Len(messages)) /\ IsFiniteSet(1..Len(messages))
        /\ Cardinality(1..Len(messages)) = Len(messages)
    <3>1. D \in SUBSET (1..Len(messages))
      BY <1>1
    <3>2. IsFiniteSet(1..Len(messages)) /\ Cardinality(1..Len(messages)) = Len(messages)
      <4> DEFINE len == Len(messages)
      <4>1. len \in Nat
        BY <1>1
      <4> HIDE DEF len
      <4>2. IsFiniteSet(1..len) /\ Cardinality(1..len) = len
        BY <4>1, FS_Interval
      <4> QED
        BY <4>2 DEF len
    <3> QED
      BY <3>1, <3>2
  <2> HIDE DEF D
  <2>2. IsFiniteSet(D) /\ Cardinality(D) <= Len(messages)
    BY <2>1, FS_Subset
  <2> QED
    BY <1>1, <2>2, FS_CardinalityType, FS_EmptySet
<1>3. Placed(m) = (front \o <<m>>) \o back
  <2>1. Placed(m) = InsertAt(messages, k + 1, m)
    BY DEF Placed
  <2> HIDE DEF k
  <2>2. (k + 1) - 1 = k
    BY <1>2
  <2> QED
    BY <2>1, <2>2 DEF InsertAt
<1>4. Increasing(messages) => D = 1..k
  <2>1. ASSUME Increasing(messages), NEW i \in D, NEW j \in 1..Len(messages), j <= i
        PROVE  j \in D
    <3>1. messages[i] \in Nat /\ messages[j] \in Nat /\ m \in Nat
      BY <1>1
    <3>2. j = i \/ messages[j] < messages[i]
      BY <1>1, <2>1 DEF Increasing
    <3> QED
      BY <1>1, <3>1, <3>2
  <2>2. D \subseteq 1..Len(messages)
    BY <1>1
  <2> HIDE DEF D
  <2> QED
    BY <1>1, <2>1, <2>2, FirstOnes
<1> HIDE DEF k
<1>5. /\ front \in Seq(S) /\ Len(front) = k
      /\ \A i \in 1..k : front[i] = messages[i]
  <2>1. k \in Int /\ \A i \in 1..k : messages[i] \in S
    BY <1>1, <1>2
  <2>2. /\ front \in Seq(S) /\ Len(front) = IF 1 <= k THEN k - 1 + 1 ELSE 0
        /\ \A i \in 1..k - 1 + 1 : front[i] = messages[1 + i - 1]
    BY <2>1, SubSeqProperties
  <2> HIDE DEF front
  <2> QED
    BY <1>2, <2>2
<1>6. /\ back \in Seq(S) /\ Len(back) = Len(messages) - k
      /\ \A i \in 1..Len(messages) - k : back[i] = messages[k + i]
  <2>1. k + 1 \in Int /\ \A i \in k + 1..Len(messages) : messages[i] \in S
    BY <1>1, <1>2
  <2>2. /\ back \in Seq(S)
        /\ Len(back) = IF k + 1 <= Len(messages) THEN Len(messages) - (k + 1) + 1 ELSE 0
        /\ \A i \in 1..Len(messages) - (k + 1) + 1 : back[i] = messages[(k + 1) + i - 1]
    BY <1>1, <2>1, SubSeqProperties
  <2> HIDE DEF back
  <2>3. /\ Len(messages) - (k + 1) + 1 = Len(messages) - k /\ k \in Int
        /\ k + 1 <= Len(messages) \/ Len(messages) - k = 0
    <3> DEFINE len == Len(messages)
    <3>1. len \in Nat /\ k \in 0..len
      BY <1>1, <1>2
    <3> HIDE DEF len
    <3>2. /\ len - (k + 1) + 1 = len - k /\ k \in Int
          /\ k + 1 <= len \/ len - k = 0
      BY <3>1
    <3> QED
      BY <3>2 DEF len
  <2>4. Len(back) = Len(messages) - k
    BY <2>2, <2>3
  <2>5. ASSUME NEW i \in 1..Len(messages) - k PROVE back[i] = messages[k + i]
    <3>1. (k + 1) + i - 1 = k + i
      BY <1>1, <1>2
    <3>2. back[i] = messages[(k + 1) + i - 1]
      BY <2>2, <2>3
    <3> QED
      BY <3>1, <3>2
  <2> QED
    BY <2>2, <2>4, <2>5
<1> HIDE DEF front, back
<1>7. /\ ToSet(front) = {messages[i] : i \in 1..k}
      /\ ToSet(back) = {messages[i] : i \in k + 1..Len(messages)}
  <2>1. DOMAIN front = 1..k /\ DOMAIN back = 1..Len(messages) - k
    BY <1>5, <1>6, LenProperties
  <2>2. ToSet(front) = {messages[i] : i \in 1..k}
    BY <1>5, <2>1 DEF ToSet
  <2>3. ASSUME NEW x \in ToSet(back) PROVE \E i \in k + 1..Len(messages) : messages[i] = x
    <3>1. PICK j \in 1..Len(messages) - k : back[j] = x
      BY <2>1 DEF ToSet
    <3>2. k + j \in k + 1..Len(messages) /\ messages[k + j] = x
      BY <1>1, <1>2, <1>6, <3>1
    <3> QED
      BY <3>2
  <2>4. ASSUME NEW i \in k + 1..Len(messages) PROVE messages[i] \in ToSet(back)
    <3>1. i - k \in 1..Len(messages) - k /\ k + (i - k) = i
      BY <1>1, <1>2
    <3>2. back[i - k] = messages[i]
      BY <1>6, <3>1
    <3> QED
      BY <2>1, <3>1, <3>2 DEF ToSet
  <2> QED
    BY <2>2, <2>3, <2>4
<1>8. /\ <<m>> \in Seq(S) /\ ToSet(<<m>>) = {m} /\ <<m>> # <<>> /\ Head(<<m>>) = m
      /\ Increasing(<<m>>)
  BY DEF ToSet, Increasing
<1> DEFINE first == front \o <<m>>
<1>9. /\ first \in Seq(S) /\ ToSet(first) = ToSet(front) \cup {m} /\ first # <<>>
      /\ front = <<>> => Head(first) = m
      /\ front # <<>> => Head(first) = Head(front)
  <2> DEFINE one == <<m>>
  <2>1. /\ one \in Seq(S) /\ ToSet(one) = {m} /\ one # <<>> /\ Head(one) = m
        /\ first = front \o one
    BY <1>8
  <2> HIDE DEF first, one
  <2>2. /\ first \in Seq(S) /\ ToSet(first) = ToSet(front) \cup {m}
        /\ front = <<>> => first = one
        /\ front # <<>> => first # <<>> /\ Head(first) = Head(front)
    <3>1. front \in Seq(S)
      BY <1>5
    <3> QED
      BY <2>1, <3>1, JoinIs, JoinHas
  <2> QED
    BY <2>1, <2>2
<1>10. /\ Placed(m) \in Seq(S) /\ ToSet(Placed(m)) = ToSet(front) \cup {m} \cup ToSet(back)
       /\ Placed(m) # <<>> /\ Head(Placed(m)) = Head(first)
  <2> HIDE DEF first
  <2>1. Placed(m) = first \o back
    BY <1>3 DEF first
  <2>2. /\ first \o back \in Seq(S)
        /\ ToSet(first \o back) = ToSet(first) \cup ToSet(back)
        /\ first \o back # <<>> /\ Head(first \o back) = Head(first)
    <3>1. back \in Seq(S) /\ first \in Seq(S) /\ first # <<>>
      BY <1>6, <1>9
    <3> QED
      BY <3>1, JoinIs, JoinHas
  <2> QED
    BY <1>9, <2>1, <2>2
<1>11. Shown = ToSet(front) \cup ToSet(back)
  <2>1. 1..Len(messages) = (1..k) \cup (k + 1..Len(messages))
    BY <1>1, <1>2
  <2>2. Shown = {messages[i] : i \in 1..Len(messages)}
    BY <1>1 DEF Shown, ToSet
  <2> QED
    BY <1>7, <2>1, <2>2
<1>12. messages = <<>> => front = <<>>
  <2>1. messages = <<>> => Len(messages) = 0
    OBVIOUS
  <2> QED
    BY <1>2, <1>5, <2>1, EmptySeq
<1>13. ASSUME messages # <<>>, Head(messages) < m PROVE Head(first) = Head(messages)
  <2>1. 1 \in DOMAIN messages /\ Head(messages) = messages[1]
    BY <1>1, <1>13, EmptySeq
  <2>2. 1 \in D
    BY <1>13, <2>1
  <2>3. k > 0 /\ front # <<>> /\ front[1] = messages[1]
    BY <1>2, <1>5, <2>2, EmptySeq
  <2>4. Head(front) = front[1]
    BY <1>5, <2>3
  <2> QED
    BY <1>9, <2>1, <2>3, <2>4
<1>14. ASSUME Increasing(messages), m \notin Shown PROVE Increasing(Placed(m))
  <2>1. Increasing(front)
    <3>1. DOMAIN front = 1..k
      BY <1>5, LenProperties
    <3> QED
      BY <1>1, <1>2, <1>5, <1>14, <3>1 DEF Increasing
  <2>2. Increasing(back)
    <3>1. DOMAIN back = 1..Len(messages) - k
      BY <1>6, LenProperties
    <3>2. ASSUME NEW i \in DOMAIN back, NEW j \in DOMAIN back, i < j PROVE back[i] < back[j]
      <4>1. i \in 1..Len(messages) - k /\ j \in 1..Len(messages) - k
        BY <3>1
      <4>2. k \in Nat /\ Len(messages) \in Nat /\ DOMAIN messages = 1..Len(messages)
        BY <1>1, <1>2
      <4>3. back[i] = messages[k + i] /\ back[j] = messages[k + j]
        BY <1>6, <4>1
      <4>4. /\ k + i \in 1..Len(messages) /\ k + j \in 1..Len(messages)
            /\ k + i < k + j
        BY <3>2, <4>1, <4>2
      <4> QED
        BY <1>14, <4>2, <4>3, <4>4 DEF Increasing
    <3> QED
      BY <3>2 DEF Increasing
  <2>3. \A x \in ToSet(front) : x < m
    <3>1. \A i \in 1..k : messages[i] < m
      BY <1>4, <1>14
    <3> QED
      BY <1>7, <3>1
  <2>4. \A y \in ToSet(back) : m < y
    <3>1. ASSUME NEW i \in k + 1..Len(messages) PROVE m < messages[i]
      <4>1. i \in DOMAIN messages /\ messages[i] \in Nat /\ m \in Nat
        <5>1. i \in 1..Len(messages)
          BY <1>1, <1>2
        <5> QED
          BY <1>1, <5>1
      <4>2. i \notin D
        BY <1>2, <1>4, <1>14
      <4>3. ~(messages[i] < m) /\ messages[i] # m
        BY <1>14, <4>1, <4>2 DEF Shown, ToSet
      <4> QED
        BY <4>1, <4>3
    <3> QED
      BY <1>7, <3>1
  <2>5. Increasing(first)
    BY <1>5, <1>8, <2>1, <2>3, JoinIs
  <2>6. \A x \in ToSet(first), y \in ToSet(back) : x < y
    <3>1. ToSet(front) \subseteq Nat /\ ToSet(back) \subseteq Nat /\ m \in Nat
      <4>1. \A i \in 1..Len(messages) : messages[i] \in Nat
        BY <1>1
      <4>2. Shown \subseteq Nat
        BY <1>1, <4>1 DEF Shown, ToSet
      <4> QED
        BY <1>11, <4>2
    <3>2. \A x \in ToSet(front), y \in ToSet(back) : x < y
      BY <2>3, <2>4, <3>1
    <3> HIDE DEF first
    <3> QED
      BY <1>9, <2>4, <3>2
  <2> HIDE DEF first
  <2>7. Placed(m) = first \o back
    BY <1>3 DEF first
  <2> QED
    BY <1>6, <1>9, <2>2, <2>5, <2>6, <2>7, JoinIs
<1> HIDE DEF first
<1> QED
  BY <1>9, <1>10, <1>11, <1>12, <1>13, <1>14

-------------------------------------------------------------------------------
\* The invariant of ChatView.  Ids are places in the table.
Ids == 1..Len(log)

TableFits ==
    /\ log \in Seq(Rooms) /\ subs \in Rooms \cup {NULL} /\ ready \in BOOLEAN
    /\ line \in Seq(Ids) /\ gone \subseteq Ids

ListFits ==
    /\ messages \in Seq(Ids) /\ seenMessageIds \subseteq Ids /\ early \subseteq Ids
    /\ Shown \subseteq seenMessageIds
    /\ base \in 0..Len(log)
    /\ hasMore \in BOOLEAN /\ loadingHistory \in BOOLEAN /\ disturbed \in BOOLEAN

PlaceFits ==
    /\ visit \in 0..MaxVisits
    /\ \/ roomId = NULL /\ visit = 0 /\ calls = {} /\ messages = <<>>
       \/ roomId \in Rooms /\ visit > 0

Calls == [kind : {"page", "older", "post"}, visit : 1..visit, room : Rooms,
          before : 0..Len(log), asof : {NULL} \cup 0..Len(log)]

CallFits(c) ==
    /\ c \in Calls
    /\ c.visit = visit => c.room = roomId
    /\ c.kind = "post" /\ c.asof # NULL => c.asof > 0 /\ log[c.asof] = c.room

AllFit == TableFits /\ ListFits /\ PlaceFits /\ \A c \in calls : CallFits(c)

\* While a page of this visit is awaited nobody asks for another.  The first
\* page finds only what was pushed while it was loading, an older one the list
\* whose head it was asked for.
MyPages == {c \in calls : c.kind # "post" /\ c.visit = visit}
Awaited ==
    \A c \in MyPages :
        /\ loadingHistory /\ \A d \in MyPages : d = c
        /\ c.kind = "page" => c.before = 0 /\ base = 0 /\ Shown \subseteq early
        /\ c.kind = "older" => /\ messages # <<>> /\ c.before = Head(messages)
                               /\ c.asof # NULL => c.before <= c.asof

\* Every message of the room is accounted for; up to the length of the first
\* page's table the list has no gap.
Accounted ==
    /\ seenMessageIds \subseteq Shown \cup early
    /\ InRoom \subseteq Shown \cup ToSet(line) \cup early \cup gone
    /\ \A m \in InRoom : m <= base => messages # <<>> /\ (m >= Head(messages) => m \in Shown)

Quiet == Awaited /\ Shown \subseteq InRoom /\ Increasing(messages) /\ Accounted

ViewInv == AllFit /\ LoadingIsAwaited /\ (~disturbed => Quiet)

LEMMA Constants ==
    /\ PageSize \in Nat /\ PageSize > 0 /\ MaxVisits \in Nat /\ MaxVisits > 0
    /\ Old \in Nat /\ NULL \notin Rooms /\ NULL \notin Nat
BY ViewAssumption

LEMMA SeqWidens == ASSUME NEW S, NEW T, S \subseteq T, NEW s \in Seq(S) PROVE s \in Seq(T)
OBVIOUS

LEMMA LogFits ==
    ASSUME TableFits
    PROVE  /\ Len(log) \in Nat /\ DOMAIN log = Ids /\ Ids \subseteq Nat
           /\ \A i \in Ids : log[i] \in Rooms
           /\ InRoom = {i \in Ids : log[i] = roomId}
BY LenProperties, ElementOfSeq DEF TableFits, Ids, InRoom

\* What a page brings
LEMMA PageIs ==
    ASSUME TableFits, NEW c, c.asof \in 0..Len(log)
    PROVE  /\ Page(c) \in Seq(Ids) /\ Increasing(Page(c))
           /\ ToSet(Page(c)) = Newest(Before(c))
           /\ Newest(Before(c)) \subseteq Before(c) /\ Before(c) \subseteq Ids
           /\ \A i \in Newest(Before(c)), j \in Before(c) : j >= i => j \in Newest(Before(c))
           /\ Page(c) = <<>> => Before(c) = {}
<1> DEFINE B == Before(c)
           N == Newest(B)
<1>1. B \subseteq Ids /\ B \subseteq Nat /\ IsFiniteSet(B)
  <2>1. B \in SUBSET (1..c.asof) /\ 1..c.asof \subseteq Ids /\ 1..c.asof \subseteq Nat
    BY LogFits DEF Before, Ids
  <2>2. IsFiniteSet(1..c.asof)
    BY FS_Interval
  <2> QED
    BY <2>1, <2>2, FS_Subset
<1> HIDE DEF B
<1>2. /\ N \subseteq B /\ IsFiniteSet(N)
      /\ \A i \in N, j \in B : j >= i => j \in N
      /\ B # {} => N # {}
  BY <1>1, NewestIs
<1>3. Page(c) = InOrder(N)
  BY DEF Page, B
<1> HIDE DEF N
<1>4. N \subseteq Nat
  BY <1>1, <1>2
<1>5. Page(c) \in Seq(N) /\ Increasing(Page(c)) /\ ToSet(Page(c)) = N
  BY <1>2, <1>3, <1>4, InOrderIs
<1>6. Page(c) \in Seq(Ids)
  <2>1. N \subseteq Ids
    BY <1>1, <1>2
  <2> QED
    BY <1>5, <2>1, SeqWidens
<1>7. Page(c) = <<>> => B = {}
  BY <1>2, <1>5 DEF ToSet
<1> QED
  BY <1>1, <1>2, <1>5, <1>6, <1>7 DEF N, B

LEMMA LandedIs ==
    ASSUME TableFits, ListFits, NEW c, c.asof \in 0..Len(log)
    PROVE  /\ Landed(c) \in Seq(Ids)
           /\ ToSet(Landed(c)) = Newest(Before(c)) \cup (IF c.kind = "page" THEN {} ELSE Shown)
<1>1. CASE c.kind = "page"
  BY <1>1, PageIs DEF Landed
<1>2. CASE c.kind # "page"
  <2>1. Page(c) \in Seq(Ids) /\ messages \in Seq(Ids) /\ Ids \subseteq Nat
    BY PageIs, LogFits DEF ListFits
  <2>2. Page(c) \o messages \in Seq(Ids)
    BY <2>1, JoinIs
  <2>3. ToSet(Page(c) \o messages) = ToSet(Page(c)) \cup ToSet(messages)
    BY <2>1, JoinHas
  <2>4. ToSet(Page(c)) = Newest(Before(c))
    BY PageIs
  <2> QED
    BY <1>2, <2>2, <2>3, <2>4 DEF Landed, Shown
<1> QED
  BY <1>1, <1>2

-------------------------------------------------------------------------------
\* What stays when the table grows
LEMMA Grows ==
    ASSUME TableFits, NEW r \in Rooms, log' = log \/ log' = Append(log, r)
    PROVE  /\ log' \in Seq(Rooms) /\ Len(log') \in Nat /\ Len(log') >= Len(log)
           /\ Ids \subseteq Ids' /\ Ids' \subseteq Nat
           /\ \A i \in Ids : log'[i] = log[i]
<1>1. log \in Seq(Rooms) /\ Len(log) \in Nat
  BY LogFits DEF TableFits
<1>2. CASE log' = log
  BY <1>1, <1>2 DEF Ids
<1>3. CASE log' = Append(log, r)
  <2>1. /\ Append(log, r) \in Seq(Rooms) /\ Len(Append(log, r)) = Len(log) + 1
        /\ \A i \in 1..Len(log) : Append(log, r)[i] = log[i]
    BY <1>1, AppendProperties
  <2>2. log' \in Seq(Rooms) /\ Len(log') = Len(log) + 1 /\ \A i \in Ids : log'[i] = log[i]
    BY <1>3, <2>1 DEF Ids
  <2>3. Ids \subseteq Ids' /\ Ids' \subseteq Nat
    BY <1>1, <2>2 DEF Ids
  <2> QED
    BY <1>1, <2>2, <2>3
<1> QED
  BY <1>2, <1>3

LEMMA ListStays ==
    ASSUME AllFit, Len(log') \in Nat, Len(log') >= Len(log), disturbed' \in BOOLEAN,
           loadingHistory' \in BOOLEAN,
           UNCHANGED <<messages, seenMessageIds, hasMore, early, base>>
    PROVE  ListFits'
<1>1. Len(log) \in Nat /\ Ids \subseteq Ids'
  BY LogFits DEF AllFit, Ids
<1>2. Shown' = Shown
  BY DEF Shown
<1> QED
  BY <1>1, <1>2 DEF AllFit, ListFits

LEMMA CallStays ==
    ASSUME AllFit, NEW c, CallFits(c), NEW r \in Rooms, log' = log \/ log' = Append(log, r),
           UNCHANGED <<roomId, visit>>
    PROVE  CallFits(c)'
<1>1. Len(log) \in Nat /\ Len(log') \in Nat /\ Len(log') >= Len(log) /\ \A i \in Ids : log'[i] = log[i]
  BY Grows, LogFits DEF AllFit
<1>2. c \in Calls'
  BY <1>1 DEF CallFits, Calls
<1>3. c.asof # NULL /\ c.asof > 0 => c.asof \in Ids
  BY <1>1 DEF CallFits, Calls, Ids
<1> QED
  BY <1>1, <1>2, <1>3 DEF CallFits

LEMMA StoreFits ==
    ASSUME TableFits, NEW r \in Rooms, Store(r)
    PROVE  /\ TableFits' /\ log' = Append(log, r)
           /\ Ids' = Ids \cup {Len(log) + 1} /\ log'[Len(log) + 1] = r
           /\ ToSet(line) \subseteq ToSet(line') /\ gone \subseteq gone'
           /\ Len(log) + 1 \in ToSet(line') \cup gone'
<1> DEFINE m == Len(log) + 1
<1>1. /\ log' = Append(log, r)
      /\ line' = IF subs = r THEN Append(line, m) ELSE line
      /\ gone' = IF subs = r THEN gone ELSE gone \cup {m}
      /\ UNCHANGED <<subs, ready>>
  BY DEF Store
<1>2. /\ log' \in Seq(Rooms) /\ Len(log) \in Nat /\ Len(log') = Len(log) + 1 /\ log'[Len(log) + 1] = r
  BY <1>1, LogFits, AppendProperties DEF TableFits
<1>3. Ids' = Ids \cup {m} /\ m \in Ids'
  BY <1>2 DEF Ids
<1> HIDE DEF m
<1>4. line \in Seq(Ids') /\ gone \subseteq Ids'
  <2>1. line \in Seq(Ids) /\ Ids \subseteq Ids' /\ gone \subseteq Ids
    BY <1>3 DEF TableFits
  <2> QED
    BY <2>1, SeqWidens
<1>5. /\ line' \in Seq(Ids') /\ ToSet(line) \subseteq ToSet(line')
      /\ subs = r => m \in ToSet(line')
  <2>1. CASE subs # r
    BY <1>1, <1>4, <2>1
  <2>2. CASE subs = r
    <3>1. /\ line' \in Seq(Ids') /\ Len(line) \in Nat
          /\ DOMAIN line = 1..Len(line) /\ DOMAIN line' = 1..Len(line) + 1
          /\ line'[Len(line) + 1] = m /\ \A k \in 1..Len(line) : line'[k] = line[k]
      BY <1>1, <1>3, <1>4, <2>2, AppendProperties, LenProperties
    <3>2. Len(line) + 1 \in DOMAIN line' /\ DOMAIN line \subseteq DOMAIN line'
      BY <3>1
    <3> QED
      BY <3>1, <3>2 DEF ToSet
  <2> QED
    BY <2>1, <2>2
<1>6. TableFits'
  BY <1>1, <1>2, <1>3, <1>4, <1>5 DEF TableFits
<1> QED
  BY <1>1, <1>2, <1>3, <1>5, <1>6 DEF m

LEMMA PushFits ==
    ASSUME AllFit, NEW m \in Ids, PushMessage(m), log' = log,
           UNCHANGED <<hasMore, loadingHistory, base>>
    PROVE  /\ ListFits'
           /\ m \notin seenMessageIds => messages' = Placed(m) /\ Shown' = Shown \cup {m}
           /\ m \in seenMessageIds => messages' = messages /\ Shown' = Shown
<1>1. Ids \subseteq Nat /\ messages \in Seq(Ids) /\ Ids' = Ids
  BY LogFits DEF AllFit, ListFits, Ids
<1>2. CASE m \in seenMessageIds
  <2>1. UNCHANGED <<messages, seenMessageIds, early, disturbed>>
    BY <1>2 DEF PushMessage
  <2> QED
    BY <1>1, <1>2, <2>1 DEF AllFit, ListFits, Shown
<1>3. CASE m \notin seenMessageIds
  <2>1. /\ messages' = Placed(m) /\ seenMessageIds' = seenMessageIds \cup {m}
        /\ early' = IF Loading THEN early \cup {m} ELSE early
        /\ disturbed' \in BOOLEAN
    BY <1>3 DEF PushMessage, AllFit, ListFits
  <2>2. messages' \in Seq(Ids) /\ Shown' = Shown \cup {m}
    BY <1>1, <2>1, PlacedIs DEF Shown
  <2> QED
    BY <1>1, <1>3, <2>1, <2>2 DEF AllFit, ListFits
<1> QED
  BY <1>2, <1>3

\* Where a call is made: a new visit and an old one
LEMMA NewVisitFits ==
    ASSUME AllFit, NEW r \in Rooms, Mount(r) \/ Switch(r)
    PROVE  AllFit'
<1> DEFINE v == IF roomId = NULL THEN 1 ELSE visit + 1
           new == [kind |-> "page", visit |-> v, room |-> r, before |-> 0, asof |-> NULL]
<1>1. /\ roomId' = r /\ visit' = v /\ messages' = <<>> /\ seenMessageIds' = {} /\ base' = 0
      /\ early' = {} /\ gone' = DOMAIN log
      /\ hasMore' \in BOOLEAN /\ loadingHistory' \in BOOLEAN /\ disturbed' \in BOOLEAN
      /\ UNCHANGED <<log, subs, line, ready>>
      /\ calls' \subseteq calls \cup {new}
  <2>2. calls' \subseteq calls \cup {new}
    BY DEF Mount, Switch, Call
  <2>3. hasMore' \in BOOLEAN /\ loadingHistory' \in BOOLEAN /\ disturbed' \in BOOLEAN
    BY DEF Mount, Switch, AllFit, ListFits
  <2>4. /\ roomId' = r /\ visit' = v /\ messages' = <<>> /\ seenMessageIds' = {} /\ base' = 0
        /\ early' = {} /\ gone' = DOMAIN log
        /\ UNCHANGED <<log, subs, line, ready>>
    BY DEF Mount, Switch, Cleared, serverVars
  <2> QED
    BY <2>2, <2>3, <2>4
<1>2. /\ v \in 1..MaxVisits /\ \A c \in calls : c \in Calls /\ c.visit < v
      /\ visit \in Nat /\ visit <= v
  BY Constants DEF AllFit, PlaceFits, CallFits, Calls, Mount, Switch
<1>3. Len(log) \in Nat /\ DOMAIN log = Ids /\ Ids' = Ids
  BY <1>1, LogFits DEF AllFit, Ids
<1>4. TableFits'
  BY <1>1, <1>3 DEF AllFit, TableFits
<1>5. ListFits'
  <2>1. Shown' = {}
    BY <1>1 DEF Shown, ToSet
  <2> QED
    BY <1>1, <1>3, <2>1 DEF ListFits
<1>6. PlaceFits'
  BY <1>1, <1>2 DEF PlaceFits
<1> HIDE DEF v
<1>7. ASSUME NEW c \in calls PROVE CallFits(c)'
  <2>1. c \in Calls' /\ c.visit # visit'
    BY <1>1, <1>2, <1>3 DEF Calls
  <2> QED
    BY <1>1, <2>1 DEF AllFit, CallFits
<1>8. ASSUME NEW c, c = new PROVE CallFits(c)'
  <2>1. /\ new.kind = "page" /\ new.visit = v /\ new.room = r
        /\ new \in [kind : {"page", "older", "post"}, visit : 1..v, room : Rooms,
                    before : 0..Len(log), asof : {NULL} \cup 0..Len(log)]
    BY <1>2, <1>3
  <2> HIDE DEF new
  <2> QED
    BY <1>1, <1>3, <1>8, <2>1 DEF CallFits, Calls
<1> HIDE DEF new
<1> QED
  BY <1>1, <1>4, <1>5, <1>6, <1>7, <1>8 DEF AllFit

LEMMA CallMadeFits ==
    ASSUME AllFit, roomId # NULL, NEW kind \in {"older", "post"}, NEW b \in 0..Len(log),
           calls' = calls \cup {Call(kind, visit, roomId, b)}, loadingHistory' \in BOOLEAN,
           UNCHANGED <<serverVars, roomId, visit, messages, seenMessageIds, hasMore, recordVars>>
    PROVE  AllFit'
<1>1. /\ UNCHANGED <<log, subs, line, ready, base, early, gone, disturbed>>
      /\ UNCHANGED <<roomId, visit, messages, seenMessageIds, hasMore>>
  BY DEF serverVars, recordVars
<1>2. TableFits' /\ PlaceFits'
  BY <1>1 DEF AllFit, TableFits, PlaceFits, Ids
<1>3. ListFits'
  BY <1>1, ListStays, LogFits DEF AllFit, ListFits
<1>4. ASSUME NEW c \in calls PROVE CallFits(c)'
  BY <1>1 DEF AllFit, CallFits, Calls
<1>5. ASSUME NEW c, c = Call(kind, visit, roomId, b) PROVE CallFits(c)'
  <2>1. /\ Call(kind, visit, roomId, b) \in Calls /\ Call(kind, visit, roomId, b).room = roomId /\ Call(kind, visit, roomId, b).asof = NULL
    BY DEF Call, Calls, AllFit, PlaceFits
  <2> QED
    BY <1>1, <1>5, <2>1 DEF CallFits, Calls
<1> QED
  BY <1>2, <1>3, <1>4, <1>5 DEF AllFit

LEMMA HeadFits ==
    ASSUME AllFit, messages # <<>>
    PROVE  Head(messages) \in Ids /\ Head(messages) \in Nat /\ Head(messages) \in Shown
           /\ 1 \in DOMAIN messages /\ Head(messages) = messages[1]
<1>1. messages \in Seq(Ids) /\ Len(messages) \in Nat /\ DOMAIN messages = 1..Len(messages) /\ Len(messages) # 0
  BY LenProperties, EmptySeq DEF AllFit, ListFits
<1>2. 1 \in DOMAIN messages /\ Head(messages) = messages[1] /\ messages[1] \in Ids
  BY <1>1, ElementOfSeq
<1> QED
  BY <1>2, LogFits DEF AllFit, Shown, ToSet

LEMMA UnmountFits == ASSUME AllFit, Unmount PROVE AllFit'
<1>1. /\ roomId' = NULL /\ visit' = 0 /\ messages' = <<>> /\ seenMessageIds' = {} /\ calls' = {}
      /\ base' = 0 /\ early' = {} /\ gone' = {} /\ UNCHANGED <<log, subs, line, ready>>
  BY DEF Unmount, serverVars
<1>2. hasMore' \in BOOLEAN /\ loadingHistory' \in BOOLEAN /\ disturbed' \in BOOLEAN
  BY DEF Unmount
<1>3. Shown' = {} /\ Len(log) \in Nat
  BY <1>1, LogFits DEF Shown, ToSet, AllFit
<1>4. TableFits'
  BY <1>1 DEF AllFit, TableFits, Ids
<1>5. ListFits'
  BY <1>1, <1>2, <1>3 DEF ListFits
<1>6. PlaceFits'
  BY <1>1, Constants DEF PlaceFits
<1> QED
  BY <1>1, <1>4, <1>5, <1>6 DEF AllFit

LEMMA LoadMoreFits == ASSUME AllFit, LoadMore PROVE AllFit'
<1>1. Head(messages) \in 0..Len(log) /\ loadingHistory' \in BOOLEAN
  BY HeadFits, LogFits DEF LoadMore, Ids, AllFit
<1> QED
  BY <1>1, CallMadeFits DEF LoadMore

LEMMA SendOverRestFits == ASSUME AllFit, SendOverRest PROVE AllFit'
<1>1. 0 \in 0..Len(log) /\ loadingHistory' \in BOOLEAN
  BY LogFits DEF SendOverRest, AllFit, ListFits, listVars
<1> QED
  BY <1>1, CallMadeFits DEF SendOverRest, listVars

LEMMA PostFits == ASSUME AllFit, NEW r \in Rooms, Post(r) PROVE AllFit'
<1>1. /\ Store(r) /\ UNCHANGED <<roomId, visit, messages, seenMessageIds, hasMore, loadingHistory>>
      /\ UNCHANGED <<calls, base, early, disturbed>>
  BY DEF Post, listVars
<1>2. TableFits' /\ log' = Append(log, r) /\ Len(log') \in Nat /\ Len(log') >= Len(log)
  BY <1>1, StoreFits, Grows DEF AllFit
<1>3. ListFits'
  BY <1>1, <1>2, ListStays DEF AllFit, ListFits
<1>4. PlaceFits'
  BY <1>1 DEF AllFit, PlaceFits
<1>5. ASSUME NEW c \in calls PROVE CallFits(c)'
  BY <1>1, <1>2, CallStays DEF AllFit
<1> QED
  BY <1>1, <1>2, <1>3, <1>4, <1>5 DEF AllFit

\* The answer to a call
LEMMA ServedFits ==
    ASSUME AllFit, NEW c \in calls, Serve(c)
    PROVE  \E a \in 0..Len(log') :
              /\ a = Len(log')
              /\ calls' = (calls \ {c}) \cup {[c EXCEPT !.asof = a]}
              /\ [c EXCEPT !.asof = a].asof = a
              /\ [c EXCEPT !.asof = a].kind = c.kind
              /\ [c EXCEPT !.asof = a].visit = c.visit
              /\ [c EXCEPT !.asof = a].room = c.room
              /\ [c EXCEPT !.asof = a].before = c.before
              /\ c.kind = "post" => log' = Append(log, c.room) /\ c.room \in Rooms
              /\ c.kind # "post" => UNCHANGED <<log, subs, line, ready, gone>>
              /\ CallFits([c EXCEPT !.asof = a])'
<1> DEFINE a == Len(log')
<1>1. CallFits(c)
  BY DEF AllFit
<1>2. /\ c.kind = "post" => Store(c.room) /\ log' = Append(log, c.room)
      /\ c.kind # "post" => UNCHANGED <<log, subs, line, ready, gone>>
      /\ c.room \in Rooms
  BY <1>1, StoreFits DEF Serve, CallFits, Calls, AllFit, serverVars
<1>3. /\ Len(log) \in Nat /\ a \in Nat /\ a >= Len(log)
      /\ c.kind = "post" => a > 0 /\ log'[a] = c.room
  BY <1>2, LogFits, Grows, AppendProperties DEF AllFit, TableFits
<1>4. UNCHANGED <<roomId, visit>>
  BY DEF Serve
<1>5. ASSUME NEW d, d = [c EXCEPT !.asof = a]
      PROVE  /\ d.asof = a /\ d.kind = c.kind /\ d.visit = c.visit /\ d.room = c.room
             /\ d.before = c.before /\ CallFits(d)'
  <2>1. c \in Calls /\ (c.visit = visit => c.room = roomId)
    BY <1>1 DEF CallFits
  <2>2. /\ d.asof = a /\ d.kind = c.kind /\ d.visit = c.visit /\ d.room = c.room
        /\ d.before = c.before
    BY <1>5, <2>1 DEF Calls
  <2>3. d \in [kind : {"page", "older", "post"}, visit : 1..visit, room : Rooms,
               before : 0..Len(log'), asof : {NULL} \cup 0..Len(log')]
    BY <1>3, <1>5, <2>1 DEF Calls
  <2>4. d \in Calls'
    BY <1>4, <2>3 DEF Calls
  <2> HIDE DEF a
  <2> QED
    BY <1>3, <1>4, <2>1, <2>2, <2>4 DEF CallFits
<1> QED
  BY <1>2, <1>3, <1>5 DEF Serve

LEMMA ServeFits == ASSUME AllFit, NEW c \in calls, Serve(c) PROVE AllFit'
<1>1. PICK a \in 0..Len(log') :
         /\ calls' = (calls \ {c}) \cup {[c EXCEPT !.asof = a]}
         /\ CallFits([c EXCEPT !.asof = a])'
         /\ c.kind = "post" => log' = Append(log, c.room) /\ c.room \in Rooms
         /\ c.kind # "post" => UNCHANGED <<log, subs, line, ready, gone>>
  BY ServedFits
<1>2. UNCHANGED <<roomId, visit, messages, seenMessageIds, hasMore, loadingHistory, base, early, disturbed>>
  BY DEF Serve, listVars
<1>3. TableFits'
  <2>1. c.kind = "post" => Store(c.room)
    BY DEF Serve
  <2> QED
    BY <1>1, <2>1, StoreFits DEF AllFit, TableFits, Ids
<1>4. \E r \in Rooms : log' = log \/ log' = Append(log, r)
  BY <1>1 DEF AllFit, CallFits, Calls
<1>5. PICK r \in Rooms : log' = log \/ log' = Append(log, r)
  BY <1>4
<1>6. Len(log') \in Nat /\ Len(log') >= Len(log)
  BY <1>5, Grows DEF AllFit
<1>7. ListFits'
  BY <1>2, <1>6, ListStays DEF AllFit, ListFits
<1>8. PlaceFits'
  BY <1>1, <1>2 DEF AllFit, PlaceFits
<1>9. ASSUME NEW d \in calls PROVE CallFits(d)'
  BY <1>2, <1>5, CallStays DEF AllFit
<1> QED
  BY <1>1, <1>3, <1>7, <1>8, <1>9 DEF AllFit

LEMMA LandPageFits == ASSUME AllFit, NEW c \in calls, LandPage(c) PROVE AllFit'
<1>1. /\ c.asof \in 0..Len(log)
  BY DEF LandPage, AllFit, CallFits, Calls
<1>2. /\ UNCHANGED <<log, subs, line, ready, gone, roomId, visit, early>>
      /\ seenMessageIds' = seenMessageIds \cup Newest(Before(c)) /\ messages' = Landed(c)
      /\ base' \in {c.asof, base} /\ calls' = calls \ {c}
  BY DEF LandPage, serverVars
<1>3. loadingHistory' \in BOOLEAN /\ hasMore' \in BOOLEAN /\ disturbed' \in BOOLEAN
  <2>1. hasMore' = More(c) /\ More(c) \in BOOLEAN
    BY DEF LandPage, More
  <2>2. loadingHistory' \in BOOLEAN /\ disturbed' \in BOOLEAN
    BY DEF LandPage, AllFit, ListFits
  <2> QED
    BY <2>1, <2>2, Zenon
<1>4. TableFits' /\ Ids' = Ids
  BY <1>2 DEF AllFit, TableFits, Ids
<1>5. ListFits'
  <2>1. messages' \in Seq(Ids) /\ Shown' \subseteq Newest(Before(c)) \cup Shown
    BY <1>1, <1>2, LandedIs DEF AllFit, Shown
  <2>2. Newest(Before(c)) \subseteq Ids
    BY <1>1, PageIs DEF AllFit
  <2> QED
    BY <1>1, <1>2, <1>3, <1>4, <2>1, <2>2 DEF AllFit, ListFits
<1>6. PlaceFits'
  BY <1>2 DEF AllFit, PlaceFits
<1> QED
  BY <1>2, <1>4, <1>5, <1>6 DEF AllFit, CallFits, Calls

LEMMA LandPostFits == ASSUME AllFit, NEW c \in calls, LandPost(c) PROVE AllFit'
<1>1. c.asof \in Ids
  BY DEF LandPost, AllFit, CallFits, Calls, Ids
<1>2. /\ UNCHANGED <<log, subs, line, ready, gone, roomId, visit, hasMore, loadingHistory, base>>
      /\ calls' = calls \ {c}
  BY DEF LandPost, serverVars
<1>3. TableFits' /\ Ids' = Ids
  BY <1>2 DEF AllFit, TableFits, Ids
<1>4. ListFits'
  <2>1. CASE c.visit = visit
    BY <1>1, <1>2, <2>1, PushFits DEF LandPost
  <2>2. CASE c.visit # visit
    <3>1. /\ messages' = IF c.asof \in seenMessageIds THEN messages ELSE Placed(c.asof)
          /\ seenMessageIds' = seenMessageIds \cup {c.asof}
          /\ early' = early /\ disturbed' \in BOOLEAN
      BY <2>2 DEF LandPost
    <3>2. messages \in Seq(Ids) /\ Ids \subseteq Nat
      BY LogFits DEF AllFit, ListFits
    <3>3. messages' \in Seq(Ids) /\ Shown' \subseteq Shown \cup {c.asof}
      BY <1>1, <3>1, <3>2, PlacedIs DEF Shown
    <3> QED
      BY <1>1, <1>2, <1>3, <3>1, <3>3 DEF AllFit, ListFits
  <2> QED
    BY <2>1, <2>2
<1>5. PlaceFits'
  BY <1>2 DEF AllFit, PlaceFits
<1> QED
  BY <1>2, <1>3, <1>4, <1>5 DEF AllFit, CallFits, Calls

LEMMA FailFits == ASSUME AllFit, NEW c \in calls, Fail(c) PROVE AllFit'
<1>1. /\ UNCHANGED <<log, subs, line, ready, gone, roomId, visit, messages, seenMessageIds, hasMore, base, early>>
      /\ calls' = calls \ {c}
  BY DEF Fail, serverVars
<1>2. loadingHistory' \in BOOLEAN /\ disturbed' \in BOOLEAN
  BY DEF Fail, Freed, AllFit, ListFits
<1>3. TableFits'
  BY <1>1 DEF AllFit, TableFits, Ids
<1>4. ListFits'
  BY <1>1, <1>2, ListStays, LogFits DEF AllFit
<1>5. PlaceFits'
  BY <1>1 DEF AllFit, PlaceFits
<1> QED
  BY <1>1, <1>3, <1>4, <1>5 DEF AllFit, CallFits, Calls

LEMMA ReceiveFits == ASSUME AllFit, Receive PROVE AllFit'
<1>1. /\ UNCHANGED <<log, subs, ready, roomId, visit, hasMore, loadingHistory, calls, base, gone>>
      /\ line # <<>> /\ line' = Tail(line)
  BY DEF Receive
<1>2. Head(line) \in Ids /\ line' \in Seq(Ids) /\ Ids' = Ids
  BY <1>1, HeadTailProperties DEF AllFit, TableFits, Ids
<1>3. TableFits'
  BY <1>1, <1>2 DEF AllFit, TableFits
<1>4. ListFits'
  <2>1. CASE log[Head(line)] = roomId
    BY <1>1, <1>2, <2>1, PushFits DEF Receive
  <2>2. CASE log[Head(line)] # roomId
    BY <1>1, <2>2 DEF Receive, AllFit, ListFits, Ids, Shown
  <2> QED
    BY <2>1, <2>2
<1>5. PlaceFits'
  <2>1. roomId = NULL => log[Head(line)] # roomId
    BY <1>2, LogFits, Constants DEF AllFit
  <2>2. roomId = NULL => messages' = messages
    BY <2>1 DEF Receive
  <2> QED
    BY <1>1, <2>2 DEF AllFit, PlaceFits
<1> QED
  BY <1>1, <1>3, <1>4, <1>5 DEF AllFit, CallFits, Calls

LEMMA SocketFits ==
    ASSUME AllFit, Subscribe \/ Disconnect \/ Reconnect \/ UNCHANGED viewVars
    PROVE  AllFit'
<1>1. UNCHANGED <<log, roomId, visit, messages, seenMessageIds, hasMore, loadingHistory, calls, base, early, disturbed>>
  BY DEF Subscribe, Disconnect, Reconnect, viewVars, serverVars, listVars, recordVars
<1>2. subs' \in Rooms \cup {NULL} /\ ready' \in BOOLEAN
  BY DEF Subscribe, Disconnect, Reconnect, viewVars, serverVars, AllFit, TableFits, PlaceFits
<1>3. line' \in Seq(Ids) /\ gone' \subseteq Ids
  <2>1. ToSet(line) \subseteq Ids
    BY ElementOfSeq, LenProperties DEF AllFit, TableFits, ToSet
  <2>2. CASE Disconnect
    BY <2>1, <2>2 DEF Disconnect, AllFit, TableFits
  <2>3. CASE Subscribe \/ Reconnect \/ UNCHANGED viewVars
    <3>1. UNCHANGED <<line, gone>>
      BY <2>3 DEF Subscribe, Reconnect, viewVars, serverVars, recordVars
    <3> QED
      BY <3>1 DEF AllFit, TableFits
  <2> QED
    BY <2>2, <2>3
<1>4. TableFits'
  BY <1>1, <1>2, <1>3 DEF AllFit, TableFits, Ids
<1>5. ListFits'
  BY <1>1 DEF AllFit, ListFits, Ids, Shown
<1>6. PlaceFits'
  BY <1>1 DEF AllFit, PlaceFits
<1> QED
  BY <1>1, <1>4, <1>5, <1>6 DEF AllFit, CallFits, Calls

LEMMA ViewFits == ASSUME AllFit, [ViewNext]_viewVars PROVE AllFit'
BY NewVisitFits, UnmountFits, LoadMoreFits, SendOverRestFits, PostFits, ServeFits, LandPageFits,
   LandPostFits, FailFits, ReceiveFits, SocketFits DEF ViewNext

LEMMA ViewStartsFit == ViewInit => AllFit
<1> SUFFICES ASSUME ViewInit PROVE AllFit
  OBVIOUS
<1>1. log \in Seq(Rooms) /\ Len(log) \in Nat
  <2>1. log \in [1..Old -> Rooms]
    BY DEF ViewInit
  <2>2. log \in Seq(Rooms)
    BY <2>1, Constants, SeqDef
  <2> QED
    BY <2>2, LenProperties
<1>2. Shown = {}
  BY DEF ViewInit, Shown, ToSet
<1>3. /\ subs = NULL /\ line = <<>> /\ roomId = NULL /\ visit = 0 /\ messages = <<>>
      /\ seenMessageIds = {} /\ calls = {} /\ base = 0 /\ early = {} /\ gone = {}
  BY DEF ViewInit
<1>4. /\ ready \in BOOLEAN /\ hasMore \in BOOLEAN /\ loadingHistory \in BOOLEAN
      /\ disturbed \in BOOLEAN
  BY DEF ViewInit
<1>5. TableFits /\ ListFits
  BY <1>1, <1>2, <1>3, <1>4 DEF TableFits, ListFits
<1>6. PlaceFits
  BY <1>3, Constants DEF PlaceFits
<1> QED
  BY <1>3, <1>5, <1>6 DEF AllFit

-------------------------------------------------------------------------------
LEMMA LoadingSteps ==
    ASSUME AllFit, LoadingIsAwaited, [ViewNext]_viewVars
    PROVE  LoadingIsAwaited'
<1>1. ASSUME NEW c \in calls, c.kind \in {"page", "older"}, c \in calls' PROVE LoadingIsAwaited'
  BY <1>1 DEF LoadingIsAwaited
<1>2. ASSUME NEW r \in Rooms, Mount(r) \/ Switch(r) PROVE LoadingIsAwaited'
  <2>1. PICK v \in {1, visit + 1} : Call("page", v, r, 0) \in calls'
    BY <1>2 DEF Mount, Switch
  <2>2. Call("page", v, r, 0).kind = "page"
    BY DEF Call
  <2> QED
    BY <2>1, <2>2 DEF LoadingIsAwaited
<1>3. CASE LoadMore
  <2>1. Call("older", visit, roomId, Head(messages)) \in calls'
    BY <1>3 DEF LoadMore
  <2>2. Call("older", visit, roomId, Head(messages)).kind = "older"
    BY DEF Call
  <2> QED
    BY <2>1, <2>2 DEF LoadingIsAwaited
<1>4. CASE Unmount
  BY <1>4 DEF Unmount, LoadingIsAwaited
<1>5. CASE SendOverRest
  BY <1>5 DEF SendOverRest, LoadingIsAwaited, listVars
<1>6. ASSUME NEW c \in calls, Serve(c) PROVE LoadingIsAwaited'
  <2>1. PICK a : /\ calls' = (calls \ {c}) \cup {[c EXCEPT !.asof = a]}
                 /\ [c EXCEPT !.asof = a].kind = c.kind
    BY <1>6, ServedFits
  <2>2. loadingHistory' = loadingHistory
    BY <1>6 DEF Serve, listVars
  <2>3. ASSUME NEW d \in calls, d.kind \in {"page", "older"}
        PROVE  \E e \in calls' : e.kind \in {"page", "older"}
    <3>1. CASE d = c
      BY <2>1, <2>3, <3>1
    <3>2. CASE d # c
      BY <2>1, <2>3, <3>2
    <3> QED
      BY <3>1, <3>2
  <2> QED
    BY <2>2, <2>3 DEF LoadingIsAwaited
<1>7. ASSUME NEW c \in calls, LandPage(c) PROVE LoadingIsAwaited'
  BY <1>7 DEF LandPage, LoadingIsAwaited
<1>8. ASSUME NEW c \in calls, LandPost(c) \/ Fail(c) PROVE LoadingIsAwaited'
  <2>1. calls' = calls \ {c} /\ c.kind \in {"page", "older", "post"}
    BY <1>8 DEF LandPost, Fail, AllFit, CallFits, Calls
  <2>2. c.kind # "post" => ~loadingHistory'
    BY <1>8 DEF LandPost, Fail, Freed
  <2>3. c.kind = "post" => loadingHistory' = loadingHistory
    BY <1>8 DEF LandPost, Fail, Freed
  <2> QED
    BY <2>1, <2>2, <2>3 DEF LoadingIsAwaited
<1>9. ASSUME UNCHANGED <<loadingHistory, calls>> PROVE LoadingIsAwaited'
  BY <1>9 DEF LoadingIsAwaited
<1>10. ASSUME NEW r \in Rooms, Post(r) PROVE LoadingIsAwaited'
  BY <1>9, <1>10 DEF Post, listVars
<1>11. CASE Receive \/ Subscribe \/ Disconnect \/ Reconnect \/ UNCHANGED viewVars
  BY <1>9, <1>11 DEF Receive, Subscribe, Disconnect, Reconnect, viewVars, listVars
<1> QED
  BY <1>2, <1>3, <1>4, <1>5, <1>6, <1>7, <1>8, <1>10, <1>11 DEF ViewNext

-------------------------------------------------------------------------------
LEMMA InRoomNext ==
    ASSUME TableFits'
    PROVE  /\ DOMAIN log' = Ids' /\ Len(log') \in Nat /\ Ids' \subseteq Nat
           /\ InRoom' = {i \in Ids' : log'[i] = roomId'}
BY LenProperties DEF TableFits, Ids, InRoom

\* The list when only the server's side changes
Held == Shown \subseteq InRoom /\ Increasing(messages) /\ Accounted

LEMMA HeldStays ==
    ASSUME AllFit, TableFits', Held, UNCHANGED <<messages, seenMessageIds, early, base, roomId>>,
           Ids \subseteq Ids', \A i \in Ids : log'[i] = log[i],
           roomId # NULL => (Ids' \ Ids) \cup ToSet(line) \cup gone \subseteq ToSet(line') \cup gone'
    PROVE  Held'
<1>1. /\ Len(log) \in Nat /\ Ids \subseteq Nat /\ Ids' \subseteq Nat
      /\ InRoom = {i \in Ids : log[i] = roomId} /\ InRoom' = {i \in Ids' : log'[i] = roomId}
      /\ base \in 0..Len(log)
  BY LogFits, InRoomNext DEF AllFit, ListFits
<1>2. Shown' = Shown /\ Increasing(messages)' /\ InRoom \subseteq InRoom' /\ InRoom' \subseteq InRoom \cup (Ids' \ Ids)
  BY <1>1 DEF Shown, Held, Increasing
<1>3. roomId = NULL => InRoom' = {}
  BY <1>1, Constants, ElementOfSeq DEF TableFits, Ids
<1>4. InRoom' \subseteq Shown \cup ToSet(line') \cup early \cup gone'
  BY <1>2, <1>3 DEF Held, Accounted
<1>5. ASSUME NEW m \in InRoom', m <= base PROVE m \in InRoom
  BY <1>1, <1>5 DEF Ids
<1> QED
  BY <1>2, <1>4, <1>5 DEF Held, Accounted

LEMMA AwaitedStays ==
    ASSUME Awaited, MyPages' \subseteq MyPages,
           UNCHANGED <<messages, early, base, loadingHistory>>
    PROVE  Awaited'
<1>1. Shown' = Shown
  BY DEF Shown
<1> QED
  BY <1>1 DEF Awaited

LEMMA NobodyAwaits == ASSUME MyPages' = {} PROVE Awaited'
BY DEF Awaited

LEMMA NewVisitQuiet ==
    ASSUME AllFit, AllFit', NEW r \in Rooms, Mount(r) \/ Switch(r)
    PROVE  Quiet'
<1> DEFINE v == IF roomId = NULL THEN 1 ELSE visit + 1
<1>1. /\ visit' = v /\ messages' = <<>> /\ seenMessageIds' = {} /\ base' = 0
      /\ early' = {} /\ gone' = DOMAIN log /\ loadingHistory' = TRUE
      /\ UNCHANGED log
      /\ calls' \subseteq calls \cup {Call("page", v, r, 0)}
      /\ roomId = NULL => calls' = {Call("page", v, r, 0)}
  BY DEF Mount, Switch, Cleared, serverVars
<1>2. \A c \in calls : c.visit # v
  <2>1. \A c \in calls : c.visit \in 1..visit /\ visit \in Nat
    BY DEF AllFit, PlaceFits, CallFits, Calls
  <2>2. calls # {} => v = visit + 1
    BY Constants DEF AllFit, PlaceFits
  <2> HIDE DEF v
  <2> QED
    BY <2>1, <2>2
<1>3. Shown' = {} /\ Increasing(messages)'
  BY <1>1 DEF Shown, ToSet, Increasing
<1>4. Accounted'
  <2>1. InRoom' = {i \in Ids' : log'[i] = roomId'} /\ Ids' \subseteq 1..Len(log') /\ DOMAIN log' = Ids'
    BY InRoomNext DEF AllFit, Ids
  <2>2. \A m \in InRoom' : ~(m <= base')
    BY <1>1, <2>1 DEF Ids
  <2> QED
    BY <1>1, <2>1, <2>2 DEF Accounted
<1> HIDE DEF v
<1>5. ASSUME NEW c \in MyPages' PROVE c = Call("page", v, r, 0)
  BY <1>1, <1>2 DEF MyPages
<1>6. Call("page", v, r, 0).kind = "page" /\ Call("page", v, r, 0).before = 0
  BY DEF Call
<1>7. Awaited'
  BY <1>1, <1>3, <1>5, <1>6 DEF Awaited
<1> QED
  BY <1>3, <1>4, <1>7 DEF Quiet

LEMMA ServerQuiet ==
    ASSUME AllFit, AllFit', Quiet, ~disturbed,
           \/ SendOverRest \/ Subscribe \/ Disconnect \/ Reconnect \/ UNCHANGED viewVars
           \/ \E r \in Rooms : Post(r)
    PROVE  Quiet'
<1>1. /\ UNCHANGED <<messages, seenMessageIds, early, base, roomId, visit, loadingHistory>>
  BY DEF SendOverRest, Subscribe, Disconnect, Reconnect, Post, viewVars, serverVars, listVars, recordVars
<1>2. MyPages' \subseteq MyPages
  <2>1. CASE SendOverRest
    <3>1. Call("post", visit, roomId, 0).kind = "post"
      BY DEF Call
    <3> QED
      BY <1>1, <2>1, <3>1 DEF SendOverRest, MyPages
  <2>2. CASE UNCHANGED calls
    BY <1>1, <2>2 DEF MyPages
  <2> QED
    BY <2>1, <2>2 DEF Subscribe, Disconnect, Reconnect, Post, viewVars
<1>3. Awaited'
  BY <1>1, <1>2, AwaitedStays DEF Quiet
<1>4. /\ Ids \subseteq Ids' /\ \A i \in Ids : log'[i] = log[i]
      /\ roomId # NULL => (Ids' \ Ids) \cup ToSet(line) \cup gone \subseteq ToSet(line') \cup gone'
  <2>1. ASSUME NEW r \in Rooms, Post(r)
        PROVE  /\ Ids \subseteq Ids' /\ \A i \in Ids : log'[i] = log[i]
               /\ (Ids' \ Ids) \cup ToSet(line) \cup gone \subseteq ToSet(line') \cup gone'
    <3>1. Store(r) /\ TableFits
      BY <2>1 DEF Post, AllFit
    <3>2. /\ log' = Append(log, r) /\ Ids' = Ids \cup {Len(log) + 1}
          /\ ToSet(line) \subseteq ToSet(line') /\ gone \subseteq gone'
          /\ Len(log) + 1 \in ToSet(line') \cup gone'
      BY <3>1, StoreFits
    <3>3. Ids \subseteq Ids' /\ \A i \in Ids : log'[i] = log[i]
      BY <3>1, <3>2, Grows
    <3> QED
      BY <3>2, <3>3
  <2>2. CASE SendOverRest \/ Subscribe \/ Disconnect \/ Reconnect \/ UNCHANGED viewVars
    <3>1. log' = log
      BY <2>2 DEF SendOverRest, Subscribe, Disconnect, Reconnect, viewVars, serverVars
    <3>2. roomId # NULL => ToSet(line) \cup gone \subseteq ToSet(line') \cup gone'
      BY <2>2 DEF SendOverRest, Subscribe, Disconnect, Reconnect, viewVars, serverVars, recordVars
    <3> QED
      BY <3>1, <3>2 DEF Ids
  <2> QED
    BY <2>1, <2>2
<1>5. Held'
  BY <1>1, <1>4, HeldStays DEF Quiet, Held, AllFit
<1> QED
  BY <1>3, <1>5 DEF Quiet, Held

LEMMA ServeQuiet ==
    ASSUME AllFit, AllFit', Quiet, NEW c \in calls, Serve(c)
    PROVE  Quiet'
<1>1. UNCHANGED <<messages, seenMessageIds, early, base, roomId, visit, loadingHistory>>
  BY DEF Serve, listVars
<1>2. PICK d : /\ calls' = (calls \ {c}) \cup {d}
               /\ d.asof = Len(log') /\ d.kind = c.kind /\ d.visit = c.visit /\ d.before = c.before
  <2>1. PICK a : /\ a = Len(log')
                 /\ calls' = (calls \ {c}) \cup {[c EXCEPT !.asof = a]}
                 /\ [c EXCEPT !.asof = a].asof = a
                 /\ [c EXCEPT !.asof = a].kind = c.kind
                 /\ [c EXCEPT !.asof = a].visit = c.visit
                 /\ [c EXCEPT !.asof = a].before = c.before
    BY ServedFits
  <2> DEFINE d == [c EXCEPT !.asof = a]
  <2>2. /\ calls' = (calls \ {c}) \cup {d} /\ d.asof = Len(log')
        /\ d.kind = c.kind /\ d.visit = c.visit /\ d.before = c.before
    BY <2>1
  <2> HIDE DEF d
  <2> QED
    BY <2>2
<1>3. /\ c.kind # "post" => UNCHANGED <<log, line, gone>>
      /\ c.kind = "post" => Store(c.room) /\ c.room \in Rooms
  BY DEF Serve, serverVars, AllFit, CallFits, Calls
<1>4. /\ Ids \subseteq Ids' /\ \A i \in Ids : log'[i] = log[i]
      /\ (Ids' \ Ids) \cup ToSet(line) \cup gone \subseteq ToSet(line') \cup gone'
  <2>1. CASE c.kind # "post"
    BY <1>3, <2>1 DEF Ids
  <2>2. CASE c.kind = "post"
    <3>1. /\ log' = Append(log, c.room) /\ Ids' = Ids \cup {Len(log) + 1}
          /\ ToSet(line) \subseteq ToSet(line') /\ gone \subseteq gone'
          /\ Len(log) + 1 \in ToSet(line') \cup gone'
      BY <1>3, <2>2, StoreFits DEF AllFit
    <3>2. Ids \subseteq Ids' /\ \A i \in Ids : log'[i] = log[i]
      BY <1>3, <2>2, <3>1, Grows DEF AllFit
    <3> QED
      BY <3>1, <3>2
  <2> QED
    BY <2>1, <2>2
<1>5. Held'
  BY <1>1, <1>4, HeldStays DEF Quiet, Held, AllFit
<1>6. CASE c \in MyPages
  <2>1. /\ loadingHistory /\ \A e \in MyPages : e = c
        /\ c.kind = "page" => c.before = 0 /\ base = 0 /\ Shown \subseteq early
        /\ c.kind = "older" => messages # <<>> /\ c.before = Head(messages)
    BY <1>6 DEF Quiet, Awaited
  <2>2. \A e \in MyPages' : e = d
    BY <1>1, <1>2, <2>1 DEF MyPages
  <2>3. c.kind = "older" => c.before <= d.asof
    <3>1. log' = log
      BY <1>3, <1>6 DEF MyPages
    <3> QED
      BY <1>2, <2>1, <3>1, HeadFits, LogFits DEF Ids, AllFit
  <2>4. Shown' = Shown /\ UNCHANGED <<messages, base, early, loadingHistory>>
    BY <1>1 DEF Shown
  <2>5. Awaited'
    BY <1>2, <2>1, <2>2, <2>3, <2>4 DEF Awaited
  <2> QED
    BY <1>5, <2>5 DEF Quiet, Held
<1>7. CASE c \notin MyPages
  <2>1. MyPages' \subseteq MyPages
    BY <1>1, <1>2, <1>7 DEF MyPages
  <2>2. Awaited'
    BY <1>1, <2>1, AwaitedStays DEF Quiet
  <2> QED
    BY <1>5, <2>2 DEF Quiet, Held
<1> QED
  BY <1>6, <1>7

LEMMA LoadMoreQuiet == ASSUME AllFit, AllFit', Quiet, LoadMore PROVE Quiet'
<1>1. /\ UNCHANGED <<log, line, gone>>
      /\ UNCHANGED <<messages, seenMessageIds, early, base, roomId, visit>>
      /\ ~loadingHistory /\ messages # <<>> /\ loadingHistory' = TRUE
      /\ calls' = calls \cup {Call("older", visit, roomId, Head(messages))}
  BY DEF LoadMore, serverVars, recordVars
<1> DEFINE d == Call("older", visit, roomId, Head(messages))
<1>2. d.kind = "older" /\ d.before = Head(messages) /\ d.asof = NULL
  BY DEF Call
<1>3. MyPages = {}
  BY <1>1 DEF Quiet, Awaited
<1>4. ASSUME NEW e \in MyPages' PROVE e = d
  BY <1>1, <1>3 DEF MyPages
<1> HIDE DEF d
<1>5. Awaited'
  <2>1. messages' = messages /\ loadingHistory' /\ messages # <<>>
    BY <1>1
  <2> QED
    BY <1>2, <1>4, <2>1 DEF Awaited
<1>6. Held'
  BY <1>1, HeldStays DEF Quiet, Held, AllFit, Ids
<1> QED
  BY <1>5, <1>6 DEF Quiet, Held

LEMMA FailQuiet ==
    ASSUME AllFit, AllFit', Quiet, ~disturbed', NEW c \in calls, Fail(c)
    PROVE  Quiet'
<1>1. /\ UNCHANGED <<log, line, gone>>
      /\ UNCHANGED <<messages, seenMessageIds, early, base, roomId, visit>>
      /\ calls' = calls \ {c}
      /\ c.kind = "post" => loadingHistory' = loadingHistory
      /\ c.kind # "post" => c.visit = visit
  BY DEF Fail, Freed, serverVars
<1>2. Held'
  BY <1>1, HeldStays DEF Quiet, Held, AllFit, Ids
<1>3. Awaited'
  <2>1. CASE c.kind = "post"
    <3>1. MyPages' \subseteq MyPages
      BY <1>1 DEF MyPages
    <3> QED
      BY <1>1, <2>1, <3>1, AwaitedStays DEF Quiet
  <2>2. CASE c.kind # "post"
    <3>1. c \in MyPages
      BY <1>1, <2>2 DEF MyPages
    <3>2. MyPages' = {}
      BY <1>1, <3>1 DEF MyPages, Quiet, Awaited
    <3> QED
      BY <3>2, NobodyAwaits
  <2> QED
    BY <2>1, <2>2
<1> QED
  BY <1>2, <1>3 DEF Quiet, Held

\* A message of the room is pushed, below all that is shown only if that is noted.
LEMMA PushQuiet ==
    ASSUME AllFit, AllFit', Quiet, ~disturbed', NEW m \in InRoom, PushMessage(m),
           UNCHANGED <<log, roomId, visit, base, hasMore, loadingHistory, gone>>,
           calls' \subseteq calls, ToSet(line) \subseteq ToSet(line') \cup {m}
    PROVE  Quiet'
<1>1. /\ InRoom = {i \in Ids : log[i] = roomId} /\ Ids \subseteq Nat /\ m \in Ids
      /\ messages \in Seq(Ids) /\ base \in 0..Len(log) /\ Len(log) \in Nat
  BY LogFits DEF AllFit, ListFits
<1>2. InRoom' = InRoom
  BY DEF InRoom
<1>3. CASE m \in seenMessageIds
  <2>1. UNCHANGED <<messages, seenMessageIds, early>>
    BY <1>3 DEF PushMessage
  <2>2. m \in Shown \cup early
    BY <1>3 DEF Quiet, Accounted
  <2>3. MyPages' \subseteq MyPages
    BY DEF MyPages
  <2>4. Awaited'
    BY <2>1, <2>3, AwaitedStays DEF Quiet
  <2>5. Shown' = Shown /\ Increasing(messages)'
    BY <2>1 DEF Shown, Quiet, Increasing
  <2>6. Accounted'
    BY <1>2, <2>1, <2>2, <2>5 DEF Quiet, Accounted
  <2> QED
    BY <1>2, <2>4, <2>5, <2>6 DEF Quiet
<1>4. CASE m \notin seenMessageIds
  <2>1. /\ messages' = Placed(m) /\ seenMessageIds' = seenMessageIds \cup {m}
        /\ early' = IF Loading THEN early \cup {m} ELSE early
        /\ ~(messages # <<>> /\ m < Head(messages))
    BY <1>4 DEF PushMessage
  <2>2. m \notin Shown
    BY <1>4 DEF AllFit, ListFits
  <2>3. messages # <<>> => Head(messages) < m
    <3>1. ASSUME messages # <<>> PROVE Head(messages) < m
      <4>1. Head(messages) \in Nat /\ Head(messages) # m /\ m \in Nat
        BY <1>1, <2>2, <3>1, HeadFits
      <4> QED
        BY <2>1, <3>1, <4>1
    <3> QED
      BY <3>1
  <2>4. /\ Shown' = Shown \cup {m} /\ messages' # <<>>
        /\ messages = <<>> => Head(messages') = m
        /\ messages # <<>> => Head(messages') = Head(messages)
        /\ Increasing(messages) => Increasing(Placed(m))
    BY <1>1, <2>1, <2>2, <2>3, PlacedIs DEF Shown
  <2>5. Increasing(messages)'
    BY <2>1, <2>4 DEF Quiet, Increasing
  <2>6. Shown' \subseteq InRoom'
    BY <1>2, <2>4 DEF Quiet
  <2>7. Accounted'
    <3>1. seenMessageIds' \subseteq Shown' \cup early'
      BY <2>1, <2>4 DEF Quiet, Accounted
    <3>2. InRoom' \subseteq Shown' \cup ToSet(line') \cup early' \cup gone'
      BY <1>2, <2>1, <2>4 DEF Quiet, Accounted
    <3>3. ASSUME NEW i \in InRoom, i <= base
          PROVE  i >= Head(messages') => i \in Shown'
      BY <2>4, <3>3 DEF Quiet, Accounted
    <3> QED
      BY <1>2, <2>4, <3>1, <3>2, <3>3 DEF Accounted
  <2>8. Awaited'
    <3>1. ASSUME NEW c \in MyPages'
          PROVE  /\ loadingHistory' /\ \A d \in MyPages' : d = c
                 /\ c.kind = "page" => c.before = 0 /\ base' = 0 /\ Shown' \subseteq early'
                 /\ c.kind = "older" => /\ messages' # <<>> /\ c.before = Head(messages')
                                        /\ c.asof # NULL => c.before <= c.asof
      <4>1. c \in MyPages /\ MyPages' \subseteq MyPages /\ c \in calls /\ c.visit = visit
        BY <3>1 DEF MyPages
      <4>2. /\ loadingHistory /\ \A d \in MyPages : d = c
            /\ c.kind = "page" => c.before = 0 /\ base = 0 /\ Shown \subseteq early
            /\ c.kind = "older" => /\ messages # <<>> /\ c.before = Head(messages)
                                   /\ c.asof # NULL => c.before <= c.asof
        BY <4>1 DEF Quiet, Awaited
      <4>3. c.kind = "page" => Shown' \subseteq early'
        <5>1. c.kind = "page" => Loading
          BY <4>1 DEF Loading
        <5> QED
          BY <2>1, <2>4, <4>2, <5>1
      <4> QED
        BY <2>4, <4>1, <4>2, <4>3
    <3> QED
      BY <3>1 DEF Awaited
  <2> QED
    BY <2>5, <2>6, <2>7, <2>8 DEF Quiet
<1> QED
  BY <1>3, <1>4

LEMMA ReceiveQuiet ==
    ASSUME AllFit, AllFit', Quiet, ~disturbed, ~disturbed', Receive
    PROVE  Quiet'
<1>1. /\ UNCHANGED <<log, roomId, visit, hasMore, loadingHistory, calls, base, gone>>
      /\ line # <<>> /\ line' = Tail(line)
  BY DEF Receive
<1>2. Head(line) \in Ids /\ ToSet(line) \subseteq ToSet(line') \cup {Head(line)}
  <2>1. /\ line \in Seq(Ids) /\ Len(line) \in Nat /\ DOMAIN line = 1..Len(line)
        /\ Head(line) \in Ids /\ Head(line) = line[1]
        /\ DOMAIN line' = 1..Len(line) - 1 /\ \A i \in 1..Len(line) - 1 : line'[i] = line[i + 1]
    BY <1>1, HeadTailProperties, LenProperties, EmptySeq DEF AllFit, TableFits
  <2>2. ASSUME NEW i \in DOMAIN line, i # 1 PROVE line[i] \in ToSet(line')
    <3>1. i - 1 \in DOMAIN line' /\ line'[i - 1] = line[i]
      BY <2>1, <2>2
    <3> QED
      BY <3>1 DEF ToSet
  <2> QED
    BY <2>1, <2>2 DEF ToSet
<1>3. CASE log[Head(line)] = roomId
  <2>1. Head(line) \in InRoom /\ PushMessage(Head(line))
    BY <1>2, <1>3, LogFits DEF Receive, AllFit
  <2> QED
    BY <1>1, <1>2, <2>1, PushQuiet
<1>4. CASE log[Head(line)] # roomId
  <2>1. UNCHANGED <<messages, seenMessageIds, early, base>>
    BY <1>1, <1>4 DEF Receive
  <2>2. Awaited'
    BY <1>1, <2>1, AwaitedStays DEF Quiet, MyPages
  <2>3. InRoom' = InRoom /\ Shown' = Shown /\ Increasing(messages)'
    BY <1>1, <2>1 DEF InRoom, Shown, Quiet, Increasing
  <2>4. Head(line) \notin InRoom
    BY <1>4 DEF InRoom
  <2>5. Accounted'
    BY <1>1, <1>2, <2>1, <2>3, <2>4 DEF Quiet, Accounted
  <2> QED
    BY <2>2, <2>3, <2>5 DEF Quiet
<1> QED
  BY <1>3, <1>4

LEMMA LandPostQuiet ==
    ASSUME AllFit, AllFit', Quiet, ~disturbed', NEW c \in calls, LandPost(c)
    PROVE  Quiet'
<1>1. /\ UNCHANGED <<log, line, gone, roomId, visit, hasMore, loadingHistory, base>>
      /\ calls' \subseteq calls /\ c.visit = visit /\ PushMessage(c.asof)
  BY DEF LandPost, serverVars
<1>2. c.asof \in InRoom
  <2>1. c.asof \in Ids /\ log[c.asof] = c.room /\ c.room = roomId
    BY <1>1 DEF LandPost, AllFit, CallFits, Calls, Ids
  <2> QED
    BY <2>1, LogFits DEF AllFit
<1> QED
  BY <1>1, <1>2, PushQuiet

LEMMA HeadIsIn == ASSUME NEW S, NEW s \in Seq(S), s # <<>> PROVE Head(s) \in ToSet(s)
<1>1. 1 \in DOMAIN s /\ Head(s) = s[1]
  BY LenProperties, EmptySeq
<1> QED
  BY <1>1 DEF ToSet

\* The answer to the call for the first page or for an older one
LEMMA LandPageQuiet ==
    ASSUME AllFit, AllFit', Quiet, ~disturbed', NEW c \in calls, LandPage(c)
    PROVE  Quiet'
<1> DEFINE N == Newest(Before(c))
<1>1. /\ UNCHANGED <<log, line, gone, roomId, visit, early>>
      /\ calls' = calls \ {c} /\ c.visit = visit /\ c.kind \in {"page", "older"} /\ c.asof # NULL
      /\ seenMessageIds' = seenMessageIds \cup N /\ messages' = Landed(c)
      /\ base' = IF c.kind = "page" THEN c.asof ELSE base
  BY DEF LandPage, serverVars
<1>2. c.asof \in 0..Len(log) /\ c.room = roomId
  BY <1>1 DEF AllFit, CallFits, Calls
<1>3. c \in MyPages
  BY <1>1 DEF MyPages
<1>4. Awaited'
  <2>1. MyPages' = {}
    BY <1>1, <1>3 DEF MyPages, Quiet, Awaited
  <2> QED
    BY <2>1, NobodyAwaits
<1>5. /\ Page(c) \in Seq(Ids) /\ Increasing(Page(c)) /\ ToSet(Page(c)) = N
      /\ N \subseteq Before(c) /\ Before(c) \subseteq Ids
      /\ \A i \in N, j \in Before(c) : j >= i => j \in N
      /\ Page(c) = <<>> => Before(c) = {}
  BY <1>2, PageIs DEF AllFit
<1>6. /\ Shown' = N \cup (IF c.kind = "page" THEN {} ELSE Shown)
  BY <1>1, <1>2, LandedIs DEF AllFit, Shown
<1> HIDE DEF N
<1>7. /\ InRoom' = InRoom /\ Ids \subseteq Nat /\ Len(log) \in Nat
      /\ InRoom = {i \in Ids : log[i] = roomId}
      /\ base \in 0..Len(log) /\ messages \in Seq(Ids)
  BY <1>1, LogFits DEF InRoom, AllFit, ListFits
<1>8. Before(c) = {i \in InRoom : i <= c.asof /\ (c.before = 0 \/ i < c.before)}
  BY <1>2, <1>7 DEF Before, Ids
<1>9. Page(c) # <<>> => Head(Page(c)) \in N
  BY <1>5, HeadIsIn
<1>10. Shown' \subseteq InRoom' /\ seenMessageIds' \subseteq Shown' \cup early'
       /\ InRoom' \subseteq Shown' \cup ToSet(line') \cup early' \cup gone'
  <2>1. N \subseteq InRoom
    BY <1>5, <1>8
  <2>2. c.kind = "page" => Shown \subseteq early
    BY <1>3 DEF Quiet, Awaited
  <2> QED
    BY <1>1, <1>6, <1>7, <2>1, <2>2 DEF Quiet, Accounted
<1>11. CASE c.kind = "page"
  <2>1. c.before = 0 /\ messages' = Page(c) /\ base' = c.asof /\ Shown' = N
    BY <1>1, <1>3, <1>6, <1>11 DEF Quiet, Awaited, Landed
  <2>2. ASSUME NEW m \in InRoom, m <= c.asof
        PROVE  messages' # <<>> /\ (m >= Head(messages') => m \in Shown')
    <3>1. m \in Before(c)
      BY <1>8, <2>1, <2>2
    <3> QED
      BY <1>5, <1>9, <2>1, <3>1
  <2>3. Accounted'
    BY <1>7, <1>10, <2>1, <2>2 DEF Accounted
  <2>4. Increasing(messages)'
    BY <1>5, <2>1 DEF Increasing
  <2> QED
    BY <1>4, <1>10, <2>3, <2>4 DEF Quiet
<1>12. CASE c.kind = "older"
  <2>1. messages # <<>> /\ c.before = Head(messages) /\ c.before <= c.asof
    BY <1>1, <1>3, <1>12 DEF Quiet, Awaited
  <2>2. /\ Head(messages) \in Ids /\ Head(messages) \in Nat /\ c.before # 0
        /\ \A i \in N : i \in Nat /\ i < Head(messages)
        /\ \A i \in Shown : i \in Nat /\ Head(messages) <= i
    <3>1. Head(messages) \in Ids /\ Head(messages) \in Nat /\ Head(messages) # 0
          /\ 1 \in DOMAIN messages /\ Head(messages) = messages[1]
      BY <2>1, HeadFits, LogFits DEF AllFit, Ids
    <3>2. \A i \in N : i \in Nat /\ i < Head(messages)
      BY <1>5, <1>7, <1>8, <2>1, <3>1
    <3>3. ASSUME NEW k \in DOMAIN messages PROVE messages[k] \in Nat /\ Head(messages) <= messages[k]
      <4>1. k \in 1..Len(messages) /\ messages[k] \in Nat
        BY <1>7, ElementOfSeq, LenProperties
      <4>2. k = 1 \/ messages[1] < messages[k]
        BY <3>1, <4>1 DEF Quiet, Increasing
      <4> QED
        BY <3>1, <4>1, <4>2
    <3> QED
      BY <2>1, <3>1, <3>2, <3>3 DEF Shown, ToSet
  <2>3. messages' = Page(c) \o messages /\ Shown' = N \cup Shown /\ base' = base
    BY <1>1, <1>6, <1>12 DEF Landed
  <2>4. Increasing(messages)'
    <3>1. \A x \in ToSet(Page(c)), y \in ToSet(messages) : x < y
      BY <1>5, <2>2 DEF Shown
    <3>2. Increasing(Page(c) \o messages)
      BY <1>5, <1>7, <3>1, JoinIs DEF Quiet
    <3> QED
      BY <2>3, <3>2 DEF Increasing
  <2>5. /\ Page(c) # <<>> => messages' # <<>> /\ Head(messages') = Head(Page(c))
        /\ Page(c) = <<>> => messages' = messages
    BY <1>5, <1>7, <2>3, JoinIs
  <2>6. ASSUME NEW m \in InRoom, m <= base
        PROVE  messages' # <<>> /\ (m >= Head(messages') => m \in Shown')
    <3>1. messages' # <<>>
      BY <2>1, <2>5
    <3>2. CASE m >= Head(messages)
      BY <2>3, <2>6, <3>1, <3>2 DEF Quiet, Accounted
    <3>3. CASE m < Head(messages)
      <4>1. m \in Before(c)
        <5>1. m \in Nat /\ c.asof \in Nat /\ c.before \in Nat
          BY <1>2, <1>7, <2>1, <2>2
        <5>2. m < c.before /\ m <= c.asof
          BY <2>1, <3>3, <5>1
        <5> QED
          BY <1>8, <5>2
      <4>2. Page(c) # <<>>
        BY <1>5, <4>1
      <4> QED
        BY <1>5, <1>9, <2>3, <2>5, <4>1, <4>2
    <3> QED
      BY <1>7, <2>2, <3>2, <3>3
  <2>7. Accounted'
    BY <1>7, <1>10, <2>3, <2>6 DEF Accounted
  <2> QED
    BY <1>4, <1>10, <2>4, <2>7 DEF Quiet
<1> QED
  BY <1>1, <1>11, <1>12

-------------------------------------------------------------------------------
LEMMA ViewStarts == ViewInit => ViewInv
<1> SUFFICES ASSUME ViewInit PROVE ViewInv
  OBVIOUS
<1>1. AllFit
  BY ViewStartsFit
<1>2. /\ messages = <<>> /\ seenMessageIds = {} /\ calls = {} /\ loadingHistory = FALSE /\ roomId = NULL
  BY DEF ViewInit
<1>3. Shown = {} /\ Increasing(messages)
  BY <1>2 DEF Shown, ToSet, Increasing
<1>4. InRoom = {}
  BY <1>1, <1>2, LogFits, Constants DEF AllFit
<1>5. Quiet
  BY <1>2, <1>3, <1>4 DEF Quiet, Awaited, Accounted, MyPages
<1> QED
  BY <1>1, <1>2, <1>5 DEF ViewInv, LoadingIsAwaited

LEMMA UnmountQuiet == ASSUME AllFit', Unmount PROVE Quiet'
<1>1. messages' = <<>> /\ seenMessageIds' = {} /\ calls' = {} /\ roomId' = NULL
  BY DEF Unmount
<1>2. Shown' = {} /\ Increasing(messages)' /\ MyPages' = {}
  BY <1>1 DEF Shown, ToSet, Increasing, MyPages
<1>3. InRoom' = {}
  BY <1>1, InRoomNext, Constants, ElementOfSeq DEF AllFit, TableFits, Ids
<1>4. Awaited' /\ Accounted'
  BY <1>1, <1>2, <1>3, NobodyAwaits DEF Accounted
<1> QED
  BY <1>2, <1>4 DEF Quiet

LEMMA QuietSteps ==
    ASSUME AllFit, AllFit', ~disturbed => Quiet, [ViewNext]_viewVars, ~disturbed'
    PROVE  Quiet'
<1>1. ASSUME NEW r \in Rooms, Mount(r) \/ Switch(r) PROVE Quiet'
  BY <1>1, NewVisitQuiet
<1>2. CASE Unmount
  BY <1>2, UnmountQuiet
<1>3. disturbed \in BOOLEAN
  BY DEF AllFit, ListFits
<1>4. CASE SendOverRest \/ Subscribe \/ Disconnect \/ Reconnect \/ UNCHANGED viewVars
           \/ \E r \in Rooms : Post(r)
  <2>1. disturbed' = disturbed
    BY <1>4 DEF SendOverRest, Subscribe, Disconnect, Reconnect, Post, viewVars, recordVars
  <2> QED
    BY <1>4, <2>1, ServerQuiet
<1>5. CASE LoadMore
  BY <1>5, LoadMoreQuiet DEF LoadMore, recordVars
<1>6. CASE Receive
  <2>1. ~disturbed
    BY <1>3, <1>6 DEF Receive, PushMessage
  <2> QED
    BY <1>6, <2>1, ReceiveQuiet
<1>7. ASSUME NEW c \in calls, Serve(c) PROVE Quiet'
  BY <1>7, ServeQuiet DEF Serve
<1>8. ASSUME NEW c \in calls, LandPage(c) PROVE Quiet'
  <2>1. ~disturbed
    BY <1>3, <1>8 DEF LandPage
  <2> QED
    BY <1>8, <2>1, LandPageQuiet
<1>9. ASSUME NEW c \in calls, LandPost(c) PROVE Quiet'
  <2>1. ~disturbed
    BY <1>3, <1>9 DEF LandPost, PushMessage
  <2> QED
    BY <1>9, <2>1, LandPostQuiet
<1>10. ASSUME NEW c \in calls, Fail(c) PROVE Quiet'
  <2>1. ~disturbed
    BY <1>3, <1>10 DEF Fail
  <2> QED
    BY <1>10, <2>1, FailQuiet
<1> QED
  BY <1>1, <1>2, <1>4, <1>5, <1>6, <1>7, <1>8, <1>9, <1>10 DEF ViewNext

LEMMA ViewKeepsInv == ViewSpec => []ViewInv
<1>1. ASSUME ViewInv, [ViewNext]_viewVars PROVE ViewInv'
  <2>1. AllFit'
    BY <1>1, ViewFits DEF ViewInv
  <2>2. LoadingIsAwaited'
    BY <1>1, LoadingSteps DEF ViewInv
  <2>3. ~disturbed' => Quiet'
    BY <1>1, <2>1, QuietSteps DEF ViewInv
  <2> QED
    BY <2>1, <2>2, <2>3 DEF ViewInv
<1> QED
  BY <1>1, ViewStarts, PTL DEF ViewSpec

LEMMA ViewImplied ==
    ASSUME ViewInv
    PROVE  ViewTypeOK /\ ShownInOrder /\ NothingElseIsMissing /\ LoadingIsAwaited
<1>1. DOMAIN log = Ids /\ Ids \subseteq Nat
  BY LogFits DEF ViewInv, AllFit
<1>2. ViewTypeOK
  <2>1. log \in Seq(Rooms) /\ {messages, line} \subseteq Seq(DOMAIN log)
    BY <1>1 DEF ViewInv, AllFit, TableFits, ListFits
  <2>2. {ready, hasMore, loadingHistory, disturbed} \subseteq BOOLEAN
    BY DEF ViewInv, AllFit, TableFits, ListFits
  <2>3. {subs, roomId} \subseteq Rooms \cup {NULL} /\ visit \in 0..MaxVisits /\ base \in 0..Len(log)
    BY DEF ViewInv, AllFit, TableFits, ListFits, PlaceFits
  <2>4. /\ \A S \in {early, gone} : S \subseteq DOMAIN log
        /\ seenMessageIds \subseteq DOMAIN log /\ Shown \subseteq seenMessageIds
    BY <1>1 DEF ViewInv, AllFit, TableFits, ListFits
  <2>5. \A c \in calls : c.kind \in {"page", "older", "post"} /\ c.visit \in 1..visit
    BY DEF ViewInv, AllFit, CallFits, Calls
  <2> QED
    BY <2>1, <2>2, <2>3, <2>4, <2>5, Zenon DEF ViewTypeOK
<1>3. ShownInOrder
  BY DEF ShownInOrder, ViewInv, Quiet, Increasing
<1>4. NothingElseIsMissing
  <2>1. ASSUME ~disturbed, messages # <<>>, NEW m \in InRoom, m >= Head(messages)
        PROVE  m \in Shown \cup ToSet(line) \/ (m > base /\ m \in early \cup gone)
    <3>1. m \in Nat /\ base \in Nat
      BY <1>1 DEF InRoom, ViewInv, AllFit, ListFits
    <3>2. m <= base => m \in Shown
      BY <2>1 DEF ViewInv, Quiet, Accounted
    <3>3. m \in Shown \cup ToSet(line) \cup early \cup gone
      BY <2>1 DEF ViewInv, Quiet, Accounted
    <3> QED
      BY <3>1, <3>2, <3>3
  <2> QED
    BY <2>1 DEF NothingElseIsMissing
<1> QED
  BY <1>2, <1>3, <1>4 DEF ViewInv

\* The list, its ids, the flags and the calls of the chat view stay well formed,
\* and all that is shown counts as seen, whatever requests, frames and switches
\* of the room interleave.
THEOREM ViewTyped == ViewSpec => []ViewTypeOK
BY ViewKeepsInv, ViewImplied, PTL

\* pushMessage and the two history loaders keep the list of the room sorted by
\* id, without doubles and without messages of other rooms, for any number of
\* rooms, messages and visits and any size of a page, while no late answer of an
\* earlier visit or message older than the list came in.
THEOREM ListIsInOrder == ViewSpec => []ShownInOrder
BY ViewKeepsInv, ViewImplied, PTL

\* From its oldest message on the list lacks only what came before the first page
\* and was overwritten by it, or what no subscription of the tab brought.
THEOREM ListIsComplete == ViewSpec => []NothingElseIsMissing
BY ViewKeepsInv, ViewImplied, PTL

\* While loadingHistory keeps the list from asking for a page, one is awaited.
THEOREM LoadingEndsWithAnAnswer == ViewSpec => []LoadingIsAwaited
BY ViewKeepsInv, ViewImplied, PTL

-------------------------------------------------------------------------------
\* ChatInput: its timers, and what one action may emit
Flags ==
    /\ draft \in BOOLEAN /\ sending \in BOOLEAN /\ lastEmittedState \in BOOLEAN
    /\ open \in BOOLEAN /\ atToken \in BOOLEAN
Numbers ==
    /\ sinceTrue \in 0..Throttle + 1 /\ stopIn \in 0..Stop
    /\ index \in 0..MaxMatches /\ matches \in 0..MaxMatches

\* A token is part of the text, so a key that opens the list finds a text that
\* is not blank.
TokenInText == (atToken => draft) /\ (open => atToken)

InputInv == Flags /\ Numbers /\ TokenInText /\ RetractionIsDue

\* What an action of ChatInput emits goes with what it notes: changes only.
Telling(told) ==
    \/ told = <<>> /\ lastEmittedState' = lastEmittedState
    \/ told = <<TRUE>> /\ ~lastEmittedState /\ lastEmittedState'
    \/ told = <<FALSE>> /\ lastEmittedState /\ ~lastEmittedState'
    \/ told = <<TRUE, FALSE>> /\ ~lastEmittedState /\ ~lastEmittedState'

LEMMA TicksArePositive ==
    /\ Throttle \in Nat /\ Throttle > 0 /\ Stop \in Nat /\ Stop > 0
    /\ MaxMatches \in Nat /\ MaxMatches > 0
BY InputAssumption

LEMMA Emissions ==
    ASSUME NEW x, NEW y
    PROVE  <<>> \o <<>> = <<>> /\ <<>> \o <<y>> = <<y>> /\ <<x>> \o <<y>> = <<x, y>>
<1>1. <<>> \o <<>> = <<>>
  OBVIOUS
<1>2. <<>> \o <<y>> = <<y>>
  BY ConcatEmptySeq
<1>3. <<x>> \o <<y>> = <<x, y>>
  <2> DEFINE S == {x, y}
             s == <<x>>
             t == <<y>>
             p == <<x, y>>
  <2>1. /\ s \in Seq(S) /\ Len(s) = 1 /\ s[1] = x
        /\ t \in Seq(S) /\ Len(t) = 1 /\ t[1] = y
        /\ p \in Seq(S) /\ Len(p) = 2 /\ p[1] = x /\ p[2] = y
    OBVIOUS
  <2> HIDE DEF S, s, t, p
  <2>2. s \o t \in Seq(S) /\ Len(s \o t) = 2 /\ (s \o t)[1] = x /\ (s \o t)[2] = y
    BY <2>1, ConcatProperties
  <2>3. s \o t = p
    BY <2>1, <2>2, SeqEqual
  <2> QED
    BY <2>3 DEF s, t, p
<1> QED
  BY <1>1, <1>2, <1>3

LEMMA CancelTells ==
    ASSUME InputTypeOK, NEW told, CancelTyping(told)
    PROVE  /\ ~lastEmittedState'
           /\ lastEmittedState => told = <<FALSE>>
           /\ ~lastEmittedState => told = <<>>
BY DEF CancelTyping, Changes, InputTypeOK

LEMMA ActivityTells ==
    ASSUME InputTypeOK, NEW told, NoteUserActivity(told) \/ NoteAndCancel(told)
    PROVE  Telling(told)
<1>1. lastEmittedState \in BOOLEAN
  BY DEF InputTypeOK
<1>2. CASE NoteUserActivity(told)
  BY <1>1, <1>2 DEF NoteUserActivity, Started, Changes, Telling
<1>3. CASE NoteAndCancel(told)
  <2>1. Started = IF Starts /\ ~lastEmittedState THEN <<TRUE>> ELSE <<>>
    BY <1>1 DEF Started, Changes
  <2>2. Changes(Starts \/ lastEmittedState, FALSE) =
          IF Starts \/ lastEmittedState THEN <<FALSE>> ELSE <<>>
    BY <1>1 DEF Changes
  <2>3. /\ <<>> \o <<>> = <<>> /\ <<>> \o <<FALSE>> = <<FALSE>>
        /\ <<TRUE>> \o <<FALSE>> = <<TRUE, FALSE>>
    BY Emissions, Zenon
  <2>4. told = Started \o Changes(Starts \/ lastEmittedState, FALSE) /\ lastEmittedState' = FALSE
    BY <1>3 DEF NoteAndCancel
  <2>5. CASE lastEmittedState
    <3>1. told = <<FALSE>>
      BY <2>1, <2>2, <2>3, <2>4, <2>5, Zenon
    <3> QED
      BY <2>4, <2>5, <3>1, Zenon DEF Telling
  <2>6. CASE Starts /\ ~lastEmittedState
    <3>1. told = <<TRUE, FALSE>>
      BY <2>1, <2>2, <2>3, <2>4, <2>6, Zenon
    <3> QED
      BY <2>4, <2>6, <3>1, Zenon DEF Telling
  <2>7. CASE ~Starts /\ ~lastEmittedState
    <3>1. told = <<>>
      BY <2>1, <2>2, <2>3, <2>4, <2>7, Zenon
    <3>2. lastEmittedState = FALSE
      BY <1>1, <2>7
    <3> QED
      BY <2>4, <3>1, <3>2, Zenon DEF Telling
  <2> QED
    BY <1>1, <2>5, <2>6, <2>7
<1> QED
  BY <1>2, <1>3

LEMMA InputTells ==
    ASSUME InputTypeOK, NEW told,
           Type(told) \/ Sent(told) \/ SendFails(told) \/ LeaveInput(told) \/ InputTick(told)
    PROVE  Telling(told)
<1>1. CASE Type(told)
  BY <1>1, ActivityTells DEF Type
<1>2. CASE CancelTyping(told)
  <2>1. lastEmittedState \in BOOLEAN /\ lastEmittedState' = FALSE
    BY <1>2 DEF CancelTyping, InputTypeOK
  <2> QED
    BY <1>2, <2>1, CancelTells, Zenon DEF Telling
<1>3. CASE InputTick(told)
  BY <1>2, <1>3 DEF InputTick, Telling
<1> QED
  BY <1>1, <1>2, <1>3 DEF Sent, SendFails, LeaveInput

-------------------------------------------------------------------------------
\* The timers of an announcement and of its retraction
TimersFit ==
    /\ lastEmittedState \in BOOLEAN
    /\ sinceTrue \in 0..Throttle + 1 /\ stopIn \in 0..Stop
    /\ RetractionIsDue

LEMMA CancelFits == ASSUME NEW told, CancelTyping(told) \/ NoteAndCancel(told) PROVE TimersFit'
<1>1. /\ lastEmittedState' \in BOOLEAN /\ ~lastEmittedState'
      /\ sinceTrue' = Throttle + 1 /\ stopIn' = 0
  BY DEF CancelTyping, NoteAndCancel
<1> QED
  BY <1>1, TicksArePositive DEF TimersFit, RetractionIsDue

LEMMA ActivityFits == ASSUME InputInv, NEW told, NoteUserActivity(told) PROVE TimersFit'
<1>1. lastEmittedState' \in BOOLEAN /\ sinceTrue' \in {0, sinceTrue} /\ stopIn' = Stop
  BY DEF NoteUserActivity, StopAfter, InputInv, Flags
<1> QED
  BY <1>1, TicksArePositive DEF TimersFit, RetractionIsDue, InputInv, Numbers

LEMMA PassingFits == ASSUME InputInv, NEW told, InputTick(told) PROVE TimersFit'
<1>1. CASE stopIn = 1
  BY <1>1, CancelFits DEF InputTick
<1>2. CASE stopIn # 1
  <2>1. /\ lastEmittedState' = lastEmittedState
        /\ stopIn' = IF stopIn = 0 THEN 0 ELSE stopIn - 1
        /\ sinceTrue' = IF sinceTrue > Throttle THEN sinceTrue ELSE sinceTrue + 1
    BY <1>2 DEF InputTick, Starts
  <2> QED
    BY <1>2, <2>1, TicksArePositive DEF TimersFit, RetractionIsDue, InputInv, Flags, Numbers
<1> QED
  BY <1>1, <1>2

\* The text and the list of mentions
MentionFits ==
    /\ draft \in BOOLEAN /\ open \in BOOLEAN /\ atToken \in BOOLEAN
    /\ index \in 0..MaxMatches /\ matches \in 0..MaxMatches
    /\ TokenInText

LEMMA AwayFits == ASSUME draft' \in BOOLEAN, CursorAway PROVE MentionFits'
<1>1. /\ open' \in BOOLEAN /\ ~open' /\ atToken' \in BOOLEAN /\ ~atToken'
      /\ index' = 0 /\ matches' = 0
  BY DEF CursorAway
<1> QED
  BY <1>1, TicksArePositive DEF MentionFits, TokenInText

LEMMA MovedFits == ASSUME draft' \in BOOLEAN, draft', CursorMoves PROVE MentionFits'
<1>1. ASSUME NEW n \in 0..MaxMatches, CursorAt(n) PROVE MentionFits'
  <2>1. open' \in BOOLEAN /\ atToken' \in BOOLEAN /\ atToken' /\ index' = 0 /\ matches' = n
    BY <1>1 DEF CursorAt
  <2> QED
    BY <2>1, TicksArePositive DEF MentionFits, TokenInText
<1> QED
  BY <1>1, AwayFits DEF CursorMoves

\* InputInv has these parts.
LEMMA Parts == ASSUME InputInv PROVE sending \in BOOLEAN /\ TimersFit /\ MentionFits
BY DEF InputInv, Flags, Numbers, TimersFit, MentionFits

LEMMA Whole == ASSUME sending' \in BOOLEAN, TimersFit', MentionFits' PROVE InputInv'
BY DEF InputInv, Flags, Numbers, TimersFit, MentionFits

LEMMA InputTyped == ASSUME InputInv PROVE InputTypeOK
<1>1. Flags /\ Numbers /\ TokenInText
  BY DEF InputInv
<1>2. {draft, sending, lastEmittedState, open, atToken} \subseteq BOOLEAN
  BY <1>1 DEF Flags
<1>3. open => atToken /\ draft
  BY <1>1 DEF TokenInText, Flags
<1> QED
  BY <1>1, <1>2, <1>3, Zenon DEF InputTypeOK, Numbers

LEMMA TimersStay == ASSUME InputInv, UNCHANGED typingVars PROVE TimersFit'
BY Parts DEF TimersFit, RetractionIsDue, typingVars

LEMMA MentionStays == ASSUME InputInv, UNCHANGED <<draft, mentionVars>> PROVE MentionFits'
BY Parts DEF MentionFits, TokenInText, mentionVars

-------------------------------------------------------------------------------
LEMMA TypeKeeps == ASSUME InputInv, NEW told, Type(told) PROVE InputInv'
<1>1. sending' \in BOOLEAN /\ draft' \in BOOLEAN
  BY DEF Type, InputInv, Flags
<1>2. CASE draft' = TRUE /\ NoteUserActivity(told) /\ CursorMoves
  BY <1>1, <1>2, ActivityFits, MovedFits, Parts, Whole, TimersStay, MentionStays
<1>3. CASE draft' = FALSE /\ NoteAndCancel(told) /\ CursorAway
  BY <1>1, <1>3, CancelFits, AwayFits, Parts, Whole, TimersStay, MentionStays
<1> QED
  BY <1>2, <1>3 DEF Type

LEMMA SentKeeps ==
    ASSUME InputInv, NEW told, Sent(told) \/ LeaveInput(told)
    PROVE  InputInv'
<1>1. sending' \in BOOLEAN /\ draft' \in BOOLEAN
  BY DEF Sent, LeaveInput
<1>2. CancelTyping(told) /\ CursorAway
  BY DEF Sent, LeaveInput
<1> QED
  BY <1>1, <1>2, CancelFits, AwayFits, Parts, Whole, TimersStay, MentionStays

LEMMA SendFailsKeeps == ASSUME InputInv, NEW told, SendFails(told) PROVE InputInv'
<1>1. sending' \in BOOLEAN
  BY DEF SendFails
<1>2. CancelTyping(told) /\ UNCHANGED <<draft, mentionVars>>
  BY DEF SendFails
<1> QED
  BY <1>1, <1>2, CancelFits, Parts, Whole, TimersStay, MentionStays

LEMMA InputTickKeeps == ASSUME InputInv, NEW told, InputTick(told) PROVE InputInv'
<1>1. UNCHANGED <<draft, sending, mentionVars>>
  BY DEF InputTick
<1> QED
  BY <1>1, PassingFits, Parts, Whole, TimersStay, MentionStays

LEMMA MentionKeeps ==
    ASSUME InputInv,
           \/ Click \/ KeyUp \/ Arrow(1) \/ Arrow(-1) \/ Pick \/ Escape \/ Submit
           \/ \E n \in 0..MaxMatches : MatchesChange(n)
    PROVE  InputInv'
<1>1. TimersFit' /\ (sending' \in BOOLEAN)
  <2>1. UNCHANGED typingVars /\ (sending' \in BOOLEAN)
    BY DEF InputInv, Flags, Click, KeyUp, Arrow, Pick, Escape, Submit, MatchesChange
  <2> QED
    BY <2>1, Parts, Whole, TimersStay, MentionStays
<1>2. CASE Click
  <2>1. draft' \in BOOLEAN /\ draft' /\ CursorMoves
    BY <1>2 DEF Click, InputInv, Flags
  <2> QED
    BY <1>1, <2>1, MovedFits, Parts, Whole, TimersStay, MentionStays
<1>3. CASE KeyUp
  <2>1. /\ open' = atToken
        /\ UNCHANGED <<draft, index, atToken, matches>>
    BY <1>3 DEF KeyUp
  <2>2. (open' \in BOOLEAN) /\ (open' => atToken')
    BY <2>1 DEF InputInv, Flags
  <2> QED
    BY <1>1, <2>1, <2>2, Parts, Whole, TimersStay, MentionStays DEF MentionFits, TokenInText
<1>4. ASSUME NEW step \in {1, -1}, Arrow(step) PROVE MentionFits'
  <2>1. matches \in 1..MaxMatches /\ index + step + matches \in Int
    BY <1>4, TicksArePositive DEF Arrow, Listed, InputInv, Numbers
  <2>2. Turned(step) \in 0..MaxMatches
    BY <2>1, TicksArePositive DEF Turned
  <2>3. index' \in 0..MaxMatches /\ UNCHANGED <<draft, open, atToken, matches>>
    BY <1>4, <2>2 DEF Arrow
  <2> QED
    BY <2>3, Parts, Whole, TimersStay, MentionStays DEF MentionFits, TokenInText
<1>5. CASE Pick
  BY <1>1, <1>5, AwayFits, Parts, Whole, TimersStay, MentionStays DEF Pick, MentionFits
<1>6. CASE Escape
  <2>1. (open' \in BOOLEAN) /\ ~open' /\ index' = 0 /\ UNCHANGED <<draft, atToken, matches>>
    BY <1>6 DEF Escape
  <2> QED
    BY <1>1, <2>1, Parts, Whole, TimersStay, MentionStays, TicksArePositive DEF MentionFits, TokenInText
<1>7. CASE Submit
  BY <1>1, <1>7, Parts, Whole, TimersStay, MentionStays DEF Submit
<1>8. ASSUME NEW n \in 0..MaxMatches, MatchesChange(n) PROVE MentionFits'
  BY <1>8, Parts, Whole, TimersStay, MentionStays DEF MatchesChange, MentionFits, TokenInText
<1> QED
  BY <1>1, <1>2, <1>3, <1>4, <1>5, <1>6, <1>7, <1>8, Parts, Whole, TimersStay, MentionStays

LEMMA MentionIsSilent ==
    ASSUME \/ Click \/ KeyUp \/ Arrow(1) \/ Arrow(-1) \/ Pick \/ Escape \/ Submit
           \/ \E n \in 0..MaxMatches : MatchesChange(n)
    PROVE  UNCHANGED lastEmittedState
BY DEF Click, KeyUp, Arrow, Pick, Escape, Submit, MatchesChange, typingVars

-------------------------------------------------------------------------------
\* Frames on their way to the watcher
Kinds == {"typing", "idle", "message", "joined", "left"}

\* With the frames s on their way and e ticks left of the entry, the watcher
\* will be shown the user as typing, unless the entry expires
WillShow(s, e) ==
    \/ \E k \in DOMAIN s : s[k] = "typing" /\ \A n \in DOMAIN s : n > k => s[n] # "idle"
    \/ e > 0 /\ \A n \in DOMAIN s : s[n] # "idle"

\* and an announcement will come although he is shown.
WillPutOff(s, e) ==
    \E k \in DOMAIN s :
        /\ s[k] = "typing"
        /\ \/ e > 0 /\ \A n \in DOMAIN s : n < k => s[n] # "idle"
           \/ \E j \in DOMAIN s : /\ j < k /\ s[j] = "typing"
                                  /\ \A n \in DOMAIN s : j < n /\ n < k => s[n] # "idle"

LEMMA FrameAppended ==
    ASSUME NEW s \in Seq(Kinds), NEW x \in Kinds, NEW e \in Nat
    PROVE  /\ Append(s, x) \in Seq(Kinds)
           /\ WillShow(Append(s, x), e) => x = "typing" \/ (x # "idle" /\ WillShow(s, e))
           /\ WillPutOff(Append(s, x), e) => WillPutOff(s, e) \/ (x = "typing" /\ WillShow(s, e))
<1> DEFINE t == Append(s, x)
<1>1. /\ t \in Seq(Kinds) /\ Len(s) \in Nat
      /\ DOMAIN s = 1..Len(s) /\ DOMAIN t = 1..Len(s) + 1
      /\ t[Len(s) + 1] = x /\ \A k \in 1..Len(s) : t[k] = s[k]
  BY AppendProperties, LenProperties
<1> HIDE DEF t
<1>2. WillShow(t, e) => x = "typing" \/ (x # "idle" /\ WillShow(s, e))
  BY <1>1 DEF WillShow
<1>3. ASSUME WillPutOff(t, e) PROVE WillPutOff(s, e) \/ (x = "typing" /\ WillShow(s, e))
  <2>1. PICK k \in DOMAIN t :
            /\ t[k] = "typing"
            /\ \/ e > 0 /\ \A n \in DOMAIN t : n < k => t[n] # "idle"
               \/ \E j \in DOMAIN t : /\ j < k /\ t[j] = "typing"
                                      /\ \A n \in DOMAIN t : j < n /\ n < k => t[n] # "idle"
    BY <1>3 DEF WillPutOff
  <2>2. CASE k = Len(s) + 1
    BY <1>1, <2>1, <2>2 DEF WillShow
  <2>3. CASE k \in DOMAIN s
    BY <1>1, <2>1, <2>3 DEF WillPutOff
  <2> QED
    BY <1>1, <2>2, <2>3
<1> QED
  BY <1>1, <1>2, <1>3 DEF t

LEMMA IdleAppended ==
    ASSUME NEW s \in Seq(Kinds), NEW e \in Nat
    PROVE  /\ Append(s, "idle") \in Seq(Kinds)
           /\ ~WillShow(Append(s, "idle"), e)
           /\ WillPutOff(Append(s, "idle"), e) => WillPutOff(s, e)
<1>1. "idle" \in Kinds /\ "idle" # "typing"
  BY DEF Kinds
<1> QED
  BY <1>1, FrameAppended

LEMMA TypingAppended ==
    ASSUME NEW s \in Seq(Kinds), NEW e \in Nat
    PROVE  /\ Append(s, "typing") \in Seq(Kinds)
           /\ WillPutOff(Append(s, "typing"), e) => WillPutOff(s, e) \/ WillShow(s, e)
<1>1. "typing" \in Kinds
  BY DEF Kinds
<1> QED
  BY <1>1, FrameAppended

LEMMA MessageAppended ==
    ASSUME NEW s \in Seq(Kinds), NEW e \in Nat
    PROVE  /\ Append(s, "message") \in Seq(Kinds)
           /\ WillShow(Append(s, "message"), e) => WillShow(s, e)
           /\ WillPutOff(Append(s, "message"), e) => WillPutOff(s, e)
<1>1. "message" \in Kinds /\ "message" # "typing"
  BY DEF Kinds
<1> QED
  BY <1>1, FrameAppended

LEMMA FrameHandled ==
    ASSUME NEW s \in Seq(Kinds), s # <<>>, NEW e \in Nat, NEW f \in Nat,
           f > 0 => e > 0 \/ Head(s) = "typing", Head(s) = "idle" => f = 0
    PROVE  /\ Tail(s) \in Seq(Kinds)
           /\ WillShow(Tail(s), f) => WillShow(s, e)
           /\ WillPutOff(Tail(s), f) => WillPutOff(s, e)
<1> DEFINE t == Tail(s)
<1>1. /\ t \in Seq(Kinds) /\ Len(s) \in Nat \ {0}
      /\ DOMAIN s = 1..Len(s) /\ DOMAIN t = 1..Len(s) - 1
      /\ Head(s) = s[1] /\ \A k \in 1..Len(s) - 1 : t[k] = s[k + 1]
  BY HeadTailProperties, LenProperties, EmptySeq
<1> HIDE DEF t
<1>2. WillShow(t, f) => WillShow(s, e)
  <2>1. ASSUME NEW k \in DOMAIN t, t[k] = "typing", \A n \in DOMAIN t : n > k => t[n] # "idle"
        PROVE  WillShow(s, e)
    <3>1. k + 1 \in DOMAIN s /\ s[k + 1] = "typing"
      BY <1>1, <2>1
    <3>2. ASSUME NEW n \in DOMAIN s, n > k + 1 PROVE s[n] # "idle"
      <4>1. n - 1 \in DOMAIN t /\ n - 1 > k /\ t[n - 1] = s[n]
        BY <1>1, <2>1, <3>2
      <4> QED
        BY <2>1, <4>1
    <3> QED
      BY <3>1, <3>2 DEF WillShow
  <2>2. ASSUME f > 0, \A n \in DOMAIN t : t[n] # "idle" PROVE WillShow(s, e)
    <3>1. ASSUME NEW n \in DOMAIN s, n > 1 PROVE s[n] # "idle"
      <4>1. n - 1 \in DOMAIN t /\ t[n - 1] = s[n]
        BY <1>1, <3>1
      <4> QED
        BY <2>2, <4>1
    <3> QED
      BY <1>1, <2>2, <3>1 DEF WillShow
  <2> QED
    BY <2>1, <2>2 DEF WillShow
<1>3. ASSUME WillPutOff(t, f) PROVE WillPutOff(s, e)
  <2>1. PICK k \in DOMAIN t :
            /\ t[k] = "typing"
            /\ \/ f > 0 /\ \A n \in DOMAIN t : n < k => t[n] # "idle"
               \/ \E j \in DOMAIN t : /\ j < k /\ t[j] = "typing"
                                      /\ \A n \in DOMAIN t : j < n /\ n < k => t[n] # "idle"
    BY <1>3 DEF WillPutOff
  <2>2. k + 1 \in DOMAIN s /\ s[k + 1] = "typing"
    BY <1>1, <2>1
  <2>3. CASE f > 0 /\ \A n \in DOMAIN t : n < k => t[n] # "idle"
    <3>1. ASSUME NEW n \in DOMAIN s, 1 < n, n < k + 1 PROVE s[n] # "idle"
      <4>1. n - 1 \in DOMAIN t /\ n - 1 < k /\ t[n - 1] = s[n]
        BY <1>1, <3>1
      <4> QED
        BY <2>3, <4>1
    <3>2. CASE s[1] = "typing"
      BY <1>1, <2>2, <3>1, <3>2 DEF WillPutOff
    <3>3. CASE s[1] # "typing"
      <4>1. e > 0 /\ s[1] # "idle"
        BY <1>1, <2>3, <3>3
      <4>2. \A n \in DOMAIN s : n < k + 1 => s[n] # "idle"
        BY <1>1, <3>1, <4>1
      <4> QED
        BY <2>2, <4>1, <4>2 DEF WillPutOff
    <3> QED
      BY <3>2, <3>3
  <2>4. ASSUME NEW j \in DOMAIN t, j < k, t[j] = "typing",
               \A n \in DOMAIN t : j < n /\ n < k => t[n] # "idle"
        PROVE  WillPutOff(s, e)
    <3>1. j + 1 \in DOMAIN s /\ j + 1 < k + 1 /\ s[j + 1] = "typing"
      BY <1>1, <2>4
    <3>2. ASSUME NEW n \in DOMAIN s, j + 1 < n, n < k + 1 PROVE s[n] # "idle"
      <4>1. n - 1 \in DOMAIN t /\ j < n - 1 /\ n - 1 < k /\ t[n - 1] = s[n]
        BY <1>1, <3>2
      <4> QED
        BY <2>4, <4>1
    <3> QED
      BY <2>2, <3>1, <3>2 DEF WillPutOff
  <2> QED
    BY <2>1, <2>3, <2>4
<1> QED
  BY <1>1, <1>2, <1>3 DEF t

\* What gets through
LEMMA ThroughIs ==
    /\ ~Passes => \A told : Through(told) = <<>>
    /\ Through(<<>>) = <<>>
    /\ Passes => /\ Through(<<TRUE>>) = <<"typing">>
                 /\ Through(<<FALSE>>) = <<"idle">>
                 /\ Through(<<TRUE, FALSE>>) = <<"typing", "idle">>
<1>1. Frame(TRUE) = "typing" /\ Frame(FALSE) = "idle"
  BY DEF Frame
<1>2. ASSUME NEW told, Passes PROVE Through(told) = [k \in DOMAIN told |-> Frame(told[k])]
  BY <1>2 DEF Through
<1>3. ASSUME Passes PROVE Through(<<>>) = <<>>
  BY <1>2, <1>3
<1>4. ASSUME NEW x, Passes PROVE Through(<<x>>) = <<Frame(x)>>
  BY <1>2, <1>4
<1>5. ASSUME NEW x, NEW y, Passes PROVE Through(<<x, y>>) = <<Frame(x), Frame(y)>>
  BY <1>2, <1>5
<1>6. ~Passes => \A told : Through(told) = <<>>
  BY DEF Through
<1> QED
  BY <1>1, <1>3, <1>4, <1>5, <1>6

LEMMA LostIs == ~Passes => Lost(<<FALSE>>) /\ Lost(<<TRUE, FALSE>>)
<1>1. ASSUME NEW x, NEW y PROVE y \in ToSet(<<y>>) /\ y \in ToSet(<<x, y>>)
  BY DEF ToSet
<1> QED
  BY <1>1, Zenon DEF Lost

\* The announcements of one action of ChatInput follow the frames s; u says
\* that an earlier retraction did not get through.
Founded(s, e, u) == (WillShow(s, e) => lastEmittedState \/ u) /\ (WillPutOff(s, e) => u)

LEMMA AnnouncementsFollow ==
    ASSUME NEW s \in Seq(Kinds), NEW e \in Nat, NEW u \in BOOLEAN, Founded(s, e, u),
           lastEmittedState \in BOOLEAN, NEW told, Telling(told)
    PROVE  /\ s \o Through(told) \in Seq(Kinds)
           /\ WillShow(s \o Through(told), e) => lastEmittedState' \/ u \/ Lost(told)
           /\ WillPutOff(s \o Through(told), e) => u \/ Lost(told)
<1> DEFINE t == s \o Through(told)
<1>1. s \o <<>> = s
  BY ConcatEmptySeq
<1>2. ASSUME NEW x \in Kinds PROVE s \o <<x>> = Append(s, x)
  BY <1>2, AppendIsConcat
<1>3. s \o <<"typing", "idle">> = Append(Append(s, "typing"), "idle")
  OBVIOUS
<1>4. "typing" \in Kinds /\ "idle" \in Kinds
  BY DEF Kinds
<1>5. CASE told = <<>> /\ lastEmittedState' = lastEmittedState
  BY <1>1, <1>5, ThroughIs DEF Founded
<1>6. CASE ~Passes /\ t = s
  <2>1. CASE told = <<TRUE>> /\ lastEmittedState'
    BY <1>6, <2>1 DEF Founded
  <2>2. CASE told = <<FALSE>> \/ told = <<TRUE, FALSE>>
    <3>1. Lost(told)
      BY <1>6, <2>2, LostIs, Zenon
    <3> QED
      BY <1>6, <3>1
  <2> QED
    BY <1>5, <2>1, <2>2, Zenon DEF Telling
<1>7. CASE Passes
  <2>1. CASE told = <<TRUE>> /\ ~lastEmittedState /\ lastEmittedState'
    <3>1. t = Append(s, "typing")
      BY <1>2, <1>4, <1>7, <2>1, ThroughIs
    <3> QED
      BY <2>1, <3>1, TypingAppended DEF Founded
  <2>2. CASE told = <<FALSE>> /\ lastEmittedState /\ ~lastEmittedState'
    <3>1. t = Append(s, "idle")
      BY <1>2, <1>4, <1>7, <2>2, ThroughIs
    <3> QED
      BY <2>2, <3>1, IdleAppended DEF Founded
  <2>3. CASE told = <<TRUE, FALSE>> /\ ~lastEmittedState /\ ~lastEmittedState'
    <3>1. t = Append(Append(s, "typing"), "idle")
      BY <1>3, <1>7, <2>3, ThroughIs
    <3>2. /\ Append(s, "typing") \in Seq(Kinds)
          /\ WillPutOff(Append(s, "typing"), e) => WillPutOff(s, e) \/ WillShow(s, e)
      BY TypingAppended
    <3>3. /\ t \in Seq(Kinds)
          /\ ~WillShow(t, e)
          /\ WillPutOff(t, e) => WillPutOff(Append(s, "typing"), e)
      <4> DEFINE a == Append(s, "typing")
      <4>1. a \in Seq(Kinds) /\ t = Append(a, "idle")
        BY <3>1, <3>2
      <4> HIDE DEF a, t
      <4>2. t \in Seq(Kinds) /\ ~WillShow(t, e) /\ (WillPutOff(t, e) => WillPutOff(a, e))
        BY <4>1, IdleAppended
      <4> QED
        BY <4>2 DEF a
    <3> QED
      BY <2>3, <3>2, <3>3 DEF Founded
  <2> QED
    BY <1>5, <2>1, <2>2, <2>3 DEF Telling
<1> QED
  BY <1>1, <1>6, <1>7, ThroughIs

-------------------------------------------------------------------------------
\* The frames about the membership, and whether the last of them tells right
NewsOf(s)   == {k \in DOMAIN s : s[k] \in {"joined", "left"}}
Right(s, m) == \A k \in NewsOf(s) : (\A n \in NewsOf(s) : n <= k) => (s[k] = "joined") = m

LEMMA NewsAppended ==
    ASSUME NEW s \in Seq(Kinds), NEW x \in Kinds, NEW m \in BOOLEAN
    PROVE  /\ x \notin {"joined", "left"} =>
                 /\ NewsOf(Append(s, x)) = NewsOf(s)
                 /\ Right(s, m) => Right(Append(s, x), m)
           /\ x \in {"joined", "left"} =>
                 /\ NewsOf(Append(s, x)) # {}
                 /\ (x = "joined") = m => Right(Append(s, x), m)
<1> DEFINE t == Append(s, x)
<1>1. /\ Len(s) \in Nat /\ DOMAIN s = 1..Len(s) /\ DOMAIN t = 1..Len(s) + 1
      /\ t[Len(s) + 1] = x /\ \A k \in 1..Len(s) : t[k] = s[k]
  BY AppendProperties, LenProperties
<1> HIDE DEF t
<1>2. ASSUME x \notin {"joined", "left"}
      PROVE  NewsOf(t) = NewsOf(s) /\ (Right(s, m) => Right(t, m))
  <2>1. NewsOf(t) = NewsOf(s)
    BY <1>1, <1>2 DEF NewsOf
  <2>2. \A k \in NewsOf(s) : t[k] = s[k]
    BY <1>1 DEF NewsOf
  <2> QED
    BY <2>1, <2>2 DEF Right
<1>3. ASSUME x \in {"joined", "left"}
      PROVE  NewsOf(t) # {} /\ ((x = "joined") = m => Right(t, m))
  <2>1. Len(s) + 1 \in NewsOf(t)
    BY <1>1, <1>3 DEF NewsOf
  <2>2. ASSUME NEW k \in NewsOf(t), \A n \in NewsOf(t) : n <= k PROVE t[k] = x
    <3>1. k \in 1..Len(s) + 1 /\ Len(s) + 1 <= k
      BY <1>1, <2>1, <2>2 DEF NewsOf
    <3> QED
      BY <1>1, <3>1
  <2> QED
    BY <2>1, <2>2 DEF Right
<1> QED
  BY <1>2, <1>3 DEF t

LEMMA NewsHandled ==
    ASSUME NEW s \in Seq(Kinds), s # <<>>, NEW m \in BOOLEAN, Right(s, m)
    PROVE  /\ Right(Tail(s), m)
           /\ NewsOf(Tail(s)) = {} =>
                 /\ Head(s) \notin {"joined", "left"} => NewsOf(s) = {}
                 /\ Head(s) \in {"joined", "left"} => (Head(s) = "joined") = m
<1> DEFINE t == Tail(s)
<1>1. /\ Len(s) \in Nat \ {0}
      /\ DOMAIN s = 1..Len(s) /\ DOMAIN t = 1..Len(s) - 1
      /\ Head(s) = s[1] /\ \A k \in 1..Len(s) - 1 : t[k] = s[k + 1]
  BY HeadTailProperties, LenProperties, EmptySeq
<1> HIDE DEF t
<1>2. \A k \in NewsOf(t) : k + 1 \in NewsOf(s) /\ s[k + 1] = t[k] /\ k \in Nat
  BY <1>1 DEF NewsOf
<1>3. \A n \in NewsOf(s) : n \in Nat /\ (n = 1 \/ n - 1 \in NewsOf(t))
  BY <1>1 DEF NewsOf
<1>4. Right(t, m)
  <2>1. ASSUME NEW k \in NewsOf(t), \A n \in NewsOf(t) : n <= k
        PROVE  (t[k] = "joined") = m
    <3>1. ASSUME NEW n \in NewsOf(s) PROVE n <= k + 1
      <4>1. k \in Nat /\ n \in Nat /\ (n = 1 \/ n - 1 \in NewsOf(t))
        BY <1>2, <1>3
      <4>2. CASE n = 1
        BY <4>1, <4>2
      <4>3. CASE n - 1 \in NewsOf(t)
        <5>1. n - 1 <= k
          BY <2>1, <4>3
        <5> QED
          BY <4>1, <5>1
      <4> QED
        BY <4>1, <4>2, <4>3
    <3> QED
      BY <1>2, <3>1 DEF Right
  <2> QED
    BY <2>1 DEF Right
<1>5. ASSUME NewsOf(t) = {}
      PROVE  /\ s[1] \notin {"joined", "left"} => NewsOf(s) = {}
             /\ s[1] \in {"joined", "left"} => (s[1] = "joined") = m
  <2>1. \A n \in NewsOf(s) : n = 1
    BY <1>3, <1>5
  <2>2. s[1] \notin {"joined", "left"} => NewsOf(s) = {}
    BY <2>1 DEF NewsOf
  <2>3. ASSUME s[1] \in {"joined", "left"} PROVE (s[1] = "joined") = m
    <3>1. 1 \in NewsOf(s) /\ \A n \in NewsOf(s) : n <= 1
      BY <1>1, <2>1, <2>3 DEF NewsOf
    <3> QED
      BY <3>1 DEF Right
  <2> QED
    BY <2>2, <2>3
<1> QED
  BY <1>1, <1>4, <1>5 DEF t

-------------------------------------------------------------------------------
ServerFits ==
    /\ speaks \in BOOLEAN /\ member \in BOOLEAN /\ subscribed \in BOOLEAN
    /\ missed \in BOOLEAN /\ unretracted \in BOOLEAN
    /\ frames \in Seq(Kinds)

WatcherFits ==
    /\ mounted \in BOOLEAN /\ call \in {"none", "asked", "in", "out"}
    /\ detail \in {NULL, 0, 1} /\ expires \in 0..Expiry
    /\ ~mounted => call = "none" /\ detail = NULL /\ expires = 0
    /\ detail # NULL => call = "none"
    /\ expires > 0 => detail = 1

\* What the watcher's view knows, or will when the answer to loadDetail lands
Known == CASE call = "in" -> 1 [] call = "out" -> 0 [] OTHER -> detail

\* An answer is up to date except for the frames under way: the last of those
\* about the membership tells right, and with none the answer itself is right.
Informed == ~missed /\ (detail # NULL \/ call \in {"in", "out"})
MembersInv == Informed => NewsIsRight /\ (News = {} => Known = Rows)

\* What will be shown is announced now, and what will be put off has escaped a
\* retraction.
TypingInv == Founded(frames, expires, unretracted)

PeopleInv == InputInv /\ ServerFits /\ WatcherFits /\ MembersInv /\ TypingInv

LEMMA ExpiryIsPositive == Expiry \in Nat /\ Expiry > 0 /\ NULL \notin Nat
BY PeopleAssumption

LEMMA NewsAreNews == NewsOf(frames) = News /\ (Right(frames, member) <=> NewsIsRight)
BY DEF NewsOf, News, Right, NewsIsRight

LEMMA NewsAreNewsNext ==
    NewsOf(frames') = News' /\ (Right(frames', member') <=> NewsIsRight')
BY DEF NewsOf, News, Right, NewsIsRight

\* The frames of one action of ChatInput say nothing of the membership.
LEMMA AnnouncementsAreNoNews ==
    ASSUME NEW s \in Seq(Kinds), NEW m \in BOOLEAN, NEW x \in Seq({"typing", "idle"})
    PROVE  /\ s \o x \in Seq(Kinds)
           /\ NewsOf(s \o x) = NewsOf(s)
           /\ Right(s, m) => Right(s \o x, m)
<1> DEFINE t == s \o x
<1>1. x \in Seq(Kinds)
  BY DEF Kinds
<1>2. /\ t \in Seq(Kinds) /\ Len(s) \in Nat /\ Len(x) \in Nat
      /\ DOMAIN s = 1..Len(s) /\ DOMAIN t = 1..Len(s) + Len(x)
      /\ \A k \in 1..Len(s) : t[k] = s[k]
      /\ \A k \in 1..Len(s) + Len(x) : k > Len(s) => t[k] = x[k - Len(s)]
  BY <1>1, ConcatProperties, LenProperties
<1> HIDE DEF t
<1>3. ASSUME NEW k \in DOMAIN t, k > Len(s) PROVE t[k] \in {"typing", "idle"}
  <2>1. k - Len(s) \in 1..Len(x) /\ t[k] = x[k - Len(s)]
    BY <1>2, <1>3
  <2> QED
    BY <2>1, ElementOfSeq
<1>4. NewsOf(t) = NewsOf(s)
  <2>1. ASSUME NEW k \in NewsOf(t) PROVE k \in NewsOf(s)
    <3>1. k \in 1..Len(s) + Len(x) /\ t[k] \in {"joined", "left"}
      BY <1>2, <2>1 DEF NewsOf
    <3>2. ~(k > Len(s))
      BY <1>2, <1>3, <3>1, Zenon
    <3>3. k <= Len(s)
      BY <1>2, <3>1, <3>2
    <3> QED
      BY <1>2, <3>1, <3>3 DEF NewsOf
  <2>2. ASSUME NEW k \in NewsOf(s) PROVE k \in NewsOf(t)
    BY <1>2, <2>2 DEF NewsOf
  <2> QED
    BY <2>1, <2>2
<1>5. \A k \in NewsOf(s) : t[k] = s[k]
  BY <1>2 DEF NewsOf
<1> QED
  BY <1>2, <1>4, <1>5 DEF t, Right

LEMMA ThroughTyped ==
    ASSUME NEW told, told \in {<<>>, <<TRUE>>, <<FALSE>>, <<TRUE, FALSE>>, <<FALSE, FALSE>>}
    PROVE  Through(told) \in Seq({"typing", "idle"})
<1>1. CASE ~Passes
  <2>1. Through(told) = <<>>
    BY <1>1 DEF Through
  <2> QED
    BY <2>1
<1>2. CASE Passes
  <2>1. Through(told) = [k \in DOMAIN told |-> Frame(told[k])]
    BY <1>2 DEF Through
  <2>2. \A x : Frame(x) \in {"typing", "idle"}
    BY DEF Frame
  <2>3. \E n \in Nat : DOMAIN told = 1..n
    OBVIOUS
  <2>4. PICK n \in Nat : DOMAIN told = 1..n
    BY <2>3
  <2>5. Through(told) \in [1..n -> {"typing", "idle"}]
    BY <2>1, <2>2, <2>4
  <2> QED
    BY <2>5, SeqDef
<1> QED
  BY <1>1, <1>2

-------------------------------------------------------------------------------
\* Frames that say nothing of the membership leave what the watcher knows.
LEMMA MembersStay ==
    ASSUME PeopleInv, UNCHANGED <<member, call, detail, missed>>,
           NewsOf(frames') = NewsOf(frames),
           Right(frames, member) => Right(frames', member)
    PROVE  MembersInv'
<1>1. News' = News /\ (NewsIsRight => NewsIsRight')
  BY NewsAreNews, NewsAreNewsNext
<1>2. Informed' = Informed /\ Known' = Known /\ Rows' = Rows
  BY DEF Informed, Known, Rows
<1> QED
  BY <1>1, <1>2 DEF PeopleInv, MembersInv

\* With fewer ticks left of an entry nothing more will be shown or put off.
LEMMA FewerTicks ==
    ASSUME NEW s, NEW e \in Nat, NEW f \in Nat, f > 0 => e > 0
    PROVE  (WillShow(s, f) => WillShow(s, e)) /\ (WillPutOff(s, f) => WillPutOff(s, e))
BY DEF WillShow, WillPutOff

LEMMA PutOffIsShown ==
    ASSUME NEW s, NEW e \in Nat, e = 0, \A k \in DOMAIN s : s[k] # "typing"
    PROVE  ~WillShow(s, e) /\ ~WillPutOff(s, e)
BY DEF WillShow, WillPutOff

LEMMA TellingIsTold ==
    ASSUME NEW told, Telling(told)
    PROVE  told \in {<<>>, <<TRUE>>, <<FALSE>>, <<TRUE, FALSE>>}
BY Zenon DEF Telling

\* An action of ChatInput and the frames that it sends after s
LEMMA Announced ==
    ASSUME PeopleInv, NEW told, Telling(told),
           NEW s \in Seq(Kinds), Founded(s, expires, unretracted),
           NewsOf(s) = NewsOf(frames), Right(frames, member) => Right(s, member),
           frames' = s \o Through(told),
           unretracted' = (unretracted \/ Lost(told)),
           InputInv', UNCHANGED <<speaks, member, subscribed, watcherVars, missed>>
    PROVE  PeopleInv'
<1>1. told \in {<<>>, <<TRUE>>, <<FALSE>>, <<TRUE, FALSE>>, <<FALSE, FALSE>>}
  BY TellingIsTold, Zenon
<1>2. Through(told) \in Seq({"typing", "idle"})
  BY <1>1, ThroughTyped
<1>3. /\ frames' \in Seq(Kinds) /\ NewsOf(frames') = NewsOf(frames)
      /\ Right(frames, member) => Right(frames', member)
  BY <1>2, AnnouncementsAreNoNews DEF PeopleInv, ServerFits
<1>4. ServerFits'
  BY <1>3 DEF PeopleInv, ServerFits
<1>5. WatcherFits' /\ UNCHANGED <<call, detail, expires>>
  BY DEF PeopleInv, WatcherFits, watcherVars
<1>6. MembersInv'
  BY <1>3, <1>5, MembersStay
<1>7. TypingInv'
  <2>1. expires \in Nat /\ unretracted \in BOOLEAN /\ lastEmittedState \in BOOLEAN
    BY ExpiryIsPositive DEF PeopleInv, WatcherFits, ServerFits, InputInv, Flags
  <2>2. /\ WillShow(frames', expires) => lastEmittedState' \/ unretracted \/ Lost(told)
        /\ WillPutOff(frames', expires) => unretracted \/ Lost(told)
    BY <2>1, AnnouncementsFollow
  <2>3. unretracted \/ Lost(told) => unretracted'
    OBVIOUS
  <2>4. TypingInv' <=> /\ WillShow(frames', expires') => lastEmittedState' \/ unretracted'
                       /\ WillPutOff(frames', expires') => unretracted'
    BY DEF TypingInv, Founded, WillShow, WillPutOff
  <2> QED
    BY <1>5, <2>2, <2>3, <2>4
<1> QED
  BY <1>4, <1>5, <1>6, <1>7 DEF PeopleInv

LEMMA NothingBefore ==
    ASSUME PeopleInv
    PROVE  frames \in Seq(Kinds) /\ Founded(frames, expires, unretracted) /\ InputTypeOK
BY InputTyped DEF PeopleInv, ServerFits, TypingInv

LEMMA UserActsKeeps == ASSUME PeopleInv, UserActs PROVE PeopleInv'
<1>1. ASSUME NEW told, Type(told) \/ SendFails(told), Typing(told) PROVE PeopleInv'
  <2>1. InputInv' /\ Telling(told)
    BY <1>1, TypeKeeps, SendFailsKeeps, InputTells, NothingBefore DEF PeopleInv
  <2> QED
    BY <1>1, <2>1, Announced, NothingBefore DEF UserActs, Typing
<1>2. ASSUME \/ Click \/ KeyUp \/ Arrow(1) \/ Arrow(-1) \/ Pick \/ Escape \/ Submit
             \/ \E n \in 0..MaxMatches : MatchesChange(n),
             UNCHANGED <<frames, unretracted>>
      PROVE  PeopleInv'
  <2>1. InputInv' /\ UNCHANGED lastEmittedState
    BY <1>2, MentionKeeps, MentionIsSilent DEF PeopleInv
  <2>2. UNCHANGED <<speaks, member, subscribed, frames, mounted, call, detail, expires, missed, unretracted>>
    BY <1>2 DEF UserActs, watcherVars
  <2>3. ServerFits' /\ WatcherFits'
    BY <2>2 DEF PeopleInv, ServerFits, WatcherFits
  <2>4. MembersInv'
    BY <2>2, MembersStay
  <2>5. TypingInv'
    BY <2>1, <2>2 DEF PeopleInv, TypingInv, Founded, WillShow, WillPutOff
  <2> QED
    BY <2>1, <2>3, <2>4, <2>5 DEF PeopleInv
<1> QED
  BY <1>1, <1>2 DEF UserActs

LEMMA MessageSentKeeps == ASSUME PeopleInv, MessageSent PROVE PeopleInv'
<1>1. PICK told \in Tells :
          /\ Sent(told)
          /\ frames' = frames \o (IF subscribed THEN <<"message">> ELSE <<>>) \o Through(told)
          /\ unretracted' = (unretracted \/ Lost(told))
  BY DEF MessageSent
<1>2. InputInv' /\ Telling(told)
  BY <1>1, SentKeeps, InputTells, NothingBefore DEF PeopleInv
<1> DEFINE s == frames \o (IF subscribed THEN <<"message">> ELSE <<>>)
<1>3. /\ s \in Seq(Kinds) /\ Founded(s, expires, unretracted)
      /\ NewsOf(s) = NewsOf(frames) /\ (Right(frames, member) => Right(s, member))
  <2>1. CASE subscribed
    <3>1. s = Append(frames, "message") /\ "message" \in Kinds
      BY <2>1, NothingBefore, AppendIsConcat DEF Kinds
    <3>2. member \in BOOLEAN /\ expires \in Nat
      BY ExpiryIsPositive DEF PeopleInv, ServerFits, WatcherFits
    <3>3. /\ WillShow(s, expires) => WillShow(frames, expires)
          /\ WillPutOff(s, expires) => WillPutOff(frames, expires)
          /\ s \in Seq(Kinds)
      BY <3>1, <3>2, NothingBefore, MessageAppended
    <3>4. Founded(s, expires, unretracted)
      BY <3>3, NothingBefore DEF Founded
    <3> QED
      BY <3>1, <3>2, <3>3, <3>4, NothingBefore, NewsAppended
  <2>2. CASE ~subscribed
    <3>1. s = frames
      BY <2>2, NothingBefore, ConcatEmptySeq
    <3> QED
      BY <3>1, NothingBefore
  <2> QED
    BY <2>1, <2>2
<1>4. frames' = s \o Through(told)
  BY <1>1
<1> HIDE DEF s
<1> QED
  BY <1>1, <1>2, <1>3, <1>4, Announced DEF MessageSent

LEMMA UserLeavesViewKeeps == ASSUME PeopleInv, UserLeavesView PROVE PeopleInv'
<1>1. PICK told \in Tells :
          /\ LeaveInput(told)
          /\ frames' = frames \o Through(told \o <<FALSE>>)
          /\ unretracted' = (unretracted \/ Lost(told))
  BY DEF UserLeavesView
<1>2. InputInv' /\ Telling(told)
  BY <1>1, SentKeeps, InputTells, NothingBefore DEF PeopleInv
<1>3. /\ ~lastEmittedState'
      /\ lastEmittedState => told = <<FALSE>>
      /\ ~lastEmittedState => told = <<>>
  BY <1>1, CancelTells, NothingBefore DEF LeaveInput
<1>4. lastEmittedState \in BOOLEAN /\ unretracted \in BOOLEAN /\ expires \in Nat /\ member \in BOOLEAN
  BY ExpiryIsPositive DEF PeopleInv, WatcherFits, ServerFits, InputInv, Flags
<1>5. UNCHANGED <<speaks, member, subscribed, watcherVars, missed>>
  BY <1>1 DEF UserLeavesView
<1>6. CASE ~Passes
  <2>1. Through(told \o <<FALSE>>) = Through(told)
    BY <1>6 DEF Through
  <2> QED
    BY <1>1, <1>2, <1>5, <2>1, Announced, NothingBefore
<1>7. CASE Passes
  <2>1. told \o <<FALSE>> \in {<<FALSE>>, <<FALSE, FALSE>>}
    BY <1>3, <1>4, Emissions, Zenon
  <2>2. Through(told \o <<FALSE>>) \in {<<"idle">>, <<"idle", "idle">>}
    <3>1. Frame(FALSE) = "idle"
      BY DEF Frame
    <3>2. ASSUME NEW t PROVE Through(t) = [k \in DOMAIN t |-> Frame(t[k])]
      BY <1>7 DEF Through
    <3>3. ASSUME NEW x PROVE Through(<<x>>) = <<Frame(x)>>
      BY <3>2
    <3>4. ASSUME NEW x PROVE Through(<<x, x>>) = <<Frame(x), Frame(x)>>
      BY <3>2
    <3> QED
      BY <2>1, <3>1, <3>3, <3>4, Zenon
  <2>3. /\ "idle" \in Kinds
        /\ frames' \in {Append(frames, "idle"), Append(Append(frames, "idle"), "idle")}
    <3>1. /\ frames \o <<"idle">> = Append(frames, "idle")
          /\ frames \o <<"idle", "idle">> = Append(Append(frames, "idle"), "idle")
      BY NothingBefore
    <3>2. "idle" \in Kinds
      BY DEF Kinds
    <3> QED
      BY <1>1, <2>2, <3>1, <3>2
  <2>4. /\ frames' \in Seq(Kinds) /\ ~WillShow(frames', expires)
        /\ WillPutOff(frames', expires) => WillPutOff(frames, expires)
    <3>1. /\ Append(frames, "idle") \in Seq(Kinds)
          /\ ~WillShow(Append(frames, "idle"), expires)
          /\ WillPutOff(Append(frames, "idle"), expires) => WillPutOff(frames, expires)
      BY <1>4, NothingBefore, IdleAppended
    <3>2. /\ Append(Append(frames, "idle"), "idle") \in Seq(Kinds)
          /\ ~WillShow(Append(Append(frames, "idle"), "idle"), expires)
          /\ WillPutOff(Append(Append(frames, "idle"), "idle"), expires) => WillPutOff(frames, expires)
      BY <1>4, <3>1, NothingBefore, IdleAppended
    <3> QED
      BY <2>3, <3>1, <3>2
  <2>5. /\ NewsOf(frames') = NewsOf(frames)
        /\ Right(frames, member) => Right(frames', member)
    <3>1. /\ Append(frames, "idle") \in Seq(Kinds)
          /\ NewsOf(Append(frames, "idle")) = NewsOf(frames)
          /\ Right(frames, member) => Right(Append(frames, "idle"), member)
      BY <1>4, <2>3, NothingBefore, FrameAppended, NewsAppended
    <3> QED
      BY <1>4, <2>3, <3>1, NewsAppended
  <2>6. Lost(told) \in BOOLEAN /\ ~Lost(told) /\ unretracted' = (unretracted \/ Lost(told))
    BY <1>1, <1>7 DEF Lost
  <2>7. unretracted' \in BOOLEAN /\ (unretracted => unretracted')
    BY <1>4, <2>6
  <2>8. UNCHANGED <<speaks, member, subscribed, mounted, call, detail, expires, missed>>
    BY <1>5 DEF watcherVars
  <2>9. ServerFits' /\ WatcherFits'
    BY <2>4, <2>7, <2>8 DEF PeopleInv, ServerFits, WatcherFits
  <2>10. MembersInv'
    BY <2>5, <2>8, MembersStay
  <2>11. ~WillShow(frames', expires') /\ (WillPutOff(frames', expires') => unretracted')
    BY <2>4, <2>7, <2>8, NothingBefore DEF Founded
  <2>12. TypingInv' <=> /\ WillShow(frames', expires') => lastEmittedState' \/ unretracted'
                        /\ WillPutOff(frames', expires') => unretracted'
    BY DEF TypingInv, Founded, WillShow, WillPutOff
  <2> QED
    BY <1>2, <2>9, <2>10, <2>11, <2>12 DEF PeopleInv
<1> QED
  BY <1>6, <1>7

LEMMA TickKeeps == ASSUME PeopleInv, Tick PROVE PeopleInv'
<1>1. PICK told \in Tells :
          /\ InputTick(told)
          /\ frames' = frames \o Through(told)
          /\ unretracted' = \/ Lost(told)
                            \/ unretracted /\ (expires' > 0 \/ "typing" \in ToSet(frames))
  BY DEF Tick
<1>2. InputInv' /\ Telling(told)
  BY <1>1, InputTickKeeps, InputTells, NothingBefore DEF PeopleInv
<1>3. /\ expires' \in 0..Expiry /\ expires \in Nat /\ (expires' > 0 => expires > 0)
      /\ UNCHANGED <<speaks, member, subscribed, mounted, call, detail, missed>>
      /\ expires = 0 => expires' = 0
  BY ExpiryIsPositive DEF Tick, Swept, PeopleInv, WatcherFits
<1>4. lastEmittedState \in BOOLEAN /\ unretracted \in BOOLEAN /\ member \in BOOLEAN
  BY DEF PeopleInv, ServerFits, InputInv, Flags
<1>5. told \in {<<>>, <<TRUE>>, <<FALSE>>, <<TRUE, FALSE>>, <<FALSE, FALSE>>}
  BY <1>2, TellingIsTold, Zenon
<1>6. /\ frames' \in Seq(Kinds) /\ NewsOf(frames') = NewsOf(frames)
      /\ Right(frames, member) => Right(frames', member)
  BY <1>1, <1>4, <1>5, NothingBefore, ThroughTyped, AnnouncementsAreNoNews
<1>7. Lost(told) \in BOOLEAN
  BY DEF Lost
<1>8. unretracted' \in BOOLEAN
  BY <1>1, <1>4, <1>7
<1>9. ServerFits' /\ WatcherFits'
  BY <1>3, <1>6, <1>8 DEF PeopleInv, ServerFits, WatcherFits
<1>10. MembersInv'
  BY <1>3, <1>6, MembersStay
<1> DEFINE u == unretracted /\ (expires' > 0 \/ "typing" \in ToSet(frames))
<1>11. u \in BOOLEAN /\ unretracted' = (Lost(told) \/ u)
  BY <1>1
<1>12. Founded(frames, expires', u)
  <2>1. CASE u
    <3>1. unretracted
      BY <2>1
    <3> HIDE DEF u
    <3> QED
      BY <2>1 DEF Founded
  <2>2. CASE ~unretracted
    <3>1. ~WillPutOff(frames, expires) /\ (WillShow(frames, expires) => lastEmittedState)
      BY <2>2, NothingBefore DEF Founded
    <3>2. ~WillPutOff(frames, expires') /\ (WillShow(frames, expires') => lastEmittedState)
      BY <1>3, <3>1, FewerTicks, ExpiryIsPositive
    <3> HIDE DEF u
    <3> QED
      BY <3>2 DEF Founded
  <2>3. CASE ~(expires' > 0) /\ "typing" \notin ToSet(frames)
    <3>1. expires' = 0 /\ \A k \in DOMAIN frames : frames[k] # "typing"
      BY <1>3, <2>3, ExpiryIsPositive DEF ToSet
    <3>2. ~WillShow(frames, expires') /\ ~WillPutOff(frames, expires')
      BY <3>1, PutOffIsShown
    <3> HIDE DEF u
    <3> QED
      BY <3>2 DEF Founded
  <2> QED
    BY <2>1, <2>2, <2>3
<1> HIDE DEF u
<1>13. /\ WillShow(frames', expires') => lastEmittedState' \/ u \/ Lost(told)
       /\ WillPutOff(frames', expires') => u \/ Lost(told)
  <2>1. expires' \in Nat
    BY <1>3, ExpiryIsPositive
  <2> QED
    BY <1>1, <1>2, <1>4, <1>11, <1>12, <2>1, NothingBefore, AnnouncementsFollow
<1>14. u \/ Lost(told) => unretracted'
  BY <1>11
<1>15. TypingInv' <=> /\ WillShow(frames', expires') => lastEmittedState' \/ unretracted'
                      /\ WillPutOff(frames', expires') => unretracted'
  BY DEF TypingInv, Founded, WillShow, WillPutOff
<1> QED
  BY <1>2, <1>9, <1>10, <1>13, <1>14, <1>15 DEF PeopleInv

-------------------------------------------------------------------------------
\* The other actions leave ChatInput alone.
LEMMA InputStays == ASSUME PeopleInv, UNCHANGED inputVars PROVE InputInv' /\ UNCHANGED lastEmittedState
<1>1. UNCHANGED <<sending, typingVars>> /\ UNCHANGED <<draft, mentionVars>>
  BY DEF inputVars
<1>2. sending' \in BOOLEAN /\ UNCHANGED lastEmittedState
  BY <1>1 DEF PeopleInv, InputInv, Flags, typingVars
<1> QED
  BY <1>1, <1>2, Whole, TimersStay, MentionStays DEF PeopleInv

\* TypingInv when ChatInput stays as it is, the frames become s, and what will
\* be shown or put off was so before unless nobody knows
LEMMA TypingFollows ==
    ASSUME UNCHANGED lastEmittedState,
           WillShow(frames', expires') => WillShow(frames, expires) \/ unretracted',
           WillPutOff(frames', expires') => WillPutOff(frames, expires) \/ unretracted',
           unretracted => unretracted' \/ ~(WillShow(frames', expires') \/ WillPutOff(frames', expires')),
           TypingInv
    PROVE  TypingInv'
<1>1. TypingInv' <=> /\ WillShow(frames', expires') => lastEmittedState' \/ unretracted'
                     /\ WillPutOff(frames', expires') => unretracted'
  BY DEF TypingInv, Founded, WillShow, WillPutOff
<1>2. /\ WillShow(frames, expires) => lastEmittedState \/ unretracted
      /\ WillPutOff(frames, expires) => unretracted
  BY DEF TypingInv, Founded
<1> QED
  BY <1>1, <1>2

LEMMA UserSpeaksKeeps == ASSUME PeopleInv, UserSpeaks PROVE PeopleInv'
<1>1. UNCHANGED <<member, subscribed, frames, mounted, call, detail, expires, missed, unretracted>>
  BY DEF UserSpeaks, watcherVars
<1>2. InputInv' /\ UNCHANGED lastEmittedState
  BY InputStays DEF UserSpeaks
<1>3. speaks' \in BOOLEAN
  BY DEF UserSpeaks
<1>4. ServerFits' /\ WatcherFits'
  BY <1>1, <1>3 DEF PeopleInv, ServerFits, WatcherFits
<1>5. MembersInv'
  BY <1>1, MembersStay
<1>6. TypingInv'
  BY <1>1, <1>2, TypingFollows DEF PeopleInv
<1> QED
  BY <1>2, <1>4, <1>5, <1>6 DEF PeopleInv

LEMMA MembershipChangesKeeps == ASSUME PeopleInv, MembershipChanges PROVE PeopleInv'
<1>1. /\ UNCHANGED inputVars
      /\ UNCHANGED <<speaks, subscribed, mounted, call, detail, expires, unretracted>>
      /\ frames' = IF subscribed THEN Append(frames, IF member THEN "left" ELSE "joined") ELSE frames
  BY DEF MembershipChanges, Idle, watcherVars
<1>2. InputInv' /\ UNCHANGED lastEmittedState
  BY <1>1, InputStays
<1>3. member' \in BOOLEAN /\ (member' <=> ~member) /\ missed' \in BOOLEAN /\ (missed' <=> ~subscribed)
  BY DEF MembershipChanges
<1>4. /\ member \in BOOLEAN /\ subscribed \in BOOLEAN /\ expires \in Nat
      /\ "left" \in Kinds /\ "joined" \in Kinds
  BY ExpiryIsPositive DEF PeopleInv, ServerFits, WatcherFits, Kinds
<1>5. ASSUME NEW x \in {"left", "joined"}, frames' = Append(frames, x), (x = "joined") = member'
      PROVE  /\ frames' \in Seq(Kinds)
             /\ WillShow(frames', expires) => WillShow(frames, expires)
             /\ WillPutOff(frames', expires) => WillPutOff(frames, expires)
             /\ News' # {} /\ NewsIsRight'
  BY <1>3, <1>4, <1>5, NothingBefore, FrameAppended, NewsAppended, NewsAreNewsNext
<1>6. /\ frames' \in Seq(Kinds)
      /\ WillShow(frames', expires) => WillShow(frames, expires)
      /\ WillPutOff(frames', expires) => WillPutOff(frames, expires)
      /\ subscribed => News' # {} /\ NewsIsRight'
  <2>1. CASE ~subscribed
    BY <1>1, <2>1, NothingBefore
  <2>2. CASE subscribed /\ member
    <3>1. frames' = Append(frames, "left") /\ ~member'
      BY <1>1, <1>3, <2>2
    <3>2. ("left" = "joined") = member'
      BY <1>3, <3>1
    <3> QED
      BY <1>5, <3>1, <3>2
  <2>3. CASE subscribed /\ ~member
    <3>1. frames' = Append(frames, "joined") /\ member'
      BY <1>1, <1>3, <2>3
    <3>2. ("joined" = "joined") = member'
      BY <1>3, <3>1
    <3> QED
      BY <1>5, <3>1, <3>2
  <2> QED
    BY <2>1, <2>2, <2>3
<1>7. ServerFits' /\ WatcherFits'
  BY <1>1, <1>3, <1>6 DEF PeopleInv, ServerFits, WatcherFits
<1>8. MembersInv'
  BY <1>3, <1>6 DEF MembersInv, Informed
<1>9. TypingInv'
  BY <1>1, <1>2, <1>6, TypingFollows DEF PeopleInv
<1> QED
  BY <1>2, <1>7, <1>8, <1>9 DEF PeopleInv

\* The watcher and his call of loadDetail; no frame comes or goes.
LEMMA WatcherKeeps ==
    ASSUME PeopleInv,
           \/ WatcherMounts \/ WatcherUnmounts \/ DetailServed \/ DetailLands \/ DetailFails
           \/ SubscriptionHeard
    PROVE  PeopleInv'
<1>1. UNCHANGED inputVars /\ UNCHANGED <<speaks, member, frames, unretracted>>
  BY DEF WatcherMounts, WatcherUnmounts, DetailServed, DetailLands, DetailFails, SubscriptionHeard,
         Idle
<1>2. InputInv' /\ UNCHANGED lastEmittedState
  BY <1>1, InputStays
<1>3. subscribed' \in BOOLEAN /\ missed' \in BOOLEAN
  BY DEF PeopleInv, ServerFits, WatcherFits, WatcherMounts, WatcherUnmounts, DetailServed,
         DetailLands, DetailFails, SubscriptionHeard, NewsIsRight
<1>4. ServerFits'
  BY <1>1, <1>3 DEF PeopleInv, ServerFits
<1>5. WatcherFits'
  <2>1. CASE WatcherMounts
    <3>1. mounted' \in BOOLEAN /\ mounted' /\ UNCHANGED <<detail, expires>> /\ call' = "asked" /\ ~mounted
      BY <2>1 DEF WatcherMounts
    <3> QED
      BY <3>1 DEF PeopleInv, WatcherFits
  <2>2. CASE WatcherUnmounts
    <3>1. mounted' \in BOOLEAN /\ ~mounted' /\ detail' = NULL /\ expires' = 0 /\ call' = "none"
      BY <2>2 DEF WatcherUnmounts
    <3> QED
      BY <3>1, ExpiryIsPositive DEF PeopleInv, WatcherFits
  <2>3. CASE DetailServed
    BY <2>3 DEF PeopleInv, WatcherFits, DetailServed
  <2>4. CASE DetailLands
    BY <2>4, ExpiryIsPositive DEF PeopleInv, WatcherFits, DetailLands
  <2>5. CASE DetailFails
    BY <2>5 DEF PeopleInv, WatcherFits, DetailFails
  <2>6. CASE SubscriptionHeard
    BY <2>6 DEF PeopleInv, WatcherFits, SubscriptionHeard, watcherVars
  <2> QED
    BY <2>1, <2>2, <2>3, <2>4, <2>5, <2>6
<1>6. MembersInv'
  <2>1. NewsIsRight' = NewsIsRight /\ News' = News /\ Rows' = Rows
    BY <1>1 DEF NewsIsRight, News, Rows
  <2>2. CASE WatcherMounts \/ WatcherUnmounts \/ DetailFails
    <3>1. detail' = NULL /\ call' \in {"none", "asked"}
      BY <2>2 DEF WatcherMounts, WatcherUnmounts, DetailFails, PeopleInv, WatcherFits
    <3> QED
      BY <3>1 DEF MembersInv, Informed
  <2>3. CASE DetailServed
    <3>1. missed' \in BOOLEAN /\ (missed' <=> ~NewsIsRight)
      BY <1>3, <2>3 DEF DetailServed, NewsIsRight
    <3>2. Known' = Rows
      BY <2>3, ExpiryIsPositive DEF DetailServed, Known, Rows
    <3> QED
      BY <2>1, <3>1, <3>2 DEF MembersInv, Informed
  <2>4. CASE DetailLands
    <3>1. Known' = Known /\ (Informed' => Informed)
      BY <2>4 DEF DetailLands, Known, Informed
    <3> QED
      BY <2>1, <3>1 DEF PeopleInv, MembersInv
  <2>5. CASE SubscriptionHeard
    BY <1>1, <2>5, MembersStay DEF SubscriptionHeard, watcherVars
  <2> QED
    BY <2>2, <2>3, <2>4, <2>5
<1>7. TypingInv'
  <2>1. expires \in Nat /\ expires' \in Nat /\ (expires' > 0 => expires > 0)
    BY ExpiryIsPositive DEF PeopleInv, WatcherFits, WatcherMounts, WatcherUnmounts, DetailServed,
         DetailLands, DetailFails, SubscriptionHeard, watcherVars
  <2>2. /\ WillShow(frames, expires') => WillShow(frames, expires)
        /\ WillPutOff(frames, expires') => WillPutOff(frames, expires)
    BY <2>1, FewerTicks
  <2>3. frames' = frames /\ unretracted' = unretracted
    BY <1>1
  <2> QED
    BY <1>2, <2>2, <2>3, TypingFollows DEF PeopleInv
<1> QED
  BY <1>2, <1>4, <1>5, <1>6, <1>7 DEF PeopleInv

LEMMA WatcherDisconnectsKeeps == ASSUME PeopleInv, WatcherDisconnects PROVE PeopleInv'
<1>1. /\ UNCHANGED inputVars /\ UNCHANGED <<speaks, member, mounted, call, detail, expires>>
      /\ frames' = <<>>
  BY DEF WatcherDisconnects, Idle, watcherVars
<1>2. InputInv' /\ UNCHANGED lastEmittedState
  BY <1>1, InputStays
<1>3. /\ subscribed' \in BOOLEAN /\ missed' \in BOOLEAN /\ unretracted' \in BOOLEAN
      /\ missed' <=> missed \/ {"joined", "left"} \cap ToSet(frames) # {}
      /\ unretracted' <=> unretracted \/ "idle" \in ToSet(frames)
  BY DEF PeopleInv, ServerFits, WatcherDisconnects
<1>4. frames \in Seq(Kinds) /\ frames' \in Seq(Kinds)
      /\ DOMAIN frames = 1..Len(frames) /\ Len(frames) \in Nat
  BY <1>1, NothingBefore, LenProperties
<1>5. ServerFits' /\ WatcherFits'
  BY <1>1, <1>3, <1>4 DEF PeopleInv, ServerFits, WatcherFits
<1>6. MembersInv'
  <2>1. ASSUME ~missed' PROVE ~missed /\ News = {}
    BY <1>3, <2>1 DEF News, ToSet
  <2>2. Rows' = Rows /\ Known' = Known /\ (Informed' => Informed)
    BY <1>1, <2>1 DEF Rows, Known, Informed
  <2>3. News' = {}
    BY <1>1 DEF News
  <2>4. NewsIsRight'
    BY <2>3 DEF NewsIsRight
  <2> QED
    BY <2>1, <2>2, <2>3, <2>4 DEF PeopleInv, MembersInv, Informed
<1>7. TypingInv'
  <2>1. ~WillPutOff(frames', expires')
    BY <1>1 DEF WillPutOff
  <2>2. WillShow(frames', expires') => WillShow(frames, expires) \/ unretracted'
    <3>1. WillShow(frames', expires') => expires > 0
      BY <1>1 DEF WillShow
    <3>2. ~unretracted' => \A n \in DOMAIN frames : frames[n] # "idle"
      BY <1>3 DEF ToSet
    <3> QED
      BY <3>1, <3>2 DEF WillShow
  <2> QED
    BY <1>2, <1>3, <2>1, <2>2, TypingFollows DEF PeopleInv
<1> QED
  BY <1>2, <1>5, <1>6, <1>7 DEF PeopleInv

LEMMA HandleKeeps == ASSUME PeopleInv, Handle PROVE PeopleInv'
<1> DEFINE f == Head(frames)
<1>1. /\ frames # <<>> /\ frames' = Tail(frames)
      /\ UNCHANGED inputVars /\ UNCHANGED <<speaks, member, subscribed, mounted, call>>
  BY DEF Handle, Idle
<1>2. InputInv' /\ UNCHANGED lastEmittedState
  BY <1>1, InputStays
<1>3. f \in Kinds
  BY <1>1, NothingBefore, HeadTailProperties
<1>4. detail' = IF detail = NULL THEN NULL
                ELSE CASE f = "joined" -> Joined(detail)
                       [] f = "left"   -> Departed(detail)
                       [] OTHER        -> detail
  BY DEF Handle
<1>5. expires' = CASE ~mounted -> 0
                   [] f \in {"idle", "message"} -> 0
                   [] f = "left" /\ detail # NULL -> 0
                   [] f = "typing" /\ detail \notin {NULL, 0} -> Expiry
                   [] OTHER -> expires
  BY DEF Handle
<1>6. /\ missed' \in BOOLEAN
      /\ missed' <=> missed \/ (f = "joined" /\ call = "out") \/ (f = "left" /\ call = "in")
  BY DEF Handle, PeopleInv, ServerFits
<1>7. /\ unretracted' \in BOOLEAN
      /\ unretracted' <=> (unretracted /\ (f # "idle" \/ "typing" \in ToSet(frames')))
  BY DEF Handle, PeopleInv, ServerFits
<1> HIDE DEF f
<1>8. /\ mounted \in BOOLEAN /\ detail \in {NULL, 0, 1} /\ expires \in Nat /\ member \in BOOLEAN
      /\ call \in {"none", "asked", "in", "out"}
      /\ expires \in 0..Expiry /\ (expires > 0 => detail = 1)
      /\ ~mounted => call = "none" /\ detail = NULL /\ expires = 0
      /\ detail # NULL => call = "none"
  BY ExpiryIsPositive DEF PeopleInv, WatcherFits, ServerFits
<1>9. /\ detail = NULL => detail' = NULL
      /\ detail # NULL => detail' = CASE f = "joined" -> 1 [] f = "left" -> 0 [] OTHER -> detail
  BY <1>4, <1>8, ExpiryIsPositive DEF Joined, Departed
<1>10. WatcherFits'
  <2>1. expires' \in 0..Expiry /\ (expires' > 0 => detail' = 1) /\ (~mounted => expires' = 0)
    BY <1>3, <1>5, <1>8, <1>9, ExpiryIsPositive DEF Kinds
  <2>2. /\ detail' \in {NULL, 0, 1} /\ (~mounted => detail' = NULL)
        /\ detail' # NULL => detail # NULL
    BY <1>8, <1>9
  <2> QED
    BY <1>1, <1>8, <2>1, <2>2 DEF WatcherFits
<1>11. expires' \in Nat /\ (expires' > 0 => expires > 0 \/ f = "typing") /\ (f = "idle" => expires' = 0)
  BY <1>3, <1>5, <1>8, ExpiryIsPositive
<1>12. /\ frames' \in Seq(Kinds)
       /\ WillShow(frames', expires') => WillShow(frames, expires)
       /\ WillPutOff(frames', expires') => WillPutOff(frames, expires)
  BY <1>1, <1>8, <1>11, NothingBefore, FrameHandled DEF f
<1>13. ServerFits'
  BY <1>1, <1>6, <1>7, <1>12 DEF PeopleInv, ServerFits
<1>14. MembersInv'
  <2>1. /\ Right(frames, member) => Right(Tail(frames), member)
        /\ Right(frames, member) /\ NewsOf(Tail(frames)) = {} =>
              /\ f \notin {"joined", "left"} => NewsOf(frames) = {}
              /\ f \in {"joined", "left"} => (f = "joined") = member
    BY <1>1, <1>8, NothingBefore, NewsHandled DEF f
  <2>2. /\ NewsIsRight => NewsIsRight'
        /\ NewsIsRight /\ News' = {} =>
              /\ f \notin {"joined", "left"} => News = {}
              /\ f \in {"joined", "left"} => (f = "joined") = member
    BY <1>1, <2>1, NewsAreNews, NewsAreNewsNext
  <2>3. Informed' => Informed
    BY <1>1, <1>6, <1>9 DEF Informed
  <2>4. ASSUME Informed', News' = {} PROVE Known' = Rows'
    <3>1. Rows' = Rows
      BY <1>1 DEF Rows
    <3>2. /\ f \notin {"joined", "left"} => Known = Rows
          /\ f = "joined" => member
          /\ f = "left" => ~member
      BY <1>8, <2>2, <2>3, <2>4 DEF PeopleInv, MembersInv
    <3>3. CASE call \in {"in", "out"}
      <4>1. Known' = Known /\ Known = (IF call = "in" THEN 1 ELSE 0)
        BY <1>1, <3>3 DEF Known
      <4>2. (f = "joined" => call = "in") /\ (f = "left" => call = "out")
        BY <1>6, <2>4, <3>3 DEF Informed
      <4> QED
        BY <3>1, <3>2, <3>3, <4>1, <4>2 DEF Rows
    <3>4. CASE call \notin {"in", "out"}
      <4>1. Known' = detail' /\ Known = detail /\ detail # NULL
        BY <1>1, <2>3, <2>4, <3>4 DEF Known, Informed
      <4> QED
        BY <1>9, <3>1, <3>2, <4>1 DEF Rows
    <3> QED
      BY <3>3, <3>4
  <2> QED
    BY <2>2, <2>3, <2>4 DEF PeopleInv, MembersInv
<1>15. TypingInv'
  <2>1. unretracted /\ ~unretracted' => ~WillShow(frames', expires') /\ ~WillPutOff(frames', expires')
    <3>1. ASSUME unretracted, ~unretracted'
          PROVE  expires' = 0 /\ \A k \in DOMAIN frames' : frames'[k] # "typing"
      BY <1>7, <1>11, <3>1 DEF ToSet
    <3> QED
      BY <3>1, PutOffIsShown, <1>11
  <2> QED
    BY <1>2, <1>12, <2>1, TypingFollows DEF PeopleInv
<1> QED
  BY <1>2, <1>10, <1>13, <1>14, <1>15 DEF PeopleInv

-------------------------------------------------------------------------------
LEMMA PeopleStarts == PeopleInit => PeopleInv
<1> SUFFICES ASSUME PeopleInit PROVE PeopleInv
  OBVIOUS
<1>1. /\ draft \in BOOLEAN /\ ~draft /\ sending \in BOOLEAN /\ ~sending
      /\ lastEmittedState \in BOOLEAN /\ ~lastEmittedState
      /\ open \in BOOLEAN /\ ~open /\ atToken \in BOOLEAN /\ ~atToken
      /\ sinceTrue = Throttle + 1 /\ stopIn = 0 /\ index = 0 /\ matches = 0
  BY DEF PeopleInit, InputInit
<1>2. InputInv
  BY <1>1, TicksArePositive DEF InputInv, Flags, Numbers, TokenInText, RetractionIsDue
<1>3. /\ mounted \in BOOLEAN /\ ~mounted /\ frames = <<>>
      /\ call = "none" /\ detail = NULL /\ expires = 0
      /\ unretracted \in BOOLEAN /\ ~unretracted
  BY DEF PeopleInit
<1>4. WatcherFits
  BY <1>3, ExpiryIsPositive DEF WatcherFits
<1>5. ServerFits
  <2>1. frames \in Seq(Kinds)
    BY <1>3
  <2> QED
    BY <2>1 DEF PeopleInit, ServerFits
<1>6. MembersInv
  BY <1>3 DEF MembersInv, Informed
<1>7. TypingInv
  BY <1>3 DEF TypingInv, Founded, WillShow, WillPutOff
<1> QED
  BY <1>2, <1>4, <1>5, <1>6, <1>7 DEF PeopleInv

LEMMA PeopleStutters == ASSUME PeopleInv, UNCHANGED peopleVars PROVE PeopleInv'
<1>1. /\ UNCHANGED inputVars
      /\ UNCHANGED <<speaks, member, subscribed, frames, mounted, call, detail, expires, missed, unretracted>>
  BY DEF peopleVars, watcherVars
<1>2. InputInv' /\ UNCHANGED lastEmittedState
  BY <1>1, InputStays
<1>3. ServerFits' /\ WatcherFits'
  BY <1>1 DEF PeopleInv, ServerFits, WatcherFits
<1>4. MembersInv'
  BY <1>1, MembersStay
<1>5. TypingInv'
  BY <1>1, <1>2, TypingFollows DEF PeopleInv
<1> QED
  BY <1>2, <1>3, <1>4, <1>5 DEF PeopleInv

LEMMA PeopleSteps == PeopleInv /\ [PeopleNext]_peopleVars => PeopleInv'
BY UserActsKeeps, MessageSentKeeps, UserLeavesViewKeeps, UserSpeaksKeeps, MembershipChangesKeeps,
   WatcherKeeps, WatcherDisconnectsKeeps, HandleKeeps, TickKeeps, PeopleStutters
   DEF PeopleNext

LEMMA PeopleKeepsInv == PeopleSafety => []PeopleInv
BY PeopleStarts, PeopleSteps, PTL DEF PeopleSafety

LEMMA PeopleImplied ==
    ASSUME PeopleInv
    PROVE  PeopleTypeOK /\ RetractionIsDue /\ MembersAreRight /\ IndicatorIsFounded
<1>1. PeopleTypeOK
  <2>1. InputTypeOK
    BY NothingBefore
  <2>2. {speaks, member, subscribed, mounted, missed, unretracted} \subseteq BOOLEAN
    BY DEF PeopleInv, ServerFits, WatcherFits
  <2>3. frames \in Seq({"typing", "idle", "message", "joined", "left"})
    BY DEF PeopleInv, ServerFits, Kinds
  <2> QED
    BY <2>1, <2>2, <2>3, Zenon DEF PeopleTypeOK, PeopleInv, WatcherFits
<1>2. RetractionIsDue
  BY DEF PeopleInv, InputInv
<1>3. MembersAreRight
  <2>1. ASSUME mounted, detail # NULL, frames = <<>>, ~missed PROVE detail = Rows
    <3>1. Informed /\ News = {}
      BY <2>1 DEF Informed, News
    <3>2. call = "none"
      BY <2>1 DEF PeopleInv, WatcherFits
    <3> QED
      BY <3>1, <3>2 DEF PeopleInv, MembersInv, Known
  <2> QED
    BY <2>1 DEF MembersAreRight
<1>4. IndicatorIsFounded
  <2>1. ASSUME expires > 0, frames = <<>> PROVE WillShow(frames, expires)
    BY <2>1 DEF WillShow
  <2> QED
    BY <2>1 DEF IndicatorIsFounded, PeopleInv, TypingInv, Founded
<1> QED
  BY <1>1, <1>2, <1>3, <1>4

LEMMA PutOffIsExcused ==
    ASSUME PeopleInv
    PROVE  frames # <<>> /\ frames' = Tail(frames) /\ Head(frames) = "typing" /\ expires > 0
              => unretracted
<1> SUFFICES ASSUME frames # <<>>, Head(frames) = "typing", expires > 0 PROVE unretracted
  OBVIOUS
<1>1. 1 \in DOMAIN frames /\ frames[1] = "typing" /\ DOMAIN frames = 1..Len(frames)
  BY NothingBefore, HeadTailProperties, LenProperties, EmptySeq
<1>2. WillPutOff(frames, expires)
  BY <1>1 DEF WillPutOff
<1> QED
  BY <1>2, NothingBefore DEF Founded

\* ChatInput, the frames and what the watcher shows stay well formed: each member
\* is listed at most once, and only members are shown as typing.
THEOREM PeopleTyped == PeopleSafety => []PeopleTypeOK
BY PeopleKeepsInv, PeopleImplied, PTL

\* Whoever ChatInput has announced as typing has a timer that will retract it.
THEOREM RetractionsAreDue == PeopleSafety => []RetractionIsDue
BY PeopleKeepsInv, PeopleImplied, PTL

\* However joins and departures interleave with the answer to loadDetail, the list
\* of members is right when the frames under way have come, unless a change was
\* neither in that answer nor in a frame.
THEOREM ListedMembersAreRight == PeopleSafety => []MembersAreRight
BY PeopleKeepsInv, PeopleImplied, PTL

\* Whoever is shown as typing when all frames have come is announced as typing,
\* unless a retraction of his did not get through.
THEOREM IndicatorsAreFounded == PeopleSafety => []IndicatorIsFounded
BY PeopleKeepsInv, PeopleImplied, PTL

\* emitTyping announces changes only, so no frame puts off the expiry of an entry,
\* unless a retraction did not get through.
THEOREM NothingIsPutOff == PeopleSafety => NeverPutOff
<1>1. PeopleInv /\ [PeopleNext]_peopleVars
         => [frames # <<>> /\ frames' = Tail(frames) /\ Head(frames) = "typing" /\ expires > 0
               => unretracted]_peopleVars
  BY PutOffIsExcused
<1> QED
  BY <1>1, PeopleKeepsInv, PTL DEF PeopleSafety, NeverPutOff
===============================================================================
