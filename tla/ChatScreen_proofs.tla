---------------------------- MODULE ChatScreen_proofs ----------------------------
(***************************************************************************)
(* Theorems about ChatScreen, for every page size, window, skew and time   *)
(* zone and for any number of messages and faults.  The lists come first:  *)
(* what Keep and InOrder return.  Then what a page of the history holds,   *)
(* and from it why scrolling passes no message over.                       *)
(***************************************************************************)
EXTENDS ChatScreen, FiniteSetTheorems, SequenceTheorems, TLAPS

-----------------------------------------------------------------------------
(* The parts of the inductive invariant. *)

\* A message has its createdAt from when it is stored, and keeps it.
StoredInv ==
    \A m \in Ids :
        /\ messages[m].stage \in {"buffered", "sent"} => messages[m].at = 0
        /\ messages[m].stage \in {"stored", "announced"} => messages[m].at > 0
        /\ messages[m].at <= now

\* A screen that is not open holds nothing, and until it is first opened there is no
\* history.
ClosedInv ==
    /\ ~open => /\ screen = << >> /\ heard = {} /\ own = {}
                /\ older = NoRequest /\ hasMore
    /\ provider = "none" => ~open /\ early = {}

\* No list has an element twice.
DistinctInv == IsInjective(screen) /\ IsInjective(history) /\ IsInjective(older.page)

\* What came by an event is stored, and on the screen.
HeardInv == \A h \in heard : messages[h].at > 0 /\ Confirmed(h) \in ToSet(screen)

\* The entries in front of an optimistic one came after it, by sending or by events.
InFront(s, events) ==
    \A i, j \in DOMAIN s :
        i < j /\ s[j].isOptimistic => s[i].isOptimistic \/ s[i].msg \in events
FrontInv == InFront(screen, heard)

\* The optimistic entries were sent from here and are the user's.  If the client's clock
\* is not behind, they are clocked after all that was there when the screen was first
\* opened.
EarlyInv ==
    /\ \A m \in early : m \in StoredHere
    /\ \A e \in ToSet(screen) : e.isOptimistic => e.msg \in own
    /\ \A m \in own : messages[m].mine
    /\ Skew + Zone >= 0 =>
          \A m \in early, k \in own : messages[k].made + Zone >= messages[m].at

\* The first page is the latest part of what there was.
HistoryInv ==
    \A m \in early : \/ m \in ToSet(history)
                     \/ history # << >> /\ messages[m].at <= messages[Last(history)].at

Reached(m) == Confirmed(m) \in ToSet(screen) \/ Passed(m)

\* All that is later than the cursor was reached.
CursorInv ==
    screen # << >> =>
        \A m \in early : Reached(m) \/ messages[m].at < CreatedAt(Last(screen))

\* The page under way goes on where the screen ends.
OlderInv ==
    /\ \A m \in ToSet(older.page) : messages[m].at > 0
    /\ \A i, j \in DOMAIN older.page :
          i <= j => messages[older.page[i]].at >= messages[older.page[j]].at
    /\ older.isLoadingMore =>
          \A m \in early :
              \/ Reached(m) \/ m \in ToSet(older.page)
              \/ older.page # << >> /\ messages[m].at < messages[Last(older.page)].at

ListInv == DistinctInv /\ HeardInv /\ FrontInv /\ OptimisticReplaced
ScrollInv == EarlyInv /\ HistoryInv /\ CursorInv /\ OlderInv /\ HistoryFound
ScreenInv == TypeOK /\ StoredInv /\ ClosedInv /\ ListInv /\ ScrollInv

-----------------------------------------------------------------------------
(* Lists. *)

\* InOrder lists the members of a finite set, each once, in the order of R.
LEMMA InOrderList ==
    ASSUME NEW S, IsFiniteSet(S), NEW R,
           \A x \in S : <<x, x>> \notin R,
           \A x, y, z \in S : <<x, y>> \in R /\ <<y, z>> \in R => <<x, z>> \in R,
           \A x, y \in S : x = y \/ <<x, y>> \in R \/ <<y, x>> \in R
    PROVE  /\ InOrder(S, R) \in Seq(S)
           /\ Len(InOrder(S, R)) = Cardinality(S) /\ Cardinality(S) \in Nat
           /\ \A x \in S : \E k \in 1 .. Cardinality(S) : InOrder(S, R)[k] = x
           /\ \A i, j \in 1 .. Cardinality(S) :
                 i < j => <<InOrder(S, R)[i], InOrder(S, R)[j]>> \in R
<1> DEFINE n == Cardinality(S)
           q == InOrder(S, R)
           UpTo(x) == {y \in S : y = x \/ <<y, x>> \in R}
           rank == [x \in S |-> Cardinality(UpTo(x))]
<1>1. n \in Nat
  BY FS_CardinalityType
<1>2. \A x \in S : /\ IsFiniteSet(UpTo(x)) /\ Cardinality(UpTo(x)) \in Nat
                   /\ Cardinality(UpTo(x)) <= n /\ Cardinality(UpTo(x)) # 0
  <2> TAKE x \in S
  <2>1. UpTo(x) \in SUBSET S /\ x \in UpTo(x)
    OBVIOUS
  <2>2. IsFiniteSet(UpTo(x)) /\ Cardinality(UpTo(x)) <= n
    BY <2>1, FS_Subset
  <2>3. QED BY <2>1, <2>2, FS_CardinalityType, FS_EmptySet
<1>3. rank \in [S -> 1 .. n]
  BY <1>1, <1>2
<1>4. ASSUME NEW x \in S, NEW y \in S, <<x, y>> \in R PROVE rank[x] < rank[y]
  <2>1. UpTo(x) \subseteq UpTo(y)
    BY <1>4
  <2>2. y \in UpTo(y) /\ y \notin UpTo(x)
    BY <1>4
  <2>3. Cardinality(UpTo(x)) <= Cardinality(UpTo(y)) /\ Cardinality(UpTo(x)) # Cardinality(UpTo(y))
    BY <1>2, <2>1, <2>2, FS_Subset
  <2>4. QED BY <1>2, <2>3
<1>5. \A x, y \in S : rank[x] = rank[y] => x = y
  <2> HIDE DEF rank, n
  <2>1. \A x \in S : rank[x] \in Nat
    BY <1>1, <1>3
  <2>2. \A x \in S, y \in S : <<x, y>> \in R => rank[x] < rank[y]
    BY <1>4
  <2>3. SUFFICES ASSUME NEW x \in S, NEW y \in S, x # y PROVE rank[x] # rank[y]
    OBVIOUS
  <2>4. <<x, y>> \in R \/ <<y, x>> \in R
    BY <2>3
  <2>5. QED BY <2>1, <2>2, <2>4
<1>6. \A k \in 1 .. n : \E x \in S : rank[x] = k
  <2>1. rank \in Injection(S, 1 .. n)
    BY <1>3, <1>5 DEF Injection, IsInjective
  <2>2. IsFiniteSet(1 .. n) /\ Cardinality(1 .. n) = n
    BY <1>1, FS_Interval
  <2>3. rank \in Surjection(S, 1 .. n)
    BY <2>1, <2>2, FS_Injection
  <2>4. QED BY <2>3 DEF Surjection
<1>7. \A k \in 1 .. n : q[k] \in S /\ rank[q[k]] = k
  <2> TAKE k \in 1 .. n
  <2>1. q[k] = CHOOSE x \in S : Cardinality(UpTo(x)) = k
    BY DEF InOrder
  <2>2. \E x \in S : Cardinality(UpTo(x)) = k
    BY <1>6
  <2> HIDE DEF q, UpTo
  <2>3. q[k] \in S /\ Cardinality(UpTo(q[k])) = k
    BY <2>1, <2>2
  <2>4. QED BY <2>3
<1>8. q \in Seq(S) /\ Len(q) = n
  <2>1. q \in [1 .. n -> S]
    <3> DEFINE nth(k) == CHOOSE x \in S : Cardinality(UpTo(x)) = k
    <3>1. q = [k \in 1 .. n |-> nth(k)]
      BY DEF InOrder
    <3> HIDE DEF q, n, nth
    <3>2. q = [k \in 1 .. n |-> q[k]]
      BY <3>1
    <3>3. QED BY <1>7, <3>2
  <2> HIDE DEF q
  <2>2. QED BY <1>1, <2>1
<1> HIDE DEF q, rank
<1>9. \A x \in S : \E k \in 1 .. n : q[k] = x
  <2> TAKE x \in S
  <2>1. rank[x] \in 1 .. n
    BY <1>3
  <2>2. QED BY <1>5, <1>7, <2>1
<1>10. ASSUME NEW i \in 1 .. n, NEW j \in 1 .. n, i < j PROVE <<q[i], q[j]>> \in R
  <2>1. q[i] \in S /\ q[j] \in S /\ rank[q[i]] = i /\ rank[q[j]] = j
    BY <1>7
  <2>2. q[i] # q[j]
    BY <1>10, <2>1
  <2>3. <<q[j], q[i]>> \notin R
    BY <1>1, <1>4, <1>10, <2>1
  <2>4. QED BY <2>1, <2>2, <2>3
<1>11. QED BY <1>1, <1>8, <1>9, <1>10 DEF q

\* The elements of q are those of s that are in T, in the order they have there.
SelectedAt(q, s, T, place) ==
    /\ place \in [1 .. Len(q) -> 1 .. Len(s)]
    /\ \A k \in 1 .. Len(q) : q[k] = s[place[k]] /\ s[place[k]] \in T
    /\ \A i, j \in 1 .. Len(q) : i < j => place[i] < place[j]
    /\ \A i \in 1 .. Len(s) : s[i] \in T => \E k \in 1 .. Len(q) : place[k] = i

\* Keep leaves some places of a list, in their order: those of the elements in T.
LEMMA KeepList ==
    ASSUME NEW E, NEW s \in Seq(E), NEW T
    PROVE  /\ Keep(s, T) \in Seq(E)
           /\ \E place : SelectedAt(Keep(s, T), s, T, place)
<1> DEFINE places == {i \in DOMAIN s : s[i] \in T}
           R == {p \in places \X places : p[1] < p[2]}
           kept == InOrder(places, R)
           n == Cardinality(places)
           q == Keep(s, T)
<1>1. Len(s) \in Nat /\ DOMAIN s = 1 .. Len(s) /\ \A i \in 1 .. Len(s) : s[i] \in E
  BY LenProperties, ElementOfSeq
<1>2. IsFiniteSet(places) /\ places \subseteq 1 .. Len(s) /\ places \subseteq Nat
  <2>1. places \in SUBSET (1 .. Len(s))
    BY <1>1
  <2>2. IsFiniteSet(1 .. Len(s))
    BY <1>1, FS_Interval
  <2>3. QED BY <1>1, <2>1, <2>2, FS_Subset
<1>3. \A i, j \in places : <<i, j>> \in R <=> i < j
  OBVIOUS
<1> HIDE DEF R
<1>4. /\ kept \in Seq(places) /\ Len(kept) = n /\ n \in Nat
      /\ \A x \in places : \E k \in 1 .. n : kept[k] = x
      /\ \A i, j \in 1 .. n : i < j => <<kept[i], kept[j]>> \in R
  <2> HIDE DEF places
  <2>1. \A i \in places : <<i, i>> \notin R
    BY <1>2, <1>3
  <2>2. \A i, j, k \in places : <<i, j>> \in R /\ <<j, k>> \in R => <<i, k>> \in R
    BY <1>2, <1>3
  <2>3. \A i, j \in places : i = j \/ <<i, j>> \in R \/ <<j, i>> \in R
    <3> TAKE i, j \in places
    <3>1. i \in Nat /\ j \in Nat
      BY <1>2
    <3>2. i = j \/ i < j \/ j < i
      BY <3>1
    <3>3. QED BY <1>3, <3>2
  <2>4. /\ InOrder(places, R) \in Seq(places)
        /\ Len(InOrder(places, R)) = Cardinality(places) /\ Cardinality(places) \in Nat
        /\ \A x \in places : \E k \in 1 .. Cardinality(places) : InOrder(places, R)[k] = x
        /\ \A i, j \in 1 .. Cardinality(places) :
              i < j => <<InOrder(places, R)[i], InOrder(places, R)[j]>> \in R
    BY <1>2, <2>1, <2>2, <2>3, InOrderList, Zenon
  <2>5. QED BY <2>4
<1>5. q = [k \in DOMAIN kept |-> s[kept[k]]]
  BY DEF Keep, R
<1> HIDE DEF kept, q
<1>6. /\ DOMAIN kept = 1 .. n
      /\ \A k \in 1 .. n : kept[k] \in 1 .. Len(s) /\ s[kept[k]] \in T /\ kept[k] \in places
  <2>1. DOMAIN kept = 1 .. n /\ \A k \in 1 .. n : kept[k] \in places
    BY <1>4, LenProperties, ElementOfSeq
  <2>2. QED BY <1>1, <2>1
<1>7. q \in [1 .. n -> E] /\ \A k \in 1 .. n : q[k] = s[kept[k]]
  <2> HIDE DEF n, places
  <2>1. q = [k \in 1 .. n |-> s[kept[k]]]
    BY <1>5, <1>6
  <2>2. \A k \in 1 .. n : s[kept[k]] \in E
    BY <1>1, <1>6
  <2>3. QED BY <2>1, <2>2
<1>8. q \in Seq(E) /\ Len(q) = n
  <2>1. n \in Nat /\ q \in [1 .. n -> E]
    BY <1>4, <1>7
  <2> HIDE DEF n
  <2>2. QED BY <2>1
<1>9. kept \in [1 .. n -> 1 .. Len(s)]
  <2>1. kept \in [1 .. n -> places]
    BY <1>4, LenProperties
  <2>2. QED BY <1>2, <2>1
<1>10. \A i, j \in 1 .. n : i < j => kept[i] < kept[j]
  BY <1>3, <1>4, <1>6
<1>11. \A i \in 1 .. Len(s) : s[i] \in T => \E k \in 1 .. n : kept[k] = i
  BY <1>1, <1>4
<1>12. QED
  <2> HIDE DEF places, n
  <2>1. /\ \A k \in 1 .. Len(q) : q[k] = s[kept[k]] /\ s[kept[k]] \in T
        /\ \A i, j \in 1 .. Len(q) : i < j => kept[i] < kept[j]
        /\ \A i \in 1 .. Len(s) : s[i] \in T => \E k \in 1 .. Len(q) : kept[k] = i
        /\ kept \in [1 .. Len(q) -> 1 .. Len(s)]
    BY <1>6, <1>7, <1>8, <1>9, <1>10, <1>11
  <2>2. SelectedAt(q, s, T, kept)
    BY <2>1 DEF SelectedAt
  <2>3. QED BY <1>8, <2>2 DEF q

\* What is on the list after Keep, each as often as before, and last if it was.
LEMMA KeepMembers ==
    ASSUME NEW E, NEW s \in Seq(E), NEW T
    PROVE  /\ Keep(s, T) \in Seq(E)
           /\ ToSet(Keep(s, T)) = ToSet(s) \cap T
           /\ IsInjective(s) => IsInjective(Keep(s, T))
           /\ s # << >> /\ Last(s) \in T => Keep(s, T) # << >> /\ Last(Keep(s, T)) = Last(s)
<1> DEFINE q == Keep(s, T)
           n == Len(q)
<1>1. Len(s) \in Nat /\ DOMAIN s = 1 .. Len(s)
  BY LenProperties
<1>2. q \in Seq(E) /\ \E place : SelectedAt(q, s, T, place)
  BY KeepList
<1>3. n \in Nat /\ DOMAIN q = 1 .. n
  BY <1>2, LenProperties
<1>4. PICK place \in [1 .. n -> 1 .. Len(s)] :
         /\ \A k \in 1 .. n : q[k] = s[place[k]] /\ s[place[k]] \in T
         /\ \A i, j \in 1 .. n : i < j => place[i] < place[j]
         /\ \A i \in 1 .. Len(s) : s[i] \in T => \E k \in 1 .. n : place[k] = i
  BY <1>2 DEF SelectedAt
<1> HIDE DEF q, n
<1>5. ToSet(q) = ToSet(s) \cap T
  <2>1. ToSet(q) \subseteq ToSet(s) \cap T
    BY <1>1, <1>3, <1>4 DEF ToSet
  <2>2. ASSUME NEW i \in 1 .. Len(s), s[i] \in T PROVE s[i] \in ToSet(q)
    <3>1. PICK k \in 1 .. n : place[k] = i
      BY <1>4, <2>2
    <3>2. QED BY <1>3, <1>4, <3>1 DEF ToSet
  <2>3. QED BY <1>1, <2>1, <2>2 DEF ToSet
<1>6. ASSUME IsInjective(s) PROVE IsInjective(q)
  <2> SUFFICES ASSUME NEW i \in 1 .. n, NEW j \in 1 .. n, q[i] = q[j] PROVE i = j
    BY <1>3 DEF IsInjective
  <2>1. place[i] = place[j]
    BY <1>1, <1>4, <1>6 DEF IsInjective
  <2>2. place[i] \in Int /\ i \in Int /\ j \in Int
    BY <1>1, <1>3, <1>4
  <2>3. QED BY <1>4, <2>1, <2>2
<1>7. ASSUME s # << >>, Last(s) \in T PROVE q # << >> /\ Last(q) = Last(s)
  <2>1. Last(s) = s[Len(s)] /\ Len(s) \in 1 .. Len(s)
    BY <1>1, <1>7, EmptySeq DEF Last
  <2>2. PICK k \in 1 .. n : place[k] = Len(s)
    BY <1>4, <1>7, <2>1
  <2>3. k = n
    <3>1. CASE k < n
      <4>1. n \in 1 .. n /\ place[k] < place[n] /\ place[n] \in 1 .. Len(s)
        BY <1>3, <1>4, <3>1
      <4>2. QED BY <1>1, <2>2, <4>1
    <3>2. QED BY <1>3, <3>1
  <2>4. q # << >>
    BY <1>3, <2>2, EmptySeq DEF n
  <2>5. QED BY <1>4, <2>1, <2>2, <2>3, <2>4 DEF Last, n
<1>8. QED BY <1>2, <1>5, <1>6, <1>7 DEF q

\* Two lists, one behind the other.
LEMMA JoinedLists ==
    ASSUME NEW E, NEW s \in Seq(E), NEW t \in Seq(E)
    PROVE  /\ s \o t \in Seq(E)
           /\ ToSet(s \o t) = ToSet(s) \cup ToSet(t)
           /\ IsInjective(s) /\ IsInjective(t) /\ ToSet(s) \cap ToSet(t) = {}
                 => IsInjective(s \o t)
           /\ t = << >> => s \o t = s
           /\ t # << >> => s \o t # << >> /\ Last(s \o t) = Last(t)
<1> DEFINE q == s \o t
<1>1. /\ Len(s) \in Nat /\ DOMAIN s = 1 .. Len(s)
      /\ Len(t) \in Nat /\ DOMAIN t = 1 .. Len(t)
  BY LenProperties
<1>2. /\ q \in Seq(E) /\ Len(q) = Len(s) + Len(t)
      /\ \A i \in 1 .. Len(s) + Len(t) : q[i] = IF i <= Len(s) THEN s[i] ELSE t[i - Len(s)]
  BY ConcatProperties
<1>3. t = << >> => q = s
  BY ConcatEmptySeq
<1> HIDE DEF q
<1>4. DOMAIN q = 1 .. Len(s) + Len(t)
  BY <1>2, LenProperties
<1>5. \A i \in 1 .. Len(s) : i \in DOMAIN q /\ q[i] = s[i]
  BY <1>1, <1>2, <1>4
<1>6. \A i \in 1 .. Len(t) : Len(s) + i \in DOMAIN q /\ q[Len(s) + i] = t[i]
  <2> TAKE i \in 1 .. Len(t)
  <2>1. Len(s) + i \in 1 .. Len(s) + Len(t) /\ ~(Len(s) + i <= Len(s)) /\ Len(s) + i - Len(s) = i
    BY <1>1
  <2>2. QED BY <1>2, <1>4, <2>1
<1>7. \A i \in DOMAIN q : \/ i \in 1 .. Len(s) /\ q[i] = s[i]
                          \/ i - Len(s) \in 1 .. Len(t) /\ q[i] = t[i - Len(s)]
  BY <1>1, <1>2, <1>4
<1>8. ToSet(q) = ToSet(s) \cup ToSet(t)
  <2>1. ToSet(q) \subseteq ToSet(s) \cup ToSet(t)
    BY <1>1, <1>7 DEF ToSet
  <2>2. ToSet(s) \subseteq ToSet(q)
    BY <1>1, <1>5 DEF ToSet
  <2>3. ToSet(t) \subseteq ToSet(q)
    BY <1>1, <1>6 DEF ToSet
  <2>4. QED BY <2>1, <2>2, <2>3
<1>9. ASSUME IsInjective(s), IsInjective(t), ToSet(s) \cap ToSet(t) = {}
      PROVE  IsInjective(q)
  <2> SUFFICES ASSUME NEW i \in DOMAIN q, NEW j \in DOMAIN q, q[i] = q[j] PROVE i = j
    BY DEF IsInjective
  <2>1. CASE i \in 1 .. Len(s) /\ j \in 1 .. Len(s)
    BY <1>1, <1>5, <1>9, <2>1 DEF IsInjective
  <2>2. CASE i - Len(s) \in 1 .. Len(t) /\ j - Len(s) \in 1 .. Len(t)
    <3>1. q[i] = t[i - Len(s)] /\ q[j] = t[j - Len(s)]
      BY <1>1, <1>7, <2>2
    <3>2. i - Len(s) = j - Len(s)
      BY <1>1, <1>9, <2>2, <3>1 DEF IsInjective
    <3>3. QED BY <1>1, <1>4, <3>2
  <2>3. ASSUME NEW a \in DOMAIN q, NEW b \in DOMAIN q,
               a \in 1 .. Len(s), b - Len(s) \in 1 .. Len(t)
        PROVE  q[a] # q[b]
    <3>1. q[a] \in ToSet(s)
      BY <1>1, <1>5, <2>3 DEF ToSet
    <3>2. q[b] = t[b - Len(s)]
      BY <1>1, <1>4, <1>7, <2>3
    <3>3. q[b] \in ToSet(t)
      BY <1>1, <2>3, <3>2 DEF ToSet
    <3>4. QED BY <1>9, <3>1, <3>3
  <2>4. QED BY <1>7, <2>1, <2>2, <2>3
<1>10. ASSUME t # << >> PROVE q # << >> /\ Last(q) = Last(t)
  <2>1. Len(t) \in 1 .. Len(t) /\ Last(t) = t[Len(t)]
    BY <1>1, <1>10, EmptySeq DEF Last
  <2>2. q[Len(s) + Len(t)] = t[Len(t)] /\ Len(q) # 0
    BY <1>1, <1>2, <1>6, <2>1
  <2>3. q # << >>
    BY <1>2, <2>2, EmptySeq
  <2>4. QED BY <1>2, <2>1, <2>2, <2>3 DEF Last
<1>11. QED BY <1>2, <1>3, <1>8, <1>9, <1>10 DEF q

\* A list of one.
LEMMA OneEntry ==
    ASSUME NEW E, NEW e \in E
    PROVE  /\ <<e>> \in Seq(E) /\ <<e>> # << >> /\ Last(<<e>>) = e
           /\ ToSet(<<e>>) = {e} /\ IsInjective(<<e>>)
<1>1. <<e>> \in Seq(E) /\ Len(<<e>>) = 1 /\ DOMAIN <<e>> = {1} /\ <<e>>[1] = e
  OBVIOUS
<1>2. QED BY <1>1 DEF Last, ToSet, IsInjective

\* The elements of a list.
LEMMA Elements ==
    ASSUME NEW E, NEW s \in Seq(E)
    PROVE  /\ ToSet(s) \subseteq E
           /\ s # << >> => Last(s) \in ToSet(s)
           /\ s = << >> => ToSet(s) = {}
<1>1. Len(s) \in Nat /\ DOMAIN s = 1 .. Len(s) /\ \A i \in 1 .. Len(s) : s[i] \in E
  BY LenProperties, ElementOfSeq
<1>2. ToSet(s) \subseteq E
  BY <1>1 DEF ToSet
<1>3. ASSUME s # << >> PROVE Last(s) \in ToSet(s)
  <2>1. Len(s) \in 1 .. Len(s)
    BY <1>1, <1>3, EmptySeq
  <2>2. QED BY <1>1, <2>1 DEF Last, ToSet
<1>4. ASSUME s = << >> PROVE ToSet(s) = {}
  <2>1. Len(s) = 0
    BY <1>4, EmptySeq
  <2>2. DOMAIN s = {}
    BY <1>1, <2>1
  <2>3. QED BY <2>2 DEF ToSet
<1>5. QED BY <1>2, <1>3, <1>4

\* A list of messages, as entries.
LEMMA ListAsEntries ==
    ASSUME NEW s \in Seq(Ids)
    PROVE  /\ AsEntries(s) \in Seq(Entry) /\ DOMAIN AsEntries(s) = DOMAIN s
           /\ \A i \in DOMAIN s : AsEntries(s)[i] = Confirmed(s[i])
           /\ \A m : Confirmed(m) \in ToSet(AsEntries(s)) <=> m \in ToSet(s)
           /\ \A e \in ToSet(AsEntries(s)) : ~e.isOptimistic /\ e = Confirmed(e.msg)
           /\ IsInjective(s) => IsInjective(AsEntries(s))
           /\ AsEntries(s) = << >> <=> s = << >>
           /\ s # << >> => Last(AsEntries(s)) = Confirmed(Last(s))
<1> DEFINE q == AsEntries(s)
<1>1. Len(s) \in Nat /\ DOMAIN s = 1 .. Len(s) /\ \A i \in 1 .. Len(s) : s[i] \in Ids
  BY LenProperties, ElementOfSeq
<1>2. q = [i \in 1 .. Len(s) |-> Confirmed(s[i])]
  BY <1>1 DEF AsEntries
<1>3. \A m \in Ids : Confirmed(m) \in Entry
  BY DEF Confirmed, Entry
<1>4. \A m, k : Confirmed(m) = Confirmed(k) => m = k
  BY DEF Confirmed
<1>5. \A m : Confirmed(m).msg = m /\ Confirmed(m).isOptimistic = FALSE
  BY DEF Confirmed
<1> HIDE DEF q
<1>6. q \in [1 .. Len(s) -> Entry] /\ \A i \in 1 .. Len(s) : q[i] = Confirmed(s[i])
  BY <1>1, <1>2, <1>3
<1>7. q \in Seq(Entry) /\ Len(q) = Len(s) /\ DOMAIN q = 1 .. Len(s)
  BY <1>1, <1>6
<1>8. \A m : Confirmed(m) \in ToSet(q) <=> m \in ToSet(s)
  BY <1>1, <1>4, <1>6, <1>7 DEF ToSet
<1>9. \A e \in ToSet(q) : ~e.isOptimistic /\ e = Confirmed(e.msg)
  BY <1>5, <1>6, <1>7 DEF ToSet
<1>10. IsInjective(s) => IsInjective(q)
  BY <1>1, <1>4, <1>6, <1>7 DEF IsInjective
<1>11. q = << >> <=> s = << >>
  BY <1>1, <1>7, EmptySeq
<1>12. ASSUME s # << >> PROVE Last(q) = Confirmed(Last(s))
  <2>1. Len(s) \in 1 .. Len(s)
    BY <1>1, <1>12, EmptySeq
  <2>2. QED BY <1>6, <1>7, <2>1 DEF Last
<1>13. QED BY <1>1, <1>6, <1>7, <1>8, <1>9, <1>10, <1>11, <1>12 DEF q

\* What stands on a page: the latest messages before its time, in their order
\* and each once; and all of them, or those down to its last.
LEMMA PageList ==
    ASSUME TypeOK, NEW time \in Int, NEW n \in Nat \ {0}
    PROVE  /\ Page(time, n) \in Seq(Ids) /\ ToSet(Page(time, n)) \subseteq Before(time)
           /\ IsInjective(Page(time, n))
           /\ \A i, j \in DOMAIN Page(time, n) :
                 i <= j => messages[Page(time, n)[i]].at >= messages[Page(time, n)[j]].at
           /\ \A m \in Before(time) :
                 \/ m \in ToSet(Page(time, n))
                 \/ Page(time, n) # << >> /\ messages[m].at <= messages[Last(Page(time, n))].at
<1> DEFINE S == Before(time)
           R == {p \in S \X S : Later(p[1], p[2])}
           q == InOrder(S, R)
           l == IF n < Len(q) THEN n ELSE Len(q)
           page == SubSeq(q, 1, l)
<1>1. /\ Len(messages) \in Nat /\ Ids = 1 .. Len(messages)
      /\ \A m \in Ids : m \in Nat /\ messages[m].at \in Nat
  <2>1. messages \in Seq(Message)
    BY DEF TypeOK
  <2>2. Len(messages) \in Nat /\ Ids = 1 .. Len(messages) /\ \A m \in Ids : messages[m] \in Message
    BY <2>1, LenProperties, ElementOfSeq DEF Ids
  <2>3. QED BY <2>2 DEF Message
<1>2. IsFiniteSet(S) /\ S \subseteq Ids
  <2>1. S \in SUBSET (1 .. Len(messages))
    BY <1>1 DEF Before, StoredHere
  <2>2. IsFiniteSet(1 .. Len(messages))
    BY <1>1, FS_Interval
  <2>3. QED BY <1>1, <2>1, <2>2, FS_Subset
<1> HIDE DEF S
<1>3. \A a, b \in S : <<a, b>> \in R <=> Later(a, b)
  OBVIOUS
<1>4. /\ \A a \in S : ~Later(a, a)
      /\ \A a, b, c \in S : Later(a, b) /\ Later(b, c) => Later(a, c)
      /\ \A a, b \in S : a = b \/ Later(a, b) \/ Later(b, a)
  <2>1. \A a \in S : a \in Nat /\ messages[a].at \in Nat
    BY <1>1, <1>2
  <2>2. \A a \in S : ~Later(a, a)
    BY <2>1 DEF Later
  <2>3. \A a, b \in S : a = b \/ Later(a, b) \/ Later(b, a)
    BY <2>1 DEF Later
  <2>4. ASSUME NEW a \in S, NEW b \in S, NEW c \in S, Later(a, b), Later(b, c)
        PROVE  Later(a, c)
    <3>1. /\ a \in Nat /\ b \in Nat /\ c \in Nat
          /\ messages[a].at \in Nat /\ messages[b].at \in Nat /\ messages[c].at \in Nat
      BY <2>1
    <3>2. QED BY <2>4, <3>1 DEF Later
  <2>5. QED BY <2>2, <2>3, <2>4
<1> HIDE DEF R
<1>5. /\ q \in Seq(S) /\ Len(q) = Cardinality(S) /\ Cardinality(S) \in Nat
      /\ \A x \in S : \E k \in 1 .. Cardinality(S) : q[k] = x
      /\ \A i, j \in 1 .. Cardinality(S) : i < j => <<q[i], q[j]>> \in R
  <2>1. \A x \in S : <<x, x>> \notin R
    BY <1>3, <1>4
  <2>2. \A x, y, z \in S : <<x, y>> \in R /\ <<y, z>> \in R => <<x, z>> \in R
    BY <1>3, <1>4
  <2>3. \A x, y \in S : x = y \/ <<x, y>> \in R \/ <<y, x>> \in R
    BY <1>3, <1>4
  <2>4. /\ InOrder(S, R) \in Seq(S)
        /\ Len(InOrder(S, R)) = Cardinality(S) /\ Cardinality(S) \in Nat
        /\ \A x \in S : \E k \in 1 .. Cardinality(S) : InOrder(S, R)[k] = x
        /\ \A i, j \in 1 .. Cardinality(S) :
              i < j => <<InOrder(S, R)[i], InOrder(S, R)[j]>> \in R
    BY <1>2, <2>1, <2>2, <2>3, InOrderList, Zenon
  <2>5. QED BY <2>4
<1>6. Page(time, n) = page
  BY DEF Page, FirstOf, S, R
<1> HIDE DEF q
<1>7. /\ Len(q) \in Nat /\ l \in 0 .. Len(q) /\ l <= n /\ (l < Len(q) => l = n)
      /\ \A i \in 1 .. Len(q) : q[i] \in S
  BY <1>5, ElementOfSeq
<1>8. \A i, j \in 1 .. Len(q) : i < j => Later(q[i], q[j])
  BY <1>3, <1>5, <1>7
<1> HIDE DEF l
<1>9. page \in Seq(S) /\ Len(page) = l /\ \A i \in 1 .. l : page[i] = q[i]
  <2>1. /\ page \in Seq(S) /\ Len(page) = (IF 1 <= l THEN l - 1 + 1 ELSE 0)
        /\ \A i \in 1 .. l - 1 + 1 : page[i] = q[1 + i - 1]
    <3>1. \A i \in 1 .. l : q[i] \in S
      BY <1>7
    <3>2. QED BY <1>7, <3>1, SubSeqProperties
  <2> HIDE DEF page
  <2>2. Len(page) = l
    BY <1>7, <2>1
  <2>3. ASSUME NEW i \in 1 .. l PROVE page[i] = q[i]
    <3>1. i \in 1 .. l - 1 + 1 /\ 1 + i - 1 = i
      BY <1>7
    <3>2. QED BY <2>1, <3>1
  <2>4. QED BY <2>1, <2>2, <2>3
<1> HIDE DEF page
<1>10. DOMAIN page = 1 .. l /\ page \in Seq(Ids)
  BY <1>2, <1>9, LenProperties, SeqMonotonic
<1>11. \A i, j \in 1 .. l : i < j => Later(page[i], page[j])
  BY <1>7, <1>8, <1>9
<1>12. \A i \in 1 .. l : page[i] \in S
  BY <1>7, <1>9
<1>13. IsInjective(page)
  BY <1>4, <1>7, <1>10, <1>11, <1>12 DEF IsInjective
<1>14. \A i, j \in 1 .. l : i <= j => messages[page[i]].at >= messages[page[j]].at
  <2> TAKE i, j \in 1 .. l
  <2>1. messages[page[i]].at \in Nat /\ messages[page[j]].at \in Nat
    BY <1>1, <1>2, <1>12
  <2>2. CASE i = j
    BY <2>1, <2>2
  <2>3. CASE i < j
    BY <1>11, <2>1, <2>3 DEF Later
  <2>4. QED BY <1>7, <2>2, <2>3
<1>15. ASSUME NEW m \in S, m \notin ToSet(page)
       PROVE  page # << >> /\ messages[m].at <= messages[Last(page)].at
  <2>1. PICK k \in 1 .. Len(q) : q[k] = m
    BY <1>5
  <2>2. ~(k <= l)
    BY <1>7, <1>9, <1>10, <1>15, <2>1 DEF ToSet
  <2>3. l = n /\ l \in 1 .. Len(q) /\ l < k
    BY <1>7, <2>1, <2>2
  <2>4. Later(q[l], m)
    BY <1>8, <2>1, <2>3
  <2>5. page # << >> /\ Last(page) = q[l]
    <3>1. Len(page) # 0
      BY <1>9, <2>3
    <3>2. page # << >>
      BY <1>9, <3>1, EmptySeq
    <3>3. Last(page) = page[l]
      BY <1>9 DEF Last
    <3>4. QED BY <1>9, <2>3, <3>2, <3>3
  <2>6. q[l] \in Ids /\ m \in Ids
    BY <1>2, <1>7, <2>3
  <2>7. QED BY <1>1, <2>4, <2>5, <2>6 DEF Later
<1>16. ToSet(page) \subseteq S
  BY <1>10, <1>12 DEF ToSet
<1>17. QED BY <1>6, <1>10, <1>13, <1>14, <1>15, <1>16 DEF S

-----------------------------------------------------------------------------
(* What a step does to the messages and, apart from them, to the screen. *)

\* Messages are added, and one that is stored stays as it is.
Grows ==
    /\ Ids \subseteq Ids' /\ now <= now'
    /\ \A m \in Ids :
          /\ messages'[m].mine = messages[m].mine /\ messages'[m].here = messages[m].here
          /\ messages'[m].text = messages[m].text /\ messages'[m].made = messages[m].made
          /\ messages[m].at > 0 => messages'[m].at = messages[m].at

\* Nothing is shown, asked for or sent from here.
Quiet ==
    /\ UNCHANGED <<open, list, history, early, hasMore>>
    /\ older' \in {older, NoRequest}
    /\ provider' = provider \/ (provider = "loading" /\ provider' = "failed")

\* A stored message reaches the screen.
Receives(m) ==
    /\ m \in Ids /\ messages[m].at > 0 /\ Ids' = Ids
    /\ open /\ OnNewMessageReceived(m, TRUE)
    /\ UNCHANGED <<open, own, loads>>

Sends(t) ==
    /\ open /\ UNCHANGED <<open, heard, loads, now>>
    /\ \E message \in Message :
          /\ messages' = Append(messages, message)
          /\ message.mine /\ message.made = now + Skew
    /\ screen' = <<[msg |-> Len(messages'), isOptimistic |-> TRUE]>> \o screen
    /\ own' = own \cup {Len(messages')}

\* The messages are numbered from 1.
LEMMA MessageIds ==
    ASSUME TypeOK
    PROVE  /\ messages \in Seq(Message) /\ Len(messages) \in Nat /\ Ids = 1 .. Len(messages)
           /\ \A m \in Ids : messages[m] \in Message
<1>1. messages \in Seq(Message)
  BY DEF TypeOK
<1>2. QED BY <1>1, LenProperties, ElementOfSeq DEF Ids

\* The cursor is a time, whatever it is taken from.
LEMMA CursorType ==
    ASSUME TypeOK, screen # << >>
    PROVE  Last(screen) \in Entry /\ CreatedAt(Last(screen)) \in Int
<1>1. Last(screen) \in Entry
  BY Elements DEF TypeOK
<1>2. \A m \in Ids : messages[m].made \in Int /\ messages[m].at \in Nat
  BY MessageIds DEF Message
<1>3. QED BY <1>1, <1>2, ChatScreenAssumption DEF CreatedAt, Entry

\* A message that is sent gets the next number.
LEMMA PostStep ==
    ASSUME TypeOK, NEW message \in Message, messages' = Append(messages, message)
    PROVE  /\ messages' \in Seq(Message) /\ Len(messages') = Len(messages) + 1
           /\ Ids' = Ids \cup {Len(messages')} /\ Len(messages') \notin Ids
           /\ messages'[Len(messages')] = message
           /\ \A m \in Ids : messages'[m] = messages[m]
<1>1. /\ messages \in Seq(Message) /\ Len(messages) \in Nat /\ Ids = 1 .. Len(messages)
  BY MessageIds
<1>2. /\ messages' \in Seq(Message) /\ Len(messages') = Len(messages) + 1
      /\ \A i \in 1 .. Len(messages) : messages'[i] = messages[i]
      /\ messages'[Len(messages) + 1] = message
  BY <1>1, AppendProperties
<1>3. Ids' = 1 .. Len(messages')
  BY <1>2, LenProperties DEF Ids
<1>4. QED BY <1>1, <1>2, <1>3

\* A message whose sending goes on, in place.
LEMMA StageStep ==
    ASSUME TypeOK, NEW m \in Ids, NEW message \in Message,
           messages' = [messages EXCEPT ![m] = message]
    PROVE  /\ messages' \in Seq(Message) /\ Ids' = Ids
           /\ messages'[m] = message /\ \A k \in Ids \ {m} : messages'[k] = messages[k]
<1>1. messages \in Seq(Message) /\ Len(messages) \in Nat /\ Ids = 1 .. Len(messages)
  BY MessageIds
<1>2. /\ messages' \in Seq(Message) /\ Len(messages') = Len(messages)
      /\ \A k \in 1 .. Len(messages) :
            messages'[k] = IF k = m THEN message ELSE messages[k]
  BY <1>1, ExceptSeq
<1>3. Ids' = 1 .. Len(messages')
  BY <1>2, LenProperties DEF Ids
<1>4. QED BY <1>1, <1>2, <1>3

\* The steps of the peer.
PeerStep == PeerTypes \/ PeerStops \/ TimerFires \/ PeerLeaves \/ PeerDisconnects \/ PeerReconnects

LEMMA PeerKeeps ==
    ASSUME PeerStep
    PROVE  UNCHANGED <<chat, up, open, list, loads>>
BY DEF PeerStep, PeerTypes, PeerStops, TimerFires, StopTyping, PeerLeaves, PeerDisconnects,
       PeerReconnects, Emit

\* Every step is of one of these kinds.
LEMMA StepKinds ==
    ASSUME TypeOK, StoredInv, [Next]_vars
    PROVE  /\ messages' \in Seq(Message) /\ Grows /\ StoredInv'
           /\ \/ Quiet
              \/ \E t \in Texts : Sends(t)
              \/ \E m \in Ids : Receives(m)
              \/ (OpenScreen \/ CloseScreen \/ ShowHistory \/ LoadOlder \/ ShowOlder)
<1> USE ChatScreenAssumption
<1> DEFINE Kept == messages' \in Seq(Message) /\ Grows /\ StoredInv'
<1>0. /\ messages \in Seq(Message) /\ Len(messages) \in Nat /\ Ids = 1 .. Len(messages)
      /\ \A m \in Ids : messages[m] \in Message
      /\ now \in Nat \ {0}
  BY MessageIds DEF TypeOK
<1>1. ASSUME UNCHANGED messages, now' = now \/ now' = now + 1 PROVE Kept
  BY <1>0, <1>1 DEF Grows, StoredInv, Ids, Message
<1>2. ASSUME NEW message \in Message, messages' = Append(messages, message), now' = now,
             message.at = 0, message.stage \in {"buffered", "sent"}
      PROVE  Kept
  <2>1. /\ messages' \in Seq(Message) /\ Ids' = Ids \cup {Len(messages')}
        /\ messages'[Len(messages')] = message
        /\ \A m \in Ids : messages'[m] = messages[m]
    BY <1>2, PostStep
  <2>2. Grows
    BY <1>0, <1>2, <2>1 DEF Grows
  <2>3. StoredInv'
    BY <1>0, <1>2, <2>1 DEF StoredInv
  <2>4. QED BY <2>1, <2>2, <2>3
<1>3. ASSUME NEW m \in Ids, NEW stage \in {"stored", "announced", "done"},
             messages' = [messages EXCEPT ![m].stage = stage], now' = now,
             stage # "done" => messages[m].at > 0
      PROVE  Kept /\ Ids' = Ids
  <2> DEFINE message == [messages[m] EXCEPT !.stage = stage]
  <2>1. /\ message \in Message /\ message.stage = stage /\ message.at = messages[m].at
        /\ message.mine = messages[m].mine /\ message.here = messages[m].here
        /\ message.text = messages[m].text /\ message.made = messages[m].made
    BY <1>0 DEF Message
  <2>2. messages' = [messages EXCEPT ![m] = message]
    BY <1>3
  <2> HIDE DEF message
  <2>3. /\ messages' \in Seq(Message) /\ Ids' = Ids
        /\ messages'[m] = message /\ \A k \in Ids \ {m} : messages'[k] = messages[k]
    BY <2>1, <2>2, StageStep
  <2>4. Grows
    BY <1>0, <1>3, <2>1, <2>3 DEF Grows
  <2>5. StoredInv'
    BY <1>0, <1>3, <2>1, <2>3 DEF StoredInv
  <2>6. QED BY <2>3, <2>4, <2>5
<1>4. ASSUME UNCHANGED vars PROVE Kept /\ Quiet
  BY <1>1, <1>4 DEF Quiet, vars, chat, list, loads, Ids
<1>5. ASSUME NEW t \in Texts, SendMessage(t) PROVE Kept /\ Sends(t)
  <2> DEFINE message == [mine |-> TRUE, here |-> TRUE, text |-> t, made |-> now + Skew, at |-> 0,
                         stage |-> IF up THEN "sent" ELSE "buffered"]
  <2>1. /\ message \in Message /\ message.mine /\ message.made = now + Skew
        /\ message.at = 0 /\ message.stage \in {"buffered", "sent"}
    BY <1>0 DEF Message
  <2>2. messages' = Append(messages, message) /\ now' = now
    BY <1>5 DEF SendMessage, Post
  <2> HIDE DEF message
  <2>3. Kept
    BY <1>2, <2>1, <2>2
  <2>4. Sends(t)
    BY <1>5, <2>1, <2>2 DEF SendMessage, Sends
  <2>5. QED BY <2>3, <2>4
<1>6. ASSUME NEW t \in Texts, OthersSend(t) PROVE Kept /\ Quiet
  <2>1. PICK mine \in BOOLEAN, here \in BOOLEAN :
           messages' = Append(messages, [mine |-> mine, here |-> here, text |-> t, made |-> 0,
                                         at |-> 0, stage |-> "sent"])
    BY <1>6 DEF OthersSend, Post
  <2> DEFINE message == [mine |-> mine, here |-> here, text |-> t, made |-> 0, at |-> 0,
                         stage |-> "sent"]
  <2>2. message \in Message /\ message.made = 0 /\ message.at = 0 /\ message.stage = "sent"
    BY DEF Message
  <2>3. messages' = Append(messages, message) /\ now' = now
    BY <1>6, <2>1 DEF OthersSend
  <2> HIDE DEF message
  <2>4. Kept
    BY <1>2, <2>2, <2>3
  <2>5. \A m \in Ids' \ Ids : messages'[m].made = 0
    BY <2>2, <2>3, PostStep
  <2>6. QED BY <1>6, <2>4, <2>5 DEF OthersSend, Quiet, list, loads
<1>7. ASSUME NEW m \in Ids, Store(m) PROVE Kept /\ Quiet
  <2> DEFINE message == [messages[m] EXCEPT !.stage = "stored", !.at = now]
  <2>1. /\ message \in Message /\ message.stage = "stored" /\ message.at = now
        /\ message.mine = messages[m].mine /\ message.here = messages[m].here
        /\ message.text = messages[m].text /\ message.made = messages[m].made
    BY <1>0 DEF Message
  <2>2. messages[m].at = 0 /\ now' = now
    BY <1>7 DEF Store, StoredInv
  <2>3. messages' = [messages EXCEPT ![m] = message]
    BY <1>0, <1>7 DEF Store
  <2> HIDE DEF message
  <2>4. /\ messages' \in Seq(Message) /\ Ids' = Ids
        /\ messages'[m] = message /\ \A k \in Ids \ {m} : messages'[k] = messages[k]
    BY <2>1, <2>3, StageStep
  <2>5. Grows
    BY <1>0, <2>1, <2>2, <2>4 DEF Grows
  <2>6. StoredInv'
    BY <1>0, <2>1, <2>2, <2>4 DEF StoredInv
  <2>7. Quiet
    BY <1>7, <2>4 DEF Store, Quiet, list, loads
  <2>8. QED BY <2>4, <2>5, <2>6, <2>7
<1>8. ASSUME NEW m \in Ids, Announce(m) \/ Broadcast(m) PROVE Kept /\ (Quiet \/ Receives(m))
  <2>1. /\ messages[m].stage \in {"stored", "announced"}
        /\ \E stage \in {"announced", "done"} : messages' = [messages EXCEPT ![m].stage = stage]
        /\ UNCHANGED <<now, up, open, own, loads, typist, faults>>
        /\ (OnNewMessageReceived(m, TRUE) /\ open) \/ OnNewMessageReceived(m, FALSE)
    BY <1>8 DEF Announce, Broadcast, AtStage, OnNewMessageReceived
  <2>2. messages[m].at > 0
    BY <2>1 DEF StoredInv
  <2>3. Kept /\ Ids' = Ids
    BY <1>3, <2>1, <2>2
  <2>4. CASE OnNewMessageReceived(m, TRUE) /\ open
    BY <2>1, <2>2, <2>3, <2>4 DEF Receives
  <2>5. CASE OnNewMessageReceived(m, FALSE)
    BY <2>1, <2>3, <2>5 DEF Quiet, OnNewMessageReceived, list, loads
  <2>6. QED BY <2>1, <2>3, <2>4, <2>5
<1>9. ASSUME NEW m \in Ids, GiveUp(m) PROVE Kept /\ Quiet
  <2>1. messages' = [messages EXCEPT ![m].stage = "done"] /\ now' = now
    BY <1>9 DEF GiveUp, AtStage
  <2>2. Kept /\ Ids' = Ids
    BY <1>3, <2>1
  <2>3. QED BY <1>9, <2>2 DEF GiveUp, AtStage, Quiet, list, loads
<1>10. ASSUME OpenScreen \/ CloseScreen \/ ShowHistory \/ LoadOlder \/ ShowOlder PROVE Kept
  BY <1>1, <1>10 DEF OpenScreen, CloseScreen, ShowHistory, LoadOlder, ShowOlder, chat
<1>11. ASSUME HistoryFails \/ OlderFails \/ Disconnect \/ Tick PROVE Kept /\ Quiet
  <2>1. UNCHANGED messages /\ (now' = now \/ now' = now + 1)
    BY <1>11 DEF HistoryFails, OlderFails, Disconnect, Tick, chat
  <2>2. Quiet
    BY <1>11, <2>1 DEF HistoryFails, OlderFails, Disconnect, Tick, Quiet, list, loads, Ids
  <2>3. QED BY <1>1, <2>1, <2>2
<1>12. ASSUME PeerStep PROVE Kept /\ Quiet
  <2>1. UNCHANGED <<chat, up, open, list, loads>>
    BY <1>12, PeerKeeps
  <2>2. QED BY <1>1, <2>1 DEF Quiet, chat, list, loads, Ids
<1>13. ASSUME Reconnect PROVE Kept /\ Quiet
  <2>1. messages' = [m \in 1 .. Len(messages) |-> IF messages[m].stage = "buffered"
                                                  THEN [messages[m] EXCEPT !.stage = "sent"]
                                                  ELSE messages[m]]
    BY <1>0, <1>13 DEF Reconnect
  <2>2. \A m \in Ids : \/ messages'[m] = messages[m]
                       \/ messages[m].stage = "buffered"
                             /\ messages'[m] = [messages[m] EXCEPT !.stage = "sent"]
    BY <1>0, <2>1
  <2>3. \A m \in Ids :
           /\ messages'[m] \in Message /\ messages'[m].at = messages[m].at
           /\ messages'[m].mine = messages[m].mine /\ messages'[m].here = messages[m].here
           /\ messages'[m].text = messages[m].text /\ messages'[m].made = messages[m].made
           /\ \/ messages'[m].stage = messages[m].stage
              \/ messages[m].stage = "buffered" /\ messages'[m].stage = "sent"
    <3> TAKE m \in Ids
    <3>1. CASE messages'[m] = messages[m]
      BY <1>0, <3>1
    <3>2. CASE /\ messages[m].stage = "buffered"
               /\ messages'[m] = [messages[m] EXCEPT !.stage = "sent"]
      BY <1>0, <3>2 DEF Message
    <3>3. QED BY <2>2, <3>1, <3>2
  <2>4. messages' \in Seq(Message) /\ Len(messages') = Len(messages)
    <3>1. DOMAIN messages' = 1 .. Len(messages) /\ messages' = [m \in 1 .. Len(messages) |-> messages'[m]]
      BY <2>1
    <3>2. messages' \in [1 .. Len(messages) -> Message]
      BY <1>0, <2>3, <3>1
    <3>3. QED BY <1>0, <3>2
  <2>5. Ids' = Ids
    BY <1>0, <2>4, LenProperties DEF Ids
  <2>6. now' = now
    BY <1>13 DEF Reconnect
  <2>7. Grows
    BY <1>0, <2>3, <2>5, <2>6 DEF Grows
  <2>8. StoredInv'
    BY <1>0, <2>3, <2>5, <2>6 DEF StoredInv
  <2>9. Quiet
    BY <1>13, <2>5 DEF Reconnect, Quiet, list, loads
  <2>10. QED BY <2>4, <2>7, <2>8, <2>9
<1>14. QED
  BY <1>4, <1>5, <1>6, <1>7, <1>8, <1>9, <1>10, <1>11, <1>12, <1>13 DEF Next, PeerStep

-----------------------------------------------------------------------------
(* What a step does to the screen. *)

\* Who stands in front of the optimistic entries when a list is filtered,
\* when one is put in front of it and when confirmed ones are put behind it.
LEMMA FrontOfKeep ==
    ASSUME NEW E, NEW s \in Seq(E), NEW T, NEW H, InFront(s, H)
    PROVE  InFront(Keep(s, T), H)
<1> DEFINE q == Keep(s, T)
<1>1. q \in Seq(E) /\ \E place : SelectedAt(q, s, T, place)
  BY KeepList
<1>2. PICK place : SelectedAt(q, s, T, place)
  BY <1>1
<1>3. Len(s) \in Nat /\ DOMAIN s = 1 .. Len(s) /\ Len(q) \in Nat /\ DOMAIN q = 1 .. Len(q)
  BY <1>1, LenProperties
<1> HIDE DEF q
<1> SUFFICES ASSUME NEW i \in 1 .. Len(q), NEW j \in 1 .. Len(q), i < j, q[j].isOptimistic
             PROVE  q[i].isOptimistic \/ q[i].msg \in H
  BY <1>3 DEF InFront, q
<1>4. /\ place[i] \in 1 .. Len(s) /\ place[j] \in 1 .. Len(s) /\ place[i] < place[j]
      /\ q[i] = s[place[i]] /\ q[j] = s[place[j]]
  BY <1>2 DEF SelectedAt
<1>5. QED BY <1>3, <1>4 DEF InFront

LEMMA FrontOfJoined ==
    ASSUME NEW E, NEW s \in Seq(E), NEW t \in Seq(E), NEW H,
           InFront(s, H), InFront(t, H),
           \/ \A e \in ToSet(s) : e.isOptimistic \/ e.msg \in H
           \/ \A e \in ToSet(t) : ~e.isOptimistic
    PROVE  InFront(s \o t, H)
<1> DEFINE q == s \o t
<1>1. /\ Len(s) \in Nat /\ DOMAIN s = 1 .. Len(s)
      /\ Len(t) \in Nat /\ DOMAIN t = 1 .. Len(t)
  BY LenProperties
<1>2. /\ q \in Seq(E) /\ Len(q) = Len(s) + Len(t)
      /\ \A i \in 1 .. Len(s) + Len(t) : q[i] = IF i <= Len(s) THEN s[i] ELSE t[i - Len(s)]
  BY ConcatProperties
<1> HIDE DEF q
<1>3. DOMAIN q = 1 .. Len(s) + Len(t)
  BY <1>2, LenProperties
<1>4. \A i \in DOMAIN q : \/ i \in 1 .. Len(s) /\ q[i] = s[i]
                          \/ i - Len(s) \in 1 .. Len(t) /\ q[i] = t[i - Len(s)]
  BY <1>1, <1>2, <1>3
<1> SUFFICES ASSUME NEW i \in DOMAIN q, NEW j \in DOMAIN q, i < j, q[j].isOptimistic
             PROVE  q[i].isOptimistic \/ q[i].msg \in H
  BY DEF InFront, q
<1>5. i \in Nat /\ j \in Nat
  BY <1>1, <1>3
<1>6. CASE i \in 1 .. Len(s) /\ j \in 1 .. Len(s)
  <2>1. q[i] = s[i] /\ q[j] = s[j]
    BY <1>1, <1>4, <1>6
  <2>2. QED BY <1>1, <1>6, <2>1 DEF InFront
<1>7. CASE i - Len(s) \in 1 .. Len(t) /\ j - Len(s) \in 1 .. Len(t)
  <2>1. q[i] = t[i - Len(s)] /\ q[j] = t[j - Len(s)]
    BY <1>1, <1>4, <1>7
  <2>2. i - Len(s) < j - Len(s)
    BY <1>1, <1>5
  <2>3. QED BY <1>1, <1>7, <2>1, <2>2 DEF InFront
<1>8. CASE i \in 1 .. Len(s) /\ j - Len(s) \in 1 .. Len(t)
  <2>1. q[i] = s[i] /\ q[j] = t[j - Len(s)]
    BY <1>1, <1>4, <1>5, <1>8
  <2>2. s[i] \in ToSet(s) /\ t[j - Len(s)] \in ToSet(t)
    BY <1>1, <1>8 DEF ToSet
  <2>3. QED BY <2>1, <2>2
<1>9. ~(i - Len(s) \in 1 .. Len(t) /\ j \in 1 .. Len(s))
  BY <1>1, <1>5
<1>10. QED BY <1>4, <1>6, <1>7, <1>8, <1>9

\* The screen after a message was sent from it.
LEMMA SendingScreen ==
    ASSUME TypeOK, NEW t \in Texts, Sends(t)
    PROVE  LET e == [msg |-> Len(messages'), isOptimistic |-> TRUE]
           IN  /\ screen' \in Seq(Entry') /\ e \in Entry'
               /\ ToSet(screen') = ToSet(screen) \cup {e} /\ e \notin ToSet(screen)
               /\ IsInjective(screen) => IsInjective(screen')
               /\ FrontInv => FrontInv'
               /\ screen' # << >>
               /\ screen # << >> => Last(screen') = Last(screen)
               /\ screen = << >> => Last(screen') = e
<1> DEFINE e == [msg |-> Len(messages'), isOptimistic |-> TRUE]
<1>1. PICK message \in Message : messages' = Append(messages, message)
  BY DEF Sends
<1>2. Ids' = Ids \cup {Len(messages')} /\ Len(messages') \notin Ids
  BY <1>1, PostStep
<1>3. Entry \subseteq Entry' /\ e \in Entry' /\ e \notin Entry
  BY <1>2 DEF Entry
<1>4. screen \in Seq(Entry) /\ screen \in Seq(Entry')
  <2>1. screen \in Seq(Entry)
    BY DEF TypeOK
  <2>2. QED BY <1>3, <2>1, SeqMonotonic
<1>5. screen' = <<e>> \o screen /\ heard' = heard
  BY DEF Sends
<1>6. e.isOptimistic
  OBVIOUS
<1> DEFINE one == <<e>>
<1> HIDE DEF e
<1>7. one \in Seq(Entry') /\ ToSet(one) = {e} /\ IsInjective(one) /\ one # << >> /\ Last(one) = e
  BY <1>3, OneEntry
<1> HIDE DEF one
<1>8. e \notin ToSet(screen)
  BY <1>3, <1>4, Elements
<1>9. /\ screen' \in Seq(Entry') /\ ToSet(screen') = {e} \cup ToSet(screen)
      /\ IsInjective(screen) => IsInjective(screen')
      /\ screen # << >> => screen' # << >> /\ Last(screen') = Last(screen)
      /\ screen = << >> => screen' = one
  <2>0. screen' = one \o screen
    BY <1>5 DEF one
  <2>1. ToSet(one) \cap ToSet(screen) = {}
    BY <1>7, <1>8
  <2>2. screen = << >> => screen' = one
    BY <1>4, <1>7, <2>0, ConcatEmptySeq
  <2>3. /\ one \o screen \in Seq(Entry')
        /\ ToSet(one \o screen) = ToSet(one) \cup ToSet(screen)
        /\ IsInjective(one) /\ IsInjective(screen) /\ ToSet(one) \cap ToSet(screen) = {}
              => IsInjective(one \o screen)
        /\ screen # << >> => one \o screen # << >> /\ Last(one \o screen) = Last(screen)
    BY <1>4, <1>7, JoinedLists
  <2>4. QED BY <1>7, <2>0, <2>1, <2>2, <2>3
<1>10. ASSUME FrontInv PROVE FrontInv'
  <2>1. InFront(one, heard)
    BY <1>6 DEF InFront, one
  <2>2. InFront(screen, heard)
    BY <1>10 DEF FrontInv
  <2>3. \A x \in ToSet(one) : x.isOptimistic
    BY <1>6, <1>7
  <2>4. InFront(one \o screen, heard)
    BY <1>4, <1>7, <2>1, <2>2, <2>3, FrontOfJoined
  <2>5. QED BY <1>5, <2>4 DEF FrontInv, one
<1>11. QED BY <1>3, <1>7, <1>8, <1>9, <1>10 DEF e

\* A larger set of events puts no one in front.
LEMMA FrontOfMore ==
    ASSUME NEW s, NEW H, NEW G, H \subseteq G, InFront(s, H)
    PROVE  InFront(s, G)
BY DEF InFront

\* The screen after the event of a message: its optimistic entries give way to it.
LEMMA ReceivedScreen ==
    ASSUME TypeOK, NEW m \in Ids, Receives(m)
    PROVE  /\ screen' \in Seq(Entry')
           /\ ToSet(screen') = {e \in ToSet(screen) : ~Matches(e, m)} \cup {Confirmed(m)}
           /\ IsInjective(screen) => IsInjective(screen')
           /\ FrontInv => FrontInv'
           /\ screen' # << >>
           /\ screen # << >> /\ ~Matches(Last(screen), m) => Last(screen') = Last(screen)
<1> DEFINE T == {e \in ToSet(screen) : ~Matches(e, m)}
           kept == Keep(screen, T)
           one == <<Confirmed(m)>>
<1>1. /\ screen' = IF Confirmed(m) \in ToSet(kept) THEN kept ELSE one \o kept
      /\ heard' = heard \cup {m} /\ Ids' = Ids
  BY DEF Receives, OnNewMessageReceived, InsertIfAbsent, WithoutOptimistic
<1>2. screen \in Seq(Entry)
  BY DEF TypeOK
<1>3. Confirmed(m) \in Entry /\ ~Confirmed(m).isOptimistic /\ Confirmed(m).msg = m
  BY DEF Confirmed, Entry
<1>4. Entry' = Entry
  BY <1>1 DEF Entry
<1> HIDE DEF one
<1>5. /\ one \in Seq(Entry) /\ one # << >> /\ Last(one) = Confirmed(m)
      /\ ToSet(one) = {Confirmed(m)} /\ IsInjective(one)
  BY <1>3, OneEntry DEF one
<1>6. T \subseteq ToSet(screen) /\ \A e \in ToSet(screen) : e \in T <=> ~Matches(e, m)
  OBVIOUS
<1> HIDE DEF T
<1>7. /\ kept \in Seq(Entry) /\ ToSet(kept) = T
      /\ IsInjective(screen) => IsInjective(kept)
      /\ screen # << >> /\ Last(screen) \in T => kept # << >> /\ Last(kept) = Last(screen)
  <2>1. /\ Keep(screen, T) \in Seq(Entry)
        /\ ToSet(Keep(screen, T)) = ToSet(screen) \cap T
        /\ IsInjective(screen) => IsInjective(Keep(screen, T))
        /\ screen # << >> /\ Last(screen) \in T
              => Keep(screen, T) # << >> /\ Last(Keep(screen, T)) = Last(screen)
    BY <1>2, KeepMembers
  <2>2. QED BY <1>6, <2>1
<1>8. ASSUME FrontInv PROVE InFront(kept, heard')
  <2>1. InFront(screen, heard)
    BY <1>8 DEF FrontInv
  <2>2. InFront(Keep(screen, T), heard)
    BY <1>2, <2>1, FrontOfKeep
  <2>3. QED BY <1>1, <2>2, FrontOfMore
<1>9. screen # << >> /\ ~Matches(Last(screen), m) => Last(screen) \in T
  BY <1>2, <1>6, Elements
<1> HIDE DEF kept
<1>10. CASE Confirmed(m) \in ToSet(kept)
  <2>1. screen' = kept
    BY <1>1, <1>10
  <2>2. kept # << >>
    BY <1>7, <1>10, Elements
  <2>3. FrontInv => FrontInv'
    BY <1>8, <2>1 DEF FrontInv
  <2>4. ToSet(screen') = T \cup {Confirmed(m)}
    BY <1>7, <1>10, <2>1
  <2>5. QED BY <1>4, <1>7, <1>9, <2>1, <2>2, <2>3, <2>4 DEF T
<1>11. CASE Confirmed(m) \notin ToSet(kept)
  <2>1. screen' = one \o kept
    BY <1>1, <1>11
  <2>2. /\ one \o kept \in Seq(Entry)
        /\ ToSet(one \o kept) = ToSet(one) \cup ToSet(kept)
        /\ IsInjective(one) /\ IsInjective(kept) /\ ToSet(one) \cap ToSet(kept) = {}
              => IsInjective(one \o kept)
        /\ kept = << >> => one \o kept = one
        /\ kept # << >> => one \o kept # << >> /\ Last(one \o kept) = Last(kept)
    BY <1>5, <1>7, JoinedLists
  <2>3. ToSet(one) \cap ToSet(kept) = {}
    BY <1>5, <1>11
  <2>4. ASSUME FrontInv PROVE FrontInv'
    <3>1. InFront(one, heard')
      BY <1>3 DEF InFront, one
    <3>2. \A x \in ToSet(one) : x.isOptimistic \/ x.msg \in heard'
      BY <1>1, <1>3, <1>5
    <3>3. InFront(one \o kept, heard')
      BY <1>5, <1>7, <1>8, <2>4, <3>1, <3>2, FrontOfJoined
    <3>4. QED BY <2>1, <3>3 DEF FrontInv
  <2>5. ToSet(screen') = T \cup {Confirmed(m)}
    BY <1>5, <1>7, <2>1, <2>2
  <2>6. QED BY <1>4, <1>5, <1>7, <1>9, <2>1, <2>2, <2>3, <2>4, <2>5 DEF T
<1>12. QED BY <1>10, <1>11

\* The screen with the page under way behind it, without what it shows already.
LEMMA OlderScreen ==
    ASSUME TypeOK, ShowOlder
    PROVE  /\ screen' \in Seq(Entry')
           /\ \A e : e \in ToSet(screen') <=>
                        e \in ToSet(screen) \/ \E m \in ToSet(older.page) : e = Confirmed(m)
           /\ IsInjective(screen) /\ IsInjective(older.page) => IsInjective(screen')
           /\ FrontInv => FrontInv'
           /\ \/ screen' = screen
              \/ screen' # << >> /\ \E m \in ToSet(older.page) : Last(screen') = Confirmed(m)
<1> DEFINE page == AsEntries(older.page)
           new == ToSet(page) \ ToSet(screen)
           kept == Keep(page, new)
<1>1. screen \in Seq(Entry) /\ older.page \in Seq(Ids)
  BY DEF TypeOK
<1>2. screen' = screen \o kept /\ heard' = heard /\ messages' = messages
  BY DEF ShowOlder, chat
<1>3. Entry' = Entry
  BY <1>2 DEF Entry, Ids
<1>4. ToSet(older.page) \subseteq Ids
  BY <1>1, Elements
<1>5. /\ page \in Seq(Entry)
      /\ \A m : Confirmed(m) \in ToSet(page) <=> m \in ToSet(older.page)
      /\ \A e \in ToSet(page) : ~e.isOptimistic /\ e = Confirmed(e.msg)
      /\ IsInjective(older.page) => IsInjective(page)
  BY <1>1, ListAsEntries
<1> HIDE DEF page
<1>6. \A e : e \in ToSet(page) <=> \E m \in ToSet(older.page) : e = Confirmed(m)
  BY <1>5
<1>7. new \subseteq ToSet(page) /\ new \cap ToSet(screen) = {}
      /\ ToSet(screen) \cup new = ToSet(screen) \cup ToSet(page)
  OBVIOUS
<1> HIDE DEF new
<1>8. /\ kept \in Seq(Entry) /\ ToSet(kept) = new
      /\ IsInjective(page) => IsInjective(kept)
  <2>1. /\ Keep(page, new) \in Seq(Entry)
        /\ ToSet(Keep(page, new)) = ToSet(page) \cap new
        /\ IsInjective(page) => IsInjective(Keep(page, new))
    BY <1>5, KeepMembers
  <2>2. QED BY <1>7, <2>1
<1> HIDE DEF kept
<1>9. /\ screen \o kept \in Seq(Entry)
      /\ ToSet(screen \o kept) = ToSet(screen) \cup ToSet(kept)
      /\ IsInjective(screen) /\ IsInjective(kept) /\ ToSet(screen) \cap ToSet(kept) = {}
            => IsInjective(screen \o kept)
      /\ kept = << >> => screen \o kept = screen
      /\ kept # << >> => screen \o kept # << >> /\ Last(screen \o kept) = Last(kept)
  BY <1>1, <1>8, JoinedLists
<1>10. kept # << >> => Last(kept) \in ToSet(page)
  BY <1>7, <1>8, Elements
<1>11. ASSUME FrontInv PROVE FrontInv'
  <2>1. InFront(screen, heard)
    BY <1>11 DEF FrontInv
  <2>2. \A e \in ToSet(kept) : ~e.isOptimistic
    BY <1>5, <1>7, <1>8
  <2>3. \A i \in DOMAIN kept : kept[i] \in ToSet(kept)
    BY <1>8, LenProperties DEF ToSet
  <2>4. InFront(kept, heard)
    BY <2>2, <2>3 DEF InFront
  <2>5. InFront(screen \o kept, heard)
    BY <1>1, <1>8, <2>1, <2>2, <2>4, FrontOfJoined
  <2>6. QED BY <1>2, <2>5 DEF FrontInv
<1>12. ToSet(screen') = ToSet(screen) \cup ToSet(page)
  BY <1>2, <1>7, <1>8, <1>9
<1>13. QED
  BY <1>2, <1>3, <1>5, <1>6, <1>7, <1>8, <1>9, <1>10, <1>11, <1>12

\* What was said of a stored message stays true of it.
LEMMA Stable ==
    ASSUME TypeOK, Grows
    PROVE  /\ \A h \in Ids, e \in Entry :
                 messages[h].at > 0 => (Matches(e, h)' <=> Matches(e, h))
           /\ heard \subseteq heard' /\ own \subseteq own' /\ (\A h \in heard : messages[h].at > 0)
                 => \A m \in Ids : messages[m].at > 0 /\ Passed(m) => Passed(m)'
<1>1. ASSUME NEW h \in Ids, NEW e \in Entry, messages[h].at > 0
      PROVE  Matches(e, h)' <=> Matches(e, h)
  <2>1. e.msg \in Ids
    BY DEF Entry
  <2>2. /\ messages'[h].mine = messages[h].mine /\ messages'[h].text = messages[h].text
        /\ messages'[h].at = messages[h].at
        /\ messages'[e.msg].text = messages[e.msg].text
        /\ messages'[e.msg].made = messages[e.msg].made
    BY <1>1, <2>1 DEF Grows
  <2>3. QED BY <2>2 DEF Matches, Apart
<1>2. ASSUME heard \subseteq heard', own \subseteq own', \A h \in heard : messages[h].at > 0,
             NEW m \in Ids, messages[m].at > 0, Passed(m)
      PROVE  Passed(m)'
  <2>1. \A k \in Ids : k \in Ids' /\ messages'[k].made = messages[k].made
                       /\ (messages[k].at > 0 => messages'[k].at = messages[k].at)
    BY DEF Grows
  <2>2. \A k \in heard \cup own : k \in Ids
    BY DEF TypeOK
  <2>3. CASE \E h \in heard : messages[h].at < messages[m].at
    BY <1>2, <2>1, <2>2, <2>3 DEF Passed
  <2>4. ASSUME NEW k \in Ids \ {m}, messages[k].at = messages[m].at PROVE Passed(m)'
    <3>1. messages'[k].at = messages'[m].at
      BY <1>2, <2>1, <2>4
    <3>2. QED BY <2>1, <2>4, <3>1 DEF Passed
  <2>5. ASSUME NEW k \in own, messages[k].made + Zone <= messages[m].at PROVE Passed(m)'
    BY <1>2, <2>1, <2>2, <2>5 DEF Passed
  <2>6. QED BY <1>2, <2>3, <2>4, <2>5 DEF Passed
<1>3. QED BY <1>1, <1>2

-----------------------------------------------------------------------------
(* Type correctness. *)

\* All but the messages and the lists.
FlagsOK ==
    /\ now \in 1 .. MaxTime
    /\ {up, open, hasMore, typing, timer, missed, peerUp} \subseteq BOOLEAN
    /\ held \in {"none", "start", "stop"}
    /\ provider \in {"none", "loading", "ready", "failed"}
    /\ faults \in 0 .. MaxFaults

LEMMA FlagsStep ==
    ASSUME FlagsOK, [Next]_vars
    PROVE  FlagsOK'
<1> USE ChatScreenAssumption DEF FlagsOK
<1>1. ASSUME UNCHANGED vars PROVE FlagsOK'
  BY <1>1 DEF vars, chat, list, loads, typist, link
<1>2. ASSUME NEW t \in Texts, SendMessage(t) \/ OthersSend(t) PROVE FlagsOK'
  BY <1>2 DEF SendMessage, OthersSend, list, loads, typist, link
<1>3. ASSUME NEW m \in Ids, Store(m) \/ Announce(m) \/ Broadcast(m) \/ GiveUp(m) PROVE FlagsOK'
  BY <1>3 DEF Store, Announce, Broadcast, GiveUp, AtStage, loads, typist, link
<1>4. ASSUME OpenScreen \/ CloseScreen \/ ShowHistory \/ LoadOlder \/ ShowOlder PROVE FlagsOK'
  BY <1>4 DEF OpenScreen, CloseScreen, ShowHistory, LoadOlder, ShowOlder, chat, list, loads, typist, link
<1>5. ASSUME Fault, UNCHANGED now PROVE now' \in 1 .. MaxTime /\ faults' \in 0 .. MaxFaults
  BY <1>5 DEF Fault
<1>6. ASSUME HistoryFails \/ OlderFails \/ Disconnect PROVE FlagsOK'
  BY <1>5, <1>6 DEF HistoryFails, OlderFails, Disconnect, chat, list, loads, typist, link
<1>7. ASSUME NEW on \in BOOLEAN, Relayed(on) \/ Lost(on)
      PROVE  typing' \in BOOLEAN /\ missed' \in BOOLEAN
  BY <1>7 DEF Relayed, Lost
<1>8. ASSUME NEW on \in BOOLEAN, Emit(on), timer' \in BOOLEAN PROVE FlagsOK'
  BY <1>7, <1>8 DEF Emit, chat, loads
<1>9. ASSUME PeerStep PROVE FlagsOK'
  <2>1. CASE PeerTypes \/ PeerStops \/ TimerFires
    BY <1>8, <2>1 DEF PeerTypes, PeerStops, TimerFires, StopTyping
  <2>2. CASE PeerLeaves
    BY <2>2 DEF PeerLeaves, chat, loads, link
  <2>3. CASE PeerDisconnects
    BY <1>5, <2>3 DEF PeerDisconnects, chat, loads
  <2>4. CASE PeerReconnects
    <3>1. typing' \in BOOLEAN /\ missed' \in BOOLEAN
      BY <1>7, <2>4 DEF PeerReconnects
    <3>2. QED BY <2>4, <3>1 DEF PeerReconnects, chat, loads
  <2>5. QED BY <1>9, <2>1, <2>2, <2>3, <2>4 DEF PeerStep
<1>10. ASSUME Reconnect PROVE FlagsOK'
  BY <1>10 DEF Reconnect, list, loads, typist, link
<1>11. ASSUME Tick PROVE FlagsOK'
  BY <1>11 DEF Tick, list, loads, typist, link
<1>12. QED
  BY <1>1, <1>2, <1>3, <1>4, <1>6, <1>9, <1>10, <1>11 DEF Next, PeerStep

\* The lists of messages and of entries, and the sets of messages.
ListsOK ==
    /\ screen \in Seq(Entry) /\ history \in Seq(Ids)
    /\ older \in [isLoadingMore : BOOLEAN, page : Seq(Ids)]
    /\ {heard, own, early} \subseteq SUBSET Ids

LEMMA ListsStep ==
    ASSUME TypeOK, StoredInv, [Next]_vars
    PROVE  ListsOK'
<1> USE ChatScreenAssumption
<1>1. /\ messages' \in Seq(Message) /\ Grows
      /\ \/ Quiet
         \/ \E t \in Texts : Sends(t)
         \/ \E m \in Ids : Receives(m)
         \/ (OpenScreen \/ CloseScreen \/ ShowHistory \/ LoadOlder \/ ShowOlder)
  BY StepKinds
<1>2. Ids \subseteq Ids' /\ Entry \subseteq Entry'
  BY <1>1 DEF Grows, Entry
<1>3. /\ screen \in Seq(Entry') /\ history \in Seq(Ids') /\ older.page \in Seq(Ids')
      /\ older \in [isLoadingMore : BOOLEAN, page : Seq(Ids')]
      /\ heard \subseteq Ids' /\ own \subseteq Ids' /\ early \subseteq Ids'
  <2>1. /\ screen \in Seq(Entry) /\ history \in Seq(Ids) /\ older.page \in Seq(Ids)
        /\ older = [isLoadingMore |-> older.isLoadingMore, page |-> older.page]
        /\ older.isLoadingMore \in BOOLEAN
        /\ heard \subseteq Ids /\ own \subseteq Ids /\ early \subseteq Ids
    BY DEF TypeOK
  <2>2. screen \in Seq(Entry') /\ history \in Seq(Ids') /\ older.page \in Seq(Ids')
    BY <1>2, <2>1, SeqMonotonic
  <2>3. QED BY <1>2, <2>1, <2>2
<1>4. NoRequest \in [isLoadingMore : BOOLEAN, page : Seq(Ids')] /\ << >> \in Seq(Entry')
  BY EmptySeq DEF NoRequest
<1>5. CASE Quiet
  BY <1>3, <1>4, <1>5 DEF Quiet, ListsOK, list
<1>6. ASSUME NEW t \in Texts, Sends(t) PROVE ListsOK'
  <2>1. screen' \in Seq(Entry')
    BY <1>6, SendingScreen
  <2>2. Len(messages') \in Ids'
    BY <1>6, PostStep DEF Sends
  <2>3. QED BY <1>3, <1>6, <2>1, <2>2 DEF Sends, loads, ListsOK
<1>7. ASSUME NEW m \in Ids, Receives(m) PROVE ListsOK'
  <2>1. screen' \in Seq(Entry')
    BY <1>7, ReceivedScreen
  <2>2. heard' = heard \cup {m}
    BY <1>7 DEF Receives, OnNewMessageReceived
  <2>3. QED BY <1>2, <1>3, <1>7, <2>1, <2>2 DEF Receives, loads, ListsOK
<1>8. AsEntries(history) \in Seq(Entry')
  <2>1. history \in Seq(Ids)
    BY DEF TypeOK
  <2>2. AsEntries(history) \in Seq(Entry)
    BY <2>1, ListAsEntries
  <2>3. QED BY <1>2, <2>2, SeqMonotonic
<1>9. \A time \in Int, n \in Nat \ {0} : Page(time, n) \in Seq(Ids')
  <2>1. \A time \in Int, n \in Nat \ {0} : Page(time, n) \in Seq(Ids)
    BY PageList
  <2>2. QED BY <1>2, <2>1, SeqMonotonic
<1>10. CASE OpenScreen
  <2>1. now + 1 \in Nat /\ First \in Nat \ {0}
    BY DEF TypeOK
  <2>2. Page(now + 1, First) \in Seq(Ids') /\ StoredHere \subseteq Ids'
    BY <1>2, <1>9, <2>1 DEF StoredHere
  <2>3. history' \in Seq(Ids') /\ early' \subseteq Ids'
    BY <1>3, <1>10, <2>2 DEF OpenScreen
  <2>4. screen' \in Seq(Entry')
    BY <1>4, <1>8, <1>10 DEF OpenScreen
  <2>5. QED BY <1>3, <1>10, <2>3, <2>4 DEF OpenScreen, ListsOK
<1>11. CASE CloseScreen
  BY <1>3, <1>4, <1>11 DEF CloseScreen, ListsOK
<1>12. CASE ShowHistory
  <2>1. screen' \in Seq(Entry')
    BY <1>3, <1>8, <1>12 DEF ShowHistory
  <2>2. QED BY <1>3, <1>12, <2>1 DEF ShowHistory, ListsOK
<1>13. CASE LoadOlder
  <2>1. CreatedAt(Last(screen)) \in Int
    BY <1>13, CursorType DEF LoadOlder
  <2>2. Page(CreatedAt(Last(screen)), Limit) \in Seq(Ids')
    BY <1>9, <2>1
  <2>3. older' \in [isLoadingMore : BOOLEAN, page : Seq(Ids')]
    BY <1>13, <2>2 DEF LoadOlder
  <2>4. QED BY <1>3, <1>13, <2>3 DEF LoadOlder, list, ListsOK
<1>14. CASE ShowOlder
  <2>1. screen' \in Seq(Entry')
    BY <1>14, OlderScreen
  <2>2. QED BY <1>3, <1>4, <1>14, <2>1 DEF ShowOlder, ListsOK
<1>15. QED
  BY <1>1, <1>5, <1>6, <1>7, <1>10, <1>11, <1>12, <1>13, <1>14

LEMMA TypeStep ==
    ASSUME TypeOK, StoredInv, [Next]_vars
    PROVE  TypeOK'
<1>1. FlagsOK'
  <2>1. FlagsOK
    BY DEF TypeOK, FlagsOK
  <2>2. QED BY <2>1, FlagsStep
<1>2. ListsOK'
  BY ListsStep
<1>3. messages' \in Seq(Message)
  BY StepKinds
<1>4. QED BY <1>1, <1>2, <1>3 DEF TypeOK, FlagsOK, ListsOK

-----------------------------------------------------------------------------
(* The screen that is not open, and the lists. *)

LEMMA ClosedStep ==
    ASSUME TypeOK, StoredInv, ClosedInv, [Next]_vars
    PROVE  ClosedInv'
<1>1. /\ Grows
      /\ \/ Quiet
         \/ \E t \in Texts : Sends(t)
         \/ \E m \in Ids : Receives(m)
         \/ (OpenScreen \/ CloseScreen \/ ShowHistory \/ LoadOlder \/ ShowOlder)
  BY StepKinds
<1>2. CASE Quiet
  <2>1. provider' = "none" => provider = "none"
    BY <1>2 DEF Quiet
  <2>2. QED BY <1>2, <2>1 DEF Quiet, ClosedInv, list
<1>3. ASSUME NEW t \in Texts, Sends(t) PROVE ClosedInv'
  BY <1>3 DEF Sends, ClosedInv, loads
<1>4. ASSUME NEW m \in Ids, Receives(m) PROVE ClosedInv'
  BY <1>4 DEF Receives, ClosedInv, loads
<1>5. CASE OpenScreen
  BY <1>5 DEF OpenScreen, ClosedInv
<1>6. CASE CloseScreen
  BY <1>6 DEF CloseScreen, ClosedInv
<1>7. CASE ShowHistory
  BY <1>7 DEF ShowHistory, ClosedInv
<1>8. CASE LoadOlder
  BY <1>8 DEF LoadOlder, ClosedInv, list
<1>9. CASE ShowOlder
  <2>1. open
    BY <1>9 DEF ShowOlder, ClosedInv, NoRequest
  <2>2. QED BY <1>9, <2>1 DEF ShowOlder, ClosedInv
<1>10. QED BY <1>1, <1>2, <1>3, <1>4, <1>5, <1>6, <1>7, <1>8, <1>9

\* Where nothing goes from the screen and only confirmed entries come to it, what
\* came by an event and what was sent stays there.
LEMMA NothingGoes ==
    ASSUME TypeOK, Grows, HeardInv, OptimisticReplaced, heard' = heard, own' = own,
           \A e \in ToSet(screen) : e \in ToSet(screen'),
           \A e \in ToSet(screen') : e.isOptimistic => e \in ToSet(screen)
    PROVE  HeardInv' /\ OptimisticReplaced'
<1>1. heard \subseteq Ids /\ own \subseteq Ids /\ screen \in Seq(Entry)
  BY DEF TypeOK
<1>2. ToSet(screen) \subseteq Entry
  BY <1>1, Elements
<1>3. \A m : [msg |-> m, isOptimistic |-> TRUE].msg = m
  OBVIOUS
<1>4. \A m \in own : [msg |-> m, isOptimistic |-> TRUE] \in Entry
  BY <1>1 DEF Entry
<1>5. \A h \in heard, e \in Entry : Matches(e, h)' <=> Matches(e, h)
  BY <1>1, Stable DEF HeardInv
<1>6. HeardInv'
  BY <1>1 DEF HeardInv, Grows, Confirmed
<1>7. \A m \in own : IsShown(m) => IsShown(m)'
  BY DEF IsShown
<1>8. \A m \in own : IsShown(m)' \/ \E h \in heard : Matches([msg |-> m, isOptimistic |-> TRUE], h)'
  BY <1>4, <1>5, <1>7 DEF OptimisticReplaced
<1>9. \A e \in ToSet(screen') : e.isOptimistic /\ e.msg \in heard => ~Matches(e, e.msg)'
  BY <1>2, <1>5 DEF OptimisticReplaced
<1>10. QED BY <1>6, <1>8, <1>9 DEF OptimisticReplaced, HeardInv

LEMMA ListStep ==
    ASSUME TypeOK, StoredInv, ClosedInv, ListInv, [Next]_vars
    PROVE  ListInv'
<1> USE ChatScreenAssumption
<1>1. /\ Grows
      /\ \/ Quiet
         \/ \E t \in Texts : Sends(t)
         \/ \E m \in Ids : Receives(m)
         \/ (OpenScreen \/ CloseScreen \/ ShowHistory \/ LoadOlder \/ ShowOlder)
  BY StepKinds
<1>2. /\ IsInjective(screen) /\ IsInjective(history) /\ IsInjective(older.page)
      /\ HeardInv /\ FrontInv /\ OptimisticReplaced
  BY DEF ListInv, DistinctInv
<1>3. /\ screen \in Seq(Entry) /\ history \in Seq(Ids) /\ heard \subseteq Ids /\ own \subseteq Ids
      /\ ToSet(screen) \subseteq Entry
  <2>1. screen \in Seq(Entry)
    BY DEF TypeOK
  <2>2. QED BY <2>1, Elements DEF TypeOK
<1>4. DOMAIN << >> = {} /\ ToSet(<< >>) = {} /\ IsInjective(<< >>) /\ NoRequest.page = << >>
  BY DEF ToSet, IsInjective, NoRequest
<1>5. \A h \in heard, e \in Entry : Matches(e, h)' <=> Matches(e, h)
  BY <1>1, <1>2, <1>3, Stable DEF HeardInv
<1>6. /\ \A e \in ToSet(AsEntries(history)) : ~e.isOptimistic
      /\ IsInjective(AsEntries(history)) /\ InFront(AsEntries(history), heard)
  <2>1. /\ AsEntries(history) \in Seq(Entry)
        /\ \A e \in ToSet(AsEntries(history)) : ~e.isOptimistic
        /\ IsInjective(AsEntries(history))
    BY <1>2, <1>3, ListAsEntries
  <2> DEFINE q == AsEntries(history)
  <2> HIDE DEF q
  <2>2. \A i \in DOMAIN q : q[i] \in ToSet(q)
    BY DEF ToSet
  <2>3. InFront(q, heard)
    BY <2>1, <2>2 DEF InFront, q
  <2>4. QED BY <2>1, <2>3 DEF q
<1>7. ASSUME Quiet \/ LoadOlder PROVE ListInv'
  <2>1. screen' = screen /\ heard' = heard /\ own' = own /\ history' = history
    BY <1>7 DEF Quiet, LoadOlder, list
  <2>2. HeardInv' /\ OptimisticReplaced'
    BY <1>1, <1>2, <2>1, NothingGoes
  <2>3. FrontInv'
    BY <1>2, <2>1 DEF FrontInv
  <2>4. IsInjective(older'.page)
    <3>1. CASE Quiet
      BY <1>2, <1>4, <3>1 DEF Quiet
    <3>2. CASE LoadOlder
      <4>1. CreatedAt(Last(screen)) \in Int
        BY <3>2, CursorType DEF LoadOlder
      <4>2. IsInjective(Page(CreatedAt(Last(screen)), Limit))
        BY <4>1, PageList
      <4>3. QED BY <3>2, <4>2 DEF LoadOlder
    <3>3. QED BY <1>7, <3>1, <3>2
  <2>5. QED BY <1>2, <2>1, <2>2, <2>3, <2>4 DEF ListInv, DistinctInv
<1>8. ASSUME NEW t \in Texts, Sends(t) PROVE ListInv'
  <2> DEFINE e == [msg |-> Len(messages'), isOptimistic |-> TRUE]
  <2>1. /\ ToSet(screen') = ToSet(screen) \cup {e} /\ IsInjective(screen') /\ FrontInv'
    BY <1>2, <1>8, SendingScreen
  <2>2. /\ heard' = heard /\ own' = own \cup {Len(messages')}
        /\ history' = history /\ older' = older
    BY <1>8 DEF Sends, loads
  <2>3. Len(messages') \notin Ids
    BY <1>8, PostStep DEF Sends
  <2>4. HeardInv'
    BY <1>1, <1>2, <1>3, <2>1, <2>2 DEF HeardInv, Grows, Confirmed
  <2>5. \A m \in own : [msg |-> m, isOptimistic |-> TRUE] \in Entry
    BY <1>3 DEF Entry
  <2>6. \A m \in own' : \/ IsShown(m)'
                        \/ \E h \in heard' : Matches([msg |-> m, isOptimistic |-> TRUE], h)'
    <3>1. \A m \in own : IsShown(m) => IsShown(m)'
      BY <2>1 DEF IsShown
    <3>2. ASSUME NEW m, m = Len(messages') PROVE IsShown(m)'
      <4>1. e \in ToSet(screen') /\ e.msg = m
        BY <2>1, <3>2
      <4> HIDE DEF e
      <4>2. QED BY <4>1 DEF IsShown
    <3>3. QED BY <1>2, <1>5, <2>2, <2>5, <3>1, <3>2 DEF OptimisticReplaced
  <2>7. \A x \in ToSet(screen') : x.isOptimistic /\ x.msg \in heard' => ~Matches(x, x.msg)'
    <3>1. e.msg \notin heard
      BY <1>3, <2>3
    <3>2. QED BY <1>2, <1>3, <1>5, <2>1, <2>2, <3>1 DEF OptimisticReplaced
  <2>8. QED
    BY <1>2, <2>1, <2>2, <2>4, <2>6, <2>7 DEF ListInv, DistinctInv, OptimisticReplaced, HeardInv
<1>9. ASSUME NEW m \in Ids, Receives(m) PROVE ListInv'
  <2>1. /\ ToSet(screen') = {e \in ToSet(screen) : ~Matches(e, m)} \cup {Confirmed(m)}
        /\ IsInjective(screen') /\ FrontInv'
    BY <1>2, <1>9, ReceivedScreen
  <2>2. /\ heard' = heard \cup {m} /\ own' = own /\ history' = history /\ older' = older
        /\ messages[m].at > 0
    BY <1>9 DEF Receives, OnNewMessageReceived, loads
  <2>3. \A e \in Entry : Matches(e, m)' <=> Matches(e, m)
    BY <1>1, <2>2, Stable
  <2>4. \A h : ~Matches(Confirmed(h), m) /\ ~Confirmed(h).isOptimistic
    BY DEF Matches, Confirmed
  <2>5. HeardInv'
    BY <1>1, <1>2, <1>3, <2>1, <2>2, <2>4 DEF HeardInv, Grows, Confirmed
  <2>6. ASSUME NEW k \in own
        PROVE  \/ IsShown(k)'
               \/ \E h \in heard' : Matches([msg |-> k, isOptimistic |-> TRUE], h)'
    <3> DEFINE e == [msg |-> k, isOptimistic |-> TRUE]
    <3>1. e \in Entry
      BY <1>3 DEF Entry
    <3>2. CASE \E h \in heard : Matches(e, h)
      BY <1>5, <2>2, <3>1, <3>2
    <3>3. ASSUME NEW x \in ToSet(screen), x.msg = k, ~Matches(x, m) PROVE IsShown(k)'
      BY <2>1, <3>3 DEF IsShown
    <3>4. ASSUME NEW x \in ToSet(screen), x.msg = k, Matches(x, m) PROVE Matches(e, m)'
      <4>1. x = e
        BY <1>3, <3>4 DEF Entry, Matches
      <4>2. QED BY <2>3, <3>1, <3>4, <4>1
    <3>5. QED BY <1>2, <2>2, <3>2, <3>3, <3>4 DEF OptimisticReplaced, IsShown
  <2>7. \A x \in ToSet(screen') : x.isOptimistic /\ x.msg \in heard' => ~Matches(x, x.msg)'
    BY <1>2, <1>3, <1>5, <2>1, <2>2, <2>3, <2>4 DEF OptimisticReplaced
  <2>8. QED
    BY <1>2, <2>1, <2>2, <2>5, <2>6, <2>7 DEF ListInv, DistinctInv, OptimisticReplaced, HeardInv
<1>10. CASE OpenScreen
  <2>1. /\ screen = << >> /\ heard' = heard /\ own' = own /\ older' = older
        /\ screen' \in {AsEntries(history), << >>}
    BY <1>10 DEF OpenScreen, ClosedInv
  <2>2. HeardInv' /\ OptimisticReplaced'
    BY <1>1, <1>2, <1>4, <1>6, <2>1, NothingGoes
  <2>3. FrontInv' /\ IsInjective(screen')
    BY <1>4, <1>6, <2>1 DEF FrontInv, InFront
  <2>4. IsInjective(history')
    <3>1. now + 1 \in Nat /\ First \in Nat \ {0}
      BY DEF TypeOK
    <3>2. IsInjective(Page(now + 1, First))
      BY <3>1, PageList
    <3>3. QED BY <1>2, <1>10, <3>2 DEF OpenScreen
  <2>5. QED BY <1>2, <2>1, <2>2, <2>3, <2>4 DEF ListInv, DistinctInv
<1>11. CASE CloseScreen
  <2>1. /\ screen' = << >> /\ heard' = {} /\ own' = {} /\ older' = NoRequest /\ history' = history
    BY <1>11 DEF CloseScreen
  <2>2. QED
    BY <1>2, <1>4, <2>1 DEF ListInv, DistinctInv, HeardInv, FrontInv, InFront, OptimisticReplaced
<1>12. CASE ShowHistory
  <2>1. /\ heard' = heard /\ own' = own /\ older' = older /\ history' = history
        /\ screen' = screen \/ (screen = << >> /\ screen' = AsEntries(history))
    BY <1>12 DEF ShowHistory
  <2>2. HeardInv' /\ OptimisticReplaced'
    BY <1>1, <1>2, <1>4, <1>6, <2>1, NothingGoes
  <2>3. FrontInv' /\ IsInjective(screen')
    BY <1>2, <1>6, <2>1 DEF FrontInv
  <2>4. QED BY <1>2, <2>1, <2>2, <2>3 DEF ListInv, DistinctInv
<1>13. CASE ShowOlder
  <2>1. /\ heard' = heard /\ own' = own /\ older' = NoRequest /\ history' = history
    BY <1>13 DEF ShowOlder
  <2>2. /\ \A e : e \in ToSet(screen') <=>
                     e \in ToSet(screen) \/ \E m \in ToSet(older.page) : e = Confirmed(m)
        /\ IsInjective(screen') /\ FrontInv'
    BY <1>2, <1>13, OlderScreen
  <2>3. \A m : ~Confirmed(m).isOptimistic
    BY DEF Confirmed
  <2>4. HeardInv' /\ OptimisticReplaced'
    BY <1>1, <1>2, <2>1, <2>2, <2>3, NothingGoes
  <2>5. QED BY <1>2, <1>4, <2>1, <2>2, <2>4 DEF ListInv, DistinctInv
<1>14. QED BY <1>1, <1>7, <1>8, <1>9, <1>10, <1>11, <1>12, <1>13

-----------------------------------------------------------------------------
(* The history. *)

LEMMA EarlyStays ==
    ASSUME TypeOK, Grows, EarlyInv, early' = early, own' \subseteq own,
           \A e \in ToSet(screen') : e.isOptimistic => e.msg \in own'
    PROVE  EarlyInv'
<1>1. early \subseteq Ids /\ own \subseteq Ids
  BY DEF TypeOK
<1>2. \A m \in early' : m \in StoredHere' /\ messages'[m].at = messages[m].at
  BY <1>1 DEF EarlyInv, StoredHere, Grows
<1>3. \A m \in own' : messages'[m].mine
  BY <1>1 DEF EarlyInv, Grows
<1>4. Skew + Zone >= 0 =>
         \A m \in early', k \in own' : messages'[k].made + Zone >= messages'[m].at
  BY <1>1, <1>2 DEF EarlyInv, Grows
<1>5. QED BY <1>2, <1>3, <1>4 DEF EarlyInv

LEMMA EarlyStep ==
    ASSUME TypeOK, StoredInv, ClosedInv, EarlyInv, [Next]_vars
    PROVE  EarlyInv'
<1> USE ChatScreenAssumption
<1>1. /\ Grows
      /\ \/ Quiet
         \/ \E t \in Texts : Sends(t)
         \/ \E m \in Ids : Receives(m)
         \/ (OpenScreen \/ CloseScreen \/ ShowHistory \/ LoadOlder \/ ShowOlder)
  BY StepKinds
<1>2. (\A m \in Ids : messages[m].at \in Nat) /\ now \in Nat
  <2>1. \A m \in Ids : messages[m] \in Message
    BY MessageIds
  <2>2. QED BY <2>1 DEF Message, TypeOK
<1>3. /\ \A m : ~Confirmed(m).isOptimistic
      /\ \A e \in ToSet(screen) : e.isOptimistic => e.msg \in own
  BY DEF Confirmed, EarlyInv
<1>4. ToSet(<< >>) = {}
  BY DEF ToSet
<1>5. \A e \in ToSet(AsEntries(history)) : ~e.isOptimistic
  BY ListAsEntries DEF TypeOK
<1>6. CASE Quiet
  BY <1>1, <1>3, <1>6, EarlyStays DEF Quiet, list
<1>7. ASSUME NEW t \in Texts, Sends(t) PROVE EarlyInv'
  <2> DEFINE k == Len(messages')
             e == [msg |-> Len(messages'), isOptimistic |-> TRUE]
  <2>1. PICK message \in Message :
           messages' = Append(messages, message) /\ message.mine /\ message.made = now + Skew
    BY <1>7 DEF Sends
  <2>2. Ids' = Ids \cup {k} /\ messages'[k].mine /\ messages'[k].made = now + Skew
    BY <2>1, PostStep
  <2>3. /\ early' = early /\ own' = own \cup {k} /\ ToSet(screen') = ToSet(screen) \cup {e}
    BY <1>7, SendingScreen DEF Sends, loads
  <2>4. early \subseteq Ids /\ own \subseteq Ids
    BY DEF TypeOK
  <2>5. e.msg = k
    OBVIOUS
  <2> HIDE DEF k, e
  <2>6. \A m \in early : /\ m \in StoredHere' /\ messages'[m].at = messages[m].at
                         /\ messages[m].at <= now
    BY <1>1, <2>4 DEF EarlyInv, StoredHere, Grows, StoredInv
  <2>7. ASSUME Skew + Zone >= 0, NEW m \in early, NEW j \in own'
        PROVE  messages'[j].made + Zone >= messages'[m].at
    <3>1. CASE j \in own
      <4>1. messages'[j].made = messages[j].made
        BY <1>1, <2>4, <3>1 DEF Grows
      <4>2. QED BY <2>6, <2>7, <3>1, <4>1 DEF EarlyInv
    <3>2. CASE j = k
      <4>1. messages[m].at \in Nat
        BY <1>2, <2>4
      <4>2. QED BY <1>2, <2>2, <2>6, <2>7, <3>2, <4>1
    <3>3. QED BY <2>3, <3>1, <3>2
  <2>8. \A x \in ToSet(screen') : x.isOptimistic => x.msg \in own'
    BY <1>3, <2>3, <2>5
  <2>9. \A m \in own' : messages'[m].mine
    BY <1>1, <2>2, <2>3, <2>4 DEF EarlyInv, Grows
  <2>10. QED BY <2>3, <2>6, <2>7, <2>8, <2>9 DEF EarlyInv
<1>8. ASSUME NEW m \in Ids, Receives(m) PROVE EarlyInv'
  <2>1. ToSet(screen') = {e \in ToSet(screen) : ~Matches(e, m)} \cup {Confirmed(m)}
    BY <1>8, ReceivedScreen
  <2>2. QED BY <1>1, <1>3, <1>8, <2>1, EarlyStays DEF Receives, loads
<1>9. CASE OpenScreen
  <2>1. /\ Ids' = Ids /\ messages' = messages /\ own' = own /\ own = {}
        /\ \A e \in ToSet(screen') : ~e.isOptimistic
    BY <1>4, <1>5, <1>9 DEF OpenScreen, ClosedInv, chat, Ids
  <2>2. CASE provider = "none"
    <3>1. early' = StoredHere
      BY <1>9, <2>2 DEF OpenScreen
    <3>2. QED BY <2>1, <3>1 DEF EarlyInv, StoredHere
  <2>3. CASE provider # "none"
    BY <1>1, <1>9, <2>1, <2>3, EarlyStays DEF OpenScreen
  <2>4. QED BY <2>2, <2>3
<1>10. CASE CloseScreen
  BY <1>1, <1>4, <1>10, EarlyStays DEF CloseScreen
<1>11. CASE ShowHistory
  BY <1>1, <1>3, <1>5, <1>11, EarlyStays DEF ShowHistory
<1>12. CASE LoadOlder
  BY <1>1, <1>3, <1>12, EarlyStays DEF LoadOlder, list
<1>13. CASE ShowOlder
  <2>1. \A e : e \in ToSet(screen') <=>
                  e \in ToSet(screen) \/ \E m \in ToSet(older.page) : e = Confirmed(m)
    BY <1>13, OlderScreen
  <2>2. QED BY <1>1, <1>3, <1>13, <2>1, EarlyStays DEF ShowOlder
<1>14. QED BY <1>1, <1>6, <1>7, <1>8, <1>9, <1>10, <1>11, <1>12, <1>13

LEMMA HistoryStep ==
    ASSUME TypeOK, StoredInv, EarlyInv, HistoryInv, [Next]_vars
    PROVE  HistoryInv'
<1> USE ChatScreenAssumption
<1>1. /\ Grows
      /\ \/ Quiet
         \/ \E t \in Texts : Sends(t)
         \/ \E m \in Ids : Receives(m)
         \/ (OpenScreen \/ CloseScreen \/ ShowHistory \/ LoadOlder \/ ShowOlder)
  BY StepKinds
<1>2. /\ early \subseteq Ids /\ history \in Seq(Ids) /\ now \in Nat
      /\ \A m \in Ids : messages[m].at \in Nat
  BY MessageIds DEF TypeOK, Message
<1>3. ASSUME early' = early, history' = history PROVE HistoryInv'
  <2> SUFFICES ASSUME NEW m \in early, m \notin ToSet(history)
               PROVE  history # << >> /\ messages'[m].at <= messages'[Last(history)].at
    BY <1>3 DEF HistoryInv
  <2>1. history # << >> /\ messages[m].at <= messages[Last(history)].at
    BY DEF HistoryInv
  <2>2. Last(history) \in Ids
    BY <1>2, <2>1, Elements
  <2>3. messages[m].at > 0
    BY DEF EarlyInv, StoredHere
  <2>4. messages[Last(history)].at > 0
    BY <1>2, <2>1, <2>2, <2>3
  <2>5. messages'[m].at = messages[m].at /\ messages'[Last(history)].at = messages[Last(history)].at
    BY <1>1, <1>2, <2>2, <2>3, <2>4 DEF Grows
  <2>6. QED BY <2>1, <2>5
<1>4. CASE OpenScreen /\ provider = "none"
  <2>1. history' = Page(now + 1, First) /\ early' = StoredHere /\ messages' = messages
    BY <1>4 DEF OpenScreen, chat
  <2>2. \A m \in StoredHere : m \in Before(now + 1)
    BY <1>2 DEF StoredHere, Before, StoredInv
  <2>3. now + 1 \in Int /\ First \in Nat \ {0}
    BY <1>2
  <2>4. \A m \in Before(now + 1) :
           \/ m \in ToSet(Page(now + 1, First))
           \/ /\ Page(now + 1, First) # << >>
              /\ messages[m].at <= messages[Last(Page(now + 1, First))].at
    BY <2>3, PageList
  <2>5. QED BY <2>1, <2>2, <2>4 DEF HistoryInv
<1>5. CASE ~(OpenScreen /\ provider = "none")
  <2>1. early' = early /\ history' = history
    BY <1>1, <1>5
       DEF Quiet, Sends, Receives, OpenScreen, CloseScreen, ShowHistory, LoadOlder, ShowOlder, loads
  <2>2. QED BY <1>3, <2>1
<1>6. QED BY <1>4, <1>5

\* A message that was reached stays so, as long as what is confirmed stays.
LEMMA ReachedStays ==
    ASSUME TypeOK, Grows, HeardInv, EarlyInv, heard \subseteq heard', own \subseteq own',
           \A e \in ToSet(screen) : ~e.isOptimistic => e \in ToSet(screen')
    PROVE  \A m \in early : Reached(m) => Reached(m)'
<1> SUFFICES ASSUME NEW m \in early, Reached(m) PROVE Reached(m)'
  OBVIOUS
<1>1. m \in Ids /\ messages[m].at > 0
  BY DEF TypeOK, EarlyInv, StoredHere
<1>2. CASE Confirmed(m) \in ToSet(screen)
  <2>1. ~Confirmed(m).isOptimistic
    BY DEF Confirmed
  <2>2. Confirmed(m) \in ToSet(screen')
    BY <1>2, <2>1
  <2>3. QED BY <2>2 DEF Reached, Confirmed
<1>3. CASE Passed(m)
  <2>1. \A h \in heard : messages[h].at > 0
    BY DEF HeardInv
  <2>2. Passed(m)'
    BY <1>1, <1>3, <2>1, Stable
  <2>3. QED BY <2>2 DEF Reached
<1>4. QED BY <1>2, <1>3 DEF Reached

\* A cursor that is an entry sent from here or an event's: what is not earlier was
\* reached.
LEMMA NewCursor ==
    ASSUME TypeOK', StoredInv', EarlyInv', HeardInv', NEW e \in ToSet(screen'),
           e.isOptimistic \/ e.msg \in heard', NEW m \in early'
    PROVE  Reached(m)' \/ messages'[m].at < CreatedAt(e)'
<1>1. /\ screen' \in Seq(Entry') /\ messages' \in Seq(Message)
      /\ early' \subseteq Ids' /\ heard' \subseteq Ids'
  BY DEF TypeOK
<1>2. e \in Entry'
  BY <1>1, Elements
<1>3. \A k \in Ids' : messages'[k].at \in Nat /\ messages'[k].made \in Int
  <2>1. Ids' = 1 .. Len(messages')
    BY <1>1, LenProperties DEF Ids
  <2>2. \A k \in Ids' : messages'[k] \in Message
    BY <1>1, <2>1, ElementOfSeq
  <2>3. QED BY <2>2 DEF Message
<1>4. m \in Ids' /\ e.msg \in Ids'
  BY <1>1, <1>2 DEF Entry
<1>5. CASE e.isOptimistic
  <2>1. e.msg \in own' /\ CreatedAt(e)' = messages'[e.msg].made + Zone
    BY <1>5 DEF EarlyInv, CreatedAt
  <2>2. CASE messages'[e.msg].made + Zone <= messages'[m].at
    BY <2>1, <2>2 DEF Reached, Passed
  <2>3. QED BY <1>3, <1>4, <2>1, <2>2, ChatScreenAssumption
<1>6. CASE ~e.isOptimistic
  <2>1. e.msg \in heard' /\ CreatedAt(e)' = messages'[e.msg].at
    BY <1>6 DEF CreatedAt
  <2>2. CASE messages'[e.msg].at < messages'[m].at
    BY <2>1, <2>2 DEF Reached, Passed
  <2>3. CASE messages'[e.msg].at = messages'[m].at
    <3>1. CASE e.msg = m
      BY <2>1, <3>1 DEF Reached, HeardInv, Confirmed
    <3>2. CASE e.msg # m
      BY <1>4, <2>3, <3>2 DEF Reached, Passed
    <3>3. QED BY <3>1, <3>2
  <2>4. QED BY <1>3, <1>4, <2>1, <2>2, <2>3
<1>7. QED BY <1>5, <1>6

\* The cursor behind the first page.
LEMMA HistoryCursor ==
    ASSUME TypeOK, HistoryInv, UNCHANGED <<messages, early>>, screen' = AsEntries(history),
           history' = history
    PROVE  CursorInv'
<1>1. /\ history \in Seq(Ids) /\ early \subseteq Ids
      /\ \A m \in Ids : messages[m].at \in Nat
  BY MessageIds DEF TypeOK, Message
<1>2. /\ \A m : Confirmed(m) \in ToSet(AsEntries(history)) <=> m \in ToSet(history)
      /\ AsEntries(history) = << >> <=> history = << >>
      /\ history # << >> => Last(AsEntries(history)) = Confirmed(Last(history))
  BY <1>1, ListAsEntries
<1> SUFFICES ASSUME screen' # << >>, NEW m \in early
             PROVE  Reached(m)' \/ messages'[m].at < CreatedAt(Last(screen))'
  BY DEF CursorInv
<1>3. /\ history # << >> /\ Last(screen') = Confirmed(Last(history))
      /\ Last(history) \in Ids /\ Last(history) \in ToSet(history)
  BY <1>1, <1>2, Elements
<1>4. CreatedAt(Last(screen))' = messages[Last(history)].at
  BY <1>3 DEF CreatedAt, Confirmed
<1>5. CASE m \in ToSet(history)
  BY <1>2, <1>5 DEF Reached, Confirmed
<1>6. CASE m \notin ToSet(history)
  <2>1. messages[m].at <= messages[Last(history)].at
    BY <1>6 DEF HistoryInv
  <2>2. CASE messages[m].at = messages[Last(history)].at
    <3>1. Last(history) \in Ids \ {m}
      BY <1>3, <1>6
    <3>2. Passed(m)'
      BY <2>2, <3>1 DEF Passed, Ids
    <3>3. QED BY <3>2 DEF Reached
  <2>3. QED BY <1>1, <1>3, <1>4, <2>1, <2>2
<1>7. QED BY <1>5, <1>6

LEMMA CursorStays ==
    ASSUME TypeOK, Grows, HeardInv, EarlyInv, CursorInv, early' = early,
           heard \subseteq heard', own \subseteq own',
           \A e \in ToSet(screen) : ~e.isOptimistic => e \in ToSet(screen'),
           screen # << >>, Last(screen') = Last(screen)
    PROVE  CursorInv'
<1> DEFINE e == Last(screen)
<1> SUFFICES ASSUME NEW m \in early PROVE Reached(m)' \/ messages'[m].at < CreatedAt(Last(screen))'
  BY DEF CursorInv
<1>1. e \in Entry /\ e.msg \in Ids
  <2>1. screen \in Seq(Entry)
    BY DEF TypeOK
  <2>2. e \in Entry
    BY <2>1, Elements
  <2>3. QED BY <2>2 DEF Entry
<1>2. \A k \in Ids : messages[k].at \in Nat
  BY MessageIds DEF Message
<1>3. m \in Ids /\ messages[m].at > 0
  BY DEF TypeOK, EarlyInv, StoredHere
<1>4. CASE Reached(m)
  BY <1>4, ReachedStays
<1>5. CASE messages[m].at < CreatedAt(Last(screen))
  <2>1. Last(screen)' = e
    OBVIOUS
  <2>2. CreatedAt(Last(screen))' = IF e.isOptimistic THEN messages'[e.msg].made + Zone
                                                    ELSE messages'[e.msg].at
    BY <2>1 DEF CreatedAt
  <2>3. messages'[m].at = messages[m].at /\ messages'[e.msg].made = messages[e.msg].made
    BY <1>1, <1>3 DEF Grows
  <2>4. CASE e.isOptimistic
    BY <1>5, <2>2, <2>3, <2>4 DEF CreatedAt
  <2>5. CASE ~e.isOptimistic
    <3>1. messages[m].at < messages[e.msg].at
      BY <1>5, <2>5 DEF CreatedAt
    <3>2. messages[e.msg].at > 0
      BY <1>1, <1>2, <1>3, <3>1
    <3>3. messages'[e.msg].at = messages[e.msg].at
      BY <1>1, <3>2 DEF Grows
    <3>4. QED BY <2>2, <2>3, <2>5, <3>1, <3>3
  <2>6. QED BY <2>4, <2>5
<1>6. QED BY <1>4, <1>5 DEF CursorInv

LEMMA CursorStep ==
    ASSUME TypeOK, StoredInv, ClosedInv, ListInv, ScrollInv, [Next]_vars
    PROVE  CursorInv'
<1>1. /\ Grows
      /\ \/ Quiet
         \/ \E t \in Texts : Sends(t)
         \/ \E m \in Ids : Receives(m)
         \/ (OpenScreen \/ CloseScreen \/ ShowHistory \/ LoadOlder \/ ShowOlder)
  BY StepKinds
<1>2. HeardInv /\ FrontInv /\ EarlyInv /\ HistoryInv /\ CursorInv /\ OlderInv
  BY DEF ListInv, ScrollInv
<1>3. TypeOK' /\ StoredInv' /\ EarlyInv' /\ HeardInv'
  <2>1. TypeOK'
    BY TypeStep
  <2>2. StoredInv'
    BY StepKinds
  <2>3. EarlyInv'
    BY <1>2, EarlyStep
  <2>4. ListInv'
    BY ListStep
  <2>5. QED BY <2>1, <2>2, <2>3, <2>4 DEF ListInv
<1>4. screen \in Seq(Entry) /\ heard \subseteq Ids
  BY DEF TypeOK
<1>5. ASSUME screen' = << >> PROVE CursorInv'
  BY <1>5 DEF CursorInv
<1>6. ASSUME UNCHANGED <<screen, heard, own, early>> PROVE CursorInv'
  <2>1. CASE screen = << >>
    BY <1>5, <1>6, <2>1
  <2>2. CASE screen # << >>
    BY <1>1, <1>2, <1>6, <2>2, CursorStays
  <2>3. QED BY <2>1, <2>2
<1>7. ASSUME Quiet \/ LoadOlder PROVE CursorInv'
  BY <1>6, <1>7 DEF Quiet, LoadOlder, list
<1>8. ASSUME screen' # << >>, Last(screen').isOptimistic \/ Last(screen').msg \in heard'
      PROVE  CursorInv'
  <2>1. screen' \in Seq(Entry')
    BY <1>3 DEF TypeOK
  <2>2. Last(screen') \in ToSet(screen')
    BY <1>8, <2>1, Elements
  <2>3. \A m \in early' : Reached(m)' \/ messages'[m].at < CreatedAt(Last(screen))'
    BY <1>3, <1>8, <2>2, NewCursor
  <2>4. QED BY <2>3 DEF CursorInv
<1>9. ASSUME NEW t \in Texts, Sends(t) PROVE CursorInv'
  <2> DEFINE e == [msg |-> Len(messages'), isOptimistic |-> TRUE]
  <2>1. /\ ToSet(screen') = ToSet(screen) \cup {e} /\ screen' # << >>
        /\ screen # << >> => Last(screen') = Last(screen)
        /\ screen = << >> => Last(screen') = e
    BY <1>9, SendingScreen
  <2>2. early' = early /\ heard' = heard /\ own \subseteq own'
    BY <1>9 DEF Sends, loads
  <2>3. CASE screen # << >>
    BY <1>1, <1>2, <2>1, <2>2, <2>3, CursorStays
  <2>4. CASE screen = << >>
    BY <1>8, <2>1, <2>4
  <2>5. QED BY <2>3, <2>4
<1>10. ASSUME NEW x \in Ids, Receives(x) PROVE CursorInv'
  <2>1. /\ screen' \in Seq(Entry')
        /\ ToSet(screen') = {e \in ToSet(screen) : ~Matches(e, x)} \cup {Confirmed(x)}
        /\ screen' # << >>
        /\ screen # << >> /\ ~Matches(Last(screen), x) => Last(screen') = Last(screen)
    BY <1>10, ReceivedScreen
  <2>2. early' = early /\ heard' = heard \cup {x} /\ own' = own
    BY <1>10 DEF Receives, OnNewMessageReceived, loads
  <2>3. \A e \in ToSet(screen) : Matches(e, x) => e.isOptimistic
    BY DEF Matches
  <2>4. CASE screen # << >> /\ ~Matches(Last(screen), x)
    BY <1>1, <1>2, <2>1, <2>2, <2>3, <2>4, CursorStays
  <2>5. CASE screen = << >> \/ Matches(Last(screen), x)
    <3>1. \A e \in ToSet(screen) : e.isOptimistic \/ e.msg \in heard
      <4> DEFINE n == Len(screen)
      <4>1. n \in Nat /\ DOMAIN screen = 1 .. n /\ Last(screen) = screen[n]
        BY <1>4, LenProperties DEF Last
      <4>2. CASE screen = << >>
        BY <1>4, <4>2, Elements
      <4>3. CASE screen # << >> /\ Matches(Last(screen), x)
        <5>1. n \in 1 .. n /\ screen[n].isOptimistic
          BY <1>4, <4>1, <4>3, EmptySeq DEF Matches
        <5> HIDE DEF n
        <5>2. \A i \in 1 .. n : i = n \/ i < n
          BY <4>1
        <5>3. \A i \in 1 .. n : screen[i].isOptimistic \/ screen[i].msg \in heard
          BY <1>2, <4>1, <5>1, <5>2 DEF FrontInv, InFront
        <5>4. QED BY <4>1, <5>3 DEF ToSet
      <4>4. QED BY <2>5, <4>2, <4>3
    <3>2. Last(screen') \in ToSet(screen')
      BY <2>1, Elements
    <3>3. Last(screen').isOptimistic \/ Last(screen').msg \in heard'
      <4>1. Confirmed(x).msg = x
        BY DEF Confirmed
      <4>2. QED BY <2>1, <2>2, <3>1, <3>2, <4>1
    <3>4. QED BY <1>8, <2>1, <3>3
  <2>6. QED BY <2>4, <2>5
<1>11. CASE OpenScreen
  <2>1. CASE provider = "ready"
    <3>1. UNCHANGED <<messages, early>> /\ screen' = AsEntries(history) /\ history' = history
      BY <1>11, <2>1 DEF OpenScreen, chat
    <3>2. QED BY <1>2, <3>1, HistoryCursor
  <2>2. CASE provider # "ready"
    BY <1>5, <1>11, <2>2 DEF OpenScreen
  <2>3. QED BY <2>1, <2>2
<1>12. CASE CloseScreen
  BY <1>5, <1>12 DEF CloseScreen
<1>13. CASE ShowHistory
  <2>1. CASE open /\ screen = << >>
    <3>1. UNCHANGED <<messages, early>> /\ screen' = AsEntries(history) /\ history' = history
      BY <1>13, <2>1 DEF ShowHistory, chat
    <3>2. QED BY <1>2, <3>1, HistoryCursor
  <2>2. CASE ~(open /\ screen = << >>)
    BY <1>6, <1>13, <2>2 DEF ShowHistory
  <2>3. QED BY <2>1, <2>2
<1>14. CASE ShowOlder
  <2>1. /\ messages' = messages /\ early' = early /\ heard' = heard /\ own' = own
        /\ older.isLoadingMore
    BY <1>14 DEF ShowOlder, chat
  <2>2. /\ \A e : e \in ToSet(screen') <=>
                     e \in ToSet(screen) \/ \E m \in ToSet(older.page) : e = Confirmed(m)
        /\ \/ screen' = screen
           \/ screen' # << >> /\ \E m \in ToSet(older.page) : Last(screen') = Confirmed(m)
    BY <1>14, OlderScreen
  <2>3. ASSUME screen' # << >>, NEW p \in ToSet(older.page), Last(screen') = Confirmed(p)
        PROVE  CursorInv'
    <3> SUFFICES ASSUME NEW m \in early
                 PROVE  Reached(m)' \/ messages'[m].at < CreatedAt(Last(screen))'
      BY <2>1 DEF CursorInv
    <3>1. CreatedAt(Last(screen))' = messages[p].at
      BY <2>1, <2>3 DEF CreatedAt, Confirmed
    <3>2. CASE Reached(m)
      BY <1>1, <1>2, <2>1, <2>2, <3>2, ReachedStays
    <3>3. CASE m \in ToSet(older.page)
      BY <2>2, <3>3 DEF Reached, Confirmed
    <3>4. CASE older.page # << >> /\ messages[m].at < messages[Last(older.page)].at
      <4>1. older.page \in Seq(Ids) /\ m \in Ids
        BY DEF TypeOK
      <4>2. /\ Len(older.page) \in Nat /\ DOMAIN older.page = 1 .. Len(older.page)
            /\ \A i \in 1 .. Len(older.page) : older.page[i] \in Ids
        BY <4>1, LenProperties, ElementOfSeq
      <4>3. PICK i \in 1 .. Len(older.page) : older.page[i] = p
        BY <4>2 DEF ToSet
      <4>4. messages[p].at >= messages[Last(older.page)].at
        BY <1>2, <4>2, <4>3 DEF OlderInv, Last
      <4>5. Last(older.page) \in Ids /\ p \in Ids
        BY <3>4, <4>1, <4>2, <4>3, Elements
      <4>6. \A k \in Ids : messages[k].at \in Nat
        BY MessageIds DEF Message
      <4>7. messages[m].at < messages[p].at
        BY <3>4, <4>1, <4>4, <4>5, <4>6
      <4>8. QED BY <2>1, <3>1, <4>7
    <3>5. QED BY <1>2, <2>1, <3>2, <3>3, <3>4 DEF OlderInv
  <2>4. QED BY <1>6, <2>1, <2>2, <2>3
<1>15. QED BY <1>1, <1>7, <1>9, <1>10, <1>11, <1>12, <1>13, <1>14

LEMMA OlderStep ==
    ASSUME TypeOK, StoredInv, ClosedInv, ListInv, ScrollInv, [Next]_vars
    PROVE  OlderInv'
<1> USE ChatScreenAssumption
<1>1. /\ Grows
      /\ \/ Quiet
         \/ \E t \in Texts : Sends(t)
         \/ \E m \in Ids : Receives(m)
         \/ (OpenScreen \/ CloseScreen \/ ShowHistory \/ LoadOlder \/ ShowOlder)
  BY StepKinds
<1>2. HeardInv /\ EarlyInv /\ CursorInv /\ OlderInv
  BY DEF ListInv, ScrollInv
<1>3. older.page \in Seq(Ids) /\ early \subseteq Ids /\ screen \in Seq(Entry)
  BY DEF TypeOK
<1>4. \A m \in Ids : messages[m].at \in Nat
  BY MessageIds DEF Message
<1>5. ASSUME older' = NoRequest PROVE OlderInv'
  <2>1. DOMAIN NoRequest.page = {} /\ ToSet(NoRequest.page) = {} /\ ~NoRequest.isLoadingMore
    BY DEF NoRequest, ToSet
  <2>2. QED BY <1>5, <2>1 DEF OlderInv
<1>6. ASSUME older' = older, early' = early, heard \subseteq heard', own \subseteq own',
             \A e \in ToSet(screen) : ~e.isOptimistic => e \in ToSet(screen')
      PROVE  OlderInv'
  <2>1. /\ DOMAIN older.page = 1 .. Len(older.page)
        /\ \A i \in DOMAIN older.page : older.page[i] \in ToSet(older.page)
        /\ ToSet(older.page) \subseteq Ids
        /\ older.page # << >> => Last(older.page) \in ToSet(older.page)
    BY <1>3, LenProperties, Elements DEF ToSet
  <2>2. \A m \in ToSet(older.page) : messages'[m].at = messages[m].at /\ messages[m].at > 0
    BY <1>1, <1>2, <2>1 DEF OlderInv, Grows
  <2>3. \A m \in early : messages'[m].at = messages[m].at
    BY <1>1, <1>2, <1>3 DEF EarlyInv, StoredHere, Grows
  <2>4. \A m \in early : Reached(m) => Reached(m)'
    BY <1>1, <1>2, <1>6, ReachedStays
  <2>5. \A i, j \in DOMAIN older.page :
           i <= j => messages'[older.page[i]].at >= messages'[older.page[j]].at
    BY <1>2, <2>1, <2>2 DEF OlderInv
  <2>6. older.isLoadingMore =>
           \A m \in early :
              \/ Reached(m)' \/ m \in ToSet(older.page)
              \/ older.page # << >> /\ messages'[m].at < messages'[Last(older.page)].at
    BY <1>2, <2>1, <2>2, <2>3, <2>4 DEF OlderInv
  <2>7. QED BY <1>6, <2>2, <2>5, <2>6 DEF OlderInv
<1>7. CASE Quiet
  <2>1. /\ early' = early /\ heard' = heard /\ own' = own /\ screen' = screen
        /\ older' \in {older, NoRequest}
    BY <1>7 DEF Quiet, list
  <2>2. QED BY <1>5, <1>6, <2>1
<1>8. ASSUME NEW t \in Texts, Sends(t) PROVE OlderInv'
  <2>1. older' = older /\ early' = early /\ heard' = heard /\ own \subseteq own'
    BY <1>8 DEF Sends, loads
  <2>2. \A e \in ToSet(screen) : e \in ToSet(screen')
    BY <1>8, SendingScreen
  <2>3. QED BY <1>6, <2>1, <2>2
<1>9. ASSUME NEW m \in Ids, Receives(m) PROVE OlderInv'
  <2>1. older' = older /\ early' = early /\ heard' = heard \cup {m} /\ own' = own
    BY <1>9 DEF Receives, OnNewMessageReceived, loads
  <2>2. ToSet(screen') = {e \in ToSet(screen) : ~Matches(e, m)} \cup {Confirmed(m)}
    BY <1>9, ReceivedScreen
  <2>3. \A e \in ToSet(screen) : ~e.isOptimistic => e \in ToSet(screen')
    BY <2>2 DEF Matches
  <2>4. QED BY <1>6, <2>1, <2>3
<1>10. CASE OpenScreen
  BY <1>5, <1>10 DEF OpenScreen, ClosedInv
<1>11. CASE CloseScreen
  BY <1>5, <1>11 DEF CloseScreen
<1>12. CASE ShowHistory
  <2>1. ToSet(<< >>) = {}
    BY DEF ToSet
  <2>2. older' = older /\ early' = early /\ heard' = heard /\ own' = own
    BY <1>12 DEF ShowHistory
  <2>3. screen' = screen \/ screen = << >>
    BY <1>12 DEF ShowHistory
  <2>4. QED BY <1>6, <2>1, <2>2, <2>3
<1>13. CASE LoadOlder
  <2> DEFINE time == CreatedAt(Last(screen))
             page == Page(time, Limit)
  <2>1. /\ screen # << >> /\ older' = [isLoadingMore |-> TRUE, page |-> page]
        /\ messages' = messages /\ screen' = screen /\ heard' = heard /\ own' = own
        /\ early' = early
    BY <1>13 DEF LoadOlder, chat, list
  <2>2. time \in Int
    BY <2>1, CursorType
  <2>3. /\ page \in Seq(Ids) /\ ToSet(page) \subseteq Before(time)
        /\ \A i, j \in DOMAIN page : i <= j => messages[page[i]].at >= messages[page[j]].at
        /\ \A m \in Before(time) :
              \/ m \in ToSet(page)
              \/ page # << >> /\ messages[m].at <= messages[Last(page)].at
    BY <2>2, PageList
  <2>4. \A m \in early : Reached(m) \/ m \in Before(time)
    <3>1. \A m \in early : Reached(m) \/ messages[m].at < time
      BY <1>2, <2>1 DEF CursorInv
    <3> HIDE DEF time
    <3>2. QED BY <1>2, <3>1 DEF EarlyInv, Before
  <2> HIDE DEF page, time
  <2>5. /\ older'.isLoadingMore /\ older'.page = page
        /\ \A m : Reached(m)' <=> Reached(m)
    BY <2>1 DEF Reached, Passed, Ids, Confirmed
  <2>6. \A m \in ToSet(page) : messages[m].at > 0
    BY <2>3 DEF Before, StoredHere
  <2>7. ASSUME NEW m \in early
        PROVE  \/ Reached(m) \/ m \in ToSet(page)
               \/ page # << >> /\ messages[m].at < messages[Last(page)].at
    <3>1. CASE page # << >> /\ messages[m].at = messages[Last(page)].at /\ m \notin ToSet(page)
      <4>1. Last(page) \in ToSet(page) /\ Last(page) \in Ids
        BY <2>3, <3>1, Elements
      <4>2. Passed(m)
        BY <3>1, <4>1 DEF Passed
      <4>3. QED BY <4>2 DEF Reached
    <3>2. page # << >> => Last(page) \in Ids
      BY <2>3, Elements
    <3>3. QED BY <1>3, <1>4, <2>3, <2>4, <3>1, <3>2
  <2>8. QED BY <2>1, <2>3, <2>5, <2>6, <2>7 DEF OlderInv
<1>14. CASE ShowOlder
  BY <1>5, <1>14 DEF ShowOlder
<1>15. QED BY <1>1, <1>7, <1>8, <1>9, <1>10, <1>11, <1>12, <1>13, <1>14

LEMMA FoundStep ==
    ASSUME TypeOK, StoredInv, ClosedInv, ListInv, ScrollInv, [Next]_vars
    PROVE  HistoryFound'
<1>1. /\ Grows
      /\ \/ Quiet
         \/ \E t \in Texts : Sends(t)
         \/ \E m \in Ids : Receives(m)
         \/ (OpenScreen \/ CloseScreen \/ ShowHistory \/ LoadOlder \/ ShowOlder)
  BY StepKinds
<1>2. HeardInv /\ EarlyInv /\ OlderInv /\ HistoryFound
  BY DEF ListInv, ScrollInv
<1>3. ToSet(<< >>) = {}
  BY DEF ToSet
<1>4. ASSUME hasMore' PROVE HistoryFound'
  BY <1>4 DEF HistoryFound
<1>5. ASSUME early' = early, heard \subseteq heard', own \subseteq own',
             \A e \in ToSet(screen) : ~e.isOptimistic => e \in ToSet(screen'),
             ~hasMore' => \A m \in early : Reached(m)
      PROVE  HistoryFound'
  <2>1. \A m \in early : Reached(m) => Reached(m)'
    BY <1>1, <1>2, <1>5, ReachedStays
  <2>2. QED BY <1>5, <2>1 DEF HistoryFound, Reached
<1>6. ~hasMore => \A m \in early : Reached(m)
  BY <1>2 DEF HistoryFound, Reached
<1>7. ASSUME Quiet \/ LoadOlder PROVE HistoryFound'
  BY <1>5, <1>6, <1>7 DEF Quiet, LoadOlder, list
<1>8. ASSUME NEW t \in Texts, Sends(t) PROVE HistoryFound'
  <2>1. \A e \in ToSet(screen) : e \in ToSet(screen')
    BY <1>8, SendingScreen
  <2>2. QED BY <1>5, <1>6, <1>8, <2>1 DEF Sends, loads
<1>9. ASSUME NEW m \in Ids, Receives(m) PROVE HistoryFound'
  <2>1. ToSet(screen') = {e \in ToSet(screen) : ~Matches(e, m)} \cup {Confirmed(m)}
    BY <1>9, ReceivedScreen
  <2>2. \A e \in ToSet(screen) : ~e.isOptimistic => e \in ToSet(screen')
    BY <2>1 DEF Matches
  <2>3. QED BY <1>5, <1>6, <1>9, <2>2 DEF Receives, OnNewMessageReceived, loads
<1>10. CASE OpenScreen
  BY <1>4, <1>10 DEF OpenScreen, ClosedInv
<1>11. CASE CloseScreen
  BY <1>4, <1>11 DEF CloseScreen
<1>12. CASE ShowHistory
  <2>1. hasMore' = hasMore /\ early' = early /\ heard' = heard /\ own' = own
    BY <1>12 DEF ShowHistory
  <2>2. screen' = screen \/ screen = << >>
    BY <1>12 DEF ShowHistory
  <2>3. QED BY <1>3, <1>5, <1>6, <2>1, <2>2
<1>13. CASE ShowOlder
  <2>1. /\ older.isLoadingMore /\ hasMore' = (older.page # << >>)
        /\ early' = early /\ heard' = heard /\ own' = own
    BY <1>13 DEF ShowOlder
  <2>2. \A e \in ToSet(screen) : e \in ToSet(screen')
    BY <1>13, OlderScreen
  <2>3. older.page = << >> => \A m \in early : Reached(m)
    BY <1>2, <1>3, <2>1 DEF OlderInv
  <2>4. QED BY <1>5, <2>1, <2>2, <2>3
<1>14. QED BY <1>1, <1>7, <1>8, <1>9, <1>10, <1>11, <1>12, <1>13

-----------------------------------------------------------------------------
(* What holds at first. *)

LEMMA InitScreen ==
    ASSUME Init
    PROVE  ScreenInv
<1> USE ChatScreenAssumption
<1>1. PICK k \in 0 .. 2, t \in Texts :
         messages = [i \in 1 .. k |-> [mine |-> FALSE, here |-> TRUE, text |-> t, made |-> 0,
                                       at |-> i, stage |-> "old"]]
  BY DEF Init
<1>2. k \in Nat /\ DOMAIN messages = 1 .. k
  BY <1>1
<1>3. \A i \in 1 .. k : /\ messages[i] \in Message
                        /\ messages[i].made = 0 /\ messages[i].at = i /\ messages[i].stage = "old"
  BY <1>1 DEF Message
<1>4. messages \in Seq(Message)
  <2>1. messages = [i \in 1 .. k |-> messages[i]]
    BY <1>1
  <2>2. messages \in [1 .. k -> Message]
    BY <1>3, <2>1
  <2>3. QED BY <1>2, <2>2
<1>5. /\ now = 2 /\ up = TRUE /\ open = FALSE /\ screen = << >> /\ heard = {} /\ own = {}
      /\ provider = "none" /\ history = << >> /\ early = {}
      /\ older = NoRequest /\ NoRequest.page = << >> /\ ~NoRequest.isLoadingMore /\ hasMore = TRUE
      /\ typing = FALSE /\ timer = FALSE /\ missed = FALSE
      /\ peerUp = TRUE /\ held = "none" /\ faults = 0
  BY DEF Init, NoRequest
<1>6. DOMAIN << >> = {} /\ ToSet(<< >>) = {}
  BY DEF ToSet
<1>7. TypeOK
  <2>1. /\ << >> \in Seq(Entry) /\ << >> \in Seq(Ids)
        /\ NoRequest \in [isLoadingMore : BOOLEAN, page : Seq(Ids)]
    BY EmptySeq DEF NoRequest
  <2>2. FlagsOK
    <3>1. now \in 1 .. MaxTime /\ faults \in 0 .. MaxFaults
      BY <1>5
    <3>2. /\ {up, open, hasMore, typing, timer, missed, peerUp} \subseteq BOOLEAN
          /\ held \in {"none", "start", "stop"}
      BY <1>5
    <3>3. provider \in {"none", "loading", "ready", "failed"}
      BY <1>5
    <3>4. QED BY <3>1, <3>2, <3>3 DEF FlagsOK
  <2>3. ListsOK
    BY <1>5, <2>1 DEF ListsOK
  <2>4. QED BY <1>4, <2>2, <2>3 DEF TypeOK, FlagsOK, ListsOK
<1>8. StoredInv
  BY <1>2, <1>3, <1>5 DEF StoredInv, Ids
<1>9. ClosedInv
  BY <1>2, <1>3, <1>5 DEF ClosedInv, Ids
<1>10. ListInv
  BY <1>5, <1>6
     DEF ListInv, DistinctInv, IsInjective, HeardInv, FrontInv, InFront, OptimisticReplaced
<1>11. ScrollInv
  BY <1>5, <1>6 DEF ScrollInv, EarlyInv, HistoryInv, CursorInv, OlderInv, HistoryFound
<1>12. QED BY <1>7, <1>8, <1>9, <1>10, <1>11 DEF ScreenInv

\* Every step of the screen, of the server and of the peer preserves the invariant.
LEMMA ScreenStep ==
    ASSUME ScreenInv, [Next]_vars
    PROVE  ScreenInv'
<1>1. TypeOK /\ StoredInv /\ ClosedInv /\ ListInv /\ ScrollInv
  BY DEF ScreenInv
<1>2. TypeOK' /\ StoredInv'
  BY <1>1, TypeStep, StepKinds
<1>3. ClosedInv'
  BY <1>1, ClosedStep
<1>4. ListInv'
  BY <1>1, ListStep
<1>5. EarlyInv' /\ HistoryInv'
  BY <1>1, EarlyStep, HistoryStep DEF ScrollInv
<1>6. CursorInv' /\ OlderInv' /\ HistoryFound'
  BY <1>1, CursorStep, OlderStep, FoundStep
<1>7. QED BY <1>2, <1>3, <1>4, <1>5, <1>6 DEF ScreenInv, ScrollInv

-----------------------------------------------------------------------------
(* The theorems. *)

\* The inductive invariant holds throughout: for every size of a page, window,
\* skew of the clocks, and number of messages, ticks and faults.
THEOREM ScreenInductive == Spec => []ScreenInv
<1>1. Init => ScreenInv
  BY InitScreen
<1>2. ScreenInv /\ [Next]_vars => ScreenInv'
  BY ScreenStep
<1>3. QED BY <1>1, <1>2, PTL DEF Spec

\* The screen, its requests and the messages keep their types: the list holds
\* entries of messages there are, whatever event or page comes when.
THEOREM TypeCorrect == Spec => []TypeOK
<1>1. ScreenInv => TypeOK
  BY DEF ScreenInv
<1>2. QED BY <1>1, ScreenInductive, PTL

\* _onNewMessageReceived, build and _loadMoreOlderMessages never put a message on
\* the list a second time, and what was sent from here stands beside its message only if
\* a page brought that or it came out of the window; for every window and skew.
THEOREM MessagesShownOnce == Spec => []ShownOnce
<1>1. ScreenInv => ShownOnce
  <2> SUFFICES ASSUME ScreenInv PROVE ShownOnce
    OBVIOUS
  <2>1. screen \in Seq(Entry) /\ IsInjective(screen)
    BY DEF ScreenInv, TypeOK, ListInv, DistinctInv
  <2>2. ASSUME NEW i \in DOMAIN screen, NEW j \in DOMAIN screen, i # j,
               screen[i].msg = screen[j].msg
        PROVE  screen[i].isOptimistic # screen[j].isOptimistic
    <3>1. screen[i] \in Entry /\ screen[j] \in Entry
      BY <2>1, LenProperties, ElementOfSeq
    <3>2. screen[i] # screen[j]
      BY <2>1, <2>2 DEF IsInjective
    <3>3. QED BY <2>2, <3>1, <3>2 DEF Entry
  <2>3. ASSUME NEW e \in ToSet(screen), e.isOptimistic, e.msg \in heard
        PROVE  Apart(messages[e.msg].at, messages[e.msg].made) >= Window
    <3>1. messages[e.msg].mine
      BY <2>3 DEF ScreenInv, ScrollInv, EarlyInv
    <3>2. ~Matches(e, e.msg)
      BY <2>3 DEF ScreenInv, ListInv, OptimisticReplaced
    <3>3. ~(Apart(messages[e.msg].at, messages[e.msg].made) < Window)
      BY <2>3, <3>1, <3>2 DEF Matches
    <3>4. messages[e.msg] \in Message
      BY <2>3, MessageIds DEF ScreenInv, TypeOK
    <3>5. messages[e.msg].at \in Int /\ messages[e.msg].made \in Int
      BY <3>4 DEF Message
    <3>6. QED BY <3>3, <3>5, ChatScreenAssumption DEF Apart
  <2>4. QED BY <2>2, <2>3 DEF ShownOnce
<1>2. QED BY <1>1, ScreenInductive, PTL

\* What was sent from the screen stays on it until its message comes, and then
\* gives way to it, for every window and skew.
THEOREM OptimisticAlwaysReplaced == Spec => []OptimisticReplaced
<1>1. ScreenInv => OptimisticReplaced
  BY DEF ScreenInv, ListInv
<1>2. QED BY <1>1, ScreenInductive, PTL

\* Whoever scrolls to the end has passed over no message that was there when the
\* screen was opened, but those that share their createdAt with another, or are not
\* earlier than an entry sent from here, by the client's clock, or than one that came by
\* an event; for every size of a page, skew and time zone.
THEOREM HistoryAlwaysFound == Spec => []HistoryFound
<1>1. ScreenInv => HistoryFound
  BY DEF ScreenInv, ScrollInv
<1>2. QED BY <1>1, ScreenInductive, PTL

\* An entry sent from here gets a message passed over only if it has just its createdAt.
HistoryFoundExactly ==
    ~hasMore => \A m \in early :
        \/ Confirmed(m) \in ToSet(screen)
        \/ \E k \in Ids \ {m} : messages[k].at = messages[m].at
        \/ \E k \in own : messages[k].made + Zone = messages[m].at
        \/ \E h \in heard : messages[h].at < messages[m].at

\* Where the cursor of an entry sent from here is not behind the server's clock, none of
\* them hides an older message: what is sent last is not a cursor too early.
THEOREM HistoryFoundByClock ==
    ASSUME Skew + Zone >= 0
    PROVE  Spec => []HistoryFoundExactly
<1>1. ScreenInv => HistoryFoundExactly
  <2> SUFFICES ASSUME ScreenInv, ~hasMore, NEW m \in early, Passed(m),
                      NEW k \in own, messages[k].made + Zone <= messages[m].at
               PROVE  messages[k].made + Zone = messages[m].at
    BY DEF HistoryFoundExactly, Passed, HistoryFound, ScreenInv, ScrollInv
  <2>1. messages[k].made + Zone >= messages[m].at
    BY DEF ScreenInv, ScrollInv, EarlyInv
  <2>2. TypeOK /\ k \in Ids /\ m \in Ids
    BY DEF ScreenInv, TypeOK
  <2>3. messages[k].made \in Int /\ messages[m].at \in Int
    BY <2>2, MessageIds DEF Message
  <2>4. QED BY <2>1, <2>3, ChatScreenAssumption
<1>2. QED BY <1>1, ScreenInductive, PTL

\* The peer's socket keeps events only while it is disconnected; after a start that it
\* keeps comes the timer's stop, or the peer left.
LinkInv ==
    /\ held # "none" => ~peerUp
    /\ held = "start" => timer \/ missed
TypingInv == TypingBacked /\ LinkInv

LEMMA TypingStep ==
    ASSUME TypeOK, TypingInv, [Next]_vars
    PROVE  TypingInv'
<1> USE DEF TypingInv, TypingBacked, LinkInv
<1>1. ASSUME UNCHANGED typist PROVE TypingInv'
  BY <1>1 DEF typist, link
<1>2. ASSUME NEW t \in Texts, SendMessage(t) \/ OthersSend(t) PROVE TypingInv'
  BY <1>1, <1>2 DEF SendMessage, OthersSend
<1>3. ASSUME NEW m \in Ids, Store(m) \/ Announce(m) \/ Broadcast(m) \/ GiveUp(m)
      PROVE  TypingInv'
  BY <1>1, <1>3 DEF Store, Announce, Broadcast, GiveUp, AtStage
<1>4. CASE CloseScreen
  BY <1>4 DEF CloseScreen, link
<1>5. ASSUME OpenScreen \/ ShowHistory \/ HistoryFails \/ LoadOlder \/ ShowOlder \/ OlderFails
             \/ Disconnect \/ Reconnect \/ Tick
      PROVE  TypingInv'
  BY <1>1, <1>5
     DEF OpenScreen, ShowHistory, HistoryFails, LoadOlder, ShowOlder, OlderFails, Disconnect,
         Reconnect, Tick
<1>6. CASE PeerTypes
  BY <1>6 DEF PeerTypes, Emit
<1>7. CASE PeerStops
  BY <1>7 DEF PeerStops, Emit, Relayed, Lost, TypeOK
<1>8. CASE TimerFires
  BY <1>8 DEF TimerFires, StopTyping, Emit, Relayed, Lost, TypeOK
<1>9. CASE PeerLeaves
  BY <1>9 DEF PeerLeaves, link
<1>10. CASE PeerDisconnects
  BY <1>10 DEF PeerDisconnects
<1>11. CASE PeerReconnects
  BY <1>11 DEF PeerReconnects, Relayed, Lost, TypeOK
<1>12. CASE UNCHANGED vars
  BY <1>1, <1>12 DEF vars
<1>13. QED
  BY <1>2, <1>3, <1>4, <1>5, <1>6, <1>7, <1>8, <1>9, <1>10, <1>11, <1>12 DEF Next

\* The typing indicator is on only while the peer's timer runs or its socket keeps a stop,
\* or after a stop that was lost or never sent; for any number of disconnections.
THEOREM TypingAlwaysBacked == Spec => []TypingBacked
<1>1. Init => TypingInv
  BY DEF Init, TypingInv, TypingBacked, LinkInv
<1>2. TypeOK /\ TypingInv /\ [Next]_vars => TypingInv'
  BY TypingStep
<1>3. TypingInv => TypingBacked
  BY DEF TypingInv
<1>4. QED BY <1>1, <1>2, <1>3, TypeCorrect, PTL DEF Spec

=============================================================================
