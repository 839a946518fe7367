-------------------------- MODULE BoardFeedProofs --------------------------
(***************************************************************************)
(* Proofs about BoardFeed, for any set of users, any page sizes and any    *)
(* number of posts.                                                        *)
(***************************************************************************)
EXTENDS BoardFeed, FiniteSetTheorems, SequenceTheorems, WellFoundedInduction, TLAPS

-----------------------------------------------------------------------------
(* Pages.                                                                  *)

\* A set of numbers has a least element: < is well-founded.
LEMMA LeastElement ==
    ASSUME NEW S \in SUBSET Nat, S # {}
    PROVE  \E x \in S : \A y \in S : x <= y
<1> DEFINE Less == {p \in Nat \X Nat : p[1] < p[2]}
<1>1. IsWellFoundedOn(Less, Nat)
  BY NatLessThanWellFounded DEF OpToRel
<1>2. PICK x \in S : \A y \in S : ~(<<y, x>> \in Less)
  <2> HIDE DEF Less
  <2> QED
    BY <1>1, WFMin, Zenon
<1>3. ASSUME NEW y \in S
      PROVE  x <= y
  <2>1. x \in Nat /\ y \in Nat /\ ~(<<y, x>> \in Less)
    BY <1>2
  <2>2. QED
    BY <2>1
<1>4. QED
  BY <1>3

\* The rows in descending order.
Sorts(s, S) == s \in [1..Cardinality(S) -> S] /\ Range(s) = S /\ Descends(s)

\* A finite set of ids can be sorted: a smallest set that cannot, less its
\* least element, can be sorted, and the least element goes behind the others.
LEMMA SortExists ==
    ASSUME NEW S \in SUBSET Nat, IsFiniteSet(S)
    PROVE  \E s : Sorts(s, S)
<1> DEFINE Unsorted(T) == IsFiniteSet(T) /\ ~ \E s : Sorts(s, T)
           Bad == {n \in Nat : \E T \in SUBSET Nat : Unsorted(T) /\ Cardinality(T) = n}
<1> SUFFICES ASSUME Bad # {}
             PROVE  FALSE
  <2>1. Cardinality(S) \in Nat
    BY FS_CardinalityType
  <2>2. QED
    BY <2>1
<1>1. PICK n \in Bad : \A m \in Bad : n <= m
  <2>1. Bad \in SUBSET Nat
    OBVIOUS
  <2> HIDE DEF Bad
  <2>2. QED
    BY <2>1, LeastElement
<1>2. PICK T \in SUBSET Nat : Unsorted(T) /\ Cardinality(T) = n
  BY <1>1
<1>3. n \in Nat
  BY <1>1
<1>4. T # {}
  <2> SUFFICES ASSUME T = {}
               PROVE  FALSE
    OBVIOUS
  <2>1. Cardinality(T) = 0
    BY FS_EmptySet
  <2>2. Sorts([i \in 1..0 |-> i], T)
    BY <2>1 DEF Sorts, Range, Descends
  <2>3. QED
    BY <1>2, <2>2
<1>5. PICK x \in T : \A y \in T : x <= y
  BY <1>4, LeastElement
<1> DEFINE U == T \ {x}
<1>6. IsFiniteSet(U) /\ Cardinality(U) = n - 1 /\ n - 1 \in Nat
  <2>1. IsFiniteSet(U) /\ Cardinality(U) = n - 1
    BY <1>2, <1>5, FS_RemoveElement
  <2>2. Cardinality(U) \in Nat
    BY <2>1, FS_CardinalityType
  <2>3. QED
    BY <2>1, <2>2
<1>7. PICK u : Sorts(u, U)
  <2>1. ~(n <= n - 1)
    BY <1>3
  <2>2. n - 1 \notin Bad
    BY <1>1, <2>1
  <2>3. QED
    BY <1>6, <2>2
<1> DEFINE s == [i \in 1..n |-> IF i = n THEN x ELSE u[i]]
<1>8. /\ u \in [1..(n - 1) -> U] /\ Range(u) = U /\ Descends(u)
  BY <1>6, <1>7 DEF Sorts
<1>9. s \in [1..n -> T]
  BY <1>3, <1>5, <1>8
<1>10. Range(s) = T
  <2>1. ASSUME NEW y \in T
        PROVE  \E i \in 1..n : s[i] = y
    <3>1. CASE y = x
      <4>1. n \in 1..n
        BY <1>3, <1>6
      <4>2. QED
        BY <3>1, <4>1
    <3>2. CASE y # x
      <4>1. PICK i \in 1..(n - 1) : u[i] = y
        BY <1>8, <3>2 DEF Range
      <4>2. i \in 1..n /\ i # n
        BY <1>3, <4>1
      <4>3. QED
        BY <4>1, <4>2
    <3>3. QED
      BY <3>1, <3>2
  <2>2. QED
    BY <1>9, <2>1 DEF Range
<1>11. Descends(s)
  <2> SUFFICES ASSUME NEW i \in 1..n, NEW j \in 1..n, i < j
               PROVE  s[i] > s[j]
    BY <1>9 DEF Descends
  <2>1. i \in 1..(n - 1)
    BY <1>3
  <2>2. s[i] = u[i] /\ u[i] \in T \ {x}
    <3>1. i # n
      BY <1>3, <2>1
    <3>2. u[i] \in U
      BY <1>8, <2>1
    <3>3. QED
      BY <3>1, <3>2
  <2>3. CASE j = n
    <3>1. s[j] = x /\ x \in Nat /\ u[i] \in Nat
      BY <2>2, <2>3
    <3>2. x <= u[i] /\ x # u[i]
      BY <1>5, <2>2
    <3>3. QED
      BY <2>2, <3>1, <3>2
  <2>4. CASE j # n
    <3>1. j \in 1..(n - 1) /\ s[j] = u[j]
      BY <1>3, <2>4
    <3>2. QED
      BY <1>8, <2>1, <2>2, <3>1 DEF Descends
  <2>5. QED
    BY <2>3, <2>4
<1>12. Sorts(s, T)
  BY <1>2, <1>9, <1>10, <1>11 DEF Sorts
<1>13. QED
  BY <1>2, <1>12

\* ORDER BY id DESC.
LEMMA DescendingSorts ==
    ASSUME NEW S \in SUBSET Nat, IsFiniteSet(S)
    PROVE  Sorts(Descending(S), S)
<1>1. \E s \in [1..Cardinality(S) -> S] : Range(s) = S /\ Descends(s)
  BY SortExists DEF Sorts
<1>2. QED
  BY <1>1 DEF Sorts, Descending

\* A page: the first rows in descending order, and none is left out above the
\* id that leads to the next page.
LEMMA ListPage ==
    ASSUME DOMAIN posts \subseteq Id, NEW after, NEW limit \in Nat \ {0}, NEW page,
           page = List(after, limit), NEW next, next = NextAfter(page, limit)
    PROVE  /\ page \in Seq(Id) /\ Len(page) <= limit
           /\ Range(page) \subseteq Before(after) /\ Descends(page)
           /\ next \in 0..MaxPosts /\ (next = 0 \/ next \in Before(after))
           /\ \A i \in Range(page) : next <= i
           /\ \A i \in Before(after) : next <= i => i \in Range(page)
<1> DEFINE B == Before(after)
           rows == Descending(B)
           N == Cardinality(B)
           k == IF N < limit THEN N ELSE limit
<1>1. B \in SUBSET Id /\ Id \in SUBSET Nat /\ B \in SUBSET Nat
  BY DEF Before, Id
<1>2. IsFiniteSet(B) /\ N \in Nat
  <2>1. IsFiniteSet(Id)
    BY MaxPostsAssumption, FS_Interval DEF Id
  <2>2. QED
    BY <1>1, <2>1, FS_Subset, FS_CardinalityType
<1> HIDE DEF B
<1>3. rows \in [1..N -> B] /\ Range(rows) = B /\ Descends(rows)
  BY <1>1, <1>2, DescendingSorts DEF Sorts
<1> HIDE DEF rows
<1>4. rows \in Seq(B) /\ Len(rows) = N
  BY <1>2, <1>3
<1>5. k \in 0..N /\ k <= limit
  BY <1>2
<1>6. /\ page \in Seq(B) /\ Len(page) = k /\ \A i \in 1..k : page[i] = rows[i]
  <2>1. page = SubSeq(rows, 1, k)
    BY <1>4 DEF List, B, rows
  <2> HIDE DEF k
  <2>2. QED
    BY <1>2, <1>4, <1>5, <2>1, SubSeqProperties
<1>7. DOMAIN page = 1..k /\ page \in [1..k -> B]
  BY <1>6, LenProperties
<1>8. page \in Seq(Id) /\ Len(page) <= limit /\ Range(page) \subseteq B
  <2>1. page \in Seq(Id)
    BY <1>1, <1>6, SeqMonotonic
  <2>2. QED
    BY <1>5, <1>6, <1>7, <2>1 DEF Range
<1>9. Descends(page)
  <2> SUFFICES ASSUME NEW m \in 1..k, NEW n \in 1..k, m < n
               PROVE  page[m] > page[n]
    BY <1>7 DEF Descends
  <2>1. m \in 1..N /\ n \in 1..N
    BY <1>2, <1>5
  <2>2. QED
    BY <1>3, <1>6, <2>1 DEF Descends
<1>10. CASE k = limit
  <2>1. next = rows[k] /\ k \in 1..k /\ k \in 1..N /\ next \in B
    <3>1. k \in 1..k /\ k \in 1..N
      BY <1>2, <1>5, <1>10
    <3>2. next = page[k]
      BY <1>6, <1>10 DEF NextAfter, Last
    <3>3. QED
      BY <1>3, <1>6, <3>1, <3>2
  <2>2. next \in Nat /\ next \in 0..MaxPosts
    BY <1>1, <2>1, MaxPostsAssumption DEF Id
  <2>3. \A i \in Range(page) : next <= i
    <3>1. ASSUME NEW m \in 1..k
          PROVE  next <= page[m]
      <4>1. m \in 1..N /\ page[m] = rows[m] /\ rows[m] \in Nat
        <5>1. m \in 1..N /\ page[m] = rows[m]
          BY <1>2, <1>5, <1>6
        <5>2. rows[m] \in B
          BY <1>3, <5>1
        <5>3. QED
          BY <1>1, <5>1, <5>2
      <4>2. CASE m = k
        BY <2>1, <2>2, <4>1, <4>2
      <4>3. CASE m < k
        <5>1. rows[m] > rows[k]
          BY <1>3, <2>1, <4>1, <4>3 DEF Descends
        <5>2. QED
          BY <2>1, <2>2, <4>1, <5>1
      <4>4. QED
        BY <1>2, <1>5, <4>2, <4>3
    <3>2. QED
      BY <1>7, <3>1 DEF Range
  <2>4. ASSUME NEW i \in B, next <= i
        PROVE  i \in Range(page)
    <3>1. PICK m \in 1..N : rows[m] = i
      BY <1>3 DEF Range
    <3>2. ~(m > k)
      <4>1. m > k => rows[k] > rows[m]
        BY <1>3, <2>1, <3>1 DEF Descends
      <4>2. i \in Nat
        BY <1>1
      <4>3. QED
        BY <2>1, <2>2, <2>4, <3>1, <4>1, <4>2
    <3>3. m \in 1..k
      BY <1>2, <1>5, <3>1, <3>2
    <3>4. page[m] = i
      BY <1>6, <3>1, <3>3
    <3>5. QED
      BY <1>7, <3>3, <3>4 DEF Range
  <2>5. QED
    BY <1>8, <1>9, <2>1, <2>2, <2>3, <2>4 DEF B
<1>11. CASE k # limit
  <2>1. k = N /\ next = 0
    BY <1>6, <1>11 DEF NextAfter
  <2>2. Range(page) = B
    BY <1>3, <1>6, <1>7, <2>1 DEF Range
  <2>3. \A i \in B : 0 <= i
    BY <1>1
  <2>4. 0 \in 0..MaxPosts
    BY MaxPostsAssumption
  <2>5. QED
    BY <1>8, <1>9, <2>1, <2>2, <2>3, <2>4 DEF B
<1>12. QED
  BY <1>10, <1>11

\* A page behind what is on the screen.
LEMMA AppendPage ==
    ASSUME NEW s \in Seq(Id), NEW p \in Seq(Id)
    PROVE  /\ s \o p \in Seq(Id)
           /\ Range(s \o p) = Range(s) \cup Range(p)
           /\ Descends(s) /\ Descends(p) /\ (\A i \in Range(s), j \in Range(p) : i > j)
                => Descends(s \o p)
<1> DEFINE a == Len(s)
           b == Len(p)
           q == s \o p
<1>1. /\ a \in Nat /\ DOMAIN s = 1..a /\ b \in Nat /\ DOMAIN p = 1..b
  BY LenProperties
<1>2. /\ q \in Seq(Id) /\ Len(q) = a + b
      /\ \A i \in 1..(a + b) : q[i] = IF i <= a THEN s[i] ELSE p[i - a]
  BY ConcatProperties
<1>3. DOMAIN q = 1..(a + b)
  BY <1>2, LenProperties
<1> HIDE DEF a, b, q
<1>4. \A i \in 1..a : i \in 1..(a + b) /\ q[i] = s[i]
  BY <1>1, <1>2
<1>5. \A i \in 1..b : i + a \in 1..(a + b) /\ q[i + a] = p[i]
  <2> TAKE i \in 1..b
  <2>1. i + a \in 1..(a + b) /\ ~(i + a <= a) /\ (i + a) - a = i
    BY <1>1
  <2>2. QED
    BY <1>2, <2>1
<1>6. \A i \in 1..(a + b) : i \in 1..a \/ (i - a \in 1..b /\ q[i] = p[i - a])
  BY <1>1, <1>2
<1>7. Range(q) = Range(s) \cup Range(p)
  <2>1. \A y : (\E i \in 1..(a + b) : q[i] = y) <=>
              (\E i \in 1..a : s[i] = y) \/ (\E i \in 1..b : p[i] = y)
    BY <1>4, <1>5, <1>6
  <2>2. QED
    BY <1>1, <1>3, <2>1 DEF Range
<1>8. ASSUME Descends(s), Descends(p), \A i \in Range(s), j \in Range(p) : i > j
      PROVE  Descends(q)
  <2> SUFFICES ASSUME NEW m \in 1..(a + b), NEW n \in 1..(a + b), m < n
               PROVE  q[m] > q[n]
    BY <1>3 DEF Descends
  <2>1. CASE n \in 1..a
    <3>1. m \in 1..a
      BY <1>1, <2>1
    <3>2. QED
      BY <1>1, <1>4, <1>8, <2>1, <3>1 DEF Descends
  <2>2. CASE m \in 1..a /\ n \notin 1..a
    <3>1. q[m] \in Range(s) /\ q[n] \in Range(p)
      BY <1>1, <1>4, <1>6, <2>2 DEF Range
    <3>2. QED
      BY <1>8, <3>1
  <2>3. CASE m \notin 1..a /\ n \notin 1..a
    <3>1. m - a \in 1..b /\ n - a \in 1..b /\ m - a < n - a /\ q[m] = p[m - a] /\ q[n] = p[n - a]
      BY <1>1, <1>6, <2>3
    <3>2. QED
      BY <1>1, <1>8, <3>1 DEF Descends
  <2>4. QED
    BY <2>1, <2>2, <2>3
<1>9. QED
  BY <1>2, <1>7, <1>8 DEF q

-----------------------------------------------------------------------------
(* The inductive invariant.                                                *)

LoadType == [pc : {"idle", "sent", "answered"}, after : 0..MaxPosts, page : Seq(Id),
             next : 0..MaxPosts, seen : SUBSET Id]

TableInv ==
    /\ known \subseteq signedUp /\ signedUp \subseteq User
    /\ nextId \in 1..(MaxPosts + 1)
    /\ DOMAIN open \cup DOMAIN posts \subseteq 1..(nextId - 1)
    /\ \A i \in DOMAIN open : open[i] \in signedUp
    /\ \A i \in DOMAIN posts : posts[i] \in signedUp

ScreenTypes ==
    /\ submitted \in 0..MaxPosts
    /\ size \in Sizes
    /\ load \in [Caller -> LoadType]
    /\ list \in Seq(Id)
    /\ cursor \in 0..MaxPosts
    /\ busy \in BOOLEAN /\ crossed \in BOOLEAN

\* What the client has seen is in the table, which only grows.
SeenInv ==
    /\ Range(list) \cup base \subseteq DOMAIN posts
    /\ \A l \in Caller : /\ Range(load[l].page) \cup load[l].seen \subseteq DOMAIN posts
                         /\ Len(load[l].page) <= maxPageSize

\* The buttons are disabled while one of them is at work, in one request.
BusyInv ==
    /\ busy <=> (submitted # 0 \/ load["button"] # NoLoad)
    /\ submitted # 0 => load["button"] = NoLoad
    /\ \A l \in Caller : load[l].pc = "idle" => load[l] = NoLoad
    /\ load["mount"].after = 0

\* A page descends from below its cursor, and leaves out nothing between its
\* two ends: of the table as a first page saw it, or of the posts that the
\* first page on the screen saw.
GoodPage(r, b, ok) ==
    r.pc = "answered" =>
        /\ Descends(r.page)
        /\ \A i \in Range(r.page) : r.next <= i /\ (r.after # 0 => i < r.after)
        /\ r.after # 0 => r.next <= r.after
        /\ r.after = 0 => \A i \in r.seen : r.next <= i => i \in Range(r.page)
        /\ r.after # 0 /\ ok => \A i \in b : r.next <= i /\ i < r.after => i \in Range(r.page)

PagesInv == \A l \in Caller : GoodPage(load[l], base, ~crossed)

\* Until two pages cross: the screen ends at the cursor, where the page that
\* is asked for goes on.
ViewInv ==
    ~crossed =>
        /\ FeedComplete
        /\ \A i \in Range(list) : cursor <= i
        /\ load["button"].after # 0 => load["button"].after = cursor /\ load["mount"] = NoLoad

FeedInv == TableInv /\ ScreenTypes /\ SeenInv /\ BusyInv /\ PagesInv /\ ViewInv

\* Requests.
LEMMA LoadFacts ==
    /\ NoLoad \in LoadType /\ NoLoad.pc = "idle" /\ NoLoad.after = 0 /\ NoLoad.page = <<>>
    /\ NoLoad.seen = {}
    /\ Range(<<>>) = {} /\ Len(<<>>) = 0
    /\ \A k \in 0..MaxPosts :
          /\ Sent(k) \in LoadType /\ Sent(k).pc = "sent" /\ Sent(k).after = k
          /\ Sent(k).page = <<>> /\ Sent(k).seen = {} /\ Sent(k) # NoLoad
<1>1. <<>> \in Seq(Id) /\ Range(<<>>) = {} /\ Len(<<>>) = 0 /\ 0 \in 0..MaxPosts
  BY MaxPostsAssumption DEF Range
<1>2. QED
  BY <1>1 DEF NoLoad, Sent, LoadType

\* Page sizes are positive and bounded.
LEMMA PageSizeFacts ==
    ASSUME size \in Sizes
    PROVE  PageSize(size) \in Nat \ {0} /\ PageSize(size) <= maxPageSize
  BY PageSizeAssumption DEF PageSize

\* Ids of the table.
LEMMA TableIds ==
    ASSUME TableInv
    PROVE  DOMAIN posts \subseteq Id /\ DOMAIN open \subseteq Id
  BY MaxPostsAssumption DEF TableInv, Id

\* The screen starts in the invariant.
LEMMA InitFeedInv == Init => FeedInv
<1> SUFFICES ASSUME Init
             PROVE  FeedInv
  OBVIOUS
<1>1. /\ load["mount"] = Sent(0) /\ load["button"] = NoLoad
      /\ \A l \in Caller : load[l] \in {Sent(0), NoLoad}
      /\ 0 \in 0..MaxPosts
  BY MaxPostsAssumption DEF Init, Caller
<1>2. TableInv
  BY MaxPostsAssumption DEF Init, TableInv, Authors!ReadModelInit
<1>3. ScreenTypes
  <2>1. load \in [Caller -> LoadType]
    <3>1. Sent(0) \in LoadType /\ NoLoad \in LoadType
      BY <1>1, LoadFacts
    <3>2. QED
      BY <3>1 DEF Init
  <2>2. <<>> \in Seq(Id)
    OBVIOUS
  <2>3. QED
    BY <1>1, <2>1, <2>2 DEF Init, ScreenTypes
<1>4. SeenInv
  BY <1>1, LoadFacts, PageSizeAssumption DEF Init, SeenInv
<1>5. BusyInv
  BY <1>1, LoadFacts DEF Init, BusyInv
<1>6. PagesInv
  BY <1>1, LoadFacts DEF PagesInv, GoodPage
<1>7. ViewInv
  BY <1>1, LoadFacts DEF Init, ViewInv, FeedComplete, Descends
<1>8. QED
  BY <1>2, <1>3, <1>4, <1>5, <1>6, <1>7 DEF FeedInv

-----------------------------------------------------------------------------
(* The steps.                                                              *)

\* Steps of the table: rows come and stay.
LEMMA TableStep ==
    ASSUME FeedInv, UNCHANGED <<size, screen>>, TableInv', DOMAIN posts \subseteq DOMAIN posts'
    PROVE  FeedInv'
<1>1. /\ UNCHANGED <<size, list, cursor, base>>
      /\ UNCHANGED <<submitted, load, busy, crossed>>
  BY DEF screen, view
<1>2. ScreenTypes'
  BY <1>1 DEF FeedInv, ScreenTypes
<1>3. SeenInv'
  BY <1>1 DEF FeedInv, SeenInv
<1>4. BusyInv'
  BY <1>1 DEF FeedInv, BusyInv
<1>5. PagesInv'
  BY <1>1 DEF FeedInv, PagesInv, GoodPage
<1>6. ViewInv'
  BY <1>1 DEF FeedInv, ViewInv, FeedComplete
<1>7. QED
  BY <1>2, <1>3, <1>4, <1>5, <1>6 DEF FeedInv

LEMMA SignUpStep ==
    ASSUME FeedInv, NEW u \in User, SignUp(u) \/ Replicate(u)
    PROVE  FeedInv'
<1>1. UNCHANGED <<size, screen>> /\ UNCHANGED <<nextId, open, posts>>
  BY DEF SignUp, Replicate, table
<1>2. signedUp \subseteq signedUp' /\ signedUp' \subseteq User /\ known' \subseteq signedUp'
  BY DEF SignUp, Replicate, Authors!SignUp, Authors!Replicate, FeedInv, TableInv
<1>3. TableInv'
  BY <1>1, <1>2 DEF FeedInv, TableInv
<1>4. QED
  BY <1>1, <1>3, TableStep

\* An id is handed out.
LEMMA InsertStep ==
    ASSUME FeedInv, NEW u \in User, Insert(u), UNCHANGED replication
    PROVE  /\ TableInv' /\ posts' = posts
           /\ nextId \in 1..MaxPosts
<1>1. /\ UNCHANGED <<signedUp, known, posts>>
      /\ nextId' = nextId + 1 /\ nextId \in 1..(MaxPosts + 1) /\ nextId <= MaxPosts
  BY DEF Insert, replication, FeedInv, TableInv
<1>2. nextId \in 1..MaxPosts /\ nextId' \in 1..(MaxPosts + 1)
  BY <1>1, MaxPostsAssumption
<1>3. 1..(nextId - 1) \subseteq 1..(nextId' - 1) /\ nextId \in 1..(nextId' - 1)
  BY <1>1, MaxPostsAssumption
<1>4. /\ DOMAIN open' = DOMAIN open \cup {nextId}
      /\ \A i \in DOMAIN open' : open'[i] \in signedUp
  BY DEF Insert, WithRow, FeedInv, TableInv
<1>5. DOMAIN open' \cup DOMAIN posts' \subseteq 1..(nextId' - 1)
  BY <1>1, <1>3, <1>4 DEF FeedInv, TableInv
<1>6. TableInv'
  BY <1>1, <1>2, <1>4, <1>5 DEF FeedInv, TableInv
<1>7. QED
  BY <1>1, <1>2, <1>6

LEMMA CreatePostStep ==
    ASSUME FeedInv, NEW u \in User, CreatePost(u)
    PROVE  FeedInv'
<1>1. Insert(u) /\ UNCHANGED replication /\ UNCHANGED <<size, screen>>
  BY DEF CreatePost
<1>2. TableInv' /\ posts' = posts
  BY <1>1, InsertStep
<1>3. QED
  BY <1>1, <1>2, TableStep

\* A row becomes visible, or never does.
LEMMA InsertDoneStep ==
    ASSUME FeedInv, NEW i \in Id, NEW done \in BOOLEAN, InsertDone(i, done)
    PROVE  FeedInv'
<1>1. UNCHANGED <<size, screen>> /\ UNCHANGED <<signedUp, known, nextId>>
  BY DEF InsertDone, replication
<1>2. /\ DOMAIN open' = DOMAIN open \ {i} /\ i \in DOMAIN open
      /\ \A j \in DOMAIN open' : open'[j] = open[j]
  BY DEF InsertDone
<1>3. /\ DOMAIN posts \subseteq DOMAIN posts'
      /\ DOMAIN posts' \subseteq DOMAIN posts \cup DOMAIN open
      /\ \A j \in DOMAIN posts' : posts'[j] \in signedUp
  <2>1. CASE done
    <3>1. posts' = WithRow(posts, i, open[i])
      BY <2>1 DEF InsertDone
    <3>2. QED
      BY <1>2, <3>1 DEF WithRow, FeedInv, TableInv
  <2>2. CASE ~done
    <3>1. posts' = posts
      BY <2>2 DEF InsertDone
    <3>2. QED
      BY <3>1 DEF FeedInv, TableInv
  <2>3. QED
    BY <2>1, <2>2
<1>4. TableInv'
  BY <1>1, <1>2, <1>3 DEF FeedInv, TableInv
<1>5. QED
  BY <1>1, <1>3, <1>4, TableStep

\* One request changes.
LEMMA LoadUpdate ==
    ASSUME ScreenTypes, NEW l \in Caller, NEW r, load' = [load EXCEPT ![l] = r]
    PROVE  /\ r \in LoadType => load' \in [Caller -> LoadType]
           /\ load'[l] = r /\ \A m \in Caller \ {l} : load'[m] = load[m]
           /\ DOMAIN load = Caller /\ load[l] \in LoadType
  BY DEF ScreenTypes

\* The table and the page size do not change: what is left to show.
LEMMA ScreenStep ==
    ASSUME FeedInv, UNCHANGED <<replication, size>>, UNCHANGED table,
           submitted' \in 0..MaxPosts, load' \in [Caller -> LoadType], list' \in Seq(Id),
           cursor' \in 0..MaxPosts, busy' \in BOOLEAN, crossed' \in BOOLEAN,
           SeenInv', BusyInv', PagesInv', ViewInv'
    PROVE  FeedInv'
<1>1. UNCHANGED <<signedUp, known, nextId>> /\ UNCHANGED <<open, posts, size>>
  BY DEF replication, table
<1>2. TableInv'
  BY <1>1 DEF FeedInv, TableInv
<1>3. ScreenTypes'
  BY <1>1 DEF FeedInv, ScreenTypes
<1>4. QED
  BY <1>2, <1>3 DEF FeedInv

\* A request's fields.
LEMMA LoadFields ==
    ASSUME NEW r \in LoadType
    PROVE  /\ r.pc \in {"idle", "sent", "answered"} /\ r.after \in 0..MaxPosts
           /\ r.page \in Seq(Id) /\ r.next \in 0..MaxPosts /\ r.seen \subseteq Id
  BY DEF LoadType

\* The server answers a request.
LEMMA ListPostsStep ==
    ASSUME FeedInv, NEW l \in Caller, ListPosts(l)
    PROVE  FeedInv'
<1>1. /\ UNCHANGED <<replication, size>> /\ UNCHANGED table /\ UNCHANGED <<posts, base>>
      /\ UNCHANGED <<list, cursor, submitted, busy, crossed>>
  BY DEF ListPosts, view, table
<1>2. ScreenTypes /\ SeenInv /\ BusyInv /\ PagesInv /\ ViewInv
  BY DEF FeedInv
<1>3. PICK r : r = load[l]
  OBVIOUS
<1>4. PICK limit : limit = PageSize(size)
  OBVIOUS
<1>5. PICK page : page = List(r.after, limit)
  OBVIOUS
<1>6. PICK next : next = NextAfter(page, limit)
  OBVIOUS
<1>7. PICK seen : seen = IF r.after = 0 THEN DOMAIN posts ELSE {}
  OBVIOUS
<1>8. PICK q : q = [r EXCEPT !.pc = "answered", !.page = page, !.next = next, !.seen = seen]
  OBVIOUS
<1>9. r.pc = "sent" /\ load' = [load EXCEPT ![l] = q]
  BY <1>3, <1>4, <1>5, <1>6, <1>7, <1>8 DEF ListPosts
<1>10. r \in LoadType
  BY <1>2, <1>3 DEF ScreenTypes
<1>11. DOMAIN posts \subseteq Id
  BY TableIds DEF FeedInv
<1>12. limit \in Nat \ {0} /\ limit <= maxPageSize
  BY <1>2, <1>4, PageSizeFacts DEF ScreenTypes
<1>13. /\ page \in Seq(Id) /\ Len(page) <= limit
       /\ Range(page) \subseteq Before(r.after) /\ Descends(page)
       /\ next \in 0..MaxPosts /\ (next = 0 \/ next \in Before(r.after))
       /\ \A i \in Range(page) : next <= i
       /\ \A i \in Before(r.after) : next <= i => i \in Range(page)
  BY <1>5, <1>6, <1>11, <1>12, ListPage
<1>14. seen \subseteq DOMAIN posts /\ Range(page) \subseteq DOMAIN posts
  BY <1>7, <1>13 DEF Before
<1>15. Len(page) <= maxPageSize
  <2>1. Len(page) \in Nat
    BY <1>13, LenProperties
  <2>2. QED
    BY <1>12, <1>13, <2>1, PageSizeAssumption
<1>16. /\ q \in LoadType /\ q.pc = "answered" /\ q.page = page /\ q.next = next
       /\ q.seen = seen /\ q.after = r.after
  BY <1>8, <1>10, <1>11, <1>13, <1>14 DEF LoadType
<1>17. /\ load' \in [Caller -> LoadType] /\ load'[l] = q
       /\ \A m \in Caller \ {l} : load'[m] = load[m]
  BY <1>2, <1>9, <1>16, LoadUpdate
<1>18. q # NoLoad /\ r # NoLoad
  BY <1>9, <1>16, LoadFacts
<1>19. SeenInv'
  BY <1>1, <1>2, <1>14, <1>15, <1>16, <1>17 DEF SeenInv
<1>20. BusyInv'
  BY <1>1, <1>2, <1>3, <1>16, <1>17, <1>18 DEF BusyInv, Caller
<1>21. GoodPage(q, base, ~crossed)
  <2>1. ASSUME NEW i \in Range(page), r.after # 0
        PROVE  i < r.after
    BY <1>13, <2>1 DEF Before
  <2>2. ASSUME r.after # 0
        PROVE  next <= r.after
    <3>1. CASE next = 0
      BY <1>10, <3>1, LoadFields
    <3>2. CASE next # 0
      <4>1. next < r.after
        BY <1>13, <2>2, <3>2 DEF Before
      <4>2. QED
        BY <1>10, <1>13, <4>1, LoadFields
    <3>3. QED
      BY <3>1, <3>2
  <2>3. ASSUME r.after = 0, NEW i \in seen, next <= i
        PROVE  i \in Range(page)
    BY <1>7, <1>13, <2>3 DEF Before
  <2>4. ASSUME NEW i \in base, next <= i, i < r.after
        PROVE  i \in Range(page)
    <3>1. i \in Before(r.after)
      BY <1>2, <2>4 DEF SeenInv, Before
    <3>2. QED
      BY <1>13, <2>4, <3>1
  <2>5. QED
    BY <1>13, <1>16, <2>1, <2>2, <2>3, <2>4 DEF GoodPage
<1>22. PagesInv'
  <2>1. \A m \in Caller : GoodPage(load'[m], base, ~crossed)
    BY <1>2, <1>17, <1>21 DEF PagesInv
  <2>2. QED
    BY <1>1, <2>1 DEF PagesInv, GoodPage
<1>23. ViewInv'
  <2>1. /\ load'["button"].after = load["button"].after
        /\ load["mount"] = NoLoad => load'["mount"] = NoLoad
    BY <1>3, <1>16, <1>17, <1>18 DEF Caller
  <2>2. QED
    BY <1>1, <1>2, <2>1 DEF ViewInv, FeedComplete
<1>24. QED
  BY <1>1, <1>2, <1>17, <1>19, <1>20, <1>22, <1>23, ScreenStep DEF ScreenTypes

\* A request ends: the other one goes on, and the buttons are enabled again
\* unless the screen waits for its createPost.
LEMMA EndLoadStep ==
    ASSUME FeedInv, NEW l \in Caller, EndLoad(l), load[l].pc # "idle", submitted' = submitted
    PROVE  /\ load' \in [Caller -> LoadType] /\ load'[l] = NoLoad /\ busy' \in BOOLEAN
           /\ \A m \in Caller \ {l} : load'[m] = load[m]
           /\ BusyInv'
<1>1. ScreenTypes /\ BusyInv
  BY DEF FeedInv
<1>2. load' = [load EXCEPT ![l] = NoLoad] /\ busy' = (busy /\ l # "button")
  BY DEF EndLoad
<1>3. NoLoad \in LoadType /\ NoLoad.pc = "idle" /\ NoLoad.after = 0
  BY LoadFacts
<1>4. /\ load' \in [Caller -> LoadType] /\ load'[l] = NoLoad
      /\ \A m \in Caller \ {l} : load'[m] = load[m]
  BY <1>1, <1>2, <1>3, LoadUpdate
<1>5. busy' \in BOOLEAN
  BY <1>2
<1>6. load[l] # NoLoad
  BY <1>3
<1>7. BusyInv'
  <2>1. CASE l = "button"
    BY <1>1, <1>2, <1>3, <1>4, <1>6, <2>1 DEF BusyInv, Caller
  <2>2. CASE l = "mount"
    BY <1>1, <1>2, <1>3, <1>4, <2>2 DEF BusyInv, Caller
  <2>3. QED
    BY <2>1, <2>2 DEF Caller
<1>8. QED
  BY <1>4, <1>5, <1>7

\* An empty request makes no claim.
LEMMA EmptyPages ==
    /\ Range(NoLoad.page) = {} /\ NoLoad.seen = {} /\ Len(NoLoad.page) <= maxPageSize
    /\ \A k \in 0..MaxPosts :
          Range(Sent(k).page) = {} /\ Sent(k).seen = {} /\ Len(Sent(k).page) <= maxPageSize
  BY LoadFacts, PageSizeAssumption

\* Two requests do not cross: a page behind the screen's is on its way only
\* when the first page has arrived.
LEMMA NoCrossing ==
    ASSUME FeedInv, ~crossed, NEW l \in Caller, load[l].pc # "idle",
           NEW m \in Caller, load[m].after # 0
    PROVE  m = "button" /\ l = "button" /\ load[m].after = cursor
<1>1. m = "button"
  BY DEF FeedInv, BusyInv, Caller
<1>2. load["mount"] = NoLoad /\ load[m].after = cursor
  BY <1>1 DEF FeedInv, ViewInv
<1>3. l # "mount"
  BY <1>2, LoadFacts
<1>4. QED
  BY <1>1, <1>2, <1>3 DEF Caller

\* A page arrives.
LEMMA ArriveStep ==
    ASSUME FeedInv, NEW l \in Caller, Arrive(l)
    PROVE  FeedInv'
<1>1. /\ UNCHANGED <<replication, size>> /\ UNCHANGED table
      /\ UNCHANGED <<posts, submitted, crossed>>
  BY DEF Arrive, table
<1>2. ScreenTypes /\ SeenInv /\ BusyInv /\ PagesInv /\ ViewInv
  BY DEF FeedInv
<1>3. PICK r : r = load[l]
  OBVIOUS
<1>4. /\ r.pc = "answered" /\ EndLoad(l)
      /\ list' = IF r.after = 0 THEN r.page ELSE list \o r.page
      /\ base' = IF r.after = 0 THEN r.seen ELSE base
      /\ cursor' = r.next
  BY <1>3 DEF Arrive
<1>5. /\ r \in LoadType /\ r.after \in 0..MaxPosts
      /\ r.page \in Seq(Id) /\ r.next \in 0..MaxPosts /\ r.seen \subseteq Id
  BY <1>2, <1>3, LoadFields DEF ScreenTypes
<1>6. /\ load' \in [Caller -> LoadType] /\ load'[l] = NoLoad /\ busy' \in BOOLEAN
      /\ \A m \in Caller \ {l} : load'[m] = load[m]
      /\ BusyInv'
  BY <1>1, <1>3, <1>4, EndLoadStep
<1>7. Range(r.page) \cup r.seen \subseteq DOMAIN posts /\ GoodPage(r, base, ~crossed)
  BY <1>2, <1>3 DEF SeenInv, PagesInv
<1>8. list \in Seq(Id) /\ cursor \in 0..MaxPosts
  BY <1>2 DEF ScreenTypes
<1>9. /\ list \o r.page \in Seq(Id)
      /\ Range(list \o r.page) = Range(list) \cup Range(r.page)
      /\ Descends(list) /\ Descends(r.page) /\ (\A i \in Range(list), j \in Range(r.page) : i > j)
            => Descends(list \o r.page)
  BY <1>5, <1>8, AppendPage
<1>10. list' \in Seq(Id) /\ cursor' \in 0..MaxPosts
  BY <1>4, <1>5, <1>9
<1>11. SeenInv'
  <2>1. Range(list') \cup base' \subseteq DOMAIN posts
    <3>1. CASE r.after = 0
      BY <1>4, <1>7, <3>1
    <3>2. CASE r.after # 0
      BY <1>2, <1>4, <1>7, <1>9, <3>2 DEF SeenInv
    <3>3. QED
      BY <3>1, <3>2
  <2>2. \A m \in Caller : /\ Range(load'[m].page) \cup load'[m].seen \subseteq DOMAIN posts
                          /\ Len(load'[m].page) <= maxPageSize
    BY <1>2, <1>6, EmptyPages DEF SeenInv
  <2>3. QED
    BY <1>1, <2>1, <2>2 DEF SeenInv
<1>12. PagesInv'
  <2>1. ASSUME NEW m \in Caller
        PROVE  GoodPage(load'[m], base', ~crossed)
    <3>1. CASE m = l
      BY <1>6, <3>1, LoadFacts DEF GoodPage
    <3>2. CASE m # l
      <4>1. load'[m] = load[m] /\ GoodPage(load[m], base, ~crossed)
        BY <1>2, <1>6, <3>2 DEF PagesInv
      <4>2. CASE base' = base
        BY <4>1, <4>2
      <4>3. CASE base' # base
        <5>1. r.after = 0
          BY <1>4, <4>3
        <5>2. crossed \/ load[m].after = 0
          BY <1>3, <1>4, <3>2, NoCrossing
        <5>3. QED
          BY <4>1, <5>2 DEF GoodPage
      <4>4. QED
        BY <4>2, <4>3
    <3>3. QED
      BY <3>1, <3>2
  <2>2. QED
    BY <1>1, <2>1 DEF PagesInv, GoodPage
<1>13. ViewInv'
  <2> SUFFICES ASSUME ~crossed
               PROVE  /\ FeedComplete'
                      /\ \A i \in Range(list') : cursor' <= i
                      /\ load'["button"].after # 0 =>
                            load'["button"].after = cursor' /\ load'["mount"] = NoLoad
    BY <1>1 DEF ViewInv
  <2>1. /\ Descends(list) /\ (\A i \in base : cursor <= i => i \in Range(list))
        /\ \A i \in Range(list) : cursor <= i
    BY <1>2 DEF ViewInv, FeedComplete
  <2>2. load'["button"].after = 0
    <3>1. CASE l = "button"
      BY <1>6, <3>1, LoadFacts
    <3>2. CASE l # "button"
      <4>1. "button" \in Caller /\ load'["button"] = load["button"]
        BY <1>6, <3>2 DEF Caller
      <4>2. QED
        BY <1>3, <1>4, <3>2, <4>1, NoCrossing
    <3>3. QED
      BY <3>1, <3>2
  <2>3. CASE r.after = 0
    <3>1. Descends(list') /\ \A i \in Range(list') : cursor' <= i
      BY <1>4, <1>7, <2>3 DEF GoodPage
    <3>2. \A i \in base' : cursor' <= i => i \in Range(list')
      BY <1>4, <1>7, <2>3 DEF GoodPage
    <3>3. QED
      BY <2>2, <3>1, <3>2 DEF FeedComplete
  <2>4. CASE r.after # 0
    <3>1. r.after = cursor
      BY <1>3, <1>4, <2>4, NoCrossing
    <3>2. /\ Descends(r.page) /\ r.next <= cursor
          /\ \A i \in Range(r.page) : r.next <= i /\ i < cursor
          /\ \A i \in base : r.next <= i /\ i < cursor => i \in Range(r.page)
      BY <1>4, <1>7, <2>4, <3>1 DEF GoodPage
    <3>3. Range(list) \subseteq Nat /\ Range(r.page) \subseteq Nat /\ base \subseteq Nat
      <4>1. DOMAIN posts \subseteq Nat
        BY TableIds DEF FeedInv, Id
      <4>2. QED
        BY <1>2, <1>7, <4>1 DEF SeenInv
    <3>4. \A i \in Range(list), j \in Range(r.page) : i > j
      <4> TAKE i \in Range(list), j \in Range(r.page)
      <4>1. i \in Nat /\ j \in Nat /\ cursor <= i /\ j < cursor
        BY <2>1, <3>2, <3>3
      <4>2. QED
        BY <1>8, <4>1
    <3>5. Descends(list')
      BY <1>4, <1>9, <2>1, <2>4, <3>2, <3>4
    <3>6. Range(list') = Range(list) \cup Range(r.page) /\ base' = base
      BY <1>4, <1>9, <2>4
    <3>7. ASSUME NEW i \in Range(list')
          PROVE  cursor' <= i
      <4>1. CASE i \in Range(list)
        <5>1. i \in Nat /\ cursor <= i /\ r.next <= cursor
          BY <2>1, <3>2, <3>3, <4>1
        <5>2. QED
          BY <1>4, <1>5, <1>8, <5>1
      <4>2. CASE i \in Range(r.page)
        BY <1>4, <3>2, <4>2
      <4>3. QED
        BY <3>6, <4>1, <4>2
    <3>8. ASSUME NEW i \in base, cursor' <= i
          PROVE  i \in Range(list')
      <4>1. i \in Nat /\ r.next <= i
        BY <1>4, <3>3, <3>8
      <4>2. CASE cursor <= i
        BY <2>1, <3>6, <4>2
      <4>3. CASE ~(cursor <= i)
        <5>1. i < cursor
          BY <1>8, <4>1, <4>3
        <5>2. QED
          BY <3>2, <3>6, <4>1, <5>1
      <4>4. QED
        BY <4>2, <4>3
    <3>9. QED
      BY <2>2, <3>5, <3>6, <3>7, <3>8 DEF FeedComplete
  <2>5. QED
    BY <2>3, <2>4
<1>14. QED
  BY <1>1, <1>2, <1>6, <1>10, <1>11, <1>12, <1>13, ScreenStep DEF ScreenTypes

\* A request that fails leaves the screen as it is.
LEMMA LoadFailsStep ==
    ASSUME FeedInv, NEW l \in Caller, LoadFails(l)
    PROVE  FeedInv'
<1>1. /\ UNCHANGED <<replication, size>> /\ UNCHANGED table
      /\ UNCHANGED <<posts, list, cursor, base, submitted, crossed>>
      /\ load[l].pc # "idle" /\ EndLoad(l)
  BY DEF LoadFails, table, view
<1>2. ScreenTypes /\ SeenInv /\ BusyInv /\ PagesInv /\ ViewInv
  BY DEF FeedInv
<1>3. /\ load' \in [Caller -> LoadType] /\ load'[l] = NoLoad /\ busy' \in BOOLEAN
      /\ \A m \in Caller \ {l} : load'[m] = load[m]
      /\ BusyInv'
  BY <1>1, EndLoadStep
<1>4. SeenInv'
  BY <1>1, <1>2, <1>3, EmptyPages DEF SeenInv
<1>5. PagesInv'
  <2>1. \A m \in Caller : GoodPage(load'[m], base, ~crossed)
    BY <1>2, <1>3, LoadFacts DEF PagesInv, GoodPage
  <2>2. QED
    BY <1>1, <2>1 DEF PagesInv, GoodPage
<1>6. ViewInv'
  <2>1. /\ load'["button"].after # 0 => load'["button"] = load["button"]
        /\ load["mount"] = NoLoad => load'["mount"] = NoLoad
    BY <1>3, LoadFacts DEF Caller
  <2>2. QED
    BY <1>1, <1>2, <2>1 DEF ViewInv, FeedComplete
<1>7. QED
  BY <1>1, <1>2, <1>3, <1>4, <1>5, <1>6, ScreenStep DEF ScreenTypes

\* A button sends a request; the pages that are there stay good.
LEMMA StartLoadStep ==
    ASSUME FeedInv, NEW k \in 0..MaxPosts, StartLoad(k), UNCHANGED <<posts, list, base>>,
           crossed' \in BOOLEAN, crossed => crossed'
    PROVE  /\ load' \in [Caller -> LoadType] /\ load'["button"] = Sent(k)
           /\ load'["mount"] = load["mount"]
           /\ SeenInv' /\ PagesInv'
<1>1. ScreenTypes /\ SeenInv /\ PagesInv /\ crossed \in BOOLEAN
  BY DEF FeedInv, ScreenTypes
<1>2. Sent(k) \in LoadType /\ Sent(k).pc = "sent"
  BY LoadFacts
<1>3. /\ load' \in [Caller -> LoadType] /\ load'["button"] = Sent(k)
      /\ \A m \in Caller \ {"button"} : load'[m] = load[m]
  BY <1>1, <1>2, LoadUpdate DEF StartLoad, Caller
<1>4. SeenInv'
  BY <1>1, <1>3, EmptyPages DEF SeenInv
<1>5. \A m \in Caller : GoodPage(load'[m], base, ~crossed')
  <2> TAKE m \in Caller
  <2>1. CASE m = "button"
    BY <1>2, <1>3, <2>1 DEF GoodPage
  <2>2. CASE m # "button"
    <3>1. load'[m] = load[m] /\ GoodPage(load[m], base, ~crossed)
      BY <1>1, <1>3, <2>2 DEF PagesInv
    <3>2. QED
      BY <3>1 DEF GoodPage
  <2>3. QED
    BY <2>1, <2>2
<1>6. PagesInv'
  BY <1>5 DEF PagesInv, GoodPage
<1>7. QED
  BY <1>3, <1>4, <1>6 DEF Caller

LEMMA LoadMoreStep ==
    ASSUME FeedInv, LoadMore
    PROVE  FeedInv'
<1>1. /\ UNCHANGED <<replication, size>> /\ UNCHANGED table
      /\ UNCHANGED <<posts, list, cursor, base, submitted>>
      /\ ~busy /\ cursor # 0 /\ busy' = TRUE /\ StartLoad(cursor)
      /\ crossed' = (crossed \/ load["mount"] # NoLoad)
  BY DEF LoadMore, table, view
<1>2. ScreenTypes /\ BusyInv /\ ViewInv /\ cursor \in 0..MaxPosts
  BY DEF FeedInv, ScreenTypes
<1>3. crossed' \in BOOLEAN /\ (crossed => crossed') /\ busy' \in BOOLEAN
  BY <1>1
<1>4. /\ load' \in [Caller -> LoadType] /\ load'["button"] = Sent(cursor)
      /\ load'["mount"] = load["mount"]
      /\ SeenInv' /\ PagesInv'
  BY <1>1, <1>2, <1>3, StartLoadStep
<1>5. Sent(cursor) # NoLoad /\ Sent(cursor).after = cursor /\ Sent(cursor).pc = "sent"
  BY <1>2, LoadFacts
<1>6. BusyInv'
  BY <1>1, <1>2, <1>4, <1>5 DEF BusyInv, Caller
<1>7. ViewInv'
  BY <1>1, <1>2, <1>4, <1>5 DEF ViewInv, FeedComplete
<1>8. QED
  BY <1>1, <1>2, <1>3, <1>4, <1>6, <1>7, ScreenStep DEF ScreenTypes

\* The screen's own post: nothing on the screen changes yet.
LEMMA SubmitStep ==
    ASSUME FeedInv, NEW u \in User, Submit(u)
    PROVE  FeedInv'
<1>1. /\ Insert(u) /\ UNCHANGED replication /\ UNCHANGED <<size, load, crossed>>
      /\ UNCHANGED <<list, cursor, base>>
      /\ ~busy /\ busy' = TRUE /\ submitted' = nextId
  BY DEF Submit, view
<1>2. TableInv' /\ posts' = posts /\ nextId \in 1..MaxPosts
  BY <1>1, InsertStep
<1>3. nextId # 0 /\ nextId \in 0..MaxPosts
  BY <1>2
<1>4. ScreenTypes'
  BY <1>1, <1>3 DEF FeedInv, ScreenTypes
<1>5. SeenInv'
  BY <1>1, <1>2 DEF FeedInv, SeenInv
<1>6. BusyInv'
  BY <1>1, <1>3 DEF FeedInv, BusyInv
<1>7. PagesInv'
  BY <1>1 DEF FeedInv, PagesInv, GoodPage
<1>8. ViewInv'
  BY <1>1 DEF FeedInv, ViewInv, FeedComplete
<1>9. QED
  BY <1>2, <1>4, <1>5, <1>6, <1>7, <1>8 DEF FeedInv

LEMMA SubmitRepliedStep ==
    ASSUME FeedInv, SubmitReplied
    PROVE  FeedInv'
<1>1. /\ UNCHANGED <<replication, size>> /\ UNCHANGED table
      /\ UNCHANGED <<posts, list, cursor, base, busy, crossed>>
      /\ submitted \in DOMAIN posts /\ submitted' = 0 /\ StartLoad(0)
  BY DEF SubmitReplied, table, view
<1>2. ScreenTypes /\ BusyInv /\ ViewInv /\ crossed \in BOOLEAN
  BY DEF FeedInv, ScreenTypes
<1>3. 0 \in 0..MaxPosts
  BY MaxPostsAssumption
<1>4. submitted # 0
  BY <1>1, TableIds DEF FeedInv, Id
<1>5. /\ load' \in [Caller -> LoadType] /\ load'["button"] = Sent(0)
      /\ load'["mount"] = load["mount"]
      /\ SeenInv' /\ PagesInv'
  BY <1>1, <1>2, <1>3, StartLoadStep
<1>6. Sent(0) # NoLoad /\ Sent(0).after = 0 /\ Sent(0).pc = "sent"
  BY <1>3, LoadFacts
<1>7. BusyInv'
  BY <1>1, <1>2, <1>4, <1>5, <1>6 DEF BusyInv, Caller
<1>8. ViewInv'
  BY <1>1, <1>2, <1>5, <1>6 DEF ViewInv, FeedComplete
<1>9. QED
  BY <1>1, <1>2, <1>3, <1>5, <1>7, <1>8, ScreenStep DEF ScreenTypes

LEMMA SubmitFailsStep ==
    ASSUME FeedInv, SubmitFails
    PROVE  FeedInv'
<1>1. /\ UNCHANGED <<replication, size>> /\ UNCHANGED table
      /\ UNCHANGED <<posts, list, cursor, base, load, crossed>>
      /\ submitted # 0 /\ submitted' = 0 /\ busy' = FALSE
  BY DEF SubmitFails, table, view
<1>2. ScreenTypes /\ 0 \in 0..MaxPosts
  BY MaxPostsAssumption DEF FeedInv
<1>3. SeenInv'
  BY <1>1 DEF FeedInv, SeenInv
<1>4. BusyInv'
  BY <1>1 DEF FeedInv, BusyInv
<1>5. PagesInv'
  BY <1>1 DEF FeedInv, PagesInv, GoodPage
<1>6. ViewInv'
  BY <1>1 DEF FeedInv, ViewInv, FeedComplete
<1>7. QED
  BY <1>1, <1>2, <1>3, <1>4, <1>5, <1>6, ScreenStep DEF ScreenTypes

LEMMA NextFeedInv == FeedInv /\ [Next]_vars => FeedInv'
<1> SUFFICES ASSUME FeedInv, [Next]_vars
             PROVE  FeedInv'
  OBVIOUS
<1>1. ASSUME NEW u \in User, SignUp(u) \/ Replicate(u)
      PROVE  FeedInv'
  BY <1>1, SignUpStep
<1>2. ASSUME NEW u \in User, CreatePost(u)
      PROVE  FeedInv'
  BY <1>2, CreatePostStep
<1>3. ASSUME NEW u \in User, Submit(u)
      PROVE  FeedInv'
  BY <1>3, SubmitStep
<1>4. ASSUME NEW i \in Id, Commit(i) \/ Abort(i)
      PROVE  FeedInv'
  BY <1>4, InsertDoneStep DEF Commit, Abort
<1>5. ASSUME NEW l \in Caller, ListPosts(l)
      PROVE  FeedInv'
  BY <1>5, ListPostsStep
<1>6. ASSUME NEW l \in Caller, Arrive(l)
      PROVE  FeedInv'
  BY <1>6, ArriveStep
<1>7. ASSUME NEW l \in Caller, LoadFails(l)
      PROVE  FeedInv'
  BY <1>7, LoadFailsStep
<1>8. CASE LoadMore \/ SubmitReplied \/ SubmitFails
  BY <1>8, LoadMoreStep, SubmitRepliedStep, SubmitFailsStep
<1>9. CASE UNCHANGED vars
  <2>1. UNCHANGED <<size, screen>> /\ UNCHANGED <<signedUp, known, nextId>>
        /\ UNCHANGED <<open, posts>>
    BY <1>9 DEF vars, replication, table
  <2>2. TableInv'
    BY <2>1 DEF FeedInv, TableInv
  <2>3. QED
    BY <2>1, <2>2, TableStep
<1>10. QED
  BY <1>1, <1>2, <1>3, <1>4, <1>5, <1>6, <1>7, <1>8, <1>9, Zenon DEF Next

-----------------------------------------------------------------------------
(* Theorems.                                                               *)

\* The inductive invariant of the board and its screen.
THEOREM FeedInvariance == Spec => []FeedInv
<1>1. QED
  BY InitFeedInv, NextFeedInv, PTL DEF Spec

\* Rows are written by users that signed up, the screen shows rows of the table
\* in pages of at most maxPageSize, and the buttons are disabled exactly while
\* one of them is at work.
THEOREM TypeCorrect == Spec => []TypeOK
<1>1. FeedInv => TypeOK
  <2> SUFFICES ASSUME FeedInv
               PROVE  TypeOK
    OBVIOUS
  <2>1. ASSUME NEW l \in Caller
        PROVE  /\ load[l].pc \in {"idle", "sent", "answered"}
               /\ {load[l].after, load[l].next} \subseteq 0..MaxPosts
               /\ Range(load[l].page) \subseteq DOMAIN posts /\ Len(load[l].page) <= maxPageSize
               /\ load[l].seen \subseteq DOMAIN posts
    <3>1. load[l] \in LoadType
      BY DEF FeedInv, ScreenTypes
    <3>2. QED
      BY <3>1, LoadFields DEF FeedInv, SeenInv
  <2>2. DOMAIN load = Caller /\ {busy, crossed} \subseteq BOOLEAN
    BY DEF FeedInv, ScreenTypes
  <2>3. submitted \in 0..MaxPosts /\ size \in Sizes /\ cursor \in 0..MaxPosts
    BY DEF FeedInv, ScreenTypes
  <2>4. /\ Range(list) \cup base \subseteq DOMAIN posts
        /\ busy <=> (submitted # 0 \/ load["button"] # NoLoad)
    BY DEF FeedInv, SeenInv, BusyInv
  <2>5. QED
    BY <2>1, <2>2, <2>3, <2>4 DEF FeedInv, TableInv, TypeOK
<1>2. QED
  BY <1>1, FeedInvariance, PTL

\* Keyset pagination shows every post once, whatever is inserted, committed out
\* of order or not yet replicated while a client pages, unless two pages cross.
THEOREM FeedIsComplete == Spec => []FeedComplete
<1>1. FeedInv => FeedComplete
  BY DEF FeedInv, ViewInv, FeedComplete
<1>2. QED
  BY <1>1, FeedInvariance, PTL
=============================================================================
