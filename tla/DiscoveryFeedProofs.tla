------------------------- MODULE DiscoveryFeedProofs -------------------------
(***************************************************************************)
(* Proofs about PublicBrowse and DiscoveryFeed, for any listings, prices,  *)
(* filters, page size and limits.                                          *)
(*                                                                         *)
(* Walks.  What a page shows is a first part of what follows the cursor,   *)
(* the cursor is the last of it, and so the listings nobody touches are    *)
(* those shown at or before the cursor and those still to come after it.   *)
(*                                                                         *)
(* Sections.  What was viewed before a request came is in the list the     *)
(* request reads, which its cards leave out; and the score orders what is  *)
(* offered totally, so that the first six of it are six, or all.           *)
(***************************************************************************)
EXTENDS DiscoveryFeed, FiniteSetTheorems, WellFoundedInduction, TLAPS

-----------------------------------------------------------------------------
(* The order.                                                              *)

\* A set of keys, one for each listing in it.
Keys(S) == /\ S \subseteq Key
           /\ IsFiniteSet(S)
           /\ \A j, k \in S : j.id = k.id => j = k

\* A least element, of any order on a finite set.
LEMMA Least ==
  ASSUME NEW S, IsFiniteSet(S), NEW R,
         \A k \in S : <<k, k>> \notin R,
         \A i, j, k \in S : <<i, j>> \in R /\ <<j, k>> \in R => <<i, k>> \in R,
         NEW T \in SUBSET S, T # {}
  PROVE  \E k \in T : \A j \in T : <<j, k>> \notin R
<1> DEFINE Below(k) == {i \in S : <<i, k>> \in R}
           Belows == {Below(k) : k \in T}
<1>1. Belows \subseteq FiniteSubsetsOf(S) /\ Belows # {}
  <2>1. Belows \subseteq SUBSET S /\ Belows # {}
    <3>1. \A k \in T : Below(k) \in SUBSET S
      OBVIOUS
    <3> HIDE DEF Below
    <3> QED BY <3>1
  <2> HIDE DEF Belows
  <2> QED BY <2>1, FS_FiniteSubsetsOfFinite
<1>2. IsWellFoundedOn(StrictSubsetOrdering(S), FiniteSubsetsOf(S))
  BY FS_StrictSubsetOrderingWellFounded
<1>3. PICK B \in Belows : \A C \in Belows : <<C, B>> \notin StrictSubsetOrdering(S)
  <2> HIDE DEF Belows
  <2> QED BY <1>1, <1>2, WFMin, Zenon
<1>4. PICK k \in T : B = Below(k)
  OBVIOUS
<1>5. ASSUME NEW j \in T, <<j, k>> \in R PROVE FALSE
  <2>1. Below(j) \subseteq Below(k)
    BY <1>5
  <2>2. j \in Below(k) /\ j \notin Below(j)
    BY <1>5
  <2>3. <<Below(j), Below(k)>> \in StrictSubsetOrdering(S)
    BY <2>1, <2>2 DEF StrictSubsetOrdering
  <2> QED
    BY <1>3, <1>4, <2>3
<1> QED
  BY <1>5

\* An order of a finite set that leaves no two of its members unordered.
IsOrder(R, S) ==
  /\ IsFiniteSet(S)
  /\ \A k \in S : <<k, k>> \notin R
  /\ \A i, j, k \in S : <<i, j>> \in R /\ <<j, k>> \in R => <<i, k>> \in R
  /\ \A j, k \in S : j # k => <<j, k>> \in R \/ <<k, j>> \in R

\* The members with fewer than n before them: n of them, or all there are.
LEMMA FirstOf ==
  ASSUME NEW S, NEW R, IsOrder(R, S), NEW n \in Nat, NEW F \in SUBSET S,
         \A k \in S : k \in F <=> Cardinality({j \in S : <<j, k>> \in R}) < n
  PROVE  /\ F \subseteq S /\ IsFiniteSet(F) /\ Cardinality(F) \in Nat /\ Cardinality(S) \in Nat
         /\ Cardinality(F) <= n
         /\ Cardinality(F) < n => F = S
         /\ Cardinality(S) <= n => F = S
<1> DEFINE Below(k) == {j \in S : <<j, k>> \in R}
<1>1. /\ F \subseteq S /\ IsFiniteSet(S) /\ IsFiniteSet(F)
      /\ Cardinality(F) \in Nat /\ Cardinality(S) \in Nat
  BY FS_Subset, FS_CardinalityType DEF IsOrder
<1>2. ASSUME NEW k \in S
      PROVE  /\ IsFiniteSet(Below(k)) /\ Cardinality(Below(k)) \in Nat
             /\ Cardinality(Below(k)) < n <=> k \in F
  BY <1>1, FS_Subset, FS_CardinalityType
<1>3. Cardinality(F) <= n
  <2>1. CASE F = {}
    BY <2>1, FS_EmptySet
  <2>2. CASE F # {}
    <3> DEFINE Q == {p \in S \X S : <<p[2], p[1]>> \in R}
    <3>1. \A j, k \in S : <<j, k>> \in Q <=> <<k, j>> \in R
      OBVIOUS
    <3>2. PICK c \in F : \A j \in F : <<j, c>> \notin Q
      <4> HIDE DEF Q
      <4>1. F \in SUBSET S
        BY <1>1
      <4>2. \A i \in S : <<i, i>> \notin Q
        BY <3>1 DEF IsOrder
      <4>3. \A i, j, k \in S : <<i, j>> \in Q /\ <<j, k>> \in Q => <<i, k>> \in Q
        BY <3>1 DEF IsOrder
      <4> QED
        BY <1>1, <2>2, <4>1, <4>2, <4>3, Least
    <3>3. F \subseteq Below(c) \cup {c}
      BY <1>1, <3>1, <3>2 DEF IsOrder
    <3>4. /\ IsFiniteSet(Below(c)) /\ Cardinality(Below(c)) \in Nat
          /\ Cardinality(Below(c)) < n /\ c \notin Below(c)
      BY <1>1, <1>2, <3>2 DEF IsOrder
    <3>5. /\ IsFiniteSet(Below(c) \cup {c})
          /\ Cardinality(Below(c) \cup {c}) = Cardinality(Below(c)) + 1
      <4> HIDE DEF Below
      <4> QED
        BY <3>4, FS_AddElement
    <3>6. Cardinality(F) <= Cardinality(Below(c) \cup {c})
      BY <3>3, <3>5, FS_Subset
    <3> QED
      BY <1>1, <3>4, <3>5, <3>6
  <2> QED
    BY <2>1, <2>2
<1>4. ASSUME Cardinality(F) < n PROVE F = S
  <2> DEFINE Rest == S \ F
  <2>1. SUFFICES ASSUME Rest # {} PROVE FALSE
    BY <1>1
  <2>2. PICK k \in Rest : \A j \in Rest : <<j, k>> \notin R
    <3>1. Rest \in SUBSET S /\ IsFiniteSet(S)
      BY <1>1
    <3> HIDE DEF Rest
    <3> QED
      BY <2>1, <3>1, Least DEF IsOrder
  <2>3. Below(k) \subseteq F
    BY <2>2
  <2>4. Cardinality(Below(k)) <= Cardinality(F)
    BY <1>1, <2>3, FS_Subset
  <2>5. k \in S /\ Cardinality(Below(k)) \in Nat /\ (Cardinality(Below(k)) < n <=> k \in F)
    BY <1>2
  <2>6. k \in F
    <3> HIDE DEF Below
    <3> QED
      BY <1>1, <1>4, <2>4, <2>5
  <2> QED
    BY <2>6
<1>5. ASSUME Cardinality(S) <= n PROVE F = S
  <2>1. CASE Cardinality(F) < n
    BY <1>4, <2>1
  <2>2. CASE Cardinality(F) = n
    <3>1. Cardinality(F) <= Cardinality(S)
      BY <1>1, FS_Subset
    <3>2. Cardinality(S) = Cardinality(F)
      BY <1>1, <1>5, <2>2, <3>1
    <3> QED
      BY <1>1, <3>2, FS_Subset
  <2> QED
    BY <1>1, <1>3, <2>1, <2>2
<1> QED
  BY <1>1, <1>3, <1>4, <1>5

\* The parts of a key are numbers.
LEMMA KeyTypes ==
  ASSUME NEW k \in Key
  PROVE  k.id \in Nat /\ k.at \in Nat /\ k.price \in Nat
<1>1. Listing \subseteq Nat /\ Prices \subseteq Nat /\ MaxClock \in Nat
  BY BrowseAssumption
<1>2. k.id \in Listing /\ k.at \in 0..MaxClock /\ k.price \in Prices
  BY DEF Key
<1>3. k.at \in Nat
  BY <1>1, <1>2, SMT
<1>4. k.id \in Nat /\ k.price \in Nat
  BY <1>1, <1>2, Zenon
<1> QED
  BY <1>3, <1>4

\* Each sort is a strict total order of the keys of different listings.
LEMMA Order ==
  ASSUME NEW sort \in Sort
  PROVE  /\ \A k \in Key : ~BeforeBrowse(k, k, sort)
         /\ \A i, j, k \in Key : BeforeBrowse(i, j, sort) /\ BeforeBrowse(j, k, sort)
                                   => BeforeBrowse(i, k, sort)
         /\ \A j, k \in Key : j.id # k.id
                                => BeforeBrowse(j, k, sort) \/ BeforeBrowse(k, j, sort)
<1>1. \A k \in Key : k.id \in Nat /\ k.at \in Nat /\ k.price \in Nat
  BY KeyTypes
<1>2. CASE sort = "newest"
  BY <1>1, <1>2 DEF BeforeBrowse
<1>3. CASE sort = "price_asc"
  BY <1>1, <1>3 DEF BeforeBrowse
<1>4. CASE sort = "price_desc"
  BY <1>1, <1>4 DEF BeforeBrowse
<1> QED
  BY <1>2, <1>3, <1>4 DEF Sort

\* The WHERE of the cursor says what the ORDER BY says.
LEMMA CursorAgrees ==
  ASSUME NEW sort \in Sort, NEW k \in Key, NEW c \in Key
  PROVE  AfterCursor(k, c, sort) <=> BeforeBrowse(c, k, sort)
BY KeyTypes, SMTT(60) DEF AfterCursor, BeforeBrowse, Sort

-----------------------------------------------------------------------------
(* A page.                                                                 *)

\* A page that is not empty has one last key, and every other key of it comes
\* before.
LEMMA LastKey ==
  ASSUME NEW sort \in Sort, NEW P, Keys(P), P # {}
  PROVE  \E c \in P : /\ Last(P, sort) = {c}
                      /\ \A j \in P : j = c \/ BeforeBrowse(j, c, sort)
<1> DEFINE R == {p \in P \X P : BeforeBrowse(p[2], p[1], sort)}
<1>1. \A j, k \in P : <<j, k>> \in R <=> BeforeBrowse(k, j, sort)
  OBVIOUS
<1>2. PICK c \in P : \A j \in P : <<j, c>> \notin R
  <2> HIDE DEF R
  <2>1. \A k \in P : <<k, k>> \notin R
    BY <1>1, Order DEF Keys
  <2>2. \A i, j, k \in P : <<i, j>> \in R /\ <<j, k>> \in R => <<i, k>> \in R
    BY <1>1, Order DEF Keys
  <2>3. IsFiniteSet(P) /\ P \in SUBSET P
    BY DEF Keys
  <2> QED BY <2>1, <2>2, <2>3, Least
<1>3. \A j \in P : j = c \/ BeforeBrowse(j, c, sort)
  BY <1>1, <1>2, Order DEF Keys
<1>4. \A k \in P : k # c => ~BeforeBrowse(c, k, sort)
  BY <1>3, Order DEF Keys
<1>5. Last(P, sort) = {c}
  BY <1>3, <1>4 DEF Last
<1> QED
  BY <1>3, <1>5

\* A page is a finite set of keys.
LEMMA FirstFinite ==
  ASSUME NEW sort \in Sort, NEW S, Keys(S), NEW limit \in Nat
  PROVE  /\ First(S, sort, limit) \subseteq S
         /\ Keys(First(S, sort, limit))
         /\ Cardinality(First(S, sort, limit)) \in Nat
BY FS_Subset, FS_CardinalityType DEF First, Keys

\* What goes before a key of the page is on the page.
LEMMA FirstIsFirst ==
  ASSUME NEW sort \in Sort, NEW S, Keys(S), NEW limit \in Nat,
         NEW k \in First(S, sort, limit), NEW j \in S, BeforeBrowse(j, k, sort)
  PROVE  j \in First(S, sort, limit)
<1> DEFINE Below(x) == {i \in S : BeforeBrowse(i, x, sort)}
<1>1. Below(j) \subseteq Below(k)
  BY Order DEF Keys, First
<1>2. IsFiniteSet(Below(k)) /\ Cardinality(Below(j)) <= Cardinality(Below(k))
  BY <1>1, FS_Subset DEF Keys
<1>3. Cardinality(Below(k)) < limit
  BY DEF First
<1>4. Cardinality(Below(j)) \in Nat /\ Cardinality(Below(k)) \in Nat
  BY <1>1, <1>2, FS_Subset, FS_CardinalityType
<1>5. Cardinality(Below(j)) < limit
  BY <1>2, <1>3, <1>4
<1> QED
  BY <1>5 DEF First

\* No page is longer than its limit, and a page that is not full is all there is.
LEMMA PageFits ==
  ASSUME NEW sort \in Sort, NEW S, Keys(S), NEW limit \in Nat
  PROVE  /\ Cardinality(First(S, sort, limit)) <= limit
         /\ Cardinality(First(S, sort, limit)) < limit => First(S, sort, limit) = S
         /\ Cardinality(S) <= limit => First(S, sort, limit) = S
<1> DEFINE R == {p \in S \X S : BeforeBrowse(p[1], p[2], sort)}
<1>1. \A j, k \in S : <<j, k>> \in R <=> BeforeBrowse(j, k, sort)
  OBVIOUS
<1>2. IsOrder(R, S)
  <2> HIDE DEF R
  <2> QED
    BY <1>1, Order DEF Keys, IsOrder
<1>3. /\ First(S, sort, limit) \in SUBSET S
      /\ \A k \in S : k \in First(S, sort, limit)
                        <=> Cardinality({j \in S : <<j, k>> \in R}) < limit
  <2>1. \A k \in S : {j \in S : <<j, k>> \in R} = {j \in S : BeforeBrowse(j, k, sort)}
    BY <1>1
  <2> HIDE DEF R
  <2> QED
    BY <2>1 DEF First
<1> HIDE DEF R
<1> QED
  BY <1>2, <1>3, FirstOf

\* The remaining keys, a page of them and the cursor a full page leaves: what is
\* shown is what the next page will not show again.
LEMMA PageSplits ==
  ASSUME NEW sort \in Sort, NEW S, Keys(S), NEW P, P = First(S, sort, PageSize)
  PROVE  /\ P \subseteq S
         /\ Cardinality(P) # PageSize => P = S
         /\ Cardinality(P) = PageSize =>
              \E c \in S : /\ Last(P, sort) = {c}
                           /\ \A k \in S : k \in P <=> ~AfterCursor(k, c, sort)
<1>1. PageSize \in Nat \ {0}
  BY BrowseAssumption
<1>2. P \subseteq S /\ Keys(P) /\ Cardinality(P) \in Nat
  BY <1>1, FirstFinite
<1>3. Cardinality(P) # PageSize => P = S
  BY <1>1, <1>2, PageFits
<1>4. ASSUME Cardinality(P) = PageSize
      PROVE  \E c \in S : /\ Last(P, sort) = {c}
                          /\ \A k \in S : k \in P <=> ~AfterCursor(k, c, sort)
  <2>1. P # {}
    BY <1>1, <1>4, FS_EmptySet
  <2>2. PICK c \in P : /\ Last(P, sort) = {c}
                       /\ \A j \in P : j = c \/ BeforeBrowse(j, c, sort)
    BY <1>2, <2>1, LastKey
  <2>3. c \in S /\ S \subseteq Key
    BY <1>2 DEF Keys
  <2>4. \A k \in S : k \in P => ~BeforeBrowse(c, k, sort)
    BY <2>2, <2>3, Order
  <2>5. \A k \in S : k \notin P => BeforeBrowse(c, k, sort)
    <3>1. \A k \in S : BeforeBrowse(k, c, sort) => k \in P
      BY <1>1, <2>3, FirstIsFirst
    <3>2. \A k \in S : k # c => BeforeBrowse(c, k, sort) \/ BeforeBrowse(k, c, sort)
      BY <2>3, Order DEF Keys
    <3> QED
      BY <2>2, <3>1, <3>2
  <2> QED
    BY <2>2, <2>3, <2>4, <2>5, CursorAgrees
<1> QED
  BY <1>2, <1>3, <1>4

-----------------------------------------------------------------------------
(* A walk.                                                                 *)

\* What a walk looks for.
Sought(v) == {l \in Listing : row[l].public /\ Matches(l, v.filter)}

\* What it has passed: all of it at the end, and before what is not after the
\* cursor.
Past(v) == IF v.at = "ended" THEN Sought(v)
           ELSE {l \in Sought(v) : \E c \in v.cursor : ~AfterCursor(KeyOf(l), c, v.sort)}

Shows(v) == \A l \in Listing \ v.moved : v.shown[l] = IF l \in Past(v) THEN 1 ELSE 0

WalkInv == Walks => /\ visit.at = "walking" => \E c \in Key : visit.cursor = {c}
                    /\ Shows(visit)

FeedInv == BrowseTypeOK /\ WalkInv /\ (InRequest => "at" \in DOMAIN visit)

\* The key of a listing names it.
LEMMA KeyOfListing ==
  ASSUME BrowseTypeOK, NEW l \in Listing
  PROVE  KeyOf(l) \in Key /\ KeyOf(l).id = l
BY DEF BrowseTypeOK, Row, Key, KeyOf

\* A selection of listings makes a set of keys.
LEMMA KeysOfListings ==
  ASSUME BrowseTypeOK, NEW L \in SUBSET Listing
  PROVE  Keys({KeyOf(l) : l \in L})
<1> DEFINE K == {KeyOf(l) : l \in L}
           f == [l \in L |-> KeyOf(l)]
<1>1. IsFiniteSet(L)
  BY BrowseAssumption, FS_Subset
<1>2. f \in Surjection(L, K)
  BY DEF Surjection
<1>3. IsFiniteSet(K)
  <2> HIDE DEF K, f
  <2> QED BY <1>1, <1>2, FS_Surjection
<1>4. K \subseteq Key /\ \A j, k \in K : j.id = k.id => j = k
  BY KeyOfListing
<1> QED
  BY <1>3, <1>4 DEF Keys

\* The page after what a walk has passed.
LEMMA NextPageShows ==
  ASSUME BrowseTypeOK, NEW walk \in Walk, walk.at = "walking",
         walk.cursor = {} \/ (\E c \in Key : walk.cursor = {c}),
         Shows(walk),
         NEW v, v = Shown(walk, ListPublished(walk.filter, walk.sort, walk.cursor, PageSize),
                          walk.sort)
  PROVE  /\ v \in Walk
         /\ v.at = "walking" => \E c \in Key : v.cursor = {c}
         /\ Shows(v)
<1> DEFINE After == {l \in Sought(walk) :
                       \A c \in walk.cursor : AfterCursor(KeyOf(l), c, walk.sort)}
           S == {KeyOf(l) : l \in After}
           P == First(S, walk.sort, PageSize)
<1>1. /\ walk.sort \in Sort /\ walk.filter \in Filters /\ walk.moved \in SUBSET Listing
      /\ walk.shown \in [Listing -> 0..2]
  BY DEF Walk
<1>2. After \in SUBSET Listing
  BY DEF Sought
<1>3. Keys(S)
  <2> HIDE DEF After
  <2> QED BY <1>2, KeysOfListings
<1>4. ListPublished(walk.filter, walk.sort, walk.cursor, PageSize) = P
  <2>1. {k \in {KeyOf(l) : l \in Sought(walk)} :
           \A c \in walk.cursor : AfterCursor(k, c, walk.sort)} = S
    OBVIOUS
  <2> QED
    BY <2>1 DEF ListPublished, Sought
<1>5. /\ P \subseteq S
      /\ Cardinality(P) # PageSize => P = S
      /\ Cardinality(P) = PageSize =>
           \E c \in S : /\ Last(P, walk.sort) = {c}
                        /\ \A k \in S : k \in P <=> ~AfterCursor(k, c, walk.sort)
  <2> HIDE DEF S
  <2> QED BY <1>1, <1>3, PageSplits
<1>6. S \subseteq Key
  BY <1>3 DEF Keys
<1>7. /\ v.sort = walk.sort /\ v.filter = walk.filter /\ v.moved = walk.moved
      /\ v.at = IF Cardinality(P) = PageSize THEN "walking" ELSE "ended"
      /\ v.cursor = IF Cardinality(P) = PageSize THEN Last(P, walk.sort) ELSE {}
      /\ v.shown = [l \in Listing |-> IF l \in {k.id : k \in P} /\ walk.shown[l] < 2
                                      THEN walk.shown[l] + 1 ELSE walk.shown[l]]
      /\ DOMAIN v = DOMAIN walk
  BY <1>4 DEF Shown, Walk
<1>8. v.at = "walking" => \E c \in Key : v.cursor = {c}
  BY <1>5, <1>6, <1>7
<1>9. v \in Walk
  <2>1. v.at \in {"walking", "ended"} /\ v.cursor \in {{}} \cup {{k} : k \in Key}
    BY <1>7, <1>8
  <2>2. v.shown \in [Listing -> 0..2]
    <3>1. \A l \in Listing : walk.shown[l] \in 0..2
      BY <1>1
    <3>2. ASSUME NEW l \in Listing PROVE v.shown[l] \in 0..2
      <4>1. \/ v.shown[l] = walk.shown[l]
            \/ walk.shown[l] < 2 /\ v.shown[l] = walk.shown[l] + 1
        BY <1>7
      <4> QED
        BY <3>1, <4>1
    <3>3. v.shown = [l \in Listing |-> v.shown[l]]
      BY <1>7
    <3> QED
      BY <3>2, <3>3
  <2>3. v = [walk EXCEPT !.at = v.at, !.cursor = v.cursor, !.shown = v.shown]
    BY <1>4, <1>7 DEF Shown, Walk
  <2> QED
    BY <2>1, <2>2, <2>3 DEF Walk
<1>10. \A l \in Listing : l \in {k.id : k \in P} <=> l \in After /\ KeyOf(l) \in P
  <2> SUFFICES ASSUME NEW l \in Listing
               PROVE  l \in {k.id : k \in P} <=> l \in After /\ KeyOf(l) \in P
    OBVIOUS
  <2>1. ASSUME NEW k \in P, k.id = l PROVE l \in After /\ KeyOf(l) \in P
    <3>1. PICK m \in After : k = KeyOf(m)
      BY <1>5
    <3>2. m = l
      BY <1>2, <2>1, <3>1, KeyOfListing
    <3> QED
      BY <2>1, <3>1, <3>2
  <2>2. ASSUME KeyOf(l) \in P PROVE \E k \in P : k.id = l
    BY <2>2, KeyOfListing
  <2> HIDE DEF After, P
  <2> QED
    BY <2>1, <2>2
<1>11. Sought(v) = Sought(walk)
  BY <1>7 DEF Sought
<1>12. ASSUME NEW l \in Listing \ v.moved
       PROVE  v.shown[l] = IF l \in Past(v) THEN 1 ELSE 0
  <2>1. walk.shown[l] = IF l \in Past(walk) THEN 1 ELSE 0
    BY <1>7, <1>12 DEF Shows
  <2>2. l \in Past(walk) <=> l \in Sought(walk) /\ l \notin After
    BY <1>12 DEF Past
  <2>3. v.shown[l] = IF l \in After /\ KeyOf(l) \in P THEN walk.shown[l] + 1
                     ELSE walk.shown[l]
    <3>1. l \in Listing /\ walk.shown[l] < 2
      BY <1>12, <2>1
    <3> QED
      BY <1>7, <1>10, <3>1
  <2>4. CASE Cardinality(P) # PageSize
    <3>1. Past(v) = Sought(walk)
      BY <1>7, <1>11, <2>4 DEF Past
    <3>2. l \in After => KeyOf(l) \in P
      BY <1>5, <2>4
    <3> QED
      BY <2>1, <2>2, <2>3, <3>1, <3>2
  <2>5. CASE Cardinality(P) = PageSize
    <3>1. PICK c \in S : /\ Last(P, walk.sort) = {c}
                         /\ \A k \in S : k \in P <=> ~AfterCursor(k, c, walk.sort)
      BY <1>5, <2>5
    <3>2. l \in Past(v) <=> l \in Sought(walk) /\ ~AfterCursor(KeyOf(l), c, walk.sort)
      BY <1>7, <1>11, <2>5, <3>1 DEF Past
    <3>3. l \in After => (KeyOf(l) \in P <=> ~AfterCursor(KeyOf(l), c, walk.sort))
      BY <3>1
    <3>4. ASSUME l \in Sought(walk), l \notin After
          PROVE  ~AfterCursor(KeyOf(l), c, walk.sort)
      <4>1. PICK d \in Key : walk.cursor = {d}
        BY <3>4
      <4>2. ~AfterCursor(KeyOf(l), d, walk.sort)
        BY <3>4, <4>1
      <4>3. AfterCursor(c, d, walk.sort) /\ c \in Key
        BY <1>6, <4>1
      <4> QED
        BY <1>1, <4>2, <4>3, KeyOfListing, CursorAgrees, Order
    <3> QED
      BY <2>1, <2>2, <2>3, <3>2, <3>3, <3>4
  <2> QED
    BY <2>4, <2>5
<1> QED
  BY <1>8, <1>9, <1>12 DEF Shows

-----------------------------------------------------------------------------
(* The steps.                                                              *)

\* The first page of a walk.
LEMMA WalkStarts ==
  ASSUME FeedInv, NEW sort \in Sort, NEW filter \in Filters, StartWalk(sort, filter)
  PROVE  FeedInv'
<1> DEFINE walk == [at |-> "walking", sort |-> sort, filter |-> filter, cursor |-> {},
                    shown |-> [l \in Listing |-> 0], moved |-> {}]
<1>1. walk \in Walk /\ Shows(walk)
  BY DEF Walk, Shows, Past
<1>2. /\ visit' = Shown(walk, ListPublished(walk.filter, walk.sort, walk.cursor, PageSize),
                        walk.sort)
      /\ row' = row /\ clock' = clock
  BY DEF StartWalk
<1>3. /\ visit' \in Walk
      /\ visit'.at = "walking" => \E c \in Key : visit'.cursor = {c}
      /\ Shows(visit')
  <2>1. walk.at = "walking" /\ walk.cursor = {}
    OBVIOUS
  <2> HIDE DEF walk
  <2> QED
    BY <1>1, <1>2, <2>1, NextPageShows DEF FeedInv
<1>4. ~InRequest'
  BY <1>3 DEF Walk, InRequest
<1>5. BrowseTypeOK'
  BY <1>2, <1>3 DEF FeedInv, BrowseTypeOK
<1>6. Shows(visit)'
  <2>1. row' = row /\ Shows(visit')
    BY <1>2, <1>3
  <2>2. Past(visit)' = Past(visit')
    BY <2>1 DEF Past, Sought, Matches, KeyOf
  <2> QED
    BY <2>1, <2>2 DEF Shows
<1> QED
  BY <1>3, <1>4, <1>5, <1>6 DEF FeedInv, WalkInv

\* A further page of a walk.
LEMMA WalkGoesOn ==
  ASSUME FeedInv, NEW sort \in Sort, NextPage(sort)
  PROVE  FeedInv'
<1>1. /\ visit \in Walk /\ visit.at = "walking" /\ Shows(visit)
      /\ \E c \in Key : visit.cursor = {c}
  BY DEF NextPage, FeedInv, BrowseTypeOK, WalkInv, Walks
<1>2. sort = visit.sort
  BY <1>1 DEF NextPage, DecodesCursor
<1>3. /\ visit' = Shown(visit, ListPublished(visit.filter, visit.sort, visit.cursor, PageSize),
                        visit.sort)
      /\ row' = row /\ clock' = clock
  BY <1>2 DEF NextPage
<1>4. /\ visit' \in Walk
      /\ visit'.at = "walking" => \E c \in Key : visit'.cursor = {c}
      /\ Shows(visit')
  BY <1>1, <1>3, NextPageShows DEF FeedInv
<1>5. ~InRequest'
  BY <1>4 DEF Walk, InRequest
<1>6. BrowseTypeOK'
  BY <1>3, <1>4 DEF FeedInv, BrowseTypeOK
<1>7. Shows(visit)'
  <2>1. row' = row /\ Shows(visit')
    BY <1>3, <1>4
  <2>2. Past(visit)' = Past(visit')
    BY <2>1 DEF Past, Sought, Matches, KeyOf
  <2> QED
    BY <2>1, <2>2 DEF Shows
<1> QED
  BY <1>4, <1>5, <1>6, <1>7 DEF FeedInv, WalkInv

\* A change of one listing, which the walk is told of.
LEMMA ListingChanges ==
  ASSUME FeedInv, NEW l \in Listing, NEW r \in Row, row' = [row EXCEPT ![l] = r],
         visit' = Disturbed(l), clock' = clock
  PROVE  FeedInv'
<1>1. row' \in [Listing -> Row] /\ \A m \in Listing \ {l} : row'[m] = row[m]
  BY DEF FeedInv, BrowseTypeOK
<1>2. CASE ~Walks
  BY <1>1, <1>2 DEF FeedInv, BrowseTypeOK, WalkInv, Walks, Disturbed, InRequest
<1>3. CASE Walks
  <2>1. visit \in Walk /\ visit' = [visit EXCEPT !.moved = @ \cup {l}]
    BY <1>3 DEF FeedInv, BrowseTypeOK, Disturbed
  <2>2. /\ visit' \in Walk /\ visit'.moved = visit.moved \cup {l}
        /\ visit'.at = visit.at /\ visit'.sort = visit.sort /\ visit'.filter = visit.filter
        /\ visit'.cursor = visit.cursor /\ visit'.shown = visit.shown
    BY <2>1 DEF Walk
  <2>3. ASSUME NEW m \in Listing \ {l}
        PROVE  m \in Past(visit)' <=> m \in Past(visit)
    BY <1>1, <2>2, <2>3 DEF Past, Sought, Matches, KeyOf
  <2>4. Shows(visit)'
    BY <1>3, <2>2, <2>3 DEF FeedInv, WalkInv, Shows
  <2> QED
    BY <1>1, <1>3, <2>2, <2>4 DEF FeedInv, WalkInv, BrowseTypeOK, Walks, InRequest
<1> QED
  BY <1>2, <1>3

\* Sellers and the clock: what they touch is marked as moved.
LEMMA SellersStep ==
  ASSUME FeedInv, Sellers
  PROVE  FeedInv'
<1>1. /\ \A l \in Listing : row[l] \in Row
      /\ MaxClock \in Nat /\ clock \in 1..MaxClock
  BY BrowseAssumption DEF FeedInv, BrowseTypeOK
<1>2. ASSUME NEW l \in Listing, Withdraw(l) PROVE FeedInv'
  <2>1. row' = [row EXCEPT ![l] = [row[l] EXCEPT !.public = FALSE, !.at = 0]]
    BY <1>1, <1>2 DEF Withdraw, FeedInv, BrowseTypeOK
  <2>2. [row[l] EXCEPT !.public = FALSE, !.at = 0] \in Row
    <3>1. row[l] \in Row /\ 0 \in 0..MaxClock
      BY <1>1, <1>2
    <3> QED
      BY <3>1 DEF Row
  <2> QED
    BY <1>2, <2>1, <2>2, ListingChanges DEF Withdraw
<1>3. ASSUME NEW l \in Listing, NEW p \in Prices, ChangePrice(l, p) PROVE FeedInv'
  <2>1. row' = [row EXCEPT ![l] = [row[l] EXCEPT !.price = p]]
    BY <1>1, <1>3 DEF ChangePrice, FeedInv, BrowseTypeOK
  <2>2. [row[l] EXCEPT !.price = p] \in Row
    BY <1>1 DEF Row
  <2> QED
    BY <1>3, <2>1, <2>2, ListingChanges DEF ChangePrice
<1>4. ASSUME NEW l \in Listing, NEW t \in 1..MaxClock, NEW p \in Prices, Publish(l, t, p)
      PROVE  FeedInv'
  <2>1. t \in 0..MaxClock
    BY <1>1
  <2>2. [public |-> TRUE, at |-> t, price |-> p] \in Row
    BY <2>1 DEF Row
  <2> QED
    BY <1>4, <2>2, ListingChanges DEF Publish
<1> QED
  BY <1>2, <1>3, <1>4 DEF Sellers

\* The walk's listings stand still and it is not at a page.
LEMMA OthersKeepWalks ==
  ASSUME FeedInv, row' = row, clock' \in 1..MaxClock,
         visit' = visit \/ (~Walks' /\ (InRequest' => "at" \in DOMAIN visit'))
  PROVE  FeedInv'
BY DEF FeedInv, InRequest, BrowseTypeOK, WalkInv, Walks, Shows, Past, Sought, Matches, KeyOf

\* Every step keeps the invariant.
LEMMA Step ==
  ASSUME FeedInv, [FeedNext]_feedVars
  PROVE  FeedInv'
<1>1. clock \in 1..MaxClock /\ MaxClock \in Nat
  BY BrowseAssumption DEF FeedInv, BrowseTypeOK
<1>2. CASE Table
  <2>1. CASE Tick
    BY <1>1, <2>1, OthersKeepWalks DEF Tick
  <2> QED
    BY <1>2, <2>1, SellersStep DEF Table
<1>3. CASE Browse
  BY <1>3, WalkStarts, WalkGoesOn DEF Browse
<1>4. CASE RefreshProfile
  BY <1>1, <1>4, OthersKeepWalks DEF RefreshProfile, browseVars
<1>5. CASE Ask \/ ReadProfile \/ ReadViewed
  <2>1. row' = row /\ clock' = clock
    BY <1>5 DEF Ask, ReadProfile, ReadViewed
  <2>2. "at" \in DOMAIN visit' /\ visit'.at \in {"asked", "profiled", "viewing", "answered"}
    <3>1. CASE Ask
      BY <3>1 DEF Ask, NewRequest
    <3>2. CASE ReadProfile
      <4>1. "at" \in DOMAIN visit
        BY <3>2 DEF ReadProfile, FeedInv, InRequest
      <4> QED
        BY <3>2, <4>1 DEF ReadProfile, Answered
    <3>3. CASE ReadViewed
      <4>1. "at" \in DOMAIN visit
        BY <3>3 DEF ReadViewed, FeedInv, InRequest
      <4> QED
        BY <3>3, <4>1 DEF ReadViewed
    <3> QED
      BY <1>5, <3>1, <3>2, <3>3
  <2> QED
    BY <1>1, <2>1, <2>2, OthersKeepWalks DEF Walks
<1>6. CASE ForYou \/ Related
  <2>1. \E cards : Answer(cards)
    BY <1>6 DEF ForYou, Related
  <2>2. row' = row /\ clock' = clock /\ ~Walks' /\ ~InRequest'
    BY <2>1 DEF Answer, Answered, Walks, InRequest
  <2> QED
    BY <1>1, <2>2, OthersKeepWalks
<1>7. ASSUME NEW l \in Listing, RecordDiscoveryEvent(l) PROVE FeedInv'
  BY <1>1, <1>7, OthersKeepWalks DEF RecordDiscoveryEvent, browseVars
<1>8. ASSUME NEW l \in Listing, Expire(l) PROVE FeedInv'
  <2>1. row' = row /\ clock' = clock
    BY <1>8 DEF Expire
  <2>2. visit' = visit \/ (~Walks' /\ "at" \in DOMAIN visit')
    BY <1>8 DEF Expire, FeedInv, InRequest, Walks
  <2> QED
    BY <1>1, <2>1, <2>2, OthersKeepWalks
<1>9. ASSUME NEW l \in Listing, ReadSource(l) PROVE FeedInv'
  <2>1. row' = row /\ clock' = clock /\ ~Walks' /\ "at" \in DOMAIN visit'
    BY <1>9 DEF ReadSource, NewRequest, Walks
  <2> QED
    BY <1>1, <2>1, OthersKeepWalks
<1>10. CASE UNCHANGED feedVars
  BY <1>1, <1>10, OthersKeepWalks DEF feedVars, browseVars
<1> QED
  BY <1>2, <1>3, <1>4, <1>5, <1>6, <1>7, <1>8, <1>9, <1>10 DEF FeedNext

\* Nobody walks or asks at first.
LEMMA FeedStarts ==
  ASSUME FeedInit
  PROVE  FeedInv
<1>1. row \in [Listing -> Row] /\ clock \in 1..MaxClock
  <2>1. 1 \in 1..MaxClock /\ 0 \in 0..MaxClock
    BY BrowseAssumption
  <2>2. [public : {FALSE}, at : {0}, price : Prices] \subseteq Row
    BY <2>1 DEF Row
  <2> QED
    BY <2>1, <2>2 DEF FeedInit, BrowseInit
<1>2. ~Walks /\ ~InRequest
  BY DEF FeedInit, BrowseInit, Idle, Walks, InRequest
<1> QED
  BY <1>1, <1>2 DEF FeedInv, BrowseTypeOK, WalkInv

\* The inductive invariant of a walk through the public list (pagination.go,
\* handlers/listings.go:473-488).
THEOREM Invariance == FeedSpec => []FeedInv
<1>1. FeedInit => FeedInv
  BY FeedStarts
<1>2. FeedInv /\ [FeedNext]_feedVars => FeedInv'
  BY Step
<1> QED
  BY <1>1, <1>2, PTL DEF FeedSpec

\* model.go:126: a listing nobody touched during a walk is shown once by its
\* end and never twice, for any listings, filters, prices and page size.
THEOREM WalksShowUntouchedOnce == FeedSpec => []UntouchedShownOnce
<1>1. FeedInv => UntouchedShownOnce
  <2> SUFFICES ASSUME FeedInv, Walks PROVE UntouchedShownOnce
    BY DEF UntouchedShownOnce
  <2>1. ASSUME NEW l \in Listing \ visit.moved
        PROVE  visit.shown[l] = IF l \in Past(visit) THEN 1 ELSE 0
    BY DEF FeedInv, WalkInv, Shows
  <2> QED
    BY <2>1 DEF UntouchedShownOnce, Past, Sought
<1> QED
  BY <1>1, Invariance, PTL

\* A further page that is not the last: its cursor was ahead of the old one.
LEMMA CursorMoves ==
  ASSUME FeedInv, NEW sort \in Sort, NextPage(sort), visit'.at = "walking"
  PROVE  /\ Ahead(visit') \subseteq Ahead(visit)
         /\ Ahead(visit') # Ahead(visit)
<1> DEFINE Found == {KeyOf(l) : l \in Sought(visit)}
           S == {k \in Found : \A c \in visit.cursor : AfterCursor(k, c, visit.sort)}
           P == First(S, visit.sort, PageSize)
<1>1. /\ visit \in Walk /\ BrowseTypeOK /\ visit.sort = sort
      /\ \E c \in Key : visit.cursor = {c}
  BY DEF NextPage, DecodesCursor, FeedInv, BrowseTypeOK, WalkInv, Walks
<1>2. visit' = Shown(visit, P, sort)
  BY <1>1 DEF NextPage, ListPublished, Sought
<1>3. Keys(S)
  <2>1. Keys(Found)
    BY <1>1, KeysOfListings DEF Sought
  <2> HIDE DEF Found
  <2> QED
    BY <2>1, FS_Subset DEF Keys
<1>4. /\ visit'.sort = sort
      /\ Cardinality(P) = PageSize /\ visit'.cursor = Last(P, sort)
  <2> HIDE DEF P
  <2> QED
    BY <1>1, <1>2 DEF Shown, Walk
<1>5. PICK c \in S : Last(P, sort) = {c}
  <2> HIDE DEF S
  <2> QED
    BY <1>1, <1>3, <1>4, PageSplits
<1>6. PICK d \in Key : visit.cursor = {d}
  BY <1>1
<1>7. c \in Key /\ AfterCursor(c, d, sort)
  BY <1>1, <1>3, <1>5, <1>6 DEF Keys
<1>8. /\ Ahead(visit') = {k \in Key : AfterCursor(k, c, sort)}
      /\ Ahead(visit) = {k \in Key : AfterCursor(k, d, sort)}
  BY <1>1, <1>4, <1>5, <1>6 DEF Ahead
<1>9. \A k \in Key : AfterCursor(k, c, sort) => AfterCursor(k, d, sort)
  BY <1>6, <1>7, CursorAgrees, Order
<1>10. ~AfterCursor(c, c, sort)
  BY <1>7, CursorAgrees, Order
<1> QED
  BY <1>7, <1>8, <1>9, <1>10

\* pagination.go: a walk goes on and never back, for any listings and prices,
\* whatever sellers do meanwhile.
THEOREM WalksMoveOn == FeedSpec => PagesMoveOn
<1> DEFINE Turns == \E sort \in Sort : NextPage(sort)
           MovesOn == visit.at = "walking" /\ visit'.at = "walking" =>
                        /\ Ahead(visit') \subseteq Ahead(visit)
                        /\ Turns => Ahead(visit') # Ahead(visit)
<1>1. FeedInv /\ [FeedNext]_feedVars => [MovesOn]_browseVars
  <2> SUFFICES ASSUME FeedInv, [FeedNext]_feedVars,
                      visit.at = "walking", visit'.at = "walking"
               PROVE  MovesOn
    OBVIOUS
  <2>1. CASE Turns
    BY <2>1, CursorMoves
  <2>2. ASSUME ~Turns
        PROVE  visit'.cursor = visit.cursor /\ visit'.sort = visit.sort
    <3> HIDE DEF Turns
    <3>1. visit \in Walk
      BY DEF FeedInv, BrowseTypeOK, Walks
    <3>2. CASE Table
      BY <3>1, <3>2 DEF Table, Tick, Sellers, Withdraw, ChangePrice, Publish, Disturbed, Walk
    <3>3. CASE Browse
      BY <2>2, <3>3 DEF Browse, StartWalk, Turns
    <3>4. CASE RefreshProfile \/ \E l \in Listing : RecordDiscoveryEvent(l)
      BY <3>4 DEF RefreshProfile, RecordDiscoveryEvent, browseVars
    <3>5. CASE \E l \in Listing : Expire(l)
      BY <3>5 DEF Expire, InRequest
    <3>6. CASE Ask \/ \E l \in Listing : ReadSource(l)
      BY <3>6 DEF Ask, ReadSource, NewRequest
    <3>7. CASE UNCHANGED feedVars
      BY <3>7 DEF feedVars, browseVars
    <3> QED
      BY <3>2, <3>3, <3>4, <3>5, <3>6, <3>7
         DEF FeedNext, ReadProfile, ReadViewed, ForYou, Related
  <2>3. CASE ~Turns
    BY <2>2, <2>3 DEF Ahead
  <2> QED
    BY <2>1, <2>3
<1> QED
  BY <1>1, Invariance, PTL DEF FeedSpec, PagesMoveOn

-----------------------------------------------------------------------------
(* Profiles.                                                               *)

\* Finitely many values are no more than what they are values of, and as many
\* when they differ.
LEMMA Values ==
  ASSUME NEW S, IsFiniteSet(S), NEW f, NEW T, T = {f[x] : x \in S}
  PROVE  /\ IsFiniteSet(T)
         /\ (\A x, y \in S : f[x] = f[y] => x = y) => Cardinality(T) = Cardinality(S)
<1> DEFINE g == [x \in S |-> f[x]]
<1>1. g \in Surjection(S, T)
  BY DEF Surjection
<1>2. (\A x, y \in S : f[x] = f[y] => x = y) => g \in Injection(S, T)
  BY DEF Injection, IsInjective
<1> HIDE DEF g
<1> QED
  BY <1>1, <1>2, FS_Surjection

\* Some value is the highest.
LEMMA Highest ==
  ASSUME NEW S, IsFiniteSet(S), S # {}, NEW f, \A x \in S : f[x] \in Int
  PROVE  \E m \in S : \A x \in S : f[x] <= f[m]
<1> DEFINE R == {p \in S \X S : f[p[1]] > f[p[2]]}
<1>1. \A x, y \in S : <<x, y>> \in R <=> f[x] > f[y]
  OBVIOUS
<1>2. PICK m \in S : \A x \in S : <<x, m>> \notin R
  <2> HIDE DEF R
  <2>1. \A x \in S : <<x, x>> \notin R
    BY <1>1
  <2>2. \A x, y, z \in S : <<x, y>> \in R /\ <<y, z>> \in R => <<x, z>> \in R
    BY <1>1
  <2>3. S \in SUBSET S
    OBVIOUS
  <2> QED
    BY <2>1, <2>2, <2>3, Least
<1>3. ASSUME NEW x \in S PROVE f[x] <= f[m]
  <2>1. ~(f[x] > f[m])
    BY <1>1, <1>2, Zenon
  <2> QED
    BY <2>1
<1> QED
  BY <1>3

\* A set of numbers has its least.
LEMMA MinIs ==
  ASSUME NEW S \in SUBSET Int, IsFiniteSet(S), S # {}
  PROVE  Min(S) \in S /\ \A x \in S : Min(S) <= x
<1> DEFINE f == [x \in S |-> -x]
<1>1. \A x \in S : f[x] \in Int
  OBVIOUS
<1>2. PICK m \in S : \A x \in S : f[x] <= f[m]
  <2> HIDE DEF f
  <2> QED
    BY <1>1, Highest
<1>3. \A x \in S : m <= x
  BY <1>2
<1> QED
  BY <1>3 DEF Min

\* Interactions are counted with numbers, and there is one when the count says so.
LEMMA CountIs ==
  ASSUME views \in [Listing -> Nat], NEW S \in SUBSET Listing
  PROVE  /\ Count(S) \in Nat
         /\ \A l \in S : views[l] <= Count(S)
         /\ Count(S) # 0 => \E l \in S : views[l] > 0
<1> DEFINE Of(l) == {l} \X (1..views[l])
           f == [l \in S |-> Of(l)]
           Each == {f[l] : l \in S}
<1>1. \A l \in S : IsFiniteSet(Of(l)) /\ Cardinality(Of(l)) = views[l]
  <2> SUFFICES ASSUME NEW l \in S PROVE IsFiniteSet(Of(l)) /\ Cardinality(Of(l)) = views[l]
    OBVIOUS
  <2>1. views[l] \in Nat
    OBVIOUS
  <2>2. IsFiniteSet(1..views[l]) /\ Cardinality(1..views[l]) = views[l]
    BY <2>1, FS_Interval
  <2>3. IsFiniteSet({l}) /\ Cardinality({l}) = 1
    BY FS_Singleton
  <2>4. IsFiniteSet(Of(l)) /\ Cardinality(Of(l)) = 1 * views[l]
    BY <2>2, <2>3, FS_Product
  <2> QED
    BY <2>1, <2>4
<1>2. Interactions(S) = UNION Each
  BY DEF Interactions
<1>3. IsFiniteSet(Interactions(S))
  <2>1. IsFiniteSet(S)
    BY BrowseAssumption, FS_Subset
  <2>2. IsFiniteSet(Each)
    <3> HIDE DEF f
    <3> QED
      BY <2>1, Values
  <2>3. \A E \in Each : IsFiniteSet(E)
    BY <1>1
  <2> HIDE DEF Each
  <2> QED
    BY <1>2, <2>2, <2>3, FS_UNION
<1>4. Count(S) \in Nat
  BY <1>3, FS_CardinalityType DEF Count
<1>5. ASSUME NEW l \in S PROVE views[l] <= Count(S)
  <2>1. Of(l) \subseteq Interactions(S)
    BY DEF Interactions
  <2> HIDE DEF Of
  <2> QED
    BY <1>1, <1>3, <2>1, FS_Subset DEF Count
<1>6. ASSUME Count(S) # 0 PROVE \E l \in S : views[l] > 0
  <2>1. Interactions(S) # {}
    BY <1>6, FS_EmptySet DEF Count
  <2>2. PICK l \in S : 1..views[l] # {}
    BY <2>1 DEF Interactions
  <2> QED
    BY <2>2
<1> QED
  BY <1>4, <1>5, <1>6

\* A middle value of the interactions is the value of some listing.
LEMMA SmallestIs ==
  ASSUME views \in [Listing -> Nat], NEW S \in SUBSET Listing,
         NEW value, \A l \in S : value[l] \in Nat,
         NEW k \in Nat, 0 < k, k <= Count(S)
  PROVE  \E m \in S : Smallest(k, S, value) = value[m]
<1> DEFINE Enough == {m \in S : Count({n \in S : value[n] <= value[m]}) >= k}
           V == {value[l] : l \in Enough}
<1>1. IsFiniteSet(S) /\ S # {}
  <2>1. IsFiniteSet(S)
    BY BrowseAssumption, FS_Subset
  <2>2. \E l \in S : views[l] > 0
    BY CountIs
  <2> QED
    BY <2>1, <2>2
<1>2. PICK m \in S : \A n \in S : value[n] <= value[m]
  <2>1. \A l \in S : value[l] \in Int
    OBVIOUS
  <2> QED
    BY <1>1, <2>1, Highest
<1>3. m \in Enough
  <2>1. {n \in S : value[n] <= value[m]} = S
    BY <1>2
  <2>2. Count({n \in S : value[n] <= value[m]}) >= k
    BY <2>1, CountIs
  <2> QED
    BY <2>2
<1>4. IsFiniteSet(Enough)
  <2>1. Enough \subseteq S
    OBVIOUS
  <2> HIDE DEF Enough
  <2> QED
    BY <1>1, <2>1, FS_Subset
<1>5. V \in SUBSET Int /\ V # {}
  <2>1. Enough \subseteq S
    OBVIOUS
  <2> HIDE DEF Enough
  <2> QED
    BY <1>3, <2>1
<1>6. IsFiniteSet(V)
  <2> HIDE DEF Enough
  <2> QED
    BY <1>4, Values
<1>7. Min(V) \in V
  <2> HIDE DEF V
  <2> QED
    BY <1>5, <1>6, MinIs
<1>8. Smallest(k, S, value) = Min(V)
  BY DEF Smallest
<1> QED
  BY <1>7, <1>8

\* The most common city is one.
LEMMA MostCommonIs ==
  ASSUME views \in [Listing -> Nat], NEW S \in SUBSET Listing, Count(S) # 0
  PROVE  MostCommon(S) \in Cities
<1> DEFINE times == [c \in Cities |-> Count({l \in S : CityOf[l] = c})]
           seen == {CityOf[l] : l \in {m \in S : views[m] > 0}}
           most == {c \in seen : \A d \in seen : times[d] <= times[c]}
<1>1. \A c \in Cities : times[c] \in Int
  <2> SUFFICES ASSUME NEW c \in Cities PROVE Count({l \in S : CityOf[l] = c}) \in Int
    OBVIOUS
  <2>1. {l \in S : CityOf[l] = c} \in SUBSET Listing
    OBVIOUS
  <2> QED
    BY <2>1, CountIs
<1>2. seen \subseteq Cities /\ seen # {}
  BY CountIs DEF Cities
<1>3. IsFiniteSet(seen)
  <2>1. IsFiniteSet({m \in S : views[m] > 0})
    BY BrowseAssumption, FS_Subset
  <2> QED
    BY <2>1, Values
<1>4. most # {}
  <2> HIDE DEF times, seen
  <2> QED
    BY <1>1, <1>2, <1>3, Highest
<1>5. most \in SUBSET Int /\ most \in SUBSET seen
  BY <1>2, BrowseAssumption DEF Cities
<1>6. Min(most) \in most
  <2> HIDE DEF most
  <2> QED
    BY <1>3, <1>4, <1>5, FS_Subset, MinIs
<1>7. MostCommon(S) = Min(most)
  BY <1>2 DEF MostCommon
<1> QED
  BY <1>2, <1>6, <1>7

\* The profile of some of the interactions is one.
LEMMA ProfileIs ==
  ASSUME BrowseTypeOK, views \in [Listing -> Nat], NEW S \in SUBSET Listing,
         NEW k \in Nat, 0 < k, k <= Count(S)
  PROVE  ProfileAt(k, S) \in Profile
<1>1. \A l \in S : Asked[l] \in Prices /\ Asked[l] \in Nat
  BY BrowseAssumption DEF Asked, BrowseTypeOK, Row
<1>2. \A l \in S : BedsOf[l] \in Nat
  BY FeedAssumption
<1>3. Smallest(k, S, Asked) \in Prices
  BY <1>1, SmallestIs
<1>4. Smallest(k, S, BedsOf) \in Nat
  BY <1>2, SmallestIs
<1>5. MostCommon(S) \in Cities
  BY CountIs, MostCommonIs
<1> QED
  BY <1>3, <1>4, <1>5 DEF ProfileAt, Profile

\* What the worker writes, and what a request reads.
LEMMA DiscoveryProfileIs ==
  ASSUME BrowseTypeOK, FeedTypeOK
  PROVE  PostgresProfile \in Profile /\ GetDiscoveryProfile \in SUBSET Profile
<1>1. views \in [Listing -> Nat]
  BY FeedAssumption DEF FeedTypeOK
<1>2. PostgresProfile \in Profile
  <2> DEFINE n == Count(Listing)
  <2>1. CASE n = 0
    BY <2>1 DEF PostgresProfile, Profile
  <2>2. CASE n # 0
    <3>1. n \in Nat
      BY <1>1, CountIs
    <3>2. /\ PostgresMedian(n) \in Nat
          /\ 0 < PostgresMedian(n) /\ PostgresMedian(n) <= n
      <4> HIDE DEF n
      <4> QED
        BY <2>2, <3>1 DEF PostgresMedian
    <3>3. ProfileAt(PostgresMedian(n), Listing) \in Profile
      BY <1>1, <3>2, ProfileIs
    <3> QED
      BY <2>2, <3>3 DEF PostgresProfile
  <2> QED
    BY <2>1, <2>2
<1>3. DevProfile \in SUBSET Profile
  <2> DEFINE S == {l \in Listing : row[l].public}
             n == Count(S)
  <2>1. CASE n = 0
    BY <2>1 DEF DevProfile
  <2>2. CASE n # 0
    <3>1. n \in Nat
      BY <1>1, CountIs
    <3>2. /\ DevMedian(n) \in Nat
          /\ 0 < DevMedian(n) /\ DevMedian(n) <= n
      <4> HIDE DEF n
      <4> QED
        BY <2>2, <3>1 DEF DevMedian
    <3>3. ProfileAt(DevMedian(n), S) \in Profile
      BY <1>1, <3>2, ProfileIs
    <3> QED
      BY <2>2, <3>3 DEF DevProfile
  <2> QED
    BY <2>1, <2>2
<1> QED
  BY <1>2, <1>3 DEF GetDiscoveryProfile, FeedTypeOK

-----------------------------------------------------------------------------
(* A ranked section.                                                       *)

\* What was viewed when the request came is viewed until the request has read
\* it, and in what it has read then, unless that is cut off.
BeforeIsViewed ==
  /\ visit.at \in {"asked", "profiled"} => \A l \in visit.before : views[l] > 0
  /\ visit.at = "viewing" /\ Cardinality(visit.viewed) < ViewedLimit
       => visit.before \subseteq visit.viewed
  /\ visit.at = "sourced" => visit.before = {}

RequestInv == FeedTypeOK /\ BeforeIsViewed

\* The candidates that are not to be left out.
Offered == {k \in Candidates : k.id \notin Passed(visit)}

\* The cards of a section, by rank.
Cut(S, R) == {k \in S : Cardinality({j \in S : <<j, k>> \in R}) < Cards}

\* The candidates are the newest of the listings that fit, and all of them
\* when there are not too many.
LEMMA CandidatesAre ==
  ASSUME BrowseTypeOK
  PROVE  /\ Candidates \subseteq {KeyOf(l) : l \in Fitting}
         /\ Keys(Candidates)
         /\ Cardinality(Fitting) <= CandidateLimit => Candidates = {KeyOf(l) : l \in Fitting}
<1> DEFINE S == {KeyOf(l) : l \in Fitting}
<1>1. Candidates = First(S, "newest", CandidateLimit)
  <2>1. {k \in S : \A c \in {} : AfterCursor(k, c, "newest")} = S
    OBVIOUS
  <2> QED
    BY <2>1 DEF Candidates, ListPublished, Fitting
<1>2. Keys(S)
  BY KeysOfListings DEF Fitting
<1>3. Cardinality(S) = Cardinality(Fitting)
  <2> DEFINE f == [l \in Fitting |-> KeyOf(l)]
  <2>1. S = {f[l] : l \in Fitting} /\ IsFiniteSet(Fitting)
    BY BrowseAssumption, FS_Subset DEF Fitting
  <2>2. \A l, m \in Fitting : f[l] = f[m] => l = m
    BY KeyOfListing DEF Fitting
  <2> HIDE DEF f, S
  <2> QED
    BY <2>1, <2>2, Values
<1>4. CandidateLimit \in Nat /\ "newest" \in Sort
  BY FeedAssumption DEF Sort
<1> HIDE DEF S
<1>5. Keys(Candidates) /\ Candidates \subseteq S
  BY <1>1, <1>2, <1>4, FirstFinite
<1>6. Cardinality(S) <= CandidateLimit => Candidates = S
  BY <1>1, <1>2, <1>4, PageFits
<1> QED
  BY <1>3, <1>5, <1>6 DEF S

\* "For you" is ranked: more points first, and a lower id among equals.
LEMMA ForYouIsRanked ==
  ASSUME BrowseTypeOK, RequestInv, ForYou
  PROVE  \E R : /\ IsOrder(R, Offered)
                /\ visit' = Answered({k.id : k \in Cut(Offered, R)})
<1>1. PICK p \in visit.profile :
        LET Better(j, k) == \/ PersonalizedScore(j, p) > PersonalizedScore(k, p)
                            \/ PersonalizedScore(j, p) = PersonalizedScore(k, p) /\ j.id < k.id
        IN  Answer(Pick(Candidates, Better))
  BY DEF ForYou
<1> DEFINE Before(j, k) == \/ PersonalizedScore(j, p) > PersonalizedScore(k, p)
                           \/ PersonalizedScore(j, p) = PersonalizedScore(k, p) /\ j.id < k.id
           R == {q \in Offered \X Offered : Before(q[1], q[2])}
<1>2. p \in Profile
  BY DEF ForYou, RequestInv, FeedTypeOK, InRequest, Asking
<1>3. Keys(Offered)
  BY CandidatesAre, FS_Subset DEF Offered, Keys
<1>4. \A k \in Offered : PersonalizedScore(k, p) \in Int /\ k.id \in Nat
  <2> SUFFICES ASSUME NEW k \in Offered
               PROVE  PersonalizedScore(k, p) \in Int /\ k.id \in Nat
    OBVIOUS
  <2>1. k.price \in Nat /\ k.id \in Nat
    BY <1>3, KeyTypes DEF Keys
  <2>2. p.price \in Nat
    <3>1. p.price \in Prices \cup {NoPrice}
      BY <1>2 DEF Profile
    <3>2. Prices \cup {NoPrice} \subseteq Nat
      BY BrowseAssumption DEF NoPrice
    <3> QED
      BY <3>1, <3>2
  <2>3. Distance(k.price, p.price) \in Int
    BY <2>1, <2>2, FeedAssumption DEF Distance
  <2> QED
    BY <2>1, <2>3 DEF PersonalizedScore, RelatedScore
<1>5. \A j, k \in Offered : <<j, k>> \in R <=> Before(j, k)
  OBVIOUS
<1>6. IsOrder(R, Offered)
  <2> HIDE DEF R
  <2> QED
    BY <1>3, <1>4, <1>5 DEF IsOrder, Keys
<1>7. visit' = Answered({k.id : k \in {c \in Offered :
                                  Cardinality({j \in Offered : Before(j, c)}) < Cards}})
  BY <1>1 DEF Answer, Pick, Top, Offered
<1>8. {c \in Offered : Cardinality({j \in Offered : Before(j, c)}) < Cards} = Cut(Offered, R)
  <2>1. \A c \in Offered : {j \in Offered : Before(j, c)} = {j \in Offered : <<j, c>> \in R}
    BY <1>5
  <2> HIDE DEF Before, R
  <2> QED
    BY <2>1 DEF Cut
<1> QED
  BY <1>6, <1>7, <1>8

\* A related listing: more points first, and the newest first among equals.
LEMMA RelatedIsRanked ==
  ASSUME BrowseTypeOK, RequestInv, Related
  PROVE  \E R : /\ IsOrder(R, Offered)
                /\ visit' = Answered({k.id : k \in Cut(Offered, R)})
<1>1. PICK s \in visit.source :
        LET Score(k) == RelatedScore(k, s.price, BedsOf[s.id])
            Better(j, k) == \/ Score(j) > Score(k)
                            \/ Score(j) = Score(k) /\ BeforeBrowse(j, k, "newest")
        IN  Answer(Pick(Candidates, Better))
  BY DEF Related
<1> DEFINE Score(k) == RelatedScore(k, s.price, BedsOf[s.id])
           Before(j, k) == \/ Score(j) > Score(k)
                           \/ Score(j) = Score(k) /\ BeforeBrowse(j, k, "newest")
           R == {q \in Offered \X Offered : Before(q[1], q[2])}
<1>2. s \in Key
  BY DEF Related, RequestInv, FeedTypeOK, InRequest, Asking
<1>3. Keys(Offered)
  BY CandidatesAre, FS_Subset DEF Offered, Keys
<1>4. \A k \in Offered : Score(k) \in Int
  <2> SUFFICES ASSUME NEW k \in Offered PROVE Score(k) \in Int
    OBVIOUS
  <2>1. k.price \in Nat /\ s.price \in Nat
    BY <1>2, <1>3, KeyTypes DEF Keys
  <2>2. Distance(k.price, s.price) \in Int
    BY <2>1, FeedAssumption DEF Distance
  <2> QED
    BY <2>2 DEF RelatedScore
<1>5. \A j, k \in Offered : <<j, k>> \in R <=> Before(j, k)
  OBVIOUS
<1>6. IsOrder(R, Offered)
  <2>1. /\ \A k \in Offered : ~BeforeBrowse(k, k, "newest")
        /\ \A i, j, k \in Offered :
             BeforeBrowse(i, j, "newest") /\ BeforeBrowse(j, k, "newest")
               => BeforeBrowse(i, k, "newest")
        /\ \A j, k \in Offered : j # k
             => BeforeBrowse(j, k, "newest") \/ BeforeBrowse(k, j, "newest")
    <3>1. "newest" \in Sort
      BY DEF Sort
    <3> QED
      BY <1>3, <3>1, Order DEF Keys
  <2> HIDE DEF R, Score
  <2> QED
    BY <1>3, <1>4, <1>5, <2>1 DEF IsOrder, Keys
<1>7. visit' = Answered({k.id : k \in {c \in Offered :
                                  Cardinality({j \in Offered : Before(j, c)}) < Cards}})
  BY <1>1 DEF Answer, Pick, Top, Offered
<1>8. {c \in Offered : Cardinality({j \in Offered : Before(j, c)}) < Cards} = Cut(Offered, R)
  <2>1. \A c \in Offered : {j \in Offered : Before(j, c)} = {j \in Offered : <<j, c>> \in R}
    BY <1>5
  <2> HIDE DEF Before, R
  <2> QED
    BY <2>1 DEF Cut
<1> QED
  BY <1>6, <1>7, <1>8

\* A section's cards are some of what is offered.
LEMMA CardsAre ==
  ASSUME BrowseTypeOK, RequestInv, ForYou \/ Related
  PROVE  \E R : /\ IsOrder(R, Offered)
                /\ visit'.at = "answered"
                /\ visit'.cards = {k.id : k \in Cut(Offered, R)}
                /\ visit'.cards \subseteq Listing \ Passed(visit)
<1>1. PICK R : /\ IsOrder(R, Offered)
               /\ visit' = Answered({k.id : k \in Cut(Offered, R)})
  BY ForYouIsRanked, RelatedIsRanked
<1>2. Offered \subseteq Key
  BY CandidatesAre DEF Offered, Keys
<1>3. {k.id : k \in Cut(Offered, R)} \subseteq Listing \ Passed(visit)
  BY <1>2 DEF Cut, Offered, Key
<1> QED
  BY <1>1, <1>3 DEF Answered

\* The list of viewed listings is all of them, unless it is cut off.
LEMMA ViewedList ==
  ASSUME Cardinality(ListViewedListingIDs) < ViewedLimit
  PROVE  ListViewedListingIDs = Viewed
<1> DEFINE R == {p \in Viewed \X Viewed : p[1] < p[2]}
<1>1. \A l, m \in Viewed : <<l, m>> \in R <=> l < m
  OBVIOUS
<1>2. IsFiniteSet(Viewed) /\ \A l \in Viewed : l \in Nat
  BY BrowseAssumption, FS_Subset DEF Viewed
<1>3. IsOrder(R, Viewed)
  <2> HIDE DEF R
  <2> QED
    BY <1>1, <1>2 DEF IsOrder
<1>4. /\ ListViewedListingIDs \in SUBSET Viewed
      /\ \A l \in Viewed : l \in ListViewedListingIDs
                             <=> Cardinality({m \in Viewed : <<m, l>> \in R}) < ViewedLimit
  <2>1. \A l \in Viewed : {m \in Viewed : <<m, l>> \in R} = {m \in Viewed : m < l}
    BY <1>1
  <2> HIDE DEF R
  <2> QED
    BY <2>1 DEF ListViewedListingIDs
<1>5. ViewedLimit \in Nat
  BY FeedAssumption
<1> HIDE DEF R
<1> QED
  BY <1>3, <1>4, <1>5, FirstOf

\* A step that is none of the request's: it is as it was, or the visitor walks.
LEMMA OthersKeepRequests ==
  ASSUME RequestInv, BrowseTypeOK', visit' = visit \/ Walks',
         profile' = profile,
         views' \in [Listing -> 0..MaxViews], \A l \in Listing : views'[l] >= views[l]
  PROVE  RequestInv'
<1>1. CASE visit' = visit
  <2>1. FeedTypeOK'
    BY <1>1 DEF RequestInv, FeedTypeOK, InRequest
  <2>2. BeforeIsViewed'
    <3>1. ASSUME visit.at \in {"asked", "profiled"}, NEW l \in visit.before PROVE views'[l] > 0
      <4>1. l \in Listing /\ views[l] > 0
        BY <3>1 DEF RequestInv, FeedTypeOK, BeforeIsViewed, InRequest, Asking
      <4>2. views[l] \in Nat /\ views'[l] \in Nat
        BY <4>1, FeedAssumption DEF RequestInv, FeedTypeOK
      <4> QED
        BY <4>1, <4>2
    <3> QED
      BY <1>1, <3>1 DEF RequestInv, BeforeIsViewed
  <2> QED
    BY <2>1, <2>2 DEF RequestInv
<1>2. CASE Walks'
  BY <1>2 DEF RequestInv, FeedTypeOK, BeforeIsViewed, InRequest, Walks
<1> QED
  BY <1>1, <1>2

\* A walk stays one whoever touches its listings.
LEMMA DisturbedWalks ==
  ASSUME BrowseTypeOK, NEW l \in Listing, visit' = Disturbed(l)
  PROVE  visit' = visit \/ Walks'
BY DEF BrowseTypeOK, Disturbed, Walks, Walk

\* Every step keeps what a request has read what it is.
LEMMA RequestStep ==
  ASSUME FeedInv, FeedInv', RequestInv, [FeedNext]_feedVars
  PROVE  RequestInv'
<1> USE DEF FeedInv
<1>1. MaxViews \in Nat /\ \A l \in Listing : views[l] \in 0..MaxViews /\ views[l] \in Nat
  BY FeedAssumption DEF RequestInv, FeedTypeOK
<1>2. ASSUME UNCHANGED <<views, profile>>, visit' = visit \/ Walks' PROVE RequestInv'
  <2>1. views' \in [Listing -> 0..MaxViews] /\ \A l \in Listing : views'[l] >= views[l]
    BY <1>1, <1>2 DEF RequestInv, FeedTypeOK
  <2> QED
    BY <1>2, <2>1, OthersKeepRequests
<1>3. CASE Table
  <2>1. CASE Tick
    BY <1>2, <1>3, <2>1 DEF Table, Tick
  <2>2. CASE Sellers
    <3>1. \E l \in Listing : visit' = Disturbed(l)
      BY <2>2 DEF Sellers, Withdraw, ChangePrice, Publish
    <3> QED
      BY <1>2, <1>3, <3>1, DisturbedWalks DEF Table
  <2> QED
    BY <1>3, <2>1, <2>2 DEF Table
<1>4. CASE Browse
  <2>1. ASSUME NEW sort \in Sort, NextPage(sort) PROVE Walks'
    BY <2>1 DEF NextPage, Shown, Walks, BrowseTypeOK, Walk
  <2>2. ASSUME NEW sort \in Sort, NEW filter \in Filters, StartWalk(sort, filter) PROVE Walks'
    BY <2>2 DEF StartWalk, Shown, Walks
  <2> QED
    BY <1>2, <1>4, <2>1, <2>2 DEF Browse
<1>5. CASE RefreshProfile
  <2>1. profile' \subseteq Profile /\ Cardinality(profile') <= 1
    <3>1. profile' = {PostgresProfile} /\ PostgresProfile \in Profile
      BY <1>5, DiscoveryProfileIs DEF RefreshProfile, RequestInv
    <3>2. Cardinality({PostgresProfile}) = 1
      BY FS_Singleton
    <3> QED
      BY <3>1, <3>2
  <2> QED
    BY <1>5, <2>1 DEF RefreshProfile, browseVars, RequestInv, FeedTypeOK, BeforeIsViewed, InRequest
<1>6. CASE Ask
  <2>1. visit' = [at |-> "asked", profile |-> {}, source |-> {}, viewed |-> {}, before |-> Viewed]
    BY <1>6 DEF Ask, NewRequest
  <2>2. visit' \in Asking
    BY <2>1 DEF Asking, Viewed
  <2>3. \A l \in visit'.before : views'[l] > 0
    BY <1>6, <2>1 DEF Ask, Viewed
  <2> QED
    BY <1>6, <2>1, <2>2, <2>3 DEF Ask, RequestInv, FeedTypeOK, BeforeIsViewed
<1>7. CASE ReadProfile
  <2>1. visit \in Asking /\ visit.at = "asked" /\ UNCHANGED <<views, profile>>
    BY <1>7 DEF ReadProfile, RequestInv, FeedTypeOK, InRequest
  <2>2. CASE visit' = Answered({})
    BY <2>1, <2>2 DEF Answered, RequestInv, FeedTypeOK, BeforeIsViewed, InRequest
  <2>3. CASE visit' = [visit EXCEPT !.at = "profiled", !.profile = GetDiscoveryProfile]
    <3>1. GetDiscoveryProfile \in SUBSET Profile
      BY DiscoveryProfileIs DEF RequestInv
    <3>2. visit' \in Asking /\ visit'.at = "profiled" /\ visit'.before = visit.before
      BY <2>1, <2>3, <3>1 DEF Asking
    <3> QED
      BY <2>1, <3>2 DEF RequestInv, FeedTypeOK, BeforeIsViewed
  <2> QED
    BY <1>7, <2>2, <2>3 DEF ReadProfile
<1>8. CASE ReadViewed
  <2>1. /\ visit \in Asking /\ visit.at = "profiled" /\ UNCHANGED <<views, profile>>
        /\ visit' = [visit EXCEPT !.at = "viewing", !.viewed = ListViewedListingIDs]
    BY <1>8 DEF ReadViewed, RequestInv, FeedTypeOK, InRequest
  <2>2. ListViewedListingIDs \in SUBSET Listing
    BY DEF ListViewedListingIDs, Viewed
  <2>3. /\ visit' \in Asking /\ visit'.at = "viewing" /\ visit'.before = visit.before
        /\ visit'.viewed = ListViewedListingIDs
    BY <2>1, <2>2 DEF Asking
  <2>4. visit.before \subseteq Viewed
    BY <2>1 DEF RequestInv, BeforeIsViewed, Viewed, Asking
  <2>5. Cardinality(visit'.viewed) < ViewedLimit => visit'.before \subseteq visit'.viewed
    BY <2>3, <2>4, ViewedList
  <2> QED
    BY <2>1, <2>3, <2>5 DEF RequestInv, FeedTypeOK, BeforeIsViewed
<1>9. CASE ForYou \/ Related
  <2>1. visit'.at = "answered" /\ visit'.cards \subseteq Listing
    BY <1>9, CardsAre
  <2>2. UNCHANGED <<views, profile>>
    BY <1>9 DEF ForYou, Related, Answer
  <2> QED
    BY <2>1, <2>2 DEF RequestInv, FeedTypeOK, BeforeIsViewed, InRequest
<1>10. ASSUME NEW l \in Listing, RecordDiscoveryEvent(l) PROVE RequestInv'
  <2>1. views[l] < MaxViews
    <3>1. views \in [Listing -> Nat] /\ Listing \in SUBSET Listing
      BY FeedAssumption DEF RequestInv, FeedTypeOK
    <3>2. views[l] <= Count(Listing) /\ Count(Listing) \in Nat /\ Count(Listing) < MaxViews
      BY <1>10, <3>1, CountIs DEF RecordDiscoveryEvent
    <3> QED
      BY <1>1, <3>2
  <2>2. /\ views' \in [Listing -> 0..MaxViews]
        /\ \A m \in Listing : views'[m] >= views[m]
    <3>1. views[l] + 1 \in 0..MaxViews
      BY <1>1, <2>1
    <3>2. views' = [views EXCEPT ![l] = views[l] + 1]
      BY <1>10 DEF RecordDiscoveryEvent
    <3> QED
      BY <1>1, <3>1, <3>2 DEF RequestInv, FeedTypeOK
  <2> QED
    BY <1>10, <2>2, OthersKeepRequests DEF RecordDiscoveryEvent, browseVars
<1>11. ASSUME NEW l \in Listing, Expire(l) PROVE RequestInv'
  <2>1. views' = [views EXCEPT ![l] = views[l] - 1] /\ views[l] > 0 /\ profile' = profile
    BY <1>11 DEF Expire
  <2>2. views' \in [Listing -> 0..MaxViews]
    <3>1. views[l] - 1 \in 0..MaxViews
      BY <1>1, <2>1
    <3> QED
      BY <2>1, <3>1 DEF RequestInv, FeedTypeOK
  <2>3. \A m \in Listing : views[m] > 0 /\ ~(m = l /\ views[l] = 1) => views'[m] > 0
    BY <1>1, <2>1 DEF RequestInv, FeedTypeOK
  <2>4. CASE InRequest
    <3>1. visit \in Asking
      BY <2>4 DEF RequestInv, FeedTypeOK
    <3>2. /\ visit' \in Asking /\ visit'.at = visit.at /\ visit'.viewed = visit.viewed
          /\ visit'.before = IF views[l] = 1 THEN visit.before \ {l} ELSE visit.before
      BY <1>11, <2>4, <3>1 DEF Expire, Asking
    <3>3. visit'.at \in {"asked", "profiled"} => \A m \in visit'.before : views'[m] > 0
      BY <2>3, <3>1, <3>2 DEF RequestInv, BeforeIsViewed, Asking
    <3>4. BeforeIsViewed'
      BY <3>2, <3>3 DEF RequestInv, BeforeIsViewed
    <3>5. visit'.at # "answered"
      BY <3>1, <3>2 DEF Asking
    <3> QED
      BY <2>1, <2>2, <3>2, <3>4, <3>5 DEF RequestInv, FeedTypeOK
  <2>5. CASE ~InRequest
    BY <1>11, <2>1, <2>2, <2>5 DEF Expire, RequestInv, FeedTypeOK, BeforeIsViewed, InRequest
  <2> QED
    BY <2>4, <2>5
<1>12. ASSUME NEW l \in Listing, ReadSource(l) PROVE RequestInv'
  <2>1. KeyOf(l) \in Key
    BY KeyOfListing
  <2>2. visit' = [at |-> "sourced", profile |-> {}, source |-> {KeyOf(l)}, viewed |-> {},
                  before |-> {}]
    BY <1>12 DEF ReadSource, NewRequest
  <2>3. visit' \in Asking
    BY <2>1, <2>2 DEF Asking
  <2> QED
    BY <1>12, <2>2, <2>3 DEF ReadSource, RequestInv, FeedTypeOK, BeforeIsViewed
<1>13. CASE UNCHANGED feedVars
  BY <1>2, <1>13 DEF feedVars, browseVars
<1> QED
  BY <1>3, <1>4, <1>5, <1>6, <1>7, <1>8, <1>9, <1>10, <1>11, <1>12, <1>13 DEF FeedNext

\* A request holds profiles and listings, and has read what was viewed before it
\* unless that is cut off (handlers/listings.go:526-540).
THEOREM Requests == FeedSpec => []RequestInv
<1>1. FeedInit => RequestInv
  <2> SUFFICES ASSUME FeedInit PROVE RequestInv
    OBVIOUS
  <2>1. visit.at = "idle" /\ views \in [Listing -> 0..MaxViews]
    BY FeedAssumption DEF FeedInit, BrowseInit, Idle
  <2>2. BrowseTypeOK => FeedTypeOK
    BY <2>1, FS_EmptySet DEF FeedInit, FeedTypeOK, InRequest
  <2> QED
    BY <2>1, <2>2, FeedStarts DEF RequestInv, BeforeIsViewed, FeedInv
<1>2. FeedInv /\ FeedInv' /\ RequestInv /\ [FeedNext]_feedVars => RequestInv'
  BY RequestStep
<1> QED
  BY <1>1, <1>2, Invariance, PTL DEF FeedSpec

\* The variables of the feed keep their types.
THEOREM FeedTypeCorrect == FeedSpec => []FeedTypeOK
<1>1. RequestInv => FeedTypeOK
  BY DEF RequestInv
<1> QED
  BY <1>1, Requests, PTL

\* Only the two ranked sections are answered from candidates.
LEMMA AnswersAreRanked ==
  ASSUME FeedInv, RequestInv, [FeedNext]_feedVars, Answers
  PROVE  ForYou \/ Related
<1>1. InRequest /\ visit \in Asking /\ visit.at \in {"viewing", "sourced"}
  BY DEF Answers, InRequest, RequestInv, FeedTypeOK
<1>2. visit'.at = "answered" /\ visit' # visit
  BY DEF Answers
<1>3. ~Table
  <2>1. ASSUME NEW l \in Listing, visit' = Disturbed(l) PROVE FALSE
    BY <1>1, <1>2, <2>1 DEF Disturbed, Walks
  <2>2. ~Sellers
    BY <2>1 DEF Sellers, Withdraw, ChangePrice, Publish
  <2> QED
    BY <1>2, <2>2 DEF Table, Tick
<1>4. ~Browse
  BY <1>1 DEF Browse, NextPage, StartWalk
<1>5. ~RefreshProfile /\ ~Ask /\ ~ReadProfile /\ ~ReadViewed
  BY <1>1, <1>2 DEF RefreshProfile, browseVars, Ask, ReadProfile, ReadViewed
<1>6. ASSUME NEW l \in Listing PROVE ~RecordDiscoveryEvent(l) /\ ~Expire(l) /\ ~ReadSource(l)
  <2>1. [visit EXCEPT !.before = visit.before \ {l}].at = visit.at
    BY <1>1 DEF Asking
  <2> QED
    BY <1>1, <1>2, <2>1 DEF RecordDiscoveryEvent, browseVars, Expire, ReadSource
<1> QED
  BY <1>2, <1>3, <1>4, <1>5, <1>6 DEF FeedNext, feedVars, browseVars

\* docs/DISCOVERY.md:48: no card of "For you" is a listing viewed before the
\* request came and viewed recently still, for any listings, profile and limit,
\* as long as the list of viewed listings is not cut off.
THEOREM ViewedIsLeftOut == FeedSpec => ForYouOmitsViewed
<1> DEFINE Omits == Answers /\ Cardinality(visit.viewed) < ViewedLimit
                      => visit'.cards \cap visit.before = {}
<1>1. FeedInv /\ RequestInv /\ [FeedNext]_feedVars => [Omits]_feedVars
  <2> SUFFICES ASSUME FeedInv, RequestInv, [FeedNext]_feedVars, Answers,
                      Cardinality(visit.viewed) < ViewedLimit
               PROVE  visit'.cards \cap visit.before = {}
    OBVIOUS
  <2>1. ForYou \/ Related
    BY AnswersAreRanked
  <2>2. visit'.cards \cap Passed(visit) = {}
    BY <2>1, CardsAre DEF FeedInv
  <2>3. visit.before \subseteq visit.viewed
    BY DEF Answers, RequestInv, BeforeIsViewed
  <2> QED
    BY <2>2, <2>3 DEF Passed
<1> QED
  BY <1>1, Invariance, Requests, PTL DEF FeedSpec, ForYouOmitsViewed

\* The smaller of two numbers.
LEMMA MinOfTwo ==
  ASSUME NEW a \in Nat, NEW b \in Nat
  PROVE  Min({a, b}) = IF a <= b THEN a ELSE b
<1>1. IsFiniteSet({a} \cup {b}) /\ {a} \cup {b} = {a, b}
  BY FS_Singleton, FS_AddElement
<1>2. {a, b} \in SUBSET Int /\ {a, b} # {}
  OBVIOUS
<1>3. Min({a, b}) \in {a, b} /\ \A x \in {a, b} : Min({a, b}) <= x
  BY <1>1, <1>2, MinIs
<1> QED
  BY <1>3

\* When all that fit are candidates, what is offered is all that fits and is not
\* to be left out.
LEMMA OfferedAreFitting ==
  ASSUME BrowseTypeOK, Cardinality(Fitting) <= CandidateLimit
  PROVE  Cardinality(Offered) = Cardinality(Fitting \ Passed(visit))
<1> DEFINE S == Fitting \ Passed(visit)
           f == [l \in S |-> KeyOf(l)]
<1>1. S \subseteq Listing /\ IsFiniteSet(S)
  BY BrowseAssumption, FS_Subset DEF Fitting
<1>2. Candidates = {KeyOf(l) : l \in Fitting}
  BY CandidatesAre
<1>3. \A l \in Fitting : KeyOf(l).id = l
  BY KeyOfListing DEF Fitting
<1>4. Offered = {f[l] : l \in S}
  BY <1>2, <1>3 DEF Offered
<1>5. \A l, m \in S : f[l] = f[m] => l = m
  BY <1>3
<1> HIDE DEF f, S
<1>6. Cardinality(Offered) = Cardinality(S)
  BY <1>1, <1>4, <1>5, Values
<1> QED
  BY <1>6 DEF S

\* A section has its cards, or all that fits and is not to be left out, for any
\* limits, as long as all that fit are candidates (handlers/listings.go:569-603, 658-683).
THEOREM SectionsFill == FeedSpec => SectionsAreFull
<1> DEFINE Fills == Answers /\ Cardinality(Fitting) <= CandidateLimit
             => Cardinality(visit'.cards) = Min({Cards, Cardinality(Fitting \ Passed(visit))})
<1>1. FeedInv /\ RequestInv /\ [FeedNext]_feedVars => [Fills]_feedVars
  <2> SUFFICES ASSUME FeedInv, RequestInv, [FeedNext]_feedVars, Answers,
                      Cardinality(Fitting) <= CandidateLimit
               PROVE  Cardinality(visit'.cards)
                        = Min({Cards, Cardinality(Fitting \ Passed(visit))})
    OBVIOUS
  <2>1. ForYou \/ Related
    BY AnswersAreRanked
  <2>2. PICK R : IsOrder(R, Offered) /\ visit'.cards = {k.id : k \in Cut(Offered, R)}
    BY <2>1, CardsAre DEF FeedInv
  <2>3. Cards \in Nat
    BY FeedAssumption
  <2>4. /\ Cut(Offered, R) \in SUBSET Offered
        /\ \A k \in Offered : k \in Cut(Offered, R)
                               <=> Cardinality({j \in Offered : <<j, k>> \in R}) < Cards
    BY DEF Cut
  <2>5. /\ IsFiniteSet(Cut(Offered, R)) /\ Cardinality(Cut(Offered, R)) \in Nat
        /\ Cardinality(Offered) \in Nat
        /\ Cardinality(Cut(Offered, R)) <= Cards
        /\ Cardinality(Cut(Offered, R)) < Cards => Cut(Offered, R) = Offered
        /\ Cardinality(Offered) <= Cards => Cut(Offered, R) = Offered
    BY <2>2, <2>3, <2>4, FirstOf
  <2>6. Cardinality(Cut(Offered, R)) = Min({Cards, Cardinality(Offered)})
    BY <2>3, <2>5, MinOfTwo
  <2>7. Cardinality(visit'.cards) = Cardinality(Cut(Offered, R))
    <3> DEFINE id == [k \in Offered |-> k.id]
    <3>1. \A j, k \in Cut(Offered, R) : id[j] = id[k] => j = k
      BY <2>4, CandidatesAre DEF Offered, Keys, FeedInv
    <3>2. visit'.cards = {id[k] : k \in Cut(Offered, R)}
      BY <2>2, <2>4
    <3> HIDE DEF id
    <3> QED
      BY <2>5, <3>1, <3>2, Values
  <2>8. Cardinality(Offered) = Cardinality(Fitting \ Passed(visit))
    BY OfferedAreFitting DEF FeedInv
  <2> QED
    BY <2>6, <2>7, <2>8
<1> QED
  BY <1>1, Invariance, Requests, PTL DEF FeedSpec, SectionsAreFull
=============================================================================
