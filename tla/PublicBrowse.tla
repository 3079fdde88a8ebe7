---------------------------- MODULE PublicBrowse ----------------------------
(***************************************************************************)
(* Public browse: a visitor walks the pages of GET /listings with a keyset *)
(* cursor while sellers publish, withdraw and re-price the listings.       *)
(* services/listings/internal/listings/pagination.go, the ListPublished of *)
(* each store, and handlers/listings.go.                                   *)
(*                                                                         *)
(* Data.  A listing is its id, a number in the order of the UUIDs.  Of its *)
(* columns the sort keys change (published_at, price_centavos); its city   *)
(* stands for every column a filter names that does not.  All three stores *)
(* answer a page from one snapshot in the same order: one operator stands  *)
(* for them.                                                               *)
(***************************************************************************)
EXTENDS Integers, FiniteSets

CONSTANTS Listing,     \* listing ids
          Prices,      \* price_centavos sellers ask
          CityOf,      \* the city of each listing, a number in their order
          AnyCity,     \* the filter that names no city
          Filters,     \* filters visitors set
          PageSize,    \* the limit of the visitor's pages (20 unless it asks)
          MaxClock     \* bound of the clock

Cities == {CityOf[l] : l \in Listing}

ASSUME BrowseAssumption ==
  /\ Listing \subseteq Nat /\ IsFiniteSet(Listing)
  /\ Prices \subseteq Nat \ {0}
  /\ PageSize \in Nat \ {0}
  /\ MaxClock \in Nat \ {0}
  /\ CityOf \in [Listing -> Nat] /\ AnyCity \notin Cities
  /\ Filters \subseteq [city : Cities \cup {AnyCity}, prices : SUBSET Prices]

VARIABLES row,      \* public state of each listing
          clock,    \* the time
          visit     \* the visitor

browseVars == <<row, clock, visit>>

Sort == {"newest", "price_asc", "price_desc"}

Row == [public : BOOLEAN, at : 0..MaxClock, price : Prices]

Key == [id : Listing, at : 0..MaxClock, price : Prices]

KeyOf(l) == [id |-> l, at |-> row[l].at, price |-> row[l].price]

\* A walk: the order and filter it keeps, the cursor of its last page, how
\* often it has shown each listing (2 is more than once) and which of them
\* have changed meanwhile.
Idle == [at |-> "idle"]

Walk == [at : {"walking", "ended"}, sort : Sort, filter : Filters,
         cursor : {{}} \cup {{k} : k \in Key},
         shown : [Listing -> 0..2], moved : SUBSET Listing]

Walks == visit.at \in {"walking", "ended"}

BrowseInit == /\ row \in [Listing -> [public : {FALSE}, at : {0}, price : Prices]]
              /\ clock = 1
              /\ visit = Idle

--------------------------------------------------------------------------------
(***************************************************************************)
(* The order and the cursor.                                               *)
(***************************************************************************)

\* Fault: the ids do not break ties of the price.
AfterCursorByPrice(k, cursor, sort) ==
  CASE sort = "price_asc"  -> k.price > cursor.price
    [] sort = "price_desc" -> k.price < cursor.price
    [] sort = "newest"     -> k.at < cursor.at

\* Fault: a page starts with the last listing of the one before.
AfterCursorInclusive(k, cursor, sort) ==
  CASE sort = "price_asc"  -> \/ k.price > cursor.price
                              \/ k.price = cursor.price /\ k.id >= cursor.id
    [] sort = "price_desc" -> \/ k.price < cursor.price
                              \/ k.price = cursor.price /\ k.id <= cursor.id
    [] sort = "newest"     -> \/ k.at < cursor.at
                              \/ k.at = cursor.at /\ k.id <= cursor.id

AfterCursor(k, cursor, sort) ==
  CASE sort = "price_asc"  -> \/ k.price > cursor.price
                              \/ k.price = cursor.price /\ k.id > cursor.id
    [] sort = "price_desc" -> \/ k.price < cursor.price
                              \/ k.price = cursor.price /\ k.id < cursor.id
    [] sort = "newest"     -> \/ k.at < cursor.at
                              \/ k.at = cursor.at /\ k.id < cursor.id

BeforeBrowse(a, b, sort) ==
  CASE sort = "price_asc"  -> \/ a.price < b.price
                              \/ a.price = b.price /\ a.id < b.id
    [] sort = "price_desc" -> \/ a.price > b.price
                              \/ a.price = b.price /\ a.id > b.id
    [] sort = "newest"     -> \/ a.at > b.at
                              \/ a.at = b.at /\ a.id > b.id

Matches(l, filter) == /\ filter.city \in {AnyCity, CityOf[l]}
                      /\ row[l].price \in filter.prices

\* The first of a set in the order of the sort.
First(S, sort, limit) ==
  {k \in S : Cardinality({j \in S : BeforeBrowse(j, k, sort)}) < limit}

ListPublished(filter, sort, cursor, limit) ==
  LET found == {KeyOf(l) : l \in {m \in Listing : row[m].public /\ Matches(m, filter)}}
  IN  First({k \in found : \A c \in cursor : AfterCursor(k, c, sort)}, sort, limit)

Last(page, sort) == {k \in page : \A j \in page : j = k \/ BeforeBrowse(j, k, sort)}

\* A cursor names the order it was made in, and another order refuses it.
DecodesCursor(cursor, made, sort) == cursor = {} \/ sort = made

--------------------------------------------------------------------------------
(***************************************************************************)
(* The sellers (ListingLifecycle has their handlers in full).              *)
(***************************************************************************)

\* What a walk must know of a change of l.
Disturbed(l) == IF Walks THEN [visit EXCEPT !.moved = @ \cup {l}] ELSE visit

Tick == /\ clock < MaxClock
        /\ clock' = clock + 1
        /\ UNCHANGED <<row, visit>>

\* A publish saves the row its handler has read, with the time it took then:
\* the price and the time are those of any moment up to now.
Publish(l, at, price) == /\ ~row[l].public
                         /\ at <= clock
                         /\ row' = [row EXCEPT ![l] = [public |-> TRUE, at |-> at, price |-> price]]
                         /\ visit' = Disturbed(l)
                         /\ UNCHANGED clock

\* Unpublish, close, archive, or hidden by staff.
Withdraw(l) == /\ row[l].public
               /\ row' = [row EXCEPT ![l].public = FALSE, ![l].at = 0]
               /\ visit' = Disturbed(l)
               /\ UNCHANGED clock

\* A PATCH of the price, public or not.
ChangePrice(l, p) == /\ p # row[l].price
                     /\ row' = [row EXCEPT ![l].price = p]
                     /\ visit' = Disturbed(l)
                     /\ UNCHANGED clock

Sellers == \/ \E l \in Listing : Withdraw(l)
           \/ \E l \in Listing, p \in Prices : ChangePrice(l, p)
           \/ \E l \in Listing, t \in 1..MaxClock, p \in Prices : Publish(l, t, p)

--------------------------------------------------------------------------------
(***************************************************************************)
(* The visitor.                                                            *)
(***************************************************************************)

\* The answer to a page: a full page has a cursor, of its last listing.
Shown(walk, page, sort) ==
  [walk EXCEPT !.at = IF Cardinality(page) = PageSize THEN "walking" ELSE "ended",
               !.cursor = IF Cardinality(page) = PageSize THEN Last(page, sort) ELSE {},
               !.shown = [l \in Listing |-> IF l \in {k.id : k \in page} /\ @[l] < 2
                                            THEN @[l] + 1 ELSE @[l]]]

StartWalk(sort, filter) ==
  /\ visit.at \in {"idle", "ended"}
  /\ LET walk == [at |-> "walking", sort |-> sort, filter |-> filter, cursor |-> {},
                  shown |-> [l \in Listing |-> 0], moved |-> {}]
     IN  visit' = Shown(walk, ListPublished(filter, sort, {}, PageSize), sort)
  /\ UNCHANGED <<row, clock>>

NextPage(sort) ==
  /\ visit.at = "walking"
  /\ DecodesCursor(visit.cursor, visit.sort, sort)
  /\ visit' = Shown(visit, ListPublished(visit.filter, sort, visit.cursor, PageSize), sort)
  /\ UNCHANGED <<row, clock>>

BrowseNext == \/ Tick \/ Sellers
              \/ \E sort \in Sort : NextPage(sort)
              \/ \E sort \in Sort, filter \in Filters : StartWalk(sort, filter)

\* A visitor goes on to the next page.
BrowseFairness == WF_browseVars(visit.at = "walking" /\ NextPage(visit.sort))

BrowseSpec == BrowseInit /\ [][BrowseNext]_browseVars /\ BrowseFairness

--------------------------------------------------------------------------------
(***************************************************************************)
(* What holds.                                                             *)
(***************************************************************************)

BrowseTypeOK == /\ row \in [Listing -> Row]
                /\ clock \in 1..MaxClock
                /\ Walks => visit \in Walk

\* "makes pagination stable when listings are published or prices change
\* between requests" (model.go:126): a listing nobody touched during a walk is
\* shown exactly once by the end of it and never twice before, whatever the
\* others do around it, on a tie with it or not.
UntouchedShownOnce ==
  Walks => \A l \in Listing \ visit.moved :
             /\ visit.shown[l] <= 1
             /\ visit.at = "ended" /\ row[l].public /\ Matches(l, visit.filter)
                  => visit.shown[l] = 1

\* The keys a walk may still come to.
Ahead(walk) == {k \in Key : \A c \in walk.cursor : AfterCursor(k, c, walk.sort)}

\* However the listings move under it, a walk never turns back, and each
\* further page leaves less ahead: a cursor is passed on that the page after it
\* excludes, in all three orders (pagination.go).
PagesMoveOn ==
  [][visit.at = "walking" /\ visit'.at = "walking" =>
       /\ Ahead(visit') \subseteq Ahead(visit)
       /\ (\E sort \in Sort : NextPage(sort)) => Ahead(visit') # Ahead(visit)]_browseVars

\* A walk comes to its end: there are finitely many keys to be ahead of it.
WalksEnd == visit.at = "walking" ~> visit.at = "ended"

\* Not so: docs/DISCOVERY.md:12: "A page can no longer repeat when listings are added
\* between requests".  That holds of listings added; a listing whose price
\* moves past the cursor, or that is published again with the older time of a
\* handler that was slow, is shown again.
PagesNeverRepeat == Walks => \A l \in Listing : visit.shown[l] <= 1

================================================================================
