---------------------------- MODULE DiscoveryFeed ----------------------------
(***************************************************************************)
(* What GET /discover and GET /listings/{id}/related offer a visitor, next *)
(* to the sellers' writes and the visitor's own interactions.              *)
(* handlers/listings.go (Discover, Related), listings/discovery_profile.go *)
(* and the profile statement of listings/discovery_aggregate.go.           *)
(*                                                                         *)
(* A request is several statements, each its own snapshot: the profile,    *)
(* the listings already viewed, the candidates.  The sections "new", "city"*)
(* and "type" are first pages of PublicBrowse and left out.                *)
(*                                                                         *)
(* Data.  views counts the meaningful interactions of the viewer that are  *)
(* younger than thirty days.  The city stands for city and type together,  *)
(* which every candidate shares with the profile: their points order       *)
(* nothing.                                                                *)
(***************************************************************************)
EXTENDS PublicBrowse, FiniteSetsExt

CONSTANTS BedsOf,          \* bedrooms of each listing
          CandidateLimit,  \* newest candidates that are ranked (24)
          Cards,           \* cards a section shows (6)
          ViewedLimit,     \* viewed listings that are read (200)
          ScoreUnit,       \* centavos that cost a point (1,000,000)
          Fresh,           \* how long a listing is fresh (14 days)
          MaxViews,        \* bound: interactions on record
          Errands          \* what the visitor has come for

ASSUME FeedAssumption ==
  /\ BedsOf \in [Listing -> Nat]
  /\ {CandidateLimit, Cards, ViewedLimit, ScoreUnit} \subseteq Nat \ {0}
  /\ {Fresh, MaxViews} \subseteq Nat
  /\ Errands \subseteq {"browse", "discover"}

VARIABLES store,    \* "postgres", or "dev": SQLite and memory
          errand,   \* what the visitor has come for
          views,    \* recent interactions with each listing
          profile   \* the viewer's row of discovery_profiles, {} when there is none

feedVars == <<browseVars, store, errand, views, profile>>

NoPrice == 0

Profile == [city : Cities \cup {AnyCity}, price : Prices \cup {NoPrice}, beds : Nat]

FeedInit == /\ BrowseInit
            /\ store \in {"postgres", "dev"}
            /\ errand \in Errands
            /\ views = [l \in Listing |-> 0]
            /\ profile = {}

Unchanged == UNCHANGED <<store, errand>>

InRequest == visit.at \in {"asked", "profiled", "viewing", "sourced"}

--------------------------------------------------------------------------------
(***************************************************************************)
(* The profile: the most common city, the median price and bedrooms of the *)
(* interactions.                                                           *)
(***************************************************************************)

\* Those with the listings of S, numbered for each.
Interactions(S) == UNION {{l} \X (1..views[l]) : l \in S}

Count(S) == Cardinality(Interactions(S))

\* Of the cities seen most often, the first.
MostCommon(S) ==
  LET times(c) == Count({l \in S : CityOf[l] = c})
      seen == {CityOf[l] : l \in {m \in S : views[m] > 0}}
  IN  Min({c \in seen : \A d \in seen : times(d) <= times(c)})

\* The k-th smallest value among the interactions.
Smallest(k, S, value) ==
  Min({value[l] : l \in {m \in S : Count({n \in S : value[n] <= value[m]}) >= k}})

Asked == [l \in Listing |-> row[l].price]

ProfileAt(k, S) == [city |-> MostCommon(S), price |-> Smallest(k, S, Asked),
                    beds |-> Smallest(k, S, BedsOf)]

\* percentile_disc(0.5): the lower of two middle values.
PostgresMedian(n) == (n + 1) \div 2

\* values[len(values)/2]: the upper one.
DevMedian(n) == n \div 2 + 1

\* An aggregated viewer without a recent interaction has an empty profile.
PostgresProfile == IF Count(Listing) = 0 THEN [city |-> AnyCity, price |-> NoPrice, beds |-> 0]
                   ELSE ProfileAt(PostgresMedian(Count(Listing)), Listing)

\* The development stores derive the profile when asked, from what is still
\* public; without any there is none.
DevProfile == LET S == {l \in Listing : row[l].public}
              IN  IF Count(S) = 0 THEN {} ELSE {ProfileAt(DevMedian(Count(S)), S)}

GetDiscoveryProfile == IF store = "postgres" THEN profile ELSE DevProfile

--------------------------------------------------------------------------------
(***************************************************************************)
(* The viewer's interactions, and the worker.                              *)
(***************************************************************************)

RecordDiscoveryEvent(l) == /\ errand = "discover"
                           /\ row[l].public
                           /\ Count(Listing) < MaxViews
                           /\ views' = [views EXCEPT ![l] = @ + 1]
                           /\ UNCHANGED <<browseVars, profile>> /\ Unchanged

\* An interaction turns thirty days old.
Expire(l) == /\ views[l] > 0
             /\ views' = [views EXCEPT ![l] = @ - 1]
             /\ visit' = IF views[l] = 1 /\ InRequest
                         THEN [visit EXCEPT !.before = @ \ {l}] ELSE visit
             /\ UNCHANGED <<row, clock, profile>> /\ Unchanged

\* The worker aggregates an event of the viewer, an impression perhaps.
RefreshProfile == /\ store = "postgres" /\ errand = "discover"
                  /\ profile' = {PostgresProfile}
                  /\ UNCHANGED <<browseVars, views>> /\ Unchanged

--------------------------------------------------------------------------------
(***************************************************************************)
(* GET /discover of a viewer the proxy vouches for.                        *)
(***************************************************************************)

\* A request: what it has read of the profile, of the viewed listings or of the
\* listing it is about; before is what was viewed when it came.
Asking == [at : {"asked", "profiled", "viewing", "sourced"}, profile : SUBSET Profile,
           source : SUBSET Key, viewed : SUBSET Listing, before : SUBSET Listing]

NewRequest(at) == [at |-> at, profile |-> {}, source |-> {}, viewed |-> {}, before |-> {}]

\* What is left of it: the cards it was answered.
Answered(cards) == [at |-> "answered", cards |-> cards]

Viewed == {l \in Listing : views[l] > 0}

\* Fault: the listings viewed last, not all of them.
ViewedTwice == {l \in Viewed : views[l] > 1}

\* ORDER BY listing_id LIMIT 200; the memory store's has no limit.
ListViewedListingIDs == {l \in Viewed : Cardinality({m \in Viewed : m < l}) < ViewedLimit}

\* 70 to 130 percent of the profile's price, when it has one.
Budget(p) == IF p = NoPrice THEN Prices
             ELSE {q \in Prices : q >= (p * 70) \div 100 /\ q <= (p * 130) \div 100}

Distance(p, q) == IF NoPrice \in {p, q} THEN 0
                  ELSE (IF p > q THEN p - q ELSE q - p) \div ScoreUnit

RelatedScore(k, price, beds) ==
  (IF beds = BedsOf[k.id] THEN 20 ELSE 0) - Distance(k.price, price)

PersonalizedScore(k, p) ==
  RelatedScore(k, p.price, p.beds) + (IF k.at > clock - Fresh THEN 10 ELSE 0)

\* The best of a section: Better(j, k) says that j goes before k.
Top(S, Better(_, _)) == {k.id : k \in {c \in S : Cardinality({j \in S : Better(j, c)}) < Cards}}

Ask == /\ errand = "discover"
       /\ ~InRequest
       /\ visit' = [NewRequest("asked") EXCEPT !.before = Viewed]
       /\ UNCHANGED <<row, clock, views, profile>> /\ Unchanged

\* Without a profile there is no such section.
ReadProfile == /\ visit.at = "asked"
               /\ visit' = IF GetDiscoveryProfile = {} THEN Answered({})
                           ELSE [visit EXCEPT !.at = "profiled", !.profile = GetDiscoveryProfile]
               /\ UNCHANGED <<row, clock, views, profile>> /\ Unchanged

ReadViewed == /\ visit.at = "profiled"
              /\ visit' = [visit EXCEPT !.at = "viewing", !.viewed = ListViewedListingIDs]
              /\ UNCHANGED <<row, clock, views, profile>> /\ Unchanged

\* What the request looks for.
Wanted(v) == CASE v.source # {}  -> [city |-> CityOf[(CHOOSE k \in v.source : TRUE).id],
                                     prices |-> Prices]
               [] v.profile # {} -> LET p == CHOOSE p \in v.profile : TRUE
                                    IN  [city |-> p.city, prices |-> Budget(p.price)]

Passed(v) == v.viewed \cup {k.id : k \in v.source}

\* Fault: no more candidates than cards.
CandidatesForCards == ListPublished(Wanted(visit), "newest", {}, Cards)

Candidates == ListPublished(Wanted(visit), "newest", {}, CandidateLimit)

\* The candidates less the listings to leave out, the best of them.
Pick(S, Better(_, _)) == Top({k \in S : k.id \notin Passed(visit)}, Better)

Answer(cards) == /\ visit' = Answered(cards)
                 /\ UNCHANGED <<row, clock, views, profile>> /\ Unchanged

\* addPersonalizedDiscovery: by score, then id.
ForYou ==
  /\ visit.at = "viewing"
  /\ \E p \in visit.profile :
       LET Better(j, k) == \/ PersonalizedScore(j, p) > PersonalizedScore(k, p)
                           \/ PersonalizedScore(j, p) = PersonalizedScore(k, p) /\ j.id < k.id
       IN  Answer(Pick(Candidates, Better))

--------------------------------------------------------------------------------
(***************************************************************************)
(* GET /listings/{id}/related.                                             *)
(***************************************************************************)

ReadSource(l) == /\ errand = "discover"
                 /\ ~InRequest
                 /\ row[l].public
                 /\ visit' = [NewRequest("sourced") EXCEPT !.source = {KeyOf(l)}]
                 /\ UNCHANGED <<row, clock, views, profile>> /\ Unchanged

\* By score; a stable sort leaves the newest first among equals.
Related ==
  /\ visit.at = "sourced"
  /\ \E s \in visit.source :
       LET Score(k) == RelatedScore(k, s.price, BedsOf[s.id])
           Better(j, k) == \/ Score(j) > Score(k)
                           \/ Score(j) = Score(k) /\ BeforeBrowse(j, k, "newest")
       IN  Answer(Pick(Candidates, Better))

--------------------------------------------------------------------------------
\* Time matters to the visitor who browses.
Table == /\ Sellers \/ (errand = "browse" /\ Tick)
         /\ UNCHANGED <<views, profile>> /\ Unchanged

Browse == /\ errand = "browse"
          /\ \/ \E sort \in Sort : NextPage(sort)
             \/ \E sort \in Sort, filter \in Filters : StartWalk(sort, filter)
          /\ UNCHANGED <<views, profile>> /\ Unchanged

GoOn == visit.at = "walking" /\ NextPage(visit.sort) /\ UNCHANGED <<views, profile>> /\ Unchanged

FeedNext == \/ Table \/ Browse
            \/ RefreshProfile \/ Ask \/ ReadProfile \/ ReadViewed \/ ForYou \/ Related
            \/ \E l \in Listing : RecordDiscoveryEvent(l) \/ Expire(l) \/ ReadSource(l)

\* A visitor goes on to the next page.
FeedSpec == FeedInit /\ [][FeedNext]_feedVars /\ WF_feedVars(GoOn)

--------------------------------------------------------------------------------
(***************************************************************************)
(* What holds.                                                             *)
(***************************************************************************)

FeedTypeOK == /\ BrowseTypeOK
              /\ views \in [Listing -> 0..MaxViews]
              /\ profile \subseteq Profile /\ Cardinality(profile) <= 1
              /\ InRequest => visit \in Asking
              /\ visit.at = "answered" => visit.cards \subseteq Listing

\* A section is being answered from its candidates.
Answers == visit.at \in {"viewing", "sourced"} /\ visit'.at = "answered"

Fitting == {l \in Listing : row[l].public /\ Matches(l, Wanted(visit))}

\* docs/DISCOVERY.md:48: the personalized section "removes recently viewed
\* listings".  No card is a listing viewed before the request came, and viewed
\* recently still, whatever the profile it goes by was derived from, as long
\* as the list of viewed listings is not cut off at its limit.
ForYouOmitsViewed ==
  [][Answers /\ Cardinality(visit.viewed) < ViewedLimit
       => visit'.cards \cap visit.before = {}]_feedVars

\* A section is as long as it can be: it has its six cards, or every listing
\* that fits it and is not to be left out, as long as all that fit are among
\* the newest 24.
SectionsAreFull ==
  [][Answers /\ Cardinality(Fitting) <= CandidateLimit
       => Cardinality(visit'.cards) = Min({Cards, Cardinality(Fitting \ Passed(visit))})]_feedVars

\* It does not hold that there is a card whenever a listing fits: with the 24
\* newest candidates all viewed, "For you" is left out.
FittingListingsAreFound ==
  [][Answers /\ visit'.cards = {} => Fitting \subseteq Passed(visit)]_feedVars
================================================================================
