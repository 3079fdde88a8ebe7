--------------------------- MODULE MCDiscoveryFeed ---------------------------
(***************************************************************************)
(* DiscoveryFeed, and PublicBrowse with it, for TLC.                       *)
(***************************************************************************)
EXTENDS DiscoveryFeed

TwoCities == [l \in Listing |-> IF l = 3 THEN 2 ELSE 1]

TwoOrThreeBeds == [l \in Listing |-> IF l = 2 THEN 3 ELSE 2]

\* Everything, or the budget listings of the first city.
BrowseFilters == {[city |-> 0, prices |-> Prices], [city |-> 1, prices |-> {10}]}
================================================================================
