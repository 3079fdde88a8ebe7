------------------------- MODULE MCListingDevStores -------------------------
(***************************************************************************)
(* ListingDevStores for TLC.                                               *)
(***************************************************************************)
EXTENDS ListingDevStores, TLC

Interchangeable == Permutations(Slot) \cup Permutations(Report)
=============================================================================
