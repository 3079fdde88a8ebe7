------------------------- MODULE MCListingLifecycle -------------------------
(***************************************************************************)
(* ListingLifecycle for TLC.                                               *)
(***************************************************************************)
EXTENDS ListingLifecycle, TLC

Interchangeable == Permutations(Slot) \cup Permutations(Report) \cup Permutations(Owner)
=============================================================================
