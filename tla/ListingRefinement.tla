-------------------------- MODULE ListingRefinement --------------------------
(***************************************************************************)
(* ListingLifecycle implements the promised status machine as long as      *)
(* requests do not overlap: one Slot.  Two slots are enough to break it    *)
(* (OnlyStaffRestore, ClosedNeverReopens).                                 *)
(***************************************************************************)
EXTENDS ListingLifecycle

Promised == INSTANCE StatusMachine WITH
  Time <- 0 .. MaxClock,
  status <- [l \in Listing |-> IF owner[l] = NoOwner THEN "none" ELSE row[l].status],
  since <- [l \in Listing |-> row[l].publishedAt],
  ready <- [l \in Listing |-> MayPublish(row[l], l)],
  decisions <- audit

\* Requests handled one at a time move a listing along the status machine of
\* README.md and MODERATION.md only: it is published when it is ready, leaves
\* "moderation_hidden" by a recorded staff decision or into the archive, and
\* is never made public with an older publish time than it had.
ImplementsStatusMachine == Promised!Spec
=============================================================================
