--------------------------- MODULE MCAuthSessions ---------------------------
(* AuthRefinement on small sets; slots are interchangeable, and so are the *)
(* accounts outside the staff allowlist.                                   *)
EXTENDS AuthRefinement, AuthDevStores, TLC

Interchangeable == Permutations(Slot) \cup Permutations(User \ StaffUser)
=============================================================================
