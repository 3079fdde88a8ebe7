--------------------------- MODULE MCSellerPhotos ---------------------------
(* SellerPhotos on small sets; slots and object keys are interchangeable.  *)
EXTENDS SellerPhotos, TLC

Interchangeable == Permutations(Slot) \cup Permutations(Key)
=============================================================================
