--------------------------- MODULE MCRequestLimits ---------------------------
(***************************************************************************)
(* RequestLimits for TLC.                                                  *)
(***************************************************************************)
EXTENDS RequestLimits

CONSTANTS e1, e2, s1, s2, c1, c2
================================================================================
