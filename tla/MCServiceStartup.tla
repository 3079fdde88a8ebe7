-------------------------- MODULE MCServiceStartup --------------------------
(***************************************************************************)
(* ServiceStartup for TLC: two runners of the newest release and one of    *)
(* the release before.                                                     *)
(***************************************************************************)
EXTENDS ServiceStartup

CONSTANTS m1, m2, m3

TwoReleases == [i \in Runner |-> IF i = m1 THEN 1 ELSE 2]
=============================================================================
