---------------------------- MODULE MCMobileCore ----------------------------
(***************************************************************************)
(* The instance of MobileCore that TLC checks: two threads besides the one *)
(* in the background.                                                      *)
(***************************************************************************)
EXTENDS MobileCore, TLC

CONSTANTS c1, c2, s1, s2, s3, s4

Two  == {c1, c2}
FourScanners == {s1, s2, s3, s4}
Swap == Permutations(Two)
=============================================================================
