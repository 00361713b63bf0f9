--------------------------- MODULE MCRelayPairing ---------------------------
(***************************************************************************)
(* The instance of RelayPairing that TLC checks: two devices, either of    *)
(* which may begin a pairing, or both.                                     *)
(***************************************************************************)
EXTENDS RelayPairing, TLC

CONSTANTS d1, d2

Two == {d1, d2}
Swap == Permutations(Two)
=============================================================================
