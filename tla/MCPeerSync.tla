----------------------------- MODULE MCPeerSync -----------------------------
(***************************************************************************)
(* The instances of PeerSync that TLC checks: two or three devices.        *)
(***************************************************************************)
EXTENDS PeerSync, TLC

CONSTANTS d1, d2, d3

Two   == {d1, d2}
Three == {d1, d2, d3}
SwapTwo   == Permutations(Two)
SwapThree == Permutations(Three)
=============================================================================
