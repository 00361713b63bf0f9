------------------------- MODULE MCTransferManager -------------------------
(***************************************************************************)
(* The instances of TransferManager that TLC checks.                       *)
(***************************************************************************)
EXTENDS TransferManager

CONSTANTS i1, i2, i3, o1, t1

One     == {t1}
OneIn   == {i1}
ThreeIn == {i1, i2, i3}
OneOut  == {o1}
=============================================================================
