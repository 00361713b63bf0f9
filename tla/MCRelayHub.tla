----------------------------- MODULE MCRelayHub -----------------------------
(***************************************************************************)
(* The instance of RelayHub that TLC checks: two devices and three         *)
(* connections, so that one of them connects a second time.                *)
(***************************************************************************)
EXTENDS RelayHub

CONSTANTS d1, d2

Two   == {d1, d2}
Three == 1..3
OneOfThem == {d2}
OneWay == {<<d1, d2>>}
=============================================================================
