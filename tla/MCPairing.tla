----------------------------- MODULE MCPairing -----------------------------
(***************************************************************************)
(* The instance of Pairing that TLC checks: three devices and two          *)
(* connections, which may be between the same two.                         *)
(***************************************************************************)
EXTENDS Pairing, TLC

CONSTANTS d1, d2, d3, c1, c2

ThreeDevices == {d1, d2, d3}
TwoConnections == {c1, c2}

\* d1 dials d2, and d2 dials d1 or d3 dials d2 as well.
Dial(x, y) == [from |-> x, to |-> y]
TwoDials ==
  {c1 :> Dial(d1, d2) @@ c2 :> second : second \in {Dial(d2, d1), Dial(d3, d2)}}
=============================================================================
