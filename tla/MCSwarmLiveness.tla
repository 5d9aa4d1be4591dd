--------------------------- MODULE MCSwarmLiveness ---------------------------
(* Instances of SwarmLiveness for TLC. *)
EXTENDS SwarmLiveness

TwoPieces == 0 .. 1
OnePiece == {0}
=============================================================================
