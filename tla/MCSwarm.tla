------------------------------- MODULE MCSwarm -------------------------------
(* Instances of Swarm for TLC. *)
EXTENDS Swarm, TLC

TwoPieces == 0 .. 1
OnePiece == {0}

Interchangeable == Permutations(Addrs)
=============================================================================
