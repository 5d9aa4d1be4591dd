------------------------------ MODULE MCChoking ------------------------------
(* Instances of Choking for TLC. *)
EXTENDS Choking

ThreeIds == 0 .. 2

=============================================================================
