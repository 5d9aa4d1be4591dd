-------------------------------- MODULE MCResume --------------------------------
(* Three files, the second empty; the first piece lies in the first and the  *)
(* third, the second piece is shorter.                                       *)
EXTENDS Resume, TLC

MCLengths == <<1, 0, 3>>
MCEnds == (0 :> 0) @@ (1 :> 1) @@ (2 :> 1) @@ (3 :> 4)
=============================================================================
