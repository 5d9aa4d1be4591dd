----------------------------- MODULE PiecePicker -----------------------------
(* The data the engine shares between its peers to decide who fetches what:  *)
(* PiecePicker (bt/src/picker.rs) and Availability (bt/src/pieces.rs), as    *)
(* operators on                                                              *)
(*   active       \in [Pieces -> Nat]  jobs running per piece; the code's    *)
(*                                     map has a key iff the count is > 0    *)
(*   availability \in [Pieces -> Nat]  connected peers that have the piece   *)
(* A Bitfield is the set of the pieces whose bit is set.                     *)
EXTENDS Integers, FiniteSets

CONSTANTS
    Pieces,         \* piece indices, 0 .. total - 1 in the code
    EndgameDup      \* ENDGAME_DUP: most jobs one piece may have

ASSUME PiecesAssumption == Pieces \subseteq Nat /\ IsFiniteSet(Pieces)
ASSUME EndgameDupAssumption == EndgameDup \in Nat \ {0}

-----------------------------------------------------------------------------
(* min_by_key(|index| (availability.count(index), index)): the only member   *)
(* of S that no other member precedes, or nothing when S is empty.           *)
Rarest(S, availability) ==
    {p \in S : \A q \in S : \/ availability[p] < availability[q]
                            \/ availability[p] = availability[q] /\ p <= q}

LeastShared(S, active) == {p \in S : \A q \in S : active[p] <= active[q]}

\* mutant: a piece somebody fetches already is never offered again
PickedWithoutEndgame(ours, theirs, availability, active) ==
    Rarest({p \in theirs \ ours : active[p] = 0}, availability)

\* mutant: the cap is compared with <= instead of <
PickedOverCap(ours, theirs, availability, active) ==
    LET candidates == theirs \ ours
        fresh  == {p \in candidates : active[p] = 0}
        shared == {p \in candidates : active[p] <= EndgameDup}
    IN  IF fresh # {} THEN Rarest(fresh, availability)
                      ELSE Rarest(LeastShared(shared, active), availability)

(* PiecePicker::pick: the set of the piece chosen, empty for None.           *)
Picked(ours, theirs, availability, active) ==
    LET candidates == theirs \ ours
        fresh  == {p \in candidates : active[p] = 0}
        shared == {p \in candidates : active[p] < EndgameDup}
    IN  IF fresh # {} THEN Rarest(fresh, availability)
                      ELSE Rarest(LeastShared(shared, active), availability)

(* saturating_sub *)
Less(n, k) == IF n >= k THEN n - k ELSE 0

Started(active, p) == [active EXCEPT ![p] = @ + 1]

(* PiecePicker::complete: the piece's key leaves the map whatever its count. *)
Completed(active, p) == [active EXCEPT ![p] = 0]

(* Availability::add_have and add_bitfield after remove_bitfield(old).       *)
AddHave(availability, p) == [availability EXCEPT ![p] = @ + 1]

\* mutant: a second Bitfield is added without taking the first one back
BitfieldAdded(availability, old, new) ==
    [p \in Pieces |-> availability[p] + (IF p \in new THEN 1 ELSE 0)]

ReplaceBitfield(availability, old, new) ==
    [p \in Pieces |->
        Less(availability[p], IF p \in old THEN 1 ELSE 0)
            + (IF p \in new THEN 1 ELSE 0)]
=============================================================================
