------------------------------ MODULE Downloader ------------------------------
(* What download() (bt/src/engine.rs) promises its caller, with no peer, no  *)
(* message and no connection in sight: pieces are verified into `ours` and   *)
(* onto the disk one at a time, something outside may damage the files, and  *)
(* the answer is Ok only after every piece was read back and verified.       *)
EXTENDS Integers, FiniteSets

CONSTANT Pieces

VARIABLES
    ours,           \* pieces the engine believes it has
    disk,           \* disk[p]: piece p on disk hashes to its SHA-1
    result          \* "running", or what download() returned

vars == <<ours, disk, result>>

Damaged == {p \in Pieces : ~disk[p]}

Init ==
    /\ disk \in [Pieces -> BOOLEAN]
    /\ ours \in SUBSET (Pieces \ Damaged)
    /\ result = "running"

Fetch(p) ==
    /\ result = "running" /\ p \notin ours
    /\ ours' = ours \cup {p}
    /\ disk' = [disk EXCEPT ![p] = TRUE]
    /\ UNCHANGED result

Damage(p) ==
    /\ result = "running" /\ disk[p]
    /\ disk' = [disk EXCEPT ![p] = FALSE]
    /\ UNCHANGED <<ours, result>>

Recheck ==
    /\ result = "running" /\ ours = Pieces /\ Damaged # {}
    /\ ours' = ours \ Damaged
    /\ UNCHANGED <<disk, result>>

Succeed ==
    /\ result = "running" /\ ours = Pieces /\ Damaged = {}
    /\ result' = "ok"
    /\ UNCHANGED <<ours, disk>>

(* Two last checks that fail may be followed by a new run; a third is not.  *)
GiveUp ==
    /\ result = "running" /\ ours = Pieces /\ Damaged # {}
    /\ ours' = ours \ Damaged
    /\ result' = "incomplete"
    /\ UNCHANGED disk

(* An error on the way keeps what was verified: only files of pieces outside *)
(* `ours` may be left half written.                                          *)
Fail ==
    /\ result = "running" /\ ours # Pieces
    /\ result' \in {"nopeers", "io"}
    /\ disk' \in [Pieces -> BOOLEAN]
    /\ \A p \in ours : disk'[p] = disk[p]
    /\ UNCHANGED ours

Next ==
    \/ \E p \in Pieces : Fetch(p) \/ Damage(p)
    \/ Recheck
    \/ Succeed
    \/ GiveUp
    \/ Fail

Spec == Init /\ [][Next]_vars
=============================================================================
