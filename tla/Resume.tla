--------------------------------- MODULE Resume ---------------------------------
(* What survives between runs of btget: the content on disk and the resume   *)
(* file.  A run loads and verifies what the file claims, writes pieces,      *)
(* serves them, saves the file now and then, reads the whole content once    *)
(* more when it has it all, and saves or removes the file (download(),       *)
(* housekeeping(), finish_piece(), final_check() in bt/src/engine.rs,        *)
(* bt/src/resume.rs).  It may be killed at any moment, and another program   *)
(* may write to the files at any moment.  The resume file is named after the *)
(* torrent: torrents of one name share it, and the content files too.        *)
(* Swarm models how the pieces are fetched; all of this is one thread.       *)
EXTENDS Storage

CONSTANTS
    None,           \* no resume file
    Torn,           \* one that was truncated and not written
    MaxServed       \* MAX_SERVED_BLOCK

Saved(t, S) == [hash |-> t, have |-> S]
SavedFiles == {Saved(t, S) : t \in Torrents, S \in SUBSET Pieces}

ASSUME ValuesAssumption == {None, Torn} \cap SavedFiles = {} /\ MaxServed \in Nat

VARIABLES
    pc,         \* "off", "load": verifying the claims, "run", "write", "serve",
                \* "check": in final_check(), "save": in a save of run(), "last": of download()
    torrent,    \* the torrent of the run
    ours,       \* Engine.ours
    rechecks,   \* failed final checks of this run
    result,     \* of the last run: "none" as yet, "complete", "failed", "killed"
    file,       \* None, Torn or [hash, have]
    todo,       \* pieces that "load" or "check" have not read yet
    piece,      \* the piece that is read or written, NoPiece between two
    walk,       \* how far
    right,      \* what was read of it so far is right
    claimed,    \* what the file claimed when the run started: history
    damaged,    \* pieces damaged during the run and not rewritten since: history
    late        \* pieces damaged since the final check began: history

NoPiece == -1
io == <<todo, piece, walk, right>>
history == <<claimed, damaged, late>>
vars == <<disk, pc, torrent, ours, rechecks, result, file, io, history>>

Good == {i \in Pieces : Stored(torrent, i)}

\* no reading or writing is under way
AtRest == piece' = NoPiece /\ walk' = Walk(0, 0) /\ right' = TRUE

(* the end of a process: what it had in memory is gone *)
Exits(how) ==
    /\ pc' = "off" /\ result' = how
    /\ ours' = {} /\ rechecks' = 0 /\ todo' = {} /\ AtRest
    /\ claimed' = {} /\ damaged' = {} /\ late' = {}
    /\ UNCHANGED torrent

Init ==
    /\ disk = [p \in Places |-> Junk] /\ file = None
    /\ pc = "off" /\ torrent \in Torrents /\ ours = {} /\ rechecks = 0 /\ result = "none"
    /\ todo = {} /\ piece = NoPiece /\ walk = Walk(0, 0) /\ right = TRUE
    /\ claimed = {} /\ damaged = {} /\ late = {}

-----------------------------------------------------------------------------
(* resume::load(): a torn file does not decode *)
Load(t) ==
    IF file \in SavedFiles /\ file.hash = t THEN file.have ELSE {}

Start(t) ==
    /\ pc = "off" /\ pc' = "load"
    /\ torrent' = t /\ result' = "none"
    /\ claimed' = Load(t) /\ todo' = Load(t)
    /\ UNCHANGED <<disk, file, ours, rechecks, piece, walk, right, damaged, late>>

(* read_piece(), in download() and in final_check(), for one index after the *)
(* other                                                                     *)
BeginRead ==
    /\ pc \in {"load", "check"} /\ piece = NoPiece
    /\ \E i \in todo :
        /\ \A j \in todo : i <= j
        /\ piece' = i /\ walk' = Walk(Offset(i), PieceSize(i))
    /\ UNCHANGED <<disk, pc, torrent, ours, rechecks, result, file, todo, right, history>>

ReadFile ==
    /\ pc \in {"load", "check", "serve"} /\ piece # NoPiece /\ ~Over(walk)
    /\ right' = (right /\ Agrees(torrent, piece, walk))
    /\ walk' = Onward(walk)
    /\ UNCHANGED <<disk, pc, torrent, ours, rechecks, result, file, todo, piece, history>>

(* open(), seek() or read_exact() fails, which is no different from other    *)
(* damage: the piece cannot be read                                          *)
ReadFails ==
    /\ pc \in {"load", "check", "serve"} /\ piece # NoPiece /\ ~Over(walk)
    /\ right' = FALSE /\ walk' = [walk EXCEPT !.remaining = 0]
    /\ damaged' = damaged \cup {piece}
    /\ UNCHANGED <<disk, pc, torrent, ours, rechecks, result, file, todo, piece, claimed, late>>

\* mutant: the claims are believed
CountedBlindly(ok) == ours \cup {piece}
\* mutant: the last piece is left out
CountedButLast(ok) == IF ok /\ todo # {piece} THEN ours \cup {piece} ELSE ours
Counted(ok) == IF ok THEN ours \cup {piece} ELSE ours

Verified ==
    /\ pc = "load" /\ piece # NoPiece /\ Over(walk)
    /\ ours' = Counted(right)
    /\ todo' = todo \ {piece} /\ AtRest
    /\ UNCHANGED <<disk, pc, torrent, rechecks, result, file, history>>

Loaded ==
    /\ pc = "load" /\ piece = NoPiece /\ todo = {}
    /\ pc' = "run"
    /\ UNCHANGED <<disk, torrent, ours, rechecks, result, file, io, history>>

-----------------------------------------------------------------------------
(* finish_piece(): the piece has the right hash *)
BeginWrite(i) ==
    /\ pc = "run" /\ i \notin ours
    /\ pc' = "write" /\ piece' = i /\ walk' = Walk(Offset(i), PieceSize(i))
    /\ damaged' = damaged \ {i}
    /\ UNCHANGED <<disk, torrent, ours, rechecks, result, file, todo, right, claimed, late>>

WriteFile ==
    /\ pc = "write" /\ ~Over(walk)
    /\ Put(torrent, walk, Take(walk)) /\ walk' = Onward(walk)
    /\ UNCHANGED <<pc, torrent, ours, rechecks, result, file, todo, piece, right, history>>

Written ==
    /\ pc = "write" /\ Over(walk)
    /\ pc' = "run" /\ ours' = ours \cup {piece} /\ AtRest
    /\ UNCHANGED <<disk, torrent, rechecks, result, file, todo, history>>

(* std::fs::write() truncates the file and then writes it; an open() that    *)
(* fails changes nothing                                                     *)
BeginSave(next) == file' = Torn /\ pc' = next

(* the error of a write that fails, on a full disk, is ignored *)
SaveEnds ==
    \/ file' = Saved(torrent, ours)
    \/ UNCHANGED file

(* write_block() fails, perhaps after it wrote some of this file's segment;  *)
(* the run ends, as it does for want of peers                                *)
WriteFails ==
    /\ pc = "write" /\ ~Over(walk)
    /\ \E n \in 0 .. Take(walk) : Put(torrent, walk, n)
    /\ BeginSave("last") /\ AtRest
    /\ UNCHANGED <<torrent, ours, rechecks, result, todo, history>>

GivesUp ==
    /\ pc = "run" /\ ours # Pieces
    /\ BeginSave("last")
    /\ UNCHANGED <<disk, torrent, ours, rechecks, result, io, history>>

LastWritten == pc = "last" /\ Exits("failed") /\ SaveEnds /\ UNCHANGED disk

SaveDue ==
    /\ pc = "run" /\ ours # {}
    /\ BeginSave("save")
    /\ UNCHANGED <<disk, torrent, ours, rechecks, result, io, history>>

SaveWritten ==
    /\ pc = "save" /\ pc' = "run" /\ SaveEnds
    /\ UNCHANGED <<disk, torrent, ours, rechecks, result, io, history>>

\* mutant: whether we have the piece is not looked at
ServableAny(i) == i \in Pieces
Servable(i) == i \in ours

(* on_message(), Request: a block that begins in a piece we have is read,    *)
(* however far it goes on; read_block() refuses what goes past the end       *)
Serve(i, begin, length) ==
    /\ pc = "run" /\ Servable(i)
    /\ Offset(i) + begin + length <= Total
    /\ pc' = "serve" /\ piece' = i /\ walk' = Walk(Offset(i) + begin, length)
    /\ UNCHANGED <<disk, torrent, ours, rechecks, result, file, todo, right, history>>

Served ==
    /\ pc = "serve" /\ Over(walk)
    /\ pc' = "run" /\ AtRest
    /\ UNCHANGED <<disk, torrent, ours, rechecks, result, file, todo, history>>

-----------------------------------------------------------------------------
BeginCheck ==
    /\ pc = "run" /\ ours = Pieces
    /\ pc' = "check" /\ todo' = Pieces
    /\ UNCHANGED <<disk, torrent, ours, rechecks, result, file, piece, walk, right, history>>

\* mutant: every piece is taken to be sound
KeptAlways(ok) == ours
Kept(ok) == IF ok THEN ours ELSE ours \ {piece}

Checked ==
    /\ pc = "check" /\ piece # NoPiece /\ Over(walk)
    /\ ours' = Kept(right)
    /\ todo' = todo \ {piece} /\ AtRest
    /\ UNCHANGED <<disk, pc, torrent, rechecks, result, file, history>>

AllRead == pc = "check" /\ piece = NoPiece /\ todo = {}

Complete ==
    /\ AllRead /\ ours = Pieces
    /\ file' = None /\ Exits("complete") /\ UNCHANGED disk

\* mutant: one check more
TooManyLate(n) == n > 3
TooMany(n) == n > 2

Recheck ==
    /\ AllRead /\ ours # Pieces
    /\ rechecks' = rechecks + 1 /\ late' = {}
    /\ IF TooMany(rechecks') THEN BeginSave("last") ELSE pc' = "run" /\ UNCHANGED file
    /\ UNCHANGED <<disk, torrent, ours, result, io, claimed, damaged>>

(* a kill may come when some of a segment is written *)
Killed ==
    /\ pc # "off" /\ Exits("killed") /\ UNCHANGED file
    /\ \/ UNCHANGED disk
       \/ pc = "write" /\ ~Over(walk) /\ \E n \in 1 .. Take(walk) : Put(torrent, walk, n)

(* another program writes to a byte *)
Damage(p) ==
    /\ disk' = [disk EXCEPT ![p] = Junk]
    /\ LET hit == {i \in Pieces : p \in PlacesOf(i)}
       IN  /\ damaged' = IF pc = "off" THEN {} ELSE damaged \cup hit
           /\ late' = IF pc = "check" THEN late \cup hit ELSE {}
    /\ UNCHANGED <<pc, torrent, ours, rechecks, result, file, io, claimed>>

Next ==
    \/ \E t \in Torrents : Start(t)
    \/ BeginRead \/ ReadFile \/ ReadFails \/ Verified \/ Loaded
    \/ \E i \in Pieces : BeginWrite(i)
    \/ WriteFile \/ Written \/ WriteFails
    \/ SaveDue \/ SaveWritten \/ GivesUp \/ LastWritten
    \/ \E i \in Pieces, begin \in 0 .. Total, length \in 1 .. MaxServed : Serve(i, begin, length)
    \/ Served
    \/ BeginCheck \/ Checked \/ Complete \/ Recheck
    \/ Killed
    \/ \E p \in Places : Damage(p)

Spec == Init /\ [][Next]_vars

-----------------------------------------------------------------------------
(* Types of the variables; the content is checked three times at most. *)
TypeOK ==
    /\ disk \in [Places -> Bytes \cup {Junk}]
    /\ pc \in {"off", "load", "run", "write", "serve", "check", "save", "last"}
    /\ torrent \in Torrents /\ ours \subseteq Pieces /\ rechecks \in 0 .. 3
    /\ result \in {"none", "complete", "failed", "killed"}
    /\ file \in SavedFiles \cup {None, Torn}
    /\ todo \subseteq Pieces /\ piece \in Pieces \cup {NoPiece} /\ right \in BOOLEAN
    /\ walk \in [file : Nat, start : Nat, cursor : Nat, remaining : Nat]
    /\ claimed \subseteq Pieces /\ damaged \subseteq Pieces /\ late \subseteq Pieces

(* What a run counts as downloaded is on disk, each byte in the file and at  *)
(* the place where it belongs, whatever resume file it found and whichever   *)
(* torrent ran before, but for damage done since.                            *)
OursOnDisk == ours \subseteq Good \cup damaged

(* A step changes nothing on disk but bytes of the piece that is being       *)
(* written, wherever its files begin and end: write_block() leaves the files *)
(* of every other piece as they were, also when it fails.                    *)
OthersUntouched ==
    [][\A p \in Places :
            disk'[p] # disk[p] /\ disk'[p] # Junk => pc = "write" /\ p \in PlacesOf(piece)]_vars

(* What is sent for a request is right as far as the piece goes, unless the  *)
(* piece was damaged meanwhile.                                              *)
ServedIsRight == pc = "serve" /\ ~right => piece \in damaged

(* A run reports success only if the whole content is on disk, but for       *)
(* damage done while it was being checked.                                   *)
CompleteIsWhole ==
    [][result # "complete" /\ result' = "complete" => Good \cup late = Pieces]_vars

(* A piece is not fetched again when the resume file listed it for this      *)
(* torrent and the disk has it (bt/tests/resume_download.rs:198-199).        *)
NoRefetch ==
    [][pc = "run" /\ pc' = "write" => piece' \notin (claimed \cap Good) \ damaged]_vars
=============================================================================
