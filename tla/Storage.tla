--------------------------------- MODULE Storage ---------------------------------
(* Where the bytes of the content are: bt/src/storage.rs.  The content is    *)
(* one run of bytes cut into files of any lengths, 0 among them; pieces are  *)
(* cut from the same run and need not end where files do.  A block is read   *)
(* and written file by file, and each of these steps may be the last.        *)
(* Files have different paths: that a torrent names one path twice is not    *)
(* refused by metainfo.rs and not modelled.                                  *)
(* A byte is known by whose content it is and which byte of that: the values *)
(* tell a byte written to the wrong place from the right one.                *)
EXTENDS Integers, Sequences

CONSTANTS
    Torrents,       \* info hashes of torrents of one name with the same files
    Junk,           \* a byte of none of them
    Lengths,        \* of the files, a sequence
    Ends,           \* Ends[f]: where file f ends in the content
    PieceLength

ASSUME LayoutAssumption ==
    /\ Lengths \in Seq(Nat) /\ PieceLength \in Nat \ {0}
    /\ Ends \in [0 .. Len(Lengths) -> Nat] /\ Ends[0] = 0
    /\ \A f \in 1 .. Len(Lengths) : Ends[f] = Ends[f - 1] + Lengths[f]
    /\ Ends[Len(Lengths)] > 0

Files == 1 .. Len(Lengths)
Total == Ends[Len(Lengths)]
Places == UNION {{f} \X (0 .. Lengths[f] - 1) : f \in Files}
At(p) == Ends[p[1] - 1] + p[2]
Byte(t, k) == [of |-> t, at |-> k]
Bytes == {Byte(t, k) : t \in Torrents, k \in 0 .. Total - 1}

ASSUME JunkAssumption == Junk \notin Bytes

Offset(i) == i * PieceLength
Pieces == {i \in 0 .. Total - 1 : Offset(i) < Total}
PieceSize(i) == IF PieceLength < Total - Offset(i) THEN PieceLength ELSE Total - Offset(i)
PlacesOf(i) == {p \in Places : At(p) \in Offset(i) .. Offset(i) + PieceSize(i) - 1}

VARIABLE
    disk        \* disk[p]: the byte at place p = <<file, position>>, or Junk

(* piece i of torrent t is stored, every byte in its place *)
Stored(t, i) == \A p \in PlacesOf(i) : disk[p] = Byte(t, At(p))

-----------------------------------------------------------------------------
(* segments(): the walk over the files.  The next file is `file', it begins  *)
(* at `start'; the block is done up to `cursor', `remaining' are left.       *)
Walk(offset, length) == [file |-> 1, start |-> 0, cursor |-> offset, remaining |-> length]

Over(w) == w.remaining = 0 \/ w.file > Len(Lengths)

FileEnd(w) == w.start + Lengths[w.file]

\* how much of the block is in this file
Take(w) ==
    IF w.cursor >= FileEnd(w) THEN 0
    ELSE IF w.remaining < FileEnd(w) - w.cursor THEN w.remaining ELSE FileEnd(w) - w.cursor

Onward(w) ==
    [file |-> w.file + 1, start |-> FileEnd(w),
     cursor |-> w.cursor + Take(w), remaining |-> w.remaining - Take(w)]

\* mutant: without the seek
SegmentUnsought(w, n) == {p \in Places : p[1] = w.file /\ p[2] \in 0 .. n - 1}
(* the first n places of the segment, and the byte of the block that belongs *)
(* to each                                                                   *)
Segment(w, n) == {p \in Places : p[1] = w.file /\ p[2] - (w.cursor - w.start) \in 0 .. n - 1}
ByteFor(w, p) == w.cursor + (p[2] - (w.cursor - w.start))

(* n bytes of this file's segment are written; all of them unless the disk   *)
(* is full or the program is killed                                          *)
Put(t, w, n) ==
    disk' = [p \in Places |->
                IF p \in Segment(w, n) THEN Byte(t, ByteFor(w, p)) ELSE disk[p]]

(* what is read of this file is as piece i of torrent t has it; what a       *)
(* request reads beyond its piece is not compared with anything              *)
Agrees(t, i, w) ==
    \A p \in Segment(w, Take(w)) :
        ByteFor(w, p) < Offset(i) + PieceSize(i) => disk[p] = Byte(t, ByteFor(w, p))
=============================================================================
