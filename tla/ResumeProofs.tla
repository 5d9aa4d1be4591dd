------------------------------ MODULE ResumeProofs ------------------------------
(* Theorems about Resume for every set of torrents, every cut of the content *)
(* into files and pieces, and however often the program is started, killed   *)
(* and its files are damaged.                                                *)
EXTENDS Resume, WellFoundedInduction, TLAPS

-----------------------------------------------------------------------------
(* The layout and the walk of Storage, for files of any lengths and pieces   *)
(* of any size.                                                              *)

LEMMA LayoutType ==
    /\ Len(Lengths) \in Nat /\ Total \in Nat \ {0} /\ PieceLength \in Nat \ {0}
    /\ \A f \in Files : Lengths[f] \in Nat
    /\ \A f \in 0 .. Len(Lengths) : Ends[f] \in Nat
<1>1. Len(Lengths) \in Nat /\ PieceLength \in Nat \ {0}
  BY LayoutAssumption
<1>2. \A f \in 0 .. Len(Lengths) : Ends[f] \in Nat
  BY LayoutAssumption
<1>3. \A f \in Files : Lengths[f] \in Nat
  BY LayoutAssumption DEF Files
<1>4. Total \in Nat \ {0}
  BY <1>1, <1>2, LayoutAssumption DEF Total
<1>5. QED
  BY <1>1, <1>2, <1>3, <1>4

(* Induction: of the numbers that have a property one is the least.          *)
LEMMA LeastNumber ==
  ASSUME NEW T, T \subseteq Nat, T # {}
  PROVE  \E n \in T : \A m \in T : n <= m
<1>1. PICK n \in T : \A m \in T : ~(<<m, n>> \in OpToRel(<, Nat))
  BY NatLessThanWellFounded, WFMin
<1>2. ASSUME NEW m \in T PROVE n <= m
  <2>1. m \in Nat /\ n \in Nat
    OBVIOUS
  <2>2. ~(m < n)
    BY <1>1, <2>1 DEF OpToRel
  <2>3. QED
    BY <2>1, <2>2
<1>3. QED
  BY <1>2

(* The files lie one behind the other: no file ends before one that comes    *)
(* earlier, however many are empty.  Else take the first that does.          *)
LEMMA EndsGrow ==
  ASSUME NEW f \in 0 .. Len(Lengths), NEW g \in 0 .. Len(Lengths), f <= g
  PROVE  Ends[f] <= Ends[g]
<1> DEFINE T == {h \in Nat : h \in 0 .. Len(Lengths) /\ f <= h /\ ~(Ends[f] <= Ends[h])}
<1>1. ASSUME T # {} PROVE FALSE
  <2>1. PICK h \in T : \A m \in T : h <= m
    BY <1>1, LeastNumber
  <2>2. h \in 0 .. Len(Lengths) /\ f <= h /\ ~(Ends[f] <= Ends[h]) /\ Len(Lengths) \in Nat
    BY LayoutType
  <2>3. Ends[f] \in Nat /\ h # f
    BY <2>2, LayoutType
  <2>4. /\ h \in 1 .. Len(Lengths) /\ h - 1 \in 0 .. Len(Lengths) /\ f <= h - 1 
        /\ ~(h <= h - 1)
    BY <2>2, <2>3
  <2>5. h - 1 \notin T
    BY <2>1, <2>4
  <2>6. Ends[f] <= Ends[h - 1]
    BY <2>4, <2>5
  <2>7. Ends[h] = Ends[h - 1] + Lengths[h] /\ Ends[h - 1] \in Nat /\ Lengths[h] \in Nat
    BY <2>4, LayoutAssumption, LayoutType DEF Files
  <2>8. QED
    BY <2>2, <2>3, <2>6, <2>7
<1>2. QED
  BY <1>1, LayoutType

LEMMA PlaceType ==
  ASSUME NEW p \in Places
  PROVE  /\ p[1] \in Files /\ p[2] \in Nat /\ p = <<p[1], p[2]>>
         /\ At(p) \in Nat /\ At(p) >= Ends[p[1] - 1] /\ At(p) < Ends[p[1]]
<1>1. PICK f \in Files : p \in {f} \X (0 .. Lengths[f] - 1)
  BY DEF Places
<1>2. p[1] = f /\ p[2] \in 0 .. Lengths[f] - 1 /\ p = <<p[1], p[2]>>
  BY <1>1
<1>3. Lengths[f] \in Nat /\ Ends[f - 1] \in Nat /\ Ends[f] = Ends[f - 1] + Lengths[f]
  <2>1. f \in 1 .. Len(Lengths) /\ f - 1 \in 0 .. Len(Lengths) /\ Len(Lengths) \in Nat
    BY <1>1, LayoutType DEF Files
  <2>2. Ends[f] = Ends[f - 1] + Lengths[f]
    BY <2>1, LayoutAssumption
  <2>3. QED
    BY <1>1, <2>1, <2>2, LayoutType
<1>4. QED
  BY <1>2, <1>3 DEF At

(* no two places hold the same byte of the content *)
LEMMA PlaceInFile ==
  ASSUME NEW p \in Places, NEW f \in Files, Ends[f - 1] <= At(p), At(p) < Ends[f]
  PROVE  p[1] = f
<1>1. /\ p[1] \in Files /\ At(p) \in Nat
      /\ At(p) >= Ends[p[1] - 1] /\ At(p) < Ends[p[1]]
  BY PlaceType
<1>2. \A g, h \in 0 .. Len(Lengths) : Ends[g] \in Nat /\ (g <= h => Ends[g] <= Ends[h])
  BY LayoutType, EndsGrow
<1>3. Len(Lengths) \in Nat
  BY LayoutType
<1>4. ASSUME p[1] < f PROVE FALSE
  <2>1. p[1] \in 0 .. Len(Lengths) /\ f - 1 \in 0 .. Len(Lengths) /\ p[1] <= f - 1
    BY <1>1, <1>3, <1>4 DEF Files
  <2>2. Ends[p[1]] <= Ends[f - 1] /\ Ends[p[1]] \in Nat /\ Ends[f - 1] \in Nat
    BY <2>1, <1>2
  <2>3. QED
    BY <2>2, <1>1
<1>5. ASSUME f < p[1] PROVE FALSE
  <2>1. f \in 0 .. Len(Lengths) /\ p[1] - 1 \in 0 .. Len(Lengths) /\ f <= p[1] - 1
    BY <1>1, <1>3, <1>5 DEF Files
  <2>2. Ends[f] <= Ends[p[1] - 1] /\ Ends[f] \in Nat /\ Ends[p[1] - 1] \in Nat
    BY <2>1, <1>2
  <2>3. QED
    BY <2>2, <1>1
<1>6. QED
  BY <1>1, <1>4, <1>5 DEF Files

LEMMA PieceType ==
  ASSUME NEW i \in Pieces
  PROVE  /\ i \in Nat /\ Offset(i) \in Nat /\ PieceSize(i) \in Nat \ {0}
         /\ Offset(i) + PieceSize(i) <= Total /\ PieceSize(i) <= PieceLength
<1>1. i \in Nat /\ Offset(i) < Total /\ Total \in Nat /\ PieceLength \in Nat \ {0}
  BY LayoutType DEF Pieces
<1>2. Offset(i) \in Nat
  BY <1>1 DEF Offset
<1>3. QED
  BY <1>1, <1>2 DEF PieceSize

LEMMA OffsetApart ==
  ASSUME NEW i \in Nat, NEW j \in Nat, i < j
  PROVE  Offset(i) + PieceLength <= Offset(j)
<1>1. PieceLength \in Nat
  BY LayoutType
<1>2. PICK d \in Nat : j = i + 1 + d
  <2>1. j - i - 1 \in Nat /\ j = i + 1 + (j - i - 1)
    OBVIOUS
  <2>2. QED
    BY <2>1
<1>3. d * PieceLength \in Nat /\ i * PieceLength \in Nat
  BY <1>1
<1>4. (i + 1 + d) * PieceLength = i * PieceLength + PieceLength + d * PieceLength
  BY <1>1
<1>5. QED
  BY <1>1, <1>2, <1>3, <1>4 DEF Offset

(* pieces share no bytes, hence no places *)
LEMMA PiecesApart ==
  ASSUME NEW i \in Pieces, NEW j \in Pieces, NEW p \in PlacesOf(i), p \in PlacesOf(j)
  PROVE  i = j
<1>1. /\ At(p) \in Nat
      /\ Offset(i) <= At(p) /\ At(p) < Offset(i) + PieceSize(i)
      /\ Offset(j) <= At(p) /\ At(p) < Offset(j) + PieceSize(j)
  BY PlaceType, PieceType DEF PlacesOf
<1>2. /\ i \in Nat /\ Offset(i) \in Nat /\ PieceSize(i) \in Nat /\ PieceSize(i) <= PieceLength
      /\ j \in Nat /\ Offset(j) \in Nat /\ PieceSize(j) \in Nat /\ PieceSize(j) <= PieceLength
      /\ PieceLength \in Nat
  BY PieceType, LayoutType
<1>3. ~(i < j)
  <2>1. SUFFICES ASSUME i < j PROVE FALSE
    OBVIOUS
  <2>2. Offset(i) + PieceLength <= Offset(j)
    BY <1>2, <2>1, OffsetApart
  <2>3. QED
    BY <1>1, <1>2, <2>2
<1>4. ~(j < i)
  <2>1. SUFFICES ASSUME j < i PROVE FALSE
    OBVIOUS
  <2>2. Offset(j) + PieceLength <= Offset(i)
    BY <1>2, <2>1, OffsetApart
  <2>3. QED
    BY <1>1, <1>2, <2>2
<1>5. QED
  BY <1>2, <1>3, <1>4

-----------------------------------------------------------------------------
(* What holds of a walk at each of its steps: it is where it says it is, and *)
(* it comes to its end before the files do.                                  *)
WalkType == [file : Nat, start : Nat, cursor : Nat, remaining : Nat]
Sound(w) ==
    /\ w \in WalkType
    /\ w.file \in 1 .. Len(Lengths) + 1 /\ w.start = Ends[w.file - 1]
    /\ w.cursor + w.remaining <= Total
    /\ w.remaining > 0 => w.start <= w.cursor

LEMMA SoundWalk ==
  ASSUME NEW offset \in Nat, NEW length \in Nat, offset + length <= Total
  PROVE  Sound(Walk(offset, length))
  BY LayoutAssumption, LayoutType DEF Sound, Walk, WalkType

(* nothing remains when the files are exhausted *)
LEMMA SoundOver ==
  ASSUME NEW w, Sound(w), Over(w)
  PROVE  w.remaining = 0
<1>1. w.remaining \in Nat /\ w.cursor \in Nat /\ w.file \in 1 .. Len(Lengths) + 1
  BY DEF Sound, WalkType
<1>2. ASSUME w.file > Len(Lengths), w.remaining > 0 PROVE FALSE
  <2>1. w.file - 1 = Len(Lengths)
    BY <1>1, <1>2, LayoutType
  <2>2. w.start = Total
    BY <2>1 DEF Sound, Total
  <2>3. QED
    BY <1>1, <1>2, <2>2, LayoutType DEF Sound
<1>3. QED
  BY <1>1, <1>2 DEF Over

LEMMA TakeBounds ==
  ASSUME NEW w, Sound(w), ~Over(w)
  PROVE  /\ w.file \in Files /\ w.start = Ends[w.file - 1] /\ FileEnd(w) = Ends[w.file]
         /\ FileEnd(w) \in Nat /\ Take(w) \in Nat /\ Take(w) <= w.remaining
         /\ Take(w) > 0 => w.cursor + Take(w) <= FileEnd(w)
         /\ Take(w) < w.remaining => FileEnd(w) <= w.cursor + Take(w)
<1>1. /\ w.file \in Nat /\ w.start \in Nat /\ w.cursor \in Nat /\ w.remaining \in Nat
      /\ w.file \in 1 .. Len(Lengths) + 1 /\ w.start = Ends[w.file - 1]
  BY DEF Sound, WalkType
<1>2. w.file \in Files
  BY <1>1, LayoutType DEF Over, Files
<1>3. Lengths[w.file] \in Nat /\ Ends[w.file] = Ends[w.file - 1] + Lengths[w.file]
  BY <1>2, LayoutAssumption, LayoutType DEF Files
<1>4. FileEnd(w) = Ends[w.file] /\ FileEnd(w) \in Nat
  BY <1>1, <1>3 DEF FileEnd
<1>5. CASE w.cursor >= FileEnd(w)
  <2>1. Take(w) = 0
    BY <1>5 DEF Take
  <2>2. QED
    BY <2>1, <1>1, <1>2, <1>4, <1>5
<1>6. CASE w.cursor < FileEnd(w) /\ w.remaining < FileEnd(w) - w.cursor
  <2>1. Take(w) = w.remaining
    BY <1>1, <1>4, <1>6 DEF Take
  <2>2. QED
    BY <2>1, <1>1, <1>2, <1>4, <1>6
<1>7. CASE w.cursor < FileEnd(w) /\ ~(w.remaining < FileEnd(w) - w.cursor)
  <2>1. Take(w) = FileEnd(w) - w.cursor
    BY <1>1, <1>4, <1>7 DEF Take
  <2>2. QED
    BY <2>1, <1>1, <1>2, <1>4, <1>7
<1>8. QED
  BY <1>1, <1>4, <1>5, <1>6, <1>7

LEMMA SoundOnward ==
  ASSUME NEW w, Sound(w), ~Over(w)
  PROVE  /\ Sound(Onward(w))
         /\ Onward(w).cursor = w.cursor + Take(w)
         /\ Onward(w).remaining = w.remaining - Take(w)
<1>1. /\ w.file \in Nat /\ w.start \in Nat /\ w.cursor \in Nat /\ w.remaining \in Nat
      /\ w.cursor + w.remaining <= Total
  BY DEF Sound, WalkType
<1>2. /\ w.file \in Files /\ FileEnd(w) = Ends[w.file]
      /\ FileEnd(w) \in Nat /\ Take(w) \in Nat /\ Take(w) <= w.remaining
      /\ Take(w) < w.remaining => FileEnd(w) <= w.cursor + Take(w)
  BY TakeBounds
<1>3. /\ Onward(w).file = w.file + 1 /\ Onward(w).start = FileEnd(w)
      /\ Onward(w).cursor = w.cursor + Take(w)
      /\ Onward(w).remaining = w.remaining - Take(w)
  BY DEF Onward
<1>4. Onward(w) \in WalkType
  <2>1. /\ w.file + 1 \in Nat /\ w.cursor + Take(w) \in Nat
        /\ w.remaining - Take(w) \in Nat
    BY <1>1, <1>2
  <2>2. QED
    BY <1>2, <2>1 DEF Onward, WalkType
<1>5. Onward(w).file \in 1 .. Len(Lengths) + 1 /\ Onward(w).start = Ends[Onward(w).file - 1]
  <2>1. Len(Lengths) \in Nat
    BY LayoutType
  <2>2. w.file + 1 \in 1 .. Len(Lengths) + 1 /\ (w.file + 1) - 1 = w.file
    BY <1>1, <1>2, <2>1 DEF Files
  <2>3. QED
    BY <1>2, <1>3, <2>2
<1>6. Onward(w).cursor + Onward(w).remaining <= Total
  <2>1. (w.cursor + Take(w)) + (w.remaining - Take(w)) = w.cursor + w.remaining
    BY <1>1, <1>2
  <2>2. QED
    BY <1>1, <1>3, <2>1
<1>7. Onward(w).remaining > 0 => Onward(w).start <= Onward(w).cursor
  BY <1>1, <1>2, <1>3
<1>8. QED
  BY <1>3, <1>4, <1>5, <1>6, <1>7 DEF Sound

(* the segment is those places whose bytes the step is for *)
LEMMA SegmentIs ==
  ASSUME NEW w, Sound(w), ~Over(w), NEW n \in 0 .. Take(w), NEW p \in Places
  PROVE  /\ p \in Segment(w, n) <=> At(p) \in w.cursor .. w.cursor + n - 1
         /\ p \in Segment(w, n) => ByteFor(w, p) = At(p)
<1>1. /\ w.start \in Nat /\ w.cursor \in Nat /\ w.remaining \in Nat
      /\ w.remaining > 0 /\ w.start <= w.cursor
  BY DEF Sound, WalkType, Over
<1>2. /\ w.file \in Files /\ w.start = Ends[w.file - 1] /\ FileEnd(w) = Ends[w.file]
      /\ FileEnd(w) \in Nat /\ Take(w) \in Nat
      /\ Take(w) > 0 => w.cursor + Take(w) <= FileEnd(w)
  BY TakeBounds
<1>3. p[1] \in Files /\ p[2] \in Nat /\ At(p) \in Nat
  BY PlaceType
<1>4. ASSUME p[1] = w.file
      PROVE  At(p) = w.start + p[2]
  BY <1>2, <1>4 DEF At
<1>5. ASSUME p \in Segment(w, n)
      PROVE  At(p) \in w.cursor .. w.cursor + n - 1 /\ ByteFor(w, p) = At(p)
  <2>1. p[1] = w.file /\ p[2] - (w.cursor - w.start) \in 0 .. n - 1
    BY <1>5 DEF Segment
  <2>2. QED
    BY <2>1, <1>1, <1>2, <1>3, <1>4 DEF ByteFor
<1>6. ASSUME At(p) \in w.cursor .. w.cursor + n - 1
      PROVE  p \in Segment(w, n)
  <2>1. n > 0 /\ Take(w) > 0 /\ n <= Take(w)
    BY <1>1, <1>2, <1>3, <1>6
  <2>2. Ends[w.file - 1] <= At(p) /\ At(p) < Ends[w.file]
    BY <2>1, <1>1, <1>2, <1>3, <1>6
  <2>3. p[1] = w.file
    BY <2>2, <1>2, PlaceInFile
  <2>4. QED
    BY <2>3, <1>1, <1>2, <1>3, <1>4, <1>6 DEF Segment
<1>7. QED
  BY <1>5, <1>6

-----------------------------------------------------------------------------
(* The program. *)

Reads == {"load", "check", "serve"}

(* nothing is read or written at pc "off", "run", "save" and "last" *)
IdleInv ==
    /\ pc \in {"off", "run", "save", "last"} => piece = NoPiece
    /\ pc \in {"write", "serve"} => piece # NoPiece
    /\ piece = NoPiece => right

(* a process that is gone keeps nothing; one goes on after two failed checks *)
(* at most                                                                   *)
ProcessInv ==
    /\ pc = "off" => ours = {} /\ rechecks = 0 /\ damaged = {} /\ late = {}
    /\ pc # "last" => rechecks <= 2

(* a walk is sound, and begins in its piece *)
WalkInv ==
    /\ Sound(walk)
    /\ piece # NoPiece => Offset(piece) <= walk.cursor

TypeInv == TypeOK /\ IdleInv /\ ProcessInv /\ WalkInv

LEMMA NoPieceIsNone == NoPiece \notin Pieces
  BY PieceType DEF NoPiece

LEMMA WalkIsType ==
  ASSUME NEW offset \in Nat, NEW length \in Nat
  PROVE  Walk(offset, length) \in WalkType
  BY DEF Walk, WalkType

LEMMA PutType ==
  ASSUME disk \in [Places -> Bytes \cup {Junk}], NEW t \in Torrents,
         NEW w, Sound(w), ~Over(w), NEW n \in 0 .. Take(w), Put(t, w, n)
  PROVE  /\ disk' \in [Places -> Bytes \cup {Junk}]
         /\ \A p \in Places :
              disk'[p] = IF At(p) \in w.cursor .. w.cursor + n - 1 THEN Byte(t, At(p)) ELSE disk[p]
<1>1. /\ w.cursor \in Nat /\ w.remaining \in Nat /\ w.cursor + w.remaining <= Total
      /\ Take(w) \in Nat /\ Take(w) <= w.remaining
  BY TakeBounds DEF Sound, WalkType
<1>2. ASSUME NEW p \in Places
      PROVE  /\ disk'[p] = IF At(p) \in w.cursor .. w.cursor + n - 1
                           THEN Byte(t, At(p)) ELSE disk[p]
             /\ disk'[p] \in Bytes \cup {Junk}
  <2>1. disk'[p] = IF p \in Segment(w, n) THEN Byte(t, ByteFor(w, p)) ELSE disk[p]
    BY DEF Put
  <2>2. /\ p \in Segment(w, n) <=> At(p) \in w.cursor .. w.cursor + n - 1
        /\ p \in Segment(w, n) => ByteFor(w, p) = At(p)
    BY SegmentIs
  <2>3. disk'[p] = IF At(p) \in w.cursor .. w.cursor + n - 1 THEN Byte(t, At(p)) ELSE disk[p]
    BY <2>1, <2>2
  <2>4. ASSUME At(p) \in w.cursor .. w.cursor + n - 1
        PROVE  Byte(t, At(p)) \in Bytes
    <3>1. At(p) \in 0 .. Total - 1
      BY <1>1, <2>4, PlaceType, LayoutType
    <3>2. QED
      BY <3>1 DEF Bytes
  <2>5. QED
    BY <2>3, <2>4
<1>3. disk' = [p \in Places |-> disk'[p]]
  BY DEF Put
<1>4. QED
  BY <1>2, <1>3

LEMMA AtRestSound ==
  ASSUME AtRest PROVE Sound(walk')
  BY SoundWalk, LayoutType DEF AtRest

LEMMA PieceWalkSound ==
  ASSUME NEW i \in Pieces
  PROVE  /\ Sound(Walk(Offset(i), PieceSize(i)))
         /\ Walk(Offset(i), PieceSize(i)) \in WalkType
         /\ Walk(Offset(i), PieceSize(i)).cursor = Offset(i)
<1>1. /\ Offset(i) \in Nat /\ PieceSize(i) \in Nat /\ Offset(i) + PieceSize(i) <= Total
  BY PieceType
<1>2. QED
  BY <1>1, SoundWalk DEF Walk, WalkType

LEMMA OnwardKeeps ==
  ASSUME TypeInv, ~Over(walk), piece # NoPiece
  PROVE  /\ Sound(Onward(walk)) /\ Onward(walk) \in WalkType
         /\ Offset(piece) <= Onward(walk).cursor
<1>1. Sound(Onward(walk)) /\ Onward(walk).cursor = walk.cursor + Take(walk) /\ Take(walk) \in Nat
  BY SoundOnward, TakeBounds DEF TypeInv, WalkInv
<1>2. Onward(walk) \in WalkType /\ walk.cursor \in Nat
  BY <1>1 DEF Sound, TypeInv, WalkInv, WalkType
<1>3. piece \in Pieces
  BY DEF TypeInv, TypeOK
<1>4. Offset(piece) \in Nat /\ Offset(piece) <= walk.cursor
  BY <1>3, PieceType DEF TypeInv, WalkInv
<1>5. QED
  BY <1>1, <1>2, <1>4

LEMMA ExitType ==
  ASSUME TypeInv, NEW how \in {"complete", "failed", "killed"}, Exits(how),
         file' \in SavedFiles \cup {None, Torn}, disk' \in [Places -> Bytes \cup {Junk}]
  PROVE  TypeInv'
<1>1. Sound(walk')
  BY AtRestSound DEF Exits
<1>2. walk' \in WalkType
  BY <1>1 DEF Sound
<1>3. QED
  BY <1>1, <1>2 DEF TypeInv, TypeOK, IdleInv, ProcessInv, WalkInv, Exits, AtRest, WalkType

LEMMA TypeInit == Init => TypeInv
<1> SUFFICES ASSUME Init PROVE TypeInv
  OBVIOUS
<1>1. Sound(walk)
  BY SoundWalk, LayoutType DEF Init
<1>2. walk \in WalkType
  BY <1>1 DEF Sound
<1>3. QED
  BY <1>1, <1>2 DEF Init, TypeInv, TypeOK, IdleInv, ProcessInv, WalkInv, WalkType

LEMMA TypeNext == TypeInv /\ [Next]_vars => TypeInv'
<1> SUFFICES ASSUME TypeInv, [Next]_vars PROVE TypeInv'
  OBVIOUS
<1> USE ValuesAssumption, NoPieceIsNone DEF io, history
<1>t. /\ TypeOK /\ IdleInv /\ ProcessInv /\ WalkInv /\ walk \in WalkType
  BY DEF TypeInv, WalkInv, Sound
<1>s. (SaveEnds => file' \in SavedFiles \cup {None, Torn})
  BY <1>t DEF SaveEnds, SavedFiles, TypeOK
<1>w. ASSUME walk' = walk, piece' \in {piece, NoPiece} PROVE WalkInv'
  BY <1>t, <1>w DEF WalkInv
<1>r. ASSUME AtRest PROVE WalkInv' /\ walk' \in WalkType
  BY <1>r, AtRestSound DEF WalkInv, AtRest, Sound
<1>1. ASSUME NEW t \in Torrents, Start(t) PROVE TypeInv'
  <2>1. Load(t) \subseteq Pieces
    BY DEF Load, SavedFiles, Saved
  <2>2. QED
    BY <2>1, <1>1, <1>t, <1>w DEF Start, TypeInv, TypeOK, IdleInv, ProcessInv
<1>2. CASE BeginRead
  <2>1. PICK i \in todo : piece' = i /\ walk' = Walk(Offset(i), PieceSize(i))
    BY <1>2 DEF BeginRead
  <2>2. i \in Pieces
    BY <2>1, <1>t DEF TypeOK
  <2>3. Sound(walk') /\ walk' \in WalkType /\ walk'.cursor = Offset(i)
    BY <2>1, <2>2, PieceWalkSound
  <2>4. Offset(i) <= Offset(i)
    BY <2>2, PieceType
  <2>5. QED
    BY <2>1, <2>2, <2>3, <2>4, <1>2, <1>t
       DEF BeginRead, TypeInv, TypeOK, IdleInv, ProcessInv, WalkInv, WalkType
<1>3. CASE ReadFile
  <2>1. Sound(walk') /\ walk' \in WalkType /\ Offset(piece) <= walk'.cursor
    BY <1>3, OnwardKeeps DEF ReadFile
  <2>2. right' \in BOOLEAN
    BY <1>3, <1>t DEF ReadFile, TypeOK
  <2>3. piece # NoPiece
    BY <1>3 DEF ReadFile
  <2>4. QED
    BY <2>1, <2>2, <2>3, <1>3, <1>t DEF ReadFile, TypeInv, TypeOK, IdleInv, ProcessInv, WalkInv, WalkType
<1>4. CASE ReadFails
  <2>1. /\ walk' \in WalkType /\ walk'.cursor = walk.cursor /\ walk'.file = walk.file
        /\ walk'.start = walk.start /\ walk'.remaining = 0
    BY <1>4, <1>t DEF ReadFails, WalkType
  <2>2. walk.cursor \in Nat /\ walk.remaining \in Nat /\ walk.cursor + walk.remaining <= Total
    BY <1>t DEF WalkInv, Sound, WalkType
  <2>3. Sound(walk')
    BY <2>1, <2>2, <1>t, LayoutType DEF Sound, WalkInv
  <2>4. piece \in Pieces /\ piece # NoPiece
    BY <1>4, <1>t DEF ReadFails, TypeOK
  <2>5. Offset(piece)' = Offset(piece)
    BY <1>4 DEF ReadFails, Offset
  <2>6. QED
    BY <2>1, <2>3, <2>4, <2>5, <1>4, <1>t
       DEF ReadFails, TypeInv, TypeOK, IdleInv, ProcessInv, WalkInv, WalkType
<1>5. CASE Verified
  BY <1>5, <1>r, <1>t DEF Verified, Counted, AtRest, TypeInv, TypeOK, IdleInv, ProcessInv, WalkType
<1>6. CASE Loaded
  BY <1>6, <1>w, <1>t DEF Loaded, TypeInv, TypeOK, IdleInv, ProcessInv
<1>7. ASSUME NEW i \in Pieces, BeginWrite(i) PROVE TypeInv'
  <2>1. Sound(walk') /\ walk' \in WalkType /\ walk'.cursor = Offset(i) /\ piece' = i
    BY <1>7, PieceWalkSound DEF BeginWrite
  <2>2. Offset(i) <= Offset(i)
    BY PieceType
  <2>3. QED
    BY <2>1, <2>2, <1>7, <1>t
       DEF BeginWrite, TypeInv, TypeOK, IdleInv, ProcessInv, WalkInv, WalkType
<1>8. CASE WriteFile
  <2>1. piece # NoPiece /\ ~Over(walk) /\ Sound(walk)
    BY <1>8, <1>t DEF WriteFile, IdleInv, WalkInv
  <2>2. Sound(walk') /\ walk' \in WalkType /\ Offset(piece) <= walk'.cursor
    BY <2>1, <1>8, OnwardKeeps DEF WriteFile
  <2>3. Take(walk) \in 0 .. Take(walk)
    BY <2>1, TakeBounds
  <2>4. disk' \in [Places -> Bytes \cup {Junk}]
    BY <2>1, <2>3, <1>8, <1>t, PutType DEF WriteFile, TypeOK
  <2>5. QED
    BY <2>1, <2>2, <2>4, <1>8, <1>t DEF WriteFile, TypeInv, TypeOK, IdleInv, ProcessInv, WalkInv, WalkType
<1>9. CASE Written
  <2>1. piece \in Pieces
    BY <1>9, <1>t DEF Written, TypeOK, IdleInv
  <2>2. QED
    BY <2>1, <1>9, <1>r, <1>t DEF Written, AtRest, TypeInv, TypeOK, IdleInv, ProcessInv, WalkType
<1>10. CASE WriteFails
  <2>1. PICK n \in 0 .. Take(walk) : Put(torrent, walk, n)
    BY <1>10 DEF WriteFails
  <2>2. disk' \in [Places -> Bytes \cup {Junk}]
    BY <2>1, <1>10, <1>t, PutType DEF WriteFails, TypeOK, WalkInv
  <2>3. QED
    BY <2>2, <1>10, <1>r, <1>t
       DEF WriteFails, BeginSave, AtRest, TypeInv, TypeOK, IdleInv, ProcessInv, WalkType
<1>11. CASE SaveDue
  BY <1>11, <1>w, <1>t DEF SaveDue, BeginSave, TypeInv, TypeOK, IdleInv, ProcessInv
<1>12. CASE SaveWritten
  BY <1>12, <1>s, <1>w, <1>t DEF SaveWritten, TypeInv, TypeOK, IdleInv, ProcessInv
<1>13. CASE GivesUp
  BY <1>13, <1>w, <1>t DEF GivesUp, BeginSave, TypeInv, TypeOK, IdleInv, ProcessInv
<1>14. CASE LastWritten
  BY <1>14, <1>s, <1>t, ExitType DEF LastWritten, TypeOK
<1>15. ASSUME NEW i \in Pieces, NEW begin \in 0 .. Total, NEW length \in 1 .. MaxServed,
              Serve(i, begin, length)
       PROVE  TypeInv'
  <2>1. Offset(i) \in Nat /\ begin \in Nat /\ length \in Nat
    BY PieceType, LayoutType
  <2>2. Offset(i) + begin \in Nat /\ Offset(i) <= Offset(i) + begin
    BY <2>1
  <2>3. Offset(i) + begin + length <= Total
    BY <1>15 DEF Serve
  <2>4. Sound(Walk(Offset(i) + begin, length))
    BY <2>1, <2>2, <2>3, SoundWalk
  <2>5. Walk(Offset(i) + begin, length).cursor = Offset(i) + begin
    BY DEF Walk
  <2>6. Sound(walk') /\ walk'.cursor = Offset(i) + begin /\ walk' \in WalkType /\ piece' = i
    BY <2>4, <2>5, <1>15 DEF Serve, Sound
  <2>7. QED
    BY <2>2, <2>6, <1>15, <1>t
       DEF Serve, TypeInv, TypeOK, IdleInv, ProcessInv, WalkInv, WalkType
<1>16. CASE Served
  BY <1>16, <1>r, <1>t DEF Served, AtRest, TypeInv, TypeOK, IdleInv, ProcessInv, WalkType
<1>17. CASE BeginCheck
  BY <1>17, <1>w, <1>t DEF BeginCheck, TypeInv, TypeOK, IdleInv, ProcessInv
<1>18. CASE Checked
  BY <1>18, <1>r, <1>t DEF Checked, Kept, AtRest, TypeInv, TypeOK, IdleInv, ProcessInv, WalkType
<1>19. CASE Complete
  BY <1>19, <1>t, ExitType DEF Complete, TypeOK
<1>20. CASE Recheck
  BY <1>20, <1>w, <1>t
     DEF Recheck, AllRead, BeginSave, TooMany, TypeInv, TypeOK, IdleInv, ProcessInv
<1>21. CASE Killed
  <2>1. disk' \in [Places -> Bytes \cup {Junk}]
    <3>1. CASE UNCHANGED disk
      BY <3>1, <1>t DEF TypeOK
    <3>2. CASE pc = "write" /\ ~Over(walk) /\ \E n \in 1 .. Take(walk) : Put(torrent, walk, n)
      <4>1. PICK n \in 1 .. Take(walk) : Put(torrent, walk, n)
        BY <3>2
      <4>2. n \in 0 .. Take(walk)
        BY <3>2, <1>t, TakeBounds DEF WalkInv
      <4>3. QED
        BY <4>1, <4>2, <3>2, <1>t, PutType DEF TypeOK, WalkInv
    <3>3. QED
      BY <1>21, <3>1, <3>2 DEF Killed
  <2>2. QED
    BY <2>1, <1>21, <1>t, ExitType DEF Killed, TypeOK
<1>22. ASSUME NEW p \in Places, Damage(p) PROVE TypeInv'
  <2>1. /\ damaged' \subseteq Pieces /\ late' \subseteq Pieces
        /\ pc = "off" => damaged' = {} /\ late' = {}
    BY <1>22, <1>t DEF Damage, TypeOK
  <2>2. disk' \in [Places -> Bytes \cup {Junk}]
    BY <1>22, <1>t DEF Damage, TypeOK
  <2>3. QED
    BY <2>1, <2>2, <1>22, <1>w, <1>t DEF Damage, TypeInv, TypeOK, IdleInv, ProcessInv
<1>23. CASE UNCHANGED vars
  BY <1>23, <1>w, <1>t DEF vars, TypeInv, TypeOK, IdleInv, ProcessInv
<1>24. QED
  BY <1>1, <1>2, <1>3, <1>4, <1>5, <1>6, <1>7, <1>8, <1>9, <1>10, <1>11, <1>12, <1>13,
     <1>14, <1>15, <1>16, <1>17, <1>18, <1>19, <1>20, <1>21, <1>22, <1>23 DEF Next

(* The program's state stays within its types, and it rechecks at most three *)
(* times.                                                                    *)
THEOREM ResumeTypeCorrect == Spec => []TypeOK
<1>1. TypeInv => TypeOK
  BY DEF TypeInv
<1>2. QED
  BY TypeInit, TypeNext, <1>1, PTL DEF Spec

LEMMA TypeHolds == Spec => []TypeInv
  BY TypeInit, TypeNext, PTL DEF Spec

-----------------------------------------------------------------------------
(* what is looked at in the final check has been right since it began, or    *)
(* was damaged since                                                         *)
Since == IF pc = "check" THEN late ELSE damaged
Whole == pc = "write" \/ (pc \in {"load", "check"} /\ right)

(* the walk is in the piece, and what it has done is right *)
DoneInv ==
    piece # NoPiece /\ Whole =>
        /\ walk.cursor + walk.remaining = Offset(piece) + PieceSize(piece)
        /\ \A p \in PlacesOf(piece) :
             At(p) < walk.cursor => disk[p] = Byte(torrent, At(p)) \/ piece \in Since

(* what was read wrong is wrong *)
WrongInv == pc \in Reads /\ ~right => piece \notin Good \/ piece \in damaged

RoleInv ==
    /\ pc = "serve" => piece \in ours
    /\ pc = "write" => piece \notin ours

(* claims that hold are counted, but for those not verified yet and for a    *)
(* piece that is just about to be written whole                              *)
ClaimsInv ==
    pc \notin {"off", "last"} =>
        claimed \cap Good \subseteq
            ours \cup damaged \cup (IF pc = "load" THEN todo ELSE {})
                 \cup (IF pc = "write" THEN {piece} ELSE {})

(* what the check has passed was there when it began *)
CheckInv == pc = "check" => ours \ todo \subseteq Good \cup late

ContentInv == OursOnDisk /\ DoneInv /\ WrongInv /\ RoleInv /\ ClaimsInv /\ CheckInv

LEMMA GoodSame ==
  ASSUME disk' = disk, torrent' = torrent PROVE Good' = Good
  BY DEF Good, Stored

LEMMA PlacesSame == \A i \in Pieces : PlacesOf(i) \subseteq Places
  BY DEF PlacesOf

(* writing changes bytes of its piece only *)
LEMMA PutInside ==
  ASSUME TypeInv, ContentInv, pc = "write", ~Over(walk),
         NEW n \in 0 .. Take(walk), Put(torrent, walk, n), torrent' = torrent
  PROVE  /\ \A p \in Places : disk'[p] # disk[p] =>
                p \in PlacesOf(piece) /\ disk'[p] = Byte(torrent, At(p))
         /\ \A i \in Pieces \ {piece} : i \in Good' <=> i \in Good
<1>1. /\ Sound(walk) /\ piece \in Pieces /\ torrent \in Torrents
      /\ disk \in [Places -> Bytes \cup {Junk}] /\ Offset(piece) <= walk.cursor
      /\ walk.cursor + walk.remaining = Offset(piece) + PieceSize(piece)
      /\ walk.cursor \in Nat /\ walk.remaining \in Nat
  BY DEF TypeInv, TypeOK, IdleInv, WalkInv, ContentInv, DoneInv, Whole, Sound, WalkType
<1>2. /\ Take(walk) \in Nat /\ Take(walk) <= walk.remaining
  BY <1>1, TakeBounds
<1>3. /\ Offset(piece) \in Nat /\ PieceSize(piece) \in Nat
  BY <1>1, PieceType
<1>4. \A p \in Places :
        disk'[p] = IF At(p) \in walk.cursor .. walk.cursor + n - 1
                   THEN Byte(torrent, At(p)) ELSE disk[p]
  BY <1>1, PutType
<1>5. ASSUME NEW p \in Places, disk'[p] # disk[p]
      PROVE  p \in PlacesOf(piece) /\ disk'[p] = Byte(torrent, At(p))
  <2>1. At(p) \in walk.cursor .. walk.cursor + n - 1 /\ disk'[p] = Byte(torrent, At(p))
    BY <1>4, <1>5
  <2>2. At(p) \in Offset(piece) .. Offset(piece) + PieceSize(piece) - 1
    BY <2>1, <1>1, <1>2, <1>3
  <2>3. QED
    BY <2>1, <2>2 DEF PlacesOf
<1>6. ASSUME NEW i \in Pieces \ {piece}
      PROVE  i \in Good' <=> i \in Good
  <2>1. \A p \in PlacesOf(i) : disk'[p] = disk[p]
    BY <1>1, <1>5, <1>6, PiecesApart, PlacesSame
  <2>2. QED
    BY <2>1 DEF Good, Stored
<1>7. QED
  BY <1>5, <1>6

(* what a whole walk has done is the piece *)
LEMMA DoneIsGood ==
  ASSUME TypeInv, ContentInv, piece # NoPiece, Whole, Over(walk)
  PROVE  piece \in Good \cup Since
<1>1. /\ piece \in Pieces /\ walk.remaining = 0 /\ walk.cursor \in Nat
      /\ walk.cursor + walk.remaining = Offset(piece) + PieceSize(piece)
  BY SoundOver DEF TypeInv, TypeOK, WalkInv, ContentInv, DoneInv, Sound, WalkType
<1>2. \A p \in PlacesOf(piece) : At(p) < walk.cursor
  BY <1>1, PieceType, PlaceType DEF PlacesOf
<1>3. \A p \in PlacesOf(piece) : disk[p] = Byte(torrent, At(p)) \/ piece \in Since
  BY <1>2 DEF ContentInv, DoneInv
<1>4. QED
  BY <1>1, <1>3 DEF Good, Stored

(* a file that is read as it should be has the bytes of the piece *)
LEMMA ReadSound ==
  ASSUME TypeInv, ContentInv, ReadFile
  PROVE  DoneInv' /\ WrongInv'
<1>1. /\ Sound(walk) /\ ~Over(walk) /\ piece \in Pieces /\ piece # NoPiece
      /\ pc \in Reads /\ Offset(piece) <= walk.cursor
      /\ walk.cursor \in Nat /\ walk.remaining \in Nat /\ piece' = piece
      /\ right' = (right /\ Agrees(torrent, piece, walk)) /\ walk' = Onward(walk)
      /\ pc' = pc /\ disk' = disk /\ torrent' = torrent /\ late' = late /\ damaged' = damaged
      /\ right \in BOOLEAN
  BY DEF ReadFile, TypeInv, TypeOK, WalkInv, Sound, WalkType, history, Reads
<1>2. /\ walk'.cursor = walk.cursor + Take(walk) /\ walk'.remaining = walk.remaining - Take(walk)
      /\ Take(walk) \in Nat /\ Take(walk) <= walk.remaining /\ Take(walk) \in 0 .. Take(walk)
  BY <1>1, SoundOnward, TakeBounds
<1>3. /\ Offset(piece) \in Nat /\ PieceSize(piece) \in Nat
  BY <1>1, PieceType
<1>4. \A p \in Places :
        /\ At(p) \in Nat
        /\ p \in Segment(walk, Take(walk)) <=> At(p) \in walk.cursor .. walk.cursor + Take(walk) - 1
        /\ p \in Segment(walk, Take(walk)) => ByteFor(walk, p) = At(p)
  BY <1>1, <1>2, SegmentIs, PlaceType
<1>5. Good' = Good
  BY <1>1, GoodSame
<1>6. DoneInv'
  <2>1. SUFFICES ASSUME piece' # NoPiece, Whole'
        PROVE  /\ walk'.cursor + walk'.remaining = Offset(piece) + PieceSize(piece)
               /\ \A p \in PlacesOf(piece) :
                    At(p) < walk'.cursor => disk[p] = Byte(torrent, At(p)) \/ piece \in Since
    BY <1>1 DEF DoneInv, Since, PlacesOf, PieceSize, Offset, Places, At, Byte
  <2>2. Whole /\ Agrees(torrent, piece, walk)
    BY <1>1, <2>1 DEF Whole, Reads
  <2>3. walk.cursor + walk.remaining = Offset(piece) + PieceSize(piece)
    BY <1>1, <2>2 DEF ContentInv, DoneInv
  <2>4. ASSUME NEW p \in PlacesOf(piece), At(p) < walk'.cursor
        PROVE  disk[p] = Byte(torrent, At(p)) \/ piece \in Since
    <3>1. p \in Places /\ At(p) < Offset(piece) + PieceSize(piece) /\ At(p) \in Nat
      BY <1>3, <1>4 DEF PlacesOf
    <3>2. CASE At(p) < walk.cursor
      BY <3>2, <2>2, <1>1 DEF ContentInv, DoneInv
    <3>3. CASE At(p) >= walk.cursor
      <4>1. p \in Segment(walk, Take(walk)) /\ ByteFor(walk, p) = At(p)
        BY <3>1, <3>3, <2>4, <1>1, <1>2, <1>4
      <4>2. QED
        BY <4>1, <3>1, <2>2 DEF Agrees
    <3>4. QED
      BY <3>1, <3>2, <3>3, <1>1
  <2>5. QED
    BY <2>3, <2>4, <1>1, <1>2
<1>7. WrongInv'
  <2>1. SUFFICES ASSUME right, ~Agrees(torrent, piece, walk) PROVE piece \notin Good
    BY <1>1, <1>5 DEF ContentInv, WrongInv
  <2>2. PICK p \in Segment(walk, Take(walk)) :
          ByteFor(walk, p) < Offset(piece) + PieceSize(piece) /\ disk[p] # Byte(torrent, ByteFor(walk, p))
    BY <2>1 DEF Agrees
  <2>3. p \in Places
    BY <2>2 DEF Segment
  <2>4. At(p) \in Offset(piece) .. Offset(piece) + PieceSize(piece) - 1 /\ disk[p] # Byte(torrent, At(p))
    BY <2>2, <2>3, <1>1, <1>2, <1>3, <1>4
  <2>5. QED
    BY <2>3, <2>4 DEF PlacesOf, Good, Stored
<1>8. QED
  BY <1>6, <1>7

LEMMA ContentInit == Init => ContentInv
  BY NoPieceIsNone
     DEF Init, ContentInv, OursOnDisk, DoneInv, WrongInv, RoleInv, ClaimsInv, CheckInv, Reads

(* a process that ends leaves nothing to hold *)
LEMMA ExitContent ==
  ASSUME NEW how, Exits(how) PROVE ContentInv'
  BY DEF Exits, AtRest, ContentInv, OursOnDisk, DoneInv, WrongInv, RoleInv, ClaimsInv,
         CheckInv, Reads

LEMMA ContentNext == TypeInv /\ ContentInv /\ [Next]_vars => ContentInv'
<1> SUFFICES ASSUME TypeInv, ContentInv, [Next]_vars PROVE ContentInv'
  OBVIOUS
<1> USE NoPieceIsNone DEF io, history
<1>t. /\ TypeOK /\ IdleInv /\ ProcessInv /\ WalkInv
      /\ OursOnDisk /\ DoneInv /\ WrongInv /\ RoleInv /\ ClaimsInv /\ CheckInv
  BY DEF TypeInv, ContentInv
<1>r. ASSUME AtRest, pc' # "serve", pc' # "write"
      PROVE  DoneInv' /\ WrongInv' /\ RoleInv'
  BY <1>r DEF AtRest, DoneInv, WrongInv, RoleInv
<1>p. ASSUME pc \in {"run", "save"}, pc' \in {"run", "save", "last"},
             UNCHANGED <<disk, torrent, ours, io, history>>
      PROVE  ContentInv'
  <2>1. Good' = Good
    BY <1>p, GoodSame
  <2>2. QED
    BY <2>1, <1>p, <1>t
       DEF ContentInv, OursOnDisk, DoneInv, WrongInv, RoleInv, ClaimsInv, CheckInv, Whole,
           Reads, IdleInv
<1>1. ASSUME NEW t \in Torrents, Start(t) PROVE ContentInv'
  <2>1. ours' = {} /\ piece' = NoPiece /\ right' = right /\ right /\ claimed' = todo' /\ pc' = "load"
    BY <1>1, <1>t DEF Start, ProcessInv, IdleInv
  <2>2. QED
    BY <2>1 DEF ContentInv, OursOnDisk, DoneInv, WrongInv, RoleInv, ClaimsInv, CheckInv
<1>2. CASE BeginRead
  <2>1. PICK i \in todo : piece' = i /\ walk' = Walk(Offset(i), PieceSize(i))
    BY <1>2 DEF BeginRead
  <2>2. /\ Good' = Good /\ i \in Pieces
    BY <1>2, <2>1, <1>t, GoodSame DEF BeginRead, TypeOK
  <2>3. walk'.cursor = Offset(i) /\ walk'.remaining = PieceSize(i)
    BY <2>1 DEF Walk
  <2>4. \A p \in PlacesOf(i) : ~(At(p) < Offset(i))
    BY <2>2, PieceType, PlaceType DEF PlacesOf
  <2>5. DoneInv'
    BY <2>1, <2>3, <2>4 DEF DoneInv, PlacesOf, Places, At, Offset, PieceSize
  <2>6. right' /\ pc' \in {"load", "check"}
    BY <1>2, <1>t DEF BeginRead, IdleInv
  <2>7. QED
    BY <2>2, <2>5, <2>6, <1>2, <1>t
       DEF BeginRead, ContentInv, OursOnDisk, WrongInv, RoleInv, ClaimsInv, CheckInv
<1>3. CASE ReadFile
  <2>1. Good' = Good
    BY <1>3, GoodSame DEF ReadFile
  <2>2. QED
    BY <2>1, <1>3, <1>t, ReadSound
       DEF ReadFile, ContentInv, OursOnDisk, RoleInv, ClaimsInv, CheckInv
<1>4. CASE ReadFails
  <2>1. Good' = Good
    BY <1>4, GoodSame DEF ReadFails
  <2>2. ~right' /\ piece' \in damaged' /\ pc' \in Reads
    BY <1>4 DEF ReadFails, Reads
  <2>3. DoneInv' /\ WrongInv'
    BY <2>2 DEF DoneInv, WrongInv, Whole, Reads
  <2>4. QED
    BY <2>1, <2>3, <1>4, <1>t
       DEF ReadFails, ContentInv, OursOnDisk, RoleInv, ClaimsInv, CheckInv
<1>5. CASE Verified
  <2>1. Good' = Good /\ piece \in Pieces
    BY <1>5, <1>t, GoodSame DEF Verified, TypeOK
  <2>2. right => piece \in Good \cup damaged
    BY <1>5, DoneIsGood DEF Verified, Whole, Since
  <2>3. ~right => piece \notin Good \/ piece \in damaged
    BY <1>5, <1>t DEF Verified, WrongInv, Reads
  <2>4. QED
    BY <2>1, <2>2, <2>3, <1>5, <1>r, <1>t
       DEF Verified, Counted, ContentInv, OursOnDisk, ClaimsInv, CheckInv
<1>6. CASE Loaded
  <2>1. Good' = Good
    BY <1>6, GoodSame DEF Loaded
  <2>2. QED
    BY <2>1, <1>6, <1>t
       DEF Loaded, ContentInv, OursOnDisk, DoneInv, WrongInv, RoleInv, ClaimsInv, CheckInv, Reads
<1>7. ASSUME NEW i \in Pieces, BeginWrite(i) PROVE ContentInv'
  <2>1. Good' = Good /\ piece' = i
    BY <1>7, GoodSame DEF BeginWrite
  <2>2. walk'.cursor = Offset(i) /\ walk'.remaining = PieceSize(i)
    BY <1>7 DEF BeginWrite, Walk
  <2>3. \A p \in PlacesOf(i) : ~(At(p) < Offset(i))
    BY PieceType, PlaceType DEF PlacesOf
  <2>4. DoneInv'
    BY <2>1, <2>2, <2>3 DEF DoneInv, PlacesOf, Places, At, Offset, PieceSize
  <2>5. QED
    BY <2>1, <2>4, <1>7, <1>t
       DEF BeginWrite, ContentInv, OursOnDisk, WrongInv, RoleInv, ClaimsInv, CheckInv, Reads
<1>8. CASE WriteFile
  <2>1. /\ pc = "write" /\ ~Over(walk) /\ Put(torrent, walk, Take(walk)) /\ walk' = Onward(walk)
        /\ UNCHANGED <<pc, torrent, ours, todo, piece, right, claimed, damaged, late>>
        /\ piece \in Pieces /\ piece # NoPiece /\ Sound(walk) /\ piece \notin ours
    BY <1>8, <1>t DEF WriteFile, TypeOK, IdleInv, WalkInv, RoleInv
  <2>2. /\ Take(walk) \in 0 .. Take(walk) /\ Take(walk) \in Nat /\ Take(walk) <= walk.remaining
        /\ walk'.cursor = walk.cursor + Take(walk) /\ walk'.remaining = walk.remaining - Take(walk)
        /\ walk.cursor \in Nat /\ walk.remaining \in Nat
    <3>1. Take(walk) \in Nat /\ Take(walk) <= walk.remaining
      BY <2>1, TakeBounds
    <3>2. walk.cursor \in Nat /\ walk.remaining \in Nat
      BY <2>1 DEF Sound, WalkType
    <3>3. /\ Onward(walk).cursor = walk.cursor + Take(walk)
          /\ Onward(walk).remaining = walk.remaining - Take(walk)
      BY <2>1, SoundOnward
    <3>4. Take(walk) \in 0 .. Take(walk)
      BY <3>1
    <3>5. QED
      BY <2>1, <3>1, <3>2, <3>3, <3>4
  <2>3. \A j \in Pieces \ {piece} : j \in Good' <=> j \in Good
    BY <2>1, <2>2, PutInside
  <2>4. \A p \in Places :
          disk'[p] = IF At(p) \in walk.cursor .. walk.cursor + Take(walk) - 1
                     THEN Byte(torrent, At(p)) ELSE disk[p]
    BY <2>1, <2>2, <1>t, PutType DEF TypeOK
  <2>5. DoneInv'
    <3>1. walk.cursor + walk.remaining = Offset(piece) + PieceSize(piece)
      BY <2>1, <1>t DEF DoneInv, Whole
    <3>2. Offset(piece) + PieceSize(piece) \in Nat
      BY <2>1, PieceType
    <3>3. walk'.cursor + walk'.remaining = Offset(piece) + PieceSize(piece)
      BY <3>1, <3>2, <2>2
    <3>4. ASSUME NEW p \in PlacesOf(piece), At(p) < walk'.cursor
          PROVE  disk'[p] = Byte(torrent, At(p)) \/ piece \in damaged
      <4>1. p \in Places /\ At(p) \in Nat
        BY <2>1, PlaceType DEF PlacesOf
      <4>2. At(p) < walk.cursor \/ At(p) \in walk.cursor .. walk.cursor + Take(walk) - 1
        BY <4>1, <2>2, <3>4
      <4>3. At(p) < walk.cursor => disk[p] = Byte(torrent, At(p)) \/ piece \in damaged
        BY <2>1, <1>t DEF DoneInv, Whole, Since
      <4>4. QED
        BY <4>1, <4>2, <4>3, <2>4
    <3>5. QED
      BY <3>3, <3>4, <2>1 DEF DoneInv, Since, PlacesOf, Places, At, Offset, PieceSize, Byte
  <2>6. QED
    BY <2>1, <2>3, <2>5, <1>t
       DEF ContentInv, OursOnDisk, WrongInv, RoleInv, ClaimsInv, CheckInv, Reads, TypeOK
<1>9. CASE Written
  <2>1. Good' = Good /\ piece \in Pieces /\ piece # NoPiece
    BY <1>9, <1>t, GoodSame DEF Written, TypeOK, IdleInv
  <2>2. piece \in Good \cup damaged
    BY <2>1, <1>9, DoneIsGood DEF Written, Whole, Since
  <2>3. QED
    BY <2>1, <2>2, <1>9, <1>r, <1>t DEF Written, ContentInv, OursOnDisk, ClaimsInv, CheckInv
<1>10. CASE WriteFails
  <2>1. PICK n \in 0 .. Take(walk) : Put(torrent, walk, n)
    BY <1>10 DEF WriteFails
  <2>2. \A j \in Pieces \ {piece} : j \in Good' <=> j \in Good
    BY <2>1, <1>10, PutInside DEF WriteFails
  <2>3. piece \notin ours /\ pc' = "last"
    BY <1>10, <1>t DEF WriteFails, RoleInv, BeginSave
  <2>4. QED
    BY <2>2, <2>3, <1>10, <1>r, <1>t
       DEF WriteFails, ContentInv, OursOnDisk, ClaimsInv, CheckInv, TypeOK
<1>11. CASE SaveDue
  BY <1>11, <1>p DEF SaveDue, BeginSave
<1>12. CASE SaveWritten
  BY <1>12, <1>p DEF SaveWritten
<1>13. CASE GivesUp
  BY <1>13, <1>p DEF GivesUp, BeginSave
<1>14. CASE LastWritten
  BY <1>14, ExitContent DEF LastWritten
<1>15. ASSUME NEW i \in Pieces, NEW begin \in 0 .. Total, NEW length \in 1 .. MaxServed,
              Serve(i, begin, length)
       PROVE  ContentInv'
  <2>1. Good' = Good /\ pc' = "serve" /\ piece' = i /\ i \in ours
    BY <1>15, GoodSame DEF Serve, Servable
  <2>2. right' = right /\ right
    BY <1>15, <1>t DEF Serve, IdleInv
  <2>3. QED
    BY <2>1, <2>2, <1>15, <1>t
       DEF Serve, ContentInv, OursOnDisk, DoneInv, WrongInv, RoleInv, ClaimsInv, CheckInv, Whole
<1>16. CASE Served
  <2>1. Good' = Good
    BY <1>16, GoodSame DEF Served
  <2>2. QED
    BY <2>1, <1>16, <1>r, <1>t DEF Served, ContentInv, OursOnDisk, ClaimsInv, CheckInv
<1>17. CASE BeginCheck
  <2>1. Good' = Good /\ piece' = NoPiece /\ right' = right /\ right
    BY <1>17, <1>t, GoodSame DEF BeginCheck, IdleInv
  <2>2. QED
    BY <2>1, <1>17, <1>t
       DEF BeginCheck, ContentInv, OursOnDisk, DoneInv, WrongInv, RoleInv, ClaimsInv, CheckInv,
           TypeOK
<1>18. CASE Checked
  <2>1. Good' = Good /\ piece \in Pieces
    BY <1>18, <1>t, GoodSame DEF Checked, TypeOK
  <2>2. right => piece \in Good \cup late
    BY <1>18, DoneIsGood DEF Checked, Whole, Since
  <2>3. ~right => piece \notin Good \/ piece \in damaged
    BY <1>18, <1>t DEF Checked, WrongInv, Reads
  <2>4. QED
    BY <2>1, <2>2, <2>3, <1>18, <1>r, <1>t
       DEF Checked, Kept, ContentInv, OursOnDisk, ClaimsInv, CheckInv
<1>19. CASE Complete
  BY <1>19, ExitContent DEF Complete
<1>20. CASE Recheck
  <2>1. Good' = Good /\ piece' = NoPiece /\ right' = right /\ right /\ pc' \in {"run", "last"}
    BY <1>20, <1>t, GoodSame DEF Recheck, AllRead, IdleInv, BeginSave
  <2>2. QED
    BY <2>1, <1>20, <1>t
       DEF Recheck, AllRead, ContentInv, OursOnDisk, DoneInv, WrongInv, RoleInv, ClaimsInv, CheckInv
<1>21. CASE Killed
  BY <1>21, ExitContent DEF Killed
<1>22. ASSUME NEW p \in Places, Damage(p) PROVE ContentInv'
  <2> DEFINE hit == {i \in Pieces : p \in PlacesOf(i)}
  <2>1. /\ UNCHANGED <<pc, torrent, ours, io, claimed>>
        /\ disk' = [disk EXCEPT ![p] = Junk]
        /\ damaged' = IF pc = "off" THEN {} ELSE damaged \cup hit
        /\ late' = IF pc = "check" THEN late \cup hit ELSE {}
    BY <1>22 DEF Damage
  <2>2. disk \in [Places -> Bytes \cup {Junk}] /\ torrent \in Torrents
    BY <1>t DEF TypeOK
  <2>3. \A q \in Places : q # p => disk'[q] = disk[q]
    BY <2>1, <2>2
  <2>4. disk'[p] \notin Bytes
    BY <2>1, <2>2, JunkAssumption
  <2>5. \A q \in Places : Byte(torrent, At(q)) \in Bytes
    <3>1. \A q \in Places : At(q) \in 0 .. Total - 1
      <4> SUFFICES ASSUME NEW q \in Places PROVE At(q) \in 0 .. Total - 1
        OBVIOUS
      <4>1. q[1] \in Files /\ At(q) \in Nat /\ At(q) < Ends[q[1]]
        BY PlaceType
      <4>2. q[1] \in 0 .. Len(Lengths) /\ Len(Lengths) \in 0 .. Len(Lengths) /\ q[1] <= Len(Lengths)
        BY <4>1, LayoutType DEF Files
      <4>3. Ends[q[1]] <= Total /\ Ends[q[1]] \in Nat /\ Total \in Nat
        BY <4>2, EndsGrow, LayoutType DEF Total
      <4>4. QED
        BY <4>1, <4>3
    <3>2. QED
      BY <3>1, <2>2 DEF Bytes
  <2>6. Good' \subseteq Good
    <3>1. \A q \in Places : disk'[q] = Byte(torrent, At(q)) => disk[q] = Byte(torrent, At(q))
      BY <2>3, <2>4, <2>5
    <3>2. QED
      BY <3>1, <2>1, PlacesSame DEF Good, Stored
  <2>7. Good \ Good' \subseteq hit
    BY <2>1, <2>3, PlacesSame DEF Good, Stored
  <2>8. CASE pc = "off"
    BY <2>1, <2>8, <1>t
       DEF ContentInv, OursOnDisk, DoneInv, WrongInv, RoleInv, ClaimsInv, CheckInv, ProcessInv,
           IdleInv, Reads
  <2>9. CASE pc # "off"
    <3>1. damaged' = damaged \cup hit
      BY <2>1, <2>9
    <3>2. pc = "check" => late' = late \cup hit
      BY <2>1
    <3>3. OursOnDisk' /\ WrongInv' /\ RoleInv'
      BY <3>1, <2>1, <2>6, <2>7, <1>t DEF OursOnDisk, WrongInv, RoleInv
    <3>4. ClaimsInv'
      BY <3>1, <2>1, <2>6, <2>9, <1>t DEF ClaimsInv
    <3>5. CheckInv'
      BY <3>2, <2>1, <2>6, <2>7, <1>t DEF CheckInv
    <3>6. DoneInv'
      <4>1. SUFFICES ASSUME piece # NoPiece, Whole
            PROVE  \A q \in PlacesOf(piece) :
                     At(q) < walk.cursor => disk'[q] = Byte(torrent, At(q)) \/ piece \in Since'
        BY <2>1, <1>t DEF DoneInv, Whole, PlacesOf, Places, At, Offset, PieceSize, Byte
      <4>2. piece \in Pieces /\ Since' = Since \cup hit
        BY <4>1, <3>1, <3>2, <2>1, <1>t DEF Since, TypeOK
      <4>3. ASSUME NEW q \in PlacesOf(piece), At(q) < walk.cursor
            PROVE  disk'[q] = Byte(torrent, At(q)) \/ piece \in Since'
        <5>1. disk[q] = Byte(torrent, At(q)) \/ piece \in Since
          BY <4>1, <4>3, <1>t DEF DoneInv
        <5>2. q = p => piece \in hit
          BY <4>2
        <5>3. QED
          BY <5>1, <5>2, <4>2, <2>3, PlacesSame
      <4>4. QED
        BY <4>3
    <3>7. QED
      BY <3>3, <3>4, <3>5, <3>6 DEF ContentInv
  <2>10. QED
    BY <2>8, <2>9
<1>23. CASE UNCHANGED vars
  <2>1. Good' = Good
    BY <1>23, GoodSame DEF vars
  <2>2. QED
    BY <2>1, <1>23, <1>t
       DEF vars, ContentInv, OursOnDisk, DoneInv, WrongInv, RoleInv, ClaimsInv, CheckInv, Whole,
           Since, PlacesOf, Places, At, Offset, PieceSize, Byte
<1>24. QED
  BY <1>1, <1>2, <1>3, <1>4, <1>5, <1>6, <1>7, <1>8, <1>9, <1>10, <1>11, <1>12, <1>13,
     <1>14, <1>15, <1>16, <1>17, <1>18, <1>19, <1>20, <1>21, <1>22, <1>23 DEF Next

LEMMA ContentHolds == Spec => [](TypeInv /\ ContentInv)
  BY TypeHolds, ContentInit, ContentNext, PTL DEF Spec

(* What a run counts as downloaded is on disk, in the right places of the    *)
(* right files, but for damage done since, whatever resume file it found and *)
(* whoever wrote it.                                                         *)
THEOREM OursIsOnDisk == Spec => []OursOnDisk
<1>1. ContentInv => OursOnDisk
  BY DEF ContentInv
<1>2. QED
  BY ContentHolds, <1>1, PTL

(* What a peer is sent of the piece it asked for is right. *)
THEOREM WhatIsServedIsRight == Spec => []ServedIsRight
<1>1. TypeInv /\ ContentInv => ServedIsRight
  BY DEF ContentInv, ServedIsRight, OursOnDisk, WrongInv, RoleInv, Reads
<1>2. QED
  BY ContentHolds, <1>1, PTL

(* Writing a piece changes no byte of another, whichever files they share. *)
THEOREM WritesStayInside == Spec => OthersUntouched
<1> USE DEF io, history
<1>1. TypeInv /\ ContentInv /\ [Next]_vars =>
        [\A p \in Places :
            disk'[p] # disk[p] /\ disk'[p] # Junk => pc = "write" /\ p \in PlacesOf(piece)]_vars
  <2> SUFFICES ASSUME TypeInv, ContentInv, Next, NEW p \in Places,
                      disk'[p] # disk[p], disk'[p] # Junk
               PROVE  pc = "write" /\ p \in PlacesOf(piece)
    OBVIOUS
  <2>1. disk \in [Places -> Bytes \cup {Junk}] /\ Sound(walk)
    BY DEF TypeInv, TypeOK, WalkInv
  <2>2. CASE WriteFile
    <3>1. Take(walk) \in 0 .. Take(walk)
      BY <2>1, <2>2, TakeBounds DEF WriteFile
    <3>2. QED
      BY <3>1, <2>2, PutInside DEF WriteFile
  <2>3. CASE WriteFails
    <3>1. PICK n \in 0 .. Take(walk) : Put(torrent, walk, n)
      BY <2>3 DEF WriteFails
    <3>2. QED
      BY <3>1, <2>3, PutInside DEF WriteFails
  <2>4. CASE Killed
    <3>1. pc = "write" /\ ~Over(walk) /\ torrent' = torrent
      BY <2>4 DEF Killed, Exits
    <3>2. PICK n \in 1 .. Take(walk) : Put(torrent, walk, n)
      BY <2>4 DEF Killed
    <3>3. n \in 0 .. Take(walk)
      BY <3>1, <2>1, TakeBounds
    <3>4. QED
      BY <3>1, <3>2, <3>3, PutInside
  <2>5. ASSUME NEW q \in Places, Damage(q) PROVE FALSE
    BY <2>1, <2>5 DEF Damage
  <2>6. disk' # disk
    OBVIOUS
  <2>7. QED
    BY <2>2, <2>3, <2>4, <2>5, <2>6
       DEF Next, Start, BeginRead, ReadFile, ReadFails, Verified, Loaded, BeginWrite, Written,
           SaveDue, SaveWritten, GivesUp, LastWritten, Serve, Served, BeginCheck, Checked,
           Complete, Recheck
<1>2. QED
  BY ContentHolds, <1>1, PTL DEF Spec, OthersUntouched

(* A piece that the resume file listed and the disk has is not fetched. *)
THEOREM NothingRefetched == Spec => NoRefetch
<1> USE DEF io, history
<1>1. TypeInv /\ ContentInv /\ [Next]_vars =>
        [pc = "run" /\ pc' = "write" => piece' \notin (claimed \cap Good) \ damaged]_vars
  <2> SUFFICES ASSUME TypeInv, ContentInv, Next, pc = "run", pc' = "write"
               PROVE  piece' \notin (claimed \cap Good) \ damaged
    OBVIOUS
  <2>1. \E i \in Pieces : BeginWrite(i)
    BY DEF Next, Start, BeginRead, ReadFile, ReadFails, Verified, Loaded, WriteFile, Written,
           WriteFails, BeginSave, SaveDue, SaveWritten, GivesUp, LastWritten, Exits, Serve,
           Served, BeginCheck, Checked, AllRead, Complete, Recheck, Killed, Damage
  <2>2. piece' \notin ours
    BY <2>1 DEF BeginWrite
  <2>3. QED
    BY <2>2 DEF ContentInv, ClaimsInv
<1>2. QED
  BY ContentHolds, <1>1, PTL DEF Spec, NoRefetch

(* A run that reports success leaves the whole content on disk, but for      *)
(* damage done while it was being checked.                                   *)
THEOREM CompleteMeansWhole == Spec => CompleteIsWhole
<1> USE DEF io, history
<1>1. TypeInv /\ ContentInv /\ [Next]_vars =>
        [result # "complete" /\ result' = "complete" => Good \cup late = Pieces]_vars
  <2> SUFFICES ASSUME TypeInv, ContentInv, Next, result # "complete", result' = "complete"
               PROVE  Good \cup late = Pieces
    OBVIOUS
  <2>1. Complete
    BY DEF Next, Start, BeginRead, ReadFile, ReadFails, Verified, Loaded, BeginWrite, WriteFile,
           Written, WriteFails, SaveDue, SaveWritten, GivesUp, LastWritten, Exits, Serve,
           Served, BeginCheck, Checked, Recheck, Killed, Damage
  <2>2. ours = Pieces /\ todo = {} /\ pc = "check"
    BY <2>1 DEF Complete, AllRead
  <2>3. late \subseteq Pieces /\ Good \subseteq Pieces
    BY DEF TypeInv, TypeOK, Good
  <2>4. QED
    BY <2>2, <2>3 DEF ContentInv, CheckInv
<1>2. QED
  BY ContentHolds, <1>1, PTL DEF Spec, CompleteIsWhole
=============================================================================
