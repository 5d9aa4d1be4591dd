------------------------------ MODULE MagnetProofs ------------------------------
(* Theorems about MetadataFetch and MagnetResolve for every dictionary and   *)
(* piece size, every set of peers, of payloads and of time limits.           *)
EXTENDS MagnetResolve, SequenceTheorems, FiniteSetTheorems, TLAPS

(* Where fetch_from_peers() is: who of the batch has stayed within reach is  *)
(* still to be asked or is being asked; he is never late, and what he has    *)
(* sent is at its place in the buffer.                                       *)
FetchInv ==
    /\ fetch = "off" => left = {}
    /\ fetch # "off" => fetched = "none" /\ steady \subseteq left \cup {peer}
    /\ fetched = "error" => steady = {}
    /\ metadata = [k \in 1 .. size |-> metadata[k]]
    /\ fetch \in {"piece", "piece_read"} => piece < PieceCount(size)
    /\ peer \in steady =>
        /\ late = FALSE
        /\ fetch \in {"piece", "piece_read"} =>
            size = Len(Genuine) /\ \A k \in 1 .. Start(piece) : metadata[k] = Genuine[k]

FetchOK == FetchTypeOK /\ FetchInv

(* fetch_from_peers() runs while it is waited for only, and everybody heard  *)
(* of was asked but for those of the round that goes on.                     *)
SearchInv ==
    /\ pc # "ask" => fetch = "off"
    /\ pc \in {"top", "ask", "done"} => known \subseteq tried
    /\ pc # "done" => result = "none"

IInv == TypeOK /\ FetchInv /\ SearchInv /\ GivesUpHonestly

-----------------------------------------------------------------------------
(* Pieces.                                                                   *)

LEMMA Division ==
  ASSUME NEW n \in Nat \ {0}, NEW a \in Nat
  PROVE  a = n * (a \div n) + (a % n) /\ a % n \in 0 .. n - 1 /\ a \div n \in Nat
OBVIOUS

LEMMA Rounding ==
  ASSUME NEW n \in Nat \ {0}, NEW a \in Nat, NEW c \in Nat, NEW r \in 0 .. n - 1,
         a + n - 1 = n * c + r
  PROVE  a <= c * n /\ (a > 0 => c > 0) /\ (a = 0 => c = 0)
         /\ \A p \in Nat : p < c => p * n < a
<1>1. n * c = c * n
  OBVIOUS
<1>2. a <= c * n
  BY <1>1
<1>3. a > 0 => c > 0
  BY <1>2
<1>4. ASSUME NEW p \in Nat, p < c PROVE p * n < a
  <2>1. (c - p - 1) * n >= 0
    BY <1>4
  <2>2. (c - p - 1) * n = c * n - p * n - n
    BY <1>4
  <2>3. c * n \in Nat /\ p * n \in Nat
    BY <1>4
  <2>4. QED
    BY <1>1, <2>1, <2>2, <2>3
<1>5. a = 0 => c = 0
  <2>1. SUFFICES ASSUME c > 0, a = 0 PROVE FALSE
    OBVIOUS
  <2>2. 0 * n < a
    BY <1>4, <2>1
  <2>3. QED
    BY <2>1, <2>2
<1>6. QED
  BY <1>2, <1>3, <1>4, <1>5

(* PieceCount() pieces cover the dictionary, and each begins in it *)
LEMMA Pieces ==
  ASSUME NEW n \in Nat
  PROVE  /\ PieceCount(n) \in Nat /\ (n > 0 => PieceCount(n) > 0) /\ PieceCount(0) = 0
         /\ n <= Start(PieceCount(n))
         /\ \A p \in Nat : p < PieceCount(n) => Start(p) < n
<1>1. PieceSize \in Nat \ {0} /\ n + PieceSize - 1 \in Nat
  BY SizesAssumption
<1>2. ASSUME NEW a \in Nat
      PROVE  /\ PieceCount(a) \in Nat
             /\ \E r \in 0 .. PieceSize - 1 :
                    a + PieceSize - 1 = PieceSize * PieceCount(a) + r
  <2> DEFINE b == a + PieceSize - 1
  <2>1. b \in Nat
    BY <1>1
  <2>2. b = PieceSize * (b \div PieceSize) + (b % PieceSize)
        /\ b % PieceSize \in 0 .. PieceSize - 1 /\ b \div PieceSize \in Nat
    BY <1>1, <2>1, Division
  <2>3. PieceCount(a) = b \div PieceSize
    BY DEF PieceCount
  <2>4. QED
    BY <2>2, <2>3
<1>3. \A a \in Nat : /\ a <= Start(PieceCount(a)) /\ (a > 0 => PieceCount(a) > 0)
                     /\ (a = 0 => PieceCount(a) = 0)
                     /\ \A p \in Nat : p < PieceCount(a) => Start(p) < a
  BY <1>1, <1>2, Rounding DEF Start
<1>4. QED
  BY <1>2, <1>3

LEMMA Starts ==
  ASSUME NEW p \in Nat
  PROVE  /\ Start(p) \in Nat /\ Start(p + 1) = Start(p) + PieceSize /\ Start(0) = 0
         /\ PieceSize \in Nat \ {0}
BY SizesAssumption DEF Start

(* what is cut out of the dictionary *)
LEMMA Cuts ==
  ASSUME NEW p \in Nat, Start(p) < Len(Genuine)
  PROVE  /\ Len(Cut(p)) = AtMost(PieceSize, Len(Genuine) - Start(p))
         /\ DOMAIN Cut(p) = 1 .. AtMost(PieceSize, Len(Genuine) - Start(p))
         /\ \A k \in DOMAIN Cut(p) : Cut(p)[k] = Genuine[Start(p) + k]
<1> DEFINE from == Start(p) + 1
           to == AtMost(Start(p) + PieceSize, Len(Genuine))
           cut == SubSeq(Genuine, from, to)
<1>1. Start(p) \in Nat /\ PieceSize \in Nat \ {0} /\ Len(Genuine) \in Nat
  BY Starts, SizesAssumption
<1>2. from \in 1 .. Len(Genuine) /\ to \in from .. Len(Genuine)
  BY <1>1 DEF AtMost
<1>3. to - from + 1 = AtMost(PieceSize, Len(Genuine) - Start(p))
  BY <1>1 DEF AtMost
<1>4. PICK S : Genuine \in Seq(S)
  BY SizesAssumption
<1>5. cut = Cut(p)
  BY DEF Cut
<1> HIDE DEF from, to, cut
<1>6. /\ SubSeq(Genuine, from, to) \in Seq(S)
      /\ Len(SubSeq(Genuine, from, to)) = IF from <= to THEN to - from + 1 ELSE 0
      /\ \A i \in 1 .. to - from + 1 : SubSeq(Genuine, from, to)[i] = Genuine[from + i - 1]
  BY <1>2, <1>4, SubSeqProperties
<1>7. /\ cut \in Seq(S) /\ Len(cut) = to - from + 1
      /\ \A i \in 1 .. to - from + 1 : cut[i] = Genuine[from + i - 1]
  BY <1>1, <1>2, <1>6 DEF cut
<1>8. DOMAIN cut = 1 .. to - from + 1
  BY <1>7, LenProperties
<1>9. \A i \in DOMAIN cut : cut[i] = Genuine[Start(p) + i]
  BY <1>1, <1>7, <1>8 DEF from
<1>10. QED
  BY <1>3, <1>5, <1>7, <1>8, <1>9

LEMMA GenuinePieces ==
  ASSUME NEW p \in Nat, p < PieceCount(Len(Genuine))
  PROVE  GenuinePiece[p] = [what |-> "data", piece |-> p, data |-> Cut(p)]
<1>1. PieceCount(Len(Genuine)) \in Nat
  BY Pieces, SizesAssumption
<1>2. p \in DOMAIN GenuinePiece
  BY <1>1 DEF GenuinePiece
<1>3. QED
  BY <1>2, CodecAssumption

(* a buffer is as long as it was made *)
LEMMA BufferLength ==
  ASSUME NEW n \in Nat, NEW f, f = [k \in 1 .. n |-> f[k]]
  PROVE  Len(f) = n /\ DOMAIN f = 1 .. n
<1>1. DOMAIN f = 1 .. n
  OBVIOUS
<1>2. f \in Seq({f[k] : k \in 1 .. n})
  OBVIOUS
<1>3. QED
  BY <1>1, <1>2, LenProperties

-----------------------------------------------------------------------------
(* The steps of fetch_from_peers().  None asks somebody anew.                *)

LEMMA Addresses ==
  NoPeer \notin Addrs /\ Holders \subseteq Addrs
BY AddrsAssumption

LEMMA Zeroes ==
  ASSUME NEW n \in Nat
  PROVE  Len(Zeroed(n)) = n /\ Zeroed(n) = [k \in 1 .. n |-> Zeroed(n)[k]]
<1>1. Zeroed(n) = [k \in 1 .. n |-> Zeroed(n)[k]]
  BY DEF Zeroed
<1>2. QED
  BY <1>1, BufferLength

LEMMA TurnsKeep ==
  ASSUME NEW S, S \subseteq Addrs, Turns(S),
         steady' \subseteq S, steady' \subseteq reachable', reachable' \subseteq Holders
  PROVE  FetchOK' /\ left' \subseteq S /\ (S # {} => peer' \in S)
<1>1. size' = 0 /\ piece' = 0 /\ late' = FALSE /\ metadata' = Zeroed(0)
  BY DEF Turns, FreshStream
<1>2. Len(metadata') = 0 /\ metadata' = [k \in 1 .. size' |-> metadata'[k]]
  BY <1>1, Zeroes
<1>3. PieceCount(size') = 0 /\ MaxSize \in Nat
  BY <1>1, Pieces, SizesAssumption
<1>4. CASE S = {}
  <2>1. fetch' = "off" /\ peer' = NoPeer /\ left' = {} /\ fetched' = "error" /\ steady' = {}
    BY <1>4 DEF Turns
  <2>2. FetchTypeOK'
    <3>1. size' \in 0 .. MaxSize /\ piece' \in 0 .. PieceCount(size')
      BY <1>1, <1>3
    <3>2. peer' \in Addrs \cup {NoPeer} /\ (peer' = NoPeer <=> fetch' = "off")
      BY <2>1
    <3>3. QED
      BY <1>1, <1>2, <2>1, <3>1, <3>2 DEF FetchTypeOK
  <2>3. FetchInv'
    BY <1>1, <1>2, <2>1 DEF FetchInv
  <2>4. QED
    BY <1>4, <2>1, <2>2, <2>3 DEF FetchOK
<1>5. CASE S # {}
  <2>1. peer' \in S /\ left' = S \ {peer'} /\ fetch' = "connect" /\ fetched' = "none"
    BY <1>5 DEF Turns
  <2>2. FetchTypeOK'
    <3>1. size' \in 0 .. MaxSize /\ piece' \in 0 .. PieceCount(size')
      BY <1>1, <1>3
    <3>2. peer' \in Addrs /\ peer' # NoPeer
      BY <2>1, Addresses
    <3>3. left' \subseteq Addrs \ {peer'}
      BY <2>1
    <3>4. QED
      BY <1>1, <1>2, <2>1, <3>1, <3>2, <3>3 DEF FetchTypeOK
  <2>3. FetchInv'
    BY <1>1, <1>2, <2>1 DEF FetchInv
  <2>4. QED
    BY <2>1, <2>2, <2>3 DEF FetchOK
<1>6. QED
  BY <1>4, <1>5

(* somebody who has stayed within reach is not given up *)
LEMMA NextPeerKeeps ==
  ASSUME FetchOK, fetch # "off", NextPeer, peer \notin steady
  PROVE  FetchOK' /\ left' \subseteq left
<1>1. left \subseteq Addrs /\ reachable \subseteq Holders /\ steady \subseteq reachable
  BY DEF FetchOK, FetchTypeOK
<1>2. steady \subseteq left
  BY DEF FetchOK, FetchInv
<1>3. Turns(left) /\ steady' = steady /\ reachable' = reachable
  BY DEF NextPeer, reachVars
<1>4. QED
  BY <1>1, <1>2, <1>3, TurnsKeep

(* the peer goes on *)
LEMMA SamePeerKeeps ==
  ASSUME FetchOK, fetch # "off", fetch' # "off",
         fetch' \in {"connect", "hello", "hello_read", "piece", "piece_read"},
         fetch' \in {"piece", "piece_read"} => fetch \in {"piece", "piece_read"},
         UNCHANGED <<peer, left, streamVars, fetched, reachVars>>
  PROVE  FetchOK' /\ left' \subseteq left
<1>1. /\ peer' = peer /\ left' = left /\ size' = size /\ piece' = piece
      /\ metadata' = metadata /\ late' = late /\ fetched' = fetched
      /\ reachable' = reachable /\ steady' = steady
  BY DEF streamVars, reachVars
<1>2. FetchTypeOK'
  BY <1>1 DEF FetchOK, FetchTypeOK
<1>3. FetchInv'
  BY <1>1 DEF FetchOK, FetchInv
<1>4. QED
  BY <1>1, <1>2, <1>3 DEF FetchOK

LEMMA WithinReach ==
  ASSUME FetchOK, peer \in steady
  PROVE  Serves
BY DEF FetchOK, FetchTypeOK, Serves

LEMMA ConnectedKeeps ==
  ASSUME FetchOK, Connected
  PROVE  FetchOK' /\ left' \subseteq left
BY SamePeerKeeps DEF Connected

LEMMA BreaksKeeps ==
  ASSUME FetchOK, Breaks
  PROVE  FetchOK' /\ left' \subseteq left
BY NextPeerKeeps, WithinReach DEF Breaks

LEMMA LoopTopKeeps ==
  ASSUME FetchOK, LoopTop
  PROVE  FetchOK' /\ left' \subseteq left
<1>1. fetch \in {"hello", "piece"}
  BY DEF LoopTop
<1>2. CASE late
  <2>1. peer \notin steady
    BY <1>2 DEF FetchOK, FetchInv
  <2>2. QED
    BY <1>1, <1>2, <2>1, NextPeerKeeps DEF LoopTop
<1>3. CASE ~late
  BY <1>1, <1>3, SamePeerKeeps DEF LoopTop
<1>4. QED
  BY <1>2, <1>3

LEMMA StrayKeeps ==
  ASSUME FetchOK, Stray
  PROVE  FetchOK' /\ left' \subseteq left
<1>1. fetch \in {"hello_read", "piece_read"}
  BY DEF Stray
<1>2. QED
  BY <1>1, SamePeerKeeps DEF Stray

LEMMA HelloKeeps ==
  ASSUME NEW h, FetchOK, Hello(h)
  PROVE  FetchOK' /\ left' \subseteq left
<1>1. fetch = "hello_read" /\ (Serves => h = GenuineHello)
  BY DEF Hello
<1>2. MaxSize \in Nat /\ Len(Genuine) \in 1 .. MaxSize
  BY SizesAssumption
<1>3. Serves => Acceptable(h) /\ h.metadata_size = Len(Genuine)
  BY <1>1, <1>2, CodecAssumption DEF Acceptable
<1>4. CASE Acceptable(h)
  <2>1. /\ size' = h.metadata_size /\ metadata' = Zeroed(h.metadata_size)
        /\ piece' = 0 /\ fetch' = "piece" /\ peer' = peer /\ left' = left /\ late' = late
        /\ fetched' = fetched /\ reachable' = reachable /\ steady' = steady
    BY <1>4 DEF Hello, reachVars
  <2>2. size' \in 1 .. MaxSize
    BY <1>4, <2>1 DEF Acceptable
  <2>3. /\ PieceCount(size') \in Nat /\ PieceCount(size') > 0 /\ Start(0) = 0
        /\ Len(metadata') = size' /\ metadata' = [k \in 1 .. size' |-> metadata'[k]]
    <3>1. size' \in Nat /\ size' > 0
      BY <1>2, <2>2
    <3>2. PieceCount(size') \in Nat /\ PieceCount(size') > 0
      BY <3>1, Pieces
    <3>3. Len(metadata') = size' /\ metadata' = [k \in 1 .. size' |-> metadata'[k]]
      BY <2>1, <3>1, Zeroes
    <3>4. QED
      BY <3>2, <3>3, Starts
  <2>4. FetchTypeOK'
    BY <1>1, <1>2, <2>1, <2>2, <2>3 DEF FetchOK, FetchTypeOK
  <2>5. peer' \in steady' => late' = FALSE /\ size' = Len(Genuine)
    BY <1>3, <2>1, WithinReach DEF FetchOK, FetchInv
  <2>6. \A k \in 1 .. Start(piece') : metadata'[k] = Genuine[k]
    BY <2>1, <2>3
  <2>7. FetchInv'
    BY <1>1, <2>1, <2>3, <2>5, <2>6 DEF FetchOK, FetchInv
  <2>8. QED
    BY <2>1, <2>4, <2>7 DEF FetchOK
<1>5. CASE ~Acceptable(h)
  <2>1. NextPeer /\ peer \notin steady
    BY <1>3, <1>5, WithinReach DEF Hello
  <2>2. QED
    BY <1>1, <2>1, NextPeerKeeps
<1>6. QED
  BY <1>4, <1>5

LEMMA WrittenLength ==
  ASSUME NEW start, NEW data, FetchOK
  PROVE  Written(start, data) = [k \in 1 .. size |-> Written(start, data)[k]]
         /\ DOMAIN Written(start, data) = 1 .. size
<1>1. DOMAIN metadata = 1 .. size
  BY DEF FetchOK, FetchInv
<1>2. QED
  BY <1>1 DEF Written

(* a piece of the dictionary is written behind those that came before it *)
LEMMA WrittenGenuine ==
  ASSUME FetchOK, fetch = "piece_read", peer \in steady
  PROVE  /\ Start(piece) + Len(Cut(piece)) <= size
         /\ \A k \in 1 .. size :
                k <= Start(piece + 1) => Written(Start(piece), Cut(piece))[k] = Genuine[k]
<1>1. /\ size = Len(Genuine) /\ size \in Nat /\ piece \in Nat /\ piece < PieceCount(size)
      /\ \A k \in 1 .. Start(piece) : metadata[k] = Genuine[k]
      /\ DOMAIN metadata = 1 .. size
  <2>1. MaxSize \in Nat /\ Len(Genuine) \in Nat
    BY SizesAssumption
  <2>2. size \in 0 .. MaxSize /\ piece \in 0 .. PieceCount(size)
    BY DEF FetchOK, FetchTypeOK
  <2>3. PieceCount(size) \in Nat
    BY <2>1, <2>2, Pieces
  <2>4. /\ piece < PieceCount(size) /\ size = Len(Genuine) /\ DOMAIN metadata = 1 .. size
        /\ \A k \in 1 .. Start(piece) : metadata[k] = Genuine[k]
    BY DEF FetchOK, FetchInv
  <2>5. QED
    BY <2>1, <2>2, <2>3, <2>4
<1>2. Start(piece) \in Nat /\ Start(piece) < size /\ Start(piece + 1) = Start(piece) + PieceSize
      /\ PieceSize \in Nat \ {0}
  BY <1>1, Pieces, Starts
<1>3. /\ Len(Cut(piece)) = AtMost(PieceSize, size - Start(piece))
      /\ DOMAIN Cut(piece) = 1 .. AtMost(PieceSize, size - Start(piece))
      /\ \A k \in DOMAIN Cut(piece) : Cut(piece)[k] = Genuine[Start(piece) + k]
  BY <1>1, <1>2, Cuts
<1>4. Start(piece) + Len(Cut(piece)) <= size
  BY <1>1, <1>2, <1>3 DEF AtMost
<1>5. ASSUME NEW k \in 1 .. size, k <= Start(piece + 1)
      PROVE  Written(Start(piece), Cut(piece))[k] = Genuine[k]
  <2>1. Written(Start(piece), Cut(piece))[k]
        = IF k - Start(piece) \in DOMAIN Cut(piece) THEN Cut(piece)[k - Start(piece)]
                                                    ELSE metadata[k]
    BY <1>1, <1>5 DEF Written
  <2>2. CASE k <= Start(piece)
    <3>1. k - Start(piece) \notin DOMAIN Cut(piece) /\ k \in 1 .. Start(piece)
      BY <1>1, <1>2, <1>3, <1>5, <2>2
    <3>2. QED
      BY <1>1, <2>1, <3>1
  <2>3. CASE k > Start(piece)
    <3>1. k - Start(piece) \in 1 .. AtMost(PieceSize, size - Start(piece))
      BY <1>1, <1>2, <1>5, <2>3 DEF AtMost
    <3>2. Cut(piece)[k - Start(piece)] = Genuine[Start(piece) + (k - Start(piece))]
      BY <1>3, <3>1
    <3>3. Start(piece) + (k - Start(piece)) = k
      BY <1>1, <1>2, <1>5
    <3>4. QED
      BY <1>3, <2>1, <3>1, <3>2, <3>3
  <2>4. QED
    BY <1>1, <1>2, <1>5, <2>2, <2>3
<1>6. QED
  BY <1>4, <1>5

LEMMA StoresKeeps ==
  ASSUME NEW data, FetchOK, fetch = "piece_read", Stores(data),
         peer \in steady => data = Cut(piece)
  PROVE  FetchOK' /\ left' \subseteq left
<1> DEFINE filled == Written(Start(piece), data)
<1>1. /\ size \in Nat /\ size <= MaxSize /\ piece \in Nat /\ piece < PieceCount(size)
      /\ PieceCount(size) \in Nat /\ PieceCount(0) = 0 /\ MaxSize \in Nat
  <2>1. size \in 0 .. MaxSize /\ piece \in 0 .. PieceCount(size) /\ MaxSize \in Nat
    BY SizesAssumption DEF FetchOK, FetchTypeOK
  <2>2. size \in Nat
    BY <2>1
  <2>3. PieceCount(size) \in Nat /\ PieceCount(0) = 0
    BY <2>2, Pieces
  <2>4. QED
    BY <2>1, <2>2, <2>3 DEF FetchOK, FetchInv
<1>2. peer \in steady => Start(piece) + Len(data) <= size
  BY WrittenGenuine
<1>3. Len(filled) = size /\ filled = [k \in 1 .. size |-> filled[k]]
  BY <1>1, WrittenLength, BufferLength
<1>4. /\ Start(piece) \in Nat /\ Start(piece + 1) \in Nat
      /\ piece + 1 < PieceCount(size) => Start(piece + 1) < size
      /\ piece + 1 >= PieceCount(size) => size <= Start(piece + 1)
  <2>1. Start(piece) \in Nat /\ Start(piece + 1) \in Nat /\ piece + 1 \in Nat
    BY <1>1, Starts
  <2>2. piece + 1 < PieceCount(size) => Start(piece + 1) < size
    BY <1>1, <2>1, Pieces
  <2>3. piece + 1 >= PieceCount(size) => piece + 1 = PieceCount(size)
    BY <1>1
  <2>4. size <= Start(PieceCount(size))
    BY <1>1, Pieces
  <2>5. QED
    BY <2>1, <2>2, <2>3, <2>4
<1>5. peer \in steady =>
        /\ size = Len(Genuine)
        /\ \A k \in 1 .. size : k <= Start(piece + 1) => filled[k] = Genuine[k]
  BY WrittenGenuine DEF FetchOK, FetchInv
<1> HIDE DEF filled
<1>6. CASE Start(piece) + Len(data) > size
  <2>1. NextPeer
    BY <1>6 DEF Stores
  <2>2. peer \notin steady
    <3>1. SUFFICES ASSUME peer \in steady PROVE FALSE
      OBVIOUS
    <3>2. Start(piece) + Len(Cut(piece)) <= size /\ data = Cut(piece)
      BY <3>1, WrittenGenuine
    <3>3. Len(Cut(piece)) \in Nat
      <4>1. Len(Cut(piece)) = AtMost(PieceSize, Len(Genuine) - Start(piece))
        BY <1>1, <1>5, <3>1, Pieces, Cuts
      <4>2. size = Len(Genuine) /\ Start(piece) < size /\ PieceSize \in Nat
        BY <1>1, <1>5, <3>1, Pieces, SizesAssumption
      <4>3. QED
        BY <1>1, <1>4, <4>1, <4>2 DEF AtMost
    <3>4. QED
      BY <1>1, <1>4, <1>6, <3>2, <3>3
  <2>3. QED
    BY <2>1, <2>2, NextPeerKeeps
<1>7. CASE ~(Start(piece) + Len(data) > size) /\ piece + 1 < PieceCount(size)
  <2>1. /\ metadata' = filled /\ piece' = piece + 1 /\ fetch' = "piece" /\ peer' = peer
        /\ left' = left /\ size' = size /\ late' = late /\ fetched' = fetched
        /\ reachable' = reachable /\ steady' = steady
    BY <1>7 DEF Stores, filled, reachVars
  <2>2. piece' \in 0 .. PieceCount(size') /\ piece' < PieceCount(size')
    BY <1>1, <1>7, <2>1
  <2>3. FetchTypeOK'
    BY <1>3, <2>1, <2>2 DEF FetchOK, FetchTypeOK
  <2>4. ASSUME peer' \in steady', NEW k \in 1 .. Start(piece') PROVE metadata'[k] = Genuine[k]
    <3>1. k \in 1 .. size /\ k <= Start(piece + 1) /\ peer \in steady
      BY <1>1, <1>4, <1>7, <2>1, <2>4
    <3>2. QED
      BY <1>5, <2>1, <3>1
  <2>5. FetchInv'
    BY <1>3, <1>5, <2>1, <2>2, <2>4 DEF FetchOK, FetchInv
  <2>6. QED
    BY <2>1, <2>3, <2>5 DEF FetchOK
<1>8. CASE ~(Start(piece) + Len(data) > size) /\ ~(piece + 1 < PieceCount(size))
  <2>1. CASE filled = Genuine
    <3>1. /\ fetch' = "off" /\ fetched' = "ok" /\ peer' = NoPeer /\ left' = {}
          /\ size' = 0 /\ piece' = 0 /\ metadata' = Zeroed(0) /\ late' = FALSE
          /\ reachable' = reachable /\ steady' = steady
      BY <1>8, <2>1 DEF Stores, filled, FreshStream, reachVars
    <3>2. Len(metadata') = size' /\ metadata' = [k \in 1 .. size' |-> metadata'[k]]
      BY <3>1, Zeroes
    <3>3. size' \in 0 .. MaxSize /\ piece' \in 0 .. PieceCount(size')
      BY <1>1, <3>1
    <3>4. FetchTypeOK'
      BY <3>1, <3>2, <3>3 DEF FetchOK, FetchTypeOK
    <3>5. peer' \notin steady'
      BY <3>1, Addresses DEF FetchOK, FetchTypeOK
    <3>6. FetchInv'
      BY <3>1, <3>2, <3>5 DEF FetchInv
    <3>7. QED
      BY <3>1, <3>4, <3>6 DEF FetchOK
  <2>2. CASE filled # Genuine
    <3>1. NextPeer
      BY <1>8, <2>2 DEF Stores, filled
    <3>2. peer \notin steady
      <4>1. SUFFICES ASSUME peer \in steady PROVE filled = Genuine
        BY <2>2
      <4>2. \A k \in 1 .. Len(Genuine) : filled[k] = Genuine[k]
        BY <1>1, <1>4, <1>5, <1>8, <4>1
      <4>3. Genuine = [k \in 1 .. Len(Genuine) |-> Genuine[k]]
        BY SizesAssumption
      <4>4. QED
        BY <1>3, <1>5, <4>1, <4>2, <4>3
    <3>3. QED
      BY <3>1, <3>2, NextPeerKeeps
  <2>3. QED
    BY <2>1, <2>2
<1>9. QED
  BY <1>6, <1>7, <1>8

LEMMA MetadataKeeps ==
  ASSUME NEW message, FetchOK, Metadata(message)
  PROVE  FetchOK' /\ left' \subseteq left
<1>1. fetch = "piece_read"
  BY DEF Metadata
<1>2. ASSUME peer \in steady
      PROVE  message.what = "data" /\ (ForUs(message) => message.data = Cut(piece))
  <2>1. PICK p \in 0 .. piece : message = GenuinePiece[p]
    BY <1>2, WithinReach DEF Metadata
  <2>2. size \in Nat /\ size = Len(Genuine) /\ piece \in Nat /\ piece < PieceCount(size)
    <3>1. size = Len(Genuine) /\ size \in Nat
      BY <1>1, <1>2, SizesAssumption DEF FetchOK, FetchInv
    <3>2. PieceCount(size) \in Nat
      BY <3>1, Pieces
    <3>3. QED
      BY <1>1, <3>1, <3>2 DEF FetchOK, FetchTypeOK, FetchInv
  <2>3. p \in Nat /\ p < PieceCount(Len(Genuine))
    BY <2>2, Pieces
  <2>4. message = [what |-> "data", piece |-> p, data |-> Cut(p)]
    BY <2>1, <2>3, GenuinePieces
  <2>5. QED
    BY <2>4 DEF ForUs
<1>3. CASE ForUs(message)
  <2>1. Stores(message.data)
    BY <1>3 DEF Metadata
  <2>2. QED
    BY <1>1, <1>2, <1>3, <2>1, StoresKeeps
<1>4. CASE ~ForUs(message) /\ message.what = "reject"
  <2>1. NextPeer
    BY <1>4 DEF Metadata
  <2>2. peer \notin steady
    BY <1>2, <1>4
  <2>3. QED
    BY <1>1, <2>1, <2>2, NextPeerKeeps
<1>5. CASE ~ForUs(message) /\ message.what # "reject"
  <2>1. fetch' = "piece" /\ UNCHANGED <<peer, left, streamVars, fetched, reachVars>>
    BY <1>5 DEF Metadata
  <2>2. QED
    BY <1>1, <2>1, SamePeerKeeps
<1>6. QED
  BY <1>3, <1>4, <1>5

LEMMA DeadlineKeeps ==
  ASSUME FetchOK, DeadlinePasses
  PROVE  FetchOK' /\ left' = left
<1>1. /\ fetch' = fetch /\ peer' = peer /\ left' = left /\ size' = size /\ piece' = piece
      /\ metadata' = metadata /\ late' = TRUE /\ fetched' = fetched
      /\ reachable' = reachable /\ steady' = steady
  BY DEF DeadlinePasses, reachVars
<1>2. peer \notin steady
  BY WithinReach DEF DeadlinePasses
<1>3. FetchTypeOK'
  BY <1>1 DEF FetchOK, FetchTypeOK
<1>4. FetchInv'
  BY <1>1, <1>2 DEF FetchOK, FetchInv
<1>5. QED
  BY <1>1, <1>3, <1>4 DEF FetchOK

LEMMA ReachKeeps ==
  ASSUME FetchOK, ReachChanges
  PROVE  FetchOK' /\ left' = left
<1>1. /\ fetch' = fetch /\ peer' = peer /\ left' = left /\ size' = size /\ piece' = piece
      /\ metadata' = metadata /\ late' = late /\ fetched' = fetched
      /\ reachable' \subseteq Holders /\ steady' = steady \cap reachable'
  BY DEF ReachChanges, fetchVars, streamVars
<1>2. FetchTypeOK'
  BY <1>1 DEF FetchOK, FetchTypeOK
<1>3. FetchInv'
  BY <1>1 DEF FetchOK, FetchInv
<1>4. QED
  BY <1>1, <1>2, <1>3 DEF FetchOK

-----------------------------------------------------------------------------
(* The rounds of resolve_magnet().                                           *)

LEMMA OkParts ==
  IInv <=> TypeOK /\ FetchOK /\ SearchInv /\ GivesUpHonestly
BY DEF IInv, TypeOK, FetchOK

LEMMA InitOK == Init => IInv
<1> SUFFICES ASSUME Init PROVE IInv
  OBVIOUS
<1>1. /\ pc = "top" /\ round = FALSE /\ known = {} /\ tried = {} /\ pause = 1 /\ elapsed = 0
      /\ result = "none" /\ budget \in Budgets \cup {NoBudget}
      /\ fetch = "off" /\ peer = NoPeer /\ left = {} /\ fetched = "none"
      /\ size = 0 /\ piece = 0 /\ metadata = Zeroed(0) /\ late = FALSE
      /\ reachable \subseteq Holders /\ steady = {}
  BY DEF Init, FetchInit
<1>2. Len(metadata) = size /\ metadata = [k \in 1 .. size |-> metadata[k]]
  BY <1>1, Zeroes
<1>3. size \in 0 .. MaxSize /\ piece \in 0 .. PieceCount(size)
  BY <1>1, Pieces, SizesAssumption
<1>4. FetchTypeOK
  BY <1>1, <1>2, <1>3 DEF FetchTypeOK
<1>5. pause \in 1 .. MaxPause /\ elapsed \in 0 .. (IF budget = NoBudget THEN 0 ELSE budget)
  BY <1>1, PauseAssumption, BudgetAssumption
<1>6. TypeOK
  BY <1>1, <1>4, <1>5 DEF TypeOK
<1>7. FetchInv
  BY <1>1, <1>2 DEF FetchInv
<1>8. SearchInv /\ GivesUpHonestly
  BY <1>1 DEF SearchInv, GivesUpHonestly
<1>9. QED
  BY <1>6, <1>7, <1>8 DEF IInv

(* time goes on, but not past what the user gave *)
LEMMA SpentType ==
  ASSUME NEW t \in Nat, TypeOK, Spent(t), budget' = budget
  PROVE  elapsed' \in 0 .. (IF budget' = NoBudget THEN 0 ELSE budget')
<1>1. CASE budget = NoBudget
  BY <1>1 DEF Spent
<1>2. CASE budget # NoBudget
  <2>1. budget \in Nat /\ elapsed \in Nat
    BY <1>2, BudgetAssumption DEF TypeOK
  <2>2. elapsed' = AtMost(budget, elapsed + t)
    BY <1>2 DEF Spent
  <2>3. elapsed' \in 0 .. budget
    BY <2>1, <2>2 DEF AtMost
  <2>4. QED
    BY <1>2, <2>3
<1>3. QED
  BY <1>1, <1>2

LEMMA FetchFrame ==
  ASSUME FetchOK, UNCHANGED <<fetchVars, reachVars>>
  PROVE  FetchOK' /\ fetch' = fetch /\ left' = left
BY DEF FetchOK, FetchTypeOK, FetchInv, fetchVars, streamVars, reachVars

LEMMA GiveUpKeeps ==
  ASSUME IInv, GiveUp
  PROVE  IInv'
<1>1. /\ pc = "top" /\ round = TRUE /\ budget # NoBudget /\ elapsed >= budget
      /\ pc' = "done" /\ result' = "gave_up" /\ budget' = budget /\ round' = round
      /\ known' = known /\ tried' = tried /\ pause' = pause /\ elapsed' = elapsed
      /\ UNCHANGED <<fetchVars, reachVars>>
  BY DEF GiveUp, OverBudget, IInv, TypeOK
<1>2. TypeOK /\ FetchOK /\ SearchInv /\ GivesUpHonestly
  BY OkParts
<1>3. FetchOK' /\ fetch' = fetch /\ left' = left
  BY <1>1, <1>2, FetchFrame
<1>4. FetchTypeOK'
  BY <1>3 DEF FetchOK
<1>5. TypeOK'
  BY <1>1, <1>2, <1>3, <1>4 DEF TypeOK
<1>6. SearchInv'
  BY <1>1, <1>2, <1>3 DEF SearchInv
<1>7. elapsed = budget
  BY <1>1, <1>2, BudgetAssumption DEF TypeOK
<1>8. known \subseteq tried /\ left = {}
  BY <1>1, <1>2 DEF SearchInv, FetchOK, FetchInv
<1>9. GivesUpHonestly'
  BY <1>1, <1>3, <1>7, <1>8 DEF GivesUpHonestly
<1>10. QED
  BY <1>3, <1>5, <1>6, <1>9, OkParts DEF IInv, FetchOK

(* a step of the rounds that neither asks nor ends the search *)
LEMMA RoundKeeps ==
  ASSUME IInv, pc # "done",
         pc' \in {"top", "announce", "dht", "batch"}, pc' = "top" => known' \subseteq tried',
         pc # "ask" \/ fetch = "off", result' = result,
         budget' = budget, round' \in BOOLEAN, known' \subseteq Addrs, tried' \subseteq known',
         pause' \in 1 .. MaxPause,
         elapsed' \in 0 .. (IF budget' = NoBudget THEN 0 ELSE budget'),
         UNCHANGED <<fetchVars, reachVars>>
  PROVE  IInv'
<1>1. TypeOK /\ FetchOK /\ SearchInv /\ GivesUpHonestly
  BY OkParts
<1>2. FetchOK' /\ fetch' = fetch /\ left' = left
  BY <1>1, FetchFrame
<1>3. FetchTypeOK' /\ FetchInv'
  BY <1>2 DEF FetchOK
<1>4. TypeOK'
  <2>1. left' = {}
    BY <1>1, <1>2 DEF SearchInv, FetchOK, FetchInv
  <2>2. QED
    BY <1>1, <1>3, <2>1 DEF TypeOK
<1>5. SearchInv'
  BY <1>1, <1>2 DEF SearchInv
<1>6. GivesUpHonestly'
  BY <1>1 DEF SearchInv, GivesUpHonestly
<1>7. QED
  BY <1>3, <1>4, <1>5, <1>6 DEF IInv

LEMMA NextRoundKeeps ==
  ASSUME IInv, NextRound
  PROVE  IInv'
<1>1. /\ pc = "top" /\ pc' = "announce" /\ round' = TRUE /\ budget' = budget
      /\ known' = known /\ tried' = tried /\ result' = result
      /\ UNCHANGED <<fetchVars, reachVars>>
  BY DEF NextRound
<1>2. TypeOK /\ fetch = "off"
  BY <1>1 DEF IInv, SearchInv
<1>3. known' \subseteq Addrs /\ tried' \subseteq known'
  BY <1>1, <1>2 DEF TypeOK
<1>4. pause \in Nat \ {0} /\ pause <= MaxPause /\ MaxPause \in Nat \ {0}
  BY <1>2, PauseAssumption DEF TypeOK
<1>5. CASE round
  <2>1. Spent(pause) /\ pause' = AtMost(2 * pause, MaxPause)
    BY <1>5 DEF NextRound, Longer
  <2>2. elapsed' \in 0 .. (IF budget' = NoBudget THEN 0 ELSE budget')
    BY <1>1, <1>2, <1>4, <2>1, SpentType
  <2>3. pause' \in 1 .. MaxPause
    BY <1>4, <2>1 DEF AtMost
  <2>4. QED
    BY <1>1, <1>2, <1>3, <2>2, <2>3, RoundKeeps
<1>6. CASE ~round
  <2>1. elapsed' = elapsed /\ pause' = pause
    BY <1>6 DEF NextRound
  <2>2. elapsed' \in 0 .. (IF budget' = NoBudget THEN 0 ELSE budget') /\ pause' \in 1 .. MaxPause
    BY <1>1, <1>2, <2>1 DEF TypeOK
  <2>3. QED
    BY <1>1, <1>2, <1>3, <2>2, RoundKeeps
<1>7. QED
  BY <1>5, <1>6

LEMMA AnnounceKeeps ==
  ASSUME NEW found \in SUBSET Addrs, NEW t \in 0 .. 1, IInv, Announce(found, t) \/ LookUp(found, t)
  PROVE  IInv'
<1>1. /\ pc \in {"announce", "dht"} /\ pc' \in {"dht", "batch"} /\ round' = round
      /\ budget' = budget /\ known' = known \cup found /\ tried' = tried /\ pause' = pause
      /\ result' = result /\ Spent(t) /\ UNCHANGED <<fetchVars, reachVars>>
  BY DEF Announce, LookUp
<1>2. TypeOK /\ fetch = "off"
  BY <1>1 DEF IInv, SearchInv
<1>3. /\ known' \subseteq Addrs /\ tried' \subseteq known' /\ round' \in BOOLEAN
      /\ pause' \in 1 .. MaxPause
  BY <1>1, <1>2 DEF TypeOK
<1>4. elapsed' \in 0 .. (IF budget' = NoBudget THEN 0 ELSE budget')
  BY <1>1, <1>2, SpentType
<1>5. QED
  BY <1>1, <1>2, <1>3, <1>4, RoundKeeps

LEMMA StartBatchKeeps ==
  ASSUME IInv, StartBatch
  PROVE  IInv'
<1>1. /\ pc = "batch" /\ tried' = tried \cup Batch /\ round' = round /\ budget' = budget
      /\ known' = known /\ pause' = pause /\ elapsed' = elapsed /\ result' = result
  BY DEF StartBatch
<1>2. TypeOK /\ FetchOK /\ SearchInv
  BY OkParts
<1>3. fetch = "off" /\ result = "none"
  BY <1>1, <1>2 DEF SearchInv
<1>4. Batch \subseteq known /\ known \subseteq tried \cup Batch
  BY DEF Batch
<1>5. /\ known' \subseteq Addrs /\ tried' \subseteq known' /\ known' \subseteq tried'
      /\ round' \in BOOLEAN /\ pause' \in 1 .. MaxPause
      /\ elapsed' \in 0 .. (IF budget' = NoBudget THEN 0 ELSE budget')
  BY <1>1, <1>2, <1>4 DEF TypeOK
<1>6. CASE Batch = {}
  <2>1. pc' = "top" /\ UNCHANGED <<fetchVars, reachVars>>
    BY <1>6 DEF StartBatch
  <2>2. QED
    BY <1>1, <1>3, <1>5, <2>1, RoundKeeps
<1>7. CASE Batch # {}
  <2>1. /\ pc' = "ask" /\ Turns(Batch) /\ steady' = Batch \cap reachable
        /\ reachable' = reachable
    BY <1>7 DEF StartBatch, FetchBegins
  <2>2. reachable \subseteq Holders /\ Batch \subseteq Addrs
    BY <1>2, <1>4 DEF TypeOK, FetchTypeOK
  <2>3. FetchOK' /\ left' \subseteq Batch
    BY <2>1, <2>2, TurnsKeep
  <2>4. TypeOK'
    BY <1>1, <1>2, <1>5, <2>1, <2>3 DEF TypeOK, FetchOK
  <2>5. SearchInv' /\ GivesUpHonestly'
    BY <1>1, <1>3, <1>5, <2>1 DEF SearchInv, GivesUpHonestly
  <2>6. QED
    BY <2>3, <2>4, <2>5 DEF IInv, FetchOK
<1>8. QED
  BY <1>6, <1>7

(* a step of fetch_from_peers() that is being waited for *)
LEMMA AskingKeeps ==
  ASSUME IInv, Asking, FetchOK', left' \subseteq left
  PROVE  IInv'
<1>1. /\ pc = "ask" /\ budget' = budget /\ pc' = pc /\ round' = round /\ known' = known
      /\ tried' = tried /\ pause' = pause /\ result' = result
  BY DEF Asking
<1>2. TypeOK /\ SearchInv /\ GivesUpHonestly
  BY DEF IInv
<1>3. elapsed' \in 0 .. (IF budget' = NoBudget THEN 0 ELSE budget')
  <2>1. CASE elapsed' = elapsed
    BY <1>1, <1>2, <2>1 DEF TypeOK
  <2>2. CASE \E t \in 0 .. 1 : Spent(t)
    <3>1. PICK t \in 0 .. 1 : Spent(t)
      BY <2>2
    <3>2. QED
      BY <1>1, <1>2, <3>1, SpentType
  <2>3. QED
    BY <2>1, <2>2 DEF Asking
<1>4. TypeOK'
  BY <1>1, <1>2, <1>3 DEF TypeOK, FetchOK
<1>5. SearchInv' /\ GivesUpHonestly'
  BY <1>1, <1>2 DEF SearchInv, GivesUpHonestly
<1>6. QED
  BY <1>4, <1>5 DEF IInv, FetchOK

LEMMA AskedKeeps ==
  ASSUME IInv, Asked
  PROVE  IInv'
<1>1. /\ pc = "ask" /\ fetch = "off" /\ round' = round /\ budget' = budget /\ known' = known
      /\ tried' = tried /\ pause' = pause /\ elapsed' = elapsed
      /\ UNCHANGED <<fetchVars, reachVars>>
  BY DEF Asked
<1>2. TypeOK /\ FetchOK /\ SearchInv
  BY OkParts
<1>3. \/ pc' = "done" /\ result' \in {"ok", "unparsable"}
      \/ pc' = "top" /\ result' = result
  BY DEF Asked
<1>4. FetchOK' /\ fetch' = fetch /\ left' = left
  BY <1>1, <1>2, FetchFrame
<1>5. TypeOK'
  BY <1>1, <1>2, <1>3, <1>4 DEF TypeOK, FetchOK
<1>6. SearchInv' /\ GivesUpHonestly'
  BY <1>1, <1>2, <1>3, <1>4 DEF SearchInv, GivesUpHonestly
<1>7. QED
  BY <1>4, <1>5, <1>6 DEF IInv, FetchOK

(* the clock, and the holders who come and go *)
LEMMA WorldKeeps ==
  ASSUME IInv, Clock \/ World
  PROVE  IInv'
<1>1. /\ pc' = pc /\ budget' = budget /\ round' = round /\ known' = known /\ tried' = tried
      /\ pause' = pause /\ elapsed' = elapsed /\ result' = result
  BY DEF Clock, World, resolveVars
<1>2. TypeOK /\ FetchOK /\ SearchInv /\ GivesUpHonestly
  BY OkParts
<1>3. FetchOK' /\ left' = left
  BY <1>2, DeadlineKeeps, ReachKeeps DEF Clock, World
<1>4. fetch' = fetch
  BY DEF Clock, World, DeadlinePasses, ReachChanges, fetchVars
<1>5. TypeOK'
  BY <1>1, <1>2, <1>3 DEF TypeOK, FetchOK
<1>6. SearchInv' /\ GivesUpHonestly'
  BY <1>1, <1>2, <1>3, <1>4 DEF SearchInv, GivesUpHonestly
<1>7. QED
  BY <1>3, <1>5, <1>6 DEF IInv, FetchOK

LEMMA NextKeeps ==
  IInv /\ [Next]_vars => IInv'
<1> SUFFICES ASSUME IInv, [Next]_vars PROVE IInv'
  OBVIOUS
<1>1. FetchOK
  BY OkParts
<1>2. CASE GiveUp
  BY <1>2, GiveUpKeeps
<1>3. CASE NextRound
  BY <1>3, NextRoundKeeps
<1>4. ASSUME NEW found \in SUBSET Addrs, NEW t \in 0 .. 1,
             Announce(found, t) \/ LookUp(found, t)
      PROVE  IInv'
  BY <1>4, AnnounceKeeps
<1>5. CASE StartBatch
  BY <1>5, StartBatchKeeps
<1>6. CASE (Connected \/ Breaks \/ LoopTop \/ Stray) /\ Asking
  <2>1. FetchOK' /\ left' \subseteq left
    BY <1>1, <1>6, ConnectedKeeps, BreaksKeeps, LoopTopKeeps, StrayKeeps
  <2>2. QED
    BY <1>6, <2>1, AskingKeeps
<1>7. ASSUME NEW h \in Handshakes, Hello(h) /\ Asking PROVE IInv'
  BY <1>1, <1>7, HelloKeeps, AskingKeeps
<1>8. ASSUME NEW message \in Messages, Metadata(message) /\ Asking PROVE IInv'
  BY <1>1, <1>8, MetadataKeeps, AskingKeeps
<1>9. CASE Asked
  BY <1>9, AskedKeeps
<1>10. CASE Clock \/ World
  BY <1>10, WorldKeeps
<1>11. CASE UNCHANGED vars
  <2>1. UNCHANGED <<fetchVars, reachVars>> /\ UNCHANGED resolveVars
    BY <1>11 DEF vars
  <2>2. FetchOK' /\ fetch' = fetch /\ left' = left
    BY <1>1, <2>1, FetchFrame
  <2>3. QED
    BY <2>1, <2>2 DEF IInv, TypeOK, SearchInv, GivesUpHonestly, FetchOK, resolveVars
<1>12. QED
  BY <1>2, <1>3, <1>4, <1>5, <1>6, <1>7, <1>8, <1>9, <1>10, <1>11 DEF Next, Resolve, Done

THEOREM Inductive == Spec => []IInv
BY InitOK, NextKeeps, PTL DEF Spec

(* The variables keep their types: no peer can make the buffer larger than   *)
(* MAX_METADATA_SIZE or have it written outside its size, whatever sizes it  *)
(* announces and however long its pieces are, nobody is asked who was not    *)
(* heard of, and the pause stays within METADATA_RETRY_PAUSE_MAX.            *)
THEOREM MagnetTypes == Spec => []TypeOK
BY Inductive, PTL DEF IInv

(* A batch in which one holder of the metadata stays within reach yields the *)
(* metadata: its every piece is put where it belongs, and no other peer and  *)
(* no message of its own stands in the way.                                  *)
THEOREM OneHolderSuffices == Spec => []HonestPeerSuffices
<1>1. IInv => HonestPeerSuffices
  BY DEF IInv, FetchInv, HonestPeerSuffices
<1>2. QED
  BY <1>1, Inductive, PTL

(* resolve_magnet() gives up between two rounds only, when the user's time   *)
(* is over and everybody heard of was asked.                                 *)
THEOREM NobodyLeftUnasked == Spec => []GivesUpHonestly
BY Inductive, PTL DEF IInv

-----------------------------------------------------------------------------
(* The end of a batch.  AskingLeft counts the peers that are left, and of    *)
(* one whose deadline has passed the message that may still come.            *)
PeersLeft == Cardinality(left) + (IF fetch = "off" THEN 0 ELSE 1)
LateBy ==
    IF late THEN IF fetch \in {"hello_read", "piece_read"} THEN 1 ELSE 2 ELSE 0
AskingLeft == 3 * PeersLeft - LateBy

(* There are never more peers left than there are.                           *)
AskingBounded == AskingLeft \in 0 .. 3 * Cardinality(Addrs)

(* A batch never has more left; it has less with every deadline and with     *)
(* every step after it, and so with every turn of the next peer.             *)
AskingRunsDown ==
    [][pc = "ask" =>
        /\ AskingLeft' <= AskingLeft
        /\ peer' # peer \/ late' # late \/ (late /\ fetch' # fetch)
            => AskingLeft' < AskingLeft]_vars

(* A deadline is one of a peer that is connected.                            *)
LateInv == late => fetch \in {"hello", "hello_read", "piece", "piece_read"}

LEMMA LeftType ==
  ASSUME FetchOK, LateInv
  PROVE  /\ IsFiniteSet(left) /\ Cardinality(left) \in Nat /\ Cardinality(Addrs) \in Nat
         /\ fetch = "off" => AskingLeft = 0
         /\ fetch # "off" =>
                /\ PeersLeft = Cardinality(left) + 1 /\ PeersLeft <= Cardinality(Addrs)
                /\ 3 * PeersLeft - 2 <= AskingLeft /\ AskingLeft <= 3 * PeersLeft
         /\ AskingBounded
<1>1. left \subseteq Addrs \ {peer} /\ peer \in Addrs \cup {NoPeer}
      /\ (peer = NoPeer <=> fetch = "off")
  BY DEF FetchOK, FetchTypeOK
<1>2. IsFiniteSet(Addrs) /\ Cardinality(Addrs) \in Nat
  BY AddrsAssumption, FS_CardinalityType
<1>3. IsFiniteSet(left) /\ Cardinality(left) <= Cardinality(Addrs)
  BY <1>1, <1>2, FS_Subset
<1>4. Cardinality(left) \in Nat
  BY <1>3, FS_CardinalityType
<1>5. CASE fetch = "off"
  <2>1. left = {} /\ late = FALSE
    BY <1>5 DEF FetchOK, FetchInv, FetchTypeOK, LateInv
  <2>2. Cardinality(left) = 0
    BY <2>1, FS_EmptySet
  <2>3. PeersLeft = 0
    BY <1>5, <2>2 DEF PeersLeft
  <2>4. AskingLeft = 0
    <3>1. LateBy = 0
      BY <2>1 DEF LateBy
    <3>2. QED
      BY <2>3, <3>1 DEF AskingLeft
  <2>5. QED
    BY <1>2, <1>3, <1>4, <1>5, <2>4 DEF AskingBounded
<1>6. CASE fetch # "off"
  <2>1. peer \in Addrs /\ left \subseteq Addrs \ {peer}
    BY <1>1, <1>6
  <2>2. Cardinality(Addrs \ {peer}) = Cardinality(Addrs) - 1 /\ IsFiniteSet(Addrs \ {peer})
    BY <1>2, <2>1, FS_RemoveElement
  <2>3. Cardinality(left) <= Cardinality(Addrs \ {peer})
    BY <2>1, <2>2, FS_Subset
  <2>4. PeersLeft = Cardinality(left) + 1
    BY <1>6 DEF PeersLeft
  <2>5. 3 * PeersLeft - 2 <= AskingLeft /\ AskingLeft <= 3 * PeersLeft /\ AskingLeft \in Int
    <3>1. LateBy \in 0 .. 2
      BY DEF LateBy
    <3>2. QED
      BY <1>4, <2>4, <3>1 DEF AskingLeft
  <2>6. AskingBounded
    BY <1>2, <1>4, <2>2, <2>3, <2>4, <2>5 DEF AskingBounded
  <2>7. QED
    BY <1>2, <1>3, <1>4, <1>6, <2>2, <2>3, <2>4, <2>5, <2>6
<1>7. QED
  BY <1>5, <1>6

(* the next peer's turn, or the end of the batch *)
LEMMA TurnLeft ==
  ASSUME FetchOK, LateInv, fetch # "off",
         \/ NextPeer
         \/ fetch' = "off" /\ left' = {} /\ late' = FALSE
  PROVE  LateInv' /\ AskingLeft' < AskingLeft /\ AskingLeft' <= AskingLeft
<1>1. /\ Cardinality(left) \in Nat /\ IsFiniteSet(left)
      /\ PeersLeft = Cardinality(left) + 1 /\ 3 * PeersLeft - 2 <= AskingLeft
      /\ AskingLeft <= 3 * PeersLeft /\ AskingLeft \in Int
  <2>1. AskingLeft \in Int
    BY LeftType DEF AskingBounded
  <2>2. QED
    BY <2>1, LeftType
<1>2. late' = FALSE
  BY DEF NextPeer, Turns, FreshStream
<1>3. CASE fetch' = "off" /\ left' = {}
  <2>1. Cardinality(left') = 0
    BY <1>3, FS_EmptySet
  <2>2. PeersLeft' = 0
    BY <1>3, <2>1 DEF PeersLeft
  <2>3. AskingLeft' = 0
    <3>1. LateBy' = 0
      BY <1>2 DEF LateBy
    <3>2. QED
      BY <2>2, <3>1 DEF AskingLeft
  <2>4. QED
    BY <1>1, <1>2, <2>3 DEF LateInv
<1>4. CASE \E a \in left : left' = left \ {a} /\ fetch' = "connect"
  <2>1. PICK a \in left : left' = left \ {a}
    BY <1>4
  <2>2. Cardinality(left') = Cardinality(left) - 1
    BY <1>1, <2>1, FS_RemoveElement
  <2>3. PeersLeft' = PeersLeft - 1
    BY <1>1, <1>4, <2>2 DEF PeersLeft
  <2>4. AskingLeft' = 3 * (PeersLeft - 1)
    <3>1. LateBy' = 0
      BY <1>2 DEF LateBy
    <3>2. QED
      BY <1>1, <2>3, <3>1 DEF AskingLeft
  <2>5. QED
    BY <1>1, <1>2, <2>4 DEF LateInv
<1>5. QED
  BY <1>3, <1>4 DEF NextPeer, Turns

(* the peer goes on; a step at the top of a loop is not one of a late peer *)
LEMMA SamePeerLeft ==
  ASSUME FetchOK, LateInv, fetch # "off", left' = left, late' = late,
         fetch' \in {"hello", "hello_read", "piece", "piece_read"},
         late => fetch \in {"hello_read", "piece_read"} /\ fetch' \in {"hello", "piece"}
  PROVE  LateInv' /\ AskingLeft' <= AskingLeft /\ (late => AskingLeft' < AskingLeft)
<1>1. Cardinality(left) \in Nat
  BY LeftType
<1>2. PeersLeft' = PeersLeft /\ PeersLeft \in Nat
  BY <1>1 DEF PeersLeft
<1>3. LateInv'
  BY DEF LateInv
<1>4. CASE late
  <2>1. LateBy = 1 /\ LateBy' = 2
    BY <1>4 DEF LateBy
  <2>2. QED
    BY <1>2, <1>3, <2>1 DEF AskingLeft
<1>5. CASE ~late
  <2>1. LateBy = 0 /\ LateBy' = 0
    BY <1>5 DEF LateBy
  <2>2. QED
    BY <1>2, <1>3, <1>5, <2>1 DEF AskingLeft
<1>6. QED
  BY <1>4, <1>5

(* Every step of fetch_from_peers().                                         *)
FetchStep ==
    \/ Connected \/ Breaks \/ LoopTop \/ Stray
    \/ \E h \in Handshakes : Hello(h)
    \/ \E message \in Messages : Metadata(message)

LEMMA FetchLeft ==
  ASSUME FetchOK, LateInv, FetchStep
  PROVE  /\ LateInv' /\ AskingLeft' <= AskingLeft
         /\ peer' # peer \/ late' # late \/ late => AskingLeft' < AskingLeft
<1> DEFINE SamePeer ==
             /\ fetch' \in {"hello", "hello_read", "piece", "piece_read"}
             /\ left' = left /\ late' = late /\ peer' = peer
             /\ late => /\ fetch \in {"hello_read", "piece_read"}
                       /\ fetch' \in {"hello", "piece"}
           Ends == fetch' = "off" /\ left' = {} /\ late' = FALSE
<1>1. fetch # "off"
  BY DEF FetchStep, Connected, Breaks, LoopTop, Stray, Hello, Metadata
<1>2. SamePeer \/ NextPeer \/ Ends
  <2>1. CASE Connected
    BY <2>1 DEF Connected, LateInv, streamVars
  <2>2. CASE Breaks
    BY <2>2 DEF Breaks
  <2>3. CASE LoopTop
    BY <2>3 DEF LoopTop, streamVars
  <2>4. CASE Stray
    BY <2>4 DEF Stray, streamVars
  <2>5. ASSUME NEW h, Hello(h) PROVE SamePeer \/ NextPeer
    BY <2>5 DEF Hello
  <2>6. ASSUME NEW message, Metadata(message) PROVE SamePeer \/ NextPeer \/ Ends
    BY <2>6 DEF Metadata, Stores, FreshStream, streamVars
  <2>7. QED
    BY <2>1, <2>2, <2>3, <2>4, <2>5, <2>6 DEF FetchStep
<1>3. CASE SamePeer
  BY <1>1, <1>3, SamePeerLeft
<1>4. CASE NextPeer \/ Ends
  BY <1>1, <1>4, TurnLeft
<1>5. QED
  BY <1>2, <1>3, <1>4

(* The deadline, which is one of somebody who was awaited.                   *)
LEMMA DeadlineLeft ==
  ASSUME FetchOK, LateInv, DeadlinePasses
  PROVE  LateInv' /\ AskingLeft' < AskingLeft /\ AskingLeft' <= AskingLeft /\ peer' = peer
<1>1. /\ fetch \in {"hello_read", "piece_read"} /\ late = FALSE /\ late' = TRUE
      /\ fetch' = fetch /\ left' = left /\ peer' = peer
  BY DEF DeadlinePasses, FetchOK, FetchTypeOK
<1>2. PeersLeft' = PeersLeft /\ PeersLeft \in Nat
  BY <1>1, LeftType DEF PeersLeft
<1>3. LateBy = 0 /\ LateBy' = 1
  BY <1>1 DEF LateBy
<1>4. AskingLeft = 3 * PeersLeft /\ AskingLeft' = 3 * PeersLeft - 1
  BY <1>2, <1>3 DEF AskingLeft
<1>5. QED
  BY <1>1, <1>2, <1>4 DEF LateInv

(* Any other step leaves a batch that is being asked alone.                  *)
LEMMA OthersLeft ==
  ASSUME FetchOK, LateInv, [Next]_vars, ~(FetchStep /\ Asking), ~Clock
  PROVE  /\ LateInv'
         /\ pc = "ask" => UNCHANGED <<fetch, peer, left, late>>
<1>1. CASE GiveUp \/ NextRound \/ Asked \/ Done \/ UNCHANGED vars
  BY <1>1 DEF GiveUp, NextRound, Asked, Done, vars, fetchVars, streamVars, LateInv
<1>2. ASSUME NEW found, NEW t, Announce(found, t) \/ LookUp(found, t)
      PROVE  UNCHANGED fetchVars
  BY <1>2 DEF Announce, LookUp
<1>3. CASE StartBatch
  BY <1>3 DEF StartBatch, FetchBegins, Turns, FreshStream, fetchVars, streamVars, LateInv
<1>4. CASE World
  BY <1>4 DEF World, ReachChanges, fetchVars, streamVars, LateInv
<1>5. CASE UNCHANGED fetchVars
  BY <1>5 DEF fetchVars, streamVars, LateInv
<1>6. QED
  BY <1>1, <1>2, <1>3, <1>4, <1>5 DEF Next, Resolve, FetchStep

LEMMA AskingNext ==
  ASSUME IInv, LateInv, [Next]_vars
  PROVE  /\ LateInv'
         /\ pc = "ask" =>
                /\ AskingLeft' <= AskingLeft
                /\ peer' # peer \/ late' # late \/ (late /\ fetch' # fetch)
                    => AskingLeft' < AskingLeft
<1>1. FetchOK
  BY OkParts
<1>2. CASE FetchStep
  BY <1>1, <1>2, FetchLeft
<1>3. CASE Clock
  BY <1>1, <1>3, DeadlineLeft DEF Clock
<1>4. CASE ~(FetchStep /\ Asking) /\ ~Clock
  <2>1. LateInv' /\ (pc = "ask" => UNCHANGED <<fetch, peer, left, late>>)
    BY <1>1, <1>4, OthersLeft
  <2>2. AskingLeft \in Int
    BY <1>1, LeftType DEF AskingBounded
  <2>3. pc = "ask" => AskingLeft' = AskingLeft
    BY <2>1 DEF AskingLeft, LateBy, PeersLeft
  <2>4. QED
    BY <2>1, <2>2, <2>3
<1>5. QED
  BY <1>2, <1>3, <1>4

(* What SearchEnds rests on: whoever is heard of, and whatever they send,    *)
(* a batch has at most as many turns as there are peers, and a peer whose    *)
(* FETCH_DEADLINE has passed is left after one message more at most.         *)
THEOREM BatchRunsOut == Spec => []AskingBounded /\ AskingRunsDown
<1>1. Init => LateInv
  BY DEF Init, FetchInit, LateInv
<1>2. IInv /\ LateInv /\ [Next]_vars => LateInv'
  BY AskingNext
<1>3. Spec => []LateInv
  BY <1>1, <1>2, Inductive, PTL DEF Spec
<1>4. IInv /\ LateInv => AskingBounded
  BY OkParts, LeftType
<1>5. IInv /\ LateInv /\ [Next]_vars
      => [pc = "ask" =>
            /\ AskingLeft' <= AskingLeft
            /\ peer' # peer \/ late' # late \/ (late /\ fetch' # fetch)
                => AskingLeft' < AskingLeft]_vars
  BY AskingNext
<1>6. QED
  BY <1>3, <1>4, <1>5, Inductive, PTL DEF Spec, AskingRunsDown
=============================================================================
