----------------------------- MODULE MetadataFetch -----------------------------
(* The info dictionary of a magnet link fetched from a batch of peers        *)
(* (bt/src/metadata.rs): fetch_from_peers() asks one peer after the other,   *)
(* fetch_from_stream() takes the dictionary from one of them piece by piece, *)
(* within FETCH_DEADLINE, and checks the hash of the whole.  MagnetResolve   *)
(* calls it.                                                                 *)
(*                                                                           *)
(* A peer may send any of the payloads at any time, but for the holders that *)
(* are within reach: those have the dictionary and keep to the protocol.     *)
(* The dictionary is bencoded like the messages it comes in; sizes are       *)
(* counted in tokens.                                                        *)
EXTENDS Extensions

CONSTANTS
    Addrs,          \* addresses of peers
    NoPeer,
    Holders,        \* those whose peers have the metadata
    PieceSize,      \* METADATA_PIECE_SIZE
    Genuine,        \* the genuine dictionary
    MaxSize,        \* MAX_METADATA_SIZE
    Payloads        \* bound: payloads of the extension messages that come

ASSUME AddrsAssumption ==
    IsFiniteSet(Addrs) /\ Holders \subseteq Addrs /\ NoPeer \notin Addrs
ASSUME SizesAssumption ==
    /\ PieceSize \in Nat \ {0} /\ MaxSize \in Nat
    /\ Genuine \in Seq([t : STRING, n : Int]) /\ Len(Genuine) \in 1 .. MaxSize

VARIABLES
    fetch,      \* "off", "connect", "hello" and "piece" (top of the two loops),
                \* "hello_read" and "piece_read" (in read_message)
    peer,       \* the peer that is asked
    left,       \* those of the batch still to be asked; their order is left open
    size,       \* metadata_size of the peer's handshake
    piece,      \* the piece asked for
    metadata,   \* the buffer
    late,       \* the deadline of this peer has passed
    fetched,    \* what fetch_from_peers() returned: "none" yet, "ok" or "error"
    reachable,  \* holders within reach now
    steady      \* those of the batch within reach all the time: history

streamVars == <<size, piece, metadata, late>>
fetchVars == <<fetch, peer, left, streamVars, fetched>>
reachVars == <<reachable, steady>>

AtMost(m, n) == IF m <= n THEN m ELSE n
PieceCount(total) == (total + PieceSize - 1) \div PieceSize
Start(p) == p * PieceSize
Zeroed(total) == [k \in 1 .. total |-> Mark("x")]

(* a holder within reach is asked *)
Serves == peer \in reachable

(* what may come, as it is understood: all of it, and what a holder answers *)
Handshakes == {ParsedHandshake(payload) : payload \in Payloads}
Messages == {ParsedMetadata(payload) : payload \in Payloads}
GenuineHello == ParsedHandshake(ExtHandshake(Len(Genuine)))
Cut(p) == SubSeq(Genuine, Start(p) + 1, AtMost(Start(p) + PieceSize, Len(Genuine)))
GenuinePiece ==
    [p \in 0 .. PieceCount(Len(Genuine)) - 1 |->
        ParsedMetadata(MetadataData(p, Len(Genuine), Cut(p)))]

(* what a holder sends is understood, and its data cut out where it begins,  *)
(* whatever it looks like: induction over the tokens, which is left to TLC   *)
(* for the dictionary at hand                                                *)
ASSUME CodecAssumption ==
    /\ GenuineHello = [ok |-> TRUE, ut_metadata |-> 1, metadata_size |-> Len(Genuine)]
    /\ \A p \in DOMAIN GenuinePiece :
        GenuinePiece[p] = [what |-> "data", piece |-> p, data |-> Cut(p)]

(* nothing of another peer's stream is left *)
FreshStream == size' = 0 /\ piece' = 0 /\ metadata' = Zeroed(0) /\ late' = FALSE

FetchInit ==
    /\ fetch = "off" /\ peer = NoPeer /\ left = {} /\ fetched = "none"
    /\ size = 0 /\ piece = 0 /\ metadata = Zeroed(0) /\ late = FALSE
    /\ reachable \in SUBSET Holders /\ steady = {}

-----------------------------------------------------------------------------
(* the next of the peers S, or the end of the list *)
Turns(S) ==
    /\ IF S = {} THEN fetch' = "off" /\ peer' = NoPeer /\ left' = {} /\ fetched' = "error"
       ELSE /\ \E a \in S : peer' = a /\ left' = S \ {a}
            /\ fetch' = "connect" /\ fetched' = "none"
    /\ FreshStream

(* fetch_from_peers() is called *)
FetchBegins(batch) ==
    /\ Turns(batch)
    /\ steady' = batch \cap reachable /\ UNCHANGED reachable

(* the attempt failed: the next peer, or the last error *)
NextPeer == Turns(left) /\ UNCHANGED reachVars

(* connect, handshake with the extension bit, our extension handshake sent *)
Connected ==
    /\ fetch = "connect" /\ fetch' = "hello"
    /\ UNCHANGED <<peer, left, streamVars, fetched, reachVars>>

(* refused, no extensions, or (later) the connection breaks or read_message  *)
(* times out or fails *)
Breaks == fetch \in {"connect", "hello_read", "piece_read"} /\ ~Serves /\ NextPeer

\* mutant: the clock is not looked at
LoopTopPatient ==
    /\ fetch \in {"hello", "piece"}
    /\ fetch' = IF fetch = "hello" THEN "hello_read" ELSE "piece_read"
    /\ UNCHANGED <<peer, left, streamVars, fetched, reachVars>>

(* each pass of a loop looks at the clock before it reads a message *)
LoopTop ==
    /\ fetch \in {"hello", "piece"}
    /\ IF late THEN NextPeer
       ELSE /\ fetch' = IF fetch = "hello" THEN "hello_read" ELSE "piece_read"
            /\ UNCHANGED <<peer, left, streamVars, fetched, reachVars>>

(* a message the loop has no use for *)
Stray ==
    /\ fetch \in {"hello_read", "piece_read"}
    /\ fetch' = IF fetch = "hello_read" THEN "hello" ELSE "piece"
    /\ UNCHANGED <<peer, left, streamVars, fetched, reachVars>>

\* mutant: the size is not limited
AcceptableAny(h) == h.ok /\ h.ut_metadata # 0 /\ h.metadata_size # 0
Acceptable(h) == h.ok /\ h.ut_metadata # 0 /\ h.metadata_size \in 1 .. MaxSize

(* the peer's extension handshake: the first piece is asked for *)
Hello(h) ==
    /\ fetch = "hello_read"
    /\ Serves => h = GenuineHello
    /\ IF Acceptable(h)
       THEN /\ size' = h.metadata_size /\ metadata' = Zeroed(h.metadata_size)
            /\ piece' = 0 /\ fetch' = "piece"
            /\ UNCHANGED <<peer, left, late, fetched, reachVars>>
       ELSE NextPeer

Written(start, data) ==
    [k \in DOMAIN metadata |->
        IF k - start \in DOMAIN data THEN data[k - start] ELSE metadata[k]]

\* mutant: the number of the piece is not compared
ForUsAnyPiece(message) == message.what = "data"
ForUs(message) == message.what = "data" /\ message.piece = piece

(* the piece asked for arrives *)
Stores(data) ==
    IF Start(piece) + Len(data) > size THEN NextPeer
    ELSE LET filled == Written(Start(piece), data)
         IN  IF piece + 1 < PieceCount(size)
             THEN /\ metadata' = filled /\ piece' = piece + 1
                  /\ fetch' = "piece"
                  /\ UNCHANGED <<peer, left, size, late, fetched, reachVars>>
             ELSE IF filled = Genuine
             THEN /\ fetch' = "off" /\ fetched' = "ok" /\ peer' = NoPeer /\ left' = {}
                  /\ FreshStream /\ UNCHANGED reachVars
             ELSE NextPeer

(* any other extension message *)
Metadata(message) ==
    /\ fetch = "piece_read"
    /\ Serves => \E p \in 0 .. piece : message = GenuinePiece[p]
    /\ IF ForUs(message) THEN Stores(message.data)
       ELSE IF message.what = "reject" THEN NextPeer
       ELSE fetch' = "piece" /\ UNCHANGED <<peer, left, streamVars, fetched, reachVars>>

(* FETCH_DEADLINE passes while a message is awaited *)
DeadlinePasses ==
    /\ fetch \in {"hello_read", "piece_read"} /\ ~Serves /\ ~late
    /\ late' = TRUE
    /\ UNCHANGED <<fetch, peer, left, size, piece, metadata, fetched, reachVars>>

(* holders come within reach and leave it *)
ReachChanges ==
    /\ reachable' \in SUBSET Holders /\ steady' = steady \cap reachable'
    /\ UNCHANGED fetchVars

-----------------------------------------------------------------------------
(* The buffer is never larger than MAX_METADATA_SIZE, whatever size peers    *)
(* announce, and is asked for piece by piece within its size.                *)
FetchTypeOK ==
    /\ fetch \in {"off", "connect", "hello", "hello_read", "piece", "piece_read"}
    /\ peer \in Addrs \cup {NoPeer} /\ (peer = NoPeer <=> fetch = "off")
    /\ left \subseteq Addrs \ {peer}
    /\ size \in 0 .. MaxSize /\ piece \in 0 .. PieceCount(size) /\ Len(metadata) = size
    /\ late \in BOOLEAN /\ fetched \in {"none", "ok", "error"}
    /\ reachable \subseteq Holders /\ steady \subseteq reachable

(* One holder that stays within reach is enough for a batch: no other peer   *)
(* before it, with a false size, false data or silence, and no repeated or   *)
(* unrelated message of its own makes the fetch fail, and its pieces are put *)
(* together in their order.                                                  *)
HonestPeerSuffices == fetched = "error" => steady = {}
=============================================================================
