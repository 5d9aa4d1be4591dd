---------------------------------- MODULE Wire ----------------------------------
(* The peer wire format, bt/src/peer.rs: a message is an id, some 32-bit     *)
(* numbers, and perhaps bytes of any length; a frame is a body after its     *)
(* length.                                                                   *)
EXTENDS Integers, Sequences

CONSTANTS
    Bad,            \* what is no message
    MaxFrame        \* MAX_FRAME

Numbers(id) ==
    CASE id = 4 -> 1                \* Have: index
      [] id \in {6, 8} -> 3         \* Request, Cancel: index, begin, length
      [] id = 7 -> 2                \* Piece: index, begin
      [] OTHER -> 0

(* how many bytes may follow the numbers *)
RestMayBe(id, n) ==
    \/ id \in {0, 1, 2, 3, 4, 6, 8} /\ n = 0
    \/ id \in {5, 7}                \* Bitfield, Piece
    \/ id = 9 /\ n = 2              \* Port
    \/ id = 20 /\ n >= 1            \* Extended: the extended id and a payload

Byte == {n \in Nat : n < 256}
AnyMessage == [id : Int, numbers : Seq(Nat), rest : Seq(Byte)]
KeepAlive == [id |-> -1, numbers |-> <<>>, rest |-> <<>>]
Message(id, numbers, rest) == [id |-> id, numbers |-> numbers, rest |-> rest]

(* u32::to_be_bytes, from_be_bytes *)
ToBytes(n) == [k \in 1 .. 4 |-> (n \div 256 ^ (4 - k)) % 256]
FromBytes(b) == b[1] * 256 ^ 3 + b[2] * 256 ^ 2 + b[3] * 256 + b[4]

(* encode_message() *)
Body(m) ==
    IF m = KeepAlive THEN <<>>
    ELSE LET field == [j \in 1 .. Len(m.numbers) |-> ToBytes(m.numbers[j])]
         IN  <<m.id>>
             \o [k \in 1 .. 4 * Len(m.numbers) |-> field[(k + 3) \div 4][((k - 1) % 4) + 1]]
             \o m.rest
Frame(m) == ToBytes(Len(Body(m))) \o Body(m)

(* read_u32(): number j of n *)
Number(payload, j, n) == FromBytes(SubSeq(payload, 4 * j - 3, 4 * j))

(* parse_frame() *)
Parsed(body) ==
    IF body = <<>> THEN KeepAlive
    ELSE LET payload == Tail(body)
             n == Numbers(body[1])
         IN  IF Len(payload) >= 4 * n /\ RestMayBe(body[1], Len(payload) - 4 * n)
             THEN Message(body[1], [j \in 1 .. n |-> Number(payload, j, n)],
                          SubSeq(payload, 4 * n + 1, Len(payload)))
             ELSE Bad
=============================================================================
