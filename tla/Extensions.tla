------------------------------- MODULE Extensions -------------------------------
(* The payloads of extension messages (bt/src/extensions.rs): a bencoded     *)
(* dictionary, and after that of a piece of metadata the data itself, which  *)
(* may look like more of the same.                                           *)
EXTENDS Bencode

(* the keys, in the order of the strings *)
KeyM == 1
KeyMetadataSize == 2
KeyMsgType == 3
KeyPiece == 4
KeyTotalSize == 5
KeyUtMetadata == 6

IntAt(dict, key) == key \in DOMAIN dict /\ dict[key].kind = "int"

(* build_ext_handshake() with a size, build_metadata_data(), _reject() *)
ExtHandshake(total) ==
    EncodedDict(KeyM :> EncodedDict(KeyUtMetadata :> <<Num(1)>>)
                @@ KeyMetadataSize :> <<Num(total)>>)
MetadataData(p, total, data) ==
    EncodedDict(KeyMsgType :> <<Num(1)>> @@ KeyPiece :> <<Num(p)>>
                @@ KeyTotalSize :> <<Num(total)>>) \o data
MetadataReject(p) ==
    EncodedDict(KeyMsgType :> <<Num(2)>> @@ KeyPiece :> <<Num(p)>>)

-----------------------------------------------------------------------------
Opened(in, k) ==
    Cardinality({j \in 1 .. k : in[j].t \in {"d", "l"}})
        - Cardinality({j \in 1 .. k : in[j].t = "e"})

First(in, Ends(_)) ==
    IF \E k \in DOMAIN in : Ends(k)
    THEN CHOOSE k \in DOMAIN in : Ends(k) /\ \A j \in 1 .. k - 1 : ~Ends(j)
    ELSE 0

(* find_dict_end(): how long the dictionary is, or 0 *)
DictEnd(in) ==
    First(in, LAMBDA k : /\ in[1].t = "d" /\ Opened(in, k) = 0
                         /\ \A j \in 1 .. k : in[j].t # "x")

(* decode_prefix_dict_with_len() *)
PrefixDict(in) ==
    IF DictEnd(in) = 0 THEN Fail ELSE DecodeLenient(SubSeq(in, 1, DictEnd(in)))

(* parse_ext_handshake(); 0 is None *)
ParsedHandshake(in) ==
    LET got == PrefixDict(in)
        top == got.value
        m == top[KeyM].value
    IN  IF ~got.ok THEN [ok |-> FALSE, ut_metadata |-> 0, metadata_size |-> 0]
        ELSE [ok |-> TRUE,
              ut_metadata |->
                IF /\ KeyM \in DOMAIN top /\ top[KeyM].kind = "dict"
                   /\ IntAt(m, KeyUtMetadata) /\ m[KeyUtMetadata].value \in 1 .. 255
                THEN m[KeyUtMetadata].value ELSE 0,
              metadata_size |->
                IF IntAt(top, KeyMetadataSize) /\ top[KeyMetadataSize].value > 0
                THEN top[KeyMetadataSize].value ELSE 0]

(* parse_metadata_message(); the total size is not used *)
ParsedMetadata(in) ==
    LET got == PrefixDict(in)
        top == got.value
        whats == <<"request", "data", "reject">>
        bad == [what |-> "bad", piece |-> 0, data |-> <<>>]
    IN  IF ~got.ok THEN bad
        ELSE IF ~IntAt(top, KeyMsgType) \/ ~IntAt(top, KeyPiece) THEN bad
        ELSE IF top[KeyPiece].value < 0 \/ top[KeyMsgType].value \notin 0 .. 2 THEN bad
        ELSE [what |-> whats[top[KeyMsgType].value + 1], piece |-> top[KeyPiece].value,
              data |-> SubSeq(in, DictEnd(in) + 1, Len(in))]
=============================================================================
