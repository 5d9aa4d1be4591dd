---------------------------- MODULE MCMagnetResolve ----------------------------
(* An instance of MagnetResolve for TLC, with what peers may send.           *)
EXTENDS MagnetResolve

(* d e e: the first piece looks like a dictionary, the second like its end *)
MCGenuine == <<Mark("d"), Mark("e"), Mark("e")>>

Hellos ==
    { ExtHandshake(3), ExtHandshake(4), ExtHandshake(5), ExtHandshake(0),
      (* out of order, with other keys, twice the size, and more after it *)
      <<Mark("d"), Str(KeyMetadataSize), Num(5), Str(KeyMetadataSize), Num(3), Str(7), Mark("l"),
        Mark("d"), Mark("e"), Mark("e"), Str(KeyM), Mark("d"), Str(KeyUtMetadata), Num(3),
        Mark("e"), Mark("e"), Str(0)>>,
      (* no metadata, an unfinished one *)
      <<Mark("d"), Str(KeyM), Mark("d"), Mark("e"), Mark("e")>>,
      <<Mark("d"), Str(KeyM), Mark("d"), Mark("e")>> }

Datas ==
    { MetadataData(p, 3, data) : p \in {0, 1},
        data \in {<<>>, <<Mark("e")>>, <<Mark("d"), Mark("e")>>,
                  <<Mark("e"), Mark("x")>>, <<Mark("d"), Mark("e"), Mark("e"), Mark("e")>>} }

Others ==
    { MetadataReject(0), <<Num(1)>>, <<Mark("d"), Str(KeyPiece), Mark("e")>>,
      (* a request; no such type; a negative piece; a type that is no number *)
      EncodedDict(KeyMsgType :> <<Num(0)>> @@ KeyPiece :> <<Num(1)>>),
      EncodedDict(KeyMsgType :> <<Num(3)>> @@ KeyPiece :> <<Num(0)>>),
      EncodedDict(KeyMsgType :> <<Num(1)>> @@ KeyPiece :> <<Num(-1)>>),
      EncodedDict(KeyMsgType :> <<Str(1)>> @@ KeyPiece :> <<Num(0)>>),
      (* nested deeper than MaxDepth; a number for a key *)
      EncodedDict(KeyMsgType :> <<Num(1)>> @@ KeyPiece :> <<Num(0)>>
                  @@ KeyTotalSize :> [k \in 1 .. 8 |-> Mark(IF k <= 4 THEN "l" ELSE "e")]),
      <<Mark("d"), Num(1), Num(1), Mark("e")>> }

MCPayloads == Hellos \cup Datas \cup Others
=============================================================================
