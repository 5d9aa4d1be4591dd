-------------------------------- MODULE Bencode --------------------------------
(* bt/src/bencode.rs token by token, as the extension messages use it:       *)
(* encode() of a dictionary and the lenient decoder.  An input is a sequence *)
(* of tokens, each an integer, a string, one of the marks "l", "d" and "e",  *)
(* or "x" for a byte that is none of these.  Strings are numbers, in the     *)
(* order in which the byte strings are sorted.                               *)
EXTENDS Integers, Sequences, SequencesExt, TLC

CONSTANT MaxDepth       \* MAX_DEPTH

Mark(t) == [t |-> t, n |-> 0]
Num(n) == [t |-> "int", n |-> n]
Str(n) == [t |-> "str", n |-> n]

(* encode(): entries are given encoded, and come in the order of their keys, *)
(* as BTreeMap iterates them *)
EncodedDict(entries) ==
    LET keys == SetToSortSeq(DOMAIN entries, LAMBDA a, b : a < b)
    IN  <<Mark("d")>>
        \o FlattenSeq([k \in DOMAIN keys |-> <<Str(keys[k])>> \o entries[keys[k]]])
        \o <<Mark("e")>>

-----------------------------------------------------------------------------
(* Value, and the position after it *)
Got(kind, value, pos) == [ok |-> TRUE, kind |-> kind, value |-> value, pos |-> pos]
Fail == [ok |-> FALSE, kind |-> "none", value |-> 0, pos |-> 0]

(* Parser::value(), integer(), string(), list() and dict() *)
ParsedValue(in) ==
    LET value[pos \in Nat, depth \in Nat] ==
            LET \* the rest of a list
                items[p \in Nat] ==
                    IF p > Len(in) THEN Fail
                    ELSE IF in[p].t = "e" THEN Got("list", <<>>, p + 1)
                    ELSE LET item == value[p, depth + 1]
                             rest == items[item.pos]
                         IN  IF item.ok /\ rest.ok
                             THEN Got("list", <<item>> \o rest.value, rest.pos) ELSE Fail
                \* the rest of a dictionary; of two entries with one key the second counts
                entries[p \in Nat] ==
                    IF p > Len(in) THEN Fail
                    ELSE IF in[p].t = "e" THEN Got("dict", <<>>, p + 1)
                    ELSE LET key == value[p, depth + 1]
                             item == value[key.pos, depth + 1]
                             rest == entries[item.pos]
                         IN  IF key.ok /\ key.kind = "bytes" /\ item.ok /\ rest.ok
                             THEN Got("dict", rest.value @@ (key.value :> item), rest.pos)
                             ELSE Fail
            IN  IF depth > MaxDepth \/ pos > Len(in) THEN Fail
                ELSE CASE in[pos].t = "int" -> Got("int", in[pos].n, pos + 1)
                       [] in[pos].t = "str" -> Got("bytes", in[pos].n, pos + 1)
                       [] in[pos].t = "l" -> items[pos + 1]
                       [] in[pos].t = "d" -> entries[pos + 1]
                       [] in[pos].t \in {"e", "x"} -> Fail
    IN  value[1, 0]

(* decode_lenient(): nothing may follow the value *)
DecodeLenient(in) ==
    LET got == ParsedValue(in) IN IF got.pos = Len(in) + 1 THEN got ELSE Fail
=============================================================================
