------------------------------ MODULE HttpTracker ------------------------------
(* What http_announce() makes of the bytes it receives (bt/src/tracker.rs).  *)
(* A reply is a status line, an empty line and a bencoded dictionary, read   *)
(* until the tracker closes the connection; the length is announced nowhere, *)
(* so the end may come anywhere.  Tokens as in Bencode, with two more.       *)
EXTENDS Bencode, FiniteSets

CONSTANTS
    Width,          \* bits of a u32
    DefaultInterval,
    Endpoints,      \* Endpoints[s]: the [ip, port] of which string s is the compact
                    \* form; strings that are none have the wrong length
    Endpoints6,     \* the same for IPv6
    Ips             \* strings that are the text of an IP address

ASSUME HttpAssumption ==
    Width \in Nat \ {0} /\ DefaultInterval \in 1 .. 2 ^ Width - 1

(* the keys, in the order of the strings *)
KeyFailureReason == 1
KeyInterval == 2
KeyIp == 3
KeyPeers == 4
KeyPeers6 == 5
KeyPort == 6

StatusLine(code) == [t |-> "status", n |-> code]
EmptyLine == Mark("empty line")
HttpReply(code, body) == <<StatusLine(code), EmptyLine>> \o body

Refused == [ok |-> FALSE, interval |-> 0, peers |-> {}]

-----------------------------------------------------------------------------
Has(dict, key, kind) == key \in DOMAIN dict /\ dict[key].kind = kind

(* n as u32 *)
Truncated(n) == n % (2 ^ Width)

Reachable(endpoints) == {p \in endpoints : p.port # 0}

(* parse_dict_peers(): items that are no peers are left out *)
DictPeers(items) ==
    {[ip |-> item.value[KeyIp].value, port |-> item.value[KeyPort].value] :
        item \in {item \in {items[k] : k \in DOMAIN items} :
            /\ item.kind = "dict"
            /\ Has(item.value, KeyIp, "bytes") /\ item.value[KeyIp].value \in Ips
            /\ Has(item.value, KeyPort, "int") /\ item.value[KeyPort].value \in 1 .. 65535}}

(* parse_response() *)
ParsedReply(body) ==
    LET got == DecodeLenient(body)
        top == got.value
        compact == Has(top, KeyPeers, "bytes")
        four == IF KeyPeers \notin DOMAIN top THEN {}
                ELSE IF compact THEN Reachable(Endpoints[top[KeyPeers].value])
                ELSE DictPeers(top[KeyPeers].value)
        six == IF KeyPeers6 \notin DOMAIN top THEN {}
               ELSE Reachable(Endpoints6[top[KeyPeers6].value])
        sound ==
            /\ got.ok /\ got.kind = "dict" /\ ~Has(top, KeyFailureReason, "bytes")
            /\ KeyInterval \in DOMAIN top =>
                    top[KeyInterval].kind = "int" /\ top[KeyInterval].value > 0
            /\ KeyPeers \in DOMAIN top =>
                    \/ compact /\ top[KeyPeers].value \in DOMAIN Endpoints
                    \/ Has(top, KeyPeers, "list")
            /\ KeyPeers6 \in DOMAIN top =>
                    /\ Has(top, KeyPeers6, "bytes")
                    /\ top[KeyPeers6].value \in DOMAIN Endpoints6
            /\ {KeyPeers, KeyPeers6} \cap DOMAIN top # {}
    IN  IF ~sound THEN Refused
        ELSE [ok |-> TRUE, peers |-> four \cup six,
              interval |-> IF KeyInterval \in DOMAIN top THEN Truncated(top[KeyInterval].value)
                           ELSE DefaultInterval]

(* split_http_response(): the body begins after the first empty line *)
BodyOf(raw) ==
    LET end == SelectInSeq(raw, LAMBDA token : token = EmptyLine)
    IN  SubSeq(raw, end + 1, Len(raw))

(* http_announce(), from what was received until the connection was closed   *)
(* or MAX_RESPONSE was read                                                  *)
Understood(raw) ==
    IF ~Contains(raw, EmptyLine) \/ raw[1].t # "status" THEN Refused
    ELSE IF raw[1].n \notin 200 .. 299 THEN Refused
    ELSE ParsedReply(BodyOf(raw))
=============================================================================
