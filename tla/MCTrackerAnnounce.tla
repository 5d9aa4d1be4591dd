--------------------------- MODULE MCTrackerAnnounce ---------------------------
(* An instance of TrackerAnnounce for TLC, with what HTTP trackers may send. *)
EXTENDS TrackerAnnounce

TwoTiers == <<<<"a", "b", "c">>, <<"d">>>>

(* compact lists of two peers, one without a port, and of nobody *)
MCEndpoints ==
    10 :> {[ip |-> 1, port |-> 6881], [ip |-> 2, port |-> 0]} @@ 11 :> {}
MCEndpoints6 == 20 :> {[ip |-> 3, port |-> 6881]}
Ragged == 30

Body(interval, rest) == EncodedDict(KeyInterval :> interval @@ rest)
Every(n) == <<Num(n)>>

Peer(ip, port) == EncodedDict(KeyIp :> <<Str(ip)>> @@ KeyPort :> <<Num(port)>>)
List(items) == <<Mark("l")>> \o FlattenSeq(items) \o <<Mark("e")>>

MCReplies ==
    { HttpReply(200, Body(Every(2), KeyPeers :> <<Str(10)>>)),
      HttpReply(200, Body(Every(2), KeyPeers6 :> <<Str(20)>>)),
      HttpReply(200, Body(Every(16), KeyPeers :> <<Str(11)>>)),     \* 16 as u32 is 0
      HttpReply(200, EncodedDict(KeyPeers :>
          List(<<Peer(1, 0), Peer(40, 6881), Peer(50, 6881), <<Num(1)>>>>))),
      (* what is refused *)
      HttpReply(404, Body(Every(2), KeyPeers :> <<Str(10)>>)),
      HttpReply(200, Body(Every(0), KeyPeers :> <<Str(10)>>)),
      HttpReply(200, Body(<<Str(10)>>, KeyPeers :> <<Str(10)>>)),
      HttpReply(200, Body(Every(2), KeyPeers :> <<Str(Ragged)>>)),
      HttpReply(200, Body(Every(2), KeyPeers :> <<Str(10)>> @@ KeyPeers6 :> <<Str(Ragged)>>)),
      HttpReply(200, Body(Every(2), KeyFailureReason :> <<Str(10)>>)),
      HttpReply(200, Body(Every(2), KeyIp :> <<Str(40)>>)),
      HttpReply(200, List(<<>>)) }
=============================================================================
