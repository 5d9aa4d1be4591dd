------------------------------ MODULE UdpTracker ------------------------------
(* One announce to a UDP tracker (bt/src/tracker_udp.rs): udp_announce()     *)
(* tries udp_round() once per timeout; a round asks for a connection id and  *)
(* then announces with it, one datagram each way, each carrying a fresh      *)
(* transaction id.  Between the two are a network that loses, delays,        *)
(* repeats and reorders datagrams, and a tracker that may refuse.  The       *)
(* socket lives as long as udp_announce(), so what comes too late for one    *)
(* round is read by the next.                                                *)
EXTENDS Integers, FiniteSets

CONSTANTS
    Rounds      \* attempt_timeouts.len(): 2 for announce_url()

ASSUME RoundsAssumption == Rounds \in Nat \ {0}

VARIABLES
    phase,      \* "connect" (top of a round), "connecting" and "announcing"
                \* (waiting in recv), "done"
    round,      \* rounds begun
    txid,       \* of the request waited for
    connection, \* connection id of the announce sent in this round
    result,     \* "none" yet, "ok" or "error"
    used,       \* transaction ids drawn so far; random in the code
    answer,     \* the datagram the result was made of
    requests,   \* datagrams on their way to the tracker
    replies,    \* datagrams on their way to us or in the socket's buffer
    lost,       \* datagrams lost so far
    faults      \* other things that went wrong: "late", "again", "refused"

clientVars == <<phase, round, txid, connection, result, used, answer>>
udpVars == <<clientVars, requests, replies, lost, faults>>

Txids == 1 .. 2 * Rounds
(* the tracker makes the connection id out of the connect request's txid *)
Datagram ==
    [action : {"connect", "announce", "error"}, txid : Txids, connection : Txids \cup {0}]
NoDatagram == [action |-> "error", txid |-> 0, connection |-> 0]

UdpInit ==
    /\ phase = "connect" /\ round = 0 /\ txid = 0 /\ connection = 0
    /\ result = "none" /\ used = 0 /\ answer = NoDatagram
    /\ requests = {} /\ replies = {} /\ lost = 0 /\ faults = {}

-----------------------------------------------------------------------------
(* The client.                                                               *)

Send(action, conn) ==
    /\ used' = used + 1 /\ txid' = used + 1
    /\ requests' =
        requests \cup {[action |-> action, txid |-> used + 1, connection |-> conn]}

SendConnect ==
    /\ phase = "connect"
    /\ round' = round + 1
    /\ Send("connect", 0)
    /\ connection' = 0
    /\ phase' = "connecting"
    /\ UNCHANGED <<result, answer, replies, lost, faults>>

\* mutant: the last timeout is never used
OutOfRoundsEarly == round + 1 >= Rounds
OutOfRounds == round >= Rounds

(* the round ends with an error; the last one's is the result *)
RoundFails ==
    /\ IF OutOfRounds THEN phase' = "done" /\ result' = "error"
                      ELSE phase' = "connect" /\ UNCHANGED result
    /\ UNCHANGED <<round, txid, connection, used, answer>>

(* recv() takes a datagram out of the buffer, or a copy the network made *)
Takes(m, again) ==
    /\ m \in replies
    /\ replies' = IF again THEN replies ELSE replies \ {m}
    /\ faults' = IF again THEN faults \cup {"again"} ELSE faults

\* mutant: the transaction id is not compared
AcceptedUnchecked(m, action) == m.action = action
(* check_header() *)
Accepted(m, action) == m.txid = txid /\ m.action = action

Connects(m, again) ==
    /\ phase = "connecting" /\ Takes(m, again) /\ Accepted(m, "connect")
    /\ Send("announce", m.connection)
    /\ connection' = m.connection
    /\ phase' = "announcing"
    /\ UNCHANGED <<round, result, answer, lost>>

Announces(m, again) ==
    /\ phase = "announcing" /\ Takes(m, again) /\ Accepted(m, "announce")
    /\ result' = "ok" /\ answer' = m /\ phase' = "done"
    /\ UNCHANGED <<round, txid, connection, used, requests, lost>>

(* an error of the tracker, or a datagram that was not for this request *)
Rejects(m, again) ==
    /\ phase \in {"connecting", "announcing"}
    /\ Takes(m, again)
    /\ ~Accepted(m, IF phase = "connecting" THEN "connect" ELSE "announce")
    /\ RoundFails
    /\ UNCHANGED <<requests, lost>>

(* recv() times out: nothing came, or it is still on its way *)
TimesOut ==
    /\ phase \in {"connecting", "announcing"}
    /\ RoundFails
    /\ faults' = IF \E m \in requests \cup replies : m.txid = txid
                 THEN faults \cup {"late"} ELSE faults
    /\ UNCHANGED <<requests, replies, lost>>

Client ==
    \/ SendConnect
    \/ \E m \in replies, again \in BOOLEAN :
            Connects(m, again) \/ Announces(m, again) \/ Rejects(m, again)
    \/ TimesOut

-----------------------------------------------------------------------------
(* The tracker and the network.                                              *)

Reply(q, action) ==
    [action |-> action, txid |-> q.txid,
     connection |-> IF action = "connect" THEN q.txid ELSE q.connection]

Serves(q) ==
    /\ q \in requests
    /\ requests' = requests \ {q}
    /\ replies' = replies \cup {Reply(q, q.action)}
    /\ UNCHANGED <<clientVars, lost, faults>>

Refuses(q) ==
    /\ q \in requests
    /\ requests' = requests \ {q}
    /\ replies' = replies \cup {Reply(q, "error")}
    /\ faults' = faults \cup {"refused"}
    /\ UNCHANGED <<clientVars, lost>>

Loses(m) ==
    /\ m \in requests \cup replies
    /\ requests' = requests \ {m} /\ replies' = replies \ {m}
    /\ lost' = lost + 1
    /\ UNCHANGED <<clientVars, faults>>

World == \E m \in requests \cup replies : Serves(m) \/ Refuses(m) \/ Loses(m)

Done == phase = "done" /\ UNCHANGED udpVars

UdpNext == Client \/ World \/ Done

UdpSpec == UdpInit /\ [][UdpNext]_udpVars

-----------------------------------------------------------------------------
(* The peers returned are those of this round's announce, made with the      *)
(* connection id this round was given: no datagram of an earlier round, late *)
(* or repeated, is taken for the answer.                                     *)
AnswerIsOurs ==
    result = "ok" =>
        /\ answer.action = "announce" /\ answer.txid = used
        /\ answer.connection = connection /\ connection = used - 1

(* As many lost datagrams as there are rounds to spare are survived, if      *)
(* nothing else goes wrong (retransmit_after_dropped_packet in               *)
(* tests/tracker_udp_proto.rs).                                              *)
LossSurvived == phase = "done" /\ lost < Rounds /\ faults = {} => result = "ok"
=============================================================================
