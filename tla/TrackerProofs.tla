----------------------------- MODULE TrackerProofs -----------------------------
(* Theorems about the trackers: about UdpTracker for every number of rounds, *)
(* whatever the network does to the datagrams, and about TrackerAnnounce for *)
(* every list of tiers, whoever comes up and goes down.                      *)
EXTENDS TrackerAnnounce, UdpTracker, SequenceTheorems, WellFoundedInduction, TLAPS

-----------------------------------------------------------------------------
(* Every datagram carries a transaction id drawn before, and one of an       *)
(* announce the connection id drawn just before its own: the tracker makes   *)
(* connection ids of the connect request's, and the client announces with    *)
(* the one it was just given.  `last` is the id drawn last.                  *)
WellFormed(m, last) ==
    /\ m \in [action : {"connect", "announce", "error"}, txid : Nat, connection : Nat]
    /\ m.txid \in 1 .. last
    /\ m.action = "announce" => m.connection = m.txid - 1

ConnectId(m) == m.action = "connect" => m.connection = m.txid

Waiting == phase \in {"connecting", "announcing"}

TypeInv ==
    /\ phase \in {"connect", "connecting", "announcing", "done"}
    /\ round \in Nat /\ txid \in Nat /\ used \in Nat /\ connection \in Nat
    /\ result \in {"none", "ok", "error"}
    /\ lost \in Nat
    /\ phase = "connect" => round < Rounds
    /\ Waiting => round >= 1 /\ round <= Rounds

WireInv ==
    /\ \A m \in requests \cup replies : WellFormed(m, used)
    /\ \A m \in replies : ConnectId(m)
    /\ Waiting => txid = used
    /\ phase = "announcing" => connection = used - 1
    /\ phase # "done" => result # "ok"
    /\ AnswerIsOurs

SafeInv == TypeInv /\ WireInv

LEMMA SafeInit == UdpInit => SafeInv
  BY RoundsAssumption
  DEF UdpInit, SafeInv, TypeInv, WireInv, Waiting, AnswerIsOurs

(* A request that is sent has the next transaction id, and those under way   *)
(* keep their form.                                                          *)
LEMMA SendForm ==
  ASSUME SafeInv, NEW action \in {"connect", "announce"}, NEW conn \in Nat,
         action = "announce" => conn = used, Send(action, conn),
         replies' \subseteq replies
  PROVE  /\ \A m \in requests' \cup replies' : WellFormed(m, used')
         /\ \A m \in replies' : ConnectId(m)
         /\ used' = used + 1 /\ txid' = used' /\ used' \in Nat
<1>1. used \in Nat /\ used' = used + 1 /\ txid' = used'
  BY DEF Send, SafeInv, TypeInv
<1>2. WellFormed([action |-> action, txid |-> used + 1, connection |-> conn], used')
  BY <1>1 DEF WellFormed
<1>3. ASSUME NEW m \in requests \cup replies PROVE WellFormed(m, used')
  BY <1>1, <1>3 DEF WellFormed, SafeInv, WireInv
<1>4. \A m \in requests' \cup replies' : WellFormed(m, used')
  BY <1>2, <1>3 DEF Send
<1>5. QED
  BY <1>1, <1>4 DEF SafeInv, WireInv

(* A round that fails takes no result that it has not got.                   *)
LEMMA RoundFailsSafe ==
  ASSUME SafeInv, Waiting, RoundFails, UNCHANGED <<requests, lost>>, replies' \subseteq replies
  PROVE  SafeInv'
<1>1. TypeInv'
  BY RoundsAssumption DEF RoundFails, OutOfRounds, Waiting, SafeInv, TypeInv
<1>2. \A m \in requests' \cup replies' : WellFormed(m, used')
  BY DEF RoundFails, WellFormed, SafeInv, WireInv
<1>3. \A m \in replies' : ConnectId(m)
  BY DEF SafeInv, WireInv
<1>4. result' # "ok" /\ phase' \in {"connect", "done"}
  BY DEF RoundFails, SafeInv, WireInv, Waiting
<1>5. QED
  BY <1>1, <1>2, <1>3, <1>4 DEF SafeInv, WireInv, Waiting, AnswerIsOurs

LEMMA ClientSafe == SafeInv /\ Client => SafeInv'
<1> SUFFICES ASSUME SafeInv, Client PROVE SafeInv'
  OBVIOUS
<1>1. ASSUME SendConnect PROVE SafeInv'
  <2>1. Send("connect", 0) /\ replies' = replies
    BY <1>1 DEF SendConnect
  <2>2. /\ \A m \in requests' \cup replies' : WellFormed(m, used')
        /\ \A m \in replies' : ConnectId(m)
        /\ used' = used + 1 /\ txid' = used' /\ used' \in Nat
    BY <2>1, SendForm
  <2>3. TypeInv'
    BY <1>1, <2>2, RoundsAssumption DEF SendConnect, SafeInv, TypeInv, Waiting
  <2>4. result' # "ok" /\ phase' = "connecting"
    BY <1>1 DEF SendConnect, SafeInv, WireInv
  <2>5. QED
    BY <2>2, <2>3, <2>4 DEF SafeInv, WireInv, Waiting, AnswerIsOurs
<1>2. ASSUME NEW m \in replies, NEW again \in BOOLEAN, Connects(m, again) PROVE SafeInv'
  <2>1. /\ Send("announce", m.connection) /\ replies' \subseteq replies
        /\ phase = "connecting" /\ m.action = "connect" /\ m.txid = txid
    BY <1>2 DEF Connects, Takes, Accepted
  <2>2. m.connection = used /\ used \in Nat
    BY <2>1 DEF SafeInv, TypeInv, WireInv, ConnectId, Waiting
  <2>3. /\ \A n \in requests' \cup replies' : WellFormed(n, used')
        /\ \A n \in replies' : ConnectId(n)
        /\ used' = used + 1 /\ txid' = used' /\ used' \in Nat
    BY <2>1, <2>2, SendForm
  <2>4. TypeInv'
    BY <1>2, <2>1, <2>2, <2>3 DEF Connects, SafeInv, TypeInv, Waiting
  <2>5. result' # "ok" /\ phase' = "announcing" /\ connection' = used' - 1
    BY <1>2, <2>1, <2>2, <2>3 DEF Connects, SafeInv, WireInv
  <2>6. QED
    BY <2>3, <2>4, <2>5 DEF SafeInv, WireInv, Waiting, AnswerIsOurs
<1>3. ASSUME NEW m \in replies, NEW again \in BOOLEAN, Announces(m, again) PROVE SafeInv'
  <2>1. /\ m.action = "announce" /\ m.txid = used /\ m.connection = used - 1
        /\ connection = used - 1 /\ replies' \subseteq replies
    BY <1>3 DEF Announces, Takes, Accepted, SafeInv, WireInv, WellFormed, Waiting
  <2>2. TypeInv'
    BY <1>3 DEF Announces, SafeInv, TypeInv, Waiting
  <2>3. \A n \in requests' \cup replies' : WellFormed(n, used')
    BY <1>3, <2>1 DEF Announces, WellFormed, SafeInv, WireInv
  <2>4. QED
    BY <1>3, <2>1, <2>2, <2>3 DEF Announces, SafeInv, WireInv, Waiting, AnswerIsOurs
<1>4. ASSUME NEW m \in replies, NEW again \in BOOLEAN, Rejects(m, again) PROVE SafeInv'
  BY <1>4, RoundFailsSafe DEF Rejects, Takes, Waiting
<1>5. ASSUME TimesOut PROVE SafeInv'
  BY <1>5, RoundFailsSafe DEF TimesOut, Waiting
<1>6. QED
  BY <1>1, <1>2, <1>3, <1>4, <1>5 DEF Client

LEMMA WorldSafe == SafeInv /\ World => SafeInv'
<1> SUFFICES ASSUME SafeInv, NEW q \in requests \cup replies,
                    Serves(q) \/ Refuses(q) \/ Loses(q)
             PROVE  SafeInv'
  BY DEF World
<1>1. UNCHANGED clientVars /\ lost' \in Nat
  BY DEF Serves, Refuses, Loses, SafeInv, TypeInv
<1>2. ASSUME q \in requests, NEW action \in {q.action, "error"},
             requests' = requests \ {q}, replies' = replies \cup {Reply(q, action)}
      PROVE  /\ \A m \in requests' \cup replies' : WellFormed(m, used)
             /\ \A m \in replies' : ConnectId(m)
  <2>1. WellFormed(q, used)
    BY <1>2 DEF SafeInv, WireInv
  <2>2. WellFormed(Reply(q, action), used) /\ ConnectId(Reply(q, action))
    BY <2>1 DEF WellFormed, ConnectId, Reply
  <2>3. QED
    BY <1>2, <2>2 DEF SafeInv, WireInv
<1>3. /\ \A m \in requests' \cup replies' : WellFormed(m, used)
      /\ \A m \in replies' : ConnectId(m)
  <2>1. CASE Serves(q)
    BY <1>2, <2>1 DEF Serves
  <2>2. CASE Refuses(q)
    BY <1>2, <2>2 DEF Refuses
  <2>3. CASE Loses(q)
    BY <2>3 DEF Loses, SafeInv, WireInv
  <2>4. QED
    BY <2>1, <2>2, <2>3
<1>4. \A m \in requests' \cup replies' : WellFormed(m, used')
  BY <1>1, <1>3 DEF WellFormed, clientVars
<1>5. QED
  BY <1>1, <1>3, <1>4
  DEF clientVars, SafeInv, TypeInv, WireInv, Waiting, AnswerIsOurs

LEMMA SafeNext == SafeInv /\ [UdpNext]_udpVars => SafeInv'
<1>1. SafeInv /\ (Done \/ UNCHANGED udpVars) => SafeInv'
  BY DEF Done, udpVars, clientVars, SafeInv, TypeInv, WireInv, WellFormed, ConnectId, Waiting,
         AnswerIsOurs
<1>2. QED
  BY <1>1, ClientSafe, WorldSafe DEF UdpNext

(* The peers returned are those of this round's announce, made with the      *)
(* connection id this round was given, however many rounds there are and     *)
(* however late or often datagrams of earlier rounds come.                   *)
THEOREM OnlyOurAnswer == UdpSpec => []AnswerIsOurs
<1>1. SafeInv => AnswerIsOurs
  BY DEF SafeInv, WireInv
<1>2. QED
  BY <1>1, SafeInit, SafeNext, PTL DEF UdpSpec

-----------------------------------------------------------------------------
(* Losses.  As long as datagrams are only lost, each failed round has lost   *)
(* one: the only datagram there is is the request waited for or its answer.  *)
OnlyLosses == faults = {}

Request == [action |-> IF phase = "connecting" THEN "connect" ELSE "announce",
            txid |-> txid, connection |-> connection]

Underway ==
    \/ requests = {Request} /\ replies = {}
    \/ requests = {} /\ replies = {Reply(Request, Request.action)}

LossInv ==
    OnlyLosses =>
        /\ phase = "connect" => requests = {} /\ replies = {} /\ lost >= round
        /\ Waiting /\ Underway => lost >= round - 1
        /\ Waiting /\ ~Underway => requests = {} /\ replies = {} /\ lost >= round
        /\ phase = "connecting" => connection = 0
        /\ phase = "done" => result = "ok" \/ lost >= Rounds

LEMMA LossInit == UdpInit => LossInv
  BY DEF UdpInit, LossInv, OnlyLosses, Waiting, Underway

LEMMA LossClient == SafeInv /\ LossInv /\ Client => LossInv'
<1> SUFFICES ASSUME SafeInv, LossInv, Client, OnlyLosses' PROVE LossInv'
  BY DEF LossInv
<1>1. ASSUME SendConnect PROVE LossInv'
  <2>1. /\ OnlyLosses /\ phase' = "connecting" /\ round' = round + 1 /\ lost' = lost
        /\ requests' = {[action |-> "connect", txid |-> used + 1, connection |-> 0]}
        /\ txid' = used + 1 /\ connection' = 0 /\ replies' = {} /\ lost >= round
    BY <1>1 DEF SendConnect, Send, LossInv, OnlyLosses
  <2>2. Underway'
    BY <2>1 DEF Underway, Request
  <2>3. QED
    BY <2>1, <2>2 DEF LossInv, SafeInv, TypeInv
<1>2. ASSUME NEW m \in replies, NEW again \in BOOLEAN, Takes(m, again)
      PROVE  OnlyLosses /\ replies' = replies \ {m}
  BY <1>2 DEF Takes, OnlyLosses
<1>3. ASSUME NEW m \in replies, OnlyLosses, Waiting
      PROVE  /\ m = Reply(Request, Request.action) /\ requests = {} /\ replies = {m}
             /\ lost >= round - 1
  BY <1>3 DEF LossInv, Underway
<1>4. ASSUME NEW m \in replies, NEW again \in BOOLEAN, Connects(m, again) PROVE LossInv'
  <2>1. /\ OnlyLosses /\ replies' = {} /\ requests = {} /\ lost >= round - 1
    BY <1>2, <1>3, <1>4 DEF Connects, Waiting
  <2>2. /\ phase' = "announcing" /\ round' = round /\ lost' = lost
        /\ connection' = m.connection /\ txid' = used + 1
        /\ requests' = {[action |-> "announce", txid |-> used + 1, connection |-> m.connection]}
    BY <1>4, <2>1 DEF Connects, Send
  <2>3. Underway'
    BY <2>1, <2>2 DEF Underway, Request
  <2>4. QED
    BY <2>1, <2>2, <2>3 DEF LossInv
<1>5. ASSUME NEW m \in replies, NEW again \in BOOLEAN, Announces(m, again) PROVE LossInv'
  BY <1>5 DEF Announces, LossInv, Waiting
<1>6. ASSUME NEW m \in replies, NEW again \in BOOLEAN, Rejects(m, again) PROVE LossInv'
  <2>1. OnlyLosses /\ Waiting
    BY <1>2, <1>6 DEF Rejects, Waiting
  <2>2. m = Reply(Request, Request.action)
    BY <1>3, <2>1
  <2>3. Accepted(m, IF phase = "connecting" THEN "connect" ELSE "announce")
    BY <2>2 DEF Accepted, Reply, Request
  <2>4. QED
    BY <1>6, <2>3 DEF Rejects
<1>7. ASSUME TimesOut PROVE LossInv'
  <2>1. OnlyLosses /\ Waiting /\ ~ \E m \in requests \cup replies : m.txid = txid
    BY <1>7 DEF TimesOut, OnlyLosses, Waiting
  <2>2. Request.txid = txid /\ Reply(Request, Request.action).txid = txid
    BY DEF Request, Reply
  <2>3. ~Underway
    BY <2>1, <2>2 DEF Underway
  <2>4. requests = {} /\ replies = {} /\ lost >= round
    BY <2>1, <2>3 DEF LossInv
  <2>5. CASE round >= Rounds
    BY <1>7, <2>4, <2>5, RoundsAssumption
    DEF TimesOut, RoundFails, OutOfRounds, LossInv, SafeInv, TypeInv, Waiting
  <2>6. CASE ~(round >= Rounds)
    BY <1>7, <2>4, <2>6
    DEF TimesOut, RoundFails, OutOfRounds, LossInv, SafeInv, TypeInv, Waiting
  <2>7. QED
    BY <2>5, <2>6
<1>8. QED
  BY <1>1, <1>4, <1>5, <1>6, <1>7 DEF Client

LEMMA LossWorld == SafeInv /\ LossInv /\ World => LossInv'
<1> SUFFICES ASSUME SafeInv, LossInv, OnlyLosses',
                    NEW q \in requests \cup replies, Serves(q) \/ Refuses(q) \/ Loses(q)
             PROVE  LossInv'
  BY DEF LossInv, World
<1>1. OnlyLosses /\ UNCHANGED clientVars
  BY DEF Serves, Refuses, Loses, OnlyLosses
<1>2. phase # "connect"
  BY <1>1 DEF LossInv
<1>3. ASSUME phase = "done" PROVE LossInv'
  <2>1. lost' >= lost /\ lost' \in Nat
    BY DEF Serves, Refuses, Loses, SafeInv, TypeInv
  <2>2. QED
    BY <1>1, <1>3, <2>1, RoundsAssumption
    DEF clientVars, LossInv, Waiting, SafeInv, TypeInv
<1>4. ASSUME Waiting PROVE LossInv'
  <2>1. Underway /\ lost >= round - 1 /\ Request' = Request
    BY <1>1, <1>4 DEF LossInv, clientVars, Request
  <2>2. CASE Serves(q)
    <3>1. q = Request /\ requests' = {} /\ replies' = {Reply(q, q.action)} /\ lost' = lost
      BY <2>1, <2>2 DEF Serves, Underway
    <3>2. Underway'
      BY <2>1, <3>1 DEF Underway
    <3>3. QED
      BY <1>1, <1>4, <2>1, <3>1, <3>2 DEF LossInv, clientVars, Waiting
  <2>3. CASE Refuses(q)
    BY <2>3 DEF Refuses, OnlyLosses
  <2>4. CASE Loses(q)
    <3>1. requests' = {} /\ replies' = {} /\ lost' = lost + 1
      BY <2>1, <2>4 DEF Loses, Underway
    <3>2. ~Underway' /\ lost' >= round
      BY <2>1, <3>1 DEF Underway, SafeInv, TypeInv
    <3>3. QED
      BY <1>1, <1>4, <3>1, <3>2 DEF LossInv, clientVars, Waiting
  <2>5. QED
    BY <2>2, <2>3, <2>4
<1>5. QED
  BY <1>2, <1>3, <1>4 DEF SafeInv, TypeInv, Waiting

LEMMA LossNext == SafeInv /\ LossInv /\ [UdpNext]_udpVars => LossInv'
<1>1. LossInv /\ (Done \/ UNCHANGED udpVars) => LossInv'
  BY DEF Done, udpVars, clientVars, LossInv, OnlyLosses, Waiting, Underway, Request, Reply
<1>2. QED
  BY <1>1, LossClient, LossWorld DEF UdpNext

(* A round lost is a datagram lost: unless something is late, repeated or    *)
(* refused, every announce that lost fewer datagrams than it has rounds      *)
(* brings an answer.                                                         *)
THEOREM LossesSurvived == UdpSpec => []LossSurvived
<1>1. SafeInv /\ LossInv => LossSurvived
  BY RoundsAssumption DEF LossInv, OnlyLosses, LossSurvived, SafeInv, TypeInv
<1>2. QED
  BY <1>1, SafeInit, SafeNext, LossInit, LossNext, PTL DEF UdpSpec

-----------------------------------------------------------------------------
(* The end of an announce.  A round has two waits, and the one of the        *)
(* connection id comes first; StepsLeft counts what is left of them all.     *)
WaitsLeft == [connect |-> 0, connecting |-> 2, announcing |-> 1, done |-> 0]
StepsLeft ==
    (IF phase = "done" THEN 0 ELSE 3 * (Rounds - round)) + WaitsLeft[phase]

(* two requests per timeout and no more *)
RequestsBounded ==
    /\ round <= Rounds
    /\ used <= IF phase = "connecting" THEN 2 * round - 1 ELSE 2 * round

(* every step of the client leaves fewer, and none of the world more *)
RunsDown == [][IF Client THEN StepsLeft' < StepsLeft ELSE StepsLeft' = StepsLeft]_udpVars

LEMMA ClientLeft ==
  ASSUME SafeInv, RequestsBounded, Client
  PROVE  RequestsBounded' /\ StepsLeft' < StepsLeft
<1>1. /\ Rounds \in Nat /\ round \in Nat /\ used \in Nat /\ round <= Rounds
      /\ used <= IF phase = "connecting" THEN 2 * round - 1 ELSE 2 * round
      /\ phase = "connect" => round < Rounds
  BY RoundsAssumption DEF SafeInv, TypeInv, RequestsBounded
<1>2. CASE SendConnect
  <2>1. /\ phase = "connect" /\ phase' = "connecting" /\ round' = round + 1 /\ used' = used + 1
    BY <1>2 DEF SendConnect, Send
  <2>2. QED
    BY <1>1, <2>1 DEF RequestsBounded, StepsLeft, WaitsLeft
<1>3. ASSUME NEW m \in replies, NEW again \in BOOLEAN, Connects(m, again)
      PROVE  RequestsBounded' /\ StepsLeft' < StepsLeft
  <2>1. /\ phase = "connecting" /\ phase' = "announcing" /\ round' = round /\ used' = used + 1
    BY <1>3 DEF Connects, Send
  <2>2. QED
    BY <1>1, <2>1 DEF RequestsBounded, StepsLeft, WaitsLeft
<1>4. ASSUME NEW m \in replies, NEW again \in BOOLEAN, Announces(m, again)
      PROVE  RequestsBounded' /\ StepsLeft' < StepsLeft
  <2>1. /\ phase = "announcing" /\ phase' = "done" /\ round' = round /\ used' = used
    BY <1>4 DEF Announces
  <2>2. QED
    BY <1>1, <2>1 DEF RequestsBounded, StepsLeft, WaitsLeft
<1>5. CASE phase \in {"connecting", "announcing"} /\ RoundFails
  <2>1. /\ phase' = IF round >= Rounds THEN "done" ELSE "connect"
        /\ round' = round /\ used' = used
    BY <1>5 DEF RoundFails, OutOfRounds
  <2>2. QED
    BY <1>1, <1>5, <2>1 DEF RequestsBounded, StepsLeft, WaitsLeft
<1>6. QED
  BY <1>2, <1>3, <1>4, <1>5 DEF Client, Rejects, TimesOut

LEMMA UdpLeft ==
  ASSUME SafeInv, RequestsBounded, [UdpNext]_udpVars
  PROVE  /\ RequestsBounded'
         /\ IF Client THEN StepsLeft' < StepsLeft ELSE StepsLeft' = StepsLeft
<1>1. CASE Client
  BY <1>1, ClientLeft
<1>2. CASE ~Client
  <2>1. UNCHANGED <<phase, round, used>>
    BY <1>2 DEF UdpNext, World, Serves, Refuses, Loses, Done, udpVars, clientVars
  <2>2. QED
    BY <1>2, <2>1 DEF RequestsBounded, StepsLeft
<1>3. QED
  BY <1>1, <1>2

(* An announce sends at most two datagrams per timeout and reads or waits as *)
(* often: whatever the network repeats and however much it delivers, it      *)
(* holds up the engine, whose thread it blocks, for no more than that.       *)
THEOREM AnnounceRunsOut ==
  UdpSpec => [](RequestsBounded /\ StepsLeft \in 0 .. 3 * Rounds) /\ RunsDown
<1>1. UdpInit => RequestsBounded
  BY RoundsAssumption DEF UdpInit, RequestsBounded
<1>2. SafeInv /\ RequestsBounded => RequestsBounded /\ StepsLeft \in 0 .. 3 * Rounds
  BY RoundsAssumption DEF SafeInv, TypeInv, Waiting, RequestsBounded, StepsLeft, WaitsLeft
<1>3. SafeInv /\ RequestsBounded /\ [UdpNext]_udpVars => RequestsBounded'
  BY UdpLeft
<1>4. SafeInv /\ RequestsBounded /\ [UdpNext]_udpVars
      => [IF Client THEN StepsLeft' < StepsLeft ELSE StepsLeft' = StepsLeft]_udpVars
  BY UdpLeft
<1>5. QED
  BY <1>1, <1>2, <1>3, <1>4, SafeInit, SafeNext, PTL DEF UdpSpec, RunsDown

-----------------------------------------------------------------------------
(* TrackerAnnounce.  The tiers keep their trackers however often one of them *)
(* is moved to the front; all before the one asked next were asked in vain.  *)
TiersInv ==
    /\ Len(tiers) = Len(Tiers)
    /\ \A k \in 1 .. Len(Tiers) :
            tiers[k] \in Seq(STRING) /\ Listed(tiers[k]) = Listed(Tiers[k])

Before(k) == IF k < at[1] THEN Listed(tiers[k])
             ELSE IF k = at[1] THEN {tiers[k][i] : i \in 1 .. at[2] - 1} ELSE {}

PlaceInv ==
    /\ at[1] \in 1 .. Len(Tiers) + 1 /\ at[2] \in Nat \ {0}
    /\ Left => at[2] <= Len(tiers[at[1]]) + 1
    /\ downs \subseteq Trackers
    /\ \A k \in 1 .. Len(Tiers) : Before(k) \subseteq downs

AnnounceInv ==
    /\ TiersInv /\ (Asking => PlaceInv)
    /\ failures \in 0 .. MaxFailures

LEMMA TierTypes ==
  /\ Len(Tiers) \in Nat /\ DOMAIN Tiers = 1 .. Len(Tiers)
  /\ \A k \in 1 .. Len(Tiers) : Tiers[k] \in Seq(STRING)
BY TiersAssumption

LEMMA ListedIs ==
  ASSUME NEW tier \in Seq(STRING)
  PROVE  Listed(tier) = {tier[i] : i \in 1 .. Len(tier)} /\ Len(tier) \in Nat
BY DEF Listed

LEMMA Joined ==
  ASSUME NEW S, NEW s \in Seq(S), NEW t \in Seq(S)
  PROVE  /\ s \o t \in Seq(S) /\ Len(s \o t) = Len(s) + Len(t)
         /\ \A j \in 1 .. Len(s) + Len(t) :
              (s \o t)[j] = IF j <= Len(s) THEN s[j] ELSE t[j - Len(s)]
  BY ConcatProperties

(* tier.remove(i) and tier.insert(0, _) lose and invent nothing *)
LEMMA PromotedKeeps ==
  ASSUME NEW tier \in Seq(STRING), NEW i \in 1 .. Len(tier)
  PROVE  Promoted(tier, i) \in Seq(STRING) /\ Listed(Promoted(tier, i)) = Listed(tier)
<1> DEFINE n == Len(tier)
           front == SubSeq(tier, 1, i - 1)
           back == SubSeq(tier, i + 1, n)
           first == <<tier[i]>>
           begin == first \o front
           moved == begin \o back
<1>1. n \in Nat /\ i \in Nat /\ \A j \in 1 .. n : tier[j] \in STRING
  OBVIOUS
<1>2. /\ front \in Seq(STRING) /\ Len(front) = i - 1
      /\ \A j \in 1 .. i - 1 : front[j] = tier[j]
  <2>1. \A j \in 1 .. i - 1 : tier[j] \in STRING
    BY <1>1
  <2>2. /\ front \in Seq(STRING) /\ Len(front) = IF 1 <= i - 1 THEN (i - 1) - 1 + 1 ELSE 0
        /\ \A j \in 1 .. (i - 1) - 1 + 1 : front[j] = tier[1 + j - 1]
    BY <1>1, <2>1, SubSeqProperties
  <2>3. QED
    BY <1>1, <2>2
<1>3. /\ back \in Seq(STRING) /\ Len(back) = n - i
      /\ \A j \in 1 .. n - i : back[j] = tier[i + j]
  <2>1. \A j \in i + 1 .. n : tier[j] \in STRING
    BY <1>1
  <2>2. /\ back \in Seq(STRING) /\ Len(back) = IF i + 1 <= n THEN n - (i + 1) + 1 ELSE 0
        /\ \A j \in 1 .. n - (i + 1) + 1 : back[j] = tier[(i + 1) + j - 1]
    BY <1>1, <2>1, SubSeqProperties
  <2>3. QED
    BY <1>1, <2>2
<1>4. first \in Seq(STRING) /\ Len(first) = 1 /\ first[1] = tier[i]
  BY <1>1
<1>5. Promoted(tier, i) = moved
  BY DEF Promoted
<1> HIDE DEF front, back, first
<1>6. /\ begin \in Seq(STRING) /\ Len(begin) = i
      /\ \A j \in 1 .. i : begin[j] = IF j = 1 THEN tier[i] ELSE tier[j - 1]
  <2>1. /\ first \o front \in Seq(STRING) /\ Len(first \o front) = Len(first) + Len(front)
        /\ \A j \in 1 .. Len(first) + Len(front) :
              (first \o front)[j] = IF j <= Len(first) THEN first[j] ELSE front[j - Len(first)]
    BY <1>2, <1>4, Joined
  <2>2. QED
    BY <1>1, <1>2, <1>4, <2>1
<1> HIDE DEF begin
<1>7. /\ moved \in Seq(STRING) /\ Len(moved) = n
      /\ \A j \in 1 .. n : moved[j] = IF j = 1 THEN tier[i]
                                       ELSE IF j <= i THEN tier[j - 1] ELSE tier[j]
  <2>1. /\ begin \o back \in Seq(STRING) /\ Len(begin \o back) = Len(begin) + Len(back)
        /\ \A j \in 1 .. Len(begin) + Len(back) :
              (begin \o back)[j] = IF j <= Len(begin) THEN begin[j] ELSE back[j - Len(begin)]
    <3>1. begin \in Seq(STRING) /\ back \in Seq(STRING)
      BY <1>3, <1>6
    <3>2. QED
      BY <3>1, Joined
  <2>2. Len(begin) + Len(back) = n
    BY <1>1, <1>3, <1>6
  <2>3. QED
    BY <1>1, <1>3, <1>6, <2>1, <2>2
<1> HIDE DEF moved
<1>8. {moved[j] : j \in 1 .. n} = {tier[j] : j \in 1 .. n}
  <2>1. ASSUME NEW j \in 1 .. n PROVE moved[j] \in {tier[k] : k \in 1 .. n}
    BY <1>1, <1>7
  <2>2. ASSUME NEW j \in 1 .. n PROVE tier[j] \in {moved[k] : k \in 1 .. n}
    <3>1. CASE j < i
      <4>1. j + 1 \in 1 .. n /\ moved[j + 1] = tier[j]
        BY <1>1, <1>7, <3>1
      <4>2. QED
        BY <4>1
    <3>2. CASE j = i
      <4>1. 1 \in 1 .. n /\ moved[1] = tier[j]
        BY <1>1, <1>7, <3>2
      <4>2. QED
        BY <4>1
    <3>3. CASE j > i
      <4>1. moved[j] = tier[j]
        BY <1>1, <1>7, <3>3
      <4>2. QED
        BY <4>1
    <3>4. QED
      BY <1>1, <3>1, <3>2, <3>3
  <2>3. QED
    BY <2>1, <2>2
<1>9. QED
  BY <1>5, <1>7, <1>8, ListedIs

LEMMA AnnounceInit == Init => AnnounceInv
<1> SUFFICES ASSUME Init PROVE AnnounceInv
  OBVIOUS
<1>1. TiersInv /\ ~Asking
  BY TierTypes DEF Init, TiersInv, Asking
<1>2. failures \in 0 .. MaxFailures
  BY BackoffAssumption DEF Init
<1>3. QED
  BY <1>1, <1>2 DEF AnnounceInv

LEMMA TierIs ==
  ASSUME TiersInv, NEW k \in 1 .. Len(Tiers)
  PROVE  /\ tiers[k] \in Seq(STRING) /\ Len(tiers[k]) \in Nat
         /\ Listed(tiers[k]) = {tiers[k][i] : i \in 1 .. Len(tiers[k])}
         /\ Listed(tiers[k]) \subseteq Trackers
<1>1. tiers[k] \in Seq(STRING) /\ Listed(tiers[k]) = Listed(Tiers[k])
  BY DEF TiersInv
<1>2. Len(tiers[k]) \in Nat /\ Listed(tiers[k]) = {tiers[k][i] : i \in 1 .. Len(tiers[k])}
  BY <1>1, ListedIs
<1>3. k \in DOMAIN Tiers
  BY TierTypes
<1>4. Listed(Tiers[k]) \subseteq Trackers
  BY <1>3 DEF Trackers
<1>5. QED
  BY <1>1, <1>2, <1>4

(* announce() begins at the first tracker of the first tier *)
LEMMA BeginsKeeps ==
  ASSUME NEW where \in {"asking", "last"}, AnnounceInv, Begin(where)
  PROVE  AnnounceInv'
<1>1. /\ at' = <<1, 1>> /\ downs' = {} /\ tiers' = tiers /\ failures' = failures
  BY DEF Begin
<1>2. TiersInv' /\ failures' \in 0 .. MaxFailures
  BY <1>1 DEF AnnounceInv, TiersInv
<1>3. at'[1] = 1 /\ at'[2] = 1
  BY <1>1
<1>4. Len(Tiers) \in Nat
  BY TierTypes
<1>5. Left' => at'[2] <= Len(tiers'[at'[1]]) + 1
  <2>1. SUFFICES ASSUME Left' PROVE at'[2] <= Len(tiers'[at'[1]]) + 1
    OBVIOUS
  <2>2. 1 \in 1 .. Len(Tiers)
    BY <1>2, <1>3, <1>4, <2>1 DEF Left, TiersInv
  <2>3. Len(tiers[1]) \in Nat
    BY <2>2, TierIs DEF AnnounceInv
  <2>4. QED
    BY <1>1, <1>3, <2>3
<1>6. \A k \in 1 .. Len(Tiers) : Before(k)' = {}
  BY <1>3, <1>4 DEF Before
<1>7. PlaceInv'
  BY <1>1, <1>3, <1>4, <1>5, <1>6 DEF PlaceInv
<1>8. QED
  BY <1>2, <1>7 DEF AnnounceInv

LEMMA NextTierKeeps ==
  ASSUME AnnounceInv, NextTier
  PROVE  AnnounceInv'
<1>1. /\ Asking /\ Left /\ ~TierLeft /\ at' = <<at[1] + 1, 1>> /\ tiers' = tiers
      /\ failures' = failures /\ downs' = downs
  BY DEF NextTier
<1>2. TiersInv /\ PlaceInv /\ failures \in 0 .. MaxFailures
  BY <1>1 DEF AnnounceInv
<1>3. TiersInv' /\ failures' \in 0 .. MaxFailures
  BY <1>1, <1>2 DEF TiersInv
<1>4. Len(Tiers) \in Nat /\ at[1] \in 1 .. Len(Tiers) /\ at[2] \in Nat
  BY <1>1, <1>2, TierTypes DEF Left, TiersInv, PlaceInv
<1>5. at'[1] = at[1] + 1 /\ at'[2] = 1
  BY <1>1
<1>6. Left' => at'[2] <= Len(tiers'[at'[1]]) + 1
  <2>1. SUFFICES ASSUME Left' PROVE at'[2] <= Len(tiers'[at'[1]]) + 1
    OBVIOUS
  <2>2. at[1] + 1 \in 1 .. Len(Tiers)
    BY <1>3, <1>4, <1>5, <2>1 DEF Left, TiersInv
  <2>3. Len(tiers[at[1] + 1]) \in Nat
    BY <1>2, <2>2, TierIs
  <2>4. QED
    BY <1>1, <1>5, <2>3
(* the tier that was left was asked to its end *)
<1>7. Listed(tiers[at[1]]) \subseteq Before(at[1])
  <2>1. /\ Listed(tiers[at[1]]) = {tiers[at[1]][i] : i \in 1 .. Len(tiers[at[1]])}
        /\ Len(tiers[at[1]]) \in Nat
    BY <1>2, <1>4, TierIs
  <2>2. at[2] - 1 = Len(tiers[at[1]])
    BY <1>1, <1>2, <1>4, <2>1 DEF TierLeft, PlaceInv
  <2>3. QED
    BY <1>4, <2>1, <2>2 DEF Before
<1>8. ASSUME NEW k \in 1 .. Len(Tiers) PROVE Before(k)' \subseteq downs'
  <2>1. CASE k < at[1]
    <3>1. Before(k)' = Listed(tiers[k]) /\ Before(k) = Listed(tiers[k])
      BY <1>1, <1>4, <1>5, <2>1 DEF Before
    <3>2. QED
      BY <1>1, <1>2, <3>1 DEF PlaceInv
  <2>2. CASE k = at[1]
    <3>1. Before(k)' = Listed(tiers[k])
      BY <1>1, <1>4, <1>5, <2>2 DEF Before
    <3>2. QED
      BY <1>1, <1>2, <1>7, <2>2, <3>1 DEF PlaceInv
  <2>3. CASE k > at[1]
    <3>1. Before(k)' = {}
      BY <1>1, <1>4, <1>5, <2>3 DEF Before
    <3>2. QED
      BY <3>1
  <2>4. QED
    BY <1>4, <2>1, <2>2, <2>3
<1>9. PlaceInv'
  BY <1>1, <1>2, <1>4, <1>5, <1>6, <1>8 DEF PlaceInv
<1>10. QED
  BY <1>3, <1>9 DEF AnnounceInv

LEMMA FailsKeeps ==
  ASSUME AnnounceInv, Fails
  PROVE  AnnounceInv'
<1>1. /\ Asking /\ Left /\ TierLeft /\ at' = <<at[1], at[2] + 1>> /\ tiers' = tiers
      /\ failures' = failures /\ downs' = downs \cup {tiers[at[1]][at[2]]}
  BY DEF Fails, Asked
<1>2. TiersInv /\ PlaceInv /\ failures \in 0 .. MaxFailures
  BY <1>1 DEF AnnounceInv
<1>3. TiersInv' /\ failures' \in 0 .. MaxFailures
  BY <1>1, <1>2 DEF TiersInv
<1>4. Len(Tiers) \in Nat /\ at[1] \in 1 .. Len(Tiers) /\ at[2] \in Nat \ {0}
  BY <1>1, <1>2, TierTypes DEF Left, TiersInv, PlaceInv
<1>5. at'[1] = at[1] /\ at'[2] = at[2] + 1
  BY <1>1
<1>6. /\ Len(tiers[at[1]]) \in Nat /\ at[2] <= Len(tiers[at[1]])
      /\ tiers[at[1]][at[2]] \in Trackers
  <2>1. /\ Len(tiers[at[1]]) \in Nat /\ Listed(tiers[at[1]]) \subseteq Trackers
        /\ Listed(tiers[at[1]]) = {tiers[at[1]][i] : i \in 1 .. Len(tiers[at[1]])}
    BY <1>2, <1>4, TierIs
  <2>2. at[2] \in 1 .. Len(tiers[at[1]])
    BY <1>1, <1>4, <2>1 DEF TierLeft
  <2>3. QED
    BY <2>1, <2>2
<1>7. ASSUME NEW k \in 1 .. Len(Tiers) PROVE Before(k)' \subseteq downs'
  <2>1. CASE k # at[1]
    <3>1. Before(k)' = Before(k)
      BY <1>1, <1>5, <2>1 DEF Before
    <3>2. QED
      BY <1>1, <1>2, <3>1 DEF PlaceInv
  <2>2. CASE k = at[1]
    <3>1. /\ Before(k)' = {tiers[k][i] : i \in 1 .. (at[2] + 1) - 1}
          /\ Before(k) = {tiers[k][i] : i \in 1 .. at[2] - 1}
      BY <1>1, <1>4, <1>5, <2>2 DEF Before
    <3>2. Before(k)' \subseteq Before(k) \cup {tiers[k][at[2]]}
      BY <1>4, <3>1
    <3>3. QED
      BY <1>1, <1>2, <2>2, <3>2 DEF PlaceInv
  <2>3. QED
    BY <2>1, <2>2
<1>8. PlaceInv'
  <2>1. at'[1] \in 1 .. Len(Tiers) + 1 /\ at'[2] \in Nat \ {0}
    BY <1>4, <1>5
  <2>2. at'[2] <= Len(tiers'[at'[1]]) + 1
    BY <1>1, <1>4, <1>5, <1>6
  <2>3. downs' \subseteq Trackers
    BY <1>1, <1>2, <1>6 DEF PlaceInv
  <2>4. QED
    BY <1>7, <2>1, <2>2, <2>3 DEF PlaceInv
<1>9. QED
  BY <1>3, <1>8 DEF AnnounceInv

(* the one that answers is moved; the announce is over *)
LEMMA AnswersKeeps ==
  ASSUME NEW interval, NEW found, AnnounceInv, Answers(interval, found)
  PROVE  AnnounceInv'
<1>1. /\ Asking /\ Left /\ TierLeft
      /\ tiers' = [tiers EXCEPT ![at[1]] = Promoted(tiers[at[1]], at[2])]
      /\ pc' \in {"loop", "over"} /\ failures' \in {0, failures}
  BY DEF Answers, NewTimer, AfterSuccess
<1>2. TiersInv /\ PlaceInv /\ failures \in 0 .. MaxFailures /\ MaxFailures \in Nat
  BY <1>1, BackoffAssumption DEF AnnounceInv
<1>3. Len(Tiers) \in Nat /\ at[1] \in 1 .. Len(Tiers) /\ at[2] \in Nat \ {0}
  BY <1>1, <1>2, TierTypes DEF Left, TiersInv, PlaceInv
<1>4. tiers[at[1]] \in Seq(STRING) /\ Len(tiers[at[1]]) \in Nat
  BY <1>2, <1>3, TierIs
<1>5. at[2] \in 1 .. Len(tiers[at[1]])
  BY <1>1, <1>3, <1>4 DEF TierLeft
<1>6. /\ Promoted(tiers[at[1]], at[2]) \in Seq(STRING)
      /\ Listed(Promoted(tiers[at[1]], at[2])) = Listed(tiers[at[1]])
  BY <1>4, <1>5, PromotedKeeps
<1>7. TiersInv'
  BY <1>1, <1>2, <1>3, <1>6 DEF TiersInv
<1>8. failures' \in 0 .. MaxFailures
  BY <1>1, <1>2
<1>9. ~Asking'
  BY <1>1 DEF Asking
<1>10. QED
  BY <1>7, <1>8, <1>9 DEF AnnounceInv

LEMMA NobodyKeeps ==
  ASSUME AnnounceInv, NobodyAnswers
  PROVE  AnnounceInv'
<1>1. /\ tiers' = tiers /\ pc' \in {"loop", "over"}
      /\ failures' \in {0, failures, AtMost(failures + 1, MaxFailures)}
  BY DEF NobodyAnswers, NewTimer, AfterFailure
<1>2. failures \in 0 .. MaxFailures /\ MaxFailures \in Nat
  BY BackoffAssumption DEF AnnounceInv
<1>3. failures' \in 0 .. MaxFailures
  BY <1>1, <1>2 DEF AtMost
<1>4. TiersInv' /\ ~Asking'
  BY <1>1 DEF AnnounceInv, TiersInv, Asking
<1>5. QED
  BY <1>3, <1>4 DEF AnnounceInv

LEMMA RestKeeps ==
  ASSUME AnnounceInv, UNCHANGED <<tiers, at, failures, downs, pc>>
  PROVE  AnnounceInv'
BY DEF AnnounceInv, TiersInv, PlaceInv, Before, Asking, Left, Trackers

LEMMA AnnounceNext == AnnounceInv /\ [Next]_vars => AnnounceInv'
<1> SUFFICES ASSUME AnnounceInv, [Next]_vars PROVE AnnounceInv'
  OBVIOUS
<1>1. CASE Announce \/ AnnounceLast
  BY <1>1, BeginsKeeps DEF Announce, AnnounceLast
<1>2. CASE NextTier
  BY <1>2, NextTierKeeps
<1>3. CASE Fails
  BY <1>3, FailsKeeps
<1>4. CASE NobodyAnswers
  BY <1>4, NobodyKeeps
<1>5. CASE UdpAnswers
  <2>1. PICK interval \in Intervals, found \in BOOLEAN : Answers(interval, found)
    BY <1>5 DEF UdpAnswers
  <2>2. QED
    BY <2>1, AnswersKeeps
<1>6. ASSUME NEW it \in Received, HttpAnswers(it) PROVE AnnounceInv'
  <2>1. CASE it.reply.ok
    <3>1. PICK found \in BOOLEAN : Answers(it.reply.interval, found)
      BY <1>6, <2>1 DEF HttpAnswers
    <3>2. QED
      BY <3>1, AnswersKeeps
  <2>2. CASE ~it.reply.ok
    BY <1>6, <2>2, FailsKeeps DEF HttpAnswers
  <2>3. QED
    BY <2>1, <2>2
<1>7. CASE PeersComeAndGo \/ TrackersComeAndGo \/ Tick \/ Over \/ UNCHANGED vars
  BY <1>7, RestKeeps DEF PeersComeAndGo, TrackersComeAndGo, Tick, Over, vars
<1>8. QED
  BY <1>1, <1>2, <1>3, <1>4, <1>5, <1>6, <1>7 DEF Next, Step

(* when there is nobody left to ask, everybody was asked *)
LEMMA AllAsked ==
  ASSUME AnnounceInv, NobodyAnswers
  PROVE  downs = Trackers
<1>1. Asking /\ ~Left
  BY DEF NobodyAnswers
<1>2. TiersInv /\ PlaceInv
  BY <1>1 DEF AnnounceInv
<1>3. Len(Tiers) \in Nat /\ at[1] = Len(Tiers) + 1
  BY <1>1, <1>2, TierTypes DEF Left, TiersInv, PlaceInv
<1>4. ASSUME NEW k \in DOMAIN Tiers PROVE Listed(Tiers[k]) \subseteq downs
  <2>1. k \in 1 .. Len(Tiers)
    BY TierTypes
  <2>2. Before(k) = Listed(tiers[k])
    BY <1>3, <2>1 DEF Before
  <2>3. QED
    BY <1>2, <2>1, <2>2 DEF TiersInv, PlaceInv
<1>5. Trackers \subseteq downs
  BY <1>4 DEF Trackers
<1>6. QED
  BY <1>2, <1>5 DEF PlaceInv

(* An announce fails only when every tracker of every tier was asked in      *)
(* vain, for any number of tiers and trackers, whatever was promoted before  *)
(* and whoever came up or went down meanwhile.                               *)
THEOREM EverybodyWasAsked == Spec => [][NobodyAnswers => downs = Trackers]_vars
<1>1. AnnounceInv /\ [Next]_vars => [NobodyAnswers => downs = Trackers]_vars
  BY AllAsked
<1>2. QED
  BY <1>1, AnnounceInit, AnnounceNext, PTL DEF Spec

-----------------------------------------------------------------------------
(* AnnounceTimer.                                                            *)

(* Induction: of the numbers that have a property one is the least.          *)
LEMMA LeastNumber ==
  ASSUME NEW T, T \subseteq Nat, T # {}
  PROVE  \E n \in T : \A m \in T : n <= m
<1>1. PICK n \in T : \A m \in T : ~(<<m, n>> \in OpToRel(<, Nat))
  BY NatLessThanWellFounded, WFMin
<1>2. ASSUME NEW m \in T PROVE n <= m
  <2>1. m \in Nat /\ n \in Nat
    OBVIOUS
  <2>2. ~(m < n)
    BY <1>1, <2>1 DEF OpToRel
  <2>3. QED
    BY <2>1, <2>2
<1>3. QED
  BY <1>2

LEMMA PowerType ==
  ASSUME NEW n \in 0 .. Width
  PROVE  2 ^ n \in Nat \ {0}
<1> DEFINE power == [k \in 0 .. Width |-> 2 ^ k]
           T == {k \in Nat : k \in 0 .. Width /\ power[k] \notin Nat \ {0}}
<1>1. Width \in Nat \ {0}
  BY HttpAssumption
<1>2. \A k \in 0 .. Width : power[k] = IF k = 0 THEN 1 ELSE 2 * power[k - 1]
  <2>1. ASSUME NEW k \in 0 .. Width, k # 0 PROVE k - 1 \in 0 .. Width
    BY <1>1, <2>1
  <2>2. QED
    BY <2>1, PowersAssumption
<1> HIDE DEF power
<1>3. ASSUME T # {} PROVE FALSE
  <2>1. PICK k \in T : \A m \in T : k <= m
    BY <1>3, LeastNumber
  <2>2. k \in 0 .. Width /\ power[k] \notin Nat \ {0} /\ k # 0
    BY <1>2
  <2>3. k - 1 \in 0 .. Width /\ ~(k <= k - 1)
    BY <1>1, <2>2
  <2>4. power[k - 1] \in Nat \ {0}
    BY <2>1, <2>3
  <2>5. power[k] = 2 * power[k - 1]
    BY <1>2, <2>2
  <2>6. QED
    BY <2>2, <2>4, <2>5
<1>4. power[n] \in Nat \ {0}
  BY <1>1, <1>3
<1>5. QED
  BY <1>4 DEF power

(* powers grow *)
LEMMA PowersGrow ==
  ASSUME NEW n \in 0 .. Width - 1
  PROVE  2 ^ n \in Nat \ {0} /\ 2 ^ (n + 1) \in Nat /\ 2 ^ n < 2 ^ (n + 1)
<1>1. Width \in Nat \ {0}
  BY HttpAssumption
<1>2. n \in 0 .. Width /\ n + 1 \in 0 .. Width
  BY <1>1
<1>3. 2 ^ n \in Nat \ {0} /\ 2 ^ (n + 1) \in Nat
  BY <1>2, PowerType
<1>4. 2 ^ (n + 1) = 2 * 2 ^ n
  BY <1>1, <1>2, PowersAssumption
<1>5. QED
  BY <1>3, <1>4

LEMMA Widest ==
  Width \in Nat \ {0} /\ 2 ^ Width \in Nat /\ 2 ^ Width >= 2
<1>1. Width \in Nat \ {0}
  BY HttpAssumption
<1>2. Width - 1 \in 0 .. Width - 1 /\ (Width - 1) + 1 = Width
  BY <1>1
<1>3. 2 ^ ((Width - 1) + 1) \in Nat /\ 2 ^ (Width - 1) \in Nat \ {0}
      /\ 2 ^ (Width - 1) < 2 ^ ((Width - 1) + 1)
  BY <1>2, PowersGrow
<1>4. QED
  BY <1>1, <1>2, <1>3

(* a saturated power of two is never smaller than the one before *)
LEMMA PowerGrows ==
  ASSUME NEW n \in Nat
  PROVE  Power(n) \in Nat \ {0} /\ Power(n) <= Power(n + 1)
<1>1. Width \in Nat \ {0} /\ 2 ^ Width \in Nat /\ 2 ^ Width >= 2
  BY Widest
<1>2. CASE n >= Width
  BY <1>1, <1>2 DEF Power
<1>3. CASE n < Width
  <2>1. 2 ^ n \in Nat \ {0} /\ 2 ^ (n + 1) \in Nat /\ 2 ^ n < 2 ^ (n + 1)
    <3>1. n \in 0 .. Width - 1
      BY <1>1, <1>3
    <3>2. QED
      BY <3>1, PowersGrow
  <2>2. Power(n) = 2 ^ n
    BY <1>1, <1>3 DEF Power
  <2>3. CASE n + 1 < Width
    <3>1. Power(n + 1) = 2 ^ (n + 1)
      BY <1>1, <2>3 DEF Power
    <3>2. QED
      BY <2>1, <2>2, <3>1
  <2>4. CASE n + 1 = Width
    <3>1. Power(n + 1) = 2 ^ (n + 1) - 1
      BY <1>1, <2>4 DEF Power
    <3>2. QED
      BY <2>1, <2>2, <3>1
  <2>5. QED
    BY <1>1, <1>3, <2>3, <2>4
<1>4. QED
  BY <1>1, <1>2, <1>3

LEMMA BackoffGrows ==
  ASSUME NEW n \in Nat
  PROVE  Backoff(n) \in 1 .. MaxBackoff /\ Backoff(n) <= Backoff(n + 1)
<1>1. Power(n) \in Nat \ {0} /\ Power(n) <= Power(n + 1) /\ Power(n + 1) \in Nat
  BY PowerGrows
<1>2. MaxBackoff \in Nat \ {0}
  BY BackoffAssumption
<1>3. QED
  BY <1>1, <1>2 DEF Backoff, AtMost

(* However many announces fail, and however narrow the counter and the power *)
(* are, the pause after a failure is within BASE_BACKOFF and MAX_BACKOFF and *)
(* never shorter than the one before.                                        *)
THEOREM BackoffNeverShrinks == Spec => PausesGrow
<1> DEFINE Good == /\ due' \in 1 .. MaxBackoff
                   /\ failures > 0 => due' >= Backoff(failures - 1)
<1>1. ASSUME AnnounceInv, NobodyAnswers /\ pc = "asking" /\ ~starved PROVE Good
  <2>1. failures \in Nat /\ due' = Backoff(failures)
    BY <1>1, BackoffAssumption DEF AnnounceInv, NobodyAnswers, AfterFailure
  <2>2. Backoff(failures) \in 1 .. MaxBackoff
    BY <2>1, BackoffGrows
  <2>3. ASSUME failures > 0 PROVE Backoff(failures) >= Backoff(failures - 1)
    <3>1. failures - 1 \in Nat /\ (failures - 1) + 1 = failures
      BY <2>1, <2>3
    <3>2. Backoff(failures - 1) \in 1 .. MaxBackoff
          /\ Backoff(failures - 1) <= Backoff((failures - 1) + 1)
      BY <3>1, BackoffGrows
    <3>3. QED
      BY <2>2, <3>1, <3>2, BackoffAssumption
  <2>4. QED
    BY <2>1, <2>2, <2>3
<1>2. AnnounceInv /\ [Next]_vars => [NobodyAnswers /\ pc = "asking" /\ ~starved => Good]_vars
  BY <1>1
<1>3. QED
  BY <1>2, AnnounceInit, AnnounceNext, PTL DEF Spec, PausesGrow
=============================================================================
