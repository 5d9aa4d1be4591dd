------------------------------- MODULE DhtLookup -------------------------------
(* The search for peers in the DHT: lookup_peers() (bt/src/dht.rs) queries   *)
(* the closest nodes it knows and has not queried, a few per round, and      *)
(* learns of peers and of more nodes from their replies.  A query is one     *)
(* get_peers(): DhtClient::round() sends a datagram and reads a few.  All    *)
(* queries share a socket, so a reply that comes after its round is read by  *)
(* a later one, and anybody else may send us datagrams too.  Nodes may name  *)
(* any node, once or several times, under any id.                            *)
EXTENDS Integers, Sequences, FiniteSets

CONSTANTS
    Nodes,          \* addresses of DHT nodes
    Entries,        \* NodeEntry values that replies may contain
    Bootstrap,      \* those of the bootstrap hosts, whose id is the target's
    PeerAddrs,      \* peers the nodes may name
    BatchSize,      \* nodes queried per round, 3 in the code
    MaxRounds,      \* 24 in the code
    Want,           \* peers wanted, 60 in dht_peers()
    K,              \* most entries of a bucket
    Bucket(_),      \* the routing table's bucket for an id
    Attempts,       \* deadline_attempts: datagrams read per query, 3 in the code
    NoEntry, Stranger,
    MaxNamed,       \* bound: entries in one reply
    MaxCopies,      \* bound: copies of one entry in the frontier
    MaxBuffer       \* bound: datagrams in the socket's buffer

ASSUME EntriesAssumption ==
    /\ IsFiniteSet(Entries) /\ Bootstrap \subseteq Entries /\ IsFiniteSet(PeerAddrs)
    /\ \A e \in Entries : e.addr \in Nodes /\ e.id \in Nat
    /\ NoEntry \notin Entries /\ Stranger \notin Nodes
ASSUME LimitsAssumption ==
    /\ BatchSize \in Nat \ {0} /\ MaxRounds \in Nat /\ Want \in Nat
    /\ K \in Nat \ {0} /\ Attempts \in Nat \ {0}
    /\ MaxNamed \in Nat /\ MaxCopies \in Nat \ {0} /\ MaxBuffer \in Nat

VARIABLES
    pc,         \* "top" of a round, "query", "receive", "done"
    rounds,
    frontier,   \* frontier[e]: copies of e; the id of an entry is its distance
    batch,      \* batch[e]: copies of e still to be queried in this round
    queried,    \* addresses
    peers,      \* found; the code keeps them in a list without duplicates
    table,      \* entries of the routing table
    asked,      \* the entry whose node is queried now
    received,   \* datagrams read for this query and skipped
    buffer,     \* datagrams in the socket's buffer
    pending,    \* queries that the nodes have not answered yet
    named,      \* addresses the hosts and the replies named: history
    queries,    \* queries[a]: get_peers() calls to a: history
    strays,     \* datagrams that came for no query or too late, up to Attempts: history
    missed      \* a query failed with its answer in the buffer: history

roundVars == <<asked, received, buffer, pending, strays, missed>>
lookupVars == <<rounds, frontier, batch, queried, peers, table, named, queries>>
vars == <<pc, lookupVars, roundVars>>

AtMost(m, n) == IF m <= n THEN m ELSE n
NoEntries == [e \in Entries |-> 0]
Support(f) == {e \in Entries : f[e] > 0}
(* lists of entries, as often as they are in them *)
Lists == [Entries -> 0 .. MaxCopies]
Added(f, g) == [e \in Entries |-> AtMost(MaxCopies, f[e] + g[e])]
AddrsOf(f) == {e.addr : e \in Support(f)}

(* a list of entries is the set of its copies, numbered *)
Copies(f) == {c \in Entries \X (1 .. MaxCopies) : c[2] <= f[c[1]]}
Size(f) == Cardinality(Copies(f))

Init ==
    /\ pc = "top" /\ rounds = 0
    /\ frontier \in {f \in Lists : Support(f) \subseteq Bootstrap}     \* what resolves
    /\ batch = NoEntries /\ queried = {} /\ peers = {} /\ table = {}
    /\ named = AddrsOf(frontier) /\ queries = [a \in Nodes |-> 0]
    /\ asked = NoEntry /\ received = 0 /\ buffer = <<>> /\ pending = {}
    /\ strays = 0 /\ missed = FALSE

-----------------------------------------------------------------------------
Unqueried(f) == [e \in Entries |-> IF e.addr \in queried THEN 0 ELSE f[e]]

\* mutant: nodes queried before are not filtered out
EligibleAll == frontier
Eligible == Unqueried(frontier)

(* the BatchSize closest, in the order of the frontier where that leaves a   *)
(* choice                                                                    *)
Batches ==
    {b \in Lists :
        /\ \A e \in Entries : b[e] <= Eligible[e]
        /\ Size(b) = AtMost(BatchSize, Size(Eligible))
        /\ \A e, d \in Entries : b[e] > 0 /\ b[d] < Eligible[d] => e.id <= d.id}

Over == Support(frontier) = {} \/ Cardinality(peers) >= Want \/ rounds >= MaxRounds

Finish ==
    /\ pc = "top"
    /\ Over \/ Support(Eligible) = {}
    /\ pc' = "done"
    /\ rounds' = IF Over THEN rounds ELSE rounds + 1
    /\ UNCHANGED <<frontier, batch, queried, peers, table, named, queries, roundVars>>

\* mutant: what is left out of the batch is forgotten
LeftOutForgotten(b) == NoEntries
(* retain(): every entry with the address of one in the batch goes *)
LeftOut(b) == [e \in Entries |-> IF e.addr \in AddrsOf(b) THEN 0 ELSE frontier[e]]

StartRound ==
    /\ pc = "top" /\ ~Over /\ Support(Eligible) # {}
    /\ rounds' = rounds + 1
    /\ \E b \in Batches : batch' = b /\ frontier' = LeftOut(b)
    /\ pc' = "query"
    /\ UNCHANGED <<queried, peers, table, named, queries, roundVars>>

(* the batch is in the frontier's order, closest first *)
Closest(e) == batch[e] > 0 /\ \A d \in Support(batch) : e.id <= d.id

-----------------------------------------------------------------------------
(* DhtClient::round().  A query is known by its node and transaction id,     *)
(* which is random in the code and fresh here.                               *)
Query(a, n) == [from |-> a, txid |-> n]
Current == Query(asked.addr, queries[asked.addr])

Asks(e) ==
    /\ pc = "query" /\ Closest(e)
    /\ queried' = queried \cup {e.addr}
    /\ queries' = [queries EXCEPT ![e.addr] = @ + 1]
    /\ batch' = [batch EXCEPT ![e] = @ - 1]
    /\ asked' = e /\ received' = 0
    /\ pending' = pending \cup {Query(e.addr, queries'[e.addr])}
    /\ pc' = "receive"
    /\ UNCHANGED <<rounds, frontier, peers, table, named, buffer, strays, missed>>

(* the query is over *)
Answered ==
    /\ asked' = NoEntry /\ received' = 0
    /\ pc' = IF Support(batch) = {} THEN "top" ELSE "query"
    /\ UNCHANGED <<rounds, batch, queried, queries, pending, strays>>

Fails ==
    /\ Answered
    /\ missed' = (missed \/ \E k \in 1 .. Len(buffer') : buffer'[k] = Current)
    /\ UNCHANGED <<frontier, peers, table, named>>

\* mutant: one datagram less is read
AttemptsLeftFewer == received + 2 < Attempts
AttemptsLeft == received + 1 < Attempts

(* another sender's: read on *)
Skips ==
    /\ pc = "receive" /\ buffer # <<>> /\ Head(buffer).from # asked.addr
    /\ buffer' = Tail(buffer)
    /\ IF AttemptsLeft
       THEN received' = received + 1 /\ UNCHANGED <<pc, lookupVars, asked, pending, strays, missed>>
       ELSE Fails

(* the node's reply to a query before, or one that cannot be used; or recv() *)
(* times out, since nothing came; or sending fails                           *)
Rejects ==
    /\ pc = "receive"
    /\ IF buffer = <<>> THEN UNCHANGED buffer
       ELSE Head(buffer).from = asked.addr /\ buffer' = Tail(buffer)
    /\ Fails

(* RoutingTable::insert; our own id is drawn at random and nobody's *)
Inserted(e) ==
    IF (\E d \in table : d.id = e.id)
       \/ Cardinality({d \in table : Bucket(d.id) = Bucket(e.id)}) >= K
    THEN table ELSE table \cup {e}

Replies(found, nodes) ==
    /\ pc = "receive" /\ buffer # <<>> /\ Head(buffer) = Current
    /\ buffer' = Tail(buffer)
    /\ Answered
    /\ table' = Inserted(asked)
    /\ peers' = peers \cup found
    /\ named' = named \cup AddrsOf(nodes)
    /\ frontier' = Added(frontier, Unqueried(nodes))
    /\ UNCHANGED missed

(* what fits in a reply; an entry may be in it several times *)
Replied == {f \in Lists : Size(f) <= MaxNamed}

Lookup ==
    \/ Finish \/ StartRound
    \/ \E e \in Entries : Asks(e)
    \/ Skips \/ Rejects
    \/ \E found \in SUBSET PeerAddrs, nodes \in Replied : Replies(found, nodes)

-----------------------------------------------------------------------------
(* The network loses, delays and reorders datagrams.                         *)

Arrives(q) ==
    /\ Len(buffer) < MaxBuffer
    /\ buffer' = Append(buffer, q)
    /\ strays' = IF asked # NoEntry /\ q = Current THEN strays ELSE AtMost(Attempts, strays + 1)
    /\ UNCHANGED <<pc, lookupVars, asked, received, missed>>

NodeAnswers(q) == q \in pending /\ Arrives(q) /\ pending' = pending \ {q}
Lost(q) ==
    /\ q \in pending /\ pending' = pending \ {q}
    /\ UNCHANGED <<pc, lookupVars, asked, received, buffer, strays, missed>>
StrangerSends == Arrives(Query(Stranger, 0)) /\ UNCHANGED pending

World == pc # "done" /\ (StrangerSends \/ \E q \in pending : NodeAnswers(q) \/ Lost(q))

Done == pc = "done" /\ UNCHANGED vars

Next == Lookup \/ World \/ Done

Spec == Init /\ [][Next]_vars

-----------------------------------------------------------------------------
(* The lookup ends early only when every node it ever heard of was queried:  *)
(* none is lost between the frontier, the batch and the replies that name it *)
(* again while it is being queried.                                          *)
NobodyForgotten ==
    pc = "done" /\ Cardinality(peers) < Want /\ rounds < MaxRounds => named \subseteq queried

(* No address is queried more than BatchSize times, however often and under  *)
(* however many ids it is named, by one reply or by several.                 *)
FewQueries == \A a \in Nodes : queries[a] <= BatchSize

(* Datagrams of others do no harm while they are few: unless there were as   *)
(* many as a query reads, counting all that ever came late or from           *)
(* strangers, a node that answers in time is heard, however the datagrams    *)
(* interleave with the queries.  (A node queried twice in a round may be     *)
(* taken at its first, late answer.)                                         *)
FewStraysDoNoHarm == missed => strays >= Attempts \/ \E a \in Nodes : queries[a] > 1
=============================================================================
