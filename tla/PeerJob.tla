------------------------------- MODULE PeerJob -------------------------------
(* One connection of the engine seen block by block: the PieceJob of a Peer, *)
(* its RequestPipeline (bt/src/requests.rs), its PeerState                   *)
(* (bt/src/peer_state.rs) and the two clocks of housekeeping(), which        *)
(* requests blocks again after BLOCK_TIMEOUT and drops the peer after        *)
(* SNUB_TIMEOUT (bt/src/engine.rs).                                          *)
(*                                                                           *)
(* The remote peer may send any block at any time: early, late, twice, for   *)
(* an old job, with wrong data, or never.  What a step of Swarm does with a  *)
(* whole piece (PieceGood, PieceBad, the end of a job) is done here by the   *)
(* last of its blocks.  An announce blocks the engine's thread: the clocks go *)
(* on, and of what the peer sends meanwhile one message is handled before    *)
(* the next announce, when the tracker named an interval of 0.               *)
EXTENDS Integers, FiniteSets

CONSTANTS
    Pieces,             \* pieces the peer may be given
    NoJob,
    Blocks,             \* the (begin, length) pairs of piece_blocks()
    Depth,              \* PIPELINE_DEPTH
    BlockTimeout,       \* BLOCK_TIMEOUT, in ticks
    SnubTimeout,        \* SNUB_TIMEOUT, in ticks
    MaxVerifyFailures,  \* MAX_VERIFY_FAILURES
    MaxAnnounce         \* bound: ticks an announce takes; a tick is BASE_BACKOFF,
                        \* the least pause after an announce that failed

ASSUME BlocksAssumption == IsFiniteSet(Blocks) /\ Blocks # {}
ASSUME NoJobAssumption == NoJob \notin Pieces
ASSUME LimitsAssumption ==
    /\ Depth \in Nat \ {0} /\ MaxVerifyFailures \in Nat \ {0}
    /\ BlockTimeout \in Nat \ {0} /\ SnubTimeout \in Nat
    /\ MaxAnnounce \in Nat

VARIABLES
    pc,         \* "top" (of run()'s loop), "recv", "keep" and "issue"
                \* (housekeeping), "gone" (removed)
    wanted,     \* pieces the engine does not have yet
    job,        \* index of the running job
    failures,   \* of the job
    pending,    \* pending[b]: times b is in job.pending; its order is left open
    in_flight,  \* the pipeline; issue() keeps it free of duplicates
    age,        \* age[b]: ticks since b was issued, up to BlockTimeout
    received,   \* blocks counted by the job (bytes in the code)
    arrived,    \* which they are: history, not in the code
    data,       \* what the buffer holds for each block
    choked,     \* peer_choking
    interested, \* am_interested
    writer,     \* the writer thread still takes messages
    idle,       \* ticks since last_useful, up to SnubTimeout + 1
    rested,     \* the timer may be ready: a tick has passed since the last
                \* announce, or it was answered with an interval below a tick
    listened,   \* in the time of idle the engine waited for messages for a tick:
                \* history, not in the code
    hurried     \* not listened, and in the time of idle an announce took longer
                \* than SnubTimeout, or was answered with an interval below a tick:
                \* history

jobVars == <<wanted, job, failures, pending, in_flight, age, received, arrived, data>>
clockVars == <<idle, rested, listened, hurried>>
linkVars == <<choked, interested, writer, clockVars>>
vars == <<pc, jobVars, linkVars>>

None == [b \in Blocks |-> 0]
All == [b \in Blocks |-> 1]
Pushed(f, S) == [b \in Blocks |-> IF b \in S THEN f[b] + 1 ELSE f[b]]
HasSlot == Cardinality(in_flight) < Depth
CanRequest == interested /\ ~choked
Whole == Cardinality(Blocks)

Init ==
    /\ pc = "keep" /\ wanted \in SUBSET Pieces
    /\ job = NoJob /\ failures = 0 /\ pending = None /\ in_flight = {}
    /\ age = None /\ received = 0 /\ arrived = {} /\ data = [b \in Blocks |-> "zero"]
    /\ choked = TRUE /\ interested = FALSE /\ writer = TRUE
    /\ idle = 0 /\ rested = TRUE /\ listened = FALSE /\ hurried = FALSE

-----------------------------------------------------------------------------
(* Inputs of the channel.  housekeeping() follows each.                      *)

Unchoke ==
    /\ pc = "recv"
    /\ choked' = FALSE
    /\ pc' = "keep"
    /\ UNCHANGED <<jobVars, interested, writer, clockVars>>

(* drain(): what was in flight will have to be requested again *)
Choke ==
    /\ pc = "recv"
    /\ choked' = TRUE
    /\ IF job = NoJob THEN UNCHANGED <<pending, in_flight>>
       ELSE pending' = Pushed(pending, in_flight) /\ in_flight' = {}
    /\ pc' = "keep"
    /\ UNCHANGED <<wanted, job, failures, age, received, arrived, data,
                   interested, writer, clockVars>>

(* Message::Piece for the current job and a request in flight *)
Stores(b, q) ==
    /\ pc = "recv" /\ job # NoJob /\ b \in in_flight
    /\ idle' = 0 /\ listened' = FALSE /\ hurried' = FALSE /\ UNCHANGED rested

(* the next block of a piece that is not whole yet *)
BlockStored(b, q) ==
    /\ Stores(b, q) /\ received + 1 # Whole
    /\ in_flight' = in_flight \ {b}
    /\ received' = received + 1 /\ arrived' = arrived \cup {b}
    /\ data' = [data EXCEPT ![b] = q]
    /\ pc' = "keep"
    /\ UNCHANGED <<wanted, job, failures, pending, age, choked, interested, writer>>

\* mutant: the requests of a cancelled job are not drained
JobOverUndrained ==
    /\ job' = NoJob /\ failures' = 0
    /\ pending' = None /\ UNCHANGED in_flight
    /\ received' = 0 /\ arrived' = {} /\ data' = [b \in Blocks |-> "zero"]

(* the job leaves the peer with its pipeline empty: it is cancelled *)
JobOver ==
    /\ job' = NoJob /\ failures' = 0
    /\ pending' = None /\ in_flight' = {}
    /\ received' = 0 /\ arrived' = {} /\ data' = [b \in Blocks |-> "zero"]

(* finish_piece(), every block right: the hash matches.  What is left in the *)
(* pipeline would stay there: finishing does not drain it.                   *)
LastBlockGood(b) ==
    /\ Stores(b, "good") /\ received + 1 = Whole
    /\ \A c \in Blocks \ {b} : data[c] = "good"
    /\ wanted' = wanted \ {job}
    /\ job' = NoJob /\ failures' = 0 /\ pending' = None
    /\ in_flight' = in_flight \ {b}
    /\ received' = 0 /\ arrived' = {} /\ data' = [c \in Blocks |-> "zero"]
    /\ pc' = "keep"
    /\ UNCHANGED <<age, choked, interested, writer>>

\* mutant: a peer is never given up for bad data
LastBlockBadForgiven(b, q) ==
    /\ Stores(b, q) /\ received + 1 = Whole
    /\ q = "bad" \/ \E c \in Blocks \ {b} : data[c] # "good"
    /\ data' = [data EXCEPT ![b] = q]
    /\ in_flight' = in_flight \ {b}
    /\ pc' = "keep"
    /\ pending' = All /\ received' = 0 /\ arrived' = {}
    /\ UNCHANGED <<wanted, job, failures, age, choked, interested, writer>>

(* finish_piece(), some block wrong: restart() with the buffer as it is, or  *)
(* the peer is removed *)
LastBlockBad(b, q) ==
    /\ Stores(b, q) /\ received + 1 = Whole
    /\ q = "bad" \/ \E c \in Blocks \ {b} : data[c] # "good"
    /\ data' = [data EXCEPT ![b] = q]
    /\ in_flight' = in_flight \ {b}
    /\ IF failures + 1 >= MaxVerifyFailures
       THEN pc' = "gone" /\ UNCHANGED <<failures, pending, received, arrived>>
       ELSE /\ pc' = "keep" /\ failures' = failures + 1
            /\ pending' = All /\ received' = 0 /\ arrived' = {}
    /\ UNCHANGED <<wanted, job, age, choked, interested, writer>>

(* another peer finished p: our job on it is cancelled and drained *)
OtherFinished(p) ==
    /\ pc = "recv" /\ p \in wanted
    /\ wanted' = wanted \ {p}
    /\ IF job = p THEN JobOver
       ELSE UNCHANGED <<job, failures, pending, in_flight, received, arrived, data>>
    /\ pc' = "keep"
    /\ UNCHANGED <<age, linkVars>>

(* a block nobody waits for, another message or another peer's, or a timeout *)
NothingNew ==
    /\ pc = "recv"
    /\ pc' = "keep"
    /\ UNCHANGED <<jobVars, linkVars>>

Died ==
    /\ pc = "recv"
    /\ pc' = "gone"
    /\ UNCHANGED <<jobVars, linkVars>>

-----------------------------------------------------------------------------
(* housekeeping() for this peer.                                             *)

Late == {b \in in_flight : age[b] >= BlockTimeout}
Snubbed == idle > SnubTimeout

(* no job and none picked *)
KeepIdle ==
    /\ pc = "keep" /\ job = NoJob
    /\ pc' = "top"
    /\ UNCHANGED <<jobVars, linkVars>>

(* a running or a new job, and the snub clock has run out: the clock starts  *)
(* at the last useful block, not when the job is given                       *)
KeepSnubbed ==
    /\ pc = "keep" /\ Snubbed
    /\ job # NoJob \/ wanted # {}
    /\ pc' = "gone"
    /\ UNCHANGED <<jobVars, linkVars>>

(* Interested is sent with the first job; a dead writer is noticed now *)
Interest ==
    IF interested \/ writer
    THEN interested' = TRUE /\ pc' = "issue"
    ELSE interested' = FALSE /\ pc' = "gone"

(* expired(): late requests go back to pending *)
KeepJob ==
    /\ pc = "keep" /\ job # NoJob /\ ~Snubbed
    /\ pending' = Pushed(pending, Late)
    /\ in_flight' = in_flight \ Late
    /\ Interest
    /\ UNCHANGED <<wanted, job, failures, age, received, arrived, data, choked, writer, clockVars>>

(* PieceJob::start for the piece pick() chose *)
StartJob(p) ==
    /\ pc = "keep" /\ job = NoJob /\ p \in wanted /\ ~Snubbed
    /\ job' = p /\ failures' = 0 /\ pending' = All
    /\ received' = 0 /\ arrived' = {} /\ data' = [b \in Blocks |-> "zero"]
    /\ Interest
    /\ UNCHANGED <<wanted, in_flight, age, choked, writer, clockVars>>

Issues == CanRequest /\ HasSlot /\ \E b \in Blocks : pending[b] > 0

(* One block leaves pending; issue() refuses it when it is in flight, and    *)
(* then nothing is sent and the block is in neither.                         *)
Issue(b) ==
    /\ pc = "issue" /\ CanRequest /\ HasSlot /\ pending[b] > 0
    /\ pending' = [pending EXCEPT ![b] = @ - 1]
    /\ IF b \in in_flight THEN UNCHANGED <<pc, in_flight, age>>
       ELSE /\ in_flight' = in_flight \cup {b} /\ age' = [age EXCEPT ![b] = 0]
            /\ pc' = IF writer THEN "issue" ELSE "gone"
    /\ UNCHANGED <<wanted, job, failures, received, arrived, data, linkVars>>

IssueDone ==
    /\ pc = "issue" /\ ~Issues
    /\ pc' = "top"
    /\ UNCHANGED <<jobVars, linkVars>>

-----------------------------------------------------------------------------
(* The top of the loop; time passes while the engine announces or waits; a   *)
(* write fails in the writer thread.                                         *)

AtMost(m, n) == IF m <= n THEN m ELSE n

Passes(n) ==
    /\ age' = [b \in Blocks |->
                  IF b \in in_flight THEN AtMost(BlockTimeout, age[b] + n) ELSE 0]
    /\ idle' = AtMost(SnubTimeout + 1, idle + n)
    /\ UNCHANGED <<wanted, job, failures, pending, in_flight, received, arrived, data,
                   choked, interested, writer>>

Tick ==
    /\ pc = "recv" /\ Passes(1)
    /\ rested' = TRUE /\ listened' = TRUE /\ hurried' = FALSE
    /\ UNCHANGED pc

(* the timer is not ready *)
Proceed ==
    /\ pc = "top"
    /\ pc' = "recv"
    /\ UNCHANGED <<jobVars, linkVars>>

\* mutant: the pause is counted from before the announce
RestedAtOnce == TRUE
(* AnnounceTimer::ready *)
Rested == rested

(* announce() in run(), of n ticks: a tracker that does not answer takes     *)
(* 20 s over HTTP, 60 s over UDP, one after the other until one answers.     *)
(* After a failure the timer is not ready for BASE_BACKOFF at least; after a *)
(* success for the interval the tracker named, which may be 0.               *)
Announces(n) ==
    /\ pc = "top" /\ Rested
    /\ Passes(n)
    /\ \E soon \in BOOLEAN :
        /\ rested' = soon
        /\ hurried' = (~listened /\ (hurried \/ soon \/ n > SnubTimeout))
    /\ pc' = "recv"
    /\ UNCHANGED listened

WriterDies ==
    /\ pc # "gone" /\ writer
    /\ writer' = FALSE
    /\ UNCHANGED <<pc, jobVars, choked, interested, clockVars>>

Gone == pc = "gone" /\ UNCHANGED vars

Receive ==
    \/ Unchoke \/ Choke \/ NothingNew \/ Died
    \/ \E b \in Blocks, q \in {"good", "bad"} : BlockStored(b, q)
    \/ \E b \in Blocks : LastBlockGood(b)
    \/ \E b \in Blocks, q \in {"good", "bad"} : LastBlockBad(b, q)
    \/ \E p \in Pieces : OtherFinished(p)

Housekeeping ==
    \/ KeepIdle \/ KeepSnubbed \/ KeepJob
    \/ \E p \in Pieces : StartJob(p)
    \/ \E b \in Blocks : Issue(b)
    \/ IssueDone

Top == Proceed \/ \E n \in 0 .. MaxAnnounce : Announces(n)

Next == Top \/ Receive \/ Housekeeping \/ Tick \/ WriterDies \/ Gone

Spec == Init /\ [][Next]_vars

TimePasses == Tick \/ \E n \in 1 .. MaxAnnounce : Announces(n)

(* The engine's thread runs: recv_timeout returns twice a second and is      *)
(* followed by housekeeping().  Time passes, while it waits or announces.    *)
Fairness ==
    /\ WF_vars(Top) /\ WF_vars(Receive) /\ WF_vars(Housekeeping)
    /\ SF_vars(TimePasses)

FairSpec == Spec /\ Fairness

-----------------------------------------------------------------------------
(* Every block of the running job is in exactly one place: still to be       *)
(* requested, in flight, or arrived since the job (re)started, and the       *)
(* byte count is that of the arrived ones.  So timeouts, chokes, restarts,   *)
(* late and repeated answers neither lose a block (the job would never end)  *)
(* nor count one twice (the piece would be hashed with a hole in it).        *)
(* Without a job nothing is outstanding: the pipeline a finished job leaves  *)
(* behind is empty although finishing does not drain it, so a new job never  *)
(* inherits a slot that cannot be freed.                                     *)
Partition ==
    IF job = NoJob THEN in_flight = {} /\ pending = None
    ELSE pc # "gone" =>
        /\ \A b \in Blocks :
                pending[b] + (IF b \in in_flight THEN 1 ELSE 0)
                           + (IF b \in arrived THEN 1 ELSE 0) = 1
        /\ received = Cardinality(arrived)

(* A peer is dropped for the engine's own silence in two cases only: since   *)
(* its last useful block one announce alone took longer than SNUB_TIMEOUT,   *)
(* or one was answered with an interval below BASE_BACKOFF, so that the next *)
(* could follow with one message in between.  Otherwise, however announces   *)
(* line up with the peer's clock, failures after one another included, the   *)
(* engine has listened for a whole BASE_BACKOFF before it drops the peer.    *)
ListensBeforeDropping == [][KeepSnubbed => listened \/ hurried]_vars

(* A job ends, whatever the remote peer does: it is finished, cancelled, or  *)
(* the peer is dropped.  Only useful blocks reset the snub clock, a job has  *)
(* finitely many of them and may be restarted a bounded number of times.     *)
JobEnds == \A p \in Pieces : job = p ~> (job # p \/ pc = "gone")
=============================================================================
