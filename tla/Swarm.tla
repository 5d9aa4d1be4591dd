-------------------------------- MODULE Swarm --------------------------------
(* The download engine (bt/src/engine.rs): the loop of run(), the connector  *)
(* and reader threads that feed its channel, housekeeping() and the final    *)
(* check.  One step of the engine is one pass of the loop up to recv, one    *)
(* message handled, or one peer of housekeeping(); everything else (threads, *)
(* remote peers, the disk) moves between those steps.                        *)
(*                                                                           *)
(* The channel's content is not a variable: what the thread of address a     *)
(* has queued or will queue is chosen when the engine receives it, and the   *)
(* thread's status says what may still come (Connected or ConnectFailed,     *)
(* then messages, then Died).  A piece moves as a whole here; its blocks,    *)
(* the pipeline and the clocks of one connection are module PeerJob.         *)
EXTENDS PiecePicker

CONSTANTS
    Addrs,              \* addresses trackers and the caller may name
    NoJob,              \* None of Option<PieceJob>
    MaxPeers,           \* config.max_peers
    MaxEmptyRounds,     \* MAX_EMPTY_ROUNDS
    MaxVerifyFailures,  \* MAX_VERIFY_FAILURES
    MaxRechecks,        \* the 2 of `rechecks > 2`
    MaxDamage           \* bound: times the files are damaged from outside

ASSUME AddrsAssumption == IsFiniteSet(Addrs)
ASSUME NoJobAssumption == NoJob \notin Pieces
ASSUME BoundsAssumption ==
    /\ MaxPeers \in Nat /\ MaxEmptyRounds \in Nat \ {0}
    /\ MaxVerifyFailures \in Nat \ {0}
    /\ MaxRechecks \in Nat /\ MaxDamage \in Nat

VARIABLES
    (* the engine *)
    pc,             \* "top" of the loop, "recv", "keep" (housekeeping), "done"
    ours,           \* Bitfield of verified pieces
    downloaded,     \* counter reported to trackers, in pieces
    peers,          \* HashMap<u64, Peer>, a function on the ids in the map
    availability, active,
    queue, known,   \* addresses waiting to be tried; every address ever seen
    connecting,     \* connectors counted as running
    next_id,        \* local of run(): the id of the next connector
    empty_rounds,
    todo, dead,     \* housekeeping(): ids still to visit, ids to remove
    rechecks,       \* local of download()
    result,         \* "running", or what download() returned
    (* the connector and reader thread of each address *)
    thread,         \* "none", "connecting", "open", "shut" (socket closed by
                    \* the engine, queued messages may remain), "gone"
    id_of,          \* the id spawn_connector gave it
    (* the files *)
    disk,           \* disk[p]: piece p on disk hashes to its SHA-1
    damages         \* how often they were damaged, at most MaxDamage

engineVars == <<pc, ours, downloaded, peers, availability, active, queue, known,
                connecting, next_id, empty_rounds, todo, dead, rechecks, result>>
vars == <<engineVars, thread, id_of, disk, damages>>

PeerRecord ==
    [addr     : Addrs,                      \* whose stream and sender it holds
     theirs   : SUBSET Pieces,
     known    : BOOLEAN,                    \* theirs_known
     job      : Pieces \cup {NoJob},
     failures : 0 .. MaxVerifyFailures - 1, \* of the job
     told     : SUBSET Pieces]              \* pieces sent in Bitfield or Have

Ids == DOMAIN peers
Having(p) == {i \in Ids : p \in peers[i].theirs}
JobsOn(p) == {i \in Ids : peers[i].job = p}
Bad == {p \in Pieces : ~disk[p]}
Complete == ours = Pieces
\* mutant: connectors at work do not count
StarvedIgnoringConnectors == Ids = {} /\ queue = {}
Starved == Ids = {} /\ connecting = 0 /\ queue = {}

\* mutant: only the connections, not the connectors, are counted
RoomIgnoringConnectors == Cardinality(Ids) < MaxPeers
Room == connecting + Cardinality(Ids) < MaxPeers

Init ==
    /\ disk \in [Pieces -> BOOLEAN] /\ damages = 0
    /\ ours \in SUBSET (Pieces \ Bad)   \* resume list, each piece verified
    /\ downloaded = Cardinality(ours)
    /\ pc = "top" /\ result = "running" /\ rechecks = 0
    /\ peers = [i \in {} |-> 0]
    /\ availability = [p \in Pieces |-> 0] /\ active = [p \in Pieces |-> 0]
    /\ queue \in SUBSET Addrs /\ known = queue      \* config.bootstrap_peers
    /\ connecting = 0 /\ next_id = 0 /\ empty_rounds = 0
    /\ todo = {} /\ dead = {}
    /\ thread = [a \in Addrs |-> "none"] /\ id_of = [a \in Addrs |-> 0]

-----------------------------------------------------------------------------
(* Parts of several handlers.                                                *)

(* shutdown(Both) on the streams held by the peers in D *)
Closed(D) ==
    [a \in Addrs |-> IF thread[a] = "open" /\ \E i \in D : peers[i].addr = a
                     THEN "shut" ELSE thread[a]]

\* mutant: the job of a removed peer stays counted
DropWithoutAbandon(D) ==
    /\ peers' = [i \in Ids \ D |-> peers[i]]
    /\ availability' = [p \in Pieces |->
            Less(availability[p], Cardinality(D \cap Having(p)))]
    /\ UNCHANGED active

(* remove_peer for each id in D that is in the map *)
Drop(D) ==
    /\ peers' = [i \in Ids \ D |-> peers[i]]
    /\ availability' = [p \in Pieces |->
            Less(availability[p], Cardinality(D \cap Having(p)))]
    /\ active' = [p \in Pieces |-> Less(active[p], Cardinality(D \cap JobsOn(p)))]

\* mutant: the ids to visit are collected before the input is handled
HandledLate == pc' = "keep" /\ todo' = Ids /\ dead' = {}

(* handle() returns and housekeeping() starts *)
Handled == pc' = "keep" /\ todo' = DOMAIN peers' /\ dead' = {}

(* download() leaves its loop: the remaining streams are shut *)
Return(r) ==
    /\ pc' = "done" /\ result' = r
    /\ peers' = [i \in {} |-> 0]
    /\ thread' = Closed(Ids)

-----------------------------------------------------------------------------
(* run(): the top of the loop.                                               *)


AnnounceFound(found) ==
    /\ pc = "top" /\ ~Complete
    /\ ~(Starved /\ found \subseteq known)
    /\ known' = known \cup found
    /\ queue' = queue \cup (found \ known)
    /\ empty_rounds' = 0
    /\ pc' = "recv"
    /\ UNCHANGED <<ours, downloaded, peers, availability, active, connecting, next_id,
                   todo, dead, rechecks, result, thread, id_of, disk, damages>>

(* the timer is not ready, or the announce failed and somebody is there *)
NoAnnounce ==
    /\ pc = "top" /\ ~Complete /\ ~Starved
    /\ pc' = "recv"
    /\ UNCHANGED <<ours, downloaded, peers, availability, active, queue, known, connecting,
                   next_id, empty_rounds, todo, dead, rechecks, result, thread, id_of,
                   disk, damages>>

\* mutant: the rounds in vain are not counted
AnnounceStarvedUncounted(r) ==
    /\ pc = "top" /\ ~Complete /\ Starved
    /\ empty_rounds' = empty_rounds
    /\ IF empty_rounds' >= MaxEmptyRounds
       THEN Return(r)
       ELSE UNCHANGED <<pc, result, peers, thread>>
    /\ UNCHANGED <<ours, downloaded, availability, active, queue, known, connecting, next_id,
                   todo, dead, rechecks, id_of, disk, damages>>

(* nobody is there and the announce brought nobody new ("nopeers") or failed *)
(* ("io"): retry after a second, MaxEmptyRounds times                        *)
AnnounceStarved(r) ==
    /\ pc = "top" /\ ~Complete /\ Starved
    /\ empty_rounds' = empty_rounds + 1
    /\ IF empty_rounds' >= MaxEmptyRounds
       THEN Return(r)
       ELSE UNCHANGED <<pc, result, peers, thread>>
    /\ UNCHANGED <<ours, downloaded, availability, active, queue, known, connecting, next_id,
                   todo, dead, rechecks, id_of, disk, damages>>

(* the queue is drained while there is room; its order is left open *)
Spawn(a) ==
    /\ pc = "recv" /\ Room /\ a \in queue
    /\ queue' = queue \ {a}
    /\ thread' = [thread EXCEPT ![a] = "connecting"]
    /\ id_of' = [id_of EXCEPT ![a] = next_id]
    /\ next_id' = next_id + 1
    /\ connecting' = connecting + 1
    /\ UNCHANGED <<pc, ours, downloaded, peers, availability, active, known, empty_rounds,
                   todo, dead, rechecks, result, disk, damages>>

-----------------------------------------------------------------------------
(* handle(): one input of the channel.                                       *)

Receiving == pc = "recv" /\ ~(Room /\ queue # {})
Sends(a) == thread[a] \in {"open", "shut"}
Talks(a) == Receiving /\ Sends(a) /\ id_of[a] \in Ids

\* mutant: the bitfield sent at connect time is forgotten
NewPeerUntold(a) ==
    [addr |-> a, theirs |-> {}, known |-> FALSE, job |-> NoJob, failures |-> 0,
     told |-> {}]

NewPeer(a) ==
    [addr |-> a, theirs |-> {}, known |-> FALSE, job |-> NoJob, failures |-> 0,
     told |-> ours]

(* HashMap::insert: a peer with the same id is replaced, not removed. *)
Connected(a) ==
    /\ Receiving /\ thread[a] = "connecting"
    /\ thread' = [thread EXCEPT ![a] = "open"]
    /\ connecting' = Less(connecting, 1)
    /\ peers' = [i \in Ids \cup {id_of[a]} |->
                    IF i = id_of[a] THEN NewPeer(a) ELSE peers[i]]
    /\ UNCHANGED <<ours, downloaded, availability, active, queue, known, next_id,
                   empty_rounds, rechecks, result, id_of, disk, damages>>
    /\ Handled

ConnectFailed(a) ==
    /\ Receiving /\ thread[a] = "connecting"
    /\ thread' = [thread EXCEPT ![a] = "gone"]
    /\ connecting' = Less(connecting, 1)
    /\ UNCHANGED <<ours, downloaded, peers, availability, active, queue, known, next_id,
                   empty_rounds, rechecks, result, id_of, disk, damages>>
    /\ Handled

Died(a) ==
    /\ Receiving /\ Sends(a)
    /\ LET D == {id_of[a]} \cap Ids
       IN  Drop(D) /\ thread' = [Closed(D) EXCEPT ![a] = "gone"]
    /\ UNCHANGED <<ours, downloaded, queue, known, connecting, next_id, empty_rounds,
                   rechecks, result, id_of, disk, damages>>
    /\ Handled

(* Message::Bitfield of the right length *)
Bitfield(a, bits) ==
    LET i == id_of[a] IN
    /\ Talks(a)
    /\ availability' = ReplaceBitfield(availability, peers[i].theirs, bits)
    /\ peers' = [peers EXCEPT ![i].theirs = bits, ![i].known = TRUE]
    /\ UNCHANGED <<ours, downloaded, active, queue, known, connecting, next_id, empty_rounds,
                   rechecks, result, thread, id_of, disk, damages>>
    /\ Handled

(* Message::Bitfield that from_bytes refuses *)
BadBitfield(a) ==
    /\ Talks(a)
    /\ Drop({id_of[a]}) /\ thread' = Closed({id_of[a]})
    /\ UNCHANGED <<ours, downloaded, queue, known, connecting, next_id, empty_rounds,
                   rechecks, result, id_of, disk, damages>>
    /\ Handled

Have(a, p) ==
    LET i == id_of[a] IN
    /\ Talks(a) /\ p \notin peers[i].theirs
    /\ availability' = AddHave(availability, p)
    /\ peers' = [peers EXCEPT ![i].theirs = @ \cup {p}, ![i].known = TRUE]
    /\ UNCHANGED <<ours, downloaded, active, queue, known, connecting, next_id, empty_rounds,
                   rechecks, result, thread, id_of, disk, damages>>
    /\ Handled

(* Message::Have beyond the last piece: no bit is set, theirs_known is *)
HaveBeyond(a) ==
    /\ Talks(a)
    /\ peers' = [peers EXCEPT ![id_of[a]].known = TRUE]
    /\ UNCHANGED <<ours, downloaded, availability, active, queue, known, connecting, next_id,
                   empty_rounds, rechecks, result, thread, id_of, disk, damages>>
    /\ Handled

(* recv_timeout ran out, a message from a peer no longer in the map, or one  *)
(* that leaves the state of this module alone                                *)
NothingNew ==
    /\ Receiving
    /\ UNCHANGED <<ours, downloaded, peers, availability, active, queue, known, connecting,
                   next_id, empty_rounds, rechecks, result, thread, id_of, disk, damages>>
    /\ Handled

-----------------------------------------------------------------------------
(* finish_piece(): the last block of the job of peer i = id_of[a] arrived.   *)

Finishes(a) == Talks(a) /\ peers[id_of[a]].job # NoJob

\* mutant: the other jobs on the piece are not cancelled
AnnouncedNotCancelled(i, p) ==
    [j \in Ids |-> [peers[j] EXCEPT
        !.told = @ \cup {p},
        !.job = IF j = i THEN NoJob ELSE @,
        !.failures = IF j = i THEN 0 ELSE @]]

(* Have(p) goes to everybody; jobs on p end, the finished one and those      *)
(* cancelled at the other peers                                              *)
Announced(i, p) ==
    [j \in Ids |-> [peers[j] EXCEPT
        !.told = @ \cup {p},
        !.job = IF peers[j].job = p THEN NoJob ELSE @,
        !.failures = IF peers[j].job = p THEN 0 ELSE @]]

PieceGood(a) ==
    LET i == id_of[a]
        p == peers[i].job IN
    /\ Finishes(a)
    /\ disk' = [disk EXCEPT ![p] = TRUE]
    /\ ours' = ours \cup {p}
    /\ downloaded' = downloaded + 1
    /\ active' = Completed(active, p)
    /\ peers' = Announced(i, p)
    /\ UNCHANGED <<availability, queue, known, connecting, next_id, empty_rounds, rechecks,
                   result, thread, id_of, damages>>
    /\ Handled

(* write_block fails, perhaps half way: the error ends the download *)
WriteFailed(a) ==
    LET p == peers[id_of[a]].job IN
    /\ Finishes(a)
    /\ \E good \in BOOLEAN : disk' = [disk EXCEPT ![p] = good]
    /\ Return("io")
    /\ UNCHANGED <<ours, downloaded, availability, active, queue, known, connecting, next_id,
                   empty_rounds, todo, dead, rechecks, id_of, damages>>

(* the hash is wrong: restart the job on the same peer, or give the peer up *)
PieceBad(a) ==
    LET i == id_of[a] IN
    /\ Finishes(a)
    /\ IF peers[i].failures + 1 >= MaxVerifyFailures
       THEN Drop({i}) /\ thread' = Closed({i})
       ELSE /\ peers' = [peers EXCEPT ![i].failures = @ + 1]
            /\ UNCHANGED <<availability, active, thread>>
    /\ UNCHANGED <<ours, downloaded, queue, known, connecting, next_id, empty_rounds,
                   rechecks, result, id_of, disk, damages>>
    /\ Handled

-----------------------------------------------------------------------------
(* housekeeping(): every peer of the map once, in any order, then the dead.  *)

(* snubbed, or a send to its writer failed: only a peer with a job is tested *)
Marked(i, drop) == dead' = IF drop THEN dead \cup {i} ELSE dead

Assign(i, drop) ==
    /\ pc = "keep" /\ i \in todo
    /\ peers[i].job = NoJob /\ peers[i].known
    /\ \E p \in Picked(ours, peers[i].theirs, availability, active) :
            /\ active' = Started(active, p)
            /\ peers' = [peers EXCEPT ![i].job = p]
    /\ todo' = todo \ {i}
    /\ Marked(i, drop)
    /\ UNCHANGED <<pc, ours, downloaded, availability, queue, known, connecting, next_id,
                   empty_rounds, rechecks, result, thread, id_of, disk, damages>>

Idle(i) ==
    /\ peers[i].job = NoJob
    /\ peers[i].known => Picked(ours, peers[i].theirs, availability, active) = {}

Pass(i, drop) ==
    /\ pc = "keep" /\ i \in todo
    /\ Idle(i) \/ peers[i].job # NoJob
    /\ drop => peers[i].job # NoJob
    /\ todo' = todo \ {i}
    /\ Marked(i, drop)
    /\ UNCHANGED <<pc, ours, downloaded, peers, availability, active, queue, known, connecting,
                   next_id, empty_rounds, rechecks, result, thread, id_of, disk, damages>>

KeepDone ==
    /\ pc = "keep" /\ todo = {}
    /\ Drop(dead) /\ thread' = Closed(dead)
    /\ dead' = {}
    /\ pc' = "top"
    /\ UNCHANGED <<ours, downloaded, queue, known, connecting, next_id, empty_rounds, todo,
                   rechecks, result, id_of, disk, damages>>

-----------------------------------------------------------------------------
(* run() returned Ok: final_check() reads every piece back.                  *)

\* mutant: what is on disk is not read back
SucceedUnread ==
    /\ pc = "top" /\ Complete
    /\ Return("ok")
    /\ UNCHANGED <<ours, downloaded, availability, active, queue, known, connecting, next_id,
                   empty_rounds, todo, dead, rechecks, id_of, disk, damages>>

Succeed ==
    /\ pc = "top" /\ Complete /\ Bad = {}
    /\ Return("ok")
    /\ UNCHANGED <<ours, downloaded, availability, active, queue, known, connecting, next_id,
                   empty_rounds, todo, dead, rechecks, id_of, disk, damages>>

\* mutant: the bytes of a bad piece stay counted
RecheckKeepingCount ==
    /\ pc = "top" /\ Complete /\ Bad # {}
    /\ ours' = ours \ Bad
    /\ rechecks' = rechecks + 1
    /\ next_id' = 0
    /\ IF rechecks' > MaxRechecks
       THEN Return("incomplete")
       ELSE UNCHANGED <<pc, result, peers, thread>>
    /\ UNCHANGED <<downloaded, availability, active, queue, known, connecting, empty_rounds,
                   todo, dead, id_of, disk, damages>>

(* Bad pieces leave `ours`; run() is entered again with the peers, the       *)
(* connectors and the channel of the last time, and with next_id = 0.        *)
Recheck ==
    /\ pc = "top" /\ Complete /\ Bad # {}
    /\ ours' = ours \ Bad
    /\ downloaded' = Less(downloaded, Cardinality(Bad))
    /\ rechecks' = rechecks + 1
    /\ next_id' = 0
    /\ IF rechecks' > MaxRechecks
       THEN Return("incomplete")
       ELSE UNCHANGED <<pc, result, peers, thread>>
    /\ UNCHANGED <<availability, active, queue, known, connecting, empty_rounds, todo, dead,
                   id_of, disk, damages>>

-----------------------------------------------------------------------------
(* The world.                                                                *)

(* somebody else writes to the files of a finished piece *)
Damage(p) ==
    /\ pc # "done" /\ disk[p] /\ damages < MaxDamage
    /\ disk' = [disk EXCEPT ![p] = FALSE]
    /\ damages' = damages + 1
    /\ UNCHANGED <<engineVars, thread, id_of>>

(* The writer of a replaced peer finds its channel closed and shuts the      *)
(* socket, as soon as it is not blocked in a write.                          *)
WriterHangup(a) ==
    /\ pc # "done" /\ thread[a] = "open" /\ \A i \in Ids : peers[i].addr # a
    /\ thread' = [thread EXCEPT ![a] = "shut"]
    /\ UNCHANGED <<engineVars, id_of, disk, damages>>

Done == pc = "done" /\ UNCHANGED vars

Loop ==
    \/ \E found \in SUBSET Addrs : AnnounceFound(found)
    \/ NoAnnounce
    \/ \E r \in {"nopeers", "io"} : AnnounceStarved(r)
    \/ \E a \in Addrs : Spawn(a)
    \/ Succeed
    \/ Recheck

Handle ==
    \/ NothingNew
    \/ \E a \in Addrs :
        \/ Connected(a) \/ ConnectFailed(a) \/ Died(a)
        \/ \E bits \in SUBSET Pieces : Bitfield(a, bits)
        \/ BadBitfield(a) \/ HaveBeyond(a)
        \/ \E p \in Pieces : Have(a, p)
        \/ PieceGood(a) \/ WriteFailed(a) \/ PieceBad(a)

Housekeeping ==
    \/ \E i \in todo, drop \in BOOLEAN : Assign(i, drop)
    \/ \E i \in todo, drop \in BOOLEAN : Pass(i, drop)
    \/ KeepDone

World ==
    \/ \E p \in Pieces : Damage(p)
    \/ \E a \in Addrs : WriterHangup(a)

Next == Loop \/ Handle \/ Housekeeping \/ World \/ Done

Spec == Init /\ [][Next]_vars

-----------------------------------------------------------------------------
(* Types of the variables; a peer's id is one that spawn_connector gave.     *)
TypeOK ==
    /\ pc \in {"top", "recv", "keep", "done"}
    /\ result \in {"running", "ok", "nopeers", "io", "incomplete"}
    /\ ours \in SUBSET Pieces /\ downloaded \in Nat
    /\ Ids \in SUBSET Nat /\ IsFiniteSet(Ids) /\ peers \in [Ids -> PeerRecord]
    /\ availability \in [Pieces -> Nat] /\ active \in [Pieces -> Nat]
    /\ known \in SUBSET Addrs /\ queue \in SUBSET known
    /\ connecting \in Nat /\ next_id \in Nat /\ rechecks \in Nat
    /\ empty_rounds \in 0 .. MaxEmptyRounds
    /\ todo \in SUBSET Ids /\ dead \in SUBSET Ids
    /\ thread \in [Addrs -> {"none", "connecting", "open", "shut", "gone"}]
    /\ id_of \in [Addrs -> Nat]
    /\ disk \in [Pieces -> BOOLEAN] /\ damages \in 0 .. MaxDamage

(* No two connectors were given the same id.  Ids are what the map of peers  *)
(* is keyed by, so most of the engine's bookkeeping rests on this.           *)
IdsUnique ==
    \A a, b \in Addrs :
        thread[a] # "none" /\ thread[b] # "none" /\ a # b => id_of[a] # id_of[b]

(* As long as run() has been entered once only, every connector has an id of *)
(* its own (next_id grows and is never reset before a failed final check).   *)
FirstRunIdsUnique == rechecks = 0 => IdsUnique

(* The connection limit: connectors at work and sockets open together are at *)
(* most max_peers.                                                           *)
PeerLimit ==
    Cardinality({a \in Addrs : thread[a] \in {"connecting", "open"}}) <= MaxPeers

(* While ids are unique, no interleaving of connectors, deaths and messages  *)
(* gets the engine past max_peers.                                           *)
PeerLimitWithUniqueIds == IdsUnique => PeerLimit

(* While ids are unique, availability counts for each piece exactly the      *)
(* connected peers that have it, whatever Bitfield, Have and removals came.  *)
AvailabilityExact ==
    IdsUnique /\ pc # "done" =>
        \A p \in Pieces : availability[p] = Cardinality(Having(p))

(* While ids are unique, the picker counts for each piece exactly the peers  *)
(* that have a job on it: nothing leaks when peers die, send bad data or     *)
(* have their job cancelled.                                                 *)
ActiveExact ==
    IdsUnique /\ pc # "done" =>
        \A p \in Pieces : active[p] = Cardinality(JobsOn(p))

(* At most ENDGAME_DUP peers fetch the same piece, even when ids are reused. *)
EndgameCap == \A p \in Pieces : Cardinality(JobsOn(p)) <= EndgameDup

(* Nobody fetches a piece that is verified already: a job that loses the     *)
(* race for its piece is cancelled in the step that finishes the piece.      *)
JobsMissing == \A i \in Ids : peers[i].job \notin ours

(* Every connected peer was told every piece we have, by the Bitfield sent   *)
(* when it connected or by a Have since then.                                *)
Advertised == \A i \in Ids : ours \subseteq peers[i].told

(* The byte counter reported to trackers is that of the verified pieces,     *)
(* after resume, downloads and failed final checks.                          *)
DownloadedExact == downloaded = Cardinality(ours)

(* Unless somebody else writes to the files, every piece counted as ours is  *)
(* on disk with the right hash: it is written before it is counted, and a    *)
(* write that fails half way is never counted.                               *)
OursOnDisk == damages = 0 => \A p \in ours : disk[p]

(* When housekeeping has visited everybody, a peer is idle only if each      *)
(* missing piece it offers is being fetched by ENDGAME_DUP peers: no work is *)
(* left lying while a peer could do it.                                      *)
WorkConserving ==
    IdsUnique /\ pc = "keep" /\ todo = {} =>
        \A i \in Ids : peers[i].job = NoJob =>
            \A p \in peers[i].theirs \ ours : Cardinality(JobsOn(p)) = EndgameDup

(* NoPeers is returned only after every address ever learned was tried and   *)
(* its connection is over (while ids are unique).                            *)
GivesUpHonestly ==
    IdsUnique /\ result = "nopeers" =>
        \A a \in Addrs : thread[a] \in (IF a \in known THEN {"shut", "gone"} ELSE {"none"})

(* The engine implements Downloader: the pieces and the answer the caller    *)
(* sees change only in the ways that specification allows; in particular Ok  *)
(* is returned only when every piece on disk was just verified.              *)
Abstract == INSTANCE Downloader
ImplementsDownloader == Abstract!Spec
=============================================================================
