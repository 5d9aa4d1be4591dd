# Formal model of btget

TLA+ modules, TLC runs and TLAPS proofs about btget, the command-line torrent
downloader in this repository: the library `bt/src` (download engine, trackers,
DHT, metadata exchange, resume) and the program `btget/src`.  Every definition is
translated from the source; `PROJECT.json` maps it to its lines.

## 1. The system

| Component | Source | State it keeps | Operations | Model |
|---|---|---|---|---|
| Download engine | `bt/src/engine.rs` | verified pieces, map of peers, queue and known addresses, counters, clocks | `download`, `run`, `handle`, `on_message`, `finish_piece`, `housekeeping`, `final_check`, `remove_peer` | `Swarm`, `SwarmLiveness`; promise to the caller: `Downloader` |
| Connector, reader and writer threads | `engine.rs` `spawn_connector` | a socket, a channel end | connect, handshake, forward messages, report death | `Connection`; promise to the engine: `Link`; in `Swarm` one variable, `thread` |
| Wire codec | `peer.rs` | none | encode, frame and parse a message | `Wire`, used by `Connection` |
| Piece picker, availability | `picker.rs`, `pieces.rs` | jobs per piece, peers per piece | `pick`, `complete`, `abandon`, `add_have`, `add_bitfield`, `remove_bitfield` | `PiecePicker` |
| Piece job and request pipeline | `engine.rs` `PieceJob`, `requests.rs`, `peer_state.rs` | pending, in-flight and received blocks, choke and interest flags, two clocks | issue, complete, expire, drain, restart | `PeerJob` |
| Choking | `choke.rs`, `engine.rs` `rebalance_chokes` | who is choked, the rotor's peer and time | `select_unchoked`, `maybe_rotate` | `Choking` |
| Storage | `storage.rs` | files on disk | `segments`, `write_block`, `read_block`; `allocate` (not modelled) | `Storage`, used by `Resume` |
| Resume file and verification | `resume.rs`, `verify.rs` | the file `.<name>.resume` | `save`, `load`, `remove`, `verify_piece` | `Resume` |
| Tracker tiers, announce timer | `tracker_set.rs` | order of each tier, failures, due time | `TrackerSet::announce`, `announce_url`, `AnnounceTimer` | `TrackerAnnounce` |
| HTTP tracker client | `tracker.rs` | none | one request | `HttpTracker` (what is made of a reply), used by `TrackerAnnounce` |
| UDP tracker client | `tracker_udp.rs` | a socket per announce | `udp_announce`, `udp_round` | `UdpTracker` |
| Metadata exchange | `metadata.rs`, `extensions.rs` | buffer and deadline of one peer | `fetch_from_peers`, `fetch_from_stream` | `MetadataFetch`, `Extensions` |
| Bencode | `bencode.rs` | none | `encode`, `decode`, `decode_lenient` | `Bencode` (encoding and the lenient decoder), used by `Extensions` and `HttpTracker` |
| Magnet resolution | `btget/src/main.rs` | known and tried peers, pause, time limit | `resolve_magnet`, `announce_peers`, `dht_peers` | `MagnetResolve` |
| DHT client | `dht.rs` | frontier, queried nodes, routing table, a socket | `lookup_peers`, `DhtClient::round`, `RoutingTable::insert` | `DhtLookup` |
| Torrent and magnet parsing, random source, command line | `metainfo.rs`, `magnet.rs`, `random.rs`, `cli.rs`, rest of `main.rs` | none | parse, format, report | no |

**How they interact.**  `main.rs` reads a torrent file, or resolves a magnet link
(trackers, DHT, metadata from peers), and calls `download()`.  The engine is one
thread.  It owns all state and receives from one channel; a connector thread per
address connects, then becomes the reader of that peer and sends `Connected` or
`ConnectFailed`, then `Msg`s, then `Died`; a writer thread per peer takes the
engine's messages.  After each input, or half a second without one, `housekeeping()`
goes over all peers: it requests late blocks again, gives jobs, drops silent peers,
fills pipelines and, every ten and twenty seconds, rebalances chokes and saves the
resume file.  Announces are made by the engine's thread and block it.

**What is hard.**  Threads' messages in any order relative to each other and to
removals; ids that key the engine's map and outlive one entry of `run()`; counters
kept apart from what they count; endgame duplicates and their cancellation; clocks
racing answers; disk errors half way, damaged files, kills; loss and delay of
datagrams; loops over untrusted answers that must neither stop early nor run for
ever.  `PROJECT.json` lists each as a hazard at its line.

**What makes each part correct.**  Engine: exact counters, no work done twice or
left undone, the connection limit, the answer to the caller.  Threads: one report,
every message once and in order, Died last, and none that stays.  Job: no block lost
or counted twice, every job ends, no peer dropped unheard.  Choking: slots bounded,
given to those who give, the optimistic one held.  Storage and resume: every byte in
its place, nothing else touched, nothing counted or served that is not on disk,
nothing fetched twice.  Trackers: nobody forgotten, pauses bounded, answers authentic
and whole.  Magnet and DHT: an honest source suffices, the search ends when it
should.

## 2. Modules

**`PiecePicker`** — `pick`, `complete`, `abandon` and `Availability` as operators on
`active` (the picker's map; absent keys are 0) and `availability`.  `Picked` returns
the chosen piece as a set, empty for `None`.

**`Swarm`** EXTENDS `PiecePicker`.  `pc` says where the engine's thread is: `top` of
the loop, `recv`, `keep` (`housekeeping()`, one peer per step, in any order, as a
`HashMap` is iterated), `done`.  `AnnounceFound`, `NoAnnounce` and `AnnounceStarved`
are the branches of the announce; `Spawn` the `while` that starts connectors;
`Connected` ... `PieceBad` the inputs of `handle()`; `Assign`, `Pass`, `KeepDone`
are `housekeeping()`; `Succeed` and `Recheck` are `final_check()` and what
`download()` does with it.  The channel is not a variable: what the thread of an
address has sent is chosen when it is received, which allows every content the
channel can have; `thread` says what may still come from that thread, including
after the engine closed the socket (`shut`) or forgot the peer; that this is all the
threads do is `ImplementsLink` of `Connection`.  A piece moves as a
whole.  `disk[p]` says whether piece p hashes right; `Damage` is another program
writing to the files.

**`Downloader`** — what the caller of `download()` may rely on: three variables and no
peers.  `Swarm` implements it under the identity mapping (`ImplementsDownloader`).

**`SwarmLiveness`** EXTENDS `Swarm` with fairness and a peer that may be a seed.
`Misbehaves` is what a seed does not do, and the disk does not fail.  `clock` is the
seed's snub clock, which `Swarm` has no time for: `Waits` is time that passes while the
seed has no job, after which `housekeeping()` may drop it (`Snubbed(Seed)`) in the pass
that has a job for it.  While the seed has had a job all along its blocks get through in
time; that no announce blocks the engine for too long is assumed of the trackers.

**`Connection`** EXTENDS **`Wire`** — the three threads of one connection and the bytes
they read.  `Wire` is `encode_message` and `parse_frame` on bytes; numbers are built
from their four bytes.  In `Connection` the remote end sends a script of frames again
and again, `avail` is what has arrived; `off` of the current frame is read, some bytes
at a time, as `read_exact` does.  `inbox` is the channel to the engine, `outbox`
counts what is queued for the writer.  `socket` is shut by the engine
(`remove_peer`, `download`) or by a writer whose channel closed.  The engine here is
what it does to one connection: handle an input, send, remove, replace (the id was
given again), end, return.

**`Link`** — what the engine relies on of these threads, and what `Swarm` assumes with its
variable `thread`: one report, then the peer's messages without a gap and none after
a bad one, then the end.  `Connection` implements it (`ImplementsLink`), with
`status` mapped to a state function of the engine's view and the socket.

**`PeerJob`** — one connection, block by block; the steps `PieceGood`, `PieceBad` and
the end of a job in `Swarm` are its last block.  The remote peer may send any block
at any time, right or wrong.  A tick is BASE_BACKOFF, 15 s.  `pc` is `top` where `run()`
looks at the announce timer, once before each message.  `Announces` is `announce()`
blocking the engine: the clocks of blocks and peer advance by up to `MaxAnnounce`
ticks while no message is handled.  After a failure the timer is not ready (`Rested`)
for at least a tick; after a success it may be ready at once, because a tracker may
name any interval, so that one message is handled between two announces.  `hurried`
notes that this happened, or that one announce outlasted SNUB_TIMEOUT.

**`Choking`** — `Rebalance` computes candidates, optimistic peer, regular slots and new
choke flags in one step, as `rebalance_chokes()` does; between two of them peers
join, leave, change. `order` is the iteration order of the map, which the
candidate list inherits.

**`Storage`** — the content as one run of bytes in files of any lengths, zero among
them.  A place is a file and a position; `disk` says whose byte is there.  `Walk`,
`Take` and `Onward` are the loop of `segments()`, one file per step; `Segment` is
where the bytes of a step go and `ByteFor` which they are.

**`Resume`** EXTENDS `Storage` — several runs of the program on one directory.  Pieces
are read and written file by file, and every such step may be the last: `WriteFails`
(any number of the bytes written), `Killed` (the same), `ReadFails`.  A save is two
steps, because `fs::write` truncates first.  `Serve` is a `Request`: it may run beyond
its piece.  Two torrents of one name share the resume file and the content files.
`Damage` is another program writing to a byte at any time.

**`TrackerAnnounce`** EXTENDS **`HttpTracker`** — when `run()` announces and whom
`TrackerSet` asks; each tracker is one step, trackers go up and down in between. `at` is
the position of the two nested loops.  What an HTTP tracker sends is one of `Replies`,
received up to any token (`Received`); `Understood` is what `http_announce()` makes of
it.  `answered` is about the announce under way, or the last.  A tracker that is up
answers soundly and to the end, one that is not may send anything or nothing.

**`UdpTracker`** — client, network and tracker of one `udp_announce()`; transaction ids
are fresh numbers (random in the code).  Datagrams are sets: order is not kept, a
datagram may be taken and stay (`again`: duplication).

**`Bencode`** — `encode` of dictionaries and the lenient decoder.  Inputs are sequences
of tokens (integer, string, `l`, `d`, `e`, anything else), not of bytes: the digits
of lengths and integers are abstracted, the nesting, the order of keys, the depth limit
and the end of the input are not.  The recursion is by recursive functions.

**`Extensions`** EXTENDS `Bencode` — extension handshakes and metadata messages, with
`find_dict_end()`, which separates the header from the data that follows.

**`MetadataFetch`** EXTENDS `Extensions` — `fetch_from_peers()` and
`fetch_from_stream()`: the batch, the two loops with their deadline, the buffer.
Metadata is a sequence of tokens like the messages it comes in.

**`MagnetResolve`** EXTENDS `MetadataFetch` — the rounds around it.  `Asking` goes along
with every step of the fetch and counts the time a peer takes.  Holders come within
reach and leave; those within reach keep to the protocol, everybody else may send any
of `Payloads`.

**`DhtLookup`** — the frontier and the replies as lists with multiplicities, the rounds,
the routing table, and each query as `DhtClient::round()` makes it: a datagram out, up
to three read from a buffer that all queries share, while the network loses, delays and
reorders replies and strangers send.  Transaction ids are fresh (16 random bits in the
code).

`MC*` modules hold the definitions TLC needs that a `.cfg` cannot state (sets of
records, sequences, permutations, messages).  The theorems and their proofs are in
`SwarmProofs`, `PeerJobProofs`, `ChokingProofs`, `ResumeProofs` (with `Storage`),
`ConnectionProofs` (with `Wire`), `TrackerProofs` (`TrackerAnnounce` and `UdpTracker`,
whose names differ so that one module can extend both), `MagnetProofs` (with
`MetadataFetch`) and `DhtLookupProofs`.

Operators marked "mutant" next to a definition are plausible mistakes in the code it
models; with the definition replaced by one of them a property must fail.  They are
used nowhere else.

## 3. Runs

| Run | Instance | Distinct states | Shows |
|---|---|---|---|
| `swarm_safety` | 3 addresses, 2 connections, 2 pieces, ENDGAME_DUP 2, 2 damages, 1 recheck | 1 047 768 | counters, jobs, adverts, limits exact in all interleavings, and the refinement of `Downloader` |
| `swarm_liveness` | 2 addresses, 2 pieces, ENDGAME_DUP 1 | 43 676 | a seed suffices, unless it idled and is dropped for it; a lonely download ends; endgame cap |
| `swarm_reused_ids` | 3 addresses, 2 connections, 1 piece | – | **violation**: `max_peers` is exceeded after a failed final check |
| `connection` | 10 scripts of frames, 2 bytes at a time, channels of 2 and 1 | 133 596 | the refinement of `Link`; connectors report; threads end |
| `peer_job` | 3 blocks, pipeline of 2, 2 pieces, timeouts of 2 and 4 ticks, announces of up to 6 | 1 019 652 | no block lost or doubled, jobs end, nobody is dropped unheard but in two cases |
| `choking` | 3 peers, 1 regular slot + 1 optimistic, intervals 1 : 3 | 510 275 | slots bounded and earned |
| `choking_hold` | the same with equal rates | – | **violation**: the optimistic slot is not held |
| `resume` | 2 torrents, 2 pieces in 3 files, any number of runs and damages | 585 726 | only what is on disk counts and is served, nothing else is touched, nothing is refetched |
| `tracker_announce` | tiers of 3 and 1, a UDP and three HTTP trackers, 12 replies cut anywhere, powers up to 2^4 | 92 384 | every tracker is asked, answers are whole, pauses bounded, no giving up |
| `udp_tracker` | 3 rounds | 29 413 | answers are authentic, losses survived |
| `magnet` | 3 addresses, 2 holders, limit 4 or none, metadata of 2 pieces, 26 payloads | 76 723 | one honest peer suffices for a batch; gives up only when due; finds a holder that stays |
| `dht_lookup` | 3 nodes, 4 entries, lists of up to 3 in replies, 2 per round, 3 datagrams per query | 412 658 | no node forgotten, queried without end, or hidden by a few stray datagrams |

**Why these bounds.**  Two pieces and two peers are the least with which a peer can
choose, two can compete for one piece and one can be idle while the other works;
the third address is there when the limit of two is reached.  One recheck is
enough for `run()` to be entered twice, and the second failed one exercises giving
up; the code allows two (`rechecks > 2`), which `Resume` models as it is.  Three
blocks and two slots give a block of each kind (pending, in flight, arrived) at
once.  The clocks of `peer_job` are shorter than the real ones (BLOCK_TIMEOUT is 2 ticks
of 15 s, SNUB_TIMEOUT 6), so that an announce longer than the snub clock fits in the
state space; one dead UDP tracker costs 4 real ticks, two cost 8.  1 : 3 in `choking`
is the real ratio of 10 s to 30 s.

`connection` has a script with every form of message and one with every way in which a
frame can be bad; two messages per script are enough for one to be lost, doubled or
mixed with the next.  `resume` has an empty file, a file within a piece, and a file that
begins in one piece and ends in the other; runs and damages need no bound. Requests are
up to two bytes long, so they cross a file and a piece. The saturation of
`2u32.saturating_pow` and of `as u32` is met at width 4 instead of 32.  Three UDP rounds
are one more than `announce_url()` makes.  The metadata of `magnet` is the three tokens
`d e e`, so that the data after a header looks like a dictionary or like its end, and
its second piece is short; payloads are all that holders send and one of each way in
which a payload can be wrong.  Two pauses double and the third meets the maximum.  In
`dht_lookup` four datagrams fit in the buffer, one more than a query reads; `MaxCopies`
bounds how often a list names one entry, at 2, and `MaxNamed` how long a reply's list
is, at 3; one node has two ids.  Bounds that are not in the code are named in the
CONSTANTS as such.  The proofs (section 5) need none of them.

Symmetry is used in `swarm_safety` only, on addresses, where every property is an
invariant or a step property.  Deadlock is checked in every run: ended systems
stutter in an action of their own.

**Fairness.**  The engine is one thread in a loop without blocking waits other than
timed ones: weak fairness of its steps (`WF(Engine)`, `WF(Receive)`,
`WF(Housekeeping)`, `WF(Top)`, `WF(Step)`, `WF(Resolve)`).  Time passes: strong fairness
where it does so only while the thread waits, or announces (`TimePasses`).  In
`connection` each thread runs: the reader, whose reads time out after 120 s; the writer
when it has something to send or its channel is closed; the engine while it handles
inputs.  Nothing is assumed of the remote end.  Strong
fairness is assumed of what a seed or a holder within reach sends, which is an
assumption about that peer, made by the property's words; and in `swarm_liveness` of the
end of jobs, because a peer that does nothing is dropped by the snub clock:
`JobEnds` of `peer_job` is the check of that assumption.  `Waits` has no fairness: that a
seed is left idle is possible, never certain.  No fairness of other peers,
trackers or networks is assumed anywhere.

## 4. What the runs found

*Connection limit (`swarm_reused_ids`).*  `run()` starts `next_id` at 0 on each entry
(`engine.rs:247`), while peers and connectors of the entry before live on.  After a
failed final check a new connector gets the id of a connected peer;
`HashMap::insert` replaces the peer, nobody closes its stream, and until its
writer thread notices (it may be blocked in a write for two minutes) the socket is
open and uncounted.  `PeerLimitWithUniqueIds` and `FirstRunLimit` say exactly how far
the limit does hold.  The invariants with `IdsUnique` in front are those that this
breaks too: a replaced peer's counters are never taken back.

*Optimistic slot (`choking_hold`).*  `rebalance_chokes()` offers the rotor only choked
peers; the one it unchoked is no longer among them, so it "vanished" and the rotor
moves on after 10 s instead of 30 s, always to the first candidate.  The rotor's
unit tests hold, its use does not: with equal rates some peers may never get a turn.

Noted without a run:

* A kill during a save, or a full disk, leaves a truncated resume file
  (`resume.rs:16`); no wrong piece is counted (`OursOnDisk`), but the progress record
  is lost.
* A peer that was idle for 90 s is dropped in the very pass that gives it a job
  (`KeepSnubbed` in `PeerJob`), because the snub clock does not start with the job
  (`engine.rs:659-665`), and `known` forbids a second connection.  So a seed that idled
  while others held the last pieces may be lost when they fail: the exception in
  `SeedFinishesUnlessDropped`, which does not hold without it.
* A peer that answered is dropped unheard in two cases, the exceptions of
  `ListensBeforeDropping`.  With two dead UDP trackers one announce takes 120 s, longer
  than SNUB_TIMEOUT.  With one in an early tier and, in a later one, a tracker that names
  an interval below 15 s, announces of 60 s follow each other with one message between.
* A `Request` may run beyond its piece (`engine.rs:544`); `ServedIsRight` speaks of the
  part that belongs to the piece.
* A writer thread whose write fails ends without shutting the socket
  (`engine.rs:407`); of a peer that was replaced in the map nobody else does, and its
  reader stays as long as the remote end sends (`ThreadsEnd` excludes it).
* An HTTP tracker's interval is cut to 32 bits after it was found positive
  (`tracker.rs:93`): 2^32 is 0, and the next announce follows at once.
* `Started` is announced while nothing is downloaded and no address known
  (`engine.rs:318`): never by a resumed download, repeatedly by an unlucky one.
* `fetch_from_stream` accepts a metadata piece shorter than asked; the hash of the
  whole finds it, and the next peer is asked.

## 5. Proofs

TLAPS proves, for every number of addresses, pieces, peers, runs and damages, from the
named assumptions on the constants alone:

* `SwarmProofs`
  * `TypeCorrect` — types, by the inductive `TypeInv`.  That `todo` and `dead` stay
    within the map is part of it: `housekeeping()` unwraps `peers.get_mut(&id)`.
  * `NobodyFetchesTwice`, `EverybodyIsTold`, `CounterIsExact`, `WrittenBeforeCounted`
    — by `SafeInv`, the conjunction of the four with `TypeInv`; one step per action.
  * `Refinement` — `Swarm` implements `Downloader`: initial states map to initial
    states, each action to one abstract action or a stutter.  `JobsMissing` is needed
    for `PieceGood` to be a `Fetch` of a missing piece, `DownloadedExact` is not.
  * `FirstRunUnique`, `ConnectionLimit`, `FirstRunLimit` — the limit is not inductive.
    `NetInv` strengthens it: an address is in the queue exactly when it is known and
    has no thread (`QueueInv`); `connecting` is the number of connecting threads and
    with the peers stays within MaxPeers (`CountInv`); a peer's address has an open
    thread of that peer's id (`OwnerInv`); before the first recheck ids are unique and
    those in use are below `next_id` (`FreshInv`); while ids are unique an open thread
    belongs to a peer in the map (`OpenOwned`).  The open sockets then map one to one
    into the peers, whose number `CountInv` bounds.
  * `CapHolds` — `active` is never below the number of jobs and never above ENDGAME_DUP
    (`CapInv`), even when ids are reused.
  * `AvailabilityIsExact`, `ActiveIsExact` — by `ExactInv`, both counters at once, with
    `NetInv`: what a peer adds when it connects or speaks it takes away when it leaves.
    That ids are unique is no invariant; `UniqueBefore` shows that once lost it never
    comes back, so that every step from a state in question starts in one.
  * `NoWorkLeftLying` — by `IdleInv`: while `housekeeping()` goes round, a peer it has
    passed is served, and what it does for later ones never takes a job from it.  With
    `CapInv` and `ActiveExact`, "at least ENDGAME_DUP" is "exactly".
  * `NobodyLeftUntried` — from `NetInv` at the moment `NoPeers` is answered, and because
    nothing happens after it.
  * `WorkIsBounded` — `PiecesLeft` counts what is missing and, for each final check that
    may still fail, all the pieces; `JobsMissing` is why a verified piece was missing, so
    that it makes one fewer of them (`VerifiedFalls`).
* `PeerJobProofs`
  * `BlocksPartitioned` — `Partition` with types is inductive: `Moved` and `Unmoved` carry
    the steps that move blocks between pending and in flight or not at all, `LastInFlight`
    is why a job that ends leaves the pipeline empty.
  * `NobodyDroppedUnheard` — for announces of any length and trackers that name any
    interval, by `ClockInv`: before the first tick of listening since the last useful
    block lies at most one announce, unless one left the timer ready at once; it alone
    runs the clock over only when it is longer than SNUB_TIMEOUT.  Either is `hurried`.
  * `PipelineNeverOverrun` — with `BlockInv`: whatever empties the pipeline or chokes us
    leaves what `fill_pipeline` counts on.
  * `HashedOnlyWhole` — `finish_piece()` is reached by the count of bytes alone; by
    `Partition` it is the last block that was missing.
  * `JobWindsDown` — `Left`, the blocks of all tries that are left but for those that
    arrived, falls each time the snub clock is set back: a block that repeats does not
    set it back, a hash that is wrong costs a try.
* `ChokingProofs` — `SlotsAreBounded`: the rotor adds at most one to what
  `select_unchoked` takes, and between two rebalances nobody is unchoked.  `NoSlotWasted`:
  in one step, from what the first slots of the sorted candidates are.
* `ResumeProofs` — for files and pieces of any lengths (`LayoutAssumption` says only that
  `Ends` are the sums of `Lengths`; that they grow, `EndsGrow`, is proved: the first file
  to end before an earlier one cannot exist).
  * The walk: `Sound(w)` says that the walk is at the beginning of its file and what is
    done of the block lies before it.  `SoundOnward`, `TakeBounds` and `SegmentIs` show
    that it stays so and that a step touches exactly the places of its file that belong
    to the block; `PiecesApart` that pieces share no place.
  * `ResumeTypeCorrect` — with "two failed checks at most while the run goes on".
  * `OursIsOnDisk`, `WhatIsServedIsRight`, `NothingRefetched`, `CompleteMeansWhole` — by
    `ContentInv`, which is inductive where the properties are not: what was done of the
    walk is on disk (`DoneInv`, for writes and for reads that agree so far), what
    disagreed was damaged (`WrongInv`), a piece the file listed and the disk had at the
    start is counted, still to be read, or damaged (`ClaimsInv`), and in a final check
    what was read is counted only if it is on disk or was damaged since (`CheckInv`).
  * `WritesStayInside` — from `SegmentIs` and the type invariant: a write, whole or
    not, changes no place outside its piece.

* `ConnectionProofs`
  * `FramesAreUnderstood` — for every legal message, any payload and any 32-bit numbers:
    the length in front is that of the body, and `parse_frame` of the body is the
    message.  Quotients and remainders by 256 put a number together again (`Division`),
    sequences are cut where they were joined (`RestOfConcat`).
  * `NoByteIsIgnored` — the other way round, for bytes nobody encoded: what `parse_frame`
    accepts is what `encode_message` writes for the message it makes of it, so the
    reader takes no two bodies for one message.  `FirstAndTail` and `CutInTwo` take a
    body apart, `NumberOfBytes` puts four bytes back.
  * `ThreadsAreALink` — `Connection` implements `Link`, step by step, under the refinement
    mapping of the module.  `InboxInv` describes the channel to the engine: the report
    first if the engine still waits for it, then the messages that are due, counted from
    those the engine was told (`heard`), `Died` last and only when the reader has ended.
    `ReaderInv` ties the frame being read to the end of the channel; frame numbers are
    counted round the script, which is `RemainderOfSum`.  `ScriptsAssumption` says that a
    script's frames are whole and that `means` is what `parse_frame` makes of them.
* `TrackerProofs`
  * `EverybodyWasAsked` — the first half of `OutcomeIsTrue`: by `TiersInv`, promotion
    neither loses nor invents a tracker (`PromotedKeeps`, about `remove` and `insert`), and
    `PlaceInv`, all before the one asked next were asked in vain (`Before`).
  * `BackoffNeverShrinks` — the saturated power grows with its exponent (`PowerGrows`);
    `PowersAssumption` is the definition of a power by steps, `PowerType` and
    `PowersGrow` follow by taking the least exponent for which they fail.
  * `OnlyOurAnswer` — by `WireInv`: whatever is under way carries an id drawn before, and
    an announce the connection id drawn just before its own, so that only the answer to
    the announce sent last has its transaction id.
  * `LossesSurvived` — by `LossInv`: as long as datagrams are only lost, the one datagram
    there is is the request waited for or its answer, so a round that fails lost one.
  * `AnnounceRunsOut` — a round has two waits and each ends in an answer, another round
    or the end; what the network does moves neither.
* `MagnetProofs` — for every dictionary, piece size, set of peers and of payloads.
  * `MagnetTypes`, `OneHolderSuffices` — by `FetchInv`: while a batch is asked, who has
    stayed within reach is still to be asked or is being asked; he is never late, his
    size is the true one, and all pieces up to the one asked for are in the buffer as
    they should be.  `Pieces` and `Cuts` say that the pieces cover the dictionary and do
    not run over its end; `WrittenGenuine` that a piece is put behind the others.
    `CodecAssumption` says that the holders' messages are decoded as they were encoded.
  * `NobodyLeftUnasked` — by `SearchInv`: between rounds everybody known was asked.
  * `BatchRunsOut` — `AskingLeft` counts the peers left, and of a late one what may still
    come; a deadline is never passed on to the next peer (`TurnLeft`).
* `DhtLookupProofs`
  * `NoNodeForgotten` — by `HeardInv`: what was named is queried, in the frontier or in
    the batch.
  * `NodesAskedFewTimes` — by `FewInv`: queries already made of a node and copies of it in
    the batch are together at most BatchSize, because a batch takes only nodes that were
    never queried.
  * `AnswerInTimeIsHeard` — by `OnceInv` (a node answers a query once) and `StrayInv`
    (what was read for this query and what is in the socket, but for the answer, came
    as strays).
  * `LookupRunsOut` — rounds are limited, each takes a batch and each query reads a number
    of datagrams; `StepsLeft` weighs them so that every step of the lookup leaves fewer.

The assumptions on constants are named in the modules that declare them, and TLC
evaluates each on the instance of its run.  Two of them state what an induction over
data would show and are therefore checked for the data at hand only: `ScriptsAssumption`
(with `FramesAreUnderstood` it covers every good frame) and `CodecAssumption`.
`PowersAssumption` and `LayoutAssumption` are definitions by steps; what follows from
them for every number is proved from the least counterexample (`LeastNumber`), which
needs no operator as a parameter.

Only model-checked:

* *Liveness*: `SeedFinishesUnlessDropped`, `EndsWhenAlone`, `JobEnds`, `UpIsAnswering`,
  `SearchEnds`, `HolderIsFound`, `ReportsBack`, `ThreadsEnd`.  Fairness and ENABLED
  are out of the prover's reach; the ranks that make things end are proved
  (`WorkIsBounded`, `JobWindsDown`, `AnnounceRunsOut`, `LookupRunsOut`, `BatchRunsOut`),
  and what remains for TLC is that the next step is taken.
* The second half of `OutcomeIsTrue`, that no part of an HTTP reply passes for the whole:
  what the decoder makes of the first tokens of a reply is an induction over them.
* What `Bencode`, `Extensions` and `HttpTracker` compute, for the same reason.

## 6. Not modelled

* *Torrent files and magnet links* (`metainfo.rs`, `magnet.rs`): one input, read whole,
  validated without state.  What `build()` guarantees of lengths and pieces is
  `LayoutAssumption`; that two files of a torrent may have one path is excluded from
  `Storage`.
* *`allocate()` and `refuse_symlinks()`*: they run before the download and only create or
  refuse; what a file held before is `Junk`.
* *The peer handshake*: one step of `Connection` that succeeds or fails.
* *Strict decoding, digits of integers and lengths* in `bencode.rs`; *the bencoded form of
  DHT messages*, abstracted to sender, transaction id and content.  Transaction ids do
  not collide in the models; in the code they are 16 (DHT) and 32 random bits.
* *URLs, name resolution and TCP of the HTTP tracker*: outcomes of `HttpAnswers`.
* *Uploaded bytes, the event and port of an announce, events to the caller, logging and
  progress*: nothing in the engine depends on them.
* *A panic of `thread::spawn`* (`engine.rs:404`) when no thread can be made: the connector
  would end without a report, and its slot in `connecting` would be lost.
* *Errors of UDP sockets* (an ICMP answer to a tracker's round): they end a round as a
  timeout does, and are not told from one.
* *The order of the connection queue* is left open, which allows more behaviours than the
  `Vec` does.
* *`ping`, `find_node`, `announce_peer`, `RoutingTable::closest`*: called by nothing.
* *Random numbers, command line, pledge and unveil*: input and output.

## 7. What is left

The safety properties the runs check are proved, but for one half of `OutcomeIsTrue`.
Open, in the order of what it would say about the program:

1. *The decoder for every input*: `CodecAssumption`, the second half of `OutcomeIsTrue`
   and what `Bencode` computes need an induction over tokens of a recursive decoder.
   Written as a function on positions it could be proved from the least counterexample
   like `EndsGrow`.
2. *Liveness* from the ranks above, with a prover that has fairness.
3. *Hazards without a property* (`PROJECT.json`): announces of a starved engine, peers
   kept although they have nothing, two files of one path, the width of the interval,
   when Started is announced.

## 8. Running

`tlc -config <run>.cfg <module>` with the names of `PROJECT.json`; `tlapm` with each of
the eight `*Proofs.tla` (minutes together).
