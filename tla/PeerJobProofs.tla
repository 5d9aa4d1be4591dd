----------------------------- MODULE PeerJobProofs -----------------------------
(* Theorems about PeerJob for every set of blocks, every depth of the        *)
(* pipeline, and every value of the timeouts.                                *)
EXTENDS PeerJob, FiniteSetTheorems, TLAPS

-----------------------------------------------------------------------------
(* Blocks.  The partition is inductive with the types alone.                 *)
TypeInv ==
    /\ pc \in {"top", "recv", "keep", "issue", "gone"}
    /\ wanted \subseteq Pieces /\ job \in Pieces \cup {NoJob}
    /\ pending \in [Blocks -> Nat]
    /\ in_flight \subseteq Blocks /\ arrived \subseteq Blocks
    /\ received \in Nat

BlockInv == TypeInv /\ Partition

(* Where block b of the running job is. *)
Places(b) ==
    pending[b] + (IF b \in in_flight THEN 1 ELSE 0) + (IF b \in arrived THEN 1 ELSE 0)

LEMMA BlockInit == Init => BlockInv
  BY DEF Init, BlockInv, TypeInv, Partition, None

(* A step that moves blocks only between pending and in flight.              *)
LEMMA Moved ==
  ASSUME BlockInv, job # NoJob, pc # "gone",
         UNCHANGED <<wanted, job, received, arrived>>,
         pc' \in {"top", "recv", "keep", "issue", "gone"},
         pending' \in [Blocks -> Nat], in_flight' \subseteq Blocks,
         \A b \in Blocks : Places(b)' = Places(b)
  PROVE  BlockInv'
  BY DEF BlockInv, TypeInv, Partition, Places

(* No block moves. *)
LEMMA Unmoved ==
  ASSUME BlockInv, UNCHANGED <<job, pending, in_flight, received, arrived>>,
         wanted' \subseteq wanted,
         pc' \in {"top", "recv", "keep", "issue", "gone"}, pc = "gone" => pc' = "gone"
  PROVE  BlockInv'
  BY DEF BlockInv, TypeInv, Partition

LEMMA PushedType ==
  ASSUME NEW f \in [Blocks -> Nat], NEW S
  PROVE  /\ Pushed(f, S) \in [Blocks -> Nat]
         /\ \A b \in Blocks : Pushed(f, S)[b] = IF b \in S THEN f[b] + 1 ELSE f[b]
  BY DEF Pushed

(* When the last block of a job arrives, all the others have.                *)
LEMMA AllButLast ==
  ASSUME BlockInv, job # NoJob, pc # "gone", NEW b \in in_flight, received + 1 = Whole
  PROVE  arrived = Blocks \ {b}
<1>1. b \in Blocks /\ b \notin arrived /\ received = Cardinality(arrived)
  BY DEF BlockInv, TypeInv, Partition
<1>2. /\ IsFiniteSet(Blocks \ {b})
      /\ Cardinality(Blocks \ {b}) = Whole - 1
  BY <1>1, BlocksAssumption, FS_RemoveElement DEF Whole
<1>3. arrived \subseteq Blocks \ {b}
  BY <1>1 DEF BlockInv, TypeInv
<1>4. Whole \in Nat
  BY BlocksAssumption, FS_CardinalityType DEF Whole
<1>5. received \in Nat
  BY DEF BlockInv, TypeInv
<1>6. Cardinality(arrived) = Cardinality(Blocks \ {b})
  BY <1>1, <1>2, <1>4, <1>5
<1>7. QED
  BY <1>2, <1>3, <1>6, FS_Subset

(* It is the last that was in flight, and nothing is pending.                *)
LEMMA LastInFlight ==
  ASSUME BlockInv, job # NoJob, pc # "gone", NEW b \in in_flight, received + 1 = Whole
  PROVE  in_flight = {b}
<1>1. \A c \in Blocks \ {b} : c \notin in_flight
  BY AllButLast DEF BlockInv, TypeInv, Partition
<1>2. QED
  BY <1>1 DEF BlockInv, TypeInv

LEMMA ReceiveBlocks == BlockInv /\ Receive => BlockInv'
<1> SUFFICES ASSUME BlockInv, Receive PROVE BlockInv'
  OBVIOUS
<1>1. CASE Unchoke \/ NothingNew \/ Died
  BY <1>1, Unmoved DEF Unchoke, NothingNew, Died, jobVars
<1>2. CASE Choke
  <2>1. CASE job = NoJob
    BY <1>2, <2>1, Unmoved DEF Choke
  <2>2. CASE job # NoJob
    <3>1. pending' = Pushed(pending, in_flight) /\ in_flight' = {} /\ arrived' = arrived
      BY <1>2, <2>2 DEF Choke
    <3>2. pending \in [Blocks -> Nat]
      BY DEF BlockInv, TypeInv
    <3>3. /\ pending' \in [Blocks -> Nat]
          /\ \A b \in Blocks : pending'[b] = IF b \in in_flight THEN pending[b] + 1 ELSE pending[b]
      BY <3>1, <3>2, PushedType
    <3>4. \A b \in Blocks : Places(b)' = Places(b)
      BY <3>1, <3>2, <3>3 DEF Places
    <3>5. QED
      BY <1>2, <2>2, <3>1, <3>3, <3>4, Moved DEF Choke
  <2>3. QED
    BY <2>1, <2>2
<1>3. ASSUME NEW b \in Blocks, NEW q \in {"good", "bad"}, BlockStored(b, q) PROVE BlockInv'
  <2>1. /\ job # NoJob /\ pc = "recv" /\ b \in in_flight
        /\ in_flight' = in_flight \ {b} /\ arrived' = arrived \cup {b}
        /\ received' = received + 1 /\ pc' = "keep"
        /\ UNCHANGED <<wanted, job, pending>>
    BY <1>3 DEF BlockStored, Stores
  <2>2. TypeInv'
    BY <2>1 DEF BlockInv, TypeInv
  <2>3. b \notin arrived
    BY <2>1 DEF BlockInv, TypeInv, Partition
  <2>4. received' = Cardinality(arrived')
    <3>1. IsFiniteSet(arrived)
      BY BlocksAssumption, FS_Subset DEF BlockInv, TypeInv
    <3>2. QED
      BY <2>1, <2>3, <3>1, FS_AddElement DEF BlockInv, Partition
  <2>5. \A c \in Blocks : Places(c)' = 1
    BY <2>1, <2>3 DEF BlockInv, TypeInv, Partition, Places
  <2>6. QED
    BY <2>1, <2>2, <2>4, <2>5 DEF BlockInv, Partition, Places
<1>4. ASSUME NEW b \in Blocks, LastBlockGood(b) PROVE BlockInv'
  <2>1. in_flight = {b}
    BY <1>4, LastInFlight DEF LastBlockGood, Stores
  <2>2. QED
    BY <1>4, <2>1 DEF LastBlockGood, BlockInv, TypeInv, Partition, None
<1>5. ASSUME NEW b \in Blocks, NEW q \in {"good", "bad"}, LastBlockBad(b, q) PROVE BlockInv'
  <2>1. /\ in_flight = {b} /\ in_flight' = {} /\ job # NoJob
        /\ UNCHANGED <<wanted, job>>
    BY <1>5, LastInFlight DEF LastBlockBad, Stores
  <2>2. CASE failures + 1 >= MaxVerifyFailures
    BY <1>5, <2>1, <2>2 DEF LastBlockBad, BlockInv, TypeInv, Partition
  <2>3. CASE ~(failures + 1 >= MaxVerifyFailures)
    <3>1. pending' = All /\ received' = 0 /\ arrived' = {} /\ pc' = "keep"
      BY <1>5, <2>3 DEF LastBlockBad
    <3>2. Cardinality({}) = 0
      BY FS_EmptySet
    <3>3. QED
      BY <2>1, <3>1, <3>2 DEF BlockInv, TypeInv, Partition, All
  <2>4. QED
    BY <2>2, <2>3
<1>6. ASSUME NEW p \in Pieces, OtherFinished(p) PROVE BlockInv'
  <2>1. CASE job = p
    BY <1>6, <2>1 DEF OtherFinished, JobOver, BlockInv, TypeInv, Partition, None
  <2>2. CASE job # p
    BY <1>6, <2>2, Unmoved DEF OtherFinished
  <2>3. QED
    BY <2>1, <2>2
<1>7. QED
  BY <1>1, <1>2, <1>3, <1>4, <1>5, <1>6 DEF Receive

LEMMA HousekeepingBlocks == BlockInv /\ Housekeeping => BlockInv'
<1> SUFFICES ASSUME BlockInv, Housekeeping PROVE BlockInv'
  OBVIOUS
<1>1. CASE KeepIdle \/ KeepSnubbed \/ IssueDone
  BY <1>1, Unmoved DEF KeepIdle, KeepSnubbed, IssueDone, jobVars
<1>2. CASE KeepJob
  <2>1. /\ pending' = Pushed(pending, Late) /\ in_flight' = in_flight \ Late
        /\ arrived' = arrived /\ pc' \in {"issue", "gone"}
    BY <1>2 DEF KeepJob, Interest
  <2>2. pending \in [Blocks -> Nat] /\ Late \subseteq in_flight
    BY DEF BlockInv, TypeInv, Late
  <2>3. /\ pending' \in [Blocks -> Nat]
        /\ \A b \in Blocks : pending'[b] = IF b \in Late THEN pending[b] + 1 ELSE pending[b]
    BY <2>1, <2>2, PushedType
  <2>4. \A b \in Blocks : Places(b)' = Places(b)
    BY <2>1, <2>2, <2>3 DEF Places
  <2>5. in_flight' \subseteq Blocks
    BY <2>1 DEF BlockInv, TypeInv
  <2>6. QED
    BY <1>2, <2>1, <2>3, <2>4, <2>5, Moved DEF KeepJob
<1>3. ASSUME NEW p \in Pieces, StartJob(p) PROVE BlockInv'
  <2>1. /\ job' = p /\ p # NoJob /\ pending' = All /\ received' = 0 /\ arrived' = {}
        /\ in_flight' = {} /\ wanted' = wanted /\ pc' \in {"issue", "gone"}
    BY <1>3, NoJobAssumption DEF StartJob, Interest, BlockInv, Partition
  <2>2. Cardinality({}) = 0
    BY FS_EmptySet
  <2>3. QED
    BY <2>1, <2>2 DEF BlockInv, TypeInv, Partition, All
<1>4. ASSUME NEW b \in Blocks, Issue(b) PROVE BlockInv'
  <2>1. pending \in [Blocks -> Nat] /\ pending[b] > 0 /\ pc = "issue"
        /\ pending' = [pending EXCEPT ![b] = @ - 1]
    BY <1>4 DEF Issue, BlockInv, TypeInv
  <2>2. job # NoJob
    BY <2>1 DEF BlockInv, Partition, None
  <2>3. b \notin in_flight
    BY <2>1, <2>2 DEF BlockInv, Partition
  <2>4. in_flight' = in_flight \cup {b} /\ arrived' = arrived /\ pc' \in {"issue", "gone"}
    BY <1>4, <2>3 DEF Issue
  <2>5. pending' \in [Blocks -> Nat] /\ in_flight' \subseteq Blocks
    BY <2>1, <2>4 DEF BlockInv, TypeInv
  <2>6. \A c \in Blocks : Places(c)' = Places(c)
    BY <2>1, <2>3, <2>4 DEF Places
  <2>7. QED
    BY <1>4, <2>1, <2>2, <2>4, <2>5, <2>6, Moved DEF Issue
<1>5. QED
  BY <1>1, <1>2, <1>3, <1>4 DEF Housekeeping

LEMMA BlockNext == BlockInv /\ [Next]_vars => BlockInv'
<1>1. BlockInv /\ (Tick \/ Top \/ WriterDies \/ Gone \/ UNCHANGED vars) => BlockInv'
  BY Unmoved
  DEF Tick, Top, Proceed, Announces, Passes, WriterDies, Gone, vars, jobVars, BlockInv, TypeInv
<1>2. QED
  BY <1>1, ReceiveBlocks, HousekeepingBlocks DEF Next

(* Whatever the peer sends and whenever, no block of a running job is lost   *)
(* or counted twice, for any number of blocks and any depth; and a job finds *)
(* the pipeline empty, although finishing the one before did not drain it.   *)
THEOREM BlocksPartitioned == Spec => []Partition
<1>1. BlockInv => Partition
  BY DEF BlockInv
<1>2. QED
  BY <1>1, BlockInit, BlockNext, PTL DEF Spec

-----------------------------------------------------------------------------
(* The snub clock.  Before the engine has listened for a tick there is at    *)
(* most one announce, unless one left the timer ready at once; and one alone *)
(* is too short to drop the peer, unless it took longer than SNUB_TIMEOUT.   *)
ClockInv ==
    /\ idle \in Nat
    /\ ~listened /\ ~hurried => idle <= SnubTimeout /\ (rested => idle = 0)

LEMMA ClockNext == ClockInv /\ [Next]_vars => ClockInv'
<1> SUFFICES ASSUME ClockInv, [Next]_vars PROVE ClockInv'
  OBVIOUS
<1>1. ASSUME NEW n \in Nat, Passes(n) PROVE idle' \in Nat /\ idle' <= idle + n
  BY <1>1, LimitsAssumption DEF Passes, AtMost, ClockInv
<1>2. CASE Tick
  <2>1. idle' \in Nat
    BY <1>1, <1>2 DEF Tick
  <2>2. QED
    BY <1>2, <2>1 DEF Tick, ClockInv
<1>3. ASSUME NEW n \in 0 .. MaxAnnounce, Announces(n) PROVE ClockInv'
  <2>1. n \in Nat
    BY LimitsAssumption
  <2>2. idle' \in Nat /\ idle' <= idle + n
    BY <1>1, <1>3, <2>1 DEF Announces
  <2>3. ASSUME ~listened', ~hurried'
        PROVE  ~listened /\ ~hurried /\ ~rested' /\ ~(n > SnubTimeout)
    <3>1. PICK soon \in BOOLEAN :
            /\ rested' = soon
            /\ hurried' = (~listened /\ (hurried \/ soon \/ n > SnubTimeout))
      BY <1>3, Zenon DEF Announces
    <3>2. listened' = listened
      BY <1>3 DEF Announces
    <3>3. QED
      BY <2>3, <3>1, <3>2, Zenon
  <2>4. QED
    BY <1>3, <2>1, <2>2, <2>3, LimitsAssumption DEF Announces, Rested, ClockInv
<1>4. ASSUME idle' = 0 PROVE ClockInv'
  BY <1>4, LimitsAssumption DEF ClockInv
<1>5. ASSUME NEW b, NEW q, Stores(b, q) PROVE ClockInv'
  BY <1>4, <1>5 DEF Stores
<1>6. CASE Receive
  BY <1>5, <1>6
  DEF Receive, BlockStored, LastBlockGood, LastBlockBad, Unchoke, Choke, NothingNew, Died,
      OtherFinished, linkVars, clockVars, ClockInv
<1>7. CASE Proceed \/ Housekeeping \/ WriterDies \/ Gone \/ UNCHANGED vars
  BY <1>7
  DEF Proceed, Housekeeping, KeepIdle, KeepSnubbed, KeepJob, StartJob, Issue, IssueDone,
      WriterDies, Gone, vars, linkVars, clockVars, ClockInv
<1>8. QED
  BY <1>2, <1>3, <1>6, <1>7 DEF Next, Top

(* However announces and their lengths line up with its clock, a peer is     *)
(* dropped only if the engine listened to it since its last useful block,    *)
(* unless one of them took longer than SNUB_TIMEOUT or was answered with an  *)
(* interval below BASE_BACKOFF.  Nothing is assumed of the trackers.         *)
THEOREM NobodyDroppedUnheard == Spec => ListensBeforeDropping
<1>1. Init => ClockInv
  BY LimitsAssumption DEF Init, ClockInv
<1>2. ClockInv => (KeepSnubbed => listened \/ hurried)
  BY LimitsAssumption DEF ClockInv, KeepSnubbed, Snubbed
<1>3. ClockInv /\ [Next]_vars => [KeepSnubbed => listened \/ hurried]_vars
  BY <1>2
<1>4. QED
  BY <1>1, <1>3, ClockNext, PTL DEF Spec, ListensBeforeDropping

-----------------------------------------------------------------------------
(* The pipeline.  It is never deeper than PIPELINE_DEPTH, and a request is   *)
(* outstanding only with a peer that may answer it: our Interested was sent, *)
(* and its last word was Unchoke.                                            *)
PipelineKept ==
    /\ Cardinality(in_flight) <= Depth
    /\ in_flight # {} => interested /\ ~choked

LEMMA FewerInFlight ==
  ASSUME BlockInv, PipelineKept, in_flight' \subseteq in_flight,
         interested => interested', in_flight' # {} => (choked' <=> choked),
         choked' \in BOOLEAN, choked \in BOOLEAN
  PROVE  PipelineKept'
<1>1. IsFiniteSet(in_flight)
  BY BlocksAssumption, FS_Subset DEF BlockInv, TypeInv
<1>2. /\ Cardinality(in_flight') <= Cardinality(in_flight)
      /\ Cardinality(in_flight') \in Nat /\ Cardinality(in_flight) \in Nat
  BY <1>1, FS_Subset, FS_CardinalityType
<1>3. QED
  BY <1>2, LimitsAssumption DEF PipelineKept

PipelineInv == BlockInv /\ choked \in BOOLEAN /\ PipelineKept

LEMMA PipelineNext == PipelineInv /\ [Next]_vars => PipelineInv'
<1> SUFFICES ASSUME PipelineInv, [Next]_vars PROVE PipelineInv'
  OBVIOUS
<1>1. BlockInv' /\ choked' \in BOOLEAN
  <2>1. BlockInv'
    BY BlockNext DEF PipelineInv
  <2>2. choked' \in BOOLEAN
    BY DEF PipelineInv, Next, Receive, Housekeeping, Unchoke, Choke, NothingNew, Died,
       BlockStored, LastBlockGood, LastBlockBad, OtherFinished, KeepIdle, KeepSnubbed, KeepJob,
       StartJob, Issue, IssueDone, Tick, Top, Proceed, Announces, Passes, WriterDies, Gone, vars,
       linkVars
  <2>3. QED
    BY <2>1, <2>2
<1>2. CASE Choke
  <2>1. in_flight' = {} /\ choked' = TRUE /\ interested' = interested
    BY <1>2 DEF Choke, PipelineInv, BlockInv, Partition
  <2>2. QED
    BY <1>1, <2>1, FewerInFlight DEF PipelineInv
<1>3. CASE Unchoke
  BY <1>1, <1>3, FewerInFlight DEF Unchoke, jobVars, PipelineInv, PipelineKept
<1>4. CASE NothingNew \/ Died \/ WriterDies \/ Gone \/ UNCHANGED vars
  BY <1>1, <1>4, FewerInFlight
  DEF NothingNew, Died, WriterDies, Gone, vars, jobVars, linkVars, PipelineInv
<1>5. CASE \E b \in Blocks, q \in {"good", "bad"} : BlockStored(b, q) \/ LastBlockBad(b, q)
  BY <1>1, <1>5, FewerInFlight DEF BlockStored, LastBlockBad, PipelineInv
<1>6. CASE \E b \in Blocks : LastBlockGood(b)
  BY <1>1, <1>6, FewerInFlight DEF LastBlockGood, PipelineInv
<1>7. CASE \E p \in Pieces : OtherFinished(p)
  BY <1>1, <1>7, FewerInFlight DEF OtherFinished, JobOver, linkVars, PipelineInv
<1>8. CASE KeepIdle \/ KeepSnubbed \/ IssueDone
  BY <1>1, <1>8, FewerInFlight
  DEF KeepIdle, KeepSnubbed, IssueDone, jobVars, linkVars, PipelineInv
<1>9. CASE KeepJob
  BY <1>1, <1>9, FewerInFlight DEF KeepJob, Interest, Late, PipelineInv
<1>10. CASE \E p \in Pieces : StartJob(p)
  BY <1>1, <1>10, FewerInFlight DEF StartJob, Interest, PipelineInv
<1>11. ASSUME NEW b \in Blocks, Issue(b) PROVE PipelineInv'
  <2>1. CASE b \in in_flight
    BY <1>1, <1>11, <2>1, FewerInFlight DEF Issue, linkVars, PipelineInv
  <2>2. CASE b \notin in_flight
    <3>1. /\ in_flight' = in_flight \cup {b} /\ Cardinality(in_flight) < Depth
          /\ interested' /\ ~choked'
      BY <1>11, <2>2 DEF Issue, CanRequest, HasSlot, linkVars
    <3>2. IsFiniteSet(in_flight)
      BY BlocksAssumption, FS_Subset DEF PipelineInv, BlockInv, TypeInv
    <3>3. Cardinality(in_flight') = Cardinality(in_flight) + 1 /\ Cardinality(in_flight) \in Nat
      BY <2>2, <3>1, <3>2, FS_AddElement, FS_CardinalityType
    <3>4. QED
      BY <1>1, <3>1, <3>3, LimitsAssumption DEF PipelineInv, PipelineKept
  <2>3. QED
    BY <2>1, <2>2
<1>12. CASE Tick \/ Top
  <2>1. UNCHANGED <<in_flight, choked, interested>>
    BY <1>12 DEF Tick, Top, Proceed, Announces, Passes, jobVars, linkVars
  <2>2. QED
    BY <1>1, <2>1, FewerInFlight DEF PipelineInv
<1>13. QED
  BY <1>2, <1>3, <1>4, <1>5, <1>6, <1>7, <1>8, <1>9, <1>10, <1>11, <1>12
  DEF Next, Receive, Housekeeping

(* However chokes, late answers, restarts and new jobs follow one another,   *)
(* no request is outstanding beyond the depth, before Interested, or while   *)
(* the peer chokes us.                                                       *)
THEOREM PipelineNeverOverrun == Spec => []PipelineKept
<1>1. Init => PipelineInv
  <2>1. Cardinality({}) = 0
    BY FS_EmptySet
  <2>2. QED
    BY <2>1, BlockInit, LimitsAssumption DEF Init, PipelineInv, PipelineKept
<1>2. PipelineInv => PipelineKept
  BY DEF PipelineInv
<1>3. QED
  BY <1>1, <1>2, PipelineNext, PTL DEF Spec

-----------------------------------------------------------------------------
(* The end of a job.  Left is how many more blocks can set back the snub     *)
(* clock before the job is finished or the peer given up: all the tries that *)
(* are left, each with all the blocks, but for the blocks that have arrived. *)
RunsOn == job # NoJob /\ pc # "gone"
Left == (MaxVerifyFailures - failures) * Whole - received

(* A running job is the same job, never has more left, and each time the     *)
(* clock is set back it has less.                                            *)
LeftBounded == RunsOn => Left \in 1 .. MaxVerifyFailures * Whole
WindsDown ==
    [][RunsOn /\ RunsOn' => job' = job /\ Left' <= Left /\ (idle' < idle => Left' < Left)]_vars

LeftInv ==
    /\ BlockInv
    /\ failures \in Nat /\ failures < MaxVerifyFailures
    /\ idle \in 0 .. SnubTimeout + 1
    /\ RunsOn => received < Whole

LEMMA WholeType == Whole \in Nat \ {0}
  BY BlocksAssumption, FS_CardinalityType, FS_EmptySet DEF Whole

LEMMA LeftType ==
  ASSUME LeftInv
  PROVE  /\ Left \in Int /\ received \in Nat /\ idle \in Nat /\ LeftBounded
<1> DEFINE m == MaxVerifyFailures
           f == failures
           w == Whole
           r == received
<1>1. m \in Nat /\ f \in Nat /\ f < m /\ w \in Nat /\ r \in Nat /\ (RunsOn => r < w)
  BY WholeType, LimitsAssumption DEF LeftInv, BlockInv, TypeInv
<1>2. Left = (m - f) * w - r
  BY DEF Left
<1> HIDE DEF m, f, w, r
<1>3. (m - f) * w \in Int
  BY <1>1
<1>4. (m - f) * w = (m - f - 1) * w + w /\ (m - f - 1) * w >= 0
  BY <1>1
<1>5. (m - f) * w = m * w - f * w /\ f * w >= 0 /\ m * w \in Int /\ f * w \in Int
  BY <1>1
<1>6. RunsOn => (m - f) * w - r >= 1 /\ (m - f) * w - r <= m * w
  <2>1. (m - f - 1) * w \in Int
    BY <1>1
  <2>2. QED
    BY <2>1, <1>1, <1>3, <1>4, <1>5
<1>7. LeftBounded
  BY <1>1, <1>2, <1>3, <1>5, <1>6 DEF LeftBounded, m, w
<1>8. QED
  BY <1>1, <1>2, <1>3, <1>7, LimitsAssumption DEF LeftInv, r

(* one try and all its blocks less, but for the last *)
LEMMA OneTryLess ==
  ASSUME NEW m \in Nat, NEW f \in Nat, NEW w \in Nat, NEW r \in Nat, r + 1 = w
  PROVE  (m - (f + 1)) * w - 0 = ((m - f) * w - r) - 1
<1>1. (m - (f + 1)) * w = (m - f) * w - w
  OBVIOUS
<1>2. (m - f) * w \in Int
  OBVIOUS
<1>3. QED
  BY <1>1, <1>2

Winds ==
    RunsOn /\ RunsOn' => job' = job /\ Left' <= Left /\ (idle' < idle => Left' < Left)

(* a step that leaves the job, its blocks and failures and the clock alone,  *)
(* or lets the clock go on *)
LEMMA SameLeft ==
  ASSUME LeftInv, BlockInv', UNCHANGED <<failures, received, job>>,
         idle' \in idle .. SnubTimeout + 1, RunsOn' => RunsOn
  PROVE  LeftInv' /\ Winds
<1>1. Left' = Left /\ Left \in Int /\ idle \in Nat
  BY LeftType DEF Left
<1>2. LeftInv'
  BY <1>1, LimitsAssumption DEF LeftInv
<1>3. QED
  BY <1>1, <1>2, LimitsAssumption DEF Winds

LEMMA NoJobLeft ==
  ASSUME LeftInv, BlockInv', failures' = 0, job' = NoJob, idle' \in {0, idle}
  PROVE  LeftInv' /\ Winds
BY LimitsAssumption DEF LeftInv, RunsOn, Winds

LEMMA LeftNext == LeftInv /\ [Next]_vars => LeftInv' /\ Winds
<1> SUFFICES ASSUME LeftInv, [Next]_vars PROVE LeftInv' /\ Winds
  OBVIOUS
<1>1. /\ BlockInv' /\ Whole \in Nat \ {0} /\ received \in Nat /\ idle \in Nat
      /\ idle <= SnubTimeout + 1 /\ Left \in Int
  BY BlockNext, WholeType, LeftType DEF LeftInv
<1>2. ASSUME NEW b \in Blocks, NEW q \in {"good", "bad"}, BlockStored(b, q)
      PROVE  LeftInv' /\ Winds
  <2>1. /\ received' = received + 1 /\ received + 1 # Whole /\ failures' = failures
        /\ RunsOn /\ job' = job /\ idle' = 0
    BY <1>2 DEF BlockStored, Stores, RunsOn
  <2>2. LeftInv'
    BY <1>1, <2>1, LimitsAssumption DEF LeftInv
  <2>3. Left' = Left - 1
    <3>1. (MaxVerifyFailures - failures) * Whole \in Int
      BY <1>1, LimitsAssumption DEF LeftInv
    <3>2. QED
      BY <1>1, <2>1, <3>1 DEF Left
  <2>4. QED
    BY <1>1, <2>1, <2>2, <2>3 DEF Winds
<1>3. ASSUME NEW b \in Blocks, NEW q \in {"good", "bad"}, LastBlockBad(b, q)
      PROVE  LeftInv' /\ Winds
  <2>1. RunsOn /\ received + 1 = Whole /\ job' = job /\ idle' = 0
    BY <1>3 DEF LastBlockBad, Stores, RunsOn
  <2>2. CASE failures + 1 >= MaxVerifyFailures
    <3>1. pc' = "gone" /\ failures' = failures
      BY <1>3, <2>2 DEF LastBlockBad
    <3>2. QED
      BY <1>1, <2>1, <3>1, LimitsAssumption DEF LeftInv, RunsOn, Winds
  <2>3. CASE ~(failures + 1 >= MaxVerifyFailures)
    <3>1. failures' = failures + 1 /\ received' = 0
      BY <1>3, <2>3 DEF LastBlockBad
    <3>2. LeftInv'
      BY <1>1, <2>1, <2>3, <3>1, LimitsAssumption DEF LeftInv
    <3>3. Left' = Left - 1
      BY <1>1, <2>1, <3>1, OneTryLess, LimitsAssumption DEF Left, LeftInv
    <3>4. QED
      BY <1>1, <2>1, <3>2, <3>3 DEF Winds
  <2>4. QED
    BY <2>2, <2>3
<1>4. CASE \E b \in Blocks : LastBlockGood(b)
  BY <1>1, <1>4, NoJobLeft DEF LastBlockGood, Stores
<1>5. ASSUME NEW p \in Pieces, OtherFinished(p) PROVE LeftInv' /\ Winds
  <2>1. CASE job = p
    BY <1>1, <1>5, <2>1, NoJobLeft DEF OtherFinished, JobOver, linkVars, clockVars
  <2>2. CASE job # p
    BY <1>1, <1>5, <2>2, SameLeft DEF OtherFinished, linkVars, clockVars, RunsOn
  <2>3. QED
    BY <2>1, <2>2
<1>6. ASSUME NEW p \in Pieces, StartJob(p) PROVE LeftInv' /\ Winds
  <2>1. /\ job = NoJob /\ failures' = 0 /\ received' = 0 /\ idle' = idle
    BY <1>6 DEF StartJob, clockVars
  <2>2. QED
    BY <1>1, <2>1, LimitsAssumption DEF LeftInv, RunsOn, Winds
<1>7. ASSUME NEW n \in Nat, Passes(n), pc # "gone" PROVE LeftInv' /\ Winds
  <2>1. idle' \in idle .. SnubTimeout + 1
    BY <1>1, <1>7, LimitsAssumption DEF Passes, AtMost
  <2>2. QED
    BY <1>1, <1>7, <2>1, SameLeft DEF Passes, RunsOn
<1>8. CASE Tick \/ \E n \in 0 .. MaxAnnounce : Announces(n)
  <2>1. 1 \in Nat /\ 0 .. MaxAnnounce \subseteq Nat /\ pc # "gone"
    BY <1>8, LimitsAssumption DEF Tick, Announces
  <2>2. QED
    BY <1>7, <1>8, <2>1 DEF Tick, Announces
<1>9. CASE Proceed \/ Unchoke \/ Choke \/ NothingNew \/ Died
  <2>1. UNCHANGED <<failures, received, job, idle>> /\ (RunsOn' => RunsOn)
    BY <1>9 DEF Proceed, Unchoke, Choke, NothingNew, Died, jobVars, linkVars, clockVars, RunsOn
  <2>2. idle' \in idle .. SnubTimeout + 1
    BY <1>1, <2>1, LimitsAssumption
  <2>3. QED
    BY <1>1, <2>1, <2>2, SameLeft
<1>10. CASE \/ KeepIdle \/ KeepSnubbed \/ KeepJob \/ IssueDone
            \/ \E b \in Blocks : Issue(b)
  <2>1. UNCHANGED <<failures, received, job, idle>> /\ (RunsOn' => RunsOn)
    BY <1>10 DEF KeepIdle, KeepSnubbed, KeepJob, IssueDone, Issue, jobVars, linkVars,
       clockVars, RunsOn
  <2>2. idle' \in idle .. SnubTimeout + 1
    BY <1>1, <2>1, LimitsAssumption
  <2>3. QED
    BY <1>1, <2>1, <2>2, SameLeft
<1>11. CASE WriterDies \/ Gone \/ UNCHANGED vars
  <2>1. UNCHANGED <<failures, received, job, idle>> /\ (RunsOn' => RunsOn)
    BY <1>11 DEF WriterDies, Gone, vars, jobVars, linkVars, clockVars, RunsOn
  <2>2. idle' \in idle .. SnubTimeout + 1
    BY <1>1, <2>1, LimitsAssumption
  <2>3. QED
    BY <1>1, <2>1, <2>2, SameLeft
<1>12. QED
  BY <1>2, <1>3, <1>4, <1>5, <1>6, <1>8, <1>9, <1>10, <1>11
  DEF Next, Top, Receive, Housekeeping

(* What JobEnds rests on: a job is given MAX_VERIFY_FAILURES times its       *)
(* blocks, and whatever the peer sends, whenever and how often, each time it *)
(* sets back the snub clock of the job it has used up one of them.           *)
THEOREM JobWindsDown == Spec => []LeftBounded /\ WindsDown
<1>1. Init => LeftInv
  BY BlockInit, LimitsAssumption DEF Init, LeftInv, RunsOn
<1>2. LeftInv => LeftBounded
  BY LeftType
<1>3. LeftInv /\ [Next]_vars => LeftInv'
  BY LeftNext
<1>4. LeftInv /\ [Next]_vars
      => [RunsOn /\ RunsOn' => job' = job /\ Left' <= Left /\ (idle' < idle => Left' < Left)]_vars
  BY LeftNext DEF Winds
<1>5. QED
  BY <1>1, <1>2, <1>3, <1>4, PTL DEF Spec, WindsDown

-----------------------------------------------------------------------------
(* When a piece is hashed, its last block was the only one in flight, none   *)
(* is left to be requested, and every other has arrived since the job was    *)
(* (re)started; so what the buffer held before has been written over.        *)
WholeWhenHashed ==
    [][\A b \in Blocks, q \in {"good", "bad"} :
            LastBlockGood(b) \/ LastBlockBad(b, q) =>
                in_flight = {b} /\ arrived = Blocks \ {b} /\ pending = None]_vars

(* So it is for every number of blocks and every depth, although             *)
(* finish_piece() looks at nothing but the count of bytes.                   *)
THEOREM HashedOnlyWhole == Spec => WholeWhenHashed
<1> DEFINE Hashed == \A b \in Blocks, q \in {"good", "bad"} :
                        LastBlockGood(b) \/ LastBlockBad(b, q) =>
                            in_flight = {b} /\ arrived = Blocks \ {b} /\ pending = None
<1>1. ASSUME BlockInv, NEW b \in Blocks, NEW q \in {"good", "bad"},
             LastBlockGood(b) \/ LastBlockBad(b, q)
      PROVE  in_flight = {b} /\ arrived = Blocks \ {b} /\ pending = None
  <2>1. job # NoJob /\ pc = "recv" /\ b \in in_flight /\ received + 1 = Whole
    BY <1>1 DEF LastBlockGood, LastBlockBad, Stores
  <2>2. in_flight = {b}
    BY <1>1, <2>1, LastInFlight
  <2>3. arrived = Blocks \ {b}
    BY <1>1, <2>1, AllButLast
  <2>4. \A c \in Blocks : pending[c] = 0
    BY <1>1, <2>1, <2>2, <2>3 DEF BlockInv, TypeInv, Partition
  <2>5. pending = None
    BY <1>1, <2>4 DEF BlockInv, TypeInv, None
  <2>6. QED
    BY <2>2, <2>3, <2>5
<1>2. BlockInv /\ [Next]_vars => [Hashed]_vars
  BY <1>1
<1>3. QED
  BY <1>2, BlockInit, BlockNext, PTL DEF Spec, WholeWhenHashed
=============================================================================
