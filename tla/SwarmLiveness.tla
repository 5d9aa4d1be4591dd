---------------------------- MODULE SwarmLiveness ----------------------------
(* What the engine must eventually do: finish when a peer that has           *)
(* everything stays connected, give up when nobody is left.                  *)
EXTENDS Swarm

CONSTANT Seed       \* an address

ASSUME SeedAssumption == Seed \in Addrs

VARIABLES
    seeding,    \* the peer at Seed has every piece and keeps to the protocol;
                \* never changes
    clock       \* the seed's snub clock: "fresh"; "run on", since the last useful
                \* block or the connection there was time without a job; "over",
                \* found over SNUB_TIMEOUT by housekeeping(): the seed is dropped

seedVars == <<vars, seeding, clock>>

Engine == Loop \/ Handle \/ Housekeeping

(* A peer with a job, given in this pass or before, is visited when its snub *)
(* clock is over, and dropped.                                               *)
Snubbed(a) ==
    /\ pc = "keep"
    /\ \E i \in todo : peers[i].addr = a /\ (Pass(i, TRUE) \/ Assign(i, TRUE))

(* The seed is reachable, offers all pieces, sends what hashes right and     *)
(* stays until we close; and the local disk takes what is written.  The      *)
(* blocks of a job get through in time: the seed sends them, and no announce *)
(* keeps the engine from them for too long (`hurried` of PeerJob; that is up *)
(* to the trackers).  So the seed's snub clock runs over only after time     *)
(* without a job, which is no fault of the seed.                             *)
Misbehaves ==
    \/ ConnectFailed(Seed) \/ BadBitfield(Seed) \/ PieceBad(Seed)
    \/ thread[Seed] = "open" /\ Died(Seed)
    \/ \E bits \in SUBSET Pieces \ {Pieces} : Bitfield(Seed, bits)
    \/ clock = "fresh" /\ Snubbed(Seed)
    \/ \E a \in Addrs : WriteFailed(a)

(* last_useful is set when the seed connects and by its blocks *)
SeedClock ==
    clock' = IF Connected(Seed) \/ PieceGood(Seed) THEN "fresh"
             ELSE IF Snubbed(Seed) THEN "over"
             ELSE clock

(* Others are fetching all that is missing, and time passes. *)
Waits ==
    /\ seeding /\ pc = "recv" /\ clock = "fresh"
    /\ \E i \in Ids : peers[i].addr = Seed /\ peers[i].known /\ peers[i].job = NoJob
    /\ clock' = "run on"
    /\ UNCHANGED <<vars, seeding>>

(* The end of a job, in any way.  Nobody can hold a job for ever: module     *)
(* PeerJob shows that the snub clock ends it unless the peer finishes it.    *)
JobEnds(a) == PieceGood(a) \/ PieceBad(a) \/ Snubbed(a)

SeedInit == Init /\ seeding \in BOOLEAN /\ clock = "fresh"

SeedStep ==
    /\ Next
    /\ IF seeding THEN ~Misbehaves /\ SeedClock ELSE UNCHANGED clock
    /\ UNCHANGED seeding

SeedNext == SeedStep \/ Waits

(* A step that a seeding peer gets done at last. *)
WithSeed(A) == seeding /\ A /\ SeedClock /\ UNCHANGED seeding

(* The engine's thread runs; what the seed sends is received at last, and    *)
(* the others' jobs end at last.  These need strong fairness because the     *)
(* channel is received from in one state of the loop only.  Without a seed   *)
(* nothing but the engine's own progress is assumed.                         *)
Fairness ==
    /\ WF_seedVars(Engine /\ SeedStep)
    /\ SF_seedVars(WithSeed(Connected(Seed)))
    /\ SF_seedVars(WithSeed(Bitfield(Seed, Pieces)))
    /\ SF_seedVars(WithSeed(PieceGood(Seed)))
    /\ \A a \in Addrs \ {Seed} : SF_seedVars(WithSeed(JobEnds(a)))

SeedSpec == SeedInit /\ [][SeedNext]_seedVars /\ Fairness

(* Once a peer that has everything is connected the download succeeds,       *)
(* whatever the other peers do: no piece stays reserved for peers that left, *)
(* sent bad data or went silent.  The one way in which it may not is the     *)
(* engine's own: having left the seed without a job for a time, it drops it  *)
(* as snubbing when it has one for it, and never connects to it again.  The  *)
(* trackers are assumed not to block the engine for so long that a seed with *)
(* a job is dropped unheard (ListensBeforeDropping of PeerJob).              *)
SeedFinishesUnlessDropped ==
    seeding /\ thread[Seed] = "open" ~> result = "ok" \/ clock = "over"

(* When every address is used up and nobody is left, the download ends       *)
(* instead of announcing for ever.                                           *)
EndsWhenAlone == Starved /\ known = Addrs ~> pc = "done"
=============================================================================
