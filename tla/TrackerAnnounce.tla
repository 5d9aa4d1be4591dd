---------------------------- MODULE TrackerAnnounce ----------------------------
(* When the engine announces and whom it asks: the AnnounceTimer and the     *)
(* TrackerSet (bt/src/tracker_set.rs) as run() (bt/src/engine.rs) uses them. *)
(* announce() asks the trackers one by one until one answers; that one is    *)
(* moved to the front of its tier.  Trackers come up and go down between two *)
(* requests; what one that is not up sends is anything, cut anywhere.  Time  *)
(* is counted in BASE_BACKOFFs.  Swarm has the other half: what the answer   *)
(* does to the queue and how often a starved engine retries.                 *)
EXTENDS HttpTracker

CONSTANTS
    Tiers,          \* meta.trackers
    UdpTrackers,    \* those with a udp:// URL
    MaxBackoff,     \* MAX_BACKOFF / BASE_BACKOFF
    MaxFailures,    \* u32::MAX, where `failures` stops
    Intervals,      \* bound: intervals UDP trackers name
    Replies         \* bound: replies of HTTP trackers

ASSUME TiersAssumption == Tiers \in Seq(Seq(STRING))
ASSUME BackoffAssumption ==
    /\ MaxBackoff \in Nat \ {0} /\ MaxBackoff < 2 ^ Width
    /\ MaxFailures \in Nat \ {0} /\ Intervals \subseteq 0 .. 2 ^ Width - 1
(* what a power is, for the proofs *)
ASSUME PowersAssumption ==
    \A n \in 0 .. Width : 2 ^ n = IF n = 0 THEN 1 ELSE 2 * 2 ^ (n - 1)

VARIABLES
    pc,         \* "loop", "asking" (in announce()), "last" (the same, after
                \* the loop), "over"
    tiers,
    at,         \* the tracker asked next, <<tier, index>>
    failures,
    due,        \* time until due, 0 when it is over and for None
    starved,    \* nobody connected, connecting or queued
    up,         \* trackers that would answer
    answered,   \* the announce was answered, this one or the last: history
    whole,      \* by an answer that was received to its end: history
    downs       \* trackers asked in vain by this announce: history

vars == <<pc, tiers, at, failures, due, starved, up, answered, whole, downs>>

AtMost(m, n) == IF m <= n THEN m ELSE n
Listed(tier) == {tier[i] : i \in DOMAIN tier}
Trackers == UNION {Listed(Tiers[k]) : k \in DOMAIN Tiers}

Init ==
    /\ pc = "loop" /\ tiers = Tiers /\ at = <<1, 1>>
    /\ failures = 0 /\ due = 0
    /\ starved \in BOOLEAN /\ up \in SUBSET Trackers
    /\ answered = FALSE /\ whole = TRUE /\ downs = {}

-----------------------------------------------------------------------------
(* AnnounceTimer.                                                            *)

\* mutant: an interval of the tracker's is never over
ReadyUnlessAnswered == due = 0 /\ ~answered
Ready == due = 0

\* mutant: the power wraps around
PowerWrapped(n) == (2 ^ n) % (2 ^ Width)
(* 2u32.saturating_pow(n) *)
Power(n) == IF n >= Width THEN 2 ^ Width - 1 ELSE 2 ^ n
Backoff(n) == AtMost(Power(n), MaxBackoff)

AfterSuccess(interval) == failures' = 0 /\ due' = interval
AfterFailure ==
    /\ failures' = AtMost(failures + 1, MaxFailures)
    /\ due' = Backoff(failures)
(* what a starved engine does a second later, whatever came of the announce *)
NewTimer == failures' = 0 /\ due' = 0

-----------------------------------------------------------------------------
(* TrackerSet::announce.                                                     *)

Begin(where) ==
    /\ at' = <<1, 1>> /\ downs' = {} /\ answered' = FALSE /\ pc' = where
    /\ UNCHANGED <<tiers, failures, due, starved, up, whole>>

Announce == pc = "loop" /\ (Ready \/ starved) /\ Begin("asking")

(* download() is over: Completed or Stopped *)
AnnounceLast == pc = "loop" /\ Begin("last")

Asking == pc \in {"asking", "last"}
Left == at[1] <= Len(tiers)
TierLeft == at[2] <= Len(tiers[at[1]])
Asked == tiers[at[1]][at[2]]

(* the inner loop is over *)
NextTier ==
    /\ Asking /\ Left /\ ~TierLeft
    /\ at' = <<at[1] + 1, 1>>
    /\ UNCHANGED <<pc, tiers, failures, due, starved, up, answered, whole, downs>>

(* the next one is asked *)
Fails ==
    /\ Asking /\ Left /\ TierLeft /\ Asked \notin up
    /\ downs' = downs \cup {Asked}
    /\ at' = <<at[1], at[2] + 1>>
    /\ UNCHANGED <<pc, tiers, failures, due, starved, up, answered, whole>>

\* mutant: the first one is overwritten
PromotedOver(tier, i) == [tier EXCEPT ![1] = tier[i]]
(* tier.remove(i), tier.insert(0, _) *)
Promoted(tier, i) == <<tier[i]>> \o SubSeq(tier, 1, i - 1) \o SubSeq(tier, i + 1, Len(tier))

(* the answer may bring new peers, and end the starvation *)
Answers(interval, found) ==
    /\ Asking /\ Left /\ TierLeft
    /\ tiers' = [tiers EXCEPT ![at[1]] = Promoted(@, at[2])]
    /\ answered' = TRUE
    /\ starved' = (starved /\ ~found)
    /\ IF pc = "last" THEN pc' = "over" /\ UNCHANGED <<failures, due>>
       ELSE /\ pc' = "loop"
            /\ IF starved' THEN NewTimer ELSE AfterSuccess(interval)
    /\ UNCHANGED <<at, up, downs>>

(* announce_url(): what a UDP tracker answers is in module UdpTracker *)
UdpAnswers ==
    /\ Asking /\ Left /\ TierLeft /\ Asked \in UdpTrackers \cap up
    /\ \E interval \in Intervals, found \in BOOLEAN : Answers(interval, found)
    /\ whole' = TRUE

(* what an HTTP tracker sends, up to any token of it, and what is made of it *)
Received ==
    UNION {{[reply |-> Understood(SubSeq(raw, 1, n)), whole |-> n = Len(raw)] :
                n \in 0 .. Len(raw)} : raw \in Replies}

HttpAnswers(it) ==
    /\ Asking /\ Left /\ TierLeft /\ Asked \notin UdpTrackers
    /\ Asked \in up => it.reply.ok /\ it.whole
    /\ IF it.reply.ok
       THEN /\ \E found \in BOOLEAN :
                    (found => it.reply.peers # {}) /\ Answers(it.reply.interval, found)
            /\ whole' = it.whole
       ELSE Fails

NobodyAnswers ==
    /\ Asking /\ ~Left
    /\ IF pc = "last" THEN pc' = "over" /\ UNCHANGED <<failures, due>>
       ELSE /\ pc' = "loop"
            /\ IF starved THEN NewTimer ELSE AfterFailure
    /\ UNCHANGED <<tiers, at, starved, up, answered, whole, downs>>

-----------------------------------------------------------------------------
(* The rest of the engine, the trackers and the clock; a blocking announce   *)
(* keeps the engine from everything else.                                    *)

PeersComeAndGo ==
    /\ pc = "loop" /\ starved' = ~starved
    /\ UNCHANGED <<pc, tiers, at, failures, due, up, answered, whole, downs>>

TrackersComeAndGo ==
    /\ pc # "over" /\ up' \in SUBSET Trackers
    /\ UNCHANGED <<pc, tiers, at, failures, due, starved, answered, whole, downs>>

Tick ==
    /\ pc = "loop" /\ due > 0 /\ due' = due - 1
    /\ UNCHANGED <<pc, tiers, at, failures, starved, up, answered, whole, downs>>

Over == pc = "over" /\ UNCHANGED vars

Step ==
    \/ Announce \/ NextTier \/ Fails \/ NobodyAnswers \/ UdpAnswers
    \/ \E it \in Received : HttpAnswers(it)

Next == Step \/ AnnounceLast \/ PeersComeAndGo \/ TrackersComeAndGo \/ Tick \/ Over

Spec == Init /\ [][Next]_vars

(* The loop comes round twice a second, a request ends by its timeout, and   *)
(* time passes.                                                              *)
FairSpec == Spec /\ WF_vars(Step) /\ WF_vars(Tick)

-----------------------------------------------------------------------------
(* An announce fails only when every tracker of every tier was asked in      *)
(* vain, whatever was promoted before (second_tier_used_when_first_fails in  *)
(* bt/tests/tracker_tiers.rs); and it succeeds only by an answer that was    *)
(* received to its end, wherever others were cut off.                        *)
OutcomeIsTrue == [][(NobodyAnswers => downs = Trackers) /\ whole']_vars

(* An announce that fails while peers are there is followed by a pause of at *)
(* least BASE_BACKOFF and at most MAX_BACKOFF, never shorter than the pause  *)
(* after the failure before it, for as many failures as the counter holds    *)
(* and beyond.                                                               *)
PausesGrow ==
    [][NobodyAnswers /\ pc = "asking" /\ ~starved =>
        /\ due' \in 1 .. MaxBackoff
        /\ failures > 0 => due' >= Backoff(failures - 1)]_vars

(* an announce is answered that was not before *)
Heard == ~answered /\ answered'

(* While a tracker is up for good, announces are answered again and again,   *)
(* each time a new one, however many others of its tier or of earlier tiers  *)
(* fail, unless the download ends: neither backing off nor an interval is    *)
(* ever giving up.                                                           *)
UpIsAnswering ==
    \A t \in Trackers :
        <>[](t \in up) => []<><<Heard>>_vars \/ <>(pc \in {"last", "over"})
=============================================================================
