----------------------------- MODULE MagnetResolve -----------------------------
(* The search for the metadata of a magnet link: resolve_magnet()            *)
(* (btget/src/main.rs) goes round and round announcing to the trackers,      *)
(* looking peers up in the DHT when the trackers name nobody new, and asking *)
(* a batch of peers for the metadata, until it arrives or the time the user  *)
(* gave is over.  A batch is asked message by message: module MetadataFetch. *)
(* Time is counted in METADATA_RETRY_PAUSEs.                                 *)
EXTENDS MetadataFetch

CONSTANTS
    Budgets,        \* values of --metadata-timeout
    NoBudget,       \* it was not given
    MaxPause        \* METADATA_RETRY_PAUSE_MAX

ASSUME BudgetAssumption == Budgets \subseteq Nat \ {0} /\ NoBudget \notin Budgets
ASSUME PauseAssumption == MaxPause \in Nat \ {0}

VARIABLES
    budget,     \* the time the user gave, or NoBudget; never changes
    pc,         \* "top", "announce", "dht", "batch", "ask" (in fetch_from_peers), "done"
    round,      \* a round was begun; the code counts them
    known,      \* peers heard of, in the order they were
    tried,      \* peers asked at least once
    pause,      \* before the next round
    elapsed,    \* since the start, up to the budget
    result      \* "none" yet, "ok", "unparsable", or "gave_up" (status 4)

resolveVars == <<budget, pc, round, known, tried, pause, elapsed, result>>
vars == <<resolveVars, fetchVars, reachVars>>

Spent(t) == elapsed' = IF budget = NoBudget THEN 0 ELSE AtMost(budget, elapsed + t)

Init ==
    /\ budget \in Budgets \cup {NoBudget}
    /\ pc = "top" /\ round = FALSE /\ known = {} /\ tried = {}
    /\ pause = 1 /\ elapsed = 0 /\ result = "none"
    /\ FetchInit

-----------------------------------------------------------------------------
\* mutant: the time the next pause takes is counted before it is taken
OverBudgetEarly == budget # NoBudget /\ elapsed + pause >= budget
OverBudget == round /\ budget # NoBudget /\ elapsed >= budget

GiveUp ==
    /\ pc = "top" /\ OverBudget
    /\ pc' = "done" /\ result' = "gave_up"
    /\ UNCHANGED <<budget, round, known, tried, pause, elapsed, fetchVars, reachVars>>

Longer == AtMost(2 * pause, MaxPause)

(* the pause doubles up to its maximum; there is none before the first round *)
NextRound ==
    /\ pc = "top" /\ ~OverBudget
    /\ IF round THEN Spent(pause) /\ pause' = Longer
                ELSE UNCHANGED <<elapsed, pause>>
    /\ round' = TRUE
    /\ pc' = "announce"
    /\ UNCHANGED <<budget, known, tried, result, fetchVars, reachVars>>

(* announce_peers(): every tier has one tracker; none, or none that answers, *)
(* finds nobody *)
Announce(found, t) ==
    /\ pc = "announce"
    /\ known' = known \cup found
    /\ Spent(t)
    /\ pc' = IF known' \subseteq tried THEN "dht" ELSE "batch"
    /\ UNCHANGED <<budget, round, tried, pause, result, fetchVars, reachVars>>

(* dht_peers(), when everybody known was asked before *)
LookUp(found, t) ==
    /\ pc = "dht"
    /\ known' = known \cup found
    /\ Spent(t)
    /\ pc' = "batch"
    /\ UNCHANGED <<budget, round, tried, pause, result, fetchVars, reachVars>>

\* mutant: peers asked before are never asked again
BatchOfFresh == known \ tried
(* those not asked before, or else everybody again *)
Batch == IF known \subseteq tried THEN known ELSE known \ tried

(* the round's batch; with nobody in it the round is over *)
StartBatch ==
    /\ pc = "batch"
    /\ tried' = tried \cup Batch
    /\ IF Batch = {} THEN pc' = "top" /\ UNCHANGED <<fetchVars, reachVars>>
                     ELSE pc' = "ask" /\ FetchBegins(Batch)
    /\ UNCHANGED <<budget, round, known, pause, elapsed, result>>

(* along with a step of fetch_from_peers(); every peer it asks takes time *)
Asking ==
    /\ pc = "ask"
    /\ IF peer' = peer THEN UNCHANGED elapsed ELSE \E t \in 0 .. 1 : Spent(t)
    /\ UNCHANGED <<budget, pc, round, known, tried, pause, result>>

(* it returned; the dictionary may turn out not to be one (exit status 5) *)
Asked ==
    /\ pc = "ask" /\ fetch = "off"
    /\ IF fetched = "ok" THEN pc' = "done" /\ result' \in {"ok", "unparsable"}
                         ELSE pc' = "top" /\ UNCHANGED result
    /\ UNCHANGED <<budget, round, known, tried, pause, elapsed, fetchVars, reachVars>>

Resolve ==
    \/ GiveUp \/ NextRound
    \/ \E found \in SUBSET Addrs, t \in 0 .. 1 : Announce(found, t) \/ LookUp(found, t)
    \/ StartBatch
    \/ (Connected \/ Breaks \/ LoopTop \/ Stray) /\ Asking
    \/ \E h \in Handshakes : Hello(h) /\ Asking
    \/ \E message \in Messages : Metadata(message) /\ Asking
    \/ Asked

Clock == DeadlinePasses /\ UNCHANGED resolveVars
World == pc # "done" /\ ReachChanges /\ UNCHANGED resolveVars

Done == pc = "done" /\ UNCHANGED vars

Next == Resolve \/ Clock \/ World \/ Done

Spec == Init /\ [][Next]_vars

(* One thread does it all: announces and lookups have timeouts, every read   *)
(* ends in a message, an error or a timeout; the clock runs; and what a      *)
(* holder within reach was asked for comes at last, whatever comes with it.  *)
Fairness ==
    /\ WF_vars(Resolve)
    /\ SF_vars(Clock)
    /\ SF_vars(Serves /\ Hello(GenuineHello) /\ Asking)
    /\ SF_vars(Serves /\ Metadata(GenuinePiece[piece]) /\ Asking)

FairSpec == Spec /\ Fairness

-----------------------------------------------------------------------------
(* Types of the variables; nobody is asked who was not heard of. *)
TypeOK ==
    /\ budget \in Budgets \cup {NoBudget}
    /\ pc \in {"top", "announce", "dht", "batch", "ask", "done"} /\ round \in BOOLEAN
    /\ known \subseteq Addrs /\ tried \subseteq known /\ left \subseteq tried
    /\ pause \in 1 .. MaxPause
    /\ elapsed \in 0 .. (IF budget = NoBudget THEN 0 ELSE budget)
    /\ result \in {"none", "ok", "unparsable", "gave_up"}
    /\ FetchTypeOK

(* The search is given up only when the user's time is over, and then        *)
(* everybody heard of was asked: the last round is not cut short.            *)
GivesUpHonestly ==
    result = "gave_up" => round /\ known \subseteq tried /\ left = {} /\ elapsed = budget

(* With a time limit the search ends, one way or the other: even a peer that *)
(* keeps talking without ever answering is left at its deadline.             *)
SearchEnds == budget # NoBudget => <>(pc = "done")

(* Without one it goes on until the metadata arrives: a holder that is known *)
(* and stays within reach is asked again at last, however often it failed    *)
(* before and whoever else is heard of (README.adoc, "retried over newly     *)
(* found peers until it arrives").                                           *)
HolderIsFound ==
    budget = NoBudget =>
        \A a \in Holders : <>[](a \in known /\ a \in reachable)
            => <>(result \in {"ok", "unparsable"})
=============================================================================
