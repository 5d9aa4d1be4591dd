------------------------------- MODULE Choking -------------------------------
(* Who may download from us: rebalance_chokes() (bt/src/engine.rs), run by   *)
(* housekeeping() every CHOKE_INTERVAL, with select_unchoked() and the       *)
(* OptimisticRotor (bt/src/choke.rs), on the part of PeerState they read     *)
(* and write (bt/src/peer_state.rs).                                         *)
(*                                                                           *)
(* Peers come, go, change their mind about us, send us data, and lose their  *)
(* writer thread at any time.  Time is counted in CHOKE_INTERVALs; the       *)
(* engine may be late.  Ids may be used again, as run() does when it is      *)
(* entered a second time.                                                    *)
EXTENDS Integers, FiniteSets, Sequences

CONSTANTS
    Ids,                \* ids the engine gives its peers
    NoId,               \* None of Option<u64>
    RegularSlots,       \* REGULAR_UNCHOKE_SLOTS
    OptimisticInterval, \* OPTIMISTIC_INTERVAL in CHOKE_INTERVALs
    MaxRate             \* bound: highest downloaded_from

ASSUME IdsAssumption == Ids \subseteq Nat /\ IsFiniteSet(Ids) /\ NoId \notin Ids
ASSUME SlotsAssumption ==
    RegularSlots \in Nat /\ OptimisticInterval \in Nat \ {0} /\ MaxRate \in Nat

VARIABLES
    peers,          \* the map: a function on the ids of the connected peers
    order,          \* the order in which the map is iterated
    current,        \* the rotor's peer
    since_rotation, \* time since rotated_at; OptimisticInterval also for None
    since_choke     \* time since last_choke, up to one interval

vars == <<peers, order, current, since_rotation, since_choke>>

PeerRecord ==
    [interested : BOOLEAN,      \* peer_interested
     choking    : BOOLEAN,      \* am_choking
     deaf       : BOOLEAN,      \* its writer thread is gone: sends fail
     rate       : 0 .. MaxRate] \* downloaded_from

Connected == DOMAIN peers
NewPeer == [interested |-> FALSE, choking |-> TRUE, deaf |-> FALSE, rate |-> 0]

Init ==
    /\ peers = [i \in {} |-> NewPeer] /\ order = <<>>
    /\ current = NoId
    /\ since_rotation = OptimisticInterval /\ since_choke = 1

-----------------------------------------------------------------------------
(* The decision.                                                             *)

Interested == {i \in Connected : peers[i].interested}

(* interested peers we choke, in the map's order *)
Candidates ==
    SelectSeq(order, LAMBDA i : peers[i].interested /\ peers[i].choking)

Listed(i, list) == \E k \in 1 .. Len(list) : list[k] = i
Successor(i, list) ==
    LET k == CHOOSE k \in 1 .. Len(list) : list[k] = i
    IN  list[(k % Len(list)) + 1]

Due == since_rotation >= OptimisticInterval
CurrentGone == ~Listed(current, Candidates)

(* maybe_rotate(): the rotor moves when its time is up or its peer is no     *)
(* candidate any more *)
Rotates == Due \/ CurrentGone
Optimistic ==
    IF ~Rotates THEN current
    ELSE IF Candidates = <<>> THEN NoId
    ELSE IF CurrentGone THEN Candidates[1]
    ELSE Successor(current, Candidates)

(* sort_by(downloaded_from descending, id) *)
Precedes(i, j) ==
    \/ peers[i].rate > peers[j].rate
    \/ peers[i].rate = peers[j].rate /\ i < j

\* mutant: the list is sorted the other way round
RegularWorst ==
    {i \in Interested :
        Cardinality({j \in Interested : Precedes(i, j)}) < RegularSlots}
(* the peers that gave most *)
Regular ==
    {i \in Interested :
        Cardinality({j \in Interested : Precedes(j, i)}) < RegularSlots}

(* select_unchoked() *)
Unchoked == Regular \cup ({Optimistic} \cap Connected)

-----------------------------------------------------------------------------
\* mutant: peers that lose their slot are not told
RechokedNever(i) ==
    IF peers[i].deaf THEN peers[i]
    ELSE [peers[i] EXCEPT !.choking = @ /\ i \notin Unchoked]

(* Choke or Unchoke is sent when it changes something; a failed send changes *)
(* nothing.                                                                  *)
Rechoked(i) ==
    IF peers[i].deaf THEN peers[i]
    ELSE [peers[i] EXCEPT !.choking = i \notin Unchoked]

Rebalance ==
    /\ since_choke = 1 /\ since_choke' = 0
    /\ current' = Optimistic
    /\ since_rotation' = IF Rotates /\ Candidates # <<>> THEN 0 ELSE since_rotation
    /\ peers' = [i \in Connected |-> Rechoked(i)]
    /\ UNCHANGED order

-----------------------------------------------------------------------------
(* What happens in between.                                                  *)

Orders(S) ==
    {s \in [1 .. Cardinality(S) -> S] : \A j, k \in DOMAIN s : j # k => s[j] # s[k]}

(* the map may grow and be laid out anew; a used id replaces its peer *)
Joins(i) ==
    /\ peers' = [j \in Connected \cup {i} |-> IF j = i THEN NewPeer ELSE peers[j]]
    /\ order' \in (IF i \in Connected THEN {order} ELSE Orders(Connected \cup {i}))
    /\ UNCHANGED <<current, since_rotation, since_choke>>

Leaves(i) ==
    /\ i \in Connected
    /\ peers' = [j \in Connected \ {i} |-> peers[j]]
    /\ order' = SelectSeq(order, LAMBDA j : j # i)
    /\ UNCHANGED <<current, since_rotation, since_choke>>

Changes(i, record) ==
    /\ peers' = [peers EXCEPT ![i] = record]
    /\ UNCHANGED <<order, current, since_rotation, since_choke>>

(* Interested, NotInterested *)
TurnsInterested(i) == i \in Connected /\ Changes(i, [peers[i] EXCEPT !.interested = ~@])

(* a useful block came *)
Gives(i) ==
    i \in Connected /\ peers[i].rate < MaxRate /\ Changes(i, [peers[i] EXCEPT !.rate = @ + 1])

WriterDies(i) ==
    i \in Connected /\ ~peers[i].deaf /\ Changes(i, [peers[i] EXCEPT !.deaf = TRUE])

Tick ==
    /\ since_choke' = 1
    /\ since_rotation' =
            IF since_rotation < OptimisticInterval THEN since_rotation + 1 ELSE since_rotation
    /\ UNCHANGED <<peers, order, current>>

World ==
    \E i \in Ids :
        Joins(i) \/ Leaves(i) \/ TurnsInterested(i) \/ Gives(i) \/ WriterDies(i)

Next == Rebalance \/ Tick \/ World

Spec == Init /\ [][Next]_vars

-----------------------------------------------------------------------------
(* Of the peers that hear us at most REGULAR_UNCHOKE_SLOTS + 1 may download  *)
(* at any time, whoever joined, left or changed its mind since the slots     *)
(* were given out.                                                           *)
UploadSlots ==
    Cardinality({i \in Connected : ~peers[i].deaf /\ ~peers[i].choking})
        <= RegularSlots + 1

(* No slot is wasted: when the slots have been given out, a peer that wants  *)
(* data and can hear us is choked only if every regular slot is taken by a   *)
(* peer that wants data too and sent us at least as much.                    *)
SlotsEarned ==
    [][Rebalance =>
        \A i \in Interested : ~peers[i].deaf /\ peers'[i].choking =>
            Cardinality({j \in Interested \ {i} :
                            /\ peers[j].rate >= peers[i].rate
                            /\ peers[j].deaf \/ ~peers'[j].choking}) >= RegularSlots]_vars

(* The optimistic slot is held: a peer that has it and still wants it is not *)
(* choked until OPTIMISTIC_INTERVAL is over, as rotor_holds_between_intervals *)
(* in tests/choke_rotation.rs says.  The code breaks this: an unchoked peer  *)
(* is no candidate, so the rotor takes it for gone.                          *)
Waits(i) == i \in Interested /\ ~peers[i].deaf /\ peers[i].choking
OptimisticSlotIsHeld ==
    [][\A i \in Interested :
            Rebalance /\ i = current /\ since_rotation < OptimisticInterval
                => ~Waits(i)']_vars
=============================================================================
