------------------------------ MODULE SwarmProofs ------------------------------
(* Theorems about Swarm for every set of addresses and pieces and every      *)
(* value of the limits.                                                      *)
EXTENDS Swarm, FiniteSetTheorems, WellFoundedInduction, TLAPS

-----------------------------------------------------------------------------
(* Types.  Between two passes of housekeeping() nothing is left to visit or  *)
(* to remove; the engine has returned exactly when it has a result.          *)
TypeInv ==
    /\ TypeOK
    /\ pc # "keep" => todo = {} /\ dead = {}
    /\ pc # "done" => empty_rounds < MaxEmptyRounds
    /\ (pc = "done") <=> (result # "running")

(* What is taken out of a set is no more than it has.                        *)
LEMMA TakenOut ==
    ASSUME NEW S, IsFiniteSet(S), NEW D
    PROVE  /\ Cardinality(S) \in Nat /\ Cardinality(S \cap D) \in Nat
           /\ Cardinality(S \cap D) <= Cardinality(S)
           /\ Cardinality(S \ D) = Cardinality(S) - Cardinality(S \cap D)
  <1>1. IsFiniteSet(S \cap D) /\ Cardinality(S \cap D) <= Cardinality(S)
    BY FS_Subset
  <1>2. Cardinality(S) \in Nat /\ Cardinality(S \cap D) \in Nat
    BY <1>1, FS_CardinalityType
  <1>3. Cardinality(S \ D) = Cardinality(S) - Cardinality(S \cap D)
    BY FS_Difference
  <1> QED
    BY <1>1, <1>2, <1>3

LEMMA LessType == \A n, k \in Nat : Less(n, k) \in Nat
  BY DEF Less

(* Counting in a finite set of ids yields a natural number. *)
LEMMA CountType ==
    ASSUME NEW S, IsFiniteSet(S), NEW T
    PROVE  IsFiniteSet(T \cap S) /\ Cardinality(T \cap S) \in Nat
  <1>1. IsFiniteSet(T \cap S)
    BY FS_Subset
  <1> QED
    BY <1>1, FS_CardinalityType

LEMMA TypeInit == Init => TypeInv
  <1> SUFFICES ASSUME Init PROVE TypeInv
    OBVIOUS
  <1>1. IsFiniteSet(ours) /\ Cardinality(ours) \in Nat
    BY PiecesAssumption, FS_Subset, FS_CardinalityType DEF Init, Bad
  <1>2. IsFiniteSet({})
    BY FS_EmptySet
  <1> QED
    BY <1>1, <1>2, BoundsAssumption DEF Init, TypeInv, TypeOK, Ids, Bad

(* The map after remove_peer is a map of peer records on fewer ids, and the  *)
(* counters remain natural numbers.                                          *)
LEMMA DropType ==
    ASSUME TypeInv, NEW D, D \subseteq Ids, Drop(D)
    PROVE  /\ Ids' = Ids \ D
           /\ Ids' \in SUBSET Nat /\ IsFiniteSet(Ids')
           /\ peers' \in [Ids' -> PeerRecord]
           /\ \A i \in Ids' : peers'[i] = peers[i]
           /\ availability' \in [Pieces -> Nat] /\ active' \in [Pieces -> Nat]
  <1>1. Ids' = Ids \ D
    BY DEF Drop, Ids
  <1>2. IsFiniteSet(Ids')
    BY <1>1, FS_Subset DEF TypeInv, TypeOK
  <1>3. \A p \in Pieces : /\ Cardinality(D \cap Having(p)) \in Nat
                          /\ Cardinality(D \cap JobsOn(p)) \in Nat
    <2> TAKE p \in Pieces
    <2>1. IsFiniteSet(D \cap Having(p)) /\ IsFiniteSet(D \cap JobsOn(p))
      BY FS_Subset DEF TypeInv, TypeOK
    <2> QED
      BY <2>1, FS_CardinalityType
  <1> QED
    BY <1>1, <1>2, <1>3, LessType DEF Drop, TypeInv, TypeOK, Ids

(* shutdown() changes the threads' status only from open to shut. *)
LEMMA ClosedType ==
    ASSUME TypeInv, NEW D
    PROVE  Closed(D) \in [Addrs -> {"none", "connecting", "open", "shut", "gone"}]
  BY DEF Closed, TypeInv, TypeOK

LEMMA ReturnType ==
    ASSUME TypeInv, NEW r, Return(r)
    PROVE  /\ Ids' = {} /\ IsFiniteSet(Ids') /\ peers' \in [Ids' -> PeerRecord]
           /\ thread' \in [Addrs -> {"none", "connecting", "open", "shut", "gone"}]
           /\ pc' = "done" /\ result' = r
  BY ClosedType, FS_EmptySet DEF Return, Ids

LEMMA LoopType == TypeInv /\ Loop => TypeInv'
  <1> SUFFICES ASSUME TypeInv, Loop PROVE TypeInv'
    OBVIOUS
  <1> USE BoundsAssumption
  <1>1. ASSUME NEW found \in SUBSET Addrs, AnnounceFound(found) PROVE TypeInv'
    BY <1>1 DEF AnnounceFound, TypeInv, TypeOK, Ids
  <1>2. ASSUME NoAnnounce PROVE TypeInv'
    BY <1>2 DEF NoAnnounce, TypeInv, TypeOK, Ids
  <1>3. ASSUME NEW r \in {"nopeers", "io"}, AnnounceStarved(r) PROVE TypeInv'
    <2>1. CASE empty_rounds' >= MaxEmptyRounds
      BY <1>3, <2>1, ReturnType DEF AnnounceStarved, TypeInv, TypeOK
    <2>2. CASE ~(empty_rounds' >= MaxEmptyRounds)
      BY <1>3, <2>2 DEF AnnounceStarved, TypeInv, TypeOK, Ids
    <2> QED
      BY <2>1, <2>2
  <1>4. ASSUME NEW a \in Addrs, Spawn(a) PROVE TypeInv'
    BY <1>4 DEF Spawn, TypeInv, TypeOK, Ids
  <1>5. ASSUME Succeed PROVE TypeInv'
    BY <1>5, ReturnType DEF Succeed, TypeInv, TypeOK
  <1>6. ASSUME Recheck PROVE TypeInv'
    <2>1. downloaded' \in Nat
      <3>1. Cardinality(Bad) \in Nat
        BY PiecesAssumption, FS_Subset, FS_CardinalityType DEF Bad
      <3> QED
        BY <3>1, <1>6, LessType DEF Recheck, TypeInv, TypeOK
    <2>2. CASE rechecks' > MaxRechecks
      BY <1>6, <2>1, <2>2, ReturnType DEF Recheck, TypeInv, TypeOK
    <2>3. CASE ~(rechecks' > MaxRechecks)
      BY <1>6, <2>1, <2>3 DEF Recheck, TypeInv, TypeOK, Ids
    <2> QED
      BY <2>2, <2>3
  <1> QED
    BY <1>1, <1>2, <1>3, <1>4, <1>5, <1>6 DEF Loop

(* A peer record keeps its type when a field gets a value of its type.       *)
LEMMA RecordUpdate ==
    ASSUME NEW r \in PeerRecord, NEW p \in Pieces
    PROVE  /\ [r EXCEPT !.job = p] \in PeerRecord
           /\ [r EXCEPT !.told = @ \cup {p},
                        !.job = IF r.job = p THEN NoJob ELSE @,
                        !.failures = IF r.job = p THEN 0 ELSE @] \in PeerRecord
  <1>1. [r EXCEPT !.job = p] \in PeerRecord
    BY DEF PeerRecord
  <1>2. r.told \cup {p} \in SUBSET Pieces /\ 0 \in 0 .. MaxVerifyFailures - 1
    BY BoundsAssumption DEF PeerRecord
  <1>3. [r EXCEPT !.told = @ \cup {p},
                  !.job = IF r.job = p THEN NoJob ELSE @,
                  !.failures = IF r.job = p THEN 0 ELSE @] \in PeerRecord
    BY <1>2 DEF PeerRecord
  <1> QED
    BY <1>1, <1>3

LEMMA PickedType ==
    ASSUME NEW S \in SUBSET Pieces, NEW T \in SUBSET Pieces,
           NEW f, NEW g \in [Pieces -> Nat], NEW p \in Picked(S, T, f, g)
    PROVE  p \in T \ S /\ g[p] < EndgameDup
  BY EndgameDupAssumption DEF Picked, Rarest, LeastShared

LEMMA HandleType == TypeInv /\ Handle => TypeInv'
  <1> SUFFICES ASSUME TypeInv, Handle PROVE TypeInv'
    OBVIOUS
  <1> USE BoundsAssumption
  <1>1. ASSUME NothingNew PROVE TypeInv'
    BY <1>1 DEF NothingNew, Receiving, Handled, TypeInv, TypeOK, Ids
  <1>2. ASSUME NEW a \in Addrs, Connected(a) PROVE TypeInv'
    <2>1. NewPeer(a) \in PeerRecord
      BY NoJobAssumption DEF NewPeer, PeerRecord, TypeInv, TypeOK
    <2>2. Ids' = Ids \cup {id_of[a]} /\ peers' \in [Ids' -> PeerRecord]
      BY <1>2, <2>1 DEF Connected, Ids, TypeInv, TypeOK
    <2>3. Ids' \in SUBSET Nat /\ IsFiniteSet(Ids')
      <3>1. IsFiniteSet(Ids) /\ Ids \in SUBSET Nat /\ id_of[a] \in Nat
        BY DEF TypeInv, TypeOK
      <3> QED
        BY <2>2, <3>1, FS_AddElement
    <2>4. connecting' \in Nat
      BY <1>2, LessType DEF Connected, TypeInv, TypeOK
    <2> QED
      BY <1>2, <2>2, <2>3, <2>4
      DEF Connected, Receiving, Handled, TypeInv, TypeOK, Ids
  <1>3. ASSUME NEW a \in Addrs, ConnectFailed(a) PROVE TypeInv'
    <2>1. connecting' \in Nat
      BY <1>3, LessType DEF ConnectFailed, TypeInv, TypeOK
    <2> QED
      BY <1>3, <2>1 DEF ConnectFailed, Receiving, Handled, TypeInv, TypeOK, Ids
  <1>4. ASSUME NEW a \in Addrs, Died(a) PROVE TypeInv'
    <2> DEFINE D == {id_of[a]} \cap Ids
    <2>1. Drop(D) /\ thread' = [Closed(D) EXCEPT ![a] = "gone"]
      BY <1>4 DEF Died
    <2>2. thread' \in [Addrs -> {"none", "connecting", "open", "shut", "gone"}]
      BY <2>1, ClosedType
    <2>3. /\ Ids' \in SUBSET Nat /\ IsFiniteSet(Ids')
          /\ peers' \in [Ids' -> PeerRecord]
          /\ availability' \in [Pieces -> Nat] /\ active' \in [Pieces -> Nat]
      BY <2>1, DropType
    <2> QED
      BY <1>4, <2>2, <2>3 DEF Died, Receiving, Handled, TypeInv, TypeOK, Ids
  <1>5. ASSUME NEW a \in Addrs, NEW bits \in SUBSET Pieces, Bitfield(a, bits)
        PROVE  TypeInv'
    <2>1. availability' \in [Pieces -> Nat]
      BY <1>5, LessType DEF Bitfield, ReplaceBitfield, TypeInv, TypeOK
    <2>2. Ids' = Ids /\ peers' \in [Ids' -> PeerRecord]
      BY <1>5 DEF Bitfield, Talks, PeerRecord, TypeInv, TypeOK, Ids
    <2> QED
      BY <1>5, <2>1, <2>2
      DEF Bitfield, Talks, Receiving, Handled, TypeInv, TypeOK, Ids
  <1>6. ASSUME NEW a \in Addrs, BadBitfield(a) PROVE TypeInv'
    <2>1. {id_of[a]} \subseteq Ids
      BY <1>6 DEF BadBitfield, Talks
    <2>2. /\ Ids' \in SUBSET Nat /\ IsFiniteSet(Ids')
          /\ peers' \in [Ids' -> PeerRecord]
          /\ availability' \in [Pieces -> Nat] /\ active' \in [Pieces -> Nat]
      BY <1>6, <2>1, DropType DEF BadBitfield
    <2> QED
      BY <1>6, <2>2, ClosedType
      DEF BadBitfield, Talks, Receiving, Handled, TypeInv, TypeOK, Ids
  <1>7. ASSUME NEW a \in Addrs, HaveBeyond(a) PROVE TypeInv'
    <2>1. Ids' = Ids /\ peers' \in [Ids' -> PeerRecord]
      <3>1. id_of[a] \in Ids /\ peers[id_of[a]] \in PeerRecord
        BY <1>7 DEF HaveBeyond, Talks, TypeInv, TypeOK
      <3>2. [peers[id_of[a]] EXCEPT !.known = TRUE] \in PeerRecord
        BY <3>1 DEF PeerRecord
      <3> QED
        BY <1>7, <3>1, <3>2 DEF HaveBeyond, TypeInv, TypeOK, Ids
    <2> QED
      BY <1>7, <2>1 DEF HaveBeyond, Talks, Receiving, Handled, TypeInv, TypeOK, Ids
  <1>8. ASSUME NEW a \in Addrs, NEW p \in Pieces, Have(a, p) PROVE TypeInv'
    <2>1. availability' \in [Pieces -> Nat]
      BY <1>8 DEF Have, AddHave, TypeInv, TypeOK
    <2>2. Ids' = Ids /\ peers' \in [Ids' -> PeerRecord]
      BY <1>8 DEF Have, Talks, PeerRecord, TypeInv, TypeOK, Ids
    <2> QED
      BY <1>8, <2>1, <2>2 DEF Have, Talks, Receiving, Handled, TypeInv, TypeOK, Ids
  <1>9. ASSUME NEW a \in Addrs, PieceGood(a) PROVE TypeInv'
    <2> DEFINE p == peers[id_of[a]].job
    <2>1. p \in Pieces
      BY <1>9 DEF PieceGood, Finishes, Talks, PeerRecord, TypeInv, TypeOK
    <2>2. active' \in [Pieces -> Nat]
      BY <1>9, <2>1 DEF PieceGood, Completed, TypeInv, TypeOK
    <2>3. Ids' = Ids /\ peers' \in [Ids' -> PeerRecord]
      BY <1>9, <2>1, RecordUpdate DEF PieceGood, Announced, TypeInv, TypeOK, Ids
    <2> QED
      BY <1>9, <2>1, <2>2, <2>3
      DEF PieceGood, Finishes, Talks, Receiving, Handled, TypeInv, TypeOK, Ids
  <1>10. ASSUME NEW a \in Addrs, WriteFailed(a) PROVE TypeInv'
    <2>1. Return("io") /\ pc = "recv" /\ disk' \in [Pieces -> BOOLEAN]
      BY <1>10 DEF WriteFailed, Finishes, Talks, Receiving, TypeInv, TypeOK
    <2> QED
      BY <1>10, <2>1, ReturnType DEF WriteFailed, TypeInv, TypeOK
  <1>11. ASSUME NEW a \in Addrs, PieceBad(a) PROVE TypeInv'
    <2>1. id_of[a] \in Ids /\ pc = "recv"
      BY <1>11 DEF PieceBad, Finishes, Talks, Receiving
    <2>2. CASE peers[id_of[a]].failures + 1 >= MaxVerifyFailures
      <3>1. /\ Ids' \in SUBSET Nat /\ IsFiniteSet(Ids')
            /\ peers' \in [Ids' -> PeerRecord]
            /\ availability' \in [Pieces -> Nat] /\ active' \in [Pieces -> Nat]
        BY <1>11, <2>1, <2>2, DropType DEF PieceBad
      <3> QED
        BY <1>11, <2>1, <2>2, <3>1, ClosedType DEF PieceBad, Handled, TypeInv, TypeOK, Ids
    <2>3. CASE ~(peers[id_of[a]].failures + 1 >= MaxVerifyFailures)
      <3>1. Ids' = Ids /\ peers' \in [Ids' -> PeerRecord]
        BY <1>11, <2>1, <2>3 DEF PieceBad, PeerRecord, TypeInv, TypeOK, Ids
      <3> QED
        BY <1>11, <2>1, <2>3, <3>1 DEF PieceBad, Handled, TypeInv, TypeOK, Ids
    <2> QED
      BY <2>2, <2>3
  <1> QED
    BY <1>1, <1>2, <1>3, <1>4, <1>5, <1>6, <1>7, <1>8, <1>9, <1>10, <1>11 DEF Handle

LEMMA HousekeepingType == TypeInv /\ Housekeeping => TypeInv'
  <1> SUFFICES ASSUME TypeInv, Housekeeping PROVE TypeInv'
    OBVIOUS
  <1> USE BoundsAssumption
  <1>1. ASSUME NEW i \in todo, NEW drop \in BOOLEAN, Assign(i, drop) PROVE TypeInv'
    <2>1. i \in Ids
      BY DEF TypeInv, TypeOK
    <2>2. PICK p \in Picked(ours, peers[i].theirs, availability, active) :
            active' = Started(active, p) /\ peers' = [peers EXCEPT ![i].job = p]
      BY <1>1 DEF Assign
    <2>3. p \in Pieces
      BY <2>1, <2>2, PickedType DEF TypeInv, TypeOK, PeerRecord
    <2>4. active' \in [Pieces -> Nat]
      BY <2>2, <2>3 DEF Started, TypeInv, TypeOK
    <2>5. Ids' = Ids /\ peers' \in [Ids' -> PeerRecord]
      BY <2>1, <2>2, <2>3, RecordUpdate DEF TypeInv, TypeOK, Ids
    <2> QED
      BY <1>1, <2>1, <2>4, <2>5 DEF Assign, Marked, TypeInv, TypeOK, Ids
  <1>2. ASSUME NEW i \in todo, NEW drop \in BOOLEAN, Pass(i, drop) PROVE TypeInv'
    BY <1>2 DEF Pass, Marked, TypeInv, TypeOK, Ids
  <1>3. ASSUME KeepDone PROVE TypeInv'
    <2>1. /\ Ids' \in SUBSET Nat /\ IsFiniteSet(Ids')
          /\ peers' \in [Ids' -> PeerRecord]
          /\ availability' \in [Pieces -> Nat] /\ active' \in [Pieces -> Nat]
      BY <1>3, DropType DEF KeepDone, TypeInv, TypeOK
    <2> QED
      BY <1>3, <2>1, ClosedType DEF KeepDone, TypeInv, TypeOK
  <1> QED
    BY <1>1, <1>2, <1>3 DEF Housekeeping

LEMMA WorldType == TypeInv /\ World => TypeInv'
  <1> SUFFICES ASSUME TypeInv, World PROVE TypeInv'
    OBVIOUS
  <1>1. ASSUME NEW p \in Pieces, Damage(p) PROVE TypeInv'
    BY <1>1, BoundsAssumption DEF Damage, engineVars, TypeInv, TypeOK, Ids
  <1>2. ASSUME NEW a \in Addrs, WriterHangup(a) PROVE TypeInv'
    BY <1>2 DEF WriterHangup, engineVars, TypeInv, TypeOK, Ids
  <1> QED
    BY <1>1, <1>2 DEF World

LEMMA TypeNext == TypeInv /\ [Next]_vars => TypeInv'
  <1>1. TypeInv /\ (Done \/ UNCHANGED vars) => TypeInv'
    BY DEF Done, vars, engineVars, TypeInv, TypeOK, Ids
  <1> QED
    BY <1>1, LoopType, HandleType, HousekeepingType, WorldType DEF Next

(* Every variable keeps its type; in particular the ids housekeeping() still *)
(* has to visit or remove are always in the map, so its unwrap() of          *)
(* peers.get_mut(&id) never fails (engine.rs:645).                           *)
THEOREM TypeCorrect == Spec => []TypeOK
  <1>1. TypeInv => TypeOK
    BY DEF TypeInv
  <1> QED
    BY <1>1, TypeInit, TypeNext, PTL DEF Spec

-----------------------------------------------------------------------------
(* Safety: jobs, advertisements, the byte counter and the disk agree with    *)
(* `ours`.  The four are inductive together: a finished piece raises the     *)
(* counter by one because nobody has a job on a piece in `ours`.             *)
SafeInv == JobsMissing /\ Advertised /\ DownloadedExact /\ OursOnDisk

LEMMA SafeInit == Init => SafeInv
  BY DEF Init, SafeInv, JobsMissing, Advertised, DownloadedExact, OursOnDisk, Ids, Bad

(* A step that leaves ours and the disk alone, and the job and told of every *)
(* peer that stays, preserves them.                                          *)
LEMMA QuietSafe ==
    ASSUME SafeInv,
           ours' = ours, downloaded' = downloaded, disk' = disk, damages' = damages,
           \A i \in Ids' : /\ i \in Ids
                          /\ peers'[i].job = peers[i].job
                          /\ peers'[i].told = peers[i].told
    PROVE  SafeInv'
  BY DEF SafeInv, JobsMissing, Advertised, DownloadedExact, OursOnDisk

LEMMA LoopSafe == TypeInv /\ SafeInv /\ Loop => SafeInv'
  <1> SUFFICES ASSUME TypeInv, SafeInv, Loop PROVE SafeInv'
    OBVIOUS
  <1>1. ASSUME NEW found \in SUBSET Addrs, AnnounceFound(found) PROVE SafeInv'
    BY <1>1, QuietSafe DEF AnnounceFound, Ids
  <1>2. ASSUME NoAnnounce PROVE SafeInv'
    BY <1>2, QuietSafe DEF NoAnnounce, Ids
  <1>3. ASSUME NEW r \in {"nopeers", "io"}, AnnounceStarved(r) PROVE SafeInv'
    BY <1>3, QuietSafe DEF AnnounceStarved, Return, Ids
  <1>4. ASSUME NEW a \in Addrs, Spawn(a) PROVE SafeInv'
    BY <1>4, QuietSafe DEF Spawn, Ids
  <1>5. ASSUME Succeed PROVE SafeInv'
    BY <1>5, QuietSafe DEF Succeed, Return, Ids
  <1>6. ASSUME Recheck PROVE SafeInv'
    <2>1. downloaded' = Cardinality(ours')
      <3>1. Bad \subseteq ours /\ IsFiniteSet(ours)
        BY <1>6, PiecesAssumption DEF Recheck, Complete, Bad
      <3>2. ours \cap Bad = Bad
        BY <3>1
      <3>3. /\ Cardinality(ours \ Bad) = Cardinality(ours) - Cardinality(Bad)
            /\ Cardinality(ours) \in Nat /\ Cardinality(Bad) \in Nat
            /\ Cardinality(Bad) <= Cardinality(ours)
        BY <3>1, <3>2, TakenOut
      <3> QED
        BY <1>6, <3>3 DEF Recheck, Less, SafeInv, DownloadedExact
    <2>2. ours' \subseteq ours /\ disk' = disk /\ damages' = damages
      BY <1>6 DEF Recheck
    <2>3. \A i \in Ids' : i \in Ids /\ peers'[i] = peers[i]
      BY <1>6 DEF Recheck, Return, Ids
    <2> QED
      BY <2>1, <2>2, <2>3 DEF SafeInv, JobsMissing, Advertised, DownloadedExact, OursOnDisk
  <1> QED
    BY <1>1, <1>2, <1>3, <1>4, <1>5, <1>6 DEF Loop

LEMMA HandleSafe == TypeInv /\ SafeInv /\ Handle => SafeInv'
  <1> SUFFICES ASSUME TypeInv, SafeInv, Handle PROVE SafeInv'
    OBVIOUS
  <1>1. ASSUME NothingNew PROVE SafeInv'
    BY <1>1, QuietSafe DEF NothingNew, Ids
  <1>2. ASSUME NEW a \in Addrs, Connected(a) PROVE SafeInv'
    <2>1. Ids' = Ids \cup {id_of[a]}
      BY <1>2 DEF Connected, Ids
    <2>2. \A i \in Ids' : peers'[i] = NewPeer(a) \/ (i \in Ids /\ peers'[i] = peers[i])
      BY <1>2, <2>1 DEF Connected
    <2>3. NewPeer(a).job \notin ours /\ NewPeer(a).told = ours
      BY NoJobAssumption DEF NewPeer, TypeInv, TypeOK
    <2>4. ours' = ours /\ downloaded' = downloaded /\ disk' = disk /\ damages' = damages
      BY <1>2 DEF Connected
    <2> QED
      BY <2>2, <2>3, <2>4 DEF SafeInv, JobsMissing, Advertised, DownloadedExact, OursOnDisk
  <1>3. ASSUME NEW a \in Addrs, ConnectFailed(a) PROVE SafeInv'
    BY <1>3, QuietSafe DEF ConnectFailed, Ids
  <1>4. ASSUME NEW a \in Addrs, Died(a) PROVE SafeInv'
    <2>1. \A i \in Ids' : i \in Ids /\ peers'[i] = peers[i]
      BY <1>4, DropType DEF Died
    <2> QED
      BY <1>4, <2>1, QuietSafe DEF Died
  <1>5. ASSUME NEW a \in Addrs, NEW bits \in SUBSET Pieces, Bitfield(a, bits)
        PROVE  SafeInv'
    BY <1>5, QuietSafe DEF Bitfield, Talks, TypeInv, TypeOK, PeerRecord, Ids
  <1>6. ASSUME NEW a \in Addrs, BadBitfield(a) PROVE SafeInv'
    <2>1. \A i \in Ids' : i \in Ids /\ peers'[i] = peers[i]
      BY <1>6, DropType DEF BadBitfield, Talks
    <2> QED
      BY <1>6, <2>1, QuietSafe DEF BadBitfield
  <1>7. ASSUME NEW a \in Addrs, HaveBeyond(a) PROVE SafeInv'
    BY <1>7, QuietSafe DEF HaveBeyond, Talks, TypeInv, TypeOK, PeerRecord, Ids
  <1>8. ASSUME NEW a \in Addrs, NEW p \in Pieces, Have(a, p) PROVE SafeInv'
    BY <1>8, QuietSafe DEF Have, Talks, TypeInv, TypeOK, PeerRecord, Ids
  <1>9. ASSUME NEW a \in Addrs, PieceGood(a) PROVE SafeInv'
    <2> DEFINE p == peers[id_of[a]].job
    <2>1. p \in Pieces /\ p \notin ours
      BY <1>9 DEF PieceGood, Finishes, Talks, PeerRecord, TypeInv, TypeOK, SafeInv, JobsMissing
    <2>2. ours' = ours \cup {p} /\ downloaded' = downloaded + 1
      BY <1>9 DEF PieceGood
    <2>3. DownloadedExact'
      <3>1. IsFiniteSet(ours)
        BY PiecesAssumption, FS_Subset DEF TypeInv, TypeOK
      <3> QED
        BY <2>1, <2>2, <3>1, FS_AddElement DEF SafeInv, DownloadedExact
    <2>4. Ids' = Ids /\ \A j \in Ids : /\ peers'[j].job \notin ours'
                                     /\ ours' \subseteq peers'[j].told
      <3>1. peers' = Announced(id_of[a], p)
        BY <1>9 DEF PieceGood
      <3>2. Ids' = Ids
        BY <3>1 DEF Announced, Ids
      <3>3. ASSUME NEW j \in Ids
            PROVE  /\ peers'[j].told = peers[j].told \cup {p}
                   /\ peers'[j].job = IF peers[j].job = p THEN NoJob ELSE peers[j].job
        <4>1. peers[j] \in PeerRecord
          BY DEF TypeInv, TypeOK
        <4>2. peers'[j] = [peers[j] EXCEPT !.told = @ \cup {p},
                                           !.job = IF peers[j].job = p THEN NoJob ELSE @,
                                           !.failures = IF peers[j].job = p THEN 0 ELSE @]
          BY <3>1 DEF Announced
        <4> QED
          BY <4>1, <4>2 DEF PeerRecord
      <3>4. ours \subseteq Pieces /\ NoJob \notin Pieces
        BY NoJobAssumption DEF TypeInv, TypeOK
      <3>5. \A j \in Ids : peers[j].job \notin ours /\ ours \subseteq peers[j].told
        BY DEF SafeInv, JobsMissing, Advertised
      <3> HIDE DEF p
      <3>6. ASSUME NEW j \in Ids
            PROVE  peers'[j].job \notin ours' /\ ours' \subseteq peers'[j].told
        BY <2>1, <2>2, <3>3, <3>4, <3>5
      <3> QED
        BY <3>2, <3>6
    <2>5. OursOnDisk'
      BY <1>9, <2>1, <2>2 DEF PieceGood, SafeInv, OursOnDisk, TypeInv, TypeOK
    <2> QED
      BY <2>3, <2>4, <2>5 DEF SafeInv, JobsMissing, Advertised
  <1>10. ASSUME NEW a \in Addrs, WriteFailed(a) PROVE SafeInv'
    <2> DEFINE p == peers[id_of[a]].job
    <2>1. p \notin ours
      BY <1>10 DEF WriteFailed, Finishes, Talks, SafeInv, JobsMissing
    <2>2. Ids' = {} /\ ours' = ours /\ downloaded' = downloaded /\ damages' = damages
      BY <1>10 DEF WriteFailed, Return, Ids
    <2>3. \A q \in ours : disk'[q] = disk[q]
      BY <1>10, <2>1 DEF WriteFailed, TypeInv, TypeOK
    <2> QED
      BY <2>2, <2>3 DEF SafeInv, JobsMissing, Advertised, DownloadedExact, OursOnDisk
  <1>11. ASSUME NEW a \in Addrs, PieceBad(a) PROVE SafeInv'
    <2>1. id_of[a] \in Ids
      BY <1>11 DEF PieceBad, Finishes, Talks
    <2>2. \A i \in Ids' : /\ i \in Ids /\ peers'[i].job = peers[i].job
                         /\ peers'[i].told = peers[i].told
      <3>1. CASE peers[id_of[a]].failures + 1 >= MaxVerifyFailures
        BY <1>11, <2>1, <3>1, DropType DEF PieceBad
      <3>2. CASE ~(peers[id_of[a]].failures + 1 >= MaxVerifyFailures)
        BY <1>11, <2>1, <3>2 DEF PieceBad, TypeInv, TypeOK, PeerRecord, Ids
      <3> QED
        BY <3>1, <3>2
    <2> QED
      BY <1>11, <2>2, QuietSafe DEF PieceBad
  <1> QED
    BY <1>1, <1>2, <1>3, <1>4, <1>5, <1>6, <1>7, <1>8, <1>9, <1>10, <1>11 DEF Handle

LEMMA HousekeepingSafe == TypeInv /\ SafeInv /\ Housekeeping => SafeInv'
  <1> SUFFICES ASSUME TypeInv, SafeInv, Housekeeping PROVE SafeInv'
    OBVIOUS
  <1>1. ASSUME NEW i \in todo, NEW drop \in BOOLEAN, Assign(i, drop) PROVE SafeInv'
    <2>1. i \in Ids
      BY DEF TypeInv, TypeOK
    <2>2. PICK p \in Picked(ours, peers[i].theirs, availability, active) :
            peers' = [peers EXCEPT ![i].job = p]
      BY <1>1 DEF Assign
    <2>3. p \notin ours
      BY <2>1, <2>2, PickedType DEF TypeInv, TypeOK, PeerRecord
    <2>4. Ids' = Ids /\ \A j \in Ids : /\ peers'[j].told = peers[j].told
                                     /\ peers'[j].job \in {p, peers[j].job}
      BY <2>1, <2>2 DEF TypeInv, TypeOK, PeerRecord, Ids
    <2>5. ours' = ours /\ downloaded' = downloaded /\ disk' = disk /\ damages' = damages
      BY <1>1 DEF Assign
    <2> QED
      BY <2>3, <2>4, <2>5 DEF SafeInv, JobsMissing, Advertised, DownloadedExact, OursOnDisk
  <1>2. ASSUME NEW i \in todo, NEW drop \in BOOLEAN, Pass(i, drop) PROVE SafeInv'
    BY <1>2, QuietSafe DEF Pass, Ids
  <1>3. ASSUME KeepDone PROVE SafeInv'
    <2>1. \A i \in Ids' : i \in Ids /\ peers'[i] = peers[i]
      BY <1>3, DropType DEF KeepDone, TypeInv, TypeOK
    <2> QED
      BY <1>3, <2>1, QuietSafe DEF KeepDone
  <1> QED
    BY <1>1, <1>2, <1>3 DEF Housekeeping

LEMMA WorldSafe == TypeInv /\ SafeInv /\ World => SafeInv'
  <1> SUFFICES ASSUME TypeInv, SafeInv, World PROVE SafeInv'
    OBVIOUS
  <1>1. ASSUME NEW p \in Pieces, Damage(p) PROVE SafeInv'
    BY <1>1 DEF Damage, engineVars, TypeInv, TypeOK, Ids,
                SafeInv, JobsMissing, Advertised, DownloadedExact, OursOnDisk
  <1>2. ASSUME NEW a \in Addrs, WriterHangup(a) PROVE SafeInv'
    BY <1>2, QuietSafe DEF WriterHangup, engineVars, Ids
  <1> QED
    BY <1>1, <1>2 DEF World

LEMMA SafeNext == TypeInv /\ SafeInv /\ [Next]_vars => SafeInv'
  <1>1. SafeInv /\ (Done \/ UNCHANGED vars) => SafeInv'
    BY QuietSafe DEF Done, vars, engineVars, Ids
  <1> QED
    BY <1>1, LoopSafe, HandleSafe, HousekeepingSafe, WorldSafe DEF Next

LEMMA SafeAlways == Spec => [](TypeInv /\ SafeInv)
  BY TypeInit, TypeNext, SafeInit, SafeNext, PTL DEF Spec

(* No job is ever left on a piece that is verified, so no peer is asked for  *)
(* a piece in vain once finish_piece() ran, and no piece is counted twice.   *)
THEOREM NobodyFetchesTwice == Spec => []JobsMissing
  <1>1. SafeInv => JobsMissing
    BY DEF SafeInv
  <1> QED
    BY <1>1, SafeAlways, PTL

(* Every connected peer has been told everything we can serve.               *)
THEOREM EverybodyIsTold == Spec => []Advertised
  <1>1. SafeInv => Advertised
    BY DEF SafeInv
  <1> QED
    BY <1>1, SafeAlways, PTL

(* The counter sent to trackers equals the verified pieces, for any number   *)
(* of failed final checks.                                                   *)
THEOREM CounterIsExact == Spec => []DownloadedExact
  <1>1. SafeInv => DownloadedExact
    BY DEF SafeInv
  <1> QED
    BY <1>1, SafeAlways, PTL

(* Files nobody else touches hold every piece counted as ours.               *)
THEOREM WrittenBeforeCounted == Spec => []OursOnDisk
  <1>1. SafeInv => OursOnDisk
    BY DEF SafeInv
  <1> QED
    BY <1>1, SafeAlways, PTL

-----------------------------------------------------------------------------
(* Refinement: a step of the engine is a step of Downloader or leaves        *)
(* Downloader's variables alone.                                             *)
LEMMA AbstractInit == Init => Abstract!Init
  BY DEF Init, Bad, Abstract!Init, Abstract!Damaged

LEMMA AbstractQuiet ==
    ASSUME ours' = ours, disk' = disk, result' = result
    PROVE  [Abstract!Next]_(Abstract!vars)
  BY DEF Abstract!vars

LEMMA AbstractLoop == TypeInv /\ Loop => [Abstract!Next]_(Abstract!vars)
  <1> SUFFICES ASSUME TypeInv, Loop PROVE [Abstract!Next]_(Abstract!vars)
    OBVIOUS
  <1>1. ASSUME NEW found \in SUBSET Addrs, AnnounceFound(found)
        PROVE  [Abstract!Next]_(Abstract!vars)
    BY <1>1, AbstractQuiet DEF AnnounceFound
  <1>2. ASSUME NoAnnounce PROVE [Abstract!Next]_(Abstract!vars)
    BY <1>2, AbstractQuiet DEF NoAnnounce
  <1>3. ASSUME NEW r \in {"nopeers", "io"}, AnnounceStarved(r)
        PROVE  [Abstract!Next]_(Abstract!vars)
    <2>1. CASE empty_rounds' >= MaxEmptyRounds
      <3>1. Abstract!Fail
        BY <1>3, <2>1
        DEF AnnounceStarved, Return, Complete, TypeInv, TypeOK, Abstract!Fail
      <3> QED
        BY <3>1 DEF Abstract!Next
    <2>2. CASE ~(empty_rounds' >= MaxEmptyRounds)
      BY <1>3, <2>2, AbstractQuiet DEF AnnounceStarved
    <2> QED
      BY <2>1, <2>2
  <1>4. ASSUME NEW a \in Addrs, Spawn(a) PROVE [Abstract!Next]_(Abstract!vars)
    BY <1>4, AbstractQuiet DEF Spawn
  <1>5. ASSUME Succeed PROVE [Abstract!Next]_(Abstract!vars)
    <2>1. Abstract!Succeed
      BY <1>5 DEF Succeed, Return, Complete, Bad, TypeInv,
                  Abstract!Succeed, Abstract!Damaged
    <2> QED
      BY <2>1 DEF Abstract!Next
  <1>6. ASSUME Recheck PROVE [Abstract!Next]_(Abstract!vars)
    <2>1. /\ result = "running" /\ ours = Pieces /\ Abstract!Damaged # {}
          /\ ours' = ours \ Abstract!Damaged /\ disk' = disk
      BY <1>6 DEF Recheck, Complete, Bad, TypeInv, Abstract!Damaged
    <2>2. CASE rechecks' > MaxRechecks
      <3>1. Abstract!GiveUp
        BY <1>6, <2>1, <2>2 DEF Recheck, Return, Abstract!GiveUp
      <3> QED
        BY <3>1 DEF Abstract!Next
    <2>3. CASE ~(rechecks' > MaxRechecks)
      <3>1. Abstract!Recheck
        BY <1>6, <2>1, <2>3 DEF Recheck, Abstract!Recheck
      <3> QED
        BY <3>1 DEF Abstract!Next
    <2> QED
      BY <2>2, <2>3
  <1> QED
    BY <1>1, <1>2, <1>3, <1>4, <1>5, <1>6 DEF Loop

LEMMA AbstractHandle ==
    TypeInv /\ SafeInv /\ Handle => [Abstract!Next]_(Abstract!vars)
  <1> SUFFICES ASSUME TypeInv, SafeInv, Handle PROVE [Abstract!Next]_(Abstract!vars)
    OBVIOUS
  <1>1. ASSUME NEW a \in Addrs, Finishes(a)
        PROVE  /\ peers[id_of[a]].job \in Pieces \ ours
               /\ result = "running"
    BY <1>1 DEF Finishes, Talks, Receiving, PeerRecord, TypeInv, TypeOK,
                SafeInv, JobsMissing
  <1>2. ASSUME NEW a \in Addrs, PieceGood(a) PROVE [Abstract!Next]_(Abstract!vars)
    <2>1. Abstract!Fetch(peers[id_of[a]].job)
      BY <1>1, <1>2 DEF PieceGood, Abstract!Fetch
    <2> QED
      BY <1>1, <1>2, <2>1 DEF PieceGood, Abstract!Next
  <1>3. ASSUME NEW a \in Addrs, WriteFailed(a) PROVE [Abstract!Next]_(Abstract!vars)
    <2> DEFINE p == peers[id_of[a]].job
    <2>1. PICK good \in BOOLEAN : disk' = [disk EXCEPT ![p] = good]
      BY <1>3 DEF WriteFailed
    <2>2. p \in Pieces \ ours /\ result = "running"
      BY <1>1, <1>3 DEF WriteFailed
    <2>3. disk' \in [Pieces -> BOOLEAN] /\ \A q \in ours : disk'[q] = disk[q]
      BY <2>1, <2>2 DEF TypeInv, TypeOK
    <2>4. Abstract!Fail
      BY <1>3, <2>2, <2>3 DEF WriteFailed, Return, Abstract!Fail
    <2> QED
      BY <2>4 DEF Abstract!Next
  <1>4. ASSUME NothingNew \/ \E a \in Addrs :
                  \/ Connected(a) \/ ConnectFailed(a) \/ Died(a) \/ PieceBad(a)
                  \/ BadBitfield(a) \/ HaveBeyond(a)
                  \/ \E bits \in SUBSET Pieces : Bitfield(a, bits)
                  \/ \E p \in Pieces : Have(a, p)
        PROVE  [Abstract!Next]_(Abstract!vars)
    BY <1>4, AbstractQuiet
    DEF NothingNew, Connected, ConnectFailed, Died, PieceBad, BadBitfield, HaveBeyond,
        Bitfield, Have
  <1> QED
    BY <1>2, <1>3, <1>4 DEF Handle

LEMMA AbstractRest ==
    TypeInv /\ (Housekeeping \/ World \/ Done \/ UNCHANGED vars)
        => [Abstract!Next]_(Abstract!vars)
  <1> SUFFICES ASSUME TypeInv, Housekeeping \/ World \/ Done \/ UNCHANGED vars
               PROVE  [Abstract!Next]_(Abstract!vars)
    OBVIOUS
  <1>1. CASE Housekeeping
    BY <1>1, AbstractQuiet DEF Housekeeping, Assign, Pass, KeepDone
  <1>2. ASSUME NEW p \in Pieces, Damage(p) PROVE [Abstract!Next]_(Abstract!vars)
    <2>1. Abstract!Damage(p)
      BY <1>2 DEF Damage, engineVars, TypeInv, Abstract!Damage
    <2> QED
      BY <2>1 DEF Abstract!Next
  <1>3. ASSUME NEW a \in Addrs, WriterHangup(a) PROVE [Abstract!Next]_(Abstract!vars)
    BY <1>3, AbstractQuiet DEF WriterHangup, engineVars
  <1>4. CASE Done \/ UNCHANGED vars
    BY <1>4, AbstractQuiet DEF Done, vars, engineVars
  <1> QED
    BY <1>1, <1>2, <1>3, <1>4 DEF World

(* The engine implements Downloader: with any number of peers coming, going, *)
(* lying and dying, the caller sees pieces verified one at a time and is     *)
(* answered Ok only when every piece on disk was just read back and is good. *)
THEOREM Refinement == Spec => ImplementsDownloader
  <1>1. TypeInv /\ SafeInv /\ [Next]_vars => [Abstract!Next]_(Abstract!vars)
    BY AbstractLoop, AbstractHandle, AbstractRest DEF Next
  <1> QED
    BY <1>1, AbstractInit, SafeAlways, PTL DEF Spec, ImplementsDownloader, Abstract!Spec

-----------------------------------------------------------------------------
(* Connections.  `connecting` counts the connectors at work, the limit holds *)
(* for what the engine counts, each entry of the map is owned by an open     *)
(* thread that was given its key, and (while ids are unique) each open       *)
(* thread owns an entry: only then is what the engine counts what is open.   *)
Connecting == {a \in Addrs : thread[a] = "connecting"}
Open == {a \in Addrs : thread[a] = "open"}

QueueInv ==
    /\ \A a \in Addrs : a \in queue <=> a \in known /\ thread[a] = "none"
    /\ \A a \in Addrs : thread[a] # "none" => a \in known

CountInv ==
    /\ connecting = Cardinality(Connecting)
    /\ connecting + Cardinality(Ids) <= MaxPeers

OwnerInv == \A i \in Ids : thread[peers[i].addr] = "open" /\ id_of[peers[i].addr] = i

FreshInv ==
    rechecks = 0 =>
        IdsUnique /\ \A a \in Addrs : thread[a] # "none" => id_of[a] < next_id

OpenOwned ==
    IdsUnique =>
        \A a \in Open : id_of[a] \in Ids /\ peers[id_of[a]].addr = a

NetInv == QueueInv /\ CountInv /\ OwnerInv /\ FreshInv /\ OpenOwned

LEMMA NetInit == Init => NetInv
  <1> SUFFICES ASSUME Init PROVE NetInv
    OBVIOUS
  <1>1. Ids = {} /\ Connecting = {} /\ Open = {}
    BY DEF Init, Ids, Connecting, Open
  <1>2. Cardinality({}) = 0
    BY FS_EmptySet
  <1> QED
    BY <1>1, <1>2, BoundsAssumption
    DEF Init, NetInv, QueueInv, CountInv, OwnerInv, FreshInv, OpenOwned, IdsUnique

(* Nothing about connections changes. *)
LEMMA QuietNet ==
    ASSUME TypeInv, NetInv,
           thread' = thread, id_of' = id_of, queue' = queue, known' = known,
           connecting' = connecting,
           (next_id' = next_id /\ rechecks' = rechecks) \/ rechecks' # 0,
           Ids' = Ids, \A i \in Ids : peers'[i].addr = peers[i].addr
    PROVE  NetInv'
  <1>1. QueueInv' /\ CountInv' /\ FreshInv'
    BY DEF NetInv, QueueInv, CountInv, FreshInv, IdsUnique, Connecting
  <1>2. OwnerInv'
    BY DEF NetInv, OwnerInv
  <1>3. OpenOwned'
    BY DEF NetInv, OpenOwned, IdsUnique, Open
  <1> QED
    BY <1>1, <1>2, <1>3 DEF NetInv

(* The peers in D leave the map and their streams are shut; a thread may end *)
(* once its id is not in the map.                                            *)
Removed(D) ==
    /\ D \subseteq Ids
    /\ Ids' = Ids \ D
    /\ \A i \in Ids' : peers'[i].addr = peers[i].addr
    /\ \A a \in Addrs : \/ thread'[a] = Closed(D)[a]
                       \/ /\ thread'[a] = "gone" /\ thread[a] \in {"open", "shut"}
                          /\ id_of[a] \notin Ids'
    /\ id_of' = id_of /\ queue' = queue /\ known' = known
    /\ connecting' = connecting
    /\ (next_id' = next_id /\ rechecks' = rechecks) \/ rechecks' # 0

LEMMA RemovalNet ==
    ASSUME TypeInv, NetInv, NEW D, Removed(D)
    PROVE  NetInv'
  <1> USE DEF Removed
  <1>1. \A a \in Addrs : /\ (thread'[a] = "none") <=> (thread[a] = "none")
                         /\ (thread'[a] = "connecting") <=> (thread[a] = "connecting")
                         /\ thread'[a] = "open" => thread[a] = "open"
    BY DEF Closed
  <1>2. QueueInv'
    BY <1>1 DEF NetInv, QueueInv
  <1>3. CountInv'
    <2>1. Connecting' = Connecting
      BY <1>1 DEF Connecting
    <2>2. Cardinality(Ids') <= Cardinality(Ids) /\ Cardinality(Ids') \in Nat
          /\ Cardinality(Ids) \in Nat
      BY FS_Subset, FS_CardinalityType DEF TypeInv, TypeOK
    <2> QED
      BY <2>1, <2>2, BoundsAssumption DEF NetInv, CountInv, TypeInv, TypeOK
  <1>4. OwnerInv'
    <2> SUFFICES ASSUME NEW i \in Ids'
                 PROVE  thread'[peers'[i].addr] = "open" /\ id_of'[peers'[i].addr] = i
      BY DEF OwnerInv
    <2> DEFINE a == peers[i].addr
    <2>1. a \in Addrs /\ thread[a] = "open" /\ id_of[a] = i /\ peers'[i].addr = a
      BY DEF NetInv, OwnerInv, TypeInv, TypeOK, PeerRecord
    <2>2. thread'[a] = Closed(D)[a]
      BY <2>1
    <2>3. \A j \in D : peers[j].addr # a
      BY <2>1 DEF NetInv, OwnerInv
    <2> QED
      BY <2>1, <2>2, <2>3 DEF Closed
  <1>5. FreshInv' /\ (IdsUnique' <=> IdsUnique)
    BY <1>1 DEF NetInv, FreshInv, IdsUnique
  <1>6. OpenOwned'
    <2> SUFFICES ASSUME IdsUnique, NEW a \in Addrs, thread'[a] = "open"
                 PROVE  id_of[a] \in Ids' /\ peers'[id_of[a]].addr = a
      BY <1>5 DEF OpenOwned, Open
    <2>1. id_of[a] \in Ids /\ peers[id_of[a]].addr = a
      BY <1>1 DEF NetInv, OpenOwned, Open
    <2>2. id_of[a] \notin D
      BY <2>1 DEF Closed
    <2> QED
      BY <2>1, <2>2
  <1> QED
    BY <1>2, <1>3, <1>4, <1>5, <1>6 DEF NetInv

LEMMA LoopNet == TypeInv /\ NetInv /\ Loop => NetInv'
  <1> SUFFICES ASSUME TypeInv, NetInv, Loop PROVE NetInv'
    OBVIOUS
  <1>1. ASSUME NEW found \in SUBSET Addrs, AnnounceFound(found) PROVE NetInv'
    <2>1. QueueInv'
      BY <1>1 DEF AnnounceFound, NetInv, QueueInv
    <2>2. CountInv' /\ OwnerInv' /\ FreshInv' /\ OpenOwned'
      BY <1>1 DEF AnnounceFound, NetInv, CountInv, OwnerInv, FreshInv, OpenOwned,
                  IdsUnique, Ids, Open, Connecting
    <2> QED
      BY <2>1, <2>2 DEF NetInv
  <1>2. ASSUME NoAnnounce PROVE NetInv'
    BY <1>2, QuietNet DEF NoAnnounce, Ids
  <1>3. ASSUME NEW r, Return(r), pc = "top", id_of' = id_of, queue' = queue,
               known' = known, connecting' = connecting,
               (next_id' = next_id /\ rechecks' = rechecks) \/ rechecks' # 0
        PROVE  NetInv'
    <2>1. Removed(Ids)
      BY <1>3 DEF Return, Ids, Removed
    <2> QED
      BY <2>1, RemovalNet
  <1>4. ASSUME NEW r \in {"nopeers", "io"}, AnnounceStarved(r) PROVE NetInv'
    <2>1. CASE empty_rounds' >= MaxEmptyRounds
      BY <1>3, <1>4, <2>1 DEF AnnounceStarved
    <2>2. CASE ~(empty_rounds' >= MaxEmptyRounds)
      BY <1>4, <2>2, QuietNet DEF AnnounceStarved, Ids
    <2> QED
      BY <2>1, <2>2
  <1>5. ASSUME NEW a \in Addrs, Spawn(a) PROVE NetInv'
    <2>1. thread[a] = "none" /\ a \in known
      BY <1>5 DEF Spawn, NetInv, QueueInv
    <2>2. thread' = [thread EXCEPT ![a] = "connecting"] /\ Ids' = Ids /\ peers' = peers
      BY <1>5 DEF Spawn, Ids
    <2>3. QueueInv'
      BY <1>5, <2>1, <2>2 DEF Spawn, NetInv, QueueInv, TypeInv, TypeOK
    <2>4. CountInv'
      <3>1. Connecting' = Connecting \cup {a} /\ a \notin Connecting
        BY <2>1, <2>2 DEF Connecting, TypeInv, TypeOK
      <3>2. IsFiniteSet(Connecting)
        BY AddrsAssumption, FS_Subset DEF Connecting
      <3>3. Cardinality(Connecting') = Cardinality(Connecting) + 1
        BY <3>1, <3>2, FS_AddElement
      <3>4. Cardinality(Ids) \in Nat
        BY FS_CardinalityType DEF TypeInv, TypeOK
      <3> QED
        BY <1>5, <2>2, <3>3, <3>4, BoundsAssumption
        DEF Spawn, Room, NetInv, CountInv, TypeInv, TypeOK
    <2>5. OwnerInv'
      BY <1>5, <2>1, <2>2 DEF Spawn, NetInv, OwnerInv, TypeInv, TypeOK, PeerRecord
    <2>6. FreshInv'
      BY <1>5, <2>1, <2>2 DEF Spawn, NetInv, FreshInv, IdsUnique, TypeInv, TypeOK
    <2>7. OpenOwned'
      BY <1>5, <2>1, <2>2 DEF Spawn, NetInv, OpenOwned, IdsUnique, Open, TypeInv, TypeOK
    <2> QED
      BY <2>3, <2>4, <2>5, <2>6, <2>7 DEF NetInv
  <1>6. ASSUME Succeed PROVE NetInv'
    BY <1>3, <1>6 DEF Succeed
  <1>7. ASSUME Recheck PROVE NetInv'
    <2>1. rechecks' # 0
      BY <1>7 DEF Recheck, TypeInv, TypeOK
    <2>2. CASE rechecks' > MaxRechecks
      BY <1>3, <1>7, <2>1, <2>2 DEF Recheck
    <2>3. CASE ~(rechecks' > MaxRechecks)
      BY <1>7, <2>1, <2>3, QuietNet DEF Recheck, Ids
    <2> QED
      BY <2>2, <2>3
  <1> QED
    BY <1>1, <1>2, <1>4, <1>5, <1>6, <1>7 DEF Loop

LEMMA HandleNet == TypeInv /\ NetInv /\ Handle => NetInv'
  <1> SUFFICES ASSUME TypeInv, NetInv, Handle PROVE NetInv'
    OBVIOUS
  <1>1. ASSUME NothingNew PROVE NetInv'
    BY <1>1, QuietNet DEF NothingNew, Receiving, Handled, Ids
  <1>2. ASSUME NEW a \in Addrs, thread[a] = "connecting",
               connecting' = Less(connecting, 1),
               NEW s \in {"open", "gone"}, thread' = [thread EXCEPT ![a] = s]
        PROVE  /\ connecting' = Cardinality(Connecting')
               /\ connecting' = connecting - 1
    <2>1. Connecting' = Connecting \ {a} /\ a \in Connecting
      BY <1>2 DEF Connecting, TypeInv, TypeOK
    <2>2. IsFiniteSet(Connecting)
      BY AddrsAssumption, FS_Subset DEF Connecting
    <2>3. /\ Cardinality(Connecting') = Cardinality(Connecting) - 1
          /\ Cardinality(Connecting) \in Nat /\ Cardinality(Connecting') \in Nat
      BY <2>1, <2>2, FS_RemoveElement, FS_CardinalityType
    <2> QED
      BY <1>2, <2>3 DEF Less, NetInv, CountInv
  <1>3. ASSUME NEW a \in Addrs, Connected(a) PROVE NetInv'
    <2> DEFINE k == id_of[a]
    <2>1. /\ thread[a] = "connecting" /\ thread' = [thread EXCEPT ![a] = "open"]
          /\ id_of' = id_of /\ queue' = queue /\ known' = known
          /\ next_id' = next_id /\ rechecks' = rechecks /\ pc = "recv"
      BY <1>3 DEF Connected, Receiving
    <2>2. Ids' = Ids \cup {k}
      BY <1>3 DEF Connected, Ids
    <2>3. peers'[k].addr = a /\ \A i \in Ids \ {k} : peers'[i] = peers[i]
      BY <1>3, <2>2 DEF Connected, NewPeer
    <2>4. QueueInv'
      BY <2>1 DEF NetInv, QueueInv, TypeInv, TypeOK
    <2>5. CountInv'
      <3>1. /\ connecting' = Cardinality(Connecting')
            /\ connecting' = connecting - 1
        BY <1>2, <1>3 DEF Connected
      <3>2. /\ Cardinality(Ids') <= Cardinality(Ids) + 1
            /\ Cardinality(Ids) \in Nat /\ Cardinality(Ids') \in Nat
        <4>1. IsFiniteSet(Ids)
          BY DEF TypeInv, TypeOK
        <4>2. /\ IsFiniteSet(Ids \cup {k})
              /\ Cardinality(Ids \cup {k}) = IF k \in Ids THEN Cardinality(Ids)
                                             ELSE Cardinality(Ids) + 1
          BY <4>1, FS_AddElement
        <4> QED
          BY <2>2, <4>1, <4>2, FS_CardinalityType
      <3> QED
        BY <3>1, <3>2, BoundsAssumption DEF NetInv, CountInv, TypeInv, TypeOK
    <2>6. OwnerInv'
      <3> SUFFICES ASSUME NEW i \in Ids'
                   PROVE  thread'[peers'[i].addr] = "open" /\ id_of'[peers'[i].addr] = i
        BY DEF OwnerInv
      <3>1. CASE i = k
        BY <2>1, <2>3, <3>1 DEF TypeInv, TypeOK
      <3>2. CASE i # k
        BY <2>1, <2>2, <2>3, <3>2 DEF NetInv, OwnerInv, TypeInv, TypeOK, PeerRecord
      <3> QED
        BY <3>1, <3>2
    <2>7. FreshInv'
      BY <2>1 DEF NetInv, FreshInv, IdsUnique, TypeInv, TypeOK
    <2>8. OpenOwned'
      <3> SUFFICES ASSUME IdsUnique', NEW b \in Addrs, thread'[b] = "open"
                   PROVE  id_of[b] \in Ids' /\ peers'[id_of[b]].addr = b
        BY <2>1 DEF OpenOwned, Open
      <3>1. IdsUnique
        BY <2>1 DEF IdsUnique, TypeInv, TypeOK
      <3>2. CASE b = a
        BY <2>2, <2>3, <3>2
      <3>3. CASE b # a
        <4>1. thread[b] = "open"
          BY <2>1, <3>3 DEF TypeInv, TypeOK
        <4>2. id_of[b] \in Ids /\ peers[id_of[b]].addr = b
          BY <2>1, <3>1, <4>1 DEF NetInv, OpenOwned, Open
        <4>3. id_of[b] # k
          BY <2>1, <3>1, <3>3, <4>1 DEF IdsUnique
        <4> QED
          BY <2>2, <2>3, <4>2, <4>3
      <3> QED
        BY <3>2, <3>3
    <2> QED
      BY <2>4, <2>5, <2>6, <2>7, <2>8 DEF NetInv
  <1>4. ASSUME NEW a \in Addrs, ConnectFailed(a) PROVE NetInv'
    <2>1. /\ thread[a] = "connecting" /\ thread' = [thread EXCEPT ![a] = "gone"]
          /\ id_of' = id_of /\ queue' = queue /\ known' = known
          /\ next_id' = next_id /\ rechecks' = rechecks /\ pc = "recv"
          /\ peers' = peers /\ Ids' = Ids
      BY <1>4 DEF ConnectFailed, Receiving, Ids
    <2>2. QueueInv'
      BY <2>1 DEF NetInv, QueueInv, TypeInv, TypeOK
    <2>3. CountInv'
      <3>1. /\ connecting' = Cardinality(Connecting')
            /\ connecting' = connecting - 1
        BY <1>2, <1>4 DEF ConnectFailed
      <3>2. Cardinality(Ids) \in Nat
        BY FS_CardinalityType DEF TypeInv, TypeOK
      <3> QED
        BY <2>1, <3>1, <3>2, BoundsAssumption DEF NetInv, CountInv, TypeInv, TypeOK
    <2>4. OwnerInv'
      BY <2>1 DEF NetInv, OwnerInv, TypeInv, TypeOK, PeerRecord
    <2>5. FreshInv'
      BY <2>1 DEF NetInv, FreshInv, IdsUnique, TypeInv, TypeOK
    <2>6. OpenOwned'
      BY <2>1 DEF NetInv, OpenOwned, IdsUnique, Open, TypeInv, TypeOK
    <2> QED
      BY <2>2, <2>3, <2>4, <2>5, <2>6 DEF NetInv
  <1>5. ASSUME NEW a \in Addrs, Died(a) PROVE NetInv'
    <2> DEFINE D == {id_of[a]} \cap Ids
    <2>1. /\ Drop(D) /\ thread' = [Closed(D) EXCEPT ![a] = "gone"]
          /\ Sends(a) /\ pc = "recv"
      BY <1>5 DEF Died, Receiving
    <2>2. Ids' = Ids \ D /\ \A i \in Ids' : peers'[i] = peers[i]
      BY <2>1, DropType
    <2>3. \A b \in Addrs : \/ thread'[b] = Closed(D)[b]
                           \/ /\ thread'[b] = "gone" /\ thread[b] \in {"open", "shut"}
                              /\ id_of[b] \notin Ids'
      BY <2>1, <2>2 DEF Closed, Sends
    <2>4. Removed(D)
      BY <1>5, <2>2, <2>3 DEF Died, Removed
    <2> QED
      BY <2>4, RemovalNet
  <1>6. ASSUME NEW a \in Addrs, NEW bits \in SUBSET Pieces, Bitfield(a, bits)
        PROVE  NetInv'
    BY <1>6, QuietNet
    DEF Bitfield, Talks, Receiving, Handled, TypeInv, TypeOK, PeerRecord, Ids
  <1>7. ASSUME NEW a \in Addrs, BadBitfield(a) PROVE NetInv'
    <2>1. id_of[a] \in Ids /\ pc = "recv"
      BY <1>7 DEF BadBitfield, Talks, Receiving
    <2>2. Ids' = Ids \ {id_of[a]} /\ \A i \in Ids' : peers'[i] = peers[i]
      BY <1>7, <2>1, DropType DEF BadBitfield
    <2>3. Removed({id_of[a]})
      BY <1>7, <2>1, <2>2 DEF BadBitfield, Removed
    <2> QED
      BY <2>3, RemovalNet
  <1>8. ASSUME NEW a \in Addrs, HaveBeyond(a) PROVE NetInv'
    BY <1>8, QuietNet
    DEF HaveBeyond, Talks, Receiving, Handled, TypeInv, TypeOK, PeerRecord, Ids
  <1>9. ASSUME NEW a \in Addrs, NEW p \in Pieces, Have(a, p) PROVE NetInv'
    BY <1>9, QuietNet
    DEF Have, Talks, Receiving, Handled, TypeInv, TypeOK, PeerRecord, Ids
  <1>10. ASSUME NEW a \in Addrs, PieceGood(a) PROVE NetInv'
    <2>1. Ids' = Ids /\ \A i \in Ids : peers'[i].addr = peers[i].addr
      <3>1. peers' = Announced(id_of[a], peers[id_of[a]].job)
        BY <1>10 DEF PieceGood
      <3>2. Ids' = Ids
        BY <3>1 DEF Announced, Ids
      <3>3. ASSUME NEW i \in Ids PROVE peers'[i].addr = peers[i].addr
        <4>1. peers[i] \in PeerRecord
          BY DEF TypeInv, TypeOK
        <4> QED
          BY <3>1, <4>1 DEF Announced, PeerRecord
      <3> QED
        BY <3>2, <3>3
    <2> QED
      BY <1>10, <2>1, QuietNet DEF PieceGood, Finishes, Talks, Receiving, Handled
  <1>11. ASSUME NEW a \in Addrs, WriteFailed(a) PROVE NetInv'
    <2>1. Removed(Ids)
      BY <1>11 DEF WriteFailed, Return, Ids, Removed
    <2> QED
      BY <2>1, RemovalNet
  <1>12. ASSUME NEW a \in Addrs, PieceBad(a) PROVE NetInv'
    <2>1. id_of[a] \in Ids /\ pc = "recv"
      BY <1>12 DEF PieceBad, Finishes, Talks, Receiving
    <2>2. CASE peers[id_of[a]].failures + 1 >= MaxVerifyFailures
      <3>1. Ids' = Ids \ {id_of[a]} /\ \A i \in Ids' : peers'[i] = peers[i]
        BY <1>12, <2>1, <2>2, DropType DEF PieceBad
      <3>2. Removed({id_of[a]})
        BY <1>12, <2>1, <2>2, <3>1 DEF PieceBad, Removed
      <3> QED
        BY <3>2, RemovalNet
    <2>3. CASE ~(peers[id_of[a]].failures + 1 >= MaxVerifyFailures)
      <3>1. /\ peers' = [peers EXCEPT ![id_of[a]].failures = @ + 1]
            /\ UNCHANGED <<thread, id_of, queue, known, connecting, next_id, rechecks>>
        BY <1>12, <2>3 DEF PieceBad
      <3>2. Ids' = Ids /\ \A i \in Ids : peers[i] \in PeerRecord
        BY <3>1 DEF TypeInv, TypeOK, Ids
      <3>3. ASSUME NEW i \in Ids PROVE peers'[i].addr = peers[i].addr
        BY <2>1, <3>1, <3>2 DEF PeerRecord, Ids
      <3> QED
        BY <3>1, <3>2, <3>3, QuietNet
    <2> QED
      BY <2>2, <2>3
  <1> QED
    BY <1>1, <1>3, <1>4, <1>5, <1>6, <1>7, <1>8, <1>9, <1>10, <1>11, <1>12 DEF Handle

LEMMA RestNet == TypeInv /\ NetInv /\ (Housekeeping \/ World) => NetInv'
  <1> SUFFICES ASSUME TypeInv, NetInv, Housekeeping \/ World PROVE NetInv'
    OBVIOUS
  <1>1. ASSUME NEW i \in todo, NEW drop \in BOOLEAN, Assign(i, drop) PROVE NetInv'
    BY <1>1, QuietNet DEF Assign, TypeInv, TypeOK, PeerRecord, Ids
  <1>2. ASSUME NEW i \in todo, NEW drop \in BOOLEAN, Pass(i, drop) PROVE NetInv'
    BY <1>2, QuietNet DEF Pass, Ids
  <1>3. ASSUME KeepDone PROVE NetInv'
    <2>1. dead \subseteq Ids /\ pc = "keep"
      BY <1>3 DEF KeepDone, TypeInv, TypeOK
    <2>2. Ids' = Ids \ dead /\ \A i \in Ids' : peers'[i] = peers[i]
      BY <1>3, <2>1, DropType DEF KeepDone
    <2>3. Removed(dead)
      BY <1>3, <2>1, <2>2 DEF KeepDone, Removed
    <2> QED
      BY <2>3, RemovalNet
  <1>4. ASSUME NEW p \in Pieces, Damage(p) PROVE NetInv'
    BY <1>4, QuietNet DEF Damage, engineVars, Ids
  <1>5. ASSUME NEW a \in Addrs, WriterHangup(a) PROVE NetInv'
    <2>1. /\ thread[a] = "open" /\ thread' = [thread EXCEPT ![a] = "shut"]
          /\ \A i \in Ids : peers[i].addr # a
          /\ pc # "done" /\ pc' = pc /\ peers' = peers /\ Ids' = Ids /\ id_of' = id_of
          /\ queue' = queue /\ known' = known /\ connecting' = connecting
          /\ next_id' = next_id /\ rechecks' = rechecks
      BY <1>5 DEF WriterHangup, engineVars, Ids
    <2>2. Connecting' = Connecting
      BY <2>1 DEF Connecting, TypeInv, TypeOK
    <2>3. QueueInv' /\ CountInv' /\ FreshInv'
      BY <2>1, <2>2
      DEF NetInv, QueueInv, CountInv, FreshInv, IdsUnique, TypeInv, TypeOK
    <2>4. OwnerInv'
      BY <2>1 DEF NetInv, OwnerInv, TypeInv, TypeOK, PeerRecord
    <2>5. OpenOwned'
      BY <2>1 DEF NetInv, OpenOwned, IdsUnique, Open, TypeInv, TypeOK
    <2> QED
      BY <2>3, <2>4, <2>5 DEF NetInv
  <1> QED
    BY <1>1, <1>2, <1>3, <1>4, <1>5 DEF Housekeeping, World

LEMMA NetNext == TypeInv /\ NetInv /\ [Next]_vars => NetInv'
  <1>1. TypeInv /\ NetInv /\ (Done \/ UNCHANGED vars) => NetInv'
    BY QuietNet DEF Done, vars, engineVars, Ids
  <1> QED
    BY <1>1, LoopNet, HandleNet, RestNet DEF Next

LEMMA NetAlways == Spec => [](TypeInv /\ NetInv)
  BY TypeInit, TypeNext, NetInit, NetNext, PTL DEF Spec

(* Before the first failed final check no id is given twice. *)
THEOREM FirstRunUnique == Spec => []FirstRunIdsUnique
  <1>1. NetInv => FirstRunIdsUnique
    BY DEF NetInv, FreshInv, FirstRunIdsUnique
  <1> QED
    BY <1>1, NetAlways, PTL

LEMMA LimitFromNet == TypeInv /\ NetInv => PeerLimitWithUniqueIds
  <1> SUFFICES ASSUME TypeInv, NetInv, IdsUnique PROVE PeerLimit
    BY DEF PeerLimitWithUniqueIds
  <1>1. IsFiniteSet(Connecting) /\ IsFiniteSet(Open) /\ IsFiniteSet(Ids)
    BY AddrsAssumption, FS_Subset DEF Connecting, Open, TypeInv, TypeOK
  <1>2. {a \in Addrs : thread[a] \in {"connecting", "open"}} = Connecting \cup Open
    BY DEF Connecting, Open
  <1>3. Cardinality(Open) <= Cardinality(Ids)
    <2> DEFINE f == [a \in Open |-> id_of[a]]
    <2>1. f \in [Open -> Ids]
      BY DEF NetInv, OpenOwned
    <2>2. \A a, b \in Open : f[a] = f[b] => a = b
      BY DEF IdsUnique, Open
    <2>3. f \in Injection(Open, Ids)
      BY <2>1, <2>2 DEF Injection, IsInjective
    <2> QED
      BY <1>1, <2>3, FS_Injection
  <1>4. Cardinality(Connecting \cup Open) <= Cardinality(Connecting) + Cardinality(Open)
    <2>1. /\ Cardinality(Connecting \cup Open) = Cardinality(Connecting) + Cardinality(Open)
                                                 - Cardinality(Connecting \cap Open)
          /\ IsFiniteSet(Connecting \cap Open)
      BY <1>1, FS_Union, FS_Intersection
    <2>2. /\ Cardinality(Connecting) \in Nat /\ Cardinality(Open) \in Nat
          /\ Cardinality(Connecting \cap Open) \in Nat
      BY <1>1, <2>1, FS_CardinalityType
    <2> QED
      BY <2>1, <2>2
  <1>5. /\ Cardinality(Connecting) \in Nat /\ Cardinality(Open) \in Nat
        /\ Cardinality(Ids) \in Nat /\ Cardinality(Connecting \cup Open) \in Nat
    BY <1>1, FS_CardinalityType, FS_Union
  <1> QED
    <2>1. connecting = Cardinality(Connecting) /\ connecting + Cardinality(Ids) <= MaxPeers
      BY DEF NetInv, CountInv
    <2> QED
      BY <1>2, <1>3, <1>4, <1>5, <2>1, BoundsAssumption DEF PeerLimit

(* As long as no id was given twice, in every interleaving of connectors,    *)
(* deaths and messages the connectors at work and the open sockets together  *)
(* stay within max_peers, for every number of addresses.                     *)
THEOREM ConnectionLimit == Spec => []PeerLimitWithUniqueIds
  BY NetAlways, LimitFromNet, PTL

(* Hence the limit holds until the first final check fails.                  *)
THEOREM FirstRunLimit == Spec => [](rechecks = 0 => PeerLimit)
  <1>1. FirstRunIdsUnique /\ PeerLimitWithUniqueIds => (rechecks = 0 => PeerLimit)
    BY DEF FirstRunIdsUnique, PeerLimitWithUniqueIds
  <1> QED
    BY <1>1, FirstRunUnique, ConnectionLimit, PTL

-----------------------------------------------------------------------------
(* The cap on jobs per piece.  `active` never undercounts, whether ids are   *)
(* reused or not, and pick() looks at it before it raises it.                *)
CapInv ==
    \A p \in Pieces : active[p] <= EndgameDup /\ Cardinality(JobsOn(p)) <= active[p]

LEMMA JobsFinite ==
    ASSUME TypeInv, NEW p
    PROVE  IsFiniteSet(JobsOn(p)) /\ Cardinality(JobsOn(p)) \in Nat
  BY FS_Subset, FS_CardinalityType DEF JobsOn, TypeInv, TypeOK

LEMMA CapInit == Init => CapInv
  <1> SUFFICES ASSUME Init, NEW p \in Pieces
               PROVE  active[p] <= EndgameDup /\ Cardinality(JobsOn(p)) <= active[p]
    BY DEF CapInv
  <1>1. JobsOn(p) = {} /\ Cardinality({}) = 0 /\ active[p] = 0
    BY FS_EmptySet DEF Init, JobsOn, Ids
  <1> QED
    BY <1>1, EndgameDupAssumption

(* Jobs may only disappear and the counts stay. *)
LEMMA QuietCap ==
    ASSUME TypeInv, CapInv, active' = active,
           \A p \in Pieces : JobsOn(p)' \subseteq JobsOn(p)
    PROVE  CapInv'
  <1> SUFFICES ASSUME NEW p \in Pieces
               PROVE  active[p] <= EndgameDup /\ Cardinality(JobsOn(p)') <= active[p]
    BY DEF CapInv
  <1>1. /\ IsFiniteSet(JobsOn(p)) /\ Cardinality(JobsOn(p)) \in Nat
        /\ JobsOn(p)' \subseteq JobsOn(p)
    BY JobsFinite
  <1>2. /\ Cardinality(JobsOn(p)') <= Cardinality(JobsOn(p))
        /\ IsFiniteSet(JobsOn(p)')
    BY <1>1, FS_Subset
  <1>3. Cardinality(JobsOn(p)') \in Nat
    BY <1>2, FS_CardinalityType
  <1> QED
    BY <1>1, <1>2, <1>3, EndgameDupAssumption DEF CapInv, TypeInv, TypeOK

(* Removed peers take exactly their own jobs out of the count. *)
LEMMA DropCap ==
    ASSUME TypeInv, CapInv, NEW D, D \subseteq Ids, Drop(D)
    PROVE  CapInv'
  <1> SUFFICES ASSUME NEW p \in Pieces
               PROVE  active'[p] <= EndgameDup /\ Cardinality(JobsOn(p)') <= active'[p]
    BY DEF CapInv
  <1>1. JobsOn(p)' = JobsOn(p) \ D
    BY DropType DEF JobsOn
  <1>2. JobsOn(p) \cap D = D \cap JobsOn(p)
    OBVIOUS
  <1>3. Cardinality(JobsOn(p)') = Cardinality(JobsOn(p)) - Cardinality(D \cap JobsOn(p))
    BY <1>1, <1>2, JobsFinite, FS_Difference
  <1>4. Cardinality(JobsOn(p)) \in Nat /\ Cardinality(D \cap JobsOn(p)) \in Nat
    BY JobsFinite, FS_Intersection, FS_CardinalityType
  <1>5. active'[p] = Less(active[p], Cardinality(D \cap JobsOn(p)))
    BY DEF Drop
  <1>6. /\ active[p] \in Nat /\ active[p] <= EndgameDup
        /\ Cardinality(JobsOn(p)) <= active[p]
    BY DEF CapInv, TypeInv, TypeOK
  <1>7. Cardinality(D \cap JobsOn(p)) <= Cardinality(JobsOn(p))
    BY JobsFinite, FS_Intersection
  <1> QED
    BY <1>3, <1>4, <1>5, <1>6, <1>7, EndgameDupAssumption DEF Less

LEMMA CapNext == TypeInv /\ CapInv /\ [Next]_vars => CapInv'
  <1> SUFFICES ASSUME TypeInv, CapInv, [Next]_vars PROVE CapInv'
    OBVIOUS
  <1>1. ASSUME active' = active, \/ peers' = peers \/ peers' = [i \in {} |-> 0]
        PROVE  CapInv'
    BY <1>1, QuietCap DEF JobsOn, Ids
  <1>2. CASE Loop
    BY <1>1, <1>2
    DEF Loop, AnnounceFound, NoAnnounce, AnnounceStarved, Return, Spawn, Succeed, Recheck
  <1>3. CASE NothingNew \/ \E a \in Addrs : ConnectFailed(a) \/ WriteFailed(a)
    BY <1>1, <1>3 DEF NothingNew, ConnectFailed, WriteFailed, Return
  <1>4. ASSUME NEW a \in Addrs, Connected(a) PROVE CapInv'
    <2>1. ASSUME NEW p \in Pieces, NEW i \in JobsOn(p)' PROVE i \in JobsOn(p)
      <3>1. i \in Ids \cup {id_of[a]} /\ peers'[i].job = p
        BY <1>4, <2>1 DEF Connected, JobsOn, Ids
      <3>2. i # id_of[a]
        BY <1>4, <3>1, NoJobAssumption DEF Connected, NewPeer
      <3> QED
        BY <1>4, <3>1, <3>2 DEF Connected, JobsOn
    <2> QED
      BY <1>4, <2>1, QuietCap DEF Connected
  <1>5. ASSUME NEW a \in Addrs, Died(a) PROVE CapInv'
    BY <1>5, DropCap DEF Died
  <1>6. ASSUME NEW a \in Addrs,
               \/ \E bits \in SUBSET Pieces : Bitfield(a, bits)
               \/ HaveBeyond(a)
               \/ \E p \in Pieces : Have(a, p)
        PROVE  CapInv'
    <2>1. Ids' = Ids /\ active' = active /\ \A i \in Ids : peers'[i].job = peers[i].job
      <3>1. ASSUME NEW bits \in SUBSET Pieces, Bitfield(a, bits)
            PROVE  /\ Ids' = Ids /\ active' = active
                   /\ \A i \in Ids : peers'[i].job = peers[i].job
        BY <3>1 DEF Bitfield, Talks, TypeInv, TypeOK, PeerRecord, Ids
      <3>2. ASSUME HaveBeyond(a)
            PROVE  /\ Ids' = Ids /\ active' = active
                   /\ \A i \in Ids : peers'[i].job = peers[i].job
        BY <3>2 DEF HaveBeyond, Talks, TypeInv, TypeOK, PeerRecord, Ids
      <3>3. ASSUME NEW p \in Pieces, Have(a, p)
            PROVE  /\ Ids' = Ids /\ active' = active
                   /\ \A i \in Ids : peers'[i].job = peers[i].job
        BY <3>3 DEF Have, Talks, TypeInv, TypeOK, PeerRecord, Ids
      <3> QED
        BY <1>6, <3>1, <3>2, <3>3
    <2> QED
      BY <2>1, QuietCap DEF JobsOn
  <1>7. ASSUME NEW a \in Addrs, BadBitfield(a) PROVE CapInv'
    BY <1>7, DropCap DEF BadBitfield, Talks
  <1>8. ASSUME NEW a \in Addrs, PieceGood(a) PROVE CapInv'
    <2>0. PICK p \in Pieces : p = peers[id_of[a]].job
      BY <1>8 DEF PieceGood, Finishes, Talks, PeerRecord, TypeInv, TypeOK
    <2>1. active' = [active EXCEPT ![p] = 0]
      BY <1>8, <2>0 DEF PieceGood, Completed
    <2>2. /\ Ids' = Ids
          /\ \A i \in Ids : peers'[i].job = IF peers[i].job = p THEN NoJob ELSE peers[i].job
      <3>1. peers' = Announced(id_of[a], p)
        BY <1>8, <2>0 DEF PieceGood
      <3>2. Ids' = Ids
        BY <3>1 DEF Announced, Ids
      <3>3. ASSUME NEW i \in Ids
            PROVE  peers'[i].job = IF peers[i].job = p THEN NoJob ELSE peers[i].job
        <4>1. peers[i] \in PeerRecord
          BY DEF TypeInv, TypeOK
        <4> QED
          BY <3>1, <4>1 DEF Announced, PeerRecord
      <3> QED
        BY <3>2, <3>3
    <2>3. JobsOn(p)' = {} /\ \A q \in Pieces \ {p} : JobsOn(q)' = JobsOn(q)
      BY <2>2, NoJobAssumption DEF JobsOn
    <2>4. Cardinality({}) = 0
      BY FS_EmptySet
    <2> QED
      <3> SUFFICES ASSUME NEW q \in Pieces
                   PROVE  active'[q] <= EndgameDup /\ Cardinality(JobsOn(q)') <= active'[q]
        BY DEF CapInv
      <3>1. active'[q] = IF q = p THEN 0 ELSE active[q]
        BY <2>1 DEF TypeInv, TypeOK
      <3>2. CASE q = p
        BY <2>3, <2>4, <3>1, <3>2, EndgameDupAssumption
      <3>3. CASE q # p
        BY <2>3, <3>1, <3>3 DEF CapInv
      <3> QED
        BY <3>2, <3>3
  <1>9. ASSUME NEW a \in Addrs, PieceBad(a) PROVE CapInv'
    <2>1. id_of[a] \in Ids
      BY <1>9 DEF PieceBad, Finishes, Talks
    <2>2. CASE peers[id_of[a]].failures + 1 >= MaxVerifyFailures
      BY <1>9, <2>1, <2>2, DropCap DEF PieceBad
    <2>3. CASE ~(peers[id_of[a]].failures + 1 >= MaxVerifyFailures)
      <3>1. Ids' = Ids /\ active' = active /\ \A i \in Ids : peers'[i].job = peers[i].job
        BY <1>9, <2>1, <2>3 DEF PieceBad, TypeInv, TypeOK, PeerRecord, Ids
      <3> QED
        BY <3>1, QuietCap DEF JobsOn
    <2> QED
      BY <2>2, <2>3
  <1>10. ASSUME NEW i \in todo, NEW drop \in BOOLEAN, Assign(i, drop) PROVE CapInv'
    <2>1. i \in Ids /\ peers[i].job = NoJob
      BY <1>10 DEF Assign, TypeInv, TypeOK
    <2>2. PICK p \in Picked(ours, peers[i].theirs, availability, active) :
            active' = Started(active, p) /\ peers' = [peers EXCEPT ![i].job = p]
      BY <1>10 DEF Assign
    <2>3. p \in Pieces /\ active[p] < EndgameDup
      BY <2>1, <2>2, PickedType DEF TypeInv, TypeOK, PeerRecord
    <2>4. /\ Ids' = Ids
          /\ \A j \in Ids : peers'[j].job = IF j = i THEN p ELSE peers[j].job
      BY <2>1, <2>2 DEF TypeInv, TypeOK, PeerRecord, Ids
    <2>5. JobsOn(p)' = JobsOn(p) \cup {i} /\ \A q \in Pieces \ {p} : JobsOn(q)' = JobsOn(q)
      BY <2>1, <2>3, <2>4, NoJobAssumption DEF JobsOn
    <2>6. /\ Cardinality(JobsOn(p)') <= Cardinality(JobsOn(p)) + 1
          /\ Cardinality(JobsOn(p)) \in Nat /\ Cardinality(JobsOn(p)') \in Nat
      <3>1. IsFiniteSet(JobsOn(p)) /\ Cardinality(JobsOn(p)) \in Nat
        BY JobsFinite
      <3>2. /\ IsFiniteSet(JobsOn(p) \cup {i})
            /\ Cardinality(JobsOn(p) \cup {i}) =
                    IF i \in JobsOn(p) THEN Cardinality(JobsOn(p))
                                       ELSE Cardinality(JobsOn(p)) + 1
        BY <3>1, FS_AddElement
      <3> QED
        BY <2>5, <3>1, <3>2
    <2> QED
      <3> SUFFICES ASSUME NEW q \in Pieces
                   PROVE  active'[q] <= EndgameDup /\ Cardinality(JobsOn(q)') <= active'[q]
        BY DEF CapInv
      <3>1. /\ active'[q] = IF q = p THEN active[q] + 1 ELSE active[q]
            /\ active[q] \in Nat /\ Cardinality(JobsOn(q)) <= active[q]
            /\ active[q] <= EndgameDup
        BY <2>2 DEF Started, CapInv, TypeInv, TypeOK
      <3>2. CASE q = p
        BY <2>3, <2>6, <3>1, <3>2, EndgameDupAssumption
      <3>3. CASE q # p
        BY <2>5, <3>1, <3>3
      <3> QED
        BY <3>2, <3>3
  <1>11. ASSUME NEW i \in todo, NEW drop \in BOOLEAN, Pass(i, drop) PROVE CapInv'
    BY <1>1, <1>11 DEF Pass
  <1>12. CASE KeepDone
    BY <1>12, DropCap DEF KeepDone, TypeInv, TypeOK
  <1>13. CASE World \/ Done \/ UNCHANGED vars
    BY <1>1, <1>13 DEF World, Damage, WriterHangup, Done, vars, engineVars
  <1> QED
    BY <1>2, <1>3, <1>4, <1>5, <1>6, <1>7, <1>8, <1>9, <1>10, <1>11, <1>12, <1>13
    DEF Next, Handle, Housekeeping

(* However peers come, go and change ids, at most ENDGAME_DUP of them fetch  *)
(* the same piece.                                                           *)
THEOREM CapHolds == Spec => []EndgameCap
  <1>1. TypeInv /\ CapInv => EndgameCap
    <2> SUFFICES ASSUME TypeInv, CapInv, NEW p \in Pieces
                 PROVE  Cardinality(JobsOn(p)) <= EndgameDup
      BY DEF EndgameCap
    <2> QED
      BY JobsFinite, EndgameDupAssumption DEF CapInv, TypeInv, TypeOK
  <1> QED
    BY <1>1, TypeInit, TypeNext, CapInit, CapNext, PTL DEF Spec

-----------------------------------------------------------------------------
(* The counters are exact while ids are unique.  Uniqueness once lost never  *)
(* comes back: an id a thread was given stays its id.                        *)
ExactInv ==
    IdsUnique /\ pc # "done" =>
        \A p \in Pieces : /\ availability[p] = Cardinality(Having(p))
                          /\ active[p] = Cardinality(JobsOn(p))

LEMMA UniqueBefore == TypeInv /\ NetInv /\ [Next]_vars /\ IdsUnique' => IdsUnique
  <1> SUFFICES ASSUME TypeInv, NetInv, [Next]_vars, IdsUnique' PROVE IdsUnique
    OBVIOUS
  <1>1. ASSUME NEW a \in Addrs, thread[a] # "none"
        PROVE  thread'[a] # "none" /\ id_of'[a] = id_of[a]
    <2>1. ASSUME NEW b \in Addrs, Spawn(b) PROVE thread'[a] # "none" /\ id_of'[a] = id_of[a]
      <3>1. b # a
        BY <1>1, <2>1 DEF Spawn, NetInv, QueueInv
      <3> QED
        BY <1>1, <2>1, <3>1 DEF Spawn, TypeInv, TypeOK
    <2>2. CASE Loop \/ Done \/ UNCHANGED vars
      BY <1>1, <2>1, <2>2
      DEF Loop, AnnounceFound, NoAnnounce, AnnounceStarved, Succeed, Recheck, Return, Closed,
          Done, vars
    <2>3. CASE Handle
      BY <1>1, <2>3
      DEF Handle, NothingNew, Connected, ConnectFailed, Died, Bitfield, BadBitfield, Have,
          HaveBeyond, PieceGood, WriteFailed, PieceBad, Return, Closed, TypeInv, TypeOK
    <2>4. CASE Housekeeping \/ World
      BY <1>1, <2>4
      DEF Housekeeping, Assign, Pass, KeepDone, Closed, World, Damage, WriterHangup, TypeInv,
          TypeOK
    <2> QED
      BY <2>2, <2>3, <2>4 DEF Next
  <1> QED
    BY <1>1 DEF IdsUnique

LEMMA HavingFinite ==
    ASSUME TypeInv, NEW p
    PROVE  IsFiniteSet(Having(p)) /\ Cardinality(Having(p)) \in Nat
  BY FS_Subset, FS_CardinalityType DEF Having, TypeInv, TypeOK

LEMMA ExactInit == Init => ExactInv
  <1> SUFFICES ASSUME Init, NEW p \in Pieces
               PROVE  /\ availability[p] = Cardinality(Having(p))
                      /\ active[p] = Cardinality(JobsOn(p))
    BY DEF ExactInv
  <1>1. JobsOn(p) = {} /\ Having(p) = {} /\ availability[p] = 0 /\ active[p] = 0
    BY DEF Init, JobsOn, Having, Ids
  <1> QED
    BY <1>1, FS_EmptySet

(* Who has or fetches what does not change, nor do the counters.             *)
LEMMA QuietExact ==
    ASSUME ExactInv, pc' # "done" => pc # "done", IdsUnique' => IdsUnique,
           availability' = availability, active' = active,
           \A p \in Pieces : Having(p)' = Having(p) /\ JobsOn(p)' = JobsOn(p)
    PROVE  ExactInv'
  BY DEF ExactInv

(* Removed peers take what they have and fetch out of the counts.            *)
LEMMA DropExact ==
    ASSUME TypeInv, ExactInv, pc # "done", IdsUnique' => IdsUnique,
           NEW D, D \subseteq Ids, Drop(D)
    PROVE  ExactInv'
  <1> SUFFICES ASSUME IdsUnique, NEW p \in Pieces
               PROVE  /\ availability'[p] = Cardinality(Having(p)')
                      /\ active'[p] = Cardinality(JobsOn(p)')
    BY DEF ExactInv
  <1>1. JobsOn(p)' = JobsOn(p) \ D /\ Having(p)' = Having(p) \ D
    BY DropType DEF JobsOn, Having
  <1>2. ASSUME NEW S, IsFiniteSet(S)
        PROVE  Less(Cardinality(S), Cardinality(D \cap S)) = Cardinality(S \ D)
    <2>1. S \cap D = D \cap S
      OBVIOUS
    <2>2. /\ Cardinality(S) \in Nat /\ Cardinality(S \cap D) \in Nat
          /\ Cardinality(S \cap D) <= Cardinality(S)
          /\ Cardinality(S \ D) = Cardinality(S) - Cardinality(S \cap D)
      BY <1>2, TakenOut
    <2> QED
      BY <2>1, <2>2 DEF Less
  <1>3. /\ availability'[p] = Less(availability[p], Cardinality(D \cap Having(p)))
        /\ active'[p] = Less(active[p], Cardinality(D \cap JobsOn(p)))
    BY DEF Drop
  <1>4. availability[p] = Cardinality(Having(p)) /\ active[p] = Cardinality(JobsOn(p))
    BY DEF ExactInv
  <1> QED
    BY <1>1, <1>2, <1>3, <1>4, HavingFinite, JobsFinite

(* A new connection's id is not in the map: whoever owns the entry has       *)
(* another id than a thread that is still connecting.                        *)
LEMMA ConnectedId ==
    ASSUME TypeInv, NetInv, IdsUnique, NEW a \in Addrs, Connected(a)
    PROVE  id_of[a] \notin Ids
  <1> SUFFICES ASSUME id_of[a] \in Ids PROVE FALSE
    OBVIOUS
  <1> DEFINE b == peers[id_of[a]].addr
  <1>1. b \in Addrs /\ thread[b] = "open" /\ id_of[b] = id_of[a]
    BY DEF NetInv, OwnerInv, TypeInv, TypeOK, PeerRecord
  <1>2. thread[a] = "connecting"
    BY DEF Connected
  <1> QED
    BY <1>1, <1>2 DEF IdsUnique

(* A peer's pieces change from one set to another.                           *)
LEMMA TheirsExact ==
    ASSUME TypeInv, ExactInv, IdsUnique, pc # "done", NEW i \in Ids, NEW bits \in SUBSET Pieces,
           Ids' = Ids, \A j \in Ids : /\ peers'[j].job = peers[j].job
                                     /\ peers'[j].theirs = IF j = i THEN bits ELSE peers[j].theirs,
           NEW p \in Pieces
    PROVE  /\ JobsOn(p)' = JobsOn(p)
           /\ Cardinality(Having(p)') =
                 Less(availability[p], IF p \in peers[i].theirs THEN 1 ELSE 0)
                    + (IF p \in bits THEN 1 ELSE 0)
  <1>1. JobsOn(p)' = JobsOn(p)
    BY DEF JobsOn
  <1>2. Having(p)' = IF p \in bits THEN (Having(p) \ {i}) \cup {i} ELSE Having(p) \ {i}
    BY DEF Having
  <1>3. i \in Having(p) <=> p \in peers[i].theirs
    BY DEF Having
  <1>4. /\ IsFiniteSet(Having(p) \ {i})
        /\ Cardinality(Having(p)) \in Nat /\ Cardinality(Having(p) \ {i}) \in Nat
        /\ Cardinality(Having(p) \ {i}) =
              IF p \in peers[i].theirs THEN Cardinality(Having(p)) - 1 ELSE Cardinality(Having(p))
    BY <1>3, HavingFinite, FS_RemoveElement, FS_CardinalityType
  <1>5. Cardinality((Having(p) \ {i}) \cup {i}) = Cardinality(Having(p) \ {i}) + 1
    BY <1>4, FS_AddElement
  <1>6. availability[p] = Cardinality(Having(p))
    BY DEF ExactInv
  <1>7. Less(availability[p], IF p \in peers[i].theirs THEN 1 ELSE 0) = Cardinality(Having(p) \ {i})
    BY <1>4, <1>6 DEF Less
  <1> QED
    BY <1>1, <1>2, <1>4, <1>5, <1>7

LEMMA HandleExact ==
    TypeInv /\ NetInv /\ ExactInv /\ Handle /\ (IdsUnique' => IdsUnique) => ExactInv'
  <1> SUFFICES ASSUME TypeInv, NetInv, ExactInv, Handle, IdsUnique, IdsUnique', pc' # "done"
               PROVE  ExactInv'
    BY DEF ExactInv
  <1>1. pc # "done"
    BY DEF Handle, NothingNew, Connected, ConnectFailed, Died, Bitfield, BadBitfield, Have,
           HaveBeyond, PieceGood, WriteFailed, PieceBad, Finishes, Talks, Receiving
  <1>2. ASSUME NothingNew \/ \E a \in Addrs : ConnectFailed(a) PROVE ExactInv'
    BY <1>1, <1>2, QuietExact DEF NothingNew, ConnectFailed, Having, JobsOn, Ids
  <1>3. ASSUME NEW a \in Addrs, Connected(a) PROVE ExactInv'
    <2>1. /\ id_of[a] \notin Ids /\ Ids' = Ids \cup {id_of[a]}
          /\ peers'[id_of[a]].theirs = {} /\ peers'[id_of[a]].job = NoJob
          /\ \A i \in Ids : peers'[i] = peers[i]
      BY <1>3, ConnectedId DEF Connected, NewPeer, Ids
    <2>2. ASSUME NEW p \in Pieces PROVE Having(p)' = Having(p) /\ JobsOn(p)' = JobsOn(p)
      BY <2>1, NoJobAssumption DEF Having, JobsOn
    <2> QED
      BY <1>1, <1>3, <2>2, QuietExact DEF Connected
  <1>4. ASSUME NEW a \in Addrs, Died(a) PROVE ExactInv'
    BY <1>1, <1>4, DropExact DEF Died
  <1>5. ASSUME NEW a \in Addrs, NEW bits \in SUBSET Pieces, Bitfield(a, bits) PROVE ExactInv'
    <2> DEFINE i == id_of[a]
    <2>1. i \in Ids /\ active' = active
          /\ availability' = ReplaceBitfield(availability, peers[i].theirs, bits)
      BY <1>5 DEF Bitfield, Talks
    <2>2. Ids' = Ids /\ \A j \in Ids : /\ peers'[j].job = peers[j].job
                                       /\ peers'[j].theirs = IF j = i THEN bits ELSE peers[j].theirs
      BY <1>5 DEF Bitfield, Talks, TypeInv, TypeOK, PeerRecord, Ids
    <2>3. ASSUME NEW p \in Pieces
          PROVE  /\ availability'[p] = Cardinality(Having(p)')
                 /\ active'[p] = Cardinality(JobsOn(p)')
      BY <1>1, <2>1, <2>2, TheirsExact DEF ReplaceBitfield, ExactInv
    <2> QED
      BY <2>3 DEF ExactInv
  <1>6. ASSUME NEW a \in Addrs, BadBitfield(a) PROVE ExactInv'
    BY <1>1, <1>6, DropExact DEF BadBitfield, Talks
  <1>7. ASSUME NEW a \in Addrs, HaveBeyond(a) PROVE ExactInv'
    <2>1. Ids' = Ids /\ \A j \in Ids : /\ peers'[j].job = peers[j].job
                                       /\ peers'[j].theirs = peers[j].theirs
      BY <1>7 DEF HaveBeyond, Talks, TypeInv, TypeOK, PeerRecord, Ids
    <2> QED
      BY <1>1, <1>7, <2>1, QuietExact DEF HaveBeyond, Having, JobsOn
  <1>8. ASSUME NEW a \in Addrs, NEW q \in Pieces, Have(a, q) PROVE ExactInv'
    <2> DEFINE i == id_of[a]
               bits == peers[i].theirs \cup {q}
    <2>1. i \in Ids /\ active' = active /\ q \notin peers[i].theirs
          /\ availability' = [availability EXCEPT ![q] = @ + 1]
          /\ peers[i].theirs \in SUBSET Pieces /\ bits \in SUBSET Pieces
          /\ bits = peers[i].theirs \cup {q}
      BY <1>8 DEF Have, Talks, AddHave, TypeInv, TypeOK, PeerRecord
    <2>2. Ids' = Ids /\ \A j \in Ids : /\ peers'[j].job = peers[j].job
                                       /\ peers'[j].theirs = IF j = i THEN bits ELSE peers[j].theirs
      BY <1>8 DEF Have, Talks, TypeInv, TypeOK, PeerRecord, Ids
    <2> HIDE DEF i, bits
    <2>3. ASSUME NEW p \in Pieces
          PROVE  /\ availability'[p] = Cardinality(Having(p)')
                 /\ active'[p] = Cardinality(JobsOn(p)')
      <3>1. /\ JobsOn(p)' = JobsOn(p)
            /\ Cardinality(Having(p)') =
                 Less(availability[p], IF p \in peers[i].theirs THEN 1 ELSE 0)
                    + (IF p \in bits THEN 1 ELSE 0)
        <4>1. i \in Ids /\ bits \in SUBSET Pieces
          BY <2>1
        <4> QED
          BY <1>1, <4>1, <2>2, TheirsExact
      <3>2. p \in peers[i].theirs => availability[p] >= 1 
        <4>1. availability[p] = Cardinality(Having(p)) /\ Cardinality(Having(p)) \in Nat
          BY <1>1, HavingFinite DEF ExactInv
        <4>2. p \in peers[i].theirs => Having(p) # {}
          BY <2>1 DEF Having
        <4> QED
          BY <4>1, <4>2, HavingFinite, FS_EmptySet
      <3>3. availability \in [Pieces -> Nat]
        BY DEF TypeInv, TypeOK
      <3>4. availability'[p] = Cardinality(Having(p)')
        BY <2>1, <3>1, <3>2, <3>3 DEF Less
      <3> QED
        BY <1>1, <2>1, <3>1, <3>4 DEF ExactInv
    <2> QED
      BY <2>3 DEF ExactInv
  <1>9. ASSUME NEW a \in Addrs, PieceGood(a) PROVE ExactInv'
    <2>0. PICK p \in Pieces : p = peers[id_of[a]].job
      BY <1>9 DEF PieceGood, Finishes, Talks, PeerRecord, TypeInv, TypeOK
    <2>1. active' = [active EXCEPT ![p] = 0] /\ availability' = availability
      BY <1>9, <2>0 DEF PieceGood, Completed
    <2>2. peers' = Announced(id_of[a], p) /\ Ids' = Ids
      BY <1>9, <2>0 DEF PieceGood, Announced, Ids
    <2>3. ASSUME NEW i \in Ids
          PROVE  /\ peers'[i].job = IF peers[i].job = p THEN NoJob ELSE peers[i].job
                 /\ peers'[i].theirs = peers[i].theirs
      <3>1. peers[i] \in PeerRecord
        BY DEF TypeInv, TypeOK
      <3> QED
        BY <2>2, <3>1 DEF Announced, PeerRecord
    <2>4. /\ JobsOn(p)' = {} /\ \A q \in Pieces \ {p} : JobsOn(q)' = JobsOn(q)
          /\ \A q \in Pieces : Having(q)' = Having(q)
      BY <2>2, <2>3, NoJobAssumption DEF JobsOn, Having
    <2>5. ASSUME NEW q \in Pieces
          PROVE  /\ availability'[q] = Cardinality(Having(q)')
                 /\ active'[q] = Cardinality(JobsOn(q)')
      BY <1>1, <2>1, <2>4, FS_EmptySet DEF ExactInv, TypeInv, TypeOK
    <2> QED
      BY <2>5 DEF ExactInv
  <1>10. ASSUME NEW a \in Addrs, WriteFailed(a) PROVE ExactInv'
    BY <1>10 DEF WriteFailed, Return
  <1>11. ASSUME NEW a \in Addrs, PieceBad(a) PROVE ExactInv'
    <2>1. id_of[a] \in Ids
      BY <1>11 DEF PieceBad, Finishes, Talks
    <2>2. CASE peers[id_of[a]].failures + 1 >= MaxVerifyFailures
      BY <1>1, <1>11, <2>1, <2>2, DropExact DEF PieceBad
    <2>3. CASE ~(peers[id_of[a]].failures + 1 >= MaxVerifyFailures)
      <3>1. /\ Ids' = Ids /\ active' = active /\ availability' = availability
            /\ \A i \in Ids : /\ peers'[i].job = peers[i].job
                               /\ peers'[i].theirs = peers[i].theirs
        BY <1>11, <2>1, <2>3 DEF PieceBad, TypeInv, TypeOK, PeerRecord, Ids
      <3> QED
        BY <1>1, <3>1, QuietExact DEF JobsOn, Having
    <2> QED
      BY <2>2, <2>3
  <1> QED
    BY <1>2, <1>3, <1>4, <1>5, <1>6, <1>7, <1>8, <1>9, <1>10, <1>11 DEF Handle

LEMMA ExactNext == TypeInv /\ NetInv /\ ExactInv /\ [Next]_vars => ExactInv'
  <1> SUFFICES ASSUME TypeInv, NetInv, ExactInv, [Next]_vars, IdsUnique, IdsUnique', pc' # "done"
               PROVE  ExactInv'
    BY UniqueBefore DEF ExactInv
  <1>1. CASE Loop
    <2>1. /\ pc # "done" /\ availability' = availability /\ active' = active /\ peers' = peers
      BY <1>1
      DEF Loop, AnnounceFound, NoAnnounce, AnnounceStarved, Spawn, Succeed, Recheck, Return
    <2> QED
      BY <2>1, QuietExact DEF JobsOn, Having, Ids
  <1>2. CASE Handle
    BY <1>2, HandleExact
  <1>3. ASSUME NEW i \in todo, NEW drop \in BOOLEAN, Assign(i, drop) PROVE ExactInv'
    <2>1. i \in Ids /\ peers[i].job = NoJob /\ pc # "done" /\ availability' = availability
      BY <1>3 DEF Assign, TypeInv, TypeOK
    <2>2. PICK p \in Picked(ours, peers[i].theirs, availability, active) :
            active' = Started(active, p) /\ peers' = [peers EXCEPT ![i].job = p]
      BY <1>3 DEF Assign
    <2>3. p \in Pieces
      BY <2>1, <2>2, PickedType DEF TypeInv, TypeOK, PeerRecord
    <2>4. Ids' = Ids /\ peers \in [Ids -> PeerRecord]
      BY <2>1, <2>2 DEF TypeInv, TypeOK, Ids
    <2>5. /\ JobsOn(p)' = JobsOn(p) \cup {i} /\ i \notin JobsOn(p)
          /\ \A q \in Pieces \ {p} : JobsOn(q)' = JobsOn(q)
          /\ \A q \in Pieces : Having(q)' = Having(q)
      <3>1. ASSUME NEW j \in Ids
            PROVE  /\ peers'[j].job = IF j = i THEN p ELSE peers[j].job
                   /\ peers'[j].theirs = peers[j].theirs
        <4>1. peers[j] \in PeerRecord /\ peers'[j] = IF j = i THEN [peers[j] EXCEPT !.job = p]
                                                               ELSE peers[j]
          BY <2>2, <2>4
        <4> QED
          BY <4>1 DEF PeerRecord
      <3>2. /\ JobsOn(p)' = JobsOn(p) \cup {i} /\ i \notin JobsOn(p)
            /\ \A q \in Pieces \ {p} : JobsOn(q)' = JobsOn(q)
        BY <2>1, <2>3, <2>4, <3>1, NoJobAssumption DEF JobsOn
      <3>3. \A q \in Pieces : Having(q)' = Having(q)
        BY <2>4, <3>1 DEF Having
      <3> QED
        BY <3>2, <3>3
    <2>6. Cardinality(JobsOn(p)') = Cardinality(JobsOn(p)) + 1
      BY <2>5, JobsFinite, FS_AddElement
    <2>7. ASSUME NEW q \in Pieces
          PROVE  /\ availability'[q] = Cardinality(Having(q)')
                 /\ active'[q] = Cardinality(JobsOn(q)')
      <3>1. active'[q] = IF q = p THEN active[q] + 1 ELSE active[q]
        BY <2>2 DEF Started, TypeInv, TypeOK
      <3> QED
        BY <2>1, <2>5, <2>6, <3>1 DEF ExactInv
    <2> QED
      BY <2>7 DEF ExactInv
  <1>4. ASSUME NEW i \in todo, NEW drop \in BOOLEAN, Pass(i, drop) PROVE ExactInv'
    BY <1>4, QuietExact DEF Pass, JobsOn, Having, Ids
  <1>5. CASE KeepDone
    BY <1>5, DropExact DEF KeepDone, TypeInv, TypeOK
  <1>6. CASE World \/ Done \/ UNCHANGED vars
    <2>1. UNCHANGED <<pc, availability, active, peers>>
      BY <1>6 DEF World, Damage, WriterHangup, Done, vars, engineVars
    <2> QED
      BY <2>1, QuietExact DEF JobsOn, Having, Ids
  <1> QED
    BY <1>1, <1>2, <1>3, <1>4, <1>5, <1>6 DEF Next, Housekeeping

LEMMA ExactAlways == Spec => []ExactInv
  BY TypeInit, TypeNext, NetInit, NetNext, ExactInit, ExactNext, PTL DEF Spec

(* Availability is what the rarest-first choice rests on: whatever mix of    *)
(* Bitfield, Have, deaths and removals came, it is the number of connected   *)
(* peers that have the piece, while no id was given twice.                   *)
THEOREM AvailabilityIsExact == Spec => []AvailabilityExact
  <1>1. ExactInv => AvailabilityExact
    BY DEF ExactInv, AvailabilityExact
  <1> QED
    BY <1>1, ExactAlways, PTL

(* Nothing leaks from the picker: its count of a piece is the number of      *)
(* peers that fetch it, through cancelled, failed and abandoned jobs.        *)
THEOREM ActiveIsExact == Spec => []ActiveExact
  <1>1. ExactInv => ActiveExact
    BY DEF ExactInv, ActiveExact
  <1> QED
    BY <1>1, ExactAlways, PTL

-----------------------------------------------------------------------------
(* Idle peers.  A nonempty set of naturals has a least member, so pick()     *)
(* returns a piece whenever one may be fetched.                              *)
LEMMA LeastNatural ==
    ASSUME NEW T \in SUBSET Nat, T # {}
    PROVE  \E x \in T : \A y \in T : x <= y
  <1> DEFINE below == {0 .. x - 1 : x \in T}
  <1>1. below \subseteq FiniteSubsetsOf(Nat) /\ below # {}
    <2>1. ASSUME NEW x \in T PROVE 0 .. x - 1 \in FiniteSubsetsOf(Nat)
      <3>1. IsFiniteSet(0 .. x - 1)
        BY FS_Interval
      <3> QED
        BY <3>1 DEF FiniteSubsetsOf
    <2> QED
      BY <2>1
  <1>2. PICK b \in below : \A c \in below : <<c, b>> \notin StrictSubsetOrdering(Nat)
    BY <1>1, WFMin, FS_StrictSubsetOrderingWellFounded
  <1>3. PICK x \in T : b = 0 .. x - 1
    OBVIOUS
  <1>4. ASSUME NEW y \in T PROVE x <= y
    <2> SUFFICES ASSUME y < x PROVE FALSE
      OBVIOUS
    <2>1. 0 .. y - 1 \subseteq b /\ y \in b /\ y \notin 0 .. y - 1
      BY <1>3
    <2>2. <<0 .. y - 1, b>> \in StrictSubsetOrdering(Nat)
      BY <1>3, <2>1 DEF StrictSubsetOrdering
    <2> QED
      BY <1>2, <2>2
  <1> QED
    BY <1>4

LEMMA LeastBy ==
    ASSUME NEW S, S # {}, NEW f, \A p \in S : f[p] \in Nat
    PROVE  \E p \in S : \A q \in S : f[p] <= f[q]
  <1> DEFINE T == {f[p] : p \in S}
  <1>1. T \in SUBSET Nat /\ T # {}
    OBVIOUS
  <1>2. PICK x \in T : \A y \in T : x <= y
    BY <1>1, LeastNatural
  <1> QED
    BY <1>2

LEMMA RarestExists ==
    ASSUME NEW S \in SUBSET Pieces, S # {}, NEW f \in [Pieces -> Nat]
    PROVE  Rarest(S, f) # {}
  <1>1. PICK p \in S : \A q \in S : f[p] <= f[q]
    BY LeastBy
  <1> DEFINE T == {q \in S : f[q] = f[p]}
  <1>2. T \in SUBSET Nat /\ T # {}
    BY PiecesAssumption
  <1>3. PICK r \in T : \A q \in T : r <= q
    BY <1>2, LeastNatural
  <1>4. ASSUME NEW q \in S PROVE f[r] < f[q] \/ (f[r] = f[q] /\ r <= q)
    <2>1. f[r] = f[p] /\ f[p] <= f[q] /\ f[p] \in Nat /\ f[q] \in Nat
      BY <1>1, <1>3
    <2>2. CASE f[q] = f[p]
      BY <1>3, <2>1, <2>2
    <2>3. CASE f[q] # f[p]
      BY <2>1, <2>3
    <2> QED
      BY <2>2, <2>3
  <1> QED
    BY <1>3, <1>4 DEF Rarest

(* pick() finds nothing only when everything missing is at the cap.          *)
LEMMA NothingToPick ==
    ASSUME NEW S \in SUBSET Pieces, NEW T \in SUBSET Pieces,
           NEW f \in [Pieces -> Nat], NEW g \in [Pieces -> Nat],
           Picked(S, T, f, g) = {}, NEW p \in T \ S
    PROVE  g[p] >= EndgameDup
  <1> SUFFICES ASSUME g[p] < EndgameDup PROVE FALSE
    BY EndgameDupAssumption
  <1> DEFINE fresh == {q \in T \ S : g[q] = 0}
             shared == {q \in T \ S : g[q] < EndgameDup}
  <1>1. CASE fresh # {}
    <2>1. Picked(S, T, f, g) = Rarest(fresh, f)
      BY <1>1 DEF Picked
    <2> QED
      BY <1>1, <2>1, RarestExists
  <1>2. CASE fresh = {}
    <2>1. Picked(S, T, f, g) = Rarest(LeastShared(shared, g), f)
      BY <1>2 DEF Picked
    <2>2. shared # {} /\ shared \in SUBSET Pieces
      OBVIOUS
    <2>3. LeastShared(shared, g) # {} /\ LeastShared(shared, g) \in SUBSET Pieces
      BY <2>2, LeastBy DEF LeastShared
    <2> QED
      BY <2>1, <2>3, RarestExists
  <1> QED
    BY <1>1, <1>2

(* Housekeeping raises counts up to the cap and changes nothing else a peer  *)
(* it has passed rests on; a peer whose pieces are not known has none.       *)
Served(i) ==
    peers[i].job = NoJob => \A p \in peers[i].theirs \ ours : active[p] >= EndgameDup

IdleInv ==
    /\ \A i \in Ids : peers[i].known = TRUE \/ peers[i].theirs = {}
    /\ pc = "keep" => \A i \in Ids \ todo : Served(i)

LEMMA IdleInit == Init => IdleInv
  BY DEF Init, IdleInv, Ids

LEMMA QuietIdle ==
    ASSUME IdleInv,
           \A i \in Ids' : /\ i \in Ids /\ peers'[i].theirs = peers[i].theirs
                           /\ peers[i].known = TRUE => peers'[i].known = TRUE,
           pc' = "keep" => Ids' \subseteq todo'
    PROVE  IdleInv'
  <1>1. ASSUME NEW i \in Ids' PROVE peers'[i].known = TRUE \/ peers'[i].theirs = {}
    BY DEF IdleInv
  <1> QED
    BY <1>1 DEF IdleInv

LEMMA HandleIdle == TypeInv /\ IdleInv /\ Handle => IdleInv'
  <1> SUFFICES ASSUME TypeInv, IdleInv, Handle PROVE IdleInv'
    OBVIOUS
  <1>1. pc' = "keep" => Ids' \subseteq todo'
    BY DEF Handle, NothingNew, Connected, ConnectFailed, Died, Bitfield, BadBitfield, Have,
           HaveBeyond, PieceGood, WriteFailed, PieceBad, Return, Handled, Ids
  <1>2. ASSUME NothingNew \/ \E a \in Addrs : ConnectFailed(a) \/ WriteFailed(a) PROVE IdleInv'
    BY <1>1, <1>2, QuietIdle DEF NothingNew, ConnectFailed, WriteFailed, Return, Ids
  <1>3. ASSUME NEW a \in Addrs, Connected(a) PROVE IdleInv'
    <2>1. \A i \in Ids' : peers'[i].theirs = {} \/ (i \in Ids /\ peers'[i] = peers[i])
      BY <1>3 DEF Connected, NewPeer, Ids
    <2> QED
      BY <1>1, <2>1 DEF IdleInv
  <1>4. ASSUME NEW D, D \subseteq Ids, Drop(D) PROVE IdleInv'
    BY <1>1, <1>4, DropType, QuietIdle
  <1>5. ASSUME NEW a \in Addrs, Died(a) \/ BadBitfield(a) PROVE IdleInv'
    BY <1>4, <1>5 DEF Died, BadBitfield, Talks
  <1>6. ASSUME NEW a \in Addrs,
               \/ \E bits \in SUBSET Pieces : Bitfield(a, bits)
               \/ HaveBeyond(a)
               \/ \E p \in Pieces : Have(a, p)
        PROVE  IdleInv'
    <2>1. Ids' = Ids /\ id_of[a] \in Ids
          /\ \A i \in Ids : i = id_of[a] \/ peers'[i] = peers[i]
      BY <1>6 DEF Bitfield, HaveBeyond, Have, Talks, TypeInv, TypeOK, Ids
    <2>2. peers'[id_of[a]].known = TRUE
      <3>1. peers \in [Ids -> PeerRecord] /\ peers[id_of[a]] \in PeerRecord
        BY <2>1 DEF TypeInv, TypeOK
      <3>2. ASSUME NEW bits,
                   peers' = [peers EXCEPT ![id_of[a]].theirs = bits, ![id_of[a]].known = TRUE]
            PROVE  peers'[id_of[a]].known = TRUE
        <4>1. peers'[id_of[a]] = [peers[id_of[a]] EXCEPT !.theirs = bits, !.known = TRUE]
          BY <2>1, <3>1, <3>2
        <4> QED
          BY <3>1, <4>1 DEF PeerRecord
      <3>3. ASSUME HaveBeyond(a) PROVE peers'[id_of[a]].known = TRUE
        <4>1. peers'[id_of[a]] = [peers[id_of[a]] EXCEPT !.known = TRUE]
          BY <2>1, <3>1, <3>3 DEF HaveBeyond
        <4> QED
          BY <3>1, <4>1 DEF PeerRecord
      <3> QED
        BY <1>6, <3>2, <3>3 DEF Bitfield, Have
    <2> QED
      BY <1>1, <2>1, <2>2 DEF IdleInv
  <1>7. ASSUME NEW a \in Addrs, PieceGood(a) PROVE IdleInv'
    <2>1. Ids' = Ids
      BY <1>7 DEF PieceGood, Announced, Ids
    <2>2. ASSUME NEW i \in Ids
          PROVE  peers'[i].theirs = peers[i].theirs /\ peers'[i].known = peers[i].known
      <3>1. peers[i] \in PeerRecord
        BY DEF TypeInv, TypeOK
      <3> QED
        BY <1>7, <3>1 DEF PieceGood, Announced, PeerRecord
    <2> QED
      BY <1>1, <2>1, <2>2, QuietIdle
  <1>8. ASSUME NEW a \in Addrs, PieceBad(a) PROVE IdleInv'
    <2>1. id_of[a] \in Ids
      BY <1>8 DEF PieceBad, Finishes, Talks
    <2>2. CASE peers[id_of[a]].failures + 1 >= MaxVerifyFailures
      BY <1>4, <1>8, <2>1, <2>2 DEF PieceBad
    <2>3. CASE ~(peers[id_of[a]].failures + 1 >= MaxVerifyFailures)
      <3>1. /\ Ids' = Ids
            /\ \A i \in Ids : /\ peers'[i].theirs = peers[i].theirs
                               /\ peers'[i].known = peers[i].known
        BY <1>8, <2>1, <2>3 DEF PieceBad, TypeInv, TypeOK, PeerRecord, Ids
      <3> QED
        BY <1>1, <3>1, QuietIdle
    <2> QED
      BY <2>2, <2>3
  <1> QED
    BY <1>2, <1>3, <1>5, <1>6, <1>7, <1>8 DEF Handle

LEMMA HousekeepingIdle == TypeInv /\ IdleInv /\ Housekeeping => IdleInv'
  <1> SUFFICES ASSUME TypeInv, IdleInv, Housekeeping PROVE IdleInv'
    OBVIOUS
  <1>1. ASSUME NEW i \in todo, NEW drop \in BOOLEAN, Assign(i, drop) PROVE IdleInv'
    <2>1. i \in Ids /\ pc = "keep" /\ ours' = ours /\ todo' = todo \ {i}
      BY <1>1 DEF Assign, TypeInv, TypeOK
    <2>2. PICK p \in Picked(ours, peers[i].theirs, availability, active) :
            active' = Started(active, p) /\ peers' = [peers EXCEPT ![i].job = p]
      BY <1>1 DEF Assign
    <2>3. p \in Pieces
      BY <2>1, <2>2, PickedType DEF TypeInv, TypeOK, PeerRecord
    <2>4. /\ Ids' = Ids /\ peers \in [Ids -> PeerRecord]
          /\ \A j \in Ids \ {i} : peers'[j] = peers[j]
          /\ peers'[i] = [peers[i] EXCEPT !.job = p]
      BY <2>1, <2>2 DEF TypeInv, TypeOK, Ids
    <2>5. /\ peers'[i].job = p /\ peers'[i].theirs = peers[i].theirs
          /\ peers'[i].known = peers[i].known
      BY <2>1, <2>4 DEF PeerRecord
    <2>6. \A q \in Pieces : active'[q] >= active[q] /\ active'[q] \in Nat /\ active[q] \in Nat
      BY <2>2, <2>3 DEF Started, TypeInv, TypeOK
    <2>7. ASSUME NEW j \in Ids' \ todo' PROVE Served(j)'
      <3>1. CASE j = i
        BY <2>3, <2>5, <3>1, NoJobAssumption DEF Served
      <3>2. CASE j # i
        <4>1. Served(j) /\ peers'[j] = peers[j] /\ peers[j].theirs \subseteq Pieces
          BY <2>1, <2>4, <2>7, <3>2 DEF IdleInv, PeerRecord
        <4> QED
          BY <2>1, <2>6, <4>1, EndgameDupAssumption DEF Served
      <3> QED
        BY <3>1, <3>2
    <2> QED
      BY <2>1, <2>4, <2>5, <2>7 DEF IdleInv
  <1>2. ASSUME NEW i \in todo, NEW drop \in BOOLEAN, Pass(i, drop) PROVE IdleInv'
    <2>1. /\ i \in Ids /\ pc = "keep" /\ UNCHANGED <<pc, ours, peers, active>> /\ todo' = todo \ {i}
          /\ Idle(i) \/ peers[i].job # NoJob
      BY <1>2 DEF Pass, TypeInv, TypeOK
    <2>2. Served(i)
      <3>1. SUFFICES ASSUME peers[i].job = NoJob, NEW p \in peers[i].theirs \ ours
                     PROVE  active[p] >= EndgameDup
        BY DEF Served
      <3>2. peers[i].known = TRUE /\ peers[i].theirs \in SUBSET Pieces
        BY <2>1, <3>1 DEF IdleInv, TypeInv, TypeOK, PeerRecord
      <3>3. Picked(ours, peers[i].theirs, availability, active) = {}
        BY <2>1, <3>1, <3>2 DEF Idle
      <3> QED
        BY <3>1, <3>2, <3>3, NothingToPick DEF TypeInv, TypeOK
    <2>3. ASSUME NEW j \in Ids \ todo' PROVE Served(j)
      BY <2>1, <2>2, <2>3 DEF IdleInv
    <2> QED
      BY <2>1, <2>3 DEF IdleInv, Served, Ids
  <1>3. CASE KeepDone
    <2>1. \A i \in Ids' : i \in Ids /\ peers'[i] = peers[i]
      BY <1>3, DropType DEF KeepDone, TypeInv, TypeOK
    <2> QED
      BY <1>3, <2>1, QuietIdle DEF KeepDone
  <1> QED
    BY <1>1, <1>2, <1>3 DEF Housekeeping

LEMMA IdleNext == TypeInv /\ IdleInv /\ [Next]_vars => IdleInv'
  <1> SUFFICES ASSUME TypeInv, IdleInv, [Next]_vars PROVE IdleInv'
    OBVIOUS
  <1>1. CASE Loop
    <2>1. peers' = peers \/ peers' = [i \in {} |-> 0]
      BY <1>1
      DEF Loop, AnnounceFound, NoAnnounce, AnnounceStarved, Spawn, Succeed, Recheck, Return
    <2>2. pc' # "keep"
      BY <1>1
      DEF Loop, AnnounceFound, NoAnnounce, AnnounceStarved, Spawn, Succeed, Recheck, Return
    <2> QED
      BY <2>1, <2>2, QuietIdle DEF Ids
  <1>2. CASE World \/ Done \/ UNCHANGED vars
    BY <1>2
    DEF World, Damage, WriterHangup, Done, vars, engineVars, IdleInv, Served, Ids
  <1> QED
    BY <1>1, <1>2, HandleIdle, HousekeepingIdle DEF Next

(* After housekeeping visited everybody, a peer without a job could only be  *)
(* a further fetcher of pieces that already have ENDGAME_DUP: the choice of  *)
(* one peer never makes idle what was passed before it.                      *)
THEOREM NoWorkLeftLying == Spec => []WorkConserving
  <1>1. TypeInv /\ ExactInv /\ CapInv /\ IdleInv => WorkConserving
    <2> SUFFICES ASSUME TypeInv, ExactInv, CapInv, IdleInv, IdsUnique, pc = "keep", todo = {},
                        NEW i \in Ids, peers[i].job = NoJob,
                        NEW p \in peers[i].theirs \ ours
                 PROVE  Cardinality(JobsOn(p)) = EndgameDup
      BY DEF WorkConserving
    <2>1. p \in Pieces
      BY DEF TypeInv, TypeOK, PeerRecord
    <2>2. active[p] >= EndgameDup
      BY DEF IdleInv, Served
    <2>3. /\ active[p] <= EndgameDup /\ active[p] \in Nat
          /\ active[p] = Cardinality(JobsOn(p))
      BY <2>1 DEF CapInv, ExactInv, TypeInv, TypeOK
    <2> QED
      BY <2>2, <2>3, EndgameDupAssumption
  <1>2. Spec => [](TypeInv /\ CapInv)
    BY TypeInit, TypeNext, CapInit, CapNext, PTL DEF Spec
  <1>3. Spec => [](TypeInv /\ IdleInv)
    BY TypeInit, TypeNext, IdleInit, IdleNext, PTL DEF Spec
  <1> QED
    BY <1>1, <1>2, <1>3, ExactAlways, PTL

-----------------------------------------------------------------------------
(* Giving up.                                                                *)
LEMMA GivesUpNext ==
    TypeInv /\ NetInv /\ GivesUpHonestly /\ [Next]_vars => GivesUpHonestly'
  <1> SUFFICES ASSUME TypeInv, NetInv, GivesUpHonestly, [Next]_vars,
                      IdsUnique, IdsUnique', result' = "nopeers"
               PROVE  \A a \in Addrs :
                        thread'[a] \in (IF a \in known' THEN {"shut", "gone"} ELSE {"none"})
    BY UniqueBefore DEF GivesUpHonestly
  <1>1. CASE result = "nopeers"
    <2>1. pc = "done"
      BY <1>1 DEF TypeInv
    <2>2. UNCHANGED vars
      BY <2>1
      DEF Next, Done, Loop, AnnounceFound, NoAnnounce, AnnounceStarved, Spawn, Succeed, Recheck,
          Handle, NothingNew, Connected, ConnectFailed, Died, Bitfield, BadBitfield, Have,
          HaveBeyond, PieceGood, WriteFailed, PieceBad, Finishes, Talks, Receiving,
          Housekeeping, Assign, Pass, KeepDone, World, Damage, WriterHangup
    <2> QED
      BY <1>1, <2>2 DEF vars, engineVars, GivesUpHonestly
  <1>2. CASE result # "nopeers"
    <2>1. AnnounceStarved("nopeers") /\ Return("nopeers")
      <3>1. PICK r \in {"nopeers", "io"} : AnnounceStarved(r)
        BY <1>2
        DEF Next, Done, vars, engineVars, Loop, AnnounceFound, NoAnnounce, Spawn, Succeed,
            Recheck, Return, Handle, NothingNew, Connected, ConnectFailed, Died, Bitfield,
            BadBitfield, Have, HaveBeyond, PieceGood, WriteFailed, PieceBad, Housekeeping,
            Assign, Pass, KeepDone, World, Damage, WriterHangup
      <3> QED
        BY <1>2, <3>1 DEF AnnounceStarved, Return
    <2>2. /\ Ids = {} /\ connecting = 0 /\ queue = {} /\ known' = known
          /\ \A a \in Addrs : thread'[a] = thread[a]
      BY <2>1 DEF AnnounceStarved, Starved, Return, Closed
    <2>3. Connecting = {}
      <3>1. IsFiniteSet(Connecting) /\ Cardinality(Connecting) = 0
        BY <2>2, AddrsAssumption, FS_Subset DEF Connecting, NetInv, CountInv
      <3> QED
        BY <3>1, FS_EmptySet
    <2>4. \A a \in Addrs : thread[a] # "open" /\ thread[a] # "connecting"
      BY <2>2, <2>3 DEF NetInv, OpenOwned, Open, Connecting
    <2>5. \A a \in Addrs : IF a \in known THEN thread[a] # "none" ELSE thread[a] = "none"
      BY <2>2 DEF NetInv, QueueInv
    <2> QED
      BY <2>2, <2>4, <2>5 DEF TypeInv, TypeOK
  <1> QED
    BY <1>1, <1>2

(* NoPeers is the answer only after every address ever heard of was tried    *)
(* and its connection is over, in whatever order they came, failed and died, *)
(* while no id was given twice.                                              *)
THEOREM NobodyLeftUntried == Spec => []GivesUpHonestly
  <1>1. Init => GivesUpHonestly
    BY DEF Init, GivesUpHonestly
  <1> QED
    BY <1>1, GivesUpNext, NetInit, NetNext, TypeInit, TypeNext, PTL DEF Spec

-----------------------------------------------------------------------------
(* How much a download can do.  PiecesLeft is what is missing now and, for   *)
(* each final check that may still fail, all the pieces and the check.       *)
Missing == Cardinality(Pieces \ ours)
PiecesLeft == (MaxRechecks + 1 - rechecks) * (Cardinality(Pieces) + 1) + Missing

(* The loop is entered again at most MaxRechecks times. *)
RechecksBounded ==
    /\ rechecks <= MaxRechecks + 1
    /\ pc # "done" => rechecks <= MaxRechecks

(* finish_piece() finds the hash right *)
PieceVerified == \E a \in Addrs : PieceGood(a)

(* Each verified piece and each failed check leaves less; no other step      *)
(* makes a difference.                                                       *)
WorkRunsDown ==
    [][/\ PieceVerified \/ Recheck => PiecesLeft' < PiecesLeft
       /\ ~(PieceVerified \/ Recheck) => PiecesLeft' = PiecesLeft]_vars

LEMMA MissingType ==
    ASSUME TypeInv
    PROVE  /\ Missing \in Nat /\ Cardinality(Pieces) \in Nat /\ Missing <= Cardinality(Pieces)
           /\ rechecks \in Nat /\ IsFiniteSet(Pieces \ ours)
  <1>1. IsFiniteSet(Pieces \ ours) /\ Missing <= Cardinality(Pieces)
    BY PiecesAssumption, FS_Subset DEF Missing
  <1>2. Missing \in Nat /\ Cardinality(Pieces) \in Nat
    BY <1>1, PiecesAssumption, FS_CardinalityType DEF Missing
  <1> QED
    BY <1>1, <1>2 DEF TypeInv, TypeOK

LEMMA RoundsType ==
    ASSUME NEW r \in Nat, NEW n \in Nat
    PROVE  r * (n + 1) \in Nat /\ (r > 0 => (r - 1) * (n + 1) + n < r * (n + 1))
  <1>1. r * (n + 1) = (r - 1) * (n + 1) + n + 1
    OBVIOUS
  <1>2. r * (n + 1) \in Nat /\ (r - 1) * (n + 1) \in Int
    OBVIOUS
  <1> QED
    BY <1>1, <1>2

(* Only a verified piece and a failed final check move the rank.             *)
LEMMA OthersLeaveRank ==
    ASSUME [Next]_vars, ~PieceVerified, ~Recheck
    PROVE  ours' = ours /\ rechecks' = rechecks
  <1>1. CASE Loop
    BY <1>1 DEF Loop, AnnounceFound, NoAnnounce, AnnounceStarved, Spawn, Succeed
  <1>2. CASE Handle
    BY <1>2 DEF PieceVerified, Handle, NothingNew, Connected, ConnectFailed, Died, Bitfield,
                BadBitfield, Have, HaveBeyond, WriteFailed, PieceBad
  <1>3. CASE Housekeeping
    BY <1>3 DEF Housekeeping, Assign, Pass, KeepDone
  <1>4. CASE World
    BY <1>4 DEF World, Damage, WriterHangup, engineVars
  <1>5. CASE Done \/ UNCHANGED vars
    BY <1>5 DEF Done, vars, engineVars
  <1> QED
    BY <1>1, <1>2, <1>3, <1>4, <1>5 DEF Next

(* The piece of a job was missing, so verifying it leaves one fewer.         *)
LEMMA VerifiedFalls ==
    ASSUME TypeInv, SafeInv, NEW a \in Addrs, PieceGood(a)
    PROVE  rechecks' = rechecks /\ pc # "done" /\ Missing' = Missing - 1
  <1> DEFINE p == peers[id_of[a]].job
  <1>1. /\ id_of[a] \in Ids /\ p # NoJob /\ pc = "recv"
        /\ ours' = ours \cup {p} /\ rechecks' = rechecks
    BY DEF PieceGood, Finishes, Talks, Receiving
  <1>2. p \in Pieces \ ours
    BY <1>1 DEF SafeInv, JobsMissing, TypeInv, TypeOK, PeerRecord
  <1> HIDE DEF p
  <1>3. Pieces \ ours' = (Pieces \ ours) \ {p}
    BY <1>1
  <1>4. IsFiniteSet(Pieces \ ours)
    BY MissingType
  <1>5. Cardinality((Pieces \ ours) \ {p}) = Cardinality(Pieces \ ours) - 1
    BY <1>2, <1>4, FS_RemoveElement
  <1> QED
    BY <1>1, <1>3, <1>5 DEF Missing

LEMMA RechecksNext ==
    TypeInv /\ SafeInv /\ RechecksBounded /\ [Next]_vars => RechecksBounded'
  <1> SUFFICES ASSUME TypeInv, SafeInv, RechecksBounded, [Next]_vars PROVE RechecksBounded'
    OBVIOUS
  <1>1. CASE Recheck
    BY <1>1, BoundsAssumption DEF Recheck, Return, RechecksBounded, TypeInv, TypeOK
  <1>2. CASE ~Recheck
    <2>1. rechecks' = rechecks
      BY <1>2, OthersLeaveRank, VerifiedFalls DEF PieceVerified
    <2>2. pc = "done" => pc' = "done"
      BY DEF Next, Done, vars, engineVars, Loop, AnnounceFound, NoAnnounce, AnnounceStarved,
             Spawn, Succeed, Recheck, Handle, NothingNew, Connected, ConnectFailed, Died,
             Bitfield, BadBitfield, Have, HaveBeyond, PieceGood, WriteFailed, PieceBad,
             Finishes, Talks, Receiving, Housekeeping, Assign, Pass, KeepDone, World, Damage,
             WriterHangup
    <2> QED
      BY <2>1, <2>2 DEF RechecksBounded
  <1> QED
    BY <1>1, <1>2

LEMMA RankFalls ==
    ASSUME TypeInv, SafeInv, RechecksBounded, TypeInv', PieceVerified \/ Recheck
    PROVE  PiecesLeft' < PiecesLeft
  <1> DEFINE n == Cardinality(Pieces)
             r == MaxRechecks + 1 - rechecks
  <1>1. /\ Missing \in Nat /\ Missing' \in Nat /\ n \in Nat /\ Missing' <= n
        /\ rechecks \in Nat
    <2>1. /\ Missing \in Nat /\ n \in Nat /\ rechecks \in Nat
      BY MissingType
    <2>2. Missing' \in Nat /\ Missing' <= n
      <3>1. IsFiniteSet(Pieces \ ours') /\ Cardinality(Pieces \ ours') <= Cardinality(Pieces)
        BY PiecesAssumption, FS_Subset
      <3>2. Cardinality(Pieces \ ours') \in Nat
        BY <3>1, FS_CardinalityType
      <3> QED
        BY <3>1, <3>2 DEF Missing
    <2> QED
      BY <2>1, <2>2
  <1>2. r \in Nat
    BY <1>1, BoundsAssumption DEF RechecksBounded
  <1>3. PiecesLeft = r * (n + 1) + Missing
    BY DEF PiecesLeft
  <1>4. CASE PieceVerified
    <2>1. rechecks' = rechecks /\ Missing' = Missing - 1
      BY <1>4, VerifiedFalls DEF PieceVerified
    <2>2. PiecesLeft' = r * (n + 1) + Missing'
      BY <2>1 DEF PiecesLeft
    <2> HIDE DEF r, n
    <2>3. r * (n + 1) \in Nat
      BY <1>1, <1>2, RoundsType
    <2> QED
      BY <1>1, <1>3, <2>1, <2>2, <2>3
  <1>5. CASE Recheck
    <2>1. rechecks' = rechecks + 1 /\ rechecks <= MaxRechecks
      BY <1>5 DEF Recheck, RechecksBounded
    <2>2. r > 0 /\ MaxRechecks + 1 - rechecks' = r - 1
      BY <1>1, <2>1, BoundsAssumption
    <2>3. PiecesLeft' = (r - 1) * (n + 1) + Missing'
      BY <2>2 DEF PiecesLeft
    <2> HIDE DEF r, n
    <2>4. (r - 1) * (n + 1) + n < r * (n + 1) /\ r * (n + 1) \in Nat
      BY <1>1, <1>2, <2>2, RoundsType
    <2>5. (r - 1) * (n + 1) \in Nat
      BY <1>1, <1>2, <2>2, RoundsType
    <2> QED
      BY <1>1, <1>3, <2>3, <2>4, <2>5
  <1> QED
    BY <1>4, <1>5

(* However often connections break, hashes fail and the files are damaged, a *)
(* download fails at most MaxRechecks + 1 final checks, and verifies at most *)
(* (MaxRechecks + 2) * (|Pieces| + 1) pieces: each verified piece and each   *)
(* failed check lowers a natural number that no other step moves.            *)
THEOREM WorkIsBounded == Spec => [](RechecksBounded /\ PiecesLeft \in Nat) /\ WorkRunsDown
  <1>1. Init => RechecksBounded
    BY BoundsAssumption DEF Init, RechecksBounded
  <1>2. TypeInv /\ RechecksBounded => PiecesLeft \in Nat
    <2> SUFFICES ASSUME TypeInv, RechecksBounded PROVE PiecesLeft \in Nat
      OBVIOUS
    <2> DEFINE n == Cardinality(Pieces)
               r == MaxRechecks + 1 - rechecks
    <2>1. Missing \in Nat /\ n \in Nat /\ rechecks \in Nat
      BY MissingType
    <2>2. r \in Nat
      BY <2>1, BoundsAssumption DEF RechecksBounded
    <2>3. PiecesLeft = r * (n + 1) + Missing
      BY DEF PiecesLeft
    <2> HIDE DEF r, n
    <2> QED
      BY <2>1, <2>2, <2>3, RoundsType
  <1>3. TypeInv /\ SafeInv /\ RechecksBounded /\ TypeInv' /\ [Next]_vars
        => [/\ PieceVerified \/ Recheck => PiecesLeft' < PiecesLeft
            /\ ~(PieceVerified \/ Recheck) => PiecesLeft' = PiecesLeft]_vars
    BY RankFalls, OthersLeaveRank DEF PiecesLeft, Missing
  <1>4. Spec => []RechecksBounded
    BY <1>1, RechecksNext, SafeAlways, PTL DEF Spec
  <1> QED
    BY <1>2, <1>3, <1>4, SafeAlways, PTL DEF Spec, WorkRunsDown
=============================================================================
