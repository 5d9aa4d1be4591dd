----------------------------- MODULE ChokingProofs -----------------------------
(* Theorems about Choking for every set of peers, every number of slots and  *)
(* every rate.                                                               *)
EXTENDS Choking, FiniteSetTheorems, TLAPS

-----------------------------------------------------------------------------
(* Types.  The order of the map and the rotor do not matter for what follows. *)
TypeInv == Connected \subseteq Ids /\ peers \in [Connected -> PeerRecord]

LEMMA RecordType ==
  ASSUME NEW r \in PeerRecord
  PROVE  /\ \A b \in BOOLEAN : [r EXCEPT !.interested = b] \in PeerRecord
         /\ \A b \in BOOLEAN : [r EXCEPT !.choking = b] \in PeerRecord
         /\ \A b \in BOOLEAN : [r EXCEPT !.deaf = b] \in PeerRecord
         /\ \A n \in 0 .. MaxRate : [r EXCEPT !.rate = n] \in PeerRecord
  BY DEF PeerRecord

LEMMA RechokedType ==
  ASSUME TypeInv, NEW i \in Connected
  PROVE  /\ Rechoked(i) \in PeerRecord
         /\ Rechoked(i).deaf = peers[i].deaf
         /\ ~peers[i].deaf => (Rechoked(i).choking <=> i \notin Unchoked)
<1>1. peers[i] \in PeerRecord
  BY DEF TypeInv
<1>2. (i \notin Unchoked) \in BOOLEAN
  OBVIOUS
<1>3. CASE peers[i].deaf
  BY <1>1, <1>3 DEF Rechoked
<1>4. CASE ~peers[i].deaf
  <2>1. Rechoked(i) = [peers[i] EXCEPT !.choking = i \notin Unchoked]
    BY <1>4 DEF Rechoked
  <2>2. Rechoked(i) \in PeerRecord
    BY <1>1, <1>2, <2>1, RecordType
  <2>3. Rechoked(i).deaf = peers[i].deaf /\ Rechoked(i).choking = (i \notin Unchoked)
    BY <1>1, <2>1 DEF PeerRecord
  <2>4. QED
    BY <2>2, <2>3
<1>5. QED
  BY <1>3, <1>4

(* What a step of the world does to the map: nobody starts to hear or is     *)
(* unchoked, and a peer that joins is choked.                                *)
Served(S, f) == {i \in S : ~f[i].deaf /\ ~f[i].choking}

LEMMA WorldStep ==
  ASSUME TypeInv, World
  PROVE  TypeInv' /\ Served(Connected, peers)' \subseteq Served(Connected, peers)
<1> PICK i \in Ids :
      Joins(i) \/ Leaves(i) \/ TurnsInterested(i) \/ Gives(i) \/ WriterDies(i)
  BY DEF World
<1>1. CASE Joins(i)
  <2>1. peers' = [j \in Connected \cup {i} |-> IF j = i THEN NewPeer ELSE peers[j]]
    BY <1>1 DEF Joins
  <2>2. NewPeer \in PeerRecord /\ NewPeer.choking
    BY SlotsAssumption DEF NewPeer, PeerRecord
  <2>3. Connected' = Connected \cup {i}
    BY <2>1 DEF Connected
  <2>4. QED
    BY <2>1, <2>2, <2>3 DEF TypeInv, Served
<1>2. CASE Leaves(i)
  <2>1. peers' = [j \in Connected \ {i} |-> peers[j]] /\ Connected' = Connected \ {i}
    BY <1>2 DEF Leaves, Connected
  <2>2. QED
    BY <2>1 DEF TypeInv, Served
<1>3. ASSUME i \in Connected, NEW r \in PeerRecord, Changes(i, r),
             ~r.deaf /\ ~r.choking => ~peers[i].deaf /\ ~peers[i].choking
      PROVE  TypeInv' /\ Served(Connected, peers)' \subseteq Served(Connected, peers)
  <2>1. peers' = [peers EXCEPT ![i] = r] /\ Connected' = Connected
    BY <1>3 DEF Changes, Connected
  <2>2. QED
    BY <1>3, <2>1 DEF TypeInv, Served
<1>4. CASE TurnsInterested(i)
  <2> DEFINE r == [peers[i] EXCEPT !.interested = ~@]
  <2>1. i \in Connected /\ Changes(i, r) /\ peers[i] \in PeerRecord
    BY <1>4 DEF TurnsInterested, TypeInv
  <2>2. r \in PeerRecord
    BY <2>1 DEF PeerRecord
  <2>3. r.deaf = peers[i].deaf /\ r.choking = peers[i].choking
    BY <2>1 DEF PeerRecord
  <2> HIDE DEF r
  <2>4. QED
    BY <1>3, <2>1, <2>2, <2>3
<1>5. CASE Gives(i)
  <2> DEFINE r == [peers[i] EXCEPT !.rate = @ + 1]
  <2>1. /\ i \in Connected /\ Changes(i, r) /\ peers[i] \in PeerRecord
        /\ peers[i].rate < MaxRate
    BY <1>5 DEF Gives, TypeInv
  <2>2. peers[i].rate + 1 \in 0 .. MaxRate
    BY <2>1, SlotsAssumption DEF PeerRecord
  <2>3. r \in PeerRecord
    BY <2>1, <2>2, RecordType
  <2>4. r.deaf = peers[i].deaf /\ r.choking = peers[i].choking
    BY <2>1 DEF PeerRecord
  <2> HIDE DEF r
  <2>5. QED
    BY <1>3, <2>1, <2>3, <2>4
<1>6. CASE WriterDies(i)
  <2> DEFINE r == [peers[i] EXCEPT !.deaf = TRUE]
  <2>1. i \in Connected /\ Changes(i, r) /\ peers[i] \in PeerRecord
    BY <1>6 DEF WriterDies, TypeInv
  <2>2. r \in PeerRecord /\ r.deaf
    BY <2>1, RecordType DEF PeerRecord
  <2> HIDE DEF r
  <2>3. QED
    BY <1>3, <2>1, <2>2
<1>7. QED
  BY <1>1, <1>2, <1>4, <1>5, <1>6

-----------------------------------------------------------------------------
(* Ranks.  sort_by() puts interested peers in a strict total order, so their *)
(* ranks are 0, 1, ... without gaps, and the RegularSlots first of them are   *)
(* as many as there are slots, or all.                                       *)
Before(i) == {j \in Interested : Precedes(j, i)}
Rank(i) == Cardinality(Before(i))

LEMMA InterestedFinite ==
  ASSUME TypeInv
  PROVE  /\ Interested \subseteq Connected
         /\ \A S : S \subseteq Interested => IsFiniteSet(S) /\ Cardinality(S) \in Nat
         /\ \A i \in Interested : i \in Nat /\ peers[i].rate \in Nat
<1>1. Interested \subseteq Connected /\ IsFiniteSet(Interested)
  BY IdsAssumption, FS_Subset DEF TypeInv, Interested
<1>2. ASSUME NEW S, S \subseteq Interested PROVE IsFiniteSet(S) /\ Cardinality(S) \in Nat
  BY <1>1, <1>2, FS_Subset, FS_CardinalityType
<1>3. ASSUME NEW i \in Interested PROVE i \in Nat /\ peers[i].rate \in Nat
  BY <1>1, IdsAssumption, SlotsAssumption DEF TypeInv, PeerRecord
<1>4. QED
  BY <1>1, <1>2, <1>3

LEMMA OrderIsTotal ==
  ASSUME TypeInv, NEW i \in Interested, NEW j \in Interested
  PROVE  /\ ~Precedes(i, i)
         /\ i # j => Precedes(i, j) \/ Precedes(j, i)
         /\ \A k \in Interested : Precedes(i, j) /\ Precedes(j, k) => Precedes(i, k)
  BY InterestedFinite DEF Precedes

LEMMA RankGrows ==
  ASSUME TypeInv, NEW i \in Interested, NEW j \in Interested, Precedes(i, j)
  PROVE  Rank(i) < Rank(j)
<1>1. Before(i) \subseteq Before(j)
  BY OrderIsTotal DEF Before
<1>2. i \in Before(j) /\ i \notin Before(i)
  BY OrderIsTotal DEF Before
<1>3. IsFiniteSet(Before(j)) /\ Rank(i) \in Nat /\ Rank(j) \in Nat
  BY InterestedFinite DEF Before, Rank
<1>4. Rank(i) <= Rank(j) /\ Rank(i) # Rank(j)
  BY <1>1, <1>2, <1>3, FS_Subset DEF Rank
<1>5. QED
  BY <1>3, <1>4

LEMMA RankBounds ==
  ASSUME TypeInv, NEW i \in Interested
  PROVE  Rank(i) \in 0 .. Cardinality(Interested) - 1
<1>1. Before(i) \subseteq Interested /\ i \notin Before(i)
  BY OrderIsTotal DEF Before
<1>2. /\ IsFiniteSet(Interested) /\ Cardinality(Interested) \in Nat
      /\ Rank(i) \in Nat
  BY <1>1, InterestedFinite DEF Rank
<1>3. Rank(i) <= Cardinality(Interested) /\ Rank(i) # Cardinality(Interested)
  BY <1>1, <1>2, FS_Subset DEF Rank
<1>4. QED
  BY <1>2, <1>3

LEMMA RankIsBijection ==
  ASSUME TypeInv
  PROVE  /\ \A i, j \in Interested : Rank(i) = Rank(j) => i = j
         /\ \A n \in 0 .. Cardinality(Interested) - 1 : \E i \in Interested : Rank(i) = n
<1> DEFINE T == 0 .. Cardinality(Interested) - 1
           f == [i \in Interested |-> Rank(i)]
<1>1. \A i, j \in Interested : Rank(i) = Rank(j) => i = j
  <2> SUFFICES ASSUME NEW i \in Interested, NEW j \in Interested, i # j
               PROVE  Rank(i) # Rank(j)
    OBVIOUS
  <2>1. Rank(i) \in Nat /\ Rank(j) \in Nat
    BY RankBounds
  <2>2. QED
    BY <2>1, OrderIsTotal, RankGrows
<1>2. f \in [Interested -> T]
  BY RankBounds
<1>3. f \in Injection(Interested, T)
  BY <1>1, <1>2 DEF Injection, IsInjective
<1>4. /\ IsFiniteSet(Interested) /\ Cardinality(Interested) \in Nat
      /\ IsFiniteSet(T) /\ Cardinality(T) = Cardinality(Interested)
  BY InterestedFinite, FS_Interval
<1>5. f \in Surjection(Interested, T)
  BY <1>3, <1>4, FS_Injection
<1>6. \A n \in T : \E i \in Interested : f[i] = n
  BY <1>5 DEF Surjection
<1>7. QED
  BY <1>1, <1>6

(* select_unchoked() takes no more regular peers than there are slots ...    *)
LEMMA RegularIsFew ==
  ASSUME TypeInv
  PROVE  IsFiniteSet(Regular) /\ Cardinality(Regular) <= RegularSlots
<1> DEFINE T == 0 .. RegularSlots - 1
           f == [i \in Regular |-> Rank(i)]
<1>1. Regular \subseteq Interested
  BY DEF Regular
<1>2. \A i \in Regular : Rank(i) \in T
  BY <1>1, RankBounds, SlotsAssumption DEF Regular, Rank, Before
<1>3. f \in Injection(Regular, T)
  BY <1>1, <1>2, RankIsBijection DEF Injection, IsInjective
<1>4. IsFiniteSet(T) /\ Cardinality(T) = RegularSlots
  BY SlotsAssumption, FS_Interval
<1>5. QED
  BY <1>3, <1>4, FS_Injection

(* ... and as many, when somebody is left out.                               *)
LEMMA RegularIsFull ==
  ASSUME TypeInv, NEW i \in Interested \ Regular
  PROVE  /\ Cardinality(Regular) >= RegularSlots
         /\ \A j \in Regular : j # i /\ Precedes(j, i)
<1> DEFINE T == 0 .. RegularSlots - 1
           f == [j \in Regular |-> Rank(j)]
<1>1. Regular \subseteq Interested /\ IsFiniteSet(Regular)
  BY RegularIsFew DEF Regular
<1>2. \A j \in Interested : j \in Regular <=> Rank(j) < RegularSlots
  BY DEF Regular, Rank, Before
<1>3. Rank(i) >= RegularSlots /\ Rank(i) \in 0 .. Cardinality(Interested) - 1
      /\ Cardinality(Interested) \in Nat
  BY <1>2, RankBounds, InterestedFinite, SlotsAssumption
<1>4. \A n \in T : \E j \in Regular : Rank(j) = n
  <2> SUFFICES ASSUME NEW n \in T PROVE \E j \in Regular : Rank(j) = n
    OBVIOUS
  <2>1. n \in 0 .. Cardinality(Interested) - 1 /\ n < RegularSlots
    BY <1>3, SlotsAssumption
  <2>2. PICK j \in Interested : Rank(j) = n
    BY <2>1, RankIsBijection
  <2>3. QED
    BY <1>2, <2>1, <2>2
<1>5. \A j \in Regular : Rank(j) \in T
  BY <1>1, <1>2, RankBounds, SlotsAssumption
<1>6. f \in Surjection(Regular, T)
  BY <1>4, <1>5 DEF Surjection
<1>7. Cardinality(T) = RegularSlots
  BY SlotsAssumption, FS_Interval
<1>8. Cardinality(T) <= Cardinality(Regular)
  BY <1>1, <1>6, FS_Surjection
<1>9. ASSUME NEW j \in Regular PROVE j # i /\ Precedes(j, i)
  <2>1. Rank(j) < Rank(i) /\ Rank(j) \in Nat /\ Rank(i) \in Nat
    BY <1>1, <1>2, <1>3, RankBounds, SlotsAssumption
  <2>2. ~Precedes(i, j) /\ j # i
    BY <1>1, <2>1, RankGrows
  <2>3. QED
    BY <1>1, <2>2, OrderIsTotal
<1>10. Cardinality(Regular) \in Nat
  BY <1>1, FS_CardinalityType
<1>11. QED
  BY <1>7, <1>8, <1>9, <1>10, SlotsAssumption

-----------------------------------------------------------------------------
(* Slots.                                                                    *)

LEMMA RebalanceStep ==
  ASSUME TypeInv, Rebalance
  PROVE  TypeInv' /\ UploadSlots'
<1>1. peers' = [i \in Connected |-> Rechoked(i)] /\ Connected' = Connected
  BY DEF Rebalance, Connected
<1>2. TypeInv'
  BY <1>1, RechokedType DEF TypeInv
<1>3. \A i \in Connected' : ~peers'[i].deaf /\ ~peers'[i].choking => i \in Unchoked
  BY <1>1, RechokedType
<1>4. /\ IsFiniteSet(Unchoked) /\ Cardinality(Unchoked) \in Nat
      /\ Cardinality(Unchoked) <= RegularSlots + 1
  <2>1. IsFiniteSet(Regular) /\ Cardinality(Regular) <= RegularSlots
        /\ Cardinality(Regular) \in Nat
    BY RegularIsFew, FS_CardinalityType
  <2>2. /\ IsFiniteSet(Regular \cup {Optimistic})
        /\ Cardinality(Regular \cup {Optimistic}) <= Cardinality(Regular) + 1
        /\ Cardinality(Regular \cup {Optimistic}) \in Nat
    <3>1. /\ IsFiniteSet(Regular \cup {Optimistic})
          /\ Cardinality(Regular \cup {Optimistic}) =
                IF Optimistic \in Regular THEN Cardinality(Regular)
                                          ELSE Cardinality(Regular) + 1
      BY <2>1, FS_AddElement
    <3>2. QED
      BY <2>1, <3>1
  <2>3. Unchoked \subseteq Regular \cup {Optimistic}
    BY DEF Unchoked
  <2>4. /\ IsFiniteSet(Unchoked)
        /\ Cardinality(Unchoked) <= Cardinality(Regular \cup {Optimistic})
    BY <2>2, <2>3, FS_Subset
  <2>5. QED
    BY <2>1, <2>2, <2>4, FS_CardinalityType, SlotsAssumption
<1> DEFINE S == {i \in Connected : ~peers[i].deaf /\ ~peers[i].choking}
<1>5. S' \subseteq Unchoked
  BY <1>3
<1>6. Cardinality(S') <= Cardinality(Unchoked) /\ IsFiniteSet(S')
  BY <1>4, <1>5, FS_Subset
<1>7. Cardinality(S') <= RegularSlots + 1
  BY <1>4, <1>6, FS_CardinalityType, SlotsAssumption
<1>8. QED
  BY <1>2, <1>7 DEF UploadSlots

LEMMA SlotsNext == TypeInv /\ UploadSlots /\ [Next]_vars => TypeInv' /\ UploadSlots'
<1> SUFFICES ASSUME TypeInv, UploadSlots, [Next]_vars PROVE TypeInv' /\ UploadSlots'
  OBVIOUS
<1>1. CASE Rebalance
  BY <1>1, RebalanceStep
<1>2. CASE World
  <2>1. TypeInv' /\ Served(Connected, peers)' \subseteq Served(Connected, peers)
    BY <1>2, WorldStep
  <2>2. /\ Served(Connected, peers) \subseteq Connected /\ IsFiniteSet(Connected)
    BY IdsAssumption, FS_Subset DEF Served, TypeInv
  <2>3. IsFiniteSet(Served(Connected, peers))
    BY <2>2, FS_Subset
  <2>4. /\ Cardinality(Served(Connected, peers)') <= Cardinality(Served(Connected, peers))
        /\ IsFiniteSet(Served(Connected, peers)')
    BY <2>1, <2>3, FS_Subset
  <2>5. /\ Cardinality(Served(Connected, peers)) \in Nat
        /\ Cardinality(Served(Connected, peers)') \in Nat
    BY <2>3, <2>4, FS_CardinalityType
  <2>6. Cardinality(Served(Connected, peers)) <= RegularSlots + 1
    BY DEF UploadSlots, Served
  <2>7. Cardinality(Served(Connected, peers)') <= RegularSlots + 1
    BY <2>4, <2>5, <2>6, SlotsAssumption
  <2>8. QED
    BY <2>1, <2>7 DEF UploadSlots, Served
<1>3. CASE Tick \/ UNCHANGED vars
  BY <1>3 DEF Tick, vars, TypeInv, UploadSlots, Connected
<1>4. QED
  BY <1>1, <1>2, <1>3 DEF Next

LEMMA SlotsInit == Init => TypeInv /\ UploadSlots
<1> SUFFICES ASSUME Init PROVE TypeInv /\ UploadSlots
  OBVIOUS
<1>1. Connected = {} /\ peers \in [Connected -> PeerRecord]
  BY DEF Init, Connected
<1>2. Cardinality({}) = 0
  BY FS_EmptySet
<1>3. {i \in Connected : ~peers[i].deaf /\ ~peers[i].choking} = {}
  BY <1>1
<1>4. QED
  BY <1>1, <1>2, <1>3, SlotsAssumption DEF TypeInv, UploadSlots

(* At most REGULAR_UNCHOKE_SLOTS + 1 peers that hear us may download at any  *)
(* time, for any number of peers and slots.                                  *)
THEOREM SlotsAreBounded == Spec => []UploadSlots
  BY SlotsInit, SlotsNext, PTL DEF Spec

(* A peer that wants data, hears us and is choked is beaten for every        *)
(* regular slot by one that wants data too and gave as much: ties, deaf      *)
(* peers and the optimistic one included.                                    *)
LEMMA RebalanceIsFair ==
  ASSUME TypeInv, Rebalance, NEW i \in Interested, ~peers[i].deaf, peers'[i].choking
  PROVE  Cardinality({j \in Interested \ {i} :
                        /\ peers[j].rate >= peers[i].rate
                        /\ peers[j].deaf \/ ~peers'[j].choking}) >= RegularSlots
<1> DEFINE Better == {j \in Interested \ {i} :
                        /\ peers[j].rate >= peers[i].rate
                        /\ peers[j].deaf \/ ~peers'[j].choking}
<1>1. peers' = [j \in Connected |-> Rechoked(j)] /\ Interested \subseteq Connected
  BY InterestedFinite DEF Rebalance
<1>2. i \notin Unchoked
  BY <1>1, RechokedType
<1>3. i \notin Regular
  BY <1>2 DEF Unchoked
<1>4. /\ Cardinality(Regular) >= RegularSlots
      /\ \A j \in Regular : j # i /\ Precedes(j, i)
  BY <1>3, RegularIsFull
<1>5. ASSUME NEW j \in Regular PROVE j \in Better
  <2>1. j \in Interested /\ j # i /\ Precedes(j, i)
    BY <1>4 DEF Regular
  <2>2. peers[j].rate >= peers[i].rate
    BY <2>1, InterestedFinite DEF Precedes
  <2>3. j \in Unchoked /\ j \in Connected
    BY <1>1, <2>1 DEF Unchoked
  <2>4. peers[j].deaf \/ ~peers'[j].choking
    BY <1>1, <2>3, RechokedType
  <2>5. QED
    BY <2>1, <2>2, <2>4
<1>6. IsFiniteSet(Better) /\ Cardinality(Better) \in Nat
  <2>1. Better \subseteq Interested
    OBVIOUS
  <2>2. QED
    BY <2>1, InterestedFinite
<1> HIDE DEF Better
<1>7. Cardinality(Regular) <= Cardinality(Better) /\ Cardinality(Regular) \in Nat
  <2>1. Regular \subseteq Better
    BY <1>5
  <2>2. IsFiniteSet(Regular)
    BY RegularIsFew
  <2>3. QED
    BY <1>6, <2>1, <2>2, FS_Subset, FS_CardinalityType
<1>8. Cardinality(Better) >= RegularSlots
  BY <1>4, <1>6, <1>7, SlotsAssumption
<1>9. QED
  BY <1>8 DEF Better

THEOREM NoSlotWasted == Spec => SlotsEarned
<1>1. TypeInv /\ [Next]_vars =>
        [Rebalance =>
            \A i \in Interested : ~peers[i].deaf /\ peers'[i].choking =>
                Cardinality({j \in Interested \ {i} :
                                /\ peers[j].rate >= peers[i].rate
                                /\ peers[j].deaf \/ ~peers'[j].choking}) >= RegularSlots]_vars
  BY RebalanceIsFair
<1>2. Init => TypeInv /\ UploadSlots
  BY SlotsInit
<1>3. QED
  BY <1>1, <1>2, SlotsNext, PTL DEF Spec, SlotsEarned
=============================================================================
