---------------------------- MODULE DhtLookupProofs ----------------------------
(* Theorems about DhtLookup for every number of nodes, entries, rounds and   *)
(* copies, whatever the nodes name and the network does to the datagrams.    *)
EXTENDS DhtLookup, FiniteSetTheorems, TLAPS

-----------------------------------------------------------------------------
(* Typing.                                                                   *)
Datagrams == [from : Nodes \cup {Stranger}, txid : Nat]

TypeInv ==
    /\ pc \in {"top", "query", "receive", "done"}
    /\ rounds \in Nat
    /\ frontier \in Lists /\ batch \in Lists
    /\ queried \subseteq Nodes /\ queries \in [Nodes -> Nat]
    /\ peers \subseteq PeerAddrs
    /\ asked \in Entries \cup {NoEntry}
    /\ pc = "receive" <=> asked # NoEntry
    /\ pc \in {"top", "done"} => Support(batch) = {}
    /\ received \in Nat /\ strays \in 0 .. Attempts
    /\ asked = NoEntry => received = 0
    /\ buffer \in Seq(Datagrams) /\ pending \subseteq Datagrams

LEMMA AddedType ==
  ASSUME NEW f \in Lists, NEW g \in Lists
  PROVE  Added(f, g) \in Lists /\ Support(Added(f, g)) = Support(f) \cup Support(g)
  BY LimitsAssumption DEF Lists, Added, AtMost, Support

LEMMA UnqueriedType ==
  ASSUME NEW f \in Lists
  PROVE  /\ Unqueried(f) \in Lists
         /\ Support(Unqueried(f)) = {e \in Support(f) : e.addr \notin queried}
  BY LimitsAssumption DEF Lists, Unqueried, Support

LEMMA NoneSupported == NoEntries \in Lists /\ Support(NoEntries) = {}
  BY LimitsAssumption DEF NoEntries, Lists, Support

LEMMA EligibleType ==
  ASSUME TypeInv
  PROVE  /\ Eligible \in Lists
         /\ \A e \in Entries : Eligible[e] <= frontier[e]
         /\ \A e \in Entries : Eligible[e] > 0 => e.addr \notin queried
         /\ \A e \in Support(frontier) : e.addr \notin queried => e \in Support(Eligible)
  BY LimitsAssumption DEF TypeInv, Lists, Eligible, Unqueried, Support

LEMMA TailForm ==
  ASSUME NEW S, NEW s \in Seq(S), s # <<>>
  PROVE  /\ Tail(s) \in Seq(S) /\ Head(s) = s[1] /\ Head(s) \in S
         /\ Len(s) \in Nat /\ Len(s) >= 1 /\ Len(Tail(s)) = Len(s) - 1
         /\ \A k \in 1 .. Len(Tail(s)) : Tail(s)[k] = s[k + 1] /\ k + 1 \in 1 .. Len(s)
  OBVIOUS

LEMMA TypeInit == Init => TypeInv
<1> SUFFICES ASSUME Init PROVE TypeInv
  OBVIOUS
<1>1. frontier \in Lists /\ batch \in Lists /\ Support(batch) = {}
  BY NoneSupported DEF Init
<1>2. QED
  BY <1>1, LimitsAssumption, EntriesAssumption DEF Init, TypeInv

LEMMA PeersCount == TypeInv => Cardinality(peers) \in Nat
  BY EntriesAssumption, FS_Subset, FS_CardinalityType DEF TypeInv

LEMMA AnsweredType ==
  ASSUME TypeInv, pc = "receive", Answered, buffer' \in Seq(Datagrams)
  PROVE  /\ pc' \in {"top", "query"} /\ (pc' = "top" => Support(batch') = {})
         /\ asked' = NoEntry /\ received' = 0 /\ batch' \in Lists /\ rounds' \in Nat
         /\ queried' \subseteq Nodes /\ queries' \in [Nodes -> Nat]
         /\ strays' \in 0 .. Attempts /\ pending' \subseteq Datagrams
  BY DEF TypeInv, Answered

LEMMA FailsType ==
  ASSUME TypeInv, pc = "receive", Fails, buffer' \in Seq(Datagrams)
  PROVE  TypeInv'
<1>1. Answered /\ frontier' = frontier /\ peers' = peers
  BY DEF Fails
<1>2. QED
  BY <1>1, AnsweredType DEF TypeInv

LEMMA ArrivesType ==
  ASSUME TypeInv, NEW q \in Datagrams, Arrives(q), pending' \subseteq pending
  PROVE  TypeInv'
<1>1. buffer' \in Seq(Datagrams)
  BY DEF Arrives, TypeInv
<1>2. strays' \in 0 .. Attempts
  BY LimitsAssumption DEF Arrives, TypeInv, AtMost
<1>3. QED
  BY <1>1, <1>2 DEF Arrives, TypeInv, lookupVars

LEMMA TypeNext == TypeInv /\ [Next]_vars => TypeInv'
<1> SUFFICES ASSUME TypeInv, [Next]_vars PROVE TypeInv'
  OBVIOUS
<1>1. CASE Finish
  BY <1>1 DEF Finish, TypeInv, roundVars
<1>2. CASE StartRound
  <2>1. PICK b \in Batches : batch' = b /\ frontier' = LeftOut(b)
    BY <1>2 DEF StartRound
  <2>2. b \in Lists /\ LeftOut(b) \in Lists
    BY <2>1, LimitsAssumption DEF Batches, Lists, LeftOut, TypeInv
  <2>3. QED
    BY <1>2, <2>1, <2>2 DEF StartRound, TypeInv, roundVars
<1>3. ASSUME NEW e \in Entries, Asks(e) PROVE TypeInv'
  <2>1. batch' \in Lists
    BY <1>3, LimitsAssumption DEF Asks, Closest, TypeInv, Lists
  <2>2. e.addr \in Nodes /\ e # NoEntry
    BY EntriesAssumption
  <2>3. queried' \subseteq Nodes /\ queries' \in [Nodes -> Nat] /\ queries'[e.addr] \in Nat
    BY <1>3, <2>2 DEF Asks, TypeInv
  <2>4. pending' \subseteq Datagrams
    BY <1>3, <2>2, <2>3 DEF Asks, Query, Datagrams, TypeInv
  <2>5. QED
    BY <1>3, <2>1, <2>2, <2>3, <2>4 DEF Asks, TypeInv
<1>4. CASE Skips
  <2>1. buffer' \in Seq(Datagrams)
    BY <1>4, TailForm DEF Skips, TypeInv
  <2>2. CASE AttemptsLeft
    <3>1. received' = received + 1 /\ UNCHANGED <<pc, lookupVars, asked, pending, strays>>
      BY <1>4, <2>2 DEF Skips
    <3>2. asked # NoEntry
      BY <1>4 DEF Skips, TypeInv
    <3>3. QED
      BY <2>1, <3>1, <3>2 DEF TypeInv, lookupVars
  <2>3. CASE ~AttemptsLeft
    BY <1>4, <2>1, <2>3, FailsType DEF Skips
  <2>4. QED
    BY <2>2, <2>3
<1>5. CASE Rejects
  <2>1. buffer' \in Seq(Datagrams)
    BY <1>5, TailForm DEF Rejects, TypeInv
  <2>2. QED
    BY <1>5, <2>1, FailsType DEF Rejects
<1>6. ASSUME NEW found \in SUBSET PeerAddrs, NEW nodes \in Replied, Replies(found, nodes)
      PROVE  TypeInv'
  <2>1. buffer' \in Seq(Datagrams) /\ Answered /\ pc = "receive"
    BY <1>6, TailForm DEF Replies, TypeInv
  <2>2. frontier' \in Lists /\ peers' \subseteq PeerAddrs
    BY <1>6, AddedType, UnqueriedType DEF Replies, Replied, TypeInv
  <2>3. QED
    BY <2>1, <2>2, AnsweredType DEF TypeInv
<1>7. CASE StrangerSends
  BY <1>7, ArrivesType DEF StrangerSends, Query, Datagrams
<1>8. ASSUME NEW q \in pending, NodeAnswers(q) PROVE TypeInv'
  BY <1>8, ArrivesType DEF NodeAnswers, TypeInv
<1>9. ASSUME NEW q \in pending, Lost(q) PROVE TypeInv'
  BY <1>9 DEF Lost, TypeInv, lookupVars
<1>10. CASE UNCHANGED vars
  BY <1>10 DEF vars, lookupVars, roundVars, TypeInv
<1>11. QED
  BY <1>1, <1>2, <1>3, <1>4, <1>5, <1>6, <1>7, <1>8, <1>9, <1>10
  DEF Next, Lookup, World, Done
-----------------------------------------------------------------------------
(* Every address ever named was queried or is still listed, in the frontier  *)
(* or in the batch; a lookup that has ended keeps what it ended with.        *)
HeardInv ==
    /\ named \subseteq queried \cup AddrsOf(frontier) \cup AddrsOf(batch)
    /\ NobodyForgotten

LEMMA HeardInit == Init => HeardInv
  BY DEF Init, HeardInv, AddrsOf, NobodyForgotten

(* Queries that fail change nothing of it.                                   *)
LEMMA FailsHeard ==
  ASSUME HeardInv, pc = "receive", Fails
  PROVE  HeardInv'
  BY DEF HeardInv, Fails, Answered, AddrsOf, Support, NobodyForgotten

LEMMA HeardNext == TypeInv /\ HeardInv /\ [Next]_vars => HeardInv'
<1> SUFFICES ASSUME TypeInv, HeardInv, [Next]_vars PROVE HeardInv'
  OBVIOUS
<1>1. CASE Finish
  <2>1. /\ UNCHANGED <<frontier, batch, queried, named, peers>> /\ pc' = "done"
        /\ Support(batch) = {}
    BY <1>1 DEF Finish, TypeInv
  <2>2. ASSUME ~(Cardinality(peers) >= Want), ~(rounds' >= MaxRounds) PROVE named \subseteq queried
    <3>1. ~(rounds >= MaxRounds)
      BY <1>1, <2>2, LimitsAssumption DEF Finish, TypeInv
    <3>2. Support(frontier) = {} \/ Support(Eligible) = {}
      BY <1>1, <2>2, <3>1 DEF Finish, Over
    <3>3. AddrsOf(frontier) \subseteq queried
      BY <3>2, EligibleType DEF AddrsOf
    <3>4. QED
      BY <2>1, <3>3 DEF HeardInv, AddrsOf
  <2>3. NobodyForgotten'
    <3>1. CASE Cardinality(peers) >= Want \/ rounds' >= MaxRounds
      <4>1. ~(Cardinality(peers') < Want /\ rounds' < MaxRounds)
        <5>1. rounds' \in Nat
          BY <1>1, TypeNext DEF TypeInv
        <5>2. CASE Cardinality(peers) >= Want
          BY <1>1, <2>1, <5>2, LimitsAssumption, PeersCount
        <5>3. CASE rounds' >= MaxRounds
          BY <5>1, <5>3, LimitsAssumption
        <5>4. QED
          BY <3>1, <5>2, <5>3
      <4>2. QED
        BY <4>1 DEF NobodyForgotten
    <3>2. CASE ~(Cardinality(peers) >= Want) /\ ~(rounds' >= MaxRounds)
      BY <2>1, <2>2, <3>2 DEF NobodyForgotten
    <3>3. QED
      BY <3>1, <3>2
  <2>4. QED
    BY <2>1, <2>3 DEF HeardInv, AddrsOf, Support
<1>2. CASE StartRound
  <2>1. PICK b \in Batches : batch' = b /\ frontier' = LeftOut(b)
    BY <1>2 DEF StartRound
  <2>2. ASSUME NEW e \in Support(frontier) PROVE e.addr \in AddrsOf(frontier') \cup AddrsOf(batch')
    BY <2>1, <2>2 DEF AddrsOf, Support, LeftOut
  <2>3. AddrsOf(batch) = {} /\ UNCHANGED <<named, queried>> /\ pc' # "done"
    BY <1>2 DEF StartRound, TypeInv, AddrsOf
  <2>4. named' \subseteq queried' \cup AddrsOf(frontier') \cup AddrsOf(batch')
    BY <2>2, <2>3 DEF HeardInv, AddrsOf
  <2>5. QED
    BY <2>3, <2>4 DEF HeardInv, NobodyForgotten, AddrsOf, Support
<1>3. ASSUME NEW e \in Entries, Asks(e) PROVE HeardInv'
  <2>1. /\ UNCHANGED <<named, frontier>> /\ pc' # "done" /\ queried' = queried \cup {e.addr}
        /\ batch' = [batch EXCEPT ![e] = @ - 1]
    BY <1>3 DEF Asks
  <2>2. \A d \in Support(batch) : d = e \/ d \in Support(batch')
    BY <2>1 DEF Support, TypeInv, Lists
  <2>3. AddrsOf(batch) \subseteq AddrsOf(batch') \cup {e.addr}
    BY <2>2 DEF AddrsOf
  <2>4. AddrsOf(frontier') = AddrsOf(frontier)
    BY <2>1 DEF AddrsOf, Support
  <2>5. QED
    BY <2>1, <2>3, <2>4 DEF HeardInv, NobodyForgotten
<1>4. CASE Skips
  <2>1. CASE AttemptsLeft
    BY <1>4, <2>1 DEF Skips, lookupVars, HeardInv, AddrsOf, Support, NobodyForgotten
  <2>2. CASE ~AttemptsLeft
    BY <1>4, <2>2, FailsHeard DEF Skips
  <2>3. QED
    BY <2>1, <2>2
<1>5. CASE Rejects
  BY <1>5, FailsHeard DEF Rejects
<1>6. ASSUME NEW found \in SUBSET PeerAddrs, NEW nodes \in Replied, Replies(found, nodes)
      PROVE  HeardInv'
  <2>1. /\ UNCHANGED <<batch, queried>> /\ pc' # "done"
        /\ named' = named \cup AddrsOf(nodes)
        /\ frontier' = Added(frontier, Unqueried(nodes))
    BY <1>6 DEF Replies, Answered
  <2>2. Support(frontier')
            = Support(frontier) \cup {d \in Support(nodes) : d.addr \notin queried}
    BY <2>1, AddedType, UnqueriedType DEF TypeInv, Replied
  <2>3. AddrsOf(batch') = AddrsOf(batch)
    BY <2>1 DEF AddrsOf, Support
  <2>4. AddrsOf(nodes) \subseteq queried \cup AddrsOf(frontier')
    BY <2>2 DEF AddrsOf
  <2>5. AddrsOf(frontier) \subseteq AddrsOf(frontier')
    BY <2>2 DEF AddrsOf
  <2>6. QED
    BY <2>1, <2>3, <2>4, <2>5 DEF HeardInv, NobodyForgotten
<1>7. CASE World
  BY <1>7
  DEF World, StrangerSends, NodeAnswers, Lost, Arrives, lookupVars, HeardInv, AddrsOf, Support,
      NobodyForgotten
<1>8. CASE UNCHANGED vars
  BY <1>8 DEF vars, lookupVars, HeardInv, AddrsOf, Support, NobodyForgotten
<1>9. QED
  BY <1>1, <1>2, <1>3, <1>4, <1>5, <1>6, <1>7, <1>8 DEF Next, Lookup, Done

(* A lookup that ends with fewer peers than wanted and rounds left has       *)
(* queried every node it ever heard of, whatever the replies named while     *)
(* others were being queried.                                                *)
THEOREM NoNodeForgotten == Spec => []NobodyForgotten
<1>1. HeardInv => NobodyForgotten
  BY DEF HeardInv
<1>2. QED
  BY <1>1, TypeInit, TypeNext, HeardInit, HeardNext, PTL DEF Spec
-----------------------------------------------------------------------------
(* How often a node is queried.  The copies of a batch that name it are      *)
(* counted before the first is queried, when it had never been.              *)
Naming(f, a) == {c \in Copies(f) : c[1].addr = a}

FewInv ==
    \A a \in Nodes :
        /\ a \notin queried => queries[a] = 0
        /\ queries[a] + Cardinality(Naming(batch, a)) <= BatchSize

LEMMA CopiesFinite ==
  ASSUME NEW f \in Lists
  PROVE  /\ IsFiniteSet(Copies(f)) /\ Size(f) \in Nat
         /\ \A a : /\ IsFiniteSet(Naming(f, a)) /\ Cardinality(Naming(f, a)) \in Nat
                   /\ Cardinality(Naming(f, a)) <= Size(f)
<1>1. IsFiniteSet(Entries \X (1 .. MaxCopies))
  <2>1. IsFiniteSet(1 .. MaxCopies)
    BY LimitsAssumption, FS_Interval
  <2>2. QED
    BY <2>1, EntriesAssumption, FS_Product
<1>2. Copies(f) \subseteq Entries \X (1 .. MaxCopies)
  BY DEF Copies
<1>3. IsFiniteSet(Copies(f)) /\ Size(f) \in Nat
  BY <1>1, <1>2, FS_Subset, FS_CardinalityType DEF Size
<1>4. ASSUME NEW a PROVE Naming(f, a) \subseteq Copies(f)
  BY DEF Naming
<1>5. QED
  BY <1>3, <1>4, FS_Subset, FS_CardinalityType DEF Size

LEMMA NoCopies ==
  ASSUME NEW f, Support(f) = {}, f \in Lists, NEW a
  PROVE  Naming(f, a) = {}
  BY LimitsAssumption DEF Lists, Support, Copies, Naming

(* Taking one copy of an entry away leaves all the others: one fewer of its  *)
(* address, and the same of every other.                                     *)
LEMMA CopyTaken ==
  ASSUME NEW f \in Lists, NEW e \in Entries, f[e] > 0
  PROVE  LET g == [f EXCEPT ![e] = @ - 1]
         IN  /\ g \in Lists
             /\ <<e, f[e]>> \in Copies(f) /\ Copies(g) = Copies(f) \ {<<e, f[e]>>}
<1> DEFINE g == [f EXCEPT ![e] = @ - 1]
           c == <<e, f[e]>>
<1>1. g \in Lists
  BY LimitsAssumption DEF Lists
<1>2. ASSUME NEW d \in Entries \X (1 .. MaxCopies)
      PROVE  d[2] <= g[d[1]] <=> d[2] <= f[d[1]] /\ d # c
  <2>1. PICK x \in Entries, n \in 1 .. MaxCopies : d = <<x, n>>
    OBVIOUS
  <2>2. CASE x = e
    BY <2>1, <2>2, LimitsAssumption DEF Lists
  <2>3. CASE x # e
    BY <2>1, <2>3
       DEF Lists
  <2>4. QED
    BY <2>2, <2>3
<1>3. c \in Copies(f)
  BY LimitsAssumption DEF Copies, Lists
<1>4. QED
  BY <1>1, <1>2, <1>3 DEF Copies

LEMMA OneFewer ==
  ASSUME NEW f \in Lists, NEW e \in Entries, f[e] > 0, NEW a
  PROVE  LET g == [f EXCEPT ![e] = @ - 1]
         IN  /\ g \in Lists
             /\ Cardinality(Naming(g, a)) =
                  IF a = e.addr THEN Cardinality(Naming(f, a)) - 1 ELSE Cardinality(Naming(f, a))
<1> DEFINE g == [f EXCEPT ![e] = @ - 1]
           c == <<e, f[e]>>
<1>1. g \in Lists /\ c \in Copies(f) /\ Copies(g) = Copies(f) \ {c}
  BY CopyTaken
<1>2. c[1] = e
  OBVIOUS
<1> HIDE DEF g, c
<1>3. Naming(g, a) = Naming(f, a) \ {c} /\ (c \in Naming(f, a) <=> a = e.addr)
  BY <1>1, <1>2 DEF Naming
<1>4. Cardinality(Naming(g, a)) =
        IF a = e.addr THEN Cardinality(Naming(f, a)) - 1 ELSE Cardinality(Naming(f, a))
  BY <1>3, CopiesFinite, FS_RemoveElement
<1>5. QED
  BY <1>1, <1>4 DEF g

LEMMA SizeFewer ==
  ASSUME NEW f \in Lists, NEW e \in Entries, f[e] > 0
  PROVE  Size([f EXCEPT ![e] = @ - 1]) = Size(f) - 1
<1> DEFINE g == [f EXCEPT ![e] = @ - 1]
           c == <<e, f[e]>>
<1>1. g \in Lists /\ c \in Copies(f) /\ Copies(g) = Copies(f) \ {c}
  BY CopyTaken
<1> HIDE DEF g, c
<1>2. Size(g) = Size(f) - 1
  BY <1>1, CopiesFinite, FS_RemoveElement DEF Size
<1>3. QED
  BY <1>2 DEF g

LEMMA NoSize ==
  ASSUME NEW f \in Lists, Support(f) = {}
  PROVE  Size(f) = 0
<1>1. Copies(f) = {}
  BY LimitsAssumption DEF Lists, Support, Copies
<1>2. QED
  BY <1>1, FS_EmptySet DEF Size

LEMMA FewInit == Init => FewInv
  BY CopiesFinite, NoCopies, NoneSupported, FS_EmptySet, LimitsAssumption
  DEF Init, FewInv

LEMMA FewStart ==
  ASSUME TypeInv, FewInv, StartRound
  PROVE  FewInv'
<1>1. PICK b \in Batches : batch' = b
  BY DEF StartRound
<1>2. /\ b \in Lists /\ Size(b) = AtMost(BatchSize, Size(Eligible))
      /\ \A e \in Entries : b[e] <= Eligible[e]
  BY DEF Batches, Lists
<1>3. Size(b) <= BatchSize
  BY <1>2, EligibleType, CopiesFinite, LimitsAssumption DEF AtMost
<1>4. queried' = queried /\ queries' = queries /\ Support(batch) = {}
  BY DEF StartRound, TypeInv
<1>5. ASSUME NEW a \in Nodes
      PROVE  queries[a] + Cardinality(Naming(b, a)) <= BatchSize
  <2>1. CASE Naming(b, a) = {}
    <3>1. Cardinality(Naming(batch, a)) = 0
      BY <1>4, NoCopies, FS_EmptySet DEF TypeInv
    <3>2. QED
      BY <2>1, <3>1, FS_EmptySet DEF FewInv
  <2>2. CASE Naming(b, a) # {}
    <3>1. PICK c \in Naming(b, a) : TRUE
      BY <2>2
    <3>2. c[1] \in Entries /\ c[1].addr = a /\ b[c[1]] > 0
      BY <1>2, <3>1, LimitsAssumption DEF Naming, Copies, Lists
    <3>3. Eligible[c[1]] > 0
      BY <1>2, <3>2, EligibleType, LimitsAssumption DEF Lists
    <3>4. queries[a] = 0
      BY <3>2, <3>3, EligibleType DEF FewInv
    <3>5. QED
      BY <1>2, <1>3, <3>4, CopiesFinite, LimitsAssumption
  <2>3. QED
    BY <2>1, <2>2
<1>6. QED
  BY <1>1, <1>4, <1>5 DEF FewInv

LEMMA FewAsks ==
  ASSUME TypeInv, FewInv, NEW e \in Entries, Asks(e)
  PROVE  FewInv'
<1>1. /\ batch[e] > 0 /\ batch' = [batch EXCEPT ![e] = @ - 1]
      /\ queried' = queried \cup {e.addr}
      /\ queries' = [queries EXCEPT ![e.addr] = @ + 1]
  BY DEF Asks, Closest
<1>2. e.addr \in Nodes /\ queries \in [Nodes -> Nat] /\ batch \in Lists
  BY EntriesAssumption DEF TypeInv
<1>3. ASSUME NEW a \in Nodes
      PROVE  queries'[a] + Cardinality(Naming(batch', a)) <= BatchSize
  <2>1. /\ Cardinality(Naming(batch', a)) =
             IF a = e.addr THEN Cardinality(Naming(batch, a)) - 1 ELSE Cardinality(Naming(batch, a))
        /\ Cardinality(Naming(batch, a)) \in Nat
    BY <1>1, <1>2, OneFewer, CopiesFinite
  <2>2. queries'[a] = IF a = e.addr THEN queries[a] + 1 ELSE queries[a]
    BY <1>1, <1>2
  <2>3. QED
    BY <1>2, <2>1, <2>2, LimitsAssumption DEF FewInv
<1>4. QED
  BY <1>1, <1>2, <1>3 DEF FewInv

LEMMA FewNext == TypeInv /\ FewInv /\ [Next]_vars => FewInv'
<1> SUFFICES ASSUME TypeInv, FewInv, [Next]_vars PROVE FewInv'
  OBVIOUS
<1>1. CASE StartRound
  BY <1>1, FewStart
<1>2. ASSUME NEW e \in Entries, Asks(e) PROVE FewInv'
  BY <1>2, FewAsks
<1>3. CASE UNCHANGED <<queried, queries, batch>>
  BY <1>3 DEF FewInv
<1>4. StartRound \/ (\E e \in Entries : Asks(e)) \/ UNCHANGED <<queried, queries, batch>>
  BY DEF Next, Lookup, World, Done, Finish, Skips, Rejects, Replies, Fails, Answered,
         StrangerSends, NodeAnswers, Lost, Arrives, vars, lookupVars
<1>5. QED
  BY <1>1, <1>2, <1>3, <1>4

(* No node is queried more than BatchSize times, however many of its entries *)
(* the replies name.                                                         *)
THEOREM NodesAskedFewTimes == Spec => []FewQueries
<1>1. TypeInv /\ FewInv => FewQueries
  BY CopiesFinite, LimitsAssumption DEF FewInv, FewQueries, TypeInv
<1>2. QED
  BY <1>1, TypeInit, TypeNext, FewInit, FewNext, PTL DEF Spec

-----------------------------------------------------------------------------
(* Strays.  What the socket holds besides the answer waited for, with what   *)
(* was read and skipped for this query, all came as strays.                  *)
Holds(s, q) == \E k \in 1 .. Len(s) : s[k] = q

Waits == asked # NoEntry
WaitsAndHas == Waits /\ Holds(buffer, Current)

Sent(q, sent) == q.from \in Nodes /\ q.txid >= 1 /\ q.txid <= sent[q.from]

(* a node answers each query at most once *)
OnceInv ==
    /\ \A q \in pending : Sent(q, queries) /\ ~Holds(buffer, q)
    /\ \A k \in 1 .. Len(buffer) : buffer[k].from # Stranger => Sent(buffer[k], queries)
    /\ \A j, k \in 1 .. Len(buffer) :
          buffer[j] = buffer[k] /\ buffer[j].from # Stranger => j = k

AskedOnce == \A a \in Nodes : queries[a] <= 1
Calm == strays < Attempts /\ AskedOnce

StrayInv ==
    Calm => /\ ~missed
            /\ WaitsAndHas => received + Len(buffer) <= strays + 1
            /\ ~WaitsAndHas => received + Len(buffer) <= strays
            /\ Waits => queries[asked.addr] >= 1
LEMMA StrayInit == Init => OnceInv /\ StrayInv
  BY DEF Init, OnceInv, StrayInv, Holds, Waits, WaitsAndHas

(* What the socket still holds after one was taken.                          *)
LEMMA TakenOnce ==
  ASSUME TypeInv, OnceInv, buffer # <<>>, buffer' = Tail(buffer), UNCHANGED <<queries, pending>>
  PROVE  /\ OnceInv'
         /\ Len(buffer') = Len(buffer) - 1 /\ Len(buffer) >= 1 /\ Len(buffer) \in Nat
         /\ \A q : Holds(buffer', q) => Holds(buffer, q)
         /\ \A q : Holds(buffer, q) => q = Head(buffer) \/ Holds(buffer', q)
         /\ Head(buffer).from # Stranger => ~Holds(buffer', Head(buffer))
         /\ Holds(buffer, Head(buffer)) /\ Head(buffer) \in Datagrams
<1>1. /\ Head(buffer) = buffer[1] /\ Head(buffer) \in Datagrams
      /\ Len(buffer) \in Nat /\ Len(buffer) >= 1 /\ Len(buffer') = Len(buffer) - 1
      /\ \A k \in 1 .. Len(buffer') : buffer'[k] = buffer[k + 1] /\ k + 1 \in 1 .. Len(buffer)
  BY TailForm DEF TypeInv
<1>2. \A q : Holds(buffer', q) => Holds(buffer, q)
  BY <1>1 DEF Holds
<1>3. ASSUME NEW q, Holds(buffer, q) PROVE q = Head(buffer) \/ Holds(buffer', q)
  <2>1. PICK k \in 1 .. Len(buffer) : buffer[k] = q
    BY <1>3 DEF Holds
  <2>2. CASE k = 1
    BY <1>1, <2>1, <2>2
  <2>3. CASE k # 1
    <3>1. k - 1 \in 1 .. Len(buffer') /\ buffer'[k - 1] = q
      <4>1. k - 1 \in 1 .. Len(buffer') /\ (k - 1) + 1 = k
        BY <1>1, <2>1, <2>3
      <4>2. QED
        BY <1>1, <2>1, <4>1
    <3>2. QED
      BY <3>1 DEF Holds
  <2>4. QED
    BY <2>2, <2>3
<1>4. Head(buffer).from # Stranger => ~Holds(buffer', Head(buffer))
  <2>1. SUFFICES ASSUME buffer[1].from # Stranger, NEW k \in 1 .. Len(buffer'),
                        buffer'[k] = buffer[1]
                 PROVE  FALSE
    BY <1>1 DEF Holds
  <2>2. k + 1 \in 1 .. Len(buffer) /\ buffer[k + 1] = buffer[1] /\ 1 \in 1 .. Len(buffer)
    BY <1>1, <2>1
  <2>3. k + 1 = 1
    BY <2>1, <2>2 DEF OnceInv
  <2>4. QED
    BY <2>3
<1>5. Holds(buffer, Head(buffer))
  BY <1>1 DEF Holds
<1>6. OnceInv'
  <2>1. \A q \in pending' : Sent(q, queries') /\ ~Holds(buffer', q)
    BY <1>2 DEF OnceInv, Sent
  <2>2. ASSUME NEW k \in 1 .. Len(buffer'), buffer'[k].from # Stranger
        PROVE  Sent(buffer[k + 1], queries)
    BY <1>1, <2>2 DEF OnceInv
  <2>3. \A k \in 1 .. Len(buffer') : buffer'[k].from # Stranger => Sent(buffer'[k], queries')
    BY <1>1, <2>2 DEF Sent
  <2>4. ASSUME NEW j \in 1 .. Len(buffer'), NEW k \in 1 .. Len(buffer'),
               buffer'[j] = buffer'[k], buffer'[j].from # Stranger
        PROVE  j = k
    <3>1. j + 1 = k + 1
      BY <1>1, <2>4 DEF OnceInv
    <3>2. QED
      BY <1>1, <3>1
  <2>5. QED
    BY <2>1, <2>3, <2>4 DEF OnceInv
<1>7. QED
  BY <1>1, <1>2, <1>3, <1>4, <1>5, <1>6

LEMMA CurrentSent ==
  ASSUME TypeInv, Waits
  PROVE  asked.addr \in Nodes /\ Current.from = asked.addr /\ Current.from # Stranger
  BY EntriesAssumption DEF TypeInv, Waits, Current, Query

(* A query that ends leaves in the socket strays only.                       *)
LEMMA FailsStray ==
  ASSUME TypeInv, OnceInv, StrayInv, pc = "receive", Fails,
         \/ buffer' = buffer /\ buffer = <<>>
         \/ /\ buffer # <<>> /\ buffer' = Tail(buffer)
            /\ \/ Head(buffer).from = asked.addr
               \/ Head(buffer).from # asked.addr /\ received + 1 >= Attempts
  PROVE  OnceInv' /\ StrayInv'
<1>1. /\ UNCHANGED <<queries, pending, strays>> /\ asked' = NoEntry /\ received' = 0
      /\ missed' => missed \/ Holds(buffer', Current)
  BY DEF Fails, Answered, Holds
<1>2. Waits /\ asked.addr \in Nodes /\ Current.from = asked.addr /\ Current.from # Stranger
  BY CurrentSent DEF TypeInv, Waits
<1>3. OnceInv'
  <2>1. CASE buffer' = buffer
    BY <1>1, <2>1 DEF OnceInv, Sent, Holds
  <2>2. CASE buffer # <<>> /\ buffer' = Tail(buffer)
    BY <1>1, <2>2, TakenOnce
  <2>3. QED
    BY <2>1, <2>2
<1>4. ASSUME Calm PROVE ~Holds(buffer', Current) /\ Len(buffer') <= strays
  <2>1. /\ strays \in Nat /\ strays < Attempts /\ received \in Nat /\ AskedOnce /\ Len(buffer) \in Nat
        /\ WaitsAndHas => received + Len(buffer) <= strays + 1
        /\ ~WaitsAndHas => received + Len(buffer) <= strays
        /\ queries[asked.addr] >= 1 /\ queries[asked.addr] <= 1 /\ queries[asked.addr] \in Nat
    BY <1>2, <1>4, LimitsAssumption DEF StrayInv, Calm, AskedOnce, TypeInv
  <2>2. CASE buffer = <<>> /\ buffer' = buffer
    BY <2>1, <2>2 DEF Holds, WaitsAndHas
  <2>3. CASE buffer # <<>> /\ buffer' = Tail(buffer)
    <3>1. /\ Len(buffer') = Len(buffer) - 1 /\ Len(buffer) >= 1 /\ Len(buffer) \in Nat
          /\ \A q : Holds(buffer', q) => Holds(buffer, q)
          /\ \A q : Holds(buffer, q) => q = Head(buffer) \/ Holds(buffer', q)
          /\ Head(buffer).from # Stranger => ~Holds(buffer', Head(buffer))
          /\ Holds(buffer, Head(buffer)) /\ Head(buffer) \in Datagrams
      BY <1>1, <2>3, TakenOnce
    <3>2. CASE Head(buffer).from = asked.addr
      <4>1. Sent(Head(buffer), queries)
        BY <1>2, <3>1, <3>2 DEF OnceInv, Holds
      <4>2. Head(buffer) = Current
        BY <1>2, <2>1, <3>1, <3>2, <4>1 DEF Sent, Datagrams, Current, Query
      <4>3. ~Holds(buffer', Current) /\ WaitsAndHas
        BY <1>2, <3>1, <4>2 DEF WaitsAndHas
      <4>4. QED
        BY <2>1, <3>1, <4>3
    <3>3. CASE Head(buffer).from # asked.addr /\ received + 1 >= Attempts
      <4>1. Holds(buffer, Current) => Holds(buffer', Current)
        BY <1>2, <3>1, <3>3
      <4>2. Holds(buffer', Current) => Len(buffer') >= 1
        BY <3>1 DEF Holds
      <4>3. ~WaitsAndHas
        <5>1. SUFFICES ASSUME WaitsAndHas PROVE FALSE
          OBVIOUS
        <5>2. Len(buffer) >= 2
          BY <3>1, <4>1, <4>2, <5>1 DEF WaitsAndHas
        <5>3. QED
          BY <2>1, <3>1, <3>3, <5>1, <5>2, LimitsAssumption
      <4>4. ~Holds(buffer', Current)
        BY <1>2, <3>1, <4>3 DEF WaitsAndHas
      <4>5. QED
        BY <2>1, <3>1, <4>3, <4>4
    <3>4. QED
      BY <2>3, <3>2, <3>3, <1>2
  <2>4. QED
    BY <2>2, <2>3
<1>5. StrayInv'
  <2>1. ~Waits'
    BY <1>1 DEF Waits
  <2>2. ASSUME Calm' PROVE Calm
    BY <1>1, <2>2 DEF Calm, AskedOnce
  <2>3. ASSUME Calm' PROVE ~missed' /\ Len(buffer') <= strays'
    BY <1>1, <1>4, <2>2, <2>3 DEF StrayInv
  <2>4. Len(buffer') \in Nat
    BY TailForm DEF TypeInv
  <2>5. QED
    BY <1>1, <2>1, <2>3, <2>4 DEF StrayInv, WaitsAndHas
<1>6. QED
  BY <1>3, <1>5

LEMMA ArrivesStray ==
  ASSUME TypeInv, OnceInv, StrayInv, NEW q \in Datagrams, Arrives(q),
         \/ q.from = Stranger /\ pending' = pending
         \/ q \in pending /\ pending' = pending \ {q}
  PROVE  OnceInv' /\ StrayInv'
<1>1. /\ UNCHANGED <<queries, asked, received, missed>> /\ Current' = Current
      /\ buffer' = Append(buffer, q) /\ Len(buffer) \in Nat /\ Len(buffer') = Len(buffer) + 1
      /\ \A k \in 1 .. Len(buffer) : k \in 1 .. Len(buffer') /\ buffer'[k] = buffer[k]
      /\ Len(buffer') \in 1 .. Len(buffer') /\ buffer'[Len(buffer')] = q
      /\ \A k \in 1 .. Len(buffer') : k = Len(buffer') \/ k \in 1 .. Len(buffer)
  BY DEF Arrives, lookupVars, TypeInv, Current, Query
<1>2. \A d : Holds(buffer', d) <=> d = q \/ Holds(buffer, d)
  BY <1>1 DEF Holds
<1>3. OnceInv'
  <2>1. ASSUME NEW d \in pending' PROVE Sent(d, queries') /\ ~Holds(buffer', d)
    <3>1. d \in pending /\ d # q
      BY <2>1, EntriesAssumption DEF OnceInv, Sent
    <3>2. QED
      BY <1>1, <1>2, <3>1 DEF OnceInv, Sent
  <2>2. q.from # Stranger => Sent(q, queries) /\ ~Holds(buffer, q)
    BY DEF OnceInv
  <2>3. ASSUME NEW k \in 1 .. Len(buffer'), buffer'[k].from # Stranger PROVE Sent(buffer'[k], queries)
    BY <1>1, <2>2, <2>3 DEF OnceInv
  <2>4. \A k \in 1 .. Len(buffer') : buffer'[k].from # Stranger => Sent(buffer'[k], queries')
    BY <1>1, <2>3 DEF Sent
  <2>5. ASSUME NEW j \in 1 .. Len(buffer'), NEW k \in 1 .. Len(buffer'),
               buffer'[j] = buffer'[k], buffer'[j].from # Stranger
        PROVE  j = k
    <3>1. CASE j \in 1 .. Len(buffer) /\ k \in 1 .. Len(buffer)
      BY <1>1, <2>5, <3>1 DEF OnceInv
    <3>2. CASE j = Len(buffer') /\ k \in 1 .. Len(buffer)
      BY <1>1, <2>2, <2>5, <3>2 DEF Holds
    <3>3. CASE k = Len(buffer') /\ j \in 1 .. Len(buffer)
      BY <1>1, <2>2, <2>5, <3>3 DEF Holds
    <3>4. QED
      BY <1>1, <3>1, <3>2, <3>3
  <2>6. QED
    BY <2>1, <2>4, <2>5 DEF OnceInv
<1>4. StrayInv'
  <2>1. SUFFICES ASSUME Calm' PROVE StrayInv'
    BY DEF StrayInv
  <2>2. strays \in Nat /\ strays' \in Nat /\ strays' < Attempts /\ AskedOnce
    BY <1>1, <2>1, LimitsAssumption, ArrivesType DEF Calm, AskedOnce, TypeInv, Arrives
  <2>3. strays' = IF Waits /\ q = Current THEN strays ELSE strays + 1
    BY <2>2, LimitsAssumption DEF Arrives, AtMost, Waits
  <2>4. Calm
    BY <2>2, <2>3, LimitsAssumption DEF Calm
  <2>5. /\ ~missed /\ received \in Nat
        /\ WaitsAndHas => received + Len(buffer) <= strays + 1
        /\ ~WaitsAndHas => received + Len(buffer) <= strays
        /\ Waits => queries[asked.addr] >= 1
    BY <2>4 DEF StrayInv, TypeInv
  <2>6. Waits' <=> Waits
    BY <1>1 DEF Waits
  <2>7. CASE Waits /\ q = Current
    <3>1. q.from # Stranger
      BY <2>7, CurrentSent
    <3>2. ~WaitsAndHas
      BY <2>7, <3>1 DEF OnceInv, WaitsAndHas
    <3>3. WaitsAndHas'
      BY <1>1, <1>2, <2>6, <2>7 DEF WaitsAndHas
    <3>4. QED
      BY <1>1, <2>3, <2>2, <2>5, <2>6, <2>7, <3>2, <3>3 DEF StrayInv
  <2>8. CASE ~(Waits /\ q = Current)
    <3>1. WaitsAndHas' <=> WaitsAndHas
      BY <1>1, <1>2, <2>6, <2>8 DEF WaitsAndHas
    <3>2. QED
      BY <1>1, <2>3, <2>2, <2>5, <2>6, <2>8, <3>1 DEF StrayInv
  <2>9. QED
    BY <2>7, <2>8
<1>5. QED
  BY <1>3, <1>4

LEMMA AsksStray ==
  ASSUME TypeInv, OnceInv, StrayInv, NEW e \in Entries, Asks(e)
  PROVE  OnceInv' /\ StrayInv'
<1> DEFINE q == Query(e.addr, queries'[e.addr])
<1>1. /\ UNCHANGED <<buffer, strays, missed>> /\ asked' = e /\ received' = 0
      /\ pending' = pending \cup {q} /\ asked = NoEntry
      /\ e.addr \in Nodes /\ e.addr # Stranger /\ e # NoEntry
      /\ received = 0
  BY EntriesAssumption DEF Asks, TypeInv
<1>2. /\ queries' = [queries EXCEPT ![e.addr] = @ + 1] /\ queries \in [Nodes -> Nat]
      /\ \A a \in Nodes : queries'[a] >= queries[a] /\ queries'[a] \in Nat
      /\ queries'[e.addr] = queries[e.addr] + 1
  BY <1>1 DEF Asks, TypeInv
<1>3. q.from = e.addr /\ q.txid = queries'[e.addr] /\ Current' = q
  BY <1>1 DEF Query, Current
<1>4. ASSUME NEW d, Sent(d, queries), d \in Datagrams PROVE Sent(d, queries')
  BY <1>2, <1>4 DEF Sent, Datagrams
<1>5. ~Holds(buffer, q)
  <2>1. SUFFICES ASSUME NEW k \in 1 .. Len(buffer), buffer[k] = q PROVE FALSE
    BY DEF Holds
  <2>2. Sent(q, queries)
    BY <1>1, <1>3, <2>1 DEF OnceInv
  <2>3. QED
    BY <1>1, <1>2, <1>3, <2>2 DEF Sent
<1>6. Sent(q, queries')
  BY <1>1, <1>2, <1>3 DEF Sent
<1>7. OnceInv'
  <2>1. ASSUME NEW d \in pending' PROVE Sent(d, queries') /\ ~Holds(buffer', d)
    BY <1>1, <1>4, <1>5, <1>6 DEF OnceInv, TypeInv
  <2>2. ASSUME NEW k \in 1 .. Len(buffer), buffer[k].from # Stranger PROVE Sent(buffer[k], queries')
    BY <1>4, <2>2 DEF OnceInv, TypeInv
  <2>3. QED
    BY <1>1, <2>1, <2>2 DEF OnceInv
<1>8. StrayInv'
  <2>1. SUFFICES ASSUME Calm' PROVE StrayInv'
    BY DEF StrayInv
  <2>2. Calm
    BY <1>1, <1>2, <2>1 DEF Calm, AskedOnce
  <2>3. ~WaitsAndHas /\ ~WaitsAndHas'
    BY <1>1, <1>3, <1>5 DEF WaitsAndHas, Waits
  <2>4. ~missed /\ received + Len(buffer) <= strays
    BY <2>2, <2>3 DEF StrayInv
  <2>5. QED
    BY <1>1, <1>2, <2>3, <2>4 DEF StrayInv, TypeInv
<1>9. QED
  BY <1>7, <1>8

LEMMA StrayNext == TypeInv /\ OnceInv /\ StrayInv /\ [Next]_vars => OnceInv' /\ StrayInv'
<1> SUFFICES ASSUME TypeInv, OnceInv, StrayInv, [Next]_vars PROVE OnceInv' /\ StrayInv'
  OBVIOUS
<1>1. ASSUME NEW e \in Entries, Asks(e) PROVE OnceInv' /\ StrayInv'
  BY <1>1, AsksStray
<1>2. CASE Skips
  <2>1. CASE AttemptsLeft
    <3>1. /\ UNCHANGED <<queries, asked, pending, strays, missed>> /\ received' = received + 1
          /\ buffer # <<>> /\ buffer' = Tail(buffer) /\ Head(buffer).from # asked.addr
          /\ Current' = Current
      BY <1>2, <2>1 DEF Skips, lookupVars, Current, Query
    <3>2. /\ OnceInv'
          /\ Len(buffer') = Len(buffer) - 1 /\ Len(buffer) \in Nat
          /\ Holds(buffer', Current) => Holds(buffer, Current)
          /\ Holds(buffer, Current) => Current = Head(buffer) \/ Holds(buffer', Current)
      BY <3>1, TakenOnce
    <3>3. Waits' <=> Waits
      BY <3>1 DEF Waits
    <3>4. WaitsAndHas' <=> WaitsAndHas
      BY <3>1, <3>2, <3>3, CurrentSent DEF WaitsAndHas
    <3>5. Calm' => Calm
      BY <3>1 DEF Calm, AskedOnce
    <3>6. StrayInv'
      BY <3>1, <3>2, <3>3, <3>4, <3>5 DEF StrayInv, TypeInv
    <3>7. QED
      BY <3>2, <3>6
  <2>2. CASE ~AttemptsLeft
    <3>1. received + 1 >= Attempts
      BY <2>2, LimitsAssumption DEF AttemptsLeft, TypeInv
    <3>2. QED
      BY <1>2, <2>2, <3>1, FailsStray DEF Skips
  <2>3. QED
    BY <2>1, <2>2
<1>3. CASE Rejects
  BY <1>3, FailsStray DEF Rejects
<1>4. ASSUME NEW found \in SUBSET PeerAddrs, NEW nodes \in Replied, Replies(found, nodes)
      PROVE  OnceInv' /\ StrayInv'
  <2>1. /\ UNCHANGED <<queries, pending, strays, missed>> /\ asked' = NoEntry /\ received' = 0
        /\ buffer # <<>> /\ buffer' = Tail(buffer) /\ Head(buffer) = Current /\ Waits
    BY <1>4 DEF Replies, Answered, TypeInv, Waits
  <2>2. /\ OnceInv' /\ Holds(buffer, Current)
        /\ Len(buffer') = Len(buffer) - 1 /\ Len(buffer) \in Nat
    BY <2>1, TakenOnce
  <2>3. WaitsAndHas /\ ~Waits' /\ ~WaitsAndHas'
    BY <2>1, <2>2 DEF WaitsAndHas, Waits
  <2>4. Calm' => Calm
    BY <2>1 DEF Calm, AskedOnce
  <2>5. StrayInv'
    BY <2>1, <2>2, <2>3, <2>4 DEF StrayInv, TypeInv
  <2>6. QED
    BY <2>2, <2>5
<1>5. CASE StrangerSends
  <2>1. Query(Stranger, 0) \in Datagrams /\ Query(Stranger, 0).from = Stranger
    BY DEF Query, Datagrams
  <2>2. QED
    BY <1>5, <2>1, ArrivesStray DEF StrangerSends
<1>6. ASSUME NEW q \in pending, NodeAnswers(q) PROVE OnceInv' /\ StrayInv'
  BY <1>6, ArrivesStray DEF NodeAnswers, TypeInv
<1>7. ASSUME UNCHANGED <<queries, asked, received, buffer, strays, missed>>, pending' \subseteq pending
      PROVE  OnceInv' /\ StrayInv'
  <2>1. OnceInv'
    BY <1>7 DEF OnceInv, Sent, Holds
  <2>2. Current' = Current
    BY <1>7 DEF Current, Query
  <2>3. StrayInv'
    BY <1>7, <2>2 DEF StrayInv, Calm, AskedOnce, Waits, WaitsAndHas, Holds
  <2>4. QED
    BY <2>1, <2>3
<1>8. CASE Finish \/ StartRound \/ (\E q \in pending : Lost(q)) \/ UNCHANGED vars
  BY <1>7, <1>8 DEF Finish, StartRound, Lost, vars, lookupVars, roundVars
<1>9. QED
  BY <1>1, <1>2, <1>3, <1>4, <1>5, <1>6, <1>8 DEF Next, Lookup, World, Done

(* Unless as many datagrams as a query reads came late or from strangers, or *)
(* a node was asked twice, no query fails with its answer in the socket,     *)
(* however many queries there were and however their datagrams interleave.   *)
THEOREM AnswerInTimeIsHeard == Spec => []FewStraysDoNoHarm
<1>1. TypeInv /\ StrayInv => FewStraysDoNoHarm
  BY LimitsAssumption DEF StrayInv, Calm, AskedOnce, FewStraysDoNoHarm, TypeInv
<1>2. QED
  BY <1>1, TypeInit, TypeNext, StrayInit, StrayNext, PTL DEF Spec

-----------------------------------------------------------------------------
(* The end of a lookup.  Rounds are limited, each asks a batch, and a query  *)
(* reads so many datagrams: what is left of all this is a number.            *)
QueriesLeft == (MaxRounds - rounds) * (BatchSize + 1) + Size(batch)
StepsLeft ==
    QueriesLeft * (Attempts + 1)
    + (IF pc = "receive" THEN Attempts - received ELSE 0) + (IF pc = "done" THEN 0 ELSE 1)

(* Nodes are asked in the rounds that there were, BatchSize in each          *)
QueriesBounded ==
    rounds <= MaxRounds /\ Cardinality(queried) + Size(batch) <= BatchSize * rounds

(* Each step of the lookup leaves fewer, and no step of the world more.      *)
RunsDown == [][IF Lookup THEN StepsLeft' < StepsLeft ELSE StepsLeft' = StepsLeft]_vars

RoundsInv ==
    QueriesBounded /\ IsFiniteSet(queried) /\ Size(batch) <= BatchSize /\ received < Attempts

LEMMA Product ==
  ASSUME NEW x \in Nat, NEW y \in Nat, NEW n \in Nat, y < x
  PROVE  y * n + n <= x * n /\ y * n \in Nat /\ x * n \in Nat
<1>1. x * n = y * n + n + (x - y - 1) * n /\ x - y - 1 \in Nat
  OBVIOUS
<1>2. (x - y - 1) * n \in Nat /\ y * n \in Nat /\ x * n \in Nat
  BY <1>1
<1>3. QED
  BY <1>1, <1>2

LEMMA LeftType ==
  ASSUME TypeInv, RoundsInv
  PROVE  /\ Size(batch) \in Nat /\ rounds \in Nat /\ MaxRounds - rounds \in Nat
         /\ Cardinality(queried) \in Nat /\ IsFiniteSet(queried)
         /\ QueriesLeft \in Nat /\ QueriesLeft * (Attempts + 1) \in Nat
         /\ StepsLeft \in Nat
<1>1. Size(batch) \in Nat
  BY CopiesFinite DEF TypeInv
<1>2. rounds \in Nat /\ MaxRounds - rounds \in Nat
  BY LimitsAssumption DEF TypeInv, RoundsInv, QueriesBounded
<1>3. QueriesLeft \in Nat
  <2>1. (MaxRounds - rounds) * (BatchSize + 1) \in Nat
    BY <1>2, LimitsAssumption
  <2>2. QED
    BY <1>1, <2>1 DEF QueriesLeft
<1>4. QueriesLeft * (Attempts + 1) \in Nat
  BY <1>3, LimitsAssumption
<1>5. StepsLeft \in Nat
  BY <1>4, LimitsAssumption DEF StepsLeft, TypeInv, RoundsInv
<1>6. IsFiniteSet(queried) /\ Cardinality(queried) \in Nat
  BY FS_CardinalityType DEF RoundsInv
<1>7. QED
  BY <1>1, <1>2, <1>3, <1>4, <1>5, <1>6

(* a query less, and the query that is running may read what it likes *)
LEMMA FewerSteps ==
  ASSUME TypeInv, RoundsInv, QueriesLeft' \in Nat, QueriesLeft' < QueriesLeft,
         pc \in {"top", "query"},
         pc' = "query" \/ (pc' = "receive" /\ received' = 0)
  PROVE  StepsLeft' < StepsLeft
<1> DEFINE x == QueriesLeft
           y == QueriesLeft'
           n == Attempts + 1
<1>1. /\ y * n + n <= x * n /\ y * n \in Nat /\ x * n \in Nat
  <2>1. x \in Nat /\ y \in Nat /\ n \in Nat /\ y < x
    BY LeftType, LimitsAssumption
  <2> HIDE DEF x, y, n
  <2>2. QED
    BY <2>1, Product
<1>2. QED
  BY <1>1, LimitsAssumption DEF StepsLeft

LEMMA RoundsInit == Init => RoundsInv
<1> SUFFICES ASSUME Init PROVE RoundsInv
  OBVIOUS
<1>1. queried = {} /\ Size(batch) = 0 /\ rounds = 0 /\ received = 0
  BY NoneSupported, NoSize DEF Init
<1>2. IsFiniteSet({}) /\ Cardinality({}) = 0
  BY FS_EmptySet
<1>3. BatchSize * 0 = 0
  BY LimitsAssumption
<1>4. QED
  BY <1>1, <1>2, <1>3, LimitsAssumption DEF RoundsInv, QueriesBounded

(* the end of a query takes what it could still read *)
LEMMA AnsweredLeft ==
  ASSUME TypeInv, RoundsInv, pc = "receive", Answered
  PROVE  RoundsInv' /\ StepsLeft' < StepsLeft
<1>1. /\ UNCHANGED <<rounds, batch, queried>> /\ received' = 0 /\ pc' \in {"top", "query"}
  BY DEF Answered
<1>2. RoundsInv'
  BY <1>1, LimitsAssumption DEF RoundsInv, QueriesBounded, Size, Copies
<1>3. QueriesLeft' = QueriesLeft
  BY <1>1 DEF QueriesLeft, Size, Copies
<1>4. QueriesLeft * (Attempts + 1) \in Nat /\ received \in Nat /\ received < Attempts
  BY LeftType DEF TypeInv, RoundsInv
<1>5. StepsLeft' < StepsLeft
  BY <1>1, <1>3, <1>4, LimitsAssumption DEF StepsLeft
<1>6. QED
  BY <1>2, <1>5

LEMMA StartLeft ==
  ASSUME TypeInv, RoundsInv, StartRound
  PROVE  RoundsInv' /\ StepsLeft' < StepsLeft
<1>1. PICK b \in Batches : batch' = b
  BY DEF StartRound
<1>2. b \in Lists /\ Size(b) = AtMost(BatchSize, Size(Eligible))
  BY <1>1 DEF Batches, Lists
<1>3. Size(b) \in Nat /\ Size(b) <= BatchSize
  BY <1>2, EligibleType, CopiesFinite, LimitsAssumption DEF AtMost
<1>4. /\ rounds' = rounds + 1 /\ rounds < MaxRounds /\ queried' = queried /\ received' = received
      /\ Size(batch) = 0 /\ pc = "top" /\ pc' = "query"
  BY NoSize, LimitsAssumption DEF StartRound, TypeInv, Over, roundVars
<1>5. Size(batch') = Size(b)
  BY <1>1
<1>6. /\ rounds \in Nat /\ MaxRounds - rounds \in Nat /\ MaxRounds - rounds' \in Nat
      /\ MaxRounds - rounds' = MaxRounds - rounds - 1 /\ Cardinality(queried) \in Nat
      /\ BatchSize \in Nat /\ MaxRounds \in Nat
  BY <1>4, LeftType, LimitsAssumption
<1>7. RoundsInv'
  <2>1. BatchSize * (rounds + 1) = BatchSize * rounds + BatchSize /\ BatchSize * rounds \in Nat
    BY <1>6
  <2>2. Cardinality(queried) <= BatchSize * rounds
    BY <1>4, <1>6 DEF RoundsInv, QueriesBounded
  <2>3. Cardinality(queried') + Size(batch') <= BatchSize * rounds'
    BY <1>3, <1>4, <1>5, <1>6, <2>1, <2>2
  <2>4. QED
    BY <1>3, <1>4, <1>5, <1>6, <2>3, LimitsAssumption DEF RoundsInv, QueriesBounded
<1>8. QueriesLeft' \in Nat /\ QueriesLeft \in Nat /\ QueriesLeft' < QueriesLeft
  <2> DEFINE n == BatchSize + 1
             r == MaxRounds - rounds
  <2>1. QueriesLeft = r * n + 0 /\ QueriesLeft' = (r - 1) * n + Size(b)
    BY <1>4, <1>5, <1>6 DEF QueriesLeft
  <2>2. r \in Nat /\ r - 1 \in Nat /\ n \in Nat /\ Size(b) < n
    BY <1>3, <1>6
  <2> HIDE DEF n, r
  <2>3. (r - 1) * n + n <= r * n /\ (r - 1) * n \in Nat /\ r * n \in Nat
    BY <2>2, Product
  <2>4. QED
    BY <2>1, <2>2, <2>3, <1>3
<1>9. StepsLeft' < StepsLeft
  BY <1>4, <1>8, FewerSteps
<1>10. QED
  BY <1>7, <1>9

LEMMA AsksLeft ==
  ASSUME TypeInv, RoundsInv, NEW e \in Entries, Asks(e)
  PROVE  RoundsInv' /\ StepsLeft' < StepsLeft
<1>1. /\ batch[e] > 0 /\ batch' = [batch EXCEPT ![e] = @ - 1] /\ rounds' = rounds
      /\ queried' = queried \cup {e.addr} /\ received' = 0 /\ pc = "query" /\ pc' = "receive"
  BY DEF Asks, Closest
<1>2. Size(batch') = Size(batch) - 1
  BY <1>1, SizeFewer DEF TypeInv
<1>3. Size(batch') \in Nat
  <2>1. [Next]_vars
    BY DEF Next, Lookup
  <2>2. QED
    BY <2>1, TypeNext, CopiesFinite DEF TypeInv
<1>4. /\ IsFiniteSet(queried') /\ Cardinality(queried') \in Nat
      /\ Cardinality(queried') <= Cardinality(queried) + 1
  <2>1. IsFiniteSet(queried) /\ Cardinality(queried) \in Nat
    BY LeftType
  <2>2. CASE e.addr \in queried
    <3>1. queried' = queried
      BY <1>1, <2>2
    <3>2. QED
      BY <2>1, <3>1
  <2>3. CASE e.addr \notin queried
    <3>1. IsFiniteSet(queried') /\ Cardinality(queried') = Cardinality(queried) + 1
      BY <1>1, <2>1, <2>3, FS_AddElement
    <3>2. QED
      BY <2>1, <3>1
  <2>4. QED
    BY <2>2, <2>3
<1>5. RoundsInv'
  <2>1. BatchSize * rounds \in Nat
    BY LeftType, LimitsAssumption
  <2>2. Cardinality(queried') + Size(batch') <= BatchSize * rounds'
    BY <1>1, <1>2, <1>4, <2>1, LeftType DEF RoundsInv, QueriesBounded
  <2>3. QED
    BY <1>1, <1>2, <1>4, <2>2, LeftType, LimitsAssumption DEF RoundsInv, QueriesBounded
<1>6. QueriesLeft' \in Nat /\ QueriesLeft \in Nat /\ QueriesLeft' < QueriesLeft
  <2>1. (MaxRounds - rounds) * (BatchSize + 1) \in Nat
    BY LeftType, LimitsAssumption
  <2>2. QED
    BY <1>1, <1>2, <1>3, <2>1, LeftType DEF QueriesLeft
<1>7. StepsLeft' < StepsLeft
  BY <1>1, <1>6, FewerSteps
<1>8. QED
  BY <1>5, <1>7

LEMMA LookupLeft ==
  ASSUME TypeInv, RoundsInv, Lookup
  PROVE  RoundsInv' /\ StepsLeft' < StepsLeft
<1>1. CASE Finish
  <2>1. /\ pc = "top" /\ pc' = "done" /\ UNCHANGED <<batch, queried, received>>
        /\ rounds' \in {rounds, rounds + 1} /\ rounds' <= MaxRounds
        /\ rounds \in Nat /\ MaxRounds \in Nat
    BY <1>1, LeftType, LimitsAssumption DEF Finish, Over, roundVars, RoundsInv, QueriesBounded
  <2>2. Size(batch') = Size(batch)
    BY <2>1
  <2>3. RoundsInv'
    <3>1. /\ BatchSize * (rounds + 1) = BatchSize * rounds + BatchSize
          /\ BatchSize * rounds \in Nat /\ BatchSize \in Nat
      BY <2>1, LimitsAssumption
    <3>2. BatchSize * rounds' \in {BatchSize * rounds, BatchSize * (rounds + 1)}
      BY <2>1
    <3>3. BatchSize * rounds <= BatchSize * rounds' /\ BatchSize * rounds' \in Nat
      BY <3>1, <3>2
    <3>4. QED
      BY <2>1, <2>2, <3>1, <3>2, <3>3, LeftType DEF RoundsInv, QueriesBounded
  <2>4. QueriesLeft' \in Nat /\ QueriesLeft' <= QueriesLeft /\ QueriesLeft \in Nat
    <3> DEFINE n == BatchSize + 1
               r == MaxRounds - rounds
               s == MaxRounds - rounds'
    <3>1. QueriesLeft = r * n + Size(batch) /\ QueriesLeft' = s * n + Size(batch)
      BY <2>2 DEF QueriesLeft
    <3>2. r \in Nat /\ s \in Nat /\ n \in Nat /\ (s = r \/ s < r)
      <4>1. n \in Nat
        BY LimitsAssumption
      <4>2. CASE rounds' = rounds
        BY <2>1, <4>1, <4>2
      <4>3. CASE rounds' = rounds + 1
        BY <2>1, <4>1, <4>3
      <4>4. QED
        BY <2>1, <4>2, <4>3
    <3> HIDE DEF n, r, s
    <3>3. s * n <= r * n /\ s * n \in Nat /\ r * n \in Nat
      <4>1. CASE s = r
        BY <3>2, <4>1
      <4>2. CASE s < r
        BY <3>2, <4>2, Product
      <4>3. QED
        BY <3>2, <4>1, <4>2
    <3>4. QED
      BY <3>1, <3>3, LeftType
  <2>5. StepsLeft' < StepsLeft
    <3> DEFINE x == QueriesLeft
               y == QueriesLeft'
               n == Attempts + 1
    <3>1. y * n <= x * n /\ y * n \in Nat /\ x * n \in Nat
      <4>1. x \in Nat /\ y \in Nat /\ n \in Nat /\ (y = x \/ y < x)
        BY <2>4, LimitsAssumption
      <4> HIDE DEF x, y, n
      <4>2. CASE y = x
        <5>1. x * n \in Nat
          BY <4>1
        <5>2. QED
          BY <4>2, <5>1
      <4>3. CASE y < x
        BY <4>1, <4>3, Product
      <4>4. QED
        BY <4>1, <4>2, <4>3
    <3>2. QED
      BY <2>1, <3>1 DEF StepsLeft
  <2>6. QED
    BY <2>3, <2>5
<1>2. CASE StartRound
  BY <1>2, StartLeft
<1>3. CASE \E e \in Entries : Asks(e)
  BY <1>3, AsksLeft
<1>4. CASE Skips /\ AttemptsLeft
  <2>1. /\ UNCHANGED <<pc, rounds, batch, queried>> /\ received' = received + 1
        /\ received + 1 < Attempts /\ pc = "receive"
    BY <1>4 DEF Skips, AttemptsLeft, lookupVars
  <2>2. RoundsInv'
    BY <2>1 DEF RoundsInv, QueriesBounded
  <2>3. QueriesLeft' = QueriesLeft /\ QueriesLeft * (Attempts + 1) \in Nat /\ received \in Nat
    BY <2>1, LeftType DEF QueriesLeft, TypeInv
  <2>4. QED
    BY <2>1, <2>2, <2>3, LimitsAssumption DEF StepsLeft
<1>5. CASE Skips /\ ~AttemptsLeft
  BY <1>5, AnsweredLeft DEF Skips, Fails
<1>6. CASE Rejects
  BY <1>6, AnsweredLeft DEF Rejects, Fails
<1>7. CASE \E found \in SUBSET PeerAddrs, nodes \in Replied : Replies(found, nodes)
  BY <1>7, AnsweredLeft DEF Replies
<1>8. QED
  BY <1>1, <1>2, <1>3, <1>4, <1>5, <1>6, <1>7 DEF Lookup

LEMMA LeftNext ==
  ASSUME TypeInv, RoundsInv, [Next]_vars
  PROVE  RoundsInv' /\ IF Lookup THEN StepsLeft' < StepsLeft ELSE StepsLeft' = StepsLeft
<1>1. CASE Lookup
  BY <1>1, LookupLeft
<1>2. CASE ~Lookup
  <2>1. UNCHANGED <<pc, rounds, batch, queried, received>>
    BY <1>2 DEF Next, World, Done, StrangerSends, NodeAnswers, Lost, Arrives, vars, lookupVars,
       roundVars
  <2>2. QED
    BY <1>2, <2>1 DEF RoundsInv, QueriesBounded, StepsLeft, QueriesLeft
<1>3. QED
  BY <1>1, <1>2

(* A lookup asks at most BatchSize nodes in each of MaxRounds rounds, and it *)
(* ends: whatever arrives, and however much of it, each step that it takes   *)
(* leaves fewer of a number that depends on the limits alone.                *)
THEOREM LookupRunsOut ==
  Spec => [](QueriesBounded /\ StepsLeft \in Nat) /\ RunsDown
<1>1. TypeInv /\ RoundsInv => QueriesBounded /\ StepsLeft \in Nat
  BY LeftType DEF RoundsInv
<1>2. TypeInv /\ RoundsInv /\ [Next]_vars => RoundsInv'
  BY LeftNext
<1>3. TypeInv /\ RoundsInv /\ [Next]_vars
      => [IF Lookup THEN StepsLeft' < StepsLeft ELSE StepsLeft' = StepsLeft]_vars
  BY LeftNext
<1>4. QED
  BY <1>1, <1>2, <1>3, TypeInit, TypeNext, RoundsInit, PTL DEF Spec, RunsDown
=============================================================================
