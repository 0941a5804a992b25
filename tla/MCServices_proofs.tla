--------------------------- MODULE MCServices_proofs ---------------------------
(***************************************************************************)
(* Proofs about the services beside Onyx: the embedding shim, the          *)
(* preparation of a data directory and the watchdog of Beat (the lifecycle *)
(* proxy of the embedding server has its own, EmbedLifecycle_proofs).  For *)
(* each part its inductive invariant is shown of its initial states and    *)
(* kept by each of its steps; a step of the services is a step of one part *)
(* and a stutter of the others, so that the invariants hold of them all.   *)
(***************************************************************************)
EXTENDS MCServices, EmbedLifecycle_proofs, SequenceTheorems

-----------------------------------------------------------------------------
(***************************************************************************)
(* The embedding shim.                                                     *)
(***************************************************************************)

(* The parts of ShimSound.                                                 *)
SlotsCounted ==
    /\ freeSlots + Cardinality(Shim!InThread) = MaxActive
    /\ pool + Cardinality(Shim!InUpstream) = PoolSize

OwnVectors ==
    \A r \in Requests : verdict[r] = "success" =>
       /\ \A t \in DOMAIN vectors[r] : Cardinality(vectors[r][t]) = 1
       /\ \A t, u \in DOMAIN vectors[r] : vectors[r][t] = vectors[r][u] => t = u

EachCounted == \A r \in Requests : Shim!CountedOnce(r)

(* The instance has a definition of cardinality of its own.                *)
LEMMA SameCardinality == \A S : Shim!Cardinality(S) = Cardinality(S)
  BY DEF Shim!Cardinality, Cardinality

ThreadSteps == {"new", "read", "prepare", "acquire", "upstream", "answer", "release", "gone"}

(* A request more or less in a set of requests.                            *)
LEMMA CountFollows ==
    ASSUME NEW S \in SUBSET Requests, NEW T \in SUBSET Requests, NEW r \in Requests,
           T \in {S \cup {r}, S \ {r}}
    PROVE  /\ Cardinality(S) \in Nat /\ Cardinality(T) \in Nat
           /\ Cardinality(T) = Cardinality(S) + (IF r \in T THEN 1 ELSE 0)
                                              - (IF r \in S THEN 1 ELSE 0)
<1>1. CASE T = S
  <2>1. Cardinality(S) \in Nat
    BY OneMore
  <2>. QED
    BY <1>1, <2>1
<1>2. CASE T = S \cup {r} /\ r \notin S
  BY <1>2, OneMore
<1>3. CASE T = S \ {r} /\ r \in S
  BY <1>3, OneMore
<1>. QED
  BY <1>1, <1>2, <1>3

(* What a thread takes or gives back is what its step holds.               *)
Follows(r) ==
    /\ at'[r] \in ThreadSteps /\ at' = [at EXCEPT ![r] = at'[r]]
    /\ freeSlots' \in Nat /\ pool' \in Nat
    /\ freeSlots' = freeSlots + (IF at'[r] \in {"new", "gone"} THEN 1 ELSE 0)
                              - (IF at[r] \in {"new", "gone"} THEN 1 ELSE 0)
    /\ pool' = pool + (IF at[r] = "upstream" THEN 1 ELSE 0)
                    - (IF at'[r] = "upstream" THEN 1 ELSE 0)

LEMMA SlotsFollow ==
    ASSUME Shim!TypeOK, SlotsCounted, NEW r \in Requests, Follows(r)
    PROVE  /\ at' \in [Requests -> ThreadSteps]
           /\ freeSlots' \in 0..MaxActive /\ pool' \in 0..PoolSize
           /\ SlotsCounted'
<1>. USE DEF Follows
<1>. DEFINE inThread == Shim!InThread
            inUpstream == Shim!InUpstream
<1>1. /\ at \in [Requests -> ThreadSteps] 
      /\ at' \in [Requests -> ThreadSteps]
      /\ freeSlots \in Nat /\ pool \in Nat
  BY ShimAssumption DEF Shim!TypeOK, ThreadSteps
<1>2. /\ inThread \in SUBSET Requests /\ inThread' \in SUBSET Requests
      /\ inThread' \in {inThread \cup {r}, inThread \ {r}}
      /\ r \in inThread <=> at[r] \notin {"new", "gone"}
      /\ r \in inThread' <=> at'[r] \notin {"new", "gone"}
  BY <1>1 DEF Shim!InThread
<1>3. /\ inUpstream \in SUBSET Requests /\ inUpstream' \in SUBSET Requests
      /\ inUpstream' \in {inUpstream \cup {r}, inUpstream \ {r}}
      /\ r \in inUpstream <=> at[r] = "upstream"
      /\ r \in inUpstream' <=> at'[r] = "upstream"
  BY <1>1 DEF Shim!InUpstream
<1>. HIDE DEF inThread, inUpstream
<1>4. freeSlots' + Cardinality(inThread') = MaxActive /\ Cardinality(inThread') \in Nat
  BY <1>1, <1>2, CountFollows, ShimAssumption DEF SlotsCounted, inThread
<1>5. pool' + Cardinality(inUpstream') = PoolSize /\ Cardinality(inUpstream') \in Nat
  BY <1>1, <1>3, CountFollows, ShimAssumption DEF SlotsCounted, inUpstream
<1>. QED
  BY <1>1, <1>4, <1>5, ShimAssumption DEF SlotsCounted, inThread, inUpstream

(* A list of as many items as texts, with an index of its own each, has    *)
(* one item for every text.                                                *)
LEMMA OneItemEach ==
    ASSUME NEW items \in Shim!Lists, Shim!Valid(items)
    PROVE  /\ Shim!InOrder(items) \in [0..(Texts - 1) -> SUBSET (1..Texts)]
           /\ \A t \in 0..(Texts - 1) : Cardinality(Shim!InOrder(items)[t]) = 1
           /\ \A t, u \in 0..(Texts - 1) :
                 Shim!InOrder(items)[t] = Shim!InOrder(items)[u] => t = u
<1>1. PICK k \in (Texts - 1)..(Texts + 1) : items \in [1..k -> 0..Texts]
  BY DEF Shim!Lists
<1>2. DOMAIN items = 1..Texts
  <2>1. CASE k \in Nat
    <3>1. items \in Seq(0..Texts)
      BY <1>1, <2>1, SeqDef
    <3>2. DOMAIN items = 1..Len(items)
      BY <3>1
    <3>. QED
      BY <3>2 DEF Shim!Valid
  <2>2. CASE k \notin Nat
    <3>1. k = -1 /\ Texts = 0
      BY <1>1, <2>2, ShimAssumption
    <3>2. 1..k = {} /\ 1..Texts = {}
      BY <3>1
    <3>. QED
      BY <1>1, <3>2
  <2>. QED
    BY <2>1, <2>2
<1>3. items \in [1..Texts -> 0..(Texts - 1)]
  BY <1>1, <1>2, ShimAssumption DEF Shim!Valid
<1>4. items \in Injection(1..Texts, 0..(Texts - 1))
  BY <1>2, <1>3 DEF Shim!Valid, Injection, IsInjective
<1>5. items \in Surjection(1..Texts, 0..(Texts - 1))
  <2>1. /\ IsFiniteSet(1..Texts) /\ Cardinality(1..Texts) = Texts
        /\ IsFiniteSet(0..(Texts - 1)) /\ Cardinality(0..(Texts - 1)) = Texts
    BY FS_Interval, ShimAssumption
  <2>. QED
    BY <1>4, <2>1, FS_Injection
<1>6. ASSUME NEW t \in 0..(Texts - 1)
      PROVE  \E i \in 1..Texts : Shim!InOrder(items)[t] = {i} /\ items[i] = t
  <2>1. PICK i \in 1..Texts : items[i] = t
    BY <1>5 DEF Surjection
  <2>2. Shim!InOrder(items)[t] = {j \in 1..Texts : items[j] = t}
    BY <1>2 DEF Shim!InOrder
  <2>3. \A j \in 1..Texts : items[j] = t => j = i
    BY <1>2, <2>1 DEF Shim!Valid
  <2>. QED
    BY <2>1, <2>2, <2>3
<1>7. ASSUME NEW t \in 0..(Texts - 1)
      PROVE  Cardinality(Shim!InOrder(items)[t]) = 1
  <2>1. PICK i \in 1..Texts : Shim!InOrder(items)[t] = {i}
    BY <1>6
  <2>. QED
    BY <2>1, FS_Singleton
<1>8. Shim!InOrder(items) \in [0..(Texts - 1) -> SUBSET (1..Texts)]
  BY <1>2 DEF Shim!InOrder
<1>. QED
  BY <1>6, <1>7, <1>8

-----------------------------------------------------------------------------
(* What is counted for a verdict, and after what.                          *)
LEMMA CountedValues ==
    /\ Shim!Counted("success") = <<"success">>
    /\ Shim!Counted("client") = <<"client">>
    /\ Shim!Counted("health") = <<>>
    /\ \A v \in {"http", "invalid", "unreachable"} : Shim!Counted(v) = <<"upstream">>
  BY DEF Shim!Counted

LEMMA TwoInARow ==
    ASSUME NEW S, NEW a \in S, NEW b \in S PROVE <<a>> \o <<b>> = <<a, b>>
<1>1. <<a>> \in Seq(S) /\ <<b>> \in Seq(S) /\ Len(<<a>>) = 1 /\ Len(<<b>>) = 1
  OBVIOUS
<1>2. <<a>> \o <<b>> \in Seq(S) /\ Len(<<a>> \o <<b>>) = 2
  BY <1>1
<1>3. (<<a>> \o <<b>>)[1] = a /\ (<<a>> \o <<b>>)[2] = b
  BY <1>1
<1>4. <<a, b>> \in Seq(S) /\ Len(<<a, b>>) = 2
  OBVIOUS
<1>5. \A k \in 1..2 : (<<a>> \o <<b>>)[k] = <<a, b>>[k]
  BY <1>3, <1>4
<1>. QED
  BY <1>2, <1>4, <1>5, SeqEqual

ShimHolds ==
    /\ Shim!TypeOK /\ SlotsCounted /\ OwnVectors /\ EachCounted
    /\ Shim!DecidedBySteps /\ Shim!CountedSoFar

LEMMA ShimParts == ShimHolds <=> Shim!ShimInv
  BY SameCardinality
  DEF ShimHolds, Shim!ShimInv, Shim!ShimSound, SlotsCounted, OwnVectors,
      EachCounted

LEMMA AcceptKeeps ==
    ASSUME ShimHolds, NEW r \in Requests, Shim!Accept(r)
    PROVE  ShimHolds'
<1>. USE DEF ShimHolds, Shim!Accept, Shim!Decide
<1>0. Follows(r)
  BY ShimAssumption DEF Shim!TypeOK, ThreadSteps, Shim!Goto, Follows
<1>1. /\ at' \in [Requests -> ThreadSteps]
      /\ freeSlots' \in 0..MaxActive /\ pool' \in 0..PoolSize
      /\ SlotsCounted'
  BY <1>0, SlotsFollow
<1>2. Shim!TypeOK'
  BY <1>1 DEF Shim!TypeOK, ThreadSteps, Shim!Verdicts, Shim!Goto
<1>3. OwnVectors'
  BY DEF OwnVectors, Shim!TypeOK, Shim!Goto
<1>4. EachCounted'
  BY DEF EachCounted, Shim!CountedOnce, Shim!TypeOK, Shim!CountedSoFar,
         Shim!DecidedBySteps, Shim!Goto
<1>5. Shim!DecidedBySteps' /\ Shim!CountedSoFar'
  BY DEF Shim!DecidedBySteps, Shim!CountedSoFar, Shim!TypeOK, Shim!Goto
<1>. QED
  BY <1>1, <1>2, <1>3, <1>4, <1>5

LEMMA ReadBodyKeeps ==
    ASSUME ShimHolds, NEW r \in Requests, Shim!ReadBody(r)
    PROVE  ShimHolds'
<1>. USE DEF ShimHolds, Shim!ReadBody, Shim!Decide
<1>0. Follows(r)
  BY ShimAssumption DEF Shim!TypeOK, ThreadSteps, Shim!Goto, Follows
<1>1. /\ at' \in [Requests -> ThreadSteps]
      /\ freeSlots' \in 0..MaxActive /\ pool' \in 0..PoolSize
      /\ SlotsCounted'
  BY <1>0, SlotsFollow
<1>2. Shim!TypeOK'
  BY <1>1 DEF Shim!TypeOK, ThreadSteps, Shim!Verdicts, Shim!Goto
<1>3. OwnVectors'
  BY DEF OwnVectors, Shim!TypeOK, Shim!Goto
<1>4. EachCounted'
  BY DEF EachCounted, Shim!CountedOnce, Shim!TypeOK, Shim!CountedSoFar,
         Shim!DecidedBySteps, Shim!Goto
<1>5. Shim!DecidedBySteps' /\ Shim!CountedSoFar'
  BY DEF Shim!DecidedBySteps, Shim!CountedSoFar, Shim!TypeOK, Shim!Goto
<1>. QED
  BY <1>1, <1>2, <1>3, <1>4, <1>5

LEMMA PrepareKeeps ==
    ASSUME ShimHolds, NEW r \in Requests, Shim!Prepare(r)
    PROVE  ShimHolds'
<1>. USE DEF ShimHolds, Shim!Prepare, Shim!Decide
<1>0. Follows(r)
  BY ShimAssumption DEF Shim!TypeOK, ThreadSteps, Shim!Goto, Follows
<1>1. /\ at' \in [Requests -> ThreadSteps]
      /\ freeSlots' \in 0..MaxActive /\ pool' \in 0..PoolSize
      /\ SlotsCounted'
  BY <1>0, SlotsFollow
<1>2. Shim!TypeOK'
  BY <1>1 DEF Shim!TypeOK, ThreadSteps, Shim!Verdicts, Shim!Goto
<1>3. OwnVectors'
  BY DEF OwnVectors, Shim!TypeOK, Shim!Goto
<1>4. EachCounted'
  BY DEF EachCounted, Shim!CountedOnce, Shim!TypeOK, Shim!CountedSoFar,
         Shim!DecidedBySteps, Shim!Goto
<1>5. Shim!DecidedBySteps' /\ Shim!CountedSoFar'
  BY DEF Shim!DecidedBySteps, Shim!CountedSoFar, Shim!TypeOK, Shim!Goto
<1>. QED
  BY <1>1, <1>2, <1>3, <1>4, <1>5

LEMMA AcquireKeeps ==
    ASSUME ShimHolds, NEW r \in Requests, Shim!Acquire(r)
    PROVE  ShimHolds'
<1>. USE DEF ShimHolds, Shim!Acquire, Shim!Decide
<1>0. Follows(r)
  BY ShimAssumption DEF Shim!TypeOK, ThreadSteps, Shim!Goto, Follows
<1>1. /\ at' \in [Requests -> ThreadSteps]
      /\ freeSlots' \in 0..MaxActive /\ pool' \in 0..PoolSize
      /\ SlotsCounted'
  BY <1>0, SlotsFollow
<1>2. Shim!TypeOK'
  BY <1>1 DEF Shim!TypeOK, ThreadSteps, Shim!Verdicts, Shim!Goto
<1>3. OwnVectors'
  BY DEF OwnVectors, Shim!TypeOK, Shim!Goto
<1>4. EachCounted'
  BY DEF EachCounted, Shim!CountedOnce, Shim!TypeOK, Shim!CountedSoFar,
         Shim!DecidedBySteps, Shim!Goto
<1>5. Shim!DecidedBySteps' /\ Shim!CountedSoFar'
  BY DEF Shim!DecidedBySteps, Shim!CountedSoFar, Shim!TypeOK, Shim!Goto
<1>. QED
  BY <1>1, <1>2, <1>3, <1>4, <1>5

LEMMA UpstreamKeeps ==
    ASSUME ShimHolds, NEW r \in Requests, Shim!Upstream(r)
    PROVE  ShimHolds'
<1>. USE DEF ShimHolds, Shim!Upstream, Shim!Decide, Shim!Release
<1>0. Follows(r)
  BY ShimAssumption DEF Shim!TypeOK, ThreadSteps, Shim!Goto, Follows
<1>1. /\ at' \in [Requests -> ThreadSteps]
      /\ freeSlots' \in 0..MaxActive /\ pool' \in 0..PoolSize
      /\ SlotsCounted'
  BY <1>0, SlotsFollow
<1>2. PICK v \in {"unreachable", "http", "invalid", "success", "client"} :
         /\ verdict' = [verdict EXCEPT ![r] = IF @ = "probe" THEN "health" ELSE v]
         /\ \/ vectors' = vectors /\ v # "success"
            \/ \E items \in Shim!Lists : 
                 Shim!Valid(items) /\ vectors' = [vectors EXCEPT ![r] = Shim!InOrder(items)]
  OBVIOUS
<1>3. UNCHANGED <<observed, clientGone>> /\ at[r] = "upstream" /\ at' = [at EXCEPT ![r] = "answer"]
  BY DEF Shim!Goto
<1>4. verdict' \in [Requests -> Shim!Verdicts]
  BY <1>2 DEF Shim!TypeOK, Shim!Verdicts
<1>5. /\ vectors' \in [Requests -> [0..(Texts - 1) -> SUBSET (1..Texts)] \cup {<<>>}]
      /\ OwnVectors'
  <2>1. CASE vectors' = vectors /\ v # "success"
    BY <1>2, <2>1 DEF OwnVectors, Shim!TypeOK
  <2>2. ASSUME NEW items \in Shim!Lists, Shim!Valid(items),
               vectors' = [vectors EXCEPT ![r] = Shim!InOrder(items)]
        PROVE  /\ vectors' \in [Requests -> [0..(Texts - 1) -> SUBSET (1..Texts)] \cup {<<>>}]
               /\ OwnVectors'
    <3>. DEFINE found == Shim!InOrder(items)
    <3>1. /\ found \in [0..(Texts - 1) -> SUBSET (1..Texts)]
          /\ \A t \in 0..(Texts - 1) : Cardinality(found[t]) = 1
          /\ \A t, u \in 0..(Texts - 1) : found[t] = found[u] => t = u
      BY <2>2, OneItemEach
    <3>. HIDE DEF found
    <3>2. vectors' \in [Requests -> [0..(Texts - 1) -> SUBSET (1..Texts)] \cup {<<>>}]
      BY <2>2, <3>1 DEF Shim!TypeOK, found
    <3>3. /\ vectors'[r] = found /\ DOMAIN found = 0..(Texts - 1)
          /\ \A q \in Requests \ {r} : vectors'[q] = vectors[q] /\ verdict'[q] = verdict[q]
      BY <1>2, <2>2, <3>1 DEF Shim!TypeOK, found
    <3>4. ASSUME NEW q \in Requests, verdict'[q] = "success"
          PROVE  /\ \A t \in DOMAIN vectors'[q] : Cardinality(vectors'[q][t]) = 1
                 /\ \A t, u \in DOMAIN vectors'[q] :
                       vectors'[q][t] = vectors'[q][u] => t = u
      <4>1. CASE q = r
        BY <3>1, <3>3, <4>1
      <4>2. CASE q # r
        BY <3>3, <3>4, <4>2 DEF OwnVectors
      <4>. QED
        BY <4>1, <4>2
    <3>5. OwnVectors'
      BY <3>4 DEF OwnVectors
    <3>. QED
      BY <3>2, <3>5
  <2>. QED
    BY <1>2, <2>1, <2>2
<1>6. Shim!TypeOK'
  BY <1>1, <1>3, <1>4, <1>5 DEF Shim!TypeOK, ThreadSteps
<1>7. EachCounted'
  BY <1>2, <1>3 DEF EachCounted, Shim!CountedOnce, Shim!TypeOK
<1>8. Shim!DecidedBySteps' /\ Shim!CountedSoFar'
  BY <1>2, <1>3 DEF Shim!DecidedBySteps, Shim!CountedSoFar, Shim!TypeOK
<1>. QED
  BY <1>1, <1>5, <1>6, <1>7, <1>8

(* What a request counts, as sequences.                                    *)
LEMMA OutcomeSequences ==
    LET S == {"success", "upstream", "client"}
    IN  /\ <<>> \in Seq(S) /\ <<"success">> \in Seq(S) /\ <<"client">> \in Seq(S)
        /\ <<"upstream">> \in Seq(S) /\ <<"success", "upstream">> \in Seq(S)
<1>. DEFINE S == {"success", "upstream", "client"}
<1>1. "success" \in S /\ "upstream" \in S /\ "client" \in S
  OBVIOUS
<1>. HIDE DEF S
<1>2. <<>> \in Seq(S)
  OBVIOUS
<1>3. <<"success">> \in Seq(S)
  BY <1>1
<1>4. <<"client">> \in Seq(S)
  BY <1>1
<1>5. <<"upstream">> \in Seq(S)
  BY <1>1
<1>6. <<"success", "upstream">> \in Seq(S)
  BY <1>1
<1>. QED
  BY <1>2, <1>3, <1>4, <1>5, <1>6 DEF S

LEMMA AnswerKeeps ==
    ASSUME ShimHolds, NEW r \in Requests, Shim!Answer(r)
    PROVE  ShimHolds'
<1>. USE DEF ShimHolds, Shim!Answer, Shim!Decide
<1>0. Follows(r)
  BY ShimAssumption DEF Shim!TypeOK, ThreadSteps, Shim!Goto, Follows
<1>1. /\ at' \in [Requests -> ThreadSteps]
      /\ freeSlots' \in 0..MaxActive /\ pool' \in 0..PoolSize
      /\ SlotsCounted'
  BY <1>0, SlotsFollow
<1>2. /\ verdict[r] \in Shim!Verdicts \ {"none", "probe"}
      /\ \/ observed[r] = <<>>
         \/ /\ observed[r] = <<"success">> /\ clientGone[r]
            /\ verdict[r] = "unreachable"
  BY DEF Shim!DecidedBySteps, Shim!CountedSoFar, Shim!TypeOK
<1>3. /\ observed' = [observed EXCEPT ![r] = observed'[r]]
      /\ observed'[r] = observed[r] \o Shim!Counted(verdict[r])
      /\ UNCHANGED <<vectors, clientGone>>
  BY DEF Shim!TypeOK
<1>4. \/ observed[r] = <<>> /\ observed'[r] = Shim!Counted(verdict[r])
      \/ /\ observed'[r] = <<"success", "upstream">> /\ clientGone[r]
         /\ verdict[r] = "unreachable"
  <2>1. CASE observed[r] = <<>>
    <3>1. Shim!Counted(verdict[r]) \in {<<>>, <<"success">>, <<"client">>, <<"upstream">>}
      BY <1>2, CountedValues DEF Shim!Verdicts
    <3>2. Shim!Counted(verdict[r]) \in Seq({"success", "upstream", "client"})
      BY <3>1, OutcomeSequences
    <3>3. <<>> \o Shim!Counted(verdict[r]) = Shim!Counted(verdict[r])
      BY <3>2, ConcatEmptySeq
    <3>. QED
      BY <1>3, <2>1, <3>3
  <2>2. CASE /\ observed[r] = <<"success">> /\ clientGone[r]
             /\ verdict[r] = "unreachable"
    <3>1. observed'[r] = <<"success">> \o <<"upstream">>
      BY <1>3, <2>2, CountedValues
    <3>2. <<"success">> \o <<"upstream">> = <<"success", "upstream">>
      <4>1. "success" \in {"success", "upstream"} /\ "upstream" \in {"success", "upstream"}
        OBVIOUS
      <4>. QED
        BY <4>1, TwoInARow
    <3>. QED
      BY <2>2, <3>1, <3>2
  <2>. QED
    BY <1>2, <2>1, <2>2
<1>5. observed'[r] \in {<<>>, <<"success">>, <<"client">>, <<"upstream">>, <<"success", "upstream">>}
  BY <1>2, <1>4, CountedValues DEF Shim!Verdicts
<1>6. Shim!TypeOK'
  <2>1. observed'[r] \in Seq({"success", "upstream", "client"})
    BY <1>5, OutcomeSequences
  <2>2. observed' \in [Requests -> Seq({"success", "upstream", "client"})]
    BY <1>3, <2>1 DEF Shim!TypeOK
  <2>. QED
    BY <1>1, <1>3, <2>2 DEF Shim!TypeOK, ThreadSteps, Shim!Verdicts
<1>7. OwnVectors'
  BY DEF OwnVectors, Shim!TypeOK
<1>8. CASE clientGone[r] /\ verdict[r] = "success"
  <2>1. /\ observed'[r] = <<"success">>
        /\ verdict' = [verdict EXCEPT ![r] = "unreachable"]
        /\ at' = [at EXCEPT ![r] = "answer"]
    BY <1>4, <1>8, CountedValues DEF Shim!Goto
  <2>2. EachCounted'
    BY <1>3, <2>1 DEF EachCounted, Shim!CountedOnce, Shim!TypeOK
  <2>3. Shim!DecidedBySteps' /\ Shim!CountedSoFar'
    BY <1>3, <1>8, <2>1 DEF Shim!DecidedBySteps, Shim!CountedSoFar, Shim!TypeOK
  <2>. QED
    BY <1>1, <1>6, <1>7, <2>2, <2>3
<1>9. CASE ~(clientGone[r] /\ verdict[r] = "success")
  <2>1. at' = [at EXCEPT ![r] = "release"] /\ UNCHANGED verdict
    BY <1>9 DEF Shim!Goto
  <2>2. verdict[r] # "health" =>
           \/ Len(observed'[r]) = 1
           \/ clientGone[r] /\ observed'[r] = <<"success", "upstream">>
    <3>1. verdict[r] # "health" =>
             Shim!Counted(verdict[r]) \in {<<"success">>, <<"client">>, <<"upstream">>}
      BY <1>2, CountedValues DEF Shim!Verdicts
    <3>2. \A e \in {<<"success">>, <<"client">>, <<"upstream">>} : Len(e) = 1
      OBVIOUS
    <3>. QED
      BY <1>4, <3>1, <3>2
  <2>3. EachCounted'
    BY <1>3, <2>1, <2>2 DEF EachCounted, Shim!CountedOnce, Shim!TypeOK
  <2>4. Shim!DecidedBySteps' /\ Shim!CountedSoFar'
    BY <1>3, <2>1 DEF Shim!DecidedBySteps, Shim!CountedSoFar, Shim!TypeOK
  <2>. QED
    BY <1>1, <1>6, <1>7, <2>3, <2>4
<1>. QED
  BY <1>8, <1>9

LEMMA ThreadEndsKeeps ==
    ASSUME ShimHolds, NEW r \in Requests, Shim!ThreadEnds(r)
    PROVE  ShimHolds'
<1>. USE DEF ShimHolds, Shim!ThreadEnds
<1>0. Follows(r)
  BY ShimAssumption DEF Shim!TypeOK, ThreadSteps, Shim!Goto, Follows
<1>1. /\ at' \in [Requests -> ThreadSteps]
      /\ freeSlots' \in 0..MaxActive /\ pool' \in 0..PoolSize
      /\ SlotsCounted'
  BY <1>0, SlotsFollow
<1>2. Shim!TypeOK'
  BY <1>1 DEF Shim!TypeOK, ThreadSteps, Shim!Verdicts, Shim!Goto
<1>3. OwnVectors'
  BY DEF OwnVectors, Shim!TypeOK, Shim!Goto
<1>4. EachCounted'
  BY DEF EachCounted, Shim!CountedOnce, Shim!TypeOK, Shim!CountedSoFar,
         Shim!DecidedBySteps, Shim!Goto
<1>5. Shim!DecidedBySteps' /\ Shim!CountedSoFar'
  BY DEF Shim!DecidedBySteps, Shim!CountedSoFar, Shim!TypeOK, Shim!Goto
<1>. QED
  BY <1>1, <1>2, <1>3, <1>4, <1>5

LEMMA ClientLeavesKeeps ==
    ASSUME ShimHolds, NEW r \in Requests, Shim!ClientLeaves(r)
    PROVE  ShimHolds'
<1>. USE DEF ShimHolds, Shim!ClientLeaves
<1>0. Follows(r)
  BY ShimAssumption DEF Shim!TypeOK, ThreadSteps, Shim!Goto, Follows
<1>1. /\ at' \in [Requests -> ThreadSteps]
      /\ freeSlots' \in 0..MaxActive /\ pool' \in 0..PoolSize
      /\ SlotsCounted'
  BY <1>0, SlotsFollow
<1>2. Shim!TypeOK'
  BY <1>1 DEF Shim!TypeOK, ThreadSteps, Shim!Verdicts, Shim!Goto
<1>3. OwnVectors'
  BY DEF OwnVectors, Shim!TypeOK, Shim!Goto
<1>4. EachCounted'
  BY DEF EachCounted, Shim!CountedOnce, Shim!TypeOK, Shim!CountedSoFar,
         Shim!DecidedBySteps, Shim!Goto
<1>5. Shim!DecidedBySteps' /\ Shim!CountedSoFar'
  BY DEF Shim!DecidedBySteps, Shim!CountedSoFar, Shim!TypeOK, Shim!Goto
<1>. QED
  BY <1>1, <1>2, <1>3, <1>4, <1>5

LEMMA ShimInit == Shim!Init => ShimHolds
<1>. SUFFICES ASSUME Shim!Init PROVE ShimHolds
  OBVIOUS
<1>. USE DEF Shim!Init
<1>1. Shim!InThread = {} /\ Shim!InUpstream = {}
  BY DEF Shim!InThread, Shim!InUpstream
<1>2. SlotsCounted
  BY <1>1, FS_EmptySet, ShimAssumption DEF SlotsCounted
<1>3. Shim!TypeOK
  BY OutcomeSequences, ShimAssumption DEF Shim!TypeOK, Shim!Verdicts
<1>4. OwnVectors /\ EachCounted
  BY DEF OwnVectors, EachCounted, Shim!CountedOnce
<1>5. Shim!DecidedBySteps /\ Shim!CountedSoFar
  BY DEF Shim!DecidedBySteps, Shim!CountedSoFar
<1>. QED
  BY <1>2, <1>3, <1>4, <1>5 DEF ShimHolds

LEMMA ShimStep == ShimHolds /\ [Shim!Next]_(Shim!vars) => ShimHolds'
<1>. SUFFICES ASSUME ShimHolds, [Shim!Next]_(Shim!vars) PROVE ShimHolds'
  OBVIOUS
<1>1. CASE Shim!Next
  <2>. SUFFICES ASSUME NEW r \in Requests,
                       Shim!Accept(r) \/ Shim!ThreadStep(r) \/ Shim!ClientLeaves(r)
                PROVE  ShimHolds'
    BY <1>1 DEF Shim!Next
  <2>. QED
    BY AcceptKeeps, ReadBodyKeeps, PrepareKeeps, AcquireKeeps, UpstreamKeeps,
       AnswerKeeps, ThreadEndsKeeps, ClientLeavesKeeps
    DEF Shim!ThreadStep
<1>2. CASE UNCHANGED Shim!vars
  BY <1>2
  DEF Shim!vars, ShimHolds, Shim!TypeOK, SlotsCounted, Shim!InThread,
      Shim!InUpstream, OwnVectors, EachCounted, Shim!CountedOnce,
      Shim!DecidedBySteps, Shim!CountedSoFar
<1>. QED
  BY <1>1, <1>2

-----------------------------------------------------------------------------
(***************************************************************************)
(* The preparation of a data directory.                                    *)
(***************************************************************************)

LEMMA DataInit == Data!Init => Data!InitInv
  BY DEF Data!Init, Data!InitInv, Data!InitSound, Data!OkIsComplete,
         Data!TypeOK, Data!Stores, Data!Files, Data!Missing

LEMMA DataStep == Data!InitInv /\ [Data!Next]_(Data!vars) => Data!InitInv'
<1>. SUFFICES ASSUME Data!InitInv, [Data!Next]_(Data!vars) PROVE Data!InitInv'
  OBVIOUS
<1>. USE DEF Data!InitInv, Data!InitSound, Data!OkIsComplete, Data!TypeOK,
             Data!Stores, Data!Files, Data!Missing, Data!Tell, Data!Goto, Data!Begin,
             Data!Advance
<1>1. CASE Data!Reuse \/ Data!Refuse \/ Data!Killed \/ Data!CreateVolumeFails
  BY <1>1 DEF Data!Reuse, Data!Refuse, Data!Killed, Data!CreateVolumeFails
<1>2. CASE Data!Stage
  BY <1>2 DEF Data!Stage
<1>3. CASE Data!Ready \/ Data!Bootstrap \/ Data!StopContainer
  BY <1>3 DEF Data!Ready, Data!Bootstrap, Data!StopContainer
<1>4. CASE Data!Emptied
  BY <1>4 DEF Data!Emptied
<1>5. CASE Data!CreateVolume \/ Data!RunContainer
  BY <1>5 DEF Data!CreateVolume, Data!RunContainer
<1>6. CASE Data!TimesOut \/ Data!Fails
  BY <1>6 DEF Data!TimesOut, Data!Fails
<1>7. CASE \E file \in Data!Files : Data!Copy(file)
  BY <1>7 DEF Data!Copy
<1>8. CASE Data!CopyEnds
  BY <1>8 DEF Data!CopyEnds
<1>9. CASE Data!RemoveContainer
  BY <1>9 DEF Data!RemoveContainer
<1>10. CASE Data!RemoveVolume
  BY <1>10 DEF Data!RemoveVolume
<1>11. CASE Data!Finish
  BY <1>11 DEF Data!Finish
<1>12. CASE UNCHANGED Data!vars
  BY <1>12 DEF Data!vars
<1>. QED
  BY <1>1, <1>2, <1>3, <1>4, <1>5, <1>6, <1>7, <1>8, <1>9, <1>10, <1>11, <1>12
  DEF Data!Next, Data!Command

-----------------------------------------------------------------------------
(***************************************************************************)
(* The watchdog of Beat.                                                   *)
(***************************************************************************)

(* A Beat that keeps its times is not overdue.                             *)
LEMMA BeatSound == Beat!BeatInv => Beat!OnlyHungRestarted
  BY BeatTimesAssumption, LimitsAssumption
  DEF Beat!BeatInv, Beat!TypeOK, Beat!KeepsItsTimes, Beat!OnlyHungRestarted,
      Beat!Overdue

LEMMA BeatInit == Beat!Init => Beat!BeatInv
  BY BeatTimesAssumption
  DEF Beat!Init, Beat!BeatInv, Beat!TypeOK, Beat!KeepsItsTimes

LEMMA BeatStep == Beat!BeatInv /\ [Beat!Next]_(Beat!vars) => Beat!BeatInv'
<1>. SUFFICES ASSUME Beat!BeatInv, [Beat!Next]_(Beat!vars) PROVE Beat!BeatInv'
  OBVIOUS
<1>. USE BeatTimesAssumption, LimitsAssumption
     DEF Beat!BeatInv, Beat!TypeOK, Beat!KeepsItsTimes, Beat!UpTo, Beat!watchdogVars
<1>1. CASE Beat!Publish
  BY <1>1 DEF Beat!Publish
<1>2. CASE Beat!Hang
  BY <1>2 DEF Beat!Hang
<1>3. CASE Beat!Crash
  <2>1. Beat!TypeOK'
    BY <1>3 DEF Beat!Crash
  <2>2. ~excused' => ~excused /\ beat = "up"
    BY <1>3 DEF Beat!Crash
  <2>3. Beat!KeepsItsTimes'
    BY <1>3, <2>2 DEF Beat!Crash
  <2>. QED
    BY <2>1, <2>3
<1>4. CASE Beat!Lose
  BY <1>4 DEF Beat!Lose
<1>5. CASE Beat!Suspend
  BY <1>5 DEF Beat!Suspend
<1>6. CASE Beat!Tick
  <2>1. Beat!TypeOK'
    BY <1>6 DEF Beat!Tick
  <2>2. Beat!KeepsItsTimes'
    BY <1>6 DEF Beat!Tick
  <2>. QED
    BY <2>1, <2>2
<1>7. CASE Beat!Look
  BY <1>7 DEF Beat!Look, Beat!Missing
<1>8. CASE Beat!Restart
  BY <1>8 DEF Beat!Restart
<1>9. CASE Beat!RestartFails
  BY <1>9 DEF Beat!RestartFails
<1>10. CASE UNCHANGED Beat!vars
  BY <1>10 DEF Beat!vars
<1>. QED
  BY <1>1, <1>2, <1>3, <1>4, <1>5, <1>6, <1>7, <1>8, <1>9, <1>10
  DEF Beat!Next, Beat!Watchdog

-----------------------------------------------------------------------------
(***************************************************************************)
(* The services together: a step of the whole is a step of one part, and   *)
(* leaves the others as they are.                                          *)
(***************************************************************************)

LEMMA ServicesPartsInit ==
    ServicesInit => Init /\ Shim!Init /\ Data!Init /\ Beat!Init
  BY DEF ServicesInit

LEMMA ServicesPartsStep ==
    [ServicesNext]_allVars =>
        /\ [Next]_vars /\ [Shim!Next]_(Shim!vars)
        /\ [Data!Next]_(Data!vars) /\ [Beat!Next]_(Beat!vars)
<1>. SUFFICES ASSUME [ServicesNext]_allVars
              PROVE  /\ Next \/ UNCHANGED vars
                     /\ Shim!Next \/ UNCHANGED shimVars
                     /\ Data!Next \/ UNCHANGED dataVars
                     /\ Beat!Next \/ UNCHANGED beatVars
  BY DEF shimVars, dataVars, beatVars, Shim!vars, Data!vars, Beat!vars
<1>1. CASE ServicesNext
  BY <1>1 DEF ServicesNext, Rest
<1>2. CASE UNCHANGED allVars
  BY <1>2 DEF allVars
<1>. QED
  BY <1>1, <1>2

(* Slots are neither lost nor invented by any way a request may end, and a *)
(* success gives every text its own vector whatever order the upstream     *)
(* used, for every number of requests, slots and texts                     *)
(* (process_request_thread, UpstreamConnectionPool.request,                *)
(* request_local_embeddings).                                              *)
THEOREM ServicesShimSound == ServicesSpec => []ShimSound
<1>1. ServicesInit => ShimHolds
  BY ServicesPartsInit, ShimInit
<1>2. ShimHolds /\ [ServicesNext]_allVars => ShimHolds'
  BY ServicesPartsStep, ShimStep
<1>3. ShimHolds => ShimSound
  BY ShimParts DEF Shim!ShimInv, ShimSound
<1>. QED
  BY <1>1, <1>2, <1>3, PTL DEF ServicesSpec

(* What is called initialized is complete, and nothing but an empty        *)
(* directory is written to (initialize_postgres_data,                      *)
(* initialize_opensearch_data).                                            *)
THEOREM ServicesInitSound == ServicesSpec => []InitSound
<1>1. ServicesInit => Data!InitInv
  BY ServicesPartsInit, DataInit
<1>2. Data!InitInv /\ [ServicesNext]_allVars => Data!InitInv'
  BY ServicesPartsStep, DataStep
<1>3. Data!InitInv => InitSound
  BY DEF Data!InitInv, InitSound
<1>. QED
  BY <1>1, <1>2, <1>3, PTL DEF ServicesSpec

(* Neither a Beat that keeps its times nor one that boots is restarted,    *)
(* for every period, grace and limit that leaves it room (watch).          *)
THEOREM OnlyHungBeatsRestart == ServicesSpec => []OnlyHungRestarted
<1>1. ServicesInit => Beat!BeatInv
  BY ServicesPartsInit, BeatInit
<1>2. Beat!BeatInv /\ [ServicesNext]_allVars => Beat!BeatInv'
  BY ServicesPartsStep, BeatStep
<1>3. Beat!BeatInv => OnlyHungRestarted
  BY BeatSound DEF OnlyHungRestarted
<1>. QED
  BY <1>1, <1>2, <1>3, PTL DEF ServicesSpec

=============================================================================
