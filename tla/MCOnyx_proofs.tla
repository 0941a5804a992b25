----------------------------- MODULE MCOnyx_proofs -----------------------------
(***************************************************************************)
(* Proofs about what the wrapper adds to Onyx (the page reads of open_url  *)
(* have their own, OpenUrlReads_proofs).                                   *)
(***************************************************************************)
EXTENDS MCOnyx, OpenUrlReads_proofs, SequenceTheorems

-----------------------------------------------------------------------------
(***************************************************************************)
(* The freshness of indexed documents: one lemma for each step.            *)
(***************************************************************************)

(* The instance has a definition of cardinality of its own.                *)
LEMMA SameCardinality == \A S : Freshness!Cardinality(S) = Cardinality(S)
  BY DEF Freshness!Cardinality, Cardinality

(* An attempt that is alone is the only one.                               *)
LEMMA AloneMeansOne ==
    ASSUME active \subseteq Crawls, Freshness!Alone, NEW c \in active
    PROVE  active = {c}
<1>1. IsFiniteSet(active) /\ Cardinality(active) = 1
  BY CrawlsAssumption, FS_Subset, SameCardinality DEF Freshness!Alone
<1>2. \E d : active = {d}
  BY <1>1, FS_Singleton
<1>. QED
  BY <1>2

LEMMA FreshInit == Freshness!Init => Freshness!FreshnessInv
<1>. SUFFICES ASSUME Freshness!Init PROVE Freshness!FreshnessInv
  OBVIOUS
<1>. USE VersionAssumption DEF Freshness!Init
<1>1. /\ db \in [content : {0, 1}, meta : {0}, updated : {0}, hash : {0, 1} \X {0},
                 present : BOOLEAN]
      /\ db.present => db.content = 1 /\ db.hash[1] = 1
  <2>1. Freshness!NoRow = [content |-> 0, meta |-> 0, updated |-> 0, hash |-> <<0, 0>>,
                           present |-> FALSE]
    BY DEF Freshness!NoRow, Freshness!Hash
  <2>2. Freshness!Unpatched \in [content : {1}, meta : {0}, updated : {0},
                                  hash : {<<1, 0>>}, present : {TRUE}]
    <3>1. Freshness!NoRow \in [content : {0}, meta : {0}, updated : {0},
                               hash : {<<0, 0>>}, present : {FALSE}]
      BY <2>1
    <3>. QED
      BY <3>1 DEF Freshness!Unpatched, Freshness!Hash
  <2>3. CASE db = Freshness!NoRow
    BY <2>1, <2>3
  <2>4. CASE db = Freshness!Unpatched
    <3>1. db.hash = <<1, 0>> /\ db.content = 1
      BY <2>2, <2>4
    <3>2. <<1, 0>>[1] = 1 /\ <<1, 0>> \in {0, 1} \X {0}
      OBVIOUS
    <3>. QED
      BY <2>2, <2>4, <3>1, <3>2
  <2>. QED
    BY <2>3, <2>4
<1>2. \A c \in Crawls : scraped[c] = [content |-> 0, meta |-> 0, updated |-> 0,
                                      sentinel |-> "no"]
  BY DEF Freshness!Scraped
<1>3. scraped \in [Crawls -> [content : 0..version, meta : 0..version, updated : 0..version,
                              sentinel : {"no", "unchanged", "unreadable"}]]
  BY DEF Freshness!Scraped
<1>4. Freshness!NeverAhead
  BY <1>1, <1>3 DEF Freshness!NeverAhead
<1>5. Freshness!ValidatorsFirst /\ Freshness!RowHashed /\ Freshness!SeedsTheCompared
  BY <1>1
  DEF Freshness!ValidatorsFirst, Freshness!RowHashed,
      Freshness!SeedsTheCompared, Freshness!RowKept
<1>. QED
  BY <1>4, <1>5 DEF Freshness!FreshnessInv

LEMMA StartFresh ==
    ASSUME Freshness!FreshnessInv, NEW c \in active, Freshness!Start(c)
    PROVE  Freshness!FreshnessInv'
<1>. USE VersionAssumption
     DEF Freshness!FreshnessInv, Freshness!Start, Freshness!Goto,
         Freshness!Scraped
<1>0. c \in Crawls /\ version \in Nat
  BY DEF Freshness!NeverAhead
<1>1. Freshness!NeverAhead'
  BY <1>0 DEF Freshness!NeverAhead, Freshness!Scraped, Freshness!Hash
<1>2. Freshness!ValidatorsFirst'
  BY <1>0, <1>1
  DEF Freshness!NeverAhead, Freshness!ValidatorsFirst, Freshness!Scraped
<1>3. Freshness!RowHashed'
  BY <1>0
  DEF Freshness!NeverAhead, Freshness!ValidatorsFirst, Freshness!RowHashed,
      Freshness!Hash
<1>4. Freshness!SeedsTheCompared'
  <2>0. Freshness!Alone' <=> Freshness!Alone
    BY DEF Freshness!Alone
  <2>. SUFFICES ASSUME Freshness!Alone PROVE Freshness!RowKept'
    BY <2>0 DEF Freshness!SeedsTheCompared
  <2>1. active = {c}
    BY AloneMeansOne DEF Freshness!NeverAhead
  <2>. QED
    BY <1>0, <2>1
    DEF Freshness!NeverAhead, Freshness!ValidatorsFirst, Freshness!RowHashed,
        Freshness!RowKept, Freshness!SeedsTheCompared, Freshness!SameContent,
        Freshness!Scraped, Freshness!Hash
<1>. QED
  BY <1>1, <1>2, <1>3, <1>4

LEMMA HeadAnswerFresh ==
    ASSUME Freshness!FreshnessInv, NEW c \in active, Freshness!HeadAnswer(c)
    PROVE  Freshness!FreshnessInv'
<1>. USE VersionAssumption
     DEF Freshness!FreshnessInv, Freshness!HeadAnswer, Freshness!Goto
<1>0. c \in Crawls /\ version \in Nat
  BY DEF Freshness!NeverAhead
<1>1. Freshness!NeverAhead'
  BY <1>0 DEF Freshness!NeverAhead, Freshness!Scraped, Freshness!Hash
<1>2. Freshness!ValidatorsFirst'
  BY <1>0, <1>1
  DEF Freshness!NeverAhead, Freshness!ValidatorsFirst, Freshness!Scraped
<1>3. Freshness!RowHashed'
  BY <1>0
  DEF Freshness!NeverAhead, Freshness!ValidatorsFirst, Freshness!RowHashed,
      Freshness!Hash
<1>4. Freshness!SeedsTheCompared'
  <2>0. Freshness!Alone' <=> Freshness!Alone
    BY DEF Freshness!Alone
  <2>. SUFFICES ASSUME Freshness!Alone PROVE Freshness!RowKept'
    BY <2>0 DEF Freshness!SeedsTheCompared
  <2>1. active = {c}
    BY AloneMeansOne DEF Freshness!NeverAhead
  <2>. QED
    BY <1>0, <2>1
    DEF Freshness!NeverAhead, Freshness!ValidatorsFirst, Freshness!RowHashed,
        Freshness!RowKept, Freshness!SeedsTheCompared, Freshness!SameContent,
        Freshness!Scraped, Freshness!Hash
<1>. QED
  BY <1>1, <1>2, <1>3, <1>4

LEMMA HeadUselessFresh ==
    ASSUME Freshness!FreshnessInv, NEW c \in active, Freshness!HeadUseless(c)
    PROVE  Freshness!FreshnessInv'
<1>. USE VersionAssumption
     DEF Freshness!FreshnessInv, Freshness!HeadUseless, Freshness!Goto
<1>0. c \in Crawls /\ version \in Nat
  BY DEF Freshness!NeverAhead
<1>1. Freshness!NeverAhead'
  BY <1>0 DEF Freshness!NeverAhead, Freshness!Scraped, Freshness!Hash
<1>2. Freshness!ValidatorsFirst'
  BY <1>0, <1>1
  DEF Freshness!NeverAhead, Freshness!ValidatorsFirst, Freshness!Scraped
<1>3. Freshness!RowHashed'
  BY <1>0
  DEF Freshness!NeverAhead, Freshness!ValidatorsFirst, Freshness!RowHashed,
      Freshness!Hash
<1>4. Freshness!SeedsTheCompared'
  <2>0. Freshness!Alone' <=> Freshness!Alone
    BY DEF Freshness!Alone
  <2>. SUFFICES ASSUME Freshness!Alone PROVE Freshness!RowKept'
    BY <2>0 DEF Freshness!SeedsTheCompared
  <2>1. active = {c}
    BY AloneMeansOne DEF Freshness!NeverAhead
  <2>. QED
    BY <1>0, <2>1
    DEF Freshness!NeverAhead, Freshness!ValidatorsFirst, Freshness!RowHashed,
        Freshness!RowKept, Freshness!SeedsTheCompared, Freshness!SameContent,
        Freshness!Scraped, Freshness!Hash
<1>. QED
  BY <1>1, <1>2, <1>3, <1>4

LEMMA HeadRefusedFresh ==
    ASSUME Freshness!FreshnessInv, NEW c \in active, Freshness!HeadRefused(c)
    PROVE  Freshness!FreshnessInv'
<1>. USE VersionAssumption
     DEF Freshness!FreshnessInv, Freshness!HeadRefused, Freshness!Goto,
         Freshness!Sentinel
<1>0. c \in Crawls /\ version \in Nat
  BY DEF Freshness!NeverAhead
<1>1. Freshness!NeverAhead'
  BY <1>0 DEF Freshness!NeverAhead, Freshness!Scraped, Freshness!Hash
<1>2. Freshness!ValidatorsFirst'
  BY <1>0, <1>1
  DEF Freshness!NeverAhead, Freshness!ValidatorsFirst, Freshness!Scraped
<1>3. Freshness!RowHashed'
  BY <1>0
  DEF Freshness!NeverAhead, Freshness!ValidatorsFirst, Freshness!RowHashed,
      Freshness!Hash
<1>4. Freshness!SeedsTheCompared'
  <2>0. Freshness!Alone' <=> Freshness!Alone
    BY DEF Freshness!Alone
  <2>. SUFFICES ASSUME Freshness!Alone PROVE Freshness!RowKept'
    BY <2>0 DEF Freshness!SeedsTheCompared
  <2>1. active = {c}
    BY AloneMeansOne DEF Freshness!NeverAhead
  <2>. QED
    BY <1>0, <2>1
    DEF Freshness!NeverAhead, Freshness!ValidatorsFirst, Freshness!RowHashed,
        Freshness!RowKept, Freshness!SeedsTheCompared, Freshness!SameContent,
        Freshness!Scraped, Freshness!Hash
<1>. QED
  BY <1>1, <1>2, <1>3, <1>4

LEMMA LookupFresh ==
    ASSUME Freshness!FreshnessInv, NEW c \in active, Freshness!Lookup(c)
    PROVE  Freshness!FreshnessInv'
<1>. USE VersionAssumption
     DEF Freshness!FreshnessInv, Freshness!Lookup, Freshness!Goto,
         Freshness!DocMatches, Freshness!Sentinel
<1>0. c \in Crawls /\ version \in Nat
  BY DEF Freshness!NeverAhead
<1>1. Freshness!NeverAhead'
  BY <1>0 DEF Freshness!NeverAhead, Freshness!Scraped, Freshness!Hash
<1>2. Freshness!ValidatorsFirst'
  <2>1. /\ \A d \in Crawls \ {c} : scraped'[d] = scraped[d] /\ pc'[d] = pc[d]
        /\ head' = head
        /\ \/ pc'[c] = "filter" /\ scraped'[c].sentinel = "unchanged"
           \/ pc'[c] = "get"
    BY <1>0 DEF Freshness!NeverAhead
  <2>2. Freshness!ValidatorsFirst
    OBVIOUS
  <2>. HIDE DEF Freshness!Lookup, Freshness!FreshnessInv
  <2>. QED
    BY <2>1, <2>2 DEF Freshness!ValidatorsFirst, Freshness!Scraped
<1>3. Freshness!RowHashed'
  BY <1>0
  DEF Freshness!NeverAhead, Freshness!ValidatorsFirst, Freshness!RowHashed,
      Freshness!Hash
<1>4. Freshness!SeedsTheCompared'
  <2>0. Freshness!Alone' <=> Freshness!Alone
    BY DEF Freshness!Alone
  <2>. SUFFICES ASSUME Freshness!Alone PROVE Freshness!RowKept'
    BY <2>0 DEF Freshness!SeedsTheCompared
  <2>1. active = {c}
    BY AloneMeansOne DEF Freshness!NeverAhead
  <2>. QED
    BY <1>0, <2>1
    DEF Freshness!NeverAhead, Freshness!ValidatorsFirst, Freshness!RowHashed,
        Freshness!RowKept, Freshness!SeedsTheCompared, Freshness!SameContent,
        Freshness!Scraped, Freshness!Hash
<1>. QED
  BY <1>1, <1>2, <1>3, <1>4

LEMMA GetFresh ==
    ASSUME Freshness!FreshnessInv, NEW c \in active, Freshness!Get(c)
    PROVE  Freshness!FreshnessInv'
<1>. USE VersionAssumption
     DEF Freshness!FreshnessInv, Freshness!Get, Freshness!Goto,
         Freshness!Scraped
<1>0. c \in Crawls /\ version \in Nat
  BY DEF Freshness!NeverAhead
<1>1. Freshness!NeverAhead'
  BY <1>0 DEF Freshness!NeverAhead, Freshness!Scraped, Freshness!Hash
<1>2. Freshness!ValidatorsFirst'
  BY <1>0, <1>1
  DEF Freshness!NeverAhead, Freshness!ValidatorsFirst, Freshness!Scraped
<1>3. Freshness!RowHashed'
  BY <1>0
  DEF Freshness!NeverAhead, Freshness!ValidatorsFirst, Freshness!RowHashed,
      Freshness!Hash
<1>4. Freshness!SeedsTheCompared'
  <2>0. Freshness!Alone' <=> Freshness!Alone
    BY DEF Freshness!Alone
  <2>. SUFFICES ASSUME Freshness!Alone PROVE Freshness!RowKept'
    BY <2>0 DEF Freshness!SeedsTheCompared
  <2>1. active = {c}
    BY AloneMeansOne DEF Freshness!NeverAhead
  <2>. QED
    BY <1>0, <2>1
    DEF Freshness!NeverAhead, Freshness!ValidatorsFirst, Freshness!RowHashed,
        Freshness!RowKept, Freshness!SeedsTheCompared, Freshness!SameContent,
        Freshness!Scraped, Freshness!Hash
<1>. QED
  BY <1>1, <1>2, <1>3, <1>4

LEMMA CompareFresh ==
    ASSUME Freshness!FreshnessInv, NEW c \in active, Freshness!Compare(c)
    PROVE  Freshness!FreshnessInv'
<1>. USE VersionAssumption
     DEF Freshness!FreshnessInv, Freshness!Compare, Freshness!Goto,
         Freshness!Stamp
<1>0. c \in Crawls /\ version \in Nat
  BY DEF Freshness!NeverAhead
<1>a. /\ scraped[c] \in [content : head[c]..version, meta : {0}, updated : {0},
                         sentinel : {"no"}]
      /\ head[c] \in 1..version
  BY <1>0 DEF Freshness!NeverAhead, Freshness!ValidatorsFirst, Freshness!Scraped
<1>b. Freshness!Stamp(c) \in [content : head[c]..version, meta : {head[c]},
                              updated : {head[c]}, sentinel : {"no"}]
  BY <1>a DEF Freshness!Stamp
<1>c. /\ scraped' = [scraped EXCEPT ![c] = scraped'[c]]
      /\ pc' = [pc EXCEPT ![c] = pc'[c]] /\ UNCHANGED <<head, db, active, version>>
      /\ faults' \in 0..MaxFaults
      /\ \/ pc'[c] = "seed" /\ scraped' = scraped /\ Freshness!SameContent(c)
         \/ pc'[c] = "filter" /\ scraped'[c] = Freshness!Stamp(c)
  BY <1>0 DEF Freshness!NeverAhead
<1>. HIDE DEF Freshness!Compare, Freshness!Stamp
<1>1. Freshness!NeverAhead'
  BY <1>0, <1>a, <1>b, <1>c
  DEF Freshness!NeverAhead, Freshness!Scraped, Freshness!Hash
<1>2. Freshness!ValidatorsFirst'
  BY <1>0, <1>1, <1>a, <1>b, <1>c
  DEF Freshness!NeverAhead, Freshness!ValidatorsFirst, Freshness!Scraped
<1>3. Freshness!RowHashed'
  BY <1>0, <1>a, <1>b, <1>c
  DEF Freshness!NeverAhead, Freshness!ValidatorsFirst, Freshness!RowHashed,
      Freshness!Hash
<1>4. Freshness!SeedsTheCompared'
  <2>0. Freshness!Alone' <=> Freshness!Alone
    BY <1>c DEF Freshness!Alone
  <2>. SUFFICES ASSUME Freshness!Alone PROVE Freshness!RowKept'
    BY <2>0 DEF Freshness!SeedsTheCompared
  <2>1. active = {c}
    BY AloneMeansOne DEF Freshness!NeverAhead
  <2>. QED
    BY <1>0, <1>a, <1>b, <1>c, <2>1
    DEF Freshness!NeverAhead, Freshness!ValidatorsFirst, Freshness!RowHashed,
        Freshness!RowKept, Freshness!SeedsTheCompared, Freshness!SameContent,
        Freshness!Scraped, Freshness!Hash
<1>. QED
  BY <1>1, <1>2, <1>3, <1>4

LEMMA SeedFresh ==
    ASSUME Freshness!FreshnessInv, NEW c \in active, Freshness!Seed(c)
    PROVE  Freshness!FreshnessInv'
<1>. USE VersionAssumption
     DEF Freshness!FreshnessInv, Freshness!Seed, Freshness!Goto,
         Freshness!SameContent
<1>0. c \in Crawls /\ version \in Nat
  BY DEF Freshness!NeverAhead
<1>1. Freshness!NeverAhead'
  <2>1. /\ version' = version /\ head' = head /\ active' = active /\ faults' = faults
        /\ head[c] \in 0..version
    BY <1>0 DEF Freshness!NeverAhead
  <2>2. pc' \in [Crawls -> {"idle", "head", "lookup", "get", "compare", "seed",
                            "filter", "index"}]
    BY <1>0 DEF Freshness!NeverAhead
  <2>3. scraped' \in [Crawls -> [content : 0..version, meta : 0..version,
                                 updated : 0..version,
                                 sentinel : {"no", "unchanged", "unreadable"}]]
    <3>1. [scraped[c] EXCEPT !.updated = head[c]]
             \in [content : 0..version, meta : 0..version, updated : 0..version,
                  sentinel : {"no", "unchanged", "unreadable"}]
      BY <1>0, <2>1 DEF Freshness!NeverAhead
    <3>2. scraped' = [scraped EXCEPT ![c] = [scraped[c] EXCEPT !.updated = head[c]]]
      OBVIOUS
    <3>. QED
      BY <1>0, <3>1, <3>2 DEF Freshness!NeverAhead
  <2>4. db' \in [content : 0..version, meta : 0..version, updated : 0..version,
                 hash : (0..version) \X (0..version), present : BOOLEAN]
    BY <2>1 DEF Freshness!NeverAhead
  <2>. HIDE DEF Freshness!Seed
  <2>. QED
    BY <2>1, <2>2, <2>3, <2>4 DEF Freshness!NeverAhead
<1>2. Freshness!ValidatorsFirst'
  BY <1>0, <1>1
  DEF Freshness!NeverAhead, Freshness!ValidatorsFirst, Freshness!Scraped
<1>3. Freshness!RowHashed'
  BY <1>0
  DEF Freshness!NeverAhead, Freshness!ValidatorsFirst, Freshness!RowHashed,
      Freshness!Hash
<1>4. Freshness!SeedsTheCompared'
  <2>0. Freshness!Alone' <=> Freshness!Alone
    BY DEF Freshness!Alone
  <2>. SUFFICES ASSUME Freshness!Alone PROVE Freshness!RowKept'
    BY <2>0 DEF Freshness!SeedsTheCompared
  <2>1. active = {c}
    BY AloneMeansOne DEF Freshness!NeverAhead
  <2>. QED
    BY <1>0, <2>1
    DEF Freshness!NeverAhead, Freshness!ValidatorsFirst, Freshness!RowHashed,
        Freshness!RowKept, Freshness!SeedsTheCompared, Freshness!SameContent,
        Freshness!Scraped, Freshness!Hash
<1>. QED
  BY <1>1, <1>2, <1>3, <1>4

LEMMA FilterFresh ==
    ASSUME Freshness!FreshnessInv, NEW c \in active, Freshness!Filter(c)
    PROVE  Freshness!FreshnessInv'
<1>. USE VersionAssumption
     DEF Freshness!FreshnessInv, Freshness!Filter, Freshness!Goto,
         Freshness!Skipped, Freshness!Confirmed, Freshness!Contradicted,
         Freshness!Unchanged
<1>0. c \in Crawls /\ version \in Nat
  BY DEF Freshness!NeverAhead
<1>1. Freshness!NeverAhead'
  BY <1>0 DEF Freshness!NeverAhead, Freshness!Scraped, Freshness!Hash
<1>2. Freshness!ValidatorsFirst'
  BY <1>0, <1>1
  DEF Freshness!NeverAhead, Freshness!ValidatorsFirst, Freshness!Scraped
<1>3. Freshness!RowHashed'
  BY <1>0
  DEF Freshness!NeverAhead, Freshness!ValidatorsFirst, Freshness!RowHashed,
      Freshness!Hash
<1>4. Freshness!SeedsTheCompared'
  <2>0. Freshness!Alone' <=> Freshness!Alone
    BY DEF Freshness!Alone
  <2>. SUFFICES ASSUME Freshness!Alone PROVE Freshness!RowKept'
    BY <2>0 DEF Freshness!SeedsTheCompared
  <2>1. active = {c}
    BY AloneMeansOne DEF Freshness!NeverAhead
  <2>. QED
    BY <1>0, <2>1
    DEF Freshness!NeverAhead, Freshness!ValidatorsFirst, Freshness!RowHashed,
        Freshness!RowKept, Freshness!SeedsTheCompared, Freshness!SameContent,
        Freshness!Scraped, Freshness!Hash
<1>. QED
  BY <1>1, <1>2, <1>3, <1>4

LEMMA IndexFresh ==
    ASSUME Freshness!FreshnessInv, NEW c \in active, Freshness!Index(c)
    PROVE  Freshness!FreshnessInv'
<1>. USE VersionAssumption
     DEF Freshness!FreshnessInv, Freshness!Index, Freshness!Goto
<1>0. c \in Crawls /\ version \in Nat
  BY DEF Freshness!NeverAhead
<1>1. Freshness!NeverAhead'
  BY <1>0 DEF Freshness!NeverAhead, Freshness!Scraped, Freshness!Hash
<1>2. Freshness!ValidatorsFirst'
  BY <1>0, <1>1
  DEF Freshness!NeverAhead, Freshness!ValidatorsFirst, Freshness!Scraped
<1>3. Freshness!RowHashed'
  BY <1>0
  DEF Freshness!NeverAhead, Freshness!ValidatorsFirst, Freshness!RowHashed,
      Freshness!Hash
<1>4. Freshness!SeedsTheCompared'
  <2>0. Freshness!Alone' <=> Freshness!Alone
    BY DEF Freshness!Alone
  <2>. SUFFICES ASSUME Freshness!Alone PROVE Freshness!RowKept'
    BY <2>0 DEF Freshness!SeedsTheCompared
  <2>1. active = {c}
    BY AloneMeansOne DEF Freshness!NeverAhead
  <2>2. /\ scraped[c].sentinel = "no"
        /\ scraped[c].meta # 0 =>
              scraped[c].updated # 0 /\ scraped[c].updated <= scraped[c].content
        /\ scraped[c].content \in Nat
    BY <1>0 DEF Freshness!ValidatorsFirst, Freshness!NeverAhead
  <2>3. /\ db'.meta = scraped[c].meta /\ db'.content = scraped[c].content
        /\ scraped[c].updated # 0 => db'.updated = scraped[c].updated
    OBVIOUS
  <2>4. pc'[c] = "idle"
    BY <1>0 DEF Freshness!NeverAhead
  <2>. QED
    BY <1>0, <2>1, <2>2, <2>3, <2>4
    DEF Freshness!NeverAhead, Freshness!ValidatorsFirst, Freshness!RowHashed,
        Freshness!RowKept, Freshness!SeedsTheCompared, Freshness!SameContent,
        Freshness!Scraped, Freshness!Hash
<1>. QED
  BY <1>1, <1>2, <1>3, <1>4

LEMMA AbandonFresh ==
    ASSUME Freshness!FreshnessInv, NEW c \in active, Freshness!Abandon(c)
    PROVE  Freshness!FreshnessInv'
<1>. USE VersionAssumption
     DEF Freshness!FreshnessInv, Freshness!Abandon, Freshness!Goto
<1>0. c \in Crawls /\ version \in Nat
  BY DEF Freshness!NeverAhead
<1>1. Freshness!NeverAhead'
  BY <1>0 DEF Freshness!NeverAhead, Freshness!Scraped, Freshness!Hash
<1>2. Freshness!ValidatorsFirst'
  BY <1>0, <1>1
  DEF Freshness!NeverAhead, Freshness!ValidatorsFirst, Freshness!Scraped
<1>3. Freshness!RowHashed'
  BY <1>0
  DEF Freshness!NeverAhead, Freshness!ValidatorsFirst, Freshness!RowHashed,
      Freshness!Hash
<1>4. Freshness!SeedsTheCompared'
  <2>0. Freshness!Alone' <=> Freshness!Alone
    BY DEF Freshness!Alone
  <2>. SUFFICES ASSUME Freshness!Alone PROVE Freshness!RowKept'
    BY <2>0 DEF Freshness!SeedsTheCompared
  <2>1. active = {c}
    BY AloneMeansOne DEF Freshness!NeverAhead
  <2>. QED
    BY <1>0, <2>1
    DEF Freshness!NeverAhead, Freshness!ValidatorsFirst, Freshness!RowHashed,
        Freshness!RowKept, Freshness!SeedsTheCompared, Freshness!SameContent,
        Freshness!Scraped, Freshness!Hash
<1>. QED
  BY <1>1, <1>2, <1>3, <1>4

LEMMA EditFresh ==
    ASSUME Freshness!FreshnessInv, Freshness!Edit
    PROVE  Freshness!FreshnessInv'
<1>. USE VersionAssumption DEF Freshness!FreshnessInv, Freshness!Edit
<1>1. Freshness!NeverAhead'
  BY DEF Freshness!NeverAhead
<1>2. Freshness!ValidatorsFirst' /\ Freshness!RowHashed' /\ Freshness!SeedsTheCompared'
  BY DEF Freshness!ValidatorsFirst, Freshness!Scraped, Freshness!RowHashed,
         Freshness!SeedsTheCompared, Freshness!RowKept, Freshness!Alone,
         Freshness!SameContent
<1>. QED
  BY <1>1, <1>2

LEMMA FreshStep ==
    Freshness!FreshnessInv /\ [Freshness!Next]_(Freshness!vars)
        => Freshness!FreshnessInv'
<1>. SUFFICES ASSUME Freshness!FreshnessInv, [Freshness!Next]_(Freshness!vars)
              PROVE  Freshness!FreshnessInv'
  OBVIOUS
<1>1. CASE \E c \in active :
              \/ Freshness!Step(c) \/ Freshness!HeadUseless(c)
              \/ Freshness!HeadRefused(c) \/ Freshness!Abandon(c)
  BY <1>1, StartFresh, HeadAnswerFresh, HeadUselessFresh, HeadRefusedFresh,
     LookupFresh, GetFresh, CompareFresh, SeedFresh, FilterFresh, IndexFresh,
     AbandonFresh
  DEF Freshness!Step
<1>2. CASE Freshness!Edit
  BY <1>2, EditFresh
<1>3. CASE UNCHANGED Freshness!vars
  BY <1>3
  DEF Freshness!vars, Freshness!FreshnessInv, Freshness!NeverAhead,
      Freshness!ValidatorsFirst, Freshness!Scraped, Freshness!RowHashed,
      Freshness!SeedsTheCompared, Freshness!RowKept, Freshness!Alone,
      Freshness!SameContent
<1>. QED
  BY <1>1, <1>2, <1>3 DEF Freshness!Next

(* A row that matches the file holds that file: its content is no older    *)
(* than its validators, and no newer than the file.                        *)
LEMMA FreshSound == Freshness!FreshnessInv => Freshness!FreshnessSound
<1>. SUFFICES ASSUME Freshness!FreshnessInv PROVE Freshness!FreshnessSound
  OBVIOUS
<1>1. Freshness!PlaceholderNeverIndexed
  BY VersionAssumption
  DEF Freshness!FreshnessInv, Freshness!NeverAhead, Freshness!RowHashed,
      Freshness!TypeOK, Freshness!PlaceholderNeverIndexed
<1>2. Freshness!AloneSkipIsSafe
  BY VersionAssumption
  DEF Freshness!FreshnessInv, Freshness!NeverAhead, Freshness!SeedsTheCompared,
      Freshness!RowKept, Freshness!AloneSkipIsSafe, Freshness!SkipIsSafe,
      Freshness!DocMatches
<1>. QED
  BY <1>1, <1>2 DEF Freshness!FreshnessSound

-----------------------------------------------------------------------------
(***************************************************************************)
(* The companion script of the Web UI: first what its functions keep of    *)
(* its state, then one lemma for each turn of the page's event loop.       *)
(***************************************************************************)

(* The structure of the companion's state.                                 *)
Fits(w) ==
    /\ w \in Webui!Tabs
    /\ w.rec # NONE =>
          /\ w.poll # NONE => w.poll.token = w.rec.token
          /\ w.status # NONE => w.status.token = w.rec.token
          /\ w.reloading # NONE =>
                /\ w.reloading = w.rec.token
                /\ ~w.recovery /\ w.poll = NONE /\ w.status = NONE
          /\ w.rec.hidden =>
                /\ w.poll # NONE => w.poll.purpose # "resume-eof"
                /\ w.status # NONE => w.status.purpose # "resume-eof"

(* Recovery is due, and something is on its way.                           *)
RecoveryDue(w) ==
    /\ w.rec # NONE /\ w.reloading # w.rec.token
    /\ w.rec.hidden \/ w.rec.phase # "none"

Works(w) == w.recovery \/ w.poll # NONE \/ w.status # NONE

SameMarker(v, w) ==
    /\ (v.rec # NONE) <=> (w.rec # NONE)
    /\ v.rec # NONE =>
          /\ v.rec.token = w.rec.token /\ v.rec.session = w.rec.session
          /\ w.rec.phase = "single-wait" => v.rec.phase = "single-wait"

Others(v, w) == v.owner = w.owner /\ v.reloading = w.reloading

(* Nothing is asked, or about to be.                                       *)
Calm(w) == w.rec # NONE => w.poll = NONE /\ w.status = NONE

(* A marker whose page is being replaced stays as it is.                   *)
Frozen(v, w) ==
    w.rec # NONE /\ w.reloading = w.rec.token /\ v.reloading = w.reloading =>
        /\ v.rec # NONE /\ v.rec.token = w.rec.token
        /\ v.rec.hidden = w.rec.hidden /\ v.rec.phase = w.rec.phase

(* The fields of the states and of the markers.                            *)
LEMMA TabFields ==
    ASSUME NEW w \in Webui!Tabs
    PROVE  /\ w.rec \in Webui!Markers \cup {NONE} /\ w.recovery \in BOOLEAN
           /\ w.poll \in Webui!Polls \cup {NONE}
           /\ w.status \in Webui!Statuses \cup {NONE}
           /\ w.reloading \in Webui!Tokens \cup {NONE}
           /\ w.owner \in Webui!Tokens \cup {NONE}
           /\ w.rec # NONE => /\ w.rec.token \in Webui!Tokens /\ w.rec.session \in Chats
                              /\ w.rec.hidden \in BOOLEAN /\ w.rec.phase \in Webui!Phases
                              /\ w.rec.pending \in 0..Grace /\ w.rec.multi \in BOOLEAN
  BY DEF Webui!Tabs, Webui!Markers

LEMMA CancelParts ==
    ASSUME NEW w \in Webui!Tabs, NEW t \in Webui!Tokens \cup {NONE}
    PROVE  LET v == Webui!Cancel(w, t)
           IN  /\ v \in Webui!Tabs /\ Others(v, w) /\ v.rec = w.rec
               /\ ~v.recovery /\ v.poll = NONE /\ v.status \in {w.status, NONE}
               /\ w.status # NONE /\ t \in {NONE, w.status.token} => v.status = NONE
  BY DEF Webui!Tabs, Webui!Cancel, Others, Webui!Polls, Webui!Statuses

LEMMA CancelFits ==
    ASSUME NEW w, Fits(w), NEW t \in Webui!Tokens \cup {NONE}
    PROVE  LET v == Webui!Cancel(w, t)
           IN  /\ Fits(v) /\ Others(v, w) /\ v.rec = w.rec
               /\ ~v.recovery /\ v.poll = NONE /\ v.status \in {w.status, NONE}
               /\ Webui!Marked(w, t) \/ t = NONE => v.status = NONE
               /\ Calm(w) => Calm(v)
  BY CancelParts DEF Fits, Others, Webui!Marked, Calm

LEMMA ScheduleRecoveryFits ==
    ASSUME NEW w, Fits(w)
    PROVE  LET v == Webui!ScheduleRecovery(w)
           IN  /\ Fits(v) /\ Others(v, w) /\ v.rec = w.rec
               /\ RecoveryDue(v) => v.recovery
               /\ Works(w) => Works(v)
               /\ Calm(w) => Calm(v)
  BY DEF Fits, Webui!Tabs, Webui!ScheduleRecovery, Others, RecoveryDue, Works,
         Calm

LEMMA ScheduleStatusFits ==
    ASSUME NEW w, Fits(w), w.rec # NONE, w.reloading = NONE, NEW p \in Webui!Purposes,
           p = "resume-eof" => ~w.rec.hidden
    PROVE  LET v == Webui!ScheduleStatus(w, p)
           IN  /\ Fits(v) /\ Others(v, w) /\ v.rec = w.rec
               /\ Webui!Eligible(w) => Works(v)
               /\ ~Webui!Eligible(w) => v = w
<1>1. w \in Webui!Tabs /\ w.rec \in Webui!Markers
  BY TabFields DEF Fits
<1>. DEFINE k == [token |-> w.rec.token, purpose |-> p]
            v == [w EXCEPT !.poll = k]
<1>2. k \in Webui!Polls /\ k.token = w.rec.token /\ k.purpose = p /\ k # NONE
  BY <1>1, NoneAssumption DEF Webui!Markers, Webui!Polls
<1>. HIDE DEF k
<1>3. /\ v \in Webui!Tabs /\ v.rec = w.rec /\ v.poll = k /\ v.status = w.status
      /\ v.reloading = w.reloading /\ v.owner = w.owner /\ v.recovery = w.recovery
  BY <1>1, <1>2 DEF Webui!Tabs
<1>. HIDE DEF v
<1>4. Fits(v) /\ Others(v, w) /\ v.rec = w.rec /\ Works(v)
  BY <1>2, <1>3 DEF Fits, Others, Works
<1>. QED
  BY <1>4 DEF Webui!ScheduleStatus, k, v, Others, Works

LEMMA DisownFits ==
    ASSUME NEW w, Fits(w), NEW t \in Webui!Tokens
    PROVE  LET v == Webui!Disown(w, t)
           IN  /\ Fits(v) /\ v.rec = w.rec /\ v.reloading = w.reloading
               /\ v.owner = IF w.owner = t THEN NONE ELSE w.owner
               /\ v.recovery = w.recovery /\ v.poll = w.poll /\ v.status = w.status
  BY DEF Fits, Webui!Tabs, Webui!Disown

LEMMA ClearFits ==
    ASSUME NEW w, Fits(w), NEW t \in Webui!Tokens
    PROVE  LET v == Webui!ClearMatching(w, t)
           IN  /\ Fits(v) /\ v.reloading = w.reloading
               /\ \/ /\ Webui!Marked(w, t) /\ w.reloading # t /\ v.rec = NONE
                     /\ v.owner = IF w.owner = t THEN NONE ELSE w.owner
                  \/ v = w /\ ~(Webui!Marked(w, t) /\ w.reloading # t)
<1>. DEFINE u == Webui!Cancel(w, t)
            x == [u EXCEPT !.rec = NONE, !.owner = IF @ = t THEN NONE ELSE @]
<1>1. Fits(u) /\ Others(u, w)
  BY CancelFits
<1>. HIDE DEF u
<1>2. u \in Webui!Tabs
  BY <1>1 DEF Fits
<1>3. /\ x \in Webui!Tabs /\ x.rec = NONE /\ x.reloading = u.reloading
      /\ x.owner = IF u.owner = t THEN NONE ELSE u.owner
  BY <1>2 DEF Webui!Tabs
<1>4. Webui!Marked(w, t) /\ w.reloading # t => Webui!ClearMatching(w, t) = x
  BY DEF Webui!ClearMatching, u
<1>. HIDE DEF x
<1>5. Fits(x)
  BY <1>3 DEF Fits
<1>. QED
  BY <1>1, <1>3, <1>4, <1>5 DEF Webui!ClearMatching, Others

LEMMA MarkFits ==
    ASSUME NEW w, Fits(w), NEW t \in Webui!Tokens, NEW f \in BOOLEAN
    PROVE  LET v == Webui!MarkForRecovery(w, t, f)
           IN  /\ Fits(v) /\ Others(v, w) /\ SameMarker(v, w)
               /\ Webui!Marked(w, t) /\ RecoveryDue(v) => v.recovery
               /\ ~Webui!Marked(w, t) => v = w
               /\ w.reloading = t => v = w
               /\ f /\ Webui!Marked(w, t) /\ w.reloading # t
                     /\ w.rec.phase \in {"single", "single-wait"}
                  => v.rec.phase = "single-wait"
               /\ Calm(w) => Calm(v)
<1>1. CASE w.reloading # t /\ Webui!Marked(w, t)
  <2>. DEFINE u == Webui!Cancel(w, t)
              x == [u EXCEPT !.rec.hidden = TRUE,
                             !.rec.phase = IF f /\ @ = "single" THEN "single-wait" ELSE @]
  <2>1. /\ Fits(u) /\ Others(u, w) /\ u.rec = w.rec /\ u.rec # NONE
        /\ u.poll = NONE /\ u.status = NONE
    BY <1>1, CancelFits DEF Webui!Marked
  <2>. HIDE DEF u
  <2>2. u \in Webui!Tabs /\ u.rec \in Webui!Markers
    BY <2>1, TabFields DEF Fits
  <2>3. x \in Webui!Tabs /\ x.rec \in Webui!Markers
    BY <2>2 DEF Webui!Tabs, Webui!Markers, Webui!Phases
  <2>4. /\ x.rec.token = u.rec.token /\ x.rec.session = u.rec.session
        /\ x.rec.phase = IF f /\ u.rec.phase = "single" THEN "single-wait" ELSE u.rec.phase
        /\ x.poll = u.poll /\ x.status = u.status /\ x.owner = u.owner
        /\ x.reloading = u.reloading /\ x.recovery = u.recovery
    BY <2>2 DEF Webui!Tabs, Webui!Markers
  <2>5. Fits(x) /\ Others(x, u) /\ SameMarker(x, u) /\ Calm(x)
    BY <2>1, <2>3, <2>4, NoneAssumption DEF Fits, Others, SameMarker, Calm
  <2>. HIDE DEF x
  <2>6. Webui!MarkForRecovery(w, t, f) = Webui!ScheduleRecovery(x)
    BY <1>1 DEF Webui!MarkForRecovery, x, u
  <2>. QED
    BY <1>1, <2>1, <2>4, <2>5, <2>6, ScheduleRecoveryFits DEF Others, SameMarker
<1>2. CASE ~(w.reloading # t /\ Webui!Marked(w, t))
  BY <1>2
  DEF Webui!MarkForRecovery, Others, SameMarker, RecoveryDue, Webui!Marked
<1>. QED
  BY <1>1, <1>2

LEMMA ReloadFits ==
    ASSUME NEW w, Fits(w), NEW t \in Webui!Tokens, Webui!Marked(w, t) \/ w.rec = NONE
    PROVE  LET v == Webui!ReloadForRecovery(w, t)
           IN  Fits(v) /\ v.rec = w.rec /\ v.owner = w.owner /\ v.reloading = t
<1>. DEFINE u == [w EXCEPT !.reloading = t]
<1>1. /\ u \in Webui!Tabs /\ u.rec = w.rec /\ u.poll = w.poll /\ u.status = w.status
      /\ u.owner = w.owner /\ u.reloading = t
  BY DEF Fits, Webui!Tabs
<1>. HIDE DEF u
<1>2. /\ Webui!Cancel(u, t) \in Webui!Tabs /\ Others(Webui!Cancel(u, t), u)
      /\ Webui!Cancel(u, t).rec = u.rec
      /\ ~Webui!Cancel(u, t).recovery /\ Webui!Cancel(u, t).poll = NONE
      /\ w.rec # NONE => Webui!Cancel(u, t).status = NONE
  BY <1>1, CancelParts DEF Fits, Webui!Marked
<1>3. Webui!ReloadForRecovery(w, t) = Webui!Cancel(u, t)
  BY DEF Webui!ReloadForRecovery, u
<1>. QED
  BY <1>1, <1>2, <1>3 DEF Fits, Others, Webui!Marked

LEMMA FinishFits ==
    ASSUME NEW w, Fits(w), NEW t \in Webui!Tokens
    PROVE  LET v == Webui!FinishResumeCleanly(w, t)
           IN  /\ Fits(v) /\ v.rec = w.rec /\ v.reloading = w.reloading
               /\ w.reloading = t => v = w
               /\ w.reloading # t =>
                     /\ v.owner = IF w.owner = t THEN NONE ELSE w.owner
                     /\ ~Webui!Marked(w, t) => (Works(v) <=> Works(w))
                     /\ Webui!Marked(w, t) /\ RecoveryDue(v) /\ Webui!Eligible(v) => Works(v)
               /\ ~online /\ Calm(w) => Calm(v)
<1>. DEFINE u == Webui!Disown(w, t)
<1>1. /\ Fits(u) /\ u.rec = w.rec /\ u.reloading = w.reloading
      /\ u.owner = IF w.owner = t THEN NONE ELSE w.owner
      /\ Works(u) <=> Works(w)
      /\ Calm(w) => Calm(u)
  BY DisownFits DEF Works, Calm
<1>. HIDE DEF u
<1>2. /\ Fits(Webui!ScheduleRecovery(u)) /\ Others(Webui!ScheduleRecovery(u), u)
      /\ Webui!ScheduleRecovery(u).rec = u.rec
      /\ RecoveryDue(Webui!ScheduleRecovery(u)) => Works(Webui!ScheduleRecovery(u))
      /\ Calm(u) => Calm(Webui!ScheduleRecovery(u))
  BY <1>1, ScheduleRecoveryFits DEF Works
<1>3. Webui!Marked(w, t) /\ w.reloading # t /\ ~w.rec.hidden =>
      /\ Fits(Webui!ScheduleStatus(u, "resume-eof"))
      /\ Others(Webui!ScheduleStatus(u, "resume-eof"), u)
      /\ Webui!ScheduleStatus(u, "resume-eof").rec = u.rec
      /\ Webui!Eligible(u) => Works(Webui!ScheduleStatus(u, "resume-eof"))
      /\ ~Webui!Eligible(u) => Webui!ScheduleStatus(u, "resume-eof") = u
  <2>1. Webui!Marked(w, t) /\ w.reloading # t => u.reloading = NONE
    BY <1>1 DEF Fits, Webui!Marked
  <2>. QED
    BY <1>1, <2>1, ScheduleStatusFits DEF Webui!Purposes, Webui!Marked
<1>. QED
  BY <1>1, <1>2, <1>3
  DEF Webui!FinishResumeCleanly, u, Others, Webui!Marked, Webui!Eligible

LEMMA SuspendFits ==
    ASSUME NEW w, Fits(w)
    PROVE  LET v == Webui!Suspend(w)
           IN  Fits(v) /\ Others(v, w) /\ SameMarker(v, w) /\ Frozen(v, w)
               /\ (Calm(w) => Calm(v))
<1>1. CASE w.rec = NONE
  BY <1>1 DEF Webui!Suspend, Others, SameMarker, Frozen
<1>2. CASE w.rec # NONE /\ w.rec.token = w.reloading
  <2>1. w.rec.token \in Webui!Tokens
    BY <1>2, TabFields DEF Fits
  <2>. QED
    BY <1>2, <2>1, CancelFits DEF Webui!Suspend, SameMarker, Frozen
<1>3. CASE w.rec # NONE /\ w.rec.token # w.reloading
  <2>1. w \in Webui!Tabs /\ w.rec \in Webui!Markers /\ w.rec.token \in Webui!Tokens
    BY <1>3, TabFields DEF Fits
  <2>. DEFINE u == [w EXCEPT !.rec.hidden = TRUE, !.rec.pending = 0]
              v == Webui!Cancel(u, w.rec.token)
  <2>2. 0 \in 0..Grace
    BY WebuiAssumption
  <2>3. u.rec \in Webui!Markers
    BY <2>1, <2>2 DEF Webui!Tabs, Webui!Markers
  <2>4. u \in Webui!Tabs
    BY <2>1, <2>3 DEF Webui!Tabs
  <2>5. /\ u.rec.token = w.rec.token /\ u.rec.session = w.rec.session
        /\ u.rec.phase = w.rec.phase /\ u.poll = w.poll /\ u.status = w.status
        /\ u.owner = w.owner /\ u.reloading = w.reloading
    BY <2>1 DEF Webui!Tabs, Webui!Markers
  <2>. HIDE DEF u
  <2>6. /\ v \in Webui!Tabs /\ Others(v, u) /\ v.rec = u.rec /\ ~v.recovery /\ v.poll = NONE
        /\ v.status = NONE
    BY <1>3, <2>1, <2>4, <2>5, CancelParts DEF Fits
  <2>7. Webui!Suspend(w) = v
    BY <1>3 DEF Webui!Suspend, u
  <2>. HIDE DEF v
  <2>. QED
    BY <1>3, <2>3, <2>5, <2>6, <2>7, NoneAssumption
    DEF Fits, Others, SameMarker, Frozen, Calm
<1>. QED
  BY <1>1, <1>2, <1>3

(* What a status answer leads to: a marker that is still due is worked on, *)
(* reloaded, or left to the body that owns the completion.                 *)
Judged(v, w, t) ==
    /\ Fits(v) /\ v.owner \in {w.owner, NONE} /\ v.reloading \in {NONE, t}
    /\ v.rec # NONE => /\ v.rec.token = t
                       /\ v.reloading = NONE => SameMarker(v, w)
    /\ RecoveryDue(v) /\ Webui!Eligible(v) => Works(v) \/ (w.owner = t /\ v = w)

LEMMA CompletedFits ==
    ASSUME NEW w, Fits(w), NEW t \in Webui!Tokens, Webui!Marked(w, t), w.reloading = NONE,
           NEW p \in Webui!Purposes
    PROVE  LET v == Webui!Completed(w, t, p)
           IN  /\ Judged(v, w, t)
               /\ v.rec = NONE /\ p # "resume-eof" => v.reloading = t
<1>. USE DEF Judged
<1>0. t # NONE
  BY NoneAssumption
<1>1. CASE p = "recover"
  <2>1. Fits([w EXCEPT !.rec = NONE]) /\ [w EXCEPT !.rec = NONE].rec = NONE
        /\ [w EXCEPT !.rec = NONE].owner = w.owner
    BY DEF Fits, Webui!Tabs
  <2>. QED
    BY <1>1, <2>1, ReloadFits DEF Webui!Completed, RecoveryDue
<1>2. CASE p = "resume-eof"
  BY <1>2, ClearFits DEF Webui!Completed, RecoveryDue, Webui!Marked, SameMarker
<1>3. CASE p = "single-settle" /\ w.owner = t
  BY <1>3 DEF Webui!Completed, SameMarker, Webui!Marked
<1>4. CASE ~(p \in {"recover", "resume-eof"} \/ (p = "single-settle" /\ w.owner = t))
  <2>1. Webui!Completed(w, t, p) = Webui!ReloadForRecovery(Webui!ClearMatching(w, t), t)
    BY <1>4 DEF Webui!Completed
  <2>2. /\ Webui!ClearMatching(w, t).rec = NONE /\ Fits(Webui!ClearMatching(w, t))
        /\ Webui!ClearMatching(w, t).owner \in {w.owner, NONE}
    BY <1>0, ClearFits DEF Webui!Marked
  <2>. QED
    BY <2>1, <2>2, ReloadFits DEF RecoveryDue
<1>. QED
  BY <1>1, <1>2, <1>3, <1>4

LEMMA ActiveFits ==
    ASSUME NEW w, Fits(w), NEW t \in Webui!Tokens, Webui!Marked(w, t), w.reloading = NONE,
           NEW p \in Webui!Purposes, p = "resume-eof" => ~w.rec.hidden,
           w.rec.phase # "single-wait", Webui!Eligible(w)
    PROVE  Judged(Webui!Active(w, t, p), w, t) /\ Webui!Active(w, t, p).rec # NONE
<1>. USE DEF Judged
<1>0. t # NONE /\ w.rec # NONE /\ w.rec.token = t
  BY NoneAssumption DEF Webui!Marked
<1>1. CASE p = "recover"
  <2>. DEFINE u == [w EXCEPT !.rec.hidden = FALSE, !.rec.pending = 0,
                             !.rec.phase = IF w.rec.multi THEN "multi" ELSE "single"]
  <2>1. w \in Webui!Tabs /\ w.rec \in Webui!Markers
    BY <1>0, TabFields DEF Fits
  <2>2. 0 \in 0..Grace
    BY WebuiAssumption
  <2>3. u.rec \in Webui!Markers
    BY <2>1, <2>2 DEF Webui!Tabs, Webui!Markers, Webui!Phases
  <2>4. u \in Webui!Tabs
    BY <2>1, <2>3 DEF Webui!Tabs
  <2>5. /\ u.rec.token = w.rec.token /\ u.rec.session = w.rec.session /\ ~u.rec.hidden
        /\ u.poll = w.poll /\ u.status = w.status /\ u.owner = w.owner
        /\ u.reloading = w.reloading
    BY <2>1 DEF Webui!Tabs, Webui!Markers
  <2>6. Fits(u) /\ u.rec # NONE /\ Webui!Marked(u, t)
    BY <1>0, <2>3, <2>4, <2>5, NoneAssumption DEF Fits, Webui!Marked
  <2>. HIDE DEF u
  <2>7. Webui!Active(w, t, p) = Webui!ReloadForRecovery(u, t)
    BY <1>1 DEF Webui!Active, u
  <2>. QED
    BY <1>0, <2>5, <2>6, <2>7, ReloadFits DEF RecoveryDue
<1>2. CASE p = "resume-eof"
  <2>1. Webui!Active(w, t, p) = Webui!MarkForRecovery(w, t, TRUE)
    BY <1>2 DEF Webui!Active
  <2>2. LET v == Webui!MarkForRecovery(w, t, TRUE)
        IN  /\ Fits(v) /\ Others(v, w) /\ SameMarker(v, w)
            /\ RecoveryDue(v) => v.recovery
    BY MarkFits
  <2>. QED
    BY <1>0, <2>1, <2>2 DEF Others, Works, SameMarker
<1>3. CASE p = "single-settle" /\ w.owner = t
  BY <1>0, <1>3 DEF Webui!Active, SameMarker
<1>4. CASE ~(p \in {"recover", "resume-eof"} \/ (p = "single-settle" /\ w.owner = t))
  <2>1. Webui!Active(w, t, p) = Webui!ScheduleStatus(w, p)
    BY <1>4 DEF Webui!Active
  <2>. QED
    BY <1>0, <2>1, ScheduleStatusFits DEF Others, SameMarker
<1>. QED
  BY <1>1, <1>2, <1>3, <1>4

LEMMA JudgeFits ==
    ASSUME NEW w, Fits(w), NEW t \in Webui!Tokens, Webui!Marked(w, t), w.reloading = NONE,
           NEW p \in Webui!Purposes, p = "resume-eof" => ~w.rec.hidden, Webui!Eligible(w),
           NEW got \in Webui!RunSteps \cup {"retry", "gone"}
    PROVE  LET v == Webui!Judge(w, t, p, got)
           IN  /\ Judged(v, w, t)
               /\ v.reloading = t /\ w.rec.phase = "single-wait"
                     => got \in {"none", "pending"}
               /\ v.rec = NONE /\ w.rec.hidden /\ got \in {"none", "pending"}
                     => v.reloading = t
<1>0. t # NONE /\ w.rec # NONE /\ w.rec.token = t
  BY NoneAssumption DEF Webui!Marked
<1>1. /\ Judged(Webui!ClearMatching(w, t), w, t)
      /\ Webui!ClearMatching(w, t).reloading = NONE
  BY <1>0, ClearFits DEF Judged, SameMarker, RecoveryDue, Webui!Marked
<1>2. ASSUME NEW q \in Webui!Purposes, q = "resume-eof" => ~w.rec.hidden
      PROVE  /\ Judged(Webui!ScheduleStatus(w, q), w, t)
             /\ Webui!ScheduleStatus(w, q).reloading = NONE /\ Webui!ScheduleStatus(w, q).rec # NONE
  BY <1>0, <1>2, ScheduleStatusFits DEF Judged, Others, SameMarker
<1>3. ASSUME NEW n \in 0..Grace
      PROVE  LET v == Webui!ScheduleStatus([w EXCEPT !.rec.pending = n], p)
             IN  Judged(v, w, t) /\ v.reloading = NONE /\ v.rec # NONE
  <2>. DEFINE u == [w EXCEPT !.rec.pending = n]
  <2>1. w \in Webui!Tabs /\ w.rec \in Webui!Markers
    BY <1>0, TabFields DEF Fits
  <2>2. u.rec \in Webui!Markers
    BY <2>1 DEF Webui!Tabs, Webui!Markers
  <2>3. u \in Webui!Tabs
    BY <2>1, <2>2 DEF Webui!Tabs
  <2>4. /\ u.rec.token = w.rec.token /\ u.rec.session = w.rec.session
        /\ u.rec.hidden = w.rec.hidden /\ u.rec.phase = w.rec.phase
        /\ u.poll = w.poll /\ u.status = w.status /\ u.owner = w.owner
        /\ u.reloading = w.reloading
    BY <2>1 DEF Webui!Tabs, Webui!Markers
  <2>5. Fits(u) /\ Others(u, w) /\ SameMarker(u, w) /\ u.rec # NONE /\ Webui!Eligible(u)
    BY <1>0, <2>2, <2>3, <2>4, NoneAssumption
    DEF Fits, Others, SameMarker, Webui!Eligible
  <2>. HIDE DEF u
  <2>6. /\ Fits(Webui!ScheduleStatus(u, p)) /\ Others(Webui!ScheduleStatus(u, p), u)
        /\ Webui!ScheduleStatus(u, p).rec = u.rec /\ Works(Webui!ScheduleStatus(u, p))
    BY <2>4, <2>5, ScheduleStatusFits
  <2>7. Judged(Webui!ScheduleStatus(u, p), w, t)
    BY <1>0, <2>4, <2>5, <2>6 DEF Judged, Others, SameMarker
  <2>. QED
    BY <2>4, <2>5, <2>6, <2>7 DEF u, Others
<1>4. w.rec.pending \in 0..Grace
  BY <1>0, TabFields DEF Fits
<1>5. CASE got \in {"gone", "retry"}
  BY <1>0, <1>1, <1>2, <1>5 DEF Webui!Judge
<1>6. CASE got = "pending" /\ w.rec.pending < Grace
  <2>1. w.rec.pending + 1 \in 0..Grace
    BY <1>4, <1>6, WebuiAssumption
  <2>2. Webui!Judge(w, t, p, got) = Webui!ScheduleStatus([w EXCEPT !.rec.pending = @ + 1], p)
    BY <1>6 DEF Webui!Judge
  <2>. QED
    BY <1>3, <1>6, <2>1, <2>2
<1>7. CASE got \in {"starting", "running"}
  <2>1. 0 \in 0..Grace
    BY WebuiAssumption
  <2>2. CASE w.rec.phase = "single-wait"
    BY <1>0, <1>2, <1>7, <2>2 DEF Webui!Judge, Webui!Purposes
  <2>3. CASE w.rec.phase # "single-wait" /\ got = "starting"
    BY <1>0, <1>3, <2>1, <2>3 DEF Webui!Judge
  <2>4. CASE w.rec.phase # "single-wait" /\ got = "running"
    BY <2>4, ActiveFits DEF Webui!Judge
  <2>. QED
    BY <1>7, <2>2, <2>3, <2>4
<1>8. CASE got = "none" \/ (got = "pending" /\ ~(w.rec.pending < Grace))
  <2>1. Webui!Judge(w, t, p, got) = Webui!Completed(w, t, p)
    BY <1>8 DEF Webui!Judge
  <2>. QED
    BY <1>8, <2>1, CompletedFits
<1>. QED
  BY <1>5, <1>6, <1>7, <1>8 DEF Webui!RunSteps

PageTypes ==
    /\ visible \in BOOLEAN /\ online \in BOOLEAN /\ chat \in Chats
    /\ doc \in {"loading", "live", "leaving"}
    /\ sends \in [Webui!Tokens -> Webui!StreamSteps]
    /\ resumes \in [Webui!Tokens -> Webui!StreamSteps]
    /\ sent \in 0..MaxSends
    /\ posted \subseteq [token : Webui!Tokens, session : Chats]
    /\ run \in [Chats -> Webui!RunSteps]

Watched ==
    RecoveryDue(tab) /\ Webui!Eligible(tab) /\ doc = "live" =>
        Works(tab) \/ (tab.owner = tab.rec.token /\ resumes[tab.owner] = "open")

Offline == ~online => Calm(tab)

WebuiSafe ==
    /\ PageTypes /\ Fits(tab) /\ Webui!OwnerIsOpen
    /\ Watched /\ Offline /\ Webui!ReplayRemembered

(* A step that keeps the marker, and what it knows of failed replays.      *)
LEMMA KeepsMemory ==
    ASSUME WebuiSafe, sent' = sent,
           tab'.rec # NONE =>
              /\ tab.rec # NONE /\ tab'.rec.token = tab.rec.token
              /\ tab'.reloading = NONE /\ tab.reloading = NONE => SameMarker(tab', tab),
           \A t \in Webui!Tokens :
              /\ resumes'[t] = "failed" =>
                    resumes[t] = "failed" /\ (tab'.reloading = NONE => tab.reloading = NONE)
              /\ t > sent => resumes'[t] = "none"
    PROVE  Webui!ReplayRemembered'
<1>1. tab.rec # NONE => tab.rec.token \in Webui!Tokens
  BY TabFields DEF WebuiSafe, Fits
<1>. QED
  BY <1>1 DEF WebuiSafe, Webui!ReplayRemembered, SameMarker

LEMMA WebuiParts == WebuiSafe <=> Webui!WebuiInv
  BY DEF WebuiSafe, PageTypes, Fits, Watched, RecoveryDue, Works, Offline, Calm,
         Webui!WebuiInv, Webui!PageSafe, Webui!TypeOK, Webui!RecoveryNotLost,
         Webui!WorkIsMarked, Webui!OwnerIsOpen, Webui!SuspensionOutlivesEof,
         Webui!OfflineIsCalm

LEMMA WebuiInit == Webui!Init => WebuiSafe
  BY WebuiAssumption
  DEF Webui!Init, WebuiSafe, PageTypes, Fits, Webui!Tabs, Webui!OwnerIsOpen,
      Watched, RecoveryDue, Webui!NoStreams, Webui!StreamSteps, Webui!RunSteps,
      Offline, Calm, Webui!ReplayRemembered, Webui!Tokens

(* A new send: a marker that needs nothing, on a page that waits for none. *)
LEMMA SendKeeps ==
    ASSUME WebuiSafe, NEW c \in Chats, NEW multi \in BOOLEAN, Webui!Send(c, multi)
    PROVE  WebuiSafe'
<1>1. sent' \in Webui!Tokens /\ sent' \in 0..MaxSends /\ sent' = sent + 1 /\ sent \in Nat
  BY WebuiAssumption DEF Webui!Send, WebuiSafe, PageTypes, Webui!Tokens
<1>2. PageTypes'
  BY <1>1 DEF WebuiSafe, PageTypes, Webui!Send, Webui!page, Webui!StreamSteps
<1>. DEFINE m == [token |-> sent', session |-> c, multi |-> multi,
                  hidden |-> ~visible, pending |-> 0, phase |-> "none"]
            u == Webui!Cancel(tab, NONE)
<1>3. m \in Webui!Markers
  BY <1>1, WebuiAssumption DEF WebuiSafe, PageTypes, Webui!Markers, Webui!Phases
<1>4. Fits(u) /\ u.poll = NONE /\ u.status = NONE
  BY CancelFits DEF WebuiSafe
<1>5. tab' = [u EXCEPT !.reloading = NONE, !.owner = NONE, !.rec = m]
  BY DEF Webui!Send
<1>6. m.token = sent' /\ m.phase = "none" /\ m.hidden = ~visible /\ visible' = visible
  BY DEF Webui!Send, Webui!page
<1>. HIDE DEF m, u
<1>7. /\ tab' \in Webui!Tabs /\ tab'.poll = NONE /\ tab'.status = NONE /\ tab'.owner = NONE
      /\ tab'.reloading = NONE /\ tab'.rec = m
  BY <1>3, <1>4, <1>5 DEF Fits, Webui!Tabs
<1>8. Fits(tab)' /\ Offline'
  BY <1>7 DEF Fits, Offline, Calm
<1>9. Webui!ReplayRemembered'
  <2>1. resumes' = resumes /\ resumes[sent'] = "none"
    BY <1>1 DEF WebuiSafe, Webui!ReplayRemembered, Webui!Send
  <2>2. \A t \in Webui!Tokens : t > sent' => t > sent
    BY <1>1, WebuiAssumption DEF Webui!Tokens
  <2>. QED
    BY <1>1, <1>6, <1>7, <2>1, <2>2 DEF WebuiSafe, Webui!ReplayRemembered
<1>. QED
  BY <1>2, <1>6, <1>7, <1>8, <1>9
  DEF WebuiSafe, Webui!OwnerIsOpen, Watched, RecoveryDue, Webui!Eligible

LEMMA SendAbandonedKeeps ==
    ASSUME WebuiSafe, Webui!SendAbandoned
    PROVE  WebuiSafe'
<1>1. PageTypes' /\ sent' = sent + 1 /\ sent \in Nat /\ resumes' = resumes
  BY WebuiAssumption
  DEF WebuiSafe, PageTypes, Webui!SendAbandoned, Webui!page, Webui!server
<1>. DEFINE u == Webui!Cancel(tab, NONE)
<1>2. Fits(u)
  BY CancelFits DEF WebuiSafe
<1>3. tab' = [u EXCEPT !.reloading = NONE, !.owner = NONE, !.rec = NONE]
  BY DEF Webui!SendAbandoned
<1>. HIDE DEF u
<1>4. Fits(tab)' /\ tab'.owner = NONE /\ tab'.rec = NONE
  BY <1>2, <1>3 DEF Fits, Webui!Tabs
<1>5. \A t \in Webui!Tokens : t > sent' => t > sent
  BY <1>1, WebuiAssumption DEF Webui!Tokens
<1>. QED
  BY <1>1, <1>4, <1>5
  DEF WebuiSafe, Webui!OwnerIsOpen, Watched, RecoveryDue, Offline, Calm,
      Webui!ReplayRemembered

LEMMA SendOpensKeeps ==
    ASSUME WebuiSafe, NEW t \in Webui!Tokens, Webui!SendOpens(t)
    PROVE  WebuiSafe'
  BY DEF WebuiSafe, PageTypes, Webui!OwnerIsOpen, Watched, Webui!Eligible,
         Webui!SendOpens, Webui!page, Webui!server, Webui!StreamSteps, Offline,
         Webui!ReplayRemembered

LEMMA SendRefusedKeeps ==
    ASSUME WebuiSafe, NEW t \in Webui!Tokens, Webui!SendRefused(t)
    PROVE  WebuiSafe'
<1>1. /\ UNCHANGED <<Webui!page, resumes, sent>> /\ PageTypes'
      /\ tab' = Webui!ClearMatching(tab, t)
  BY DEF WebuiSafe, PageTypes, Webui!SendRefused, Webui!page, Webui!StreamSteps
<1>2. tab'.rec = NONE \/ tab' = tab
  BY <1>1, ClearFits DEF WebuiSafe
<1>3. Webui!ReplayRemembered'
  BY <1>1, <1>2, KeepsMemory, ClearFits
  DEF WebuiSafe, Webui!ReplayRemembered, SameMarker
<1>. QED
  BY <1>1, <1>3, ClearFits
  DEF WebuiSafe, Webui!OwnerIsOpen, Watched, RecoveryDue, Webui!Eligible,
      Webui!page, Offline, Calm

LEMMA SendBreaksKeeps ==
    ASSUME WebuiSafe, NEW t \in Webui!Tokens, Webui!SendBreaks(t)
    PROVE  WebuiSafe'
<1>1. UNCHANGED <<Webui!page, resumes, sent>> /\ tab' = Webui!MarkForRecovery(tab, t, FALSE)
      /\ PageTypes'
  BY DEF WebuiSafe, PageTypes, Webui!SendBreaks, Webui!page, Webui!server,
         Webui!StreamSteps
<1>2. /\ Fits(tab)' /\ Others(tab', tab) /\ SameMarker(tab', tab)
      /\ Webui!Marked(tab, t) /\ RecoveryDue(tab') => Works(tab')
      /\ ~Webui!Marked(tab, t) => tab' = tab
      /\ Calm(tab) => Calm(tab')
  BY <1>1, MarkFits DEF WebuiSafe, Works
<1>3. Webui!ReplayRemembered'
  BY <1>1, <1>2, KeepsMemory
  DEF WebuiSafe, Webui!ReplayRemembered, SameMarker, Others
<1>. QED
  BY <1>1, <1>2, <1>3
  DEF WebuiSafe, Webui!OwnerIsOpen, Watched, Others, Webui!Eligible, Webui!page,
      Webui!Marked, RecoveryDue, Offline

LEMMA SendEndsKeeps ==
    ASSUME WebuiSafe, NEW t \in Webui!Tokens, Webui!SendEnds(t)
    PROVE  WebuiSafe'
<1>1. UNCHANGED <<Webui!page, resumes, sent>> /\ PageTypes'
  BY DEF WebuiSafe, PageTypes, Webui!SendEnds, Webui!page, Webui!server,
         Webui!StreamSteps
<1>2. CASE tab' = Webui!ScheduleRecovery(tab)
  <2>1. /\ Fits(tab)' /\ Others(tab', tab) /\ tab'.rec = tab.rec
        /\ RecoveryDue(tab') => Works(tab')
        /\ Calm(tab) => Calm(tab')
    BY <1>2, ScheduleRecoveryFits DEF WebuiSafe, Works
  <2>2. Webui!ReplayRemembered'
    BY <1>1, <2>1, KeepsMemory
    DEF WebuiSafe, Webui!ReplayRemembered, SameMarker, Others
  <2>. QED
    BY <1>1, <2>1, <2>2
    DEF WebuiSafe, Webui!OwnerIsOpen, Watched, Others, Webui!page, Offline
<1>3. CASE tab' = Webui!ClearMatching(tab, t)
  <2>1. tab'.rec = NONE \/ tab' = tab
    BY <1>3, ClearFits DEF WebuiSafe
  <2>2. Webui!ReplayRemembered'
    BY <1>1, <1>3, <2>1, KeepsMemory, ClearFits
    DEF WebuiSafe, Webui!ReplayRemembered, SameMarker
  <2>. QED
    BY <1>1, <1>3, <2>2, ClearFits
    DEF WebuiSafe, Webui!OwnerIsOpen, Watched, RecoveryDue, Webui!Eligible,
        Webui!page, Offline, Calm
<1>. QED
  BY <1>2, <1>3 DEF Webui!SendEnds

LEMMA ResumeKeeps ==
    ASSUME WebuiSafe, Webui!Resume
    PROVE  WebuiSafe'
<1>1. tab.rec.token \in Webui!Tokens
  BY TabFields DEF WebuiSafe, Fits, Webui!Resume
<1>2. Webui!ReplayRemembered'
  <2>1. tab.rec.token <= sent /\ sent \in Nat /\ \A t \in Webui!Tokens : t \in Nat
    BY WebuiAssumption
    DEF WebuiSafe, Webui!ReplayRemembered, Webui!Resume, PageTypes, Webui!Tokens
  <2>2. \A t \in Webui!Tokens : t > sent => t # tab.rec.token
    BY <1>1, <2>1
  <2>. QED
    BY <1>1, <2>1, <2>2
    DEF WebuiSafe, PageTypes, Webui!ReplayRemembered, Webui!Resume
<1>. QED
  BY <1>1, <1>2
  DEF WebuiSafe, PageTypes, Webui!OwnerIsOpen, Watched, RecoveryDue,
      Webui!Eligible, Webui!Resume, Webui!page, Webui!server, Webui!StreamSteps,
      Offline

(* A resume that was requested is of a token that was sent.                *)
LEMMA RequestedWasSent ==
    ASSUME WebuiSafe, NEW t \in Webui!Tokens, resumes[t] # "none"
    PROVE  \A r \in Webui!Tokens : r > sent => r # t
  BY DEF WebuiSafe, Webui!ReplayRemembered

LEMMA ResumeOpensKeeps ==
    ASSUME WebuiSafe, NEW t \in Webui!Tokens, Webui!ResumeOpens(t)
    PROVE  WebuiSafe'
<1>1. PageTypes' /\ sent' = sent
  BY DEF WebuiSafe, PageTypes, Webui!ResumeOpens, Webui!page, Webui!server,
         Webui!StreamSteps
<1>2. \A r \in Webui!Tokens :
         /\ resumes'[r] = "failed" => resumes[r] = "failed"
         /\ r > sent => resumes'[r] = "none"
  BY RequestedWasSent
  DEF Webui!ResumeOpens, WebuiSafe, PageTypes, Webui!ReplayRemembered
<1>3. CASE Webui!Marked(tab, t)
  <2>. DEFINE u == [tab EXCEPT !.owner = t]
  <2>1. /\ Fits(u) /\ u.owner = t /\ u.rec = tab.rec /\ u.reloading = tab.reloading
        /\ Calm(tab) => Calm(u)
    BY DEF WebuiSafe, Fits, Webui!Tabs, Calm
  <2>2. tab' = Webui!Cancel(u, t) /\ resumes'[t] = "open"
    BY <1>3 DEF Webui!ResumeOpens, WebuiSafe, PageTypes
  <2>. HIDE DEF u
  <2>3. /\ Fits(tab)' /\ tab'.owner = t /\ tab'.rec = tab.rec
        /\ tab'.reloading = tab.reloading
        /\ Calm(tab) => Calm(tab')
    BY <2>1, <2>2, CancelFits DEF Others
  <2>4. Webui!ReplayRemembered'
    BY <1>1, <1>2, <2>3, KeepsMemory DEF SameMarker
  <2>. QED
    BY <1>1, <1>3, <2>2, <2>3, <2>4
    DEF WebuiSafe, Webui!OwnerIsOpen, Watched, Webui!Marked, Offline,
        Webui!ResumeOpens, Webui!page
<1>4. CASE ~Webui!Marked(tab, t)
  <2>1. tab' = tab
    BY <1>4 DEF Webui!ResumeOpens
  <2>2. Webui!ReplayRemembered'
    BY <1>1, <1>2, <2>1, KeepsMemory DEF SameMarker
  <2>. QED
    BY <1>1, <1>4, <2>1, <2>2
    DEF WebuiSafe, PageTypes, Webui!OwnerIsOpen, Watched, RecoveryDue,
        Webui!Eligible, Webui!ResumeOpens, Webui!page, Webui!server, Offline
<1>. QED
  BY <1>3, <1>4

LEMMA ResumeRefusedKeeps ==
    ASSUME WebuiSafe, NEW t \in Webui!Tokens, Webui!ResumeRefused(t)
    PROVE  WebuiSafe'
<1>1. PageTypes' /\ UNCHANGED <<Webui!page, sent>>
  BY DEF WebuiSafe, PageTypes, Webui!ResumeRefused, Webui!Broken, Webui!page,
         Webui!server, Webui!StreamSteps
<1>2. /\ Fits(tab)' /\ Others(tab', tab) /\ SameMarker(tab', tab)
      /\ Webui!Marked(tab, t) /\ RecoveryDue(tab') => Works(tab')
      /\ ~Webui!Marked(tab, t) => tab' = tab
      /\ Calm(tab) => Calm(tab')
      /\ Webui!Marked(tab, t) /\ tab.reloading # t
            /\ tab.rec.phase \in {"single", "single-wait"}
         => tab'.rec.phase = "single-wait"
  BY MarkFits DEF WebuiSafe, Webui!ResumeRefused, Works
<1>3. Webui!OwnerIsOpen'
  BY <1>2, TabFields
  DEF WebuiSafe, Fits, PageTypes, Webui!OwnerIsOpen, Others, Webui!ResumeRefused
<1>4. Watched'
  BY <1>2, TabFields
  DEF WebuiSafe, PageTypes, Watched, RecoveryDue, Webui!Eligible, Webui!Marked,
      Webui!ResumeRefused, Webui!page, Fits
<1>5. Webui!ReplayRemembered'
  <2>1. \A r \in Webui!Tokens : r > sent => resumes'[r] = "none"
    BY RequestedWasSent
    DEF Webui!ResumeRefused, WebuiSafe, PageTypes, Webui!ReplayRemembered
  <2>2. \A r \in Webui!Tokens \ {t} : resumes'[r] = resumes[r]
    BY DEF Webui!ResumeRefused, WebuiSafe, PageTypes
  <2>3. resumes'[t] = "failed" =>
           Webui!Marked(tab, t) /\ tab.rec.phase \in {"single", "single-wait"}
    BY DEF Webui!ResumeRefused, Webui!Broken, WebuiSafe, PageTypes
  <2>4. tab.rec # NONE => tab.rec.token \in Webui!Tokens
    BY TabFields DEF WebuiSafe, Fits
  <2>. QED
    BY <1>1, <1>2, <2>1, <2>2, <2>3, <2>4, NoneAssumption
    DEF WebuiSafe, Webui!ReplayRemembered, SameMarker, Others, Webui!Marked
<1>. QED
  BY <1>1, <1>2, <1>3, <1>4, <1>5 DEF WebuiSafe, Offline, Webui!page

LEMMA ResumeBreaksKeeps ==
    ASSUME WebuiSafe, NEW t \in Webui!Tokens, Webui!ResumeBreaks(t)
    PROVE  WebuiSafe'
<1>1. PageTypes' /\ UNCHANGED <<Webui!page, sent>>
  BY DEF WebuiSafe, PageTypes, Webui!ResumeBreaks, Webui!Broken, Webui!page,
         Webui!server, Webui!StreamSteps
<1>. DEFINE u == Webui!Disown(tab, t)
<1>2. /\ Fits(u) /\ u.rec = tab.rec /\ u.reloading = tab.reloading
      /\ u.owner = IF tab.owner = t THEN NONE ELSE tab.owner
      /\ Works(u) <=> Works(tab)
      /\ Calm(tab) => Calm(u)
  BY DisownFits DEF WebuiSafe, Works, Calm
<1>3. tab' = Webui!MarkForRecovery(u, t, TRUE)
  BY DEF Webui!ResumeBreaks
<1>. HIDE DEF u
<1>4. /\ Fits(tab)' /\ Others(tab', u) /\ SameMarker(tab', u)
      /\ Webui!Marked(u, t) /\ RecoveryDue(tab') => Works(tab')
      /\ ~Webui!Marked(u, t) => tab' = u
      /\ Calm(u) => Calm(tab')
      /\ Webui!Marked(u, t) /\ u.reloading # t
            /\ u.rec.phase \in {"single", "single-wait"}
         => tab'.rec.phase = "single-wait"
  BY <1>2, <1>3, MarkFits DEF Works
<1>5. /\ \A r \in Webui!Tokens \ {t} : resumes'[r] = resumes[r]
      /\ resumes'[t] = "failed" =>
            Webui!Marked(tab, t) /\ tab.rec.phase \in {"single", "single-wait"}
      /\ tab.rec # NONE => tab.rec.token \in Webui!Tokens
      /\ tab.owner # NONE => tab.owner \in Webui!Tokens
  BY TabFields DEF Webui!ResumeBreaks, Webui!Broken, WebuiSafe, PageTypes, Fits
<1>6. Webui!OwnerIsOpen'
  BY <1>2, <1>4, <1>5 DEF WebuiSafe, Webui!OwnerIsOpen, Others
<1>7. Watched'
  <2>1. Webui!Marked(u, t) <=> Webui!Marked(tab, t)
    BY <1>2 DEF Webui!Marked
  <2>2. CASE Webui!Marked(tab, t)
    BY <1>4, <2>1, <2>2 DEF Watched
  <2>3. CASE ~Webui!Marked(tab, t)
    BY <1>1, <1>2, <1>4, <1>5, <2>1, <2>3
    DEF WebuiSafe, Watched, RecoveryDue, Webui!Eligible, Webui!Marked,
        Webui!page
  <2>. QED
    BY <2>2, <2>3
<1>8. Webui!ReplayRemembered'
  <2>1. \A r \in Webui!Tokens : r > sent => resumes'[r] = "none"
    BY RequestedWasSent
    DEF Webui!ResumeBreaks, WebuiSafe, PageTypes, Webui!ReplayRemembered
  <2>. QED
    BY <1>1, <1>2, <1>4, <1>5, <2>1, NoneAssumption
    DEF WebuiSafe, Webui!ReplayRemembered, SameMarker, Others, Webui!Marked
<1>. QED
  BY <1>1, <1>2, <1>4, <1>6, <1>7, <1>8 DEF WebuiSafe, Offline, Webui!page

LEMMA ResumeEndsKeeps ==
    ASSUME WebuiSafe, NEW t \in Webui!Tokens, Webui!ResumeEnds(t)
    PROVE  WebuiSafe'
<1>1. PageTypes' /\ UNCHANGED <<Webui!page, sent>>
  BY DEF WebuiSafe, PageTypes, Webui!ResumeEnds, Webui!page, Webui!server,
         Webui!StreamSteps
<1>2. /\ Fits(tab)' /\ tab'.rec = tab.rec /\ tab'.reloading = tab.reloading
      /\ tab.reloading = t => tab' = tab
      /\ tab.reloading # t =>
            /\ tab'.owner = IF tab.owner = t THEN NONE ELSE tab.owner
            /\ ~Webui!Marked(tab, t) => (Works(tab') <=> Works(tab))
            /\ Webui!Marked(tab, t) /\ RecoveryDue(tab') /\ Webui!Eligible(tab') => Works(tab')
      /\ ~online /\ Calm(tab) => Calm(tab')
  BY FinishFits DEF WebuiSafe, Webui!ResumeEnds
<1>3. Webui!OwnerIsOpen'
  BY <1>2, NoneAssumption
  DEF WebuiSafe, PageTypes, Webui!OwnerIsOpen, Webui!ResumeEnds
<1>4. Watched'
  BY <1>2, TabFields
  DEF WebuiSafe, PageTypes, Watched, RecoveryDue, Webui!Eligible, Webui!Marked,
      Webui!ResumeEnds, Webui!page, Fits
<1>5. Webui!ReplayRemembered'
  <2>1. \A r \in Webui!Tokens :
           /\ resumes'[r] = "failed" => resumes[r] = "failed"
           /\ r > sent => resumes'[r] = "none"
    BY RequestedWasSent
    DEF Webui!ResumeEnds, WebuiSafe, PageTypes, Webui!ReplayRemembered
  <2>. QED
    BY <1>1, <1>2, <2>1, KeepsMemory DEF SameMarker
<1>. QED
  BY <1>1, <1>2, <1>3, <1>4, <1>5 DEF WebuiSafe, Offline, Webui!page

LEMMA StopKeeps ==
    ASSUME WebuiSafe, Webui!Stop
    PROVE  WebuiSafe'
<1>1. /\ tab.rec.token \in Webui!Tokens /\ PageTypes'
      /\ UNCHANGED <<Webui!page, resumes, sent>>
  BY TabFields
  DEF WebuiSafe, PageTypes, Fits, Webui!Stop, Webui!page, Webui!RunSteps
<1>2. tab' = Webui!ClearMatching(tab, tab.rec.token)
  BY DEF Webui!Stop
<1>3. tab'.rec = NONE \/ tab' = tab
  BY <1>1, <1>2, ClearFits DEF WebuiSafe
<1>4. Webui!ReplayRemembered'
  BY <1>1, <1>3, KeepsMemory, <1>2, ClearFits
  DEF WebuiSafe, Webui!ReplayRemembered, SameMarker
<1>. QED
  BY <1>1, <1>2, <1>3, <1>4, ClearFits
  DEF WebuiSafe, Webui!OwnerIsOpen, Watched, RecoveryDue, Webui!Eligible,
      Webui!page, Offline, Calm

-----------------------------------------------------------------------------
(* What the timers and the requests of the companion do.                  *)
LEMMA RecoverKeeps ==
    ASSUME WebuiSafe, Webui!Recover
    PROVE  WebuiSafe'
<1>1. PageTypes' /\ UNCHANGED <<Webui!page, resumes, sent>>
  BY DEF WebuiSafe, PageTypes, Webui!Recover, Webui!page, Webui!server
<1>. DEFINE w == [tab EXCEPT !.recovery = FALSE]
<1>2. /\ Fits(w) /\ Others(w, tab) /\ w.rec = tab.rec
      /\ w.poll = tab.poll /\ w.status = tab.status
  BY DEF WebuiSafe, Fits, Webui!Tabs, Others
<1>. DEFINE x == [w EXCEPT !.rec.hidden = FALSE]
<1>3. w.rec # NONE =>
         /\ Fits(x) /\ Others(x, w) /\ x.rec # NONE
         /\ x.rec.token = w.rec.token /\ x.rec.session = w.rec.session
         /\ x.rec.phase = w.rec.phase
  <2>. SUFFICES ASSUME w.rec # NONE
                PROVE  /\ Fits(x) /\ Others(x, w) /\ x.rec # NONE
                       /\ x.rec.token = w.rec.token /\ x.rec.session = w.rec.session
                       /\ x.rec.phase = w.rec.phase
    OBVIOUS
  <2>1. w \in Webui!Tabs /\ w.rec \in Webui!Markers
    BY <1>2, TabFields DEF Fits
  <2>. HIDE DEF w
  <2>2. x \in Webui!Tabs /\ x.rec \in Webui!Markers
    BY <2>1 DEF Webui!Tabs, Webui!Markers
  <2>3. /\ x.rec.token = w.rec.token /\ x.rec.session = w.rec.session
        /\ x.rec.phase = w.rec.phase /\ ~x.rec.hidden
        /\ x.poll = w.poll /\ x.status = w.status /\ x.owner = w.owner
        /\ x.reloading = w.reloading /\ x.recovery = w.recovery
    BY <2>1 DEF Webui!Tabs, Webui!Markers
  <2>. HIDE DEF x
  <2>. QED
    BY <1>2, <2>2, <2>3, NoneAssumption DEF Fits, Others
<1>4. \/ /\ tab' = w
         /\ ~(w.rec # NONE /\ Webui!Eligible(w) /\ (w.rec.hidden \/ w.rec.phase # "none"))
      \/ w.rec # NONE /\ Webui!Eligible(w) /\ tab' = Webui!ScheduleStatus(x, "settle")
      \/ /\ w.rec # NONE /\ Webui!Eligible(w)
         /\ \E p \in {"recover", "single-settle"} : tab' = Webui!ScheduleStatus(w, p)
  <2>1. w.rec # NONE => w.rec.phase \in Webui!Phases
    BY <1>2, TabFields DEF Fits
  <2>. QED
    BY <1>2, <2>1 DEF Webui!Recover, Webui!Phases
<1>5. tab.rec # NONE => tab.reloading = NONE
  BY DEF Webui!Recover, WebuiSafe, Fits
<1>. HIDE DEF w, x
<1>6. CASE /\ tab' = w
           /\ ~(w.rec # NONE /\ Webui!Eligible(w) /\ (w.rec.hidden \/ w.rec.phase # "none"))
  <2>1. Webui!ReplayRemembered'
    BY <1>1, <1>2, <1>6, KeepsMemory
    DEF Others, SameMarker, WebuiSafe, Webui!ReplayRemembered
  <2>. QED
    BY <1>1, <1>2, <1>6, <2>1
    DEF WebuiSafe, Webui!OwnerIsOpen, Watched, RecoveryDue, Webui!Eligible,
        Others, Offline, Calm, Webui!page
<1>7. CASE w.rec # NONE /\ Webui!Eligible(w) /\ tab' = Webui!ScheduleStatus(x, "settle")
  <2>1. Webui!Eligible(x) /\ x.reloading = NONE
    BY <1>2, <1>3, <1>5, <1>7 DEF Webui!Eligible, Others
  <2>2. Fits(tab)' /\ Others(tab', x) /\ Works(tab') /\ tab'.rec = x.rec
    BY <1>3, <1>7, <2>1, ScheduleStatusFits DEF Webui!Purposes
  <2>3. Webui!ReplayRemembered'
    BY <1>1, <1>2, <1>3, <1>7, <2>2, KeepsMemory
    DEF Others, SameMarker, WebuiSafe, Webui!ReplayRemembered
  <2>. QED
    BY <1>1, <1>2, <1>3, <1>7, <2>2, <2>3
    DEF WebuiSafe, Webui!OwnerIsOpen, Watched, Others, Offline, Webui!Eligible,
        Webui!page
<1>8. CASE /\ w.rec # NONE /\ Webui!Eligible(w)
           /\ \E p \in {"recover", "single-settle"} : tab' = Webui!ScheduleStatus(w, p)
  <2>1. w.reloading = NONE
    BY <1>2, <1>5, <1>8 DEF Others
  <2>2. Fits(tab)' /\ Others(tab', w) /\ Works(tab') /\ tab'.rec = w.rec
    BY <1>2, <1>8, <2>1, ScheduleStatusFits DEF Webui!Purposes
  <2>3. Webui!ReplayRemembered'
    BY <1>1, <1>2, <2>2, KeepsMemory
    DEF Others, SameMarker, WebuiSafe, Webui!ReplayRemembered
  <2>. QED
    BY <1>1, <1>2, <1>8, <2>2, <2>3
    DEF WebuiSafe, Webui!OwnerIsOpen, Watched, Others, Offline, Webui!Eligible,
        Webui!page
<1>. QED
  BY <1>4, <1>6, <1>7, <1>8

LEMMA PollKeeps ==
    ASSUME WebuiSafe, Webui!Poll
    PROVE  WebuiSafe'
<1>1. PageTypes' /\ UNCHANGED <<Webui!page, resumes, sent>>
  BY DEF WebuiSafe, PageTypes, Webui!Poll, Webui!page, Webui!server
<1>. DEFINE w == [tab EXCEPT !.poll = NONE]
<1>2. /\ Fits(w) /\ Others(w, tab) /\ w.rec = tab.rec
      /\ w.recovery = tab.recovery /\ w.status = tab.status
      /\ Calm(tab) => Calm(w)
  BY DEF WebuiSafe, Fits, Webui!Tabs, Others, Calm
<1>3. /\ tab.poll \in Webui!Polls
      /\ tab.rec # NONE => Webui!Marked(w, tab.poll.token)
      /\ tab.rec # NONE => tab.reloading = NONE
      /\ tab.rec # NONE /\ tab.rec.hidden => tab.poll.purpose # "resume-eof"
  BY <1>2, TabFields DEF WebuiSafe, Fits, Webui!Poll, Webui!Marked
<1>. DEFINE s == [token |-> tab.poll.token, purpose |-> tab.poll.purpose,
                  session |-> w.rec.session, answer |-> NONE]
<1>4. w.rec # NONE => /\ s \in Webui!Statuses /\ s.token = w.rec.token
                      /\ s.purpose = tab.poll.purpose
  BY <1>2, <1>3, TabFields DEF Webui!Polls, Webui!Statuses, Fits, Webui!Marked
<1>5. \/ /\ w.rec # NONE /\ Webui!Eligible(w) /\ tab' = [w EXCEPT !.status = s]
      \/ /\ tab' = w /\ ~(w.rec # NONE /\ Webui!Eligible(w) /\ w.status = NONE)
  BY <1>2, <1>3 DEF Webui!Poll, Webui!Marked
<1>. HIDE DEF w, s
<1>6. CASE w.rec # NONE /\ Webui!Eligible(w) /\ tab' = [w EXCEPT !.status = s]
  <2>1. /\ tab' \in Webui!Tabs /\ tab'.rec = w.rec /\ tab'.status = s /\ tab'.poll = w.poll
        /\ tab'.reloading = w.reloading /\ tab'.owner = w.owner
    BY <1>2, <1>4, <1>6 DEF Fits, Webui!Tabs
  <2>2. Fits(tab)' /\ Others(tab', w) /\ tab'.status # NONE
    BY <1>2, <1>3, <1>4, <1>6, <2>1, NoneAssumption DEF Fits, Others
  <2>3. Webui!ReplayRemembered'
    BY <1>1, <1>2, <2>1, KeepsMemory
    DEF Others, SameMarker, WebuiSafe, Webui!ReplayRemembered
  <2>. QED
    BY <1>1, <1>2, <1>6, <2>2, <2>3
    DEF WebuiSafe, Webui!OwnerIsOpen, Watched, Works, Others, Offline,
        Webui!Eligible, Webui!page
<1>7. CASE tab' = w /\ ~(w.rec # NONE /\ Webui!Eligible(w) /\ w.status = NONE)
  <2>1. Webui!ReplayRemembered'
    BY <1>1, <1>2, <1>7, KeepsMemory
    DEF Others, SameMarker, WebuiSafe, Webui!ReplayRemembered
  <2>. QED
    BY <1>1, <1>2, <1>7, <2>1
    DEF WebuiSafe, Webui!OwnerIsOpen, Watched, Works, RecoveryDue,
        Webui!Eligible, Others, Offline, Webui!page
<1>. QED
  BY <1>5, <1>6, <1>7

(* An answer arrives at the request in flight.                             *)
LEMMA AnswerParts ==
    ASSUME WebuiSafe, Webui!ServerAnswers \/ Webui!ServerFails
    PROVE  /\ tab' \in Webui!Tabs /\ tab'.status \in Webui!Statuses
           /\ tab'.status.token = tab.status.token
           /\ tab'.status.purpose = tab.status.purpose
           /\ tab'.rec = tab.rec /\ tab'.poll = tab.poll
           /\ tab'.recovery = tab.recovery /\ Others(tab', tab)
<1>1. tab.status \in Webui!Statuses /\ tab \in Webui!Tabs
  BY TabFields
  DEF Webui!ServerAnswers, Webui!ServerFails, Webui!Waiting, WebuiSafe, Fits
<1>2. PICK got \in Webui!RunSteps \cup {"retry", "gone"} :
         tab' = [tab EXCEPT !.status.answer = got]
  BY <1>1
  DEF Webui!ServerAnswers, Webui!ServerFails, WebuiSafe, PageTypes,
      Webui!Statuses
<1>. QED
  BY <1>1, <1>2 DEF Webui!Tabs, Webui!Statuses, Others

LEMMA AnswerKeeps ==
    ASSUME WebuiSafe, Webui!ServerAnswers \/ Webui!ServerFails
    PROVE  WebuiSafe'
<1>1. PageTypes' /\ UNCHANGED <<Webui!page, resumes, sent>> /\ tab.status # NONE
  BY DEF WebuiSafe, PageTypes, Webui!ServerAnswers, Webui!ServerFails,
         Webui!Waiting, Webui!page, Webui!server
<1>2. Fits(tab)' /\ tab'.status # NONE
  BY <1>1, AnswerParts, NoneAssumption DEF WebuiSafe, Fits, Others
<1>3. Webui!ReplayRemembered'
  BY <1>1, AnswerParts, KeepsMemory
  DEF Others, SameMarker, WebuiSafe, Webui!ReplayRemembered
<1>. QED
  BY <1>1, <1>2, <1>3, AnswerParts
  DEF WebuiSafe, Webui!OwnerIsOpen, Watched, Works, Others, Offline, Calm,
      Webui!page

(* An answer is judged by a page that is not being replaced, or dropped.   *)
LEMMA StatusReturnsParts ==
    ASSUME WebuiSafe, Webui!StatusReturns
    PROVE  LET w == [tab EXCEPT !.status = NONE]
               s == tab.status
           IN  /\ Fits(w) /\ Others(w, tab) /\ w.rec = tab.rec
               /\ w.recovery = tab.recovery /\ w.poll = tab.poll
               /\ s.token \in Webui!Tokens /\ s.purpose \in Webui!Purposes
               /\ s.answer \in Webui!RunSteps \cup {"retry", "gone"}
               /\ \/ /\ Webui!Marked(w, s.token) /\ Webui!Eligible(w) /\ w.reloading = NONE
                     /\ s.purpose = "resume-eof" => ~w.rec.hidden
                     /\ tab' = Webui!Judge(w, s.token, s.purpose, s.answer)
                  \/ tab' = w /\ ~(w.rec # NONE /\ Webui!Eligible(w))
<1>. DEFINE w == [tab EXCEPT !.status = NONE]
            s == tab.status
<1>1. /\ Fits(w) /\ Others(w, tab) /\ w.rec = tab.rec
      /\ w.recovery = tab.recovery /\ w.poll = tab.poll
  BY DEF WebuiSafe, Fits, Webui!Tabs, Others
<1>2. /\ s \in Webui!Statuses /\ s.answer # NONE
      /\ tab.rec # NONE => Webui!Marked(w, s.token) /\ tab.reloading = NONE
      /\ tab.rec # NONE /\ tab.rec.hidden => s.purpose # "resume-eof"
  BY <1>1, TabFields
  DEF WebuiSafe, Fits, Webui!StatusReturns, Webui!Waiting, Webui!Marked
<1>3. /\ s.token \in Webui!Tokens /\ s.purpose \in Webui!Purposes
      /\ s.answer \in Webui!RunSteps \cup {"retry", "gone"}
  BY <1>2 DEF Webui!Statuses
<1>4. \/ /\ Webui!Marked(w, s.token) /\ Webui!Eligible(w)
         /\ tab' = Webui!Judge(w, s.token, s.purpose, s.answer)
      \/ tab' = w /\ ~(w.rec # NONE /\ Webui!Eligible(w))
  BY <1>1, <1>2 DEF Webui!StatusReturns
<1>5. w.rec \in Webui!Markers \cup {NONE}
  BY <1>1, TabFields DEF Fits
<1>. HIDE DEF w, s
<1>6. Webui!Marked(w, s.token) =>
         w.reloading = NONE /\ (s.purpose = "resume-eof" => ~w.rec.hidden)
  BY <1>1, <1>2, <1>5 DEF Webui!Marked, Others, Webui!Markers
<1>7. w = [tab EXCEPT !.status = NONE] /\ s = tab.status
  BY DEF w, s
<1>. QED
  BY <1>1, <1>3, <1>4, <1>6, <1>7

LEMMA StatusReturnsKeeps ==
    ASSUME WebuiSafe, Webui!StatusReturns
    PROVE  WebuiSafe'
<1>1. PageTypes' /\ UNCHANGED <<Webui!page, resumes, sent>>
  BY DEF WebuiSafe, PageTypes, Webui!StatusReturns, Webui!page, Webui!server
<1>. DEFINE w == [tab EXCEPT !.status = NONE]
            s == tab.status
<1>2. /\ Fits(w) /\ Others(w, tab) /\ w.rec = tab.rec
      /\ w.recovery = tab.recovery /\ w.poll = tab.poll
      /\ s.token \in Webui!Tokens /\ s.purpose \in Webui!Purposes
      /\ s.answer \in Webui!RunSteps \cup {"retry", "gone"}
  BY StatusReturnsParts
<1>3. \/ /\ Webui!Marked(w, s.token) /\ Webui!Eligible(w) /\ w.reloading = NONE
         /\ s.purpose = "resume-eof" => ~w.rec.hidden
         /\ tab' = Webui!Judge(w, s.token, s.purpose, s.answer)
      \/ tab' = w /\ ~(w.rec # NONE /\ Webui!Eligible(w))
  BY StatusReturnsParts
<1>4. Calm(tab) => Calm(w)
  BY DEF WebuiSafe, Fits, Webui!Tabs, Calm
<1>. HIDE DEF w, s
<1>5. CASE /\ Webui!Marked(w, s.token) /\ Webui!Eligible(w) /\ w.reloading = NONE
           /\ s.purpose = "resume-eof" => ~w.rec.hidden
           /\ tab' = Webui!Judge(w, s.token, s.purpose, s.answer)
  <2>1. Judged(tab', w, s.token)
    BY <1>2, <1>5, JudgeFits
  <2>2. Webui!OwnerIsOpen'
    BY <1>1, <1>2, <1>5, <2>1
    DEF Judged, WebuiSafe, Webui!OwnerIsOpen, Others, Webui!Marked, Fits
  <2>3. Watched'
    <3>1. CASE Works(tab') \/ ~RecoveryDue(tab') \/ ~Webui!Eligible(tab')
      BY <1>1, <3>1 DEF Watched, Webui!Eligible, Webui!page
    <3>2. CASE w.owner = s.token /\ tab' = w /\ RecoveryDue(tab')
      <4>1. tab'.owner = tab'.rec.token /\ tab.owner # NONE /\ tab.owner # tab.reloading
        BY <1>2, <1>5, <3>2, NoneAssumption
        DEF Others, Webui!Marked, RecoveryDue
      <4>. QED
        BY <1>1, <1>2, <3>2, <4>1
        DEF WebuiSafe, Webui!OwnerIsOpen, Watched, Others
    <3>. QED
      BY <2>1, <3>1, <3>2 DEF Judged
  <2>4. Webui!ReplayRemembered'
    <3>1. w.rec # NONE /\ w.rec.token = s.token
      BY <1>5 DEF Webui!Marked
    <3>. QED
      BY <1>1, <1>2, <1>5, <2>1, <3>1, KeepsMemory
      DEF Judged, Others, SameMarker, WebuiSafe, Webui!ReplayRemembered
  <2>. QED
    BY <1>1, <1>5, <2>1, <2>2, <2>3, <2>4
    DEF WebuiSafe, Judged, Offline, Webui!Eligible, Webui!page
<1>6. CASE tab' = w /\ ~(w.rec # NONE /\ Webui!Eligible(w))
  <2>1. Webui!ReplayRemembered'
    BY <1>1, <1>2, <1>6, KeepsMemory
    DEF Others, SameMarker, WebuiSafe, Webui!ReplayRemembered
  <2>. QED
    BY <1>1, <1>2, <1>4, <1>6, <2>1
    DEF WebuiSafe, Webui!OwnerIsOpen, Watched, RecoveryDue, Webui!Eligible,
        Others, Offline, Webui!page
<1>. QED
  BY <1>3, <1>5, <1>6

-----------------------------------------------------------------------------
(* The page's events.                                                      *)
LEMMA HideKeeps ==
    ASSUME WebuiSafe, Webui!Hide
    PROVE  WebuiSafe'
<1>1. PageTypes' /\ UNCHANGED <<online, resumes, sent>> /\ ~Webui!Eligible(tab)'
  BY DEF WebuiSafe, PageTypes, Webui!Hide, Webui!server, Webui!Eligible
<1>2. /\ Fits(tab)' /\ Others(tab', tab) /\ SameMarker(tab', tab)
      /\ Calm(tab) => Calm(tab')
  BY SuspendFits DEF WebuiSafe, Webui!Hide
<1>3. Webui!ReplayRemembered'
  BY <1>1, <1>2, KeepsMemory
  DEF Others, SameMarker, WebuiSafe, Webui!ReplayRemembered
<1>. QED
  BY <1>1, <1>2, <1>3 DEF WebuiSafe, Webui!OwnerIsOpen, Watched, Others, Offline

LEMMA ShowKeeps ==
    ASSUME WebuiSafe, Webui!Show
    PROVE  WebuiSafe'
<1>1. PageTypes' /\ UNCHANGED <<online, resumes, sent>>
  BY DEF WebuiSafe, PageTypes, Webui!Show, Webui!server
<1>2. /\ Fits(tab)' /\ Others(tab', tab) /\ tab'.rec = tab.rec
      /\ RecoveryDue(tab') => Works(tab')
      /\ Calm(tab) => Calm(tab')
  BY ScheduleRecoveryFits DEF WebuiSafe, Webui!Show, Works
<1>3. Webui!ReplayRemembered'
  BY <1>1, <1>2, KeepsMemory
  DEF Others, SameMarker, WebuiSafe, Webui!ReplayRemembered
<1>. QED
  BY <1>1, <1>2, <1>3 DEF WebuiSafe, Webui!OwnerIsOpen, Watched, Others, Offline

(* A marker whose polls are counted afresh is the same marker.             *)
LEMMA CountedAfresh ==
    ASSUME NEW w, Fits(w), w.rec # NONE
    PROVE  LET v == [w EXCEPT !.rec.pending = 0]
           IN  /\ Fits(v) /\ Others(v, w) /\ SameMarker(v, w) /\ Frozen(v, w)
               /\ v.rec # NONE /\ v.rec.token = w.rec.token /\ v.rec.session = w.rec.session
               /\ v.rec.hidden = w.rec.hidden /\ v.rec.phase = w.rec.phase
               /\ v.recovery = w.recovery /\ v.poll = w.poll /\ v.status = w.status
               /\ Calm(w) => Calm(v)
<1>. DEFINE v == [w EXCEPT !.rec.pending = 0]
<1>1. w \in Webui!Tabs /\ w.rec \in Webui!Markers /\ 0 \in 0..Grace
  BY TabFields, WebuiAssumption DEF Fits
<1>2. v \in Webui!Tabs /\ v.rec \in Webui!Markers
  BY <1>1 DEF Webui!Tabs, Webui!Markers
<1>3. /\ v.rec.token = w.rec.token /\ v.rec.session = w.rec.session
      /\ v.rec.hidden = w.rec.hidden /\ v.rec.phase = w.rec.phase
      /\ v.poll = w.poll /\ v.status = w.status /\ v.owner = w.owner
      /\ v.reloading = w.reloading /\ v.recovery = w.recovery
  BY <1>1 DEF Webui!Tabs, Webui!Markers
<1>4. v = [w EXCEPT !.rec.pending = 0]
  OBVIOUS
<1>. HIDE DEF v
<1>5. /\ Fits(v) /\ Others(v, w) /\ SameMarker(v, w) /\ Frozen(v, w) /\ v.rec # NONE
      /\ Calm(w) => Calm(v)
  BY <1>2, <1>3, NoneAssumption DEF Fits, Others, SameMarker, Frozen, Calm
<1>. QED
  BY <1>3, <1>4, <1>5

LEMMA GoOfflineParts ==
    ASSUME WebuiSafe, Webui!GoOffline
    PROVE  /\ Fits(tab)' /\ Others(tab', tab) /\ SameMarker(tab', tab)
           /\ Frozen(tab', tab) /\ Calm(tab')
<1>1. CASE tab.rec = NONE \/ tab.rec.token = tab.reloading
  <2>1. tab' = tab
    BY <1>1 DEF Webui!GoOffline
  <2>2. Calm(tab)
    BY <1>1, TabFields, NoneAssumption DEF WebuiSafe, Fits, Calm
  <2>. QED
    BY <2>1, <2>2 DEF WebuiSafe, Others, SameMarker, Frozen
<1>2. CASE ~(tab.rec = NONE \/ tab.rec.token = tab.reloading)
  <2>. DEFINE u == [tab EXCEPT !.rec.pending = 0]
  <2>1. /\ Fits(u) /\ Others(u, tab) /\ SameMarker(u, tab) /\ u.rec # NONE
        /\ u.rec.token = tab.rec.token
    BY <1>2, CountedAfresh DEF WebuiSafe
  <2>2. tab' = Webui!Cancel(u, tab.rec.token)
    BY <1>2 DEF Webui!GoOffline
  <2>. HIDE DEF u
  <2>3. tab.rec.token \in Webui!Tokens /\ Webui!Marked(u, tab.rec.token)
    BY <1>2, <2>1, TabFields DEF WebuiSafe, Fits, Webui!Marked
  <2>. QED
    BY <1>2, <2>1, <2>2, <2>3, CancelFits DEF Others, SameMarker, Frozen, Calm
<1>. QED
  BY <1>1, <1>2

LEMMA GoOfflineKeeps ==
    ASSUME WebuiSafe, Webui!GoOffline
    PROVE  WebuiSafe'
<1>1. PageTypes' /\ ~Webui!Eligible(tab)' /\ UNCHANGED <<resumes, sent>>
  BY DEF WebuiSafe, PageTypes, Webui!GoOffline, Webui!server, Webui!Eligible
<1>2. Webui!ReplayRemembered'
  BY <1>1, GoOfflineParts, KeepsMemory
  DEF Others, SameMarker, WebuiSafe, Webui!ReplayRemembered
<1>. QED
  BY <1>1, <1>2, GoOfflineParts
  DEF WebuiSafe, Webui!OwnerIsOpen, Watched, Others, Offline

LEMMA GoOnlineKeeps ==
    ASSUME WebuiSafe, Webui!GoOnline
    PROVE  WebuiSafe'
<1>1. PageTypes' /\ UNCHANGED <<resumes, sent>> /\ ~online /\ online'
  BY DEF WebuiSafe, PageTypes, Webui!GoOnline, Webui!server
<1>2. CASE tab.rec = NONE \/ tab.rec.token = tab.reloading
  <2>1. tab' = tab
    BY <1>2 DEF Webui!GoOnline
  <2>2. Webui!ReplayRemembered'
    BY <1>1, <2>1, KeepsMemory DEF SameMarker, WebuiSafe, Webui!ReplayRemembered
  <2>. QED
    BY <1>1, <1>2, <2>1, <2>2
    DEF WebuiSafe, Webui!OwnerIsOpen, Watched, RecoveryDue, Offline
<1>3. CASE ~(tab.rec = NONE \/ tab.rec.token = tab.reloading)
  <2>. DEFINE w == [tab EXCEPT !.rec.hidden = @ \/ tab.rec.phase = "none"]
  <2>1. tab \in Webui!Tabs /\ tab.rec \in Webui!Markers /\ tab.rec.token \in Webui!Tokens /\ Calm(tab)
    BY <1>1, <1>3, TabFields DEF WebuiSafe, Fits, Offline
  <2>2. w \in Webui!Tabs /\ w.rec \in Webui!Markers
    BY <2>1 DEF Webui!Tabs, Webui!Markers
  <2>3. /\ w.rec.token = tab.rec.token /\ w.rec.session = tab.rec.session
        /\ w.rec.phase = tab.rec.phase
        /\ w.poll = tab.poll /\ w.status = tab.status
        /\ w.owner = tab.owner /\ w.reloading = tab.reloading
        /\ w.recovery = tab.recovery
    BY <2>1 DEF Webui!Tabs, Webui!Markers
  <2>4. \/ tab' = w /\ w.owner = w.rec.token
        \/ tab' = Webui!ScheduleRecovery(w)
    BY <1>3 DEF Webui!GoOnline
  <2>. HIDE DEF w
  <2>5. Fits(w) /\ Others(w, tab) /\ SameMarker(w, tab) /\ w.rec # NONE
    BY <1>3, <2>1, <2>2, <2>3, NoneAssumption
    DEF WebuiSafe, Fits, Others, SameMarker, Calm
  <2>6. CASE tab' = w /\ w.owner = w.rec.token
    <3>1. Webui!ReplayRemembered'
      BY <1>1, <2>5, <2>6, KeepsMemory
      DEF Others, SameMarker, WebuiSafe, Webui!ReplayRemembered
    <3>. QED
      BY <1>1, <1>3, <2>1, <2>3, <2>5, <2>6, <3>1, NoneAssumption
      DEF WebuiSafe, Webui!OwnerIsOpen, Watched, Others, RecoveryDue, Offline
  <2>7. CASE tab' = Webui!ScheduleRecovery(w)
    <3>1. /\ Fits(tab)' /\ Others(tab', w) /\ tab'.rec = w.rec
          /\ RecoveryDue(tab') => Works(tab')
      BY <2>5, <2>7, ScheduleRecoveryFits DEF Works
    <3>2. Webui!ReplayRemembered'
      BY <1>1, <2>5, <3>1, KeepsMemory
      DEF Others, SameMarker, WebuiSafe, Webui!ReplayRemembered
    <3>. QED
      BY <1>1, <2>5, <3>1, <3>2
      DEF WebuiSafe, Webui!OwnerIsOpen, Watched, Others, Offline
  <2>. QED
    BY <2>4, <2>6, <2>7
<1>. QED
  BY <1>2, <1>3

LEMMA NavigateParts ==
    ASSUME WebuiSafe, NEW c \in Chats, Webui!Navigate(c)
    PROVE  /\ Fits(tab)' /\ Others(tab', tab) /\ SameMarker(tab', tab)
           /\ Frozen(tab', tab)
           /\ Calm(tab) => Calm(tab')
           /\ Webui!Eligible(tab)' /\ RecoveryDue(tab') => Works(tab')
<1>1. CASE tab.rec = NONE
  <2>1. tab' = tab
    BY <1>1 DEF Webui!Navigate
  <2>. QED
    BY <1>1, <2>1 DEF WebuiSafe, Others, SameMarker, Frozen, RecoveryDue
<1>2. CASE tab.rec # NONE /\ tab.rec.session = c
  <2>1. tab' = Webui!ScheduleRecovery(tab)
    BY <1>2 DEF Webui!Navigate
  <2>. QED
    BY <2>1, ScheduleRecoveryFits
    DEF WebuiSafe, Others, SameMarker, Frozen, Works
<1>3. CASE tab.rec # NONE /\ tab.rec.session # c
  <2>. DEFINE u == [tab EXCEPT !.rec.pending = 0]
  <2>1. /\ Fits(u) /\ Others(u, tab) /\ SameMarker(u, tab) /\ u.rec # NONE
        /\ Frozen(u, tab) /\ u.rec.session = tab.rec.session
        /\ Calm(tab) => Calm(u)
    BY <1>3, CountedAfresh DEF WebuiSafe
  <2>2. tab' = u
    BY <1>3 DEF Webui!Navigate
  <2>. HIDE DEF u
  <2>3. ~Webui!Eligible(tab)'
    BY <1>3, <2>1, <2>2 DEF Webui!Navigate, Webui!Eligible
  <2>. QED
    BY <2>1, <2>2, <2>3
<1>. QED
  BY <1>1, <1>2, <1>3
LEMMA NavigateKeeps ==
    ASSUME WebuiSafe, NEW c \in Chats, Webui!Navigate(c)
    PROVE  WebuiSafe'
<1>1. PageTypes' /\ UNCHANGED <<visible, online, doc, sent>>
  BY DEF WebuiSafe, PageTypes, Webui!Navigate, Webui!server, Webui!StreamSteps
<1>2. \A t \in Webui!Tokens :
         /\ resumes[t] = "open" => resumes'[t] = "open"
         /\ resumes'[t] = "failed" => resumes[t] = "failed"
         /\ resumes[t] = "none" => resumes'[t] = "none"
  BY DEF WebuiSafe, PageTypes, Webui!Navigate
<1>3. Webui!OwnerIsOpen'
  BY <1>2, NavigateParts, TabFields
  DEF WebuiSafe, Fits, Webui!OwnerIsOpen, Others
<1>4. Webui!ReplayRemembered'
  BY <1>1, <1>2, NavigateParts, KeepsMemory
  DEF Others, SameMarker, WebuiSafe, Webui!ReplayRemembered
<1>. QED
  BY <1>1, <1>3, <1>4, NavigateParts
  DEF WebuiSafe, Watched, Webui!Eligible, Offline

LEMMA PageHideKeeps ==
    ASSUME WebuiSafe, Webui!PageHide
    PROVE  WebuiSafe'
<1>1. PageTypes' /\ UNCHANGED <<online, resumes, sent>> /\ doc' # "live"
  BY DEF WebuiSafe, PageTypes, Webui!PageHide, Webui!server
<1>2. /\ Fits(tab)' /\ Others(tab', tab) /\ SameMarker(tab', tab)
      /\ Calm(tab) => Calm(tab')
  BY SuspendFits DEF WebuiSafe, Webui!PageHide
<1>3. Webui!ReplayRemembered'
  BY <1>1, <1>2, KeepsMemory
  DEF Others, SameMarker, WebuiSafe, Webui!ReplayRemembered
<1>. QED
  BY <1>1, <1>2, <1>3 DEF WebuiSafe, Webui!OwnerIsOpen, Watched, Others, Offline

(* A page that is shown again was not left by a committed reload.          *)
LEMMA PageShowKeeps ==
    ASSUME ~Cancelled, WebuiSafe, Webui!PageShow
    PROVE  WebuiSafe'
<1>1. PageTypes' /\ UNCHANGED <<online, resumes, sent>> /\ tab.reloading = NONE
  BY DEF WebuiSafe, PageTypes, Webui!PageShow, Webui!server
<1>. DEFINE w == [tab EXCEPT !.reloading = NONE]
<1>2. /\ Fits(w) /\ w.owner = tab.owner /\ w.reloading = NONE /\ w.rec = tab.rec
      /\ Calm(tab) => Calm(w)
  BY DEF WebuiSafe, Fits, Webui!Tabs, Calm
<1>3. \/ tab' = Webui!ScheduleRecovery(w)
      \/ tab' = w /\ (w.rec = NONE \/ ~(w.rec.hidden \/ w.rec.phase # "none"))
  BY DEF Webui!PageShow, Webui!Resuming
<1>. HIDE DEF w
<1>4. /\ Fits(tab)' /\ Others(tab', w) /\ tab'.rec = w.rec
      /\ RecoveryDue(tab') => Works(tab')
      /\ Calm(w) => Calm(tab')
  BY <1>2, <1>3, ScheduleRecoveryFits DEF Others, RecoveryDue, Works
<1>5. Webui!ReplayRemembered'
  BY <1>1, <1>2, <1>4, KeepsMemory
  DEF Others, SameMarker, WebuiSafe, Webui!ReplayRemembered
<1>. QED
  BY <1>1, <1>2, <1>4, <1>5
  DEF WebuiSafe, Webui!OwnerIsOpen, Watched, Others, Offline

LEMMA NewDocumentKeeps ==
    ASSUME WebuiSafe, Webui!NewDocument
    PROVE  WebuiSafe'
<1>1. /\ PageTypes' /\ doc' = "loading" /\ sent' = sent /\ online' = online
      /\ \A t \in Webui!Tokens : resumes'[t] = "none"
  BY DEF WebuiSafe, PageTypes, Webui!NewDocument, Webui!server, Webui!NoStreams,
         Webui!StreamSteps
<1>. DEFINE w == [rec |-> tab.rec, recovery |-> FALSE, poll |-> NONE,
                  status |-> NONE, reloading |-> NONE, owner |-> NONE]
<1>2. /\ w \in Webui!Tabs /\ w.owner = NONE /\ w.reloading = NONE /\ w.rec = tab.rec
      /\ w.poll = NONE /\ w.status = NONE
  BY TabFields DEF WebuiSafe, Fits, Webui!Tabs
<1>3. tab' = Webui!ScheduleRecovery(w) \/ tab' = w
  BY DEF Webui!NewDocument
<1>. HIDE DEF w
<1>4. Fits(w) /\ Calm(w)
  BY <1>2 DEF Fits, Calm
<1>5. Fits(tab)' /\ Others(tab', w) /\ tab'.rec = w.rec /\ Calm(tab')
  BY <1>3, <1>4, ScheduleRecoveryFits DEF Others
<1>6. Webui!ReplayRemembered'
  BY <1>1, <1>2, <1>5, TabFields DEF WebuiSafe, Webui!ReplayRemembered, Fits
<1>. QED
  BY <1>1, <1>2, <1>5, <1>6
  DEF WebuiSafe, Webui!OwnerIsOpen, Watched, Others, Offline

LEMMA ExpireKeeps ==
    ASSUME WebuiSafe, Webui!Expire
    PROVE  WebuiSafe'
<1>1. PageTypes' /\ UNCHANGED <<resumes, sent>>
  BY DEF WebuiSafe, PageTypes, Webui!Expire, Webui!page, Webui!server
<1>2. Fits(tab)' /\ Others(tab', tab) /\ tab'.rec = NONE
  BY DEF WebuiSafe, Fits, Webui!Tabs, Others, Webui!Expire
<1>. QED
  BY <1>1, <1>2
  DEF WebuiSafe, Webui!OwnerIsOpen, Watched, RecoveryDue, Others, Webui!Expire,
      Offline, Calm, Webui!ReplayRemembered

(* The server's own steps.                                                 *)
LEMMA ServerKeeps ==
    ASSUME WebuiSafe,
           \/ \E x \in posted : Webui!Accept(x) \/ Webui!Lose(x)
           \/ \E c \in Chats : Webui!Advance(c) \/ Webui!Finish(c)
    PROVE  WebuiSafe'
<1>1. PageTypes'
  BY DEF WebuiSafe, PageTypes, Webui!Accept, Webui!Lose, Webui!Advance,
         Webui!Finish, Webui!page, Webui!RunSteps
<1>2. UNCHANGED <<tab, Webui!page, resumes, sent>>
  BY DEF Webui!Accept, Webui!Lose, Webui!Advance, Webui!Finish
<1>. QED
  BY <1>1, <1>2
  DEF WebuiSafe, Webui!OwnerIsOpen, Watched, Webui!Eligible, Offline,
      Webui!ReplayRemembered, Webui!page

LEMMA WebuiStep == ~Cancelled /\ WebuiSafe /\ [Webui!Next]_(Webui!vars) => WebuiSafe'
<1>. SUFFICES ASSUME ~Cancelled, WebuiSafe, [Webui!Next]_(Webui!vars) PROVE WebuiSafe'
  OBVIOUS
<1>1. CASE Webui!UserStep
  BY <1>1, SendKeeps, SendAbandonedKeeps, ResumeKeeps, StopKeeps, HideKeeps,
     ShowKeeps, GoOfflineKeeps, GoOnlineKeeps, NavigateKeeps
  DEF Webui!UserStep
<1>2. CASE Webui!StreamStep
  BY <1>2, SendOpensKeeps, SendRefusedKeeps, SendBreaksKeeps, SendEndsKeeps,
     ResumeOpensKeeps, ResumeRefusedKeeps, ResumeBreaksKeeps, ResumeEndsKeeps
  DEF Webui!StreamStep
<1>3. CASE \/ Webui!Recover \/ Webui!Poll \/ Webui!StatusReturns
           \/ Webui!ServerAnswers \/ Webui!ServerFails
  BY <1>3, RecoverKeeps, PollKeeps, AnswerKeeps, StatusReturnsKeeps
<1>4. CASE Webui!PageHide \/ Webui!PageShow \/ Webui!NewDocument \/ Webui!Expire
  BY <1>4, PageHideKeeps, PageShowKeeps, NewDocumentKeeps, ExpireKeeps
<1>5. CASE UNCHANGED Webui!vars
  BY <1>5
  DEF Webui!vars, Webui!page, Webui!server, WebuiSafe, PageTypes,
      Webui!OwnerIsOpen, Watched, Webui!Eligible, Offline,
      Webui!ReplayRemembered
<1>. QED
  BY <1>1, <1>2, <1>3, <1>4, <1>5, ServerKeeps DEF Webui!Next

-----------------------------------------------------------------------------
(* What a step does to a reload, one lemma for each kind of step.          *)
(* A step that commits no reload, and leaves alone the marker of the page  *)
(* that is being replaced.                                                 *)
Quiet == tab'.reloading \in {tab.reloading, NONE} /\ Frozen(tab', tab)

LEMMA ClearIsQuiet ==
    ASSUME WebuiSafe, NEW t \in Webui!Tokens, tab' = Webui!ClearMatching(tab, t)
    PROVE  Quiet
  BY ClearFits, NoneAssumption DEF WebuiSafe, Quiet, Frozen, Webui!Marked

LEMMA MarkIsQuiet ==
    ASSUME NEW w, Fits(w), w.rec = tab.rec, w.reloading = tab.reloading,
           NEW t \in Webui!Tokens, NEW f \in BOOLEAN, tab' = Webui!MarkForRecovery(w, t, f)
    PROVE  Quiet
<1>1. /\ Others(tab', w) /\ ~Webui!Marked(w, t) => tab' = w
      /\ w.reloading = t => tab' = w
  BY MarkFits
<1>. QED
  BY <1>1, MarkFits DEF Quiet, Frozen, Others, Webui!Marked

LEMMA StreamIsQuiet ==
    ASSUME WebuiSafe, Webui!StreamStep
    PROVE  Quiet
<1>. PICK t \in Webui!Tokens :
        \/ Webui!SendOpens(t) \/ Webui!SendRefused(t)
        \/ Webui!SendBreaks(t) \/ Webui!SendEnds(t)
        \/ Webui!ResumeOpens(t) \/ Webui!ResumeRefused(t)
        \/ Webui!ResumeBreaks(t) \/ Webui!ResumeEnds(t)
  BY DEF Webui!StreamStep
<1>0. Fits(tab)
  BY DEF WebuiSafe
<1>1. CASE Webui!SendOpens(t)
  BY <1>1 DEF Webui!SendOpens, Quiet, Frozen
<1>2. CASE Webui!SendRefused(t)
  BY <1>2, ClearIsQuiet DEF Webui!SendRefused
<1>3. CASE Webui!SendBreaks(t)
  BY <1>0, <1>3, MarkIsQuiet DEF Webui!SendBreaks
<1>4. CASE Webui!SendEnds(t)
  <2>1. CASE tab' = Webui!ScheduleRecovery(tab)
    BY <1>0, <2>1, ScheduleRecoveryFits DEF Quiet, Frozen, Others
  <2>2. CASE tab' = Webui!ClearMatching(tab, t)
    BY <2>2, ClearIsQuiet
  <2>. QED
    BY <1>4, <2>1, <2>2 DEF Webui!SendEnds
<1>5. CASE Webui!ResumeOpens(t)
  <2>1. CASE Webui!Marked(tab, t)
    <3>. DEFINE u == [tab EXCEPT !.owner = t]
    <3>1. Fits(u) /\ u.rec = tab.rec /\ u.reloading = tab.reloading
      BY <1>0 DEF Fits, Webui!Tabs
    <3>2. tab' = Webui!Cancel(u, t)
      BY <1>5, <2>1 DEF Webui!ResumeOpens
    <3>. HIDE DEF u
    <3>. QED
      BY <3>1, <3>2, CancelFits DEF Quiet, Frozen, Others
  <2>2. CASE ~Webui!Marked(tab, t)
    BY <1>5, <2>2 DEF Webui!ResumeOpens, Quiet, Frozen
  <2>. QED
    BY <2>1, <2>2
<1>6. CASE Webui!ResumeRefused(t)
  BY <1>0, <1>6, MarkIsQuiet DEF Webui!ResumeRefused
<1>7. CASE Webui!ResumeBreaks(t)
  <2>1. /\ Fits(Webui!Disown(tab, t)) /\ Webui!Disown(tab, t).rec = tab.rec
        /\ Webui!Disown(tab, t).reloading = tab.reloading
    BY <1>0, DisownFits
  <2>. QED
    BY <1>7, <2>1, MarkIsQuiet DEF Webui!ResumeBreaks
<1>8. CASE Webui!ResumeEnds(t)
  BY <1>0, <1>8, FinishFits DEF Webui!ResumeEnds, Quiet, Frozen
<1>. QED
  BY <1>1, <1>2, <1>3, <1>4, <1>5, <1>6, <1>7, <1>8

LEMMA UserIsQuiet ==
    ASSUME WebuiSafe, Webui!UserStep
    PROVE  Quiet
<1>0. Fits(tab) /\ tab \in Webui!Tabs
  BY DEF WebuiSafe, Fits
<1>1. CASE (\E c \in Chats, multi \in BOOLEAN : Webui!Send(c, multi)) \/ Webui!SendAbandoned
  <2>1. Webui!Cancel(tab, NONE) \in Webui!Tabs
    BY <1>0, CancelParts
  <2>2. tab'.reloading = NONE
    BY <1>1, <2>1 DEF Webui!Send, Webui!SendAbandoned, Webui!Tabs
  <2>3. tab.rec # NONE => tab.rec.token # NONE
    BY <1>0, TabFields, NoneAssumption
  <2>. QED
    BY <2>2, <2>3 DEF Quiet, Frozen
<1>2. CASE Webui!Resume
  BY <1>2 DEF Webui!Resume, Quiet, Frozen
<1>3. CASE Webui!Stop
  BY <1>0, <1>3, ClearIsQuiet, TabFields DEF Webui!Stop
<1>4. CASE Webui!Hide
  BY <1>0, <1>4, SuspendFits DEF Webui!Hide, Quiet, Others
<1>5. CASE Webui!Show
  BY <1>0, <1>5, ScheduleRecoveryFits DEF Webui!Show, Quiet, Others, Frozen
<1>6. CASE Webui!GoOffline
  BY <1>6, GoOfflineParts DEF Quiet, Others
<1>7. CASE Webui!GoOnline
  <2>1. CASE tab.rec = NONE \/ tab.rec.token = tab.reloading
    BY <1>7, <2>1 DEF Webui!GoOnline, Quiet, Frozen
  <2>2. CASE ~(tab.rec = NONE \/ tab.rec.token = tab.reloading)
    <3>. DEFINE w == [tab EXCEPT !.rec.hidden = @ \/ tab.rec.phase = "none"]
    <3>1. w.reloading = tab.reloading
      BY <1>0 DEF Webui!Tabs
    <3>2. tab' = w \/ tab' = Webui!ScheduleRecovery(w)
      BY <1>7, <2>2 DEF Webui!GoOnline
    <3>3. w \in Webui!Tabs
      <4>1. tab.rec \in Webui!Markers
        BY <1>0, <2>2, TabFields
      <4>2. w.rec \in Webui!Markers
        BY <1>0, <4>1 DEF Webui!Tabs, Webui!Markers
      <4>. QED
        BY <1>0, <4>2 DEF Webui!Tabs
    <3>. HIDE DEF w
    <3>4. Webui!ScheduleRecovery(w).reloading = w.reloading
      BY <3>3 DEF Webui!ScheduleRecovery, Webui!Tabs
    <3>. QED
      BY <2>2, <3>1, <3>2, <3>4 DEF Quiet, Frozen
  <2>. QED
    BY <2>1, <2>2
<1>8. CASE \E c \in Chats : Webui!Navigate(c)
  BY <1>8, NavigateParts DEF Quiet, Others
<1>. QED
  BY <1>1, <1>2, <1>3, <1>4, <1>5, <1>6, <1>7, <1>8 DEF Webui!UserStep

LEMMA RecoverIsQuiet ==
    ASSUME WebuiSafe, Webui!Recover
    PROVE  Quiet
<1>. DEFINE w == [tab EXCEPT !.recovery = FALSE]
            x == [w EXCEPT !.rec.hidden = FALSE]
<1>1. w \in Webui!Tabs /\ w.rec = tab.rec /\ w.reloading = tab.reloading
  BY DEF WebuiSafe, Fits, Webui!Tabs
<1>2. tab.rec # NONE => x \in Webui!Tabs /\ x.reloading = w.reloading
  <2>. SUFFICES ASSUME tab.rec # NONE PROVE x \in Webui!Tabs /\ x.reloading = w.reloading
    OBVIOUS
  <2>1. w.rec \in Webui!Markers
    BY <1>1, TabFields
  <2>. HIDE DEF w
  <2>. QED
    BY <1>1, <2>1 DEF Webui!Tabs, Webui!Markers
<1>3. \/ tab' = w
      \/ tab.rec # NONE /\ \E p \in Webui!Purposes : tab' = Webui!ScheduleStatus(x, p)
      \/ \E p \in Webui!Purposes : tab' = Webui!ScheduleStatus(w, p)
  BY <1>1 DEF Webui!Recover, Webui!Purposes
<1>. HIDE DEF w, x
<1>4. \A v \in Webui!Tabs : \A p \in Webui!Purposes :
         Webui!ScheduleStatus(v, p).reloading = v.reloading
  BY DEF Webui!ScheduleStatus, Webui!Tabs
<1>5. tab'.reloading = tab.reloading
  BY <1>1, <1>2, <1>3, <1>4
<1>6. tab.rec # NONE => tab.reloading = NONE /\ tab.rec.token # NONE
  BY <1>1, TabFields, NoneAssumption DEF Webui!Recover, WebuiSafe, Fits
<1>. QED
  BY <1>5, <1>6 DEF Quiet, Frozen

LEMMA OthersAreQuiet ==
    ASSUME ~Cancelled, WebuiSafe,
           \/ Webui!Poll \/ Webui!ServerAnswers \/ Webui!ServerFails
           \/ Webui!PageHide \/ Webui!PageShow \/ Webui!NewDocument \/ Webui!Expire
           \/ \E x \in posted : Webui!Accept(x) \/ Webui!Lose(x)
           \/ \E c \in Chats : Webui!Advance(c) \/ Webui!Finish(c)
           \/ UNCHANGED Webui!vars
    PROVE  Quiet
<1>0. /\ Fits(tab) /\ tab \in Webui!Tabs
      /\ tab.rec # NONE => tab.rec.token # NONE
  BY TabFields, NoneAssumption DEF WebuiSafe, Fits
<1>1. CASE Webui!Poll
  <2>1. tab'.rec = tab.rec /\ tab'.reloading = tab.reloading
    BY <1>0, <1>1 DEF Webui!Poll, Webui!Tabs
  <2>. QED
    BY <2>1 DEF Quiet, Frozen
<1>2. CASE Webui!ServerAnswers \/ Webui!ServerFails
  BY <1>2, AnswerParts DEF Quiet, Others, Frozen
<1>3. CASE Webui!PageHide
  BY <1>0, <1>3, SuspendFits DEF Webui!PageHide, Quiet, Others
<1>4. CASE Webui!PageShow
  <2>. DEFINE w == [tab EXCEPT !.reloading = NONE]
  <2>1. w \in Webui!Tabs /\ w.reloading = NONE
    BY <1>0 DEF Webui!Tabs
  <2>2. tab' = Webui!ScheduleRecovery(w) \/ tab' = w
    BY <1>4 DEF Webui!PageShow
  <2>. HIDE DEF w
  <2>3. tab'.reloading = NONE
    BY <2>1, <2>2 DEF Webui!ScheduleRecovery, Webui!Tabs
  <2>. QED
    BY <1>0, <2>3 DEF Quiet, Frozen
<1>5. CASE Webui!NewDocument
  <2>. DEFINE w == [rec |-> tab.rec, recovery |-> FALSE, poll |-> NONE,
                    status |-> NONE, reloading |-> NONE, owner |-> NONE]
  <2>1. w \in Webui!Tabs /\ w.reloading = NONE
    BY <1>0 DEF Webui!Tabs
  <2>2. tab' = Webui!ScheduleRecovery(w) \/ tab' = w
    BY <1>5 DEF Webui!NewDocument
  <2>. HIDE DEF w
  <2>3. tab'.reloading = NONE
    BY <2>1, <2>2 DEF Webui!ScheduleRecovery, Webui!Tabs
  <2>. QED
    BY <1>0, <2>3 DEF Quiet, Frozen
<1>6. CASE Webui!Expire
  <2>1. tab'.reloading = tab.reloading /\ tab.reloading = NONE
    BY <1>0, <1>6 DEF Webui!Expire, Webui!Tabs
  <2>. QED
    BY <1>0, <2>1 DEF Quiet, Frozen
<1>7. CASE \/ \E x \in posted : Webui!Accept(x) \/ Webui!Lose(x)
           \/ \E c \in Chats : Webui!Advance(c) \/ Webui!Finish(c)
           \/ UNCHANGED Webui!vars
  BY <1>7
  DEF Webui!Accept, Webui!Lose, Webui!Advance, Webui!Finish, Webui!vars, Quiet,
      Frozen
<1>. QED
  BY <1>1, <1>2, <1>3, <1>4, <1>5, <1>6, <1>7

LEMMA OnlyAnswersReload ==
    ASSUME ~Cancelled, WebuiSafe, [Webui!Next]_(Webui!vars)
    PROVE  Quiet \/ Webui!StatusReturns
  BY UserIsQuiet, StreamIsQuiet, RecoverIsQuiet, OthersAreQuiet DEF Webui!Next

(* What an answer may do: reload the marked page, and only for a run that  *)
(* is over when a replay of it has failed.                                 *)
LEMMA AnswerReloads ==
    ASSUME WebuiSafe, Webui!StatusReturns
    PROVE  /\ Frozen(tab', tab)
           /\ \A t \in Webui!Tokens : Webui!Reloads(t) =>
                 /\ visible /\ online
                 /\ Webui!Marked(tab, t) /\ chat = tab.rec.session
                 /\ tab.status # NONE /\ tab.status.token = t
                 /\ resumes[t] = "failed" \/ tab.rec.phase = "single-wait"
                       => tab.status.answer \in {"none", "pending"}
           /\ tab.rec # NONE /\ tab.rec.hidden /\ tab'.rec = NONE
                 /\ tab.status.answer \in {"none", "pending"}
              => tab'.reloading = tab.rec.token
<1>. DEFINE w == [tab EXCEPT !.status = NONE]
            s == tab.status
<1>1. /\ Fits(w) /\ Others(w, tab) /\ w.rec = tab.rec
      /\ s.token \in Webui!Tokens /\ s.purpose \in Webui!Purposes
      /\ s.answer \in Webui!RunSteps \cup {"retry", "gone"}
  BY StatusReturnsParts
<1>2. \/ /\ Webui!Marked(w, s.token) /\ Webui!Eligible(w) /\ w.reloading = NONE
         /\ s.purpose = "resume-eof" => ~w.rec.hidden
         /\ tab' = Webui!Judge(w, s.token, s.purpose, s.answer)
      \/ tab' = w /\ ~(w.rec # NONE /\ Webui!Eligible(w))
  BY StatusReturnsParts
<1>3. tab.status # NONE /\ tab.status = s
  BY DEF Webui!StatusReturns
<1>. HIDE DEF w, s
<1>4. CASE /\ Webui!Marked(w, s.token) /\ Webui!Eligible(w) /\ w.reloading = NONE
           /\ s.purpose = "resume-eof" => ~w.rec.hidden
           /\ tab' = Webui!Judge(w, s.token, s.purpose, s.answer)
  <2>1. /\ Judged(tab', w, s.token)
        /\ tab'.reloading = s.token /\ w.rec.phase = "single-wait"
              => s.answer \in {"none", "pending"}
        /\ tab'.rec = NONE /\ w.rec.hidden /\ s.answer \in {"none", "pending"}
              => tab'.reloading = s.token
    BY <1>1, <1>4, JudgeFits
  <2>2. w.rec # NONE /\ w.rec.token = s.token /\ NONE \notin Webui!Tokens
    BY <1>4, NoneAssumption DEF Webui!Marked
  <2>3. resumes[s.token] = "failed" => tab.rec.phase = "single-wait"
    BY <1>1, <1>4, <2>2 DEF WebuiSafe, Webui!ReplayRemembered, Others
  <2>. QED
    BY <1>1, <1>3, <1>4, <2>1, <2>2, <2>3
    DEF Judged, Others, Frozen, Webui!Reloads, Webui!Marked, Webui!Eligible
<1>5. CASE tab' = w /\ ~(w.rec # NONE /\ Webui!Eligible(w))
  BY <1>1, <1>5, NoneAssumption DEF Others, Frozen, Webui!Reloads
<1>. QED
  BY <1>2, <1>4, <1>5

(* The end of a stream keeps the marker of a suspended tab.                *)
LEMMA EofKeepsMarker ==
    ASSUME WebuiSafe, tab.rec # NONE, tab.rec.hidden, NEW t \in Webui!Tokens,
           Webui!SendEnds(t) \/ Webui!ResumeEnds(t)
    PROVE  tab'.rec # NONE
<1>1. Fits(tab)
  BY DEF WebuiSafe
<1>2. CASE Webui!SendEnds(t)
  BY <1>1, <1>2, ScheduleRecoveryFits, ClearFits
  DEF Webui!SendEnds, Webui!Marked
<1>3. CASE Webui!ResumeEnds(t)
  BY <1>1, <1>3, FinishFits DEF Webui!ResumeEnds
<1>. QED
  BY <1>2, <1>3

LEMMA ReloadsStep ==
    ASSUME ~Cancelled, WebuiSafe, [Webui!Next]_(Webui!vars)
    PROVE  /\ \A t \in Webui!Tokens : Webui!Reloads(t) =>
                 /\ visible /\ online
                 /\ Webui!Marked(tab, t) /\ chat = tab.rec.session
                 /\ tab.status # NONE /\ tab.status.token = t
           /\ \A t \in Webui!Tokens :
                 Webui!Reloads(t) /\ (resumes[t] = "failed" \/ tab.rec.phase = "single-wait")
                   => tab.status.answer \in {"none", "pending"}
           /\ \A t \in Webui!Tokens :
                 tab.reloading = t /\ tab'.reloading = t /\ Webui!Marked(tab, t) =>
                   /\ Webui!Marked(tab', t)
                   /\ tab'.rec.hidden = tab.rec.hidden
                   /\ tab'.rec.phase = tab.rec.phase
           /\ tab.rec # NONE /\ tab.rec.hidden /\ tab'.rec = NONE =>
                 /\ ~\E t \in Webui!Tokens : Webui!SendEnds(t) \/ Webui!ResumeEnds(t)
                 /\ Webui!StatusReturns /\ tab.status.answer \in {"none", "pending"}
                       => tab'.reloading = tab.rec.token
<1>1. Frozen(tab', tab)
  BY OnlyAnswersReload, AnswerReloads DEF Quiet
<1>2. ASSUME NEW t \in Webui!Tokens, Webui!Reloads(t)
      PROVE  Webui!StatusReturns
  BY <1>2, OnlyAnswersReload, NoneAssumption DEF Quiet, Webui!Reloads
<1>. QED
  BY <1>1, <1>2, AnswerReloads, EofKeepsMarker DEF Frozen, Webui!Marked

-----------------------------------------------------------------------------
(***************************************************************************)
(* The continuation of a broken inference stream (MidstreamContinuation).  *)
(***************************************************************************)

(* What the consumer can receive.                                          *)
Emission == [fields : SUBSET Midstream!Fields, id : 0..MaxPackets, attempt : 0..continuations]

(* A sequence with one more element at its end.                            *)
LEMMA OneMore ==
    ASSUME NEW S, NEW q \in Seq(S), NEW x \in S
    PROVE  /\ Append(q, x) \in Seq(S)
           /\ Len(Append(q, x)) = Len(q) + 1
           /\ DOMAIN Append(q, x) = DOMAIN q \cup {Len(q) + 1}
           /\ Append(q, x)[Len(q) + 1] = x
           /\ Append(q, x) # <<>>
           /\ \A i \in DOMAIN q : Append(q, x)[i] = q[i] /\ i \in Nat /\ i < Len(q) + 1
           /\ Midstream!Range(Append(q, x)) = Midstream!Range(q) \cup {x}
<1>1. /\ Append(q, x) \in Seq(S)
      /\ Len(Append(q, x)) = Len(q) + 1
      /\ Append(q, x)[Len(q) + 1] = x
      /\ Append(q, x) # <<>>
      /\ \A i \in 1..Len(q) : Append(q, x)[i] = q[i]
  OBVIOUS
<1>2. DOMAIN q = 1..Len(q) /\ Len(q) \in Nat
  OBVIOUS
<1>3. DOMAIN Append(q, x) = 1..(Len(q) + 1)
  BY <1>1
<1>4. 1..(Len(q) + 1) = 1..Len(q) \cup {Len(q) + 1}
  BY <1>2
<1>5. \A i \in DOMAIN q : i \in Nat /\ i < Len(q) + 1
  BY <1>2
<1>6. Midstream!Range(Append(q, x)) = Midstream!Range(q) \cup {x}
  BY <1>1, <1>2, <1>3, <1>4 DEF Midstream!Range
<1>. QED
  BY <1>1, <1>2, <1>3, <1>4, <1>5, <1>6

LEMMA ContinuationStarts == Midstream!Init => Midstream!ContinuationInv
<1>. SUFFICES ASSUME Midstream!Init PROVE Midstream!ContinuationInv
  OBVIOUS
<1>1. Midstream!TypeOK
  <2>1. /\ emitted \in Seq(Emission) /\ answer \in Seq(Nat)
        /\ reasoning \in Seq(Nat)
    BY DEF Midstream!Init
  <2>2. asked \in [answer : Seq(Nat), reasoning : Seq(Nat)]
    BY DEF Midstream!Init, Midstream!NoPartial
  <2>3. continuations \in Nat /\ packets \in 0..MaxPackets
    BY PacketsAssumption DEF Midstream!Init
  <2>4. emitted \in Seq([fields : SUBSET Midstream!Fields, id : 0..MaxPackets,
                         attempt : 0..continuations])
    BY <2>1 DEF Emission
  <2>. QED
    BY <2>1, <2>2, <2>3, <2>4 DEF Midstream!Init, Midstream!TypeOK
<1>2. /\ emitted = <<>> /\ answer = <<>> /\ DOMAIN emitted = {}
      /\ DOMAIN answer = {}
  BY DEF Midstream!Init
<1>3. Midstream!AnswerIsWhole
  BY <1>2
  DEF Midstream!AnswerIsWhole, Midstream!Range, Midstream!Ascending,
      Midstream!AnswerPlaces
<1>4. Midstream!Range(answer) \subseteq 0..(packets - 1)
  BY <1>2 DEF Midstream!Range
<1>. QED
  BY <1>1, <1>2, <1>3, <1>4
  DEF Midstream!Init, Midstream!ContinuationInv,
      Midstream!GenerationIsContinued, Midstream!AskedForTheRest,
      Midstream!IsContinuation, Midstream!AttemptsFollowText,
      Midstream!ReasoningFirst, Midstream!AttemptsAreEarned,
      Midstream!EmittedIsRecorded, Midstream!AttemptExtends

LEMMA ShownIsSent ==
    ASSUME Midstream!TypeOK, NEW packet \in Midstream!Packets
    PROVE  /\ Midstream!Shown(packet) \in SUBSET Midstream!Fields
           /\ Midstream!Shown(packet) \subseteq packet
           /\ "content" \in packet => "content" \in Midstream!Shown(packet)
           /\ Midstream!IsContinuation /\ answer # <<>> =>
                 "reasoning" \notin Midstream!Shown(packet)
  BY DEF Midstream!Shown, Midstream!Packets, Midstream!Fields

LEMMA ContinuationTyped ==
    Midstream!TypeOK /\ [Midstream!Next]_(Midstream!vars) => Midstream!TypeOK'
<1>. SUFFICES ASSUME Midstream!TypeOK,
                     [Midstream!Next]_(Midstream!vars)
              PROVE  Midstream!TypeOK'
  OBVIOUS
<1>. USE DEF Midstream!TypeOK
<1>1. CASE Midstream!Packet
  <2>1. PICK packet \in Midstream!Packets :
           /\ packets' = packets + 1
           /\ sawTool' = (sawTool \/ "tool" \in packet)
           /\ reasoning' = IF "reasoning" \in packet THEN Append(reasoning, packets) ELSE reasoning
           /\ answer' = IF "content" \in packet THEN Append(answer, packets) ELSE answer
           /\ progress' = (progress \/ (/\ Midstream!IsContinuation
                                        /\ packet \cap {"reasoning", "content"} # {}))
           /\ sawFinish' = (sawFinish \/ "finish" \in packet)
           /\ emitted' = IF Midstream!Shown(packet) = {} THEN emitted
                         ELSE Append(emitted, [fields |-> Midstream!Shown(packet), id |-> packets,
                                               attempt |-> continuations])
    BY <1>1 DEF Midstream!Packet
  <2>2. packets \in Nat /\ packets < MaxPackets
    BY <1>1 DEF Midstream!Packet
  <2>3. answer' \in Seq(Nat) /\ reasoning' \in Seq(Nat)
    BY <2>1, <2>2
  <2>4. [fields |-> Midstream!Shown(packet), id |-> packets, attempt |-> continuations]
           \in Emission
    BY <2>2, ShownIsSent DEF Emission
  <2>5. emitted' \in Seq(Emission)
    <3>1. emitted \in Seq(Emission)
      BY DEF Emission
    <3>. QED
      BY <2>1, <2>4, <3>1, OneMore
  <2>6. packets' \in 0..MaxPackets
    BY <2>1, <2>2, PacketsAssumption
  <2>7. sawTool' \in BOOLEAN /\ sawFinish' \in BOOLEAN /\ progress' \in BOOLEAN
    BY <2>1
  <2>8. UNCHANGED <<structured, stream, retryable, continuations, asked>>
    BY <1>1 DEF Midstream!Packet
  <2>. QED
    BY <2>3, <2>5, <2>6, <2>7, <2>8 DEF Emission
<1>2. ASSUME NEW fields \in SUBSET Midstream!Fields, Midstream!Notice(fields),
             continuations' \in {continuations, continuations + 1}
      PROVE  emitted' \in Seq([fields : SUBSET Midstream!Fields, id : 0..MaxPackets,
                               attempt : 0..continuations'])
  <2>. DEFINE E == [fields : SUBSET Midstream!Fields, id : 0..MaxPackets, attempt : 0..continuations']
  <2>1. emitted \in Seq(E)
    <3>1. Emission \subseteq E
      BY <1>2 DEF Emission
    <3>2. emitted \in Seq(Emission)
      BY DEF Emission
    <3>. HIDE DEF E
    <3>. QED
      BY <3>1, <3>2
  <2>2. [fields |-> fields, id |-> MaxPackets, attempt |-> continuations] \in E
    BY <1>2, PacketsAssumption
  <2>. HIDE DEF E
  <2>3. emitted' \in Seq(E)
    BY <1>2, <2>1, <2>2, OneMore DEF Midstream!Notice
  <2>. QED
    BY <2>3 DEF E
<1>3. CASE Midstream!FinalizationFailed \/ Midstream!GiveUp
  <2>1. /\ Midstream!Notice({"content", "finish"})
        /\ {"content", "finish"} \in SUBSET Midstream!Fields
    BY <1>3 DEF Midstream!FinalizationFailed, Midstream!GiveUp, Midstream!Fields
  <2>. QED
    BY <1>2, <1>3, <2>1 DEF Midstream!FinalizationFailed, Midstream!GiveUp
<1>4. CASE Midstream!Notify
  <2>1. /\ \E fields \in SUBSET Midstream!Fields : Midstream!Notice(fields)
        /\ continuations' = continuations + 1 /\ continuations' \in Nat
    BY <1>4 DEF Midstream!Notify, Midstream!Fields
  <2>. QED
    BY <1>2, <1>4, <2>1 DEF Midstream!Notify
<1>5. CASE Midstream!Continue
  BY <1>5 DEF Midstream!Continue, Midstream!Partial
<1>6. CASE \/ Midstream!Complete \/ Midstream!Break \/ Midstream!Raise
           \/ Midstream!Close \/ UNCHANGED Midstream!vars
  BY <1>6
  DEF Midstream!Complete, Midstream!Break, Midstream!Raise, Midstream!Close,
      Midstream!vars
<1>. QED
  BY <1>1, <1>3, <1>4, <1>5, <1>6 DEF Midstream!Next

(* What the consumer received so far.                                      *)
LEMMA Received ==
    ASSUME Midstream!TypeOK
    PROVE  \A i \in DOMAIN emitted :
              /\ emitted[i] \in Emission
              /\ emitted[i].fields \in SUBSET Midstream!Fields
              /\ emitted[i].id \in Nat /\ emitted[i].attempt \in Nat
              /\ emitted[i].attempt <= continuations
<1>1. emitted \in Seq(Emission)
  BY DEF Midstream!TypeOK, Emission
<1>2. \A i \in DOMAIN emitted : emitted[i] \in Emission
  BY <1>1
<1>3. \A f \in Emission : /\ f.fields \in SUBSET Midstream!Fields /\ f.id \in Nat
                          /\ f.attempt \in Nat /\ f.attempt <= continuations
  BY PacketsAssumption DEF Midstream!TypeOK, Emission
<1>. QED
  BY <1>2, <1>3

(* One more element, received by the consumer after all the others.        *)
Receives(e) ==
    /\ DOMAIN emitted' = DOMAIN emitted \cup {Len(emitted) + 1}
    /\ emitted'[Len(emitted) + 1] = e
    /\ \A i \in DOMAIN emitted : /\ emitted'[i] = emitted[i]
                                /\ i \in Nat /\ Len(emitted) \in Nat
                                /\ i < Len(emitted) + 1

LEMMA ReceivesOneMore ==
    ASSUME Midstream!TypeOK, NEW e \in Emission, emitted' = Append(emitted, e)
    PROVE  Receives(e)
<1>1. emitted \in Seq(Emission)
  BY DEF Midstream!TypeOK, Emission
<1>2. Len(emitted) \in Nat
  BY <1>1
<1>. QED
  BY <1>1, <1>2, OneMore DEF Receives

(* The clauses that look at what was emitted only.                         *)
LEMMA ReasoningStaysFirst ==
    ASSUME Midstream!TypeOK, Midstream!ReasoningFirst, NEW e \in Emission,
           Receives(e),
           e.attempt > 0 /\ "reasoning" \in e.fields =>
              \A i \in DOMAIN emitted : "content" \notin emitted[i].fields
    PROVE  Midstream!ReasoningFirst'
<1>. SUFFICES ASSUME NEW i \in DOMAIN emitted', NEW j \in DOMAIN emitted',
                     i < j,
                     "content" \in emitted'[i].fields, emitted'[j].attempt > 0
              PROVE  "reasoning" \notin emitted'[j].fields
  BY DEF Midstream!ReasoningFirst
<1>1. i \in DOMAIN emitted /\ emitted'[i] = emitted[i]
  BY DEF Receives
<1>2. CASE j \in DOMAIN emitted
  BY <1>1, <1>2 DEF Receives, Midstream!ReasoningFirst
<1>3. CASE j = Len(emitted) + 1
  BY <1>1, <1>3 DEF Receives
<1>. QED
  BY <1>2, <1>3 DEF Receives

LEMMA AttemptsStayAfterText ==
    ASSUME Midstream!TypeOK, Midstream!AttemptsFollowText, NEW e \in Emission,
           Receives(e),
           \A i \in DOMAIN emitted :
              emitted[i].attempt < e.attempt => emitted[i].fields \cap {"tool", "finish"} = {},
           Midstream!IsContinuation' => ~structured'
    PROVE  Midstream!AttemptsFollowText'
<1>. SUFFICES ASSUME NEW i \in DOMAIN emitted', NEW j \in DOMAIN emitted',
                     i < j,
                     emitted'[j].attempt > emitted'[i].attempt
              PROVE  emitted'[i].fields \cap {"tool", "finish"} = {}
  BY DEF Midstream!AttemptsFollowText
<1>1. i \in DOMAIN emitted /\ emitted'[i] = emitted[i]
  BY DEF Receives
<1>2. CASE j \in DOMAIN emitted
  BY <1>1, <1>2 DEF Receives, Midstream!AttemptsFollowText
<1>3. CASE j = Len(emitted) + 1
  <2>1. \A f \in Emission : f.attempt \in Nat
    BY DEF Midstream!TypeOK, Emission
  <2>2. emitted[i] \in Emission
    BY <1>1, Received
  <2>3. emitted[i].attempt \in Nat /\ e.attempt \in Nat
    BY <2>1, <2>2
  <2>. QED
    BY <1>1, <1>3, <2>3 DEF Receives
<1>. QED
  BY <1>2, <1>3 DEF Receives

(* A notice is nothing the provider sent.                                  *)
LEMMA NoticeKeepsAnswer ==
    ASSUME Midstream!TypeOK, Midstream!AnswerIsWhole, NEW e \in Emission,
           Receives(e), ~Midstream!FromProvider(e),
           UNCHANGED answer
    PROVE  Midstream!AnswerIsWhole'
<1>1. Midstream!AnswerPlaces' = Midstream!AnswerPlaces
  BY DEF Midstream!AnswerPlaces, Receives, Midstream!FromProvider
<1>2. \A i \in Midstream!AnswerPlaces : Midstream!Ids'[i] = Midstream!Ids[i]
  BY DEF Midstream!AnswerPlaces, Receives, Midstream!Ids
<1>3. /\ Midstream!Range(answer) = {Midstream!Ids[i] : i \in Midstream!AnswerPlaces}
      /\ Midstream!Ascending(answer, DOMAIN answer)
      /\ Midstream!Ascending(Midstream!Ids, Midstream!AnswerPlaces)
  BY DEF Midstream!AnswerIsWhole
<1>4. {Midstream!Ids'[i] : i \in Midstream!AnswerPlaces'}
         = {Midstream!Ids[i] : i \in Midstream!AnswerPlaces}
  BY <1>1, <1>2
<1>5. Midstream!Ascending(Midstream!Ids, Midstream!AnswerPlaces)'
  BY <1>1, <1>2, <1>3 DEF Midstream!Ascending
<1>6. /\ Midstream!Ascending(answer, DOMAIN answer)'
      /\ Midstream!Range(answer)' = Midstream!Range(answer)
  BY <1>3
<1>. QED
  BY <1>3, <1>4, <1>5, <1>6 DEF Midstream!AnswerIsWhole

(* A fragment goes to the end of the text generated so far.                *)
LEMMA PrefixGrows ==
    ASSUME NEW S, NEW q \in Seq(S), NEW r \in Seq(S), NEW x \in S,
           Midstream!IsPrefix(q, r)
    PROVE  Midstream!IsPrefix(q, Append(r, x))
<1>1. /\ Len(q) \in Nat /\ Len(r) \in Nat /\ Len(q) <= Len(r)
      /\ \A i \in 1..Len(q) : q[i] = SubSeq(q, 1, Len(q))[i]
      /\ \A i \in 1..Len(q) : r[i] = SubSeq(r, 1, Len(q))[i]
  BY DEF Midstream!IsPrefix
<1>2. \A i \in 1..Len(q) : q[i] = r[i]
  BY <1>1 DEF Midstream!IsPrefix
<1>3. /\ Len(Append(r, x)) = Len(r) + 1
      /\ \A i \in 1..Len(r) : Append(r, x)[i] = r[i]
      /\ Append(r, x) \in Seq(S)
  BY OneMore
<1>4. \A i \in 1..Len(q) : Append(r, x)[i] = q[i]
  BY <1>1, <1>2, <1>3
<1>5. SubSeq(q, 1, Len(q)) = SubSeq(Append(r, x), 1, Len(q))
  <2>1. SubSeq(q, 1, Len(q)) = [i \in 1..Len(q) |-> q[i]]
    BY <1>1
  <2>2. SubSeq(Append(r, x), 1, Len(q)) = [i \in 1..Len(q) |-> Append(r, x)[i]]
    BY <1>1, <1>3
  <2>. QED
    BY <1>4, <2>1, <2>2
<1>. QED
  BY <1>1, <1>3, <1>5 DEF Midstream!IsPrefix

LEMMA PrefixOfItself == ASSUME NEW S, NEW q \in Seq(S) PROVE Midstream!IsPrefix(q, q)
  BY DEF Midstream!IsPrefix

(* What a packet does to the generated text.                               *)
Fragments(packet) ==
    /\ answer' = IF "content" \in packet THEN Append(answer, packets) ELSE answer
    /\ reasoning' = IF "reasoning" \in packet THEN Append(reasoning, packets) ELSE reasoning

LEMMA TextGrows ==
    ASSUME Midstream!TypeOK, NEW packet \in Midstream!Packets, Fragments(packet)
    PROVE  /\ Len(answer) \in Nat /\ Len(reasoning) \in Nat
           /\ Len(answer') \in Nat /\ Len(reasoning') \in Nat
           /\ Len(answer) <= Len(answer') /\ Len(reasoning) <= Len(reasoning')
           /\ "content" \in packet => Len(answer') = Len(answer) + 1 /\ answer' # <<>>
           /\ "reasoning" \in packet => Len(reasoning') = Len(reasoning) + 1
           /\ answer # <<>> => answer' # <<>>
           /\ Midstream!Range(answer') = Midstream!Range(answer) \cup (IF "content" \in packet
                                                   THEN {packets} ELSE {})
           /\ Midstream!Range(reasoning') = Midstream!Range(reasoning) \cup (IF "reasoning" \in packet
                                                         THEN {packets} ELSE {})
           /\ \A q \in Seq(Nat) : Midstream!IsPrefix(q, answer) => Midstream!IsPrefix(q, answer')
           /\ \A q \in Seq(Nat) : Midstream!IsPrefix(q, reasoning) => Midstream!IsPrefix(q, reasoning')
<1>1. answer \in Seq(Nat) /\ reasoning \in Seq(Nat) /\ packets \in Nat
  BY PacketsAssumption DEF Midstream!TypeOK
<1>2. Len(answer) \in Nat /\ Len(reasoning) \in Nat
  BY <1>1
<1>3. /\ Len(answer') \in Nat /\ Len(answer) <= Len(answer')
      /\ "content" \in packet => Len(answer') = Len(answer) + 1 /\ answer' # <<>>
      /\ answer # <<>> => answer' # <<>>
      /\ Midstream!Range(answer') = Midstream!Range(answer) \cup (IF "content" \in packet
                                              THEN {packets} ELSE {})
      /\ \A q \in Seq(Nat) : Midstream!IsPrefix(q, answer) => Midstream!IsPrefix(q, answer')
  <2>1. CASE "content" \in packet
    BY <1>1, <1>2, <2>1, OneMore, PrefixGrows DEF Fragments
  <2>2. CASE "content" \notin packet
    BY <1>1, <1>2, <2>2 DEF Fragments
  <2>. QED
    BY <2>1, <2>2
<1>4. /\ Len(reasoning') \in Nat /\ Len(reasoning) <= Len(reasoning')
      /\ "reasoning" \in packet => Len(reasoning') = Len(reasoning) + 1
      /\ Midstream!Range(reasoning') = Midstream!Range(reasoning) \cup (IF "reasoning" \in packet
                                                    THEN {packets} ELSE {})
      /\ \A q \in Seq(Nat) : Midstream!IsPrefix(q, reasoning) => Midstream!IsPrefix(q, reasoning')
  <2>1. CASE "reasoning" \in packet
    BY <1>1, <1>2, <2>1, OneMore, PrefixGrows DEF Fragments
  <2>2. CASE "reasoning" \notin packet
    BY <1>1, <1>2, <2>2 DEF Fragments
  <2>. QED
    BY <2>1, <2>2
<1>. QED
  BY <1>2, <1>3, <1>4

(* The fragments stay in order, since packets only grows.                  *)
LEMMA AnswerStaysAscending ==
    ASSUME Midstream!TypeOK, NEW packet \in Midstream!Packets,
           Fragments(packet),
           Midstream!Range(answer) \subseteq 0..(packets - 1), Midstream!Ascending(answer, DOMAIN answer)
    PROVE  Midstream!Ascending(answer', DOMAIN answer')
<1>1. answer \in Seq(Nat) /\ packets \in Nat
  BY PacketsAssumption DEF Midstream!TypeOK
<1>2. CASE "content" \notin packet
  BY <1>2 DEF Fragments
<1>3. CASE "content" \in packet
  <2>1. /\ DOMAIN answer' = DOMAIN answer \cup {Len(answer) + 1}
        /\ answer'[Len(answer) + 1] = packets
        /\ \A i \in DOMAIN answer : /\ answer'[i] = answer[i] /\ i \in Nat
                                    /\ i < Len(answer) + 1
    BY <1>1, <1>3, OneMore DEF Fragments
  <2>2. \A i \in DOMAIN answer : answer[i] \in 0..(packets - 1)
    BY DEF Midstream!Range
  <2>3. \A i \in DOMAIN answer : answer[i] < packets
    BY <1>1, <2>2
  <2>4. Len(answer) \in Nat
    BY <1>1
  <2>. QED
    BY <2>1, <2>3, <2>4 DEF Midstream!Ascending
<1>. QED
  BY <1>2, <1>3

(* The emission of a packet.                                               *)
Sent(packet) == [fields |-> Midstream!Shown(packet), id |-> packets, attempt |-> continuations]

Emits(packet) ==
    emitted' = IF Midstream!Shown(packet) = {} THEN emitted ELSE Append(emitted, Sent(packet))

LEMMA SentIsEmission ==
    ASSUME Midstream!TypeOK, packets < MaxPackets,
           NEW packet \in Midstream!Packets
    PROVE  /\ Sent(packet) \in Emission
           /\ Sent(packet).fields = Midstream!Shown(packet)
           /\ Sent(packet).id = packets /\ Midstream!FromProvider(Sent(packet))
           /\ Sent(packet).attempt = continuations
  BY ShownIsSent DEF Midstream!TypeOK, Sent, Emission, Midstream!FromProvider

LEMMA PacketKeepsAnswer ==
    ASSUME Midstream!TypeOK, Midstream!AnswerIsWhole,
           Midstream!Range(answer) \subseteq 0..(packets - 1),
           packets < MaxPackets, NEW packet \in Midstream!Packets, Fragments(packet), Emits(packet)
    PROVE  Midstream!AnswerIsWhole'
<1>. USE SentIsEmission, ShownIsSent
<1>1. /\ Midstream!Range(answer) = {Midstream!Ids[i] : i \in Midstream!AnswerPlaces}
      /\ Midstream!Ascending(answer, DOMAIN answer)
      /\ Midstream!Ascending(Midstream!Ids, Midstream!AnswerPlaces)
  BY DEF Midstream!AnswerIsWhole
<1>2. Midstream!Ascending(answer', DOMAIN answer')
  BY <1>1, AnswerStaysAscending
<1>3. CASE "content" \in packet
  <2>1. Receives(Sent(packet))
    BY <1>3, ReceivesOneMore DEF Emits
  <2>2. Midstream!AnswerPlaces' = Midstream!AnswerPlaces \cup {Len(emitted) + 1}
    BY <1>3, <2>1 DEF Receives, Midstream!AnswerPlaces, Midstream!FromProvider
  <2>3. /\ Midstream!Ids'[Len(emitted) + 1] = packets
        /\ \A i \in Midstream!AnswerPlaces : /\ Midstream!Ids'[i] = Midstream!Ids[i] /\ i \in Nat
                                   /\ Len(emitted) \in Nat
                                   /\ i < Len(emitted) + 1
    BY <2>1 DEF Receives, Midstream!AnswerPlaces, Midstream!Ids
  <2>4. Midstream!Range(answer') = {Midstream!Ids'[i] : i \in Midstream!AnswerPlaces'}
    BY <1>1, <1>3, <2>2, <2>3, TextGrows
  <2>5. \A i \in Midstream!AnswerPlaces : Midstream!Ids[i] < packets
    <3>1. \A i \in Midstream!AnswerPlaces : Midstream!Ids[i] \in 0..(packets - 1)
      BY <1>1
    <3>. QED
      BY <3>1 DEF Midstream!TypeOK
  <2>6. Midstream!Ascending(Midstream!Ids', Midstream!AnswerPlaces')
    BY <1>1, <2>2, <2>3, <2>5 DEF Midstream!Ascending
  <2>. QED
    BY <1>2, <2>4, <2>6 DEF Midstream!AnswerIsWhole
<1>4. CASE "content" \notin packet
  <2>1. /\ Midstream!AnswerPlaces' = Midstream!AnswerPlaces
        /\ \A i \in Midstream!AnswerPlaces : Midstream!Ids'[i] = Midstream!Ids[i]
    <3>1. CASE Midstream!Shown(packet) = {}
      BY <3>1 DEF Emits, Midstream!AnswerPlaces, Midstream!Ids
    <3>2. CASE Midstream!Shown(packet) # {}
      <4>1. Receives(Sent(packet))
        BY <3>2, ReceivesOneMore DEF Emits
      <4>2. "content" \notin Sent(packet).fields
        BY <1>4
      <4>. QED
        BY <4>1, <4>2
        DEF Receives, Midstream!AnswerPlaces, Midstream!Ids,
            Midstream!FromProvider
    <3>. QED
      BY <3>1, <3>2
  <2>2. Midstream!Range(answer') = {Midstream!Ids'[i] : i \in Midstream!AnswerPlaces'}
    BY <1>1, <1>4, <2>1 DEF Fragments
  <2>3. Midstream!Ascending(Midstream!Ids', Midstream!AnswerPlaces')
    BY <1>1, <2>1 DEF Midstream!Ascending
  <2>. QED
    BY <1>2, <2>2, <2>3 DEF Midstream!AnswerIsWhole
<1>. QED
  BY <1>3, <1>4

(* A packet that shows nothing, or one more emission at the end.           *)
LEMMA PacketEmission ==
    ASSUME Midstream!TypeOK, packets < MaxPackets,
           NEW packet \in Midstream!Packets, Emits(packet)
    PROVE  \/ UNCHANGED emitted
           \/ Receives(Sent(packet))
<1>. CASE Midstream!Shown(packet) = {}
  BY DEF Emits
<1>. CASE Midstream!Shown(packet) # {}
  BY SentIsEmission, ReceivesOneMore DEF Emits
<1>. QED
  OBVIOUS

(* What a packet does to the rest.                                         *)
PacketEffect(packet) ==
    /\ stream = "running" /\ packets < MaxPackets
    /\ sawFinish => packet = {}
    /\ packets' = packets + 1
    /\ sawTool' = (sawTool \/ "tool" \in packet)
    /\ progress' = (progress \/ (/\ Midstream!IsContinuation
                                 /\ packet \cap {"reasoning", "content"} # {}))
    /\ sawFinish' = (sawFinish \/ "finish" \in packet)
    /\ Fragments(packet)
    /\ Emits(packet)
    /\ UNCHANGED <<structured, stream, retryable, continuations, asked>>

LEMMA PacketIsEffect ==
    Midstream!Packet => \E packet \in Midstream!Packets : PacketEffect(packet)
  BY DEF Midstream!Packet, PacketEffect, Fragments, Emits, Sent

LEMMA PacketKeepsRecord ==
    ASSUME Midstream!TypeOK, Midstream!EmittedIsRecorded,
           NEW packet \in Midstream!Packets, PacketEffect(packet)
    PROVE  Midstream!EmittedIsRecorded'
<1>. USE DEF PacketEffect
<1>1. /\ packets \in Nat
      /\ Midstream!Range(reasoning) \subseteq Midstream!Range(reasoning')
      /\ answer # <<>> => answer' # <<>>
  BY TextGrows, PacketsAssumption DEF Midstream!TypeOK
<1>2. \A i \in DOMAIN emitted :
         Midstream!FromProvider(emitted[i]) =>
            /\ emitted[i].id < packets'
            /\ "reasoning" \in emitted[i].fields => emitted[i].id \in Midstream!Range(reasoning')
            /\ "tool" \in emitted[i].fields => sawTool'
  <2>. SUFFICES ASSUME NEW i \in DOMAIN emitted,
                       Midstream!FromProvider(emitted[i])
       PROVE  /\ emitted[i].id < packets'
              /\ "reasoning" \in emitted[i].fields => emitted[i].id \in Midstream!Range(reasoning')
              /\ "tool" \in emitted[i].fields => sawTool'
    OBVIOUS
  <2>1. /\ emitted[i].id < packets
        /\ "reasoning" \in emitted[i].fields => emitted[i].id \in Midstream!Range(reasoning)
        /\ "tool" \in emitted[i].fields => sawTool
    BY DEF Midstream!EmittedIsRecorded
  <2>2. emitted[i].id < packets'
    BY <1>1, <2>1, Received
  <2>3. "reasoning" \in emitted[i].fields => emitted[i].id \in Midstream!Range(reasoning')
    BY <1>1, <2>1
  <2>. QED
    BY <2>1, <2>2, <2>3
<1>3. \A i \in DOMAIN emitted :
         /\ ~Midstream!FromProvider(emitted[i]) => "tool" \notin emitted[i].fields
         /\ "finish" \in emitted[i].fields => sawFinish' \/ stream' = "returned"
         /\ "content" \in emitted[i].fields => answer' # <<>> \/ stream' = "returned"
         /\ emitted[i].attempt < continuations' =>
               emitted[i].fields \cap {"tool", "finish"} = {}
  BY <1>1 DEF Midstream!EmittedIsRecorded
<1>4. CASE UNCHANGED emitted
  BY <1>2, <1>3, <1>4 DEF Midstream!EmittedIsRecorded, Midstream!FromProvider
<1>5. CASE Receives(Sent(packet))
  <2>1. /\ Sent(packet).fields \subseteq packet
        /\ Sent(packet).id = packets /\ Midstream!FromProvider(Sent(packet))
        /\ Sent(packet).attempt = continuations
    BY SentIsEmission, ShownIsSent
  <2>2. /\ Sent(packet).id < packets'
        /\ "reasoning" \in Sent(packet).fields => Sent(packet).id \in Midstream!Range(reasoning')
        /\ "tool" \in Sent(packet).fields => sawTool'
    <3>1. "reasoning" \in packet => packets \in Midstream!Range(reasoning')
      BY TextGrows
    <3>2. "tool" \in packet => sawTool'
      OBVIOUS
    <3>3. packets < packets'
      BY <1>1
    <3>. QED
      BY <2>1, <3>1, <3>2, <3>3
  <2>3. /\ "finish" \in Sent(packet).fields => sawFinish'
        /\ "content" \in Sent(packet).fields => answer' # <<>>
        /\ ~(Sent(packet).attempt < continuations')
    <3>1. "content" \in packet => answer' # <<>>
      BY TextGrows
    <3>2. "finish" \in packet => sawFinish'
      OBVIOUS
    <3>3. ~(continuations < continuations')
      BY DEF Midstream!TypeOK
    <3>. QED
      BY <2>1, <3>1, <3>2, <3>3
  <2>4. \A i \in DOMAIN emitted' : \/ i \in DOMAIN emitted /\ emitted'[i] = emitted[i]
                                  \/ emitted'[i] = Sent(packet)
    BY <1>5 DEF Receives
  <2>5. \A e : Midstream!FromProvider(e)' <=> Midstream!FromProvider(e)
    BY DEF Midstream!FromProvider
  <2>6. \A i \in DOMAIN emitted' : Midstream!FromProvider(emitted'[i]) =>
            /\ emitted'[i].id < packets'
            /\ "reasoning" \in emitted'[i].fields => emitted'[i].id \in Midstream!Range(reasoning')
            /\ "tool" \in emitted'[i].fields => sawTool'
    BY <1>2, <2>2, <2>4
  <2>7. \A i \in DOMAIN emitted' :
         /\ ~Midstream!FromProvider(emitted'[i]) => "tool" \notin emitted'[i].fields
         /\ "finish" \in emitted'[i].fields => sawFinish' \/ stream' = "returned"
         /\ "content" \in emitted'[i].fields => answer' # <<>> \/ stream' = "returned"
         /\ emitted'[i].attempt < continuations' =>
               emitted'[i].fields \cap {"tool", "finish"} = {}
    BY <1>3, <2>1, <2>3, <2>4
  <2>. QED
    BY <2>6, <2>7 DEF Midstream!EmittedIsRecorded, Midstream!FromProvider
<1>. QED
  BY <1>4, <1>5, PacketEmission

LEMMA PacketKeepsAsked ==
    ASSUME Midstream!TypeOK, Midstream!AskedForTheRest,
           NEW packet \in Midstream!Packets, PacketEffect(packet)
    PROVE  Midstream!AskedForTheRest'
<1>. USE DEF PacketEffect
<1>. SUFFICES ASSUME Midstream!IsContinuation
              PROVE  Midstream!AskedForTheRest'
  BY DEF Midstream!AskedForTheRest, Midstream!IsContinuation
<1>1. /\ asked.answer \in Seq(Nat) /\ asked.reasoning \in Seq(Nat)
      /\ asked' = asked
  BY DEF Midstream!TypeOK
<1>2. /\ Midstream!IsPrefix(asked.answer, answer)'
      /\ Midstream!IsPrefix(asked.reasoning, reasoning)'
  BY <1>1, TextGrows DEF Midstream!AskedForTheRest
<1>3. \A i \in DOMAIN emitted' : emitted'[i].attempt < continuations' =>
         i \in DOMAIN emitted /\ emitted'[i] = emitted[i]
  <2>1. CASE UNCHANGED emitted
    BY <2>1
  <2>2. CASE Receives(Sent(packet))
    BY <2>2, SentIsEmission DEF Receives, Midstream!TypeOK
  <2>. QED
    BY <2>1, <2>2, PacketEmission
<1>4. \A i \in DOMAIN emitted :
         emitted[i].attempt < continuations /\ Midstream!FromProvider(emitted[i]) =>
            /\ "content" \in emitted[i].fields => emitted[i].id \in Midstream!Range(asked.answer)
            /\ "reasoning" \in emitted[i].fields => emitted[i].id \in Midstream!Range(asked.reasoning)
  BY DEF Midstream!AskedForTheRest
<1>. QED
  BY <1>1, <1>2, <1>3, <1>4
  DEF Midstream!AskedForTheRest, Midstream!FromProvider

(* Text that grew is longer than what it grew from.                        *)
LEMMA StillLonger ==
    ASSUME NEW k \in Nat, NEW l \in Nat, NEW m \in Nat, NEW n \in Nat,
           NEW u \in Nat, NEW v \in Nat, m <= u, n <= v
    PROVE  /\ k + l < m + n => k + l < u + v
           /\ k <= m /\ l <= n /\ (u = m + 1 \/ v = n + 1) => k + l < u + v
  OBVIOUS

LEMMA PacketKeepsExtending ==
    ASSUME Midstream!TypeOK, Midstream!AttemptExtends,
           Midstream!AttemptsAreEarned, NEW packet \in Midstream!Packets,
           PacketEffect(packet)
    PROVE  Midstream!AttemptExtends' /\ Midstream!AttemptsAreEarned'
<1>0. /\ Fragments(packet)
      /\ progress' => progress \/ "content" \in packet \/ "reasoning" \in packet
      /\ stream = "running" /\ UNCHANGED <<stream, continuations, asked>>
  BY DEF PacketEffect
<1>1. /\ Len(answer) \in Nat /\ Len(reasoning) \in Nat
      /\ Len(answer') \in Nat /\ Len(reasoning') \in Nat
      /\ Len(answer) <= Len(answer') /\ Len(reasoning) <= Len(reasoning')
      /\ "content" \in packet => Len(answer') = Len(answer) + 1
      /\ "reasoning" \in packet => Len(reasoning') = Len(reasoning) + 1
  BY <1>0, TextGrows
<1>2. /\ Len(asked.answer) \in Nat /\ Len(asked.reasoning) \in Nat
      /\ continuations \in Nat
  BY DEF Midstream!TypeOK
<1>3. Midstream!AttemptsAreEarned'
  BY <1>0, <1>1, <1>2 DEF Midstream!AttemptsAreEarned
<1>4. Midstream!IsContinuation /\ stream = "running" =>
         /\ Len(asked.answer) <= Len(answer)
         /\ Len(asked.reasoning) <= Len(reasoning)
         /\ continuations <= Len(asked.answer) + Len(asked.reasoning)
         /\ progress => Len(asked.answer) + Len(asked.reasoning) < Len(answer) + Len(reasoning)
  BY DEF Midstream!AttemptExtends
<1>6. Midstream!IsContinuation' = Midstream!IsContinuation
  BY <1>0 DEF Midstream!IsContinuation
<1>7. Midstream!IsContinuation =>
         /\ Len(asked.answer) <= Len(answer')
         /\ Len(asked.reasoning) <= Len(reasoning')
         /\ progress' => Len(asked.answer) + Len(asked.reasoning) < Len(answer') + Len(reasoning')
  <2>. SUFFICES ASSUME Midstream!IsContinuation
       PROVE  /\ Len(asked.answer) <= Len(answer')
              /\ Len(asked.reasoning) <= Len(reasoning')
              /\ progress' => Len(asked.answer) + Len(asked.reasoning)
                                 < Len(answer') + Len(reasoning')
    OBVIOUS
  <2>1. /\ Len(asked.answer) <= Len(answer)
        /\ Len(asked.reasoning) <= Len(reasoning)
    BY <1>0, <1>4
  <2>2. progress => Len(asked.answer) + Len(asked.reasoning) < Len(answer) + Len(reasoning)
    BY <1>0, <1>4
  <2>3. /\ Len(asked.answer) <= Len(answer')
        /\ Len(asked.reasoning) <= Len(reasoning')
    BY <1>1, <1>2, <2>1
  <2>4. Len(asked.answer) + Len(asked.reasoning) < Len(answer) + Len(reasoning)
           => Len(asked.answer) + Len(asked.reasoning) < Len(answer') + Len(reasoning')
    BY <1>1, <1>2, StillLonger
  <2>5. Len(answer') = Len(answer) + 1 \/ Len(reasoning') = Len(reasoning) + 1
           => Len(asked.answer) + Len(asked.reasoning) < Len(answer') + Len(reasoning')
    BY <1>1, <1>2, <2>1, StillLonger
  <2>. QED
    BY <1>0, <1>1, <2>2, <2>3, <2>4, <2>5, Zenon
<1>. QED
  BY <1>0, <1>3, <1>4, <1>6, <1>7 DEF Midstream!AttemptExtends

LEMMA PacketKeeps ==
    ASSUME Midstream!ContinuationInv, Midstream!TypeOK', Midstream!Packet
    PROVE  Midstream!ContinuationInv'
<1>1. PICK packet \in Midstream!Packets : PacketEffect(packet)
  BY PacketIsEffect
<1>. USE <1>1 DEF PacketEffect
<1>2. /\ Midstream!TypeOK /\ Midstream!AnswerIsWhole
      /\ Midstream!AskedForTheRest /\ Midstream!AttemptsFollowText
      /\ Midstream!ReasoningFirst
      /\ Midstream!AttemptsAreEarned /\ Midstream!EmittedIsRecorded
      /\ Midstream!AttemptExtends
      /\ Midstream!Range(answer) \subseteq 0..(packets - 1)
  BY DEF Midstream!ContinuationInv, Midstream!GenerationIsContinued
<1>3. Midstream!AnswerIsWhole'
  BY <1>2, PacketKeepsAnswer
<1>4. Midstream!Range(answer') \subseteq 0..(packets' - 1)
  <2>1. packets \in Nat /\ packets' = packets + 1
    BY <1>2 DEF Midstream!TypeOK
  <2>2. 0..(packets - 1) \subseteq 0..packets /\ packets' - 1 = packets
    BY <2>1
  <2>. QED
    BY <1>2, <2>1, <2>2, TextGrows
<1>5. Midstream!AttemptsFollowText'
  <2>1. CASE UNCHANGED emitted
    BY <1>2, <2>1 DEF Midstream!AttemptsFollowText, Midstream!IsContinuation
  <2>2. CASE Receives(Sent(packet))
    <3>1. Midstream!IsContinuation' => ~structured'
      BY <1>2 DEF Midstream!AttemptsFollowText, Midstream!IsContinuation
    <3>2. \A i \in DOMAIN emitted :
             emitted[i].attempt < continuations => emitted[i].fields \cap {"tool", "finish"} = {}
      BY <1>2 DEF Midstream!EmittedIsRecorded
    <3>. QED
      BY <1>2, <2>2, <3>1, <3>2, SentIsEmission, AttemptsStayAfterText
  <2>. QED
    BY <1>2, <2>1, <2>2, PacketEmission
<1>6. Midstream!ReasoningFirst'
  <2>1. CASE UNCHANGED emitted
    BY <1>2, <2>1 DEF Midstream!ReasoningFirst
  <2>2. CASE Receives(Sent(packet))
    <3>1. ASSUME continuations > 0, "reasoning" \in Midstream!Shown(packet)
          PROVE  \A i \in DOMAIN emitted : "content" \notin emitted[i].fields
      <4>1. answer = <<>>
        BY <1>2, <3>1, ShownIsSent DEF Midstream!IsContinuation
      <4>. QED
        BY <1>2, <4>1 DEF Midstream!EmittedIsRecorded
    <3>. QED
      BY <1>2, <2>2, <3>1, SentIsEmission, ReasoningStaysFirst
  <2>. QED
    BY <1>2, <2>1, <2>2, PacketEmission
<1>. QED
  BY <1>2, <1>3, <1>4, <1>5, <1>6, PacketKeepsRecord, PacketKeepsAsked,
     PacketKeepsExtending
  DEF Midstream!ContinuationInv, Midstream!GenerationIsContinued

(* A notice of the wrapper itself.                                         *)
NoticeOf(fields) == [fields |-> fields, id |-> MaxPackets, attempt |-> continuations]

LEMMA NoticeReceived ==
    ASSUME Midstream!TypeOK, NEW fields \in SUBSET Midstream!Fields,
           Midstream!Notice(fields)
    PROVE  /\ NoticeOf(fields) \in Emission /\ Receives(NoticeOf(fields))
           /\ NoticeOf(fields).fields = fields
           /\ ~Midstream!FromProvider(NoticeOf(fields))
           /\ NoticeOf(fields).attempt = continuations
<1>1. /\ NoticeOf(fields) \in Emission
      /\ NoticeOf(fields).fields = fields /\ NoticeOf(fields).id = MaxPackets
      /\ NoticeOf(fields).attempt = continuations
  BY PacketsAssumption DEF Midstream!TypeOK, NoticeOf, Emission
<1>2. emitted' = Append(emitted, NoticeOf(fields))
  BY DEF Midstream!Notice, NoticeOf
<1>. QED
  BY <1>1, <1>2, ReceivesOneMore, PacketsAssumption DEF Midstream!FromProvider

(* A notice leaves what the provider sent where it was.                    *)
LEMMA NoticeKeepsRecord ==
    ASSUME Midstream!TypeOK, Midstream!EmittedIsRecorded,
           NEW fields \in SUBSET Midstream!Fields, Midstream!Notice(fields),
           "tool" \notin fields,
           "content" \in fields => answer # <<>> \/ stream' = "returned",
           "finish" \in fields => stream' = "returned" /\ continuations' = continuations,
           stream # "returned",
           \/ continuations' = continuations
           \/ ~sawTool /\ ~sawFinish,
           UNCHANGED <<answer, reasoning, sawTool, sawFinish, packets>>
    PROVE  Midstream!EmittedIsRecorded'
<1>. DEFINE e == NoticeOf(fields)
<1>1. /\ e.fields = fields
      /\ ~Midstream!FromProvider(e) /\ e.attempt = continuations
      /\ continuations \in Nat
  BY NoticeReceived DEF Midstream!TypeOK
<1>2. \A i \in DOMAIN emitted' : \/ i \in DOMAIN emitted /\ emitted'[i] = emitted[i]
                                \/ emitted'[i] = e
  BY NoticeReceived DEF Receives
<1>. HIDE DEF e
<1>3. \A i \in DOMAIN emitted' : Midstream!FromProvider(emitted'[i]) =>
         /\ emitted'[i].id < packets
         /\ "reasoning" \in emitted'[i].fields => emitted'[i].id \in Midstream!Range(reasoning)
         /\ "tool" \in emitted'[i].fields => sawTool
  BY <1>1, <1>2 DEF Midstream!EmittedIsRecorded
<1>4. \A i \in DOMAIN emitted' :
         /\ ~Midstream!FromProvider(emitted'[i]) => "tool" \notin emitted'[i].fields
         /\ "finish" \in emitted'[i].fields => sawFinish \/ stream' = "returned"
         /\ "content" \in emitted'[i].fields => answer # <<>> \/ stream' = "returned"
  BY <1>1, <1>2 DEF Midstream!EmittedIsRecorded
<1>5. ASSUME NEW i \in DOMAIN emitted', emitted'[i].attempt < continuations'
      PROVE  emitted'[i].fields \cap {"tool", "finish"} = {}
  <2>1. CASE continuations' = continuations
    <3>1. i \in DOMAIN emitted /\ emitted'[i] = emitted[i]
      BY <1>1, <1>2, <1>5, <2>1
    <3>. QED
      BY <1>5, <2>1, <3>1 DEF Midstream!EmittedIsRecorded
  <2>2. CASE continuations' # continuations
    <3>1. CASE emitted'[i] = e
      BY <1>1, <2>2, <3>1
    <3>2. CASE i \in DOMAIN emitted /\ emitted'[i] = emitted[i]
      <4>1. "tool" \notin emitted[i].fields /\ "finish" \notin emitted[i].fields
        BY <2>2, <3>2 DEF Midstream!EmittedIsRecorded
      <4>. QED
        BY <3>2, <4>1
    <3>. QED
      BY <1>2, <3>1, <3>2
  <2>. QED
    BY <2>1, <2>2
<1>. QED
  BY <1>3, <1>4, <1>5 DEF Midstream!EmittedIsRecorded, Midstream!FromProvider

(* The parts of the invariant a notice leaves alone.                       *)
LEMMA NoticeKeeps ==
    ASSUME Midstream!ContinuationInv, Midstream!TypeOK',
           NEW fields \in SUBSET Midstream!Fields, Midstream!Notice(fields),
           "reasoning" \in fields => answer = <<>> /\ stream # "returned",
           Midstream!IsContinuation' => ~structured',
           UNCHANGED <<answer, packets>>
    PROVE  /\ Midstream!AnswerIsWhole' /\ Midstream!AttemptsFollowText'
           /\ Midstream!ReasoningFirst'
           /\ Midstream!Range(answer') \subseteq 0..(packets' - 1)
<1>1. /\ Midstream!TypeOK /\ Midstream!AnswerIsWhole
      /\ Midstream!AttemptsFollowText /\ Midstream!ReasoningFirst
      /\ Midstream!EmittedIsRecorded
      /\ Midstream!Range(answer) \subseteq 0..(packets - 1)
  BY DEF Midstream!ContinuationInv, Midstream!GenerationIsContinued
<1>2. Midstream!AnswerIsWhole'
  BY <1>1, NoticeReceived, NoticeKeepsAnswer
<1>3. \A i \in DOMAIN emitted :
         emitted[i].attempt < continuations => emitted[i].fields \cap {"tool", "finish"} = {}
  BY <1>1 DEF Midstream!EmittedIsRecorded
<1>4. Midstream!AttemptsFollowText'
  BY <1>1, <1>3, NoticeReceived, AttemptsStayAfterText
<1>5. "reasoning" \in fields => \A i \in DOMAIN emitted : "content" \notin emitted[i].fields
  BY <1>1 DEF Midstream!EmittedIsRecorded
<1>6. Midstream!ReasoningFirst'
  BY <1>1, <1>5, NoticeReceived, ReasoningStaysFirst
<1>. QED
  BY <1>1, <1>2, <1>4, <1>6

LEMMA FinalNoticeKeeps ==
    ASSUME Midstream!ContinuationInv, Midstream!TypeOK',
           Midstream!FinalizationFailed \/ Midstream!GiveUp
    PROVE  Midstream!ContinuationInv'
<1>1. /\ Midstream!Notice({"content", "finish"})
      /\ {"content", "finish"} \in SUBSET Midstream!Fields
      /\ stream = "broken" /\ stream' = "returned"
      /\ UNCHANGED <<structured, answer, reasoning, sawTool, sawFinish,
                     continuations, packets>>
  BY DEF Midstream!FinalizationFailed, Midstream!GiveUp, Midstream!Fields
<1>2. /\ Midstream!TypeOK /\ Midstream!AttemptsFollowText
      /\ Midstream!EmittedIsRecorded /\ Midstream!AttemptsAreEarned
  BY DEF Midstream!ContinuationInv, Midstream!GenerationIsContinued
<1>3. Midstream!IsContinuation' => ~structured'
  BY <1>1, <1>2 DEF Midstream!AttemptsFollowText, Midstream!IsContinuation
<1>4. /\ Midstream!AnswerIsWhole' /\ Midstream!AttemptsFollowText'
      /\ Midstream!ReasoningFirst'
      /\ Midstream!Range(answer') \subseteq 0..(packets' - 1)
  BY <1>1, <1>3, NoticeKeeps
<1>5. Midstream!EmittedIsRecorded'
  BY <1>1, <1>2, NoticeKeepsRecord
<1>6. /\ Midstream!AskedForTheRest' /\ Midstream!AttemptExtends'
      /\ Midstream!AttemptsAreEarned'
  BY <1>1, <1>2
  DEF Midstream!AskedForTheRest, Midstream!AttemptExtends,
      Midstream!AttemptsAreEarned
<1>. QED
  BY <1>4, <1>5, <1>6
  DEF Midstream!ContinuationInv, Midstream!GenerationIsContinued

LEMMA NotifyKeeps ==
    ASSUME Midstream!ContinuationInv, Midstream!TypeOK', Midstream!Notify
    PROVE  Midstream!ContinuationInv'
<1>1. PICK fields \in {{"content"}, {"reasoning"}} :
         /\ Midstream!Notice(fields)
         /\ "content" \in fields => answer # <<>>
         /\ "reasoning" \in fields => answer = <<>>
  BY DEF Midstream!Notify
<1>2. /\ stream = "broken" /\ stream' = "notified"
      /\ ~sawFinish /\ ~sawTool /\ ~structured
      /\ continuations' = continuations + 1
      /\ UNCHANGED <<structured, answer, reasoning, sawTool, sawFinish,
                     packets>>
      /\ answer # <<>> \/ reasoning # <<>>
      /\ ~Midstream!Exhausted
  BY DEF Midstream!Notify, Midstream!CanPreserve
<1>3. /\ Midstream!TypeOK /\ Midstream!EmittedIsRecorded
      /\ Midstream!AttemptExtends
  BY DEF Midstream!ContinuationInv, Midstream!GenerationIsContinued
<1>4. /\ fields \in SUBSET Midstream!Fields /\ "tool" \notin fields
      /\ "finish" \notin fields
  BY DEF Midstream!Fields
<1>5. /\ Midstream!AnswerIsWhole' /\ Midstream!AttemptsFollowText'
      /\ Midstream!ReasoningFirst'
      /\ Midstream!Range(answer') \subseteq 0..(packets' - 1)
  BY <1>1, <1>2, <1>4, NoticeKeeps
<1>6. Midstream!EmittedIsRecorded'
  BY <1>1, <1>2, <1>3, <1>4, NoticeKeepsRecord
<1>7. Midstream!AskedForTheRest' /\ Midstream!AttemptExtends'
  BY <1>2 DEF Midstream!AskedForTheRest, Midstream!AttemptExtends
<1>8. Midstream!AttemptsAreEarned'
  <2>1. /\ answer \in Seq(Nat) /\ reasoning \in Seq(Nat)
        /\ continuations \in Nat
        /\ asked.answer \in Seq(Nat) /\ asked.reasoning \in Seq(Nat)
    BY <1>3 DEF Midstream!TypeOK
  <2>2. /\ Len(answer) \in Nat /\ Len(reasoning) \in Nat
        /\ Len(asked.answer) \in Nat /\ Len(asked.reasoning) \in Nat
        /\ answer # <<>> => Len(answer) > 0
        /\ reasoning # <<>> => Len(reasoning) > 0
    BY <2>1
  <2>3. CASE continuations > 0
    <3>1. /\ continuations <= Len(asked.answer) + Len(asked.reasoning)
          /\ Len(asked.answer) + Len(asked.reasoning) < Len(answer) + Len(reasoning)
      BY <1>2, <1>3, <2>3
      DEF Midstream!Exhausted, Midstream!AttemptExtends,
          Midstream!IsContinuation
    <3>2. continuations + 1 <= Len(answer) + Len(reasoning)
      <4>1. \A k, l, m \in Nat : k <= l /\ l < m => k + 1 <= m
        OBVIOUS
      <4>2. /\ Len(asked.answer) + Len(asked.reasoning) \in Nat
            /\ Len(answer) + Len(reasoning) \in Nat
        <5>1. \A k, l \in Nat : k + l \in Nat
          OBVIOUS
        <5>. QED
          BY <2>2, <5>1, Zenon
      <4>. QED
        BY <2>1, <3>1, <4>1, <4>2
    <3>. QED
      BY <1>2, <3>2 DEF Midstream!AttemptsAreEarned
  <2>4. CASE continuations = 0
    <3>1. continuations + 1 <= Len(answer) + Len(reasoning)
      BY <1>2, <2>2, <2>4
    <3>. QED
      BY <1>2, <3>1 DEF Midstream!AttemptsAreEarned
  <2>. QED
    BY <2>1, <2>3, <2>4
<1>. QED
  BY <1>5, <1>6, <1>7, <1>8
  DEF Midstream!ContinuationInv, Midstream!GenerationIsContinued

LEMMA ContinueKeeps ==
    ASSUME Midstream!ContinuationInv, Midstream!TypeOK', Midstream!Continue
    PROVE  Midstream!ContinuationInv'
<1>1. /\ Midstream!TypeOK /\ Midstream!AnswerIsWhole
      /\ Midstream!AttemptsFollowText /\ Midstream!ReasoningFirst
      /\ Midstream!AttemptsAreEarned /\ Midstream!EmittedIsRecorded
      /\ Midstream!Range(answer) \subseteq 0..(packets - 1)
  BY DEF Midstream!ContinuationInv, Midstream!GenerationIsContinued
<1>2. /\ stream = "notified" /\ stream' = "running" /\ ~progress'
      /\ asked'.answer = answer /\ asked'.reasoning = reasoning
      /\ UNCHANGED <<structured, answer, reasoning, sawTool, sawFinish,
                     continuations, emitted, packets>>
  BY DEF Midstream!Continue, Midstream!Partial
<1>3. /\ Midstream!AnswerIsWhole' /\ Midstream!AttemptsFollowText'
      /\ Midstream!ReasoningFirst' /\ Midstream!AttemptsAreEarned'
      /\ Midstream!Range(answer') \subseteq 0..(packets' - 1)
  BY <1>1, <1>2
  DEF Midstream!AnswerIsWhole, Midstream!Ids, Midstream!AnswerPlaces,
      Midstream!FromProvider, Midstream!AttemptsFollowText,
      Midstream!IsContinuation, Midstream!ReasoningFirst,
      Midstream!AttemptsAreEarned
<1>4. Midstream!EmittedIsRecorded'
  BY <1>1, <1>2 DEF Midstream!EmittedIsRecorded, Midstream!FromProvider
<1>5. Midstream!AskedForTheRest'
  <2>1. /\ Midstream!IsPrefix(answer, answer)
        /\ Midstream!IsPrefix(reasoning, reasoning)
    BY <1>1, PrefixOfItself DEF Midstream!TypeOK
  <2>2. \A i \in DOMAIN emitted : Midstream!FromProvider(emitted[i]) =>
           /\ "content" \in emitted[i].fields => emitted[i].id \in Midstream!Range(answer)
           /\ "reasoning" \in emitted[i].fields => emitted[i].id \in Midstream!Range(reasoning)
    BY <1>1
    DEF Midstream!EmittedIsRecorded, Midstream!AnswerIsWhole,
        Midstream!AnswerPlaces, Midstream!Ids
  <2>. QED
    BY <1>2, <2>1, <2>2 DEF Midstream!AskedForTheRest, Midstream!FromProvider
<1>6. Midstream!AttemptExtends'
  BY <1>1, <1>2
  DEF Midstream!AttemptExtends, Midstream!AttemptsAreEarned, Midstream!TypeOK
<1>. QED
  BY <1>3, <1>4, <1>5, <1>6
  DEF Midstream!ContinuationInv, Midstream!GenerationIsContinued

LEMMA SettlingKeeps ==
    ASSUME Midstream!ContinuationInv, Midstream!TypeOK',
           \/ Midstream!Complete \/ Midstream!Break \/ Midstream!Raise
           \/ Midstream!Close \/ UNCHANGED Midstream!vars
    PROVE  Midstream!ContinuationInv'
<1>1. /\ UNCHANGED <<structured, answer, reasoning, sawTool, sawFinish,
                     continuations, progress, asked, emitted, packets>>
      /\ \/ stream' = stream
         \/ stream = "running" /\ stream' = "broken"
         \/ stream # "returned" /\ stream' \in {"returned", "raised"}
  BY DEF Midstream!Complete, Midstream!Break, Midstream!Raise, Midstream!Close,
         Midstream!vars
<1>2. /\ Midstream!TypeOK /\ Midstream!AnswerIsWhole
      /\ Midstream!AskedForTheRest /\ Midstream!AttemptsFollowText
      /\ Midstream!ReasoningFirst
      /\ Midstream!AttemptsAreEarned /\ Midstream!EmittedIsRecorded
      /\ Midstream!AttemptExtends
      /\ Midstream!Range(answer) \subseteq 0..(packets - 1)
  BY DEF Midstream!ContinuationInv, Midstream!GenerationIsContinued
<1>3. /\ Midstream!AnswerIsWhole' /\ Midstream!AttemptsFollowText'
      /\ Midstream!ReasoningFirst' /\ Midstream!AttemptsAreEarned'
      /\ Midstream!Range(answer') \subseteq 0..(packets' - 1)
  BY <1>1, <1>2
  DEF Midstream!AnswerIsWhole, Midstream!Ids, Midstream!AnswerPlaces,
      Midstream!FromProvider, Midstream!AttemptsFollowText,
      Midstream!IsContinuation, Midstream!ReasoningFirst,
      Midstream!AttemptsAreEarned
<1>4. Midstream!EmittedIsRecorded'
  BY <1>1, <1>2 DEF Midstream!EmittedIsRecorded, Midstream!FromProvider
<1>5. Midstream!AskedForTheRest'
  BY <1>1, <1>2
  DEF Midstream!AskedForTheRest, Midstream!IsContinuation,
      Midstream!FromProvider
<1>6. Midstream!AttemptExtends'
  BY <1>1, <1>2 DEF Midstream!AttemptExtends, Midstream!IsContinuation
<1>. QED
  BY <1>3, <1>4, <1>5, <1>6
  DEF Midstream!ContinuationInv, Midstream!GenerationIsContinued

LEMMA ContinuationStep ==
    Midstream!ContinuationInv /\ [Midstream!Next]_(Midstream!vars)
        => Midstream!ContinuationInv'
<1>. SUFFICES ASSUME Midstream!ContinuationInv,
                     [Midstream!Next]_(Midstream!vars)
              PROVE  Midstream!ContinuationInv'
  OBVIOUS
<1>1. Midstream!TypeOK'
  BY ContinuationTyped
  DEF Midstream!ContinuationInv, Midstream!GenerationIsContinued
<1>2. CASE Midstream!Packet
  BY <1>1, <1>2, PacketKeeps
<1>3. CASE Midstream!FinalizationFailed \/ Midstream!GiveUp
  BY <1>1, <1>3, FinalNoticeKeeps
<1>4. CASE Midstream!Notify
  BY <1>1, <1>4, NotifyKeeps
<1>5. CASE Midstream!Continue
  BY <1>1, <1>5, ContinueKeeps
<1>6. CASE \/ Midstream!Complete \/ Midstream!Break \/ Midstream!Raise
           \/ Midstream!Close \/ UNCHANGED Midstream!vars
  BY <1>1, <1>6, SettlingKeeps
<1>. QED
  BY <1>2, <1>3, <1>4, <1>5, <1>6 DEF Midstream!Next

-----------------------------------------------------------------------------
(***************************************************************************)
(* Onyx as a whole: a step of it is a step of one part, and leaves the     *)
(* others as they are.                                                     *)
(***************************************************************************)

LEMMA OnyxPartsInit ==
    OnyxInit => Init /\ Freshness!Init /\ Webui!Init /\ Midstream!Init
  BY DEF OnyxInit

LEMMA OnyxPartsStep ==
    [OnyxNext]_allVars => /\ [Freshness!Next]_(Freshness!vars)
                          /\ [Webui!Next]_(Webui!vars)
                          /\ [Midstream!Next]_(Midstream!vars)
<1>. SUFFICES ASSUME [OnyxNext]_allVars
              PROVE  /\ Freshness!Next \/ UNCHANGED freshVars
                     /\ Webui!Next \/ UNCHANGED webuiVars
                     /\ Midstream!Next \/ UNCHANGED streamVars
  BY DEF freshVars, Freshness!vars, webuiVars, Webui!vars, Webui!page,
         Webui!server, streamVars, Midstream!vars
<1>1. CASE OnyxNext
  BY <1>1 DEF OnyxNext
<1>2. CASE UNCHANGED allVars
  BY <1>2 DEF allVars
<1>. QED
  BY <1>1, <1>2

(* Placeholders are never indexed, and, while the attempts come one at a   *)
(* time, a file is skipped only while its content is the indexed one, for  *)
(* every number of edits and failures (_patched_do_scrape,                 *)
(* _patched_get_docs_to_update).                                           *)
THEOREM OnyxFreshnessSound == OnyxSpec => []FreshnessSound
<1>1. OnyxInit => Freshness!FreshnessInv
  BY OnyxPartsInit, FreshInit
<1>2. Freshness!FreshnessInv /\ [OnyxNext]_allVars => Freshness!FreshnessInv'
  BY OnyxPartsStep, FreshStep
<1>3. Freshness!FreshnessInv => FreshnessSound
  BY FreshSound DEF FreshnessSound
<1>. QED
  BY <1>1, <1>2, <1>3, PTL DEF OnyxSpec

(* The consumer of a broken inference stream gets one generation, for      *)
(* every number of packets and of failures: every answer fragment once and *)
(* in order, each attempt asked for the rest, none after a tool call, a    *)
(* finish or a structured answer, and no more attempts than text was       *)
(* generated (_stream_with_midstream_continuation).                        *)
THEOREM OnyxGenerationIsContinued == OnyxSpec => []GenerationIsContinued
<1>1. OnyxInit => Midstream!ContinuationInv
  BY OnyxPartsInit, ContinuationStarts
<1>2. Midstream!ContinuationInv /\ [OnyxNext]_allVars => Midstream!ContinuationInv'
  BY OnyxPartsStep, ContinuationStep
<1>3. Midstream!ContinuationInv => GenerationIsContinued
  BY DEF Midstream!ContinuationInv, GenerationIsContinued
<1>. QED
  BY <1>1, <1>2, <1>3, PTL DEF OnyxSpec

(* Recovery work of an eligible page is never lost, for every number of    *)
(* sends and chats, when a reload that began replaces the document         *)
(* (scheduleRecovery, scheduleStatus and their callers).  Without that     *)
(* hypothesis the code breaks it: pageshow forgets the reload and arms     *)
(* nothing, which the run WebuiCancelledReload shows.                      *)
THEOREM OnyxPageSafe == ASSUME ~Cancelled PROVE OnyxSpec => []PageSafe
<1>1. OnyxInit => WebuiSafe
  BY OnyxPartsInit, WebuiInit
<1>2. WebuiSafe /\ [OnyxNext]_allVars => WebuiSafe'
  BY OnyxPartsStep, WebuiStep
<1>3. WebuiSafe => PageSafe
  BY WebuiParts DEF PageSafe, Webui!WebuiInv
<1>. QED
  BY <1>1, <1>2, <1>3, PTL DEF OnyxSpec

(* A reload is of the marked page, does not repeat a failed replay and     *)
(* leaves the marker to the next document, and the end of a stream does    *)
(* not drop the marker of a suspended tab, for every number of sends and   *)
(* chats, when a reload that began replaces the document                   *)
(* (reloadForRecovery, finishResumeCleanly, markForRecovery,               *)
(* clearMatching).  Without that hypothesis a page that outlives its       *)
(* reload forgets a replay that failed in between.                         *)
THEOREM OnyxReloadsInOrder == ASSUME ~Cancelled PROVE OnyxSpec => ReloadsInOrder
<1>1. OnyxInit => WebuiSafe
  BY OnyxPartsInit, WebuiInit
<1>2. WebuiSafe /\ [OnyxNext]_allVars => WebuiSafe'
  BY OnyxPartsStep, WebuiStep
<1>. QED
  BY <1>1, <1>2, OnyxPartsStep, ReloadsStep, PTL
  DEF OnyxSpec, ReloadsInOrder, Webui!ReloadsInOrder, Webui!ReloadsSound,
      Webui!ReloadsMarkedPage, Webui!ReplayedOnce, Webui!MarkerFrozen,
      Webui!EofKeepsReconciliation
=============================================================================
