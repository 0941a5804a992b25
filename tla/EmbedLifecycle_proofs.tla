------------------------ MODULE EmbedLifecycle_proofs ------------------------
(***************************************************************************)
(* The lifecycle of the embedding server's child is sound for any number   *)
(* of requests, children and slots: the child and the record of it agree   *)
(* at every moment, and none is launched beside another one in use.        *)
(***************************************************************************)
EXTENDS EmbedLifecycle, FiniteSetTheorems, TLAPS

-----------------------------------------------------------------------------
(* The inductive invariant.                                                *)

(* The steps in which a request thread looks after a child of its own.     *)
Tending == {"loading", "publish", "failed", "terminate", "awaiting"}

(* The reaper is stopping a child.                                         *)
Reaping == reaper \in {"kill", "awaiting", "raised"}

Forwarding == {r \in Requests : pc[r] = "forward"}

(* The requests inside the proxy: each holds one of the slots.             *)
Inside == {r \in Requests : pc[r] \notin {"none", "done"}}

Counts ==
    /\ active = Cardinality(Forwarding)
    /\ slots \in Int /\ slots >= 0
    /\ slots + Cardinality(Inside) = Slots

(* The types of all that is not counted.                                   *)
Types ==
    /\ child \in Children \cup {NONE}
    /\ starting \in BOOLEAN /\ stopping \in BOOLEAN
    /\ closed \in BOOLEAN /\ shutdown \in BOOLEAN
    /\ idleFor \in 0..Idle
    /\ pc \in [Requests -> RequestSteps]
    /\ mine \in [Requests -> Children \cup {NONE}]
    /\ proc \in [Children -> ProcSteps]
    /\ signalled \subseteq Children
    /\ reaper \in ReaperSteps
    /\ victim \in Children \cup {NONE}
    /\ main \in MainSteps
    /\ last \in Children \cup {NONE}

(* _stopping is the reaper's mark on its victim, which is the current      *)
(* child or one that begin_request has found dead.                         *)
OneStopper ==
    /\ stopping <=> Reaping
    /\ Reaping => /\ victim # NONE /\ child \in {victim, NONE}
                  /\ \A r \in Requests : pc[r] # "forward"
    /\ ~Reaping => victim = NONE
    /\ reaper = "raised" => ~Live(victim)

(* A request thread has a child in its hands from its launch, or from the  *)
(* moment it may be forwarded.                                             *)
InHand ==
    \A r \in Requests :
       /\ pc[r] \in {"none", "reading", "begin", "waiting", "launch"} => mine[r] = NONE
       /\ pc[r] \in (Tending \ {"failed"}) \cup {"forward"} => mine[r] # NONE

(* Nobody else has a record of a child that is not published.              *)
OwnChild ==
    \A r \in Requests : pc[r] \in Tending /\ mine[r] # NONE =>
       /\ mine[r] # child /\ mine[r] # victim /\ mine[r] # last
       /\ \A q \in Requests \ {r} :
             pc[q] \in Tending \cup {"forward"} => mine[q] # mine[r]

(* Nobody has a record of a child that was never launched.                 *)
Born ==
    \A c \in Children : proc[c] = "unborn" =>
          /\ c \notin signalled /\ c \notin {child, victim, last}
          /\ \A r \in Requests : mine[r] # c

(* A child in use, or that may yet be used, got no signal.                 *)
Unsignalled ==
    /\ child # NONE /\ ~stopping => child \notin signalled
    /\ \A r \in Requests : pc[r] \in {"loading", "publish", "forward"}
          => mine[r] \notin signalled

(* The main thread stops the child after the last request thread is gone.  *)
MainLast ==
    /\ main \in {"closing", "awaiting", "exit"} =>
          \A r \in Requests : pc[r] \in {"none", "done"}
    /\ main \in {"awaiting", "exit"} => child = NONE /\ ~stopping
    /\ main \notin {"awaiting", "exit"} => last = NONE

Records ==
    /\ OneStarter /\ OneStopper
    /\ InHand /\ OwnChild /\ Born /\ Unsignalled /\ MainLast /\ NoOrphan

(* The inductive invariant of the child's lifecycle.                       *)
LifecycleInv == Types /\ Counts /\ Records

-----------------------------------------------------------------------------
(* Counting.                                                               *)

(* One request more or less in a set of requests.                          *)
LEMMA OneMore ==
    ASSUME NEW S \in SUBSET Requests, NEW r \in Requests
    PROVE  /\ Cardinality(S) \in Nat
           /\ r \notin S => Cardinality(S \cup {r}) = Cardinality(S) + 1
           /\ r \in S => Cardinality(S \ {r}) = Cardinality(S) - 1
<1>1. IsFiniteSet(S)
  BY RequestsAssumption, FS_Subset
<1> QED BY <1>1, FS_CardinalityType, FS_AddElement, FS_RemoveElement

(* How request r moves: it takes a step, and threads waiting on the        *)
(* condition may be told to look again.                                    *)
Moves(r, step) ==
    /\ pc'[r] = step
    /\ \A q \in Requests \ {r} : pc'[q] = pc[q] \/ (pc[q] = "waiting" /\ pc'[q] = "begin")

(* A step of a request thread is such a move.                              *)
LEMMA GotoMoves ==
    ASSUME Types, NEW r \in Requests, NEW step \in RequestSteps,
           Goto(r, step) \/ GotoNotifying(r, step)
    PROVE  pc' \in [Requests -> RequestSteps] /\ Moves(r, step)
<1>1. CASE Goto(r, step)
  BY <1>1 DEF Types, Goto, Moves
<1>2. CASE GotoNotifying(r, step)
  BY <1>2 DEF Types, GotoNotifying, Moves, RequestSteps
<1> QED BY <1>1, <1>2

(* What a move does to the two counts.                                     *)
LEMMA MoveCounts ==
    ASSUME NEW r \in Requests, NEW step, Moves(r, step)
    PROVE  /\ Forwarding' = IF step = "forward" THEN Forwarding \cup {r}
                                                ELSE Forwarding \ {r}
           /\ Inside' = IF step \in {"none", "done"} THEN Inside \ {r}
                                                     ELSE Inside \cup {r}
  BY DEF Moves, Forwarding, Inside

(* A move that adjusts the counters as it should keeps them right.         *)
LEMMA MoveKeepsCounts ==
    ASSUME Counts, NEW r \in Requests, NEW step, Moves(r, step),
           active' = active + (IF step = "forward" THEN 1 ELSE 0)
                            - (IF pc[r] = "forward" THEN 1 ELSE 0),
           slots' = slots + (IF step \in {"none", "done"} THEN 1 ELSE 0)
                          - (IF pc[r] \in {"none", "done"} THEN 1 ELSE 0),
           slots' >= 0,
           ~ (step = "forward" /\ pc[r] = "forward")
    PROVE  Counts'
<1>1. Forwarding \in SUBSET Requests /\ Inside \in SUBSET Requests
  BY DEF Forwarding, Inside
<1>2. r \in Forwarding <=> pc[r] = "forward"
  BY DEF Forwarding
<1>3. r \in Inside <=> pc[r] \notin {"none", "done"}
  BY DEF Inside
<1>4. active' = Cardinality(Forwarding')
  <2>1. CASE step = "forward"
    BY <2>1, <1>1, <1>2, MoveCounts, OneMore DEF Counts
  <2>2. CASE step # "forward" /\ pc[r] = "forward"
    BY <2>2, <1>1, <1>2, MoveCounts, OneMore DEF Counts
  <2>3. CASE step # "forward" /\ pc[r] # "forward"
    <3>1. Forwarding' = Forwarding
      BY <2>3, <1>2, MoveCounts
    <3>2. active \in Nat
      BY <1>1, OneMore DEF Counts
    <3>3. active' = active
      BY <2>3, <3>2
    <3> QED BY <3>1, <3>3 DEF Counts
  <2> QED BY <2>1, <2>2, <2>3
<1>5. slots' + Cardinality(Inside') = Slots /\ slots' \in Int
  <2>1. CASE step \in {"none", "done"} /\ pc[r] \notin {"none", "done"}
    BY <2>1, <1>1, <1>3, MoveCounts, OneMore, SlotsAssumption DEF Counts
  <2>2. CASE step \notin {"none", "done"} /\ pc[r] \in {"none", "done"}
    BY <2>2, <1>1, <1>3, MoveCounts, OneMore, SlotsAssumption DEF Counts
  <2>3. CASE step \in {"none", "done"} <=> pc[r] \in {"none", "done"}
    <3>1. Inside' = Inside
      BY <2>3, <1>3, MoveCounts
    <3> QED BY <2>3, <3>1, <1>1, OneMore, SlotsAssumption DEF Counts
  <2> QED BY <2>1, <2>2, <2>3
<1> QED BY <1>4, <1>5 DEF Counts

-----------------------------------------------------------------------------
(* The request threads.                                                    *)

(* Somebody answers for the child c.                                       *)
Recorded(c) ==
    \/ child = c \/ victim = c \/ (last = c /\ main = "awaiting")
    \/ \E r \in Requests : mine[r] = c /\ pc[r] \in Tending

(* No child is an orphan: each live one is recorded.                       *)
LEMMA OrphanIsUnrecorded == NoOrphan <=> \A c \in Children : Live(c) => Recorded(c)
  BY DEF NoOrphan, Recorded, Tending

(* The same one state later.                                               *)
LEMMA NextOrphanIsUnrecorded ==
    ASSUME \A c \in Children : Live(c)' => Recorded(c)'
    PROVE  NoOrphan'
  BY DEF NoOrphan, Recorded, Tending

(* A request thread moves without touching a child process, or the record  *)
(* of a live one.                                                          *)
QuietMove(r, step) ==
    /\ Moves(r, step)
    /\ child' = child \/ (child' = NONE /\ ~Live(child))
    /\ UNCHANGED <<flags, mine, proc, signalled, threads>>
    /\ \/ pc[r] = "none" /\ step \in {"reading", "done"} /\ main \in {"serving", "signalled"}
       \/ pc[r] \in {"reading", "begin"} /\ step \in {"begin", "waiting", "done"}
       \/ pc[r] \in {"launch", "loading"} /\ step = "failed"
       \/ pc[r] = "loading" /\ step = "publish"
       \/ pc[r] = "awaiting" /\ step = "done" /\ ~Live(mine[r])
       \/ pc[r] = "forward" /\ step = "done"

(* Such a move disturbs no record.                                         *)
LEMMA QuietStep ==
    ASSUME Types, Records, NEW r \in Requests, NEW step, QuietMove(r, step)
    PROVE  Records'
<1> USE DEF Records
<1>1. /\ \A q \in Requests \ {r} : pc'[q] = pc[q] \/ (pc[q] = "waiting" /\ pc'[q] = "begin")
      /\ pc'[r] = step
      /\ child' = child \/ (child' = NONE /\ ~Live(child))
      /\ UNCHANGED <<starting, stopping, mine, proc, signalled, reaper, victim, main, last>>
  BY DEF QuietMove, Moves, flags, threads
<1>2. OneStarter'
  <2>1. \A q \in Requests : q \in Starters' <=> q \in Starters
    BY <1>1 DEF QuietMove, Starters
  <2>2. Starters' = Starters
    BY <2>1 DEF Starters
  <2> QED BY <1>1, <2>2 DEF OneStarter
<1>3. OneStopper'
  BY <1>1 DEF OneStopper, Reaping, QuietMove, Live
<1>4. InHand' /\ OwnChild'
  BY <1>1 DEF InHand, OwnChild, Tending, QuietMove
<1>5. Born'
  BY <1>1, NoChildAssumption DEF Born
<1>6. Unsignalled'
  BY <1>1 DEF Unsignalled, QuietMove
<1>7. MainLast'
  BY <1>1 DEF MainLast, QuietMove
<1>8. NoOrphan'
  <2> SUFFICES ASSUME NEW c \in Children, Live(c)' PROVE Recorded(c)'
    BY NextOrphanIsUnrecorded
  <2>1. Live(c) /\ Recorded(c)
    BY <1>1, OrphanIsUnrecorded DEF Live
  <2>2. CASE ~ \E q \in Requests : mine[q] = c /\ pc[q] \in Tending
    BY <1>1, <2>1, <2>2 DEF Recorded
  <2>3. ASSUME NEW q \in Requests, mine[q] = c, pc[q] \in Tending PROVE Recorded(c)'
    <3>1. q = r /\ pc[r] = "awaiting" => Live(mine[r])
      BY <2>1, <2>3
    <3>2. pc'[q] \in Tending
      BY <1>1, <2>3, <3>1 DEF QuietMove, Tending
    <3> QED BY <1>1, <2>3, <3>2 DEF Recorded
  <2> QED BY <2>2, <2>3
<1> QED BY <1>2, <1>3, <1>4, <1>5, <1>6, <1>7, <1>8

(* A request is let through to the current child.                          *)
LEMMA BeginServedStep ==
    ASSUME Types, Records, NEW r \in Requests, BeginServed(r)
    PROVE  Records'
<1> USE DEF Records
<1>1. /\ pc[r] = "begin" /\ ~stopping /\ child # NONE /\ Live(child)
      /\ pc' = [pc EXCEPT ![r] = "forward"]
      /\ mine' = [mine EXCEPT ![r] = child]
      /\ UNCHANGED <<child, starting, stopping, proc, signalled, reaper, victim,
                     main, last>>
  BY DEF BeginServed, Polled, Goto, flags, threads
<1>2. /\ pc'[r] = "forward" /\ mine'[r] = child
      /\ \A q \in Requests \ {r} : pc'[q] = pc[q] /\ mine'[q] = mine[q]
  BY <1>1 DEF Types
<1>3. OneStarter'
  <2>1. Starters' = Starters
    BY <1>1, <1>2 DEF Starters
  <2> QED BY <1>1, <2>1 DEF OneStarter
<1>4. OneStopper'
  BY <1>1, <1>2 DEF OneStopper, Reaping, Live
<1>5. InHand' /\ OwnChild'
  <2>1. InHand'
    BY <1>1, <1>2 DEF InHand, Tending
  <2>2. ASSUME NEW q \in Requests, pc'[q] \in Tending, mine'[q] # NONE
        PROVE  /\ q # r /\ pc[q] \in Tending /\ mine'[q] = mine[q]
               /\ mine[q] # child /\ mine[q] # victim /\ mine[q] # last
               /\ \A u \in Requests \ {q, r} :
                     pc[u] \in Tending \cup {"forward"} => mine[u] # mine[q]
    BY <1>2, <2>2 DEF OwnChild, Tending
  <2> QED BY <1>1, <1>2, <2>1, <2>2 DEF OwnChild
<1>6. Born'
  BY <1>1, <1>2 DEF Born, Live
<1>7. Unsignalled'
  BY <1>1, <1>2 DEF Unsignalled
<1>8. MainLast'
  <2>1. main \notin {"closing", "awaiting", "exit"}
    BY <1>1 DEF MainLast
  <2> QED BY <1>1, <2>1 DEF MainLast
<1>9. NoOrphan'
  <2> SUFFICES ASSUME NEW c \in Children, Live(c)' PROVE Recorded(c)'
    BY NextOrphanIsUnrecorded
  <2>1. Recorded(c)
    BY <1>1, OrphanIsUnrecorded DEF Live
  <2> QED BY <1>1, <1>2, <2>1 DEF Recorded, Tending
<1> QED BY <1>3, <1>4, <1>5, <1>6, <1>7, <1>8, <1>9

(* A cold start begins.                                                    *)
LEMMA BeginStartsStep ==
    ASSUME Types, Records, NEW r \in Requests, BeginStarts(r)
    PROVE  Records'
<1> USE DEF Records
<1>1. /\ pc[r] = "begin" /\ ~stopping /\ ~starting /\ starting'
      /\ child = NONE \/ ~Live(child)
      /\ child' = NONE
      /\ pc' = [pc EXCEPT ![r] = "launch"]
      /\ UNCHANGED <<stopping, mine, proc, signalled, reaper, victim, main, last>>
  BY DEF BeginStarts, Polled, Goto, threads
<1>2. /\ pc'[r] = "launch"
      /\ \A q \in Requests \ {r} : pc'[q] = pc[q]
  BY <1>1 DEF Types
<1>3. OneStarter'
  <2>1. \A q \in Requests : q \in Starters' <=> q = r
    BY <1>1, <1>2 DEF Starters, OneStarter
  <2>2. Starters' = {r}
    BY <2>1 DEF Starters
  <2> QED BY <1>1, <2>2 DEF OneStarter
<1>4. OneStopper'
  BY <1>1, <1>2 DEF OneStopper, Reaping, Live
<1>5. InHand' /\ OwnChild'
  BY <1>1, <1>2 DEF InHand, OwnChild, Tending
<1>6. Born'
  BY <1>1, <1>2, NoChildAssumption DEF Born
<1>7. Unsignalled' /\ MainLast'
  BY <1>1, <1>2 DEF Unsignalled, MainLast
<1>8. NoOrphan'
  <2> SUFFICES ASSUME NEW c \in Children, Live(c)' PROVE Recorded(c)'
    BY NextOrphanIsUnrecorded
  <2>1. Recorded(c) /\ c # child
    BY <1>1, OrphanIsUnrecorded, NoChildAssumption DEF Live
  <2> QED BY <1>1, <1>2, <2>1 DEF Recorded, Tending
<1> QED BY <1>3, <1>4, <1>5, <1>6, <1>7, <1>8

(* The new child is its starter's alone.                                   *)
LEMMA LaunchStep ==
    ASSUME Types, Records, NEW r \in Requests, Launch(r)
    PROVE  Records'
<1> USE DEF Records
<1>1. PICK c \in Children, start \in {"loading", "hung"} :
        /\ proc[c] = "unborn"
        /\ proc' = [proc EXCEPT ![c] = start]
        /\ mine' = [mine EXCEPT ![r] = c]
  BY DEF Launch
<1>2. /\ pc[r] = "launch"
      /\ pc' = [pc EXCEPT ![r] = "loading"]
      /\ UNCHANGED <<child, starting, stopping, signalled, reaper, victim, main, last>>
  BY DEF Launch, Goto, flags, threads
<1>3. /\ pc'[r] = "loading" /\ mine'[r] = c /\ mine[r] = NONE
      /\ \A q \in Requests \ {r} : pc'[q] = pc[q] /\ mine'[q] = mine[q]
      /\ proc'[c] # "unborn" /\ \A d \in Children \ {c} : proc'[d] = proc[d]
  BY <1>1, <1>2 DEF Types, InHand
<1>4. OneStarter'
  <2>1. Starters' = Starters
    BY <1>2, <1>3 DEF Starters
  <2> QED BY <1>2, <2>1 DEF OneStarter
<1>5. OneStopper'
  BY <1>1, <1>2, <1>3 DEF OneStopper, OneStarter, Starters, Reaping, Live, Types
<1>6. InHand' /\ OwnChild'
  <2>1. InHand'
    BY <1>2, <1>3, NoChildAssumption DEF InHand, Tending
  <2>2. /\ c # child /\ c # victim /\ c # last
        /\ \A q \in Requests : mine[q] # c
    BY <1>1 DEF Born
  <2>3. \A q \in Requests \ {r} : pc'[q] = pc[q] /\ mine'[q] = mine[q] /\ mine'[q] # mine'[r]
    BY <1>3, <2>2
  <2> QED BY <1>2, <1>3, <2>1, <2>2, <2>3 DEF OwnChild
<1>7. Born'
  BY <1>2, <1>3 DEF Born
<1>8. Unsignalled' /\ MainLast'
  <2>1. c \notin signalled
    BY <1>1 DEF Born
  <2>2. main \notin {"closing", "awaiting", "exit"}
    BY <1>2 DEF MainLast
  <2> QED BY <1>2, <1>3, <2>1, <2>2 DEF Unsignalled, MainLast
<1>9. NoOrphan'
  <2> SUFFICES ASSUME NEW d \in Children, Live(d)' PROVE Recorded(d)'
    BY NextOrphanIsUnrecorded
  <2>1. CASE d = c
    BY <1>3, <2>1 DEF Recorded, Tending
  <2>2. CASE d # c
    <3>1. Recorded(d)
      BY <1>3, <2>2, OrphanIsUnrecorded DEF Live
    <3> QED BY <1>2, <1>3, <3>1 DEF Recorded, Tending
  <2> QED BY <2>1, <2>2
<1> QED BY <1>4, <1>5, <1>6, <1>7, <1>8, <1>9

(* The new child becomes the current one, its starter counted.             *)
LEMMA PublishStep ==
    ASSUME Types, Records, NEW r \in Requests, Publish(r)
    PROVE  Records'
<1> USE DEF Records
<1>1. /\ pc[r] = "publish" /\ ~starting' /\ child' = mine[r]
      /\ UNCHANGED <<stopping, mine, proc, signalled, reaper, victim, main, last>>
  BY DEF Publish, threads
<1>2. Moves(r, "forward")
  BY GotoMoves DEF Publish, RequestSteps
<1>3. /\ pc'[r] = "forward"
      /\ \A q \in Requests \ {r} : pc'[q] = pc[q] \/ (pc[q] = "waiting" /\ pc'[q] = "begin")
  BY <1>2 DEF Moves
<1>4. starting /\ child = NONE /\ ~stopping /\ \A q \in Requests : q \in Starters => q = r
  BY <1>1 DEF OneStarter, Starters
<1>5. mine[r] # NONE /\ mine[r] \in Children
  BY <1>1 DEF InHand, Tending, Types
<1>6. OneStarter'
  <2>1. Starters' = {}
    BY <1>3, <1>4 DEF Starters
  <2> QED BY <1>1, <2>1 DEF OneStarter
<1>7. OneStopper'
  BY <1>1, <1>4 DEF OneStopper, Reaping, Live
<1>8. InHand'
  BY <1>1, <1>3, <1>5 DEF InHand, Tending
<1>9. OwnChild'
  <2>1. ASSUME NEW q \in Requests, pc'[q] \in Tending, mine'[q] # NONE
        PROVE  /\ q # r /\ pc[q] \in Tending /\ mine'[q] = mine[q]
               /\ mine[q] # mine[r] /\ mine[q] # victim /\ mine[q] # last
               /\ \A u \in Requests \ {q} :
                     pc'[u] \in Tending \cup {"forward"} => mine[u] # mine[q]
    <3>1. q # r /\ pc[q] \in Tending /\ mine'[q] = mine[q]
      BY <1>1, <1>3, <2>1 DEF Tending
    <3>2. \A u \in Requests : pc'[u] \in Tending \cup {"forward"}
            => pc[u] \in Tending \cup {"forward"}
      BY <1>1, <1>3 DEF Tending
    <3>3. r \in Requests \ {q} /\ pc[r] \in Tending
      BY <1>1, <3>1 DEF Tending
    <3> QED BY <2>1, <3>1, <3>2, <3>3 DEF OwnChild
  <2> QED BY <1>1, <2>1 DEF OwnChild
<1>10. Born'
  BY <1>1, <1>5 DEF Born
<1>11. Unsignalled'
  <2>1. mine[r] \notin signalled
    BY <1>1 DEF Unsignalled
  <2> QED BY <1>1, <1>3, <2>1 DEF Unsignalled
<1>12. MainLast'
  <2>1. main \notin {"closing", "awaiting", "exit"}
    BY <1>1 DEF MainLast
  <2> QED BY <1>1, <2>1 DEF MainLast
<1>13. NoOrphan'
  <2> SUFFICES ASSUME NEW c \in Children, Live(c)' PROVE Recorded(c)'
    BY NextOrphanIsUnrecorded
  <2>1. Recorded(c)
    BY <1>1, OrphanIsUnrecorded DEF Live
  <2>2. child # c
    BY <1>4, NoChildAssumption
  <2> QED BY <1>1, <1>3, <2>1, <2>2 DEF Recorded, Tending
<1> QED BY <1>6, <1>7, <1>8, <1>9, <1>10, <1>11, <1>12, <1>13

(* A failed start leaves its starter with what it has to clean up.         *)
LEMMA FailStartStep ==
    ASSUME Types, Records, NEW r \in Requests, FailStart(r)
    PROVE  Records'
<1> USE DEF Records
<1>1. /\ pc[r] = "failed" /\ ~starting' /\ child' = NONE
      /\ UNCHANGED <<stopping, mine, proc, signalled, reaper, victim, main, last>>
  BY DEF FailStart, threads
<1>2. PICK step \in {"terminate", "done"} :
        /\ Moves(r, step)
        /\ step = "terminate" => mine[r] # NONE
        /\ step = "done" => mine[r] = NONE \/ ~Live(mine[r])
  BY GotoMoves DEF FailStart, RequestSteps
<1>3. /\ pc'[r] = step
      /\ \A q \in Requests \ {r} : pc'[q] = pc[q] \/ (pc[q] = "waiting" /\ pc'[q] = "begin")
  BY <1>2 DEF Moves
<1>4. starting /\ child = NONE /\ ~stopping /\ \A q \in Requests : q \in Starters => q = r
  BY <1>1 DEF OneStarter, Starters
<1>5. OneStarter'
  <2>1. Starters' = {}
    BY <1>3, <1>4 DEF Starters
  <2> QED BY <1>1, <2>1 DEF OneStarter
<1>6. OneStopper'
  BY <1>1, <1>4 DEF OneStopper, Reaping, Live
<1>7. InHand'
  BY <1>1, <1>2, <1>3 DEF InHand, Tending
<1>8. OwnChild'
  <2>1. \A q \in Requests :
          /\ pc'[q] \in Tending => pc[q] \in Tending
          /\ pc'[q] \in Tending \cup {"forward"} => pc[q] \in Tending \cup {"forward"}
    BY <1>1, <1>3 DEF Tending
  <2> QED BY <1>1, <1>4, <2>1 DEF OwnChild
<1>9. Born'
  BY <1>1, NoChildAssumption DEF Born
<1>10. Unsignalled'
  BY <1>1, <1>3 DEF Unsignalled
<1>11. MainLast'
  <2>1. main \notin {"closing", "awaiting", "exit"}
    BY <1>1 DEF MainLast
  <2> QED BY <1>1, <2>1 DEF MainLast
<1>12. NoOrphan'
  <2> SUFFICES ASSUME NEW c \in Children, Live(c)' PROVE Recorded(c)'
    BY NextOrphanIsUnrecorded
  <2>1. Live(c) /\ Recorded(c)
    BY <1>1, OrphanIsUnrecorded DEF Live
  <2>2. child # c
    BY <1>4, NoChildAssumption
  <2>3. CASE ~ \E q \in Requests : mine[q] = c /\ pc[q] \in Tending
    BY <1>1, <2>1, <2>2, <2>3 DEF Recorded
  <2>4. ASSUME NEW q \in Requests, mine[q] = c, pc[q] \in Tending PROVE Recorded(c)'
    <3>1. q = r => step = "terminate"
      BY <1>2, <2>1, <2>4, NoChildAssumption
    <3>2. pc'[q] \in Tending
      BY <1>3, <2>4, <3>1 DEF Tending
    <3> QED BY <1>1, <2>4, <3>2 DEF Recorded
  <2> QED BY <2>3, <2>4
<1> QED BY <1>5, <1>6, <1>7, <1>8, <1>9, <1>10, <1>11, <1>12

(* A signal to a child that nobody uses.                                   *)
LEMMA TerminateStep ==
    ASSUME Types, Records, NEW r \in Requests, TerminateFailed(r)
    PROVE  Records'
<1> USE DEF Records
<1>1. /\ pc[r] = "terminate" /\ mine[r] # NONE /\ mine[r] \in Children
      /\ signalled' \subseteq signalled \cup {mine[r]}
      /\ signalled' # signalled => Live(mine[r])
      /\ pc' = [pc EXCEPT ![r] = "awaiting"]
      /\ UNCHANGED <<child, starting, stopping, mine, proc, reaper, victim, main, last>>
  BY DEF TerminateFailed, Goto, flags, threads, Signal, InHand, Tending, Types
<1>2. pc'[r] = "awaiting" /\ \A q \in Requests \ {r} : pc'[q] = pc[q]
  BY <1>1 DEF Types
<1>3. OneStarter'
  <2>1. Starters' = Starters
    BY <1>1, <1>2 DEF Starters
  <2> QED BY <1>1, <2>1 DEF OneStarter
<1>4. OneStopper'
  BY <1>1, <1>2 DEF OneStopper, Reaping, Live
<1>5. InHand' /\ OwnChild'
  BY <1>1, <1>2 DEF InHand, OwnChild, Tending
<1>6. Born'
  BY <1>1 DEF Born, Live
<1>7. Unsignalled'
  <2>1. child # mine[r]
    BY <1>1 DEF OwnChild, Tending
  <2>2. \A q \in Requests \ {r} : pc[q] \in {"loading", "publish", "forward"}
           => mine[q] # mine[r]
    BY <1>1 DEF OwnChild, Tending
  <2> QED BY <1>1, <1>2, <2>1, <2>2 DEF Unsignalled
<1>8. MainLast'
  <2>1. main \notin {"closing", "awaiting", "exit"}
    BY <1>1 DEF MainLast
  <2> QED BY <1>1, <2>1 DEF MainLast
<1>9. NoOrphan'
  <2> SUFFICES ASSUME NEW c \in Children, Live(c)' PROVE Recorded(c)'
    BY NextOrphanIsUnrecorded
  <2>1. Recorded(c)
    BY <1>1, OrphanIsUnrecorded DEF Live
  <2> QED BY <1>1, <1>2, <2>1 DEF Recorded, Tending
<1> QED BY <1>3, <1>4, <1>5, <1>6, <1>7, <1>8, <1>9

-----------------------------------------------------------------------------
(* The reaper, the main thread and the child processes.                    *)

(* A step that leaves the records alone, but for where the reaper and the  *)
(* main thread are.                                                        *)
LEMMA IdleStep ==
    ASSUME Types, Records,
           UNCHANGED <<child, starting, stopping, pc, mine, proc, signalled, victim, last>>,
           \/ /\ UNCHANGED main
              /\ reaper' \in {"sleep", "check"} /\ reaper \in {"sleep", "check"}
           \/ /\ UNCHANGED reaper
              /\ main' \in {"serving", "signalled", "draining"}
              /\ main \in {"serving", "signalled", "draining"}
           \/ UNCHANGED <<reaper, main>>
    PROVE  Records'
<1> USE DEF Records
<1>1. OneStarter' /\ OneStopper'
  BY DEF OneStarter, Starters, OneStopper, Reaping, Live
<1>2. InHand' /\ OwnChild' /\ Born'
  BY DEF InHand, OwnChild, Born
<1>3. Unsignalled' /\ MainLast'
  BY DEF Unsignalled, MainLast
<1>4. NoOrphan'
  BY DEF NoOrphan, Live
<1> QED BY <1>1, <1>2, <1>3, <1>4

(* The reaper marks the idle child.                                        *)
LEMMA ReapBeginsStep ==
    ASSUME Types, Counts, Records, ReapBegins
    PROVE  Records'
<1> USE DEF Records
<1>1. /\ child # NONE /\ ~starting /\ ~stopping /\ reaper = "check"
      /\ stopping' /\ victim' = child
      /\ reaper' \in {"kill", "awaiting"}
      /\ UNCHANGED <<child, starting, pc, mine, proc, signalled, main, last>>
  BY DEF ReapBegins, MayReap
<1>2. victim = NONE
  BY <1>1 DEF OneStopper, Reaping
<1>3. \A r \in Requests : pc[r] # "forward"
  <2>1. Cardinality(Forwarding) = 0
    BY DEF Counts, ReapBegins, MayReap
  <2>2. IsFiniteSet(Forwarding)
    BY RequestsAssumption, FS_Subset DEF Forwarding
  <2>3. Forwarding = {}
    BY <2>1, <2>2, FS_EmptySet
  <2> QED BY <2>3 DEF Forwarding
<1>4. OneStarter'
  BY <1>1 DEF OneStarter, Starters
<1>5. OneStopper'
  BY <1>1, <1>3 DEF OneStopper, Reaping
<1>6. InHand' /\ OwnChild'
  BY <1>1 DEF InHand, OwnChild
<1>7. Born'
  BY <1>1 DEF Born
<1>8. Unsignalled'
  BY <1>1 DEF Unsignalled
<1>9. MainLast'
  BY <1>1 DEF MainLast
<1>10. NoOrphan'
  BY <1>1, <1>2, NoChildAssumption DEF NoOrphan, Live
<1> QED BY <1>4, <1>5, <1>6, <1>7, <1>8, <1>9, <1>10

(* The reaper signals a child that no request uses.                        *)
LEMMA ReapSignalsStep ==
    ASSUME Types, Records, ReapSignals
    PROVE  Records'
<1> USE DEF Records
<1>1. /\ reaper = "kill"
      /\ reaper' = "awaiting" \/ (reaper' = "raised" /\ ~Live(victim))
      /\ signalled' \subseteq signalled \cup {victim}
      /\ signalled' # signalled => Live(victim)
      /\ UNCHANGED <<child, starting, stopping, pc, mine, proc, victim, main, last>>
  BY DEF ReapSignals, Signal, flags
<1>2. stopping /\ victim # NONE /\ \A r \in Requests : pc[r] # "forward"
  BY <1>1 DEF OneStopper, Reaping
<1>3. victim \in Children
  BY <1>2 DEF Types
<1>4. OneStarter'
  BY <1>1 DEF OneStarter, Starters
<1>5. OneStopper'
  BY <1>1, <1>2 DEF OneStopper, Reaping, Live
<1>6. InHand' /\ OwnChild'
  BY <1>1 DEF InHand, OwnChild
<1>7. Born'
  BY <1>1 DEF Born, Live
<1>8. Unsignalled'
  <2>1. \A r \in Requests : pc[r] \in {"loading", "publish"} => mine[r] # victim
    BY DEF OwnChild, InHand, Tending
  <2> QED BY <1>1, <1>2, <2>1 DEF Unsignalled
<1>9. MainLast'
  BY <1>1 DEF MainLast
<1>10. NoOrphan'
  BY <1>1 DEF NoOrphan, Live
<1> QED BY <1>4, <1>5, <1>6, <1>7, <1>8, <1>9, <1>10

(* The reaper forgets a child that has exited.                             *)
LEMMA ReapEndsStep ==
    ASSUME Types, Records, ReapEnds
    PROVE  Records'
<1> USE DEF Records
<1>1. /\ reaper \in {"awaiting", "raised"} /\ ~Live(victim)
      /\ ~stopping' /\ victim' = NONE /\ reaper' \in {"dead", "sleep"}
      /\ UNCHANGED <<starting, mine, proc, signalled, main, last>>
  BY DEF ReapEnds
<1>2. stopping /\ child \in {victim, NONE} /\ victim # NONE
  BY <1>1 DEF OneStopper, Reaping
<1>3. child' = NONE
  BY <1>2 DEF ReapEnds
<1>4. \A q \in Requests : pc'[q] = pc[q] \/ (pc[q] = "waiting" /\ pc'[q] = "begin")
  BY DEF ReapEnds, NotifyAll
<1>5. OneStarter'
  <2>1. \A q \in Requests : q \in Starters' <=> q \in Starters
    BY <1>4 DEF Starters
  <2>2. Starters' = Starters
    BY <2>1 DEF Starters
  <2> QED BY <1>1, <1>2, <1>3, <2>2 DEF OneStarter
<1>6. OneStopper'
  BY <1>1 DEF OneStopper, Reaping
<1>7. InHand' /\ OwnChild'
  <2>1. InHand'
    BY <1>1, <1>4 DEF InHand, Tending
  <2>2. \A q \in Requests :
          /\ pc'[q] \in Tending => pc[q] \in Tending
          /\ pc'[q] \in Tending \cup {"forward"} => pc[q] \in Tending \cup {"forward"}
    BY <1>4 DEF Tending
  <2> QED BY <1>1, <1>3, <2>1, <2>2 DEF OwnChild
<1>8. Born'
  BY <1>1, <1>3, NoChildAssumption DEF Born
<1>9. Unsignalled'
  BY <1>1, <1>3, <1>4 DEF Unsignalled
<1>10. MainLast'
  BY <1>1, <1>3, <1>4 DEF MainLast
<1>11. NoOrphan'
  <2> SUFFICES ASSUME NEW c \in Children, Live(c)' PROVE Recorded(c)'
    BY NextOrphanIsUnrecorded
  <2>1. Live(c) /\ Recorded(c)
    BY <1>1, OrphanIsUnrecorded DEF Live
  <2>2. c # victim /\ c # child
    BY <1>1, <1>2, <2>1, NoChildAssumption
  <2> QED BY <1>1, <1>4, <2>1, <2>2 DEF Recorded, Tending
<1> QED BY <1>5, <1>6, <1>7, <1>8, <1>9, <1>10, <1>11

(* A step of the main thread, before and after it takes the child.         *)
LEMMA MainThreadStep ==
    ASSUME Types, Records, Sigterm \/ MainStep
    PROVE  Records'
<1> USE DEF Records
<1>1. CASE Sigterm
  <2>1. /\ main = "serving" /\ main' = "signalled"
        /\ UNCHANGED <<child, starting, stopping, mine, proc, signalled, reaper, victim, last>>
    BY <1>1 DEF Sigterm
  <2>2. \A q \in Requests : pc'[q] = pc[q] \/ (pc[q] = "waiting" /\ pc'[q] = "begin")
    BY <1>1 DEF Sigterm, NotifyAll
  <2>3. OneStarter'
    <3>1. \A q \in Requests : q \in Starters' <=> q \in Starters
      BY <2>2 DEF Starters
    <3>2. Starters' = Starters
      BY <3>1 DEF Starters
    <3> QED BY <2>1, <3>2 DEF OneStarter
  <2>4. OneStopper'
    BY <2>1, <2>2 DEF OneStopper, Reaping, Live
  <2>5. InHand' /\ OwnChild' /\ Born'
    BY <2>1, <2>2 DEF InHand, OwnChild, Born, Tending
  <2>6. Unsignalled' /\ MainLast'
    BY <2>1, <2>2 DEF Unsignalled, MainLast
  <2>7. NoOrphan'
    <3> SUFFICES ASSUME NEW c \in Children, Live(c)' PROVE Recorded(c)'
      BY NextOrphanIsUnrecorded
    <3>1. Recorded(c)
      BY <2>1, OrphanIsUnrecorded DEF Live
    <3> QED BY <2>1, <2>2, <3>1 DEF Recorded, Tending
  <2> QED BY <2>3, <2>4, <2>5, <2>6, <2>7
<1>2. CASE StopServing
  BY <1>2, IdleStep DEF StopServing, flags
<1>3. CASE Drained
  <2>1. /\ main = "draining" /\ main' = "closing"
        /\ \A r \in Requests : pc[r] \in {"none", "done"}
        /\ UNCHANGED <<child, starting, stopping, pc, mine, proc, signalled, reaper, victim, last>>
    BY <1>3 DEF Drained
  <2>2. OneStarter' /\ OneStopper'
    BY <2>1 DEF OneStarter, Starters, OneStopper, Reaping, Live
  <2>3. InHand' /\ OwnChild' /\ Born'
    BY <2>1 DEF InHand, OwnChild, Born
  <2>4. Unsignalled' /\ MainLast'
    BY <2>1 DEF Unsignalled, MainLast
  <2>5. NoOrphan'
    BY <2>1 DEF NoOrphan, Live
  <2> QED BY <2>2, <2>3, <2>4, <2>5
<1>4. CASE ShutdownTakesChild
  <2>1. /\ main = "closing" /\ ~starting /\ ~stopping /\ child' = NONE /\ last' = child
        /\ child = NONE => main' = "exit"
        /\ child # NONE => main' = "awaiting"
        /\ signalled' \subseteq signalled \cup {child}
        /\ signalled' # signalled => child # NONE /\ Live(child)
        /\ UNCHANGED <<starting, stopping, pc, mine, proc, reaper, victim>>
    BY <1>4 DEF ShutdownTakesChild, Signal, flags
  <2>2. \A r \in Requests : pc[r] \in {"none", "done"}
    BY <2>1 DEF MainLast
  <2>3. victim = NONE
    BY <2>1 DEF OneStopper, Reaping
  <2>4. OneStarter'
    BY <2>1 DEF OneStarter, Starters
  <2>5. OneStopper'
    BY <2>1, <2>3 DEF OneStopper, Reaping, Live
  <2>6. InHand' /\ OwnChild'
    BY <2>1, <2>2 DEF InHand, OwnChild, Tending
  <2>7. Born'
    BY <2>1, NoChildAssumption DEF Born, Live
  <2>8. Unsignalled' /\ MainLast'
    BY <2>1, <2>2 DEF Unsignalled, MainLast
  <2>9. NoOrphan'
    <3> SUFFICES ASSUME NEW c \in Children, Live(c)' PROVE Recorded(c)'
      BY NextOrphanIsUnrecorded
    <3>1. Recorded(c) /\ main # "awaiting" /\ c # victim
      BY <2>1, <2>3, OrphanIsUnrecorded, NoChildAssumption DEF Live
    <3>2. c = child
      BY <2>2, <3>1 DEF Recorded, Tending
    <3> QED BY <2>1, <3>2, NoChildAssumption DEF Recorded
  <2> QED BY <2>4, <2>5, <2>6, <2>7, <2>8, <2>9
<1>5. CASE Exits
  <2>1. /\ main = "awaiting" /\ main' = "exit" /\ ~Live(last)
        /\ UNCHANGED <<child, starting, stopping, pc, mine, proc, signalled, reaper, victim, last>>
    BY <1>5 DEF Exits, flags
  <2>2. OneStarter' /\ OneStopper'
    BY <2>1 DEF OneStarter, Starters, OneStopper, Reaping, Live
  <2>3. InHand' /\ OwnChild' /\ Born'
    BY <2>1 DEF InHand, OwnChild, Born
  <2>4. Unsignalled' /\ MainLast'
    BY <2>1 DEF Unsignalled, MainLast
  <2>5. NoOrphan'
    BY <2>1 DEF NoOrphan, Live
  <2> QED BY <2>2, <2>3, <2>4, <2>5
<1> QED BY <1>1, <1>2, <1>3, <1>4, <1>5 DEF MainStep

(* A child process that lives goes on, exits or crashes.                   *)
LEMMA ChildStep ==
    ASSUME Types, Records, NEW c \in Children, Listen(c) \/ Quit(c) \/ Crash(c)
    PROVE  Records'
<1> USE DEF Records
<1>1. /\ Live(c)
      /\ \E state \in {"listening", "quitting", "exited"} : proc' = [proc EXCEPT ![c] = state]
      /\ UNCHANGED <<child, starting, stopping, pc, mine, signalled, reaper, victim, main, last>>
  BY DEF Listen, Quit, Crash, Live, flags, threads
<1>2. \A d \in Children : /\ Live(d)' => Live(d)
                          /\ proc'[d] = "unborn" => proc[d] = "unborn"
  BY <1>1 DEF Live, Types
<1>3. OneStarter'
  BY <1>1 DEF OneStarter, Starters
<1>4. OneStopper'
  BY <1>1, <1>2 DEF OneStopper, Reaping, Types
<1>5. InHand' /\ OwnChild'
  BY <1>1 DEF InHand, OwnChild
<1>6. Born'
  BY <1>1, <1>2 DEF Born
<1>7. Unsignalled' /\ MainLast'
  BY <1>1 DEF Unsignalled, MainLast
<1>8. NoOrphan'
  BY <1>1, <1>2 DEF NoOrphan
<1> QED BY <1>3, <1>4, <1>5, <1>6, <1>7, <1>8

-----------------------------------------------------------------------------
(* Every step keeps the inductive invariant.                               *)

(* Types.                                                                  *)
LEMMA TypesStep == Types /\ Counts /\ Records /\ [Next]_vars => Types'
<1> SUFFICES ASSUME Types, Counts, Records, [Next]_vars PROVE Types'
  OBVIOUS
<1>1. ASSUME NEW r \in Requests, Arrive(r) \/ RequestStep(r) PROVE Types'
  <2>1. pc' \in [Requests -> RequestSteps]
    <3>1. \E step \in RequestSteps : Goto(r, step) \/ GotoNotifying(r, step)
      BY <1>1 DEF Arrive, RequestStep, ReadBody, Refuse, BeginServed, BeginWaits,
         BeginStarts, Launch, LaunchFails, Probe, Publish, FailStart, TerminateFailed,
         TerminatedFailed, EndRequest, RequestSteps
    <3> QED BY <3>1, GotoMoves
  <2>2. CASE Arrive(r) \/ ReadBody(r) \/ LaunchFails(r) \/ Probe(r) \/ TerminatedFailed(r)
    BY <2>1, <2>2 DEF Types, Arrive, ReadBody, LaunchFails, Probe, TerminatedFailed,
       flags, threads
  <2>3. CASE Refuse(r) \/ BeginWaits(r)
    BY <2>1, <2>3 DEF Types, Refuse, BeginWaits, Polled, flags, threads
  <2>4. CASE BeginServed(r) \/ BeginStarts(r)
    BY <2>1, <2>4 DEF Types, BeginServed, BeginStarts, flags, threads
  <2>5. CASE Launch(r)
    <3>1. PICK c \in Children, start \in {"loading", "hung"} :
            /\ proc' = [proc EXCEPT ![c] = start]
            /\ mine' = [mine EXCEPT ![r] = c]
      BY <2>5 DEF Launch
    <3> QED BY <2>1, <2>5, <3>1 DEF Types, Launch, ProcSteps, flags, threads
  <2>6. CASE Publish(r) \/ FailStart(r)
    BY <2>1, <2>6 DEF Types, Publish, FailStart, threads
  <2>7. CASE TerminateFailed(r)
    <3>1. mine[r] \in Children
      BY <2>7 DEF TerminateFailed, Records, InHand, Tending, Types
    <3> QED BY <2>1, <2>7, <3>1 DEF Types, TerminateFailed, Signal, flags, threads
  <2>8. CASE EndRequest(r)
    <3>1. idleFor' \in 0..Idle
      BY <2>8, IdleTicksAssumption DEF EndRequest
    <3> QED BY <2>1, <2>8, <3>1 DEF Types, EndRequest, flags, threads
  <2> QED BY <1>1, <2>2, <2>3, <2>4, <2>5, <2>6, <2>7, <2>8 DEF RequestStep
<1>2. CASE ReaperStep
  <2>1. CASE ReaperWakes \/ ReapSkips
    BY <2>1 DEF Types, ReaperWakes, ReapSkips, ReaperSteps, flags
  <2>2. CASE ReapBegins
    BY <2>2 DEF Types, ReapBegins, ReaperSteps
  <2>3. CASE ReapSignals
    <3>1. victim \in Children
      BY <2>3 DEF ReapSignals, Records, OneStopper, Reaping, Types
    <3> QED BY <2>3, <3>1 DEF Types, ReapSignals, Signal, ReaperSteps, flags
  <2>4. CASE ReapEnds
    <3>1. pc' \in [Requests -> RequestSteps]
      BY <2>4 DEF ReapEnds, NotifyAll, Types, RequestSteps
    <3> QED BY <2>4, <3>1 DEF Types, ReapEnds, ReaperSteps
  <2> QED BY <1>2, <2>1, <2>2, <2>3, <2>4 DEF ReaperStep
<1>3. CASE Sigterm \/ MainStep
  <2>1. CASE Sigterm
    <3>1. pc' \in [Requests -> RequestSteps]
      BY <2>1 DEF Sigterm, NotifyAll, Types, RequestSteps
    <3> QED BY <2>1, <3>1 DEF Types, Sigterm, MainSteps
  <2>2. CASE StopServing \/ Drained \/ Exits
    BY <2>2 DEF Types, StopServing, Drained, Exits, MainSteps, flags
  <2>3. CASE ShutdownTakesChild
    BY <2>3 DEF Types, ShutdownTakesChild, Signal, MainSteps, flags
  <2> QED BY <1>3, <2>1, <2>2, <2>3 DEF MainStep
<1>4. ASSUME NEW c \in Children, Listen(c) \/ Quit(c) \/ Crash(c) PROVE Types'
  <2>1. proc' \in [Children -> ProcSteps]
    BY <1>4 DEF Types, Listen, Quit, Crash, ProcSteps
  <2> QED BY <1>4, <2>1 DEF Types, Listen, Quit, Crash, flags, threads
<1>5. CASE Tick
  <2>1. idleFor' \in 0..Idle
    BY <1>5, IdleTicksAssumption DEF Tick, Types
  <2> QED BY <1>5, <2>1 DEF Types, Tick, flags, threads
<1>6. CASE UNCHANGED vars
  BY <1>6 DEF Types, vars, flags, threads
<1> QED BY <1>1, <1>2, <1>3, <1>4, <1>5, <1>6 DEF Next

(* The counters.                                                           *)
LEMMA CountsStep == Types /\ Counts /\ [Next]_vars => Counts'
<1> SUFFICES ASSUME Types, Counts, [Next]_vars PROVE Counts'
  OBVIOUS
<1>0. slots \in Nat /\ active \in Nat
  BY OneMore, FS_CardinalityType, RequestsAssumption, FS_Subset DEF Counts, Forwarding
<1>1. ASSUME NEW r \in Requests, Arrive(r) \/ RequestStep(r) PROVE Counts'
  <2> DEFINE Fits(step) ==
          /\ step \in RequestSteps
          /\ Goto(r, step) \/ GotoNotifying(r, step)
          /\ active' = active + (IF step = "forward" THEN 1 ELSE 0)
                              - (IF pc[r] = "forward" THEN 1 ELSE 0)
          /\ slots' = slots + (IF step \in {"none", "done"} THEN 1 ELSE 0)
                            - (IF pc[r] \in {"none", "done"} THEN 1 ELSE 0)
          /\ slots' >= 0
          /\ ~ (step = "forward" /\ pc[r] = "forward")
  <2>1. \E step : Fits(step)
    <3> USE <1>0 DEF RequestSteps
    <3>1. Arrive(r) => Fits("done") \/ Fits("reading")
      BY DEF Arrive
    <3>2. ReadBody(r) => Fits("begin") \/ Fits("done")
      BY DEF ReadBody
    <3>3. Refuse(r) => Fits("done")
      BY DEF Refuse
    <3>4. BeginServed(r) => Fits("forward")
      BY DEF BeginServed
    <3>5. BeginWaits(r) => Fits("waiting")
      BY DEF BeginWaits
    <3>6. BeginStarts(r) => Fits("launch")
      BY DEF BeginStarts
    <3>7. Launch(r) => Fits("loading")
      BY DEF Launch
    <3>8. LaunchFails(r) => Fits("failed")
      BY DEF LaunchFails
    <3>9. Probe(r) => Fits("failed") \/ Fits("publish")
      BY DEF Probe
    <3>10. Publish(r) => Fits("forward")
      BY DEF Publish
    <3>11. FailStart(r) => Fits("terminate") \/ Fits("done")
      BY DEF FailStart
    <3>12. TerminateFailed(r) => Fits("awaiting")
      BY DEF TerminateFailed
    <3>13. TerminatedFailed(r) => Fits("done")
      BY DEF TerminatedFailed
    <3>14. EndRequest(r) => Fits("done")
      BY DEF EndRequest
    <3> HIDE DEF Fits
    <3> QED
      BY <1>1, <3>1, <3>2, <3>3, <3>4, <3>5, <3>6, <3>7, <3>8, <3>9, <3>10, <3>11,
         <3>12, <3>13, <3>14 DEF RequestStep
  <2>2. PICK step : Fits(step) /\ Moves(r, step)
    BY <2>1, GotoMoves
  <2> QED BY <2>2, MoveKeepsCounts
<1>2. CASE ReapEnds \/ Sigterm
  <2>1. \A q \in Requests : pc'[q] = pc[q] \/ (pc[q] = "waiting" /\ pc'[q] = "begin")
    BY <1>2 DEF ReapEnds, Sigterm, NotifyAll
  <2>2. Forwarding' = Forwarding /\ Inside' = Inside
    BY <2>1 DEF Forwarding, Inside
  <2>3. UNCHANGED <<active, slots>>
    BY <1>2 DEF ReapEnds, Sigterm
  <2> QED BY <2>2, <2>3 DEF Counts
<1>3. CASE UNCHANGED <<active, slots, pc>>
  BY <1>3 DEF Counts, Forwarding, Inside
<1>4. CASE ReaperStep \/ MainStep \/ Tick
  BY <1>2, <1>3, <1>4 DEF ReaperStep, ReaperWakes, ReapSkips, ReapBegins, ReapSignals,
     MainStep, StopServing, Drained, ShutdownTakesChild, Exits, Tick
<1>5. ASSUME NEW c \in Children, Listen(c) \/ Quit(c) \/ Crash(c) PROVE Counts'
  BY <1>3, <1>5 DEF Listen, Quit, Crash
<1> QED BY <1>1, <1>2, <1>3, <1>4, <1>5 DEF Next, vars

(* The records of the child.                                               *)
LEMMA RecordsStep == Types /\ Counts /\ Records /\ [Next]_vars => Records'
<1> SUFFICES ASSUME Types, Counts, Records, [Next]_vars PROVE Records'
  OBVIOUS
<1>1. ASSUME NEW r \in Requests, Arrive(r) \/ RequestStep(r) PROVE Records'
  <2>1. CASE Arrive(r) \/ ReadBody(r)
    <3>1. PICK step \in {"reading", "begin", "done"} :
            /\ Goto(r, step)
            /\ \/ /\ pc[r] = "none" /\ step \in {"reading", "done"}
                  /\ main \in {"serving", "signalled"}
               \/ pc[r] = "reading" /\ step \in {"begin", "done"}
      BY <2>1 DEF Arrive, ReadBody
    <3>2. Moves(r, step)
      BY <3>1, GotoMoves DEF RequestSteps
    <3>3. UNCHANGED <<child, flags, mine, proc, signalled, threads>>
      BY <2>1 DEF Arrive, ReadBody
    <3> QED BY <3>1, <3>2, <3>3, QuietStep DEF QuietMove
  <2>2. CASE Refuse(r) \/ BeginWaits(r)
    <3>1. PICK step \in {"waiting", "done"} : Goto(r, step)
      BY <2>2 DEF Refuse, BeginWaits
    <3>2. Moves(r, step) /\ pc[r] = "begin"
      BY <2>2, <3>1, GotoMoves DEF RequestSteps, Refuse, BeginWaits
    <3>3. UNCHANGED <<flags, mine, proc, signalled, threads>>
      BY <2>2 DEF Refuse, BeginWaits
    <3>4. child' = child \/ (child' = NONE /\ ~Live(child))
      BY <2>2 DEF Refuse, BeginWaits, Polled
    <3> QED BY <3>1, <3>2, <3>3, <3>4, QuietStep DEF QuietMove
  <2>3. CASE LaunchFails(r) \/ Probe(r)
    <3>1. PICK step \in {"failed", "publish"} :
            Goto(r, step) /\ (step = "publish" => pc[r] = "loading")
      BY <2>3 DEF LaunchFails, Probe
    <3>2. Moves(r, step) /\ pc[r] \in {"launch", "loading"}
      BY <2>3, <3>1, GotoMoves DEF RequestSteps, LaunchFails, Probe
    <3>3. UNCHANGED <<child, flags, mine, proc, signalled, threads>>
      BY <2>3 DEF LaunchFails, Probe
    <3> QED BY <3>1, <3>2, <3>3, QuietStep DEF QuietMove
  <2>4. CASE TerminatedFailed(r) \/ EndRequest(r)
    <3>1. Moves(r, "done")
      BY <2>4, GotoMoves DEF RequestSteps, TerminatedFailed, EndRequest
    <3>2. pc[r] = "forward" \/ (pc[r] = "awaiting" /\ ~Live(mine[r]))
      BY <2>4 DEF TerminatedFailed, EndRequest
    <3>3. UNCHANGED <<child, flags, mine, proc, signalled, threads>>
      BY <2>4 DEF TerminatedFailed, EndRequest
    <3> QED BY <3>1, <3>2, <3>3, QuietStep DEF QuietMove
  <2>5. CASE \/ BeginServed(r) \/ BeginStarts(r) \/ Launch(r)
             \/ Publish(r) \/ FailStart(r) \/ TerminateFailed(r)
    BY <2>5, BeginServedStep, BeginStartsStep, LaunchStep, PublishStep, FailStartStep,
       TerminateStep
  <2> QED BY <1>1, <2>1, <2>2, <2>3, <2>4, <2>5 DEF RequestStep
<1>2. CASE ReaperStep
  <2>1. CASE ReaperWakes \/ ReapSkips
    BY <2>1, IdleStep DEF ReaperWakes, ReapSkips, flags
  <2> QED
    BY <1>2, <2>1, ReapBeginsStep, ReapSignalsStep, ReapEndsStep DEF ReaperStep
<1>3. CASE Sigterm \/ MainStep
  BY <1>3, MainThreadStep
<1>4. ASSUME NEW c \in Children, Listen(c) \/ Quit(c) \/ Crash(c) PROVE Records'
  BY <1>4, ChildStep
<1>5. CASE Tick \/ UNCHANGED vars
  BY <1>5, IdleStep DEF Tick, vars, flags, threads
<1> QED BY <1>1, <1>2, <1>3, <1>4, <1>5 DEF Next

(* Every reachable state satisfies LifecycleInv.                           *)
THEOREM Lifecycle == Spec => []LifecycleInv
<1>1. Init => LifecycleInv
  <2> SUFFICES ASSUME Init PROVE LifecycleInv
    OBVIOUS
  <2>1. Types
    <3>1. idleFor \in 0..Idle
      BY IdleTicksAssumption DEF Init
    <3> QED BY <3>1 DEF Init, Types, RequestSteps, ProcSteps, ReaperSteps, MainSteps
  <2>2. Counts
    <3>1. Forwarding = {} /\ Inside = {}
      BY DEF Init, Forwarding, Inside
    <3> QED BY <3>1, FS_EmptySet, SlotsAssumption DEF Init, Counts
  <2>3. Records
    BY NoChildAssumption DEF Init, Records, OneStarter, Starters, OneStopper, Reaping,
       InHand, OwnChild, Tending, Born, Unsignalled, MainLast, NoOrphan, Live
  <2> QED BY <2>1, <2>2, <2>3 DEF LifecycleInv
<1>2. LifecycleInv /\ [Next]_vars => LifecycleInv'
  BY TypesStep, CountsStep, RecordsStep DEF LifecycleInv
<1> QED BY <1>1, <1>2, PTL DEF Spec

(* The child and the record of it agree at every moment (class Lifecycle). *)
THEOREM ChildIsSafe == Spec => []ChildSafety
<1>1. LifecycleInv => ChildSafety
  <2> SUFFICES ASSUME LifecycleInv PROVE ChildSafety
    OBVIOUS
  <2>1. Forwarding = {r \in Requests : pc[r] = "forward"}
    BY DEF Forwarding
  <2>2. ActiveCounts
    BY <2>1 DEF LifecycleInv, Counts, ActiveCounts
  <2>3. TypeOK
    <3>1. active \in 0..Cardinality(Requests)
      <4>1. /\ IsFiniteSet(Requests) /\ Forwarding \subseteq Requests
        BY RequestsAssumption DEF Forwarding
      <4>2. /\ Cardinality(Forwarding) \in Nat /\ Cardinality(Requests) \in Nat
            /\ Cardinality(Forwarding) <= Cardinality(Requests)
        BY <4>1, FS_Subset, FS_CardinalityType
      <4> QED BY <4>2 DEF LifecycleInv, Counts
    <3>2. slots \in 0..Slots
      <4>1. Cardinality(Inside) \in Nat
        BY RequestsAssumption, FS_Subset, FS_CardinalityType DEF Inside
      <4> QED BY <4>1, SlotsAssumption DEF LifecycleInv, Counts
    <3> QED BY <3>1, <3>2 DEF LifecycleInv, Types, TypeOK
  <2>4. NoStopUnderRequest
    BY DEF LifecycleInv, Records, Unsignalled, NoStopUnderRequest
  <2>5. OneStarter /\ NoOrphan
    BY DEF LifecycleInv, Records
  <2>6. ExitLeavesNoChild
    BY NoChildAssumption
       DEF LifecycleInv, Records, MainLast, OneStopper, NoOrphan, ExitLeavesNoChild
  <2> QED BY <2>2, <2>3, <2>4, <2>5, <2>6 DEF ChildSafety
<1> QED BY <1>1, Lifecycle, PTL

(* A child is launched beside no other but one that failed to start        *)
(* (begin_request, _start_child).                                          *)
THEOREM LaunchesAlone == Spec => LaunchedAlone
<1> DEFINE Alone ==
      \A c \in Children :
         proc[c] = "unborn" /\ proc'[c] # "unborn" =>
            \A d \in Children : Live(d) =>
                \E r \in Requests :
                    mine[r] = d /\ pc[r] \in {"terminate", "awaiting"}
<1>1. LifecycleInv /\ [Next]_vars => Alone
  <2> SUFFICES ASSUME LifecycleInv, [Next]_vars,
                      NEW c \in Children, proc[c] = "unborn", proc'[c] # "unborn",
                      NEW d \in Children, Live(d)
               PROVE  \E r \in Requests :
                         mine[r] = d /\ pc[r] \in {"terminate", "awaiting"}
    OBVIOUS
  <2> USE DEF LifecycleInv, Records
  <2>1. PICK r \in Requests : Launch(r)
    <3>1. ~ \E e \in Children : Listen(e) \/ Quit(e) \/ Crash(e)
      BY DEF Types, Listen, Quit, Crash, Live
    <3>2. ~ UNCHANGED proc
      OBVIOUS
    <3> QED
      BY <3>1, <3>2 DEF Next, vars, Arrive, RequestStep, ReadBody, Refuse, BeginServed,
         BeginWaits, BeginStarts, LaunchFails, Probe, Publish, FailStart,
         TerminateFailed, TerminatedFailed, EndRequest, ReaperStep, ReaperWakes,
         ReapSkips, ReapBegins, ReapSignals, ReapEnds, Sigterm, MainStep, StopServing,
         Drained, ShutdownTakesChild, Exits, Tick
  <2>2. pc[r] = "launch" /\ mine[r] = NONE
    BY <2>1 DEF Launch, InHand
  <2>3. starting /\ child = NONE /\ ~stopping /\ \A q \in Requests : q \in Starters => q = r
    BY <2>2 DEF OneStarter, Starters
  <2>4. victim = NONE /\ main # "awaiting"
    BY <2>2, <2>3 DEF OneStopper, Reaping, MainLast
  <2>5. PICK q \in Requests : mine[q] = d /\ pc[q] \in Tending
    BY <2>3, <2>4, OrphanIsUnrecorded, NoChildAssumption DEF Recorded
  <2>6. q # r
    BY <2>2, <2>5, NoChildAssumption
  <2> QED BY <2>3, <2>5, <2>6 DEF Starters, Tending
<1>2. Alone => [Alone]_vars
  OBVIOUS
<1> QED BY <1>1, <1>2, Lifecycle, PTL DEF Spec, LaunchedAlone
=============================================================================
