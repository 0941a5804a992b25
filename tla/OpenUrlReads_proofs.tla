------------------------- MODULE OpenUrlReads_proofs -------------------------
(***************************************************************************)
(* Proofs about OpenUrlReads, for any number of calls, URLs, threads and   *)
(* slots and all times: the attempts of a call end before its collection,  *)
(* and nothing comes of a worker that outlives its collection.             *)
(***************************************************************************)
EXTENDS OpenUrlReads, FiniteSetTheorems, TLAPS

USE BoundsAssumption

Typed ==
    /\ call \in [Calls -> {"idle", "running", "collecting", "expiring", "expired", "collected"}]
    /\ left \in [Calls -> 0..Budget]
    /\ finalized \in [Calls -> BOOLEAN]
    /\ limit \in [Workers -> 0..Attempt]
    /\ at \in [Workers -> {"idle", "queued", "acquire", "check", "guard", "navigate",
                           "fetch", "parse", "content", "leaving", "done"}]
    /\ result \in [Workers -> {"none", "failure", "content"}]
    /\ report \in [Workers -> {"none", "failure", "content", "late"}]

(* Nothing runs before the pages are submitted.                             *)
Running == \A w \in Workers : at[w] # "idle" => call[CallOf(w)] \notin {"idle", "running"}

Limited == \A w \in Workers : limit[w] > 0 => at[w] \in {"guard", "navigate", "fetch"}

(* A collection that has its results leaves nothing that may go on.         *)
Closed ==
    \A w \in Workers : call[CallOf(w)] \in {"expired", "collected"} =>
        finalized[CallOf(w)] \/ at[w] = "done"

(* What is reported is the result of a worker that has ended, and only a    *)
(* worker that was cancelled ends without a result.                         *)
Reports ==
    \A w \in Workers :
        /\ call[CallOf(w)] \in {"expiring", "expired"} => left[CallOf(w)] <= Headroom
        /\ report[w] = "late" => left[CallOf(w)] <= Headroom
        /\ report[w] \in {"content", "failure"} => at[w] = "done" /\ report[w] = result[w]
        /\ at[w] = "leaving" => result[w] # "none"
        /\ at[w] = "done" /\ call[CallOf(w)] # "collected" => result[w] # "none"
        /\ call[CallOf(w)] = "collected" => at[w] # "queued" /\ report[w] # "none"

IInv == Typed /\ Running /\ Limited /\ AttemptsFit /\ Closed /\ Reports

LEMMA OwnerOfWorker == \A w \in Workers : CallOf(w) \in Calls
BY DEF CallOf

LEMMA InitIInv == Init => IInv
BY OwnerOfWorker DEF Init, IInv, Typed, Running, Limited, AttemptsFit, Closed, Reports

LEMMA CallKeeps ==
    ASSUME IInv, NEW c \in Calls, Run(c) \/ CallStep(c)
    PROVE  IInv'
<1>1. CASE Run(c)
      BY <1>1, OwnerOfWorker
      DEF Run, IInv, Typed, Running, Limited, AttemptsFit, Closed, Reports
<1>2. CASE Submit(c)
      BY <1>2, OwnerOfWorker
      DEF Submit, IInv, Typed, Running, Limited, AttemptsFit, Closed, Reports
<1>3. CASE Collect(c)
      BY <1>3, OwnerOfWorker
      DEF Collect, Reported, Pending, WorkersOf, IInv, Typed, Running, Limited, AttemptsFit, Closed, Reports
<1>4. CASE Expire(c)
      BY <1>4, OwnerOfWorker
      DEF Expire, Reported, IInv, Typed, Running, Limited, AttemptsFit, Closed, Reports
<1>5. CASE FinishExpired(c)
      BY <1>5, OwnerOfWorker
      DEF FinishExpired, IInv, Typed, Running, Limited, AttemptsFit, Closed, Reports
<1>6. CASE Cancel(c)
      BY <1>6, OwnerOfWorker
      DEF Cancel, IInv, Typed, Running, Limited, AttemptsFit, Closed, Reports
<1>7. CASE Finish(c)
      BY <1>7, OwnerOfWorker
      DEF Finish, IInv, Typed, Running, Limited, AttemptsFit, Closed, Reports
<1> QED BY <1>1, <1>2, <1>3, <1>4, <1>5, <1>6, <1>7 DEF CallStep

LEMMA AttemptTimeFits ==
    ASSUME NEW c \in Calls, left[c] \in 0..Budget
    PROVE  /\ AttemptTime(c) \in Nat
           /\ AttemptTime(c) <= Attempt
           /\ AttemptTime(c) > 0 => AttemptTime(c) + Headroom <= left[c]
BY DEF AttemptTime

LEMMA WorkerKeeps ==
    ASSUME IInv, NEW w \in Workers, WorkerStep(w)
    PROVE  IInv'
<1>1. CASE Start(w)
      BY <1>1, OwnerOfWorker
      DEF Start, Goto, IInv, Typed, Running, Limited, AttemptsFit, Closed, Reports
<1>2. CASE Acquire(w)
      BY <1>2, OwnerOfWorker
      DEF Acquire, Goto, IInv, Typed, Running, Limited, AttemptsFit, Closed, Reports
<1>3. CASE AcquireTimesOut(w)
      BY <1>3, OwnerOfWorker
      DEF AcquireTimesOut, Goto, IInv, Typed, Running, Limited, AttemptsFit, Closed, Reports
<1>4. ASSUME NEW value \in {"failure", "content"}, Yield(w, value),
             at[w] \notin {"idle", "queued", "leaving", "done"}
      PROVE  IInv'
      BY <1>4, OwnerOfWorker
      DEF Yield, Goto, IInv, Typed, Running, Limited, AttemptsFit, Closed, Reports
<1>5. CASE Check(w)
  <2> DEFINE c == CallOf(w)
  <2>1. CASE Yield(w, "failure")
        BY <1>4, <1>5, <2>1 DEF Check
  <2>2. CASE /\ AttemptTime(c) > 0
             /\ limit' = [limit EXCEPT ![w] = AttemptTime(c)]
             /\ Goto(w, "guard")
             /\ UNCHANGED <<permits, result>>
    <3>1. c \in Calls /\ left[c] \in 0..Budget
          BY OwnerOfWorker DEF IInv, Typed
    <3>2. /\ AttemptTime(c) \in 0..Attempt
          /\ AttemptTime(c) + Headroom <= left[c]
          BY <2>2, <3>1, AttemptTimeFits
    <3>3. at[w] # "idle"
          BY <1>5 DEF Check
    <3>4. at' = [at EXCEPT ![w] = "guard"] /\ UNCHANGED <<call, left, finalized, result, report>>
          BY <2>2 DEF Goto
    <3>5. at[w] # "done"
          BY <1>5 DEF Check
    <3>6. Typed'
          BY <2>2, <3>2, <3>4 DEF IInv, Typed
    <3>7. Running' /\ Closed' /\ Reports'
          BY <2>2, <3>3, <3>4, <3>5 DEF IInv, Typed, Running, Closed, Reports
    <3>8. Limited' /\ AttemptsFit'
          BY <2>2, <3>2, <3>4 DEF IInv, Typed, Limited, AttemptsFit
    <3> QED BY <3>6, <3>7, <3>8 DEF IInv
  <2> QED BY <1>5, <2>1, <2>2 DEF Check
<1>6. CASE Permit(w) \/ Navigate(w)
  <2>1. CASE Permit(w)
        BY <2>1, OwnerOfWorker
        DEF Permit, Goto, IInv, Typed, Running, Limited, AttemptsFit, Closed, Reports
  <2>2. CASE Navigate(w)
        BY <2>2, OwnerOfWorker
        DEF Navigate, Goto, IInv, Typed, Running, Limited, AttemptsFit, Closed, Reports
  <2> QED BY <1>6, <2>1, <2>2
<1>7. CASE AttemptFails(w)
      BY <1>4, <1>7 DEF AttemptFails
<1>8. CASE Fetched(w)
  <2>1. CASE Yield(w, "failure")
        BY <1>4, <1>8, <2>1 DEF Fetched
  <2>2. CASE limit' = [limit EXCEPT ![w] = 0] /\ Goto(w, "parse") /\ result' = result
        BY <1>8, <2>2, OwnerOfWorker
        DEF Fetched, Goto, IInv, Typed, Running, Limited, AttemptsFit, Closed, Reports
  <2> QED BY <1>8, <2>1, <2>2 DEF Fetched
<1>9. CASE Parsed(w)
  <2>1. CASE Yield(w, "failure")
        BY <1>4, <1>9, <2>1 DEF Parsed
  <2>2. CASE Goto(w, "content") /\ UNCHANGED <<permits, limit, result>>
        BY <1>9, <2>2, OwnerOfWorker
        DEF Parsed, Goto, IInv, Typed, Running, Limited, AttemptsFit, Closed, Reports
  <2> QED BY <1>9, <2>1, <2>2 DEF Parsed
<1>10. CASE Deliver(w)
      BY <1>4, <1>10 DEF Deliver
<1>11. CASE Publish(w)
      BY <1>11, OwnerOfWorker
      DEF Publish, Goto, IInv, Typed, Running, Limited, AttemptsFit, Closed, Reports
<1> QED BY <1>1, <1>2, <1>3, <1>5, <1>6, <1>7, <1>8, <1>9, <1>10, <1>11
        DEF WorkerStep, OwnStep

LEMMA TickKeeps == IInv /\ Tick => IInv'
<1> SUFFICES ASSUME IInv, Tick PROVE IInv'
    OBVIOUS
<1>1. UNCHANGED <<call, finalized, permits, at, result, report>>
      BY DEF Tick
<1>2. \A c \in Calls :
        /\ left[c] \in Nat /\ left'[c] \in Nat
        /\ left'[c] <= left[c] /\ (left[c] > 0 => left'[c] >= left[c] - 1)
      BY DEF Tick, IInv, Typed
<1>3. \A w \in Workers :
        limit[w] \in Nat /\ limit'[w] = IF limit[w] = 0 THEN 0 ELSE limit[w] - 1
      BY DEF Tick, IInv, Typed
<1>4. Typed'
  <2>1. left' \in [Calls -> 0..Budget]
    <3>1. \A c \in Calls : left[c] \in 0..Budget
          BY DEF IInv, Typed
    <3>2. \A n \in 0..Budget : n = 0 \/ n - 1 \in 0..Budget
          OBVIOUS
    <3> QED BY <3>1, <3>2 DEF Tick
  <2>2. limit' \in [Workers -> 0..Attempt]
    <3>1. \A w \in Workers : limit[w] \in 0..Attempt
          BY DEF IInv, Typed
    <3>2. \A n \in 0..Attempt : n = 0 \/ n - 1 \in 0..Attempt
          OBVIOUS
    <3> QED BY <3>1, <3>2 DEF Tick
  <2> QED BY <1>1, <2>1, <2>2 DEF IInv, Typed
<1>5. Limited'
      BY <1>1, <1>3 DEF IInv, Limited
<1>6. AttemptsFit'
      BY <1>2, <1>3, OwnerOfWorker DEF IInv, AttemptsFit, CallOf
<1>7. Running' /\ Closed'
      BY <1>1 DEF IInv, Running, Closed, CallOf
<1>8. Reports'
      BY <1>1, <1>2, OwnerOfWorker DEF IInv, Reports
<1> QED BY <1>4, <1>5, <1>6, <1>7, <1>8 DEF IInv

LEMMA NextKeeps == IInv /\ [Next]_vars => IInv'
<1> SUFFICES ASSUME IInv, [Next]_vars PROVE IInv'
    OBVIOUS
<1>1. CASE UNCHANGED vars
      BY <1>1 DEF vars, IInv, Typed, Running, Limited, AttemptsFit, Closed, Reports
<1>2. CASE Over
      BY <1>1, <1>2 DEF Over
<1> QED BY <1>1, <1>2, CallKeeps, WorkerKeeps, TickKeeps DEF Next

-----------------------------------------------------------------------------
(* Slots.                                                                   *)

Slotted == permits \in Nat /\ SlotsKept

LEMMA HoldingFinite == IsFiniteSet(Holding)
<1>1. IsFiniteSet(Workers)
      OBVIOUS
<1> QED BY <1>1, FS_Subset DEF Holding

LEMMA NobodyTurns ==
    ASSUME Slotted, permits' = permits, Holding' = Holding
    PROVE  Slotted'
BY DEF Slotted, SlotsKept

LEMMA OneTakes ==
    ASSUME Slotted, NEW w \in Workers, w \notin Holding, permits > 0,
           permits' = permits - 1, Holding' = Holding \cup {w}
    PROVE  Slotted'
<1>1. Cardinality(Holding') = Cardinality(Holding) + 1
      BY HoldingFinite, FS_AddElement
<1>2. Cardinality(Holding) \in Nat
      BY HoldingFinite, FS_CardinalityType
<1> QED BY <1>1, <1>2 DEF Slotted, SlotsKept

LEMMA OneReturns ==
    ASSUME Slotted, NEW w \in Holding, permits' = permits + 1, Holding' = Holding \ {w}
    PROVE  Slotted'
<1>1. Cardinality(Holding') = Cardinality(Holding) - 1
      BY HoldingFinite, FS_RemoveElement
<1>2. Cardinality(Holding) \in Nat
      BY HoldingFinite, FS_CardinalityType
<1> QED BY <1>1, <1>2 DEF Slotted, SlotsKept

LEMMA InitSlotted == Init => Slotted
<1> SUFFICES ASSUME Init PROVE Slotted
    OBVIOUS
<1>1. Holding = {}
      BY DEF Init, Holding
<1> QED BY <1>1, FS_EmptySet DEF Init, Slotted, SlotsKept

LEMMA NextSlotted == IInv /\ Slotted /\ [Next]_vars => Slotted'
<1> SUFFICES ASSUME IInv, Slotted, [Next]_vars PROVE Slotted'
    OBVIOUS
<1>1. ASSUME NEW c \in Calls, Run(c) \/ CallStep(c)
      PROVE  Slotted'
  <2>1. permits' = permits
        BY <1>1 DEF Run, CallStep, Submit, Collect, Expire, FinishExpired, Cancel, Finish
  <2>2. CASE Submit(c)
    <3>1. \A w \in Workers : CallOf(w) = c => at[w] = "idle"
          BY <2>2 DEF Submit, IInv, Running
    <3>2. Holding' = Holding
          BY <2>2, <3>1 DEF Submit, Holding, IInv, Typed
    <3> QED BY <2>1, <3>2, NobodyTurns
  <2>3. CASE Cancel(c)
    <3>1. Holding' = Holding
          BY <2>3 DEF Cancel, Holding, IInv, Typed
    <3> QED BY <2>1, <3>1, NobodyTurns
  <2>4. CASE at' = at
    <3>1. Holding' = Holding
          BY <2>4 DEF Holding
    <3> QED BY <2>1, <3>1, NobodyTurns
  <2> QED BY <1>1, <2>2, <2>3, <2>4
          DEF Run, CallStep, Collect, Expire, FinishExpired, Finish
<1>2. ASSUME NEW w \in Workers, NEW step \in {"guard", "navigate", "fetch", "parse", "content"},
             w \in Holding, Goto(w, step), permits' = permits
      PROVE  Slotted'
  <2>1. Holding' = Holding
        BY <1>2 DEF Goto, Holding, IInv, Typed
  <2> QED BY <1>2, <2>1, NobodyTurns
<1>3. ASSUME NEW w \in Workers, NEW step \in {"acquire", "done"},
             w \notin Holding, Goto(w, step), permits' = permits
      PROVE  Slotted'
  <2>1. Holding' = Holding
        BY <1>3 DEF Goto, Holding, IInv, Typed
  <2> QED BY <1>3, <2>1, NobodyTurns
<1>4. ASSUME NEW w \in Workers, NEW value, w \in Holding, Yield(w, value)
      PROVE  Slotted'
  <2>1. Holding' = Holding \ {w} /\ permits' = permits + 1
        BY <1>4 DEF Yield, Goto, Holding, IInv, Typed
  <2> QED BY <1>4, <2>1, OneReturns
<1>5. ASSUME NEW w \in Workers, Acquire(w)
      PROVE  Slotted'
  <2>1. Holding' = Holding \cup {w} /\ w \notin Holding
        BY <1>5 DEF Acquire, Goto, Holding, IInv, Typed
  <2> QED BY <1>5, <2>1, OneTakes DEF Acquire
<1>6. ASSUME NEW w \in Workers, Start(w) \/ AcquireTimesOut(w) \/ Publish(w)
      PROVE  Slotted'
      BY <1>3, <1>6 DEF Start, AcquireTimesOut, Publish, Holding
<1>7. ASSUME NEW w \in Workers, Check(w)
      PROVE  Slotted'
      BY <1>2, <1>4, <1>7 DEF Check, Holding
<1>8. ASSUME NEW w \in Workers,
             \/ Permit(w) \/ Navigate(w) \/ AttemptFails(w)
             \/ Fetched(w) \/ Parsed(w) \/ Deliver(w)
      PROVE  Slotted'
      BY <1>2, <1>4, <1>8
      DEF Permit, Navigate, AttemptFails, Fetched, Parsed, Deliver, Holding
<1>9. CASE Tick \/ Over \/ UNCHANGED vars
  <2>1. permits' = permits /\ Holding' = Holding
        BY <1>9 DEF Tick, Over, vars, Holding
  <2> QED BY <2>1, NobodyTurns
<1> QED BY <1>1, <1>5, <1>6, <1>7, <1>8, <1>9 DEF Next, WorkerStep, OwnStep

-----------------------------------------------------------------------------
LEMMA InvariantIsSound == IInv /\ Slotted => ReadsSound
<1> SUFFICES ASSUME IInv, Slotted PROVE ReadsSound
    OBVIOUS
<1>1. Cardinality(Holding) \in Nat
      BY HoldingFinite, FS_CardinalityType
<1>2. permits \in 0..Slots
      BY <1>1 DEF Slotted, SlotsKept
<1>3. TypeOK
      BY <1>2 DEF IInv, Typed, TypeOK
<1>4. ReportsTrue
      BY DEF IInv, Reports, ReportsTrue
<1> QED BY <1>3, <1>4 DEF ReadsSound, IInv, Slotted

(* Slots are kept, attempts end before their collection, and the reports of *)
(* a call are those of its workers, however many calls share the slots      *)
(* (_direct_fetch, _collect_url_results).                                   *)
THEOREM ReadsSoundAlways == Spec => []ReadsSound
<1>1. Init => IInv /\ Slotted
      BY InitIInv, InitSlotted
<1>2. IInv /\ Slotted /\ [Next]_vars => (IInv /\ Slotted)'
      BY NextKeeps, NextSlotted
<1> QED BY <1>1, <1>2, InvariantIsSound, PTL DEF Spec

(* What a step after the collection may do to a worker.                     *)
OnlyPermitted(w) ==
    /\ at'[w] \in {"navigate", "parse", "content"} => at'[w] = at[w]
    /\ at'[w] = "fetch" => at[w] \in {"navigate", "fetch"}
    /\ result'[w] = "content" => result[w] = "content" \/ at[w] = "content"

LEMMA StepCloses ==
    ASSUME IInv, [Next]_vars, NEW w \in Workers,
           call[CallOf(w)] \in {"expired", "collected"}
    PROVE  OnlyPermitted(w)
<1> USE DEF OnlyPermitted
<1>1. CallOf(w) \in Calls /\ (~PermitsNavigation(CallOf(w)) \/ at[w] = "done")
      BY OwnerOfWorker DEF IInv, Closed, PermitsNavigation
<1>2. ASSUME NEW d \in Calls, Run(d) \/ CallStep(d)
      PROVE  OnlyPermitted(w)
  <2>1. result' = result /\ (at'[w] = at[w] \/ at'[w] \in {"queued", "done"})
        BY <1>2 DEF Run, CallStep, Submit, Collect, Expire, FinishExpired, Cancel, Finish,
                    IInv, Typed
  <2> QED BY <2>1
<1>3. ASSUME NEW v \in Workers, WorkerStep(v), v # w
      PROVE  at'[w] = at[w] /\ result'[w] = result[w]
      BY <1>3 DEF WorkerStep, OwnStep, Start, Acquire, AcquireTimesOut, Check, Deliver,
                  Publish, Permit, Navigate, AttemptFails, Fetched, Parsed, Yield, Goto,
                  IInv, Typed
<1>4. ASSUME OwnStep(w)
      PROVE  OnlyPermitted(w)
      BY <1>1, <1>4 DEF OwnStep, Start, Acquire, AcquireTimesOut, Check, Deliver, Publish,
                        Yield, Goto, IInv, Typed
<1>5. ASSUME \/ Permit(w) \/ Navigate(w) \/ AttemptFails(w)
             \/ Fetched(w) \/ Parsed(w)
      PROVE  OnlyPermitted(w)
      BY <1>1, <1>5 DEF Permit, Navigate, AttemptFails, Fetched, Parsed, Yield, Goto,
                        IInv, Typed
<1>6. CASE Tick \/ Over \/ UNCHANGED vars
      BY <1>6 DEF Tick, Over, vars
<1> QED BY <1>2, <1>3, <1>4, <1>5, <1>6 DEF Next, WorkerStep

(* After its collection a worker gets no permission any more, and does at   *)
(* most what it was permitted before (permits_navigation, asked before the  *)
(* navigation, before and after the parsing).                               *)
THEOREM NothingAfterwardsAlways == Spec => NothingAfterwards
<1>1. IInv /\ [Next]_vars =>
        [\A w \in Workers :
            call[CallOf(w)] \in {"expired", "collected"} =>
                /\ at'[w] \in {"navigate", "parse", "content"} => at'[w] = at[w]
                /\ at'[w] = "fetch" => at[w] \in {"navigate", "fetch"}
                /\ result'[w] = "content" => result[w] = "content" \/ at[w] = "content"]_vars
      BY StepCloses DEF OnlyPermitted
<1> QED BY <1>1, InitIInv, NextKeeps, PTL DEF Spec, NothingAfterwards
=============================================================================
