---------------------- MODULE SearchScheduling_proofs ----------------------
(***************************************************************************)
(* Provider admission is sound for any number of searches and providers:   *)
(* one owner per provider, no reservation that nobody will use or release, *)
(* no lease that is refused, no attempt on a suspended provider, a         *)
(* rotation that moves on, and no later tier before its turn.              *)
(***************************************************************************)
EXTENDS SearchHistory, FiniteSetTheorems, FunctionTheorems, WellFoundedInduction, TLAPS

(* A nonempty set of naturals, here of cooldowns, has a least element.     *)
LEMMA LeastNatural ==
    ASSUME NEW T \in SUBSET Nat, T # {}
    PROVE  \E m \in T : \A n \in T : m <= n
<1>1. PICK m \in T : \A n \in T : ~ (<<n, m>> \in OpToRel(<, Nat))
  BY NatLessThanWellFounded, WFMin
<1>2. ASSUME NEW n \in T PROVE m <= n
  <2>1. n < m => <<n, m>> \in OpToRel(<, Nat)
    BY DEF OpToRel
  <2>2. ~ (n < m)
    BY <1>1, <2>1
  <2>3. m \in Nat /\ n \in Nat
    OBVIOUS
  <2> QED BY <2>2, <2>3
<1> QED BY <1>1, <1>2

(* While a provider is idle the nearest cooldown is a number of ticks.     *)
LEMMA DelayOfIdle ==
    ASSUME TypeOK, NEW names \in SUBSET Providers, Unowned(names) # {}
    PROVE  NextReadyDelay(names) \in 0..Interval
<1> DEFINE D == {cool[p] : p \in Unowned(names)}
<1>1. D \in SUBSET (0..Interval) /\ D # {}
  <2>1. \A p \in Unowned(names) : p \in Providers /\ cool[p] \in 0..Interval
    BY DEF TypeOK, Unowned
  <2> QED BY <2>1
<1>2. D \in SUBSET Nat
  BY <1>1
<1>3. PICK m \in D : \A n \in D : m <= n
  <2> HIDE DEF D
  <2> QED BY <1>1, <1>2, LeastNatural
<1>4. \E d \in 0..Interval : /\ \E p \in Unowned(names) : cool[p] = d
                             /\ \A p \in Unowned(names) : d <= cool[p]
  BY <1>1, <1>3
<1> QED BY <1>4 DEF NextReadyDelay

(* The nearest cooldown is a value a timer can hold.                       *)
LEMMA DelayType ==
    ASSUME TypeOK, NEW names \in SUBSET Providers
    PROVE  NextReadyDelay(names) \in (0..Interval) \cup {NONE}
  BY DelayOfIdle DEF NextReadyDelay

(* ThreadGoto moves one engine thread and leaves the others where they are.*)
LEMMA ThreadMoves ==
    ASSUME TypeOK, NEW s \in Searches, NEW p \in Providers,
           NEW step \in ThreadSteps, ThreadGoto(s, p, step)
    PROVE  /\ thread' \in [Searches -> [Providers -> ThreadSteps]]
           /\ \A t \in Searches, q \in Providers :
                thread'[t][q] = IF t = s /\ q = p THEN step ELSE thread[t][q]
  BY DEF TypeOK, ThreadGoto

(* Every step keeps every variable in its type.                            *)
LEMMA TypeStep == TypeOK /\ PicksAreOwned /\ [Next]_vars => TypeOK'
<1> SUFFICES ASSUME TypeOK, PicksAreOwned, [Next]_vars PROVE TypeOK'
  OBVIOUS
<1> USE DEF TypeOK
<1>1. ASSUME NEW s \in Searches, ListRegular(s) PROVE TypeOK'
  <2>1. Available(Candidates(s) \cap Regular) \in SUBSET Providers
    BY EligibleAssumption DEF Available, Candidates
  <2> QED BY <1>1, <2>1 DEF ListRegular, At, Goto, SearchSteps, providerVars
<1>2. ASSUME NEW s \in Searches, ListLater(s) PROVE TypeOK'
  <2>1. /\ Available(Candidates(s) \cap LastResort) \in SUBSET Providers
        /\ Available(Candidates(s) \cap Paid) \in SUBSET Providers
    BY EligibleAssumption DEF Available, Candidates
  <2> QED BY <1>2, <2>1 DEF ListLater, Goto, SearchSteps, providerVars
<1>3. ASSUME NEW s \in Searches, Reserve(s) PROVE TypeOK'
  <2>1. PICK p \in avail[s] : Take(s, p)
    BY <1>3 DEF Reserve
  <2>2. /\ offset' = [offset EXCEPT ![s] = 0]
        /\ \E place \in Nat : cursor' = place + 1
    <3>1. 0..(Len(Order) - 1) \subseteq Nat
      BY OrderAssumption
    <3> QED BY <1>3, <3>1 DEF Reserve
  <2>3. owes' \in [Searches -> Browser \cup {NONE}]
    BY <2>1 DEF Take, Providers
  <2> QED
    BY <2>1, <2>2, <2>3 DEF Take, Goto, SearchSteps
<1>4. ASSUME NEW s \in Searches, PassOver(s) \/ NothingToReserve(s) PROVE TypeOK'
  <2>1. offset' \in [Searches -> Nat]
    <3>1. offset \in [Searches -> Nat] /\ offset[s] + 1 \in Nat
      OBVIOUS
    <3>2. PICK k \in Nat : offset' = [offset EXCEPT ![s] = k]
      BY <1>4, <3>1 DEF PassOver, NothingToReserve
    <3> QED BY <3>1, <3>2
  <2>2. CASE PassOver(s)
    BY <2>1, <2>2 DEF PassOver, providerVars
  <2>3. CASE NothingToReserve(s)
    BY <2>1, <2>3 DEF NothingToReserve, Goto, SearchSteps, providerVars
  <2> QED BY <1>4, <2>2, <2>3
<1>5. ASSUME NEW s \in Searches, ComputeDelay(s) PROVE TypeOK'
  <2>1. NextReadyDelay(avail[s]) \in (0..Interval) \cup {NONE}
    BY DelayType
  <2> QED BY <1>5, <2>1 DEF ComputeDelay, Goto, SearchSteps, providerVars
<1>6. ASSUME NEW s \in Searches, Block(s) PROVE TypeOK'
  BY <1>6 DEF Block, Goto, SearchSteps, providerVars
<1>7. ASSUME NEW s \in Searches, Wake(s) PROVE TypeOK'
  BY <1>7 DEF Wake, Goto, SearchSteps, providerVars
<1>8. ASSUME NEW s \in Searches, PaidUnavailable(s) PROVE TypeOK'
  BY <1>8 DEF PaidUnavailable, Goto, SearchSteps, providerVars
<1>9. ASSUME NEW s \in Searches, PaidGranted(s) PROVE TypeOK'
  <2>1. PICK p \in avail[s] : Take(s, p)
    BY <1>9 DEF PaidGranted
  <2>2. owes' \in [Searches -> Browser \cup {NONE}]
    BY <2>1 DEF Take, Providers
  <2> QED BY <1>9, <2>1, <2>2 DEF PaidGranted, Goto, SearchSteps, Take
<1>10. ASSUME NEW s \in Searches, PaidSleep(s) PROVE TypeOK'
  <2>1. PICK p \in avail[s] : timer' = [timer EXCEPT ![s] = NextReadyDelay({p})]
    BY <1>10 DEF PaidSleep
  <2>2. NextReadyDelay({p}) \in (0..Interval) \cup {NONE}
    BY DelayType
  <2> QED BY <1>10, <2>1, <2>2 DEF PaidSleep, Goto, SearchSteps, providerVars
<1>11. ASSUME NEW s \in Searches, PaidWake(s) PROVE TypeOK'
  BY <1>11 DEF PaidWake, Goto, SearchSteps, providerVars
<1>12. ASSUME NEW s \in Searches, RecheckSuspended(s) PROVE TypeOK'
  BY <1>12 DEF RecheckSuspended, At, Goto, SearchSteps, providerVars, ReleaseReservation, AfterChange
<1>13. ASSUME NEW s \in Searches, RecheckPassed(s) PROVE TypeOK'
  BY <1>13 DEF RecheckPassed, At, Goto, SearchSteps, providerVars
<1>14. ASSUME NEW s \in Searches, RequestsFail(s) PROVE TypeOK'
  BY <1>14 DEF RequestsFail, At, Goto, SearchSteps, providerVars, ReleaseReservation, AfterChange
<1>15. ASSUME NEW s \in Searches, Dispatch(s) PROVE TypeOK'
  <2>1. picked[s] \in Providers
    BY <1>15 DEF Dispatch, PicksAreOwned
  <2> QED BY <1>15, <2>1 DEF Dispatch, Goto, SearchSteps, ThreadSteps, providerVars
<1>16. ASSUME NEW s \in Searches, DispatchFails(s) PROVE TypeOK'
  <2>1. picked[s] \in Providers
    BY <1>16 DEF DispatchFails, PicksAreOwned
  <2> QED
    BY <1>16, <2>1 DEF DispatchFails, Goto, SearchSteps, ReleaseReservation,
                       AfterChange
<1>17. ASSUME NEW s \in Searches, Join(s) PROVE TypeOK'
  BY <1>17 DEF Join, Goto, SearchSteps, providerVars
<1>18. ASSUME NEW s \in Searches, JoinTimeout(s) PROVE TypeOK'
  <2>1. picked[s] \in Providers
    BY <1>18 DEF JoinTimeout, PicksAreOwned
  <2> QED BY <1>18, <2>1 DEF JoinTimeout, Goto, SearchSteps, providerVars
<1>19. ASSUME NEW s \in Searches, Decide(s) PROVE TypeOK'
  BY <1>19 DEF Decide, Goto, SearchSteps, providerVars
<1>20. ASSUME NEW s \in Searches, NEW p \in Providers, Lease(s, p) PROVE TypeOK'
  <2>1. thread' \in [Searches -> [Providers -> ThreadSteps]]
    <3>1. \E step \in ThreadSteps : ThreadGoto(s, p, step)
      BY <1>20 DEF Lease, ThreadSteps
    <3> QED BY <3>1, ThreadMoves
  <2>2. reservation' \in [Providers -> Searches \cup {NONE}]
    BY <1>20 DEF Lease
  <2>3. active' \in [Providers -> BOOLEAN] /\ fresh' \subseteq Searches
    BY <1>20 DEF Lease, AfterChange
  <2> QED BY <1>20, <2>1, <2>2, <2>3 DEF Lease, searchVars
<1>21. ASSUME NEW s \in Searches, NEW p \in Providers,
              Navigate(s, p) \/ NavigateAgain(s, p)
       PROVE  TypeOK'
  <2>1. PICK step \in ThreadSteps : NavigateTo(s, p, step)
    BY <1>21 DEF Navigate, NavigateAgain, ThreadSteps
  <2>2. cool' \in [Providers -> 0..Interval]
    BY <2>1, TicksAssumption DEF NavigateTo
  <2>3. thread' \in [Searches -> [Providers -> ThreadSteps]]
    BY <2>1, ThreadMoves DEF NavigateTo
  <2> QED BY <2>1, <2>2, <2>3 DEF NavigateTo, searchVars
<1>22. ASSUME NEW s \in Searches, NEW p \in Providers, CallApi(s, p) PROVE TypeOK'
  BY <1>22, TicksAssumption DEF CallApi, ThreadGoto, ThreadSteps, providerVars, searchVars
<1>23. ASSUME NEW s \in Searches, NEW p \in Providers, Deliver(s, p) PROVE TypeOK'
  BY <1>23 DEF Deliver, ThreadGoto, ThreadSteps, providerVars, searchVars
<1>24. ASSUME NEW s \in Searches, NEW p \in Providers, Merge(s, p) PROVE TypeOK'
  BY <1>24 DEF Merge, ThreadGoto, ThreadSteps, providerVars, searchVars
<1>25. ASSUME NEW s \in Searches, NEW p \in Providers, Barren(s, p) PROVE TypeOK'
  BY <1>25 DEF Barren, ThreadGoto, ThreadSteps, providerVars, searchVars
<1>26. ASSUME NEW s \in Searches, NEW p \in Providers, Blocked(s, p) PROVE TypeOK'
  BY <1>26, TicksAssumption DEF Blocked, ThreadGoto, ThreadSteps, providerVars, searchVars
<1>27. ASSUME NEW s \in Searches, NEW p \in Providers, EndLease(s, p) PROVE TypeOK'
  <2>1. thread' \in [Searches -> [Providers -> ThreadSteps]]
    <3>1. \E step \in ThreadSteps : ThreadGoto(s, p, step)
      BY <1>27 DEF EndLease, ThreadSteps
    <3> QED BY <3>1, ThreadMoves
  <2>2. active' \in [Providers -> BOOLEAN] /\ fresh' \subseteq Searches
    BY <1>27 DEF EndLease, AfterChange
  <2> QED BY <1>27, <2>1, <2>2 DEF EndLease, searchVars
<1>28. ASSUME NEW s \in Searches, NEW p \in Providers, Signal(s, p) PROVE TypeOK'
  BY <1>28 DEF Signal, ThreadGoto, ThreadSteps, providerVars, searchVars, AfterChange
<1>29. CASE Tick
  <2>1. \A m \in Nat : \A n \in 0..m : Decrement(n) \in 0..m
    BY DEF Decrement
  <2>2. cool' \in [Providers -> 0..Interval]
    BY <1>29, <2>1, TicksAssumption DEF Tick
  <2>3. susp' \in [Providers -> 0..SuspendTicks]
    BY <1>29, <2>1, TicksAssumption DEF Tick
  <2>4. timer' \in [Searches -> (0..Interval) \cup {NONE}]
    BY <1>29, <2>1, TicksAssumption DEF Tick
  <2> QED BY <1>29, <2>2, <2>3, <2>4 DEF Tick
<1>30. CASE UNCHANGED vars
  BY <1>30 DEF vars
<1>31. ASSUME NEW s \in Searches, Announce(s) PROVE TypeOK'
  BY <1>31 DEF Announce, AfterChange, providerVars
<1> QED
  BY <1>1, <1>2, <1>3, <1>4, <1>5, <1>6, <1>7, <1>8, <1>9, <1>10, <1>11,
         <1>12, <1>13, <1>14, <1>15, <1>16, <1>17, <1>18, <1>19,
         <1>20, <1>21, <1>22, <1>23, <1>24, <1>25, <1>26, <1>27,
         <1>28, <1>29, <1>30, <1>31
     DEF Next, SearchStep, ThreadStep, Finished

-----------------------------------------------------------------------------
(* Steps of the main threads.                                              *)

(* What a search does while it chooses or waits: it takes nothing, and it  *)
(* looks only at providers it has not tried.                               *)
Looks(s) ==
    /\ UNCHANGED <<active, reservation, susp, thread, picked, attempted>>
    /\ \E step \in SearchSteps, names \in SUBSET Providers :
          /\ pc[s] \notin {"recheck", "dispatch", "joining"}
          /\ step \notin {"recheck", "dispatch", "joining"}
          /\ pc' = [pc EXCEPT ![s] = step]
          /\ avail' = [avail EXCEPT ![s] = names]
          /\ names \cap attempted[s] = {}

(* Looking for a provider disturbs no part of the invariant.               *)
LEMMA LooksStep ==
    ASSUME AdmissionInv, NEW s \in Searches, Looks(s)
    PROVE  /\ PicksAreOwned' /\ OneOwner' /\ ReservationHeld'
           /\ LeaseNeverRejected' /\ SuspendedNeverRuns'
<1> USE DEF AdmissionInv
<1>1. PicksAreOwned'
  BY DEF Looks, PicksAreOwned, TypeOK
<1>2. OneOwner' /\ LeaseNeverRejected' /\ SuspendedNeverRuns'
  BY DEF Looks, OneOwner, LeaseNeverRejected, SuspendedNeverRuns
<1>3. ReservationHeld'
  BY DEF Looks, ReservationHeld, TypeOK
<1> QED BY <1>1, <1>2, <1>3

(* Taking a free provider: its new owner is the only one.                  *)
LEMMA TakeStep ==
    ASSUME AdmissionInv, NEW s \in Searches, NEW p \in avail[s], Take(s, p),
           pc[s] \notin {"recheck", "dispatch", "joining"}
    PROVE  /\ PicksAreOwned' /\ OneOwner' /\ ReservationHeld'
           /\ LeaseNeverRejected' /\ SuspendedNeverRuns'
<1> USE DEF AdmissionInv
<1>1. p \in Providers /\ reservation[p] = NONE /\ ~active[p]
  BY DEF Take, Reservable, TypeOK
<1>2. p \notin attempted[s]
  BY DEF PicksAreOwned
<1>3. \A t \in Searches : /\ thread[t][p] # "created"
                          /\ ~ (pc[t] \in {"recheck", "dispatch"} /\ picked[t] = p)
  BY <1>1, NoneAssumption DEF LeaseNeverRejected, PicksAreOwned
<1>4. PicksAreOwned'
  BY <1>1, <1>2, <1>3 DEF Take, Goto, PicksAreOwned, TypeOK
<1>5. OneOwner' /\ SuspendedNeverRuns'
  BY <1>1 DEF Take, OneOwner, SuspendedNeverRuns, TypeOK
<1>6. ReservationHeld'
  BY <1>1, <1>3 DEF Take, Goto, ReservationHeld, TypeOK
<1>7. LeaseNeverRejected'
  BY <1>1, <1>3 DEF Take, LeaseNeverRejected, TypeOK
<1> QED BY <1>4, <1>5, <1>6, <1>7

(* Giving a reservation back before the engine thread exists.              *)
LEMMA ReleaseStep ==
    ASSUME AdmissionInv, NEW s \in Searches, ReleaseReservation(s),
           NEW step \in {"select", "done"}, Goto(s, step),
           pc[s] \in {"recheck", "dispatch"},
           attempted' \in {attempted, [attempted EXCEPT ![s] = @ \cup {picked[s]}]},
           UNCHANGED <<active, susp, avail, thread>>
    PROVE  /\ PicksAreOwned' /\ OneOwner' /\ ReservationHeld'
           /\ LeaseNeverRejected' /\ SuspendedNeverRuns'
<1> USE DEF AdmissionInv
<1> DEFINE p == picked[s]
<1>1. p \in Providers /\ reservation[p] = s /\ p \notin attempted[s] /\ avail[s] = {}
  BY DEF PicksAreOwned
<1>2. /\ reservation' = [reservation EXCEPT ![p] = NONE]
      /\ picked' = [picked EXCEPT ![s] = NONE]
  BY <1>1 DEF ReleaseReservation, TypeOK
<1>3. \A t \in Searches \ {s} : pc[t] \in {"recheck", "dispatch"} => picked[t] # p
  BY <1>1 DEF PicksAreOwned
<1>4. \A t \in Searches : thread[t][p] # "created"
  BY <1>1 DEF LeaseNeverRejected, PicksAreOwned
<1> HIDE DEF p
<1>5. PicksAreOwned'
  <2>1. \A t \in Searches : attempted[t] \subseteq attempted'[t]
    BY DEF TypeOK
  <2>2. \A t \in Searches : t # s => attempted'[t] = attempted[t]
    BY DEF TypeOK
  <2>3. \A t \in Searches : pc'[t] \in {"recheck", "dispatch", "joining"} =>
          t # s /\ pc'[t] = pc[t] /\ picked'[t] = picked[t]
    BY <1>2 DEF Goto, TypeOK
  <2>4. \A q \in Providers : q # p => reservation'[q] = reservation[q]
    BY <1>1, <1>2 DEF TypeOK
  <2>5. avail'[s] = {} /\ UNCHANGED <<susp, avail, thread>>
    BY <1>1
  <2> QED BY <1>3, <2>1, <2>2, <2>3, <2>4, <2>5 DEF PicksAreOwned
<1>6. OneOwner' /\ SuspendedNeverRuns'
  BY <1>1, <1>2 DEF OneOwner, SuspendedNeverRuns, TypeOK
<1>7. ReservationHeld'
  <2>1. \A q \in Providers : reservation'[q] # NONE => q # p /\ reservation'[q] = reservation[q]
    BY <1>1, <1>2 DEF TypeOK
  <2>2. ASSUME NEW q \in Providers, NEW t \in Searches, reservation'[q] = t
        PROVE  \/ pc'[t] \in {"recheck", "dispatch"} /\ picked'[t] = q
               \/ thread'[t][q] = "created"
    <3>1. q # p /\ reservation[q] = t
      BY <2>1, <2>2, NoneAssumption
    <3>2. t = s => thread[t][q] = "created"
      BY <3>1 DEF ReservationHeld, p
    <3> QED BY <3>1, <3>2, <1>2 DEF ReservationHeld, Goto, TypeOK
  <2> QED BY <2>2 DEF ReservationHeld
<1>8. LeaseNeverRejected'
  BY <1>1, <1>2, <1>4 DEF LeaseNeverRejected, TypeOK
<1> QED BY <1>5, <1>6, <1>7, <1>8

(* Handing the reservation to a new engine thread.                         *)
LEMMA DispatchStep ==
    ASSUME AdmissionInv, NEW s \in Searches, Dispatch(s)
    PROVE  /\ PicksAreOwned' /\ OneOwner' /\ ReservationHeld'
           /\ LeaseNeverRejected' /\ SuspendedNeverRuns'
<1> USE DEF AdmissionInv
<1> DEFINE p == picked[s]
<1>1. /\ p \in Providers /\ reservation[p] = s /\ p \notin attempted[s]
      /\ susp[p] = 0 /\ avail[s] = {}
  BY DEF PicksAreOwned, Dispatch
<1>2. ~active[p]
  BY <1>1, NoneAssumption DEF OneOwner
<1>3. \A t \in Searches, q \in Providers :
        thread'[t][q] = IF t = s /\ q = p THEN "created" ELSE thread[t][q]
  BY <1>1 DEF Dispatch, TypeOK
<1>4. thread[s][p] = "none"
  BY <1>1 DEF PicksAreOwned
<1>5. \A t \in Searches \ {s} : pc[t] \in {"recheck", "dispatch"} => picked[t] # p
  BY <1>1 DEF PicksAreOwned
<1>6. attempted' = [attempted EXCEPT ![s] = @ \cup {p}] /\ pc' = [pc EXCEPT ![s] = "joining"]
  BY DEF Dispatch, Goto
<1>7. UNCHANGED <<active, reservation, susp, avail, picked>>
  BY DEF Dispatch, providerVars
<1>8. picked[s] \in Providers
  BY <1>1
<1> HIDE DEF p
<1>9. PicksAreOwned'
  BY <1>1, <1>3, <1>5, <1>6, <1>7, <1>8 DEF PicksAreOwned, TypeOK
<1>10. OneOwner'
  BY <1>1, <1>3, <1>4, <1>7 DEF OneOwner, Leasing
<1>11. ReservationHeld'
  BY <1>1, <1>3, <1>6, <1>7 DEF ReservationHeld, TypeOK, p
<1>12. LeaseNeverRejected' /\ SuspendedNeverRuns'
  BY <1>1, <1>2, <1>3, <1>7 DEF LeaseNeverRejected, SuspendedNeverRuns
<1> QED BY <1>9, <1>10, <1>11, <1>12

(* Passing the recheck.                                                    *)
LEMMA RecheckStep ==
    ASSUME AdmissionInv, NEW s \in Searches, RecheckPassed(s)
    PROVE  /\ PicksAreOwned' /\ OneOwner' /\ ReservationHeld'
           /\ LeaseNeverRejected' /\ SuspendedNeverRuns'
<1> USE DEF AdmissionInv, RecheckPassed, At, Goto, providerVars
<1>1. PicksAreOwned'
  BY DEF PicksAreOwned, TypeOK
<1>2. OneOwner' /\ LeaseNeverRejected' /\ SuspendedNeverRuns'
  BY DEF OneOwner, LeaseNeverRejected, SuspendedNeverRuns
<1>3. ReservationHeld'
  BY SMTT(30) DEF ReservationHeld, TypeOK
<1> QED BY <1>1, <1>2, <1>3

(* Awaiting the engine thread, to its end or to the timeout.               *)
LEMMA AwaitStep ==
    ASSUME AdmissionInv, NEW s \in Searches, Join(s) \/ JoinTimeout(s)
    PROVE  /\ PicksAreOwned' /\ OneOwner' /\ ReservationHeld'
           /\ LeaseNeverRejected' /\ SuspendedNeverRuns'
<1> USE DEF AdmissionInv, Join, JoinTimeout, Goto, providerVars
<1>1. PicksAreOwned'
  <2>1. /\ pc' = [pc EXCEPT ![s] = "decide"]
        /\ picked' = [picked EXCEPT ![s] = NONE]
        /\ UNCHANGED <<active, reservation, susp, avail, attempted, thread>>
    OBVIOUS
  <2>2. \A t \in Searches : pc'[t] \in {"recheck", "dispatch", "joining"} =>
                               t # s /\ pc'[t] = pc[t] /\ picked'[t] = picked[t]
    BY <2>1 DEF TypeOK
  <2> QED BY <2>1, <2>2 DEF PicksAreOwned
<1>2. OneOwner' /\ LeaseNeverRejected' /\ SuspendedNeverRuns'
  BY DEF OneOwner, LeaseNeverRejected, SuspendedNeverRuns
<1>3. ReservationHeld'
  BY SMTT(30) DEF ReservationHeld, TypeOK
<1> QED BY <1>1, <1>2, <1>3

-----------------------------------------------------------------------------
(* Steps of the engine threads.                                            *)

(* Turning the reservation into the lease.                                 *)
LEMMA LeaseStep ==
    ASSUME AdmissionInv, NEW s \in Searches, NEW p \in Providers, Lease(s, p)
    PROVE  /\ PicksAreOwned' /\ OneOwner' /\ ReservationHeld'
           /\ LeaseNeverRejected' /\ SuspendedNeverRuns'
<1> USE DEF AdmissionInv
<1>1. thread[s][p] = "created" /\ reservation[p] = s /\ ~active[p] /\ susp[p] = 0
  BY DEF Lease, LeaseNeverRejected, SuspendedNeverRuns
<1>2. /\ reservation' = [reservation EXCEPT ![p] = NONE]
      /\ active' = [active EXCEPT ![p] = TRUE]
      /\ ThreadGoto(s, p, "leased")
      /\ UNCHANGED <<susp, pc, avail, picked, attempted>>
  BY <1>1 DEF Lease, searchVars
<1>3. \A t \in Searches, q \in Providers :
        thread'[t][q] = IF t = s /\ q = p THEN "leased" ELSE thread[t][q]
  BY <1>2, ThreadMoves DEF ThreadSteps
<1>4. \A t \in Searches : ~ (pc[t] \in {"recheck", "dispatch"} /\ picked[t] = p)
  BY <1>1 DEF PicksAreOwned
<1>5. \A t \in Searches : /\ thread[t][p] \notin Leasing
                          /\ t # s => thread[t][p] # "created"
  BY <1>1 DEF OneOwner, LeaseNeverRejected
<1>6. PicksAreOwned'
  BY <1>1, <1>2, <1>3, <1>4 DEF PicksAreOwned, TypeOK
<1>7. OneOwner'
  <2>1. \A t \in Searches : thread'[t][p] \in Leasing <=> t = s
    BY <1>3, <1>5 DEF Leasing
  <2>2. \A q \in Providers : active'[q] = IF q = p THEN TRUE ELSE active[q]
    BY <1>2 DEF TypeOK
  <2>3. \A q \in Providers : reservation'[q] = IF q = p THEN NONE ELSE reservation[q]
    BY <1>2 DEF TypeOK
  <2>4. \A q \in Providers \ {p}, t \in Searches : thread'[t][q] = thread[t][q]
    BY <1>3
  <2>5. ASSUME NEW q \in Providers
        PROVE /\ active'[q] <=> \E t \in Searches : thread'[t][q] \in Leasing
              /\ active'[q] => reservation'[q] = NONE
              /\ \A t, u \in Searches :
                   thread'[t][q] \in Leasing /\ thread'[u][q] \in Leasing => t = u
    <3>1. CASE q = p
      BY <2>1, <2>2, <2>3, <3>1
    <3>2. CASE q # p
      BY <2>2, <2>3, <2>4, <3>2 DEF OneOwner
    <3> QED BY <3>1, <3>2
  <2> QED BY <2>5 DEF OneOwner
<1>8. ReservationHeld'
  <2> SUFFICES ASSUME NEW q \in Providers, NEW t \in Searches, reservation'[q] = t
               PROVE  \/ pc'[t] \in {"recheck", "dispatch"} /\ picked'[t] = q
                      \/ thread'[t][q] = "created"
    BY DEF ReservationHeld
  <2>1. q # p /\ reservation[q] = t
    BY <1>2, NoneAssumption DEF TypeOK
  <2> QED BY <1>2, <1>3, <2>1 DEF ReservationHeld
<1>9. LeaseNeverRejected'
  BY <1>2, <1>3, <1>5 DEF LeaseNeverRejected, TypeOK
<1>10. SuspendedNeverRuns'
  BY <1>1, <1>2, <1>3 DEF SuspendedNeverRuns
<1> QED BY <1>6, <1>7, <1>8, <1>9, <1>10

(* Work inside the lease, with or without a suspension at its end.         *)
LEMMA WorkStep ==
    ASSUME AdmissionInv, NEW s \in Searches, NEW p \in Providers,
           thread[s][p] \in Leasing,
           NEW step \in Leasing, ThreadGoto(s, p, step),
           UNCHANGED <<active, reservation, pc, avail, picked, attempted>>,
           \/ susp' = susp /\ (step # "recorded" => thread[s][p] # "recorded")
           \/ step = "recorded" /\ susp' = [susp EXCEPT ![p] = SuspendTicks]
    PROVE  /\ PicksAreOwned' /\ OneOwner' /\ ReservationHeld'
           /\ LeaseNeverRejected' /\ SuspendedNeverRuns'
<1> USE DEF AdmissionInv
<1>1. \A t \in Searches, q \in Providers :
        thread'[t][q] = IF t = s /\ q = p THEN step ELSE thread[t][q]
  BY ThreadMoves DEF Leasing, ThreadSteps
<1>2. active[p] /\ reservation[p] = NONE
  BY DEF OneOwner
<1>3. \A t \in Searches : /\ t # s => thread[t][p] \notin Leasing
                          /\ thread[t][p] # "created"
                          /\ ~ (pc[t] \in {"recheck", "dispatch"} /\ picked[t] = p)
  BY <1>2, NoneAssumption DEF OneOwner, LeaseNeverRejected, PicksAreOwned
<1>4. \A q \in Providers : q # p => susp'[q] = susp[q]
  BY DEF TypeOK
<1>5. PicksAreOwned'
  BY <1>1, <1>3, <1>4 DEF PicksAreOwned, Leasing
<1>6. OneOwner'
  BY <1>1 DEF OneOwner
<1>7. ReservationHeld'
  BY <1>1, <1>3 DEF ReservationHeld, Leasing
<1>8. LeaseNeverRejected'
  BY <1>1 DEF LeaseNeverRejected, Leasing
<1>9. SuspendedNeverRuns'
  BY <1>1, <1>3, <1>4 DEF SuspendedNeverRuns, Leasing
<1> QED BY <1>5, <1>6, <1>7, <1>8, <1>9

(* Leaving the lease.                                                      *)
LEMMA EndStep ==
    ASSUME AdmissionInv, NEW s \in Searches, NEW p \in Providers,
           EndLease(s, p) \/ Signal(s, p)
    PROVE  /\ PicksAreOwned' /\ OneOwner' /\ ReservationHeld'
           /\ LeaseNeverRejected' /\ SuspendedNeverRuns'
<1> USE DEF AdmissionInv
<1>1. PICK step \in {"ended", "signalling"} : ThreadGoto(s, p, step)
  BY DEF EndLease, Signal
<1>2. \A t \in Searches, q \in Providers :
        thread'[t][q] = IF t = s /\ q = p THEN step ELSE thread[t][q]
  BY <1>1, ThreadMoves DEF ThreadSteps
<1>3. UNCHANGED <<reservation, susp, pc, avail, picked, attempted>>
  BY DEF EndLease, Signal, searchVars, providerVars
<1>4. PicksAreOwned'
  BY <1>2, <1>3 DEF PicksAreOwned, EndLease, Signal
<1>5. OneOwner'
  <2>1. CASE EndLease(s, p)
    <3>1. \A t \in Searches : thread'[t][p] \notin Leasing
      BY <1>2, <2>1 DEF OneOwner, EndLease, Leasing
    <3>2. \A q \in Providers : active'[q] = IF q = p THEN FALSE ELSE active[q]
      BY <2>1 DEF EndLease, TypeOK
    <3>3. \A q \in Providers \ {p}, t \in Searches : thread'[t][q] = thread[t][q]
      BY <1>2
    <3>4. ASSUME NEW q \in Providers
          PROVE /\ active'[q] <=> \E t \in Searches : thread'[t][q] \in Leasing
                /\ active'[q] => reservation'[q] = NONE
                /\ \A t, u \in Searches :
                     thread'[t][q] \in Leasing /\ thread'[u][q] \in Leasing => t = u
      <4>1. CASE q = p
        BY <3>1, <3>2, <4>1
      <4>2. CASE q # p
        BY <1>3, <3>2, <3>3, <4>2 DEF OneOwner
      <4> QED BY <4>1, <4>2
    <3> QED BY <3>4 DEF OneOwner
  <2>2. CASE Signal(s, p)
    BY <1>2, <1>3, <2>2 DEF OneOwner, Signal, Leasing, providerVars
  <2> QED BY <2>1, <2>2
<1>6. ReservationHeld'
  BY <1>2, <1>3 DEF ReservationHeld, EndLease, Signal
<1>7. LeaseNeverRejected'
  <2>1. \A q \in Providers : active'[q] => active[q]
    BY DEF EndLease, Signal, TypeOK, providerVars
  <2> QED BY <1>2, <1>3, <2>1 DEF LeaseNeverRejected
<1>8. SuspendedNeverRuns'
  BY <1>2, <1>3 DEF SuspendedNeverRuns
<1> QED BY <1>4, <1>5, <1>6, <1>7, <1>8

(* The clock only lets suspensions lapse.                                  *)
LEMMA TickStep ==
    ASSUME AdmissionInv, Tick
    PROVE  /\ PicksAreOwned' /\ OneOwner' /\ ReservationHeld'
           /\ LeaseNeverRejected' /\ SuspendedNeverRuns'
<1> USE DEF AdmissionInv
<1>1. \A q \in Providers : susp[q] = 0 => susp'[q] = 0
  BY DEF Tick, Decrement
<1>2. UNCHANGED <<active, reservation, pc, avail, picked, attempted, thread>>
  BY DEF Tick
<1>3. PicksAreOwned'
  BY <1>1, <1>2 DEF PicksAreOwned
<1>4. OneOwner' /\ ReservationHeld' /\ LeaseNeverRejected' /\ SuspendedNeverRuns'
  BY <1>1, <1>2 DEF OneOwner, ReservationHeld, LeaseNeverRejected, SuspendedNeverRuns
<1> QED BY <1>3, <1>4

-----------------------------------------------------------------------------
(* AdmissionInv holds in the initial states.                               *)
LEMMA InitInv == Init => AdmissionInv
  BY TicksAssumption, NoneAssumption
     DEF Init, AdmissionInv, TypeOK, PicksAreOwned, OneOwner, ReservationHeld,
         LeaseNeverRejected, SuspendedNeverRuns, SearchSteps, ThreadSteps, Leasing

(* AdmissionInv is kept by every step.                                     *)
LEMMA StepInv == AdmissionInv /\ [Next]_vars => AdmissionInv'
<1> SUFFICES ASSUME AdmissionInv, [Next]_vars PROVE AdmissionInv'
  OBVIOUS
<1>t. TypeOK'
  BY TypeStep DEF AdmissionInv
<1> DEFINE Rest == /\ PicksAreOwned' /\ OneOwner' /\ ReservationHeld'
                   /\ LeaseNeverRejected' /\ SuspendedNeverRuns'
<1>1. ASSUME NEW s \in Searches, SearchStep(s) PROVE Rest
  <2>1. CASE ListRegular(s)
    <3>1. Available(Candidates(s) \cap Regular) \in SUBSET Providers
      BY EligibleAssumption DEF Available, Candidates
    <3>2. Available(Candidates(s) \cap Regular) \cap attempted[s] = {}
      BY DEF Available, Candidates
    <3>3. Looks(s)
      BY <2>1, <3>1, <3>2 DEF ListRegular, At, Looks, Goto, SearchSteps, providerVars
    <3> QED BY <3>3, LooksStep
  <2>2. CASE ListLater(s)
    <3> DEFINE last == Available(Candidates(s) \cap LastResort)
               paid == Available(Candidates(s) \cap Paid)
               names == IF last = {} THEN paid ELSE last
    <3>1. names \in SUBSET Providers
      BY EligibleAssumption DEF Available, Candidates
    <3>2. names \cap attempted[s] = {}
      BY DEF Available, Candidates
    <3>3. avail' = [avail EXCEPT ![s] = names]
      BY <2>2 DEF ListLater
    <3> HIDE DEF names
    <3>4. Looks(s)
      BY <2>2, <3>1, <3>2, <3>3 DEF ListLater, Looks, Goto, SearchSteps, providerVars
    <3> QED BY <3>4, LooksStep
  <2>3. CASE \/ PassOver(s) \/ NothingToReserve(s) \/ ComputeDelay(s)
             \/ Block(s) \/ Wake(s)
             \/ PaidUnavailable(s) \/ PaidSleep(s) \/ PaidWake(s) \/ Decide(s)
    <3>1. avail[s] \in SUBSET Providers /\ avail[s] \cap attempted[s] = {}
      BY DEF AdmissionInv, TypeOK, PicksAreOwned
    <3>2. avail = [avail EXCEPT ![s] = avail[s]]
      BY DEF AdmissionInv, TypeOK
    <3>3. CASE NothingToReserve(s) \/ ComputeDelay(s) \/ Block(s)
      BY <3>1, <3>2, <3>3, LooksStep
         DEF NothingToReserve, ComputeDelay, Block, Looks, Goto, SearchSteps, providerVars
    <3>4. CASE PaidSleep(s) \/ PaidWake(s) \/ Decide(s)
      BY <3>1, <3>2, <3>4, LooksStep
         DEF PaidSleep, PaidWake, Decide, Looks, Goto, SearchSteps, providerVars
    <3>5. CASE Wake(s) \/ PaidUnavailable(s)
      <4>1. avail' = [avail EXCEPT ![s] = {}] /\ pc' = [pc EXCEPT ![s] = "select"]
        BY <3>5 DEF Wake, PaidUnavailable, Goto
      <4>2. pc[s] \notin {"recheck", "dispatch", "joining"}
        BY <3>5 DEF Wake, PaidUnavailable
      <4>3. UNCHANGED <<active, reservation, susp, thread, picked, attempted>>
        BY <3>5 DEF Wake, PaidUnavailable, providerVars
      <4>4. "select" \in SearchSteps /\ {} \in SUBSET Providers
        BY DEF SearchSteps
      <4>5. Looks(s)
        BY <4>1, <4>2, <4>3, <4>4 DEF Looks
      <4> QED BY <4>5, LooksStep
    <3>6. CASE PassOver(s)
      <4>1. UNCHANGED <<active, reservation, susp, thread, picked, attempted, pc, avail>>
        BY <3>6 DEF PassOver, providerVars
      <4> QED
        BY <4>1 DEF AdmissionInv, PicksAreOwned, OneOwner, ReservationHeld,
                    LeaseNeverRejected, SuspendedNeverRuns
    <3> QED BY <2>3, <3>3, <3>4, <3>5, <3>6
  <2>4. CASE Reserve(s)
    BY <2>4, TakeStep DEF Reserve
  <2>5. CASE PaidGranted(s)
    BY <2>5, TakeStep DEF PaidGranted
  <2>6. CASE RecheckSuspended(s) \/ RequestsFail(s)
    BY <2>6, ReleaseStep DEF RecheckSuspended, At, RequestsFail
  <2>7. CASE DispatchFails(s)
    BY <2>7, ReleaseStep DEF DispatchFails
  <2>8. CASE RecheckPassed(s) \/ Dispatch(s) \/ Join(s) \/ JoinTimeout(s)
    BY <2>8, RecheckStep, DispatchStep, AwaitStep
  <2>9. CASE Announce(s)
    <3>1. UNCHANGED <<active, reservation, susp, thread, picked, attempted, pc, avail>>
      BY <2>9 DEF Announce, providerVars
    <3> QED
      BY <3>1 DEF AdmissionInv, PicksAreOwned, OneOwner, ReservationHeld,
                  LeaseNeverRejected, SuspendedNeverRuns
  <2> QED
    BY <1>1, <2>1, <2>2, <2>3, <2>4, <2>5, <2>6, <2>7, <2>8, <2>9 DEF SearchStep
<1>2. ASSUME NEW s \in Searches, NEW p \in Providers, ThreadStep(s, p) PROVE Rest
  <2>1. CASE Lease(s, p)
    BY <2>1, LeaseStep
  <2>2. CASE Navigate(s, p) \/ NavigateAgain(s, p) \/ CallApi(s, p)
    <3>1. PICK step \in {"navigating", "page2"} : ThreadGoto(s, p, step)
      BY <2>2 DEF Navigate, NavigateAgain, NavigateTo, CallApi
    <3>2. thread[s][p] \in Leasing \ {"recorded"} /\ step \in Leasing
      BY <2>2 DEF Navigate, NavigateAgain, NavigateTo, CallApi, Leasing
    <3>3. UNCHANGED <<active, reservation, susp, pc, avail, picked, attempted>>
      BY <2>2 DEF Navigate, NavigateAgain, NavigateTo, CallApi, searchVars
    <3> QED BY <3>1, <3>2, <3>3, WorkStep
  <2>3. CASE Deliver(s, p) \/ Merge(s, p) \/ Barren(s, p)
    <3>1. PICK step \in {"recorded", "merging"} : ThreadGoto(s, p, step)
      BY <2>3 DEF Deliver, Merge, Barren
    <3>2. thread[s][p] \in Leasing \ {"recorded"} /\ step \in Leasing
      BY <2>3 DEF Deliver, Merge, Barren, Leasing
    <3>3. UNCHANGED <<active, reservation, susp, pc, avail, picked, attempted>>
      BY <2>3 DEF Deliver, Merge, Barren, searchVars, providerVars
    <3> QED BY <3>1, <3>2, <3>3, WorkStep
  <2>4. CASE Blocked(s, p)
    <3>1. thread[s][p] \in Leasing /\ "recorded" \in Leasing
      BY <2>4 DEF Blocked, Leasing
    <3> QED BY <2>4, <3>1, WorkStep DEF Blocked, searchVars
  <2>5. CASE EndLease(s, p) \/ Signal(s, p)
    BY <2>5, EndStep
  <2> QED BY <1>2, <2>1, <2>2, <2>3, <2>4, <2>5 DEF ThreadStep
<1>3. ASSUME Tick PROVE Rest
  BY <1>3, TickStep
<1>4. CASE UNCHANGED vars
  BY <1>4 DEF vars, AdmissionInv, TypeOK, PicksAreOwned, OneOwner, ReservationHeld,
              LeaseNeverRejected, SuspendedNeverRuns
<1> QED
  BY <1>t, <1>1, <1>2, <1>3, <1>4 DEF Next, Finished, AdmissionInv

(* Every reachable state satisfies AdmissionInv.                           *)
THEOREM Admission == Spec => []AdmissionInv
  BY InitInv, StepInv, PTL DEF Spec

(* Type correctness of the scheduling state.                               *)
THEOREM TypeCorrect == Spec => []TypeOK
  BY Admission, PTL DEF AdmissionInv

(* One owner per provider (provider_lease, reserve_provider, ownership).   *)
THEOREM OwnerUnique == Spec => []OneOwner
  BY Admission, PTL DEF AdmissionInv

(* Reservations do not leak, and the engine thread finds its own.          *)
THEOREM ReservationsSound == Spec => []ReservationsKept
  BY Admission, PTL DEF AdmissionInv, ReservationsKept

(* No attempt is under way on a suspended provider.                        *)
THEOREM SuspensionRespected == Spec => []SuspendedNeverRuns
  BY Admission, PTL DEF AdmissionInv

-----------------------------------------------------------------------------
(* Pacing.                                                                 *)

(* Only a dispatch touches an engine thread from outside.                  *)
LEMMA SearchStepThreads ==
    ASSUME NEW s \in Searches, SearchStep(s)
    PROVE  UNCHANGED thread \/ Dispatch(s)
  BY DEF SearchStep, ListRegular, At, ListLater, Reserve, Take, PassOver, NothingToReserve,
         ComputeDelay, Block, Wake, PaidUnavailable, PaidGranted, PaidSleep, PaidWake,
         RecheckSuspended, RecheckPassed, RequestsFail, DispatchFails, Join,
         JoinTimeout, Decide, Announce

(* A step of an engine thread moves that thread.                           *)
LEMMA ThreadStepMoves ==
    ASSUME NEW s \in Searches, NEW p \in Providers, ThreadStep(s, p)
    PROVE  \E step \in ThreadSteps \ {"none", "created"} : ThreadGoto(s, p, step)
  BY DEF ThreadStep, Lease, Navigate, NavigateAgain, NavigateTo, CallApi, Deliver,
         Merge, Barren, Blocked, EndLease, Signal, ThreadSteps

(* A provider that is reserved, or leased and not yet started, is not      *)
(* cooling: the API call need not look at the interval again.              *)
Paced ==
    \A p \in Providers :
        /\ reservation[p] # NONE => cool[p] = 0
        /\ \A s \in Searches : thread[s][p] = "leased" => cool[p] = 0

(* A start sets the interval of a provider that nobody waits to start.     *)
LEMMA StartPaced ==
    ASSUME AdmissionInv, Paced, NEW s \in Searches, NEW p \in Providers,
           thread[s][p] \in Leasing,
           NEW step \in {"navigating", "page2"}, ThreadGoto(s, p, step),
           cool' = [cool EXCEPT ![p] = Interval], UNCHANGED reservation
    PROVE  Paced'
<1> USE DEF AdmissionInv
<1>1. \A t \in Searches, q \in Providers :
        thread'[t][q] = IF t = s /\ q = p THEN step ELSE thread[t][q]
  BY ThreadMoves DEF ThreadSteps
<1>2. reservation[p] = NONE /\ \A t \in Searches : t # s => thread[t][p] # "leased"
  BY DEF OneOwner, Leasing
<1>3. \A q \in Providers : q # p => cool'[q] = cool[q]
  BY DEF TypeOK
<1> QED BY <1>1, <1>2, <1>3 DEF Paced

(* Paced is kept by every step.                                            *)
LEMMA PacedStep == AdmissionInv /\ Paced /\ [Next]_vars => Paced'
<1> SUFFICES ASSUME AdmissionInv, Paced, [Next]_vars PROVE Paced'
  OBVIOUS
<1> USE DEF AdmissionInv
<1>1. ASSUME NEW s \in Searches, NEW p \in Providers, Take(s, p) PROVE Paced'
  BY <1>1 DEF Take, Reservable, Paced, TypeOK
<1>2. ASSUME NEW s \in Searches, ReleaseReservation(s), UNCHANGED <<cool, thread>>
      PROVE  Paced'
  BY <1>2 DEF ReleaseReservation, Paced, TypeOK
<1>3. ASSUME UNCHANGED <<cool, reservation, thread>> PROVE Paced'
  BY <1>3 DEF Paced
<1>4. ASSUME NEW s \in Searches, SearchStep(s) PROVE Paced'
  <2>1. CASE Reserve(s) \/ PaidGranted(s)
    <3>1. PICK p \in avail[s] : Take(s, p)
      BY <2>1 DEF Reserve, PaidGranted
    <3> QED BY <3>1, <1>1 DEF TypeOK
  <2>2. CASE RecheckSuspended(s) \/ RequestsFail(s) \/ DispatchFails(s)
    BY <2>2, <1>2 DEF RecheckSuspended, At, RequestsFail, DispatchFails
  <2>3. CASE Dispatch(s)
    <3>1. picked[s] \in Providers
      BY <2>3 DEF Dispatch, PicksAreOwned
    <3>2. \A t \in Searches, q \in Providers :
            thread'[t][q] = "leased" => thread[t][q] = "leased"
      BY <2>3, <3>1 DEF Dispatch, TypeOK
    <3> QED BY <2>3, <3>2 DEF Dispatch, Paced, providerVars
  <2>4. CASE \/ ListRegular(s) \/ ListLater(s) \/ PassOver(s) \/ NothingToReserve(s)
             \/ ComputeDelay(s) \/ Block(s) \/ Wake(s) \/ PaidUnavailable(s)
             \/ PaidSleep(s) \/ PaidWake(s) \/ RecheckPassed(s)
             \/ Join(s) \/ JoinTimeout(s) \/ Decide(s) \/ Announce(s)
    BY <2>4, <1>3 DEF ListRegular, At, ListLater, PassOver, NothingToReserve,
       ComputeDelay, Block, Wake, PaidUnavailable, PaidSleep, PaidWake,
       RecheckPassed, Join, JoinTimeout, Decide, Announce, providerVars
  <2> QED BY <1>4, <2>1, <2>2, <2>3, <2>4 DEF SearchStep
<1>5. ASSUME NEW s \in Searches, NEW p \in Providers, ThreadStep(s, p) PROVE Paced'
  <2>1. CASE Lease(s, p)
    <3>1. thread[s][p] = "created" /\ reservation[p] = s
      BY <2>1 DEF Lease, LeaseNeverRejected
    <3>2. \A q \in Providers : reservation'[q] # NONE => reservation[q] # NONE
      BY <2>1 DEF Lease, TypeOK
    <3>3. cool[p] = 0
      BY <3>1, NoneAssumption DEF Paced
    <3>4. PICK step \in {"leased", "signalling", "ended"} : ThreadGoto(s, p, step)
      BY <2>1 DEF Lease
    <3>5. \A t \in Searches, q \in Providers :
            thread'[t][q] = IF t = s /\ q = p THEN step ELSE thread[t][q]
      BY <3>4, ThreadMoves DEF ThreadSteps
    <3> QED BY <2>1, <3>2, <3>3, <3>5 DEF Paced, Lease
  <2>2. CASE Navigate(s, p) \/ NavigateAgain(s, p) \/ CallApi(s, p)
    <3>1. thread[s][p] \in Leasing
      BY <2>2 DEF Navigate, NavigateAgain, CallApi, Leasing
    <3>2. PICK step \in {"navigating", "page2"} : ThreadGoto(s, p, step)
      BY <2>2 DEF Navigate, NavigateAgain, NavigateTo, CallApi
    <3>3. cool' = [cool EXCEPT ![p] = Interval] /\ UNCHANGED reservation
      BY <2>2 DEF Navigate, NavigateAgain, NavigateTo, CallApi
    <3> QED BY <3>1, <3>2, <3>3, StartPaced
  <2>3. CASE \/ Deliver(s, p) \/ Merge(s, p) \/ Barren(s, p) \/ Blocked(s, p)
             \/ EndLease(s, p) \/ Signal(s, p)
    <3>1. PICK step \in {"recorded", "merging", "ended", "signalling"} :
            ThreadGoto(s, p, step)
      BY <2>3 DEF Deliver, Merge, Barren, Blocked, EndLease, Signal
    <3>2. \A t \in Searches, q \in Providers :
            thread'[t][q] = "leased" => thread[t][q] = "leased"
      BY <3>1, ThreadMoves DEF ThreadSteps
    <3>3. UNCHANGED <<cool, reservation>>
      BY <2>3 DEF Deliver, Merge, Barren, Blocked, EndLease, Signal, providerVars
    <3> QED BY <3>2, <3>3 DEF Paced
  <2> QED BY <1>5, <2>1, <2>2, <2>3 DEF ThreadStep
<1>6. CASE Tick
  BY <1>6 DEF Tick, Paced, Decrement
<1>7. CASE UNCHANGED vars
  BY <1>7, <1>3 DEF vars
<1> QED BY <1>4, <1>5, <1>6, <1>7 DEF Next, Finished

(* Starts are spaced by the interval (_record_start, reserve_provider).    *)
THEOREM StartsAreSpaced == Spec => StartsSpaced
<1> DEFINE Spaced ==
      \A s \in Searches, p \in Providers :
         thread'[s][p] # thread[s][p] /\ thread'[s][p] \in {"navigating", "page2"}
            => cool[p] = 0
<1>1. Init => Paced
  BY TicksAssumption DEF Init, Paced
<1>2. AdmissionInv /\ Paced /\ [Next]_vars => Spaced
  <2> SUFFICES ASSUME AdmissionInv, Paced, [Next]_vars,
                      NEW s \in Searches, NEW p \in Providers,
                      thread'[s][p] # thread[s][p],
                      thread'[s][p] \in {"navigating", "page2"}
               PROVE  cool[p] = 0
    OBVIOUS
  <2>1. ~ \E t \in Searches : SearchStep(t)
    <3>1. ASSUME NEW t \in Searches, SearchStep(t) PROVE FALSE
      <4>1. UNCHANGED thread \/ Dispatch(t)
        BY <3>1, SearchStepThreads
      <4>2. CASE Dispatch(t)
        BY <4>2 DEF Dispatch, AdmissionInv, TypeOK, PicksAreOwned
      <4> QED BY <4>1, <4>2
    <3> QED BY <3>1
  <2>2. ASSUME NEW t \in Searches, NEW q \in Providers, ThreadStep(t, q)
        PROVE  cool[p] = 0
    <3>1. PICK step \in ThreadSteps : ThreadGoto(t, q, step)
      BY <2>2, ThreadStepMoves
    <3>2. t = s /\ q = p /\ step = thread'[s][p]
      BY <3>1, ThreadMoves DEF AdmissionInv
    <3>3. CASE Navigate(s, p) \/ NavigateAgain(s, p)
      BY <3>3 DEF Navigate, NavigateAgain, NavigateTo
    <3>4. CASE CallApi(s, p)
      BY <3>4 DEF CallApi, Paced
    <3>5. CASE \/ Lease(s, p) \/ Deliver(s, p) \/ Merge(s, p) \/ Barren(s, p)
               \/ Blocked(s, p) \/ EndLease(s, p) \/ Signal(s, p)
      <4>1. PICK other \in ThreadSteps \ {"navigating", "page2"} :
              ThreadGoto(s, p, other)
        BY <3>5 DEF Lease, Deliver, Merge, Barren, Blocked, EndLease, Signal,
           ThreadSteps
      <4>2. thread'[s][p] = other
        BY <4>1, ThreadMoves DEF AdmissionInv
      <4> QED BY <4>1, <4>2
    <3> QED BY <2>2, <3>2, <3>3, <3>4, <3>5 DEF ThreadStep
  <2> QED BY <2>1, <2>2 DEF Next, Tick, Finished, vars
<1>3. Spaced => [Spaced]_vars
  OBVIOUS
<1> QED BY <1>1, <1>2, PacedStep, Admission, PTL DEF Spec, StartsSpaced

(* Attempts are made at most once and recorded inside their lease          *)
(* (_get_requests, provider_lease).                                        *)
THEOREM AttemptsKeepOrder == Spec => AttemptsInOrder
<1> DEFINE Once ==
      \A s \in Searches, p \in Providers :
         thread[s][p] # "created" /\ thread'[s][p] = "created" =>
            thread[s][p] = "none" /\ p \notin attempted[s]
    Inside ==
      /\ \A p \in Providers : susp'[p] > susp[p] => active[p] /\ active'[p]
      /\ \A s \in Searches :
           hasMain'[s] # hasMain[s] =>
               \E p \in Providers : active[p] /\ active'[p]
                                    /\ thread[s][p] # thread'[s][p]
<1>1. AdmissionInv /\ [Next]_vars => Once
  <2> SUFFICES ASSUME AdmissionInv, [Next]_vars,
                      NEW s \in Searches, NEW p \in Providers,
                      thread[s][p] # "created", thread'[s][p] = "created"
               PROVE  thread[s][p] = "none" /\ p \notin attempted[s]
    OBVIOUS
  <2> USE DEF AdmissionInv
  <2>1. ASSUME NEW t \in Searches, SearchStep(t)
        PROVE  thread[s][p] = "none" /\ p \notin attempted[s]
    <3>1. Dispatch(t)
      BY <2>1, SearchStepThreads
    <3>2. picked[t] \in Providers /\ picked[t] \notin attempted[t]
      BY <3>1 DEF Dispatch, PicksAreOwned
    <3>3. t = s /\ picked[t] = p
      BY <3>1, <3>2 DEF Dispatch, TypeOK
    <3> QED BY <3>2, <3>3 DEF PicksAreOwned
  <2>2. ASSUME NEW t \in Searches, NEW q \in Providers, ThreadStep(t, q)
        PROVE  FALSE
    <3>1. PICK step \in ThreadSteps \ {"none", "created"} : ThreadGoto(t, q, step)
      BY <2>2, ThreadStepMoves
    <3> QED BY <3>1, ThreadMoves
  <2> QED BY <2>1, <2>2 DEF Next, Tick, Finished, vars
<1>2. AdmissionInv /\ [Next]_vars => Inside
  <2> SUFFICES ASSUME AdmissionInv, [Next]_vars PROVE Inside
    OBVIOUS
  <2> USE DEF AdmissionInv
  <2>1. CASE UNCHANGED <<susp, hasMain>>
    BY <2>1 DEF TypeOK
  <2>2. ASSUME NEW s \in Searches, SearchStep(s) PROVE UNCHANGED <<susp, hasMain>>
    BY <2>2 DEF SearchStep, ListRegular, At, ListLater, Reserve, Take, PassOver,
       NothingToReserve, ComputeDelay, Block, Wake, PaidUnavailable, PaidGranted,
       PaidSleep, PaidWake, RecheckSuspended, RecheckPassed, RequestsFail, Dispatch,
       DispatchFails, Join, JoinTimeout, Decide, Announce, providerVars
  <2>3. ASSUME NEW s \in Searches, NEW p \in Providers, ThreadStep(s, p) PROVE Inside
    <3>1. CASE Blocked(s, p) \/ Merge(s, p)
      <4>1. active[p] /\ UNCHANGED active
        BY <3>1 DEF Blocked, Merge, Leasing, OneOwner, providerVars
      <4>2. thread[s][p] # "recorded" /\ ThreadGoto(s, p, "recorded")
        BY <3>1 DEF Blocked, Merge
      <4>3. thread[s][p] # thread'[s][p]
        BY <4>2, ThreadMoves DEF ThreadSteps
      <4>4. \A q \in Providers : q # p => ~ (susp'[q] > susp[q])
        BY <3>1 DEF Blocked, Merge, TypeOK, providerVars
      <4>5. \A t \in Searches : t # s => hasMain'[t] = hasMain[t]
        BY <3>1 DEF Blocked, Merge, TypeOK, searchVars
      <4> QED BY <4>1, <4>3, <4>4, <4>5
    <3>2. CASE \/ Lease(s, p) \/ Navigate(s, p) \/ NavigateAgain(s, p)
               \/ CallApi(s, p) \/ Deliver(s, p) \/ Barren(s, p)
               \/ EndLease(s, p) \/ Signal(s, p)
      BY <3>2, <2>1 DEF Lease, Navigate, NavigateAgain, NavigateTo, CallApi, Deliver,
         Barren, EndLease, Signal, providerVars, searchVars
    <3> QED BY <2>3, <3>1, <3>2 DEF ThreadStep
  <2>4. CASE Tick
    <3>1. \A p \in Providers : ~ (susp'[p] > susp[p])
      BY <2>4 DEF Tick, Decrement, TypeOK
    <3> QED BY <2>4, <3>1 DEF Tick
  <2> QED BY <2>1, <2>2, <2>3, <2>4 DEF Next, Finished, vars
<1>3. (Once => [Once]_vars) /\ (Inside => [Inside]_vars)
  OBVIOUS
<1>4. Spec => EachProviderOnce
  BY <1>1, <1>3, Admission, PTL DEF Spec, EachProviderOnce
<1>5. Spec => OutcomeInsideLease
  BY <1>2, <1>3, Admission, PTL DEF Spec, OutcomeInsideLease
<1> QED BY <1>4, <1>5, PTL DEF AttemptsInOrder

-----------------------------------------------------------------------------
(* Refinement of ProviderOwnership.                                        *)

(* The holder of a leased provider is the search inside the lease; else it *)
(* is the search that reserves it, if any.                                 *)
LEMMA HolderIs ==
    ASSUME OneOwner, NEW p \in Providers
    PROVE  /\ ~active[p] => Holder(p) = reservation[p]
           /\ \A s \in Searches : thread[s][p] \in Leasing => Holder(p) = s
  BY DEF OneOwner, Holder

(* The same one state later.                                               *)
LEMMA HolderBecomes ==
    ASSUME OneOwner', NEW p \in Providers
    PROVE  /\ ~active'[p] => Holder(p)' = reservation'[p]
           /\ \A s \in Searches : thread'[s][p] \in Leasing => Holder(p)' = s
  BY DEF OneOwner, Holder

(* A provider whose reservation and lease nobody touched keeps its holder. *)
LEMMA HolderKept ==
    ASSUME OneOwner, OneOwner', NEW p \in Providers,
           reservation'[p] = reservation[p],
           \A s \in Searches : thread'[s][p] \in Leasing <=> thread[s][p] \in Leasing
    PROVE  Holder(p)' = Holder(p)
<1>1. CASE \E s \in Searches : thread[s][p] \in Leasing
  <2>1. PICK s \in Searches : thread[s][p] \in Leasing
    BY <1>1
  <2> QED BY <2>1, HolderIs, HolderBecomes
<1>2. CASE ~ \E s \in Searches : thread[s][p] \in Leasing
  BY <1>2, HolderIs, HolderBecomes DEF OneOwner
<1> QED BY <1>1, <1>2

(* The providers a search has begun an attempt on, as the mapping has it.   *)
Begun(s) == {p \in Providers : thread[s][p] \notin {"none", "created"}}

(* Steps that neither take, run, end nor block are invisible to the        *)
(* abstract specification.                                                 *)
LEMMA Invisible ==
    ASSUME OneOwner, OneOwner', UNCHANGED <<active, reservation, susp>>,
           \A s \in Searches, p \in Providers :
              /\ thread'[s][p] \in Leasing <=> thread[s][p] \in Leasing
              /\ thread'[s][p] \in {"none", "created"}
                    <=> thread[s][p] \in {"none", "created"}
    PROVE  UNCHANGED Ownership!vars
<1>1. \A p \in Providers : Holder(p)' = Holder(p)
  BY HolderKept
<1>2. \A s \in Searches : Begun(s)' = Begun(s)
  BY DEF Begun
<1>3. UNCHANGED [s \in Searches |-> Begun(s)]
  BY <1>2
<1> QED BY <1>1, <1>3 DEF Ownership!vars, Begun

(* Taking a provider is acquiring it.                                      *)
LEMMA TakeAcquires ==
    ASSUME AdmissionInv, AdmissionInv', NEW s \in Searches, NEW p \in avail[s],
           Take(s, p)
    PROVE  Ownership!Acquire(s, p)
<1> USE DEF AdmissionInv
<1>1. p \in Providers /\ reservation[p] = NONE /\ ~active[p]
  BY DEF Take, Reservable, TypeOK
<1>2. thread[s][p] = "none"
  BY <1>1 DEF PicksAreOwned
<1>3. /\ UNCHANGED <<active, susp, thread>>
      /\ reservation' = [reservation EXCEPT ![p] = s]
  BY DEF Take
<1>4. Holder(p) = NONE /\ Holder(p)' = s
  BY <1>1, <1>3, HolderIs, HolderBecomes DEF TypeOK
<1>5. \A q \in Providers : q # p => Holder(q)' = Holder(q)
  BY <1>3, HolderKept DEF TypeOK
<1>6. [q \in Providers |-> Holder(q)]' =
        [[q \in Providers |-> Holder(q)] EXCEPT ![p] = s]
  BY <1>1, <1>4, <1>5
<1> QED BY <1>1, <1>2, <1>3, <1>4, <1>6 DEF Ownership!Acquire

(* Giving a reservation back is cancelling.                                *)
LEMMA ReleaseCancels ==
    ASSUME AdmissionInv, AdmissionInv', NEW s \in Searches,
           ReleaseReservation(s), pc[s] \in {"recheck", "dispatch"},
           UNCHANGED <<active, susp, thread>>
    PROVE  Ownership!Cancel(s, picked[s])
<1> USE DEF AdmissionInv
<1>1. PICK p \in Providers : p = picked[s] /\ reservation[p] = s
  BY DEF PicksAreOwned
<1>2. reservation' = [reservation EXCEPT ![p] = NONE]
  BY <1>1 DEF ReleaseReservation, TypeOK
<1>3. ~active[p]
  BY <1>1, NoneAssumption DEF OneOwner
<1>4. Holder(p) = s /\ Holder(p)' = NONE
  BY <1>1, <1>2, <1>3, HolderIs, HolderBecomes DEF TypeOK
<1>5. \A q \in Providers : q # p => Holder(q)' = Holder(q)
  BY <1>2, HolderKept DEF TypeOK
<1>6. [q \in Providers |-> Holder(q)]' =
        [[q \in Providers |-> Holder(q)] EXCEPT ![p] = NONE]
  BY <1>1, <1>4, <1>5
<1>7. Ownership!Cancel(s, p)
  BY <1>1, <1>3, <1>4, <1>6 DEF Ownership!Cancel
<1> QED BY <1>1, <1>7

(* Turning the reservation into the lease begins the attempt.              *)
LEMMA LeaseBegins ==
    ASSUME AdmissionInv, AdmissionInv', NEW s \in Searches, NEW p \in Providers,
           Lease(s, p)
    PROVE  Ownership!Begin(s, p)
<1> USE DEF AdmissionInv
<1>1. thread[s][p] = "created" /\ reservation[p] = s /\ ~active[p] /\ susp[p] = 0
  BY DEF Lease, LeaseNeverRejected, SuspendedNeverRuns
<1>2. /\ reservation' = [reservation EXCEPT ![p] = NONE]
      /\ active' = [active EXCEPT ![p] = TRUE]
      /\ ThreadGoto(s, p, "leased")
      /\ UNCHANGED susp
  BY <1>1 DEF Lease
<1>3. \A t \in Searches, q \in Providers :
        thread'[t][q] = IF t = s /\ q = p THEN "leased" ELSE thread[t][q]
  BY <1>2, ThreadMoves DEF ThreadSteps
<1>4. Holder(p) = s /\ Holder(p)' = s
  BY <1>1, <1>3, HolderIs, HolderBecomes DEF Leasing
<1>5. \A q \in Providers : q # p => Holder(q)' = Holder(q)
  BY <1>2, <1>3, HolderKept DEF TypeOK
<1>6. UNCHANGED [q \in Providers |-> Holder(q)]
  BY <1>4, <1>5
<1>7. {q \in Providers : active[q]}' = {q \in Providers : active[q]} \cup {p}
  BY <1>2 DEF TypeOK
<1>8. Begun(s)' = Begun(s) \cup {p} /\ p \notin Begun(s)
  BY <1>1, <1>3 DEF Begun
<1>9. \A t \in Searches : t # s => Begun(t)' = Begun(t)
  BY <1>3 DEF Begun
<1>10. [t \in Searches |-> Begun(t)]' =
         [[t \in Searches |-> Begun(t)] EXCEPT ![s] = @ \cup {p}]
  BY <1>8, <1>9
<1>11. Holder(p) = s /\ p \notin {q \in Providers : active[q]}
                     /\ p \notin {q \in Providers : susp[q] > 0}
  BY <1>1, <1>4 DEF TypeOK
<1> QED BY <1>2, <1>6, <1>7, <1>8, <1>10, <1>11 DEF Ownership!Begin, Begun

(* A suspension recorded inside the lease blocks what its holder runs.     *)
LEMMA BlockedBlocks ==
    ASSUME AdmissionInv, AdmissionInv', NEW s \in Searches, NEW p \in Providers,
           Blocked(s, p)
    PROVE  Ownership!Block(s, p)
<1> USE DEF AdmissionInv
<1>1. thread[s][p] \in Leasing /\ active[p]
  BY DEF Blocked, Leasing, OneOwner
<1>2. /\ UNCHANGED <<active, reservation>>
      /\ susp' = [susp EXCEPT ![p] = SuspendTicks]
      /\ ThreadGoto(s, p, "recorded")
  BY DEF Blocked
<1>3. \A t \in Searches, q \in Providers :
        thread'[t][q] = IF t = s /\ q = p THEN "recorded" ELSE thread[t][q]
  BY <1>2, ThreadMoves DEF ThreadSteps
<1>4. UNCHANGED [q \in Providers |-> Holder(q)]
  BY <1>1, <1>2, <1>3, HolderKept DEF Leasing
<1>5. {q \in Providers : susp[q] > 0}' = {q \in Providers : susp[q] > 0} \cup {p}
  BY <1>2, TicksAssumption DEF TypeOK
<1>6. \A t \in Searches : Begun(t)' = Begun(t)
  BY <1>1, <1>3 DEF Begun, Leasing
<1>7. UNCHANGED [t \in Searches |-> Begun(t)]
  BY <1>6
<1>8. Holder(p) = s
  BY <1>1, HolderIs
<1> QED BY <1>1, <1>2, <1>4, <1>5, <1>7, <1>8 DEF Ownership!Block, Begun

(* Leaving the lease finishes the attempt.                                 *)
LEMMA EndFinishes ==
    ASSUME AdmissionInv, AdmissionInv', NEW s \in Searches, NEW p \in Providers,
           EndLease(s, p)
    PROVE  Ownership!Finish(s, p)
<1> USE DEF AdmissionInv
<1>1. thread[s][p] = "recorded" /\ active[p] /\ reservation[p] = NONE
  BY DEF EndLease, Leasing, OneOwner
<1>2. UNCHANGED <<reservation, susp>> /\ active' = [active EXCEPT ![p] = FALSE]
  BY DEF EndLease
<1>3. PICK step \in {"ended", "signalling"} : ThreadGoto(s, p, step)
  BY DEF EndLease
<1>4. \A t \in Searches, q \in Providers :
        thread'[t][q] = IF t = s /\ q = p THEN step ELSE thread[t][q]
  BY <1>3, ThreadMoves DEF ThreadSteps
<1>5. Holder(p) = s /\ Holder(p)' = NONE
  BY <1>1, <1>2, HolderIs, HolderBecomes DEF Leasing, TypeOK
<1>6. \A q \in Providers : q # p => Holder(q)' = Holder(q)
  BY <1>2, <1>4, HolderKept
<1>7. [q \in Providers |-> Holder(q)]' =
        [[q \in Providers |-> Holder(q)] EXCEPT ![p] = NONE]
  BY <1>5, <1>6
<1>8. {q \in Providers : active[q]}' = {q \in Providers : active[q]} \ {p}
  BY <1>2 DEF TypeOK
<1>9. \A t \in Searches : Begun(t)' = Begun(t)
  BY <1>1, <1>4 DEF Begun
<1>10. UNCHANGED [t \in Searches |-> Begun(t)]
  BY <1>9
<1> QED BY <1>1, <1>2, <1>5, <1>7, <1>8, <1>10 DEF Ownership!Finish, Begun

(* The clock lets suspensions lapse.                                       *)
LEMMA TickLapses ==
    ASSUME AdmissionInv, AdmissionInv', Tick
    PROVE  Ownership!Lapse
<1> USE DEF AdmissionInv
<1>1. UNCHANGED <<active, reservation, thread>>
  BY DEF Tick
<1>2. {q \in Providers : susp[q] > 0}' \in SUBSET {q \in Providers : susp[q] > 0}
  BY DEF Tick, Decrement, TypeOK
<1>3. UNCHANGED [q \in Providers |-> Holder(q)]
  BY <1>1, HolderKept
<1> QED BY <1>1, <1>2, <1>3 DEF Ownership!Lapse

(* Every step of the scheduling is a step of the abstract specification or *)
(* leaves its state alone.                                                 *)
LEMMA OwnershipStep ==
    ASSUME AdmissionInv, AdmissionInv', [Next]_vars
    PROVE  [Ownership!Next]_(Ownership!vars)
<1> USE DEF AdmissionInv
<1>0. CASE UNCHANGED <<active, reservation, susp, thread>>
  BY <1>0, Invisible
<1>1. ASSUME NEW s \in Searches, SearchStep(s)
      PROVE  [Ownership!Next]_(Ownership!vars)
  <2>1. CASE Reserve(s) \/ PaidGranted(s)
    <3>1. PICK p \in avail[s] : Take(s, p)
      BY <2>1 DEF Reserve, PaidGranted
    <3>2. p \in Providers
      BY <3>1 DEF TypeOK
    <3> QED BY <3>1, <3>2, TakeAcquires DEF Ownership!Next
  <2>2. CASE RecheckSuspended(s) \/ RequestsFail(s) \/ DispatchFails(s)
    <3>1. Ownership!Cancel(s, picked[s])
      BY <2>2, ReleaseCancels DEF RecheckSuspended, At, RequestsFail, DispatchFails
    <3>2. picked[s] \in Providers
      BY <2>2 DEF RecheckSuspended, At, RequestsFail, DispatchFails, PicksAreOwned
    <3> QED BY <3>1, <3>2 DEF Ownership!Next
  <2>3. CASE Dispatch(s)
    <3>1. picked[s] \in Providers /\ thread[s][picked[s]] = "none"
      BY <2>3 DEF Dispatch, PicksAreOwned
    <3>2. \A t \in Searches, q \in Providers :
            thread'[t][q] = IF t = s /\ q = picked[s] THEN "created" ELSE thread[t][q]
      BY <2>3, <3>1 DEF Dispatch, TypeOK
    <3> QED BY <2>3, <3>1, <3>2, Invisible DEF Dispatch, Leasing, providerVars
  <2>4. CASE \/ ListRegular(s) \/ ListLater(s) \/ PassOver(s) \/ NothingToReserve(s)
             \/ ComputeDelay(s) \/ Block(s) \/ Wake(s) \/ PaidUnavailable(s)
             \/ PaidSleep(s) \/ PaidWake(s) \/ RecheckPassed(s)
             \/ Join(s) \/ JoinTimeout(s) \/ Decide(s) \/ Announce(s)
    BY <2>4, <1>0 DEF ListRegular, At, ListLater, PassOver, NothingToReserve,
       ComputeDelay, Block, Wake, PaidUnavailable, PaidSleep, PaidWake,
       RecheckPassed, Join, JoinTimeout, Decide, Announce, providerVars
  <2> QED BY <1>1, <2>1, <2>2, <2>3, <2>4 DEF SearchStep
<1>2. ASSUME NEW s \in Searches, NEW p \in Providers, ThreadStep(s, p)
      PROVE  [Ownership!Next]_(Ownership!vars)
  <2>1. CASE Lease(s, p)
    BY <2>1, LeaseBegins DEF Ownership!Next
  <2>2. CASE Blocked(s, p)
    BY <2>2, BlockedBlocks DEF Ownership!Next
  <2>3. CASE EndLease(s, p)
    BY <2>3, EndFinishes DEF Ownership!Next
  <2>4. CASE Navigate(s, p) \/ NavigateAgain(s, p) \/ CallApi(s, p)
             \/ Deliver(s, p) \/ Merge(s, p) \/ Barren(s, p) \/ Signal(s, p)
    <3>1. PICK step \in ThreadSteps \ {"none", "created"} : ThreadGoto(s, p, step)
      BY <1>2, ThreadStepMoves
    <3>2. \A t \in Searches, q \in Providers :
            thread'[t][q] = IF t = s /\ q = p THEN step ELSE thread[t][q]
      BY <3>1, ThreadMoves
    <3>3. step \in Leasing <=> thread[s][p] \in Leasing
      <4>1. PICK here \in ThreadSteps :
              /\ ThreadGoto(s, p, here)
              /\ here \in Leasing <=> thread[s][p] \in Leasing
        BY <2>4 DEF Navigate, NavigateAgain, NavigateTo, CallApi, Deliver, Merge,
           Barren, Signal, ThreadSteps, Leasing
      <4> QED BY <4>1, <3>2, ThreadMoves
    <3>4. thread[s][p] \notin {"none", "created"}
      BY <2>4 DEF Navigate, NavigateAgain, CallApi, Deliver, Merge, Barren, Signal
    <3>5. UNCHANGED <<active, reservation, susp>>
      BY <2>4 DEF Navigate, NavigateAgain, NavigateTo, CallApi, Deliver, Merge,
         Barren, Signal, providerVars
    <3> QED BY <3>2, <3>3, <3>4, <3>5, Invisible
  <2> QED BY <1>2, <2>1, <2>2, <2>3, <2>4 DEF ThreadStep
<1>3. CASE Tick
  BY <1>3, TickLapses DEF Ownership!Next
<1>4. CASE UNCHANGED vars
  BY <1>4, <1>0 DEF vars
<1> QED BY <1>1, <1>2, <1>3, <1>4 DEF Next, Finished

(* Reservations, leases and engine threads implement the abstract          *)
(* ownership of providers.                                                 *)
THEOREM OwnershipRefined == Spec => KeepsOwnership
<1>1. Init => Ownership!Init
  <2> SUFFICES ASSUME Init PROVE Ownership!Init
    OBVIOUS
  <2>1. OneOwner
    BY InitInv DEF AdmissionInv
  <2>2. \A p \in Providers : Holder(p) = NONE
    BY <2>1, HolderIs DEF Init
  <2> QED BY <2>2 DEF Init, Ownership!Init
<1>2. AdmissionInv /\ [Next]_vars => [Ownership!Next]_(Ownership!vars)
  BY StepInv, OwnershipStep
<1> QED BY <1>1, <1>2, Admission, PTL DEF Spec, Ownership!Spec, KeepsOwnership

-----------------------------------------------------------------------------
(* No wake-up is lost.                                                     *)

(* A provider whose next change somebody will signal.                      *)
Pending(p) ==
    \/ active[p]
    \/ reservation[p] # NONE
    \/ \E t \in Searches : thread[t][p] = "signalling" \/ owes[t] = p

(* Where a search waits tells which tier it waits for, and a search about  *)
(* to sleep without a timer has a pending provider, unless its generation  *)
(* is out of date.  What a search owes it signals before it takes or gives *)
(* back anything else.                                                     *)
Waits(s) ==
    /\ owes[s] # NONE => pc[s] \in {"select", "recheck", "done"}
    /\ pc[s] = "reserve" =>
          avail[s] # {} /\ (avail[s] \subseteq Browser \/ avail[s] \subseteq Paid)
    /\ pc[s] \in {"delay", "block", "waiting"} =>
          avail[s] # {} /\ avail[s] \subseteq Browser
    /\ pc[s] \in {"paidcheck", "paidwaiting", "paidwoken"} => avail[s] \subseteq Paid
    /\ pc[s] \in {"block", "waiting", "paidwaiting"} /\ timer[s] = NONE /\ s \in fresh
          => \E p \in avail[s] : Pending(p)

(* Whoever leaves a provider not pending outdates the generation of the    *)
(* searches that may be waiting for it.                                    *)
Tells ==
    \A q \in Providers : Pending(q) /\ ~Pending(q)' =>
        \A t \in fresh' : q \in Paid <=> pc[t] # "paidwaiting"

(* A step of somebody else does not take a search's wake-up away.          *)
LEMMA OthersWait ==
    ASSUME TypeOK, NEW t \in Searches, Waits(t), Tells,
           pc'[t] = pc[t], avail'[t] = avail[t], owes'[t] = owes[t],
           timer'[t] = NONE => timer[t] = NONE, t \in fresh' => t \in fresh
    PROVE  Waits(t)'
<1>1. ASSUME pc'[t] \in {"block", "waiting", "paidwaiting"}, timer'[t] = NONE,
             t \in fresh'
      PROVE  \E p \in avail'[t] : Pending(p)'
  <2>1. PICK p \in avail[t] : Pending(p)
    BY <1>1 DEF Waits
  <2>2. p \in Providers /\ (p \in Paid <=> pc[t] = "paidwaiting")
    BY <1>1, TiersAssumption DEF Waits, TypeOK
  <2> QED BY <1>1, <2>1, <2>2 DEF Tells
<1> QED BY <1>1 DEF Waits

(* A search moves its own place, names and timer only, and a generation it *)
(* reads is its own.                                                       *)
LEMMA SearchFrame ==
    ASSUME TypeOK, NEW s \in Searches, SearchStep(s), NEW t \in Searches, t # s
    PROVE  /\ pc'[t] = pc[t] /\ avail'[t] = avail[t] /\ timer'[t] = timer[t]
           /\ owes'[t] = owes[t]
           /\ t \in fresh' => t \in fresh
<1>1. CASE ListRegular(s) \/ ListLater(s) \/ PassOver(s) \/ NothingToReserve(s)
  BY <1>1 DEF TypeOK, ListRegular, At, ListLater, PassOver, NothingToReserve, Goto
<1>2. CASE Reserve(s) \/ PaidGranted(s)
  <2>1. PICK p \in avail[s] : Take(s, p)
    BY <1>2 DEF Reserve, PaidGranted
  <2> QED BY <2>1 DEF TypeOK, Take, AfterChange, Goto
<1>3. CASE ComputeDelay(s) \/ Block(s) \/ Wake(s) \/ PaidUnavailable(s)
  BY <1>3 DEF TypeOK, ComputeDelay, Block, Wake, PaidUnavailable, Goto
<1>4. CASE PaidSleep(s) \/ PaidWake(s) \/ RecheckPassed(s) \/ Dispatch(s)
  BY <1>4 DEF TypeOK, PaidSleep, PaidWake, RecheckPassed, At, Dispatch, Goto
<1>5. CASE RecheckSuspended(s) \/ RequestsFail(s) \/ DispatchFails(s)
  BY <1>5 DEF TypeOK, RecheckSuspended, At, RequestsFail, DispatchFails,
     ReleaseReservation, AfterChange, Goto
<1>6. CASE Join(s) \/ JoinTimeout(s) \/ Decide(s) \/ Announce(s)
  BY <1>6 DEF TypeOK, Join, JoinTimeout, Decide, Announce, AfterChange, Goto
<1> QED BY <1>1, <1>2, <1>3, <1>4, <1>5, <1>6 DEF SearchStep

(* Telling the right waiters.                                              *)
LEMMA ChangeTells ==
    ASSUME NEW p \in Providers, fresh' = AfterChange(p),
           \A q \in Providers : q # p => Pending(q)' = Pending(q)
    PROVE  Tells
  BY DEF Tells, AfterChange

(* A search step tells: it ends somebody's pending only by giving the paid *)
(* provider back, or by signalling a browser provider it has given back.   *)
LEMMA SearchTells ==
    ASSUME AdmissionInv, NEW s \in Searches, SearchStep(s), Waits(s)
    PROVE  Tells
<1> USE DEF AdmissionInv
<1>1. CASE Reserve(s) \/ PaidGranted(s)
  <2>1. PICK p \in avail[s] : Take(s, p)
    BY <1>1 DEF Reserve, PaidGranted
  <2>2. owes[s] = NONE
    BY <1>1 DEF Waits, Reserve, PaidGranted
  <2>3. \A t \in Searches : t # s => owes'[t] = owes[t]
    BY <2>1 DEF Take, TypeOK
  <2>4. \A q \in Providers : Pending(q) => Pending(q)'
    BY <2>1, <2>2, <2>3, NoneAssumption DEF Take, Pending, TypeOK
  <2> QED BY <2>4 DEF Tells
<1>2. CASE RecheckSuspended(s) \/ RequestsFail(s) \/ DispatchFails(s)
  <2>1. PICK p \in Providers : p = picked[s] /\ reservation[p] = s
    BY <1>2 DEF RecheckSuspended, At, RequestsFail, DispatchFails, PicksAreOwned
  <2>2. /\ owes[s] = NONE
        /\ owes' = [owes EXCEPT ![s] = IF p \in Browser THEN p ELSE NONE]
        /\ \A q \in Providers : q # p => reservation'[q] = reservation[q]
        /\ p \in Paid => fresh' = AfterChange(p)
        /\ UNCHANGED <<active, thread>>
    BY <1>2, <2>1 DEF RecheckSuspended, At, RequestsFail, DispatchFails,
       ReleaseReservation, Waits, TypeOK
  <2>3. \A t \in Searches : owes'[t] = IF t = s /\ p \in Browser THEN p ELSE owes[t]
    BY <2>2 DEF TypeOK
  <2>4. CASE p \in Paid
    <3>1. p \notin Browser
      BY <2>4, TiersAssumption
    <3>2. \A q \in Providers : q # p => Pending(q)' = Pending(q)
      BY <2>2, <2>3, <3>1 DEF Pending
    <3> QED BY <2>2, <2>4, <3>2, ChangeTells
  <2>5. CASE p \notin Paid
    <3>1. owes'[s] = p
      BY <2>1, <2>3, <2>5 DEF Providers
    <3>2. \A q \in Providers : Pending(q) => Pending(q)'
      BY <2>2, <2>3, <3>1, NoneAssumption DEF Pending
    <3> QED BY <3>2 DEF Tells
  <2> QED BY <2>4, <2>5
<1>3. CASE Dispatch(s)
  <2>1. picked[s] \in Providers /\ thread[s][picked[s]] = "none"
    BY <1>3 DEF Dispatch, PicksAreOwned
  <2>2. \A t \in Searches, q \in Providers :
          thread[t][q] = "signalling" => thread'[t][q] = "signalling"
    BY <1>3, <2>1 DEF Dispatch, TypeOK
  <2>3. UNCHANGED <<active, reservation, owes>>
    BY <1>3 DEF Dispatch, providerVars
  <2> QED BY <2>2, <2>3 DEF Tells, Pending
<1>4. CASE \/ ListRegular(s) \/ ListLater(s) \/ PassOver(s) \/ NothingToReserve(s)
           \/ ComputeDelay(s) \/ Block(s) \/ Wake(s) \/ PaidUnavailable(s)
           \/ PaidSleep(s) \/ PaidWake(s) \/ RecheckPassed(s)
           \/ Join(s) \/ JoinTimeout(s) \/ Decide(s)
  <2>1. UNCHANGED <<active, reservation, thread, owes>>
    BY <1>4 DEF ListRegular, At, ListLater, PassOver, NothingToReserve, ComputeDelay,
       Block, Wake, PaidUnavailable, PaidSleep, PaidWake, RecheckPassed, Join,
       JoinTimeout, Decide, providerVars
  <2> QED BY <2>1 DEF Tells, Pending
<1>5. CASE Announce(s)
  <2>1. PICK p \in Providers : p = owes[s]
    BY <1>5 DEF Announce, TypeOK, Providers
  <2>2. /\ fresh' = AfterChange(p)
        /\ UNCHANGED <<active, reservation, thread>>
    BY <1>5, <2>1 DEF Announce, providerVars
  <2>3. \A t \in Searches : owes'[t] = IF t = s THEN NONE ELSE owes[t]
    BY <1>5 DEF Announce, TypeOK
  <2>4. \A q \in Providers : q # p => Pending(q)' = Pending(q)
    BY <2>1, <2>2, <2>3, NoneAssumption DEF Pending
  <2> QED BY <2>2, <2>4, ChangeTells
<1> QED BY <1>1, <1>2, <1>3, <1>4, <1>5 DEF SearchStep

(* A step of an engine thread tells.                                       *)
LEMMA ThreadTells ==
    ASSUME AdmissionInv, NEW s \in Searches, NEW p \in Providers, ThreadStep(s, p)
    PROVE  Tells /\ fresh' \subseteq fresh /\ UNCHANGED <<pc, avail, timer, owes>>
<1> USE DEF AdmissionInv
<1>1. PICK step \in ThreadSteps \ {"none", "created"} : ThreadGoto(s, p, step)
  BY ThreadStepMoves
<1>2. \A t \in Searches, q \in Providers :
        thread'[t][q] = IF t = s /\ q = p THEN step ELSE thread[t][q]
  BY <1>1, ThreadMoves
<1>3. CASE Lease(s, p)
  <2>1. /\ \A q \in Providers : q # p => reservation'[q] = reservation[q]
        /\ active' = [active EXCEPT ![p] = TRUE]
        /\ UNCHANGED <<fresh, searchVars>>
    BY <1>3 DEF Lease, LeaseNeverRejected, TypeOK
  <2>2. \A q \in Providers : q # p => Pending(q)' = Pending(q)
    BY <1>2, <2>1 DEF Pending, TypeOK, searchVars
  <2>3. Pending(p)'
    BY <2>1 DEF Pending, TypeOK
  <2> QED BY <2>1, <2>2, <2>3 DEF Tells, searchVars
<1>4. CASE EndLease(s, p)
  <2>1. UNCHANGED <<reservation, searchVars>> /\ active' = [active EXCEPT ![p] = FALSE]
    BY <1>4 DEF EndLease
  <2>2. \A q \in Providers : q # p => Pending(q)' = Pending(q)
    BY <1>2, <2>1 DEF Pending, TypeOK, searchVars
  <2>3. CASE p \in Paid
    <3>1. fresh' = AfterChange(p)
      BY <1>4, <2>3 DEF EndLease
    <3> QED BY <2>1, <2>2, <3>1, ChangeTells DEF AfterChange, searchVars
  <2>4. CASE p \notin Paid
    <3>1. ThreadGoto(s, p, "signalling") /\ UNCHANGED fresh
      BY <1>4, <2>4 DEF EndLease
    <3>2. Pending(p)'
      BY <3>1, ThreadMoves DEF Pending, ThreadSteps
    <3> QED BY <2>1, <2>2, <3>1, <3>2 DEF Tells, searchVars
  <2> QED BY <2>3, <2>4
<1>5. CASE Signal(s, p)
  <2>1. fresh' = AfterChange(p) /\ UNCHANGED <<active, reservation, searchVars>>
    BY <1>5 DEF Signal, providerVars
  <2>2. \A q \in Providers : q # p => Pending(q)' = Pending(q)
    BY <1>2, <2>1 DEF Pending, searchVars
  <2> QED BY <2>1, <2>2, ChangeTells DEF AfterChange, searchVars
<1>6. CASE \/ Navigate(s, p) \/ NavigateAgain(s, p) \/ CallApi(s, p)
           \/ Deliver(s, p) \/ Merge(s, p) \/ Barren(s, p) \/ Blocked(s, p)
  <2>1. UNCHANGED <<active, reservation, fresh, pc, avail, timer, owes>>
    BY <1>6 DEF Navigate, NavigateAgain, NavigateTo, CallApi, Deliver, Merge,
       Barren, Blocked, providerVars, searchVars
  <2>2. thread[s][p] # "signalling"
    BY <1>6 DEF Navigate, NavigateAgain, CallApi, Deliver, Merge, Barren, Blocked
  <2>3. \A q \in Providers : Pending(q) => Pending(q)'
    BY <1>2, <2>1, <2>2 DEF Pending
  <2> QED BY <2>1, <2>3 DEF Tells
<1> QED BY <1>3, <1>4, <1>5, <1>6 DEF ThreadStep

(* With no delay to wait for, every name is owned.                         *)
LEMMA NoDelay ==
    ASSUME TypeOK, NEW names \in SUBSET Providers, NextReadyDelay(names) = NONE
    PROVE  Unowned(names) = {}
  BY DelayOfIdle, TicksAssumption, NoneAssumption

(* What a search does itself leaves it with a wake-up to come.             *)
LEMMA OwnWait ==
    ASSUME AdmissionInv, NEW s \in Searches, SearchStep(s), Waits(s)
    PROVE  Waits(s)'
<1> USE DEF AdmissionInv
<1>0. owes'[s] # NONE => pc'[s] \in {"select", "recheck", "done"}
  <2>1. CASE Reserve(s) \/ PaidGranted(s)
    BY <2>1 DEF Reserve, PaidGranted, Take, Goto, TypeOK
  <2>2. CASE RecheckSuspended(s) \/ RequestsFail(s) \/ DispatchFails(s)
    BY <2>2 DEF RecheckSuspended, RequestsFail, DispatchFails, Goto, TypeOK
  <2>3. CASE ListRegular(s) \/ RecheckPassed(s)
    BY <2>3 DEF ListRegular, RecheckPassed, At
  <2>4. CASE \/ ListLater(s) \/ PassOver(s) \/ NothingToReserve(s) \/ ComputeDelay(s)
             \/ Block(s) \/ Wake(s) \/ PaidUnavailable(s) \/ PaidSleep(s)
             \/ PaidWake(s) \/ Dispatch(s) \/ Join(s) \/ JoinTimeout(s) \/ Decide(s)
    <3>1. pc[s] \notin {"select", "recheck", "done"} /\ UNCHANGED owes
      BY <2>4 DEF ListLater, PassOver, NothingToReserve, ComputeDelay, Block, Wake,
         PaidUnavailable, PaidSleep, PaidWake, Dispatch, Join, JoinTimeout, Decide
    <3> QED BY <3>1 DEF Waits
  <2>5. CASE Announce(s)
    BY <2>5 DEF Announce, TypeOK
  <2> QED BY <2>1, <2>2, <2>3, <2>4, <2>5 DEF SearchStep
<1>1. CASE ListRegular(s)
  <2>1. Available(Candidates(s) \cap Regular) \subseteq Browser
    BY DEF Available, Browser
  <2> QED BY <1>0, <1>1, <2>1 DEF ListRegular, At, Goto, Waits, TypeOK
<1>2. CASE ListLater(s)
  <2>1. /\ Available(Candidates(s) \cap LastResort) \subseteq Browser
        /\ Available(Candidates(s) \cap Paid) \subseteq Paid
    BY DEF Available, Browser
  <2> QED BY <1>0, <1>2, <2>1 DEF ListLater, Goto, Waits, TypeOK
<1>3. CASE ComputeDelay(s)
  <2>1. avail[s] # {} /\ avail[s] \subseteq Browser /\ avail'[s] = avail[s]
    BY <1>3 DEF ComputeDelay, Waits
  <2>2. timer'[s] = NextReadyDelay(avail[s]) /\ pc'[s] \in {"select", "block"}
    BY <1>3 DEF ComputeDelay, Goto, TypeOK
  <2>3. timer'[s] = NONE => \A p \in avail[s] : Pending(p)'
    <3>1. timer'[s] = NONE => Unowned(avail[s]) = {}
      BY <2>2, NoDelay DEF TypeOK
    <3>2. UNCHANGED <<active, reservation>>
      BY <1>3 DEF ComputeDelay, providerVars
    <3> QED BY <3>1, <3>2 DEF Unowned, Pending
  <2> QED BY <1>0, <2>1, <2>2, <2>3 DEF Waits
<1>4. CASE Block(s)
  <2>1. /\ pc[s] = "block" /\ pc'[s] \in {"select", "waiting"}
        /\ UNCHANGED <<active, reservation, thread, owes, fresh, avail, timer>>
    BY <1>4 DEF Block, Goto, TypeOK, providerVars
  <2>2. \A p \in Providers : Pending(p)' = Pending(p)
    BY <2>1 DEF Pending
  <2> QED BY <1>0, <2>1, <2>2 DEF Waits, TypeOK
<1>5. CASE PaidSleep(s)
  <2>1. PICK p \in avail[s] : timer' = [timer EXCEPT ![s] = NextReadyDelay({p})]
    BY <1>5 DEF PaidSleep
  <2>2. /\ pc'[s] = "paidwaiting" /\ avail[s] \subseteq Paid
        /\ UNCHANGED <<active, reservation, avail>>
    BY <1>5 DEF PaidSleep, Goto, Waits, TypeOK, providerVars
  <2>3. p \in Providers /\ timer'[s] = NextReadyDelay({p})
    BY <2>1 DEF TypeOK
  <2>4. timer'[s] = NONE => Unowned({p}) = {}
    BY <2>3, NoDelay
  <2>5. timer'[s] = NONE => Pending(p)'
    BY <2>2, <2>4 DEF Unowned, Pending
  <2> QED BY <1>0, <2>1, <2>2, <2>5 DEF Waits
<1>6. CASE NothingToReserve(s)
  <2>1. /\ pc[s] = "reserve" /\ UNCHANGED avail
        /\ pc'[s] = IF avail[s] \subseteq Paid THEN "paidcheck" ELSE "delay"
    BY <1>6 DEF NothingToReserve, Goto, TypeOK
  <2> QED BY <1>0, <2>1 DEF Waits
<1>7. CASE PassOver(s) \/ PaidWake(s)
  <2>1. /\ \/ pc[s] = "reserve" /\ pc'[s] = "reserve"
           \/ pc[s] = "paidwaiting" /\ pc'[s] = "paidwoken"
        /\ UNCHANGED avail
    BY <1>7 DEF PassOver, PaidWake, Goto, TypeOK
  <2> QED BY <1>0, <2>1 DEF Waits
<1>8. CASE Reserve(s) \/ PaidGranted(s)
  <2>1. pc'[s] = "recheck"
    BY <1>8 DEF Reserve, PaidGranted, Take, Goto, TypeOK
  <2> QED BY <1>0, <2>1 DEF Waits
<1>9. CASE \/ Wake(s) \/ PaidUnavailable(s) \/ RecheckSuspended(s)
           \/ RecheckPassed(s) \/ RequestsFail(s) \/ Dispatch(s)
           \/ DispatchFails(s) \/ Join(s) \/ JoinTimeout(s) \/ Decide(s)
  <2>1. pc'[s] \in {"select", "dispatch", "done", "joining", "decide"}
    BY <1>9 DEF Wake, PaidUnavailable, RecheckSuspended, At, RecheckPassed, RequestsFail,
       Dispatch, DispatchFails, Join, JoinTimeout, Decide, Goto, TypeOK
  <2> QED BY <1>0, <2>1 DEF Waits
<1>10. CASE Announce(s)
  <2>1. /\ pc'[s] = pc[s] /\ avail'[s] = avail[s]
        /\ pc[s] \in {"select", "recheck", "done"}
    BY <1>10 DEF Announce, Waits
  <2> QED BY <1>0, <2>1 DEF Waits
<1> QED
  BY <1>1, <1>2, <1>3, <1>4, <1>5, <1>6, <1>7, <1>8, <1>9, <1>10 DEF SearchStep

(* Every step leaves every search with its wake-up to come.                *)
LEMMA WaitsStep ==
    AdmissionInv /\ (\A s \in Searches : Waits(s)) /\ [Next]_vars
       => (\A s \in Searches : Waits(s))'
<1> SUFFICES ASSUME AdmissionInv, \A s \in Searches : Waits(s), [Next]_vars,
                    NEW t \in Searches
             PROVE  Waits(t)'
  OBVIOUS
<1> USE DEF AdmissionInv
<1>1. ASSUME NEW s \in Searches, SearchStep(s) PROVE Waits(t)'
  <2>1. CASE t = s
    BY <1>1, <2>1, OwnWait
  <2>2. CASE t # s
    BY <1>1, <2>2, SearchFrame, SearchTells, OthersWait
  <2> QED BY <2>1, <2>2
<1>2. ASSUME NEW s \in Searches, NEW p \in Providers, ThreadStep(s, p)
      PROVE  Waits(t)'
  BY <1>2, ThreadTells, OthersWait
<1>3. CASE Tick
  <2>1. UNCHANGED <<active, reservation, thread, owes, fresh, pc, avail>>
    BY <1>3 DEF Tick
  <2>2. Tells
    BY <2>1 DEF Tells, Pending
  <2>3. timer'[t] = NONE => timer[t] = NONE
    <3>1. timer[t] \in 0..Interval => timer'[t] \in Nat
      BY <1>3, TicksAssumption, NoneAssumption DEF Tick, Decrement
    <3> QED BY <3>1, NoneAssumption DEF TypeOK
  <2> QED BY <2>1, <2>2, <2>3, OthersWait
<1>4. CASE UNCHANGED vars
  <2>1. Tells
    BY <1>4 DEF Tells, Pending, vars
  <2> QED BY <1>4, <2>1, OthersWait DEF vars
<1> QED BY <1>1, <1>2, <1>3, <1>4 DEF Next, Finished

(* No search sleeps for ever on capacity that came and went unnoticed      *)
(* (capacity generation, _x402_admission.wait).                            *)
THEOREM WakeupsKept == Spec => []NoLostWakeup
<1> DEFINE Waiting == \A s \in Searches : Waits(s)
<1>1. Init => Waiting
  BY DEF Init, Waits
<1>2. AdmissionInv /\ Waiting /\ [Next]_vars => Waiting'
  BY WaitsStep
<1>3. Waiting => NoLostWakeup
  BY DEF Waits, Pending, NoLostWakeup
<1> HIDE DEF Waiting
<1> QED BY <1>1, <1>2, <1>3, Admission, PTL DEF Spec

-----------------------------------------------------------------------------
(* What a choice depends on: the history variables.                        *)

(* A step of the main thread that reserves nothing gains no reservation.   *)
LEMMA SearchGainsNothing ==
    ASSUME AdmissionInv, NEW s \in Searches, SearchStep(s),
           ~Reserve(s), ~PaidGranted(s), NEW q \in Providers
    PROVE  reservation'[q] \in {reservation[q], NONE}
<1> USE DEF AdmissionInv
<1>1. CASE RecheckSuspended(s) \/ RequestsFail(s) \/ DispatchFails(s)
  <2>1. ReleaseReservation(s)
    BY <1>1 DEF RecheckSuspended, At, RequestsFail, DispatchFails
  <2> QED BY <2>1 DEF ReleaseReservation, TypeOK
<1>2. CASE \/ ListRegular(s) \/ ListLater(s) \/ PassOver(s) \/ NothingToReserve(s)
           \/ ComputeDelay(s) \/ Block(s) \/ Wake(s) \/ PaidUnavailable(s)
           \/ PaidSleep(s) \/ PaidWake(s) \/ RecheckPassed(s) \/ Dispatch(s)
           \/ Join(s) \/ JoinTimeout(s) \/ Decide(s) \/ Announce(s)
  BY <1>2 DEF Announce, ListRegular, At, ListLater, PassOver, NothingToReserve, ComputeDelay, Block,
     Wake, PaidUnavailable, PaidSleep, PaidWake, RecheckPassed, Dispatch, Join,
     JoinTimeout, Decide, providerVars
<1> QED BY <1>1, <1>2 DEF SearchStep

(* Neither does an engine thread.                                          *)
LEMMA ThreadGainsNothing ==
    ASSUME TypeOK, NEW s \in Searches, NEW p \in Providers, ThreadStep(s, p),
           NEW q \in Providers
    PROVE  reservation'[q] \in {reservation[q], NONE}
<1>1. CASE Lease(s, p)
  BY <1>1 DEF Lease, TypeOK
<1>2. CASE \/ Navigate(s, p) \/ NavigateAgain(s, p) \/ CallApi(s, p)
           \/ Deliver(s, p) \/ Merge(s, p) \/ Barren(s, p) \/ Blocked(s, p)
           \/ EndLease(s, p) \/ Signal(s, p)
  BY <1>2 DEF Navigate, NavigateAgain, NavigateTo, CallApi, Deliver, Merge, Barren,
     Blocked, EndLease, Signal, providerVars
<1> QED BY <1>1, <1>2 DEF ThreadStep

(* A search gains a reservation by taking one of the names it had listed.  *)
LEMMA GainIsChosen ==
    ASSUME AdmissionInv, [Next]_vars, NEW s \in Searches, NEW p \in Providers,
           reservation[p] # s, reservation'[p] = s
    PROVE  Reserve(s) \/ PaidGranted(s)
<1>1. reservation'[p] \notin {reservation[p], NONE}
  BY NoneAssumption
<1>2. ASSUME NEW t \in Searches, SearchStep(t) PROVE Reserve(s) \/ PaidGranted(s)
  <2>1. Reserve(t) \/ PaidGranted(t)
    BY <1>1, <1>2, SearchGainsNothing
  <2>2. PICK q \in avail[t] : Take(t, q)
    BY <2>1 DEF Reserve, PaidGranted
  <2>3. t = s
    BY <2>2, <1>1 DEF Take, AdmissionInv, TypeOK
  <2> QED BY <2>1, <2>3
<1>3. ASSUME NEW t \in Searches, NEW q \in Providers, ThreadStep(t, q) PROVE FALSE
  BY <1>1, <1>3, ThreadGainsNothing DEF AdmissionInv
<1>4. CASE Tick \/ UNCHANGED vars
  BY <1>1, <1>4 DEF Tick, vars
<1> QED BY <1>2, <1>3, <1>4 DEF Next, Finished

(* ... and that name is the provider it then holds.                        *)
LEMMA ChosenIsListed ==
    ASSUME TypeOK, NEW s \in Searches, Reserve(s) \/ PaidGranted(s),
           NEW p \in Providers, reservation[p] # s, reservation'[p] = s
    PROVE  p \in avail[s] /\ Take(s, p)
<1>1. PICK q \in avail[s] : Take(s, q)
  BY DEF Reserve, PaidGranted
<1>2. p = q
  BY <1>1 DEF Take, TypeOK
<1> QED BY <1>1, <1>2

(* The tiers as numbers.                                                   *)
LEMMA TierIs ==
    ASSUME NEW p \in Providers
    PROVE  /\ Tier(p) \in {1, 2, 3}
           /\ Tier(p) = 1 <=> p \in Regular
           /\ Tier(p) = 2 <=> p \in LastResort
           /\ Tier(p) = 3 <=> p \in Paid
  BY TiersAssumption DEF Tier, Providers, Browser

(* The tried providers of another search do not change.                    *)
LEMMA OthersTried ==
    ASSUME TypeOK, NEW s \in Searches, SearchStep(s), NEW t \in Searches, t # s
    PROVE  attempted'[t] = attempted[t]
<1>1. CASE Dispatch(s) \/ DispatchFails(s)
  BY <1>1 DEF Dispatch, DispatchFails, TypeOK
<1>2. CASE Reserve(s) \/ PaidGranted(s)
  BY <1>2 DEF Reserve, PaidGranted, Take
<1>3. CASE \/ ListRegular(s) \/ ListLater(s) \/ PassOver(s) \/ NothingToReserve(s)
           \/ ComputeDelay(s) \/ Block(s) \/ Wake(s) \/ PaidUnavailable(s)
           \/ PaidSleep(s) \/ PaidWake(s) \/ RecheckSuspended(s) \/ RequestsFail(s)
           \/ RecheckPassed(s) \/ Join(s) \/ JoinTimeout(s) \/ Decide(s)
           \/ Announce(s)
  BY <1>3 DEF Announce, ListRegular, At, ListLater, PassOver, NothingToReserve, ComputeDelay, Block,
     Wake, PaidUnavailable, PaidSleep, PaidWake, RecheckSuspended, RequestsFail,
     RecheckPassed, Join, JoinTimeout, Decide
<1> QED BY <1>1, <1>2, <1>3 DEF SearchStep

(* A search that goes on choosing keeps what it chooses from, unless it    *)
(* lists the later tiers.                                                  *)
LEMMA GoesOnChoosing ==
    ASSUME AdmissionInv, [Next]_vars, NEW s \in Searches,
           pc[s] \in Choosing, pc'[s] \in Choosing
    PROVE  /\ attempted'[s] = attempted[s]
           /\ \/ ListLater(s)
              \/ avail'[s] = avail[s] /\ (pc'[s] = "later" => pc[s] = "later")
<1> USE DEF AdmissionInv
<1>1. ASSUME SearchStep(s)
      PROVE  /\ attempted'[s] = attempted[s]
             /\ \/ ListLater(s)
                \/ avail'[s] = avail[s] /\ (pc'[s] = "later" => pc[s] = "later")
  <2>1. CASE Reserve(s) \/ PaidGranted(s)
    <3>1. pc'[s] = "recheck"
      BY <2>1 DEF Reserve, PaidGranted, Take, Goto, TypeOK
    <3> QED BY <3>1 DEF Choosing
  <2>2. CASE \/ RecheckSuspended(s) \/ RecheckPassed(s) \/ RequestsFail(s)
             \/ Dispatch(s) \/ DispatchFails(s) \/ Join(s) \/ JoinTimeout(s)
             \/ Decide(s) \/ ListRegular(s)
    <3>1. pc[s] \in {"recheck", "dispatch", "joining", "decide", "select"}
      BY <2>2 DEF RecheckSuspended, At, RecheckPassed, RequestsFail, Dispatch,
         DispatchFails, Join, JoinTimeout, Decide, ListRegular
    <3> QED BY <3>1 DEF Choosing
  <2>3. CASE Wake(s) \/ PaidUnavailable(s)
    <3>1. pc'[s] = "select"
      BY <2>3 DEF Wake, PaidUnavailable, Goto, TypeOK
    <3> QED BY <3>1 DEF Choosing
  <2>4. CASE \/ PassOver(s) \/ NothingToReserve(s) \/ ComputeDelay(s) \/ Block(s)
             \/ PaidSleep(s) \/ PaidWake(s)
    <3>1. pc'[s] # "later"
      BY <2>4 DEF PassOver, NothingToReserve, ComputeDelay, Block, PaidSleep,
         PaidWake, Goto, TypeOK
    <3>2. UNCHANGED <<attempted, avail>>
      BY <2>4 DEF PassOver, NothingToReserve, ComputeDelay, Block, PaidSleep, PaidWake
    <3> QED BY <3>1, <3>2
  <2>5. CASE ListLater(s)
    BY <2>5 DEF ListLater
  <2>6. CASE Announce(s)
    BY <2>6 DEF Announce
  <2> QED BY <1>1, <2>1, <2>2, <2>3, <2>4, <2>5, <2>6 DEF SearchStep
<1>2. ASSUME NEW t \in Searches, t # s, SearchStep(t)
      PROVE  attempted'[s] = attempted[s] /\ avail'[s] = avail[s] /\ pc'[s] = pc[s]
  BY <1>2, SearchFrame, OthersTried
<1>3. ASSUME NEW t \in Searches, NEW p \in Providers, ThreadStep(t, p)
      PROVE  UNCHANGED <<attempted, avail, pc>>
  BY <1>3 DEF ThreadStep, Lease, Navigate, NavigateAgain, NavigateTo, CallApi,
     Deliver, Merge, Barren, Blocked, EndLease, Signal, searchVars
<1>4. CASE Tick \/ UNCHANGED vars
  BY <1>4 DEF Tick, vars
<1> QED BY <1>1, <1>2, <1>3, <1>4 DEF Next, Finished

(* A search starts choosing by listing the regular providers.              *)
LEMMA StartsChoosing ==
    ASSUME AdmissionInv, [Next]_vars, NEW s \in Searches,
           pc[s] \notin Choosing, pc'[s] \in Choosing
    PROVE  ListRegular(s)
<1> USE DEF AdmissionInv
<1>1. ASSUME SearchStep(s) PROVE ListRegular(s)
  <2>1. CASE \/ Reserve(s) \/ PaidGranted(s) \/ ListLater(s) \/ PassOver(s)
             \/ NothingToReserve(s) \/ ComputeDelay(s) \/ Block(s) \/ PaidSleep(s)
             \/ PaidWake(s) \/ Wake(s) \/ PaidUnavailable(s)
    <3>1. pc[s] \in Choosing
      BY <2>1 DEF Reserve, PaidGranted, ListLater, PassOver, NothingToReserve,
         ComputeDelay, Block, PaidSleep, PaidWake, Wake, PaidUnavailable, Choosing
    <3> QED BY <3>1
  <2>2. CASE \/ RecheckSuspended(s) \/ RecheckPassed(s) \/ RequestsFail(s)
             \/ Dispatch(s) \/ DispatchFails(s) \/ Join(s) \/ JoinTimeout(s)
             \/ Decide(s)
    <3>1. pc'[s] \in {"select", "dispatch", "done", "joining", "decide"}
      BY <2>2 DEF RecheckSuspended, At, RecheckPassed, RequestsFail, Dispatch,
         DispatchFails, Join, JoinTimeout, Decide, Goto, TypeOK
    <3> QED BY <3>1 DEF Choosing
  <2>3. CASE Announce(s)
    BY <2>3 DEF Announce
  <2> QED BY <1>1, <2>1, <2>2, <2>3 DEF SearchStep
<1>2. ASSUME NEW t \in Searches, t # s, SearchStep(t) PROVE pc'[s] = pc[s]
  BY <1>2, SearchFrame
<1>3. ASSUME NEW t \in Searches, NEW p \in Providers, ThreadStep(t, p)
      PROVE  UNCHANGED pc
  BY <1>3 DEF ThreadStep, Lease, Navigate, NavigateAgain, NavigateTo, CallApi,
     Deliver, Merge, Barren, Blocked, EndLease, Signal, searchVars
<1>4. CASE Tick \/ UNCHANGED vars
  BY <1>4 DEF Tick, vars
<1> QED BY <1>1, <1>2, <1>3, <1>4 DEF Next, Finished

(* What excuses s from using q: q is suspended, or was when s listed it.   *)
Excused(s, q) == susp[q] > 0 \/ q \in lapsed[s]

(* A choice under way is between providers whose earlier tiers are excused.*)
TierInv ==
    \A s \in Searches :
        /\ pc[s] \in Choosing =>
              \A p \in avail[s], q \in Candidates(s) : Tier(q) < Tier(p) => Excused(s, q)
        /\ pc[s] = "later" => \A q \in Candidates(s) \cap Regular : Excused(s, q)

(* An excuse lasts as long as the choice: a suspension that runs out is    *)
(* remembered.                                                             *)
LEMMA ExcuseLasts ==
    ASSUME TypeOK', RecordLapses, NEW s \in Searches, pc[s] \in Choosing,
           pc'[s] \in Choosing, NEW q \in Candidates(s) \cap Browser, Excused(s, q)
    PROVE  Excused(s, q)'
<1>1. lapsed'[s] = LapsedAfter(s)
  BY DEF RecordLapses
<1>2. susp'[q] \in Nat
  BY TicksAssumption DEF TypeOK, Providers
<1>3. susp'[q] = 0 => q \in LapsedAfter(s)
  BY DEF LapsedAfter, Excused
<1> QED BY <1>1, <1>2, <1>3 DEF Excused

(* What Available leaves out is suspended.                                 *)
LEMMA UnavailableIsSuspended ==
    ASSUME TypeOK, NEW names, Available(names) = {}, NEW q \in names \cap Providers
    PROVE  susp[q] > 0
  BY TicksAssumption DEF Available, TypeOK

(* Every step keeps the choices justified.                                 *)
LEMMA TierStep ==
    ASSUME AdmissionInv, TypeOK', TierInv, [Next]_vars, RecordLapses
    PROVE  TierInv'
<1> SUFFICES ASSUME NEW s \in Searches, pc'[s] \in Choosing
             PROVE  /\ \A p \in avail'[s], q \in Candidates(s)' :
                          Tier(q) < Tier(p) => Excused(s, q)'
                    /\ pc'[s] = "later" =>
                          \A q \in Candidates(s)' \cap Regular : Excused(s, q)'
  BY DEF TierInv, Choosing, Tier
<1>1. avail'[s] \subseteq Providers /\ avail[s] \subseteq Providers
  BY DEF AdmissionInv, TypeOK
<1>2. Candidates(s) \subseteq Providers /\ Candidates(s)' \subseteq Providers
  BY EligibleAssumption DEF Candidates
<1>3. CASE pc[s] \notin Choosing
  <2>1. ListRegular(s)
    BY <1>3, StartsChoosing
  <2>2. /\ avail'[s] = Available(Candidates(s) \cap Regular)
        /\ pc'[s] = "later" => avail'[s] = {}
        /\ UNCHANGED <<susp, attempted>>
    BY <2>1 DEF ListRegular, At, Goto, AdmissionInv, TypeOK, providerVars
  <2>3. \A p \in avail'[s] : Tier(p) = 1
    BY <2>2, <1>1, TierIs DEF Available
  <2>4. \A p \in avail'[s], q \in Candidates(s)' : ~(Tier(q) < Tier(p))
    BY <2>3, <1>1, <1>2, TierIs
  <2>5. ASSUME pc'[s] = "later", NEW q \in Candidates(s) \cap Regular
        PROVE  susp[q] > 0
    BY <2>2, <2>5, <1>2, UnavailableIsSuspended DEF AdmissionInv
  <2> QED BY <2>2, <2>4, <2>5 DEF Excused, Candidates
<1>4. CASE pc[s] \in Choosing
  <2>1. /\ attempted'[s] = attempted[s]
        /\ \/ ListLater(s)
           \/ avail'[s] = avail[s] /\ (pc'[s] = "later" => pc[s] = "later")
    BY <1>4, GoesOnChoosing
  <2>2. Candidates(s)' = Candidates(s)
    BY <2>1 DEF Candidates
  <2>3. ASSUME NEW q \in Candidates(s) \cap Browser, Excused(s, q)
        PROVE  Excused(s, q)'
    BY <1>4, <2>3, ExcuseLasts
  <2>4. \A p \in Providers, q \in Providers : Tier(q) < Tier(p) => q \in Browser
    BY TierIs DEF Providers, Browser
  <2>5. CASE avail'[s] = avail[s] /\ (pc'[s] = "later" => pc[s] = "later")
    <3>1. ASSUME NEW p \in avail'[s], NEW q \in Candidates(s)', Tier(q) < Tier(p)
          PROVE  Excused(s, q)'
      BY <1>1, <1>2, <1>4, <2>2, <2>3, <2>4, <2>5, <3>1 DEF TierInv
    <3>2. ASSUME pc'[s] = "later", NEW q \in Candidates(s)' \cap Regular
          PROVE  Excused(s, q)'
      BY <2>2, <2>3, <2>5, <3>2 DEF TierInv, Browser
    <3> QED BY <3>1, <3>2
  <2>6. CASE ListLater(s)
    <3> DEFINE last == Available(Candidates(s) \cap LastResort)
               paid == Available(Candidates(s) \cap Paid)
    <3>1. /\ pc[s] = "later" /\ pc'[s] # "later" /\ UNCHANGED susp
          /\ avail'[s] = IF last = {} THEN paid ELSE last
      BY <2>6 DEF ListLater, Goto, AdmissionInv, TypeOK, providerVars
    <3>2. \A q \in Candidates(s) \cap Regular : Excused(s, q)'
      BY <3>1, <2>3 DEF TierInv, Browser
    <3>3. ASSUME NEW p \in avail'[s], NEW q \in Candidates(s), Tier(q) < Tier(p),
                 q \notin Regular
          PROVE  susp'[q] > 0
      <4>1. q \in LastResort /\ p \in Paid
        BY <1>1, <1>2, <3>3, TierIs
      <4>2. last = {}
        BY <3>1, <4>1, TiersAssumption DEF Available, Browser
      <4> QED
        BY <1>2, <3>1, <4>1, <4>2, UnavailableIsSuspended DEF AdmissionInv
    <3> QED BY <2>2, <3>1, <3>2, <3>3 DEF Excused
  <2> QED BY <2>1, <2>5, <2>6
<1> QED BY <1>3, <1>4

(* A reservation of a later tier is justified for any tiers, order and     *)
(* eligible sets.                                                          *)
THEOREM LaterTiersJustified == HistorySpec => LaterTierJustified
<1>1. HistoryInit => AdmissionInv /\ TierInv
  BY InitInv DEF HistoryInit, Init, TierInv, Choosing
<1>2. AdmissionInv /\ [HistoryNext]_historyVars => AdmissionInv'
  BY StepInv DEF HistoryNext, historyVars
<1>3. AdmissionInv /\ TierInv /\ [HistoryNext]_historyVars => TierInv'
  <2>1. CASE HistoryNext
    BY <1>2, <2>1, TierStep DEF HistoryNext, AdmissionInv
  <2>2. CASE UNCHANGED historyVars
    BY <2>2 DEF historyVars, vars, TierInv, Excused, Candidates, Tier
  <2> QED BY <2>1, <2>2
<1>4. ASSUME AdmissionInv, TierInv, [HistoryNext]_historyVars,
             NEW s \in Searches, NEW p \in Providers,
             reservation[p] # s, reservation'[p] = s,
             NEW q \in Candidates(s), Tier(q) < Tier(p)
      PROVE  susp[q] > 0 \/ q \in lapsed[s]
  <2>1. [Next]_vars
    BY <1>4 DEF HistoryNext, historyVars
  <2>2. Reserve(s) \/ PaidGranted(s)
    BY <1>4, <2>1, GainIsChosen
  <2>3. p \in avail[s]
    BY <1>4, <2>2, ChosenIsListed DEF AdmissionInv
  <2>4. pc[s] \in Choosing
    BY <2>2 DEF Reserve, PaidGranted, Choosing
  <2> QED BY <1>4, <2>3, <2>4 DEF TierInv, Excused
<1>5. AdmissionInv /\ TierInv /\ [HistoryNext]_historyVars =>
        [TiersInOrder]_historyVars
  BY <1>4 DEF TiersInOrder
<1> QED BY <1>1, <1>2, <1>3, <1>5, PTL DEF HistorySpec, LaterTierJustified

-----------------------------------------------------------------------------
(* The rotation.                                                           *)

(* Position is where the configured order has a provider.                  *)
LEMMA PositionIs ==
    /\ Position \in [Providers -> Nat]
    /\ \A p, q \in Providers : Position[p] = Position[q] => p = q
    /\ IsFiniteSet(Providers)
<1>1. \A p \in Providers : Position[p] \in DOMAIN Order /\ Order[Position[p]] = p
  BY OrderAssumption DEF Position
<1>2. Len(Order) \in Nat /\ DOMAIN Order = 1..Len(Order)
  BY OrderAssumption
<1>3. Position \in [Providers -> 1..Len(Order)]
  BY <1>1, <1>2 DEF Position
<1>4. \A p, q \in Providers : Position[p] = Position[q] => p = q
  BY <1>1
<1>5. Position \in Injection(Providers, 1..Len(Order))
  BY <1>3, <1>4 DEF Injection, IsInjective
<1>6. IsFiniteSet(1..Len(Order))
  BY <1>2, FS_Interval
<1>7. IsFiniteSet(Providers)
  BY <1>5, <1>6, FS_Injection
<1> QED BY <1>3, <1>4, <1>7

(* The place of a name among the names: a number below how many they are,  *)
(* and no two names share it.                                              *)
LEMMA IndexIs ==
    ASSUME NEW names \in SUBSET Providers
    PROVE  /\ IsFiniteSet(names) /\ Cardinality(names) \in Nat
           /\ \A p \in names : Index(p, names) \in 0..(Cardinality(names) - 1)
           /\ \A p, q \in names : Index(p, names) = Index(q, names) => p = q
<1> DEFINE before(p) == {q \in names : Position[q] < Position[p]}
<1>1. IsFiniteSet(names) /\ Cardinality(names) \in Nat
  BY PositionIs, FS_Subset, FS_CardinalityType
<1>2. ASSUME NEW p \in names
      PROVE  Index(p, names) \in 0..(Cardinality(names) - 1)
  <2>1. before(p) \in SUBSET names /\ p \notin before(p)
    BY PositionIs
  <2>2. IsFiniteSet(before(p)) /\ Cardinality(before(p)) \in Nat
    BY <1>1, <2>1, FS_Subset, FS_CardinalityType
  <2>3. /\ Cardinality(before(p)) <= Cardinality(names)
        /\ Cardinality(before(p)) # Cardinality(names)
    BY <1>1, <2>1, FS_Subset
  <2> QED BY <1>1, <2>2, <2>3 DEF Index
<1>3. ASSUME NEW p \in names, NEW q \in names, Position[p] < Position[q]
      PROVE  Index(p, names) # Index(q, names)
  <2>1. before(p) \in SUBSET before(q) /\ p \in before(q) /\ p \notin before(p)
    BY <1>3, PositionIs
  <2>2. IsFiniteSet(before(q))
    BY <1>1, FS_Subset
  <2>3. Cardinality(before(p)) # Cardinality(before(q))
    BY <2>1, <2>2, FS_Subset
  <2> QED BY <2>3 DEF Index
<1>4. ASSUME NEW p \in names, NEW q \in names, p # q
      PROVE  Index(p, names) # Index(q, names)
  <2>1. Position[p] < Position[q] \/ Position[q] < Position[p]
    BY <1>4, PositionIs
  <2> QED BY <2>1, <1>3
<1> QED BY <1>1, <1>2, <1>4

(* As many names as places: every place has its name.                      *)
LEMMA EveryPlaceNamed ==
    ASSUME NEW names \in SUBSET Providers, NEW k \in 0..(Cardinality(names) - 1)
    PROVE  \E p \in names : Index(p, names) = k
<1> DEFINE f == [p \in names |-> Index(p, names)]
           places == 0..(Cardinality(names) - 1)
<1>1. IsFiniteSet(names) /\ Cardinality(names) \in Nat
  BY IndexIs
<1>2. f \in Injection(names, places)
  BY IndexIs DEF Injection, IsInjective
<1>3. IsFiniteSet(places) /\ Cardinality(places) = Cardinality(names)
  BY <1>1, FS_Interval
<1>4. f \in Surjection(names, places)
  <2> HIDE DEF f, places
  <2> QED BY <1>2, <1>3, FS_Injection
<1> QED BY <1>4 DEF Surjection

(* What a scan probes.                                                     *)
LEMMA ProbedIs ==
    ASSUME TypeOK, NEW s \in Searches, avail[s] # {}
    PROVE  /\ Cardinality(avail[s]) \in Nat \ {0}
           /\ Probed(s) \in avail[s] /\ Index(Probed(s), avail[s]) = Place(s)
           /\ \A q \in avail[s] : Index(q, avail[s]) = Place(s) => q = Probed(s)
<1>1. avail[s] \in SUBSET Providers /\ cursor \in Nat /\ offset[s] \in Nat
  BY DEF TypeOK
<1>2. Cardinality(avail[s]) \in Nat \ {0}
  BY <1>1, IndexIs, FS_EmptySet
<1>3. Place(s) \in 0..(Cardinality(avail[s]) - 1)
  BY <1>1, <1>2 DEF Place
<1>4. \E p \in avail[s] : Index(p, avail[s]) = Place(s)
  BY <1>1, <1>3, EveryPlaceNamed
<1>5. Probed(s) \in avail[s] /\ Index(Probed(s), avail[s]) = Place(s)
  BY <1>4 DEF Probed
<1> QED BY <1>1, <1>2, <1>5, IndexIs

(* Coming back to the place just left takes a whole round.                 *)
LEMMA WholeRound ==
    ASSUME NEW n \in Nat \ {0}, NEW i \in 0..(n - 1), NEW k \in 0..(n - 1),
           (i + 1 + k) % n = i
    PROVE  k = n - 1
  OBVIOUS

(* A whole round but for one place goes through every other place.         *)
LEMMA RoundVisits ==
    ASSUME NEW n \in Nat \ {0}, NEW i \in 0..(n - 1), NEW j \in 0..(n - 1), i # j
    PROVE  \E o \in 0..(n - 2) : (i + 1 + o) % n = j
<1>1. CASE j > i
  <2>1. j - i - 1 \in 0..(n - 2) /\ i + 1 + (j - i - 1) = j
    BY <1>1
  <2>2. j % n = j
    OBVIOUS
  <2> QED BY <2>1, <2>2
<1>2. CASE j < i
  <2>1. j - i - 1 + n \in 0..(n - 2) /\ i + 1 + (j - i - 1 + n) = j + n
    BY <1>2
  <2>2. (j + n) % n = j
    OBVIOUS
  <2> QED BY <2>1, <2>2
<1> QED BY <1>1, <1>2

(* One scan at a time, under the cursor's lock, over names that exist.     *)
ScanInv ==
    /\ \A s, t \in Searches : offset[s] > 0 /\ offset[t] > 0 => s = t
    /\ \A s \in Searches :
          /\ offset[s] > 0 => pc[s] = "reserve" /\ offset[s] < Cardinality(avail[s])
          /\ pc[s] = "reserve" => avail[s] # {}

(* The cursor is behind the provider taken last, and of the names it was   *)
(* taken from, those the scan under way has left behind were passed over.  *)
TurnInv ==
    /\ turn \in [names : SUBSET Providers, taken : Providers \cup {NONE},
                 passed : SUBSET Providers]
    /\ turn.names # {} =>
          /\ turn.taken \in turn.names
          /\ cursor = Index(turn.taken, turn.names) + 1
          /\ \A s \in Searches : avail[s] = turn.names =>
                \A q \in turn.names, o \in 0..(offset[s] - 1) :
                   Index(q, turn.names) = (cursor + o) % Cardinality(turn.names)
                      => q \in turn.passed

(* Only the scan moves the offsets, and only a choice the cursor.          *)
LEMMA OffsetsKept ==
    ASSUME AdmissionInv, [Next]_vars,
           \A s \in Searches : ~Reserve(s) /\ ~PassOver(s) /\ ~NothingToReserve(s)
    PROVE  UNCHANGED <<offset, cursor>>
<1>1. ASSUME NEW s \in Searches, SearchStep(s) PROVE UNCHANGED <<offset, cursor>>
  BY <1>1 DEF SearchStep, ListRegular, At, ListLater, ComputeDelay, Block, Wake,
     PaidUnavailable, PaidGranted, PaidSleep, PaidWake, RecheckSuspended,
     RecheckPassed, RequestsFail, Dispatch, DispatchFails, Join, JoinTimeout, Decide,
     Announce
<1>2. ASSUME NEW s \in Searches, NEW p \in Providers, ThreadStep(s, p)
      PROVE  UNCHANGED <<offset, cursor>>
  BY <1>2 DEF ThreadStep, Lease, Navigate, NavigateAgain, NavigateTo, CallApi,
     Deliver, Merge, Barren, Blocked, EndLease, Signal, searchVars
<1>3. CASE Tick \/ UNCHANGED vars
  BY <1>3 DEF Tick, vars
<1> QED BY <1>1, <1>2, <1>3 DEF Next, Finished

(* A search at its scan keeps its names while nobody scans.                *)
LEMMA NamesKept ==
    ASSUME AdmissionInv, [Next]_vars, NEW s \in Searches,
           \A t \in Searches : ~Reserve(t) /\ ~PassOver(t) /\ ~NothingToReserve(t)
    PROVE  /\ pc[s] = "reserve" => pc'[s] = "reserve" /\ avail'[s] = avail[s]
           /\ pc'[s] = "reserve" =>
                 \/ pc[s] = "reserve"
                 \/ avail'[s] # {}
<1> USE DEF AdmissionInv
<1>1. ASSUME SearchStep(s), ~Announce(s)
      PROVE  pc[s] # "reserve" /\ (pc'[s] = "reserve" => avail'[s] # {})
  <2>1. CASE ListRegular(s) \/ ListLater(s)
    BY <2>1 DEF ListRegular, At, ListLater, Goto, TypeOK
  <2>2. CASE \/ ComputeDelay(s) \/ Block(s) \/ Wake(s) \/ PaidUnavailable(s)
             \/ PaidGranted(s) \/ PaidSleep(s) \/ PaidWake(s)
    BY <2>2 DEF ComputeDelay, Block, Wake, PaidUnavailable, PaidGranted, Take,
       PaidSleep, PaidWake, Goto, TypeOK
  <2>3. CASE \/ RecheckSuspended(s) \/ RecheckPassed(s) \/ RequestsFail(s)
             \/ Dispatch(s) \/ DispatchFails(s) \/ Join(s) \/ JoinTimeout(s)
             \/ Decide(s)
    BY <2>3 DEF RecheckSuspended, At, RecheckPassed, RequestsFail, Dispatch,
       DispatchFails, Join, JoinTimeout, Decide, Goto, TypeOK
  <2> QED BY <1>1, <2>1, <2>2, <2>3 DEF SearchStep
<1>2. ASSUME NEW t \in Searches, t # s, SearchStep(t)
      PROVE  avail'[s] = avail[s] /\ pc'[s] = pc[s]
  BY <1>2, SearchFrame
<1>3. CASE Announce(s)
  BY <1>3 DEF Announce
<1>4. ASSUME NEW t \in Searches, NEW p \in Providers, ThreadStep(t, p)
      PROVE  UNCHANGED <<avail, pc>>
  BY <1>4 DEF ThreadStep, Lease, Navigate, NavigateAgain, NavigateTo, CallApi,
     Deliver, Merge, Barren, Blocked, EndLease, Signal, searchVars
<1>5. CASE Tick \/ UNCHANGED vars
  BY <1>5 DEF Tick, vars
<1> QED BY <1>1, <1>2, <1>3, <1>4, <1>5 DEF Next, Finished

(* A scan that takes a name takes the one it probes and moves the cursor   *)
(* behind it.                                                              *)
LEMMA TakenIsProbed ==
    ASSUME AdmissionInv, [Next]_vars, NEW s \in Searches, NEW p \in Providers,
           Takes(s, p)
    PROVE  Reserve(s) /\ p \in avail[s] /\ p = Probed(s) /\ cursor' = Place(s) + 1
<1> USE DEF AdmissionInv
<1>1. pc[s] = "reserve" /\ reservation[p] # s /\ reservation'[p] = s
  BY DEF Takes
<1>2. Reserve(s)
  BY <1>1, GainIsChosen DEF PaidGranted
<1>3. PICK q \in avail[s] : q = Probed(s) /\ Take(s, q) /\ cursor' = Place(s) + 1
  BY <1>2 DEF Reserve
<1>4. p = q
  BY <1>1, <1>3 DEF Take, TypeOK
<1> QED BY <1>2, <1>3, <1>4

(* ... and every Reserve is such a taking.                                 *)
LEMMA ReserveTakes ==
    ASSUME AdmissionInv, NEW s \in Searches, Reserve(s)
    PROVE  \E p \in avail[s] : Takes(s, p)
<1>1. PICK p \in avail[s] : Take(s, p)
  BY DEF Reserve
<1>2. p \in Providers
  BY DEF AdmissionInv, TypeOK
<1>3. reservation[p] # s /\ reservation'[p] = s
  BY <1>1, <1>2, NoneAssumption DEF Take, Reservable, AdmissionInv, TypeOK
<1> QED BY <1>1, <1>3 DEF Takes, Reserve

(* The end of a scan leaves no scan under way.                             *)
LEMMA ScanOver ==
    ASSUME TypeOK, NEW s \in Searches, Reserve(s) \/ NothingToReserve(s)
    PROVE  \A t \in Searches : offset'[t] = 0
<1>1. offset' = [offset EXCEPT ![s] = 0] /\ ~Locked(s)
  BY DEF Reserve, NothingToReserve
<1>2. \A t \in Searches \ {s} : offset[t] = 0
  BY <1>1 DEF Locked, TypeOK
<1> QED BY <1>1, <1>2 DEF TypeOK

(* Passing a name over moves one search's offset by one.                   *)
LEMMA PassesOne ==
    ASSUME TypeOK, ScanInv, NEW s \in Searches, PassOver(s)
    PROVE  /\ UNCHANGED <<pc, avail, cursor>>
           /\ pc[s] = "reserve" /\ avail[s] # {}
           /\ offset'[s] = offset[s] + 1 /\ offset[s] + 1 < Cardinality(avail[s])
           /\ \A t \in Searches \ {s} : offset[t] = 0 /\ offset'[t] = 0
<1>1. pc[s] = "reserve" /\ avail[s] # {} /\ UNCHANGED <<pc, avail, cursor>>
  BY DEF PassOver, ScanInv
<1>2. \A t \in Searches \ {s} : offset[t] = 0
  BY DEF PassOver, Locked, TypeOK
<1>3. offset' = [offset EXCEPT ![s] = @ + 1] /\ offset[s] + 1 # Cardinality(avail[s])
  BY DEF PassOver, LastProbe
<1>4. offset[s] \in Nat /\ Cardinality(avail[s]) \in Nat \ {0}
  BY <1>1, ProbedIs DEF TypeOK
<1>5. offset[s] < Cardinality(avail[s])
  BY <1>4 DEF ScanInv
<1>6. /\ offset'[s] = offset[s] + 1
      /\ \A t \in Searches \ {s} : offset'[t] = offset[t]
  BY <1>3 DEF TypeOK
<1>7. offset[s] + 1 < Cardinality(avail[s])
  BY <1>3, <1>4, <1>5
<1> QED BY <1>1, <1>2, <1>6, <1>7

(* One scan at a time.                                                     *)
LEMMA ScanStep == AdmissionInv /\ ScanInv /\ [Next]_vars => ScanInv'
<1> SUFFICES ASSUME AdmissionInv, ScanInv, [Next]_vars PROVE ScanInv'
  OBVIOUS
<1>1. ASSUME NEW t \in Searches, Reserve(t) \/ NothingToReserve(t) PROVE ScanInv'
  <2>1. \A s \in Searches : ~(offset'[s] > 0)
    BY <1>1, ScanOver DEF AdmissionInv
  <2>2. pc'[t] # "reserve"
    BY <1>1 DEF Reserve, Take, NothingToReserve, Goto, AdmissionInv, TypeOK
  <2>3. \A s \in Searches \ {t} : pc'[s] = pc[s] /\ avail'[s] = avail[s]
    BY <1>1, SearchFrame DEF SearchStep, AdmissionInv
  <2> QED BY <2>1, <2>2, <2>3 DEF ScanInv
<1>2. ASSUME NEW t \in Searches, PassOver(t) PROVE ScanInv'
  BY <1>2, PassesOne DEF ScanInv, AdmissionInv
<1>3. CASE \A s \in Searches : ~Reserve(s) /\ ~PassOver(s) /\ ~NothingToReserve(s)
  <2>1. UNCHANGED offset
    BY <1>3, OffsetsKept
  <2>2. \A s \in Searches :
          /\ pc[s] = "reserve" => pc'[s] = "reserve" /\ avail'[s] = avail[s]
          /\ pc'[s] = "reserve" => pc[s] = "reserve" \/ avail'[s] # {}
    BY <1>3, NamesKept
  <2> QED BY <2>1, <2>2 DEF ScanInv
<1> QED BY <1>1, <1>2, <1>3

(* What a turn starts with: the provider just taken and the cursor.        *)
LEMMA TurnStarts ==
    ASSUME AdmissionInv, ScanInv, [Next]_vars, NEW s \in Searches,
           NEW p \in Providers, Takes(s, p), turn' = TurnOf(avail[s], p)
    PROVE  TurnInv'
<1>1. /\ Reserve(s) /\ p \in avail[s] /\ cursor' = Place(s) + 1
      /\ Index(p, avail[s]) = Place(s)
  BY TakenIsProbed, ProbedIs DEF AdmissionInv
<1>2. \A t \in Searches : offset'[t] = 0
  BY <1>1, ScanOver DEF AdmissionInv
<1>3. avail[s] \in SUBSET Providers
  BY DEF AdmissionInv, TypeOK
<1>4. CASE avail[s] = {p}
  BY <1>4 DEF TurnOf, NoTurn, TurnInv
<1>5. CASE avail[s] # {p}
  <2>1. turn' = [names |-> avail[s], taken |-> p, passed |-> {}]
    BY <1>5 DEF TurnOf
  <2>2. /\ turn'.names = avail[s] /\ turn'.taken = p
        /\ turn' \in [names : SUBSET Providers, taken : Providers \cup {NONE},
                     passed : SUBSET Providers]
    BY <1>3, <2>1
  <2>3. Index(turn.taken, turn.names)' = Index(p, avail[s])
    BY <2>2 DEF Index, Position
  <2> QED BY <1>1, <1>2, <2>2, <2>3 DEF TurnInv
<1> QED BY <1>4, <1>5

(* What a step without a new turn adds to the names passed over.           *)
LEMMA TurnGoesOn ==
    ASSUME AdmissionInv, ScanInv, TurnInv, [Next]_vars,
           \A s \in Searches : ~Reserve(s),
           turn' = [turn EXCEPT !.passed = IF turn = NoTurn \/ ScanEnds THEN {}
                                           ELSE @ \cup PassedOver]
    PROVE  TurnInv'
<1> USE DEF AdmissionInv
<1>1. /\ turn'.names = turn.names /\ turn'.taken = turn.taken
      /\ turn'.passed = IF turn = NoTurn \/ ScanEnds THEN {}
                        ELSE turn.passed \cup PassedOver
      /\ PassedOver \in SUBSET Providers => turn' \in
            [names : SUBSET Providers, taken : Providers \cup {NONE},
             passed : SUBSET Providers]
  BY DEF TurnInv
<1>2. turn.names # {} => turn # NoTurn
  BY DEF NoTurn
<1>3. ASSUME NEW t \in Searches, NothingToReserve(t) PROVE TurnInv'
  <2>1. \A s \in Searches : offset'[s] = 0
    BY <1>3, ScanOver
  <2>2. UNCHANGED cursor
    BY <1>3 DEF NothingToReserve
  <2>3. PassedOver = {}
    BY <2>1 DEF PassedOver, TypeOK
  <2> QED BY <1>1, <2>1, <2>2, <2>3 DEF TurnInv, Index, Position
<1>4. ASSUME NEW t \in Searches, PassOver(t) PROVE TurnInv'
  <2>1. /\ UNCHANGED <<pc, avail, cursor>> /\ avail[t] # {}
        /\ offset'[t] = offset[t] + 1
        /\ \A s \in Searches \ {t} : offset[s] = 0 /\ offset'[s] = 0
    BY <1>4, PassesOne
  <2>2. PassedOver = {Probed(t)} /\ ~ScanEnds
    <3>1. offset[t] \in Nat
      BY DEF TypeOK
    <3>2. \A s \in Searches : /\ offset'[s] > offset[s] <=> s = t
                             /\ ~(offset'[s] < offset[s])
      BY <2>1, <3>1
    <3> QED BY <3>2 DEF PassedOver, ScanEnds
  <2>3. /\ Probed(t) \in avail[t]
        /\ \A q \in avail[t] : Index(q, avail[t]) = Place(t) => q = Probed(t)
    BY <2>1, ProbedIs
  <2>4. Probed(t) \in Providers
    BY <2>3 DEF TypeOK
  <2>5. ASSUME turn.names # {}, NEW s \in Searches, avail[s] = turn.names,
               NEW q \in turn.names, NEW o \in 0..(offset'[s] - 1),
               Index(q, turn.names) = (cursor + o) % Cardinality(turn.names)
        PROVE  q \in turn'.passed
    <3>1. s = t
      BY <2>1, <2>5
    <3>2. CASE o = offset[t]
      <4>1. q = Probed(t)
        BY <2>3, <2>5, <3>1, <3>2 DEF Place
      <4> QED BY <1>1, <1>2, <2>2, <2>5, <4>1
    <3>3. CASE o # offset[t]
      <4>1. o \in 0..(offset[s] - 1)
        <5>1. offset[t] \in Nat /\ offset'[t] = offset[t] + 1
          BY <2>1 DEF TypeOK
        <5>2. o \in 0..(offset'[t] - 1)
          BY <3>1
        <5> QED BY <3>1, <3>3, <5>1, <5>2
      <4>2. q \in turn.passed
        BY <2>5, <4>1 DEF TurnInv
      <4> QED BY <1>1, <1>2, <2>2, <2>5, <4>2
    <3> QED BY <3>2, <3>3
  <2>6. turn' \in [names : SUBSET Providers, taken : Providers \cup {NONE},
                   passed : SUBSET Providers]
    BY <1>1, <2>2, <2>4
  <2> QED BY <1>1, <2>1, <2>5, <2>6 DEF TurnInv, Index, Position
<1>5. CASE \A s \in Searches : ~PassOver(s) /\ ~NothingToReserve(s)
  <2>1. UNCHANGED <<offset, cursor>>
    BY <1>5, OffsetsKept
  <2>2. PassedOver = {} /\ ~ScanEnds
    BY <2>1 DEF PassedOver, ScanEnds, TypeOK
  <2>3. ASSUME turn.names # {}, NEW s \in Searches, avail'[s] = turn.names,
               NEW q \in turn.names, NEW o \in 0..(offset[s] - 1),
               Index(q, turn.names) = (cursor + o) % Cardinality(turn.names)
        PROVE  q \in turn'.passed
    <3>1. offset[s] > 0
      BY <2>3 DEF TypeOK
    <3>2. avail'[s] = avail[s]
      BY <1>5, <3>1, NamesKept DEF ScanInv
    <3>3. q \in turn.passed
      BY <2>3, <3>2 DEF TurnInv
    <3> QED BY <1>1, <1>2, <2>2, <2>3, <3>3
  <2> QED BY <1>1, <2>1, <2>2, <2>3 DEF TurnInv, Index, Position
<1> QED BY <1>3, <1>4, <1>5

(* Every step keeps what is known of the last turn.                        *)
LEMMA TurnStep ==
    ASSUME AdmissionInv, ScanInv, TurnInv, [Next]_vars, RecordTurn
    PROVE  TurnInv'
<1>1. CASE \E s \in Searches : \E p \in avail[s] :
              Takes(s, p) /\ turn' = TurnOf(avail[s], p)
  <2>1. PICK s \in Searches : \E p \in avail[s] :
                Takes(s, p) /\ turn' = TurnOf(avail[s], p)
    BY <1>1
  <2>2. avail[s] \subseteq Providers
    BY DEF AdmissionInv, TypeOK
  <2> QED BY <2>1, <2>2, TurnStarts
<1>2. CASE ~\E s \in Searches : \E p \in avail[s] : Takes(s, p)
  <2>1. \A s \in Searches : ~Reserve(s)
    BY <1>2, ReserveTakes
  <2>2. turn' = [turn EXCEPT !.passed = IF turn = NoTurn \/ ScanEnds THEN {}
                                        ELSE @ \cup PassedOver]
    BY <1>2 DEF RecordTurn
  <2> QED BY <2>1, <2>2, TurnGoesOn
<1> QED BY <1>1, <1>2 DEF RecordTurn

(* Taking the same provider again: the scan went all the way round.        *)
LEMMA SecondTurn ==
    ASSUME AdmissionInv, ScanInv, TurnInv, [Next]_vars, NEW s \in Searches,
           NEW p \in Providers, Takes(s, p), turn.names = avail[s], turn.taken = p
    PROVE  avail[s] \ {p} \subseteq turn.passed
<1> DEFINE n == Cardinality(avail[s])
           i == Index(p, avail[s])
<1>1. pc[s] = "reserve" /\ avail[s] # {} /\ avail[s] \in SUBSET Providers
  BY DEF Takes, ScanInv, AdmissionInv, TypeOK
<1>2. p = Probed(s) /\ p \in avail[s]
  BY TakenIsProbed
<1>3. n \in Nat \ {0} /\ i = Place(s) /\ offset[s] \in Nat
  BY <1>1, <1>2, ProbedIs DEF AdmissionInv, TypeOK
<1>4. i \in 0..(n - 1)
  BY <1>1, <1>2, IndexIs
<1>5. offset[s] \in 0..(n - 1)
  BY <1>3 DEF ScanInv
<1>6. cursor = i + 1
  BY <1>1 DEF TurnInv
<1>7. (i + 1 + offset[s]) % n = i
  BY <1>3, <1>6 DEF Place
<1>8. offset[s] = n - 1
  <2> HIDE DEF n, i
  <2> QED BY <1>3, <1>4, <1>5, <1>7, WholeRound
<1>9. ASSUME NEW q \in avail[s] \ {p} PROVE q \in turn.passed
  <2>1. Index(q, avail[s]) \in 0..(n - 1) /\ Index(q, avail[s]) # i
    BY <1>1, <1>2, IndexIs
  <2>2. PICK o \in 0..(n - 2) : (i + 1 + o) % n = Index(q, avail[s])
    <3> HIDE DEF n, i
    <3> QED BY <1>3, <1>4, <2>1, RoundVisits
  <2>3. o \in 0..(offset[s] - 1)
    BY <1>3, <1>8, <2>2
  <2> QED BY <1>1, <1>6, <2>2, <2>3 DEF TurnInv
<1> QED BY <1>9

(* The rotation moves on for any number of searches and providers, in any  *)
(* order.                                                                  *)
THEOREM RotationMovesOn == HistorySpec => RotationMoves
<1> DEFINE Inv == AdmissionInv /\ ScanInv /\ TurnInv
<1>1. HistoryInit => Inv
  <2>1. ASSUME HistoryInit PROVE ScanInv
    BY <2>1 DEF HistoryInit, Init, ScanInv
  <2>2. ASSUME HistoryInit PROVE TurnInv
    BY <2>2 DEF HistoryInit, TurnInv, NoTurn
  <2> QED BY <2>1, <2>2, InitInv DEF HistoryInit
<1>2. Inv /\ [HistoryNext]_historyVars => Inv'
  <2> SUFFICES ASSUME AdmissionInv, ScanInv, TurnInv, [HistoryNext]_historyVars
               PROVE  AdmissionInv' /\ ScanInv' /\ TurnInv'
    OBVIOUS
  <2>1. [Next]_vars
    BY DEF HistoryNext, historyVars
  <2>2. AdmissionInv' /\ ScanInv'
    BY <2>1, StepInv, ScanStep
  <2>3. CASE HistoryNext
    <3>1. RecordTurn
      BY <2>3 DEF HistoryNext
    <3> QED BY <2>1, <2>2, <3>1, TurnStep
  <2>4. CASE UNCHANGED historyVars
    <3>1. UNCHANGED <<turn, cursor, avail, offset>>
      BY <2>4 DEF historyVars, vars
    <3> QED BY <2>2, <3>1 DEF TurnInv, Index, Position
  <2> QED BY <2>3, <2>4
<1>3. Inv /\ [HistoryNext]_historyVars =>
        [MovesOn]_historyVars
  <2>1. \A s \in Searches : AdmissionInv => avail[s] \subseteq Providers
    BY DEF AdmissionInv, TypeOK
  <2> QED BY <2>1, SecondTurn DEF HistoryNext, historyVars, MovesOn
<1> HIDE DEF Inv
<1> QED BY <1>1, <1>2, <1>3, PTL DEF HistorySpec, RotationMoves
=============================================================================
