-------------------------- MODULE SearchScheduling --------------------------
(***************************************************************************)
(* How concurrent SearXNG searches share the browser providers and the     *)
(* paid API provider.                                                      *)
(*                                                                         *)
(* Two kinds of process run here.  The main thread of a search (search_    *)
(* standard / _get_requests / _round_robin_selected_refs in                *)
(* searxng/patches/sitecustomize.py) picks one untried provider, reserves  *)
(* it, starts one engine thread, waits for it, and goes on to another      *)
(* provider while there are no main results.  The engine thread            *)
(* (OfflineProcessor.search as patched, x402exa.process) turns the         *)
(* reservation into a lease, navigates, records the outcome, and gives the *)
(* provider back.  An engine thread that outlives its search's timeout     *)
(* keeps its lease and runs on.                                            *)
(*                                                                         *)
(* Time is kept as remaining ticks: cool is what is left of a provider's   *)
(* start interval, susp of its suspension, timer of a timed wait.          *)
(***************************************************************************)
EXTENDS Naturals, Sequences, FiniteSets

CONSTANTS
    Searches,      \* concurrent search requests
    Regular,       \* browser providers of the first tier
    LastResort,    \* browser providers used after the regular ones (bing2)
    Paid,          \* the API provider of the last tier ({} or {x402exa})
    Order,         \* the configured provider order, a sequence
    Eligible,      \* Eligible[s]: selected providers whose params admit s
    Interval,      \* MINIMUM_START_INTERVAL in ticks
    SuspendTicks,  \* the length of a suspension in ticks
    NONE

Browser == Regular \cup LastResort
Providers == Browser \cup Paid

ASSUME TiersAssumption ==
    /\ Regular \cap LastResort = {}
    /\ Browser \cap Paid = {}

(* _round_robin_providers drops repeated names.                            *)
ASSUME OrderAssumption ==
    /\ Order \in Seq(Providers)
    /\ \A p \in Providers : \E i \in DOMAIN Order : Order[i] = p
    /\ \A i, j \in DOMAIN Order : Order[i] = Order[j] => i = j

ASSUME EligibleAssumption == Eligible \in [Searches -> SUBSET Providers]

ASSUME TicksAssumption ==
    /\ Interval \in Nat \ {0}
    /\ SuspendTicks \in Nat \ {0}

ASSUME NoneAssumption == NONE \notin Searches \cup Providers \cup Nat

VARIABLES
    active,       \* active[p]: a lease on p is held
    reservation,  \* reservation[p]: the search whose token reserves p
    cool,         \* cool[p]: ticks until p may be started again
    susp,         \* susp[p]: ticks until p's suspension lapses
    cursor,       \* _ROUND_ROBIN_CURSOR
    fresh,        \* searches with no capacity change since they looked
    owes,         \* owes[s]: the browser provider whose reservation s has just
                  \* made or given back, and not signalled yet, or NONE
    pc,           \* pc[s]: where the main thread of search s is
    avail,        \* avail[s]: the names s is choosing from or waiting for
    offset,       \* offset[s]: names the scan of s found not reservable
    timer,        \* timer[s]: ticks left of a timed wait, or NONE
    picked,       \* picked[s]: the provider s holds a reservation for
    attempted,    \* attempted[s]: providers s has dispatched
    timedOut,     \* timedOut[s]: providers whose thread s stopped awaiting
    hasMain,      \* hasMain[s]: the result container has a main result
    thread        \* thread[s][p]: where the engine thread of s on p is

providerVars == <<active, reservation, cool, susp>>
searchVars == <<owes, pc, avail, offset, timer, picked, attempted, timedOut, hasMain>>
vars == <<active, reservation, cool, susp, cursor, fresh, owes, pc, avail,
          offset, timer, picked, attempted, timedOut, hasMain, thread>>

SearchSteps == {"select", "later", "reserve", "delay", "block", "waiting",
                "paidcheck", "paidwaiting", "paidwoken", "recheck", "dispatch",
                "joining", "decide", "done"}

ThreadSteps == {"none", "created", "leased", "navigating", "page2", "merging",
                "recorded", "signalling", "ended"}

(* An engine thread in one of these steps is inside its provider's lease.  *)
Leasing == {"leased", "navigating", "page2", "merging", "recorded"}

TypeOK ==
    /\ active \in [Providers -> BOOLEAN]
    /\ reservation \in [Providers -> Searches \cup {NONE}]
    /\ cool \in [Providers -> 0..Interval]
    /\ susp \in [Providers -> 0..SuspendTicks]
    /\ cursor \in Nat
    /\ fresh \subseteq Searches
    /\ owes \in [Searches -> Browser \cup {NONE}]
    /\ pc \in [Searches -> SearchSteps]
    /\ avail \in [Searches -> SUBSET Providers]
    /\ offset \in [Searches -> Nat]
    /\ timer \in [Searches -> (0..Interval) \cup {NONE}]
    /\ picked \in [Searches -> Providers \cup {NONE}]
    /\ attempted \in [Searches -> SUBSET Providers]
    /\ timedOut \in [Searches -> SUBSET Providers]
    /\ hasMain \in [Searches -> BOOLEAN]
    /\ thread \in [Searches -> [Providers -> ThreadSteps]]

Init ==
    /\ active = [p \in Providers |-> FALSE]
    /\ reservation = [p \in Providers |-> NONE]
    /\ cool = [p \in Providers |-> 0]
    /\ susp = [p \in Providers |-> 0]
    /\ cursor = 0
    /\ fresh = {}
    /\ owes = [s \in Searches |-> NONE]
    /\ pc = [s \in Searches |-> "select"]
    /\ avail = [s \in Searches |-> {}]
    /\ offset = [s \in Searches |-> 0]
    /\ timer = [s \in Searches |-> NONE]
    /\ picked = [s \in Searches |-> NONE]
    /\ attempted = [s \in Searches |-> {}]
    /\ timedOut = [s \in Searches |-> {}]
    /\ hasMain = [s \in Searches |-> FALSE]
    /\ thread = [s \in Searches |-> [p \in Providers |-> "none"]]

-----------------------------------------------------------------------------
(* Shared provider state.                                                  *)

(* Mutants of Reservable: the lease or the start interval is not looked at.*)
ReservableWhileLeased(p) ==
    reservation[p] = NONE /\ cool[p] = 0 /\ (p \in Paid => susp[p] = 0)

ReservableWhileCooling(p) ==
    ~active[p] /\ reservation[p] = NONE /\ (p \in Paid => susp[p] = 0)

(* reserve_provider admits p; the paid admission also reads the native     *)
(* suspension under its own lock.                                          *)
Reservable(p) ==
    /\ ~active[p]
    /\ reservation[p] = NONE
    /\ cool[p] = 0
    /\ p \in Paid => susp[p] = 0

(* Mutant of AfterChange: nobody is told.                                  *)
NobodyAfterChange(p) == fresh

(* A browser capacity change outdates the generation every searcher has    *)
(* read and wakes the browser waiters; a change of the paid admission      *)
(* wakes only the searches sleeping on its own condition.                  *)
AfterChange(p) ==
    IF p \in Paid THEN {s \in fresh : pc[s] # "paidwaiting"}
                  ELSE {s \in fresh : pc[s] = "paidwaiting"}

Candidates(s) == Eligible[s] \ attempted[s]

Available(names) == {p \in names : susp[p] = 0}

Position == [p \in Providers |-> CHOOSE i \in DOMAIN Order : Order[i] = p]

(* The zero-based index of p among names in the configured order.          *)
Index(p, names) == Cardinality({q \in names : Position[q] < Position[p]})

(* The index that the scan of s probes next, and the name it finds there.  *)
Place(s) == (cursor + offset[s]) % Cardinality(avail[s])

Probed(s) == CHOOSE p \in avail[s] : Index(p, avail[s]) = Place(s)

LastProbe(s) == offset[s] + 1 = Cardinality(avail[s])

(* _ROUND_ROBIN_LOCK: held by the search in the middle of its scan, and    *)
(* until the reservation that ends the scan is signalled.                  *)
Locked(s) ==
    \E t \in Searches \ {s} :
        offset[t] > 0 \/ (pc[t] = "recheck" /\ owes[t] # NONE)

Goto(s, step) == pc' = [pc EXCEPT ![s] = step]

(* A main thread signals what it owes before it goes on from this step.    *)
At(s, step) == pc[s] = step /\ owes[s] = NONE

-----------------------------------------------------------------------------
(* The main thread of a search: choosing a provider.                       *)

(* Mutant of ListRegular: a busy regular provider hides nothing.           *)
ListRegularReady(s) ==
    /\ At(s, "select")
    /\ fresh' = fresh \cup {s}
    /\ avail' = [avail EXCEPT ![s] = {p \in Available(Candidates(s) \cap Regular) :
                                          Reservable(p)}]
    /\ Goto(s, IF avail'[s] = {} THEN "later" ELSE "reserve")
    /\ UNCHANGED <<providerVars, cursor, offset, timer, picked, attempted,
                   timedOut, hasMain, owes, thread>>

(* The generation is read before the tiers are listed.  A regular provider *)
(* that is not suspended hides the later tiers even while it is busy.      *)
ListRegular(s) ==
    /\ At(s, "select")
    /\ fresh' = fresh \cup {s}
    /\ avail' = [avail EXCEPT ![s] = Available(Candidates(s) \cap Regular)]
    /\ Goto(s, IF avail'[s] = {} THEN "later" ELSE "reserve")
    /\ UNCHANGED <<providerVars, cursor, offset, timer, picked, attempted,
                   timedOut, hasMain, owes, thread>>

(* With no regular provider left the last resort is listed, then the paid  *)
(* provider.  With nothing left the request list is empty and the search   *)
(* returns.                                                                *)
ListLater(s) ==
    /\ pc[s] = "later"
    /\ LET last == Available(Candidates(s) \cap LastResort)
           paid == Available(Candidates(s) \cap Paid)
       IN  avail' = [avail EXCEPT ![s] = IF last = {} THEN paid ELSE last]
    /\ Goto(s, IF avail'[s] = {} THEN "done" ELSE "reserve")
    /\ UNCHANGED <<providerVars, cursor, fresh, offset, timer, picked,
                   attempted, timedOut, hasMain, owes, thread>>

(* The reservation is made under the provider's lock and signalled after   *)
(* it, in Announce.  The paid admission signals none.                      *)
Take(s, p) ==
    /\ Reservable(p)
    /\ reservation' = [reservation EXCEPT ![p] = s]
    /\ picked' = [picked EXCEPT ![s] = p]
    /\ avail' = [avail EXCEPT ![s] = {}]
    /\ timer' = [timer EXCEPT ![s] = NONE]
    /\ fresh' = fresh \ {s}
    /\ owes' = [owes EXCEPT ![s] = IF p \in Paid THEN NONE ELSE p]
    /\ Goto(s, "recheck")
    /\ UNCHANGED <<active, cool, susp, attempted, timedOut, hasMain, thread>>

(* Mutant of Reserve: the cursor stays on the provider just taken.         *)
ReserveInPlace(s) ==
    /\ pc[s] = "reserve" /\ ~Locked(s)
    /\ \E p \in avail[s], place \in 0..(Len(Order) - 1) :
        /\ p = Probed(s) /\ place = Place(s)
        /\ Take(s, p)
        /\ cursor' = place
    /\ offset' = [offset EXCEPT ![s] = 0]

(* The scan probes one name at a time.  It holds the cursor's lock and not *)
(* the providers' locks, so a name it has passed may become free.          *)
Reserve(s) ==
    /\ pc[s] = "reserve" /\ ~Locked(s)
    /\ \E p \in avail[s], place \in 0..(Len(Order) - 1) :
        /\ p = Probed(s) /\ place = Place(s)
        /\ Take(s, p)
        /\ cursor' = place + 1
    /\ offset' = [offset EXCEPT ![s] = 0]

PassOver(s) ==
    /\ pc[s] = "reserve" /\ ~Locked(s)
    /\ ~Reservable(Probed(s))
    /\ ~LastProbe(s)
    /\ offset' = [offset EXCEPT ![s] = @ + 1]
    /\ UNCHANGED <<providerVars, cursor, fresh, pc, avail, timer, picked,
                   attempted, timedOut, hasMain, owes, thread>>

NothingToReserve(s) ==
    /\ pc[s] = "reserve" /\ ~Locked(s)
    /\ ~Reservable(Probed(s))
    /\ LastProbe(s)
    /\ offset' = [offset EXCEPT ![s] = 0]
    /\ Goto(s, IF avail[s] \subseteq Paid THEN "paidcheck" ELSE "delay")
    /\ UNCHANGED <<providerVars, cursor, fresh, avail, timer, picked,
                   attempted, timedOut, hasMain, owes, thread>>

-----------------------------------------------------------------------------
(* The main thread of a search: waiting for capacity.                      *)

Unowned(names) == {p \in names : ~active[p] /\ reservation[p] = NONE}

(* The nearest cooldown of an idle provider; NONE when all are owned.      *)
NextReadyDelay(names) ==
    IF Unowned(names) = {} THEN NONE
    ELSE CHOOSE d \in 0..Interval :
            /\ \E p \in Unowned(names) : cool[p] = d
            /\ \A p \in Unowned(names) : d <= cool[p]

ComputeDelay(s) ==
    /\ pc[s] = "delay"
    /\ timer' = [timer EXCEPT ![s] = NextReadyDelay(avail[s])]
    /\ Goto(s, IF timer'[s] = 0 THEN "select" ELSE "block")
    /\ UNCHANGED <<providerVars, cursor, offset, fresh, avail, picked, attempted,
                   timedOut, hasMain, owes, thread>>

(* Mutant of Block: the generation is read when falling asleep.            *)
BlockOnLateGeneration(s) ==
    /\ pc[s] = "block"
    /\ Goto(s, "waiting")
    /\ fresh' = fresh \cup {s}
    /\ UNCHANGED <<providerVars, cursor, offset, avail, timer, picked, attempted,
                   timedOut, hasMain, owes, thread>>

(* Under the condition's lock: sleep only if the generation is unchanged.  *)
Block(s) ==
    /\ pc[s] = "block"
    /\ Goto(s, IF s \in fresh THEN "waiting" ELSE "select")
    /\ UNCHANGED <<providerVars, cursor, offset, fresh, avail, timer, picked,
                   attempted, timedOut, hasMain, owes, thread>>

Woken(s) == s \notin fresh \/ timer[s] = 0

Wake(s) ==
    /\ pc[s] = "waiting"
    /\ Woken(s)
    /\ avail' = [avail EXCEPT ![s] = {}]
    /\ timer' = [timer EXCEPT ![s] = NONE]
    /\ Goto(s, "select")
    /\ UNCHANGED <<providerVars, cursor, offset, fresh, picked, attempted, timedOut,
                   hasMain, owes, thread>>

(* _x402_admission.wait: its loop runs under the admission's condition.    *)
PaidUnavailable(s) ==
    /\ pc[s] \in {"paidcheck", "paidwoken"}
    /\ \E p \in avail[s] : susp[p] > 0
    /\ avail' = [avail EXCEPT ![s] = {}]
    /\ timer' = [timer EXCEPT ![s] = NONE]
    /\ Goto(s, "select")
    /\ UNCHANGED <<providerVars, cursor, offset, fresh, picked, attempted, timedOut,
                   hasMain, owes, thread>>

PaidGranted(s) ==
    /\ pc[s] \in {"paidcheck", "paidwoken"}
    /\ \E p \in avail[s] : Take(s, p)
    /\ UNCHANGED <<cursor, offset>>

PaidSleep(s) ==
    /\ pc[s] \in {"paidcheck", "paidwoken"}
    /\ \E p \in avail[s] :
        /\ susp[p] = 0
        /\ ~Reservable(p)
        /\ timer' = [timer EXCEPT ![s] = NextReadyDelay({p})]
    /\ fresh' = fresh \cup {s}
    /\ Goto(s, "paidwaiting")
    /\ UNCHANGED <<providerVars, cursor, offset, avail, picked, attempted, timedOut,
                   hasMain, owes, thread>>

PaidWake(s) ==
    /\ pc[s] = "paidwaiting"
    /\ Woken(s)
    /\ timer' = [timer EXCEPT ![s] = NONE]
    /\ Goto(s, "paidwoken")
    /\ UNCHANGED <<providerVars, cursor, offset, fresh, avail, picked, attempted,
                   timedOut, hasMain, owes, thread>>

-----------------------------------------------------------------------------
(* The main thread of a search: dispatching and judging an attempt.        *)

(* Mutant of ReleaseReservation: the token is dropped, not given back.     *)
ReservationForgotten(s) ==
    /\ picked' = [picked EXCEPT ![s] = NONE]
    /\ UNCHANGED <<reservation, fresh, owes>>

(* Give back picked[s] if s's token still reserves it.  The paid admission *)
(* signals it under the same lock, _obscura afterwards, in Announce.       *)
ReleaseReservation(s) ==
    LET p == picked[s]
        held == reservation[p] = s
    IN  /\ reservation' = [reservation EXCEPT ![p] = IF held THEN NONE ELSE @]
        /\ fresh' = IF held /\ p \in Paid THEN AfterChange(p) ELSE fresh
        /\ owes' = [owes EXCEPT ![s] = IF held /\ p \in Browser THEN p ELSE NONE]
        /\ picked' = [picked EXCEPT ![s] = NONE]

(* _provider_capacity_changed, called by the main thread.                  *)
Announce(s) ==
    /\ owes[s] # NONE
    /\ fresh' = AfterChange(owes[s])
    /\ owes' = [owes EXCEPT ![s] = NONE]
    /\ UNCHANGED <<providerVars, cursor, offset, pc, avail, timer, picked,
                   attempted, timedOut, hasMain, thread>>

(* extend_container_if_suspended: a provider suspended since it was listed *)
(* is given back and the choice starts over.                               *)
RecheckSuspended(s) ==
    /\ At(s, "recheck")
    /\ susp[picked[s]] > 0
    /\ ReleaseReservation(s)
    /\ Goto(s, "select")
    /\ UNCHANGED <<active, cool, susp, cursor, offset, avail, timer, attempted,
                   timedOut, hasMain, thread>>

(* Mutant of RecheckPassed: the listing is trusted.                        *)
RecheckSkipped(s) ==
    /\ At(s, "recheck")
    /\ Goto(s, "dispatch")
    /\ UNCHANGED <<providerVars, cursor, offset, fresh, avail, timer, picked,
                   attempted, timedOut, hasMain, owes, thread>>

RecheckPassed(s) ==
    /\ At(s, "recheck")
    /\ susp[picked[s]] = 0
    /\ Goto(s, "dispatch")
    /\ UNCHANGED <<providerVars, cursor, offset, fresh, avail, timer, picked,
                   attempted, timedOut, hasMain, owes, thread>>

(* Building the request list failed: the reservation is given back and the *)
(* exception ends the search.                                              *)
RequestsFail(s) ==
    /\ At(s, "recheck")
    /\ ReleaseReservation(s)
    /\ Goto(s, "done")
    /\ UNCHANGED <<active, cool, susp, cursor, offset, avail, timer, attempted,
                   timedOut, hasMain, thread>>

(* Mutant of Dispatch: the provider is not noted as attempted.             *)
DispatchUnnoted(s) ==
    /\ pc[s] = "dispatch"
    /\ thread' = [thread EXCEPT ![s][picked[s]] = "created"]
    /\ Goto(s, "joining")
    /\ UNCHANGED <<providerVars, cursor, offset, fresh, avail, timer, picked,
                   attempted, timedOut, hasMain, owes>>

Dispatch(s) ==
    /\ pc[s] = "dispatch"
    /\ attempted' = [attempted EXCEPT ![s] = @ \cup {picked[s]}]
    /\ thread' = [thread EXCEPT ![s][picked[s]] = "created"]
    /\ Goto(s, "joining")
    /\ UNCHANGED <<providerVars, cursor, offset, fresh, avail, timer, picked,
                   timedOut, hasMain, owes>>

(* The engine thread could not be started.                                 *)
DispatchFails(s) ==
    /\ pc[s] = "dispatch"
    /\ attempted' = [attempted EXCEPT ![s] = @ \cup {picked[s]}]
    /\ ReleaseReservation(s)
    /\ Goto(s, "done")
    /\ UNCHANGED <<active, cool, susp, cursor, offset, avail, timer, timedOut,
                   hasMain, thread>>

Join(s) ==
    /\ pc[s] = "joining"
    /\ thread[s][picked[s]] = "ended"
    /\ picked' = [picked EXCEPT ![s] = NONE]
    /\ Goto(s, "decide")
    /\ UNCHANGED <<providerVars, cursor, offset, fresh, avail, timer, attempted,
                   timedOut, hasMain, owes, thread>>

JoinTimeout(s) ==
    /\ pc[s] = "joining"
    /\ thread[s][picked[s]] # "ended"
    /\ timedOut' = [timedOut EXCEPT ![s] = @ \cup {picked[s]}]
    /\ picked' = [picked EXCEPT ![s] = NONE]
    /\ Goto(s, "decide")
    /\ UNCHANGED <<providerVars, cursor, offset, fresh, avail, timer, attempted,
                   hasMain, owes, thread>>

Decide(s) ==
    /\ pc[s] = "decide"
    /\ Goto(s, IF hasMain[s] \/ Candidates(s) = {} THEN "done" ELSE "select")
    /\ UNCHANGED <<providerVars, cursor, offset, fresh, avail, timer, picked,
                   attempted, timedOut, hasMain, owes, thread>>

-----------------------------------------------------------------------------
(* The engine thread of search s on provider p.                            *)

ThreadGoto(s, p, step) == thread' = [thread EXCEPT ![s][p] = step]

(* provider_lease / ownership consume the exact reservation.  A token that *)
(* cannot be turned into a lease ends the attempt; if it still reserves    *)
(* the provider, the cleanup gives it back.                                *)
Lease(s, p) ==
    /\ thread[s][p] = "created"
    /\ reservation' = [reservation EXCEPT ![p] = IF @ = s THEN NONE ELSE @]
    /\ IF reservation[p] = s /\ ~active[p]
         THEN /\ active' = [active EXCEPT ![p] = TRUE]
              /\ ThreadGoto(s, p, "leased")
              /\ UNCHANGED fresh
         ELSE /\ fresh' = IF reservation[p] = s /\ p \in Paid THEN AfterChange(p)
                          ELSE fresh
              /\ ThreadGoto(s, p, IF reservation[p] = s /\ p \in Browser
                                 THEN "signalling" ELSE "ended")
              /\ UNCHANGED active
    /\ UNCHANGED <<cool, susp, cursor, searchVars>>

(* _record_start at the pre-navigation boundary waits out the interval.    *)
NavigateTo(s, p, step) ==
    /\ ThreadGoto(s, p, step)
    /\ cool[p] = 0
    /\ cool' = [cool EXCEPT ![p] = Interval]
    /\ UNCHANGED <<active, reservation, susp, cursor, fresh, searchVars>>

Navigate(s, p) ==
    /\ p \in Browser
    /\ thread[s][p] = "leased"
    /\ NavigateTo(s, p, "navigating")

(* The last resort asks for a second page when the first one is sparse.    *)
NavigateAgain(s, p) ==
    /\ p \in LastResort
    /\ thread[s][p] = "navigating"
    /\ NavigateTo(s, p, "page2")

(* The paid attempt rereads the suspension under its ownership and stamps  *)
(* its start without looking at the interval again.                        *)
CallApi(s, p) ==
    /\ p \in Paid
    /\ thread[s][p] = "leased"
    /\ susp[p] = 0
    /\ ThreadGoto(s, p, "navigating")
    /\ cool' = [cool EXCEPT ![p] = Interval]
    /\ UNCHANGED <<active, reservation, susp, cursor, fresh, searchVars>>

(* Results arrived.  They count only if the search still waits for them.   *)
Deliver(s, p) ==
    /\ thread[s][p] \in {"navigating", "page2"}
    /\ ThreadGoto(s, p, IF p \in timedOut[s] THEN "recorded" ELSE "merging")
    /\ UNCHANGED <<providerVars, cursor, fresh, searchVars>>

(* The container takes results until the search has returned.              *)
Merge(s, p) ==
    /\ thread[s][p] = "merging"
    /\ hasMain' = [hasMain EXCEPT ![s] = @ \/ pc[s] # "done"]
    /\ ThreadGoto(s, p, "recorded")
    /\ UNCHANGED <<providerVars, cursor, offset, fresh, pc, avail, timer, picked,
                   attempted, timedOut, owes>>

(* No results, a failure that does not block, or an expired paid admission.*)
Barren(s, p) ==
    /\ thread[s][p] \in {"leased", "navigating", "page2"}
    /\ ThreadGoto(s, p, "recorded")
    /\ UNCHANGED <<providerVars, cursor, fresh, searchVars>>

(* The provider blocked, or the paid attempt failed: it is suspended       *)
(* before the lease is given up.                                           *)
Blocked(s, p) ==
    /\ thread[s][p] \in {"leased", "navigating", "page2"}
    /\ susp' = [susp EXCEPT ![p] = SuspendTicks]
    /\ ThreadGoto(s, p, "recorded")
    /\ UNCHANGED <<active, reservation, cool, cursor, fresh, searchVars>>

(* Leaving the lease: first the flag, then the signal.  The paid admission *)
(* does both under its condition.                                          *)
EndLease(s, p) ==
    /\ thread[s][p] = "recorded"
    /\ active' = [active EXCEPT ![p] = FALSE]
    /\ IF p \in Paid THEN ThreadGoto(s, p, "ended") /\ fresh' = AfterChange(p)
                     ELSE ThreadGoto(s, p, "signalling") /\ UNCHANGED fresh
    /\ UNCHANGED <<reservation, cool, susp, cursor, searchVars>>

Signal(s, p) ==
    /\ thread[s][p] = "signalling"
    /\ ThreadGoto(s, p, "ended")
    /\ fresh' = AfterChange(p)
    /\ UNCHANGED <<providerVars, cursor, searchVars>>

-----------------------------------------------------------------------------
Decrement(n) == IF n = 0 THEN 0 ELSE n - 1

(* One tick of the clock, while anything is left to run down.              *)
Tick ==
    /\ \/ \E p \in Providers : cool[p] > 0 \/ susp[p] > 0
       \/ \E s \in Searches : timer[s] \notin {0, NONE}
    /\ cool' = [p \in Providers |-> Decrement(cool[p])]
    /\ susp' = [p \in Providers |-> Decrement(susp[p])]
    /\ timer' = [s \in Searches |->
                    IF pc[s] \in {"waiting", "paidwaiting"} /\ timer[s] # NONE
                    THEN Decrement(timer[s]) ELSE timer[s]]
    /\ UNCHANGED <<active, reservation, cursor, offset, fresh, pc, avail, picked,
                   attempted, timedOut, hasMain, owes, thread>>

SearchStep(s) ==
    \/ ListRegular(s) \/ ListLater(s)
    \/ Reserve(s) \/ PassOver(s) \/ NothingToReserve(s)
    \/ ComputeDelay(s) \/ Block(s) \/ Wake(s)
    \/ PaidUnavailable(s) \/ PaidGranted(s) \/ PaidSleep(s) \/ PaidWake(s)
    \/ RecheckSuspended(s) \/ RecheckPassed(s) \/ RequestsFail(s)
    \/ Dispatch(s) \/ DispatchFails(s)
    \/ Join(s) \/ JoinTimeout(s) \/ Decide(s)
    \/ Announce(s)

ThreadStep(s, p) ==
    \/ Lease(s, p) \/ Navigate(s, p) \/ NavigateAgain(s, p) \/ CallApi(s, p)
    \/ Deliver(s, p) \/ Merge(s, p) \/ Barren(s, p) \/ Blocked(s, p)
    \/ EndLease(s, p) \/ Signal(s, p)

(* Every search has returned and every engine thread has ended.            *)
Finished ==
    /\ \A s \in Searches : pc[s] = "done" /\ owes[s] = NONE
    /\ \A s \in Searches, p \in Providers : thread[s][p] \in {"none", "ended"}
    /\ UNCHANGED vars

Next ==
    \/ \E s \in Searches : SearchStep(s)
    \/ \E s \in Searches, p \in Providers : ThreadStep(s, p)
    \/ Tick
    \/ Finished

Spec == Init /\ [][Next]_vars

(* Threads are scheduled, the clock runs, and an attempt ends: the browser *)
(* transaction and the API exchange have deadlines of their own.           *)
FairSpec ==
    /\ Spec
    /\ \A s \in Searches : WF_vars(SearchStep(s))
    /\ \A s \in Searches, p \in Providers : WF_vars(ThreadStep(s, p))
    /\ WF_vars(Tick)
-----------------------------------------------------------------------------
(* Safety.                                                                 *)

(* A provider has one owner: its lease flag is set exactly while one       *)
(* engine thread is inside the lease, and nobody may hold a reservation of *)
(* a leased provider (provider_lease, reserve_provider, ownership).        *)
OneOwner ==
    \A p \in Providers :
        /\ active[p] <=> \E s \in Searches : thread[s][p] \in Leasing
        /\ active[p] => reservation[p] = NONE
        /\ \A s, t \in Searches :
              thread[s][p] \in Leasing /\ thread[t][p] \in Leasing => s = t

(* No reservation leaks: the token of a reserved provider is in the hands  *)
(* of a search about to dispatch it or of an engine thread about to lease  *)
(* it, whatever failed on the way (release in _get_requests,               *)
(* search_standard and the engine thread).                                 *)
ReservationHeld ==
    \A p \in Providers, s \in Searches :
        reservation[p] = s =>
            \/ pc[s] \in {"recheck", "dispatch"} /\ picked[s] = p
            \/ thread[s][p] = "created"

(* An engine thread never finds its reservation gone: no other release or  *)
(* lease got in between the reservation and the lease.                     *)
LeaseNeverRejected ==
    \A p \in Providers, s \in Searches :
        thread[s][p] = "created" => reservation[p] = s /\ ~active[p]

(* No attempt runs against a provider that was suspended after it was      *)
(* listed: the recheck under the reservation and the suspension recorded   *)
(* inside the lease leave no window (sitecustomize, comment at the lease). *)
SuspendedNeverRuns ==
    \A p \in Providers, s \in Searches :
        thread[s][p] \in {"created", "leased", "navigating", "page2", "merging"}
            => susp[p] = 0

(* What ties the parts above together, step by step: a search chooses only *)
(* among providers it has not tried; what it picked is reserved for it, is *)
(* untried, and after the recheck is not suspended; and a provider with an *)
(* engine thread has been tried.                                           *)
PicksAreOwned ==
    /\ \A s \in Searches : avail[s] \cap attempted[s] = {}
    /\ \A s \in Searches : pc[s] \in {"recheck", "dispatch"} =>
          /\ avail[s] = {}
          /\ picked[s] \in Providers
          /\ reservation[picked[s]] = s
          /\ picked[s] \notin attempted[s]
    /\ \A s \in Searches : pc[s] = "dispatch" => susp[picked[s]] = 0
    /\ \A s \in Searches : pc[s] = "joining" => picked[s] \in Providers
    /\ \A s \in Searches, p \in Providers :
          thread[s][p] # "none" => p \in attempted[s]

(* The inductive invariant of provider admission.                          *)
AdmissionInv ==
    /\ TypeOK
    /\ PicksAreOwned
    /\ OneOwner
    /\ ReservationHeld
    /\ LeaseNeverRejected
    /\ SuspendedNeverRuns

(* A searcher that sleeps without a timer sleeps on providers somebody     *)
(* owns or is about to signal: its wake-up is still to come (generation    *)
(* compared under the condition).                                          *)
NoLostWakeup ==
    \A s \in Searches :
        pc[s] \in {"waiting", "paidwaiting"} /\ timer[s] = NONE /\ s \in fresh =>
            \E p \in avail[s] :
                \/ active[p]
                \/ reservation[p] # NONE
                \/ \E t \in Searches : thread[t][p] = "signalling" \/ owes[t] = p

(* Starts on one provider are spaced: whenever an attempt reaches its      *)
(* start (a navigation, the second page of the last resort, an API call)   *)
(* the interval of the last start has run out, although the API call does  *)
(* not look again.                                                         *)
StartsSpaced ==
    [][\A s \in Searches, p \in Providers :
         thread'[s][p] # thread[s][p] /\ thread'[s][p] \in {"navigating", "page2"}
            => cool[p] = 0]_vars

(* The outcome of an attempt (merged results, a suspension) is recorded    *)
(* while its provider is still owned, so nobody can have reserved it.      *)
OutcomeInsideLease ==
    [][/\ \A p \in Providers : susp'[p] > susp[p] => active[p] /\ active'[p]
       /\ \A s \in Searches :
            hasMain'[s] # hasMain[s] =>
                \E p \in Providers : active[p] /\ active'[p]
                                     /\ thread[s][p] # thread'[s][p]]_vars

(* A search dispatches a provider at most once, whatever the recheck, the  *)
(* timeouts and the retries of _get_requests do in between.                *)
EachProviderOnce ==
    [][\A s \in Searches, p \in Providers :
         thread[s][p] # "created" /\ thread'[s][p] = "created" =>
            thread[s][p] = "none" /\ p \notin attempted[s]]_vars

(* The two promises of a reservation together: nobody keeps one that is    *)
(* not in use, nobody loses one that is.                                   *)
ReservationsKept == ReservationHeld /\ LeaseNeverRejected

(* An attempt from its dispatch to its outcome: at most one per search and *)
(* provider, and what came of it is written down inside its lease.         *)
AttemptsInOrder == EachProviderOnce /\ OutcomeInsideLease

-----------------------------------------------------------------------------
(* Liveness.                                                               *)

(* Every search returns: no waiter sleeps for ever, no reservation keeps a *)
(* provider from the others for ever.                                      *)
SearchesReturn == \A s \in Searches : <>[](pc[s] = "done")

(* A provider that is reserved or leased is given back.                    *)
CapacityReturns ==
    \A p \in Providers :
        (active[p] \/ reservation[p] # NONE)
            ~> (~active[p] /\ reservation[p] = NONE)

(* No search is stuck and no provider stays taken, whatever times out,      *)
(* fails or is suspended in between (the finally clauses of provider_lease, *)
(* search_standard and the engine thread).                                  *)
SearchingProgresses == SearchesReturn /\ CapacityReturns
-----------------------------------------------------------------------------
(* Refinement.                                                             *)

(* The search that reserves p or whose engine thread is in p's lease.      *)
Holder(p) ==
    IF \E s \in Searches : thread[s][p] \in Leasing
    THEN CHOOSE s \in Searches : thread[s][p] \in Leasing
    ELSE reservation[p]

Ownership == INSTANCE ProviderOwnership WITH
    holder <- [p \in Providers |-> Holder(p)],
    running <- {p \in Providers : active[p]},
    blocked <- {p \in Providers : susp[p] > 0},
    tried <- [s \in Searches |->
                 {p \in Providers : thread[s][p] \notin {"none", "created"}}]

(* Reservations, leases, threads and rechecks together keep the promise of *)
(* ProviderOwnership: one holder, and a start only on an unblocked and     *)
(* untried provider.                                                       *)
KeepsOwnership == Ownership!Spec
=============================================================================
