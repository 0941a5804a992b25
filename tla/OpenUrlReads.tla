---------------------------- MODULE OpenUrlReads ----------------------------
(***************************************************************************)
(* Page reads of open_url (api/obscura_crawler_patch.py).  A call hands    *)
(* its URLs to the threads of a pool and collects the results until        *)
(* shortly before its deadline.  The workers of all calls share the        *)
(* browser slots, outlive a collection that expired, and must then get no  *)
(* permission for a navigation or a result any more.                       *)
(*                                                                         *)
(* Time is counted in ticks.  A fetch and the parsing of a page yield      *)
(* content or a failure.  A fetch keeps its time limit; parsing has none,  *)
(* nor is it known to end.                                                 *)
(***************************************************************************)
EXTENDS Naturals, FiniteSets

CONSTANTS
    Calls, Urls,
    Workers,        \* <<c, u>> if call c is to read u
    Pool,           \* threads of a call, min(max_workers, len(urls))
    Slots,          \* DIRECT_OBSCURA_MAX_WORKERS
    Budget,         \* OPEN_URL_TIMEOUT_SECONDS
    Attempt,        \* BROWSER_ATTEMPT_TIMEOUT_SECONDS
    Headroom        \* RESULT_COLLECTION_HEADROOM_SECONDS

ASSUME BoundsAssumption ==
    /\ Workers \subseteq Calls \X Urls /\ IsFiniteSet(Workers)
    /\ Pool \in Nat \ {0} /\ Slots \in Nat \ {0}
    /\ Budget \in Nat /\ Attempt \in Nat \ {0} /\ Headroom \in Nat

VARIABLES
    call,       \* per call: "idle", "running", "collecting", "expiring",
                \* "expired" or "collected"
    left,       \* per call, the time until its deadline
    finalized,  \* per call, InvocationState.finalized
    permits,    \* of ACTIVE_FETCHES
    at,         \* per worker, the step of its thread
    limit,      \* per worker, the time left for its browser attempt
    result,     \* per worker, what it returns, in its future once it is done
    report      \* per worker, what the collection says of its URL

vars == <<call, left, finalized, permits, at, limit, result, report>>

CallOf(w) == w[1]
WorkersOf(c) == {w \in Workers : CallOf(w) = c}
Holding ==
    {w \in Workers :
        at[w] \in {"check", "guard", "navigate", "fetch", "parse", "content"}}

PermitsNavigation(c) == ~finalized[c] /\ left[c] > 0

Init ==
    /\ call = [c \in Calls |-> "idle"]
    /\ left = [c \in Calls |-> Budget]
    /\ finalized = [c \in Calls |-> FALSE]
    /\ permits = Slots
    /\ at = [w \in Workers |-> "idle"]
    /\ limit = [w \in Workers |-> 0]
    /\ result = [w \in Workers |-> "none"]
    /\ report = [w \in Workers |-> "none"]

-----------------------------------------------------------------------------
(* A call of the tool.                                                      *)

Run(c) ==
    /\ call[c] = "idle"
    /\ call' = [call EXCEPT ![c] = "running"]
    /\ UNCHANGED <<left, finalized, permits, at, limit, result, report>>

Submit(c) ==
    /\ call[c] = "running"
    /\ call' = [call EXCEPT ![c] = "collecting"]
    /\ at' = [w \in Workers |-> IF CallOf(w) = c THEN "queued" ELSE at[w]]
    /\ UNCHANGED <<left, finalized, permits, limit, result, report>>

(* The results there are when the wait ends.                                *)
Reported(c) ==
    [w \in Workers |->
        IF CallOf(w) = c /\ at[w] = "done" THEN result[w] ELSE report[w]]

Pending(c) == {w \in WorkersOf(c) : at[w] # "done"}

Collect(c) ==
    /\ call[c] = "collecting" /\ Pending(c) = {}
    /\ call' = [call EXCEPT ![c] = "collected"]
    /\ report' = Reported(c)
    /\ UNCHANGED <<left, finalized, permits, at, limit, result>>

Expire(c) ==
    /\ call[c] = "collecting" /\ Pending(c) # {} /\ left[c] <= Headroom
    /\ call' = [call EXCEPT ![c] = "expiring"]
    /\ report' = Reported(c)
    /\ UNCHANGED <<left, finalized, permits, at, limit, result>>

(* Mutant of FinishExpired.                                                 *)
FinishExpiredLater(c) ==
    /\ call[c] = "expiring"
    /\ call' = [call EXCEPT ![c] = "expired"]
    /\ UNCHANGED <<left, finalized, permits, at, limit, result, report>>

FinishExpired(c) ==
    /\ call[c] = "expiring"
    /\ call' = [call EXCEPT ![c] = "expired"]
    /\ finalized' = [finalized EXCEPT ![c] = TRUE]
    /\ UNCHANGED <<left, permits, at, limit, result, report>>

(* Only a future whose thread has not begun can be cancelled.               *)
Cancel(c) ==
    /\ call[c] = "expired"
    /\ call' = [call EXCEPT ![c] = "collected"]
    /\ at' = [w \in Workers |->
                 IF CallOf(w) = c /\ at[w] = "queued" THEN "done" ELSE at[w]]
    /\ report' = [w \in Workers |->
                     IF CallOf(w) = c /\ report[w] = "none" THEN "late" ELSE report[w]]
    /\ UNCHANGED <<left, finalized, permits, limit, result>>

(* The timer at the deadline, or the return of the call.                    *)
Finish(c) ==
    /\ call[c] # "idle" /\ ~finalized[c]
    /\ left[c] = 0 \/ call[c] = "collected"
    /\ finalized' = [finalized EXCEPT ![c] = TRUE]
    /\ UNCHANGED <<call, left, permits, at, limit, result, report>>

-----------------------------------------------------------------------------
(* A worker.                                                                *)

Goto(w, step) ==
    /\ at' = [at EXCEPT ![w] = step]
    /\ UNCHANGED <<call, left, finalized, report>>

Start(w) ==
    /\ at[w] = "queued"
    /\ Cardinality({v \in WorkersOf(CallOf(w)) : at[v] \notin {"queued", "done"}}) < Pool
    /\ Goto(w, "acquire")
    /\ UNCHANGED <<permits, limit, result>>

Acquire(w) ==
    /\ at[w] = "acquire" /\ permits > 0
    /\ permits' = permits - 1
    /\ Goto(w, "check")
    /\ UNCHANGED <<limit, result>>

AcquireTimesOut(w) ==
    /\ at[w] = "acquire" /\ permits = 0 /\ left[CallOf(w)] = 0
    /\ result' = [result EXCEPT ![w] = "failure"]
    /\ Goto(w, "done")
    /\ UNCHANGED <<permits, limit>>

(* Whatever a worker that holds a slot yields, it gives the slot back; its  *)
(* future has the value later.                                              *)
Yield(w, value) ==
    /\ result' = [result EXCEPT ![w] = value]
    /\ permits' = permits + 1
    /\ limit' = [limit EXCEPT ![w] = 0]
    /\ Goto(w, "leaving")

Publish(w) ==
    /\ at[w] = "leaving"
    /\ Goto(w, "done")
    /\ UNCHANGED <<permits, limit, result>>

AttemptTime(c) ==
    IF left[c] <= Headroom THEN 0
    ELSE IF Attempt < left[c] - Headroom THEN Attempt ELSE left[c] - Headroom

(* Mutant of Check: a call without time left keeps the slot.                *)
CheckBeforeTry(w) ==
    LET c == CallOf(w)
    IN  /\ at[w] = "check"
        /\ \/ /\ ~PermitsNavigation(c)
              /\ result' = [result EXCEPT ![w] = "failure"]
              /\ Goto(w, "done")
              /\ UNCHANGED <<permits, limit>>
           \/ PermitsNavigation(c) /\ AttemptTime(c) = 0 /\ Yield(w, "failure")
           \/ /\ PermitsNavigation(c) /\ AttemptTime(c) > 0
              /\ limit' = [limit EXCEPT ![w] = AttemptTime(c)]
              /\ Goto(w, "guard")
              /\ UNCHANGED <<permits, result>>

Check(w) ==
    LET c == CallOf(w)
        permitted == PermitsNavigation(c) /\ AttemptTime(c) > 0
    IN  /\ at[w] = "check"
        /\ \/ ~permitted /\ Yield(w, "failure")
           \/ /\ permitted
              /\ limit' = [limit EXCEPT ![w] = AttemptTime(c)]
              /\ Goto(w, "guard")
              /\ UNCHANGED <<permits, result>>

(* The browser is ready, and the guard permits the navigation.              *)
Permit(w) ==
    /\ at[w] = "guard" /\ limit[w] > 0 /\ PermitsNavigation(CallOf(w))
    /\ Goto(w, "navigate")
    /\ UNCHANGED <<permits, limit, result>>

(* The navigation that was permitted starts, whatever has happened since.   *)
Navigate(w) ==
    /\ at[w] = "navigate"
    /\ Goto(w, "fetch")
    /\ UNCHANGED <<permits, limit, result>>

(* The setup, the guard or the fetch fails, at the latest when its time is  *)
(* over.                                                                    *)
AttemptFails(w) ==
    /\ at[w] \in {"guard", "navigate", "fetch"}
    /\ Yield(w, "failure")

Fetched(w) ==
    /\ at[w] = "fetch" /\ limit[w] > 0
    /\ \/ ~PermitsNavigation(CallOf(w)) /\ Yield(w, "failure")
       \/ /\ PermitsNavigation(CallOf(w))
          /\ limit' = [limit EXCEPT ![w] = 0]
          /\ Goto(w, "parse")
          /\ UNCHANGED <<permits, result>>

Parsed(w) ==
    /\ at[w] = "parse"
    /\ \/ Yield(w, "failure")
       \/ /\ PermitsNavigation(CallOf(w))
          /\ Goto(w, "content")
          /\ UNCHANGED <<permits, limit, result>>

(* The content that was permitted is returned, whatever has happened since. *)
Deliver(w) == at[w] = "content" /\ Yield(w, "content")

-----------------------------------------------------------------------------
Tick ==
    /\ \E c \in Calls : call[c] # "idle" /\ left[c] > 0
    /\ left' = [c \in Calls |->
                   IF call[c] = "idle" \/ left[c] = 0 THEN left[c] ELSE left[c] - 1]
    /\ limit' = [w \in Workers |-> IF limit[w] = 0 THEN 0 ELSE limit[w] - 1]
    /\ UNCHANGED <<call, finalized, permits, at, result, report>>

CallStep(c) ==
    Submit(c) \/ Collect(c) \/ Expire(c) \/ FinishExpired(c) \/ Cancel(c) \/ Finish(c)

(* What a worker does without the browser and the page.                     *)
OwnStep(w) ==
    \/ Start(w) \/ Acquire(w) \/ AcquireTimesOut(w) \/ Check(w)
    \/ Deliver(w) \/ Publish(w)

WorkerStep(w) ==
    \/ OwnStep(w) \/ Permit(w) \/ Navigate(w) \/ AttemptFails(w)
    \/ Fetched(w) \/ Parsed(w)

(* Every call has returned, and what still runs is parsed for ever.         *)
Over ==
    /\ \A c \in Calls : call[c] = "collected" /\ finalized[c] /\ left[c] = 0
    /\ \A w \in Workers : at[w] \in {"parse", "done"}
    /\ UNCHANGED vars

Next ==
    \/ \E c \in Calls : Run(c) \/ CallStep(c)
    \/ \E w \in Workers : WorkerStep(w)
    \/ Tick \/ Over

(* Threads run, time passes and a fetch ends by its limit.                  *)
Fairness ==
    /\ WF_vars(Tick)
    /\ \A c \in Calls : WF_vars(CallStep(c))
    /\ \A w \in Workers : WF_vars(OwnStep(w)) /\ WF_vars(limit[w] = 0 /\ AttemptFails(w))

Spec == Init /\ [][Next]_vars /\ Fairness

-----------------------------------------------------------------------------
TypeOK ==
    /\ call \in [Calls -> {"idle", "running", "collecting", "expiring", "expired", "collected"}]
    /\ left \in [Calls -> 0..Budget] /\ limit \in [Workers -> 0..Attempt]
    /\ at \in [Workers -> {"idle", "queued", "acquire", "check", "guard", "navigate",
                           "fetch", "parse", "content", "leaving", "done"}]
    /\ permits \in 0..Slots

(* No way out of a worker keeps its slot or gives it back twice.            *)
SlotsKept == permits + Cardinality(Holding) = Slots

(* The browser attempts of a call end before its collection does, so that   *)
(* a slow page is reported with its own reason (attempt_timeout).           *)
AttemptsFit ==
    \A w \in Workers : limit[w] > 0 => limit[w] + Headroom <= left[CallOf(w)]

(* Whoever reads the results finds one for each URL, that of its worker, or *)
(* that it came too late.  A worker that was cancelled holds none, and one  *)
(* reported late yields content only if it ended as the collection did.     *)
ReportsTrue ==
    \A w \in Workers : call[CallOf(w)] = "collected" =>
        /\ at[w] # "queued"
        /\ report[w] \in {"content", "failure"} => report[w] = result[w]
        /\ report[w] # "none"
        /\ report[w] = "late" => left[CallOf(w)] <= Headroom

ReadsSound == TypeOK /\ SlotsKept /\ AttemptsFit /\ ReportsTrue

(* Nothing is permitted after a collection: a worker that outlives it does  *)
(* at most what it was permitted before, start that one navigation or       *)
(* return that one content, and content only if its last check came before  *)
(* (permits_navigation, which reads the flag that the collection sets       *)
(* before it returns; the guard and the last check of _direct_fetch).       *)
NothingAfterwards ==
    [][\A w \in Workers :
          call[CallOf(w)] \in {"expired", "collected"} =>
              /\ at'[w] \in {"navigate", "parse", "content"} => at'[w] = at[w]
              /\ at'[w] = "fetch" => at[w] \in {"navigate", "fetch"}
              /\ result'[w] = "content" => result[w] = "content" \/ at[w] = "content"]_vars

(* However long a page is parsed, every collection ends, and every worker   *)
(* gives up its wait for a slot and its attempt in time.                    *)
ReadsEnd ==
    /\ \A c \in Calls : call[c] = "running" ~> call[c] = "collected" /\ finalized[c]
    /\ \A w \in Workers : at[w] = "queued" ~> at[w] \in {"parse", "done"}
=============================================================================
