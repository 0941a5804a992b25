--------------------------- MODULE ProviderSession ---------------------------
(***************************************************************************)
(* The retained browser session of one search provider.                    *)
(*                                                                         *)
(* _ProviderBrowserSession (searxng/engines/_obscura.py) keeps one         *)
(* connection and one target per provider between searches and closes them *)
(* after an idle hour.  The coroutines of the engine thread, the idle      *)
(* timer's callback and the expiry task run on one event loop: an action   *)
(* here is what runs between two awaits.  The engine thread that holds the *)
(* provider's lease is the only client.  A transaction ends by retaining   *)
(* the session (parked target), by closing it (an ambiguous outcome), or   *)
(* with a pending Anubis continuation, which the client solves outside the *)
(* loop and then resumes or aborts.  Providers without Anubis have a       *)
(* subset of these behaviours.                                             *)
(***************************************************************************)
EXTENDS Integers

CONSTANTS
    Sessions,     \* SearchBrowserSession objects the client may create
    MaxAttempts,  \* bound on the attempts, hence on _generation
    Idle,         \* idle_seconds in ticks
    NONE

ASSUME IdleAssumption == Idle \in Nat \ {0}
ASSUME AttemptsAssumption == MaxAttempts \in Nat
ASSUME NoSessionAssumption == NONE \notin Sessions \cup Nat
ASSUME SessionNamesAssumption == Sessions \cap {"none", "created", "done"} = {}

Generations == 0..MaxAttempts

VARIABLES
    session,     \* _session
    generation,  \* _generation
    handle,      \* _idle_handle, named by the generation it was armed for
    timer,       \* timer[g]: ticks left of g's scheduled callback, or NONE
    expiryTask,  \* _expiry_task, named by the generation it expires
    expire,      \* expire[g]: what the _expire task of g is doing
    conn,        \* conn[i]: the connection of session object i
    lost,        \* connections the peer dropped without the owner knowing
    pending,     \* pending[i]: the continuation token kept by i
    client,      \* what the client waits for
    own          \* the session object, or expiry task, of that wait

loopVars == <<handle, timer, expiryTask, expire>>
sessionVars == <<conn, lost, pending>>
vars == <<session, generation, loopVars, sessionVars, client, own>>

ClientSteps == {"idle", "entering", "expiring", "awaiting", "transacting",
                "abandoning", "solving", "resuming", "resumed", "aborting",
                "aborted", "close", "closewaiting", "closing"}

TypeOK ==
    /\ session \in Sessions \cup {NONE}
    /\ generation \in Generations
    /\ handle \in Generations \cup {NONE}
    /\ timer \in [Generations -> (0..Idle) \cup {NONE}]
    /\ expiryTask \in Generations \cup {NONE}
    /\ expire \in [Generations -> {"none", "created", "done"} \cup Sessions]
    /\ conn \in [Sessions -> {"unborn", "none", "open", "closing", "closed"}]
    /\ lost \subseteq Sessions
    /\ pending \in [Sessions -> Generations \cup {NONE}]
    /\ client \in ClientSteps
    /\ own \in Sessions \cup Generations \cup {NONE}

Init ==
    /\ session = NONE
    /\ generation = 0
    /\ handle = NONE
    /\ timer = [g \in Generations |-> NONE]
    /\ expiryTask = NONE
    /\ expire = [g \in Generations |-> "none"]
    /\ conn = [i \in Sessions |-> "unborn"]
    /\ lost = {}
    /\ pending = [i \in Sessions |-> NONE]
    /\ client = "idle"
    /\ own = NONE

-----------------------------------------------------------------------------
(* SearchBrowserSession.close forgets the continuation, then closes the    *)
(* target and the connection, both over the network.                       *)
CloseOwner(i) ==
    /\ conn' = [conn EXCEPT ![i] = "closing"]
    /\ pending' = [pending EXCEPT ![i] = NONE]
    /\ UNCHANGED lost

(* Disarm the timer that _idle_handle refers to.                           *)
CancelTimer ==
    /\ handle' = NONE
    /\ timer' = IF handle = NONE THEN timer ELSE [timer EXCEPT ![handle] = NONE]

(* Mutant of Finish: an emptied owner is kept.                             *)
FinishKeepingOwner ==
    IF pending'[own] # NONE
    THEN handle' = NONE /\ UNCHANGED <<session, timer>>
    ELSE /\ handle' = generation
         /\ timer' = [timer EXCEPT ![generation] = Idle]
         /\ UNCHANGED session

(* The finally block of _run_submit and _run_resume: a session that keeps  *)
(* its connection gets an idle timer unless a continuation is pending; an  *)
(* emptied owner is dropped.                                               *)
Finish ==
    IF pending'[own] # NONE
    THEN handle' = NONE /\ UNCHANGED <<session, timer>>
    ELSE IF conn'[own] = "open"
    THEN /\ handle' = generation
         /\ timer' = [timer EXCEPT ![generation] = Idle]
         /\ UNCHANGED session
    ELSE /\ session' = IF session = own THEN NONE ELSE session
         /\ UNCHANGED <<handle, timer>>

(* What _run_submit does once nothing is left to expire.                   *)
BeginTransaction(current) ==
    /\ generation' = generation + 1
    /\ \/ current # NONE /\ session' = current /\ UNCHANGED conn
       \/ current = NONE /\ \E i \in Sessions :
              /\ conn[i] = "unborn"
              /\ conn' = [conn EXCEPT ![i] = "none"]
              /\ session' = i
    /\ own' = session'
    /\ client' = "transacting"
    /\ UNCHANGED <<lost, pending>>

(* An expiry task under way is awaited before anything else is opened.     *)
AwaitExpiry ==
    /\ own' = expiryTask
    /\ client' = "awaiting"
    /\ UNCHANGED <<session, generation, sessionVars>>

(* Mutant of JoinExpiryThenBegin: the expiry task is not awaited.          *)
BeginWithoutJoining(current) == BeginTransaction(current)

JoinExpiryThenBegin(current) ==
    IF expiryTask # NONE THEN AwaitExpiry ELSE BeginTransaction(current)

-----------------------------------------------------------------------------
(* The client: a submission.                                               *)

Submit ==
    /\ client = "idle"
    /\ generation < MaxAttempts
    /\ client' = "entering"
    /\ UNCHANGED <<session, generation, loopVars, sessionVars, own>>

(* The armed timer is cancelled.  If its deadline has been reached all the *)
(* same, the session is expired here and now.                              *)
EnterSubmit ==
    /\ client = "entering"
    /\ CancelTimer
    /\ IF handle # NONE /\ timer[handle] = 0 /\ session # NONE
       THEN /\ CloseOwner(session)
            /\ own' = session
            /\ session' = NONE
            /\ client' = "expiring"
            /\ UNCHANGED generation
       ELSE JoinExpiryThenBegin(session)
    /\ UNCHANGED <<expiryTask, expire>>

ExpiredNow ==
    /\ client = "expiring"
    /\ conn[own] = "closed"
    /\ JoinExpiryThenBegin(session)
    /\ UNCHANGED loopVars

(* Mutant of AwaitedExpiry: the field is awaited, not the task it held.    *)
AwaitedExpiryField ==
    /\ client = "awaiting"
    /\ expiryTask # NONE
    /\ expire[expiryTask] = "done"
    /\ BeginTransaction(session)
    /\ UNCHANGED loopVars

AwaitedExpiry ==
    /\ client = "awaiting"
    /\ expire[own] = "done"
    /\ BeginTransaction(session)
    /\ UNCHANGED loopVars

(* ensure_connected connects whatever owner has no websocket.              *)
Connect ==
    /\ client = "transacting"
    /\ pending[own] = NONE
    /\ conn[own] \in {"none", "closed"}
    /\ conn' = [conn EXCEPT ![own] = "open"]
    /\ lost' = lost \ {own}
    /\ UNCHANGED <<session, generation, loopVars, pending, client, own>>

ConnectFails ==
    /\ client = "transacting"
    /\ pending[own] = NONE
    /\ conn[own] \in {"none", "closed"}
    /\ conn' = [conn EXCEPT ![own] = "closed"]
    /\ UNCHANGED <<lost, pending, generation, expiryTask, expire>>
    /\ Finish
    /\ client' = "idle"
    /\ own' = NONE

(* The owner is left as it is: parked after a result or a failure that     *)
(* leaves the target usable; or untouched, because submit_search refuses   *)
(* an owner with a pending continuation before it does anything.           *)
Retain ==
    /\ client \in {"transacting", "resumed"}
    /\ \/ pending[own] # NONE
       \/ conn[own] = "open" /\ own \notin lost
    /\ UNCHANGED <<sessionVars, generation, expiryTask, expire>>
    /\ Finish
    /\ client' = "idle"
    /\ own' = NONE

(* Anything else, a failed parking included, closes the owner.             *)
Abandon ==
    /\ client \in {"transacting", "resumed"}
    /\ pending[own] = NONE
    /\ conn[own] = "open"
    /\ CloseOwner(own)
    /\ client' = "abandoning"
    /\ UNCHANGED <<session, generation, loopVars, own>>

Abandoned ==
    /\ client = "abandoning"
    /\ conn[own] = "closed"
    /\ UNCHANGED <<sessionVars, generation, expiryTask, expire>>
    /\ Finish
    /\ client' = "idle"
    /\ own' = NONE

-----------------------------------------------------------------------------
(* The client: an Anubis continuation.                                     *)

(* The homepage or the result asked for a proof.                           *)
Challenge ==
    /\ client = "transacting"
    /\ pending[own] = NONE
    /\ conn[own] = "open"
    /\ own \notin lost
    /\ pending' = [pending EXCEPT ![own] = generation]
    /\ UNCHANGED <<conn, lost, generation, expiryTask, expire, own>>
    /\ Finish
    /\ client' = "solving"

Solved ==
    /\ client = "solving"
    /\ client' \in {"resuming", "aborting"}
    /\ UNCHANGED <<session, generation, loopVars, sessionVars, own>>

(* The token the client holds is that of its own attempt.                  *)
TokenMatches == pending[session] = generation

(* A wrong token, or a solution that does not validate, closes the owner;  *)
(* without a session there is nothing to resume.                           *)
EnterResume ==
    /\ client = "resuming"
    /\ own' = session
    /\ IF session = NONE THEN client' = "idle" /\ UNCHANGED sessionVars
       ELSE \/ /\ TokenMatches
               /\ pending' = [pending EXCEPT ![session] = NONE]
               /\ client' = "resumed"
               /\ UNCHANGED <<conn, lost>>
            \/ /\ CloseOwner(session)
               /\ client' = "abandoning"
    /\ UNCHANGED <<session, generation, loopVars>>

(* With the right token or without, the owner is closed.                   *)
EnterAbort ==
    /\ client = "aborting"
    /\ own' = session
    /\ IF session = NONE THEN client' = "idle" /\ UNCHANGED sessionVars
       ELSE CloseOwner(session) /\ client' = "aborted"
    /\ UNCHANGED <<session, generation, loopVars>>

Aborted ==
    /\ client = "aborted"
    /\ conn[own] = "closed"
    /\ session' = IF session = own THEN NONE ELSE session
    /\ client' = "idle"
    /\ own' = NONE
    /\ UNCHANGED <<generation, loopVars, sessionVars>>

-----------------------------------------------------------------------------
(* The client: close.                                                      *)

Close ==
    /\ client = "idle"
    /\ session # NONE \/ handle # NONE \/ expiryTask # NONE
    /\ client' = "close"
    /\ UNCHANGED <<session, generation, loopVars, sessionVars, own>>

CloseCurrent ==
    IF session = NONE
    THEN client' = "idle" /\ own' = NONE /\ UNCHANGED <<session, sessionVars>>
    ELSE /\ CloseOwner(session)
         /\ own' = session
         /\ session' = NONE
         /\ client' = "closing"

EnterClose ==
    /\ client = "close"
    /\ CancelTimer
    /\ IF expiryTask # NONE
       THEN /\ own' = expiryTask
            /\ client' = "closewaiting"
            /\ UNCHANGED <<session, sessionVars>>
       ELSE CloseCurrent
    /\ UNCHANGED <<generation, expiryTask, expire>>

CloseAfterExpiry ==
    /\ client = "closewaiting"
    /\ expire[own] = "done"
    /\ CloseCurrent
    /\ UNCHANGED <<generation, loopVars>>

Closed ==
    /\ client = "closing"
    /\ conn[own] = "closed"
    /\ client' = "idle"
    /\ own' = NONE
    /\ UNCHANGED <<session, generation, loopVars, sessionVars>>

-----------------------------------------------------------------------------
(* The event loop: the idle timer and the expiry task.                     *)

BeginExpiry(g) ==
    /\ timer[g] = 0
    /\ timer' = [timer EXCEPT ![g] = NONE]
    /\ handle' = NONE
    /\ expiryTask' = g
    /\ expire' = [expire EXCEPT ![g] = "created"]
    /\ UNCHANGED <<session, generation, sessionVars, client, own>>

(* A timer of an earlier generation expires nothing.                       *)
Expire(g) ==
    /\ expire[g] = "created"
    /\ IF g # generation \/ session = NONE
       THEN /\ expire' = [expire EXCEPT ![g] = "done"]
            /\ UNCHANGED <<session, handle, sessionVars>>
       ELSE /\ expire' = [expire EXCEPT ![g] = session]
            /\ session' = NONE
            /\ handle' = NONE
            /\ CloseOwner(session)
    /\ UNCHANGED <<generation, timer, expiryTask, client, own>>

Expired(g) ==
    /\ expire[g] \in Sessions
    /\ conn[expire[g]] = "closed"
    /\ expire' = [expire EXCEPT ![g] = "done"]
    /\ UNCHANGED <<session, generation, handle, timer, expiryTask,
                   sessionVars, client, own>>

(* The done callback of the task.                                          *)
ClearExpiryTask ==
    /\ expiryTask # NONE
    /\ expire[expiryTask] = "done"
    /\ expiryTask' = NONE
    /\ UNCHANGED <<session, generation, handle, timer, expire, sessionVars,
                   client, own>>

-----------------------------------------------------------------------------
(* The environment.                                                        *)

ConnectionCloses(i) ==
    /\ conn[i] = "closing"
    /\ conn' = [conn EXCEPT ![i] = "closed"]
    /\ UNCHANGED <<session, generation, loopVars, lost, pending, client, own>>

ConnectionLost(i) ==
    /\ conn[i] = "open"
    /\ lost' = lost \cup {i}
    /\ UNCHANGED <<session, generation, loopVars, conn, pending, client, own>>

Tick ==
    /\ \E g \in Generations : timer[g] \notin {0, NONE}
    /\ timer' = [g \in Generations |->
                    IF timer[g] \in {0, NONE} THEN timer[g] ELSE timer[g] - 1]
    /\ UNCHANGED <<session, generation, handle, expiryTask, expire,
                   sessionVars, client, own>>

(* Nothing is retained and the bound on the attempts is reached.           *)
Exhausted ==
    /\ client = "idle"
    /\ generation = MaxAttempts
    /\ session = NONE
    /\ expiryTask = NONE
    /\ UNCHANGED vars

ClientStep ==
    \/ EnterSubmit \/ ExpiredNow \/ AwaitedExpiry \/ Connect \/ ConnectFails
    \/ Retain \/ Abandon \/ Abandoned
    \/ Challenge \/ Solved \/ EnterResume \/ EnterAbort \/ Aborted
    \/ EnterClose \/ CloseAfterExpiry \/ Closed

ExpiryStep(g) == BeginExpiry(g) \/ Expire(g) \/ Expired(g)

Next ==
    \/ Submit \/ Close \/ ClientStep
    \/ \E g \in Generations : ExpiryStep(g)
    \/ ClearExpiryTask
    \/ \E i \in Sessions : ConnectionCloses(i) \/ ConnectionLost(i)
    \/ Tick
    \/ Exhausted

Spec == Init /\ [][Next]_vars

(* The loop runs what is scheduled, closing a connection has a timeout     *)
(* (cleanup_command_timeout_seconds, close_timeout), the transaction and   *)
(* the solver have deadlines.                                              *)
FairSpec ==
    /\ Spec
    /\ WF_vars(ClientStep)
    /\ \A g \in Generations : WF_vars(ExpiryStep(g))
    /\ WF_vars(ClearExpiryTask)
    /\ \A i \in Sessions : WF_vars(ConnectionCloses(i))
    /\ WF_vars(Tick)
-----------------------------------------------------------------------------
(* Safety.                                                                 *)

(* A provider never holds two connection slots: the replacement is opened  *)
(* only when the close of the old connection has finished (_run_submit,    *)
(* the comment on the expiry boundary).                                    *)
OneConnection ==
    \A i, j \in Sessions :
        conn[i] \in {"open", "closing"} /\ conn[j] \in {"open", "closing"} => i = j

(* While a transaction or the solving of a challenge is under way its      *)
(* session is the current one, nobody is closing it, and no idle timer or  *)
(* expiry task is left that could.                                         *)
UsedSessionIsSafe ==
    client \in {"transacting", "resumed", "solving", "resuming", "aborting"} =>
        /\ session = own
        /\ conn[own] # "closing"
        /\ \A g \in Generations : timer[g] = NONE
        /\ \A g \in Generations : expire[g] \in {"none", "done"}

(* A continuation token lives exactly as long as the attempt that got it:  *)
(* the client finds its own token, and no token is left behind to make     *)
(* submit_search refuse the session for ever.                              *)
TokenKept ==
    /\ client \in {"solving", "resuming", "aborting"} =>
          own \in Sessions /\ pending[own] = generation
    /\ \A i \in Sessions : pending[i] # NONE =>
          client \in {"solving", "resuming", "aborting"} /\ own = i

(* The retained session is sound: one connection, never taken from under   *)
(* its user, and a continuation token exactly while it is needed           *)
(* (_ProviderBrowserSession, submit_search and resume_anubis_pow).         *)
SessionSafe == TypeOK /\ OneConnection /\ UsedSessionIsSafe /\ TokenKept

(* A closed session object is never connected again: a fresh connection    *)
(* always comes with a fresh owner (the discarding in the finally blocks). *)
NeverReconnected ==
    [][\A i \in Sessions : conn[i] = "closed" => conn'[i] = "closed"]_vars

-----------------------------------------------------------------------------
(* Liveness.                                                               *)

(* A retained session is closed unless another attempt comes first.        *)
IdleSessionCloses ==
    client = "idle" /\ session # NONE ~> client # "idle" \/ session = NONE

(* No attempt waits for ever for an expiry or a close.                     *)
AttemptsEnd == client # "idle" ~> client = "idle"

(* Neither the expiry nor the attempts wait for each other for ever        *)
(* (_begin_expiry, _run_submit).                                           *)
SessionProgresses == IdleSessionCloses /\ AttemptsEnd
=============================================================================
