--------------------------- MODULE EmbedLifecycle ---------------------------
(***************************************************************************)
(* The lifecycle proxy of the bundled embedding server                     *)
(* (embedserv/idle_embedding_proxy.py).                                    *)
(*                                                                         *)
(* A heavy child process is started by the first request that needs it,    *)
(* shared by the requests that follow, stopped by the reaper thread after  *)
(* an idle period, and stopped for good at shutdown.  Request threads, the *)
(* reaper and the main thread share the Lifecycle object under one         *)
(* condition; starting, probing, signalling and waiting for the child      *)
(* happen outside it.  An action is a critical section of that condition,  *)
(* or a step outside it.  Child processes bind their port late or never,   *)
(* crash at any time, and take their time to exit.                         *)
(***************************************************************************)
EXTENDS Integers, FiniteSets

CONSTANTS
    Requests,   \* POST requests that reach the proxy
    Children,   \* bound on the child processes that can be launched
    Slots,      \* MAX_ACTIVE_CONNECTIONS
    Idle,       \* idle_seconds in ticks
    NONE

ASSUME RequestsAssumption == IsFiniteSet(Requests)
ASSUME SlotsAssumption == Slots \in Nat \ {0}
ASSUME IdleTicksAssumption == Idle \in Nat
ASSUME NoChildAssumption == NONE \notin Children

VARIABLES
    child,      \* _child
    starting,   \* _starting
    stopping,   \* _stopping
    active,     \* _active
    idleFor,    \* ticks since _last_completed
    closed,     \* _closed
    shutdown,   \* _shutdown_requested, set together with the reaper's stop
    slots,      \* free _request_slots
    pc,         \* pc[r]: where the thread of request r is
    mine,       \* mine[r]: the child r launched or forwards to
    proc,       \* proc[c]: what the child process c is doing
    signalled,  \* children that got SIGTERM from the proxy
    reaper,     \* where the reaper thread is
    victim,     \* the child it stops
    main,       \* where the main thread is
    last        \* the child it stops

flags == <<starting, stopping, closed, shutdown>>
threads == <<reaper, victim, main, last>>
vars == <<child, flags, active, idleFor, slots, pc, mine, proc, signalled, threads>>

RequestSteps == {"none", "reading", "begin", "waiting", "launch", "loading", "publish",
                 "failed", "terminate", "awaiting", "forward", "done"}
ProcSteps == {"unborn", "loading", "hung", "listening", "quitting", "exited"}
ReaperSteps == {"sleep", "check", "kill", "awaiting", "raised", "dead"}
MainSteps == {"serving", "signalled", "draining", "closing", "awaiting", "exit"}

TypeOK ==
    /\ child \in Children \cup {NONE}
    /\ {starting, stopping, closed, shutdown} \subseteq BOOLEAN
    /\ active \in 0..Cardinality(Requests)
    /\ idleFor \in 0..Idle
    /\ slots \in 0..Slots
    /\ pc \in [Requests -> RequestSteps]
    /\ mine \in [Requests -> Children \cup {NONE}]
    /\ proc \in [Children -> ProcSteps]
    /\ signalled \subseteq Children
    /\ reaper \in ReaperSteps
    /\ victim \in Children \cup {NONE}
    /\ main \in MainSteps
    /\ last \in Children \cup {NONE}

Init ==
    /\ child = NONE
    /\ starting = FALSE /\ stopping = FALSE
    /\ closed = FALSE /\ shutdown = FALSE
    /\ active = 0
    /\ idleFor = 0
    /\ slots = Slots
    /\ pc = [r \in Requests |-> "none"]
    /\ mine = [r \in Requests |-> NONE]
    /\ proc = [c \in Children |-> "unborn"]
    /\ signalled = {}
    /\ reaper = "sleep"
    /\ victim = NONE
    /\ main = "serving"
    /\ last = NONE

Live(c) == proc[c] \notin {"unborn", "exited"}

(* The child as begin_request sees it: an exited one is forgotten.         *)
Polled == IF child # NONE /\ ~Live(child) THEN NONE ELSE child

-----------------------------------------------------------------------------
(* Request threads.                                                        *)

Goto(r, step) == pc' = [pc EXCEPT ![r] = step]

(* r moves on and notify_all wakes those that wait on the condition.       *)
GotoNotifying(r, step) ==
    pc' = [q \in Requests |->
              IF q = r THEN step
              ELSE IF pc[q] = "waiting" THEN "begin" ELSE pc[q]]

NotifyAll == pc' = [q \in Requests |-> IF pc[q] = "waiting" THEN "begin" ELSE pc[q]]

(* A connection without a free slot is closed unanswered.                  *)
Arrive(r) ==
    /\ pc[r] = "none"
    /\ main \in {"serving", "signalled"}
    /\ IF slots = 0 THEN Goto(r, "done") /\ UNCHANGED slots
                    ELSE Goto(r, "reading") /\ slots' = slots - 1
    /\ UNCHANGED <<child, flags, active, idleFor, mine, proc, signalled, threads>>

(* The body is read; a malformed request is answered at once.              *)
ReadBody(r) ==
    /\ pc[r] = "reading"
    /\ \/ Goto(r, "begin") /\ UNCHANGED slots
       \/ Goto(r, "done") /\ slots' = slots + 1
    /\ UNCHANGED <<child, flags, active, idleFor, mine, proc, signalled, threads>>

(* begin_request raises while the proxy shuts down, unless there is a      *)
(* child to use.                                                           *)
Refuse(r) ==
    /\ pc[r] = "begin"
    /\ \/ closed /\ UNCHANGED child
       \/ ~closed /\ shutdown /\ (Polled = NONE \/ stopping) /\ child' = Polled
    /\ Goto(r, "done")
    /\ slots' = slots + 1
    /\ UNCHANGED <<flags, active, idleFor, mine, proc, signalled, threads>>

BeginServed(r) ==
    /\ pc[r] = "begin"
    /\ ~closed
    /\ ~stopping
    /\ Polled # NONE
    /\ active' = active + 1
    /\ mine' = [mine EXCEPT ![r] = child]
    /\ Goto(r, "forward")
    /\ UNCHANGED <<child, flags, idleFor, slots, proc, signalled, threads>>

BeginWaits(r) ==
    /\ pc[r] = "begin"
    /\ ~closed /\ ~shutdown
    /\ Polled = NONE \/ stopping
    /\ starting \/ stopping
    /\ child' = Polled
    /\ Goto(r, "waiting")
    /\ UNCHANGED <<flags, active, idleFor, slots, mine, proc, signalled, threads>>

(* Mutant of BeginStarts: a child is started while the old one is stopped. *)
BeginStartsWhileStopping(r) ==
    /\ pc[r] = "begin"
    /\ ~closed /\ ~shutdown
    /\ Polled = NONE
    /\ ~starting
    /\ child' = NONE
    /\ starting' = TRUE
    /\ Goto(r, "launch")
    /\ UNCHANGED <<stopping, closed, shutdown, active, idleFor, slots, mine,
                   proc, signalled, threads>>

BeginStarts(r) ==
    /\ pc[r] = "begin"
    /\ ~closed /\ ~shutdown
    /\ Polled = NONE
    /\ ~starting /\ ~stopping
    /\ child' = NONE
    /\ starting' = TRUE
    /\ Goto(r, "launch")
    /\ UNCHANGED <<stopping, closed, shutdown, active, idleFor, slots, mine,
                   proc, signalled, threads>>

(* The port is probed, then the process is created: it may load, or hang   *)
(* before it ever listens.                                                 *)
Launch(r) ==
    /\ pc[r] = "launch"
    /\ \A c \in Children : proc[c] # "listening"
    /\ \E c \in Children, start \in {"loading", "hung"} :
        /\ proc[c] = "unborn"
        /\ proc' = [proc EXCEPT ![c] = start]
        /\ mine' = [mine EXCEPT ![r] = c]
    /\ Goto(r, "loading")
    /\ UNCHANGED <<child, flags, active, idleFor, slots, signalled, threads>>

(* The port is taken, or the process could not be created.                 *)
LaunchFails(r) ==
    /\ pc[r] = "launch"
    /\ Goto(r, "failed")
    /\ UNCHANGED <<child, flags, active, idleFor, slots, mine, proc, signalled,
                   threads>>

(* One turn of the startup loop: a listening child answers as it should,   *)
(* or with something else than the configured model.                       *)
Probe(r) ==
    /\ pc[r] = "loading"
    /\ \/ shutdown /\ Goto(r, "failed")
       \/ ~Live(mine[r]) /\ Goto(r, "failed")
       \/ proc[mine[r]] = "listening" /\ \E step \in {"publish", "failed"} : Goto(r, step)
    /\ UNCHANGED <<child, flags, active, idleFor, slots, mine, proc, signalled,
                   threads>>

(* The child is published, and its starter counted, before the notice.     *)
Publish(r) ==
    /\ pc[r] = "publish"
    /\ starting' = FALSE
    /\ child' = mine[r]
    /\ active' = active + 1
    /\ GotoNotifying(r, "forward")
    /\ UNCHANGED <<stopping, closed, shutdown, idleFor, slots, mine, proc,
                   signalled, threads>>

(* Mutant of FailStart: the waiters are not told.                          *)
FailStartSilently(r) ==
    /\ pc[r] = "failed"
    /\ starting' = FALSE
    /\ child' = NONE
    /\ IF mine[r] # NONE /\ Live(mine[r])
       THEN Goto(r, "terminate") /\ UNCHANGED slots
       ELSE Goto(r, "done") /\ slots' = slots + 1
    /\ UNCHANGED <<stopping, closed, shutdown, active, idleFor, mine, proc,
                   signalled, threads>>

(* The waiters are told before the failed child is stopped.                *)
FailStart(r) ==
    /\ pc[r] = "failed"
    /\ starting' = FALSE
    /\ child' = NONE
    /\ IF mine[r] # NONE /\ Live(mine[r])
       THEN GotoNotifying(r, "terminate") /\ UNCHANGED slots
       ELSE GotoNotifying(r, "done") /\ slots' = slots + 1
    /\ UNCHANGED <<stopping, closed, shutdown, active, idleFor, mine, proc,
                   signalled, threads>>

(* _terminate_child: SIGTERM, later SIGKILL, to the process group.         *)
Signal(c) == signalled' = IF Live(c) THEN signalled \cup {c} ELSE signalled

TerminateFailed(r) ==
    /\ pc[r] = "terminate"
    /\ Signal(mine[r])
    /\ Goto(r, "awaiting")
    /\ UNCHANGED <<child, flags, active, idleFor, slots, mine, proc, threads>>

TerminatedFailed(r) ==
    /\ pc[r] = "awaiting"
    /\ ~Live(mine[r])
    /\ Goto(r, "done")
    /\ slots' = slots + 1
    /\ UNCHANGED <<child, flags, active, idleFor, mine, proc, signalled, threads>>

(* The forwarded request was answered, failed or timed out.                *)
EndRequest(r) ==
    /\ pc[r] = "forward"
    /\ active' = active - 1
    /\ idleFor' = 0
    /\ GotoNotifying(r, "done")
    /\ slots' = slots + 1
    /\ UNCHANGED <<child, flags, mine, proc, signalled, threads>>

-----------------------------------------------------------------------------
(* The reaper thread.                                                      *)

ReaperWakes ==
    /\ reaper = "sleep"
    /\ ~shutdown
    /\ reaper' = "check"
    /\ UNCHANGED <<child, flags, active, idleFor, slots, pc, mine, proc,
                   signalled, victim, main, last>>

MayReap ==
    /\ child # NONE
    /\ active = 0
    /\ ~starting /\ ~stopping
    /\ idleFor = Idle

ReapSkips ==
    /\ reaper = "check"
    /\ ~MayReap
    /\ reaper' = "sleep"
    /\ UNCHANGED <<child, flags, active, idleFor, slots, pc, mine, proc,
                   signalled, victim, main, last>>

(* Mutant of ReapBegins: the child is taken away instead of being flagged. *)
ReapBeginsTaking ==
    /\ reaper = "check"
    /\ MayReap
    /\ child' = NONE
    /\ victim' = child
    /\ reaper' = IF Live(child) THEN "kill" ELSE "awaiting"
    /\ UNCHANGED <<flags, active, idleFor, slots, pc, mine, proc, signalled,
                   main, last>>

ReapBegins ==
    /\ reaper = "check"
    /\ MayReap
    /\ stopping' = TRUE
    /\ victim' = child
    /\ reaper' = IF Live(child) THEN "kill" ELSE "awaiting"
    /\ UNCHANGED <<child, starting, closed, shutdown, active, idleFor, slots,
                   pc, mine, proc, signalled, main, last>>

(* A child that exits between poll and killpg may make killpg raise.       *)
ReapSignals ==
    /\ reaper = "kill"
    /\ Signal(victim)
    /\ \/ reaper' = "awaiting"
       \/ ~Live(victim) /\ reaper' = "raised"
    /\ UNCHANGED <<child, flags, active, idleFor, slots, pc, mine, proc,
                   victim, main, last>>

(* The finally block; an exception then ends the reaper thread.            *)
ReapEnds ==
    /\ reaper \in {"awaiting", "raised"}
    /\ ~Live(victim)
    /\ child' = IF child = victim THEN NONE ELSE child
    /\ stopping' = FALSE
    /\ NotifyAll
    /\ victim' = NONE
    /\ reaper' = IF reaper = "raised" THEN "dead" ELSE "sleep"
    /\ UNCHANGED <<starting, closed, shutdown, active, idleFor, slots, mine,
                   proc, signalled, main, last>>

-----------------------------------------------------------------------------
(* The main thread.                                                        *)

(* The signal handler: stop the reaper, cancel a cold start, stop serving. *)
Sigterm ==
    /\ main = "serving"
    /\ shutdown' = TRUE
    /\ NotifyAll
    /\ main' = "signalled"
    /\ UNCHANGED <<child, starting, stopping, closed, active, idleFor, slots,
                   mine, proc, signalled, reaper, victim, last>>

StopServing ==
    /\ main = "signalled"
    /\ main' = "draining"
    /\ UNCHANGED <<child, flags, active, idleFor, slots, pc, mine, proc,
                   signalled, reaper, victim, last>>

(* server_close joins every request thread before the lifecycle closes.    *)
Drained ==
    /\ main = "draining"
    /\ \A r \in Requests : pc[r] \in {"none", "done"}
    /\ closed' = TRUE
    /\ main' = "closing"
    /\ UNCHANGED <<child, starting, stopping, shutdown, active, idleFor, slots,
                   pc, mine, proc, signalled, reaper, victim, last>>

ShutdownTakesChild ==
    /\ main = "closing"
    /\ active = 0 /\ ~starting /\ ~stopping
    /\ child' = NONE
    /\ last' = child
    /\ IF child = NONE THEN main' = "exit" /\ UNCHANGED signalled
                       ELSE main' = "awaiting" /\ Signal(child)
    /\ UNCHANGED <<flags, active, idleFor, slots, pc, mine, proc, reaper, victim>>

Exits ==
    /\ main = "awaiting"
    /\ ~Live(last)
    /\ main' = "exit"
    /\ UNCHANGED <<child, flags, active, idleFor, slots, pc, mine, proc,
                   signalled, reaper, victim, last>>

-----------------------------------------------------------------------------
(* Child processes and the clock.                                          *)

Listen(c) ==
    /\ proc[c] = "loading"
    /\ proc' = [proc EXCEPT ![c] =
                   IF \E d \in Children : proc[d] = "listening" THEN "exited"
                                                                ELSE "listening"]
    /\ UNCHANGED <<child, flags, active, idleFor, slots, pc, mine, signalled,
                   threads>>

(* A signalled child gives its port back before it has exited.             *)
Quit(c) ==
    /\ c \in signalled
    /\ Live(c)
    /\ proc' = [proc EXCEPT ![c] = IF @ = "quitting" THEN "exited" ELSE "quitting"]
    /\ UNCHANGED <<child, flags, active, idleFor, slots, pc, mine, signalled,
                   threads>>

Crash(c) ==
    /\ Live(c)
    /\ proc' = [proc EXCEPT ![c] = "exited"]
    /\ UNCHANGED <<child, flags, active, idleFor, slots, pc, mine, signalled,
                   threads>>

Tick ==
    /\ idleFor < Idle
    /\ idleFor' = idleFor + 1
    /\ UNCHANGED <<child, flags, active, slots, pc, mine, proc, signalled, threads>>

RequestStep(r) ==
    \/ ReadBody(r) \/ Refuse(r)
    \/ BeginServed(r) \/ BeginWaits(r) \/ BeginStarts(r) \/ Launch(r)
    \/ LaunchFails(r) \/ Probe(r) \/ Publish(r) \/ FailStart(r)
    \/ TerminateFailed(r) \/ TerminatedFailed(r) \/ EndRequest(r)

ReaperStep == ReaperWakes \/ ReapSkips \/ ReapBegins \/ ReapSignals \/ ReapEnds

MainStep == StopServing \/ Drained \/ ShutdownTakesChild \/ Exits

Next ==
    \/ \E r \in Requests : Arrive(r) \/ RequestStep(r)
    \/ ReaperStep
    \/ Sigterm \/ MainStep
    \/ \E c \in Children : Listen(c) \/ Quit(c) \/ Crash(c)
    \/ Tick
    \/ main = "exit" /\ UNCHANGED vars

Spec == Init /\ [][Next]_vars

(* Threads run, forwarded requests have a socket timeout, a signalled      *)
(* child is killed after its grace period, a loading child listens in the  *)
(* end; a hung one never does and nothing arrives or crashes for certain.  *)
FairSpec ==
    /\ Spec
    /\ \A r \in Requests : WF_vars(RequestStep(r))
    /\ WF_vars(ReaperStep)
    /\ WF_vars(MainStep)
    /\ \A c \in Children : WF_vars(Listen(c)) /\ WF_vars(Quit(c))
    /\ WF_vars(Tick)
-----------------------------------------------------------------------------
(* Safety.                                                                 *)

(* A request that begin_request let through uses a child nobody stops: the *)
(* reaper and the shutdown look at _active, and a new request looks at     *)
(* _stopping, under the condition (docs/resource_minimization.md:116).     *)
NoStopUnderRequest ==
    \A r \in Requests : pc[r] = "forward" => mine[r] \notin signalled

(* _active counts the requests being forwarded: no failed startup, crash   *)
(* or shutdown makes it drift, so that the child is neither stopped under  *)
(* a request nor kept for one that is gone.                                *)
ActiveCounts == active = Cardinality({r \in Requests : pc[r] = "forward"})

Starters == {r \in Requests : pc[r] \in {"launch", "loading", "publish", "failed"}}

(* _starting marks the one thread that is starting a child, and nobody     *)
(* starts one while the current one is being stopped.                      *)
OneStarter ==
    /\ starting <=> Starters # {}
    /\ \A r, q \in Starters : r = q
    /\ starting => child = NONE /\ ~stopping

(* Every live child is the current one or in the hands of the thread that  *)
(* started it and will publish it or stop it, or of the thread that stops  *)
(* it: no child process is forgotten (Popen objects are the only record of *)
(* a child, docs/resource_minimization.md:121).                            *)
NoOrphan ==
    \A c \in Children : Live(c) =>
        \/ child = c
        \/ victim = c
        \/ last = c /\ main = "awaiting"
        \/ \E r \in Requests :
              mine[r] = c /\ pc[r] \in {"loading", "publish", "failed",
                                       "terminate", "awaiting"}

(* When the proxy has exited no child process is left: the drained request *)
(* threads and the lifecycle's shutdown stopped each of them.              *)
ExitLeavesNoChild ==
    main = "exit" => \A c \in Children : ~Live(c)

(* The child and the record of it agree at every moment: it is used only   *)
(* while nobody stops it, counted exactly, started by one thread, never    *)
(* forgotten and gone when the proxy is (class Lifecycle).                 *)
ChildSafety ==
    /\ TypeOK
    /\ NoStopUnderRequest /\ ActiveCounts
    /\ OneStarter /\ NoOrphan
    /\ ExitLeavesNoChild

(* A child is launched beside another live one only if that one failed to  *)
(* start and is being stopped.                                             *)
LaunchedAlone ==
    [][\A c \in Children :
         proc[c] = "unborn" /\ proc'[c] # "unborn" =>
            \A d \in Children : Live(d) =>
                \E r \in Requests :
                    mine[r] = d /\ pc[r] \in {"terminate", "awaiting"}]_vars

-----------------------------------------------------------------------------
(* Liveness.                                                               *)

(* Every request that arrived is answered or refused, unless a child hangs *)
(* in its startup, which has no deadline                                   *)
(* (docs/resource_minimization.md:109).                                    *)
RequestsEnd ==
    \A r \in Requests :
        pc[r] # "none" ~> pc[r] = "done" \/ \E c \in Children : proc[c] = "hung"

(* A shutdown completes even while a cold start hangs                      *)
(* (docs/resource_minimization.md:118).                                    *)
ShutdownCompletes == shutdown ~> main = "exit"

(* An idle child is unloaded, or used again, as long as the reaper lives.  *)
IdleUnloads ==
    child # NONE /\ active = 0 ~> child = NONE \/ active > 0 \/ reaper = "dead"

(* The heavy child does not outlive its use: an idle one is unloaded and a *)
(* shutdown gets to its end (reap_if_idle, shutdown).                      *)
ChildGoes == ShutdownCompletes /\ IdleUnloads

(* Whatever times out, crashes or races with the shutdown, a request gets  *)
(* its answer and the child goes when nobody needs it.                     *)
LifecycleProgresses == RequestsEnd /\ ChildGoes
=============================================================================
