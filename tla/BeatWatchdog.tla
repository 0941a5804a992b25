---------------------------- MODULE BeatWatchdog ----------------------------
(***************************************************************************)
(* The watchdog of Celery Beat (onyx/beat_liveness_watchdog.py).  Beat     *)
(* writes a marker file whenever it reloads its schedule; the watchdog     *)
(* looks at the file's age at intervals and has Beat restarted.            *)
(*                                                                         *)
(* Beat, the host and supervisord are external: Beat may hang or crash at  *)
(* any time, the file may go, the host may sleep (the wall clock jumps and *)
(* the monotonic clock does not), and supervisorctl may fail, which ends   *)
(* the watchdog, and supervisord starts it again.                          *)
(***************************************************************************)
EXTENDS Naturals

CONSTANTS
    Check, Stale, Grace,    \* CHECK_INTERVAL_, STALE_AFTER_, STARTUP_GRACE_SECONDS
    Interval, Boot,         \* the longest time between markers, and to the first
    MaxFailures             \* bounds the failures of supervisorctl

VARIABLES
    beat,       \* "booting", "up" or "hung"
    due,        \* the time left for Beat's next marker
    exists,     \* whether there is a valid marker
    age,        \* of the marker, up to Stale + 1
    wake,       \* time left of the watchdog's sleep
    since,      \* time since started, up to Grace + 1
    missing,    \* missing_observations
    excused,    \* something but Beat made the marker old since the last one
    failures

vars == <<beat, due, exists, age, wake, since, missing, excused, failures>>

watchdogVars == <<wake, since, missing, failures>>

UpTo(bound, n) == IF n > bound THEN bound ELSE n

Init ==
    /\ beat = "booting" /\ due = Boot
    /\ exists \in BOOLEAN /\ age \in IF exists THEN 0..(Stale + 1) ELSE {0}
    /\ wake = Check /\ since = 0 /\ missing = 0
    /\ excused = FALSE /\ failures = 0

-----------------------------------------------------------------------------
(* Beat, its file and the host.                                             *)

Publish ==
    /\ beat \in {"booting", "up"}
    /\ beat' = "up" /\ due' = Interval
    /\ exists' = TRUE /\ age' = 0 /\ excused' = FALSE
    /\ UNCHANGED watchdogVars

Hang ==
    /\ beat # "hung"
    /\ beat' = "hung"
    /\ UNCHANGED <<due, exists, age, excused, watchdogVars>>

(* supervisord starts it again and does not tell the watchdog.              *)
Crash ==
    /\ beat' = "booting" /\ due' = Boot
    /\ excused' = (excused \/ beat # "up")
    /\ UNCHANGED <<exists, age, watchdogVars>>

Lose ==
    /\ exists
    /\ exists' = FALSE /\ age' = 0 /\ excused' = TRUE
    /\ UNCHANGED <<beat, due, watchdogVars>>

Suspend ==
    /\ age' = IF exists THEN Stale + 1 ELSE 0
    /\ excused' = TRUE
    /\ UNCHANGED <<beat, due, exists, watchdogVars>>

(* Beat keeps its times unless it hangs, and the watchdog wakes in time.    *)
Tick ==
    /\ wake > 0 /\ (due > 0 \/ beat = "hung")
    /\ due' = IF due = 0 THEN 0 ELSE due - 1
    /\ age' = IF exists THEN UpTo(Stale + 1, age + 1) ELSE 0
    /\ wake' = wake - 1
    /\ since' = UpTo(Grace + 1, since + 1)
    /\ UNCHANGED <<beat, exists, missing, excused, failures>>

-----------------------------------------------------------------------------
(* A turn of the loop of watch.                                             *)

Missing == IF exists THEN 0 ELSE UpTo(2, missing + 1)

Overdue == since > Grace /\ IF exists THEN age > Stale ELSE Missing = 2

Look ==
    /\ wake = 0 /\ ~Overdue
    /\ missing' = Missing /\ wake' = Check
    /\ UNCHANGED <<beat, due, exists, age, since, excused, failures>>

(* Mutant of Restart: the grace is that of the watchdog's start only.       *)
RestartInGrace ==
    /\ wake = 0 /\ Overdue
    /\ beat' = "booting" /\ due' = Boot /\ excused' = FALSE
    /\ missing' = 0 /\ wake' = Check
    /\ UNCHANGED <<exists, age, since, failures>>

Restart ==
    /\ wake = 0 /\ Overdue
    /\ beat' = "booting" /\ due' = Boot /\ excused' = FALSE
    /\ since' = 0 /\ missing' = 0 /\ wake' = Check
    /\ UNCHANGED <<exists, age, failures>>

(* supervisorctl fails, and the watchdog with it; a new one starts.         *)
RestartFails ==
    /\ wake = 0 /\ Overdue /\ failures < MaxFailures
    /\ failures' = failures + 1
    /\ since' = 0 /\ missing' = 0 /\ wake' = Check
    /\ UNCHANGED <<beat, due, exists, age, excused>>

Watchdog == Look \/ Restart \/ RestartFails

Next == Publish \/ Hang \/ Crash \/ Lose \/ Suspend \/ Tick \/ Watchdog

(* Time passes, and the watchdog and a Beat that runs keep up with it.      *)
Spec ==
    Init /\ [][Next]_vars
         /\ WF_vars(Tick) /\ WF_vars(Look \/ Restart) /\ WF_vars(due = 0 /\ Publish)

-----------------------------------------------------------------------------
TypeOK ==
    /\ beat \in {"booting", "up", "hung"} /\ due \in 0..(Interval + Boot)
    /\ age \in 0..(Stale + 1) /\ wake \in 0..Check /\ since \in 0..(Grace + 1)
    /\ missing \in 0..2 /\ failures \in 0..MaxFailures

(* Only a Beat that hangs is restarted, neither one that keeps its times    *)
(* nor one that still boots; unless the file went, the host slept or Beat   *)
(* crashed again before its next marker.  supervisord's own restarts renew  *)
(* no grace, the marker's age has to cover them (watch).                    *)
OnlyHungRestarted ==
    /\ TypeOK
    /\ wake = 0 /\ Overdue => beat = "hung" \/ excused

(* A Beat that hangs does not stay so (resource_minimization.md, "A stdlib- *)
(* only watchdog"), whatever became of its marker.                          *)
HungIsRestarted == (beat = "hung") ~> (beat # "hung")
-----------------------------------------------------------------------------
(* The inductive invariant behind OnlyHungRestarted: a Beat that neither   *)
(* hangs nor is excused keeps the age of its marker, or the time since its *)
(* start, within its own times.                                            *)
KeepsItsTimes ==
    beat # "hung" /\ ~excused =>
        \/ exists /\ beat = "up" /\ age + due <= Interval
        \/ exists /\ beat = "booting" /\ age + due <= Interval + Boot
        \/ beat = "booting" /\ since + due <= Boot

BeatInv == TypeOK /\ KeepsItsTimes
=============================================================================
