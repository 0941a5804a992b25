----------------------------- MODULE MystHealth -----------------------------
(***************************************************************************)
(* The health supervisor of the VPN container (myst/myst-healthcheck.sh).  *)
(*                                                                         *)
(* The engine runs a check process at intervals, now and then two at once, *)
(* and kills one that takes too long.  A check asks the readiness script,  *)
(* then takes a lock made of a directory and of a hard link inside it, and *)
(* keeps two files: a marker that a VPN became ready in this lifetime of   *)
(* the container ("armed"), and the uptime of the first failure after      *)
(* that.  A failure as old as the grace period makes the check ask PID 1   *)
(* to terminate, once.  PID 1 (myst-client-entrypoint.sh) resets the files *)
(* when the container starts; the lock and the files outlive a restart.    *)
(*                                                                         *)
(* An action is one file-system operation on the lock, or what a process   *)
(* does to the files between two of them.  A process is named by its PID   *)
(* and start time.  failure is the age of the recorded first failure.      *)
(***************************************************************************)
EXTENDS Naturals

CONSTANTS
    Procs,          \* check and reset processes
    Grace,          \* grace_seconds in ticks
    MaxKills,       \* bound on the processes killed while they run
    PromptReclaim,  \* from the reading of a record whose owner is then found
                    \* dead to its removal, does nobody publish another one?
    NONE

ASSUME GraceAssumption == Grace \in Nat \ {0}
ASSUME KillsAssumption == MaxKills \in Nat
ASSUME PromptAssumption == PromptReclaim \in BOOLEAN
ASSUME NoneAssumption ==
    NONE \notin Procs \cup Nat \cup {"armed", "signaled"}

VARIABLES
    container,  \* "down", "starting" (until the reset is done), "up"
    term,       \* SIGTERM was sent to PID 1 in this lifetime
    vpn,        \* would the readiness script succeed?
    dir,        \* the lock directory exists
    owner,      \* the process named by its owner file
    armed,      \* the armed file: NONE, "armed", "signaled"
    failure,    \* ticks since the recorded first failure, at most Grace
    pc,         \* pc[p]: where process p is
    ok,         \* ok[p]: the readiness result p got
    named,      \* named[p]: the owner that p has read and is about to judge
    kills,      \* processes killed so far
    calm        \* ticks since a success was recorded in this lifetime, at
                \* most Grace; NONE before (no variable of the code)

lock == <<dir, owner>>
files == <<armed, failure>>
env == <<container, term, vpn, kills>>
vars == <<env, lock, files, pc, ok, named, calm>>

Steps == {"none", "probe", "mkdir", "link", "unmake", "inspect", "judge",
          "remove", "clear", "locked", "arming", "clearing", "signal", "release",
          "dropdir", "exit"}

(* Inside the lock, up to the removal of the owner file.                   *)
Critical == {"locked", "arming", "clearing", "signal", "release"}

TypeOK ==
    /\ container \in {"down", "starting", "up"}
    /\ {term, vpn, dir} \subseteq BOOLEAN
    /\ owner \in Procs \cup {NONE}
    /\ armed \in {NONE, "armed", "signaled"}
    /\ failure \in (0..Grace) \cup {NONE}
    /\ pc \in [Procs -> Steps]
    /\ ok \in [Procs -> BOOLEAN]
    /\ named \in [Procs -> Procs \cup {NONE}]
    /\ kills \in 0..MaxKills
    /\ calm \in (0..Grace) \cup {NONE}

Init ==
    /\ container = "down"
    /\ term = FALSE
    /\ vpn = FALSE
    /\ dir = FALSE
    /\ owner = NONE
    /\ armed = NONE
    /\ failure = NONE
    /\ pc = [p \in Procs |-> "none"]
    /\ ok = [p \in Procs |-> FALSE]
    /\ named = [p \in Procs |-> NONE]
    /\ kills = 0
    /\ calm = NONE

Alive(p) == pc[p] # "none"

Goto(p, step) == pc' = [pc EXCEPT ![p] = step]

(* A name is used again only when nothing refers to its former process.    *)
Fresh(p) == ~Alive(p) /\ owner # p /\ \A q \in Procs : named[q] # p

-----------------------------------------------------------------------------
(* The container and its environment.                                      *)

(* The entrypoint starts and runs reset.                                   *)
Start(p) ==
    /\ container = "down" /\ Fresh(p)
    /\ container' = "starting"
    /\ Goto(p, "mkdir")
    /\ UNCHANGED <<term, vpn, kills, lock, files, ok, named, calm>>

(* PID 1 exits on SIGTERM, after its daemon, or because the reset failed;  *)
(* every process of the container goes with it.                            *)
Stop ==
    /\ container # "down"
    /\ \/ container = "up"
       \/ \A p \in Procs : ~Alive(p)
    /\ container' = "down"
    /\ term' = FALSE
    /\ vpn' = FALSE
    /\ pc' = [p \in Procs |-> "none"]
    /\ named' = [p \in Procs |-> NONE]
    /\ calm' = NONE
    /\ UNCHANGED <<kills, lock, files, ok>>

(* A probe of the engine; the first comes seconds after the start, when    *)
(* the reset is done.                                                      *)
Check(p) ==
    /\ container = "up" /\ Fresh(p)
    /\ Goto(p, "probe")
    /\ UNCHANGED <<env, lock, files, ok, named, calm>>

Kill(p) ==
    /\ Alive(p) /\ kills < MaxKills
    /\ kills' = kills + 1
    /\ Goto(p, "none")
    /\ named' = [named EXCEPT ![p] = NONE]
    /\ UNCHANGED <<container, term, vpn, lock, files, ok, calm>>

Flip ==
    /\ container = "up"
    /\ vpn' = ~vpn
    /\ UNCHANGED <<container, term, kills, lock, files, pc, ok, named, calm>>

Older(n) == IF n \in {NONE, Grace} THEN n ELSE n + 1

Tick ==
    /\ Older(failure) # failure \/ Older(calm) # calm
    /\ failure' = Older(failure)
    /\ calm' = Older(calm)
    /\ UNCHANGED <<env, lock, armed, pc, ok, named>>

-----------------------------------------------------------------------------
(* acquire_lock.                                                           *)

MakeDirectory(p) ==
    /\ pc[p] = "mkdir"
    /\ dir' = TRUE
    /\ Goto(p, IF dir THEN "inspect" ELSE "link")
    /\ UNCHANGED <<env, owner, files, ok, named, calm>>

(* Mutant of Link: the owner is written, not linked.                       *)
LinkOver(p) ==
    /\ pc[p] = "link"
    /\ PromptReclaim => \A q \in Procs : pc[q] # "remove"
    /\ IF dir THEN owner' = p /\ Goto(p, "locked")
              ELSE UNCHANGED owner /\ Goto(p, "unmake")
    /\ UNCHANGED <<env, dir, files, ok, named, calm>>

(* The hard link is created only if there is a directory without an owner. *)
(* The assumption, if it is made: not while a dead owner is being removed. *)
Link(p) ==
    /\ pc[p] = "link"
    /\ PromptReclaim => \A q \in Procs : pc[q] # "remove"
    /\ IF dir /\ owner = NONE THEN owner' = p /\ Goto(p, "locked")
                              ELSE UNCHANGED owner /\ Goto(p, "unmake")
    /\ UNCHANGED <<env, dir, files, ok, named, calm>>

(* rmdir removes the directory if it is empty.                             *)
RemoveDirectory == dir' = (dir /\ owner # NONE)

Unmake(p) ==
    /\ pc[p] = "unmake"
    /\ RemoveDirectory
    /\ Goto(p, "inspect")
    /\ UNCHANGED <<env, owner, files, ok, named, calm>>

(* The directory is gone again, which the check takes for an unsafe type.  *)
Misled(p) ==
    /\ pc[p] = "inspect" /\ ~dir
    /\ Goto(p, "none")
    /\ UNCHANGED <<env, lock, files, ok, named, calm>>

(* The owner file is read; it is judged in a later step, by when its owner *)
(* may have released the lock and exited, and another one published.       *)
ReadOwner(p) ==
    /\ pc[p] = "inspect" /\ dir
    /\ named' = [named EXCEPT ![p] = owner]
    /\ Goto(p, "judge")
    /\ UNCHANGED <<env, lock, files, ok, calm>>

Judged(p, step) ==
    /\ pc[p] = "judge"
    /\ named' = [named EXCEPT ![p] = NONE]
    /\ Goto(p, step)
    /\ UNCHANGED <<env, lock, files, ok, calm>>

(* The owner read lives, or there was none yet: sleep and try again.       *)
Wait(p) ==
    /\ named[p] # NONE => Alive(named[p])
    /\ Judged(p, "mkdir")

(* 180 tries were not enough.                                              *)
GiveUp(p) ==
    /\ named[p] # NONE => Alive(named[p])
    /\ Judged(p, "none")

(* No owner after at least 20 tries, of any kind: the directory is taken   *)
(* for the rest of a crashed acquisition.                                  *)
ClearEmpty(p) ==
    /\ named[p] = NONE
    /\ Judged(p, "clear")

(* The owner read is dead.  The assumption, if it is made: the record has  *)
(* not been replaced since it was read.                                    *)
FindDead(p) ==
    /\ named[p] # NONE /\ ~Alive(named[p])
    /\ PromptReclaim => owner \in {NONE, named[p]}
    /\ Judged(p, "remove")

(* rm -f of the owner file, whoever it names by now.                       *)
RemoveDead(p) ==
    /\ pc[p] = "remove"
    /\ owner' = NONE
    /\ Goto(p, "clear")
    /\ UNCHANGED <<env, dir, files, ok, named, calm>>

Clear(p) ==
    /\ pc[p] = "clear"
    /\ RemoveDirectory
    /\ Goto(p, "mkdir")
    /\ UNCHANGED <<env, owner, files, ok, named, calm>>

-----------------------------------------------------------------------------
(* Inside the lock.                                                        *)

(* The readiness script runs before the lock is taken.                     *)
Probe(p) ==
    /\ pc[p] = "probe"
    /\ ok' = [ok EXCEPT ![p] = vpn]
    /\ Goto(p, "mkdir")
    /\ UNCHANGED <<env, lock, files, named, calm>>

(* reset_state                                                             *)
Wipe(p) ==
    /\ pc[p] = "locked" /\ container = "starting"
    /\ armed' = NONE /\ failure' = NONE
    /\ Goto(p, "release")
    /\ UNCHANGED <<env, lock, ok, named, calm>>

(* Mutant of SeeReady: success is believed after termination was asked for.*)
SeeReadyAgain(p) ==
    /\ pc[p] = "locked" /\ container = "up" /\ ok[p]
    /\ Goto(p, IF armed = "armed" THEN "clearing" ELSE "arming")
    /\ UNCHANGED <<env, lock, files, ok, named, calm>>

(* Health stays false once termination was asked for.                      *)
SeeReady(p) ==
    /\ pc[p] = "locked" /\ container = "up" /\ ok[p]
    /\ \/ armed = NONE /\ Goto(p, "arming")
       \/ armed = "armed" /\ Goto(p, "clearing")
       \/ armed = "signaled" /\ Goto(p, "release")
    /\ UNCHANGED <<env, lock, files, ok, named, calm>>

Arm(p) ==
    /\ pc[p] = "arming"
    /\ armed' = "armed"
    /\ calm' = 0
    /\ Goto(p, "clearing")
    /\ UNCHANGED <<env, lock, failure, ok, named>>

(* Mutant of ClearFailure: an old failure is kept.                         *)
KeepFailure(p) ==
    /\ pc[p] = "clearing"
    /\ calm' = 0
    /\ Goto(p, "release")
    /\ UNCHANGED <<env, lock, files, ok, named>>

ClearFailure(p) ==
    /\ pc[p] = "clearing"
    /\ failure' = NONE
    /\ calm' = 0
    /\ Goto(p, "release")
    /\ UNCHANGED <<env, lock, armed, ok, named>>

SeesFailure(p) == pc[p] = "locked" /\ container = "up" /\ ~ok[p]

(* Not armed yet, or termination was asked for.                            *)
Unarmed(p) ==
    /\ SeesFailure(p) /\ armed # "armed"
    /\ failure' = NONE
    /\ Goto(p, "release")
    /\ UNCHANGED <<env, lock, armed, ok, named, calm>>

FirstFailure(p) ==
    /\ SeesFailure(p) /\ armed = "armed" /\ failure = NONE
    /\ failure' = 0
    /\ Goto(p, "release")
    /\ UNCHANGED <<env, lock, armed, ok, named, calm>>

WithinGrace(p) ==
    /\ SeesFailure(p) /\ armed = "armed" /\ failure \in 0..(Grace - 1)
    /\ Goto(p, "release")
    /\ UNCHANGED <<env, lock, files, ok, named, calm>>

Expired(p) ==
    /\ SeesFailure(p) /\ armed = "armed" /\ failure = Grace
    /\ armed' = "signaled"
    /\ Goto(p, "signal")
    /\ UNCHANGED <<env, lock, failure, ok, named, calm>>

Terminate(p) ==
    /\ pc[p] = "signal"
    /\ term' = TRUE
    /\ Goto(p, "release")
    /\ UNCHANGED <<container, vpn, kills, lock, files, ok, named, calm>>

(* PID 1 could not be signalled.                                           *)
Rearm(p) ==
    /\ pc[p] = "signal"
    /\ armed' = "armed"
    /\ Goto(p, "release")
    /\ UNCHANGED <<env, lock, failure, ok, named, calm>>

(* release_lock: only one's own owner file and its directory are removed.  *)
Release(p) ==
    /\ pc[p] = "release"
    /\ IF owner = p THEN owner' = NONE /\ Goto(p, "dropdir")
                    ELSE UNCHANGED owner /\ Goto(p, "exit")
    /\ UNCHANGED <<env, dir, files, ok, named, calm>>

(* The process exits; after its reset the container is up.                 *)
Exit(p) ==
    /\ pc[p] \in {"dropdir", "exit"}
    /\ IF pc[p] = "dropdir" THEN RemoveDirectory ELSE UNCHANGED dir
    /\ Goto(p, "none")
    /\ container' = IF container = "starting" THEN "up" ELSE container
    /\ UNCHANGED <<term, vpn, kills, owner, files, ok, named, calm>>

-----------------------------------------------------------------------------
LockStep(p) ==
    \/ MakeDirectory(p) \/ Link(p) \/ Unmake(p) \/ Misled(p)
    \/ ReadOwner(p) \/ Wait(p) \/ GiveUp(p) \/ ClearEmpty(p) \/ FindDead(p)
    \/ RemoveDead(p) \/ Clear(p)

StateStep(p) ==
    \/ Wipe(p) \/ SeeReady(p) \/ Arm(p) \/ ClearFailure(p)
    \/ Unarmed(p) \/ FirstFailure(p) \/ WithinGrace(p) \/ Expired(p)
    \/ Terminate(p) \/ Rearm(p) \/ Release(p) \/ Exit(p)

Next ==
    \/ \E p \in Procs : Start(p) \/ Check(p) \/ Kill(p)
    \/ \E p \in Procs : Probe(p) \/ LockStep(p) \/ StateStep(p)
    \/ Stop \/ Flip \/ Tick

Spec == Init /\ [][Next]_vars

-----------------------------------------------------------------------------
(* Locks left by killed processes, also under a reused PID, "are reclaimed *)
(* without overlapping ownership"                                          *)
(* (docs/plans/implemented/autoheal_removal.md:342-343).                   *)
NoOverlap ==
    \A p, q \in Procs :
        pc[p] \in Critical /\ pc[q] \in Critical => p = q

(* One process at a time works on the files, and while it does the owner   *)
(* file names it, so that nobody reclaims its lock (acquire_lock, the      *)
(* comment on the hard link).                                              *)
Exclusive ==
    /\ NoOverlap
    /\ \A p \in Procs : pc[p] \in Critical => owner = p

(* Termination is asked for once in a lifetime of the container, and from  *)
(* then on no overlapping check finds the VPN healthy or arms it again     *)
(* (docs/vpn_routing_and_proxies.md:275-276, the one-shot state).          *)
AskedOnce ==
    term => /\ armed = "signaled"
            /\ \A p \in Procs : pc[p] \notin {"arming", "clearing", "signal"}

(* Termination is asked for only in a lifetime in which a check recorded a *)
(* ready VPN, and only when the last such record is as old as the grace    *)
(* period, across restarts, overlapping checks and killed ones             *)
(* (docs/plans/implemented/autoheal_removal.md:145-152).                   *)
SignalJustified == [][~term /\ term' => calm = Grace]_vars

(* Why the lock works: who is inside it is its recorded owner, and whoever *)
(* is about to remove a record removes that of a dead process.             *)
LockInv ==
    /\ \A p \in Procs : pc[p] \in Critical => owner = p /\ dir
    /\ \A q \in Procs : pc[q] = "remove" => owner = NONE \/ ~Alive(owner)

(* What the steps inside the lock have seen still holds.                   *)
FilesInv ==
    /\ container = "down" => \A p \in Procs : ~Alive(p)
    /\ term => container = "up"
    /\ \A p \in Procs :
          /\ pc[p] \in {"arming", "clearing", "signal"} => container = "up"
          /\ pc[p] = "arming" => armed = NONE
          /\ pc[p] = "clearing" => armed = "armed"
          /\ pc[p] = "signal" => armed = "signaled" /\ calm = Grace
          /\ pc[p] \in {"release", "dropdir", "exit"} /\ container = "starting"
                => armed = NONE /\ failure = NONE

(* The recorded failure is younger than the last recorded success.         *)
AgesInv ==
    container = "up" =>
        /\ armed = NONE => failure = NONE
        /\ armed # NONE => calm # NONE
        /\ failure # NONE => calm # NONE /\ failure <= calm

(* The inductive invariant of the supervisor.                              *)
HealthInv == TypeOK /\ LockInv /\ FilesInv /\ AskedOnce /\ AgesInv
=============================================================================
