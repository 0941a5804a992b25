-------------------------- MODULE MystHealth_proofs --------------------------
(***************************************************************************)
(* The health supervisor is sound for any number of overlapping, killed    *)
(* and restarted processes, any grace period and any bound on the kills,   *)
(* as long as the record of a dead owner is removed promptly.              *)
(***************************************************************************)
EXTENDS MystHealth, TLAPS

(* Every step keeps every variable in its type.                            *)
LEMMA TypeStep == TypeOK /\ [Next]_vars => TypeOK'
<1> SUFFICES ASSUME TypeOK, [Next]_vars PROVE TypeOK'
  OBVIOUS
<1> USE DEF TypeOK, env, lock, files, Goto, Steps
<1>1. ASSUME NEW p \in Procs, Start(p) \/ Check(p) PROVE TypeOK'
  BY <1>1 DEF Start, Check
<1>2. ASSUME NEW p \in Procs, Kill(p) PROVE TypeOK'
  <2>1. kills' \in 0..MaxKills
    BY <1>2, KillsAssumption DEF Kill
  <2> QED BY <1>2, <2>1 DEF Kill
<1>3. CASE Stop
  BY <1>3 DEF Stop
<1>4. CASE Flip
  BY <1>4 DEF Flip
<1>5. CASE Tick
  <2>1. /\ Older(failure) \in (0..Grace) \cup {NONE}
        /\ Older(calm) \in (0..Grace) \cup {NONE}
    BY GraceAssumption, NoneAssumption DEF Older
  <2> QED BY <1>5, <2>1 DEF Tick
<1>6. ASSUME NEW p \in Procs, LockStep(p) PROVE TypeOK'
  BY <1>6 DEF LockStep, MakeDirectory, Link, Unmake, Misled, ReadOwner,
              Judged, Wait, GiveUp, ClearEmpty, FindDead, RemoveDead, Clear, RemoveDirectory
<1>7. ASSUME NEW p \in Procs, Probe(p) PROVE TypeOK'
  BY <1>7 DEF Probe
<1>8. ASSUME NEW p \in Procs, StateStep(p) PROVE TypeOK'
  <2>1. CASE SeeReady(p)
    BY <2>1 DEF SeeReady
  <2>2. CASE Exit(p)
    BY <2>2 DEF Exit, RemoveDirectory
  <2>3. 0 \in 0..Grace
    BY GraceAssumption
  <2>4. CASE ~SeeReady(p) /\ ~Exit(p)
    BY <1>8, <2>3, <2>4
       DEF StateStep, Wipe, Arm, ClearFailure, Unarmed, FirstFailure, WithinGrace,
           Expired, Terminate, Rearm, Release
  <2> QED BY <2>1, <2>2, <2>4
<1>9. CASE UNCHANGED vars
  BY <1>9 DEF vars
<1> QED
  BY <1>1, <1>2, <1>3, <1>4, <1>5, <1>6, <1>7, <1>8, <1>9 DEF Next

(* Who is inside the lock stays its recorded owner: the record is removed  *)
(* by its owner, or when the owner is dead, and is never overwritten.      *)
LEMMA LockKept ==
    PromptReclaim /\ TypeOK /\ LockInv /\ [Next]_vars => LockInv'
<1> SUFFICES ASSUME PromptReclaim, TypeOK, LockInv, [Next]_vars PROVE LockInv'
  OBVIOUS
<1> USE NoneAssumption DEF TypeOK, LockInv, Critical, Alive, env, lock, Goto
<1>1. ASSUME NEW p \in Procs, Start(p) \/ Check(p) PROVE LockInv'
  BY <1>1 DEF Start, Check, Fresh
<1>2. ASSUME NEW p \in Procs, Kill(p) PROVE LockInv'
  BY <1>2 DEF Kill
<1>3. CASE Stop
  BY <1>3 DEF Stop
<1>4. CASE Flip
  BY <1>4 DEF Flip
<1>5. CASE Tick
  BY <1>5 DEF Tick
<1>6. ASSUME NEW p \in Procs, MakeDirectory(p) PROVE LockInv'
  BY <1>6 DEF MakeDirectory
<1>7. ASSUME NEW p \in Procs, Link(p) PROVE LockInv'
  BY <1>7 DEF Link
<1>8. ASSUME NEW p \in Procs, Unmake(p) \/ Clear(p) PROVE LockInv'
  BY <1>8 DEF Unmake, Clear, RemoveDirectory
<1>9. ASSUME NEW p \in Procs,
             \/ Misled(p) \/ ReadOwner(p)
             \/ Wait(p) \/ GiveUp(p) \/ ClearEmpty(p)
      PROVE  LockInv'
  BY <1>9 DEF Misled, ReadOwner, Judged, Wait, GiveUp, ClearEmpty
<1>10. ASSUME NEW p \in Procs, FindDead(p) PROVE LockInv'
  BY <1>10 DEF FindDead, Judged
<1>11. ASSUME NEW p \in Procs, RemoveDead(p) PROVE LockInv'
  BY <1>11 DEF RemoveDead
<1>12. ASSUME NEW p \in Procs, Probe(p) PROVE LockInv'
  BY <1>12 DEF Probe
<1>13. ASSUME NEW p \in Procs, SeeReady(p) PROVE LockInv'
  BY <1>13 DEF SeeReady
<1>14. ASSUME NEW p \in Procs, Release(p) PROVE LockInv'
  BY <1>14 DEF Release
<1>15. ASSUME NEW p \in Procs, Exit(p) PROVE LockInv'
  BY <1>15 DEF Exit, RemoveDirectory
<1>16. ASSUME NEW p \in Procs,
              StateStep(p), ~SeeReady(p), ~Release(p), ~Exit(p)
       PROVE  LockInv'
  BY <1>16 DEF StateStep, Wipe, Arm, ClearFailure, Unarmed, FirstFailure,
               WithinGrace, Expired, Terminate, Rearm, SeesFailure
<1>17. CASE UNCHANGED vars
  BY <1>17 DEF vars
<1>18. ASSUME NEW p \in Procs, LockStep(p) PROVE LockInv'
  BY <1>18, <1>6, <1>7, <1>8, <1>9, <1>10, <1>11 DEF LockStep
<1>19. ASSUME NEW p \in Procs, StateStep(p) PROVE LockInv'
  BY <1>19, <1>13, <1>14, <1>15, <1>16
<1> QED
  BY <1>1, <1>2, <1>3, <1>4, <1>5, <1>12, <1>17, <1>18, <1>19 DEF Next

(* The recorded owner is unique, so the processes inside the lock are one. *)
LEMMA LockExcludes == TypeOK /\ LockInv => Exclusive
  BY DEF TypeOK, LockInv, Exclusive, NoOverlap

(* What a step inside the lock has seen stays true: every other step on    *)
(* the files would be inside the lock as well.                             *)
LEMMA FilesKept ==
    TypeOK /\ LockInv /\ FilesInv /\ AgesInv /\ [Next]_vars => FilesInv'
<1> SUFFICES ASSUME TypeOK, LockInv, FilesInv, AgesInv, [Next]_vars
             PROVE  FilesInv'
  OBVIOUS
<1> USE NoneAssumption, GraceAssumption
    DEF TypeOK, FilesInv, Alive, env, lock, files, Goto
<1>0. ASSUME NEW p \in Procs, NEW q \in Procs,
             pc[p] \in Critical, pc[q] \in Critical
      PROVE  p = q
  BY <1>0, LockExcludes DEF Exclusive, NoOverlap
<1>1. ASSUME NEW p \in Procs, Start(p) PROVE FilesInv'
  BY <1>1 DEF Start
<1>2. ASSUME NEW p \in Procs, Check(p) \/ Kill(p) PROVE FilesInv'
  BY <1>2 DEF Check, Kill
<1>3. CASE Stop
  BY <1>3 DEF Stop
<1>4. CASE Flip
  BY <1>4 DEF Flip
<1>5. CASE Tick
  BY <1>5 DEF Tick, Older
<1>6. ASSUME NEW p \in Procs, Probe(p) PROVE FilesInv'
  BY <1>6 DEF Probe
<1>7. ASSUME NEW p \in Procs, LockStep(p) PROVE FilesInv'
  BY <1>7 DEF LockStep, MakeDirectory, Link, Unmake, Misled, ReadOwner,
              Judged, Wait, GiveUp, ClearEmpty, FindDead, RemoveDead, Clear
<1>8. ASSUME NEW p \in Procs, StateStep(p) PROVE FilesInv'
  <2> USE DEF Critical
  <2>1. CASE Wipe(p)
    BY <2>1, <1>0 DEF Wipe
  <2>2. CASE SeeReady(p)
    BY <2>2, <1>0 DEF SeeReady
  <2>3. CASE Arm(p)
    BY <2>3, <1>0 DEF Arm
  <2>4. CASE ClearFailure(p)
    BY <2>4, <1>0 DEF ClearFailure
  <2>5. CASE Unarmed(p) \/ FirstFailure(p) \/ WithinGrace(p)
    BY <2>5, <1>0 DEF Unarmed, FirstFailure, WithinGrace, SeesFailure
  <2>6. CASE Expired(p)
    <3>1. calm = Grace
      BY <2>6 DEF Expired, SeesFailure, AgesInv
    <3> QED BY <2>6, <3>1, <1>0 DEF Expired, SeesFailure
  <2>7. CASE Terminate(p)
    BY <2>7, <1>0 DEF Terminate
  <2>8. CASE Rearm(p)
    BY <2>8, <1>0 DEF Rearm
  <2>9. CASE Release(p)
    BY <2>9 DEF Release
  <2>10. CASE Exit(p)
    BY <2>10 DEF Exit
  <2> QED
    BY <1>8, <2>1, <2>2, <2>3, <2>4, <2>5, <2>6, <2>7, <2>8, <2>9, <2>10
       DEF StateStep
<1>9. CASE UNCHANGED vars
  BY <1>9 DEF vars
<1> QED
  BY <1>1, <1>2, <1>3, <1>4, <1>5, <1>6, <1>7, <1>8, <1>9 DEF Next

(* After the request nobody arms or clears: whoever asked was alone inside *)
(* the lock, and the next one there reads "signaled".                      *)
LEMMA AskedKept ==
    TypeOK /\ LockInv /\ FilesInv /\ AskedOnce /\ [Next]_vars => AskedOnce'
<1> SUFFICES ASSUME TypeOK, LockInv, FilesInv, AskedOnce, [Next]_vars
             PROVE  AskedOnce'
  OBVIOUS
<1> USE NoneAssumption DEF TypeOK, FilesInv, AskedOnce, Alive, env, lock, files, Goto
<1>0. ASSUME NEW p \in Procs, NEW q \in Procs,
             pc[p] \in Critical, pc[q] \in Critical
      PROVE  p = q
  BY <1>0, LockExcludes DEF Exclusive, NoOverlap
<1>1. ASSUME NEW p \in Procs, Start(p) \/ Check(p) \/ Kill(p) PROVE AskedOnce'
  BY <1>1 DEF Start, Check, Kill
<1>2. CASE Stop \/ Flip \/ Tick
  BY <1>2 DEF Stop, Flip, Tick
<1>3. ASSUME NEW p \in Procs, Probe(p) PROVE AskedOnce'
  BY <1>3 DEF Probe
<1>4. ASSUME NEW p \in Procs, LockStep(p) PROVE AskedOnce'
  BY <1>4 DEF LockStep, MakeDirectory, Link, Unmake, Misled, ReadOwner,
              Judged, Wait, GiveUp, ClearEmpty, FindDead, RemoveDead, Clear
<1>5. ASSUME NEW p \in Procs, StateStep(p) PROVE AskedOnce'
  <2>1. CASE Wipe(p) \/ SeeReady(p)
    BY <2>1 DEF Wipe, SeeReady
  <2>2. CASE Arm(p) \/ ClearFailure(p)
    BY <2>2 DEF Arm, ClearFailure
  <2>3. CASE Unarmed(p) \/ FirstFailure(p) \/ WithinGrace(p) \/ Expired(p)
    BY <2>3 DEF Unarmed, FirstFailure, WithinGrace, Expired, SeesFailure
  <2>4. CASE Terminate(p)
    BY <2>4, <1>0 DEF Terminate, Critical
  <2>5. CASE Rearm(p)
    BY <2>5 DEF Rearm
  <2>6. CASE Release(p) \/ Exit(p)
    BY <2>6 DEF Release, Exit
  <2> QED BY <1>5, <2>1, <2>2, <2>3, <2>4, <2>5, <2>6 DEF StateStep
<1>6. CASE UNCHANGED vars
  BY <1>6 DEF vars
<1> QED BY <1>1, <1>2, <1>3, <1>4, <1>5, <1>6 DEF Next

(* A failure is recorded after the last success, and both age alike.       *)
LEMMA AgesKept ==
    TypeOK /\ FilesInv /\ AgesInv /\ [Next]_vars => AgesInv'
<1> SUFFICES ASSUME TypeOK, FilesInv, AgesInv, [Next]_vars PROVE AgesInv'
  OBVIOUS
<1> USE NoneAssumption, GraceAssumption
    DEF TypeOK, FilesInv, AgesInv, env, lock, files, Goto
<1>1. ASSUME NEW p \in Procs, Start(p) \/ Check(p) \/ Kill(p) PROVE AgesInv'
  BY <1>1 DEF Start, Check, Kill
<1>2. CASE Stop \/ Flip
  BY <1>2 DEF Stop, Flip
<1>3. CASE Tick
  BY <1>3 DEF Tick, Older
<1>4. ASSUME NEW p \in Procs, Probe(p) PROVE AgesInv'
  BY <1>4 DEF Probe
<1>5. ASSUME NEW p \in Procs, LockStep(p) PROVE AgesInv'
  BY <1>5 DEF LockStep, MakeDirectory, Link, Unmake, Misled, ReadOwner,
              Judged, Wait, GiveUp, ClearEmpty, FindDead, RemoveDead, Clear
<1>6. ASSUME NEW p \in Procs, StateStep(p) PROVE AgesInv'
  <2>1. CASE Wipe(p) \/ SeeReady(p)
    BY <2>1 DEF Wipe, SeeReady
  <2>2. CASE Arm(p)
    BY <2>2 DEF Arm
  <2>3. CASE ClearFailure(p)
    BY <2>3 DEF ClearFailure
  <2>4. CASE Unarmed(p) \/ FirstFailure(p) \/ WithinGrace(p) \/ Expired(p)
    BY <2>4 DEF Unarmed, FirstFailure, WithinGrace, Expired, SeesFailure
  <2>5. CASE Terminate(p) \/ Rearm(p)
    BY <2>5 DEF Terminate, Rearm
  <2>6. CASE Release(p)
    BY <2>6 DEF Release
  <2>7. CASE Exit(p)
    BY <2>7 DEF Exit
  <2> QED BY <1>6, <2>1, <2>2, <2>3, <2>4, <2>5, <2>6, <2>7 DEF StateStep
<1>7. CASE UNCHANGED vars
  BY <1>7 DEF vars
<1> QED BY <1>1, <1>2, <1>3, <1>4, <1>5, <1>6, <1>7 DEF Next

(* The initial state satisfies the invariant.                              *)
LEMMA HealthInit == Init => HealthInv
<1> SUFFICES ASSUME Init PROVE HealthInv
  OBVIOUS
<1>1. 0 \in 0..MaxKills
  BY KillsAssumption
<1>2. TypeOK
  BY <1>1 DEF Init, TypeOK, Steps
<1>3. \A p \in Procs : pc[p] = "none"
  BY DEF Init
<1>4. LockInv
  BY <1>3 DEF LockInv, Critical
<1>5. FilesInv
  BY <1>3 DEF Init, FilesInv, Alive
<1>6. AskedOnce /\ AgesInv
  BY DEF Init, AskedOnce, AgesInv
<1> QED BY <1>2, <1>4, <1>5, <1>6 DEF HealthInv

(* Every step keeps the invariant.                                         *)
LEMMA HealthStep == PromptReclaim /\ HealthInv /\ [Next]_vars => HealthInv'
  BY TypeStep, LockKept, FilesKept, AskedKept, AgesKept DEF HealthInv

(* Only the check that recorded its request signals PID 1.                 *)
LEMMA TerminateJustified ==
    HealthInv /\ [Next]_vars => (~term /\ term' => calm = Grace)
<1> SUFFICES ASSUME HealthInv, [Next]_vars, ~term, term' PROVE calm = Grace
  OBVIOUS
<1>1. PICK p \in Procs : Terminate(p)
  BY DEF Next, LockStep, StateStep, vars, env, lock, files,
         Start, Check, Kill, Stop, Flip, Tick, Probe, MakeDirectory, Link, Unmake,
         Misled, ReadOwner, Judged, Wait, GiveUp, ClearEmpty, FindDead, RemoveDead, Clear, Wipe,
         SeeReady, Arm, ClearFailure, Unarmed, FirstFailure, WithinGrace, Expired,
         Rearm, Release, Exit, SeesFailure
<1> QED BY <1>1 DEF Terminate, HealthInv, FilesInv

-----------------------------------------------------------------------------
(* Every reachable state has the declared types, however the processes of  *)
(* myst-healthcheck.sh interleave, and without the timing assumption.      *)
THEOREM HealthTypes == Spec => []TypeOK
<1>1. Init => TypeOK
  BY HealthInit DEF HealthInv
<1> QED BY <1>1, TypeStep, PTL DEF Spec

(* The inductive invariant holds when dead owners are removed promptly     *)
(* (acquire_lock, the reclaiming of the lock).                             *)
THEOREM HealthInvariant == ASSUME PromptReclaim PROVE Spec => []HealthInv
<1>1. HealthInv /\ [Next]_vars => HealthInv'
  BY HealthStep, PromptReclaim
<1> QED BY <1>1, HealthInit, PTL DEF Spec

(* The state files are worked on by one process at a time, the recorded    *)
(* owner of the lock (acquire_lock and release_lock).                      *)
THEOREM LockExclusive == ASSUME PromptReclaim PROVE Spec => []Exclusive
<1>1. HealthInv => Exclusive
  BY LockExcludes DEF HealthInv
<1> QED BY <1>1, HealthInvariant, PTL

(* Termination is asked for once in a lifetime of the container            *)
(* (check_state, the "signaled" state).                                    *)
THEOREM TerminationAskedOnce == ASSUME PromptReclaim PROVE Spec => []AskedOnce
<1>1. HealthInv => AskedOnce
  BY DEF HealthInv
<1> QED BY <1>1, HealthInvariant, PTL

(* Termination is asked for only a grace period after the last recorded    *)
(* success of this lifetime (check_state, the age of the first failure).   *)
THEOREM TerminationJustified == ASSUME PromptReclaim PROVE Spec => SignalJustified
<1>1. HealthInv /\ [Next]_vars => [~term /\ term' => calm = Grace]_vars
  BY TerminateJustified
<1> QED BY <1>1, HealthInvariant, PTL DEF Spec, SignalJustified
=============================================================================
