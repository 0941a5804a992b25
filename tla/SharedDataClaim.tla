--------------------------- MODULE SharedDataClaim ---------------------------
(***************************************************************************)
(* The claim on the database directories that Docker and Podman share      *)
(* (podman/shared_data_engine.py and the up, down and adopt targets of the *)
(* Makefile).                                                              *)
(*                                                                         *)
(* One make command runs per engine at a time; commands of different       *)
(* engines interleave between any two of their file operations, and a      *)
(* command may be interrupted anywhere.  A container started by an engine  *)
(* comes back with it (restart: unless-stopped) until it is brought down.  *)
(* A claim is adopted as its error message asks: no other command runs     *)
(* meanwhile.                                                              *)
(***************************************************************************)
EXTENDS Naturals

CONSTANT NONE

Engines == {"docker-rootful", "docker-rootless", "podman"}

Family(e) == IF e = "podman" THEN "podman" ELSE "docker"

Foreign(e) == {f \in Engines : Family(f) # Family(e)}

VARIABLES
    marker,  \* the claim: an engine, NONE, or "empty" (created, not written)
    up,      \* the engines that run
    left,    \* the engines that have containers of the stack, running or not
    at,      \* at[e]: where the command on engine e is
    read,    \* read[e]: the owner that command has read
    adopted  \* engines whose claim was taken while they had containers left

claimVars == <<marker, up, left, at, read, adopted>>

(* The writers of an engine run while it runs.                             *)
Writers == left \cap up

Init ==
    /\ marker = NONE
    /\ up \in SUBSET Engines
    /\ left = {} /\ adopted = {}
    /\ at = [e \in Engines |-> "idle"]
    /\ read = [e \in Engines |-> NONE]

TypeOK ==
    /\ marker \in Engines \cup {NONE, "empty"}
    /\ up \subseteq Engines /\ left \subseteq Engines /\ adopted \subseteq Engines
    /\ at \in [Engines -> {"idle", "inspect", "create", "write", "start", "release",
                          "unlink", "verify", "replace"}]
    /\ read \in [Engines -> Engines \cup {NONE}]

Step(e, from, to) == at[e] = from /\ at' = [at EXCEPT ![e] = to]

-----------------------------------------------------------------------------
(* make up-lite, make up-full: claim, then start the stack.                *)
ReadOwner(e) ==
    /\ e \in up
    /\ \A f \in Engines : at[f] \notin {"verify", "replace"}
    /\ marker \in {e, NONE}
    /\ Step(e, "idle", "inspect")
    /\ read' = [read EXCEPT ![e] = marker]
    /\ UNCHANGED <<marker, up, left, adopted>>

(* inspect_first_claim: the other family runs no writer, as far as its     *)
(* client can tell: that of Docker sees one of the two kinds of engine.    *)
(* A client that cannot ask must be proved to have nothing to ask.         *)
Inspect(e) ==
    /\ \E f \in Foreign(e) : f \notin Writers
    /\ Step(e, "inspect", IF read[e] = e THEN "start" ELSE "create")
    /\ UNCHANGED <<marker, up, left, read, adopted>>

(* Mutant of Create: the marker is opened without O_EXCL.                  *)
CreateOver(e) ==
    /\ Step(e, "create", "write")
    /\ marker' = "empty"
    /\ UNCHANGED <<up, left, read, adopted>>

(* O_CREAT | O_EXCL: of two first claims one creates the marker.           *)
Create(e) ==
    /\ marker = NONE
    /\ Step(e, "create", "write")
    /\ marker' = "empty"
    /\ UNCHANGED <<up, left, read, adopted>>

Write(e) ==
    /\ Step(e, "write", "start")
    /\ marker' = e
    /\ UNCHANGED <<up, left, read, adopted>>

(* Compose starts some or all of the stack.                                *)
Start(e) ==
    /\ e \in up
    /\ Step(e, "start", "idle")
    /\ left' = left \cup {e}
    /\ adopted' = adopted \ {e}
    /\ read' = [read EXCEPT ![e] = NONE]
    /\ UNCHANGED <<marker, up>>

(* A refusal, an error, a signal: the command ends where it is.            *)
GivesUp(e) ==
    /\ at[e] # "idle"
    /\ at' = [at EXCEPT ![e] = "idle"]
    /\ read' = [read EXCEPT ![e] = NONE]
    /\ UNCHANGED <<marker, up, left, adopted>>

-----------------------------------------------------------------------------
(* make down-lite, make down-full: bring the stack down, then release.     *)
Down(e) ==
    /\ e \in up
    /\ \A f \in Engines : at[f] \notin {"verify", "replace"}
    /\ Step(e, "idle", "release")
    /\ left' = left \ {e}
    /\ UNCHANGED <<marker, up, read, adopted>>

(* Only the claim of this very engine is released.                         *)
ReadRelease(e) ==
    /\ marker = e
    /\ Step(e, "release", "unlink")
    /\ UNCHANGED <<marker, up, left, read, adopted>>

Unlink(e) ==
    /\ Step(e, "unlink", "idle")
    /\ marker' = NONE
    /\ UNCHANGED <<up, left, read, adopted>>

-----------------------------------------------------------------------------
(* make adopt-shared-data-engine, while nothing else runs.                 *)
BeginAdopt(e) ==
    /\ \A f \in Engines : at[f] = "idle"
    /\ marker \in Engines \ {e}
    /\ Step(e, "idle", "verify")
    /\ read' = [read EXCEPT ![e] = marker]
    /\ UNCHANGED <<marker, up, left, adopted>>

(* Adoption of data nobody claims, without a look at anybody; it may be    *)
(* interrupted before the marker is written.                               *)
AdoptUnclaimed(e) ==
    /\ \A f \in Engines : at[f] = "idle"
    /\ marker = NONE
    /\ marker' \in {e, "empty"}
    /\ UNCHANGED <<up, left, at, read, adopted>>

(* The former engine must be proved down, as far as its client can tell;   *)
(* within the Docker family the operator's word counts.                    *)
VerifyDown(e) ==
    /\ CASE Family(read[e]) = Family(e) -> TRUE
         [] read[e] = "podman" -> "podman" \notin Writers
         [] OTHER -> \E f \in Foreign(e) : f \notin up
    /\ Step(e, "verify", "replace")
    /\ UNCHANGED <<marker, up, left, read, adopted>>

Replace(e) ==
    /\ Step(e, "replace", "idle")
    /\ marker' = e
    /\ adopted' = adopted \cup (left \cap {read[e]})
    /\ read' = [read EXCEPT ![e] = NONE]
    /\ UNCHANGED <<up, left>>

-----------------------------------------------------------------------------
(* The engines themselves.                                                 *)
EngineStops(e) ==
    /\ e \in up
    /\ up' = up \ {e}
    /\ UNCHANGED <<marker, left, at, read, adopted>>

EngineStarts(e) ==
    /\ e \notin up
    /\ up' = up \cup {e}
    /\ UNCHANGED <<marker, left, at, read, adopted>>

CommandStep(e) ==
    \/ ReadOwner(e) \/ Inspect(e) \/ Create(e) \/ Write(e) \/ Start(e) \/ GivesUp(e)
    \/ Down(e) \/ ReadRelease(e) \/ Unlink(e)
    \/ BeginAdopt(e) \/ AdoptUnclaimed(e) \/ VerifyDown(e) \/ Replace(e)
    \/ EngineStops(e) \/ EngineStarts(e)

Next == \E e \in Engines : CommandStep(e)

Spec == Init /\ [][Next]_claimVars
-----------------------------------------------------------------------------
(* A stack that was started holds the claim until it is brought down,      *)
(* unless it was adopted away (claim, release; permissions_cross_          *)
(* validation.md:92, "A successful matching make down-* removes it").      *)
ClaimHeld == \A e \in left \ adopted : marker = e

(* The writers of two engines never run together on the same files, even   *)
(* if a stopped engine comes back with its containers; unless its claim    *)
(* was adopted while they were left (claim, verify_stale_owner_is_down).   *)
OneWriter ==
    \A e, f \in Writers : e # f => {e, f} \cap adopted # {}

ClaimSound == TypeOK /\ ClaimHeld /\ OneWriter
-----------------------------------------------------------------------------
(* The inductive invariant behind ClaimSound: what a command relies on at  *)
(* each of its steps.                                                      *)
WriteOwnsEmpty ==
    /\ \A e \in Engines : at[e] = "write" => marker = "empty"
    /\ \A e, f \in Engines : at[e] = "write" /\ at[f] = "write" => e = f

StartHolds ==
    \A e \in Engines :
        at[e] = "start" \/ (at[e] = "inspect" /\ read[e] = e) => marker = e

ReleaseIsDown ==
    \A e \in Engines :
        /\ at[e] \in {"release", "unlink"} => e \notin left
        /\ at[e] = "unlink" => marker = e

AdoptsAlone ==
    \A e \in Engines : at[e] \in {"verify", "replace"} =>
        /\ read[e] = marker /\ marker \in Engines \ {e}
        /\ \A f \in Engines \ {e} : at[f] = "idle"

ClaimInv ==
    TypeOK /\ ClaimHeld /\ WriteOwnsEmpty /\ StartHolds /\ ReleaseIsDown /\ AdoptsAlone
=============================================================================
