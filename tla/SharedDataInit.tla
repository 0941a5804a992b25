---------------------------- MODULE SharedDataInit ----------------------------
(***************************************************************************)
(* The preparation of a data directory for Podman (initialize_postgres_    *)
(* data and initialize_opensearch_data of podman/startup_health.py).  A    *)
(* missing or empty directory is filled from a temporary volume, in which  *)
(* a temporary container has initialized the store; one with a mark (the   *)
(* file PG_VERSION, the directory nodes) is taken as it is; any other is   *)
(* refused.                                                                *)
(*                                                                         *)
(* Every command of the engine may fail, and the host may stop or the      *)
(* command be killed anywhere, with what it runs.  cp copies files in an   *)
(* order that nobody chooses, except that nodes comes before its contents. *)
(* One command runs at a time.                                             *)
(***************************************************************************)
EXTENDS FiniteSets

Stores == {"postgres", "opensearch"}
Files == {"mark", "data"}
Missing == {"missing"}

VARIABLES
    store,      \* "postgres" or "opensearch"
    bind,       \* what the directory contains
    at,         \* where the command is
    volume,     \* whether its temporary volume exists
    container,  \* "none", "created" (a run that failed left it) or "known"
    outcome,    \* what the try block has come to: "ok" or "failed"
    told        \* what the last command said of the data

vars == <<store, bind, at, volume, container, outcome, told>>

Init ==
    /\ store \in Stores
    /\ bind \in {Missing, {}, {"foreign"}, Files}
    /\ at = "idle" /\ volume = FALSE /\ container = "none"
    /\ outcome = "ok" /\ told = "nothing"

Goto(step) == at' = step /\ UNCHANGED store

(* The command ends before it has made anything.                            *)
Tell(word) ==
    /\ told' = word /\ Goto("idle")
    /\ UNCHANGED <<bind, volume, container, outcome>>

-----------------------------------------------------------------------------
Reuse ==
    /\ at = "idle" /\ "mark" \in bind
    /\ \E word \in {"reused", "failed"} : Tell(word)

Refuse ==
    /\ at = "idle" /\ "mark" \notin bind /\ bind \notin {Missing, {}}
    /\ Tell("refused")

(* The names of a command are its own; it finds none of those left behind.  *)
Begin ==
    /\ volume' = FALSE /\ container' = "none" /\ outcome' = "ok"
    /\ told' = "nothing" /\ Goto("volume")

(* Mutant of Stage: whatever has no mark is initialized.                    *)
StageUnmarked ==
    /\ at = "idle" /\ "mark" \notin bind
    /\ bind' = bind \ Missing
    /\ Begin

Stage ==
    /\ at = "idle" /\ bind \in {Missing, {}}
    /\ bind' = {}
    /\ Begin

CreateVolume ==
    /\ at = "volume"
    /\ volume' = TRUE /\ Goto("run")
    /\ UNCHANGED <<bind, container, outcome, told>>

CreateVolumeFails ==
    /\ at = "volume"
    /\ Tell("failed")

RunContainer ==
    /\ at = "run"
    /\ container' = "known" /\ Goto("wait")
    /\ UNCHANGED <<bind, volume, outcome, told>>

Advance(from, to) ==
    /\ at = from
    /\ Goto(to)
    /\ UNCHANGED <<bind, volume, container, outcome, told>>

Ready == Advance("wait", IF store = "opensearch" THEN "bootstrap" ELSE "stop")
Bootstrap == Advance("bootstrap", "stop")
StopContainer == Advance("stop", "copy")

Copy(file) ==
    /\ at = "copy" /\ file \notin bind
    /\ store = "opensearch" /\ file = "data" => "mark" \in bind
    /\ bind' = bind \cup {file}
    /\ UNCHANGED <<store, at, volume, container, outcome, told>>

CopyEnds == Files \subseteq bind /\ Advance("copy", "remove")

(* The container does not get ready within the deadline.                    *)
TimesOut ==
    /\ at = "wait"
    /\ outcome' = "failed" /\ Goto("remove")
    /\ UNCHANGED <<bind, volume, container, told>>

Fails ==
    /\ at \in {"run", "bootstrap", "stop", "copy"}
    /\ outcome' = "failed" /\ Goto("remove")
    /\ container' \in IF at = "run" THEN {"none", "created"} ELSE {container}
    /\ UNCHANGED <<bind, volume, told>>

-----------------------------------------------------------------------------
(* finally: the container is removed if it is known, then the volume, which *)
(* takes any container that uses it along.                                  *)
RemoveContainer ==
    /\ at = "remove"
    /\ \/ container = "known" /\ container' = "none" /\ outcome' = outcome
       \/ container = "known" /\ container' = "known" /\ outcome' = "failed"
       \/ container # "known" /\ UNCHANGED <<container, outcome>>
    /\ Goto("removeVolume")
    /\ UNCHANGED <<bind, volume, told>>

RemoveVolume ==
    /\ at = "removeVolume"
    /\ \/ volume' = FALSE /\ container' = "none" /\ outcome' = outcome
       \/ outcome' = "failed" /\ UNCHANGED <<volume, container>>
    /\ Goto("finish")
    /\ UNCHANGED <<bind, told>>

Finish ==
    /\ at = "finish"
    /\ told' = IF outcome = "ok" /\ "mark" \in bind THEN "initialized" ELSE "failed"
    /\ Goto("idle")
    /\ UNCHANGED <<bind, volume, container, outcome>>

Killed == at # "idle" /\ Tell("killed")

(* The operator makes room.                                                 *)
Emptied ==
    /\ at = "idle" /\ bind' = {} /\ told' = "nothing"
    /\ UNCHANGED <<store, at, volume, container, outcome>>

Command ==
    \/ CreateVolume \/ CreateVolumeFails \/ RunContainer \/ TimesOut \/ Bootstrap
    \/ StopContainer \/ CopyEnds \/ Fails \/ RemoveContainer \/ RemoveVolume \/ Finish
    \/ \E file \in Files : Copy(file)

Next == Reuse \/ Refuse \/ Stage \/ Ready \/ Command \/ Killed \/ Emptied

(* The engine answers every command, and deadlines pass; nobody says when   *)
(* the container gets ready.                                                *)
Spec == Init /\ [][Next]_vars /\ WF_vars(Command)

-----------------------------------------------------------------------------
TypeOK ==
    /\ store \in Stores /\ volume \in BOOLEAN
    /\ bind \subseteq Files \cup {"foreign"} \/ bind = Missing
    /\ at \in {"idle", "volume", "run", "wait", "bootstrap", "stop", "copy", "remove",
               "removeVolume", "finish"}
    /\ container \in {"none", "created", "known"} /\ outcome \in {"ok", "failed"}

(* What is called initialized is complete, and nothing temporary is left    *)
(* of it; only an empty directory is written to, by its own store.          *)
InitSound ==
    /\ TypeOK
    /\ told = "initialized" => bind = Files /\ ~volume /\ container = "none"
    /\ at \in {"volume", "run", "wait", "bootstrap", "stop"} => bind = {}
    /\ at # "idle" => bind \subseteq Files

(* A command ends, ready or not.                                            *)
CommandEnds == (at # "idle") ~> (at = "idle")

(* What is reused was initialized completely (the message of                *)
(* initialize_postgres_data and initialize_opensearch_data, "partial bind   *)
(* data was left in place for diagnosis").                                  *)
ReusedIsComplete == told = "reused" => Files \subseteq bind
-----------------------------------------------------------------------------
(* The inductive invariant behind InitSound: a preparation that is ok when *)
(* it comes to its finally clause has copied everything, and what it then  *)
(* could not remove makes it fail.                                         *)
OkIsComplete ==
    /\ told = "initialized" => at = "idle"
    /\ at \in {"remove", "removeVolume", "finish"} /\ outcome = "ok" => bind = Files
    /\ at = "finish" /\ outcome = "ok" => ~volume /\ container = "none"

InitInv == InitSound /\ OkIsComplete
=============================================================================
