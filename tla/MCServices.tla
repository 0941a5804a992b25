----------------------------- MODULE MCServices -----------------------------
(***************************************************************************)
(* Services beside Onyx, for TLC: the two ends of an embedding request,    *)
(* the shim in Onyx's container (EmbeddingShim) and the lifecycle proxy of *)
(* the embedding server on the host (EmbedLifecycle); the preparation of a *)
(* store's data directory (SharedDataInit); and the watchdog of Celery     *)
(* Beat (BeatWatchdog).                                                    *)
(*                                                                         *)
(* They share no state: each end of a request takes the other for a peer   *)
(* that answers as it likes, or not at all, and the last two meet nobody   *)
(* but the engine and supervisord.  part says which of them takes steps in *)
(* a behaviour, the others stay as they began.                             *)
(***************************************************************************)
EXTENDS EmbedLifecycle

CONSTANTS r1, r2, r3, c1, c2,
          MaxActive, PoolSize, Texts,                     \* of EmbeddingShim
          Check, Stale, Grace, Interval, Boot, MaxFailures  \* of BeatWatchdog

MCRequests == {r1, r2, r3}
MCChildren == {c1, c2}

VARIABLES
    part,
    at, freeSlots, pool, verdict, vectors, observed, clientGone,
    store, bind, command, volume, container, outcome, told,
    beat, due, exists, age, wake, since, missing, excused, failures

ASSUME ShimAssumption == MaxActive \in Nat /\ PoolSize \in Nat /\ Texts \in Nat
ASSUME BeatTimesAssumption ==
    /\ Check \in Nat /\ Stale \in Nat /\ Grace \in Nat /\ Interval \in Nat /\ Boot \in Nat
    /\ MaxFailures \in Nat

(* A Beat that keeps its times publishes within the watchdog's limits, also *)
(* after a restart.                                                         *)
ASSUME LimitsAssumption == Interval + Boot <= Stale /\ Boot <= Grace

shimVars == <<at, freeSlots, pool, verdict, vectors, observed, clientGone>>
dataVars == <<store, bind, command, volume, container, outcome, told>>
beatVars == <<beat, due, exists, age, wake, since, missing, excused, failures>>
allVars == <<part, vars, shimVars, dataVars, beatVars>>

Shim == INSTANCE EmbeddingShim WITH slots <- freeSlots

Data == INSTANCE SharedDataInit WITH at <- command

Beat == INSTANCE BeatWatchdog

(* A part that takes no steps has one initial state only.                  *)
ServicesInit ==
    /\ part \in {"lifecycle", "shim", "data", "beat"}
    /\ Init
    /\ Shim!Init
    /\ Data!Init /\ (part # "data" => store = "postgres" /\ bind = {})
    /\ Beat!Init /\ (part # "beat" => ~exists)

(* Every request of the shim has been served, or turned away.              *)
Rest ==
    /\ part = "shim" /\ \A r \in Requests : at[r] = "gone"
    /\ UNCHANGED <<vars, shimVars, dataVars, beatVars>>

ServicesNext ==
    /\ UNCHANGED part
    /\ \/ part = "lifecycle" /\ Next /\ UNCHANGED <<shimVars, dataVars, beatVars>>
       \/ part = "shim" /\ Shim!Next /\ UNCHANGED <<vars, dataVars, beatVars>>
       \/ part = "data" /\ Data!Next /\ UNCHANGED <<vars, shimVars, beatVars>>
       \/ part = "beat" /\ Beat!Next /\ UNCHANGED <<vars, shimVars, dataVars>>
       \/ Rest

(* The fairness of each part.                                              *)
ServicesSpec ==
    /\ ServicesInit /\ [][ServicesNext]_allVars
    /\ \A r \in Requests : WF_vars(part = "lifecycle" /\ RequestStep(r))
    /\ WF_vars(part = "lifecycle" /\ ReaperStep)
    /\ WF_vars(part = "lifecycle" /\ MainStep)
    /\ \A c \in Children :
          /\ WF_vars(part = "lifecycle" /\ Listen(c))
          /\ WF_vars(part = "lifecycle" /\ Quit(c))
    /\ WF_vars(part = "lifecycle" /\ Tick)
    /\ \A r \in Requests : WF_shimVars(part = "shim" /\ Shim!ThreadStep(r))
    /\ WF_dataVars(part = "data" /\ Data!Command)
    /\ WF_beatVars(part = "beat" /\ Beat!Tick)
    /\ WF_beatVars(part = "beat" /\ (Beat!Look \/ Beat!Restart))
    /\ WF_beatVars(part = "beat" /\ due = 0 /\ Beat!Publish)

(* See EmbeddingShim: slots are neither lost nor invented, and a success   *)
(* gives every text its own vector (process_request_thread,                *)
(* UpstreamConnectionPool.request, request_local_embeddings).              *)
ShimSound == Shim!ShimSound

(* See SharedDataInit: what is called initialized is complete, and nothing *)
(* but an empty directory is written to (initialize_postgres_data,         *)
(* initialize_opensearch_data).                                            *)
InitSound == Data!InitSound

(* See BeatWatchdog: only a Beat that hangs is restarted (watch).          *)
OnlyHungRestarted == Beat!OnlyHungRestarted

(* See EmbedLifecycle, EmbeddingShim, SharedDataInit and BeatWatchdog:     *)
(* requests end, the shutdown completes and an idle child goes; an         *)
(* accepted request leaves its thread; a command that prepares a directory *)
(* ends; a Beat that hangs is restarted.                                   *)
ServicesProgress ==
    LifecycleProgresses /\ Shim!ThreadsEnd /\ Data!CommandEnds /\ Beat!HungIsRestarted
=============================================================================
