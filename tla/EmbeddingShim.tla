--------------------------- MODULE EmbeddingShim ---------------------------
(***************************************************************************)
(* The embedding shim of Onyx (onyx/local_embedding_shim.py): a threaded   *)
(* HTTP server with a bounded number of request threads, which translates  *)
(* an embedding request into one call of the upstream service through a    *)
(* pool of upstream slots.                                                 *)
(*                                                                         *)
(* A request is served by a thread of its own.  Clients may leave at any   *)
(* moment, the upstream may answer anything, and every wait has a timeout. *)
(* Texts and vectors are kept by their position only.                      *)
(***************************************************************************)
EXTENDS Naturals, FiniteSets, Sequences

CONSTANTS
    Requests,         \* connections to the shim
    MaxActive,        \* MAX_ACTIVE_REQUESTS
    PoolSize,         \* UPSTREAM_POOL_SIZE
    Texts             \* texts of a request

VARIABLES
    at,          \* where the thread of a request is
    slots,       \* _request_slots: free request slots
    pool,        \* _slots: free upstream slots
    verdict,     \* what the handler has decided to answer
    vectors,     \* position in the upstream's list of the vector of each text
    observed,    \* what SHIM_METRICS.observe was told of a request, in order
    clientGone   \* writes to the client fail

vars == <<at, slots, pool, verdict, vectors, observed, clientGone>>

Verdicts == {"none", "probe", "health", "client", "http", "invalid", "unreachable", "success"}

TypeOK ==
    /\ at \in [Requests -> {"new", "read", "prepare", "acquire", "upstream", "answer",
                            "release", "gone"}]
    /\ slots \in 0..MaxActive
    /\ pool \in 0..PoolSize
    /\ verdict \in [Requests -> Verdicts]
    /\ vectors \in [Requests -> [0..(Texts - 1) -> SUBSET (1..Texts)] \cup {<<>>}]
    /\ observed \in [Requests -> Seq({"success", "upstream", "client"})]
    /\ clientGone \in [Requests -> BOOLEAN]

Init ==
    /\ at = [r \in Requests |-> "new"]
    /\ slots = MaxActive
    /\ pool = PoolSize
    /\ verdict = [r \in Requests |-> "none"]
    /\ vectors = [r \in Requests |-> <<>>]
    /\ observed = [r \in Requests |-> <<>>]
    /\ clientGone = [r \in Requests |-> FALSE]

Goto(r, s) == at' = [at EXCEPT ![r] = s]

(* The handler has what it will answer.  A readiness probe answers ready   *)
(* or not ready and is not counted, whatever became of its upstream call.  *)
Decide(r, v) ==
    /\ verdict' = [verdict EXCEPT ![r] = IF @ = "probe" THEN "health" ELSE v]
    /\ Goto(r, "answer")

-----------------------------------------------------------------------------
(* process_request: a thread if a slot is free, else the connection is     *)
(* closed at once; a thread that cannot start gives its slot back.         *)
Accept(r) ==
    /\ at[r] = "new"
    /\ \/ slots > 0 /\ slots' = slots - 1 /\ Goto(r, "read")
       \/ slots > 0 /\ UNCHANGED slots /\ Goto(r, "gone")
       \/ slots = 0 /\ UNCHANGED slots /\ Goto(r, "gone")
    /\ UNCHANGED <<pool, verdict, vectors, observed, clientGone>>

(* The request line and body: an embedding request, a readiness probe, a   *)
(* stub or a bad request, or nothing before the socket's timeout.          *)
ReadBody(r) ==
    /\ at[r] = "read"
    /\ \/ Goto(r, "prepare") /\ UNCHANGED verdict
       \/ Goto(r, "acquire") /\ verdict' = [verdict EXCEPT ![r] = "probe"]
       \/ Decide(r, "health")
       \/ Goto(r, "release") /\ UNCHANGED verdict
    /\ UNCHANGED <<slots, pool, vectors, observed, clientGone>>

(* The model name, the texts and their prefixes.                           *)
Prepare(r) ==
    /\ at[r] = "prepare"
    /\ \/ Goto(r, "acquire") /\ UNCHANGED verdict
       \/ Decide(r, "client")
    /\ UNCHANGED <<slots, pool, vectors, observed, clientGone>>

(* UpstreamConnectionPool.request: a slot, or a timeout.                   *)
Acquire(r) ==
    /\ at[r] = "acquire"
    /\ \/ pool > 0 /\ pool' = pool - 1 /\ Goto(r, "upstream") /\ UNCHANGED verdict
       \/ pool' = pool /\ Decide(r, "unreachable")
    /\ UNCHANGED <<slots, vectors, observed, clientGone>>

(* request_local_embeddings: one item for each input, in any order.        *)
Valid(items) ==
    /\ Len(items) = Texts
    /\ \A i \in DOMAIN items : items[i] < Texts
    /\ \A i, j \in DOMAIN items : items[i] = items[j] => i = j

(* The vectors in the order of the inputs: where each one was found.       *)
InOrder(items) ==
    [t \in 0..(Texts - 1) |-> {i \in DOMAIN items : items[i] = t}]

(* The list of an answer, by the index each item carries; Texts stands for *)
(* an index out of range.                                                  *)
Lists == UNION {[1..k -> 0..Texts] : k \in (Texts - 1)..(Texts + 1)}

(* Mutant of Release: an upstream error keeps its slot.                    *)
ReleaseOnSuccess(v) == pool' = IF v = "http" THEN pool ELSE pool + 1

(* The finally clause gives the slot back whatever happened.               *)
Release(v) == pool' = pool + 1

(* The upstream call: its failure, an HTTP error, an answer that does not  *)
(* parse, or a list.  normalize_embeddings is looked at last.              *)
Upstream(r) ==
    /\ at[r] = "upstream"
    /\ \/ \E v \in {"unreachable", "http", "invalid"} :
             Release(v) /\ Decide(r, v) /\ UNCHANGED vectors
       \/ \E items \in Lists :
             /\ Release("success")
             /\ IF Valid(items)
                THEN /\ \E v \in {"success", "client", "invalid"} : Decide(r, v)
                     /\ vectors' = [vectors EXCEPT ![r] = InOrder(items)]
                ELSE Decide(r, "invalid") /\ UNCHANGED vectors
    /\ UNCHANGED <<slots, observed, clientGone>>

(* What is counted before the answer is written.                           *)
Counted(v) ==
    CASE v = "success" -> <<"success">>
      [] v = "client" -> <<"client">>
      [] v = "health" -> <<>>
      [] OTHER -> <<"upstream">>

(* The answer is counted, then written.  The write of a success is inside  *)
(* the same try: its failure is taken for an unreachable upstream, counted *)
(* and answered as such.                                                   *)
Answer(r) ==
    /\ at[r] = "answer"
    /\ observed' = [observed EXCEPT ![r] = @ \o Counted(verdict[r])]
    /\ IF clientGone[r] /\ verdict[r] = "success"
       THEN Decide(r, "unreachable")
       ELSE Goto(r, "release") /\ UNCHANGED verdict
    /\ UNCHANGED <<slots, pool, vectors, clientGone>>

(* process_request_thread ends, and what it knew with it.                  *)
ThreadEnds(r) ==
    /\ at[r] = "release"
    /\ slots' = slots + 1
    /\ Goto(r, "gone")
    /\ verdict' = [verdict EXCEPT ![r] = "none"]
    /\ vectors' = [vectors EXCEPT ![r] = <<>>]
    /\ observed' = [observed EXCEPT ![r] = <<>>]
    /\ clientGone' = [clientGone EXCEPT ![r] = FALSE]
    /\ UNCHANGED pool

ClientLeaves(r) ==
    /\ ~clientGone[r] /\ at[r] # "gone"
    /\ clientGone' = [clientGone EXCEPT ![r] = TRUE]
    /\ UNCHANGED <<at, slots, pool, verdict, vectors, observed>>

ThreadStep(r) ==
    ReadBody(r) \/ Prepare(r) \/ Acquire(r) \/ Upstream(r) \/ Answer(r) \/ ThreadEnds(r)

Next == \E r \in Requests : Accept(r) \/ ThreadStep(r) \/ ClientLeaves(r)

Spec == Init /\ [][Next]_vars

(* Threads run and their timeouts fire.                                    *)
FairSpec == Spec /\ \A r \in Requests : WF_vars(ThreadStep(r))

-----------------------------------------------------------------------------
InThread == {r \in Requests : at[r] \notin {"new", "gone"}}
InUpstream == {r \in Requests : at[r] = "upstream"}

(* An embedding request is counted once.  A success whose client has left  *)
(* is counted again, as an error of the upstream: the except clauses of    *)
(* do_POST cover the write of the answer too.                              *)
CountedOnce(r) ==
    at[r] = "release" /\ verdict[r] \notin {"none", "health"} =>
        \/ Len(observed[r]) = 1
        \/ clientGone[r] /\ observed[r] = <<"success", "upstream">>

(* Slots are neither lost nor invented by any way a request may end        *)
(* (BoundedThreadingHTTPServer, UpstreamConnectionPool.request), a success *)
(* gives every text its own vector, in the order of the texts, whatever    *)
(* order the upstream used (request_local_embeddings), and each request    *)
(* is counted (SHIM_METRICS.observe).                                      *)
ShimSound ==
    /\ TypeOK
    /\ slots + Cardinality(InThread) = MaxActive
    /\ pool + Cardinality(InUpstream) = PoolSize
    /\ \A r \in Requests : verdict[r] = "success" =>
          /\ \A t \in DOMAIN vectors[r] : Cardinality(vectors[r][t]) = 1
          /\ \A t, u \in DOMAIN vectors[r] :
                vectors[r][t] = vectors[r][u] => t = u
    /\ \A r \in Requests : CountedOnce(r)

(* An accepted request leaves its thread, and with it its slots: a full    *)
(* server or pool does not stay full.                                      *)
ThreadsEnd == \A r \in Requests : at[r] = "read" ~> at[r] = "gone"
-----------------------------------------------------------------------------
(* The inductive invariant behind ShimSound.  What a thread has decided at *)
(* each of its steps,                                                      *)
DecidedBySteps ==
    \A r \in Requests :
       /\ at[r] \in {"new", "read", "prepare", "gone"} => verdict[r] = "none"
       /\ at[r] \in {"acquire", "upstream"} => verdict[r] \in {"none", "probe"}
       /\ at[r] = "answer" => verdict[r] \notin {"none", "probe"}
       /\ verdict[r] = "probe" => at[r] \in {"acquire", "upstream"}

(* and what was counted before the last count.                             *)
CountedSoFar ==
    \A r \in Requests :
       /\ at[r] \notin {"answer", "release"} => observed[r] = <<>>
       /\ at[r] = "answer" =>
             \/ observed[r] = <<>>
             \/ /\ observed[r] = <<"success">> /\ clientGone[r]
                /\ verdict[r] = "unreachable"

ShimInv == ShimSound /\ DecidedBySteps /\ CountedSoFar
=============================================================================
