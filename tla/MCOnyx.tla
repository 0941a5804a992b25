------------------------------- MODULE MCOnyx -------------------------------
(***************************************************************************)
(* What the wrapper adds to a running Onyx, for TLC: the continuation of a *)
(* broken inference stream (MidstreamContinuation), the page reads of      *)
(* open_url (OpenUrlReads), the freshness of indexed documents             *)
(* (DocumentFreshness) and the companion script of the Web UI              *)
(* (WebuiReconnect).                                                       *)
(*                                                                         *)
(* They share no state.  part says which of them takes steps in a          *)
(* behaviour, the others stay as they began.                               *)
(***************************************************************************)
EXTENDS OpenUrlReads

CONSTANTS
    a, b, c1, c2, u1, u2,
    Chats, MaxSends, Grace, Cancelled, NONE,   \* of WebuiReconnect
    MaxPackets,                                \* of MidstreamContinuation
    Crawls, MaxVersion, MaxFaults              \* of DocumentFreshness

MCChats == {a, b}

(* Two pages for the one thread of a call, and a call that competes with   *)
(* it for the browser slot.                                                *)
MCCalls == {c1, c2}
MCUrls == {u1, u2}
MCWorkers == {<<c1, u1>>, <<c1, u2>>, <<c2, u1>>}

(* The connector's index attempts are finitely many, and the file has at   *)
(* least the version it begins with.                                       *)
ASSUME CrawlsAssumption == IsFiniteSet(Crawls)
ASSUME VersionAssumption == MaxVersion \in Nat \ {0} /\ MaxFaults \in Nat

VARIABLES
    part,
    tab, visible, online, chat, doc, sends, resumes, sent, posted, run,
    structured, stream, retryable, answer, reasoning, sawTool, sawFinish,
    continuations, progress, asked, emitted, packets,
    active, version, db, pc, forced, head, scraped, faults

webuiVars == <<tab, visible, online, chat, doc, sends, resumes, sent, posted, run>>
streamVars == <<structured, stream, retryable, answer, reasoning, sawTool, sawFinish,
                continuations, progress, asked, emitted, packets>>
freshVars == <<active, version, db, pc, forced, head, scraped, faults>>
allVars == <<part, vars, webuiVars, streamVars, freshVars>>

Webui == INSTANCE WebuiReconnect

Midstream == INSTANCE MidstreamContinuation

Freshness == INSTANCE DocumentFreshness WITH doc <- scraped

ASSUME PacketsAssumption == MaxPackets \in Nat

(* The bounds of WebuiReconnect are numbers, and the absence of a marker,  *)
(* of a timer or of a request is none of them.                             *)
ASSUME WebuiAssumption == MaxSends \in Nat /\ Grace \in Nat
ASSUME NoneAssumption ==
    NONE \notin Webui!Tokens \cup Webui!Markers \cup Webui!Polls \cup Webui!Statuses

(* A part that takes no steps has one initial state only.                  *)
OnyxInit ==
    /\ part \in {"webui", "stream", "reads", "freshness"}
    /\ Webui!Init /\ (part # "webui" => chat = a)
    /\ Midstream!Init /\ (part # "stream" => structured)
    /\ Init
    /\ Freshness!Init
    /\ part # "freshness" => active = Crawls /\ db = Freshness!NoRow

OnyxNext ==
    /\ UNCHANGED part
    /\ \/ /\ part = "webui" /\ Webui!Next
          /\ UNCHANGED <<vars, streamVars, freshVars>>
       \/ /\ part = "stream" /\ Midstream!Next
          /\ UNCHANGED <<vars, webuiVars, freshVars>>
       \/ /\ part = "reads" /\ Next
          /\ UNCHANGED <<webuiVars, streamVars, freshVars>>
       \/ /\ part = "freshness" /\ Freshness!Next
          /\ UNCHANGED <<vars, webuiVars, streamVars>>

(* The fairness of each part.                                              *)
OnyxSpec ==
    /\ OnyxInit /\ [][OnyxNext]_allVars
    /\ WF_webuiVars(part = "webui" /\ Webui!Recover)
    /\ WF_webuiVars(part = "webui" /\ Webui!Poll)
    /\ WF_webuiVars(part = "webui" /\ Webui!StatusReturns)
    /\ SF_webuiVars(part = "webui" /\ Webui!ServerAnswers)
    /\ WF_webuiVars(part = "webui" /\ Webui!Reload)
    /\ WF_webuiVars(part = "webui" /\ (Webui!PageShow \/ Webui!NewDocument))
    /\ \A t \in Webui!Tokens :
          WF_webuiVars(part = "webui" /\ Webui!ResumeSettles(t))
    /\ WF_webuiVars(part = "webui" /\ Webui!SendSettles)
    /\ \A c \in Chats :
          WF_webuiVars(part = "webui" /\ run[c] # "pending" /\ Webui!Finish(c))
    /\ WF_streamVars(part = "stream" /\ Midstream!Handler)
    /\ WF_streamVars(part = "stream" /\ (Midstream!Complete \/ Midstream!Break))
    /\ WF_vars(part = "reads" /\ Tick)
    /\ \A c \in Calls : WF_vars(part = "reads" /\ CallStep(c))
    /\ \A w \in Workers :
          /\ WF_vars(part = "reads" /\ OwnStep(w))
          /\ WF_vars(part = "reads" /\ limit[w] = 0 /\ AttemptFails(w))
    /\ \A c \in Crawls :
          WF_freshVars(part = "freshness" /\ c \in active /\ Freshness!Step(c))

(* See WebuiReconnect: recovery work of an eligible page is never lost     *)
(* (scheduleRecovery, scheduleStatus and their callers).                   *)
PageSafe == Webui!PageSafe

(* See WebuiReconnect: no reload surprises the user, and the end of a      *)
(* stream does not drop the marker of a suspended tab (reloadForRecovery,  *)
(* wrapStreamResponse).                                                    *)
ReloadsInOrder == Webui!ReloadsInOrder

(* See WebuiReconnect: a page that stays with its chat ends its recovery.  *)
RecoveryEnds == part = "webui" => Webui!RecoveryEnds

(* See MidstreamContinuation: the consumer gets one generation, whatever   *)
(* was interrupted (_stream_with_midstream_continuation).                  *)
GenerationIsContinued == Midstream!GenerationIsContinued

(* See MidstreamContinuation and OpenUrlReads: a broken stream is settled, *)
(* and the collection of the pages ends.                                   *)
AnswersSettle ==
    /\ part = "stream" => Midstream!StreamSettles
    /\ part = "reads" => ReadsEnd

(* See DocumentFreshness: placeholders are never indexed, and, while the   *)
(* attempts come one at a time, a file is skipped only while its content   *)
(* is the indexed one.                                                     *)
FreshnessSound == Freshness!FreshnessSound

(* See DocumentFreshness: an edited file is indexed in the end.            *)
EditIsIndexed == part = "freshness" => Freshness!EditIsIndexed
=============================================================================
