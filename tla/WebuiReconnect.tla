--------------------------- MODULE WebuiReconnect ---------------------------
(***************************************************************************)
(* The companion script of the Web UI (onyx/nginx/webui-reconnect.js): it  *)
(* keeps one marker in the tab's storage for the newest chat send, and     *)
(* after a suspension or a broken stream asks the server for the state of  *)
(* the run and reloads the page to show the answer.                        *)
(*                                                                         *)
(* One action is one turn of the page's event loop: an event, a timer or   *)
(* a settled promise runs to its end.  The functions of the script that    *)
(* these turns call are operators from the companion's state to its next   *)
(* state.  The stock page, the network and the server are the rest.        *)
(*                                                                         *)
(* A token is the number of its send.  Times are kept as far as they       *)
(* matter: hidden says that hiddenAt is set, pending counts the polls that *)
(* saw only a reservation, delays are arbitrary.                           *)
(***************************************************************************)
EXTENDS Naturals

CONSTANTS
    Chats,       \* chat sessions
    MaxSends,    \* bound on the number of sends
    Grace,       \* polls within PENDING_RESERVATION_GRACE_MS
    Cancelled,   \* may a committed reload leave the old document alive?
    NONE

VARIABLES
    tab,       \* the companion's state, a record
    visible,   \* document.visibilityState
    online,    \* navigator.onLine
    chat,      \* the chat selected by the page's URL
    doc,       \* the document: "loading", "live" or "leaving"
    sends,     \* sends[t]: the send request of token t in this document
    resumes,   \* resumes[t]: the resume request observed for token t;
               \* "failed" if it replayed a recovered run and broke
    sent,      \* the number of sends so far
    posted,    \* sends that have not reached the server, [token, session]
    run        \* run[c]: the newest run of chat c on the server

page == <<visible, online, chat, doc>>
server == <<posted, run>>
vars == <<tab, page, sends, resumes, sent, server>>

Tokens == 1..MaxSends
Phases == {"none", "single", "single-wait", "multi"}
Purposes == {"recover", "resume-eof", "single-settle", "settle"}
RunSteps == {"none", "pending", "starting", "running"}
StreamSteps == {"none", "requested", "open", "over", "failed"}

Markers == [token : Tokens, session : Chats, multi : BOOLEAN,
            hidden : BOOLEAN, pending : 0..Grace, phase : Phases]

Polls == [token : Tokens, purpose : Purposes]
Statuses == [token : Tokens, purpose : Purposes, session : Chats,
             answer : RunSteps \cup {"retry", "gone", NONE}]

(* rec is the stored marker; recovery and poll are the armed timers;       *)
(* status is the request in flight with the answer it will bring;          *)
(* reloading and owner are reloadingToken and resumeOwnerToken.            *)
Tabs == [rec : Markers \cup {NONE},
         recovery : BOOLEAN,
         poll : Polls \cup {NONE},
         status : Statuses \cup {NONE},
         reloading : Tokens \cup {NONE},
         owner : Tokens \cup {NONE}]

TypeOK ==
    /\ tab \in Tabs
    /\ visible \in BOOLEAN
    /\ online \in BOOLEAN
    /\ chat \in Chats
    /\ doc \in {"loading", "live", "leaving"}
    /\ sends \in [Tokens -> StreamSteps]
    /\ resumes \in [Tokens -> StreamSteps]
    /\ sent \in 0..MaxSends
    /\ posted \subseteq [token : Tokens, session : Chats]
    /\ run \in [Chats -> RunSteps]

NoStreams == [t \in Tokens |-> "none"]

Init ==
    /\ tab = [rec |-> NONE, recovery |-> FALSE, poll |-> NONE, status |-> NONE,
              reloading |-> NONE, owner |-> NONE]
    /\ visible = TRUE
    /\ online = TRUE
    /\ chat \in Chats
    /\ doc = "live"
    /\ sends = NoStreams
    /\ resumes = NoStreams
    /\ sent = 0
    /\ posted = {}
    /\ run = [c \in Chats |-> "none"]

-----------------------------------------------------------------------------
(* The functions of the script.  w is the companion's state.               *)

Marked(w, t) == w.rec # NONE /\ w.rec.token = t

Eligible(w) == visible /\ online /\ chat = w.rec.session

(* cancelRecoveryWork; NONE cancels the status request of any token.       *)
Cancel(w, t) ==
    [w EXCEPT !.recovery = FALSE, !.poll = NONE,
              !.status = IF @ # NONE /\ t \in {NONE, @.token} THEN NONE ELSE @]

(* clearMatching: teardown of a document that is reloading clears nothing. *)
ClearMatching(w, t) ==
    IF w.reloading # t /\ Marked(w, t)
    THEN [Cancel(w, t) EXCEPT !.rec = NONE, !.owner = IF @ = t THEN NONE ELSE @]
    ELSE w

ScheduleRecovery(w) ==
    IF w.rec # NONE /\ w.rec.token # w.reloading
    THEN [w EXCEPT !.recovery = TRUE] ELSE w

(* Mutant of MarkForRecovery: a failed replay is not remembered.           *)
MarkForReplay(w, t, failedReplay) ==
    IF w.reloading # t /\ Marked(w, t)
    THEN ScheduleRecovery([Cancel(w, t) EXCEPT !.rec.hidden = TRUE])
    ELSE w

(* markForRecovery: a failed replay waits for completion from now on.      *)
MarkForRecovery(w, t, failedReplay) ==
    IF w.reloading # t /\ Marked(w, t)
    THEN ScheduleRecovery(
            [Cancel(w, t) EXCEPT
                !.rec.hidden = TRUE,
                !.rec.phase = IF failedReplay /\ @ = "single"
                              THEN "single-wait" ELSE @])
    ELSE w

(* scheduleStatus: one poll timer or one request at a time.                *)
ScheduleStatus(w, purpose) ==
    IF w.poll = NONE /\ w.status = NONE /\ Eligible(w)
    THEN [w EXCEPT !.poll = [token |-> w.rec.token, purpose |-> purpose]]
    ELSE w

Disown(w, t) == [w EXCEPT !.owner = IF @ = t THEN NONE ELSE @]

(* Mutant of FinishResumeCleanly: the ended body keeps its ownership.      *)
FinishOwning(w, t) ==
    IF w.reloading = t \/ ~Marked(w, t) THEN w
    ELSE IF w.rec.hidden THEN ScheduleRecovery(w)
    ELSE ScheduleStatus(w, "resume-eof")

(* finishResumeCleanly                                                     *)
FinishResumeCleanly(w, t) ==
    IF w.reloading = t THEN w
    ELSE IF ~Marked(w, t) THEN Disown(w, t)
    ELSE IF w.rec.hidden THEN ScheduleRecovery(Disown(w, t))
    ELSE ScheduleStatus(Disown(w, t), "resume-eof")

(* reloadForRecovery                                                       *)
ReloadForRecovery(w, t) == Cancel([w EXCEPT !.reloading = t], t)

(* visibilitychange to hidden and pagehide.                                *)
Suspend(w) ==
    IF w.rec = NONE THEN w
    ELSE Cancel(IF w.rec.token = w.reloading THEN w
                ELSE [w EXCEPT !.rec.hidden = TRUE, !.rec.pending = 0],
                w.rec.token)

-----------------------------------------------------------------------------
(* Sending and resuming: the stock page's requests seen by window.fetch.   *)

(* instrumentSend: the newer send replaces the marker and all its work.    *)
Send(c, multi) ==
    /\ doc # "leaving" /\ sent < MaxSends
    /\ sent' = sent + 1
    /\ tab' = [Cancel(tab, NONE) EXCEPT
                  !.reloading = NONE, !.owner = NONE,
                  !.rec = [token |-> sent', session |-> c, multi |-> multi,
                           hidden |-> ~visible, pending |-> 0,
                           phase |-> "none"]]
    /\ sends' = [sends EXCEPT ![sent'] = "requested"]
    /\ posted' = posted \cup {[token |-> sent', session |-> c]}
    /\ UNCHANGED <<page, resumes, run>>

(* The send was aborted before it was made, or the fetch itself threw.     *)
SendAbandoned ==
    /\ doc # "leaving" /\ sent < MaxSends
    /\ sent' = sent + 1
    /\ tab' = [Cancel(tab, NONE) EXCEPT
                  !.reloading = NONE, !.owner = NONE, !.rec = NONE]
    /\ UNCHANGED <<page, sends, resumes, server>>

InTransit(t) == \E x \in posted : x.token = t

SendOpens(t) ==
    /\ sends[t] = "requested" /\ ~InTransit(t)
    /\ sends' = [sends EXCEPT ![t] = "open"]
    /\ UNCHANGED <<tab, page, resumes, sent, server>>

SendRefused(t) ==
    /\ sends[t] = "requested"
    /\ sends' = [sends EXCEPT ![t] = "over"]
    /\ tab' = ClearMatching(tab, t)
    /\ posted' = {x \in posted : x.token # t}
    /\ UNCHANGED <<page, resumes, sent, run>>

(* The fetch was rejected or the body broke: perhaps after acceptance.     *)
SendBreaks(t) ==
    /\ sends[t] \in {"requested", "open"}
    /\ sends' = [sends EXCEPT ![t] = "over"]
    /\ tab' = MarkForRecovery(tab, t, FALSE)
    /\ UNCHANGED <<page, resumes, sent, server>>

(* The end of the body clears the marker unless a suspension is pending.   *)
SendEnds(t) ==
    /\ sends[t] = "open"
    /\ sends' = [sends EXCEPT ![t] = "over"]
    /\ tab' = IF Marked(tab, t) /\ tab.rec.hidden THEN ScheduleRecovery(tab)
              ELSE ClearMatching(tab, t)
    /\ UNCHANGED <<page, resumes, sent, server>>

(* The stock page resumes the stream of the marked chat, once per visit.   *)
Resume ==
    /\ doc # "leaving" /\ tab.rec # NONE
    /\ chat = tab.rec.session
    /\ resumes[tab.rec.token] = "none"
    /\ resumes' = [resumes EXCEPT ![tab.rec.token] = "requested"]
    /\ UNCHANGED <<tab, page, sends, sent, server>>

(* A resumed body owns the completion while it is open.                    *)
ResumeOpens(t) ==
    /\ resumes[t] = "requested"
    /\ resumes' = [resumes EXCEPT ![t] = IF Marked(tab, t) THEN "open" ELSE "over"]
    /\ tab' = IF Marked(tab, t) THEN Cancel([tab EXCEPT !.owner = t], t) ELSE tab
    /\ UNCHANGED <<page, sends, sent, server>>

Broken(t) ==
    IF Marked(tab, t) /\ tab.rec.phase \in {"single", "single-wait"}
    THEN "failed" ELSE "over"

ResumeRefused(t) ==
    /\ resumes[t] = "requested"
    /\ resumes' = [resumes EXCEPT ![t] = Broken(t)]
    /\ tab' = MarkForRecovery(tab, t, TRUE)
    /\ UNCHANGED <<page, sends, sent, server>>

ResumeBreaks(t) ==
    /\ resumes[t] = "open"
    /\ resumes' = [resumes EXCEPT ![t] = Broken(t)]
    /\ tab' = MarkForRecovery(Disown(tab, t), t, TRUE)
    /\ UNCHANGED <<page, sends, sent, server>>

(* The body ends with its run, or early at a gap of the stream's buffer.   *)
ResumeEnds(t) ==
    /\ resumes[t] = "open"
    /\ resumes' = [resumes EXCEPT ![t] = "over"]
    /\ tab' = FinishResumeCleanly(tab, t)
    /\ UNCHANGED <<page, sends, sent, server>>

(* The user stops or ends the marked chat: the stock request is made, then *)
(* the marker is cleared.                                                  *)
Stop ==
    /\ doc # "leaving" /\ tab.rec # NONE
    /\ tab' = ClearMatching(tab, tab.rec.token)
    /\ run' = [run EXCEPT ![tab.rec.session] = "none"]
    /\ UNCHANGED <<page, sends, resumes, sent, posted>>

-----------------------------------------------------------------------------
(* The companion's timers and its status request.                          *)

(* recover.  Its minimum interval only keeps the timer armed for longer.   *)
Recover ==
    /\ doc # "leaving" /\ tab.recovery
    /\ LET w == [tab EXCEPT !.recovery = FALSE]
           settling == tab.rec # NONE /\ tab.rec.phase \in {"multi", "single-wait"}
       IN  tab' = CASE w.rec = NONE -> w
                    [] w.rec # NONE /\ ~Eligible(w) -> w
                    [] w.rec # NONE /\ Eligible(w) /\ settling ->
                          ScheduleStatus([w EXCEPT !.rec.hidden = FALSE], "settle")
                    [] w.rec # NONE /\ Eligible(w) /\ ~settling /\ w.rec.hidden ->
                          ScheduleStatus(w, "recover")
                    [] w.rec # NONE /\ Eligible(w) /\ ~settling /\ ~w.rec.hidden ->
                          IF w.rec.phase = "single"
                          THEN ScheduleStatus(w, "single-settle") ELSE w
    /\ UNCHANGED <<page, sends, resumes, sent, server>>

(* The poll timer fires; checkStatus sends its request.                    *)
Poll ==
    /\ doc # "leaving" /\ tab.poll # NONE
    /\ LET w == [tab EXCEPT !.poll = NONE]
       IN  tab' = IF Marked(w, tab.poll.token) /\ Eligible(w) /\ w.status = NONE
                  THEN [w EXCEPT !.status =
                           [token |-> tab.poll.token, purpose |-> tab.poll.purpose,
                            session |-> w.rec.session, answer |-> NONE]]
                  ELSE w
    /\ UNCHANGED <<page, sends, resumes, sent, server>>

Waiting == tab.status # NONE /\ tab.status.answer = NONE

(* reconnect_status reads the newest run of the session.                   *)
ServerAnswers ==
    /\ Waiting
    /\ tab' = [tab EXCEPT !.status.answer = run[tab.status.session]]
    /\ UNCHANGED <<page, sends, resumes, sent, server>>

(* A transient failure, or a deleted or incognito session.                 *)
ServerFails ==
    /\ Waiting
    /\ \E a \in {"retry", "gone"} : tab' = [tab EXCEPT !.status.answer = a]
    /\ UNCHANGED <<page, sends, resumes, sent, server>>

(* A completed run for a poll that watches the page's own recovery.        *)
Completed(w, t, purpose) ==
    CASE purpose = "recover" -> ReloadForRecovery([w EXCEPT !.rec = NONE], t)
      [] purpose = "resume-eof" -> ClearMatching(w, t)
      [] purpose = "single-settle" /\ w.owner = t -> w
      [] OTHER -> ReloadForRecovery(ClearMatching(w, t), t)

(* An active run whose stream can be resumed.                              *)
Active(w, t, purpose) ==
    CASE purpose = "recover" ->
            ReloadForRecovery(
                [w EXCEPT !.rec.hidden = FALSE, !.rec.pending = 0,
                          !.rec.phase = IF w.rec.multi THEN "multi" ELSE "single"], t)
      [] purpose = "resume-eof" -> MarkForRecovery(w, t, TRUE)
      [] purpose = "single-settle" /\ w.owner = t -> w
      [] OTHER -> ScheduleStatus(w, purpose)

(* checkStatus from the answer on.                                         *)
Judge(w, t, purpose, answer) ==
    CASE answer = "gone" -> ClearMatching(w, t)
      [] answer = "retry" -> ScheduleStatus(w, purpose)
      [] answer = "pending" /\ w.rec.pending < Grace ->
            ScheduleStatus([w EXCEPT !.rec.pending = @ + 1], purpose)
      [] answer \in {"starting", "running"} /\ w.rec.phase = "single-wait" ->
            ScheduleStatus(w, "settle")
      [] answer = "starting" /\ w.rec.phase # "single-wait" ->
            ScheduleStatus([w EXCEPT !.rec.pending = 0], purpose)
      [] answer = "running" /\ w.rec.phase # "single-wait" -> Active(w, t, purpose)
      [] OTHER -> Completed(w, t, purpose)

StatusReturns ==
    /\ doc # "leaving" /\ tab.status # NONE /\ ~Waiting
    /\ LET s == tab.status
           w == [tab EXCEPT !.status = NONE]
       IN  tab' = IF Marked(w, s.token) /\ Eligible(w)
                  THEN Judge(w, s.token, s.purpose, s.answer) ELSE w
    /\ UNCHANGED <<page, sends, resumes, sent, server>>

-----------------------------------------------------------------------------
(* The page's events.                                                      *)

Hide ==
    /\ doc # "leaving" /\ visible
    /\ visible' = FALSE
    /\ tab' = Suspend(tab)
    /\ UNCHANGED <<online, chat, doc, sends, resumes, sent, server>>

Show ==
    /\ doc # "leaving" /\ ~visible
    /\ visible' = TRUE
    /\ tab' = ScheduleRecovery(tab)
    /\ UNCHANGED <<online, chat, doc, sends, resumes, sent, server>>

GoOffline ==
    /\ doc # "leaving" /\ online
    /\ online' = FALSE
    /\ tab' = IF tab.rec = NONE \/ tab.rec.token = tab.reloading THEN tab
              ELSE Cancel([tab EXCEPT !.rec.pending = 0], tab.rec.token)
    /\ UNCHANGED <<visible, chat, doc, sends, resumes, sent, server>>

(* Mutant of GoOnline: a replay is taken to be in progress without a look  *)
(* at the owner.                                                           *)
OnlineAsOwner ==
    /\ doc # "leaving" /\ ~online
    /\ online' = TRUE
    /\ tab' = IF tab.rec = NONE \/ tab.rec.token = tab.reloading THEN tab
              ELSE LET w == [tab EXCEPT !.rec.hidden =
                                  @ \/ tab.rec.phase = "none"]
                   IN  IF w.rec.phase = "single" /\ ~w.rec.hidden
                       THEN w ELSE ScheduleRecovery(w)
    /\ UNCHANGED <<visible, chat, doc, sends, resumes, sent, server>>

(* A send without a phase has nothing but this event to reconcile it; a    *)
(* resume owner is not displaced.                                          *)
GoOnline ==
    /\ doc # "leaving" /\ ~online
    /\ online' = TRUE
    /\ tab' = IF tab.rec = NONE \/ tab.rec.token = tab.reloading THEN tab
              ELSE LET w == [tab EXCEPT !.rec.hidden =
                                  @ \/ tab.rec.phase = "none"]
                   IN  IF w.rec.phase = "single" /\ ~w.rec.hidden
                          /\ w.owner = w.rec.token
                       THEN w ELSE ScheduleRecovery(w)
    /\ UNCHANGED <<visible, chat, doc, sends, resumes, sent, server>>

(* pushState, replaceState or popstate: scheduleRouteRecovery.             *)
Navigate(c) ==
    /\ doc # "leaving"
    /\ chat' = c
    /\ tab' = IF tab.rec = NONE THEN tab
              ELSE IF tab.rec.session = c THEN ScheduleRecovery(tab)
              ELSE [tab EXCEPT !.rec.pending = 0]
    /\ resumes' = IF c = chat THEN resumes
                  ELSE [t \in Tokens |-> IF resumes[t] = "requested" \/
                                            resumes[t] = "open"
                                         THEN resumes[t] ELSE "none"]
    /\ UNCHANGED <<visible, online, doc, sends, sent, server>>

(* The document is being left: by a committed reload or by the user.       *)
PageHide ==
    /\ doc # "leaving"
    /\ doc' = "leaving"
    /\ tab' = Suspend(tab)
    /\ UNCHANGED <<visible, online, chat, sends, resumes, sent, server>>

Resuming(w, persisted) ==
    w.rec # NONE /\ (persisted \/ w.rec.hidden \/ w.rec.phase # "none")

(* pageshow: the first one of a new document, or the same one is back.     *)
PageShow ==
    /\ doc # "live"
    /\ tab.reloading # NONE => doc = "leaving" /\ Cancelled
    /\ doc' = "live"
    /\ LET w == [tab EXCEPT !.reloading = NONE]
       IN  tab' = IF Resuming(w, doc = "leaving") THEN ScheduleRecovery(w) ELSE w
    /\ UNCHANGED <<visible, online, chat, sends, resumes, sent, server>>

(* The new document keeps only the stored marker.                          *)
NewDocument ==
    /\ doc = "leaving"
    /\ doc' = "loading"
    /\ LET w == [rec |-> tab.rec, recovery |-> FALSE, poll |-> NONE,
                 status |-> NONE, reloading |-> NONE, owner |-> NONE]
       IN  tab' = IF Resuming(w, FALSE) THEN ScheduleRecovery(w) ELSE w
    /\ sends' = [t \in Tokens |-> IF sends[t] = "none" THEN "none" ELSE "over"]
    /\ resumes' = NoStreams
    /\ UNCHANGED <<visible, online, chat, sent, server>>

(* The marker outlives its four hours and is dropped when it is loaded.    *)
Expire ==
    /\ doc # "leaving" /\ tab.rec # NONE /\ tab.reloading = NONE
    /\ tab' = [tab EXCEPT !.rec = NONE]
    /\ UNCHANGED <<page, sends, resumes, sent, server>>

-----------------------------------------------------------------------------
(* The server.                                                             *)

(* A send arrives: its reservation is committed before its fence.          *)
Accept(x) ==
    /\ posted' = posted \ {x}
    /\ run' = [run EXCEPT ![x.session] = "pending"]
    /\ UNCHANGED <<tab, page, sends, resumes, sent>>

(* A send whose request was given up never arrives.                        *)
Lose(x) ==
    /\ sends[x.token] # "requested"
    /\ posted' = posted \ {x}
    /\ UNCHANGED <<tab, page, sends, resumes, sent, run>>

(* The fence is published, then the stream's buffer.                       *)
Advance(c) ==
    /\ run[c] \in {"pending", "starting"}
    /\ run' = [run EXCEPT ![c] = IF @ = "pending" THEN "starting" ELSE "running"]
    /\ UNCHANGED <<tab, page, sends, resumes, sent, posted>>

Finish(c) ==
    /\ run[c] # "none"
    /\ run' = [run EXCEPT ![c] = "none"]
    /\ UNCHANGED <<tab, page, sends, resumes, sent, posted>>

-----------------------------------------------------------------------------
StreamStep ==
    \E t \in Tokens :
        \/ SendOpens(t) \/ SendRefused(t) \/ SendBreaks(t) \/ SendEnds(t)
        \/ ResumeOpens(t) \/ ResumeRefused(t) \/ ResumeBreaks(t) \/ ResumeEnds(t)

UserStep ==
    \/ \E c \in Chats, multi \in BOOLEAN : Send(c, multi)
    \/ SendAbandoned \/ Resume \/ Stop
    \/ Hide \/ Show \/ GoOffline \/ GoOnline
    \/ \E c \in Chats : Navigate(c)

Next ==
    \/ UserStep \/ StreamStep
    \/ Recover \/ Poll \/ ServerAnswers \/ ServerFails \/ StatusReturns
    \/ PageHide \/ PageShow \/ NewDocument \/ Expire
    \/ \E x \in posted : Accept(x) \/ Lose(x)
    \/ \E c \in Chats : Advance(c) \/ Finish(c)

Spec == Init /\ [][Next]_vars

(* location.reload() unloads the document.                                 *)
Reload == tab.reloading # NONE /\ PageHide

ResumeSettles(t) ==
    ResumeOpens(t) \/ ResumeRefused(t) \/ ResumeBreaks(t) \/ ResumeEnds(t)

SendSettles == \E x \in posted : Accept(x) \/ Lose(x)

(* Timers fire, promises settle, a committed reload happens, the stock     *)
(* resume settles and its body ends, an active run ends, and the server's  *)
(* failures are transient.  The user and the send stream owe nothing.      *)
FairSpec ==
    /\ Spec
    /\ WF_vars(Recover) /\ WF_vars(Poll) /\ WF_vars(StatusReturns)
    /\ SF_vars(ServerAnswers)
    /\ WF_vars(Reload) /\ WF_vars(PageShow \/ NewDocument)
    /\ \A t \in Tokens : WF_vars(ResumeSettles(t))
    /\ WF_vars(SendSettles)
    /\ \A c \in Chats : WF_vars(run[c] # "pending" /\ Finish(c))

-----------------------------------------------------------------------------
Reloads(t) == tab'.reloading = t /\ tab.reloading # t

(* A status answer reloads only the page it was asked for: the marked chat *)
(* is selected, visible and online at that very turn (checkStatus after    *)
(* its await; docs/onyx_patch_info.md:823-826).                            *)
ReloadsMarkedPage ==
    [][\A t \in Tokens : Reloads(t) =>
          /\ visible /\ online
          /\ Marked(tab, t) /\ chat = tab.rec.session
          /\ tab.status # NONE /\ tab.status.token = t]_vars

(* Once a replay of a recovered run has failed, the page is reloaded only  *)
(* when the run is over: no loop of replays and reloads (markForRecovery,  *)
(* the comment on failed replays).                                         *)
ReplayedOnce ==
    [][\A t \in Tokens :
          Reloads(t) /\ (resumes[t] = "failed" \/ tab.rec.phase = "single-wait")
            => tab.status.answer \in {"none", "pending"}]_vars

(* While the outgoing document is being replaced, no stream, visibility or *)
(* page event of it clears the marker or records another suspension        *)
(* (clearMatching, the comment on committed reloads).                      *)
MarkerFrozen ==
    [][\A t \in Tokens :
          tab.reloading = t /\ tab'.reloading = t /\ Marked(tab, t) =>
            /\ Marked(tab', t)
            /\ tab'.rec.hidden = tab.rec.hidden
            /\ tab'.rec.phase = tab.rec.phase]_vars

(* No reload surprises the user: it is of the marked page, it does not     *)
(* repeat a failed replay, and what the outgoing document still hears does *)
(* not change what the next one will find (reloadForRecovery).             *)
ReloadsSound == ReloadsMarkedPage /\ ReplayedOnce /\ MarkerFrozen

(* The end of a stream, or a status that finds the run completed, does not *)
(* drop the marker of a suspended tab without the reload that shows the    *)
(* answer (finishResumeCleanly, "Do not let EOF downgrade that work to a   *)
(* marker cleanup").                                                       *)
EofKeepsReconciliation ==
    [][tab.rec # NONE /\ tab.rec.hidden /\ tab'.rec = NONE =>
          /\ ~\E t \in Tokens : SendEnds(t) \/ ResumeEnds(t)
          /\ StatusReturns /\ tab.status.answer \in {"none", "pending"}
                => tab'.reloading = tab.rec.token]_vars

(* The two together: a reload happens when it is due, and it is not        *)
(* forgotten when the stream ends first.                                   *)
ReloadsInOrder == ReloadsSound /\ EofKeepsReconciliation

(* Recovery work of an eligible page is never lost: while the marker asks   *)
(* for recovery, a timer is armed, a status request is in flight, or a      *)
(* resumed body owns the completion.  In particular a same-realm pageshow   *)
(* "resumes the already-persisted phase" (docs/onyx_patch_info.md:838-840), *)
(* which the code does not do for a page whose reload did not replace it.   *)
RecoveryNotLost ==
    LET w == tab
    IN  w.rec # NONE /\ (w.rec.hidden \/ w.rec.phase # "none")
          /\ Eligible(w) /\ doc = "live" /\ w.reloading # w.rec.token
            => \/ w.recovery \/ w.poll # NONE \/ w.status # NONE
               \/ w.owner = w.rec.token /\ resumes[w.owner] = "open"

(* The same of a page whose state is well formed, when a reload replaces   *)
(* the document (scheduleRecovery, scheduleStatus and their callers).      *)
PageSafe == TypeOK /\ RecoveryNotLost

(* A page that stays with its chat ends its recovery.                      *)
Stays(c) ==
    visible /\ online /\ chat = c /\ (doc = "leaving" => tab.reloading # NONE)

Recovering(c) ==
    /\ tab.rec # NONE
    /\ tab.rec.session = c
    /\ tab.rec.hidden \/ tab.rec.phase # "none"

(* If the tab stays visible, online and on the chat, its recovery ends and *)
(* the page is at rest, whatever failed or reloaded on the way.            *)
RecoveryEnds ==
    \A c \in Chats : <>[]Stays(c) => <>[](~Recovering(c) /\ doc = "live")
-----------------------------------------------------------------------------
(* The inductive invariant behind PageSafe and ReloadsInOrder.  What the   *)
(* companion waits for belongs to the marker it has; a committed reload is *)
(* of that marker too, and has stopped all the work;                       *)
WorkIsMarked ==
    tab.rec # NONE =>
        /\ tab.poll # NONE => tab.poll.token = tab.rec.token
        /\ tab.status # NONE => tab.status.token = tab.rec.token
        /\ tab.reloading # NONE =>
              /\ tab.reloading = tab.rec.token
              /\ ~tab.recovery /\ tab.poll = NONE /\ tab.status = NONE

(* an owner has its body, unless the document is being replaced;           *)
OwnerIsOpen ==
    tab.owner # NONE /\ tab.owner # tab.reloading => resumes[tab.owner] = "open"

(* nobody asks for a suspended tab what only the end of a body asks;       *)
SuspensionOutlivesEof ==
    tab.rec # NONE /\ tab.rec.hidden =>
        /\ tab.poll # NONE => tab.poll.purpose # "resume-eof"
        /\ tab.status # NONE => tab.status.purpose # "resume-eof"

(* nothing is asked offline;                                               *)
OfflineIsCalm ==
    ~online /\ tab.rec # NONE => tab.poll = NONE /\ tab.status = NONE

(* and the marker knows of a replay that failed.                           *)
ReplayRemembered ==
    /\ tab.rec # NONE /\ tab.reloading = NONE /\ resumes[tab.rec.token] = "failed"
          => tab.rec.phase = "single-wait"
    /\ tab.rec # NONE => tab.rec.token <= sent
    /\ \A t \in Tokens : t > sent => resumes[t] = "none"

WebuiInv ==
    /\ PageSafe /\ WorkIsMarked /\ OwnerIsOpen
    /\ SuspensionOutlivesEof /\ OfflineIsCalm /\ ReplayRemembered
=============================================================================
