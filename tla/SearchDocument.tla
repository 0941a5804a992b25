--------------------------- MODULE SearchDocument ---------------------------
(***************************************************************************)
(* One search of a browser provider on its home page                       *)
(* (private_onyx_obscura/client.py): wait for the form, enter the query,   *)
(* submit, recognise the result document among the events of the target,   *)
(* read it, and wait for its results.                                      *)
(*                                                                         *)
(* The page runs scripts of its own between any two commands: the form may *)
(* appear, change or be filled in, and documents load, whose events reach  *)
(* the client in the order the browser sends them.  A loader is a number;  *)
(* 0 is the home page.  The deadline of the request passes at any moment.  *)
(***************************************************************************)
EXTENDS Naturals, FiniteSets

CONSTANTS
    Chars,            \* characters of the query
    MaxLoads,         \* documents loaded after the home page
    MaxEdits          \* changes of the form by the page's scripts

VARIABLES
    at,          \* where the search is
    mode,        \* text_entry_mode
    form,        \* what inspect() would find
    field,       \* the query control: foreign text and characters typed
    keys,        \* characters sent
    edits,       \* changes made by the page
    sent,        \* the text of every submission
    events,      \* events since event_start, by kind and loader
    early,       \* events before it
    begun,       \* last loader begun
    doc,         \* loader of the document in the frame
    loader,      \* loader_id: the document taken for the result
    html,        \* loader of the HTML held
    expired      \* request_deadline has passed

vars == <<at, mode, form, field, keys, edits, sent, events, early, begun, doc, loader,
          html, expired>>
page == <<form, field, edits, begun, doc>>
result == <<loader, html>>

Kinds == {"response", "navigated", "finished", "stopped"}
Loaders == 0..MaxLoads
Query == [foreign |-> FALSE, typed |-> Chars]
Blank == [foreign |-> FALSE, typed |-> 0]

TypeOK ==
    /\ at \in {"ready", "challenge", "prepare", "clear", "type", "verify", "submit",
               "response", "barrier", "terminal", "dom", "results", "poll", "reread",
               "done", "failed"}
    /\ mode \in {"instant", "timed"}
    /\ form \in {"absent", "good", "bad"}
    /\ field \in [foreign : BOOLEAN, typed : 0..Chars]
    /\ keys \in 0..Chars /\ edits \in 0..MaxEdits
    /\ Cardinality(sent) \in 0..1
    /\ events \cap early = {}
    /\ events \cup early \subseteq Kinds \X Loaders
    /\ {begun, doc, loader, html} \subseteq Loaders
    /\ expired \in BOOLEAN

Init ==
    /\ at = "ready"
    /\ mode \in {"instant", "timed"}
    /\ form \in {"absent", "good", "bad"}
    /\ field \in {Blank, [foreign |-> TRUE, typed |-> 0]}
    /\ keys = 0 /\ edits = 0 /\ sent = {} /\ events = {} /\ early = {}
    /\ begun = 0 /\ doc = 0 /\ loader = 0 /\ html = 0
    /\ expired = FALSE

-----------------------------------------------------------------------------
(* What the page and the browser do.  The form of a page is followed until *)
(* it is submitted.                                                        *)
Script ==
    /\ edits < MaxEdits /\ sent = {}
    /\ edits' = edits + 1
    /\ \/ form' \in {"absent", "good", "bad"} \ {form} /\ UNCHANGED field
       \/ field' \in {Blank, [field EXCEPT !.foreign = TRUE]} \ {field} /\ UNCHANGED form
    /\ UNCHANGED <<at, mode, keys, sent, events, early, begun, doc, result, expired>>

(* A submitted form, or a script, starts a document.                       *)
Load ==
    /\ begun < MaxLoads
    /\ begun' = begun + 1
    /\ UNCHANGED <<at, mode, form, field, keys, edits, sent, events, early, doc, result, expired>>

(* The response of a document is its first event; a document is in the     *)
(* frame once the frame has navigated, with a form of its own or none.     *)
Emit(k, l) ==
    /\ l <= begun /\ <<k, l>> \notin events \cup early
    /\ IF l = 0
       THEN k = "stopped"
       ELSE k # "response" => <<"response", l>> \in events \cup early
    /\ events' = events \cup {<<k, l>>}
    /\ IF k = "navigated" /\ l > doc
       THEN /\ doc' = l
            /\ IF sent = {} THEN form' \in {"absent", "good"} /\ field' = Blank
               ELSE UNCHANGED <<form, field>>
       ELSE UNCHANGED <<doc, form, field>>
    /\ UNCHANGED <<at, mode, keys, edits, sent, early, begun, result, expired>>

Deadline ==
    /\ ~expired
    /\ expired' = TRUE
    /\ UNCHANGED <<at, mode, keys, sent, events, early, page, result>>

Browser ==
    \/ Script \/ Load
    \/ \E k \in Kinds, l \in Loaders : Emit(k, l)

-----------------------------------------------------------------------------

(* remaining(): a command is sent only before the deadline.                *)
Remaining(t) == IF expired THEN "failed" ELSE t

(* A command may fail or time out all the same.                            *)
Command(s, t) ==
    /\ at = s
    /\ at' \in {Remaining(t), "failed"}

(* operation "ready": only an absent control is waited for; every other    *)
(* departure from the policy ends the search.                              *)
ReadyResult ==
    CASE form = "good" -> IF mode = "instant" THEN "submit" ELSE "prepare"
      [] form = "absent" -> "challenge"
      [] OTHER -> "failed"

(* operation "instant" enters the query and verifies it in one call.       *)
AwaitForm ==
    /\ Command("ready", ReadyResult)
    /\ field' = IF at' = "submit" THEN Query ELSE field
    /\ UNCHANGED <<mode, form, keys, edits, sent, events, early, begun, doc, result, expired>>

(* A page that waits for its form is looked at for a challenge.            *)
LookForChallenge ==
    /\ Command("challenge", "ready")
    /\ UNCHANGED <<mode, keys, sent, events, early, page, result, expired>>

(* operation "timed-prepare" selects the text of the control, and an empty *)
(* insertion clears it.                                                    *)
Select ==
    /\ Command("prepare", IF form = "good" THEN "clear" ELSE "failed")
    /\ UNCHANGED <<mode, keys, sent, events, early, page, result, expired>>

Clear ==
    /\ Command("clear", "type")
    /\ field' = IF at' = "type" THEN Blank ELSE field
    /\ UNCHANGED <<mode, form, keys, edits, sent, events, early, begun, doc, result, expired>>

(* One character: keyDown, keyUp and the delay.                            *)
Type ==
    /\ keys < Chars
    /\ Command("type", "type")
    /\ keys' = keys + 1
    /\ field' = IF at' = "type" THEN [field EXCEPT !.typed = @ + 1] ELSE field
    /\ UNCHANGED <<mode, form, edits, sent, events, early, begun, doc, result, expired>>

(* operation "verify": the page may have changed what was typed.           *)
Verify ==
    /\ keys = Chars
    /\ Command("type", IF form = "good" /\ field = Query THEN "submit" ELSE "failed")
    /\ UNCHANGED <<mode, keys, sent, events, early, page, result, expired>>

SubmitAccepts == form = "good" /\ field = Query

(* A submission whose answer is lost is not repeated.                      *)
AfterSubmit == IF expired THEN {"failed"} ELSE {"response", "failed"}

(* operation "submit", with the events counted from before it.  The call   *)
(* checks the form and its text again and submits in one turn of the page. *)
Submit ==
    /\ at = "submit"
    /\ IF ~expired /\ SubmitAccepts
       THEN /\ sent' = sent \cup {<<Cardinality(sent), field>>}
            /\ at' \in AfterSubmit
       ELSE at' = "failed" /\ UNCHANGED sent
    /\ events' = {}
    /\ early' = early \cup events
    /\ UNCHANGED <<mode, keys, page, result, expired>>

Responses == {l \in Loaders \ {0} : <<"response", l>> \in events}

(* _wait_for_distinct_search_document: the first document that is not the  *)
(* home page, then any frameStoppedLoading of the frame.                   *)
AwaitDocument ==
    /\ at = "response"
    /\ IF Responses # {}
       THEN /\ loader' = CHOOSE l \in Responses : \A m \in Responses : l <= m
            /\ at' = "barrier"
       ELSE expired /\ at' = "failed" /\ UNCHANGED loader
    /\ UNCHANGED <<mode, keys, sent, events, early, page, html, expired>>

AwaitStopped ==
    /\ at = "barrier"
    /\ IF \E l \in Loaders : <<"stopped", l>> \in events
       THEN at' = "terminal"
       ELSE expired /\ at' = "failed"
    /\ UNCHANGED <<mode, keys, sent, events, early, page, result, expired>>

(* Mutant of Complete: the barrier is taken for the end of the document.   *)
CompleteAtBarrier == <<"navigated", loader>> \in events

(* _search_event_document: the document of the loader is finished and in   *)
(* the frame.  frameStoppedLoading named no document.                      *)
Complete ==
    /\ <<"finished", loader>> \in events
    /\ <<"navigated", loader>> \in events

(* A target attached, a second response of the loader, or a URL on another *)
(* host than those allowed ends the search.                                *)
TerminalEvents ==
    /\ at = "terminal"
    /\ at' \in IF Complete THEN {"dom", "failed"} ELSE {"failed"}
    /\ UNCHANGED <<mode, keys, sent, events, early, page, result, expired>>

(* _search_dom reads whatever document is in the frame.  An ordinary page  *)
(* of a provider with result selectors is waited for, any other is taken.  *)
ReadDom ==
    /\ at = "dom"
    /\ at' \in IF expired THEN {"failed"} ELSE {"results", "done", "failed"}
    /\ html' = IF at' = "failed" THEN html ELSE doc
    /\ UNCHANGED <<mode, keys, sent, events, early, page, loader, expired>>

(* _wait_for_search_result_dom: read again once a terminal state shows or  *)
(* nothing is pending any more; at the deadline the first HTML is taken.   *)
ResultState ==
    /\ at = "results"
    /\ at' \in IF expired THEN {"failed"} ELSE {"reread", "done", "poll", "failed"}
    /\ UNCHANGED <<mode, keys, sent, events, early, page, result, expired>>

Poll ==
    /\ at = "poll"
    /\ at' \in IF expired THEN {"done"} ELSE {"reread", "poll", "failed"}
    /\ UNCHANGED <<mode, keys, sent, events, early, page, result, expired>>

Reread ==
    /\ Command("reread", "done")
    /\ html' = IF at' = "done" THEN doc ELSE html
    /\ UNCHANGED <<mode, keys, sent, events, early, page, loader, expired>>

Client ==
    \/ AwaitForm \/ LookForChallenge \/ Select \/ Clear \/ Type \/ Verify \/ Submit
    \/ AwaitDocument \/ AwaitStopped \/ TerminalEvents \/ ReadDom
    \/ ResultState \/ Poll \/ Reread

Next == Client \/ (at \notin {"done", "failed"} /\ (Browser \/ Deadline))

Spec == Init /\ [][Next]_vars

(* The client's steps are taken, and time passes.                          *)
FairSpec == Spec /\ WF_vars(Client) /\ WF_vars(Deadline /\ at \notin {"done", "failed"})

-----------------------------------------------------------------------------
(* A result that is returned is the document of the one submission: one    *)
(* form was submitted, with the query as its text although the page may    *)
(* rewrite the field at any moment, and the document is not the home page, *)
(* came after the submission and has arrived in full (submit_search).  The *)
(* HTML is of that document or of one that replaced it.                    *)
ResultIsOfTheQuery ==
    /\ TypeOK
    /\ \A s \in sent : s[2] = Query
    /\ at \in {"dom", "results", "poll", "reread", "done"} =>
          /\ Cardinality(sent) = 1
          /\ loader > 0
          /\ {<<"response", loader>>, <<"finished", loader>>} \subseteq events
    /\ at \in {"results", "poll", "done"} => html >= loader

(* A search ends, whatever the page does, by its deadline.                 *)
SearchEnds == at = "ready" ~> at \in {"done", "failed"}
-----------------------------------------------------------------------------
(* The inductive invariant behind ResultIsOfTheQuery.                      *)
Entering == {"ready", "challenge", "prepare", "clear", "type", "verify", "submit"}
HasLoader == {"barrier", "terminal", "dom", "results", "poll", "reread", "done"}
Arrived == {"dom", "results", "poll", "reread", "done"}

(* There is one submission, from the moment it is made,                    *)
SubmittedOnce ==
    /\ sent \in {{}, {<<0, Query>>}}
    /\ at \in Entering => sent = {}
    /\ at \in HasLoader \cup {"response"} => sent # {}

(* the document taken for the result responded after it, and later arrived *)
(* in full, as the one in the frame or one that was replaced,              *)
LoaderArrives ==
    /\ at \in HasLoader => loader > 0 /\ <<"response", loader>> \in events
    /\ at \in Arrived => <<"finished", loader>> \in events /\ doc >= loader

(* and the frame does not go back to an earlier document.                  *)
FrameAdvances ==
    \A l \in Loaders : <<"navigated", l>> \in events \cup early => doc >= l

(* What is in the field while it is typed into was sent, or is the page's. *)
TypedIsSent == at = "type" => field.typed <= keys

(* The HTML is never of an earlier document than the result.               *)
HtmlIsLater == at \in {"results", "poll", "done"} => html >= loader

SearchInv ==
    /\ TypeOK /\ SubmittedOnce /\ LoaderArrives /\ FrameAdvances
    /\ HtmlIsLater /\ TypedIsSent
=============================================================================
