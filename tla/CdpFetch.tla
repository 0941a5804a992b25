------------------------------ MODULE CdpFetch ------------------------------
(***************************************************************************)
(* fetch of the browser client (private_onyx_obscura/client.py): one        *)
(* navigation over a CDP connection, the message exchange of _RawCdp under  *)
(* it, the body stream of _drain_body, and the connection an ObscuraSession *)
(* retains between fetches.                                                 *)
(*                                                                          *)
(* The browser answers commands in order, sends the events of a load when   *)
(* it likes, and may stop answering or drop the connection.  Every await    *)
(* of the client has a deadline and may be cancelled, those of the cleanup  *)
(* too.  Time is abstract: a deadline may pass at any await.                *)
(***************************************************************************)
EXTENDS Naturals, Sequences, SequencesExt

CONSTANTS MaxFetch,   \* fetches over one owner
          MaxCancel,  \* cancellations over all of them
          MaxSent     \* commands per fetch, which bounds the pieces of a body

VARIABLES
    owned,     \* a session owner keeps the connection
    sock,      \* the connection: "none", "open", "dropped"
    at,        \* the command or event the fetch awaits
    n,         \* fetches begun
    sent,      \* next_id: the number of the last command
    wire,      \* messages from the browser not yet received
    todo,      \* commands the browser has not handled
    events,    \* the connection's event buffer
    loaded,    \* events of the current page load the browser has sent
    tabs,      \* targets open in the browser
    streams,   \* body streams open in the browser
    target,    \* target_id is known
    handle,    \* the body stream's handle is known
    reusable,
    escaped,   \* a cancellation interrupted the last steps of the cleanup
    cancels,
    result     \* of the last fetch: "none", "page", "error"

vars == <<owned, sock, at, n, sent, wire, todo, events, loaded, tabs, streams, target,
          handle, reusable, escaped, cancels, result>>

browser == <<loaded, tabs, streams>>
attempt == <<owned, n, escaped>>

Commands == {"create", "enable", "tree", "navigate", "dom", "body open", "body read",
             "body close", "target close"}
Reading == {"body open", "body read"}
Closing == {"body close", "target close"}
(* "document" stands for responseReceived and frameNavigated.               *)
LoadEvents == {"document", "finished", "stop"}

Reply(id, ok) == [kind |-> "reply", id |-> id, name |-> IF ok THEN "ok" ELSE "error"]
Event(id, name) == [kind |-> "event", id |-> id, name |-> name]

TypeOK ==
    /\ owned \in BOOLEAN
    /\ sock \in {"none", "open", "dropped"}
    /\ at \in Commands \cup {"idle", "connect", "barrier"}
    /\ n \in 0..MaxFetch
    /\ sent \in Nat
    /\ \A i \in DOMAIN wire : wire[i].kind \in {"reply", "event"}
    /\ \A i \in DOMAIN todo : todo[i].cmd \in Commands
    /\ events \subseteq (0..MaxFetch) \X (LoadEvents \cup {"attached", "blank stop"})
    /\ loaded \subseteq LoadEvents \cup {"start"}
    /\ tabs \subseteq 1..MaxFetch /\ streams \subseteq 1..MaxFetch
    /\ target \in BOOLEAN /\ handle \in BOOLEAN
    /\ reusable \in BOOLEAN /\ escaped \in BOOLEAN
    /\ cancels \in 0..MaxCancel
    /\ result \in {"none", "page", "error"}

Init ==
    /\ owned \in BOOLEAN
    /\ sock = "none" /\ at = "idle"
    /\ n = 0 /\ sent = 0
    /\ wire = <<>> /\ todo = <<>>
    /\ events = {} /\ loaded = {}
    /\ tabs = {} /\ streams = {}
    /\ target = FALSE /\ handle = FALSE
    /\ reusable = TRUE /\ escaped = FALSE
    /\ cancels = 0
    /\ result = "none"

-----------------------------------------------------------------------------
(* The client's moves from one await to the next; w is what is left of the *)
(* wire.                                                                   *)

(* Mutant of Buffer: the setup events are dropped one command too early.   *)
BufferEarly(await) == IF await = "enable" THEN {} ELSE events

(* The event buffer after an await: navigation starts with an empty one, so *)
(* that the stop of about:blank cannot end the wait for the page.           *)
Buffer(await) == IF await \in {"connect", "tree"} THEN {} ELSE events

Command(cmd) ==
    /\ at' = cmd
    /\ sent' = sent + 1
    /\ todo' = IF sock' = "open" THEN Append(todo, [id |-> sent + 1, cmd |-> cmd, n |-> n])
               ELSE todo

Go(cmd, w) ==
    /\ UNCHANGED sock
    /\ Command(cmd)
    /\ wire' = w
    /\ events' = Buffer(at)
    /\ UNCHANGED browser

(* The end of fetch: a connection that may not be reused, or has no owner, *)
(* is closed; the browser drops its context.                               *)
Leave(keep, w) ==
    /\ at' = "idle"
    /\ sock' = IF keep THEN sock ELSE "none"
    /\ wire' = IF keep THEN w ELSE <<>>
    /\ todo' = IF keep THEN todo ELSE <<>>
    /\ tabs' = IF keep THEN tabs ELSE {}
    /\ streams' = IF keep THEN streams ELSE {}
    /\ events' = {}
    /\ UNCHANGED <<sent, loaded>>

(* The finally clauses of _drain_body and of fetch.                        *)
Cleanup(known, w) ==
    IF handle THEN Go("body close", w)
    ELSE IF known THEN Go("target close", w)
    ELSE Leave(owned /\ reusable', w)

Succeed(w) ==
    /\ result' = "page"
    /\ Cleanup(TRUE, w)
    /\ UNCHANGED <<target, handle, reusable>>

Fail(known, w) ==
    /\ result' = "error"
    /\ reusable' = FALSE
    /\ target' = known
    /\ Cleanup(known, w)
    /\ UNCHANGED handle

-----------------------------------------------------------------------------
(* fetch connects, or takes the owner's connection.                        *)
Begin ==
    /\ at = "idle" /\ n < MaxFetch
    /\ n' = n + 1
    /\ at' = "connect"
    /\ loaded' = {}
    /\ target' = FALSE /\ handle' = FALSE
    /\ reusable' = TRUE /\ escaped' = (escaped /\ sock # "none")
    /\ result' = "none"
    /\ UNCHANGED <<owned, sock, sent, wire, todo, events, tabs, streams, cancels>>

Connect ==
    /\ at = "connect"
    /\ sock' = IF sock = "none" THEN "open" ELSE sock
    /\ Command("create")
    /\ events' = Buffer(at)
    /\ UNCHANGED <<attempt, wire, browser, target, handle, reusable, cancels, result>>

Awaited == wire # <<>> /\ Head(wire).kind = "reply" /\ Head(wire).id = sent

(* _RawCdp: a reply to an earlier command is dropped, an event is kept.    *)
Receive ==
    /\ at \in Commands \cup {"barrier"}
    /\ wire # <<>> /\ ~(Awaited /\ at # "barrier")
    /\ wire' = Tail(wire)
    /\ events' = IF Head(wire).kind = "reply" THEN events
                 ELSE events \cup {<<Head(wire).id, Head(wire).name>>}
    /\ UNCHANGED <<attempt, sock, at, sent, todo, browser, target, handle, reusable,
                   cancels, result>>

(* The reply to a command of the setup, to Page.navigate or to the reading *)
(* of the DOM and the body.                                                *)
Answered ==
    /\ at \in Commands \ Closing /\ Awaited /\ Head(wire).name = "ok"
    /\ \/ /\ at = "create" /\ <<n, "attached">> \in events
          /\ target' = TRUE /\ UNCHANGED <<handle, reusable, result>>
          /\ Go("enable", Tail(wire))
       \/ /\ at = "enable"
          /\ UNCHANGED <<target, handle, reusable, result>>
          /\ Go("tree", Tail(wire))
       \/ /\ at = "tree"
          /\ UNCHANGED <<target, handle, reusable, result>>
          /\ Go("navigate", Tail(wire))
       \/ /\ at = "navigate"
          /\ at' = "barrier" /\ wire' = Tail(wire)
          /\ UNCHANGED <<sock, sent, todo, events, browser, target, handle, reusable,
                         result>>
       \/ /\ at = "dom"
          /\ UNCHANGED <<target, handle, reusable, result>>
          /\ Go("body open", Tail(wire))
       \/ at \in {"dom", "body read"} /\ Succeed(Tail(wire))
       \/ /\ at \in Reading /\ sent < MaxSent * n
          /\ handle' = TRUE /\ UNCHANGED <<target, reusable, result>>
          /\ Go("body read", Tail(wire))
    /\ UNCHANGED <<attempt, cancels>>

(* An error, an answer that does not fit, or a caller finalised before the *)
(* navigation; an HTML page does without a body that was not retained.     *)
Refused ==
    /\ at \in Commands \ Closing /\ Awaited
    /\ \/ Fail(target \/ (at = "create" /\ Head(wire).name = "ok"), Tail(wire))
       \/ at = "body open" /\ Head(wire).name = "error" /\ Succeed(Tail(wire))
    /\ UNCHANGED <<attempt, cancels>>

(* The barrier: the stop event of the frame, then the terminal events of   *)
(* the document.                                                           *)
Stopped ==
    /\ at = "barrier"
    /\ events \cap {<<n, "stop">>, <<n, "blank stop">>} # {}
    /\ IF \A e \in {"document", "finished"} : <<n, e>> \in events
       THEN /\ \E next \in {"dom", "body open"} : Go(next, wire)
            /\ UNCHANGED <<target, handle, reusable, result>>
       ELSE Fail(target, wire)
    /\ UNCHANGED <<attempt, cancels>>

(* An unconfirmed cleanup: the connection is not used again.               *)
CloseFails(ok) == ~ok

(* The reply to IO.close or Target.closeTarget.                            *)
Closed ==
    /\ at \in Closing /\ Awaited
    /\ reusable' = (reusable /\ ~CloseFails(Head(wire).name = "ok"))
    /\ IF at = "body close" THEN Go("target close", Tail(wire))
       ELSE Leave(owned /\ reusable', Tail(wire))
    /\ handle' = FALSE
    /\ UNCHANGED <<attempt, target, cancels, result>>

(* A deadline passes, or the connection is lost.  A body lost with its     *)
(* connection is a body that was not retained.                             *)
Deadline ==
    /\ at \notin {"idle"} \cup Closing
    /\ \/ Fail(target, wire)
       \/ at \in Reading /\ sock = "dropped" /\ Succeed(wire)
    /\ UNCHANGED <<attempt, cancels>>

CloseDeadline ==
    /\ at \in Closing
    /\ reusable' = FALSE
    /\ IF at = "body close" THEN Go("target close", wire) ELSE Leave(FALSE, wire)
    /\ handle' = FALSE
    /\ UNCHANGED <<attempt, target, cancels, result>>

(* The task is cancelled at an await.  One that hits Target.closeTarget    *)
(* passes the handlers there: the owner keeps its connection.              *)
Cancel ==
    /\ cancels < MaxCancel /\ cancels' = cancels + 1
    /\ \/ /\ at \notin {"idle"} \cup Closing
          /\ Fail(target, wire)
          /\ UNCHANGED attempt
       \/ /\ at = "body close"
          /\ result' = "error" /\ reusable' = FALSE /\ handle' = FALSE
          /\ Go("target close", wire)
          /\ UNCHANGED <<attempt, target>>
       \/ /\ at = "target close"
          /\ result' = "error" /\ escaped' = TRUE
          /\ Leave(owned, wire)
          /\ UNCHANGED <<owned, n, target, handle, reusable>>

-----------------------------------------------------------------------------
(* The browser and the network.                                            *)

Say(messages) == wire' = wire \o messages

client == <<owned, at, n, sent, events, target, handle, reusable, escaped, cancels, result>>

Serve ==
    /\ sock = "open" /\ todo # <<>>
    /\ todo' = Tail(todo)
    /\ LET c == Head(todo) IN \E ok \in BOOLEAN :
          /\ \/ /\ c.cmd = "create" /\ ok
                /\ Say(<<Event(c.n, "attached"), Reply(c.id, ok)>>)
             \/ /\ c.cmd = "enable" /\ ok
                /\ \/ Say(<<Event(c.n, "blank stop"), Reply(c.id, ok)>>)
                   \/ Say(<<Reply(c.id, ok), Event(c.n, "blank stop")>>)
             \/ /\ c.cmd \notin {"create", "enable"} \/ ~ok
                /\ Say(<<Reply(c.id, ok)>>)
          /\ tabs' = IF ~ok THEN tabs
                     ELSE IF c.cmd = "create" THEN tabs \cup {c.n}
                     ELSE IF c.cmd = "target close" THEN tabs \ {c.n} ELSE tabs
          /\ streams' = IF ~ok THEN streams
                        ELSE IF c.cmd = "body open" THEN streams \cup {c.n}
                        ELSE IF c.cmd = "body close" THEN streams \ {c.n} ELSE streams
          /\ loaded' = IF ok /\ c.cmd = "navigate" /\ c.n = n THEN {"start"} ELSE loaded
    /\ UNCHANGED <<client, sock>>

Emit(e) ==
    /\ sock = "open" /\ n \in tabs
    /\ "start" \in loaded /\ e \notin loaded
    /\ loaded' = loaded \cup {e}
    /\ Say(<<Event(n, e)>>)
    /\ UNCHANGED <<client, sock, todo, tabs, streams>>

Drop ==
    /\ sock = "open"
    /\ sock' = "dropped"
    /\ wire' = <<>> /\ todo' = <<>>
    /\ tabs' = {} /\ streams' = {}
    /\ UNCHANGED <<client, loaded>>

Client == Connect \/ Receive \/ Answered \/ Refused \/ Stopped \/ Closed
             \/ Deadline \/ CloseDeadline

Next == Begin \/ Client \/ Cancel \/ Serve \/ (\E e \in LoadEvents : Emit(e)) \/ Drop

Spec == Init /\ [][Next]_vars

(* The client's loop runs and its deadlines fire.                          *)
FairSpec == Spec /\ WF_vars(Client)

-----------------------------------------------------------------------------
(* The page that fetch reads is the one it asked for: the browser has sent *)
(* every terminal event of this navigation before its DOM or body is asked *)
(* for, the stop event included (the event barrier, the two clears of the  *)
(* buffer).                                                                *)
OwnDocument ==
    at \in {"dom"} \cup Reading \/ (at # "connect" /\ result = "page") => LoadEvents \subseteq loaded

(* A connection kept for the next fetch is in a known state: no command is *)
(* unanswered and the browser holds no target or body stream of this one.  *)
(* The exception is a cancellation of Target.closeTarget itself.           *)
KeptConnectionIsClean ==
    /\ TypeOK
    /\ at = "idle" /\ sock = "open" /\ ~escaped =>
          /\ owned /\ todo = <<>>
          /\ \A i \in DOMAIN wire : wire[i].kind = "event"
          /\ tabs = {} /\ streams = {}

(* Every fetch ends, whatever the browser does.                            *)
FetchEnds == at # "idle" ~> at = "idle"
-----------------------------------------------------------------------------
(* The inductive invariant behind OwnDocument and KeptConnectionIsClean.    *)
Messages == [kind : {"reply"}, id : Nat, name : {"ok", "error"}]
               \cup [kind : {"event"}, id : 1..MaxFetch,
                     name : LoadEvents \cup {"attached", "blank stop"}]
Orders == [id : Nat, cmd : Commands, n : 1..MaxFetch]

Typed ==
    /\ TypeOK
    /\ wire \in Seq(Messages) /\ todo \in Seq(Orders)
    /\ at # "idle" => n > 0

(* Commands are handled in the order of their numbers, and their replies    *)
(* come in that order,                                                      *)
InOrder ==
    /\ \A i \in DOMAIN todo : todo[i].id = (sent - Len(todo)) + i
    /\ \A i \in DOMAIN wire : wire[i].kind = "reply" => wire[i].id <= sent - Len(todo)
    /\ \A i, j \in DOMAIN wire :
          i < j /\ wire[i].kind = "reply" /\ wire[j].kind = "reply" =>
             wire[i].id < wire[j].id
    /\ sock # "open" => todo = <<>> /\ wire = <<>> /\ tabs = {} /\ streams = {}

(* until it cleans up a fetch has one command outstanding, the awaited one, *)
OneOutstanding ==
    /\ \A i \in DOMAIN todo :
          /\ at \in Commands /\ todo[i].id = sent => todo[i].cmd = at /\ todo[i].n = n
          /\ at \in Commands \ Closing /\ todo[i].n = n => todo[i].id = sent
    /\ at = "barrier" => todo = <<>>

(* nothing comes from a fetch before it begins,                             *)
OfEarlierFetches ==
    /\ \A i \in DOMAIN todo : todo[i].n <= n /\ (at = "connect" => todo[i].n < n)
    /\ \A i \in DOMAIN wire : wire[i].kind = "event" =>
          wire[i].id <= n /\ (at = "connect" => wire[i].id < n)
    /\ at \in {"idle", "connect"} => events = {}
    /\ at = "connect" => result = "none"

(* it navigates once, and its load events are those of that navigation,     *)
NavigatesOnce ==
    /\ \A i \in DOMAIN todo : todo[i].cmd = "navigate" /\ todo[i].n = n =>
          /\ loaded = {}
          /\ \A j \in DOMAIN todo : todo[j].cmd = "navigate" /\ todo[j].n = n => j = i
    /\ at \in {"connect", "create", "enable", "tree"} => loaded = {}
    /\ at \in {"create", "enable", "tree"} =>
          \A i \in DOMAIN todo : ~ (todo[i].cmd = "navigate" /\ todo[i].n = n)
    /\ \A i \in DOMAIN wire :
          wire[i].kind = "event" /\ wire[i].id = n /\ wire[i].name \in LoadEvents =>
             wire[i].name \in loaded
    /\ \A e \in LoadEvents : <<n, e>> \in events => e \in loaded

(* the stop of about:blank comes before the reply to the last command of    *)
(* the setup,                                                               *)
BlankStop == Event(n, "blank stop")

BlankIsPast ==
    /\ at = "tree" => \A i, j \in DOMAIN wire :
          i < j /\ wire[i].kind = "reply" /\ wire[i].id = sent => wire[j] # BlankStop
    /\ at \in {"navigate", "barrier"} =>
          /\ <<n, "blank stop">> \notin events
          /\ \A i \in DOMAIN wire : wire[i] # BlankStop

(* and what the browser holds for it is known to the client.                *)
Done == \E i \in DOMAIN wire : wire[i] = Reply(sent, TRUE)

HoldsOwn ==
    ~escaped =>
       /\ tabs \subseteq {n} /\ streams \subseteq {n}
       /\ \A i \in DOMAIN todo : todo[i].n = n
       /\ at = "target close" /\ Done => tabs = {}
       /\ at = "body close" /\ Done => streams = {}
       /\ reusable /\ at # "idle" =>
             /\ \A i \in DOMAIN todo : todo[i].id = sent
             /\ streams # {} =>
                   \/ handle /\ at # "target close"
                   \/ at = "body open" /\ Done

CleanBefore ==
    at \in {"idle", "connect"} /\ sock = "open" /\ ~escaped =>
       /\ at = "idle" => owned
       /\ todo = <<>> /\ tabs = {} /\ streams = {}
       /\ \A i \in DOMAIN wire : wire[i].kind = "event"

FetchInv ==
    /\ Typed /\ InOrder /\ OneOutstanding /\ OfEarlierFetches /\ NavigatesOnce
    /\ BlankIsPast /\ HoldsOwn /\ CleanBefore /\ OwnDocument
=============================================================================
