-------------------------- MODULE MCBrowser_proofs --------------------------
(***************************************************************************)
(* Proofs that a fetch reads the page it asked for and leaves a kept       *)
(* connection clean (FetchSound), that a search returns the document of    *)
(* its query (ResultIsOfTheQuery), that the retained session of a provider *)
(* is sound (SessionSafe) and that no closed session object is connected   *)
(* again (NeverReconnected).                                               *)
(*                                                                         *)
(* They hold for any number of fetches, cancellations, pieces of a body,   *)
(* characters, documents and edits, any set of session objects, any number *)
(* of attempts and any idle time.  None of the properties is inductive:    *)
(* the parts of FetchInv (CdpFetch), SearchInv (SearchDocument) and        *)
(* SessionInv (below) are, and every action is shown to keep them.         *)
(***************************************************************************)
EXTENDS MCBrowser, FiniteSetTheorems, SequenceTheorems, WellFoundedInduction,
        TLAPS

-----------------------------------------------------------------------------
(***************************************************************************)
(* One fetch over a CDP connection (CdpFetch).  That the page is read only *)
(* after its own load rests on the stop of about:blank being past when the *)
(* navigation starts, and that on the browser's handling the commands in   *)
(* order; that a kept connection is clean rests on the client's knowing    *)
(* what the browser holds, unless it gave the connection up (reusable).    *)
(***************************************************************************)
(* What is left of the wire once the client has taken a message, or none.  *)
LeftOf(w) ==
    /\ w \in Seq(Fetch!Messages)
    /\ \E d \in {0, 1} :
          /\ Len(wire) = Len(w) + d
          /\ \A i \in DOMAIN w : i + d \in DOMAIN wire /\ w[i] = wire[i + d]

(* What the client leaves on the wire is all of it but the first message.  *)
LEMMA WireIsLeft ==
    ASSUME Fetch!Typed
    PROVE  /\ LeftOf(wire)
           /\ wire # <<>> => LeftOf(Tail(wire))
<1>1. /\ wire \in Seq(Fetch!Messages) /\ DOMAIN wire = 1..Len(wire)
      /\ Len(wire) \in Nat
  BY LenProperties DEF Fetch!Typed
<1>2. LeftOf(wire)
  <2>1. Len(wire) = Len(wire) + 0 /\ \A i \in DOMAIN wire : i + 0 = i
    BY <1>1
  <2>. QED
    BY <1>1, <2>1 DEF LeftOf
<1>3. ASSUME wire # <<>> PROVE LeftOf(Tail(wire))
  <2>1. /\ Tail(wire) \in Seq(Fetch!Messages) /\ Len(Tail(wire)) = Len(wire) - 1
        /\ \A i \in 1..Len(Tail(wire)) : Tail(wire)[i] = wire[i + 1]
    BY <1>1, <1>3, HeadTailProperties
  <2>2. DOMAIN Tail(wire) = 1..Len(Tail(wire)) /\ Len(Tail(wire)) \in Nat
    BY <2>1, LenProperties
  <2>3. \A i \in DOMAIN Tail(wire) : i + 1 \in DOMAIN wire
    BY <1>1, <2>1, <2>2
  <2>4. Len(wire) = Len(Tail(wire)) + 1
    BY <1>1, <2>1
  <2>. QED
    BY <2>1, <2>2, <2>3, <2>4 DEF LeftOf
<1>. QED
  BY <1>2, <1>3

(* What holds of the messages on the wire holds of those that are left.    *)
LEMMA LeftKeeps ==
    ASSUME NEW w, LeftOf(w), Fetch!Typed
    PROVE  /\ \A i \in DOMAIN w : \E j \in DOMAIN wire : w[i] = wire[j]
           /\ \A i, j \in DOMAIN w : i < j =>
                 \E k, l \in DOMAIN wire : k < l /\ w[i] = wire[k] /\ w[j] = wire[l]
<1>1. PICK d \in {0, 1} : \A i \in DOMAIN w : i + d \in DOMAIN wire /\ w[i] = wire[i + d]
  BY DEF LeftOf
<1>2. DOMAIN w \subseteq Nat
  BY LenProperties DEF LeftOf
<1>3. \A i \in DOMAIN w : \E j \in DOMAIN wire : w[i] = wire[j]
  BY <1>1
<1>4. ASSUME NEW i \in DOMAIN w, NEW j \in DOMAIN w, i < j
      PROVE  \E k, l \in DOMAIN wire : k < l /\ w[i] = wire[k] /\ w[j] = wire[l]
  <2>1. i + d < j + d
    BY <1>2, <1>4
  <2>. QED
    BY <1>1, <2>1
<1>. QED
  BY <1>3, <1>4

(* The types that the steps below rest on.                                 *)
LEMMA FetchTypes ==
    ASSUME Fetch!FetchInv
    PROVE  /\ wire \in Seq(Fetch!Messages) /\ DOMAIN wire = 1..Len(wire)
           /\ Len(wire) \in Nat
           /\ todo \in Seq(Fetch!Orders) /\ DOMAIN todo = 1..Len(todo)
           /\ Len(todo) \in Nat
           /\ sent \in Nat /\ n \in Nat /\ n <= MaxFetch
           /\ sock # "open" => todo = <<>> /\ wire = <<>>
<1>1. wire \in Seq(Fetch!Messages) /\ todo \in Seq(Fetch!Orders)
  BY DEF Fetch!FetchInv, Fetch!Typed
<1>2. sent \in Nat /\ n \in 0..MaxFetch
  BY DEF Fetch!FetchInv, Fetch!Typed, Fetch!TypeOK
<1>. QED
  BY <1>1, <1>2, LenProperties, FetchAssumption
  DEF Fetch!FetchInv, Fetch!InOrder

(* The browser has replied to no command that was not sent.                *)
LEMMA ReplyNumbers ==
    ASSUME Fetch!FetchInv
    PROVE  \A i \in DOMAIN wire :
               /\ wire[i].id \in Nat
               /\ wire[i].kind = "reply" => wire[i].id <= sent
<1>1. \A i \in DOMAIN wire : wire[i] \in Fetch!Messages
  BY FetchTypes
<1>2. \A x \in Fetch!Messages : x.id \in Nat
  <2>0. 1..MaxFetch \subseteq Nat
    BY FetchAssumption
  <2>1. ASSUME NEW x \in [kind : {"event"}, id : 1..MaxFetch,
                          name : Fetch!LoadEvents \cup {"attached", "blank stop"}]
        PROVE  x.id \in Nat
    <3>1. x.id \in 1..MaxFetch
      OBVIOUS
    <3>. QED
      BY <3>1, <2>0
  <2>. QED
    BY <2>1 DEF Fetch!Messages
<1>3. \A i \in DOMAIN wire : wire[i].kind = "reply" => wire[i].id <= sent - Len(todo)
  BY DEF Fetch!FetchInv, Fetch!InOrder
<1>. QED
  BY <1>1, <1>2, <1>3, FetchTypes

LEMMA NothingTodo ==
    ASSUME Fetch!FetchInv, todo = <<>>
    PROVE  DOMAIN todo = {}
  OBVIOUS

(* A command of the client goes to the end of the queue of an open         *)
(* connection.                                                             *)
LEMMA OrderKept ==
    ASSUME Fetch!FetchInv, NEW cmd \in Fetch!Commands, Fetch!Command(cmd),
           n > 0,
           sock' = "open" \/ todo = <<>>
    PROVE  /\ sent' \in Nat /\ sent' = sent + 1
           /\ todo' \in Seq(Fetch!Orders)
           /\ sock' = "open" => Len(todo') = Len(todo) + 1
           /\ sock' # "open" => todo' = <<>>
           /\ \A i \in DOMAIN todo' :
                 \/ i \in DOMAIN todo /\ todo'[i] = todo[i]
                 \/ /\ i = Len(todo') /\ i = Len(todo) + 1 /\ sock' = "open"
                    /\ todo'[i] = [id |-> sent + 1, cmd |-> cmd, n |-> n]
<1>1. /\ todo \in Seq(Fetch!Orders) /\ Len(todo) \in Nat
      /\ DOMAIN todo = 1..Len(todo)
      /\ sent \in Nat /\ n \in 1..MaxFetch
  BY FetchTypes, FetchAssumption
<1>2. sent' \in Nat /\ sent' = sent + 1
  BY <1>1 DEF Fetch!Command
<1>3. CASE sock' = "open"
  <2>. DEFINE o == [id |-> sent + 1, cmd |-> cmd, n |-> n]
  <2>1. o \in Fetch!Orders
    BY <1>1 DEF Fetch!Orders
  <2>2. todo' = Append(todo, o)
    BY <1>3 DEF Fetch!Command
  <2>. HIDE DEF o
  <2>3. /\ todo' \in Seq(Fetch!Orders) /\ Len(todo') = Len(todo) + 1
        /\ DOMAIN todo' = 1..Len(todo')
        /\ \A i \in 1..Len(todo) : todo'[i] = todo[i]
        /\ todo'[Len(todo) + 1] = o
    BY <1>1, <2>1, <2>2
  <2>. QED
    BY <1>1, <1>2, <1>3, <2>3 DEF o
<1>4. CASE sock' # "open"
  BY <1>1, <1>2, <1>4 DEF Fetch!Command
<1>. QED
  BY <1>3, <1>4

(* The fields a move of the client leaves in their types.                  *)
ClientTypes ==
    /\ target \in BOOLEAN /\ streamHandle \in BOOLEAN /\ reusable \in BOOLEAN
    /\ cancels \in 0..MaxCancel /\ result \in {"none", "page", "error"}

(* A command of the client, Connect's included.                            *)
Move(cmd, w) ==
    /\ Fetch!Command(cmd) /\ wire' = w /\ events' = Fetch!Buffer(at)
    /\ \/ sock' = sock
       \/ sock = "none" /\ sock' = "open"
    /\ UNCHANGED Fetch!browser

(* A move of the client to its next command keeps each part.               *)
LEMMA GoTyped ==
    ASSUME Fetch!FetchInv, NEW cmd \in Fetch!Commands, NEW w, LeftOf(w),
           Move(cmd, w), n > 0,
           UNCHANGED Fetch!attempt, ClientTypes'
    PROVE  Fetch!Typed'
<1>1. /\ at' = cmd /\ wire' = w /\ events' \subseteq events
      /\ UNCHANGED <<loaded, tabs, streams, owned, n, escaped>>
      /\ Fetch!Command(cmd) /\ sock' \in {sock, "open"} /\ (sock' = "open" \/ todo = <<>>)
  BY FetchTypes
  DEF Move, Fetch!Command, Fetch!Buffer, Fetch!browser, Fetch!attempt
<1>2. /\ sent' \in Nat /\ todo' \in Seq(Fetch!Orders)
      /\ wire' \in Seq(Fetch!Messages)
  BY <1>1, FetchTypes, OrderKept DEF LeftOf
<1>3. /\ \A i \in DOMAIN wire' : wire'[i].kind \in {"reply", "event"}
      /\ \A i \in DOMAIN todo' : todo'[i].cmd \in Fetch!Commands
  <2>1. /\ \A i \in DOMAIN wire' : wire'[i] \in Fetch!Messages
        /\ \A i \in DOMAIN todo' : todo'[i] \in Fetch!Orders
    BY <1>2
  <2>. QED
    BY <2>1 DEF Fetch!Messages, Fetch!Orders
<1>. QED
  BY <1>1, <1>2, <1>3 DEF ClientTypes, Fetch!FetchInv, Fetch!Typed, Fetch!TypeOK

LEMMA GoInOrder ==
    ASSUME Fetch!FetchInv, NEW cmd \in Fetch!Commands, NEW w, LeftOf(w),
           Move(cmd, w), n > 0
    PROVE  Fetch!InOrder'
<1>1. /\ wire' = w /\ UNCHANGED <<tabs, streams>> /\ Fetch!Command(cmd)
      /\ sock' = "open" \/ todo = <<>>
  BY FetchTypes DEF Move, Fetch!browser
<1>2. CASE sock' = "open"
  <2>1. \A i \in DOMAIN todo' : todo'[i].id = (sent' - Len(todo')) + i
    <3>1. sent' = sent + 1 /\ Len(todo') = Len(todo) + 1
      BY <1>1, <1>2, OrderKept
    <3>2. ASSUME NEW i \in DOMAIN todo'
          PROVE  todo'[i].id = (sent - Len(todo)) + i
      <4>1. CASE i \in DOMAIN todo /\ todo'[i] = todo[i]
        BY <4>1 DEF Fetch!FetchInv, Fetch!InOrder
      <4>2. CASE i = Len(todo) + 1 /\ todo'[i] = [id |-> sent + 1, cmd |-> cmd, n |-> n]
        BY <4>2, FetchTypes
      <4>. QED
        BY <1>1, <4>1, <4>2, OrderKept
    <3>. QED
      BY <3>1, <3>2, FetchTypes
  <2>2. sent' - Len(todo') = sent - Len(todo)
    BY <1>1, <1>2, FetchTypes, OrderKept
  <2>3. Fetch!Typed
    BY DEF Fetch!FetchInv
  <2>4. \A i \in DOMAIN w : w[i].kind = "reply" => w[i].id <= sent - Len(todo)
    BY <2>3, LeftKeeps DEF Fetch!FetchInv, Fetch!InOrder
  <2>5. \A i, j \in DOMAIN w :
           i < j /\ w[i].kind = "reply" /\ w[j].kind = "reply" => w[i].id < w[j].id
    BY <2>3, LeftKeeps DEF Fetch!FetchInv, Fetch!InOrder
  <2>. QED
    BY <1>1, <1>2, <2>1, <2>2, <2>4, <2>5 DEF Fetch!InOrder
<1>3. CASE sock' # "open"
  <2>0. sock # "open"
    BY <1>3 DEF Move
  <2>1. wire = <<>> /\ todo' = <<>>
    BY <1>1, <1>3, <2>0, FetchTypes, OrderKept
  <2>2. w = <<>>
    BY <2>1, LenProperties, EmptySeq DEF LeftOf
  <2>. QED
    BY <1>1, <1>3, <2>0, <2>1, <2>2 DEF Fetch!FetchInv, Fetch!InOrder
<1>. QED
  BY <1>2, <1>3

LEMMA GoOneOutstanding ==
    ASSUME Fetch!FetchInv, NEW cmd \in Fetch!Commands, NEW w, Move(cmd, w),
           n > 0, UNCHANGED n,
           cmd \notin Fetch!Closing => \A i \in DOMAIN todo : todo[i].n # n
    PROVE  Fetch!OneOutstanding'
<1>1. at' = cmd /\ Fetch!Command(cmd) /\ (sock' = "open" \/ todo = <<>>)
  BY FetchTypes DEF Move, Fetch!Command
<1>2. \A i \in DOMAIN todo : todo[i].id <= sent
  BY FetchTypes DEF Fetch!FetchInv, Fetch!InOrder
<1>3. ASSUME NEW i \in DOMAIN todo'
      PROVE  /\ todo'[i].id = sent' => todo'[i].cmd = cmd /\ todo'[i].n = n'
             /\ cmd \notin Fetch!Closing /\ todo'[i].n = n' => todo'[i].id = sent'
  <2>1. \/ i \in DOMAIN todo /\ todo'[i] = todo[i]
        \/ todo'[i] = [id |-> sent + 1, cmd |-> cmd, n |-> n]
    BY <1>1, OrderKept
  <2>2. sent' = sent + 1
    BY <1>1, OrderKept
  <2>3. i \in DOMAIN todo =>
           todo[i].id # sent + 1 /\ (cmd \in Fetch!Closing \/ todo[i].n # n)
    BY <1>2, FetchTypes
  <2>. QED
    BY <2>1, <2>2, <2>3
<1>. QED
  BY <1>1, <1>3 DEF Fetch!OneOutstanding, Fetch!Commands

LEMMA GoOfEarlierFetches ==
    ASSUME Fetch!FetchInv, NEW cmd \in Fetch!Commands, NEW w, LeftOf(w),
           Move(cmd, w), n > 0, UNCHANGED n
    PROVE  Fetch!OfEarlierFetches'
<1>1. at' = cmd /\ wire' = w /\ Fetch!Command(cmd) /\ (sock' = "open" \/ todo = <<>>)
  BY FetchTypes DEF Move, Fetch!Command
<1>2. \A i \in DOMAIN todo' : todo'[i].n <= n
  BY <1>1, FetchTypes, OrderKept DEF Fetch!FetchInv, Fetch!OfEarlierFetches
<1>3. \A i \in DOMAIN w : w[i].kind = "event" => w[i].id <= n
  BY LeftKeeps DEF Fetch!FetchInv, Fetch!OfEarlierFetches
<1>. QED
  BY <1>1, <1>2, <1>3 DEF Fetch!OfEarlierFetches, Fetch!Commands

LEMMA GoNavigatesOnce ==
    ASSUME Fetch!FetchInv, NEW cmd \in Fetch!Commands, NEW w, LeftOf(w),
           Move(cmd, w), n > 0, UNCHANGED n,
           cmd \in {"create", "enable", "tree", "navigate"} =>
              /\ \A i \in DOMAIN todo : todo[i].n # n
              /\ at \in {"connect", "create", "enable", "tree"}
    PROVE  Fetch!NavigatesOnce'
<1>1. /\ at' = cmd /\ wire' = w /\ Fetch!Command(cmd) /\ (sock' = "open" \/ todo = <<>>)
      /\ loaded' = loaded /\ events' \subseteq events
  BY FetchTypes DEF Move, Fetch!Command, Fetch!Buffer, Fetch!browser
<1>2. \A i \in DOMAIN todo' : \/ i \in DOMAIN todo /\ todo'[i] = todo[i]
                              \/ i = Len(todo) + 1 /\ todo'[i].cmd = cmd
  BY <1>1, OrderKept
<1>3. cmd \in {"create", "enable", "tree", "navigate"} =>
         loaded = {} /\ \A i \in DOMAIN todo : todo[i].n # n
  BY FetchTypes DEF Fetch!FetchInv, Fetch!NavigatesOnce
<1>4. ASSUME NEW i \in DOMAIN todo', todo'[i].cmd = "navigate", todo'[i].n = n
      PROVE  /\ loaded = {}
             /\ \A j \in DOMAIN todo' :
                   todo'[j].cmd = "navigate" /\ todo'[j].n = n => j = i
  <2>1. CASE cmd = "navigate"
    BY <2>1, <1>2, <1>3, <1>4
  <2>2. CASE cmd # "navigate"
    BY <2>2, <1>2, <1>4 DEF Fetch!FetchInv, Fetch!NavigatesOnce
  <2>. QED
    BY <2>1, <2>2
<1>5. cmd \in {"create", "enable", "tree"} =>
         \A i \in DOMAIN todo' : ~ (todo'[i].cmd = "navigate" /\ todo'[i].n = n)
  BY <1>2, <1>3
<1>6. \A i \in DOMAIN w :
         w[i].kind = "event" /\ w[i].id = n /\ w[i].name \in Fetch!LoadEvents =>
            w[i].name \in loaded
  BY LeftKeeps DEF Fetch!FetchInv, Fetch!NavigatesOnce
<1>7. \A e \in Fetch!LoadEvents : <<n, e>> \in events' => e \in loaded
  BY <1>1 DEF Fetch!FetchInv, Fetch!NavigatesOnce
<1>. QED
  BY <1>1, <1>3, <1>4, <1>5, <1>6, <1>7 DEF Fetch!NavigatesOnce, Fetch!Commands

LEMMA GoBlankIsPast ==
    ASSUME Fetch!FetchInv, NEW cmd \in Fetch!Commands, NEW w, LeftOf(w),
           Move(cmd, w), n > 0, UNCHANGED n,
           cmd = "navigate" =>
              /\ at = "tree"
              /\ \A i \in DOMAIN w : w[i] # Fetch!BlankStop
    PROVE  Fetch!BlankIsPast'
<1>1. /\ at' = cmd /\ wire' = w /\ Fetch!BlankStop' = Fetch!BlankStop
      /\ sent' = sent + 1
  BY DEF Move, Fetch!Command, Fetch!BlankStop, Fetch!Event
<1>2. CASE cmd = "tree"
  <2>1. \A i \in DOMAIN w : w[i].kind = "reply" => w[i].id \in Nat /\ w[i].id <= sent
    BY ReplyNumbers, LeftKeeps DEF Fetch!FetchInv
  <2>2. \A i \in DOMAIN w : w[i].kind = "reply" => w[i].id # sent + 1
    BY <2>1, FetchTypes
  <2>. QED
    BY <1>1, <1>2, <2>2 DEF Fetch!BlankIsPast
<1>3. CASE cmd = "navigate"
  <2>1. events' = {}
    BY <1>3 DEF Move, Fetch!Buffer
  <2>. QED
    BY <1>1, <1>3, <2>1 DEF Fetch!BlankIsPast
<1>. QED
  BY <1>1, <1>2, <1>3 DEF Fetch!BlankIsPast, Fetch!Commands

LEMMA ReplyFields ==
    ASSUME NEW id, NEW ok
    PROVE  Fetch!Reply(id, ok).kind = "reply" /\ Fetch!Reply(id, ok).id = id
  BY DEF Fetch!Reply

(* Nothing on the wire answers a command that is yet to be sent.           *)
LEMMA NoneDone ==
    ASSUME Fetch!FetchInv, NEW w, LeftOf(w)
    PROVE  \A i \in DOMAIN w, ok \in BOOLEAN : w[i] # Fetch!Reply(sent + 1, ok)
<1>1. \A i \in DOMAIN wire : wire[i].kind = "reply" => wire[i].id # sent + 1
  BY ReplyNumbers, FetchTypes
<1>. QED
  BY <1>1, LeftKeeps DEF Fetch!FetchInv, Fetch!Reply

(* On a connection that may be kept the awaited command will be the only   *)
(* one, and a stream that is open is known.                                *)
Accounted(cmd) ==
    ~escaped /\ reusable' =>
       todo = <<>> /\ (streams # {} => streamHandle' /\ cmd # "target close")

LEMMA GoHoldsOwn ==
    ASSUME Fetch!FetchInv, NEW cmd \in Fetch!Commands, NEW w, LeftOf(w),
           Move(cmd, w), n > 0,
           UNCHANGED Fetch!attempt,
           Accounted(cmd)
    PROVE  Fetch!HoldsOwn'
<1>1. /\ at' = cmd /\ wire' = w /\ Fetch!Command(cmd) /\ (sock' = "open" \/ todo = <<>>)
      /\ UNCHANGED <<n, escaped, tabs, streams>>
  BY FetchTypes DEF Move, Fetch!Command, Fetch!browser, Fetch!attempt
<1>2. ~ Fetch!Done'
  BY <1>1, OrderKept, NoneDone DEF Fetch!Done, Fetch!Reply
<1>3. ASSUME NEW i \in DOMAIN todo'
      PROVE  \/ i \in DOMAIN todo /\ todo'[i] = todo[i]
             \/ todo'[i].n = n /\ todo'[i].id = sent'
  <2>1. \/ i \in DOMAIN todo /\ todo'[i] = todo[i]
        \/ todo'[i] = [id |-> sent + 1, cmd |-> cmd, n |-> n]
    BY <1>1, OrderKept
  <2>2. sent' = sent + 1
    BY <1>1, OrderKept
  <2>. QED
    BY <2>1, <2>2
<1>4. ~escaped =>
         /\ tabs \subseteq {n} /\ streams \subseteq {n}
         /\ \A i \in DOMAIN todo' : todo'[i].n = n
  BY <1>3 DEF Fetch!FetchInv, Fetch!HoldsOwn
<1>5. ~escaped /\ reusable' =>
         /\ \A i \in DOMAIN todo' : todo'[i].id = sent'
         /\ streams # {} => streamHandle' /\ cmd # "target close"
  <2>1. todo = <<>> => DOMAIN todo = {}
    BY FetchTypes
  <2>. QED
    BY <1>3, <2>1 DEF Accounted
<1>. QED
  BY <1>1, <1>2, <1>4, <1>5 DEF Fetch!HoldsOwn

(* Such a move keeps the invariant,                                        *)
LEMMA GoKeeps ==
    ASSUME Fetch!FetchInv, NEW cmd \in Fetch!Commands, NEW w, LeftOf(w),
           Move(cmd, w), at # "idle",
           UNCHANGED Fetch!attempt, ClientTypes',
           cmd \notin Fetch!Closing => \A i \in DOMAIN todo : todo[i].n # n,
           cmd \in {"create", "enable", "tree", "navigate"} =>
              at \in {"connect", "create", "enable", "tree"},
           cmd = "navigate" =>
              /\ at = "tree"
              /\ \A i \in DOMAIN w : w[i] # Fetch!BlankStop,
           Accounted(cmd),
           cmd \in {"dom"} \cup Fetch!Reading \/ result' = "page" =>
              Fetch!LoadEvents \subseteq loaded
    PROVE  Fetch!FetchInv'
<1>1. n > 0 /\ n' = n /\ at' = cmd /\ loaded' = loaded
  BY DEF Fetch!FetchInv, Fetch!Typed, Fetch!attempt, Move, Fetch!Command,
         Fetch!browser
<1>2. Fetch!CleanBefore' /\ Fetch!OwnDocument'
  BY <1>1 DEF Fetch!CleanBefore, Fetch!OwnDocument, Fetch!Commands
<1>3. cmd \in {"create", "enable", "tree", "navigate"} =>
         /\ \A i \in DOMAIN todo : todo[i].n # n
         /\ at \in {"connect", "create", "enable", "tree"}
  BY DEF Fetch!Closing
<1>. QED
  BY <1>1, <1>2, <1>3, GoTyped, GoInOrder, GoOneOutstanding, GoOfEarlierFetches,
     GoNavigatesOnce, GoBlankIsPast, GoHoldsOwn
  DEF Fetch!FetchInv

LEMMA GoMoves ==
    ASSUME NEW cmd, NEW w, Fetch!Go(cmd, w)
    PROVE  Move(cmd, w)
  BY DEF Fetch!Go, Move

(* The end of a fetch.                                                     *)
LEMMA LeaveKeeps ==
    ASSUME Fetch!FetchInv, NEW keep \in BOOLEAN, NEW w, LeftOf(w),
           Fetch!Leave(keep, w), n > 0,
           UNCHANGED <<owned, n>>, ClientTypes', escaped' \in BOOLEAN,
           ~escaped' => ~escaped,
           keep => owned,
           keep /\ ~escaped' /\ sock = "open" =>
              /\ todo = <<>> /\ tabs = {} /\ streams = {}
              /\ \A i \in DOMAIN w : w[i].kind = "event",
           result' = "page" => Fetch!LoadEvents \subseteq loaded
    PROVE  Fetch!FetchInv'
<1>1. /\ at' = "idle" /\ events' = {} /\ UNCHANGED <<sent, loaded, owned, n>>
      /\ \/ keep /\ wire' = w /\ UNCHANGED <<sock, todo, tabs, streams>>
         \/ /\ ~keep /\ sock' = "none" /\ wire' = <<>> /\ todo' = <<>>
            /\ tabs' = {} /\ streams' = {}
  BY DEF Fetch!Leave
<1>2. Fetch!Typed'
  <2>1. wire' \in Seq(Fetch!Messages) /\ todo' \in Seq(Fetch!Orders)
    BY <1>1, FetchTypes, EmptySeq DEF LeftOf
  <2>2. /\ \A i \in DOMAIN wire' : wire'[i].kind \in {"reply", "event"}
        /\ \A i \in DOMAIN todo' : todo'[i].cmd \in Fetch!Commands
    <3>1. /\ \A i \in DOMAIN wire' : wire'[i] \in Fetch!Messages
          /\ \A i \in DOMAIN todo' : todo'[i] \in Fetch!Orders
      BY <2>1
    <3>. QED
      BY <3>1 DEF Fetch!Messages, Fetch!Orders
  <2>. QED
    BY <1>1, <2>1, <2>2
    DEF ClientTypes, Fetch!FetchInv, Fetch!Typed, Fetch!TypeOK
<1>3. CASE keep
  <2>1. wire' = w /\ UNCHANGED <<sock, todo, tabs, streams>>
    BY <1>1, <1>3
  <2>2. Fetch!InOrder'
    <3>1. sock # "open" => w = <<>>
      BY FetchTypes, LenProperties, EmptySeq DEF LeftOf
    <3>2. \A i \in DOMAIN w : w[i].kind = "reply" => w[i].id <= sent - Len(todo)
      BY LeftKeeps DEF Fetch!FetchInv, Fetch!InOrder
    <3>3. \A i, j \in DOMAIN w :
             i < j /\ w[i].kind = "reply" /\ w[j].kind = "reply" => w[i].id < w[j].id
      BY LeftKeeps DEF Fetch!FetchInv, Fetch!InOrder
    <3>. QED
      BY <1>1, <2>1, <3>1, <3>2, <3>3 DEF Fetch!FetchInv, Fetch!InOrder
  <2>3. Fetch!OfEarlierFetches'
    <3>1. \A i \in DOMAIN w : w[i].kind = "event" => w[i].id <= n
      BY LeftKeeps DEF Fetch!FetchInv, Fetch!OfEarlierFetches
    <3>. QED
      BY <1>1, <2>1, <3>1 DEF Fetch!FetchInv, Fetch!OfEarlierFetches
  <2>4. Fetch!NavigatesOnce'
    <3>1. \A i \in DOMAIN w :
             w[i].kind = "event" /\ w[i].id = n /\ w[i].name \in Fetch!LoadEvents =>
                w[i].name \in loaded
      BY LeftKeeps DEF Fetch!FetchInv, Fetch!NavigatesOnce
    <3>. QED
      BY <1>1, <2>1, <3>1 DEF Fetch!FetchInv, Fetch!NavigatesOnce
  <2>5. Fetch!CleanBefore'
    BY <1>1, <1>3, <2>1 DEF Fetch!CleanBefore
  <2>6. Fetch!HoldsOwn'
    BY <1>1, <2>1 DEF Fetch!FetchInv, Fetch!HoldsOwn
  <2>. QED
    BY <1>1, <1>2, <2>2, <2>3, <2>4, <2>5, <2>6
    DEF Fetch!FetchInv, Fetch!OneOutstanding, Fetch!BlankIsPast,
        Fetch!OwnDocument, Fetch!Commands, Fetch!Reading
<1>4. CASE ~keep
  <2>1. /\ sock' = "none" /\ wire' = <<>> /\ todo' = <<>>
        /\ tabs' = {} /\ streams' = {}
    BY <1>1, <1>4
  <2>2. DOMAIN wire' = {} /\ DOMAIN todo' = {}
    BY <2>1
  <2>3. /\ Fetch!InOrder' /\ Fetch!OneOutstanding' /\ Fetch!OfEarlierFetches'
        /\ Fetch!BlankIsPast'
    BY <1>1, <2>1, <2>2
    DEF Fetch!InOrder, Fetch!OneOutstanding, Fetch!OfEarlierFetches,
        Fetch!BlankIsPast, Fetch!Commands
  <2>4. Fetch!NavigatesOnce'
    BY <1>1, <2>1, <2>2 DEF Fetch!NavigatesOnce
  <2>5. Fetch!HoldsOwn' /\ Fetch!CleanBefore'
    BY <1>1, <2>1, <2>2 DEF Fetch!HoldsOwn, Fetch!CleanBefore
  <2>6. Fetch!OwnDocument'
    BY <1>1 DEF Fetch!FetchInv, Fetch!OwnDocument, Fetch!Reading
  <2>. QED
    BY <1>2, <2>3, <2>4, <2>5, <2>6 DEF Fetch!FetchInv
<1>. QED
  BY <1>3, <1>4

(* A fetch that fails closes what it knows of, on a connection that is     *)
(* given up.                                                               *)
LEMMA FailKeeps ==
    ASSUME Fetch!FetchInv, NEW known \in BOOLEAN, NEW w, LeftOf(w),
           Fetch!Fail(known, w), at # "idle",
           UNCHANGED Fetch!attempt, cancels' \in 0..MaxCancel
    PROVE  Fetch!FetchInv'
<1>1. /\ reusable' = FALSE /\ target' = known /\ result' = "error"
      /\ streamHandle' = streamHandle
      /\ n > 0 /\ streamHandle \in BOOLEAN /\ escaped \in BOOLEAN
  BY DEF Fetch!Fail, Fetch!FetchInv, Fetch!Typed, Fetch!TypeOK
<1>2. ClientTypes'
  BY <1>1 DEF ClientTypes
<1>3. CASE Fetch!Go("body close", w)
  BY <1>1, <1>2, <1>3, GoKeeps, GoMoves
  DEF Accounted, Fetch!Closing, Fetch!Commands, Fetch!Reading
<1>4. CASE Fetch!Go("target close", w)
  BY <1>1, <1>2, <1>4, GoKeeps, GoMoves
  DEF Accounted, Fetch!Closing, Fetch!Commands, Fetch!Reading
<1>5. CASE Fetch!Leave(FALSE, w)
  BY <1>1, <1>2, <1>5, LeaveKeeps DEF Fetch!attempt
<1>6. Fetch!Go("body close", w) \/ Fetch!Go("target close", w) \/ Fetch!Leave(FALSE, w)
  <2>1. Fetch!Cleanup(known, w)
    BY DEF Fetch!Fail
  <2>2. (owned /\ reusable') = FALSE
    BY <1>1
  <2>. QED
    BY <2>1, <2>2 DEF Fetch!Cleanup
<1>. QED
  BY <1>3, <1>4, <1>5, <1>6

(* A page has been read: its stream and its target are closed.             *)
LEMMA SucceedKeeps ==
    ASSUME Fetch!FetchInv, NEW w, LeftOf(w), Fetch!Succeed(w),
           at \in {"dom"} \cup Fetch!Reading,
           UNCHANGED Fetch!attempt, cancels' \in 0..MaxCancel,
           ~escaped /\ reusable => todo = <<>> /\ (streams # {} => streamHandle)
    PROVE  Fetch!FetchInv'
<1>1. /\ UNCHANGED <<target, streamHandle, reusable>> /\ result' = "page"
      /\ \/ Fetch!Go("body close", w) /\ streamHandle
         \/ Fetch!Go("target close", w) /\ ~streamHandle
  BY DEF Fetch!Succeed, Fetch!Cleanup
<1>2. ClientTypes'
  BY <1>1 DEF ClientTypes, Fetch!FetchInv, Fetch!Typed, Fetch!TypeOK
<1>3. Fetch!LoadEvents \subseteq loaded
  BY DEF Fetch!FetchInv, Fetch!OwnDocument
<1>. QED
  BY <1>1, <1>2, <1>3, GoKeeps, GoMoves
  DEF Accounted, Fetch!Closing, Fetch!Commands, Fetch!Reading

(* Replies come in order: the reply that is awaited is the last.           *)
LEMMA AwaitedIsLast ==
    ASSUME Fetch!FetchInv, Fetch!Awaited
    PROVE  /\ todo = <<>> /\ DOMAIN todo = {} /\ LeftOf(Tail(wire))
           /\ \A i \in DOMAIN Tail(wire) : Tail(wire)[i].kind = "event"
           /\ Head(wire) = wire[1] /\ 1 \in DOMAIN wire
           /\ \A i \in DOMAIN wire : i # 1 => wire[i].kind = "event"
           /\ wire[1].name \in {"ok", "error"}
           /\ wire[1] = Fetch!Reply(sent, wire[1].name = "ok")
<1>1. wire # <<>> /\ Head(wire) = wire[1] /\ 1 \in DOMAIN wire
  BY FetchTypes DEF Fetch!Awaited
<1>2. wire[1].kind = "reply" /\ wire[1].id = sent
  BY <1>1 DEF Fetch!Awaited
<1>3. todo = <<>> /\ DOMAIN todo = {}
  <2>1. sent <= sent - Len(todo)
    BY <1>1, <1>2 DEF Fetch!FetchInv, Fetch!InOrder
  <2>2. Len(todo) = 0
    BY <2>1, FetchTypes
  <2>. QED
    BY <2>2, FetchTypes, EmptySeq
<1>4. ASSUME NEW i \in DOMAIN wire, i # 1 PROVE wire[i].kind = "event"
  <2>1. 1 < i
    BY <1>4, FetchTypes
  <2>2. wire[i].kind = "reply" => sent < wire[i].id
    BY <1>1, <1>2, <2>1 DEF Fetch!FetchInv, Fetch!InOrder
  <2>3. wire[i].kind = "reply" => wire[i].id <= sent /\ wire[i].id \in Nat
    BY ReplyNumbers
  <2>4. wire[i].kind \in {"reply", "event"}
    BY DEF Fetch!FetchInv, Fetch!Typed, Fetch!TypeOK
  <2>. QED
    BY <2>2, <2>3, <2>4, FetchTypes
<1>5. LeftOf(Tail(wire))
  BY <1>1, WireIsLeft DEF Fetch!FetchInv
<1>6. \A i \in DOMAIN Tail(wire) : Tail(wire)[i].kind = "event"
  <2>1. \A i \in 1..Len(Tail(wire)) : Tail(wire)[i] = wire[i + 1]
    BY <1>1, FetchTypes, HeadTailProperties
  <2>2. /\ Len(Tail(wire)) = Len(wire) - 1
        /\ DOMAIN Tail(wire) = 1..Len(Tail(wire))
    BY <1>1, FetchTypes, HeadTailProperties, LenProperties
  <2>3. \A i \in DOMAIN Tail(wire) : i + 1 \in DOMAIN wire /\ i + 1 # 1
    BY <2>2, FetchTypes
  <2>. QED
    BY <1>4, <2>1, <2>2, <2>3
<1>7. /\ wire[1].name \in {"ok", "error"}
      /\ wire[1] = Fetch!Reply(sent, wire[1].name = "ok")
  <2>1. wire[1] \in Fetch!Messages
    BY <1>1, FetchTypes
  <2>2. wire[1] \in [kind : {"reply"}, id : Nat, name : {"ok", "error"}]
    BY <1>2, <2>1 DEF Fetch!Messages
  <2>. QED
    BY <1>2, <2>2 DEF Fetch!Reply
<1>. QED
  BY <1>1, <1>3, <1>4, <1>5, <1>6, <1>7

LEMMA AwaitedDone ==
    ASSUME Fetch!FetchInv, Fetch!Awaited
    PROVE  Fetch!Done <=> Head(wire).name = "ok"
<1>1. /\ Head(wire) = wire[1] /\ 1 \in DOMAIN wire
      /\ \A i \in DOMAIN wire : i # 1 => wire[i].kind = "event"
      /\ wire[1] = Fetch!Reply(sent, wire[1].name = "ok")
  BY AwaitedIsLast
<1>2. ASSUME Fetch!Done PROVE wire[1].name = "ok"
  <2>1. PICK i \in DOMAIN wire : wire[i] = Fetch!Reply(sent, TRUE)
    BY <1>2 DEF Fetch!Done
  <2>2. i = 1
    BY <1>1, <2>1 DEF Fetch!Reply
  <2>. QED
    BY <2>1, <2>2 DEF Fetch!Reply
<1>3. wire[1].name = "ok" => Fetch!Done
  BY <1>1 DEF Fetch!Done
<1>. QED
  BY <1>1, <1>2, <1>3

(* The stream of a fetch whose connection may be kept is known by its      *)
(* handle, but for the answer to the command that opens it.                *)
LEMMA StreamKnown ==
    ASSUME Fetch!FetchInv, Fetch!Awaited, ~escaped, reusable, at # "idle"
    PROVE  /\ streams # {} =>
                 \/ streamHandle /\ at # "target close"
                 \/ at = "body open" /\ Head(wire).name = "ok"
           /\ at = "body close" /\ Head(wire).name = "ok" => streams = {}
           /\ at = "target close" /\ Head(wire).name = "ok" => tabs = {}
<1>1. Fetch!Done <=> Head(wire).name = "ok"
  BY AwaitedDone
<1>. QED
  BY <1>1 DEF Fetch!FetchInv, Fetch!HoldsOwn

(* The stop of about:blank is not behind the reply to the tree command.    *)
LEMMA BlankIsGone ==
    ASSUME Fetch!FetchInv, Fetch!Awaited, at = "tree"
    PROVE  \A i \in DOMAIN Tail(wire) : Tail(wire)[i] # Fetch!BlankStop
<1>1. /\ wire # <<>> /\ 1 \in DOMAIN wire /\ wire[1].kind = "reply"
      /\ wire[1].id = sent
  BY AwaitedIsLast DEF Fetch!Awaited
<1>2. /\ \A i \in 1..Len(Tail(wire)) : Tail(wire)[i] = wire[i + 1]
      /\ Len(Tail(wire)) = Len(wire) - 1
      /\ DOMAIN Tail(wire) = 1..Len(Tail(wire))
  BY <1>1, FetchTypes, HeadTailProperties, LenProperties
<1>3. \A i \in DOMAIN Tail(wire) : i + 1 \in DOMAIN wire /\ 1 < i + 1
  BY <1>2, FetchTypes
<1>. QED
  BY <1>1, <1>2, <1>3 DEF Fetch!FetchInv, Fetch!BlankIsPast

LEMMA ClientStays ==
    ASSUME Fetch!FetchInv,
           UNCHANGED <<target, streamHandle, reusable, cancels, result>>
    PROVE  ClientTypes'
  BY DEF Fetch!FetchInv, Fetch!Typed, Fetch!TypeOK, ClientTypes

LEMMA PageIsOwn ==
    ASSUME Fetch!FetchInv, at \in Fetch!Commands \cup {"barrier"},
           result = "page"
    PROVE  Fetch!LoadEvents \subseteq loaded
  BY DEF Fetch!FetchInv, Fetch!OwnDocument, Fetch!Commands

(* The replies that lead to the next command.                              *)
LEMMA NextCommandKeeps ==
    ASSUME Fetch!FetchInv, Fetch!Awaited,
           NEW cmd \in Fetch!Commands \ Fetch!Closing,
           Fetch!Go(cmd, Tail(wire)),
           at \in Fetch!Commands \ Fetch!Closing, UNCHANGED Fetch!attempt,
           UNCHANGED cancels,
           target' \in {target, TRUE}, streamHandle' \in {streamHandle, TRUE},
           UNCHANGED <<reusable, result>>,
           <<at, cmd>> \in {<<"create", "enable">>, <<"enable", "tree">>,
                            <<"tree", "navigate">>,
                           <<"dom", "body open">>, <<"body open", "body read">>,
                           <<"body read", "body read">>},
           at \in Fetch!Reading => streamHandle' = TRUE
    PROVE  Fetch!FetchInv'
<1>1. /\ todo = <<>> /\ DOMAIN todo = {} /\ LeftOf(Tail(wire))
      /\ Move(cmd, Tail(wire))
      /\ at \in Fetch!Commands /\ at # "idle"
  <2>1. todo = <<>> /\ DOMAIN todo = {} /\ LeftOf(Tail(wire))
    BY AwaitedIsLast
  <2>2. Move(cmd, Tail(wire))
    BY GoMoves
  <2>3. at \in Fetch!Commands /\ at # "idle"
    BY DEF Fetch!Commands
  <2>. QED
    BY <2>1, <2>2, <2>3
<1>2. ClientTypes'
  BY DEF Fetch!FetchInv, Fetch!Typed, Fetch!TypeOK, ClientTypes
<1>3. Accounted(cmd)
  <2>1. at \in Fetch!Reading => streamHandle'
    OBVIOUS
  <2>2. streamHandle => streamHandle'
    OBVIOUS
  <2>3. ~escaped /\ reusable' => ~escaped /\ reusable
    OBVIOUS
  <2>4. ~escaped /\ reusable /\ streams # {} => streamHandle \/ at \in Fetch!Reading
    BY <1>1, StreamKnown DEF Fetch!Reading
  <2>5. cmd # "target close"
    BY DEF Fetch!Closing
  <2>. QED
    BY <1>1, <2>1, <2>2, <2>3, <2>4, <2>5 DEF Accounted
<1>4. cmd \in {"dom"} \cup Fetch!Reading \/ result' = "page" =>
         Fetch!LoadEvents \subseteq loaded
  <2>1. cmd \in {"dom"} \cup Fetch!Reading => at \in {"dom"} \cup Fetch!Reading
    BY DEF Fetch!Reading
  <2>2. at \in {"dom"} \cup Fetch!Reading => Fetch!LoadEvents \subseteq loaded
    BY DEF Fetch!FetchInv, Fetch!OwnDocument
  <2>. QED
    BY <1>1, <2>1, <2>2, PageIsOwn
<1>5. cmd \in {"create", "enable", "tree", "navigate"} =>
         at \in {"connect", "create", "enable", "tree"}
  OBVIOUS
<1>6. cmd = "navigate" =>
         /\ at = "tree"
         /\ \A i \in DOMAIN Tail(wire) : Tail(wire)[i] # Fetch!BlankStop
  BY BlankIsGone
<1>. QED
  BY <1>1, <1>2, <1>3, <1>4, <1>5, <1>6, GoKeeps

(* What stays true of the messages behind the first one.                   *)
LEMMA TailOfWire ==
    ASSUME Fetch!FetchInv, wire # <<>>, wire' = Tail(wire),
           UNCHANGED <<sock, n, sent, todo, loaded, tabs, streams>>
    PROVE  /\ wire' \in Seq(Fetch!Messages)
           /\ \A i \in DOMAIN wire' : wire'[i].kind \in {"reply", "event"}
           /\ Fetch!InOrder'
           /\ \A i \in DOMAIN wire' : wire'[i].kind = "event" => wire'[i].id <= n
           /\ \A i \in DOMAIN wire' :
                 wire'[i].kind = "event" /\ wire'[i].id = n /\
                 wire'[i].name \in Fetch!LoadEvents =>
                    wire'[i].name \in loaded
           /\ \A i \in DOMAIN wire' : \E j \in DOMAIN wire : wire'[i] = wire[j]
           /\ \A i, j \in DOMAIN wire' : i < j =>
                 \E k, l \in DOMAIN wire :
                    k < l /\ wire'[i] = wire[k] /\ wire'[j] = wire[l]
<1>1. Fetch!Typed /\ LeftOf(Tail(wire))
  BY WireIsLeft DEF Fetch!FetchInv
<1>2. /\ wire' \in Seq(Fetch!Messages)
      /\ \A i \in DOMAIN wire' : \E j \in DOMAIN wire : wire'[i] = wire[j]
      /\ \A i, j \in DOMAIN wire' : i < j =>
            \E k, l \in DOMAIN wire : k < l /\ wire'[i] = wire[k] /\ wire'[j] = wire[l]
  BY <1>1, LeftKeeps DEF LeftOf
<1>3. \A i \in DOMAIN wire' : wire'[i].kind \in {"reply", "event"}
  BY <1>1, <1>2 DEF Fetch!Typed, Fetch!TypeOK
<1>4. Fetch!InOrder'
  <2>1. sock = "open"
    BY FetchTypes
  <2>2. \A i \in DOMAIN wire' : wire'[i].kind = "reply" => wire'[i].id <= sent - Len(todo)
    BY <1>2 DEF Fetch!FetchInv, Fetch!InOrder
  <2>3. \A i, j \in DOMAIN wire' :
           i < j /\ wire'[i].kind = "reply" /\ wire'[j].kind = "reply" =>
              wire'[i].id < wire'[j].id
    BY <1>2 DEF Fetch!FetchInv, Fetch!InOrder
  <2>. QED
    BY <2>1, <2>2, <2>3 DEF Fetch!FetchInv, Fetch!InOrder
<1>5. \A i \in DOMAIN wire' : wire'[i].kind = "event" => wire'[i].id <= n
  BY <1>2 DEF Fetch!FetchInv, Fetch!OfEarlierFetches
<1>6. \A i \in DOMAIN wire' :
         wire'[i].kind = "event" /\ wire'[i].id = n /\
         wire'[i].name \in Fetch!LoadEvents =>
            wire'[i].name \in loaded
  BY <1>2 DEF Fetch!FetchInv, Fetch!NavigatesOnce
<1>. QED
  BY <1>2, <1>3, <1>4, <1>5, <1>6

(* The reply to Page.navigate: the barrier begins.                         *)
LEMMA BarrierKeeps ==
    ASSUME Fetch!FetchInv, Fetch!Awaited, at = "navigate", at' = "barrier",
           wire' = Tail(wire),
           UNCHANGED <<sock, sent, todo, events, Fetch!browser, target,
                       streamHandle, reusable, result, Fetch!attempt, cancels>>
    PROVE  Fetch!FetchInv'
<1>1. /\ wire # <<>> /\ todo = <<>> /\ DOMAIN todo = {}
      /\ UNCHANGED <<owned, n, escaped, loaded, tabs, streams>>
  BY AwaitedIsLast DEF Fetch!Awaited, Fetch!attempt, Fetch!browser
<1>2. /\ wire' \in Seq(Fetch!Messages) /\ Fetch!InOrder'
      /\ \A i \in DOMAIN wire' : wire'[i].kind \in {"reply", "event"}
      /\ \A i \in DOMAIN wire' : wire'[i].kind = "event" => wire'[i].id <= n
      /\ \A i \in DOMAIN wire' :
            wire'[i].kind = "event" /\ wire'[i].id = n /\
            wire'[i].name \in Fetch!LoadEvents =>
               wire'[i].name \in loaded
  BY <1>1, TailOfWire
<1>3. Fetch!Typed'
  BY <1>1, <1>2 DEF Fetch!FetchInv, Fetch!Typed, Fetch!TypeOK
<1>4. Fetch!OneOutstanding' /\ Fetch!OfEarlierFetches' /\ Fetch!NavigatesOnce'
  BY <1>1, <1>2
  DEF Fetch!FetchInv, Fetch!OneOutstanding, Fetch!OfEarlierFetches,
      Fetch!NavigatesOnce, Fetch!Commands
<1>5. Fetch!BlankIsPast'
  <2>1. \A i \in DOMAIN wire' : \E j \in DOMAIN wire : wire'[i] = wire[j]
    BY <1>1, TailOfWire
  <2>2. Fetch!BlankStop' = Fetch!BlankStop
    BY <1>1 DEF Fetch!BlankStop, Fetch!Event
  <2>. QED
    BY <1>1, <2>1, <2>2 DEF Fetch!FetchInv, Fetch!BlankIsPast
<1>6. Fetch!HoldsOwn'
  BY <1>1 DEF Fetch!FetchInv, Fetch!HoldsOwn
<1>7. Fetch!CleanBefore' /\ Fetch!OwnDocument'
  BY <1>1
  DEF Fetch!FetchInv, Fetch!CleanBefore, Fetch!OwnDocument, Fetch!Reading
<1>. QED
  BY <1>2, <1>3, <1>4, <1>5, <1>6, <1>7 DEF Fetch!FetchInv

(* An event is kept in the buffer, a reply to an earlier command dropped.  *)
LEMMA ReceiveKeeps ==
    ASSUME Fetch!FetchInv, Fetch!Receive
    PROVE  Fetch!FetchInv'
<1>1. /\ wire # <<>> /\ wire' = Tail(wire)
      /\ at \in Fetch!Commands \cup {"barrier"}
      /\ UNCHANGED <<owned, n, escaped, sock, at, sent, todo, loaded, tabs,
                     streams, target, streamHandle, reusable, cancels, result>>
  BY DEF Fetch!Receive, Fetch!attempt, Fetch!browser
<1>2. /\ wire' \in Seq(Fetch!Messages) /\ Fetch!InOrder'
      /\ \A i \in DOMAIN wire' : wire'[i].kind \in {"reply", "event"}
      /\ \A i \in DOMAIN wire' : wire'[i].kind = "event" => wire'[i].id <= n
      /\ \A i \in DOMAIN wire' :
            wire'[i].kind = "event" /\ wire'[i].id = n /\
            wire'[i].name \in Fetch!LoadEvents =>
               wire'[i].name \in loaded
  BY <1>1, TailOfWire
<1>3. /\ 1 \in DOMAIN wire /\ Head(wire) = wire[1] /\ wire[1] \in Fetch!Messages
      /\ wire[1].kind \in {"reply", "event"}
  <2>1. 1 \in DOMAIN wire /\ Head(wire) = wire[1] /\ wire[1] \in Fetch!Messages
    BY <1>1, FetchTypes
  <2>. QED
    BY <2>1 DEF Fetch!FetchInv, Fetch!Typed, Fetch!TypeOK
<1>4. wire[1].kind = "event" =>
         wire[1] \in [kind : {"event"}, id : 1..MaxFetch,
                     name : Fetch!LoadEvents \cup {"attached", "blank stop"}]
  BY <1>3 DEF Fetch!Messages
<1>5. events' = IF wire[1].kind = "reply" THEN events
                ELSE events \cup {<<wire[1].id, wire[1].name>>}
  BY <1>3 DEF Fetch!Receive
<1>6. Fetch!Typed'
  <2>1. events' \subseteq
            (0..MaxFetch) \X (Fetch!LoadEvents \cup {"attached", "blank stop"})
    <3>1. 1..MaxFetch \subseteq 0..MaxFetch
      BY FetchAssumption
    <3>2. events \subseteq
              (0..MaxFetch) \X (Fetch!LoadEvents \cup {"attached", "blank stop"})
      BY DEF Fetch!FetchInv, Fetch!Typed, Fetch!TypeOK
    <3>3. wire[1].kind = "event" =>
             <<wire[1].id, wire[1].name>> \in
                (0..MaxFetch) \X (Fetch!LoadEvents \cup {"attached", "blank stop"})
      BY <1>4, <3>1
    <3>. QED
      BY <1>3, <1>5, <3>2, <3>3
  <2>. QED
    BY <1>1, <1>2, <2>1 DEF Fetch!FetchInv, Fetch!Typed, Fetch!TypeOK
<1>7. Fetch!OneOutstanding' /\ Fetch!OfEarlierFetches'
  BY <1>1, <1>2
  DEF Fetch!FetchInv, Fetch!OneOutstanding, Fetch!OfEarlierFetches,
      Fetch!Commands
<1>8. Fetch!NavigatesOnce'
  <2>1. \A e \in Fetch!LoadEvents : <<n, e>> \in events' => e \in loaded
    BY <1>3, <1>5 DEF Fetch!FetchInv, Fetch!NavigatesOnce
  <2>. QED
    BY <1>1, <1>2, <2>1 DEF Fetch!FetchInv, Fetch!NavigatesOnce
<1>9. /\ \A i \in DOMAIN wire' : \E j \in DOMAIN wire : wire'[i] = wire[j]
      /\ \A i, j \in DOMAIN wire' : i < j =>
            \E k, l \in DOMAIN wire : k < l /\ wire'[i] = wire[k] /\ wire'[j] = wire[l]
  BY <1>1, TailOfWire
<1>10. Fetch!BlankIsPast'
  <2>1. Fetch!BlankStop' = Fetch!BlankStop
    BY <1>1 DEF Fetch!BlankStop, Fetch!Event
  <2>2. at \in {"navigate", "barrier"} => <<n, "blank stop">> \notin events'
    <3>1. wire[1].kind = "event" /\ wire[1].id = n /\ wire[1].name = "blank stop" =>
             wire[1] = Fetch!BlankStop
      BY <1>4 DEF Fetch!BlankStop, Fetch!Event
    <3>. QED
      BY <1>3, <1>5, <3>1 DEF Fetch!FetchInv, Fetch!BlankIsPast
  <2>3. at = "tree" => \A i, j \in DOMAIN wire' :
           i < j /\ wire'[i].kind = "reply" /\ wire'[i].id = sent =>
              wire'[j] # Fetch!BlankStop
    BY <1>9 DEF Fetch!FetchInv, Fetch!BlankIsPast
  <2>4. at \in {"navigate", "barrier"} =>
           \A i \in DOMAIN wire' : wire'[i] # Fetch!BlankStop
    BY <1>9, ZenonT(30) DEF Fetch!FetchInv, Fetch!BlankIsPast
  <2>. QED
    BY <1>1, <2>1, <2>2, <2>3, <2>4 DEF Fetch!BlankIsPast
<1>11. Fetch!HoldsOwn'
  <2>1. Fetch!Done' => Fetch!Done
    BY <1>1, <1>9 DEF Fetch!Done, Fetch!Reply
  <2>2. at = "body open" /\ Fetch!Done => Fetch!Done'
    <3>1. ASSUME at = "body open", NEW i \in DOMAIN wire,
                 wire[i] = Fetch!Reply(sent, TRUE)
          PROVE  Fetch!Done'
      <4>1. i # 1
        <5>1. ~ Fetch!Awaited
          BY <3>1 DEF Fetch!Receive
        <5>2. wire[i].kind = "reply" /\ wire[i].id = sent
          <6>1. wire[i] = Fetch!Reply(sent, TRUE)
            BY <3>1
          <6>2. /\ Fetch!Reply(sent, TRUE).kind = "reply"
                /\ Fetch!Reply(sent, TRUE).id = sent
            BY ReplyFields
          <6>. QED
            BY <6>1, <6>2, Zenon
        <5>. QED
          BY <1>1, <1>3, <5>1, <5>2 DEF Fetch!Awaited
      <4>2. i - 1 \in DOMAIN Tail(wire) /\ Tail(wire)[i - 1] = wire[i]
        <5>1. /\ \A j \in 1..Len(Tail(wire)) : Tail(wire)[j] = wire[j + 1]
              /\ Len(Tail(wire)) = Len(wire) - 1
              /\ DOMAIN Tail(wire) = 1..Len(Tail(wire))
          BY <1>1, FetchTypes, HeadTailProperties, LenProperties
        <5>2. i - 1 \in 1..Len(Tail(wire)) /\ (i - 1) + 1 = i
          BY <4>1, <5>1, FetchTypes
        <5>. QED
          BY <5>1, <5>2
      <4>. QED
        BY <1>1, <3>1, <4>2 DEF Fetch!Done, Fetch!Reply
    <3>. QED
      BY <3>1 DEF Fetch!Done
  <2>. QED
    BY <1>1, <2>1, <2>2 DEF Fetch!FetchInv, Fetch!HoldsOwn
<1>12. Fetch!CleanBefore' /\ Fetch!OwnDocument'
  BY <1>1
  DEF Fetch!FetchInv, Fetch!CleanBefore, Fetch!OwnDocument, Fetch!Commands
<1>. QED
  BY <1>2, <1>6, <1>7, <1>8, <1>10, <1>11, <1>12 DEF Fetch!FetchInv

-----------------------------------------------------------------------------
(* An answer moves the fetch on,                                           *)
LEMMA AnsweredKeeps ==
    ASSUME Fetch!FetchInv, Fetch!Answered
    PROVE  Fetch!FetchInv'
<1>1. /\ at \in Fetch!Commands \ Fetch!Closing /\ Fetch!Awaited
      /\ UNCHANGED Fetch!attempt /\ UNCHANGED cancels
      /\ wire # <<>>
  BY DEF Fetch!Answered, Fetch!Awaited
<1>2. CASE /\ at = "create" /\ target' = TRUE
           /\ UNCHANGED <<streamHandle, reusable, result>>
           /\ Fetch!Go("enable", Tail(wire))
  BY <1>1, <1>2, NextCommandKeeps
  DEF Fetch!Commands, Fetch!Closing, Fetch!Reading
<1>3. CASE /\ UNCHANGED <<target, streamHandle, reusable, result>>
           /\ \/ at = "enable" /\ Fetch!Go("tree", Tail(wire))
              \/ at = "tree" /\ Fetch!Go("navigate", Tail(wire))
              \/ at = "dom" /\ Fetch!Go("body open", Tail(wire))
  <2>1. CASE at = "enable" /\ Fetch!Go("tree", Tail(wire))
    BY <1>1, <1>3, <2>1, NextCommandKeeps
    DEF Fetch!Commands, Fetch!Closing, Fetch!Reading
  <2>2. CASE at = "tree" /\ Fetch!Go("navigate", Tail(wire))
    BY <1>1, <1>3, <2>2, NextCommandKeeps
    DEF Fetch!Commands, Fetch!Closing, Fetch!Reading
  <2>3. CASE at = "dom" /\ Fetch!Go("body open", Tail(wire))
    BY <1>1, <1>3, <2>3, NextCommandKeeps
    DEF Fetch!Commands, Fetch!Closing, Fetch!Reading
  <2>. QED
    BY <1>3, <2>1, <2>2, <2>3
<1>4. CASE /\ at \in Fetch!Reading /\ streamHandle' = TRUE
           /\ UNCHANGED <<target, reusable, result>>
           /\ Fetch!Go("body read", Tail(wire))
  <2>1. CASE at = "body open"
    BY <1>1, <1>4, <2>1, NextCommandKeeps
    DEF Fetch!Commands, Fetch!Closing, Fetch!Reading
  <2>2. CASE at = "body read"
    BY <1>1, <1>4, <2>2, NextCommandKeeps
    DEF Fetch!Commands, Fetch!Closing, Fetch!Reading
  <2>. QED
    BY <1>4, <2>1, <2>2 DEF Fetch!Reading
<1>5. CASE /\ at = "navigate" /\ at' = "barrier" /\ wire' = Tail(wire)
           /\ UNCHANGED <<sock, sent, todo, events, Fetch!browser, target,
                          streamHandle, reusable, result>>
  BY <1>1, <1>5, BarrierKeeps DEF Fetch!browser, Fetch!attempt
<1>6. CASE at \in {"dom", "body read"} /\ Fetch!Succeed(Tail(wire))
  <2>1. LeftOf(Tail(wire)) /\ todo = <<>>
    BY <1>1, AwaitedIsLast
  <2>2. ~escaped /\ reusable => (streams # {} => streamHandle)
    BY <1>1, <1>6, StreamKnown
  <2>3. cancels' \in 0..MaxCancel
    BY <1>1 DEF Fetch!FetchInv, Fetch!Typed, Fetch!TypeOK
  <2>. QED
    BY <1>1, <1>6, <2>1, <2>2, <2>3, SucceedKeeps DEF Fetch!Reading
<1>. QED
  BY <1>2, <1>3, <1>4, <1>5, <1>6 DEF Fetch!Answered

(* a refusal ends it,                                                      *)
LEMMA RefusedKeeps ==
    ASSUME Fetch!FetchInv, Fetch!Refused
    PROVE  Fetch!FetchInv'
<1>1. /\ at \in Fetch!Commands \ Fetch!Closing /\ Fetch!Awaited
      /\ UNCHANGED Fetch!attempt
      /\ cancels' \in 0..MaxCancel /\ target \in BOOLEAN
  BY DEF Fetch!Refused, Fetch!FetchInv, Fetch!Typed, Fetch!TypeOK
<1>2. LeftOf(Tail(wire)) /\ todo = <<>> /\ at # "idle"
  BY <1>1, AwaitedIsLast DEF Fetch!Commands
<1>3. CASE Fetch!Fail(target \/ (at = "create" /\ Head(wire).name = "ok"), Tail(wire))
  <2>1. (target \/ (at = "create" /\ Head(wire).name = "ok")) \in BOOLEAN
    BY <1>1
  <2>. QED
    BY <1>1, <1>2, <1>3, <2>1, FailKeeps
<1>4. CASE at = "body open" /\ Head(wire).name = "error" /\ Fetch!Succeed(Tail(wire))
  <2>1. ~escaped /\ reusable => (streams # {} => streamHandle)
    BY <1>1, <1>4, StreamKnown
  <2>. QED
    BY <1>1, <1>2, <1>4, <2>1, SucceedKeeps DEF Fetch!Reading
<1>. QED
  BY <1>3, <1>4 DEF Fetch!Refused

(* The page is read only after every event of its own navigation.          *)
LEMMA StoppedKeeps ==
    ASSUME Fetch!FetchInv, Fetch!Stopped
    PROVE  Fetch!FetchInv'
<1>1. /\ at = "barrier" /\ UNCHANGED Fetch!attempt /\ UNCHANGED cancels
      /\ events \cap {<<n, "stop">>, <<n, "blank stop">>} # {}
  BY DEF Fetch!Stopped
<1>2. LeftOf(wire) /\ todo = <<>>
  BY <1>1, WireIsLeft DEF Fetch!FetchInv, Fetch!OneOutstanding
<1>3. CASE ~ (\A e \in {"document", "finished"} : <<n, e>> \in events)
  <2>1. cancels' \in 0..MaxCancel /\ target \in BOOLEAN
    BY <1>1 DEF Fetch!FetchInv, Fetch!Typed, Fetch!TypeOK
  <2>. QED
    BY <1>1, <1>2, <1>3, <2>1, FailKeeps DEF Fetch!Stopped
<1>4. CASE \A e \in {"document", "finished"} : <<n, e>> \in events
  <2>1. PICK next \in {"dom", "body open"} : Fetch!Go(next, wire)
    BY <1>4 DEF Fetch!Stopped
  <2>2. UNCHANGED <<target, streamHandle, reusable, result>>
    BY <1>4 DEF Fetch!Stopped
  <2>3. Fetch!LoadEvents \subseteq loaded
    BY <1>1, <1>4
    DEF Fetch!FetchInv, Fetch!NavigatesOnce, Fetch!BlankIsPast, Fetch!LoadEvents
  <2>4. Accounted(next)
    BY <1>1, <1>2, <2>1, <2>2 DEF Accounted, Fetch!FetchInv, Fetch!HoldsOwn
  <2>5. ClientTypes'
    BY <1>1, <2>2, ClientStays
  <2>6. /\ next \in Fetch!Commands \ Fetch!Closing
        /\ next \notin {"create", "enable", "tree", "navigate"}
    BY DEF Fetch!Commands, Fetch!Closing
  <2>7. DOMAIN todo = {}
    BY <1>2, NothingTodo
  <2>. QED
    BY <1>1, <1>2, <2>1, <2>3, <2>4, <2>5, <2>6, <2>7, GoMoves, GoKeeps
<1>. QED
  BY <1>3, <1>4

(* and so does a deadline.                                                 *)
LEMMA DeadlineKeeps ==
    ASSUME Fetch!FetchInv, Fetch!Deadline
    PROVE  Fetch!FetchInv'
<1>1. /\ at # "idle" /\ UNCHANGED Fetch!attempt /\ LeftOf(wire)
      /\ cancels' \in 0..MaxCancel /\ target \in BOOLEAN
  BY WireIsLeft DEF Fetch!Deadline, Fetch!FetchInv, Fetch!Typed, Fetch!TypeOK
<1>2. CASE Fetch!Fail(target, wire)
  BY <1>1, <1>2, FailKeeps
<1>3. CASE at \in Fetch!Reading /\ sock = "dropped" /\ Fetch!Succeed(wire)
  <2>1. todo = <<>> /\ streams = {}
    BY <1>3 DEF Fetch!FetchInv, Fetch!InOrder
  <2>. QED
    BY <1>1, <1>3, <2>1, SucceedKeeps
<1>. QED
  BY <1>2, <1>3 DEF Fetch!Deadline

(* A confirmed cleanup leaves the connection clean.                        *)
LEMMA CloseReplyKeeps ==
    ASSUME Fetch!FetchInv, Fetch!Closed
    PROVE  Fetch!FetchInv'
<1>1. /\ at \in Fetch!Closing /\ Fetch!Awaited
      /\ UNCHANGED <<owned, n, escaped, target, cancels, result>>
      /\ streamHandle' = FALSE
      /\ reusable' = (reusable /\ Head(wire).name = "ok")
      /\ at \in Fetch!Commands /\ at # "idle"
  BY DEF Fetch!Closed, Fetch!CloseFails, Fetch!attempt, Fetch!Closing,
         Fetch!Commands
<1>2. /\ LeftOf(Tail(wire)) /\ todo = <<>>
      /\ \A i \in DOMAIN Tail(wire) : Tail(wire)[i].kind = "event"
  BY <1>1, AwaitedIsLast
<1>3. ClientTypes' /\ n > 0
  BY <1>1 DEF Fetch!FetchInv, Fetch!Typed, Fetch!TypeOK, ClientTypes
<1>4. result' = "page" => Fetch!LoadEvents \subseteq loaded
  BY <1>1, PageIsOwn
<1>5. CASE at = "body close" /\ Fetch!Go("target close", Tail(wire))
  <2>1. Accounted("target close")
    BY <1>1, <1>2, <1>5, StreamKnown DEF Accounted
  <2>2. DOMAIN todo = {} /\ Move("target close", Tail(wire))
    BY <1>2, <1>5, NothingTodo, GoMoves
  <2>3. "target close" \in Fetch!Commands /\ "target close" \in Fetch!Closing
    BY DEF Fetch!Commands, Fetch!Closing
  <2>4. "target close" \notin {"dom"} \cup Fetch!Reading
    BY DEF Fetch!Reading
  <2>. QED
    BY <1>1, <1>2, <1>3, <1>4, <2>1, <2>2, <2>3, <2>4, GoKeeps DEF Fetch!attempt
<1>6. CASE at = "target close" /\ Fetch!Leave(owned /\ reusable', Tail(wire))
  <2>1. ~escaped /\ reusable' => tabs = {} /\ streams = {}
    BY <1>1, <1>6, StreamKnown
  <2>2. /\ owned \in BOOLEAN /\ escaped \in BOOLEAN
        /\ (owned /\ reusable') \in BOOLEAN
    BY <1>1 DEF Fetch!FetchInv, Fetch!Typed, Fetch!TypeOK
  <2>. QED
    BY <1>1, <1>2, <1>3, <1>4, <1>6, <2>1, <2>2, LeaveKeeps
<1>. QED
  BY <1>1, <1>5, <1>6 DEF Fetch!Closed, Fetch!Closing

LEMMA CloseDeadlineKeeps ==
    ASSUME Fetch!FetchInv, Fetch!CloseDeadline
    PROVE  Fetch!FetchInv'
<1>1. /\ at \in Fetch!Closing
      /\ UNCHANGED <<owned, n, escaped, target, cancels, result>>
      /\ streamHandle' = FALSE /\ reusable' = FALSE /\ at # "idle"
      /\ at \in Fetch!Commands
  BY DEF Fetch!CloseDeadline, Fetch!attempt, Fetch!Closing, Fetch!Commands
<1>2. ClientTypes' /\ n > 0 /\ LeftOf(wire) /\ escaped' \in BOOLEAN
  BY <1>1, WireIsLeft DEF Fetch!FetchInv, Fetch!Typed, Fetch!TypeOK, ClientTypes
<1>3. result' = "page" => Fetch!LoadEvents \subseteq loaded
  BY <1>1, PageIsOwn
<1>4. CASE Fetch!Go("target close", wire)
  <2>1. Accounted("target close")
    BY <1>1 DEF Accounted
  <2>2. /\ "target close" \in Fetch!Commands /\ "target close" \in Fetch!Closing
        /\ "target close" \notin {"dom"} \cup Fetch!Reading
    BY DEF Fetch!Commands, Fetch!Closing, Fetch!Reading
  <2>. QED
    BY <1>1, <1>2, <1>3, <1>4, <2>1, <2>2, GoMoves, GoKeeps DEF Fetch!attempt
<1>5. CASE Fetch!Leave(FALSE, wire)
  BY <1>1, <1>2, <1>3, <1>5, LeaveKeeps
<1>. QED
  BY <1>4, <1>5 DEF Fetch!CloseDeadline

(* A cancellation of Target.closeTarget is the exception.                  *)
LEMMA CancelKeeps ==
    ASSUME Fetch!FetchInv, Fetch!Cancel
    PROVE  Fetch!FetchInv'
<1>1. /\ cancels' \in 0..MaxCancel /\ LeftOf(wire) /\ owned \in BOOLEAN
      /\ target \in BOOLEAN /\ streamHandle \in BOOLEAN /\ reusable \in BOOLEAN
  <2>1. cancels' \in 0..MaxCancel
    <3>1. /\ cancels \in 0..MaxCancel /\ cancels < MaxCancel
          /\ cancels' = cancels + 1
      BY DEF Fetch!Cancel, Fetch!FetchInv, Fetch!Typed, Fetch!TypeOK
    <3>. QED
      BY <3>1, FetchAssumption
  <2>. QED
    BY <2>1, WireIsLeft DEF Fetch!FetchInv, Fetch!Typed, Fetch!TypeOK
<1>2. CASE /\ at \notin {"idle"} \cup Fetch!Closing /\ Fetch!Fail(target, wire)
           /\ UNCHANGED Fetch!attempt
  BY <1>1, <1>2, FailKeeps
<1>3. CASE /\ at = "body close" /\ result' = "error" /\ reusable' = FALSE
           /\ streamHandle' = FALSE
           /\ Fetch!Go("target close", wire)
           /\ UNCHANGED <<Fetch!attempt, target>>
  <2>1. ClientTypes'
    BY <1>1, <1>3 DEF ClientTypes
  <2>2. Accounted("target close")
    BY <1>3 DEF Accounted
  <2>3. /\ "target close" \in Fetch!Commands /\ "target close" \in Fetch!Closing
        /\ "target close" \notin {"dom"} \cup Fetch!Reading
    BY DEF Fetch!Commands, Fetch!Closing, Fetch!Reading
  <2>. QED
    BY <1>1, <1>3, <2>1, <2>2, <2>3, GoMoves, GoKeeps
<1>4. CASE /\ at = "target close" /\ result' = "error" /\ escaped' = TRUE
           /\ Fetch!Leave(owned, wire)
           /\ UNCHANGED <<owned, n, target, streamHandle, reusable>>
  <2>1. ClientTypes' /\ n > 0
    BY <1>1, <1>4 DEF Fetch!FetchInv, Fetch!Typed, ClientTypes
  <2>. QED
    BY <1>1, <1>4, <2>1, LeaveKeeps
<1>. QED
  BY <1>2, <1>3, <1>4 DEF Fetch!Cancel

(* A fetch connects, or goes on with the connection it was given.          *)
LEMMA ConnectionKeeps ==
    ASSUME Fetch!FetchInv, Fetch!Connect
    PROVE  Fetch!FetchInv'
<1>1. /\ at = "connect" /\ UNCHANGED Fetch!attempt /\ LeftOf(wire)
      /\ UNCHANGED <<target, streamHandle, reusable, cancels, result>>
  BY WireIsLeft DEF Fetch!Connect, Fetch!FetchInv
<1>2. Move("create", wire)
  BY DEF Fetch!Connect, Move
<1>3. ClientTypes'
  BY <1>1, ClientStays
<1>4. \A i \in DOMAIN todo : todo[i].n # n
  BY <1>1, FetchTypes DEF Fetch!FetchInv, Fetch!OfEarlierFetches, Fetch!Orders
<1>5. Accounted("create")
  <2>1. ~escaped => todo = <<>> /\ streams = {}
    BY <1>1 DEF Fetch!FetchInv, Fetch!CleanBefore, Fetch!InOrder
  <2>. QED
    BY <2>1 DEF Accounted
<1>6. /\ "create" \in Fetch!Commands
      /\ "create" \notin {"dom"} \cup Fetch!Reading
      /\ result' # "page"
  BY <1>1
  DEF Fetch!Commands, Fetch!Reading, Fetch!FetchInv, Fetch!OfEarlierFetches
<1>. QED
  BY <1>1, <1>2, <1>3, <1>4, <1>5, <1>6, GoKeeps

(* Nothing has been sent at the start.                                     *)
LEMMA FetchStarts == Fetch!Init => Fetch!FetchInv
<1>. SUFFICES ASSUME Fetch!Init PROVE Fetch!FetchInv
  OBVIOUS
<1>1. wire = <<>> /\ todo = <<>> /\ DOMAIN wire = {} /\ DOMAIN todo = {}
  BY DEF Fetch!Init
<1>2. Fetch!Typed
  <2>1. wire \in Seq(Fetch!Messages) /\ todo \in Seq(Fetch!Orders)
    BY <1>1, EmptySeq
  <2>2. 0 \in 0..MaxFetch /\ 0 \in 0..MaxCancel /\ 0 \in Nat
    BY FetchAssumption
  <2>. QED
    BY <1>1, <2>1, <2>2 DEF Fetch!Init, Fetch!Typed, Fetch!TypeOK
<1>3. Fetch!InOrder /\ Fetch!OneOutstanding
  BY <1>1 DEF Fetch!Init, Fetch!InOrder, Fetch!OneOutstanding, Fetch!Commands
<1>4. Fetch!OfEarlierFetches /\ Fetch!NavigatesOnce /\ Fetch!BlankIsPast
  BY <1>1
  DEF Fetch!Init, Fetch!OfEarlierFetches, Fetch!NavigatesOnce, Fetch!BlankIsPast
<1>5. Fetch!HoldsOwn /\ Fetch!CleanBefore /\ Fetch!OwnDocument
  BY <1>1
  DEF Fetch!Init, Fetch!HoldsOwn, Fetch!CleanBefore, Fetch!OwnDocument,
      Fetch!Reading
<1>. QED
  BY <1>2, <1>3, <1>4, <1>5 DEF Fetch!FetchInv

(* A fetch begins on a connection that is new, dropped or clean, but after *)
(* the exception.                                                          *)
LEMMA BeginKeeps ==
    ASSUME Fetch!FetchInv, Fetch!Begin
    PROVE  Fetch!FetchInv'
<1>1. /\ at = "idle" /\ at' = "connect" /\ n' = n + 1 /\ n < MaxFetch
      /\ loaded' = {} /\ result' = "none" /\ target' = FALSE
      /\ streamHandle' = FALSE
      /\ reusable' = TRUE /\ escaped' = (escaped /\ sock # "none")
      /\ UNCHANGED <<owned, sock, sent, wire, todo, events, tabs, streams,
                     cancels>>
  BY DEF Fetch!Begin
<1>2. n' \in 0..MaxFetch /\ n' > 0 /\ n < n'
  BY <1>1, FetchTypes, FetchAssumption
<1>3. Fetch!Typed'
  BY <1>1, <1>2 DEF Fetch!FetchInv, Fetch!Typed, Fetch!TypeOK
<1>4. Fetch!InOrder' /\ Fetch!OneOutstanding' /\ Fetch!BlankIsPast'
  BY <1>1
  DEF Fetch!FetchInv, Fetch!InOrder, Fetch!OneOutstanding, Fetch!BlankIsPast,
      Fetch!Commands
<1>5. /\ \A i \in DOMAIN todo : todo[i].n \in Nat /\ todo[i].n <= n
      /\ \A i \in DOMAIN wire : wire[i].kind = "event" =>
            wire[i].id \in Nat /\ wire[i].id <= n
  <2>1. \A i \in DOMAIN todo : todo[i].n \in 1..MaxFetch
    <3>1. \A i \in DOMAIN todo : todo[i] \in Fetch!Orders
      BY FetchTypes
    <3>. QED
      BY <3>1 DEF Fetch!Orders
  <2>. QED
    BY <2>1, ReplyNumbers, FetchAssumption
    DEF Fetch!FetchInv, Fetch!OfEarlierFetches
<1>6. /\ \A i \in DOMAIN todo : todo[i].n < n'
      /\ \A i \in DOMAIN wire : wire[i].kind = "event" => wire[i].id < n'
  BY <1>1, <1>5, FetchTypes
<1>7. Fetch!OfEarlierFetches'
  BY <1>1, <1>2, <1>5, <1>6, FetchTypes
  DEF Fetch!FetchInv, Fetch!OfEarlierFetches
<1>8. Fetch!NavigatesOnce'
  <2>1. /\ \A i \in DOMAIN todo : todo[i].n # n'
        /\ \A i \in DOMAIN wire : wire[i].kind = "event" => wire[i].id # n'
    BY <1>2, <1>5, <1>6, FetchTypes
  <2>2. events = {}
    BY <1>1 DEF Fetch!FetchInv, Fetch!OfEarlierFetches
  <2>. QED
    BY <1>1, <2>1, <2>2 DEF Fetch!NavigatesOnce
<1>9. ~escaped' => todo = <<>> /\ tabs = {} /\ streams = {}
  BY <1>1
  DEF Fetch!FetchInv, Fetch!InOrder, Fetch!CleanBefore, Fetch!Typed,
      Fetch!TypeOK
<1>10. Fetch!HoldsOwn'
  <2>1. todo = <<>> => DOMAIN todo = {}
    BY NothingTodo
  <2>. QED
    BY <1>1, <1>9, <2>1 DEF Fetch!HoldsOwn
<1>11. Fetch!CleanBefore'
  BY <1>1, <1>9 DEF Fetch!FetchInv, Fetch!CleanBefore
<1>12. Fetch!OwnDocument'
  BY <1>1 DEF Fetch!OwnDocument, Fetch!Reading
<1>. QED
  BY <1>3, <1>4, <1>7, <1>8, <1>10, <1>11, <1>12 DEF Fetch!FetchInv

(* A lost connection takes everything with it.                             *)
LEMMA DropKeeps ==
    ASSUME Fetch!FetchInv, Fetch!Drop
    PROVE  Fetch!FetchInv'
<1>1. /\ sock' = "dropped" /\ wire' = <<>> /\ todo' = <<>> /\ tabs' = {}
      /\ streams' = {}
      /\ UNCHANGED <<owned, at, n, sent, events, target, streamHandle, reusable,
                     escaped, cancels, result, loaded>>
      /\ DOMAIN wire' = {} /\ DOMAIN todo' = {}
  BY DEF Fetch!Drop, Fetch!client
<1>2. Fetch!Typed'
  <2>1. wire' \in Seq(Fetch!Messages) /\ todo' \in Seq(Fetch!Orders)
    BY <1>1, EmptySeq
  <2>. QED
    BY <1>1, <2>1 DEF Fetch!FetchInv, Fetch!Typed, Fetch!TypeOK
<1>3. Fetch!InOrder' /\ Fetch!OneOutstanding'
  BY <1>1 DEF Fetch!FetchInv, Fetch!InOrder, Fetch!OneOutstanding
<1>4. Fetch!OfEarlierFetches' /\ Fetch!NavigatesOnce' /\ Fetch!BlankIsPast'
  BY <1>1
  DEF Fetch!FetchInv, Fetch!OfEarlierFetches, Fetch!NavigatesOnce,
      Fetch!BlankIsPast
<1>5. Fetch!HoldsOwn' /\ Fetch!CleanBefore' /\ Fetch!OwnDocument'
  BY <1>1
  DEF Fetch!FetchInv, Fetch!HoldsOwn, Fetch!CleanBefore, Fetch!OwnDocument
<1>. QED
  BY <1>2, <1>3, <1>4, <1>5 DEF Fetch!FetchInv

LEMMA FetchUnmoved ==
    ASSUME Fetch!FetchInv, UNCHANGED Fetch!vars
    PROVE  Fetch!FetchInv'
<1>1. Fetch!Typed' /\ Fetch!InOrder'
  BY ZenonT(30)
  DEF Fetch!vars, Fetch!FetchInv, Fetch!Typed, Fetch!TypeOK, Fetch!InOrder
<1>4. Fetch!OneOutstanding' /\ Fetch!OfEarlierFetches'
  BY DEF Fetch!vars, Fetch!FetchInv, Fetch!OneOutstanding,
         Fetch!OfEarlierFetches
<1>2. Fetch!NavigatesOnce' /\ Fetch!BlankIsPast' /\ Fetch!OwnDocument'
  BY DEF Fetch!vars, Fetch!FetchInv, Fetch!NavigatesOnce, Fetch!BlankIsPast,
         Fetch!BlankStop, Fetch!Event, Fetch!OwnDocument
<1>3. Fetch!HoldsOwn' /\ Fetch!CleanBefore'
  BY DEF Fetch!vars, Fetch!FetchInv, Fetch!HoldsOwn, Fetch!Done, Fetch!Reply,
         Fetch!CleanBefore
<1>. QED
  BY <1>1, <1>2, <1>3, <1>4 DEF Fetch!FetchInv

-----------------------------------------------------------------------------
(* What the browser says comes after what it said before.                  *)
LEMMA SaidLast ==
    ASSUME Fetch!FetchInv, NEW messages \in Seq(Fetch!Messages),
           Fetch!Say(messages)
    PROVE  /\ wire' \in Seq(Fetch!Messages)
           /\ \A i \in DOMAIN wire' :
                 \/ i \in DOMAIN wire /\ wire'[i] = wire[i]
                 \/ /\ i > Len(wire) /\ i - Len(wire) \in DOMAIN messages
                    /\ wire'[i] = messages[i - Len(wire)]
           /\ \A k \in DOMAIN messages :
                 Len(wire) + k \in DOMAIN wire' /\ wire'[Len(wire) + k] = messages[k]
           /\ \A i \in DOMAIN wire : i \in DOMAIN wire' /\ wire'[i] = wire[i]
<1>1. /\ wire \in Seq(Fetch!Messages) /\ DOMAIN wire = 1..Len(wire)
      /\ Len(wire) \in Nat
      /\ DOMAIN messages = 1..Len(messages) /\ Len(messages) \in Nat
  BY FetchTypes, LenProperties
<1>2. /\ wire' \in Seq(Fetch!Messages) /\ Len(wire') = Len(wire) + Len(messages)
      /\ \A i \in 1..Len(wire) + Len(messages) :
            wire'[i] = IF i <= Len(wire) THEN wire[i] ELSE messages[i - Len(wire)]
  BY <1>1, ConcatProperties DEF Fetch!Say
<1>3. DOMAIN wire' = 1..Len(wire) + Len(messages)
  BY <1>2, LenProperties
<1>4. \A i \in DOMAIN wire' :
         \/ i \in DOMAIN wire /\ wire'[i] = wire[i]
         \/ /\ i > Len(wire) /\ i - Len(wire) \in DOMAIN messages
            /\ wire'[i] = messages[i - Len(wire)]
  BY <1>1, <1>2, <1>3
<1>5. \A k \in DOMAIN messages :
         Len(wire) + k \in DOMAIN wire' /\ wire'[Len(wire) + k] = messages[k]
  <2>. SUFFICES ASSUME NEW k \in DOMAIN messages
                PROVE  /\ Len(wire) + k \in DOMAIN wire'
                       /\ wire'[Len(wire) + k] = messages[k]
    OBVIOUS
  <2>1. /\ Len(wire) + k \in 1..Len(wire) + Len(messages)
        /\ ~(Len(wire) + k <= Len(wire)) /\ (Len(wire) + k) - Len(wire) = k
    BY <1>1
  <2>. QED
    BY <1>2, <1>3, <2>1
<1>6. \A i \in DOMAIN wire : i \in DOMAIN wire' /\ wire'[i] = wire[i]
  BY <1>1, <1>2, <1>3
<1>. QED
  BY <1>2, <1>4, <1>5, <1>6

(* One message, or two.                                                    *)
LEMMA OneMore ==
    ASSUME Fetch!FetchInv, NEW a \in Fetch!Messages, Fetch!Say(<<a>>)
    PROVE  /\ wire' \in Seq(Fetch!Messages)
           /\ \A i \in DOMAIN wire : i \in DOMAIN wire' /\ wire'[i] = wire[i]
           /\ Len(wire) + 1 \in DOMAIN wire' /\ wire'[Len(wire) + 1] = a
           /\ Len(wire) + 1 > Len(wire)
           /\ \A i \in DOMAIN wire' \ {Len(wire) + 1} :
                 i \in DOMAIN wire /\ wire'[i] = wire[i]
<1>1. <<a>> \in Seq(Fetch!Messages) /\ DOMAIN <<a>> = {1} /\ <<a>>[1] = a
  OBVIOUS
<1>2. /\ wire' \in Seq(Fetch!Messages)
      /\ \A i \in DOMAIN wire' :
            \/ i \in DOMAIN wire /\ wire'[i] = wire[i]
            \/ i > Len(wire) /\ i - Len(wire) = 1
      /\ Len(wire) + 1 \in DOMAIN wire' /\ wire'[Len(wire) + 1] = a
      /\ \A i \in DOMAIN wire : i \in DOMAIN wire' /\ wire'[i] = wire[i]
  BY <1>1, SaidLast
<1>3. DOMAIN wire' \subseteq Nat
  BY <1>2, LenProperties
<1>4. \A i \in DOMAIN wire' \ {Len(wire) + 1} : i \in DOMAIN wire /\ wire'[i] = wire[i]
  <2>1. Len(wire) \in Nat
    BY FetchTypes
  <2>. QED
    BY <1>2, <1>3, <2>1
<1>5. Len(wire) + 1 > Len(wire)
  BY FetchTypes
<1>. QED
  BY <1>2, <1>4, <1>5

LEMMA EventFields ==
    ASSUME NEW id, NEW name
    PROVE  /\ Fetch!Event(id, name).kind = "event"
           /\ Fetch!Event(id, name).id = id
           /\ Fetch!Event(id, name).name = name
  BY DEF Fetch!Event

(* The browser sends an event of the page's load.                          *)
LEMMA LoadEventKeeps ==
    ASSUME Fetch!FetchInv, NEW e \in Fetch!LoadEvents, Fetch!Emit(e)
    PROVE  Fetch!FetchInv'
<1>1. /\ sock = "open" /\ n \in tabs /\ "start" \in loaded
      /\ loaded' = loaded \cup {e}
      /\ Fetch!Say(<<Fetch!Event(n, e)>>)
      /\ UNCHANGED <<owned, at, n, sent, events, target, streamHandle, reusable,
                     escaped, cancels, result, sock, todo, tabs, streams>>
  BY DEF Fetch!Emit, Fetch!client
<1>2. Fetch!Event(n, e) \in Fetch!Messages
  <2>1. n \in 1..MaxFetch
    BY <1>1 DEF Fetch!FetchInv, Fetch!Typed, Fetch!TypeOK
  <2>. QED
    BY <2>1 DEF Fetch!Event, Fetch!Messages
<1>3. /\ wire' \in Seq(Fetch!Messages)
      /\ \A i \in DOMAIN wire' :
            \/ i \in DOMAIN wire /\ wire'[i] = wire[i]
            \/ i > Len(wire) /\ wire'[i] = Fetch!Event(n, e)
      /\ \A i \in DOMAIN wire : i \in DOMAIN wire' /\ wire'[i] = wire[i]
  <2>. DEFINE v == Fetch!Event(n, e)
  <2>1. v \in Fetch!Messages /\ Fetch!Say(<<v>>)
    BY <1>1, <1>2
  <2>. HIDE DEF v
  <2>2. /\ wire' \in Seq(Fetch!Messages)
        /\ \A i \in DOMAIN wire : i \in DOMAIN wire' /\ wire'[i] = wire[i]
        /\ wire'[Len(wire) + 1] = v /\ Len(wire) + 1 > Len(wire)
        /\ \A i \in DOMAIN wire' \ {Len(wire) + 1} :
              i \in DOMAIN wire /\ wire'[i] = wire[i]
    BY <2>1, OneMore
  <2>. QED
    BY <2>2, Zenon DEF v
<1>4. Fetch!Typed'
  <2>1. \A i \in DOMAIN wire' : wire'[i].kind \in {"reply", "event"}
    <3>1. \A i \in DOMAIN wire : wire[i].kind \in {"reply", "event"}
      BY DEF Fetch!FetchInv, Fetch!Typed, Fetch!TypeOK
    <3>. QED
      BY <1>3, <3>1, EventFields
  <2>. QED
    BY <1>1, <1>3, <2>1 DEF Fetch!FetchInv, Fetch!Typed, Fetch!TypeOK
<1>5. Fetch!InOrder'
  <2>1. \A i \in DOMAIN wire' :
           wire'[i].kind = "reply" => i \in DOMAIN wire /\ wire'[i] = wire[i]
    BY <1>3, EventFields
  <2>. QED
    BY <1>1, <2>1 DEF Fetch!FetchInv, Fetch!InOrder
<1>6. Fetch!OneOutstanding'
  BY <1>1 DEF Fetch!FetchInv, Fetch!OneOutstanding
<1>7. at \notin {"connect", "create", "enable", "tree"} /\ loaded # {}
  BY <1>1 DEF Fetch!FetchInv, Fetch!NavigatesOnce
<1>8. Fetch!OfEarlierFetches'
  BY <1>1, <1>3, <1>7, EventFields, FetchTypes
  DEF Fetch!FetchInv, Fetch!OfEarlierFetches
<1>9. Fetch!NavigatesOnce'
  <2>1. \A i \in DOMAIN wire' :
           wire'[i].kind = "event" /\ wire'[i].id = n /\
           wire'[i].name \in Fetch!LoadEvents =>
              wire'[i].name \in loaded'
    BY <1>1, <1>3, EventFields DEF Fetch!FetchInv, Fetch!NavigatesOnce
  <2>. QED
    BY <1>1, <1>7, <2>1 DEF Fetch!FetchInv, Fetch!NavigatesOnce
<1>10. Fetch!BlankIsPast'
  <2>1. /\ Fetch!BlankStop' = Fetch!BlankStop
        /\ Fetch!BlankStop # Fetch!Event(n, e)
    BY <1>1 DEF Fetch!BlankStop, Fetch!Event, Fetch!LoadEvents
  <2>. QED
    BY <1>1, <1>3, <1>7, <2>1 DEF Fetch!FetchInv, Fetch!BlankIsPast
<1>11. Fetch!Done' <=> Fetch!Done
  <2>1. Fetch!Done => Fetch!Done'
    BY <1>1, <1>3 DEF Fetch!Done, Fetch!Reply
  <2>2. \A ok \in BOOLEAN : Fetch!Event(n, e) # Fetch!Reply(sent, ok)
    BY DEF Fetch!Event, Fetch!Reply
  <2>3. Fetch!Done' => Fetch!Done
    BY <1>1, <1>3, <2>2 DEF Fetch!Done, Fetch!Reply
  <2>. QED
    BY <2>1, <2>3
<1>12. Fetch!HoldsOwn'
  BY <1>1, <1>11 DEF Fetch!FetchInv, Fetch!HoldsOwn
<1>13. Fetch!CleanBefore' /\ Fetch!OwnDocument'
  <2>1. Fetch!CleanBefore'
    BY <1>1, <1>7 DEF Fetch!FetchInv, Fetch!CleanBefore
  <2>. QED
    BY <1>1, <2>1 DEF Fetch!FetchInv, Fetch!OwnDocument
<1>. QED
  BY <1>4, <1>5, <1>6, <1>8, <1>9, <1>10, <1>12, <1>13 DEF Fetch!FetchInv

(* The command the browser handles is the oldest, and the others are what  *)
(* they were.                                                              *)
LEMMA ServedFirst ==
    ASSUME Fetch!FetchInv, todo # <<>>, todo' = Tail(todo)
    PROVE  /\ Head(todo) = todo[1] /\ 1 \in DOMAIN todo
           /\ todo[1] \in Fetch!Orders
           /\ todo[1].id = (sent - Len(todo)) + 1 /\ todo[1].n <= n
           /\ todo' \in Seq(Fetch!Orders) /\ Len(todo') = Len(todo) - 1
           /\ DOMAIN todo' = 1..Len(todo')
           /\ \A i \in DOMAIN todo' : i + 1 \in DOMAIN todo /\ todo'[i] = todo[i + 1]
           /\ Len(todo) > 0
<1>1. /\ todo \in Seq(Fetch!Orders) /\ DOMAIN todo = 1..Len(todo)
      /\ Len(todo) \in Nat \ {0}
  BY FetchTypes, EmptySeq
<1>2. 1 \in DOMAIN todo /\ Head(todo) = todo[1] /\ todo[1] \in Fetch!Orders
  BY <1>1
<1>3. /\ todo' \in Seq(Fetch!Orders) /\ Len(todo') = Len(todo) - 1
      /\ \A i \in 1..Len(todo') : todo'[i] = todo[i + 1]
  BY <1>1, HeadTailProperties
<1>4. DOMAIN todo' = 1..Len(todo')
  BY <1>3, LenProperties
<1>5. todo[1].id = (sent - Len(todo)) + 1 /\ todo[1].n <= n
  BY <1>2 DEF Fetch!FetchInv, Fetch!InOrder, Fetch!OfEarlierFetches
<1>. QED
  BY <1>1, <1>2, <1>3, <1>4, <1>5

(* What a served command adds to the wire: its reply, and for the setup an *)
(* event.                                                                  *)
Served(ok) ==
    /\ wire' \in Seq(Fetch!Messages)
    /\ \A i \in DOMAIN wire : i \in DOMAIN wire' /\ wire'[i] = wire[i]
    /\ \E r \in DOMAIN wire' :
          /\ r > Len(wire) /\ wire'[r] = Fetch!Reply(todo[1].id, ok)
          /\ \A i \in DOMAIN wire' \ {r} :
                \/ i \in DOMAIN wire /\ wire'[i] = wire[i]
                \/ /\ i > Len(wire)
                   /\ \/ wire'[i] = Fetch!Event(todo[1].n, "attached")
                      \/ /\ todo[1].cmd = "enable"
                         /\ wire'[i] = Fetch!Event(todo[1].n, "blank stop")

LEMMA ServedMessages ==
    ASSUME Fetch!FetchInv, todo[1] \in Fetch!Orders
    PROVE  /\ \A ok \in BOOLEAN : Fetch!Reply(todo[1].id, ok) \in Fetch!Messages
           /\ Fetch!Event(todo[1].n, "attached") \in Fetch!Messages
           /\ Fetch!Event(todo[1].n, "blank stop") \in Fetch!Messages
<1>1. todo[1].id \in Nat /\ todo[1].n \in 1..MaxFetch
  BY DEF Fetch!Orders
<1>. QED
  BY <1>1 DEF Fetch!Reply, Fetch!Event, Fetch!Messages

LEMMA TwoMore ==
    ASSUME Fetch!FetchInv, NEW a \in Fetch!Messages, NEW b \in Fetch!Messages,
           Fetch!Say(<<a, b>>)
    PROVE  /\ wire' \in Seq(Fetch!Messages)
           /\ \A i \in DOMAIN wire : i \in DOMAIN wire' /\ wire'[i] = wire[i]
           /\ Len(wire) + 1 \in DOMAIN wire' /\ wire'[Len(wire) + 1] = a
           /\ Len(wire) + 2 \in DOMAIN wire' /\ wire'[Len(wire) + 2] = b
           /\ Len(wire) + 1 > Len(wire) /\ Len(wire) + 2 > Len(wire)
           /\ \A i \in DOMAIN wire' \ {Len(wire) + 1, Len(wire) + 2} :
                 i \in DOMAIN wire /\ wire'[i] = wire[i]
<1>1. /\ <<a, b>> \in Seq(Fetch!Messages) /\ DOMAIN <<a, b>> = {1, 2}
      /\ <<a, b>>[1] = a /\ <<a, b>>[2] = b
  OBVIOUS
<1>2. /\ wire' \in Seq(Fetch!Messages)
      /\ \A i \in DOMAIN wire' :
            \/ i \in DOMAIN wire /\ wire'[i] = wire[i]
            \/ i > Len(wire) /\ i - Len(wire) \in {1, 2}
      /\ Len(wire) + 1 \in DOMAIN wire' /\ wire'[Len(wire) + 1] = a
      /\ Len(wire) + 2 \in DOMAIN wire' /\ wire'[Len(wire) + 2] = b
      /\ \A i \in DOMAIN wire : i \in DOMAIN wire' /\ wire'[i] = wire[i]
  BY <1>1, SaidLast
<1>3. DOMAIN wire' \subseteq Nat
  BY <1>2, LenProperties
<1>4. \A i \in DOMAIN wire' \ {Len(wire) + 1, Len(wire) + 2} :
         i \in DOMAIN wire /\ wire'[i] = wire[i]
  <2>1. Len(wire) \in Nat
    BY FetchTypes
  <2>. QED
    BY <1>2, <1>3, <2>1
<1>5. Len(wire) + 1 > Len(wire) /\ Len(wire) + 2 > Len(wire)
  BY FetchTypes
<1>. QED
  BY <1>2, <1>4, <1>5

(* What the browser may send with a reply.                                 *)
Setup(v) ==
    \/ v = Fetch!Event(todo[1].n, "attached")
    \/ todo[1].cmd = "enable" /\ v = Fetch!Event(todo[1].n, "blank stop")

LEMMA SetupFields ==
    ASSUME NEW v, Setup(v)
    PROVE  /\ v.kind = "event" /\ v.id = todo[1].n
           /\ v.name \in {"attached", "blank stop"}
           /\ v.name = "blank stop" => todo[1].cmd = "enable"
<1>1. CASE v = Fetch!Event(todo[1].n, "attached")
  <2>1. v.kind = "event" /\ v.id = todo[1].n /\ v.name = "attached"
    BY <1>1, EventFields
  <2>. QED
    BY <2>1
<1>2. CASE todo[1].cmd = "enable" /\ v = Fetch!Event(todo[1].n, "blank stop")
  <2>0. v = Fetch!Event(todo[1].n, "blank stop")
    BY <1>2
  <2>1. v.kind = "event" /\ v.id = todo[1].n /\ v.name = "blank stop"
    BY <2>0 DEF Fetch!Event
  <2>. QED
    BY <1>2, <2>1
<1>. QED
  BY <1>1, <1>2, Zenon DEF Setup

LEMMA ReplyName ==
    ASSUME NEW id, NEW ok, ~ok
    PROVE  Fetch!Reply(id, ok).name # "ok"
  BY DEF Fetch!Reply

LEMMA SaidReply ==
    ASSUME Fetch!FetchInv, NEW ok,
           Fetch!Reply(todo[1].id, ok) \in Fetch!Messages,
           Fetch!Say(<<Fetch!Reply(todo[1].id, ok)>>)
    PROVE  Served(ok)
<1>. DEFINE r == Len(wire) + 1
<1>1. /\ wire' \in Seq(Fetch!Messages)
      /\ \A i \in DOMAIN wire : i \in DOMAIN wire' /\ wire'[i] = wire[i]
      /\ r \in DOMAIN wire' /\ wire'[r] = Fetch!Reply(todo[1].id, ok)
      /\ r > Len(wire)
      /\ \A i \in DOMAIN wire' \ {r} : i \in DOMAIN wire /\ wire'[i] = wire[i]
  BY OneMore
<1>. HIDE DEF r
<1>. QED
  BY <1>1, Zenon DEF Served

LEMMA SaidReplyFirst ==
    ASSUME Fetch!FetchInv, NEW ok, NEW v \in Fetch!Messages, Setup(v),
           Fetch!Reply(todo[1].id, ok) \in Fetch!Messages,
           Fetch!Say(<<Fetch!Reply(todo[1].id, ok), v>>)
    PROVE  Served(ok)
<1>. DEFINE r == Len(wire) + 1
            s == Len(wire) + 2
<1>1. /\ wire' \in Seq(Fetch!Messages)
      /\ \A i \in DOMAIN wire : i \in DOMAIN wire' /\ wire'[i] = wire[i]
      /\ r \in DOMAIN wire' /\ wire'[r] = Fetch!Reply(todo[1].id, ok)
      /\ r > Len(wire)
      /\ wire'[s] = v /\ s > Len(wire)
      /\ \A i \in DOMAIN wire' \ {r, s} : i \in DOMAIN wire /\ wire'[i] = wire[i]
  BY TwoMore
<1>. HIDE DEF r, s
<1>. QED
  BY <1>1, Zenon DEF Served, Setup

LEMMA SaidReplyLast ==
    ASSUME Fetch!FetchInv, NEW ok, NEW v \in Fetch!Messages, Setup(v),
           Fetch!Reply(todo[1].id, ok) \in Fetch!Messages,
           Fetch!Say(<<v, Fetch!Reply(todo[1].id, ok)>>)
    PROVE  Served(ok)
<1>. DEFINE s == Len(wire) + 1
            r == Len(wire) + 2
<1>1. /\ wire' \in Seq(Fetch!Messages)
      /\ \A i \in DOMAIN wire : i \in DOMAIN wire' /\ wire'[i] = wire[i]
      /\ r \in DOMAIN wire' /\ wire'[r] = Fetch!Reply(todo[1].id, ok)
      /\ r > Len(wire)
      /\ wire'[s] = v /\ s > Len(wire)
      /\ \A i \in DOMAIN wire' \ {r, s} : i \in DOMAIN wire /\ wire'[i] = wire[i]
  BY TwoMore
<1>. HIDE DEF r, s
<1>. QED
  BY <1>1, Zenon DEF Served, Setup

LEMMA ServeSays ==
    ASSUME Fetch!FetchInv, Fetch!Serve
    PROVE  \E ok \in BOOLEAN :
              /\ Served(ok)
              /\ tabs' = IF ~ok THEN tabs
                         ELSE IF todo[1].cmd = "create" THEN tabs \cup {todo[1].n}
                         ELSE IF todo[1].cmd = "target close" THEN tabs \ {todo[1].n}
                         ELSE tabs
              /\ streams' = IF ~ok THEN streams
                            ELSE IF todo[1].cmd = "body open"
                                 THEN streams \cup {todo[1].n}
                            ELSE IF todo[1].cmd = "body close"
                                 THEN streams \ {todo[1].n}
                            ELSE streams
              /\ loaded' = IF ok /\ todo[1].cmd = "navigate" /\ todo[1].n = n
                           THEN {"start"} ELSE loaded
<1>1. Head(todo) = todo[1] /\ todo[1] \in Fetch!Orders
  BY ServedFirst DEF Fetch!Serve
<1>2. PICK ok \in BOOLEAN :
         /\ \/ /\ Head(todo).cmd = "create" /\ ok
               /\ Fetch!Say(<<Fetch!Event(Head(todo).n, "attached"),
                              Fetch!Reply(Head(todo).id, ok)>>)
            \/ /\ Head(todo).cmd = "enable" /\ ok
               /\ \/ Fetch!Say(<<Fetch!Event(Head(todo).n, "blank stop"),
                                 Fetch!Reply(Head(todo).id, ok)>>)
                  \/ Fetch!Say(<<Fetch!Reply(Head(todo).id, ok),
                                 Fetch!Event(Head(todo).n, "blank stop")>>)
            \/ Fetch!Say(<<Fetch!Reply(Head(todo).id, ok)>>)
         /\ tabs' = IF ~ok THEN tabs
                    ELSE IF Head(todo).cmd = "create" THEN tabs \cup {Head(todo).n}
                    ELSE IF Head(todo).cmd = "target close" THEN tabs \ {Head(todo).n}
                    ELSE tabs
         /\ streams' = IF ~ok THEN streams
                       ELSE IF Head(todo).cmd = "body open"
                            THEN streams \cup {Head(todo).n}
                       ELSE IF Head(todo).cmd = "body close"
                            THEN streams \ {Head(todo).n}
                       ELSE streams
         /\ loaded' = IF ok /\ Head(todo).cmd = "navigate" /\ Head(todo).n = n
                      THEN {"start"} ELSE loaded
  BY Zenon DEF Fetch!Serve
<1>3. /\ Fetch!Reply(todo[1].id, ok) \in Fetch!Messages
      /\ Fetch!Event(todo[1].n, "attached") \in Fetch!Messages
      /\ Fetch!Event(todo[1].n, "blank stop") \in Fetch!Messages
  BY <1>1, ServedMessages
<1>4. Setup(Fetch!Event(todo[1].n, "attached"))
  BY DEF Setup
<1>5. todo[1].cmd = "enable" => Setup(Fetch!Event(todo[1].n, "blank stop"))
  BY DEF Setup
<1>6. Served(ok)
  BY <1>1, <1>2, <1>3, <1>4, <1>5, SaidReply, SaidReplyFirst, SaidReplyLast,
     Zenon
<1>. QED
  BY <1>1, <1>2, <1>6, Zenon

(* A served step, without its parts.                                       *)
Serves(ok) ==
    /\ sock = "open" /\ todo # <<>> /\ todo' = Tail(todo)
    /\ UNCHANGED <<Fetch!client, sock>>
    /\ Served(ok)

ServedTabs(ok) ==
    tabs' = IF ~ok THEN tabs
            ELSE IF todo[1].cmd = "create" THEN tabs \cup {todo[1].n}
            ELSE IF todo[1].cmd = "target close" THEN tabs \ {todo[1].n} ELSE tabs

ServedStreams(ok) ==
    streams' = IF ~ok THEN streams
               ELSE IF todo[1].cmd = "body open" THEN streams \cup {todo[1].n}
               ELSE IF todo[1].cmd = "body close" THEN streams \ {todo[1].n} ELSE streams

ServedLoad(ok) ==
    loaded' = IF ok /\ todo[1].cmd = "navigate" /\ todo[1].n = n
              THEN {"start"} ELSE loaded

(* What is new on the wire is last.                                        *)
LEMMA ServedWire ==
    ASSUME Fetch!FetchInv, NEW ok, Serves(ok)
    PROVE  /\ \A i \in DOMAIN wire' :
                 \/ i \in DOMAIN wire /\ wire'[i] = wire[i]
                 \/ /\ i > Len(wire)
                    /\ wire'[i] = Fetch!Reply(todo[1].id, ok) \/ Setup(wire'[i])
           /\ \A i, j \in DOMAIN wire' :
                 i < j /\ j \in DOMAIN wire => i \in DOMAIN wire
           /\ \A i, j \in DOMAIN wire' :
                 i < j /\ wire'[i].kind = "reply" /\ wire'[j].kind = "reply" =>
                    /\ i \in DOMAIN wire /\ wire'[i] = wire[i]
                    /\ \/ j \in DOMAIN wire /\ wire'[j] = wire[j]
                       \/ wire'[j] = Fetch!Reply(todo[1].id, ok)
           /\ \E r \in DOMAIN wire' : wire'[r] = Fetch!Reply(todo[1].id, ok)
<1>1. PICK r \in DOMAIN wire' :
         /\ r > Len(wire) /\ wire'[r] = Fetch!Reply(todo[1].id, ok)
         /\ \A i \in DOMAIN wire' \ {r} :
               \/ i \in DOMAIN wire /\ wire'[i] = wire[i]
               \/ i > Len(wire) /\ Setup(wire'[i])
  BY DEF Serves, Served, Setup
<1>2. /\ DOMAIN wire' \subseteq Nat /\ DOMAIN wire = 1..Len(wire)
      /\ Len(wire) \in Nat
  <2>1. wire' \in Seq(Fetch!Messages)
    BY DEF Serves, Served
  <2>. QED
    BY <2>1, LenProperties, FetchTypes
<1>3. \A v : Setup(v) => v.kind = "event"
  BY SetupFields
<1>4. \A i \in DOMAIN wire' : i \in DOMAIN wire => wire'[i] = wire[i]
  BY <1>1, <1>2
<1>5. \A i, j \in DOMAIN wire' : i < j /\ j \in DOMAIN wire => i \in DOMAIN wire
  <2>1. DOMAIN wire' \subseteq Nat /\ \A i \in DOMAIN wire' : i >= 1
    <3>1. wire' \in Seq(Fetch!Messages)
      BY DEF Serves, Served
    <3>. QED
      BY <3>1, LenProperties
  <2>. QED
    BY <1>2, <2>1
<1>6. ASSUME NEW i \in DOMAIN wire', NEW j \in DOMAIN wire', i < j,
             wire'[i].kind = "reply", wire'[j].kind = "reply"
      PROVE  /\ i \in DOMAIN wire /\ wire'[i] = wire[i]
             /\ \/ j \in DOMAIN wire /\ wire'[j] = wire[j]
                \/ wire'[j] = Fetch!Reply(todo[1].id, ok)
  <2>1. i \in DOMAIN wire \/ i = r
    BY <1>1, <1>3, <1>6
  <2>2. j \in DOMAIN wire \/ j = r
    BY <1>1, <1>3, <1>6
  <2>3. i \in DOMAIN wire
    BY <1>1, <1>2, <1>6, <2>1, <2>2
  <2>. QED
    BY <1>1, <1>4, <2>2, <2>3
<1>. QED
  BY <1>1, <1>5, <1>6, Zenon

(* The numbers of the commands that remain.                                *)
LEMMA ServedOrders ==
    ASSUME Fetch!FetchInv, NEW ok, Serves(ok)
    PROVE  /\ todo' \in Seq(Fetch!Orders) /\ Len(todo') = Len(todo) - 1
           /\ Len(todo) > 0
           /\ DOMAIN todo' \subseteq Nat /\ \A i \in DOMAIN todo' : i + 1 # 1
           /\ \A i \in DOMAIN todo' : i + 1 \in DOMAIN todo /\ todo'[i] = todo[i + 1]
           /\ 1 \in DOMAIN todo /\ todo[1] \in Fetch!Orders
           /\ todo[1].n <= n /\ todo[1].n \in 1..MaxFetch
           /\ todo[1].id = sent - Len(todo')
           /\ \A i \in DOMAIN wire : wire[i].kind = "reply" => wire[i].id < todo[1].id
<1>1. todo # <<>> /\ todo' = Tail(todo)
  BY DEF Serves
<1>2. /\ 1 \in DOMAIN todo /\ todo[1] \in Fetch!Orders
      /\ todo[1].id = (sent - Len(todo)) + 1 /\ todo[1].n <= n
      /\ todo' \in Seq(Fetch!Orders) /\ Len(todo') = Len(todo) - 1
      /\ Len(todo) > 0
      /\ DOMAIN todo' = 1..Len(todo')
      /\ \A i \in DOMAIN todo' : i + 1 \in DOMAIN todo /\ todo'[i] = todo[i + 1]
  BY <1>1, ServedFirst
<1>3. todo[1].n \in 1..MaxFetch
  BY <1>2 DEF Fetch!Orders
<1>4. todo[1].id = sent - Len(todo')
  BY <1>2, FetchTypes
<1>5. DOMAIN todo' \subseteq Nat /\ \A i \in DOMAIN todo' : i + 1 # 1
  BY <1>2, FetchTypes
<1>6. \A i \in DOMAIN wire : wire[i].kind = "reply" =>
         wire[i].id \in Nat /\ wire[i].id <= sent - Len(todo)
  BY ReplyNumbers DEF Fetch!FetchInv, Fetch!InOrder
<1>7. \A i \in DOMAIN wire : wire[i].kind = "reply" => wire[i].id < todo[1].id
  BY <1>2, <1>6, FetchTypes
<1>. QED
  BY <1>2, <1>3, <1>4, <1>5, <1>7

(* A served command keeps each part.                                       *)
LEMMA ServeTyped ==
    ASSUME Fetch!FetchInv, NEW ok, Serves(ok), ServedTabs(ok),
           ServedStreams(ok), ServedLoad(ok)
    PROVE  Fetch!Typed'
<1>1. /\ UNCHANGED <<owned, sock, at, n, sent, events, target, streamHandle,
                     reusable, escaped, cancels, result>>
      /\ wire' \in Seq(Fetch!Messages)
  BY DEF Serves, Served, Fetch!client
<1>2. todo' \in Seq(Fetch!Orders) /\ todo[1].n \in 1..MaxFetch
  BY ServedOrders
<1>3. /\ \A i \in DOMAIN wire' : wire'[i].kind \in {"reply", "event"}
      /\ \A i \in DOMAIN todo' : todo'[i].cmd \in Fetch!Commands
  <2>1. /\ \A i \in DOMAIN wire' : wire'[i] \in Fetch!Messages
        /\ \A i \in DOMAIN todo' : todo'[i] \in Fetch!Orders
    BY <1>1, <1>2
  <2>. QED
    BY <2>1 DEF Fetch!Messages, Fetch!Orders
<1>4. tabs' \subseteq 1..MaxFetch
  BY <1>2 DEF ServedTabs, Fetch!FetchInv, Fetch!Typed, Fetch!TypeOK
<1>5. streams' \subseteq 1..MaxFetch
  BY <1>2 DEF ServedStreams, Fetch!FetchInv, Fetch!Typed, Fetch!TypeOK
<1>6. loaded' \subseteq Fetch!LoadEvents \cup {"start"}
  BY DEF ServedLoad, Fetch!FetchInv, Fetch!Typed, Fetch!TypeOK
<1>. QED
  BY <1>1, <1>2, <1>3, <1>4, <1>5, <1>6, ZenonT(30)
  DEF Fetch!FetchInv, Fetch!Typed, Fetch!TypeOK

LEMMA ServeInOrder ==
    ASSUME Fetch!FetchInv, NEW ok, Serves(ok)
    PROVE  Fetch!InOrder'
<1>1. sent' = sent /\ sock' = "open"
  BY DEF Serves, Fetch!client
<1>2. \A i \in DOMAIN todo' : todo'[i].id = (sent - Len(todo')) + i
  <2>1. \A i \in DOMAIN todo' : todo'[i].id = (sent - Len(todo)) + (i + 1)
    BY ServedOrders DEF Fetch!FetchInv, Fetch!InOrder
  <2>2. Len(todo') = Len(todo) - 1 /\ DOMAIN todo' \subseteq Nat
    BY ServedOrders
  <2>. QED
    BY <2>1, <2>2, FetchTypes
<1>3. ASSUME NEW i \in DOMAIN wire', wire'[i].kind = "reply"
      PROVE  wire'[i].id <= sent - Len(todo')
  <2>1. CASE i \in DOMAIN wire /\ wire'[i] = wire[i]
    <3>1. wire[i].id < todo[1].id /\ wire[i].id \in Nat
      BY <1>3, <2>1, ServedOrders, ReplyNumbers
    <3>2. todo[1].id = sent - Len(todo') /\ Len(todo') = Len(todo) - 1
      BY ServedOrders
    <3>. QED
      BY <2>1, <3>1, <3>2, FetchTypes
  <2>2. CASE wire'[i] = Fetch!Reply(todo[1].id, ok)
    <3>1. wire'[i].id = sent - Len(todo') /\ Len(todo') = Len(todo) - 1
      BY <2>2, ServedOrders, ReplyFields
    <3>. QED
      BY <3>1, FetchTypes
  <2>3. CASE Setup(wire'[i])
    BY <1>3, <2>3, SetupFields
  <2>. QED
    BY <2>1, <2>2, <2>3, ServedWire
<1>4. ASSUME NEW i \in DOMAIN wire', NEW j \in DOMAIN wire', i < j,
             wire'[i].kind = "reply", wire'[j].kind = "reply"
      PROVE  wire'[i].id < wire'[j].id
  <2>1. i \in DOMAIN wire /\ wire'[i] = wire[i]
    BY <1>4, ServedWire
  <2>2. CASE j \in DOMAIN wire /\ wire'[j] = wire[j]
    BY <1>4, <2>1, <2>2 DEF Fetch!FetchInv, Fetch!InOrder
  <2>3. CASE wire'[j] = Fetch!Reply(todo[1].id, ok)
    BY <1>4, <2>1, <2>3, ServedOrders, ReplyFields
  <2>. QED
    BY <1>4, <2>2, <2>3, ServedWire
<1>. QED
  BY <1>1, <1>2, <1>3, <1>4 DEF Fetch!InOrder

LEMMA ServeOneOutstanding ==
    ASSUME Fetch!FetchInv, NEW ok, Serves(ok)
    PROVE  Fetch!OneOutstanding'
<1>1. UNCHANGED <<at, n, sent>> /\ todo # <<>>
  BY DEF Serves, Fetch!client
<1>2. \A i \in DOMAIN todo' : i + 1 \in DOMAIN todo /\ todo'[i] = todo[i + 1]
  BY ServedOrders
<1>. QED
  BY <1>1, <1>2 DEF Fetch!FetchInv, Fetch!OneOutstanding

LEMMA ServeOfEarlierFetches ==
    ASSUME Fetch!FetchInv, NEW ok, Serves(ok)
    PROVE  Fetch!OfEarlierFetches'
<1>1. UNCHANGED <<at, n, events, result>>
  BY DEF Serves, Fetch!client
<1>2. \A i \in DOMAIN todo' : i + 1 \in DOMAIN todo /\ todo'[i] = todo[i + 1]
  BY ServedOrders
<1>3. ASSUME NEW i \in DOMAIN wire', wire'[i].kind = "event"
      PROVE  wire'[i].id <= n /\ (at = "connect" => wire'[i].id < n)
  <2>1. CASE i \in DOMAIN wire /\ wire'[i] = wire[i]
    BY <1>3, <2>1 DEF Fetch!FetchInv, Fetch!OfEarlierFetches
  <2>2. CASE wire'[i] = Fetch!Reply(todo[1].id, ok)
    BY <1>3, <2>2, ReplyFields
  <2>3. CASE Setup(wire'[i])
    <3>1. wire'[i].id = todo[1].n
      BY <2>3, SetupFields
    <3>. QED
      BY <3>1, ServedOrders DEF Fetch!FetchInv, Fetch!OfEarlierFetches
  <2>. QED
    BY <2>1, <2>2, <2>3, ServedWire
<1>. QED
  BY <1>1, <1>2, <1>3 DEF Fetch!FetchInv, Fetch!OfEarlierFetches

(* The command that begins the load is not followed by another one.        *)
LEMMA ServedNavigation ==
    ASSUME Fetch!FetchInv, NEW ok, Serves(ok), ServedLoad(ok), loaded' # loaded
    PROVE  /\ loaded = {}
           /\ at \notin {"connect", "create", "enable", "tree"}
           /\ \A i \in DOMAIN todo' : ~ (todo'[i].cmd = "navigate" /\ todo'[i].n = n)
<1>1. todo[1].cmd = "navigate" /\ todo[1].n = n /\ 1 \in DOMAIN todo
  BY ServedOrders DEF ServedLoad
<1>2. loaded = {} /\ \A j \in DOMAIN todo :
                        todo[j].cmd = "navigate" /\ todo[j].n = n => j = 1
  BY <1>1 DEF Fetch!FetchInv, Fetch!NavigatesOnce
<1>3. at # "connect"
  <2>1. at = "connect" => todo[1].n < n
    BY <1>1 DEF Fetch!FetchInv, Fetch!OfEarlierFetches
  <2>. QED
    BY <1>1, <2>1, FetchTypes
<1>4. at \notin {"create", "enable", "tree"}
  BY <1>1 DEF Fetch!FetchInv, Fetch!NavigatesOnce
<1>5. \A i \in DOMAIN todo' : ~ (todo'[i].cmd = "navigate" /\ todo'[i].n = n)
  BY <1>2, ServedOrders
<1>. QED
  BY <1>2, <1>3, <1>4, <1>5

LEMMA ServeNavigatesOnce ==
    ASSUME Fetch!FetchInv, NEW ok, Serves(ok), ServedLoad(ok)
    PROVE  Fetch!NavigatesOnce'
<1>1. UNCHANGED <<at, n, events>>
  BY DEF Serves, Fetch!client
<1>2. \A i \in DOMAIN todo' : i \in Nat /\ i + 1 \in DOMAIN todo /\ todo'[i] = todo[i + 1]
  BY ServedOrders
<1>3. loaded \subseteq loaded'
  BY ServedNavigation
<1>4. ASSUME NEW i \in DOMAIN todo', todo'[i].cmd = "navigate", todo'[i].n = n
      PROVE  /\ loaded' = {}
             /\ \A j \in DOMAIN todo' :
                   todo'[j].cmd = "navigate" /\ todo'[j].n = n => j = i
  <2>1. loaded' = loaded
    BY <1>4, ServedNavigation
  <2>2. /\ loaded = {}
        /\ \A j \in DOMAIN todo :
              todo[j].cmd = "navigate" /\ todo[j].n = n => j = i + 1
    BY <1>2, <1>4 DEF Fetch!FetchInv, Fetch!NavigatesOnce
  <2>3. \A j \in DOMAIN todo' :
           todo'[j].cmd = "navigate" /\ todo'[j].n = n => j + 1 = i + 1
    BY <1>2, <2>2
  <2>4. \A j \in DOMAIN todo' : j + 1 = i + 1 => j = i
    BY <1>2
  <2>. QED
    BY <2>1, <2>2, <2>3, <2>4
<1>5. at \in {"connect", "create", "enable", "tree"} => loaded' = {}
  BY ServedNavigation DEF Fetch!FetchInv, Fetch!NavigatesOnce
<1>6. at \in {"create", "enable", "tree"} =>
         \A i \in DOMAIN todo' : ~ (todo'[i].cmd = "navigate" /\ todo'[i].n = n)
  BY <1>2 DEF Fetch!FetchInv, Fetch!NavigatesOnce
<1>7. ASSUME NEW i \in DOMAIN wire', wire'[i].kind = "event", wire'[i].id = n,
             wire'[i].name \in Fetch!LoadEvents
      PROVE  wire'[i].name \in loaded'
  <2>1. CASE i \in DOMAIN wire /\ wire'[i] = wire[i]
    BY <1>3, <1>7, <2>1 DEF Fetch!FetchInv, Fetch!NavigatesOnce
  <2>2. CASE wire'[i] = Fetch!Reply(todo[1].id, ok)
    BY <1>7, <2>2, ReplyFields
  <2>3. CASE Setup(wire'[i])
    <3>1. wire'[i].name \in {"attached", "blank stop"}
      BY <2>3, SetupFields
    <3>. QED
      BY <1>7, <3>1 DEF Fetch!LoadEvents
  <2>. QED
    BY <2>1, <2>2, <2>3, ServedWire
<1>8. \A e \in Fetch!LoadEvents : <<n, e>> \in events => e \in loaded'
  BY <1>3 DEF Fetch!FetchInv, Fetch!NavigatesOnce
<1>. QED
  BY <1>1, <1>4, <1>5, <1>6, <1>7, <1>8 DEF Fetch!NavigatesOnce

LEMMA ServeBlankIsPast ==
    ASSUME Fetch!FetchInv, NEW ok, Serves(ok)
    PROVE  Fetch!BlankIsPast'
<1>1. /\ UNCHANGED <<at, n, sent, events>> /\ todo # <<>>
      /\ Fetch!BlankStop' = Fetch!BlankStop
  BY DEF Serves, Fetch!client, Fetch!BlankStop, Fetch!Event
<1>2. ASSUME at \in {"tree", "navigate"}, NEW i \in DOMAIN wire',
             wire'[i] = Fetch!BlankStop
      PROVE  i \in DOMAIN wire /\ wire[i] = Fetch!BlankStop
  <2>1. CASE i \in DOMAIN wire /\ wire'[i] = wire[i]
    BY <1>2, <2>1
  <2>0. /\ Fetch!BlankStop.kind = "event" /\ Fetch!BlankStop.id = n
        /\ Fetch!BlankStop.name = "blank stop"
    BY DEF Fetch!BlankStop, Fetch!Event
  <2>2. CASE wire'[i] = Fetch!Reply(todo[1].id, ok)
    <3>1. wire'[i].kind = "reply"
      BY <2>2, ReplyFields
    <3>2. wire'[i].kind = "event"
      BY <1>2, <2>0
    <3>. QED
      BY <3>1, <3>2
  <2>3. CASE Setup(wire'[i])
    <3>1. wire'[i].id = n /\ wire'[i].name = "blank stop"
      BY <1>2, <2>0
    <3>2. todo[1].cmd = "enable" /\ todo[1].n = n
      BY <2>3, <3>1, SetupFields
    <3>3. at \in Fetch!Commands \ Fetch!Closing
      BY <1>2 DEF Fetch!Commands, Fetch!Closing
    <3>4. todo[1].cmd = at
      BY <3>2, <3>3, ServedOrders DEF Fetch!FetchInv, Fetch!OneOutstanding
    <3>. QED
      BY <1>2, <3>2, <3>4
  <2>. QED
    BY <1>2, <2>1, <2>2, <2>3, ServedWire
<1>3. ASSUME at = "tree", NEW i \in DOMAIN wire', NEW j \in DOMAIN wire', i < j,
             wire'[i].kind = "reply", wire'[i].id = sent
      PROVE  wire'[j] # Fetch!BlankStop
  <2>. SUFFICES ASSUME wire'[j] = Fetch!BlankStop PROVE FALSE
    OBVIOUS
  <2>1. j \in DOMAIN wire /\ wire[j] = Fetch!BlankStop
    BY <1>2, <1>3
  <2>2. i \in DOMAIN wire
    BY <1>3, <2>1, ServedWire
  <2>3. wire'[i] = wire[i]
    BY <2>2 DEF Serves, Served
  <2>. QED
    BY <1>3, <2>1, <2>2, <2>3 DEF Fetch!FetchInv, Fetch!BlankIsPast
<1>4. at # "barrier"
  BY <1>1 DEF Fetch!FetchInv, Fetch!OneOutstanding
<1>5. at = "navigate" =>
         /\ <<n, "blank stop">> \notin events
         /\ \A i \in DOMAIN wire' : wire'[i] # Fetch!BlankStop
  BY <1>2 DEF Fetch!FetchInv, Fetch!BlankIsPast
<1>. QED
  BY <1>1, <1>3, <1>4, <1>5 DEF Fetch!BlankIsPast

(* The awaited reply comes from the command that was the last one.         *)
LEMMA ServedAwaited ==
    ASSUME Fetch!FetchInv, NEW ok \in BOOLEAN, Serves(ok)
    PROVE  /\ ~Fetch!Done
           /\ Fetch!Done' => todo[1].id = sent /\ ok
           /\ todo[1].id = sent /\ ok => Fetch!Done'
<1>1. sent' = sent
  BY DEF Serves, Fetch!client
<1>2. \A i \in DOMAIN wire : wire[i].kind = "reply" => wire[i].id # sent
  <2>1. \A i \in DOMAIN wire : wire[i].kind = "reply" =>
           wire[i].id \in Nat /\ wire[i].id <= sent - Len(todo)
    BY ReplyNumbers DEF Fetch!FetchInv, Fetch!InOrder
  <2>2. Len(todo) > 0
    BY ServedOrders
  <2>. QED
    BY <2>1, <2>2, FetchTypes
<1>3. ~Fetch!Done
  BY <1>2, ReplyFields DEF Fetch!Done
<1>4. ASSUME Fetch!Done' PROVE todo[1].id = sent /\ ok
  <2>1. PICK i \in DOMAIN wire' : wire'[i] = Fetch!Reply(sent, TRUE)
    BY <1>1, <1>4 DEF Fetch!Done, Fetch!Reply
  <2>2. wire'[i].kind = "reply" /\ wire'[i].id = sent /\ wire'[i].name = "ok"
    BY <2>1 DEF Fetch!Reply
  <2>3. wire'[i] = Fetch!Reply(todo[1].id, ok)
    <3>1. ~Setup(wire'[i])
      BY <2>2, SetupFields
    <3>2. ~(i \in DOMAIN wire /\ wire'[i] = wire[i])
      BY <1>2, <2>2
    <3>. QED
      BY <3>1, <3>2, ServedWire
  <2>4. todo[1].id = sent
    BY <2>2, <2>3, ReplyFields
  <2>5. ok
    BY <2>2, <2>3, ReplyName
  <2>. QED
    BY <2>4, <2>5
<1>5. ASSUME todo[1].id = sent, ok PROVE Fetch!Done'
  <2>1. \E i \in DOMAIN wire' : wire'[i] = Fetch!Reply(todo[1].id, ok)
    BY ServedWire
  <2>2. Fetch!Reply(todo[1].id, ok) = Fetch!Reply(sent, TRUE)
    BY <1>5 DEF Fetch!Reply
  <2>. QED
    BY <1>1, <2>1, <2>2 DEF Fetch!Done, Fetch!Reply
<1>. QED
  BY <1>3, <1>4, <1>5

LEMMA ServeHoldsOwn ==
    ASSUME Fetch!FetchInv, NEW ok \in BOOLEAN, Serves(ok), ServedTabs(ok),
           ServedStreams(ok)
    PROVE  Fetch!HoldsOwn'
<1>. SUFFICES ASSUME ~escaped PROVE Fetch!HoldsOwn'
  BY DEF Fetch!HoldsOwn, Serves, Fetch!client
<1>1. /\ UNCHANGED <<at, n, sent, streamHandle, reusable, escaped>>
      /\ todo # <<>> /\ sock = "open"
  BY DEF Serves, Fetch!client
<1>2. \A i \in DOMAIN todo' : i + 1 \in DOMAIN todo /\ todo'[i] = todo[i + 1]
  BY ServedOrders
<1>3. /\ todo[1].n = n /\ tabs \subseteq {n} /\ streams \subseteq {n}
      /\ 1 \in DOMAIN todo
  BY ServedOrders DEF Fetch!FetchInv, Fetch!HoldsOwn
<1>4. tabs' \subseteq {n}
  BY <1>3 DEF ServedTabs
<1>5. streams' \subseteq {n}
  BY <1>3 DEF ServedStreams
<1>6. at \notin {"connect", "idle", "barrier"}
  BY <1>1 DEF Fetch!FetchInv, Fetch!CleanBefore, Fetch!OneOutstanding
<1>7. at \in Fetch!Commands
  BY <1>6 DEF Fetch!FetchInv, Fetch!Typed, Fetch!TypeOK
<1>8. todo[1].id = sent => todo[1].cmd = at
  BY <1>3, <1>7 DEF Fetch!FetchInv, Fetch!OneOutstanding
<1>9. ASSUME at = "target close", Fetch!Done' PROVE tabs' = {}
  <2>1. ok /\ todo[1].cmd = "target close"
    BY <1>8, <1>9, ServedAwaited
  <2>2. tabs' = tabs \ {n}
    BY <1>3, <2>1 DEF ServedTabs
  <2>. QED
    BY <1>3, <2>2
<1>10. ASSUME at = "body close", Fetch!Done' PROVE streams' = {}
  <2>1. ok /\ todo[1].cmd = "body close"
    BY <1>8, <1>10, ServedAwaited
  <2>2. streams' = streams \ {n}
    BY <1>3, <2>1 DEF ServedStreams
  <2>. QED
    BY <1>3, <2>2
<1>11. ASSUME reusable
       PROVE  /\ \A i \in DOMAIN todo' : todo'[i].id = sent
              /\ streams' # {} => \/ streamHandle /\ at # "target close"
                                  \/ at = "body open" /\ Fetch!Done'
  <2>1. /\ \A i \in DOMAIN todo : todo[i].id = sent
        /\ streams # {} => streamHandle /\ at # "target close"
    BY <1>6, <1>11, ServedAwaited DEF Fetch!FetchInv, Fetch!HoldsOwn
  <2>2. ASSUME streams = {}, streams' # {} PROVE at = "body open" /\ Fetch!Done'
    <3>1. ok /\ todo[1].cmd = "body open"
      BY <2>2 DEF ServedStreams
    <3>. QED
      BY <1>3, <1>8, <2>1, <3>1, ServedAwaited
  <2>. QED
    BY <1>2, <2>1, <2>2
<1>12. \A i \in DOMAIN todo' : todo'[i].n = n
  BY <1>2 DEF Fetch!FetchInv, Fetch!HoldsOwn
<1>. QED
  BY <1>1, <1>4, <1>5, <1>9, <1>10, <1>11, <1>12 DEF Fetch!HoldsOwn

LEMMA ServeKeeps ==
    ASSUME Fetch!FetchInv, Fetch!Serve
    PROVE  Fetch!FetchInv'
<1>1. PICK ok \in BOOLEAN :
         /\ Served(ok) /\ ServedTabs(ok)
         /\ ServedStreams(ok) /\ ServedLoad(ok)
  BY ServeSays, Zenon DEF ServedTabs, ServedStreams, ServedLoad
<1>2. Serves(ok)
  BY <1>1 DEF Fetch!Serve, Serves
<1>3. /\ Fetch!Typed' /\ Fetch!InOrder' /\ Fetch!OneOutstanding'
      /\ Fetch!OfEarlierFetches'
  BY <1>1, <1>2, ServeTyped, ServeInOrder, ServeOneOutstanding,
     ServeOfEarlierFetches
<1>4. Fetch!NavigatesOnce' /\ Fetch!BlankIsPast' /\ Fetch!HoldsOwn'
  BY <1>1, <1>2, ServeNavigatesOnce, ServeBlankIsPast, ServeHoldsOwn
<1>5. UNCHANGED <<at, sock, escaped, result>> /\ todo # <<>>
  BY <1>2 DEF Serves, Fetch!client
<1>6. Fetch!CleanBefore'
  BY <1>5 DEF Fetch!FetchInv, Fetch!CleanBefore
<1>7. Fetch!OwnDocument'
  <2>1. loaded \subseteq loaded'
    BY <1>1, <1>2, ServedNavigation
  <2>. QED
    BY <1>5, <2>1 DEF Fetch!FetchInv, Fetch!OwnDocument
<1>. QED
  BY <1>3, <1>4, <1>6, <1>7 DEF Fetch!FetchInv

(* Every step keeps the invariant.                                         *)
LEMMA FetchStep ==
    ASSUME Fetch!FetchInv, [Fetch!Next]_(Fetch!vars)
    PROVE  Fetch!FetchInv'
<1>1. CASE Fetch!Begin
  BY <1>1, BeginKeeps
<1>2. CASE Fetch!Client
  BY <1>2, ConnectionKeeps, ReceiveKeeps, AnsweredKeeps, RefusedKeeps,
     StoppedKeeps, CloseReplyKeeps, DeadlineKeeps, CloseDeadlineKeeps
  DEF Fetch!Client
<1>3. CASE Fetch!Cancel
  BY <1>3, CancelKeeps
<1>4. CASE Fetch!Serve
  BY <1>4, ServeKeeps
<1>5. CASE \E e \in Fetch!LoadEvents : Fetch!Emit(e)
  BY <1>5, LoadEventKeeps
<1>6. CASE Fetch!Drop
  BY <1>6, DropKeeps
<1>7. CASE UNCHANGED Fetch!vars
  BY <1>7, FetchUnmoved
<1>. QED
  BY <1>1, <1>2, <1>3, <1>4, <1>5, <1>6, <1>7 DEF Fetch!Next

LEMMA FetchIsSafe == Fetch!FetchInv => Fetch!OwnDocument /\ Fetch!KeptConnectionIsClean
  BY DEF Fetch!FetchInv, Fetch!Typed, Fetch!CleanBefore,
         Fetch!KeptConnectionIsClean

-----------------------------------------------------------------------------
(* The fetch's steps in the composition.                                   *)
LEMMA BrowserFetches == [BrowserNext]_allVars => [Fetch!Next]_(Fetch!vars)
<1>1. UNCHANGED fetchVars => UNCHANGED Fetch!vars
  BY DEF fetchVars, Fetch!vars
<1>2. UNCHANGED allVars => UNCHANGED fetchVars
  BY DEF allVars
<1>3. BrowserNext => Fetch!Next \/ UNCHANGED fetchVars
  BY DEF BrowserNext, Rest
<1>. QED
  BY <1>1, <1>2, <1>3

(* FetchSound: whatever the browser, the deadlines and the cancellations   *)
(* do, for any number of fetches, cancellations and pieces of a body       *)
(* (fetch, _drain_body, _RawCdp).                                          *)
THEOREM FetchReadsItsPage == BrowserSpec => []FetchSound
<1>1. BrowserInit => Fetch!FetchInv
  BY FetchStarts DEF BrowserInit
<1>2. Fetch!FetchInv /\ [BrowserNext]_allVars => Fetch!FetchInv'
  BY BrowserFetches, FetchStep
<1>. QED
  BY <1>1, <1>2, FetchIsSafe, PTL DEF BrowserSpec, FetchSound

-----------------------------------------------------------------------------
(***************************************************************************)
(* One search of a browser provider (SearchDocument).                      *)
(***************************************************************************)
(* SearchDocument's Cardinality is that of the theorems about finite sets. *)
LEMMA SameCardinality == \A S : Search!Cardinality(S) = Cardinality(S)
  BY DEF Search!Cardinality, Cardinality

LEMMA SubmissionsCounted ==
    Search!Cardinality({}) = 0 /\ Search!Cardinality({<<0, Search!Query>>}) = 1
  BY FS_EmptySet, FS_Singleton, SameCardinality

(* Of the documents that responded there is a first one.                   *)
LEMMA LeastNatural ==
    ASSUME NEW T \in SUBSET Nat, T # {}
    PROVE  \E m \in T : \A k \in T : m <= k
<1>1. PICK m \in T : \A k \in T : ~ (<<k, m>> \in OpToRel(<, Nat))
  BY NatLessThanWellFounded, WFMin
<1>2. ASSUME NEW k \in T PROVE m <= k
  <2>1. k < m => <<k, m>> \in OpToRel(<, Nat)
    BY DEF OpToRel
  <2>2. ~ (k < m)
    BY <1>1, <2>1
  <2>3. m \in Nat /\ k \in Nat
    OBVIOUS
  <2> QED BY <2>2, <2>3
<1> QED BY <1>1, <1>2

(* A search begins with nothing submitted and no document but the home     *)
(* page.                                                                   *)
LEMMA SearchStarts == Search!Init => Search!SearchInv
<1>. SUFFICES ASSUME Search!Init PROVE Search!SearchInv
  OBVIOUS
<1>1. field \in [foreign : BOOLEAN, typed : 0..Chars]
  <2>1. 0 \in 0..Chars
    BY SearchAssumption
  <2>2. \A b \in BOOLEAN :
            [foreign |-> b, typed |-> 0] \in [foreign : BOOLEAN, typed : 0..Chars]
    BY <2>1
  <2>. QED
    BY <2>2 DEF Search!Init, Search!Blank
<1>2. /\ {begun, doc, loader, html} \subseteq Search!Loaders
      /\ keys \in 0..Chars /\ edits \in 0..MaxEdits
  BY SearchAssumption DEF Search!Init, Search!Loaders
<1>3. /\ seen \cap early = {}
      /\ seen \cup early \subseteq Search!Kinds \X Search!Loaders
  BY DEF Search!Init
<1>4. Search!Cardinality(submitted) \in 0..1
  BY SubmissionsCounted DEF Search!Init
<1>5. Search!TypeOK
  BY <1>1, <1>2, <1>3, <1>4 DEF Search!Init, Search!TypeOK
<1>6. /\ Search!SubmittedOnce /\ Search!LoaderArrives /\ Search!FrameAdvances
      /\ Search!HtmlIsLater /\ Search!TypedIsSent
  BY DEF Search!Init, Search!SubmittedOnce, Search!LoaderArrives,
         Search!FrameAdvances, Search!HtmlIsLater, Search!TypedIsSent,
         Search!Entering, Search!HasLoader, Search!Arrived
<1>. QED
  BY <1>5, <1>6 DEF Search!SearchInv

(* The edits of the field that are neither its emptying nor the query.     *)
LEMMA FieldEdits ==
    ASSUME NEW f \in [foreign : BOOLEAN, typed : 0..Chars]
    PROVE  /\ [f EXCEPT !.foreign = TRUE] \in [foreign : BOOLEAN, typed : 0..Chars]
           /\ [f EXCEPT !.foreign = TRUE].typed = f.typed
           /\ f.typed < Chars =>
                 /\ [f EXCEPT !.typed = @ + 1] \in
                        [foreign : BOOLEAN, typed : 0..Chars]
                 /\ [f EXCEPT !.typed = @ + 1].typed = f.typed + 1
<1>1. f.typed \in 0..Chars /\ f.foreign \in BOOLEAN
  OBVIOUS
<1>2. f.typed < Chars => f.typed + 1 \in 0..Chars
  BY <1>1, SearchAssumption
<1>. QED
  BY <1>1, <1>2

LEMMA FixedFields ==
    /\ Search!Query \in [foreign : BOOLEAN, typed : 0..Chars]
    /\ Search!Blank \in [foreign : BOOLEAN, typed : 0..Chars]
    /\ Search!Blank.typed = 0
  BY SearchAssumption DEF Search!Query, Search!Blank

(* Entering the query submits nothing.                                     *)
LEMMA EntryKeeps ==
    ASSUME Search!SearchInv,
           \/ Search!AwaitForm \/ Search!LookForChallenge \/ Search!Select
           \/ Search!Clear \/ Search!Type \/ Search!Verify
    PROVE  Search!SearchInv'
<1>1. /\ search \in Search!Entering
      /\ search' \in Search!Entering \cup {"failed"}
      /\ UNCHANGED <<submitted, seen, early, begun, doc, loader, html>>
  BY DEF Search!AwaitForm, Search!LookForChallenge, Search!Select, Search!Clear,
         Search!Type, Search!Verify, Search!Command, Search!Remaining,
         Search!ReadyResult, Search!page, Search!result, Search!Entering
<1>2. /\ field' \in [foreign : BOOLEAN, typed : 0..Chars] /\ keys' \in 0..Chars
      /\ Search!TypedIsSent'
  <2>1. CASE Search!Type
    <3>1. search = "type" /\ keys < Chars /\ keys' = keys + 1
      BY <2>1 DEF Search!Type, Search!Command
    <3>2. field' = field \/ field' = [field EXCEPT !.typed = @ + 1]
      BY <2>1 DEF Search!Type
    <3>. QED
      BY <3>1, <3>2, FieldEdits, SearchAssumption
      DEF Search!SearchInv, Search!TypeOK, Search!TypedIsSent
  <2>2. CASE Search!Clear
    BY <2>2, FixedFields
    DEF Search!SearchInv, Search!TypeOK, Search!TypedIsSent, Search!Clear
  <2>3. CASE Search!AwaitForm \/ Search!LookForChallenge \/ Search!Select \/ Search!Verify
    <3>1. (field' = Search!Query \/ field' = field) /\ keys' = keys
      BY <2>3
      DEF Search!AwaitForm, Search!LookForChallenge, Search!Select,
          Search!Verify, Search!page
    <3>2. search' # "type"
      BY <2>3
      DEF Search!AwaitForm, Search!LookForChallenge, Search!Select,
          Search!Verify, Search!Command, Search!Remaining, Search!ReadyResult
    <3>. QED
      BY <3>1, <3>2, FixedFields
      DEF Search!SearchInv, Search!TypeOK, Search!TypedIsSent
  <2>. QED
    BY <2>1, <2>2, <2>3
<1>3. UNCHANGED <<mode, form, edits, expired>>
  BY DEF Search!AwaitForm, Search!LookForChallenge, Search!Select, Search!Clear,
         Search!Type, Search!Verify, Search!page
<1>. QED
  BY <1>1, <1>2, <1>3
  DEF Search!SearchInv, Search!TypeOK, Search!SubmittedOnce,
      Search!LoaderArrives, Search!FrameAdvances, Search!HtmlIsLater,
      Search!TypedIsSent, Search!Entering, Search!HasLoader, Search!Arrived

(* The form is submitted once, when its text is the query, and the events  *)
(* are counted from there.                                                 *)
LEMMA SubmissionKeeps ==
    ASSUME Search!SearchInv, Search!Submit
    PROVE  Search!SearchInv'
<1>1. /\ search = "submit" /\ submitted = {}
      /\ UNCHANGED <<mode, keys, Search!page, Search!result, expired>>
      /\ seen' = {} /\ early' = early \cup seen
  BY DEF Search!SearchInv, Search!SubmittedOnce, Search!Entering, Search!Submit
<1>2. \/ search' = "failed" /\ submitted' = {}
      \/ search' \in {"response", "failed"} /\ submitted' = {<<0, Search!Query>>}
  BY <1>1, SubmissionsCounted
  DEF Search!Submit, Search!SubmitAccepts, Search!AfterSubmit
<1>3. Search!Cardinality(submitted') \in 0..1
  BY <1>2, SubmissionsCounted
<1>. QED
  BY <1>1, <1>2, <1>3
  DEF Search!SearchInv, Search!TypeOK, Search!SubmittedOnce,
      Search!LoaderArrives, Search!FrameAdvances, Search!HtmlIsLater,
      Search!TypedIsSent, Search!Entering, Search!HasLoader, Search!Arrived,
      Search!page, Search!result

(* The document that is taken responded after the submission.              *)
LEMMA AwaitDocumentKeeps ==
    ASSUME Search!SearchInv, Search!AwaitDocument
    PROVE  Search!SearchInv'
<1>1. CASE Search!Responses # {}
  <2>1. /\ Search!Responses \subseteq Nat
        /\ Search!Responses \subseteq Search!Loaders \ {0}
    BY <1>1 DEF Search!Responses, Search!Loaders
  <2>2. \E l \in Search!Responses : \A m \in Search!Responses : l <= m
    BY <1>1, <2>1, LeastNatural
  <2>3. loader' =
            CHOOSE l \in Search!Responses : \A m \in Search!Responses : l <= m
    BY <1>1 DEF Search!AwaitDocument
  <2>4. loader' \in Search!Responses
    BY <2>2, <2>3
  <2>5. /\ loader' \in Search!Loaders /\ loader' > 0
        /\ <<"response", loader'>> \in seen
    BY <2>4 DEF Search!Responses, Search!Loaders
  <2>. QED
    BY <1>1, <2>5
    DEF Search!SearchInv, Search!TypeOK, Search!SubmittedOnce,
        Search!LoaderArrives, Search!FrameAdvances, Search!HtmlIsLater,
        Search!TypedIsSent, Search!Entering, Search!HasLoader, Search!Arrived,
        Search!AwaitDocument, Search!page
<1>2. CASE Search!Responses = {}
  BY <1>2
  DEF Search!SearchInv, Search!TypeOK, Search!SubmittedOnce,
      Search!LoaderArrives, Search!FrameAdvances, Search!HtmlIsLater,
      Search!TypedIsSent, Search!Entering, Search!HasLoader, Search!Arrived,
      Search!AwaitDocument, Search!page
<1>. QED
  BY <1>1, <1>2

(* The document is complete from the terminal events on.                   *)
LEMMA ArrivalKeeps ==
    ASSUME Search!SearchInv, Search!AwaitStopped \/ Search!TerminalEvents
    PROVE  Search!SearchInv'
<1>1. /\ search \in {"barrier", "terminal"}
      /\ UNCHANGED <<mode, keys, submitted, seen, early, form, field, edits,
                     begun, doc, loader, html, expired>>
  BY DEF Search!AwaitStopped, Search!TerminalEvents, Search!page, Search!result
<1>2. \/ search' \in {"terminal", "failed"}
      \/ search' = "dom" /\ Search!Complete
  BY DEF Search!AwaitStopped, Search!TerminalEvents
<1>. QED
  BY <1>1, <1>2
  DEF Search!SearchInv, Search!TypeOK, Search!SubmittedOnce,
      Search!LoaderArrives, Search!FrameAdvances, Search!HtmlIsLater,
      Search!TypedIsSent, Search!Entering, Search!HasLoader, Search!Arrived,
      Search!Complete

(* What is read is the document in the frame.                              *)
LEMMA ReadKeeps ==
    ASSUME Search!SearchInv,
           \/ Search!ReadDom \/ Search!ResultState
           \/ Search!Poll \/ Search!Reread
    PROVE  Search!SearchInv'
<1>1. /\ search \in {"dom", "results", "poll", "reread"}
      /\ UNCHANGED <<mode, keys, submitted, seen, early, form, field, edits,
                     begun, doc, loader, expired>>
  BY DEF Search!ReadDom, Search!ResultState, Search!Poll, Search!Reread,
         Search!Command, Search!page, Search!result
<1>2. search' \in {"results", "done", "poll", "reread", "failed"}
  BY DEF Search!ReadDom, Search!ResultState, Search!Poll, Search!Reread,
         Search!Command, Search!Remaining
<1>3. \/ html' = doc
      \/ html' = html /\ search' \in {"reread", "failed"}
      \/ html' = html /\ search \in {"results", "poll"}
  BY DEF Search!ReadDom, Search!ResultState, Search!Poll, Search!Reread,
         Search!Command, Search!Remaining, Search!result
<1>. QED
  BY <1>1, <1>2, <1>3
  DEF Search!SearchInv, Search!TypeOK, Search!SubmittedOnce,
      Search!LoaderArrives, Search!FrameAdvances, Search!HtmlIsLater,
      Search!TypedIsSent, Search!Entering, Search!HasLoader, Search!Arrived

(* The page's scripts reach the form and no more.                          *)
LEMMA PageKeeps ==
    ASSUME Search!SearchInv, Search!Script \/ Search!Load \/ Search!Deadline
    PROVE  Search!SearchInv'
<1>1. UNCHANGED <<search, mode, keys, submitted, seen, early, doc, loader,
                  html>>
  BY DEF Search!Script, Search!Load, Search!Deadline, Search!page, Search!result
<1>2. /\ form' \in {"absent", "good", "bad"}
      /\ field' \in [foreign : BOOLEAN, typed : 0..Chars] /\ Search!TypedIsSent'
      /\ edits' \in 0..MaxEdits /\ begun' \in Search!Loaders
      /\ expired' \in BOOLEAN
  <2>1. CASE Search!Script
    <3>1. \/ field' = field
          \/ field' = Search!Blank
          \/ field' = [field EXCEPT !.foreign = TRUE]
      BY <2>1 DEF Search!Script
    <3>2. /\ edits' \in 0..MaxEdits /\ form' \in {"absent", "good", "bad"}
          /\ UNCHANGED <<search, keys, begun, expired>>
      BY <2>1, SearchAssumption
      DEF Search!SearchInv, Search!TypeOK, Search!Script
    <3>3. /\ field' \in [foreign : BOOLEAN, typed : 0..Chars]
          /\ field'.typed \in {field.typed, 0}
      <4>1. field \in [foreign : BOOLEAN, typed : 0..Chars]
        BY DEF Search!SearchInv, Search!TypeOK
      <4>2. CASE field' = [field EXCEPT !.foreign = TRUE]
        BY <4>1, <4>2, FieldEdits
      <4>. QED
        BY <3>1, <4>1, <4>2, FixedFields
    <3>. QED
      BY <3>2, <3>3 DEF Search!SearchInv, Search!TypeOK, Search!TypedIsSent
  <2>2. CASE Search!Load
    BY <2>2, SearchAssumption
    DEF Search!SearchInv, Search!TypeOK, Search!TypedIsSent, Search!Load,
        Search!Loaders
  <2>3. CASE Search!Deadline
    BY <2>3
    DEF Search!SearchInv, Search!TypeOK, Search!TypedIsSent, Search!Deadline,
        Search!page
  <2>. QED
    BY <2>1, <2>2, <2>3
<1>. QED
  BY <1>1, <1>2
  DEF Search!SearchInv, Search!TypeOK, Search!SubmittedOnce,
      Search!LoaderArrives, Search!FrameAdvances, Search!HtmlIsLater

(* Events are only added, and the frame moves to later documents.          *)
LEMMA EmitKeeps ==
    ASSUME Search!SearchInv, NEW k \in Search!Kinds, NEW l \in Search!Loaders,
           Search!Emit(k, l)
    PROVE  Search!SearchInv'
<1>1. /\ UNCHANGED <<search, mode, keys, edits, submitted, early, begun, loader,
                     html, expired>>
      /\ seen' = seen \cup {<<k, l>>} /\ <<k, l>> \notin early
  BY DEF Search!Emit, Search!result
<1>2. doc' \in Search!Loaders /\ doc' >= doc /\ (k = "navigated" => doc' >= l)
  BY SearchAssumption
  DEF Search!SearchInv, Search!TypeOK, Search!Emit, Search!Loaders
<1>3. /\ form' \in {"absent", "good", "bad"}
      /\ field' \in [foreign : BOOLEAN, typed : 0..Chars] /\ Search!TypedIsSent'
  <2>1. form' \in {form, "absent", "good"} /\ field' \in {field, Search!Blank}
    BY DEF Search!Emit
  <2>. QED
    BY <1>1, <2>1, FixedFields
    DEF Search!SearchInv, Search!TypeOK, Search!TypedIsSent
<1>4. Search!TypeOK'
  BY <1>1, <1>2, <1>3 DEF Search!SearchInv, Search!TypeOK
<1>5. Search!FrameAdvances'
  <2>1. ASSUME NEW m \in Search!Loaders,
               <<"navigated", m>> \in seen' \cup early'
        PROVE  doc' >= m
    <3>1. CASE <<"navigated", m>> \in seen \cup early
      BY <3>1, <1>2, SearchAssumption
      DEF Search!SearchInv, Search!TypeOK, Search!FrameAdvances, Search!Loaders
    <3>2. CASE <<"navigated", m>> = <<k, l>>
      BY <3>2, <1>2
    <3>. QED
      BY <2>1, <3>1, <3>2, <1>1
  <2>. QED
    BY <2>1 DEF Search!FrameAdvances
<1>6. Search!LoaderArrives'
  BY <1>1, <1>2, SearchAssumption
  DEF Search!SearchInv, Search!TypeOK, Search!LoaderArrives, Search!Loaders
<1>. QED
  BY <1>1, <1>3, <1>4, <1>5, <1>6
  DEF Search!SearchInv, Search!SubmittedOnce, Search!HtmlIsLater

(* Every step keeps the invariant.                                         *)
LEMMA SearchStep ==
    ASSUME Search!SearchInv, Search!Next
    PROVE  Search!SearchInv'
<1>1. CASE \/ Search!AwaitForm \/ Search!LookForChallenge \/ Search!Select
           \/ Search!Clear \/ Search!Type \/ Search!Verify
  BY <1>1, EntryKeeps
<1>2. CASE Search!Submit
  BY <1>2, SubmissionKeeps
<1>3. CASE Search!AwaitDocument
  BY <1>3, AwaitDocumentKeeps
<1>4. CASE Search!AwaitStopped \/ Search!TerminalEvents
  BY <1>4, ArrivalKeeps
<1>5. CASE Search!ReadDom \/ Search!ResultState \/ Search!Poll \/ Search!Reread
  BY <1>5, ReadKeeps
<1>6. CASE Search!Browser \/ Search!Deadline
  BY <1>6, PageKeeps, EmitKeeps DEF Search!Browser
<1>. QED
  BY <1>1, <1>2, <1>3, <1>4, <1>5, <1>6 DEF Search!Next, Search!Client

LEMMA SearchUnmoved ==
    ASSUME Search!SearchInv, UNCHANGED Search!vars
    PROVE  Search!SearchInv'
  BY DEF Search!vars, Search!SearchInv, Search!TypeOK, Search!SubmittedOnce,
         Search!LoaderArrives, Search!FrameAdvances, Search!HtmlIsLater,
         Search!TypedIsSent

LEMMA SearchIsSafe == Search!SearchInv => Search!ResultIsOfTheQuery
<1>1. Search!SubmittedOnce => \A s \in submitted : s[2] = Search!Query
  BY DEF Search!SubmittedOnce
<1>2. Search!SubmittedOnce /\ submitted # {} => Search!Cardinality(submitted) = 1
  BY SubmissionsCounted DEF Search!SubmittedOnce
<1>. QED
  BY <1>1, <1>2
  DEF Search!SearchInv, Search!ResultIsOfTheQuery, Search!SubmittedOnce,
      Search!LoaderArrives, Search!HtmlIsLater, Search!HasLoader, Search!Arrived

-----------------------------------------------------------------------------
(* The search's start and steps in the composition.                        *)
LEMMA BrowserStarts == BrowserInit => Search!Init
  BY DEF BrowserInit

LEMMA BrowserSearches == [BrowserNext]_allVars => [Search!Next]_(Search!vars)
<1>1. UNCHANGED searchVars => UNCHANGED Search!vars
  BY DEF searchVars, Search!vars
<1>2. UNCHANGED allVars => UNCHANGED searchVars
  BY DEF allVars
<1>3. BrowserNext => Search!Next \/ UNCHANGED searchVars
  BY DEF BrowserNext, Rest
<1>. QED
  BY <1>1, <1>2, <1>3

(* ResultIsOfTheQuery: whatever the scripts of the page, its documents and *)
(* the deadline do, for queries of any length and any number of documents  *)
(* and edits (submit_search, _wait_for_distinct_search_document).          *)
THEOREM SearchReturnsItsDocument == BrowserSpec => []ResultIsOfTheQuery
<1>1. BrowserInit => Search!SearchInv
  BY BrowserStarts, SearchStarts
<1>2. Search!SearchInv /\ [BrowserNext]_allVars => Search!SearchInv'
  BY BrowserSearches, SearchStep, SearchUnmoved
<1>. QED
  BY <1>1, <1>2, SearchIsSafe, PTL DEF BrowserSpec, ResultIsOfTheQuery

-----------------------------------------------------------------------------
(***************************************************************************)
(* The retained session of a provider (ProviderSession).  What protects a  *)
(* transaction is that the timer, the expiry task and the client never     *)
(* hold the session at the same time: SessionInv says who may hold what at *)
(* each step of the client.                                                *)
(***************************************************************************)
(* The client may share the loop with an expiry only where it waits, or    *)
(* has not yet looked at the session.                                      *)
Using == {"transacting", "resumed", "solving", "resuming", "aborting"}
Waiting == {"idle", "entering", "awaiting", "close", "closewaiting"}

(* The only armed timer is that of the handle, and then no expiry runs.    *)
TimerOfHandle ==
    /\ \A g \in Generations : timer[g] # NONE => handle = g
    /\ handle # NONE =>
          /\ client \in {"idle", "entering", "close"}
          /\ \A g \in Generations : expire[g] \in {"none", "done"}

(* The only expiry that runs is the one that _expiry_task refers to.       *)
TaskOfExpiry ==
    \A g \in Generations : expire[g] \notin {"none", "done"} =>
        expiryTask = g /\ client \in Waiting

(* The task that is awaited is still the one of the field, or it is done.  *)
AwaitsTask ==
    client \in {"awaiting", "closewaiting"} =>
        own \in Generations /\ expiryTask \in {own, NONE}

(* A submission that has begun has its generation still to come.           *)
AttemptLeft ==
    client \in {"entering", "expiring", "awaiting"} => generation < MaxAttempts

Timers == TimerOfHandle /\ TaskOfExpiry /\ AwaitsTask /\ AttemptLeft

(* The client works on the current session.                                *)
OwnsSession ==
    client \in Using \cup {"abandoning", "aborted"} =>
        own = session /\ own \in Sessions

(* A session that the loop or the client closes for good is nobody's.      *)
ClosingIsUnowned ==
    /\ client \in {"expiring", "closing"} =>
          session = NONE /\ own \in Sessions /\ conn[own] \in {"closing", "closed"}
    /\ \A g \in Generations : expire[g] \in Sessions =>
          session = NONE /\ conn[expire[g]] \in {"closing", "closed"}

(* The current session is connected, unless its transaction has just begun *)
(* or ends by closing it.                                                  *)
StateOfSession ==
    session # NONE =>
        conn[session] \in
            IF client = "transacting" THEN {"none", "open"}
            ELSE IF client \in {"abandoning", "aborted"} THEN {"closing", "closed"}
            ELSE {"open"}

(* Every connection has one holder.                                        *)
ConnectionOwned ==
    \A i \in Sessions : conn[i] \in {"open", "closing"} =>
        \/ session = i
        \/ client \in {"expiring", "closing"} /\ own = i
        \/ \E g \in Generations : expire[g] = i

Owners == OwnsSession /\ ClosingIsUnowned /\ StateOfSession /\ ConnectionOwned

SessionInv == TypeOK /\ Timers /\ Owners /\ TokenKept

USE IdleAssumption, AttemptsAssumption, NoSessionAssumption, SessionNamesAssumption
    DEF Generations, ClientSteps, Using, Waiting, loopVars, sessionVars, SessionInv

-----------------------------------------------------------------------------
(* Nothing is retained at the start.                                       *)
LEMMA InitHolds == Init => SessionInv
  BY DEF Init, TypeOK, Timers, TimerOfHandle, TaskOfExpiry, AwaitsTask, AttemptLeft,
         Owners, OwnsSession, ClosingIsUnowned, StateOfSession, ConnectionOwned,
         TokenKept

-----------------------------------------------------------------------------
(* A submission, from its start to the transaction.                        *)

LEMMA SubmitKeeps ==
    ASSUME SessionInv, Submit
    PROVE  SessionInv'
<1>1. TypeOK'
  BY DEF Submit, TypeOK
<1>2. Timers'
  BY DEF Submit, Timers, TimerOfHandle, TaskOfExpiry, AwaitsTask, AttemptLeft
<1>3. Owners'
  BY DEF Submit, Owners, OwnsSession, ClosingIsUnowned, StateOfSession,
         ConnectionOwned
<1>4. TokenKept'
  BY DEF Submit, TokenKept
<1>. QED
  BY <1>1, <1>2, <1>3, <1>4

LEMMA EnterSubmitKeeps ==
    ASSUME SessionInv, EnterSubmit
    PROVE  SessionInv'
<1>1. TypeOK'
  BY SMTT(30)
  DEF EnterSubmit, CancelTimer, CloseOwner, JoinExpiryThenBegin,
         AwaitExpiry, BeginTransaction, TypeOK, Timers, AttemptLeft
<1>2. Timers'
  BY DEF EnterSubmit, CancelTimer, JoinExpiryThenBegin, AwaitExpiry,
         BeginTransaction, TypeOK, Timers, TimerOfHandle, TaskOfExpiry,
         AwaitsTask, AttemptLeft
<1>3. Owners'
  BY DEF EnterSubmit, CloseOwner, JoinExpiryThenBegin, AwaitExpiry,
         BeginTransaction, TypeOK, Timers, TaskOfExpiry, AwaitsTask, Owners,
         OwnsSession, ClosingIsUnowned, StateOfSession, ConnectionOwned
<1>4. TokenKept'
  BY DEF EnterSubmit, CloseOwner, JoinExpiryThenBegin, AwaitExpiry,
         BeginTransaction, TypeOK, TokenKept
<1>. QED
  BY <1>1, <1>2, <1>3, <1>4

LEMMA ExpiredNowKeeps ==
    ASSUME SessionInv, ExpiredNow
    PROVE  SessionInv'
<1>1. TypeOK'
  BY DEF ExpiredNow, JoinExpiryThenBegin, AwaitExpiry, BeginTransaction,
         TypeOK, Timers, AttemptLeft
<1>2. Timers'
  BY DEF ExpiredNow, JoinExpiryThenBegin, AwaitExpiry, BeginTransaction,
         TypeOK, Timers, TimerOfHandle, TaskOfExpiry, AwaitsTask, AttemptLeft
<1>3. Owners'
  BY DEF ExpiredNow, JoinExpiryThenBegin, AwaitExpiry, BeginTransaction,
         TypeOK, Timers, TaskOfExpiry, Owners, OwnsSession, ClosingIsUnowned,
         StateOfSession, ConnectionOwned
<1>4. TokenKept'
  BY DEF ExpiredNow, JoinExpiryThenBegin, AwaitExpiry, BeginTransaction,
         TokenKept
<1>. QED
  BY <1>1, <1>2, <1>3, <1>4

LEMMA AwaitedExpiryKeeps ==
    ASSUME SessionInv, AwaitedExpiry
    PROVE  SessionInv'
<1>1. TypeOK'
  BY DEF AwaitedExpiry, BeginTransaction, TypeOK, Timers, AttemptLeft
<1>2. Timers'
  BY DEF AwaitedExpiry, BeginTransaction, Timers, TimerOfHandle, TaskOfExpiry,
         AwaitsTask, AttemptLeft
<1>3. Owners'
  BY DEF AwaitedExpiry, BeginTransaction, TypeOK, Timers, TaskOfExpiry,
         AwaitsTask, Owners, OwnsSession, ClosingIsUnowned, StateOfSession,
         ConnectionOwned
<1>4. TokenKept'
  BY DEF AwaitedExpiry, BeginTransaction, TokenKept
<1>. QED
  BY <1>1, <1>2, <1>3, <1>4

-----------------------------------------------------------------------------
(* The transaction: connecting, keeping the session, giving it up.         *)

LEMMA ConnectKeeps ==
    ASSUME SessionInv, Connect
    PROVE  SessionInv'
<1>1. TypeOK'
  BY DEF Connect, TypeOK, Owners, OwnsSession
<1>2. Timers'
  BY DEF Connect, Timers, TimerOfHandle, TaskOfExpiry, AwaitsTask, AttemptLeft
<1>3. Owners'
  BY DEF Connect, Owners, OwnsSession, ClosingIsUnowned, StateOfSession,
         ConnectionOwned
<1>4. TokenKept'
  BY DEF Connect, TokenKept
<1>. QED
  BY <1>1, <1>2, <1>3, <1>4

LEMMA ConnectFailsKeeps ==
    ASSUME SessionInv, ConnectFails
    PROVE  SessionInv'
<1>1. TypeOK'
  BY DEF ConnectFails, Finish, TypeOK, Owners, OwnsSession
<1>2. Timers'
  BY DEF ConnectFails, Finish, Timers, TimerOfHandle, TaskOfExpiry, AwaitsTask,
         AttemptLeft
<1>3. Owners'
  BY DEF ConnectFails, Finish, Owners, OwnsSession, ClosingIsUnowned,
         StateOfSession, ConnectionOwned
<1>4. TokenKept'
  BY DEF ConnectFails, TokenKept
<1>. QED
  BY <1>1, <1>2, <1>3, <1>4

LEMMA RetainKeeps ==
    ASSUME SessionInv, Retain
    PROVE  SessionInv'
<1>1. TypeOK'
  BY DEF Retain, Finish, TypeOK
<1>2. Timers'
  BY DEF Retain, Finish, TypeOK, Timers, TimerOfHandle, TaskOfExpiry,
         AwaitsTask, AttemptLeft
<1>3. Owners'
  BY DEF Retain, Finish, Owners, OwnsSession, ClosingIsUnowned, StateOfSession,
         ConnectionOwned, TokenKept
<1>4. TokenKept'
  BY DEF Retain, TokenKept
<1>. QED
  BY <1>1, <1>2, <1>3, <1>4

LEMMA AbandonKeeps ==
    ASSUME SessionInv, Abandon
    PROVE  SessionInv'
<1>1. TypeOK'
  BY DEF Abandon, CloseOwner, TypeOK, Owners, OwnsSession
<1>2. Timers'
  BY DEF Abandon, Timers, TimerOfHandle, TaskOfExpiry, AwaitsTask, AttemptLeft
<1>3. Owners'
  BY DEF Abandon, CloseOwner, TypeOK, Owners, OwnsSession, ClosingIsUnowned,
         StateOfSession, ConnectionOwned
<1>4. TokenKept'
  BY DEF Abandon, CloseOwner, TokenKept
<1>. QED
  BY <1>1, <1>2, <1>3, <1>4

LEMMA AbandonedKeeps ==
    ASSUME SessionInv, Abandoned
    PROVE  SessionInv'
<1>1. TypeOK'
  BY DEF Abandoned, Finish, TypeOK
<1>2. Timers'
  BY DEF Abandoned, Finish, Timers, TimerOfHandle, TaskOfExpiry, AwaitsTask,
         AttemptLeft
<1>3. Owners'
  BY DEF Abandoned, Finish, Owners, OwnsSession, ClosingIsUnowned,
         StateOfSession, ConnectionOwned, TokenKept
<1>4. TokenKept'
  BY DEF Abandoned, TokenKept
<1>. QED
  BY <1>1, <1>2, <1>3, <1>4

-----------------------------------------------------------------------------
(* A continuation.                                                         *)

LEMMA ChallengeKeeps ==
    ASSUME SessionInv, Challenge
    PROVE  SessionInv'
<1>1. TypeOK'
  BY DEF Challenge, Finish, TypeOK, Owners, OwnsSession
<1>2. Timers'
  BY DEF Challenge, Finish, TypeOK, Timers, TimerOfHandle, TaskOfExpiry,
         AwaitsTask, AttemptLeft, Owners, OwnsSession
<1>3. Owners'
  BY DEF Challenge, Finish, Owners, OwnsSession, ClosingIsUnowned,
         StateOfSession, ConnectionOwned
<1>4. TokenKept'
  BY DEF Challenge, TypeOK, Owners, OwnsSession, TokenKept
<1>. QED
  BY <1>1, <1>2, <1>3, <1>4

LEMMA SolvedKeeps ==
    ASSUME SessionInv, Solved
    PROVE  SessionInv'
<1>1. TypeOK'
  BY DEF Solved, TypeOK
<1>2. Timers'
  BY DEF Solved, Timers, TimerOfHandle, TaskOfExpiry, AwaitsTask, AttemptLeft
<1>3. Owners'
  BY DEF Solved, Owners, OwnsSession, ClosingIsUnowned, StateOfSession,
         ConnectionOwned
<1>4. TokenKept'
  BY DEF Solved, TokenKept
<1>. QED
  BY <1>1, <1>2, <1>3, <1>4

LEMMA EnterResumeKeeps ==
    ASSUME SessionInv, EnterResume
    PROVE  SessionInv'
<1>1. TypeOK'
  BY DEF EnterResume, CloseOwner, TypeOK
<1>2. Timers'
  BY DEF EnterResume, Timers, TimerOfHandle, TaskOfExpiry, AwaitsTask,
         AttemptLeft
<1>3. Owners'
  BY DEF EnterResume, CloseOwner, TypeOK, Owners, OwnsSession,
         ClosingIsUnowned, StateOfSession, ConnectionOwned
<1>4. TokenKept'
  BY DEF EnterResume, CloseOwner, TypeOK, Owners, OwnsSession, TokenKept
<1>. QED
  BY <1>1, <1>2, <1>3, <1>4

LEMMA EnterAbortKeeps ==
    ASSUME SessionInv, EnterAbort
    PROVE  SessionInv'
<1>1. TypeOK'
  BY DEF EnterAbort, CloseOwner, TypeOK
<1>2. Timers'
  BY DEF EnterAbort, Timers, TimerOfHandle, TaskOfExpiry, AwaitsTask,
         AttemptLeft
<1>3. Owners'
  BY DEF EnterAbort, CloseOwner, TypeOK, Owners, OwnsSession, ClosingIsUnowned,
         StateOfSession, ConnectionOwned
<1>4. TokenKept'
  BY DEF EnterAbort, CloseOwner, TypeOK, Owners, OwnsSession, TokenKept
<1>. QED
  BY <1>1, <1>2, <1>3, <1>4

LEMMA AbortedKeeps ==
    ASSUME SessionInv, Aborted
    PROVE  SessionInv'
<1>1. TypeOK'
  BY DEF Aborted, TypeOK
<1>2. Timers'
  BY DEF Aborted, Timers, TimerOfHandle, TaskOfExpiry, AwaitsTask, AttemptLeft
<1>3. Owners'
  BY DEF Aborted, Owners, OwnsSession, ClosingIsUnowned, StateOfSession,
         ConnectionOwned
<1>4. TokenKept'
  BY DEF Aborted, TokenKept
<1>. QED
  BY <1>1, <1>2, <1>3, <1>4

-----------------------------------------------------------------------------
(* A close.                                                                *)

LEMMA CloseKeeps ==
    ASSUME SessionInv, Close
    PROVE  SessionInv'
<1>1. TypeOK'
  BY DEF Close, TypeOK
<1>2. Timers'
  BY DEF Close, Timers, TimerOfHandle, TaskOfExpiry, AwaitsTask, AttemptLeft
<1>3. Owners'
  BY DEF Close, Owners, OwnsSession, ClosingIsUnowned, StateOfSession,
         ConnectionOwned
<1>4. TokenKept'
  BY DEF Close, TokenKept
<1>. QED
  BY <1>1, <1>2, <1>3, <1>4

LEMMA EnterCloseKeeps ==
    ASSUME SessionInv, EnterClose
    PROVE  SessionInv'
<1>1. TypeOK'
  BY DEF EnterClose, CancelTimer, CloseCurrent, CloseOwner, TypeOK, Timers,
         TaskOfExpiry
<1>2. Timers'
  BY DEF EnterClose, CancelTimer, CloseCurrent, TypeOK, Timers, TimerOfHandle,
         TaskOfExpiry, AwaitsTask, AttemptLeft
<1>3. Owners'
  BY DEF EnterClose, CloseCurrent, CloseOwner, TypeOK, Owners, OwnsSession,
         ClosingIsUnowned, StateOfSession, ConnectionOwned
<1>4. TokenKept'
  BY DEF EnterClose, CloseCurrent, CloseOwner, TypeOK, TokenKept
<1>. QED
  BY <1>1, <1>2, <1>3, <1>4

LEMMA CloseAfterExpiryKeeps ==
    ASSUME SessionInv, CloseAfterExpiry
    PROVE  SessionInv'
<1>1. TypeOK'
  BY DEF CloseAfterExpiry, CloseCurrent, CloseOwner, TypeOK
<1>2. Timers'
  BY DEF CloseAfterExpiry, CloseCurrent, Timers, TimerOfHandle, TaskOfExpiry,
         AwaitsTask, AttemptLeft
<1>3. Owners'
  BY DEF CloseAfterExpiry, CloseCurrent, CloseOwner, TypeOK, Owners,
         OwnsSession, ClosingIsUnowned, StateOfSession, ConnectionOwned
<1>4. TokenKept'
  BY DEF CloseAfterExpiry, CloseCurrent, CloseOwner, TypeOK, TokenKept
<1>. QED
  BY <1>1, <1>2, <1>3, <1>4

LEMMA ClosedKeeps ==
    ASSUME SessionInv, Closed
    PROVE  SessionInv'
<1>1. TypeOK'
  BY DEF Closed, TypeOK
<1>2. Timers'
  BY DEF Closed, Timers, TimerOfHandle, TaskOfExpiry, AwaitsTask, AttemptLeft
<1>3. Owners'
  BY DEF Closed, Owners, OwnsSession, ClosingIsUnowned, StateOfSession,
         ConnectionOwned
<1>4. TokenKept'
  BY DEF Closed, TokenKept
<1>. QED
  BY <1>1, <1>2, <1>3, <1>4

-----------------------------------------------------------------------------
(* The idle timer and the expiry task.                                     *)

LEMMA BeginExpiryKeeps ==
    ASSUME SessionInv, NEW g \in Generations, BeginExpiry(g)
    PROVE  SessionInv'
<1>1. TypeOK'
  BY DEF BeginExpiry, TypeOK
<1>2. Timers'
  BY DEF BeginExpiry, TypeOK, Timers, TimerOfHandle, TaskOfExpiry, AwaitsTask,
         AttemptLeft
<1>3. Owners'
  BY DEF BeginExpiry, Timers, TimerOfHandle, Owners, OwnsSession,
         ClosingIsUnowned, StateOfSession, ConnectionOwned
<1>4. TokenKept'
  BY DEF BeginExpiry, TokenKept
<1>. QED
  BY <1>1, <1>2, <1>3, <1>4

LEMMA ExpireKeeps ==
    ASSUME SessionInv, NEW g \in Generations, Expire(g)
    PROVE  SessionInv'
<1>1. TypeOK'
  BY SMTT(30) DEF Expire, CloseOwner, TypeOK
<1>2. Timers'
  BY DEF Expire, TypeOK, Timers, TimerOfHandle, TaskOfExpiry, AwaitsTask,
         AttemptLeft
<1>3. Owners'
  BY DEF Expire, CloseOwner, TypeOK, Timers, TaskOfExpiry, Owners, OwnsSession,
         ClosingIsUnowned, StateOfSession, ConnectionOwned
<1>4. TokenKept'
  BY DEF Expire, CloseOwner, TypeOK, Timers, TaskOfExpiry, TokenKept
<1>. QED
  BY <1>1, <1>2, <1>3, <1>4

LEMMA ExpiredKeeps ==
    ASSUME SessionInv, NEW g \in Generations, Expired(g)
    PROVE  SessionInv'
<1>1. TypeOK'
  BY DEF Expired, TypeOK
<1>2. Timers'
  BY DEF Expired, Timers, TimerOfHandle, TaskOfExpiry, AwaitsTask, AttemptLeft
<1>3. Owners'
  BY DEF Expired, Owners, OwnsSession, ClosingIsUnowned, StateOfSession,
         ConnectionOwned
<1>4. TokenKept'
  BY DEF Expired, TokenKept
<1>. QED
  BY <1>1, <1>2, <1>3, <1>4

LEMMA ClearExpiryTaskKeeps ==
    ASSUME SessionInv, ClearExpiryTask
    PROVE  SessionInv'
<1>1. TypeOK'
  BY DEF ClearExpiryTask, TypeOK
<1>2. Timers'
  BY DEF ClearExpiryTask, Timers, TimerOfHandle, TaskOfExpiry, AwaitsTask,
         AttemptLeft
<1>3. Owners'
  BY DEF ClearExpiryTask, Owners, OwnsSession, ClosingIsUnowned,
         StateOfSession, ConnectionOwned
<1>4. TokenKept'
  BY DEF ClearExpiryTask, TokenKept
<1>. QED
  BY <1>1, <1>2, <1>3, <1>4

-----------------------------------------------------------------------------
(* The environment.                                                        *)

LEMMA ConnectionClosesKeeps ==
    ASSUME SessionInv, NEW i \in Sessions, ConnectionCloses(i)
    PROVE  SessionInv'
<1>1. TypeOK'
  BY DEF ConnectionCloses, TypeOK
<1>2. Timers'
  BY DEF ConnectionCloses, Timers, TimerOfHandle, TaskOfExpiry, AwaitsTask,
         AttemptLeft
<1>3. Owners'
  BY DEF ConnectionCloses, Owners, OwnsSession, ClosingIsUnowned,
         StateOfSession, ConnectionOwned
<1>4. TokenKept'
  BY DEF ConnectionCloses, TokenKept
<1>. QED
  BY <1>1, <1>2, <1>3, <1>4

LEMMA ConnectionLostKeeps ==
    ASSUME SessionInv, NEW i \in Sessions, ConnectionLost(i)
    PROVE  SessionInv'
<1>1. TypeOK'
  BY DEF ConnectionLost, TypeOK
<1>2. Timers'
  BY DEF ConnectionLost, Timers, TimerOfHandle, TaskOfExpiry, AwaitsTask,
         AttemptLeft
<1>3. Owners'
  BY DEF ConnectionLost, Owners, OwnsSession, ClosingIsUnowned, StateOfSession,
         ConnectionOwned
<1>4. TokenKept'
  BY DEF ConnectionLost, TokenKept
<1>. QED
  BY <1>1, <1>2, <1>3, <1>4

LEMMA TickKeeps ==
    ASSUME SessionInv, Tick
    PROVE  SessionInv'
<1>1. TypeOK'
  BY DEF Tick, TypeOK
<1>2. Timers'
  BY DEF Tick, Timers, TimerOfHandle, TaskOfExpiry, AwaitsTask, AttemptLeft
<1>3. Owners'
  BY DEF Tick, Owners, OwnsSession, ClosingIsUnowned, StateOfSession,
         ConnectionOwned
<1>4. TokenKept'
  BY DEF Tick, TokenKept
<1>. QED
  BY <1>1, <1>2, <1>3, <1>4

-----------------------------------------------------------------------------
(* Every step keeps the invariant.                                         *)
LEMMA StepHolds == SessionInv /\ [Next]_vars => SessionInv'
<1>. SUFFICES ASSUME SessionInv, [Next]_vars PROVE SessionInv'
  OBVIOUS
<1>1. CASE ClientStep
  BY <1>1, EnterSubmitKeeps, ExpiredNowKeeps, AwaitedExpiryKeeps, ConnectKeeps,
     ConnectFailsKeeps, RetainKeeps, AbandonKeeps, AbandonedKeeps, ChallengeKeeps,
     SolvedKeeps, EnterResumeKeeps, EnterAbortKeeps, AbortedKeeps, EnterCloseKeeps,
     CloseAfterExpiryKeeps, ClosedKeeps
  DEF ClientStep
<1>2. ASSUME NEW g \in Generations, ExpiryStep(g) PROVE SessionInv'
  BY <1>2, BeginExpiryKeeps, ExpireKeeps, ExpiredKeeps DEF ExpiryStep
<1>3. ASSUME NEW i \in Sessions, ConnectionCloses(i) \/ ConnectionLost(i)
      PROVE  SessionInv'
  BY <1>3, ConnectionClosesKeeps, ConnectionLostKeeps
<1>4. CASE UNCHANGED vars
  BY <1>4 DEF vars, TypeOK, Timers, TimerOfHandle, TaskOfExpiry, AwaitsTask, AttemptLeft,
              Owners, OwnsSession, ClosingIsUnowned, StateOfSession, ConnectionOwned,
              TokenKept
<1>. QED
  BY <1>1, <1>2, <1>3, <1>4, SubmitKeeps, CloseKeeps, ClearExpiryTaskKeeps, TickKeeps
  DEF Next, Exhausted

(* Every holder excludes the others: the client closes only what is no     *)
(* longer current, and an expiry runs only after it has taken the session. *)
LEMMA OneHolder == SessionInv => OneConnection
<1>. SUFFICES ASSUME SessionInv, NEW i \in Sessions, NEW j \in Sessions,
                     conn[i] \in {"open", "closing"}, conn[j] \in {"open", "closing"}
              PROVE  i = j
  BY DEF OneConnection
<1>1. ASSUME NEW g \in Generations, NEW h \in Generations,
             expire[g] = i, expire[h] = j
      PROVE  i = j
  BY <1>1 DEF Timers, TaskOfExpiry
<1>. QED
  BY <1>1 DEF Timers, TaskOfExpiry, Owners, ClosingIsUnowned, ConnectionOwned

LEMMA UserIsSafe == SessionInv => UsedSessionIsSafe
  BY DEF TypeOK, Timers, TimerOfHandle, TaskOfExpiry, Owners, OwnsSession,
         StateOfSession, UsedSessionIsSafe

(* No step connects a session object again: only a new object is connected,*)
(* since a closed one is current only until its transaction ends.          *)
LEMMA ClosedIsFinal ==
    ASSUME SessionInv, [Next]_vars, NEW i \in Sessions, conn[i] = "closed"
    PROVE  conn'[i] = "closed"
<1>1. CASE Connect
  BY <1>1 DEF Connect, TypeOK, Owners, OwnsSession, StateOfSession
<1>2. CASE ConnectFails \/ Abandon \/ EnterResume \/ EnterAbort
  BY <1>2 DEF ConnectFails, Abandon, EnterResume, EnterAbort, CloseOwner, TypeOK, Owners,
              OwnsSession, StateOfSession
<1>3. CASE EnterSubmit \/ ExpiredNow \/ AwaitedExpiry
  BY <1>3 DEF EnterSubmit, ExpiredNow, AwaitedExpiry, JoinExpiryThenBegin, AwaitExpiry,
              BeginTransaction, CloseOwner, TypeOK, Owners, StateOfSession
<1>4. CASE EnterClose \/ CloseAfterExpiry
  BY <1>4 DEF EnterClose, CloseAfterExpiry, CloseCurrent, CloseOwner, TypeOK, Owners,
              StateOfSession
<1>5. ASSUME NEW g \in Generations, Expire(g) PROVE conn'[i] = "closed"
  BY <1>5 DEF Expire, CloseOwner, TypeOK, Timers, TaskOfExpiry, Owners, StateOfSession
<1>6. ASSUME NEW j \in Sessions, ConnectionCloses(j) PROVE conn'[i] = "closed"
  BY <1>6 DEF ConnectionCloses, TypeOK
<1>7. CASE \/ Submit \/ Close \/ Retain \/ Abandoned \/ Challenge \/ Solved
           \/ Aborted \/ Closed \/ ClearExpiryTask \/ Tick \/ Exhausted \/ UNCHANGED vars
           \/ (\E g \in Generations : BeginExpiry(g) \/ Expired(g))
           \/ (\E j \in Sessions : ConnectionLost(j))
  <2>1. conn' = conn
    BY <1>7 DEF Submit, Close, Retain, Abandoned, Challenge, Solved, Aborted, Closed,
                ClearExpiryTask, Tick, Exhausted, vars, BeginExpiry, Expired,
                ConnectionLost
  <2>. QED
    BY <2>1
<1>. QED
  BY <1>1, <1>2, <1>3, <1>4, <1>5, <1>6, <1>7 DEF Next, ClientStep, ExpiryStep

-----------------------------------------------------------------------------
(* Who may hold the session, the timer and the expiry task at each step of *)
(* the client (_ProviderBrowserSession).                                   *)
THEOREM SessionInvariant == Spec => []SessionInv
  BY InitHolds, StepHolds, PTL DEF Spec

(* SessionSafe: one connection, never taken from under its user, and a     *)
(* continuation token exactly while it is needed (_run_submit, _run_resume,*)
(* _run_abort, _begin_expiry, _expire).                                    *)
THEOREM RetainedSessionIsSafe == Spec => []SessionSafe
<1>1. SessionInv => SessionSafe
  BY OneHolder, UserIsSafe DEF SessionSafe
<1>. QED
  BY <1>1, SessionInvariant, PTL

(* NeverReconnected: a fresh connection always comes with a fresh owner    *)
(* (the discarding in the finally blocks of _run_submit and _run_resume).  *)
THEOREM ClosedStaysClosed == Spec => NeverReconnected
<1>1. SessionInv /\ [Next]_vars =>
          [\A i \in Sessions : conn[i] = "closed" => conn'[i] = "closed"]_vars
  BY ClosedIsFinal
<1>. QED
  BY <1>1, SessionInvariant, PTL DEF Spec, NeverReconnected
=============================================================================
