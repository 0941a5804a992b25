----------------------------- MODULE MCBrowser -----------------------------
(***************************************************************************)
(* What a search has to get through, for TLC: its turn on a provider       *)
(* (SearchScheduling), the provider's retained session (ProviderSession),  *)
(* one fetch over a CDP connection (CdpFetch) and one search on the        *)
(* provider's page (SearchDocument).                                       *)
(*                                                                         *)
(* The four share no state: the scheduling sees an attempt as a navigation *)
(* that ends, the session sees a transaction as one step, and the fetch    *)
(* and the search are what happens inside it.  part says which of them     *)
(* takes steps in a behaviour, the others stay as they began, so that      *)
(* their states add up instead of multiplying.                             *)
(***************************************************************************)
EXTENDS ProviderSession, Sequences, TLC

CONSTANTS b1, b2, b3, s1, s2, google2, x402exa,
          MaxFetch, MaxCancel, MaxSent,  \* of CdpFetch
          Chars, MaxLoads, MaxEdits      \* of SearchDocument

ASSUME FetchAssumption ==
    MaxFetch \in Nat /\ MaxCancel \in Nat /\ MaxSent \in Nat

ASSUME SearchAssumption == Chars \in Nat /\ MaxLoads \in Nat /\ MaxEdits \in Nat

MCSessions == {b1, b2, b3}

(* The first search may use both providers, the second the free one.       *)
MCEligible == (s1 :> {google2, x402exa}) @@ (s2 :> {google2})

VARIABLES
    part,
    active, reservation, cool, susp, cursor, fresh, owes, pc, avail, offset, waits,
    picked, attempted, timedOut, hasMain, thread,
    owned, sock, at, n, sent, wire, todo, events, loaded, tabs, streams, target,
    streamHandle, reusable, escaped, cancels, result,
    search, mode, form, field, keys, edits, submitted, seen, early, begun, doc,
    loader, html, expired

turnVars == <<active, reservation, cool, susp, cursor, fresh, owes, pc, avail,
              offset, waits, picked, attempted, timedOut, hasMain, thread>>
fetchVars == <<owned, sock, at, n, sent, wire, todo, events, loaded, tabs, streams,
               target, streamHandle, reusable, escaped, cancels, result>>
searchVars == <<search, mode, form, field, keys, edits, submitted, seen, early, begun,
                doc, loader, html, expired>>
allVars == <<part, turnVars, vars, fetchVars, searchVars>>

Turn == INSTANCE SearchScheduling WITH
    timer <- waits,
    Searches <- {s1, s2}, Regular <- {google2}, LastResort <- {}, Paid <- {x402exa},
    Order <- <<google2, x402exa>>, Eligible <- MCEligible,
    Interval <- 1, SuspendTicks <- 1

Fetch == INSTANCE CdpFetch WITH handle <- streamHandle

Search == INSTANCE SearchDocument WITH
    at <- search, sent <- submitted, events <- seen

Parts == {"turn", "session", "fetch", "search"}

(* A part that takes no steps has one initial state only.                  *)
BrowserInit ==
    /\ part \in Parts
    /\ Turn!Init
    /\ Init
    /\ Fetch!Init /\ (part # "fetch" => owned)
    /\ Search!Init
    /\ part # "search" =>
          mode = "timed" /\ form = "absent" /\ field = Search!Blank

(* The bound on the fetches is reached, or the search is over.             *)
Rest ==
    /\ \/ part = "fetch" /\ at = "idle" /\ n = MaxFetch
       \/ part = "search" /\ search \in {"done", "failed"}
    /\ UNCHANGED <<turnVars, vars, fetchVars, searchVars>>

BrowserNext ==
    /\ UNCHANGED part
    /\ \/ part = "turn" /\ Turn!Next /\ UNCHANGED <<vars, fetchVars, searchVars>>
       \/ part = "session" /\ Next /\ UNCHANGED <<turnVars, fetchVars, searchVars>>
       \/ part = "fetch" /\ Fetch!Next /\ UNCHANGED <<turnVars, vars, searchVars>>
       \/ part = "search" /\ Search!Next /\ UNCHANGED <<turnVars, vars, fetchVars>>
       \/ Rest

(* The fairness of each part.                                              *)
BrowserSpec ==
    /\ BrowserInit /\ [][BrowserNext]_allVars
    /\ \A s \in {s1, s2} :
          /\ WF_turnVars(part = "turn" /\ Turn!SearchStep(s))
          /\ \A p \in {google2, x402exa} :
                WF_turnVars(part = "turn" /\ Turn!ThreadStep(s, p))
    /\ WF_turnVars(part = "turn" /\ Turn!Tick)
    /\ WF_vars(part = "session" /\ ClientStep)
    /\ \A g \in Generations : WF_vars(part = "session" /\ ExpiryStep(g))
    /\ WF_vars(part = "session" /\ ClearExpiryTask)
    /\ \A i \in Sessions : WF_vars(part = "session" /\ ConnectionCloses(i))
    /\ WF_vars(part = "session" /\ Tick)
    /\ WF_fetchVars(part = "fetch" /\ Fetch!Client)
    /\ WF_searchVars(part = "search" /\ Search!Client)
    /\ WF_searchVars(part = "search" /\ search \notin {"done", "failed"}
                        /\ Search!Deadline)

(* See SearchScheduling: every search returns, every provider is given     *)
(* back (search_standard, provider_lease).                                 *)
SearchingProgresses == part = "turn" => Turn!SearchingProgresses

(* See CdpFetch: a page is read only after every terminal event of its own *)
(* navigation, and a connection kept for the next fetch has no command     *)
(* outstanding and no target or stream of this one (fetch and its finally  *)
(* clause).                                                                *)
FetchSound == Fetch!OwnDocument /\ Fetch!KeptConnectionIsClean

(* See SearchDocument: one submission, with the query as its text, and its *)
(* own complete result document (submit_search).                           *)
ResultIsOfTheQuery == Search!ResultIsOfTheQuery

(* See ProviderSession, CdpFetch and SearchDocument: a session's client is *)
(* answered and an unused session goes, and every fetch and every search   *)
(* ends, whatever the browser and the page do (_guarded, remaining).       *)
BrowsingEnds ==
    /\ SessionProgresses
    /\ Fetch!FetchEnds
    /\ part = "search" => Search!SearchEnds
=============================================================================
