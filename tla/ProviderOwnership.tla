-------------------------- MODULE ProviderOwnership --------------------------
(***************************************************************************)
(* What provider admission promises, without cursors, generations, timers  *)
(* or engine threads: a provider is held by at most one search; an attempt *)
(* begins only on a provider its search holds, that is not blocked, and    *)
(* that the search has not tried; and only the attempt that runs on a      *)
(* provider can block it.                                                  *)
(***************************************************************************)
CONSTANTS Searches, Providers, NONE

VARIABLES
    holder,   \* holder[p]: the search that reserved or runs on p
    running,  \* providers with an attempt under way
    blocked,  \* suspended providers
    tried     \* tried[s]: providers s began an attempt on

vars == <<holder, running, blocked, tried>>

Init ==
    /\ holder = [p \in Providers |-> NONE]
    /\ running = {}
    /\ blocked = {}
    /\ tried = [s \in Searches |-> {}]

Acquire(s, p) ==
    /\ holder[p] = NONE
    /\ p \notin tried[s]
    /\ holder' = [holder EXCEPT ![p] = s]
    /\ UNCHANGED <<running, blocked, tried>>

Cancel(s, p) ==
    /\ holder[p] = s
    /\ p \notin running
    /\ holder' = [holder EXCEPT ![p] = NONE]
    /\ UNCHANGED <<running, blocked, tried>>

Begin(s, p) ==
    /\ holder[p] = s
    /\ p \notin running \cup blocked \cup tried[s]
    /\ running' = running \cup {p}
    /\ tried' = [tried EXCEPT ![s] = @ \cup {p}]
    /\ UNCHANGED <<holder, blocked>>

Block(s, p) ==
    /\ holder[p] = s
    /\ p \in running
    /\ blocked' = blocked \cup {p}
    /\ UNCHANGED <<holder, running, tried>>

Finish(s, p) ==
    /\ holder[p] = s
    /\ p \in running
    /\ running' = running \ {p}
    /\ holder' = [holder EXCEPT ![p] = NONE]
    /\ UNCHANGED <<blocked, tried>>

(* Suspensions lapse with time, several of them at once perhaps.           *)
Lapse ==
    /\ blocked' \in SUBSET blocked
    /\ UNCHANGED <<holder, running, tried>>

Next ==
    \/ \E s \in Searches, p \in Providers :
          \/ Acquire(s, p) \/ Cancel(s, p) \/ Begin(s, p)
          \/ Block(s, p) \/ Finish(s, p)
    \/ Lapse

Spec == Init /\ [][Next]_vars
=============================================================================
