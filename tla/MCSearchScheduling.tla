------------------------- MODULE MCSearchScheduling -------------------------
(***************************************************************************)
(* Values of the constants of SearchScheduling for TLC.                    *)
(***************************************************************************)
EXTENDS SearchScheduling, TLC

CONSTANTS s1, s2, google2, brave2, bing2, x402exa

MCBrowsers == <<google2, brave2, bing2>>
MCPaidTier == <<google2, x402exa>>

(* Both searches may use every provider.                                   *)
MCAllEligible == [s \in Searches |-> Providers]

(* The first search falls back to the last resort, the second rotates.     *)
MCOverlapping ==
    [s \in Searches |-> IF s = s2 THEN Regular ELSE {brave2} \cup LastResort]

(* Searches that may use the same providers are interchangeable.           *)
MCSymmetry == Permutations(Searches)

(* The documentation of the tiers (docs/request_handling.md:1122): untried *)
(* eligible free engines that are busy, reserved or cooling force waiting. *)
(* Stated of a search that slept for the paid provider: when it is granted *)
(* after the wake-up, every free provider it could still use is suspended. *)
FreeBeforePaid ==
    [][\A s \in Searches :
         pc[s] = "paidwoken" /\ pc'[s] = "recheck" =>
            \A q \in Candidates(s) \cap Browser : susp[q] > 0]_vars
=============================================================================
