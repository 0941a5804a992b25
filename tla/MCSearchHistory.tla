-------------------------- MODULE MCSearchHistory --------------------------
(***************************************************************************)
(* SearchHistory for TLC.  Of the searches, two at a time run in a         *)
(* behaviour and the others do not arrive: two that rotate over the        *)
(* regular providers, or one that may spill over to a later tier and one   *)
(* that competes with it for the earlier.  Their states add up instead of  *)
(* multiplying.                                                            *)
(***************************************************************************)
EXTENDS SearchHistory, TLC

CONSTANTS s1, s2, s3, s4, s5, s6, s7, google2, brave2, bing2, x402exa

MCOrder == <<google2, brave2, bing2, x402exa>>

MCPairs == {{s1, s2}, {s3, s4}, {s4, s5}, {s6, s7}}

MCEligible ==
    [s \in {s1, s2} |-> Regular]
        @@ (s3 :> {google2, bing2}) @@ (s4 :> {google2})
        @@ (s5 :> {google2, x402exa})
        @@ (s6 :> {bing2, x402exa}) @@ (s7 :> {bing2})

VARIABLE pair    \* the two searches that run

MCInit == HistoryInit /\ pair \in MCPairs

(* Both have returned and their engine threads have ended.                 *)
PairFinished ==
    /\ \A s \in pair : pc[s] = "done" /\ owes[s] = NONE
    /\ \A s \in pair, p \in Providers : thread[s][p] \in {"none", "ended"}
    /\ UNCHANGED vars

(* The steps of Next that the two take, and those of the clock.            *)
PairNext ==
    \/ \E s \in pair : SearchStep(s)
    \/ \E s \in pair : \E p \in Eligible[s] : ThreadStep(s, p)
    \/ Tick
    \/ PairFinished

MCNext == PairNext /\ RecordTurn /\ RecordLapses /\ UNCHANGED pair

MCSpec == MCInit /\ [][MCNext]_<<historyVars, pair>>
=============================================================================
