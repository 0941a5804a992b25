--------------------------- MODULE SearchHistory ---------------------------
(***************************************************************************)
(* SearchScheduling with two history variables: the last turn of the       *)
(* rotation with the scan under way, and the suspensions that lapsed since *)
(* each search listed its providers.  They say what a later choice may     *)
(* depend on, and restrict no step.                                        *)
(***************************************************************************)
EXTENDS SearchScheduling

VARIABLES
    turn,    \* the names last chosen from, the provider taken, and the
             \* providers that the scan under way has passed over
    lapsed   \* lapsed[s]: providers whose suspension ran out meanwhile

historyVars == <<vars, turn, lapsed>>

(* s takes p from the names it had listed.                                 *)
Takes(s, p) ==
    pc[s] = "reserve" /\ reservation[p] # s /\ reservation'[p] = s

NoTurn == [names |-> {}, taken |-> NONE, passed |-> {}]

(* A turn over a single name leaves nothing to compare the next one with.  *)
TurnOf(names, p) ==
    IF names = {p} THEN NoTurn ELSE [names |-> names, taken |-> p, passed |-> {}]

(* What the scans probe in this step without taking it.                    *)
PassedOver == {Probed(s) : s \in {t \in Searches : offset'[t] > offset[t]}}

ScanEnds == \E s \in Searches : offset'[s] < offset[s]

RecordTurn ==
    \/ \E s \in Searches : \E p \in avail[s] :
          Takes(s, p) /\ turn' = TurnOf(avail[s], p)
    \/ /\ ~\E s \in Searches : \E p \in avail[s] : Takes(s, p)
       /\ turn' = [turn EXCEPT !.passed = IF turn = NoTurn \/ ScanEnds THEN {}
                                          ELSE @ \cup PassedOver]

(* Between listing the providers and reserving one.                        *)
Choosing == {"later", "reserve", "delay", "block", "waiting", "paidcheck",
             "paidwaiting", "paidwoken"}

LapsedAfter(s) ==
    IF pc[s] \notin Choosing \/ pc'[s] \notin Choosing THEN {}
    ELSE lapsed[s] \cup {p \in Candidates(s) \cap Browser :
                            susp[p] > 0 /\ susp'[p] = 0}

RecordLapses == lapsed' = [s \in Searches |-> LapsedAfter(s)]

HistoryInit ==
    /\ Init
    /\ turn = NoTurn
    /\ lapsed = [s \in Searches |-> {}]

HistoryNext == Next /\ RecordTurn /\ RecordLapses

HistorySpec == HistoryInit /\ [][HistoryNext]_historyVars

-----------------------------------------------------------------------------
(* Two successive turns over the same names take different providers,      *)
(* whichever searches they belong to, unless the scan of the second one    *)
(* passed over every other name, which was taken, running or cooling       *)
(* (README_PATCHES.md:18, "Searches rotate among available providers";     *)
(* _reserve_round_robin_engine and its shared cursor).                     *)
MovesOn ==
    \A s \in Searches : \A p \in avail[s] :
       Takes(s, p) /\ turn.names = avail[s] /\ turn.taken = p =>
          avail[s] \ {p} \subseteq turn.passed

RotationMoves == [][MovesOn]_historyVars

Tier(p) == CASE p \in Regular -> 1 [] p \in LastResort -> 2 [] p \in Paid -> 3

(* A search reserves a provider of a later tier only if every provider of  *)
(* the earlier tiers it could still use is suspended, or was when it       *)
(* listed them: a busy or cooling provider never makes it spill over       *)
(* (_round_robin_selected_refs, the comment on last-resort selection).     *)
TiersInOrder ==
    \A p \in Providers :
       LET s == reservation'[p]
       IN  s \in Searches /\ s # reservation[p] =>
              \A q \in Candidates(s) :
                 Tier(q) < Tier(p) => susp[q] > 0 \/ q \in lapsed[s]

LaterTierJustified == [][TiersInOrder]_historyVars
=============================================================================
