----------------------------- MODULE X402Payment -----------------------------
(***************************************************************************)
(* One paid API attempt after another (searxng/engines/_x402_payment.py and *)
(* process of x402exa.py).  The worker's PaymentClient keeps the terms of  *)
(* the last offer between attempts, never a signature.  The service and    *)
(* the network are external: an answer may say too little, come too late   *)
(* or not come at all, but it does not lie about a settlement.             *)
(***************************************************************************)
EXTENDS Naturals

CONSTANTS
    MaxAttempts,  \* bound on the attempts
    MaxOffers,    \* bound on the offers the service makes
    NONE

VARIABLES
    at,            \* where the attempt is
    n,             \* attempts begun
    requirements,  \* the terms the worker keeps, an offer or NONE
    offers,        \* offers made so far; every header is a new one
    refused,       \* the offers of which the client was told they are no good
    late,          \* the deadline passed, or the search stopped waiting
    signed,        \* the offer this attempt has signed
    outcome,       \* what the attempt knows of its payment
    wire,          \* signed requests of this attempt that may still settle
    charges,       \* how often this attempt was charged
    held           \* seconds of suspension the last attempt ended with

paymentVars == <<at, n, requirements, offers, refused, late, signed, outcome, wire,
                 charges, held>>

NoOutcome == [submitted |-> FALSE, payment |-> "not_submitted", suspension |-> 0]

Init ==
    /\ at = "idle" /\ n = 0
    /\ requirements = NONE /\ offers = 0 /\ refused = {}
    /\ late = FALSE
    /\ signed = NONE
    /\ outcome = NoOutcome
    /\ wire = 0 /\ charges = 0
    /\ held = 0

TypeOK ==
    /\ at \in {"idle", "ready", "asking", "terms", "signed", "paying", "reading"}
    /\ n \in 0..MaxAttempts
    /\ offers \in 0..MaxOffers
    /\ requirements \in 1..MaxOffers \cup {NONE}
    /\ refused \subseteq 1..MaxOffers
    /\ late \in BOOLEAN
    /\ signed \in 1..MaxOffers \cup {NONE}
    /\ outcome \in [submitted : BOOLEAN, suspension : {0, 60, 3600},
                    payment : {"not_submitted", "unknown", "reported_success",
                               "reported_rejection"}]
    /\ wire \in Nat /\ charges \in Nat
    /\ held \in {0, 60, 300, 3600}

(* The attempt ends with an error; the provider is suspended for the time  *)
(* the service named, or for long if money may have moved.                 *)
EndsWith(o) ==
    /\ outcome' = o
    /\ at' = "idle"
    /\ held' = IF o.suspension # 0 THEN o.suspension
               ELSE IF o.submitted THEN 300 ELSE 60

Unchanging == UNCHANGED <<n, refused, signed, wire, charges>>
Keeping == Unchanging /\ UNCHANGED <<requirements, offers, late>>

-----------------------------------------------------------------------------
(* An attempt that is admitted too late ends without a suspension.         *)
Begin ==
    /\ at = "idle" /\ n < MaxAttempts
    /\ n' = n + 1
    /\ late' \in BOOLEAN
    /\ at' = IF late' THEN "idle" ELSE "ready"
    /\ signed' = NONE /\ outcome' = NoOutcome
    /\ wire' = 0 /\ charges' = 0 /\ held' = 0
    /\ UNCHANGED <<requirements, offers, refused>>

TimePasses ==
    /\ at # "idle" /\ ~late
    /\ late' = TRUE
    /\ UNCHANGED <<at, requirements, offers, outcome, held>> /\ Unchanging

(* check_deadline, and the timeout around the awaits.                      *)
TooLate ==
    /\ at # "idle" /\ late
    /\ EndsWith(outcome)
    /\ Keeping

KnowsTerms == at = "terms" \/ (at = "ready" /\ requirements # NONE)

(* The unsigned request, when no terms are known.                          *)
Discover ==
    /\ at = "ready" /\ requirements = NONE /\ ~late
    /\ at' = "asking"
    /\ UNCHANGED <<outcome, held>> /\ Keeping

FreeAnswer ==
    /\ at = "asking"
    /\ at' = "reading"
    /\ UNCHANGED <<outcome, held>> /\ Keeping

Offered ==
    /\ at = "asking" /\ ~late
    /\ offers < MaxOffers
    /\ offers' = offers + 1
    /\ requirements' = offers'
    /\ at' = "terms"
    /\ UNCHANGED <<late, outcome, held>> /\ Unchanging

(* Any other status, unusable terms, or no answer.                         *)
DiscoveryFails ==
    /\ at = "asking"
    /\ \E seconds \in {0, 60, 3600} :
          EndsWith([outcome EXCEPT !.suspension = seconds])
    /\ Keeping

Sign ==
    /\ KnowsTerms
    /\ ~late
    /\ signed' = requirements
    /\ at' = "signed"
    /\ UNCHANGED <<n, refused, wire, charges, requirements, offers, late, outcome,
                   held>>

SignFails ==
    /\ KnowsTerms
    /\ EndsWith(outcome)
    /\ Keeping

Paid(payment, seconds) ==
    [submitted |-> TRUE, payment |-> payment, suspension |-> seconds]

(* The outcome is written down before the request leaves.                  *)
Submit ==
    /\ at = "signed" /\ ~late
    /\ outcome' = Paid("unknown", outcome.suspension)
    /\ wire' = wire + 1
    /\ at' = "paying"
    /\ UNCHANGED <<n, refused, signed, charges, requirements, offers, late, held>>

-----------------------------------------------------------------------------
(* The service settles a signed request it has received; it may do so      *)
(* after the client has stopped waiting.                                   *)
Settle ==
    /\ wire > 0
    /\ charges' = charges + 1
    /\ wire' = wire - 1
    /\ UNCHANGED <<at, n, requirements, offers, refused, late, signed, outcome, held>>

(* Mutant of Replaced: unusable replacement terms leave the old ones.      *)
ReplacedIfUsable(header) ==
    IF header = "usable" THEN requirements' = offers + 1 /\ offers' = offers + 1
                         ELSE UNCHANGED <<requirements, offers>>

(* PaymentClient.rejected: the terms go, usable new ones come.             *)
Replaced(header) ==
    IF header = "usable" THEN requirements' = offers + 1 /\ offers' = offers + 1
                         ELSE requirements' = NONE /\ UNCHANGED offers

Named(status) == IF status = "limited" THEN {60, 3600}
                 ELSE IF status = "denied" THEN {3600} ELSE {0}

Reported(receipt) ==
    [success |-> "reported_success", failure |-> "reported_rejection",
     unreadable |-> "unknown"][receipt]

(* The answer to the signed request.  A refusal is final for its terms,    *)
(* whether or not its receipt can be read.                                 *)
Answered(status, receipt, header) ==
    LET no == status = "required" \/ receipt = "failure"
        ok == status = "ok" /\ receipt = "success"
    IN  /\ at = "paying"
        /\ receipt = "success" => charges = 1
        /\ no => charges = 0
        /\ wire' = IF no THEN 0 ELSE wire
        /\ refused' = IF no THEN refused \cup {signed} ELSE refused
        /\ IF no THEN Replaced(header) ELSE UNCHANGED <<requirements, offers>>
        /\ offers' <= MaxOffers
        /\ \E seconds \in Named(status) :
              LET o == Paid(Reported(receipt), seconds)
              IN  IF ok THEN outcome' = o /\ at' = "reading" /\ UNCHANGED held
                        ELSE EndsWith(o)
        /\ UNCHANGED <<n, late, signed, charges>>

(* No answer, an answer that breaks off, or results that do not parse.     *)
Broken ==
    /\ at \in {"paying", "reading"}
    /\ EndsWith(outcome)
    /\ Keeping

Deliver ==
    /\ at = "reading" /\ ~late
    /\ at' = "idle" /\ held' = 0
    /\ UNCHANGED outcome /\ Keeping

AnsweredSomehow ==
    \E status \in {"ok", "required", "limited", "denied", "failed"},
       receipt \in {"success", "failure", "unreadable"},
       header \in {"usable", "unusable"} : Answered(status, receipt, header)

(* The bound on the attempts is reached.                                   *)
Spent == at = "idle" /\ n = MaxAttempts /\ UNCHANGED paymentVars

Next ==
    \/ Begin \/ TimePasses \/ TooLate
    \/ Discover \/ FreeAnswer \/ Offered \/ DiscoveryFails
    \/ Sign \/ SignFails \/ Submit
    \/ Settle \/ AnsweredSomehow \/ Broken \/ Deliver
    \/ Spent

Spec == Init /\ [][Next]_paymentVars
-----------------------------------------------------------------------------
(* An attempt is charged once at most, whatever is refused, lost or late   *)
(* ("At most one unsigned POST and one signed POST; no recovery/replay").  *)
ChargedOnce == charges + wire <= 1

(* The record of an attempt never hides a charge: what it calls not        *)
(* submitted or rejected is not charged, even by a settlement that comes   *)
(* after the attempt gave up, and what it calls a success is.              *)
RecordIsTrue ==
    /\ outcome.payment \in {"not_submitted", "reported_rejection"} =>
          charges = 0 /\ wire = 0
    /\ outcome.payment = "reported_success" => charges = 1

(* Terms the client was told are no good are neither kept nor signed       *)
(* again, over any number of attempts (PaymentClient.rejected).            *)
NoRefusedTerms ==
    /\ requirements \notin refused
    /\ at \in {"signed", "paying"} => signed \notin refused

(* After an attempt that may have been charged and brought no results, the *)
(* next one comes no sooner than the service allowed or five minutes later *)
(* (process).                                                              *)
ChargedThenHeld ==
    at = "idle" /\ charges + wire > 0 /\ held > 0 =>
        held = outcome.suspension \/ held >= 300

PaymentSound ==
    TypeOK /\ ChargedOnce /\ RecordIsTrue /\ NoRefusedTerms /\ ChargedThenHeld
-----------------------------------------------------------------------------
(* The inductive invariant behind PaymentSound.  What an attempt knows at  *)
(* each step about its own submission,                                     *)
Submission ==
    /\ at \in {"ready", "asking", "terms", "signed"} => ~outcome.submitted
    /\ at = "paying" => outcome.submitted /\ outcome.payment = "unknown"
    /\ ~outcome.submitted => charges = 0 /\ wire = 0

(* and that every offer is a new one.                                      *)
Terms ==
    /\ refused \subseteq 1..offers
    /\ requirements \in 1..offers \cup {NONE}
    /\ at = "terms" => requirements # NONE
    /\ at \in {"signed", "paying"} => signed \in 1..offers

PaymentInv == PaymentSound /\ Submission /\ Terms
=============================================================================
