----------------------------- MODULE MCPlatform -----------------------------
(***************************************************************************)
(* What the stack stands on, for TLC: the claim on its shared data         *)
(* (SharedDataClaim), a host service (HostProcess), the start of an Onyx   *)
(* service with its patches (PatchInstall), the supervision of the VPN     *)
(* client (MystHealth), a request through the egress proxy                 *)
(* (FinalHopProxy), the paid API attempts that leave through it            *)
(* (X402Payment), and the links of an answer on its way to the reader      *)
(* (ChatFileMarkdown).                                                     *)
(*                                                                         *)
(* They share no state: the claim is settled before anything starts, the   *)
(* proxy sees the VPN only as connections that fail, the payment sees the  *)
(* proxy as a network that may fail, and the patches are in place before   *)
(* anything is answered.  part says which of them takes steps in a         *)
(* behaviour, the others stay as they began.                               *)
(***************************************************************************)
EXTENDS MCMystHealth, Patches

CONSTANTS
    Pids, MaxTokens,        \* of HostProcess
    MaxAttempts, MaxOffers, \* of X402Payment
    MaxDeviations, Bases,   \* of PatchInstall
    Words, MaxWords, Limit  \* of ChatFileMarkdown

ASSUME PidsAssumption == NONE \notin Pids
ASSUME TokensAssumption == MaxTokens \in Nat
ASSUME AttemptsAssumption == MaxAttempts \in Nat
ASSUME OffersAssumption == MaxOffers \in Nat
ASSUME BasesAssumption == Bases \subseteq SUBSET Switches /\ Bases # {}

(* A word is a character or the end of a link, whose destination is that   *)
(* of a generated file or another one.                                     *)
MCWords ==
    {<<"!">>, <<"[">>, <<"]">>, <<"tick">>, <<"\\">>, <<"t">>,
     <<"]", "(", "t", ")">>, <<"]", "(", "t", "t", ")">>}

(* The defaults of the code and of the compose file, every optional patch, *)
(* and all but one of those whose rebuilds other rebuilds build on.        *)
MCBases ==
    {CodeDefaults, ComposeDefaults, Switches, Switches \ {"dr_tools"},
     Switches \ {"preserve"}}

VARIABLES
    part,
    marker, up, containers, command, read, adopted,
    record, proc, launched, managing, signals, strays,
    policy, request, step, ips, asked, trying, link, far, left, statuses, pipes,
    attempt, n, requirements, offers, refused, late, signed, outcome, wire, charges,
    held,
    service, strict, options, serving, patch, unmet, early, layers, ownText,
    readText, loaded, alias, captured,
    answer, fed, scan, cutEscape, split, done, saved

claimVars == <<marker, up, containers, command, read, adopted>>
hostVars == <<record, proc, launched, managing, signals, strays>>
egressVars == <<policy, request, step, ips, asked, trying, link, far, left, statuses,
                pipes>>
paymentVars == <<attempt, n, requirements, offers, refused, late, signed, outcome,
                 wire, charges, held>>
installVars == <<service, strict, options, serving, patch, unmet, early, layers,
                 ownText, readText, loaded, alias, captured>>
linkVars == <<answer, fed, scan, cutEscape, split, done, saved>>
allVars == <<part, claimVars, hostVars, vars, egressVars, paymentVars, installVars,
             linkVars>>

Claim == INSTANCE SharedDataClaim WITH left <- containers, at <- command

ASSUME EnginesAssumption == NONE \notin Claim!Engines \cup {"empty"}

Host == INSTANCE HostProcess WITH command <- managing

Egress == INSTANCE FinalHopProxy

Payment == INSTANCE X402Payment WITH at <- attempt

Install == INSTANCE PatchInstall WITH
    status <- serving, at <- patch, owner <- ownText, consumer <- readText

Links == INSTANCE ChatFileMarkdown

(* A part that takes no steps has one initial state only.                  *)
PlatformInit ==
    /\ part \in {"claim", "host", "health", "egress", "payment", "install", "links"}
    /\ part # "egress" =>
          /\ policy = CHOOSE p \in Egress!Policies : p.route = "public"
          /\ request = CHOOSE r \in Egress!Requests : r.role = "none"
    /\ Links!Init /\ (part # "links" => answer = <<>>)
    /\ Claim!Init /\ (part # "claim" => up = {})
    /\ Host!Init
    /\ part # "host" =>
          record = Host!NoRecord /\ \A i \in Pids : proc[i] = NONE
    /\ Init
    /\ Egress!Init
    /\ Payment!Init
    /\ part # "install" =>
          service = "control" /\ strict = TRUE
    /\ Install!Init

(* The service serves, or has stopped.                                     *)
Rest ==
    /\ part = "install" /\ serving # "installing"
    /\ UNCHANGED <<claimVars, hostVars, vars, egressVars, paymentVars, installVars,
                   linkVars>>

PlatformNext ==
    /\ UNCHANGED part
    /\ \/ /\ part = "claim" /\ Claim!Next
          /\ UNCHANGED <<hostVars, vars, egressVars, paymentVars, installVars, linkVars>>
       \/ /\ part = "host" /\ Host!Next
          /\ UNCHANGED <<claimVars, vars, egressVars, paymentVars, installVars, linkVars>>
       \/ /\ part = "health" /\ Next
          /\ UNCHANGED <<claimVars, hostVars, egressVars, paymentVars, installVars, linkVars>>
       \/ /\ part = "egress" /\ Egress!Next
          /\ UNCHANGED <<claimVars, hostVars, vars, paymentVars, installVars, linkVars>>
       \/ /\ part = "payment" /\ Payment!Next
          /\ UNCHANGED <<claimVars, hostVars, vars, egressVars, installVars, linkVars>>
       \/ /\ part = "install" /\ Install!Next
          /\ UNCHANGED <<claimVars, hostVars, vars, egressVars, paymentVars, linkVars>>
       \/ /\ part = "links" /\ Links!Next
          /\ UNCHANGED <<claimVars, hostVars, vars, egressVars, paymentVars, installVars>>
       \/ Rest

PlatformSpec == PlatformInit /\ [][PlatformNext]_allVars

(* See SharedDataClaim: a started stack holds the claim, and no two        *)
(* engines write the same files (claim, release).                          *)
ClaimSound == Claim!ClaimSound

(* See HostProcess: only own processes are signalled, and none that runs   *)
(* is lost (_stop_owned, start, stop).                                     *)
HostSound == Host!HostSound

(* See FinalHopProxy: only acceptable, validated addresses are dialled, no *)
(* resolver sees a name it must not see, and the client sees one status    *)
(* line at most (_validate_destination, _connect_via_upstream,             *)
(* handle_request).                                                        *)
EgressSound == Egress!EgressSound /\ Egress!AnsweredOnce

(* See FinalHopProxy: a handler waits without a deadline only for a peer   *)
(* (handle_request, _pipe).                                                *)
WaitsOnlyForPeers == Egress!WaitsOnlyForPeers

(* See X402Payment: an attempt is charged once at most and its record says *)
(* so; refused terms are not signed again (exchange, rejected, process).   *)
PaymentSound == Payment!PaymentSound

(* See PatchInstall: a strict service serves with every patch it asked for *)
(* in effect, and exits only over a mismatch (_apply_patches, _fail).      *)
InstallSound == Install!StrictServiceIsComplete /\ Install!ExitIsJustified

(* See ChatFileMarkdown: the reader sees one answer, without loss, however *)
(* it is cut into chunks, saved and loaded (feed, flush).                  *)
OneAnswer == Links!Lossless /\ Links!OneAnswer
=============================================================================
