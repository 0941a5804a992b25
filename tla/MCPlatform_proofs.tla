--------------------------- MODULE MCPlatform_proofs ---------------------------
(***************************************************************************)
(* Proofs about the composition MCPlatform: each part's soundness is an    *)
(* invariant of the whole, whichever part takes the steps and for every    *)
(* value of the constants.  Each part is proved from the inductive         *)
(* invariant its module states, action by action, and then carried over.   *)
(***************************************************************************)
EXTENDS MCPlatform, TLAPS

(***************************************************************************)
(* The egress proxy: one lemma per action of FinalHopProxy.                *)
(***************************************************************************)
USE DEF
    Egress!Policies, Egress!Requests, Egress!Hosts, Egress!Literals,
    Egress!Names, Egress!Addresses, Egress!Steps, Egress!connection,
    Egress!relaying, Egress!Goto, Egress!Acceptable, Egress!LanRoute,
    Egress!DockerHost, Egress!AllowedDockerPort, Egress!LocalEmbedding,
    Egress!DirectException, Egress!AllPrivate

LEMMA EgressInit == Egress!Init => Egress!EgressInv
  BY DEF Egress!Init, Egress!Roles, Egress!EgressInv, Egress!EgressSound,
         Egress!TypeOK, Egress!AnsweredOnce, Egress!SettledBySteps,
         Egress!AddressesAcceptable, Egress!NotYetConnected,
         Egress!NotYetAnswered

LEMMA AdmitClientKeeps ==
    ASSUME Egress!EgressInv, Egress!AdmitClient
    PROVE  Egress!EgressInv'
<1>1. Egress!TypeOK'
  BY DEF Egress!EgressInv, Egress!EgressSound, Egress!TypeOK, Egress!AdmitClient
<1>2. Egress!EgressSound'
  BY <1>1 DEF Egress!EgressInv, Egress!EgressSound, Egress!AdmitClient
<1>3. (Egress!AnsweredOnce /\ Egress!NotYetAnswered)'
  BY DEF Egress!EgressInv, Egress!AnsweredOnce, Egress!NotYetAnswered,
         Egress!AdmitClient
<1>4. (Egress!SettledBySteps /\ Egress!AddressesAcceptable)'
  BY DEF Egress!EgressInv, Egress!SettledBySteps, Egress!AddressesAcceptable,
         Egress!AdmitClient
<1>5. Egress!NotYetConnected'
  BY DEF Egress!EgressInv, Egress!NotYetConnected, Egress!AdmitClient
<1>. QED
  BY <1>2, <1>3, <1>4, <1>5 DEF Egress!EgressInv

LEMMA ReadRequestKeeps ==
    ASSUME Egress!EgressInv, Egress!ReadRequest
    PROVE  Egress!EgressInv'
<1>1. Egress!TypeOK'
  BY DEF Egress!EgressInv, Egress!EgressSound, Egress!TypeOK, Egress!ReadRequest
<1>2. Egress!EgressSound'
  BY <1>1 DEF Egress!EgressInv, Egress!EgressSound, Egress!ReadRequest
<1>3. (Egress!AnsweredOnce /\ Egress!NotYetAnswered)'
  BY DEF Egress!EgressInv, Egress!AnsweredOnce, Egress!NotYetAnswered,
         Egress!ReadRequest
<1>4. (Egress!SettledBySteps /\ Egress!AddressesAcceptable)'
  BY DEF Egress!EgressInv, Egress!SettledBySteps, Egress!AddressesAcceptable,
         Egress!ReadRequest
<1>5. Egress!NotYetConnected'
  BY DEF Egress!EgressInv, Egress!NotYetConnected, Egress!ReadRequest
<1>. QED
  BY <1>2, <1>3, <1>4, <1>5 DEF Egress!EgressInv

LEMMA ValidateKeeps ==
    ASSUME Egress!EgressInv, Egress!Validate
    PROVE  Egress!EgressInv'
<1>1. /\ ips' \in {ips, {"private"}, {"global"}}
      /\ step' \in {"open", "refuse", "ask_embedding", "ask_docker", "ask_trusted",
                   "ask_local", "ask_target"}
      /\ UNCHANGED <<policy, request, asked, trying, link, far, left, statuses, pipes>>
  BY DEF Egress!Validate, Egress!ValidateException, Egress!ValidateLiteral,
         Egress!ValidateName, Egress!AfterLocalName, Egress!Accept,
         Egress!Refuse
<1>2. step = "validate"
  BY DEF Egress!Validate
<1>3. Egress!TypeOK'
  BY <1>1 DEF Egress!EgressInv, Egress!EgressSound, Egress!TypeOK
<1>4. Egress!EgressSound'
  BY <1>1, <1>2, <1>3
  DEF Egress!EgressInv, Egress!EgressSound, Egress!NotYetConnected
<1>5. (Egress!AnsweredOnce /\ Egress!NotYetAnswered)'
  BY <1>1, <1>2 DEF Egress!EgressInv, Egress!AnsweredOnce, Egress!NotYetAnswered
<1>6. Egress!SettledBySteps'
  BY DEF Egress!EgressInv, Egress!SettledBySteps, Egress!Validate,
         Egress!ValidateException, Egress!ValidateLiteral, Egress!ValidateName,
         Egress!AfterLocalName, Egress!Accept, Egress!Refuse
<1>7. ASSUME NEW a \in ips' PROVE Egress!Acceptable(a)'
  BY DEF Egress!EgressInv, Egress!SettledBySteps, Egress!AddressesAcceptable,
         Egress!Validate, Egress!Exceptional, Egress!ValidateException,
         Egress!ValidateLiteral, Egress!ValidateName, Egress!Accept,
         Egress!Refuse
<1>8. Egress!NotYetConnected'
  BY <1>1, <1>2 DEF Egress!NotYetConnected, Egress!EgressInv
<1>. QED
  BY <1>4, <1>5, <1>6, <1>7, <1>8
  DEF Egress!EgressInv, Egress!AddressesAcceptable

(* An answer of a resolver leads to the opening, to a refusal or to the    *)
(* resolver of the target; what it returns is acceptable for the request.  *)
LEMMA ResolvedKeeps ==
    ASSUME Egress!EgressInv, NEW addresses \in SUBSET Egress!Addresses,
           step \in {"ask_embedding", "ask_docker", "ask_trusted", "ask_local", "ask_target"},
           UNCHANGED <<policy, request, trying, link, far, left, statuses, pipes>>,
           \/ ips' = addresses /\ (\A a \in addresses : Egress!Acceptable(a)) /\ step' = "open"
           \/ ips' = ips /\ step' = "refuse"
           \/ ips' = ips /\ step' = "open" /\ policy.upstream # "none"
           \/ ips' = ips /\ step' = "ask_target" /\ policy.upstream = "none",
           \/ asked' = asked \cup {"system"} /\ (request.role # "none" \/ step = "ask_local")
           \/ asked' = asked \cup {"system"} /\ ~policy.vpn /\ policy.upstream = "none"
           \/ asked' = asked \cup {"provider"} /\ policy.vpn /\ policy.upstream = "none"
    PROVE  Egress!EgressInv'
<1>0. /\ ips' \in {ips, addresses}
      /\ asked' \in {asked \cup {"system"}, asked \cup {"provider"}}
      /\ step' \in {"open", "refuse", "ask_target"}
  OBVIOUS
<1>1. Egress!TypeOK'
  BY <1>0 DEF Egress!EgressInv, Egress!EgressSound, Egress!TypeOK
<1>2. far' = "none" /\ statuses' = 0
  BY DEF Egress!EgressInv, Egress!NotYetConnected, Egress!NotYetAnswered
<1>3. Egress!EgressSound'
  BY <1>1, <1>2 DEF Egress!EgressInv, Egress!EgressSound, Egress!SettledBySteps
<1>4. (Egress!AnsweredOnce /\ Egress!NotYetAnswered)'
  BY <1>2 DEF Egress!AnsweredOnce, Egress!NotYetAnswered
<1>5. (Egress!SettledBySteps /\ Egress!AddressesAcceptable)'
  BY DEF Egress!EgressInv, Egress!SettledBySteps, Egress!AddressesAcceptable
<1>6. Egress!NotYetConnected'
  BY <1>2 DEF Egress!NotYetConnected
<1>. QED
  BY <1>3, <1>4, <1>5, <1>6 DEF Egress!EgressInv

LEMMA ResolveEmbeddingKeeps ==
    ASSUME Egress!EgressInv, NEW addresses \in SUBSET Egress!Addresses,
           Egress!ResolveEmbedding(addresses)
    PROVE  Egress!EgressInv'
<1>1. /\ step \in {"ask_embedding", "ask_docker", "ask_trusted", "ask_local", "ask_target"}
      /\ UNCHANGED <<policy, request, trying, link, far, left, statuses, pipes>>
  BY DEF Egress!ResolveEmbedding, Egress!AskSystem
<1>2. \/ ips' = addresses /\ (\A a \in addresses : Egress!Acceptable(a)) /\ step' = "open"
      \/ ips' = ips /\ step' = "refuse"
      \/ ips' = ips /\ step' = "open" /\ policy.upstream # "none"
      \/ ips' = ips /\ step' = "ask_target" /\ policy.upstream = "none"
  BY DEF Egress!EgressInv, Egress!SettledBySteps, Egress!ResolveEmbedding,
         Egress!Accept, Egress!Refuse
<1>3. \/ asked' = asked \cup {"system"} /\ (request.role # "none" \/ step = "ask_local")
      \/ asked' = asked \cup {"system"} /\ ~policy.vpn /\ policy.upstream = "none"
      \/ asked' = asked \cup {"provider"} /\ policy.vpn /\ policy.upstream = "none"
  BY DEF Egress!EgressInv, Egress!SettledBySteps, Egress!ResolveEmbedding,
         Egress!AskSystem
<1>. QED
  BY <1>1, <1>2, <1>3, ResolvedKeeps

LEMMA ResolveDockerKeeps ==
    ASSUME Egress!EgressInv, NEW addresses \in SUBSET Egress!Addresses,
           Egress!ResolveDocker(addresses)
    PROVE  Egress!EgressInv'
<1>1. /\ step \in {"ask_embedding", "ask_docker", "ask_trusted", "ask_local", "ask_target"}
      /\ UNCHANGED <<policy, request, trying, link, far, left, statuses, pipes>>
  BY DEF Egress!ResolveDocker, Egress!AskSystem
<1>2. \/ ips' = addresses /\ (\A a \in addresses : Egress!Acceptable(a)) /\ step' = "open"
      \/ ips' = ips /\ step' = "refuse"
      \/ ips' = ips /\ step' = "open" /\ policy.upstream # "none"
      \/ ips' = ips /\ step' = "ask_target" /\ policy.upstream = "none"
  BY DEF Egress!EgressInv, Egress!SettledBySteps, Egress!ResolveDocker,
         Egress!Accept, Egress!Refuse
<1>3. \/ asked' = asked \cup {"system"} /\ (request.role # "none" \/ step = "ask_local")
      \/ asked' = asked \cup {"system"} /\ ~policy.vpn /\ policy.upstream = "none"
      \/ asked' = asked \cup {"provider"} /\ policy.vpn /\ policy.upstream = "none"
  BY DEF Egress!EgressInv, Egress!SettledBySteps, Egress!ResolveDocker,
         Egress!AskSystem
<1>. QED
  BY <1>1, <1>2, <1>3, ResolvedKeeps

LEMMA ResolveTrustedKeeps ==
    ASSUME Egress!EgressInv, NEW addresses \in SUBSET Egress!Addresses,
           Egress!ResolveTrusted(addresses)
    PROVE  Egress!EgressInv'
<1>1. /\ step \in {"ask_embedding", "ask_docker", "ask_trusted", "ask_local", "ask_target"}
      /\ UNCHANGED <<policy, request, trying, link, far, left, statuses, pipes>>
  BY DEF Egress!ResolveTrusted, Egress!AskSystem
<1>2. \/ ips' = addresses /\ (\A a \in addresses : Egress!Acceptable(a)) /\ step' = "open"
      \/ ips' = ips /\ step' = "refuse"
      \/ ips' = ips /\ step' = "open" /\ policy.upstream # "none"
      \/ ips' = ips /\ step' = "ask_target" /\ policy.upstream = "none"
  BY DEF Egress!EgressInv, Egress!SettledBySteps, Egress!ResolveTrusted,
         Egress!Accept, Egress!Refuse
<1>3. \/ asked' = asked \cup {"system"} /\ (request.role # "none" \/ step = "ask_local")
      \/ asked' = asked \cup {"system"} /\ ~policy.vpn /\ policy.upstream = "none"
      \/ asked' = asked \cup {"provider"} /\ policy.vpn /\ policy.upstream = "none"
  BY DEF Egress!EgressInv, Egress!SettledBySteps, Egress!ResolveTrusted,
         Egress!AskSystem
<1>. QED
  BY <1>1, <1>2, <1>3, ResolvedKeeps

LEMMA ResolveLocalKeeps ==
    ASSUME Egress!EgressInv, NEW addresses \in SUBSET Egress!Addresses,
           Egress!ResolveLocal(addresses)
    PROVE  Egress!EgressInv'
<1>1. /\ step \in {"ask_embedding", "ask_docker", "ask_trusted", "ask_local", "ask_target"}
      /\ UNCHANGED <<policy, request, trying, link, far, left, statuses, pipes>>
  BY DEF Egress!ResolveLocal, Egress!AskSystem
<1>2. \/ ips' = addresses /\ (\A a \in addresses : Egress!Acceptable(a)) /\ step' = "open"
      \/ ips' = ips /\ step' = "refuse"
      \/ ips' = ips /\ step' = "open" /\ policy.upstream # "none"
      \/ ips' = ips /\ step' = "ask_target" /\ policy.upstream = "none"
  BY DEF Egress!EgressInv, Egress!SettledBySteps, Egress!ResolveLocal,
         Egress!Accept, Egress!Refuse, Egress!AfterLocalName
<1>3. \/ asked' = asked \cup {"system"} /\ (request.role # "none" \/ step = "ask_local")
      \/ asked' = asked \cup {"system"} /\ ~policy.vpn /\ policy.upstream = "none"
      \/ asked' = asked \cup {"provider"} /\ policy.vpn /\ policy.upstream = "none"
  BY DEF Egress!ResolveLocal, Egress!AskSystem
<1>. QED
  BY <1>1, <1>2, <1>3, ResolvedKeeps

LEMMA ResolveTargetKeeps ==
    ASSUME Egress!EgressInv, NEW addresses \in SUBSET Egress!Addresses,
           Egress!ResolveTarget(addresses)
    PROVE  Egress!EgressInv'
<1>1. /\ step \in {"ask_embedding", "ask_docker", "ask_trusted", "ask_local", "ask_target"}
      /\ UNCHANGED <<policy, request, trying, link, far, left, statuses, pipes>>
  BY DEF Egress!ResolveTarget, Egress!AskSystem
<1>2. \/ ips' = addresses /\ (\A a \in addresses : Egress!Acceptable(a)) /\ step' = "open"
      \/ ips' = ips /\ step' = "refuse"
      \/ ips' = ips /\ step' = "open" /\ policy.upstream # "none"
      \/ ips' = ips /\ step' = "ask_target" /\ policy.upstream = "none"
  BY DEF Egress!ResolveTarget, Egress!Accept, Egress!Refuse
<1>3. \/ asked' = asked \cup {"system"} /\ (request.role # "none" \/ step = "ask_local")
      \/ asked' = asked \cup {"system"} /\ ~policy.vpn /\ policy.upstream = "none"
      \/ asked' = asked \cup {"provider"} /\ policy.vpn /\ policy.upstream = "none"
  BY DEF Egress!EgressInv, Egress!SettledBySteps, Egress!ResolveTarget,
         Egress!AskSystem
<1>. QED
  BY <1>1, <1>2, <1>3, ResolvedKeeps

LEMMA OpenKeeps ==
    ASSUME Egress!EgressInv, Egress!Open
    PROVE  Egress!EgressInv'
<1>1. Egress!TypeOK'
  BY DEF Egress!EgressInv, Egress!EgressSound, Egress!TypeOK, Egress!Open,
         Egress!PlainHttpAllowed
<1>2. Egress!EgressSound'
  BY <1>1 DEF Egress!EgressInv, Egress!EgressSound, Egress!Open
<1>3. (Egress!AnsweredOnce /\ Egress!NotYetAnswered)'
  BY DEF Egress!EgressInv, Egress!AnsweredOnce, Egress!NotYetAnswered,
         Egress!Open
<1>4. (Egress!SettledBySteps /\ Egress!AddressesAcceptable)'
  BY DEF Egress!EgressInv, Egress!SettledBySteps, Egress!AddressesAcceptable,
         Egress!Open
<1>5. Egress!NotYetConnected'
  BY DEF Egress!EgressInv, Egress!NotYetConnected, Egress!Open
<1>. QED
  BY <1>2, <1>3, <1>4, <1>5 DEF Egress!EgressInv

LEMMA DialKeeps ==
    ASSUME Egress!EgressInv, NEW a \in Egress!Addresses, Egress!Dial(a)
    PROVE  Egress!EgressInv'
<1>1. Egress!TypeOK'
  BY DEF Egress!EgressInv, Egress!EgressSound, Egress!TypeOK, Egress!Dial,
         Egress!Connected
<1>2. Egress!EgressSound'
  BY <1>1
  DEF Egress!EgressInv, Egress!EgressSound, Egress!AddressesAcceptable,
      Egress!NotYetConnected, Egress!Dial, Egress!Connected
<1>3. (Egress!AnsweredOnce /\ Egress!NotYetAnswered)'
  BY DEF Egress!EgressInv, Egress!AnsweredOnce, Egress!NotYetAnswered,
         Egress!Dial
<1>4. (Egress!SettledBySteps /\ Egress!AddressesAcceptable)'
  BY DEF Egress!EgressInv, Egress!SettledBySteps, Egress!AddressesAcceptable,
         Egress!Dial
<1>5. Egress!NotYetConnected'
  BY DEF Egress!EgressInv, Egress!NotYetConnected, Egress!Dial
<1>. QED
  BY <1>2, <1>3, <1>4, <1>5 DEF Egress!EgressInv

LEMMA ResolveEndpointKeeps ==
    ASSUME Egress!EgressInv, Egress!ResolveEndpoint
    PROVE  Egress!EgressInv'
<1>1. Egress!TypeOK'
  BY DEF Egress!EgressInv, Egress!EgressSound, Egress!TypeOK,
         Egress!ResolveEndpoint
<1>2. Egress!EgressSound'
  BY <1>1 DEF Egress!EgressInv, Egress!EgressSound, Egress!ResolveEndpoint
<1>3. (Egress!AnsweredOnce /\ Egress!NotYetAnswered)'
  BY DEF Egress!EgressInv, Egress!AnsweredOnce, Egress!NotYetAnswered,
         Egress!ResolveEndpoint
<1>4. (Egress!SettledBySteps /\ Egress!AddressesAcceptable)'
  BY DEF Egress!EgressInv, Egress!SettledBySteps, Egress!AddressesAcceptable,
         Egress!ResolveEndpoint
<1>5. Egress!NotYetConnected'
  BY DEF Egress!EgressInv, Egress!NotYetConnected, Egress!ResolveEndpoint
<1>. QED
  BY <1>2, <1>3, <1>4, <1>5 DEF Egress!EgressInv

LEMMA DialProxyKeeps ==
    ASSUME Egress!EgressInv, Egress!DialProxy
    PROVE  Egress!EgressInv'
<1>1. Egress!TypeOK'
  BY DEF Egress!EgressInv, Egress!EgressSound, Egress!TypeOK, Egress!DialProxy,
         Egress!Connected
<1>2. Egress!EgressSound'
  BY <1>1
  DEF Egress!EgressInv, Egress!EgressSound, Egress!DialProxy, Egress!Connected
<1>3. (Egress!AnsweredOnce /\ Egress!NotYetAnswered)'
  BY DEF Egress!EgressInv, Egress!AnsweredOnce, Egress!NotYetAnswered,
         Egress!DialProxy
<1>4. (Egress!SettledBySteps /\ Egress!AddressesAcceptable)'
  BY DEF Egress!EgressInv, Egress!SettledBySteps, Egress!AddressesAcceptable,
         Egress!DialProxy
<1>5. Egress!NotYetConnected'
  BY DEF Egress!NotYetConnected, Egress!DialProxy
<1>. QED
  BY <1>2, <1>3, <1>4, <1>5 DEF Egress!EgressInv

LEMMA SocksReplyKeeps ==
    ASSUME Egress!EgressInv, Egress!SocksReply
    PROVE  Egress!EgressInv'
<1>1. Egress!TypeOK'
  BY DEF Egress!EgressInv, Egress!EgressSound, Egress!TypeOK, Egress!SocksReply
<1>2. Egress!EgressSound'
  BY <1>1 DEF Egress!EgressInv, Egress!EgressSound, Egress!SocksReply
<1>3. (Egress!AnsweredOnce /\ Egress!NotYetAnswered)'
  BY DEF Egress!EgressInv, Egress!AnsweredOnce, Egress!NotYetAnswered,
         Egress!SocksReply
<1>4. (Egress!SettledBySteps /\ Egress!AddressesAcceptable)'
  BY DEF Egress!EgressInv, Egress!SettledBySteps, Egress!AddressesAcceptable,
         Egress!SocksReply
<1>5. Egress!NotYetConnected'
  BY DEF Egress!NotYetConnected, Egress!SocksReply
<1>. QED
  BY <1>2, <1>3, <1>4, <1>5 DEF Egress!EgressInv

LEMMA SocksTimeoutKeeps ==
    ASSUME Egress!EgressInv, Egress!SocksTimeout
    PROVE  Egress!EgressInv'
<1>1. Egress!TypeOK'
  BY DEF Egress!EgressInv, Egress!EgressSound, Egress!TypeOK,
         Egress!SocksTimeout
<1>2. Egress!EgressSound'
  BY <1>1 DEF Egress!EgressInv, Egress!EgressSound, Egress!SocksTimeout
<1>3. (Egress!AnsweredOnce /\ Egress!NotYetAnswered)'
  BY DEF Egress!EgressInv, Egress!AnsweredOnce, Egress!NotYetAnswered,
         Egress!SocksTimeout
<1>4. (Egress!SettledBySteps /\ Egress!AddressesAcceptable)'
  BY DEF Egress!EgressInv, Egress!SettledBySteps, Egress!AddressesAcceptable,
         Egress!SocksTimeout
<1>5. Egress!NotYetConnected'
  BY DEF Egress!NotYetConnected, Egress!SocksTimeout
<1>. QED
  BY <1>2, <1>3, <1>4, <1>5 DEF Egress!EgressInv

LEMMA ConnectReplyKeeps ==
    ASSUME Egress!EgressInv, Egress!ConnectReply
    PROVE  Egress!EgressInv'
<1>1. Egress!TypeOK'
  BY DEF Egress!EgressInv, Egress!EgressSound, Egress!TypeOK,
         Egress!ConnectReply
<1>2. Egress!EgressSound'
  BY <1>1 DEF Egress!EgressInv, Egress!EgressSound, Egress!ConnectReply
<1>3. (Egress!AnsweredOnce /\ Egress!NotYetAnswered)'
  BY DEF Egress!EgressInv, Egress!AnsweredOnce, Egress!NotYetAnswered,
         Egress!ConnectReply
<1>4. (Egress!SettledBySteps /\ Egress!AddressesAcceptable)'
  BY DEF Egress!EgressInv, Egress!SettledBySteps, Egress!AddressesAcceptable,
         Egress!ConnectReply
<1>5. Egress!NotYetConnected'
  BY DEF Egress!NotYetConnected, Egress!ConnectReply
<1>. QED
  BY <1>2, <1>3, <1>4, <1>5 DEF Egress!EgressInv

LEMMA EstablishKeeps ==
    ASSUME Egress!EgressInv, Egress!Establish
    PROVE  Egress!EgressInv'
<1>0. /\ step' \in {"relay", "done", "fail", "body", "chunks"}
      /\ pipes' \in {pipes, {"up", "down"}, {"down"}, {}}
      /\ left' \in {left, 0, 2}
      /\ statuses' \in {statuses, 1}
      /\ UNCHANGED <<policy, request, ips, asked, trying, link, far>>
  BY DEF Egress!Establish, Egress!EgressInv, Egress!NotYetAnswered
<1>1. Egress!TypeOK'
  BY <1>0 DEF Egress!EgressInv, Egress!EgressSound, Egress!TypeOK
<1>2. Egress!EgressSound'
  BY <1>1 DEF Egress!EgressInv, Egress!EgressSound, Egress!Establish
<1>3. (Egress!AnsweredOnce /\ Egress!NotYetAnswered)'
  BY DEF Egress!EgressInv, Egress!AnsweredOnce, Egress!NotYetAnswered,
         Egress!Establish
<1>4. (Egress!SettledBySteps /\ Egress!AddressesAcceptable)'
  BY DEF Egress!EgressInv, Egress!SettledBySteps, Egress!AddressesAcceptable,
         Egress!Establish
<1>5. Egress!NotYetConnected'
  BY DEF Egress!NotYetConnected, Egress!Establish
<1>. QED
  BY <1>2, <1>3, <1>4, <1>5 DEF Egress!EgressInv

LEMMA ForwardBodyKeeps ==
    ASSUME Egress!EgressInv, Egress!ForwardBody
    PROVE  Egress!EgressInv'
<1>0. /\ step' \in {step, "relay", "trailers"}
      /\ pipes' \in {pipes, {"down"}}
      /\ left' \in {left} \cup 0..1
      /\ UNCHANGED <<policy, request, ips, asked, trying, link, far, statuses>>
  BY DEF Egress!ForwardBody, Egress!EgressInv, Egress!EgressSound, Egress!TypeOK
<1>1. Egress!TypeOK'
  BY <1>0 DEF Egress!EgressInv, Egress!EgressSound, Egress!TypeOK
<1>2. Egress!EgressSound'
  BY <1>1 DEF Egress!EgressInv, Egress!EgressSound, Egress!ForwardBody
<1>3. (Egress!AnsweredOnce /\ Egress!NotYetAnswered)'
  BY DEF Egress!EgressInv, Egress!AnsweredOnce, Egress!NotYetAnswered,
         Egress!ForwardBody
<1>4. (Egress!SettledBySteps /\ Egress!AddressesAcceptable)'
  BY DEF Egress!EgressInv, Egress!SettledBySteps, Egress!AddressesAcceptable,
         Egress!ForwardBody
<1>5. Egress!NotYetConnected'
  BY DEF Egress!NotYetConnected, Egress!ForwardBody
<1>. QED
  BY <1>2, <1>3, <1>4, <1>5 DEF Egress!EgressInv

LEMMA ForwardTrailersKeeps ==
    ASSUME Egress!EgressInv, Egress!ForwardTrailers
    PROVE  Egress!EgressInv'
<1>1. Egress!TypeOK'
  BY DEF Egress!EgressInv, Egress!EgressSound, Egress!TypeOK,
         Egress!ForwardTrailers
<1>2. Egress!EgressSound'
  BY <1>1 DEF Egress!EgressInv, Egress!EgressSound, Egress!ForwardTrailers
<1>3. (Egress!AnsweredOnce /\ Egress!NotYetAnswered)'
  BY DEF Egress!EgressInv, Egress!AnsweredOnce, Egress!NotYetAnswered,
         Egress!ForwardTrailers
<1>4. (Egress!SettledBySteps /\ Egress!AddressesAcceptable)'
  BY DEF Egress!EgressInv, Egress!SettledBySteps, Egress!AddressesAcceptable,
         Egress!ForwardTrailers
<1>5. Egress!NotYetConnected'
  BY DEF Egress!NotYetConnected, Egress!ForwardTrailers
<1>. QED
  BY <1>2, <1>3, <1>4, <1>5 DEF Egress!EgressInv

LEMMA BodyFailsKeeps ==
    ASSUME Egress!EgressInv, Egress!BodyFails
    PROVE  Egress!EgressInv'
<1>1. Egress!TypeOK'
  BY DEF Egress!EgressInv, Egress!EgressSound, Egress!TypeOK, Egress!BodyFails
<1>2. Egress!EgressSound'
  BY <1>1 DEF Egress!EgressInv, Egress!EgressSound, Egress!BodyFails
<1>3. (Egress!AnsweredOnce /\ Egress!NotYetAnswered)'
  BY DEF Egress!EgressInv, Egress!AnsweredOnce, Egress!NotYetAnswered,
         Egress!BodyFails
<1>4. (Egress!SettledBySteps /\ Egress!AddressesAcceptable)'
  BY DEF Egress!EgressInv, Egress!SettledBySteps, Egress!AddressesAcceptable,
         Egress!BodyFails
<1>5. Egress!NotYetConnected'
  BY DEF Egress!NotYetConnected, Egress!BodyFails
<1>. QED
  BY <1>2, <1>3, <1>4, <1>5 DEF Egress!EgressInv

LEMMA PipeEndsKeeps ==
    ASSUME Egress!EgressInv, NEW d \in {"up", "down"}, Egress!PipeEnds(d)
    PROVE  Egress!EgressInv'
<1>1. Egress!TypeOK'
  BY DEF Egress!EgressInv, Egress!EgressSound, Egress!TypeOK, Egress!PipeEnds
<1>2. Egress!EgressSound'
  BY <1>1 DEF Egress!EgressInv, Egress!EgressSound, Egress!PipeEnds
<1>3. (Egress!AnsweredOnce /\ Egress!NotYetAnswered)'
  BY DEF Egress!EgressInv, Egress!EgressSound, Egress!TypeOK,
         Egress!AnsweredOnce, Egress!NotYetAnswered, Egress!PipeEnds
<1>4. (Egress!SettledBySteps /\ Egress!AddressesAcceptable)'
  BY DEF Egress!EgressInv, Egress!SettledBySteps, Egress!AddressesAcceptable,
         Egress!PipeEnds
<1>5. Egress!NotYetConnected'
  BY DEF Egress!NotYetConnected, Egress!PipeEnds
<1>. QED
  BY <1>2, <1>3, <1>4, <1>5 DEF Egress!EgressInv

LEMMA AnswerKeeps ==
    ASSUME Egress!EgressInv, Egress!Answer
    PROVE  Egress!EgressInv'
<1>1. Egress!TypeOK'
  BY DEF Egress!EgressInv, Egress!EgressSound, Egress!TypeOK,
         Egress!NotYetAnswered, Egress!Answer
<1>2. Egress!EgressSound'
  BY <1>1 DEF Egress!EgressInv, Egress!EgressSound, Egress!Answer
<1>3. (Egress!AnsweredOnce /\ Egress!NotYetAnswered)'
  BY DEF Egress!EgressInv, Egress!AnsweredOnce, Egress!NotYetAnswered,
         Egress!Answer
<1>4. (Egress!SettledBySteps /\ Egress!AddressesAcceptable)'
  BY DEF Egress!EgressInv, Egress!SettledBySteps, Egress!AddressesAcceptable,
         Egress!Answer
<1>5. Egress!NotYetConnected'
  BY DEF Egress!NotYetConnected, Egress!Answer
<1>. QED
  BY <1>2, <1>3, <1>4, <1>5 DEF Egress!EgressInv

LEMMA EgressStep ==
    Egress!EgressInv /\ [Egress!Next]_(Egress!vars) => Egress!EgressInv'
<1>. SUFFICES ASSUME Egress!EgressInv, [Egress!Next]_(Egress!vars) PROVE Egress!EgressInv'
  OBVIOUS
<1>1. CASE Egress!HandlerStep
  BY <1>1, AdmitClientKeeps, ReadRequestKeeps, ValidateKeeps,
     ResolveEmbeddingKeeps, ResolveDockerKeeps, ResolveTrustedKeeps,
     ResolveLocalKeeps, ResolveTargetKeeps, OpenKeeps, DialKeeps,
     ResolveEndpointKeeps, DialProxyKeeps, SocksTimeoutKeeps, EstablishKeeps,
     AnswerKeeps
  DEF Egress!HandlerStep, Egress!Resolve
<1>2. CASE Egress!PeerStep
  BY <1>2, SocksReplyKeeps, ConnectReplyKeeps, ForwardBodyKeeps,
     ForwardTrailersKeeps, BodyFailsKeeps, PipeEndsKeeps
  DEF Egress!PeerStep
<1>3. CASE UNCHANGED Egress!vars
  <2>1. UNCHANGED <<policy, request, step, ips, asked, trying, link, far, left, statuses, pipes>>
    BY <1>3 DEF Egress!vars
  <2>. QED
    BY <2>1
    DEF Egress!EgressInv, Egress!EgressSound, Egress!TypeOK,
        Egress!AnsweredOnce, Egress!SettledBySteps, Egress!AddressesAcceptable,
        Egress!NotYetConnected, Egress!NotYetAnswered
<1>. QED
  BY <1>1, <1>2, <1>3 DEF Egress!Next, Egress!Finished

HIDE DEF
    Egress!Policies, Egress!Requests, Egress!Hosts, Egress!Literals,
    Egress!Names, Egress!Addresses, Egress!Steps, Egress!connection,
    Egress!relaying, Egress!Goto, Egress!Acceptable, Egress!LanRoute,
    Egress!DockerHost, Egress!AllowedDockerPort, Egress!LocalEmbedding,
    Egress!DirectException, Egress!AllPrivate

-----------------------------------------------------------------------------
(***************************************************************************)
(* The host process manager: one lemma per action of HostProcess.          *)
(***************************************************************************)
USE PidsAssumption, TokensAssumption DEF
    Host!Configs, Host!Idle, Host!Foreign, Host!Processes, Host!Ours,
    Host!PortTaken, Host!NoRecord, Host!Malformed, Host!IsRecord, Host!Owned,
    Host!Goto, Host!Done, Host!Unchanging, Host!Child, Host!Gone

LEMMA HostInit == Host!Init => Host!HostInv
<1>. SUFFICES ASSUME Host!Init PROVE Host!HostInv
  OBVIOUS
<1>1. Host!Ours = {}
  BY DEF Host!Init
<1>2. Host!TypeOK
  <2>1. record \in [pid : Pids \cup {NONE}, token : 0..MaxTokens,
                    config : Host!Configs \cup {NONE, "malformed"}]
    BY DEF Host!Init
  <2>2. Host!Foreign \in [token : 0..MaxTokens, config : Host!Configs \cup {NONE}, serves : BOOLEAN]
    OBVIOUS
  <2>3. proc \in [Pids -> [token : 0..MaxTokens, config : Host!Configs \cup {NONE},
                           serves : BOOLEAN] \cup {NONE}]
    BY <2>2 DEF Host!Init
  <2>. QED
    BY <2>1, <2>3 DEF Host!Init, Host!TypeOK
<1>3. Host!SignalsOnlyOurs /\ Host!RecordNamesALaunch /\ Host!CommandHolds
  BY DEF Host!Init, Host!SignalsOnlyOurs, Host!CommandHolds,
         Host!RecordNamesALaunch
<1>4. Host!RunningIsRecorded /\ Host!RecordedOrInHand
  BY <1>1 DEF Host!RunningIsRecorded, Host!RecordedOrInHand
<1>. QED
  BY <1>2, <1>3, <1>4 DEF Host!HostInv, Host!HostSound

LEMMA BeginStartKeeps ==
    ASSUME Host!HostInv, Host!BeginStart
    PROVE  Host!HostInv'
<1>1. Host!TypeOK'
  BY DEF Host!HostInv, Host!HostSound, Host!TypeOK, Host!BeginStart
<1>2. Host!SignalsOnlyOurs'
  BY DEF Host!HostInv, Host!HostSound, Host!SignalsOnlyOurs, Host!BeginStart
<1>3. (Host!CommandHolds /\ Host!RecordNamesALaunch)'
  BY DEF Host!HostInv, Host!CommandHolds, Host!RecordNamesALaunch,
         Host!BeginStart
<1>4. Host!RecordedOrInHand'
  BY DEF Host!HostInv, Host!RecordedOrInHand, Host!BeginStart
<1>5. Host!RunningIsRecorded'
  BY <1>1, <1>4 DEF Host!RecordedOrInHand, Host!RunningIsRecorded
<1>. QED
  BY <1>1, <1>2, <1>3, <1>4, <1>5 DEF Host!HostInv, Host!HostSound

LEMMA StartRefusesKeeps ==
    ASSUME Host!HostInv, Host!StartRefuses
    PROVE  Host!HostInv'
<1>1. Host!TypeOK'
  BY DEF Host!HostInv, Host!HostSound, Host!TypeOK, Host!StartRefuses
<1>2. Host!SignalsOnlyOurs'
  BY DEF Host!HostInv, Host!HostSound, Host!SignalsOnlyOurs, Host!StartRefuses
<1>3. (Host!CommandHolds /\ Host!RecordNamesALaunch)'
  BY DEF Host!HostInv, Host!CommandHolds, Host!RecordNamesALaunch,
         Host!StartRefuses
<1>4. Host!RecordedOrInHand'
  BY DEF Host!HostInv, Host!RecordedOrInHand, Host!StartRefuses
<1>5. Host!RunningIsRecorded'
  BY <1>1, <1>4 DEF Host!RecordedOrInHand, Host!RunningIsRecorded
<1>. QED
  BY <1>1, <1>2, <1>3, <1>4, <1>5 DEF Host!HostInv, Host!HostSound

LEMMA StartRestartsKeeps ==
    ASSUME Host!HostInv, Host!StartRestarts
    PROVE  Host!HostInv'
<1>1. Host!TypeOK'
  BY DEF Host!HostInv, Host!HostSound, Host!TypeOK, Host!StartRestarts
<1>2. Host!SignalsOnlyOurs'
  BY DEF Host!HostInv, Host!HostSound, Host!SignalsOnlyOurs,
         Host!RecordNamesALaunch, Host!StartRestarts
<1>3. (Host!CommandHolds /\ Host!RecordNamesALaunch)'
  BY DEF Host!HostInv, Host!CommandHolds, Host!RecordNamesALaunch,
         Host!StartRestarts
<1>4. Host!RecordedOrInHand'
  BY DEF Host!HostInv, Host!RecordedOrInHand, Host!StartRestarts
<1>5. Host!RunningIsRecorded'
  BY <1>1, <1>4 DEF Host!RecordedOrInHand, Host!RunningIsRecorded
<1>. QED
  BY <1>1, <1>2, <1>3, <1>4, <1>5 DEF Host!HostInv, Host!HostSound

LEMMA StartClearsKeeps ==
    ASSUME Host!HostInv, Host!StartClears
    PROVE  Host!HostInv'
<1>1. Host!TypeOK'
  BY DEF Host!HostInv, Host!HostSound, Host!TypeOK, Host!StartClears
<1>2. Host!SignalsOnlyOurs'
  BY DEF Host!HostInv, Host!HostSound, Host!SignalsOnlyOurs, Host!StartClears
<1>3. (Host!CommandHolds /\ Host!RecordNamesALaunch)'
  BY DEF Host!CommandHolds, Host!RecordNamesALaunch, Host!StartClears
<1>4. Host!RecordedOrInHand'
  BY DEF Host!HostInv, Host!RecordedOrInHand, Host!StartClears
<1>5. Host!RunningIsRecorded'
  BY <1>1, <1>4 DEF Host!RecordedOrInHand, Host!RunningIsRecorded
<1>. QED
  BY <1>1, <1>2, <1>3, <1>4, <1>5 DEF Host!HostInv, Host!HostSound

LEMMA LaunchKeeps ==
    ASSUME Host!HostInv, Host!Launch
    PROVE  Host!HostInv'
<1>1. Host!TypeOK'
  <2>1. launched' \in 1..MaxTokens
    BY DEF Host!HostInv, Host!HostSound, Host!TypeOK, Host!Launch
  <2>2. PICK i \in Pids :
            /\ proc' = [proc EXCEPT ![i] =
                   [token |-> launched', config |-> managing.config, serves |-> FALSE]]
            /\ managing' = [managing EXCEPT !.step = "write", !.pid = i]
    BY DEF Host!Launch
  <2>3. [token |-> launched', config |-> managing.config, serves |-> FALSE]
            \in [token : 0..MaxTokens, config : Host!Configs \cup {NONE}, serves : BOOLEAN]
    BY <2>1 DEF Host!HostInv, Host!HostSound, Host!TypeOK
  <2>4. managing' \in [step : {"idle", "start", "launch", "write", "wait", "stopping",
                              "terminating"},
                      config : Host!Configs \cup {NONE}, pid : Pids \cup {NONE}]
    BY <2>2 DEF Host!HostInv, Host!HostSound, Host!TypeOK
  <2>5. UNCHANGED <<record, signals, strays>>
    BY DEF Host!Launch
  <2>. QED
    BY <2>1, <2>2, <2>3, <2>4, <2>5
    DEF Host!HostInv, Host!HostSound, Host!TypeOK
<1>2. Host!SignalsOnlyOurs'
  BY DEF Host!HostInv, Host!HostSound, Host!SignalsOnlyOurs, Host!Launch
<1>3. (Host!CommandHolds /\ Host!RecordNamesALaunch)'
  BY DEF Host!HostInv, Host!HostSound, Host!TypeOK, Host!CommandHolds,
         Host!RecordNamesALaunch, Host!Launch
<1>4. Host!RecordedOrInHand'
  BY DEF Host!HostInv, Host!RecordedOrInHand, Host!Launch
<1>5. Host!RunningIsRecorded'
  BY <1>1, <1>4 DEF Host!RecordedOrInHand, Host!RunningIsRecorded
<1>. QED
  BY <1>1, <1>2, <1>3, <1>4, <1>5 DEF Host!HostInv, Host!HostSound

LEMMA WriteKeeps ==
    ASSUME Host!HostInv, Host!Write
    PROVE  Host!HostInv'
<1>1. Host!TypeOK'
  BY DEF Host!HostInv, Host!HostSound, Host!TypeOK, Host!Write
<1>2. Host!SignalsOnlyOurs'
  BY DEF Host!HostInv, Host!HostSound, Host!SignalsOnlyOurs, Host!Write
<1>3. (Host!CommandHolds /\ Host!RecordNamesALaunch)'
  BY DEF Host!HostInv, Host!CommandHolds, Host!RecordNamesALaunch, Host!Write
<1>4. Host!RecordedOrInHand'
  BY DEF Host!HostInv, Host!CommandHolds, Host!RecordedOrInHand, Host!Write
<1>5. Host!RunningIsRecorded'
  BY <1>1, <1>4 DEF Host!RecordedOrInHand, Host!RunningIsRecorded
<1>. QED
  BY <1>1, <1>2, <1>3, <1>4, <1>5 DEF Host!HostInv, Host!HostSound

LEMMA StartReadyKeeps ==
    ASSUME Host!HostInv, Host!StartReady
    PROVE  Host!HostInv'
<1>1. Host!TypeOK'
  BY DEF Host!HostInv, Host!HostSound, Host!TypeOK, Host!StartReady
<1>2. Host!SignalsOnlyOurs'
  BY DEF Host!HostInv, Host!HostSound, Host!SignalsOnlyOurs, Host!StartReady
<1>3. (Host!CommandHolds /\ Host!RecordNamesALaunch)'
  BY DEF Host!HostInv, Host!CommandHolds, Host!RecordNamesALaunch,
         Host!StartReady
<1>4. Host!RecordedOrInHand'
  BY DEF Host!HostInv, Host!RecordedOrInHand, Host!StartReady
<1>5. Host!RunningIsRecorded'
  BY <1>1, <1>4 DEF Host!RecordedOrInHand, Host!RunningIsRecorded
<1>. QED
  BY <1>1, <1>2, <1>3, <1>4, <1>5 DEF Host!HostInv, Host!HostSound

LEMMA StartExitedKeeps ==
    ASSUME Host!HostInv, Host!StartExited
    PROVE  Host!HostInv'
<1>1. Host!TypeOK'
  BY DEF Host!HostInv, Host!HostSound, Host!TypeOK, Host!StartExited
<1>2. Host!SignalsOnlyOurs'
  BY DEF Host!HostInv, Host!HostSound, Host!SignalsOnlyOurs, Host!StartExited
<1>3. (Host!CommandHolds /\ Host!RecordNamesALaunch)'
  BY DEF Host!CommandHolds, Host!RecordNamesALaunch, Host!StartExited
<1>4. Host!RecordedOrInHand'
  BY DEF Host!HostInv, Host!CommandHolds, Host!RecordedOrInHand,
         Host!StartExited
<1>5. Host!RunningIsRecorded'
  BY <1>1, <1>4 DEF Host!RecordedOrInHand, Host!RunningIsRecorded
<1>. QED
  BY <1>1, <1>2, <1>3, <1>4, <1>5 DEF Host!HostInv, Host!HostSound

LEMMA StartTimesOutKeeps ==
    ASSUME Host!HostInv, Host!StartTimesOut
    PROVE  Host!HostInv'
<1>1. Host!TypeOK'
  BY DEF Host!HostInv, Host!HostSound, Host!TypeOK, Host!StartTimesOut
<1>2. Host!SignalsOnlyOurs'
  BY DEF Host!HostInv, Host!HostSound, Host!SignalsOnlyOurs, Host!CommandHolds,
         Host!StartTimesOut
<1>3. (Host!CommandHolds /\ Host!RecordNamesALaunch)'
  BY DEF Host!HostInv, Host!CommandHolds, Host!RecordNamesALaunch,
         Host!StartTimesOut
<1>4. Host!RecordedOrInHand'
  BY DEF Host!HostInv, Host!RecordedOrInHand, Host!StartTimesOut
<1>5. Host!RunningIsRecorded'
  BY <1>1, <1>4 DEF Host!RecordedOrInHand, Host!RunningIsRecorded
<1>. QED
  BY <1>1, <1>2, <1>3, <1>4, <1>5 DEF Host!HostInv, Host!HostSound

LEMMA StopKeeps ==
    ASSUME Host!HostInv, Host!Stop
    PROVE  Host!HostInv'
<1>1. Host!TypeOK' /\ Host!CommandHolds' /\ Host!RecordNamesALaunch'
  <2>1. CASE Host!Owned(record)
    <3>1. /\ managing' = [Host!Idle EXCEPT !.step = "stopping", !.pid = record.pid]
          /\ signals' = signals \cup {proc[record.pid].token}
          /\ UNCHANGED <<record, proc, launched, strays>>
      BY <2>1 DEF Host!Stop
    <3>2. proc[record.pid].token \in 0..MaxTokens /\ record.pid \in Pids
      BY <2>1 DEF Host!HostInv, Host!HostSound, Host!TypeOK
    <3>3. Host!TypeOK'
      BY <3>1, <3>2 DEF Host!HostInv, Host!HostSound, Host!TypeOK
    <3>. QED
      BY <3>1, <3>3 DEF Host!HostInv, Host!CommandHolds, Host!RecordNamesALaunch
  <2>2. CASE ~Host!Owned(record)
    <3>1. record' = Host!NoRecord /\ UNCHANGED <<managing, signals, proc, launched, strays>>
      BY <2>2 DEF Host!Stop
    <3>2. Host!TypeOK'
      BY <3>1 DEF Host!HostInv, Host!HostSound, Host!TypeOK
    <3>. QED
      BY <3>1, <3>2 DEF Host!Stop, Host!CommandHolds, Host!RecordNamesALaunch
  <2>. QED
    BY <2>1, <2>2
<1>2. Host!SignalsOnlyOurs'
  BY DEF Host!HostInv, Host!HostSound, Host!TypeOK, Host!SignalsOnlyOurs,
         Host!CommandHolds, Host!RecordNamesALaunch, Host!Stop
<1>4. Host!RecordedOrInHand'
  BY DEF Host!HostInv, Host!RecordedOrInHand, Host!Stop
<1>5. Host!RunningIsRecorded'
  BY <1>1, <1>4 DEF Host!RecordedOrInHand, Host!RunningIsRecorded
<1>. QED
  BY <1>1, <1>2, <1>4, <1>5 DEF Host!HostInv, Host!HostSound

LEMMA StoppedKeeps ==
    ASSUME Host!HostInv, Host!Stopped
    PROVE  Host!HostInv'
<1>1. Host!TypeOK'
  BY DEF Host!HostInv, Host!HostSound, Host!TypeOK, Host!Stopped
<1>2. Host!SignalsOnlyOurs'
  BY DEF Host!HostInv, Host!HostSound, Host!SignalsOnlyOurs, Host!Stopped
<1>3. (Host!CommandHolds /\ Host!RecordNamesALaunch)'
  BY DEF Host!HostInv, Host!HostSound, Host!TypeOK, Host!CommandHolds,
         Host!RecordNamesALaunch, Host!Stopped
<1>4. Host!RecordedOrInHand'
  BY DEF Host!HostInv, Host!CommandHolds, Host!RecordedOrInHand, Host!Stopped
<1>5. Host!RunningIsRecorded'
  BY <1>1, <1>4 DEF Host!RecordedOrInHand, Host!RunningIsRecorded
<1>. QED
  BY <1>1, <1>2, <1>3, <1>4, <1>5 DEF Host!HostInv, Host!HostSound

LEMMA StopTimesOutKeeps ==
    ASSUME Host!HostInv, Host!StopTimesOut
    PROVE  Host!HostInv'
<1>1. Host!TypeOK'
  BY DEF Host!HostInv, Host!HostSound, Host!TypeOK, Host!StopTimesOut
<1>2. Host!SignalsOnlyOurs'
  BY DEF Host!HostInv, Host!HostSound, Host!SignalsOnlyOurs, Host!StopTimesOut
<1>3. (Host!CommandHolds /\ Host!RecordNamesALaunch)'
  BY DEF Host!HostInv, Host!CommandHolds, Host!RecordNamesALaunch,
         Host!StopTimesOut
<1>4. Host!RecordedOrInHand'
  BY DEF Host!HostInv, Host!RecordedOrInHand, Host!StopTimesOut
<1>5. Host!RunningIsRecorded'
  BY <1>1, <1>4 DEF Host!RecordedOrInHand, Host!RunningIsRecorded
<1>. QED
  BY <1>1, <1>2, <1>3, <1>4, <1>5 DEF Host!HostInv, Host!HostSound

LEMMA KilledKeeps ==
    ASSUME Host!HostInv, Host!Killed
    PROVE  Host!HostInv'
<1>1. Host!TypeOK'
  BY DEF Host!HostInv, Host!HostSound, Host!TypeOK, Host!CommandHolds,
         Host!Killed
<1>2. Host!SignalsOnlyOurs'
  BY DEF Host!HostInv, Host!HostSound, Host!SignalsOnlyOurs, Host!Killed
<1>3. (Host!CommandHolds /\ Host!RecordNamesALaunch)'
  BY DEF Host!HostInv, Host!CommandHolds, Host!RecordNamesALaunch, Host!Killed
<1>4. Host!RecordedOrInHand'
  BY DEF Host!HostInv, Host!RecordedOrInHand, Host!Killed
<1>5. Host!RunningIsRecorded'
  BY <1>1, <1>4 DEF Host!RecordedOrInHand, Host!RunningIsRecorded
<1>. QED
  BY <1>1, <1>2, <1>3, <1>4, <1>5 DEF Host!HostInv, Host!HostSound

LEMMA ListensKeeps ==
    ASSUME Host!HostInv, NEW i \in Pids, Host!Listens(i)
    PROVE  Host!HostInv'
<1>1. Host!TypeOK'
  BY ZenonT(40)
  DEF Host!HostInv, Host!HostSound, Host!TypeOK, Host!CommandHolds,
      Host!Listens
<1>2. Host!SignalsOnlyOurs'
  BY DEF Host!HostInv, Host!HostSound, Host!SignalsOnlyOurs, Host!Listens
<1>3. (Host!CommandHolds /\ Host!RecordNamesALaunch)'
  BY DEF Host!HostInv, Host!CommandHolds, Host!RecordNamesALaunch, Host!Listens
<1>4. Host!RecordedOrInHand'
  BY DEF Host!HostInv, Host!RecordedOrInHand, Host!Listens
<1>5. Host!RunningIsRecorded'
  BY <1>1, <1>4 DEF Host!RecordedOrInHand, Host!RunningIsRecorded
<1>. QED
  BY <1>1, <1>2, <1>3, <1>4, <1>5 DEF Host!HostInv, Host!HostSound

LEMMA ExitsKeeps ==
    ASSUME Host!HostInv, NEW i \in Pids, Host!Exits(i)
    PROVE  Host!HostInv'
<1>1. Host!TypeOK'
  BY DEF Host!HostInv, Host!HostSound, Host!TypeOK, Host!Exits
<1>2. Host!SignalsOnlyOurs'
  BY DEF Host!HostInv, Host!HostSound, Host!SignalsOnlyOurs, Host!Exits
<1>3. (Host!CommandHolds /\ Host!RecordNamesALaunch)'
  BY DEF Host!HostInv, Host!CommandHolds, Host!RecordNamesALaunch, Host!Exits
<1>4. Host!RecordedOrInHand'
  BY DEF Host!HostInv, Host!RecordedOrInHand, Host!Exits
<1>5. Host!RunningIsRecorded'
  BY <1>1, <1>4 DEF Host!RecordedOrInHand, Host!RunningIsRecorded
<1>. QED
  BY <1>1, <1>2, <1>3, <1>4, <1>5 DEF Host!HostInv, Host!HostSound

LEMMA AppearsKeeps ==
    ASSUME Host!HostInv, NEW i \in Pids, Host!Appears(i)
    PROVE  Host!HostInv'
<1>1. Host!TypeOK'
  BY DEF Host!HostInv, Host!HostSound, Host!TypeOK, Host!Appears
<1>2. Host!SignalsOnlyOurs'
  BY DEF Host!HostInv, Host!HostSound, Host!SignalsOnlyOurs, Host!Appears
<1>3. (Host!CommandHolds /\ Host!RecordNamesALaunch)'
  BY DEF Host!HostInv, Host!CommandHolds, Host!RecordNamesALaunch, Host!Appears
<1>4. Host!RecordedOrInHand'
  BY DEF Host!HostInv, Host!RecordedOrInHand, Host!Appears
<1>5. Host!RunningIsRecorded'
  BY <1>1, <1>4 DEF Host!RecordedOrInHand, Host!RunningIsRecorded
<1>. QED
  BY <1>1, <1>2, <1>3, <1>4, <1>5 DEF Host!HostInv, Host!HostSound

LEMMA HostStep ==
    Host!HostInv /\ [Host!Next]_(Host!hostVars) => Host!HostInv'
<1>. SUFFICES ASSUME Host!HostInv, [Host!Next]_(Host!hostVars) PROVE Host!HostInv'
  OBVIOUS
<1>1. CASE Host!Next
  BY <1>1, BeginStartKeeps, StartRefusesKeeps, StartRestartsKeeps,
     StartClearsKeeps, LaunchKeeps, WriteKeeps, StartReadyKeeps,
     StartExitedKeeps, StartTimesOutKeeps, StopKeeps, StoppedKeeps,
     StopTimesOutKeeps, KilledKeeps, ListensKeeps, ExitsKeeps, AppearsKeeps
  DEF Host!Next
<1>2. CASE UNCHANGED Host!hostVars
  <2>1. UNCHANGED <<record, proc, launched, managing, signals, strays>>
    BY <1>2 DEF Host!hostVars
  <2>. QED
    BY <2>1
    DEF Host!HostInv, Host!HostSound, Host!TypeOK, Host!SignalsOnlyOurs,
        Host!RunningIsRecorded, Host!CommandHolds, Host!RecordNamesALaunch,
        Host!RecordedOrInHand
<1>. QED
  BY <1>1, <1>2

HIDE DEF
    Host!Configs, Host!Idle, Host!Foreign, Host!Processes, Host!Ours,
    Host!PortTaken, Host!NoRecord, Host!Malformed, Host!IsRecord, Host!Owned,
    Host!Goto, Host!Done, Host!Unchanging, Host!Child, Host!Gone

-----------------------------------------------------------------------------
(***************************************************************************)
(* The claim on the shared data: the marker against any number of          *)
(* commands, interrupted anywhere.                                         *)
(***************************************************************************)
LEMMA ClaimInit == NONE \notin Claim!Engines \cup {"empty"} /\ Claim!Init => Claim!ClaimInv
  BY DEF Claim!Init, Claim!ClaimInv, Claim!TypeOK, Claim!ClaimHeld,
         Claim!WriteOwnsEmpty, Claim!StartHolds, Claim!ReleaseIsDown,
         Claim!AdoptsAlone

(* Every variable keeps its type.                                          *)
LEMMA ClaimTypes ==
    ASSUME Claim!TypeOK, [Claim!Next]_(Claim!claimVars) PROVE Claim!TypeOK'
<1> USE DEF Claim!TypeOK
<1>1. ASSUME NEW e \in Claim!Engines, Claim!CommandStep(e) PROVE Claim!TypeOK'
  <2>1. CASE Claim!ReadOwner(e)
      BY <1>1, <2>1 DEF Claim!ReadOwner, Claim!Step
  <2>2. CASE Claim!Inspect(e)
      BY <1>1, <2>2 DEF Claim!Inspect, Claim!Step
  <2>3. CASE Claim!Create(e)
      BY <1>1, <2>3 DEF Claim!Create, Claim!Step
  <2>4. CASE Claim!Write(e)
      BY <1>1, <2>4 DEF Claim!Write, Claim!Step
  <2>5. CASE Claim!Start(e)
      BY <1>1, <2>5 DEF Claim!Start, Claim!Step
  <2>6. CASE Claim!GivesUp(e)
      BY <1>1, <2>6 DEF Claim!GivesUp
  <2>7. CASE Claim!Down(e)
      BY <1>1, <2>7 DEF Claim!Down, Claim!Step
  <2>8. CASE Claim!ReadRelease(e)
      BY <1>1, <2>8 DEF Claim!ReadRelease, Claim!Step
  <2>9. CASE Claim!Unlink(e)
      BY <1>1, <2>9 DEF Claim!Unlink, Claim!Step
  <2>10. CASE Claim!BeginAdopt(e)
      BY <1>1, <2>10 DEF Claim!BeginAdopt, Claim!Step
  <2>11. CASE Claim!AdoptUnclaimed(e)
      BY <1>1, <2>11 DEF Claim!AdoptUnclaimed
  <2>12. CASE Claim!VerifyDown(e)
      BY <1>1, <2>12 DEF Claim!VerifyDown, Claim!Step
  <2>13. CASE Claim!Replace(e)
      BY <1>1, <2>13 DEF Claim!Replace, Claim!Step
  <2>14. CASE Claim!EngineStops(e)
      BY <1>1, <2>14 DEF Claim!EngineStops
  <2>15. CASE Claim!EngineStarts(e)
      BY <1>1, <2>15 DEF Claim!EngineStarts
  <2> QED
      BY <1>1, <2>1, <2>2, <2>3, <2>4, <2>5, <2>6, <2>7, <2>8, <2>9, <2>10,
         <2>11, <2>12, <2>13, <2>14, <2>15
      DEF Claim!CommandStep
<1>2. CASE UNCHANGED Claim!claimVars
    BY <1>2 DEF Claim!claimVars
<1> QED
    BY <1>1, <1>2 DEF Claim!Next

(* What every step keeps: a started stack holds the claim, and a command   *)
(* may rely on what it has read or created.                                *)
LEMMA ClaimKept ==
    ASSUME NONE \notin Claim!Engines \cup {"empty"}, Claim!ClaimInv, [Claim!Next]_(Claim!claimVars)
    PROVE  Claim!ClaimInv'
<1> USE DEF Claim!ClaimInv
<1> DEFINE Others == /\ Claim!ClaimHeld /\ Claim!WriteOwnsEmpty /\ Claim!StartHolds
                     /\ Claim!ReleaseIsDown /\ Claim!AdoptsAlone
<1>1. Claim!TypeOK'
    BY ClaimTypes
<1>2. "empty" \notin Claim!Engines
    BY DEF Claim!Engines
<1> USE DEF Claim!TypeOK, Claim!ClaimHeld, Claim!WriteOwnsEmpty, Claim!StartHolds, Claim!ReleaseIsDown, Claim!AdoptsAlone
<1>3. ASSUME NEW e \in Claim!Engines, Claim!CommandStep(e) PROVE Others'
  <2>1. CASE Claim!ReadOwner(e)
      BY <1>2, <1>3, <2>1 DEF Claim!ReadOwner, Claim!Step
  <2>2. CASE Claim!Inspect(e)
      BY <1>2, <1>3, <2>2 DEF Claim!Inspect, Claim!Step
  <2>3. CASE Claim!Create(e)
      BY <1>2, <1>3, <2>3 DEF Claim!Create, Claim!Step
  <2>4. CASE Claim!Write(e)
      BY <1>2, <1>3, <2>4 DEF Claim!Write, Claim!Step
  <2>5. CASE Claim!Start(e)
      BY <1>2, <1>3, <2>5 DEF Claim!Start, Claim!Step
  <2>6. CASE Claim!GivesUp(e)
      BY <1>2, <1>3, <2>6 DEF Claim!GivesUp
  <2>7. CASE Claim!Down(e)
      BY <1>2, <1>3, <2>7 DEF Claim!Down, Claim!Step
  <2>8. CASE Claim!ReadRelease(e)
      BY <1>2, <1>3, <2>8 DEF Claim!ReadRelease, Claim!Step
  <2>9. CASE Claim!Unlink(e)
      BY <1>2, <1>3, <2>9 DEF Claim!Unlink, Claim!Step
  <2>10. CASE Claim!BeginAdopt(e)
      BY <1>2, <1>3, <2>10 DEF Claim!BeginAdopt, Claim!Step
  <2>11. CASE Claim!AdoptUnclaimed(e)
      BY <1>2, <1>3, <2>11 DEF Claim!AdoptUnclaimed
  <2>12. CASE Claim!VerifyDown(e)
      BY <1>2, <1>3, <2>12 DEF Claim!VerifyDown, Claim!Step
  <2>13. CASE Claim!Replace(e)
      BY <1>2, <1>3, <2>13 DEF Claim!Replace, Claim!Step
  <2>14. CASE Claim!EngineStops(e)
      BY <1>2, <1>3, <2>14 DEF Claim!EngineStops
  <2>15. CASE Claim!EngineStarts(e)
      BY <1>2, <1>3, <2>15 DEF Claim!EngineStarts
  <2> QED
      BY <1>3, <2>1, <2>2, <2>3, <2>4, <2>5, <2>6, <2>7, <2>8, <2>9, <2>10,
         <2>11, <2>12, <2>13, <2>14, <2>15
      DEF Claim!CommandStep
<1>4. CASE UNCHANGED Claim!claimVars
    BY <1>1, <1>4 DEF Claim!claimVars
<1> QED
    BY <1>1, <1>3, <1>4 DEF Claim!Next

(* Two writers would both hold the one claim.                              *)
LEMMA HeldByOne ==
    ASSUME Claim!ClaimHeld, Claim!TypeOK PROVE Claim!OneWriter
BY DEF Claim!ClaimHeld, Claim!OneWriter, Claim!Writers, Claim!TypeOK

-----------------------------------------------------------------------------
(***************************************************************************)
(* The payments: any number of attempts and offers, late settlements and   *)
(* lost answers.                                                           *)
(***************************************************************************)
Kept == /\ Payment!ChargedOnce /\ Payment!RecordIsTrue /\ Payment!NoRefusedTerms /\ Payment!ChargedThenHeld
        /\ Payment!Submission /\ Payment!Terms

Statuses == {"ok", "required", "limited", "denied", "failed"}
Receipts == {"success", "failure", "unreadable"}
Headers == {"usable", "unusable"}

Outcomes == [submitted : BOOLEAN, suspension : {0, 60, 3600},
             payment : {"not_submitted", "unknown", "reported_success",
                        "reported_rejection"}]

(* What a receipt that can be read or not leads to.                        *)
LEMMA ReportedValues ==
    /\ Payment!Reported("success") = "reported_success"
    /\ Payment!Reported("failure") = "reported_rejection"
    /\ Payment!Reported("unreadable") = "unknown"
BY DEF Payment!Reported

(* How an attempt ends.                                                    *)
LEMMA EndsWithTypes ==
    ASSUME NEW o \in Outcomes, Payment!EndsWith(o)
    PROVE  /\ outcome' = o /\ outcome' \in Outcomes
           /\ attempt' = "idle" /\ held' \in {0, 60, 300, 3600}
           /\ held' = o.suspension \/ (o.submitted => held' = 300)
BY DEF Payment!EndsWith, Outcomes

(* Every variable keeps its type.                                          *)
LEMMA PaymentTypes ==
    ASSUME MaxAttempts \in Nat, MaxOffers \in Nat, NONE \notin Nat,
           Payment!PaymentInv, [Payment!Next]_(Payment!paymentVars)
    PROVE  Payment!TypeOK'
<1> USE DEF Payment!PaymentInv, Payment!PaymentSound, Payment!TypeOK
<1>1. outcome \in Outcomes
    BY DEF Outcomes
<1>2. CASE Payment!Begin
    BY <1>2 DEF Payment!Begin, Payment!NoOutcome
<1>3. CASE Payment!TimePasses
    BY <1>3 DEF Payment!TimePasses, Payment!Unchanging
<1>4. CASE Payment!Discover
    BY <1>4 DEF Payment!Discover, Payment!Keeping, Payment!Unchanging
<1>5. CASE Payment!FreeAnswer
    BY <1>5 DEF Payment!FreeAnswer, Payment!Keeping, Payment!Unchanging
<1>6. CASE Payment!Deliver
    BY <1>6 DEF Payment!Deliver, Payment!Keeping, Payment!Unchanging
<1>7. CASE Payment!Settle
    BY <1>7 DEF Payment!Settle
<1>8. CASE Payment!Spent
    BY <1>8 DEF Payment!Spent, Payment!paymentVars
<1>9. CASE Payment!Offered
    BY <1>9 DEF Payment!Offered, Payment!Unchanging
<1>10. CASE Payment!Sign
    BY <1>10 DEF Payment!Sign, Payment!KnowsTerms
<1>11. CASE Payment!Submit
    BY <1>11 DEF Payment!Submit, Payment!Paid
<1>12. CASE Payment!TooLate
    BY <1>1, <1>12, EndsWithTypes
    DEF Payment!TooLate, Payment!Keeping, Payment!Unchanging, Outcomes
<1>13. CASE Payment!SignFails
    BY <1>1, <1>13, EndsWithTypes
    DEF Payment!SignFails, Payment!Keeping, Payment!Unchanging, Outcomes
<1>14. CASE Payment!Broken
    BY <1>1, <1>14, EndsWithTypes
    DEF Payment!Broken, Payment!Keeping, Payment!Unchanging, Outcomes
<1>15. CASE Payment!DiscoveryFails
  <2>1. PICK seconds \in {0, 60, 3600} : Payment!EndsWith([outcome EXCEPT !.suspension = seconds])
      BY <1>15 DEF Payment!DiscoveryFails
  <2>2. [outcome EXCEPT !.suspension = seconds] \in Outcomes
      BY <1>1 DEF Outcomes
  <2> QED
      BY <1>15, <2>1, <2>2, EndsWithTypes
      DEF Payment!DiscoveryFails, Payment!Keeping, Payment!Unchanging, Outcomes
<1>16. ASSUME NEW status \in Statuses, NEW receipt \in Receipts, NEW header \in Headers,
             Payment!Answered(status, receipt, header)
      PROVE  Payment!TypeOK'
  <2>1. signed \in 1..MaxOffers /\ offers \in Nat
      BY <1>16 DEF Payment!Answered, Payment!Terms
  <2>2. wire' \in Nat /\ refused' \subseteq 1..MaxOffers /\ offers' \in 0..MaxOffers
      BY <1>16, <2>1 DEF Payment!Answered, Payment!Replaced
  <2>3. requirements' \in 1..MaxOffers \cup {NONE}
      BY <1>16, <2>1, <2>2 DEF Payment!Answered, Payment!Replaced
  <2>4. PICK seconds \in Payment!Named(status) :
            \/ /\ outcome' = Payment!Paid(Payment!Reported(receipt), seconds)
               /\ attempt' = "reading" /\ UNCHANGED held
            \/ Payment!EndsWith(Payment!Paid(Payment!Reported(receipt), seconds))
      BY <1>16 DEF Payment!Answered
  <2>5. Payment!Paid(Payment!Reported(receipt), seconds) \in Outcomes
      BY <1>1, <1>16, <2>4, ReportedValues
      DEF Outcomes, Payment!Named, Receipts, Payment!Paid
  <2>6. outcome' \in Outcomes /\ attempt' \in {"reading", "idle"} /\ held' \in {0, 60, 300, 3600}
      BY <2>4, <2>5, EndsWithTypes
  <2> QED
      BY <1>16, <2>2, <2>3, <2>6 DEF Payment!Answered, Outcomes
<1>17. CASE UNCHANGED Payment!paymentVars
    BY <1>17 DEF Payment!paymentVars
<1> QED
    BY <1>2, <1>3, <1>4, <1>5, <1>6, <1>7, <1>8, <1>9, <1>10, <1>11, <1>12,
       <1>13, <1>14, <1>15, 
       <1>16, <1>17 DEF Payment!Next, Payment!AnsweredSomehow, Statuses, Receipts, Headers

(* What every step keeps: at most one charge, a true record, and no terms  *)
(* that were refused.                                                      *)
LEMMA PaymentKept ==
    ASSUME MaxAttempts \in Nat, MaxOffers \in Nat, NONE \notin Nat,
           Payment!PaymentInv, [Payment!Next]_(Payment!paymentVars)
    PROVE  Kept'
<1> USE DEF Kept, Payment!PaymentInv, Payment!PaymentSound, Payment!TypeOK, Payment!ChargedOnce, Payment!RecordIsTrue, Payment!NoRefusedTerms,
            Payment!ChargedThenHeld, Payment!Submission, Payment!Terms
<1>1. Payment!TypeOK' /\ outcome \in Outcomes
    BY PaymentTypes DEF Outcomes
<1>2. CASE Payment!Begin
    BY <1>1, <1>2 DEF Payment!Begin, Payment!NoOutcome
<1>3. CASE Payment!TimePasses
    BY <1>1, <1>3 DEF Payment!TimePasses, Payment!Unchanging
<1>4. CASE Payment!Discover
    BY <1>1, <1>4 DEF Payment!Discover, Payment!Keeping, Payment!Unchanging
<1>5. CASE Payment!FreeAnswer
    BY <1>1, <1>5 DEF Payment!FreeAnswer, Payment!Keeping, Payment!Unchanging
<1>6. CASE Payment!Deliver
    BY <1>1, <1>6 DEF Payment!Deliver, Payment!Keeping, Payment!Unchanging
<1>7. CASE Payment!Settle
    BY <1>1, <1>7 DEF Payment!Settle
<1>8. CASE Payment!Spent
    BY <1>1, <1>8 DEF Payment!Spent, Payment!paymentVars
<1>9. CASE Payment!Offered
    BY <1>1, <1>9 DEF Payment!Offered, Payment!Unchanging
<1>10. CASE Payment!Sign
    BY <1>1, <1>10 DEF Payment!Sign, Payment!KnowsTerms
<1>11. CASE Payment!Submit
    BY <1>1, <1>11 DEF Payment!Submit, Payment!Paid
<1>12. CASE Payment!TooLate
    BY <1>1, <1>12, EndsWithTypes
    DEF Payment!TooLate, Payment!Keeping, Payment!Unchanging
<1>13. CASE Payment!SignFails
    BY <1>1, <1>13, EndsWithTypes
    DEF Payment!SignFails, Payment!Keeping, Payment!Unchanging
<1>14. CASE Payment!Broken
    BY <1>1, <1>14, EndsWithTypes
    DEF Payment!Broken, Payment!Keeping, Payment!Unchanging
<1>15. CASE Payment!DiscoveryFails
  <2>1. PICK seconds \in {0, 60, 3600} : Payment!EndsWith([outcome EXCEPT !.suspension = seconds])
      BY <1>15 DEF Payment!DiscoveryFails
  <2>2. /\ [outcome EXCEPT !.suspension = seconds] \in Outcomes
        /\ [outcome EXCEPT !.suspension = seconds].payment = outcome.payment
        /\ [outcome EXCEPT !.suspension = seconds].submitted = outcome.submitted
      BY <1>1 DEF Outcomes
  <2> QED
      BY <1>1, <1>15, <2>1, <2>2, EndsWithTypes
      DEF Payment!DiscoveryFails, Payment!Keeping, Payment!Unchanging
<1>16. ASSUME NEW status \in Statuses, NEW receipt \in Receipts, NEW header \in Headers,
             Payment!Answered(status, receipt, header)
      PROVE  Kept'
  <2> DEFINE no == status = "required" \/ receipt = "failure"
             paid(seconds) == Payment!Paid(Payment!Reported(receipt), seconds)
  <2>1. /\ attempt = "paying" /\ outcome.submitted
        /\ receipt = "success" => charges = 1
        /\ no => charges = 0
        /\ wire' = IF no THEN 0 ELSE wire
        /\ charges' = charges /\ signed' = signed
      BY <1>16 DEF Payment!Answered
  <2>2. PICK seconds \in Payment!Named(status) :
            \/ /\ outcome' = paid(seconds)
               /\ attempt' = "reading" /\ UNCHANGED held
            \/ Payment!EndsWith(paid(seconds))
      BY <1>16 DEF Payment!Answered
  <2>3. /\ paid(seconds) \in Outcomes
        /\ paid(seconds).submitted /\ paid(seconds).payment = Payment!Reported(receipt)
      BY <1>1, <1>16, <2>2, ReportedValues
      DEF Outcomes, Payment!Named, Receipts, Payment!Paid
  <2>4. /\ outcome' = paid(seconds) /\ attempt' \in {"reading", "idle"}
        /\ attempt' = "idle" => held' = outcome'.suspension \/ held' = 300
      BY <2>2, <2>3, EndsWithTypes
  <2>5. Payment!ChargedOnce' /\ Payment!RecordIsTrue' /\ Payment!ChargedThenHeld' /\ Payment!Submission'
      BY <1>1, <1>16, <2>1, <2>3, <2>4, ReportedValues DEF Receipts
  <2>6. Payment!NoRefusedTerms' /\ Payment!Terms'
      BY <1>1, <1>16, <2>1, <2>4 DEF Payment!Answered, Payment!Replaced
  <2> QED
      BY <2>5, <2>6
<1>17. CASE Payment!AnsweredSomehow
    BY <1>16, <1>17 DEF Payment!AnsweredSomehow, Statuses, Receipts, Headers
<1>18. CASE UNCHANGED Payment!paymentVars
    BY <1>18 DEF Payment!paymentVars
<1> HIDE DEF Kept, Payment!PaymentInv
<1> QED
    BY <1>1, <1>2, <1>3, <1>4, <1>5, <1>6, <1>7, <1>8, <1>9, <1>10, <1>11,
       <1>12, <1>13, <1>14, <1>15, 
       <1>17, <1>18 DEF Payment!Next

LEMMA PaymentInit ==
    ASSUME MaxAttempts \in Nat, MaxOffers \in Nat, NONE \notin Nat, Payment!Init
    PROVE  Payment!PaymentInv
<1>1. Payment!NoOutcome \in Outcomes
  BY DEF Payment!NoOutcome, Outcomes
<1>2. outcome \in Outcomes
  BY <1>1 DEF Payment!Init
<1>3. n \in 0..MaxAttempts /\ offers \in 0..MaxOffers /\ refused \subseteq 1..MaxOffers
  BY DEF Payment!Init
<1>4. Payment!TypeOK
  BY <1>2, <1>3, ZenonT(40) DEF Payment!Init, Outcomes, Payment!TypeOK
<1>. QED
  BY <1>4
  DEF Payment!Init, Payment!NoOutcome, Payment!PaymentInv, Payment!PaymentSound,
      Payment!ChargedOnce, Payment!RecordIsTrue, Payment!NoRefusedTerms,
      Payment!ChargedThenHeld, Payment!Submission, Payment!Terms

-----------------------------------------------------------------------------
(***************************************************************************)
(* The composition: a step of the platform is a step of one part and       *)
(* leaves the variables of the others as they are.                         *)
(***************************************************************************)
LEMMA PartsInit ==
    PlatformInit => Egress!Init /\ Host!Init /\ Claim!Init /\ Payment!Init
  BY DEF PlatformInit

LEMMA PartsStep ==
    [PlatformNext]_allVars =>
        /\ [Egress!Next]_(Egress!vars) /\ [Host!Next]_(Host!hostVars)
        /\ [Claim!Next]_(Claim!claimVars) /\ [Payment!Next]_(Payment!paymentVars)
<1>. SUFFICES ASSUME [PlatformNext]_allVars
              PROVE  /\ Egress!Next \/ UNCHANGED egressVars
                     /\ Host!Next \/ UNCHANGED hostVars
                     /\ Claim!Next \/ UNCHANGED claimVars
                     /\ Payment!Next \/ UNCHANGED paymentVars
  BY DEF egressVars, hostVars, claimVars, paymentVars, Egress!vars,
         Host!hostVars, Claim!claimVars, Payment!paymentVars
<1>1. CASE PlatformNext
  BY <1>1 DEF PlatformNext, Rest
<1>2. CASE UNCHANGED allVars
  BY <1>2 DEF allVars
<1>. QED
  BY <1>1, <1>2

(* No resolver sees a name it must not see, only validated, acceptable     *)
(* addresses are dialled, and the client sees one status line at most, for *)
(* every policy and request (_validate_destination, handle_request).       *)
THEOREM PlatformEgressSound == PlatformSpec => []EgressSound
<1>1. PlatformInit => Egress!EgressInv
  BY PartsInit, EgressInit
<1>2. Egress!EgressInv /\ [PlatformNext]_allVars => Egress!EgressInv'
  BY PartsStep, EgressStep
<1>3. Egress!EgressInv => EgressSound
  BY DEF Egress!EgressInv, EgressSound
<1>. QED
  BY <1>1, <1>2, <1>3, PTL DEF PlatformSpec

(* No process but one this manager launched is signalled, and between two  *)
(* commands the service that runs is the recorded one, for any pids and    *)
(* any number of launches (_stop_owned, start, stop).                      *)
THEOREM PlatformHostSound == PlatformSpec => []HostSound
<1>1. PlatformInit => Host!HostInv
  BY PartsInit, HostInit
<1>2. Host!HostInv /\ [PlatformNext]_allVars => Host!HostInv'
  BY PartsStep, HostStep
<1>3. Host!HostInv => HostSound
  BY DEF Host!HostInv, HostSound
<1>. QED
  BY <1>1, <1>2, <1>3, PTL DEF PlatformSpec

(* A started stack holds the claim on the shared data, and no two engines  *)
(* write it (claim, release).                                              *)
THEOREM PlatformClaimSound == PlatformSpec => []ClaimSound
<1>1. PlatformInit => Claim!ClaimInv
  BY PartsInit, ClaimInit, EnginesAssumption
<1>2. Claim!ClaimInv /\ [PlatformNext]_allVars => Claim!ClaimInv'
  BY PartsStep, ClaimKept, EnginesAssumption
<1>3. Claim!ClaimInv => ClaimSound
  BY HeldByOne DEF Claim!ClaimInv, Claim!ClaimSound, ClaimSound
<1>. QED
  BY <1>1, <1>2, <1>3, PTL DEF PlatformSpec

(* An attempt at a paid request is charged once at most and its record     *)
(* says so, and refused terms are not signed again (exchange, rejected,    *)
(* process).                                                               *)
THEOREM PlatformPaymentSound == PlatformSpec => []PaymentSound
<1>. USE AttemptsAssumption, OffersAssumption, NoneAssumption
<1>1. PlatformInit => Payment!PaymentInv
  BY PartsInit, PaymentInit
<1>2. Payment!PaymentInv /\ [PlatformNext]_allVars => Payment!PaymentInv'
  BY PartsStep, PaymentTypes, PaymentKept
  DEF Payment!PaymentInv, Payment!PaymentSound, Kept
<1>3. Payment!PaymentInv => PaymentSound
  BY DEF Payment!PaymentInv, PaymentSound
<1>. QED
  BY <1>1, <1>2, <1>3, PTL DEF PlatformSpec
=============================================================================
