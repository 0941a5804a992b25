---------------------------- MODULE FinalHopProxy ----------------------------
(***************************************************************************)
(* One request through the egress policy proxy                             *)
(* (egress/final_hop_proxy.py).                                            *)
(*                                                                         *)
(* A handler coroutine admits its client, reads a request, validates the   *)
(* destination, which may ask a resolver, opens a connection to a          *)
(* validated address or through the configured upstream proxy, and then    *)
(* relays.  The policy is fixed when the process starts.  Resolvers,       *)
(* upstream proxies, origins and clients answer as they like, late or      *)
(* never.  Requests share nothing, so one is enough.                       *)
(*                                                                         *)
(* Hosts and addresses are kept by their class.  role says that the        *)
(* destination is one of the exact exceptions of the host route: a trusted *)
(* internal authority, the configured embedding authority, or an allowed   *)
(* port of host.docker.internal.                                           *)
(***************************************************************************)
EXTENDS Naturals, FiniteSets

Addresses == {"global", "private", "bad"}

Literals == {"bad_port", "global_ip", "private_ip", "bad_ip", "short_global",
             "short_private"}
Names == {"docker_host", "local_name", "label", "public_name", "onion"}
Hosts == Literals \cup Names

Policies ==
    {p \in [route : {"public", "host"}, lan : BOOLEAN, http : BOOLEAN,
            vpn : BOOLEAN, upstream : {"none", "http", "socks", "tor"}] :
        p.lan => p.route = "host"}

(* plain: port 80 of a CONNECT, or a forwarded request without TLS.        *)
Requests ==
    [method : {"CONNECT", "forward"}, plain : BOOLEAN, host : Hosts,
     role : {"none", "trusted", "embedding", "port"}]

VARIABLES
    policy,    \* the configuration of the process
    request,   \* the request, as far as it has been read
    step,      \* where the handler is
    ips,       \* the addresses destination validation returned
    asked,     \* resolvers asked for the target's name
    trying,    \* addresses not yet tried
    link,      \* the upstream stream: "none", "open", "closed"
    far,       \* what it leads to: an address class, "proxy" or "tor"
    left,      \* pieces of the request body still to come
    statuses,  \* status lines written to the client
    pipes      \* directions still relayed

vars == <<policy, request, step, ips, asked, trying, link, far, left,
          statuses, pipes>>

Steps == {"client", "line", "validate", "ask_embedding", "ask_docker", "ask_trusted",
          "ask_local", "ask_target", "open", "dial", "dial_proxy", "endpoint",
          "greeting", "auth", "socks", "bound", "reply", "reply_headers", "established",
          "body", "chunks", "trailers", "relay", "refuse", "fail", "done"}

TypeOK ==
    /\ policy \in Policies
    /\ request \in Requests
    /\ step \in Steps
    /\ ips \subseteq Addresses
    /\ asked \subseteq {"system", "provider"}
    /\ trying \subseteq Addresses
    /\ link \in {"none", "open", "closed"}
    /\ far \in Addresses \cup {"none", "proxy", "tor"}
    /\ left \in 0..2
    /\ statuses \in 0..2
    /\ pipes \subseteq {"up", "down"}

(* The roles exist on the host route only, and the last two only for some  *)
(* hosts.                                                                  *)
Roles(p, r) ==
    /\ r.role # "none" => p.route = "host" /\ r.host # "bad_port"
    /\ r.role = "port" => r.host = "docker_host"
    /\ r.role = "embedding" =>
          r.host \in {"docker_host", "private_ip", "local_name", "public_name"}

Init ==
    /\ policy \in Policies
    /\ request \in {r \in Requests : Roles(policy, r)}
    /\ step = "client"
    /\ ips = {} /\ asked = {} /\ trying = {}
    /\ link = "none" /\ far = "none"
    /\ left = 0
    /\ statuses = 0
    /\ pipes = {}

Goto(s) == step' = s

connection == <<trying, link, far>>
relaying == <<left, pipes>>

-----------------------------------------------------------------------------
(* Policy predicates.                                                      *)

DockerHost == request.host = "docker_host"
LanRoute == policy.route = "host" /\ policy.lan

AllowedDockerPort ==
    policy.route = "host" /\ DockerHost /\ request.role = "port"

LocalEmbedding ==
    /\ request.role = "embedding"
    /\ request.host \in {"docker_host", "private_ip", "local_name"}

AllPrivate(addresses) == addresses = {"private"}

PlainHttpAllowed ==
    \/ policy.http
    \/ (policy.upstream = "tor" /\ request.host = "onion")
    \/ request.role = "trusted"
    \/ LocalEmbedding
    \/ AllowedDockerPort
    \/ (LanRoute /\ AllPrivate(ips))

(* The destinations that never use the configured upstream.                *)
DirectException ==
    \/ request.role = "trusted"
    \/ LocalEmbedding
    \/ AllowedDockerPort
    \/ (LanRoute /\ AllPrivate(ips))

-----------------------------------------------------------------------------
(* Admission and reading.  A client that stalls meets a deadline; one that *)
(* leaves ends the handler.                                                *)

(* The client's address is loopback, or that of an allowed bridge service  *)
(* whose name the system resolver answers just now.                        *)
AdmitClient ==
    /\ step = "client"
    /\ step' \in {"line", "refuse"}
    /\ UNCHANGED <<policy, request, ips, asked, connection, statuses, relaying>>

(* A malformed line, header or framing is refused, a bad method as well;   *)
(* an empty line or a timeout ends the handler without an answer.          *)
ReadRequest ==
    /\ step = "line"
    /\ step' \in {"validate", "refuse", "done"}
    /\ UNCHANGED <<policy, request, ips, asked, connection, statuses, relaying>>

-----------------------------------------------------------------------------
(* Destination validation.                                                 *)

Accept(addresses) ==
    /\ ips' = addresses
    /\ Goto("open")

Refuse ==
    /\ Goto("refuse")
    /\ UNCHANGED ips

(* Where validation goes for a name that is not an exception.              *)
AfterLocalName ==
    IF policy.upstream # "none" THEN "open" ELSE "ask_target"

(* Mutant of ValidateName: the target's name is resolved before it is left *)
(* to the upstream proxy.                                                  *)
ValidateNameFirst ==
    /\ request.host \in Names
    /\ ~DockerHost \/ policy.route # "host"
    /\ Goto(IF request.host \in {"docker_host", "label"} THEN "refuse"
            ELSE IF LanRoute /\ request.host = "local_name" THEN "ask_local"
            ELSE "ask_target")
    /\ UNCHANGED ips

ValidateName ==
    /\ request.host \in Names
    /\ ~DockerHost \/ policy.route # "host"
    /\ Goto(IF request.host \in {"docker_host", "label"} THEN "refuse"
            ELSE IF LanRoute /\ request.host = "local_name" THEN "ask_local"
            ELSE AfterLocalName)
    /\ UNCHANGED ips

ValidateLiteral ==
    \/ /\ LanRoute /\ request.host = "private_ip"
       /\ Accept({"private"})
    \/ /\ request.host \in {"global_ip", "short_global"}
       /\ Accept({"global"})
    \/ request.host \in {"bad_port", "bad_ip", "short_private"} /\ Refuse
    \/ request.host = "private_ip" /\ ~LanRoute /\ Refuse

(* The exceptions come before the ordinary policy, in this order.          *)
ValidateException ==
    \/ /\ LocalEmbedding
       /\ IF request.host = "private_ip" THEN Accept({"private"})
          ELSE /\ Goto(IF DockerHost THEN "ask_docker" ELSE "ask_embedding")
               /\ UNCHANGED ips
    \/ /\ ~LocalEmbedding
       /\ policy.route = "host" /\ DockerHost
       /\ Goto(IF AllowedDockerPort THEN "ask_docker" ELSE "refuse")
       /\ UNCHANGED ips
    \/ /\ request.role = "trusted"
       /\ ~DockerHost
       /\ Goto("ask_trusted")
       /\ UNCHANGED ips

Exceptional ==
    LocalEmbedding \/ request.role = "trusted" \/ (policy.route = "host" /\ DockerHost)

Validate ==
    /\ step = "validate"
    /\ IF Exceptional THEN ValidateException
       ELSE ValidateLiteral \/ ValidateName
    /\ UNCHANGED <<policy, request, asked, connection, statuses, relaying>>

(* A resolver's answer: some addresses, or none, which also stands for a   *)
(* timeout, a malformed reply and no usable VPN interface.                 *)
AskSystem ==
    /\ asked' = asked \cup {"system"}
    /\ UNCHANGED <<policy, request, connection, statuses, relaying>>

(* Only local addresses for the embedding authority.                       *)
ResolveEmbedding(answer) ==
    /\ step = "ask_embedding" /\ AskSystem
    /\ IF AllPrivate(answer) THEN Accept(answer)
       ELSE Refuse

(* host.docker.internal may be anything but a forbidden address.           *)
ResolveDocker(answer) ==
    /\ step = "ask_docker" /\ AskSystem
    /\ IF answer # {} /\ "bad" \notin answer THEN Accept(answer)
       ELSE Refuse

ResolveTrusted(answer) ==
    /\ step = "ask_trusted" /\ AskSystem
    /\ IF answer # {} THEN Accept(answer) ELSE Refuse

(* An operator-local name: all its addresses are local, or none is and the *)
(* answer is forgotten.                                                    *)
ResolveLocal(answer) ==
    /\ step = "ask_local" /\ AskSystem
    /\ IF answer = {} THEN Refuse
       ELSE IF AllPrivate(answer) THEN Accept(answer)
       ELSE /\ Goto(IF "private" \in answer THEN "refuse" ELSE AfterLocalName)
            /\ UNCHANGED ips

(* A public name: the VPN provider's resolver, or the system's without VPN.*)
ResolveTarget(answer) ==
    /\ step = "ask_target"
    /\ asked' = asked \cup {IF policy.vpn THEN "provider" ELSE "system"}
    /\ IF answer = {"global"} THEN Accept(answer)
       ELSE Refuse
    /\ UNCHANGED <<policy, request, connection, statuses, relaying>>

-----------------------------------------------------------------------------
(* Opening the upstream connection.                                        *)

(* The clear-text rule, then the choice of the way out.                    *)
Open ==
    /\ step = "open"
    /\ LET direct == DirectException \/ policy.upstream = "none"
       IN  /\ Goto(IF request.plain /\ ~PlainHttpAllowed THEN "refuse"
                   ELSE IF direct THEN IF ips = {} THEN "fail" ELSE "dial"
                   ELSE IF policy.upstream = "tor" THEN "dial_proxy" ELSE "endpoint")
           /\ trying' = IF direct THEN ips ELSE {}
    /\ UNCHANGED <<policy, request, ips, asked, link, far, statuses, relaying>>

(* After a connection to the destination: TLS for a forwarded https URL,   *)
(* whose failure leaves the stream open, then the tunnel or the request.   *)
Connected(goal) ==
    /\ link' = "open"
    /\ far' = goal

(* Mutant of Dial: the loop over the addresses has no end.                 *)
DialForever(a) ==
    /\ step = "dial" /\ a \in trying
    /\ trying' = trying \ {a}
    /\ \/ Connected(a) /\ Goto("established")
       \/ Connected(a) /\ request.method = "forward" /\ ~request.plain /\ Goto("fail")
       \/ UNCHANGED <<step, link, far>>
    /\ UNCHANGED <<policy, request, ips, asked, statuses, relaying>>

Dial(a) ==
    /\ step = "dial" /\ a \in trying
    /\ trying' = trying \ {a}
    /\ \/ Connected(a) /\ Goto("established")
       \/ Connected(a) /\ request.method = "forward" /\ ~request.plain /\ Goto("fail")
       \/ /\ Goto(IF trying = {a} THEN "fail" ELSE "dial")
          /\ UNCHANGED <<link, far>>
    /\ UNCHANGED <<policy, request, ips, asked, statuses, relaying>>

(* The proxy's own address is resolved and classified too.                 *)
ResolveEndpoint ==
    /\ step = "endpoint"
    /\ step' \in {"dial_proxy", "fail"}
    /\ UNCHANGED <<policy, request, ips, asked, connection, statuses, relaying>>

(* A plain request to an HTTP proxy is sent in absolute form; all other    *)
(* requests ask the proxy for a tunnel first.                              *)
DialProxy ==
    /\ step = "dial_proxy"
    /\ \/ /\ Connected(IF policy.upstream = "tor" THEN "tor" ELSE "proxy")
          /\ Goto(IF policy.upstream # "http" THEN "greeting"
                  ELSE IF request.method = "forward" /\ request.plain
                  THEN "established" ELSE "reply")
       \/ Goto("fail") /\ UNCHANGED <<link, far>>
    /\ UNCHANGED <<policy, request, ips, asked, trying, statuses, relaying>>

(* A step of the SOCKS5 exchange: greeting, optional authentication,       *)
(* request, bound address.                                                 *)
SocksReply ==
    /\ \/ step = "greeting" /\ step' \in {"auth", "socks"}
       \/ step = "auth" /\ Goto("socks")
       \/ step = "socks" /\ Goto("bound")
       \/ step = "bound" /\ Goto("established")
    /\ UNCHANGED <<policy, request, ips, asked, connection, statuses, relaying>>

(* A wrong, short or late reply closes the stream.                         *)
SocksTimeout ==
    /\ step \in {"greeting", "auth", "socks", "bound"}
    /\ link' = "closed"
    /\ Goto("fail")
    /\ UNCHANGED <<policy, request, ips, asked, trying, far, statuses, relaying>>

(* The reply to an HTTP CONNECT, read without a deadline: its status line, *)
(* and its headers up to an empty line or the end of the stream.           *)
ConnectReply ==
    /\ \/ step = "reply" /\ Goto("reply_headers") /\ UNCHANGED link
       \/ step = "reply" /\ Goto("fail") /\ link' = "closed"
       \/ step = "reply_headers" /\ Goto("established") /\ UNCHANGED link
    /\ UNCHANGED <<policy, request, ips, asked, trying, far, statuses, relaying>>

-----------------------------------------------------------------------------
(* Relaying.                                                               *)

(* The client is told of the tunnel, or the request's head is sent on.     *)
(* If the peer is gone the handler ends or fails.                          *)
Establish ==
    /\ step = "established"
    /\ \/ /\ request.method = "CONNECT"
          /\ statuses' = statuses + 1
          /\ pipes' = {"up", "down"}
          /\ step' = "relay"
          /\ UNCHANGED left
       \/ /\ request.method = "CONNECT"
          /\ Goto("done")
          /\ UNCHANGED <<statuses, left, pipes>>
       \/ /\ request.method = "forward"
          /\ \/ left' = 0 /\ pipes' = {"down"} /\ Goto("relay")
             \/ left' = 2 /\ pipes' = {} /\ step' \in {"body", "chunks"}
          /\ UNCHANGED statuses
       \/ /\ request.method = "forward"
          /\ Goto("fail")
          /\ UNCHANGED <<statuses, left, pipes>>
    /\ UNCHANGED <<policy, request, ips, asked, connection>>

(* A piece of the body, or the size line and data of a chunk; the response *)
(* is not read before the body is complete.                                *)
ForwardBody ==
    /\ \/ /\ step \in {"body", "chunks"} /\ left > 0
          /\ left' = left - 1
          /\ UNCHANGED <<step, pipes>>
       \/ /\ step = "body" /\ left = 0
          /\ Goto("relay") /\ pipes' = {"down"} /\ UNCHANGED left
       \/ /\ step = "chunks" /\ left < 2
          /\ Goto("trailers") /\ UNCHANGED <<left, pipes>>
    /\ UNCHANGED <<policy, request, ips, asked, connection, statuses>>

ForwardTrailers ==
    /\ step = "trailers"
    /\ Goto("relay") /\ pipes' = {"down"}
    /\ UNCHANGED <<policy, request, ips, asked, connection, statuses, left>>

(* The client ends early, breaks the framing, sends a forbidden trailer,   *)
(* or the origin is gone: the stream to the origin stays as it is.         *)
BodyFails ==
    /\ step \in {"body", "chunks", "trailers"}
    /\ Goto("fail")
    /\ UNCHANGED <<policy, request, ips, asked, connection, statuses, relaying>>

(* A direction ends with its source, or when the other one has closed the  *)
(* stream it reads; its own destination is closed.  The response, if there *)
(* was one, is the status of a forwarded request.                          *)
PipeEnds(d) ==
    /\ step = "relay" /\ d \in pipes
    /\ pipes' = pipes \ {d}
    /\ link' = (IF d = "up" \/ request.method = "forward" THEN "closed" ELSE link)
    /\ statuses' \in statuses..(IF request.method = "forward" THEN 1 ELSE statuses)
    /\ Goto(IF pipes = {d} THEN "done" ELSE "relay")
    /\ UNCHANGED <<policy, request, ips, asked, trying, far, left>>

-----------------------------------------------------------------------------
(* The answers of the proxy itself: 400, 403, 405 or 502.                  *)
Answer ==
    /\ step \in {"refuse", "fail"}
    /\ statuses' = statuses + 1
    /\ Goto("done")
    /\ UNCHANGED <<policy, request, ips, asked, connection, relaying>>

Resolve == \E answer \in SUBSET Addresses :
    \/ ResolveEmbedding(answer) \/ ResolveDocker(answer) \/ ResolveTrusted(answer)
    \/ ResolveLocal(answer) \/ ResolveTarget(answer)

(* What ends by itself or at a deadline.                                   *)
HandlerStep ==
    \/ AdmitClient \/ ReadRequest \/ Validate \/ Resolve
    \/ Open \/ (\E a \in Addresses : Dial(a)) \/ ResolveEndpoint \/ DialProxy
    \/ SocksTimeout \/ Establish \/ Answer

(* What waits for a peer without a deadline.                               *)
PeerStep ==
    \/ SocksReply \/ ConnectReply \/ ForwardBody \/ ForwardTrailers \/ BodyFails
    \/ \E d \in {"up", "down"} : PipeEnds(d)

Finished == step = "done" /\ UNCHANGED vars

Next == HandlerStep \/ PeerStep \/ Finished

Spec == Init /\ [][Next]_vars

-----------------------------------------------------------------------------
(* What the two routes promise (docs/vpn_routing_and_proxies.md), said     *)
(* without the order of the checks: an address is acceptable for a request *)
(* if it is global, or if the host route has an exception for it.          *)
Acceptable(a) ==
    \/ a = "global"
    \/ policy.route = "host" /\ request.role = "trusted"
    \/ policy.route = "host" /\ request.role # "none" /\ a = "private"
    \/ LanRoute /\ a = "private" /\ request.host \in {"private_ip", "local_name"}

(* A destination is dialled only at an acceptable address that validation  *)
(* returned for this request; with an upstream proxy or Tor, and for       *)
(* whatever is not an exception, it is not dialled at all.  And names stay *)
(* where they belong: the VPN provider's resolver never sees what the      *)
(* upstream resolves, and the system resolver sees, in VPN mode or with an *)
(* upstream, only the exceptions and operator-local names                  *)
(* (_validate_destination, _connect_via_upstream and the comments there).  *)
EgressSound ==
    /\ TypeOK
    /\ far \in Addresses =>
          /\ far \in ips
          /\ Acceptable(far)
          /\ policy.upstream # "none" =>
                request.role # "none" \/ (LanRoute /\ far = "private")
    /\ "provider" \in asked => policy.vpn /\ policy.upstream = "none"
    /\ "system" \in asked /\ (policy.vpn \/ policy.upstream # "none") =>
          request.role # "none" \/ (LanRoute /\ request.host = "local_name")

(* The client of a request sees one status line at most, and nothing of    *)
(* the proxy's own once the tunnel or the response has begun (_pipe ends   *)
(* quietly, handle_request writes no second answer).                       *)
AnsweredOnce ==
    /\ statuses <= 1
    /\ step = "relay" /\ request.method = "CONNECT" => statuses = 1
    /\ step \in {"refuse", "fail"} => statuses = 0

(* Only the body of its client, a relayed direction and an HTTP proxy's    *)
(* reply to CONNECT, which have no deadline, can keep a request waiting:   *)
(* everywhere else the handler can go on by itself, and it goes through no *)
(* step twice (handle_request, TUNNEL_CONNECT_TIMEOUT, DNS_QUERY_TIMEOUT). *)
WaitsOnlyForPeers ==
    \/ step \in {"relay", "body", "chunks", "trailers", "reply", "reply_headers", "done"}
    \/ ENABLED HandlerStep
-----------------------------------------------------------------------------
(* The inductive invariant behind EgressSound and AnsweredOnce.  What the  *)
(* step says about the request,                                            *)
SettledBySteps ==
    /\ request.role # "none" => policy.route = "host"
    /\ step = "ask_embedding" => LocalEmbedding
    /\ step = "ask_docker" => policy.route = "host" /\ request.role # "none"
    /\ step = "ask_trusted" => request.role = "trusted"
    /\ step = "ask_local" => LanRoute /\ request.host = "local_name"
    /\ step = "ask_target" => policy.upstream = "none"

(* that validation returns acceptable addresses only,                      *)
AddressesAcceptable == \A a \in ips : Acceptable(a)

(* that nothing is connected before its step, and only what validation     *)
(* returned is dialled,                                                    *)
NotYetConnected ==
    /\ step \in {"client", "line", "validate", "ask_embedding", "ask_docker",
                 "ask_trusted", "ask_local", "ask_target", "open", "dial",
                 "endpoint", "dial_proxy"} => far = "none"
    /\ step = "dial" =>
          trying \subseteq ips /\ (DirectException \/ policy.upstream = "none")

(* and that no status line precedes the relaying.                          *)
NotYetAnswered ==
    /\ step \notin {"relay", "done"} => statuses = 0
    /\ step \in {"body", "chunks", "trailers"} => request.method = "forward"

EgressInv ==
    /\ EgressSound /\ AnsweredOnce
    /\ SettledBySteps /\ AddressesAcceptable /\ NotYetConnected /\ NotYetAnswered
=============================================================================
