---------------------------- MODULE NatTraversal ---------------------------
(***************************************************************************)
(* NAT traversal of the client (hpn-client-core/src/nat.rs): a STUN client *)
(* that asks its servers in turn for the endpoint the NAT gives its        *)
(* socket, and the hole punching of two peers.  Datagrams are lost,        *)
(* delayed and reordered; the NAT may remap the STUN client's socket       *)
(* between two requests, and filters what comes in for the peers.  An      *)
(* endpoint is a host and a port; a NATed peer's first port is the one     *)
(* the rendezvous has told the other.                                      *)
(***************************************************************************)
EXTENDS Integers

CONSTANTS
  Deployments,   \* [what, servers, calls, remaps, nat, private, lan]: of the STUN client, and of the peers 1 and 2
  Retries,       \* StunClient::retries
  Attempts,      \* HolePunchConfig::attempts
  PredictionRange         \* HolePunchConfig::port_prediction_range

VARIABLES conf,
          stun,    \* the STUN client and its socket
          nat,     \* the STUN client's current mapping
          peers,   \* the two punching peers
          net      \* datagrams in flight

vars == <<conf, stun, nat, peers, net>>

None == [port |-> -1, tx |-> -1]
Peers == {1, 2}
Other(p) == 3 - p
PublicPort == 1
PrivatePort == 9
MaxPort == 2

Init ==
  /\ conf \in Deployments
  /\ stun = [pc |-> "idle", how |-> "discover", server |-> 0, attempt |-> 0, tx |-> 0, sock |-> 0, calls |-> 0,
             read_timeout |-> "caller", asked |-> 0, result |-> None, nat_info |-> None]
  /\ nat = 0
  /\ peers = [p \in Peers |-> [pc |-> "idle", attempt |-> 0, opened |-> {}, remote |-> <<>>]]
  /\ net = {}

-----------------------------------------------------------------------------
(* STUN. *)

\* With no server configured nothing is sent.
StunDisabled(s) == [s EXCEPT !.pc = "done", !.result = None]

\* discover binds a socket of its own, which may fail.
discover(s, binds) ==
  IF conf.servers = 0 \/ ~binds THEN StunDisabled(s)
  ELSE [s EXCEPT !.pc = "request", !.how = "discover", !.server = 1, !.attempt = 0, !.sock = @ + 1, !.result = None]

\* discover_with_socket sets the read timeout of the caller's socket, which is socket 0.
discover_with_socket(s, sets) ==
  IF conf.servers = 0 \/ ~sets THEN StunDisabled(s)
  ELSE [s EXCEPT !.pc = "request", !.how = "socket", !.server = 1, !.attempt = 0, !.read_timeout = "stun", !.result = None]

Discovers ==
  /\ stun.pc \in {"idle", "done"} /\ stun.calls < conf.calls
  /\ \E ok \in BOOLEAN, s \in {[stun EXCEPT !.calls = @ + 1]} :
       stun' \in {discover(s, ok), discover_with_socket(s, ok)}
  /\ UNCHANGED <<nat, net>>

\* The end of either loop; discover_nat keeps what discover has found.
discover_nat(s, r) == [s EXCEPT !.nat_info = IF r = None THEN @ ELSE r]
Finish(s, r) ==
  LET over == [s EXCEPT !.pc = "done", !.result = r] IN
  IF s.how = "discover" THEN discover_nat(over, r) ELSE [over EXCEPT !.read_timeout = "caller"]

\* A failed request: the next attempt, the next server, or the end.
Failed(s) ==
  CASE s.attempt < Retries -> [s EXCEPT !.pc = "request", !.attempt = @ + 1]
    [] s.attempt = Retries /\ s.server < conf.servers -> [s EXCEPT !.pc = "request", !.attempt = 0, !.server = @ + 1]
    [] OTHER -> Finish(s, None)

Sock(s) == IF s.how = "discover" THEN s.sock ELSE 0

\* Every request has a transaction identifier of its own.
build_binding_request(s) == [kind |-> "request", tx |-> s.tx + 1, sock |-> Sock(s), port |-> nat, server |-> s.server]

\* The server's name may not resolve, or to the other family only; or the send fails.
stun_request ==
  /\ stun.pc = "request"
  /\ \/ /\ net' = net \cup {build_binding_request(stun)}
        /\ stun' = [stun EXCEPT !.pc = "wait", !.tx = @ + 1, !.asked = nat]
     \/ stun' = Failed(stun) /\ UNCHANGED net
  /\ UNCHANGED nat

\* Mutated form: the transaction identifier is not compared.
parse_binding_responseAny(s, d) == IF d.kind = "error" THEN None ELSE [port |-> d.port, tx |-> d.tx]

parse_binding_response(s, d) ==
  IF d.tx # s.tx \/ d.kind = "error" THEN None ELSE [port |-> d.port, tx |-> d.tx]

\* The first datagram the socket receives decides about the request.
StunReceives ==
  /\ stun.pc = "wait"
  /\ \E d \in net :
       /\ d.kind \in {"response", "error"} /\ d.sock = Sock(stun)
       /\ LET r == parse_binding_response(stun, d) IN
          stun' = IF r = None THEN Failed(stun) ELSE Finish(stun, r)
       /\ net' = net \ {d}
  /\ UNCHANGED nat

StunTimesOut ==
  /\ stun.pc = "wait"
  /\ stun' = Failed(stun)
  /\ UNCHANGED <<nat, net>>

\* A server answers with the endpoint the request came from.
StunServer ==
  /\ \E d \in net, k \in {"response", "error"} :
       /\ d.kind = "request"
       /\ net' = (net \ {d}) \cup {[d EXCEPT !.kind = k]}
  /\ UNCHANGED <<stun, nat>>

Remap ==
  /\ nat < conf.remaps
  /\ nat' = nat + 1
  /\ UNCHANGED <<stun, net>>

Stun == Discovers \/ stun_request \/ StunReceives \/ StunTimesOut \/ StunServer \/ Remap

-----------------------------------------------------------------------------
(* Hole punching. *)

\* A symmetric NAT gives a new port towards the other host.
PortOf(p) == IF conf.nat[p] = "Symmetric" THEN PublicPort + 1 ELSE PublicPort

\* What a datagram of p to endpoint e comes from: inside one network the private endpoint.
Source(p, e) == IF e[2] = PrivatePort THEN <<p, PrivatePort>> ELSE <<p, PortOf(p)>>

LetsIn(p, from) ==
  CASE conf.nat[p] \in {"None", "FullCone"} -> TRUE
    [] conf.nat[p] = "AddressRestrictedCone" -> \E e \in peers[p].opened : e[1] = from[1]
    [] OTHER -> from \in peers[p].opened

Reaches(d) ==
  IF d.to[2] = PrivatePort THEN conf.lan ELSE d.to[2] = PortOf(d.to[1]) /\ LetsIn(d.to[1], d.from)

Datagram(p, e, kind, seq) == [kind |-> kind, to |-> e, from |-> Source(p, e), peer_id |-> p, seq |-> seq]

\* Port prediction stays within the range of ports (checked_add, checked_sub).
generate_punch_endpoints(q) ==
  {<<q, PublicPort>>}
  \cup (IF conf.nat[q] = "Symmetric"
          THEN {<<q, PublicPort + o>> : o \in {i \in 1..PredictionRange : PublicPort + i <= MaxPort}}
               \cup {<<q, PublicPort - o>> : o \in {i \in 1..PredictionRange : PublicPort - i >= 0}}
          ELSE {})
  \cup (IF conf.private THEN {<<q, PrivatePort>>} ELSE {})

\* punch: the punches of an attempt.
punch(p) ==
  LET to == generate_punch_endpoints(Other(p)) IN
  /\ peers[p].pc \in {"idle", "sends"}
  /\ peers' = [peers EXCEPT ![p].pc = "waits", ![p].opened = @ \cup to]
  /\ net' = net \cup {Datagram(p, e, "punch", peers[p].attempt) : e \in to}

\* Mutated form: success is reported for the endpoint that was told, not for the one that answered.
SuccessTold(p, d) == [peers EXCEPT ![p].pc = "done", ![p].remote = <<Other(p), PublicPort>>]

Success(p, d) == [peers EXCEPT ![p].pc = "done", ![p].remote = d.from]

\* A punch is answered towards where it came from.
ack(p, d) ==
  /\ peers' = [peers EXCEPT ![p].opened = @ \cup {d.from}]
  /\ net' = (net \ {d}) \cup {Datagram(p, d.from, "ack", d.seq)}

\* What recv_from returns within an attempt; a keepalive, or a message of another peer, is ignored.
punch_receives(p, d) ==
  CASE d.kind = "punch" -> ack(p, d)
    [] d.kind = "ack" -> peers' = Success(p, d) /\ net' = net \ {d}
    [] OTHER -> net' = net \ {d} /\ UNCHANGED peers

Arrives(p) ==
  \E d \in net :
    /\ d.kind \in {"punch", "ack", "keepalive"} /\ d.to[1] = p /\ Reaches(d)
    /\ peers[p].pc = "waits" /\ d.peer_id = Other(p)
    /\ punch_receives(p, d)

\* recv_from has returned, with a datagram or an error, and the delay of the attempt is over: the next
\* attempt, or none is left.
NextAttempt(p) ==
  /\ peers[p].pc = "waits"
  /\ peers' = [peers EXCEPT ![p].pc = IF peers[p].attempt + 1 < Attempts THEN "sends" ELSE "failed", ![p].attempt = @ + 1]
  /\ UNCHANGED net

\* recv_from itself waits for the whole timeout: with nothing to receive, the first attempt is the last.
Silence(p) ==
  /\ peers[p].pc = "waits"
  /\ peers' = [peers EXCEPT ![p].pc = "failed"]
  /\ UNCHANGED net

send_keepalive(p) ==
  /\ peers[p].pc = "done"
  /\ net' = net \cup {Datagram(p, peers[p].remote, "keepalive", 0)}
  /\ UNCHANGED peers

Punching(p) == punch(p) \/ Arrives(p) \/ NextAttempt(p) \/ Silence(p) \/ send_keepalive(p)

-----------------------------------------------------------------------------
Next ==
  \/ conf.what = "stun" /\ Stun /\ UNCHANGED <<conf, peers>>
  \/ conf.what = "punch" /\ \E p \in Peers : Punching(p) /\ UNCHANGED <<conf, stun, nat>>

Spec == Init /\ [][Next]_vars

-----------------------------------------------------------------------------
(* EndpointsAreGood: whatever is lost, late, reordered or remapped, the    *)
(* endpoint that discover or discover_with_socket returns is the one its   *)
(* last request left from, never that of an earlier attempt whose answer   *)
(* was late, and the caller's socket has its read timeout back; and a      *)
(* punch that succeeds has opened the hole both ways: what the peer now    *)
(* sends to remote_endpoint passes the other's NAT.                        *)
EndpointsAreGood ==
  /\ stun.pc \in {"idle", "done"} => stun.read_timeout = "caller"
  /\ stun.pc = "done" /\ stun.result # None => stun.result.port = stun.asked
  /\ \A p \in Peers : peers[p].pc = "done" => Reaches(Datagram(p, peers[p].remote, "keepalive", 0))
=============================================================================
