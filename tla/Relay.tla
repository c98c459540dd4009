------------------------------- MODULE Relay -------------------------------
(***************************************************************************)
(* The UDP relay of hpn-relay: the session table (session.rs), the limits  *)
(* and the forwarding of handshakes and traffic (relay.rs), between        *)
(* clients and the server it relays to.                                    *)
(*                                                                         *)
(* Every handshake packet of a client is forwarded by a task of its own,   *)
(* from a socket of its own; all other traffic shares one upstream socket. *)
(* A task and its socket are numbered, the shared socket is number 0.  The *)
(* server is reduced to what it shows a relay: it reassembles by source,   *)
(* answers with a session, takes a session's packets from the address it   *)
(* knows for it, and moves there on a rebind.                              *)
(***************************************************************************)
EXTENDS Reassembly, Functions

CONSTANT Deployments    \* records of the relay's limits and of the bounds on what is sent: see MCNetwork

VARIABLES
  conf,      \* one of Deployments
  now,       \* seconds
  relay,     \* [sessions, ip_counts, limiter, permits, sessions_active]
  tasks,     \* socket -> the task that forwards from it
  server,    \* [reasm, sessions]
  net,       \* the datagrams on their way
  clients    \* address -> [inits, sends, got]

vars == <<conf, now, relay, tasks, server, net, clients>>

Shared == 0

Ip(c) == c[1]

-----------------------------------------------------------------------------
(* The session table *)

Saturating(a, b) == IF a < b THEN 0 ELSE a - b
AtMost(a, b) == IF a < b THEN a ELSE b

new(max_pps, max_bps) == [packets |-> max_pps, bytes |-> max_bps, last_refill |-> now]

with_rate_limit(c) ==
  [addr |-> c, last_activity |-> now,
   client_rate |-> new(conf.rate_limit_pps, conf.rate_limit_bps),
   upstream_rate |-> new(conf.rate_limit_pps, conf.rate_limit_bps)]

touch(s) == [s EXCEPT !.last_activity = now]
is_expired(s) == now - s.last_activity > conf.timeout

refill(r) ==
  LET elapsed == now - r.last_refill
  IN  [packets |-> AtMost(r.packets + conf.rate_limit_pps * elapsed, 2 * conf.rate_limit_pps),
       bytes |-> AtMost(r.bytes + conf.rate_limit_bps * elapsed, 2 * conf.rate_limit_bps),
       last_refill |-> now]

is_rate_limited == conf.rate_limit_pps > 0 \/ conf.rate_limit_bps > 0

\* check, for a packet of one byte: whether it passes, and what it leaves.
check(r) ==
  LET f == IF is_rate_limited THEN refill(r) ELSE r
      pays == /\ conf.rate_limit_pps > 0 => f.packets > 0
              /\ conf.rate_limit_bps > 0 => f.bytes > 0
  IN  [ok |-> pays,
       left |-> IF pays THEN [f EXCEPT !.packets = Saturating(@, 1), !.bytes = Saturating(@, 1)]
                ELSE f]

\* An address leaves the map with its last session.
Uncounted(counts, ip) ==
  IF ip \notin DOMAIN counts THEN counts
  ELSE IF counts[ip] <= 1 THEN Restrict(counts, DOMAIN counts \ {ip})
  ELSE [counts EXCEPT ![ip] = @ - 1]

Expired(r) == {s \in DOMAIN r.sessions : is_expired(r.sessions[s])}
OfIp(r, ids, ip) == {s \in ids : Ip(r.sessions[s].addr) = ip}

\* Mutant: the sessions go and their addresses stay counted.
cleanup_expired_lockedUncounted(r) ==
  [r EXCEPT !.sessions = Restrict(@, DOMAIN @ \ Expired(r))]

cleanup_expired_locked(r) ==
  LET left(ip) == Saturating(r.ip_counts[ip], Cardinality(OfIp(r, Expired(r), ip)))
  IN  [r EXCEPT !.sessions = Restrict(@, DOMAIN @ \ Expired(r)),
                !.ip_counts = [ip \in {i \in DOMAIN @ : left(i) > 0} |-> left(ip)]]

\* Whether the session is new, and the table it leaves.
get_or_create(r, id, c) ==
  IF id \in DOMAIN r.sessions
  THEN [new |-> FALSE, relay |-> r]
  ELSE LET full(t) == Cardinality(DOMAIN t.sessions) >= conf.max_sessions
           room == IF full(r) THEN cleanup_expired_locked(r) ELSE r
           ip == Ip(c)
           count == IF ip \in DOMAIN room.ip_counts THEN room.ip_counts[ip] ELSE 0
       IN  IF \/ full(room)
              \/ count = 0 /\ Cardinality(DOMAIN room.ip_counts) >= conf.max_tracked_ips
              \/ count >= conf.max_sessions_per_ip
           THEN [new |-> FALSE, relay |-> room]
           ELSE [new |-> TRUE,
                 relay |-> [room EXCEPT
                   !.ip_counts = [i \in DOMAIN @ \cup {ip} |-> IF i = ip THEN count + 1 ELSE @[i]],
                   !.sessions = [s \in DOMAIN @ \cup {id} |->
                                   IF s = id THEN with_rate_limit(c) ELSE @[s]]]]

bind_established(r, id, c) ==
  IF id = 0 THEN [new |-> FALSE, relay |-> r] ELSE get_or_create(r, id, c)

\* The first of remove's two steps, under the lock of the sessions; Uncounted is the second.
remove(r, id) == [r EXCEPT !.sessions = Restrict(@, DOMAIN @ \ {id})]

process_client_packet(r, id, c) ==
  IF id = 0 \/ id \notin DOMAIN r.sessions \/ r.sessions[id].addr # c
  THEN [forward |-> FALSE, relay |-> r]
  ELSE LET rate == check(r.sessions[id].client_rate)
       IN  IF is_rate_limited /\ ~rate.ok
           THEN [forward |-> FALSE, relay |-> [r EXCEPT !.sessions[id].client_rate = rate.left]]
           ELSE [forward |-> TRUE,
                 relay |-> [r EXCEPT !.sessions[id] = touch([@ EXCEPT !.client_rate = rate.left])]]

check_upstream_rate_limit(r, id) ==
  IF id \in DOMAIN r.sessions THEN check(r.sessions[id].upstream_rate).ok ELSE FALSE

process_upstream_packet(r, id) == id \in DOMAIN r.sessions

-----------------------------------------------------------------------------
(* The limiter of handshakes *)

NewLimiter == [start |-> 0, count |-> 0, entries |-> <<>>]

\* The packet is counted for all addresses before it is refused for one.
allow(l, ip) ==
  LET fresh(start) == now - start >= 1
      global == IF fresh(l.start) THEN [l EXCEPT !.start = now, !.count = 0] ELSE l
      counted == IF conf.global_max_pps > 0 THEN [global EXCEPT !.count = @ + 1] ELSE l
      full(es) == Cardinality(DOMAIN es) >= conf.max_rate_ips
      kept == IF ~full(l.entries) THEN l.entries
              ELSE Restrict(l.entries, {i \in DOMAIN l.entries :
                                          now - l.entries[i].start <= conf.rate_idle_ttl})
      entry == IF ip \notin DOMAIN kept \/ fresh(kept[ip].start) THEN [start |-> now, count |-> 0]
               ELSE kept[ip]
      Entered(e) == [i \in DOMAIN kept \cup {ip} |-> IF i = ip THEN e ELSE kept[i]]
  IN  IF conf.global_max_pps > 0 /\ global.count >= conf.global_max_pps
      THEN [ok |-> FALSE, limiter |-> global]
      ELSE IF full(kept) THEN [ok |-> FALSE, limiter |-> [counted EXCEPT !.entries = kept]]
      ELSE IF entry.count >= conf.max_pps
      THEN [ok |-> FALSE, limiter |-> [counted EXCEPT !.entries = Entered(entry)]]
      ELSE [ok |-> TRUE,
            limiter |-> [counted EXCEPT !.entries = Entered([entry EXCEPT !.count = @ + 1])]]

-----------------------------------------------------------------------------
(* Datagrams *)

\* A whole message is a fragment of one; message says which handshake of the client it is.
Part(c, n, inner, i, total) ==
  [frag_id |-> n, inner |-> inner, index |-> i, total |-> total, payload |-> c, bytes |-> 1]

FromClient(c, kind, id, frag) ==
  [at |-> "relay", port |-> c, kind |-> kind, id |-> id, frag |-> frag]
ToServer(socket, d) == [d EXCEPT !.at = "server", !.port = <<socket>>]
ToSocket(socket, kind, id, frag) ==
  [at |-> "socket", port |-> <<socket>>, kind |-> kind, id |-> id, frag |-> frag]

Init ==
  /\ conf \in Deployments
  /\ now = 0
  /\ relay = [sessions |-> <<>>, ip_counts |-> <<>>, limiter |-> NewLimiter,
              permits |-> conf.max_concurrent, sessions_active |-> 0]
  /\ tasks = <<>>
  /\ server = [reasm |-> EmptyReassembly, sessions |-> <<>>]
  /\ net = {}
  /\ clients = [c \in conf.clients |-> [inits |-> 0, sends |-> 0, got |-> {}]]

-----------------------------------------------------------------------------
(* The clients *)

\* A client sends the pieces of a handshake, conf.parts of them, or the whole of one.
SendInit(c) ==
  /\ clients[c].inits < conf.inits
  /\ clients' = [clients EXCEPT ![c].inits = @ + 1]
  /\ net' = net \cup
       {FromClient(c, IF conf.parts = 1 THEN "init" ELSE "fragment", 0,
                   Part(c, clients[c].inits, "init", i, conf.parts)) : i \in 1 .. conf.parts}
  /\ UNCHANGED <<conf, now, relay, tasks, server>>

SendCookieReply(c) ==
  \E g \in clients[c].got :
    /\ g.kind = "cookie_request"
    /\ clients' = [clients EXCEPT ![c].got = @ \ {g}]
    /\ net' = net \cup {FromClient(c, "cookie_reply", 0, [g.frag EXCEPT !.inner = "init"])}
    /\ UNCHANGED <<conf, now, relay, tasks, server>>

\* A session's packet, from the address it was made for or, after a move, from another.
SendSession(c, kind) ==
  /\ clients[c].sends < conf.sends
  /\ clients' = [clients EXCEPT ![c].sends = @ + 1]
  /\ \E id \in {0} \cup {s \in DOMAIN server.sessions : Ip(server.sessions[s].owner) = Ip(c)} :
       net' = net \cup {FromClient(c, kind, id, Part(c, 0, kind, 1, 1))}
  /\ UNCHANGED <<conf, now, relay, tasks, server>>

-----------------------------------------------------------------------------
(* The client side of the relay *)

HandshakeKinds == {"init", "fragment", "cookie_reply"}

\* A handshake packet that passes the limiter and finds a permit gets a task.
handle_client_packet_handshake(d) ==
  LET a == allow(relay.limiter, Ip(d.port))
      admitted == a.ok /\ relay.permits > 0
      socket == Cardinality(DOMAIN tasks) + 1
  IN  /\ d.kind \in HandshakeKinds
      /\ relay' = [relay EXCEPT !.limiter = a.limiter,
                                !.permits = IF admitted THEN @ - 1 ELSE @]
      /\ tasks' = IF ~admitted THEN tasks
                  ELSE [t \in DOMAIN tasks \cup {socket} |->
                          IF t = socket THEN [pc |-> "start", client |-> d.port, data |-> d]
                          ELSE tasks[t]]
      /\ net' = net \ {d}

handle_client_packet(d) ==
  /\ d \in net /\ d.at = "relay"
  /\ \/ handle_client_packet_handshake(d)
     \/ /\ d.kind \notin HandshakeKinds
        /\ LET p == process_client_packet(relay, d.id, d.port)
           IN  /\ relay' = p.relay
               /\ net' = (net \ {d}) \cup (IF p.forward THEN {ToServer(Shared, d)} ELSE {})
        /\ UNCHANGED tasks
  /\ UNCHANGED <<conf, now, server, clients>>

-----------------------------------------------------------------------------
(* forward_handshake_packet *)

\* The task returns and its permit with it.
Return(t, r) ==
  /\ tasks' = [tasks EXCEPT ![t] = [pc |-> "done"]]
  /\ relay' = [r EXCEPT !.permits = @ + 1]

\* The socket may not bind, connect or send.
forward_handshake_packet(t) ==
  /\ tasks[t].pc = "start"
  /\ \/ Return(t, relay) /\ UNCHANGED net
     \/ /\ net' = net \cup {ToServer(t, tasks[t].data)}
        /\ tasks' = [tasks EXCEPT ![t] = [pc |-> "recv", client |-> @.client,
                                          reasm |-> EmptyReassembly,
                                          deadline |-> now + conf.response_timeout]]
        /\ UNCHANGED relay
  /\ UNCHANGED <<conf, now, server, clients>>

Deadline(t) ==
  /\ tasks[t].pc = "recv" /\ now >= tasks[t].deadline
  /\ Return(t, relay)
  /\ UNCHANGED <<conf, now, server, net, clients>>

\* The socket's receive fails.
ReceiveFails(t) ==
  /\ tasks[t].pc = "recv" /\ now <= tasks[t].deadline
  /\ Return(t, relay)
  /\ UNCHANGED <<conf, now, server, net, clients>>

Delivered(c, d) == clients' = [clients EXCEPT ![c].got =
                                 @ \cup {[kind |-> d.kind, id |-> d.id, frag |-> d.frag]}]

Receives(t, d) ==
  /\ tasks[t].pc = "recv" /\ now <= tasks[t].deadline
  /\ d \in net /\ d.at = "socket" /\ d.port = <<t>>
  /\ net' \in {net \ {d}} \cup (IF conf.duplicates THEN {net} ELSE {})
  /\ UNCHANGED <<conf, now, server>>

\* A whole response: bound, then sent.
HandshakeResponse(t, d) ==
  /\ Receives(t, d) /\ d.kind = "response"
  /\ LET b == bind_established(relay, d.id, tasks[t].client)
     IN  IF b.new
         THEN /\ relay' = b.relay
              /\ tasks' = [tasks EXCEPT ![t] = [pc |-> "send", client |-> @.client, data |-> d]]
         ELSE Return(t, b.relay)
  /\ UNCHANGED clients

HandshakeResponseSent(t) ==
  /\ tasks[t].pc = "send"
  /\ Return(t, [relay EXCEPT !.sessions_active = @ + 1])
  /\ Delivered(tasks[t].client, tasks[t].data)
  /\ UNCHANGED <<conf, now, server, net>>

\* The send failed: the session just bound is removed.
HandshakeResponseUnsent(t) ==
  /\ tasks[t].pc = "send"
  /\ relay' = remove(relay, tasks[t].data.id)
  /\ tasks' = [tasks EXCEPT ![t] =
       IF tasks[t].data.id \in DOMAIN relay.sessions
       THEN [pc |-> "uncount", client |-> relay.sessions[tasks[t].data.id].addr]
       ELSE [pc |-> "gone"]]
  /\ UNCHANGED <<conf, now, server, net, clients>>

\* The second step of remove, under the lock of the counts.
RemoveCount(t) ==
  /\ tasks[t].pc \in {"uncount", "gone"}
  /\ Return(t, [relay EXCEPT !.ip_counts =
                  IF tasks[t].pc = "uncount" THEN Uncounted(@, Ip(tasks[t].client)) ELSE @])
  /\ UNCHANGED <<conf, now, server, net, clients>>

Rejected(reasm, d, o) ==
  o.message = NoMessage /\ (o.buffer = reasm \/ ~contains(o.buffer, <<Shared, d.frag.frag_id>>))

\* A fragment the task's reassembler takes goes to the client, the last one before the session is
\* bound; one it refuses does not.
HandshakeFragment(t, d) ==
  /\ Receives(t, d) /\ d.kind = "fragment"
  /\ \E o \in insert(tasks[t].reasm, conf.reassembly, Shared, d.frag, now) :
       IF Rejected(tasks[t].reasm, d, o)
       THEN tasks' = [tasks EXCEPT ![t].reasm = o.buffer] /\ UNCHANGED <<relay, clients>>
       ELSE \/ Return(t, relay) /\ UNCHANGED clients
            \/ /\ Delivered(tasks[t].client, d)
               /\ tasks' = [tasks EXCEPT ![t] =
                    IF o.message = NoMessage THEN [@ EXCEPT !.reasm = o.buffer]
                    ELSE [pc |-> "bind", client |-> @.client, id |-> d.id]]
               /\ UNCHANGED relay

HandshakeFragmentBind(t) ==
  /\ tasks[t].pc = "bind"
  /\ LET b == bind_established(relay, tasks[t].id, tasks[t].client)
     IN  Return(t, IF b.new THEN [b.relay EXCEPT !.sessions_active = @ + 1] ELSE b.relay)
  /\ UNCHANGED <<conf, now, server, net, clients>>

\* A cookie request goes to the client, or is lost, and ends the task.
CookieRequest(t, d) ==
  /\ Receives(t, d) /\ d.kind = "cookie_request"
  /\ Return(t, relay)
  /\ Delivered(tasks[t].client, d) \/ UNCHANGED clients

-----------------------------------------------------------------------------
(* The upstream side of the relay, and the cleanup *)

handle_upstream_packet(d) ==
  /\ d \in net /\ d.at = "socket" /\ d.port = <<Shared>>
  /\ net' = net \ {d}
  /\ LET limited == is_rate_limited /\ ~check_upstream_rate_limit(relay, d.id)
         paid == [relay EXCEPT !.sessions[d.id].upstream_rate = check(@).left]
     IN  IF ~process_upstream_packet(relay, d.id) THEN UNCHANGED <<relay, clients>>
         ELSE IF limited THEN relay' = paid /\ UNCHANGED clients
         ELSE /\ relay' = [paid EXCEPT !.sessions[d.id] = touch(@)]
              /\ Delivered(relay.sessions[d.id].addr, d)
  /\ UNCHANGED <<conf, now, tasks, server>>

\* The gauge follows what this removes, not what get_or_create does.
cleanup_expired ==
  /\ Expired(relay) # {}
  /\ relay' = [cleanup_expired_locked(relay)
                 EXCEPT !.sessions_active = Saturating(@, Cardinality(Expired(relay)))]
  /\ UNCHANGED <<conf, now, tasks, server, net, clients>>

-----------------------------------------------------------------------------
(* The server *)

\* A new session for the source of a handshake, answered in conf.answers pieces.
Answers(s, d) ==
  LET id == Cardinality(DOMAIN s.sessions) + 1
      socket == d.port[1]
      c == d.frag.payload
  IN  /\ server' = [s EXCEPT !.sessions = [i \in DOMAIN @ \cup {id} |->
                      IF i = id THEN [addr |-> socket, owner |-> c] ELSE @[i]]]
      /\ net' = (net \ {d}) \cup
           {ToSocket(socket, IF conf.answers = 1 THEN "response" ELSE "fragment", id,
                     Part(c, id, "response", i, conf.answers)) : i \in 1 .. conf.answers}

\* A handshake is refused, met with a cookie request, or answered, once all of it is there.
ServerHandshake(d) ==
  /\ d \in net /\ d.at = "server" /\ d.kind \in HandshakeKinds
  /\ \E o \in insert(server.reasm, conf.reassembly, d.port[1], d.frag, now) :
       LET s == [server EXCEPT !.reasm = o.buffer]
       IN  \/ /\ o.message = NoMessage
              /\ server' = s /\ net' = net \ {d}
           \/ /\ o.message # NoMessage /\ conf.cookies /\ d.kind # "cookie_reply"
              /\ server' = s
              /\ net' = (net \ {d}) \cup {ToSocket(d.port[1], "cookie_request", 0, d.frag)}
           \/ /\ o.message # NoMessage /\ (conf.cookies => d.kind = "cookie_reply")
              /\ Answers(s, d)
  /\ UNCHANGED <<conf, now, relay, tasks, clients>>

\* A session's packet is taken from its address only; a rebind moves the session to its source.
ServerSession(d) ==
  /\ d \in net /\ d.at = "server" /\ d.kind \in {"data", "rebind"}
  /\ net' = net \ {d}
  /\ server' = IF d.id \in DOMAIN server.sessions /\ d.kind = "rebind"
                 THEN [server EXCEPT !.sessions[d.id].addr = d.port[1]] ELSE server
  /\ UNCHANGED <<conf, now, relay, tasks, clients>>

\* The server sends to a session, once.
ServerSend(id) ==
  /\ id \in DOMAIN server.sessions
  /\ LET to == server.sessions[id]
         d == ToSocket(to.addr, "data", id, Part(to.owner, 0, "data", 1, 1))
     IN  /\ d \notin net
         /\ net' = net \cup {d}
  /\ UNCHANGED <<conf, now, relay, tasks, server, clients>>

Tick ==
  /\ now < conf.max_time
  /\ now' = now + 1
  /\ UNCHANGED <<conf, relay, tasks, server, net, clients>>

Next ==
  \/ \E c \in DOMAIN clients : SendInit(c) \/ SendCookieReply(c)
  \/ \E c \in DOMAIN clients, kind \in {"data", "rebind"} : SendSession(c, kind)
  \/ \E d \in net : handle_client_packet(d)
  \/ \E t \in DOMAIN tasks : \/ forward_handshake_packet(t)
                              \/ Deadline(t)
                              \/ ReceiveFails(t)
                              \/ HandshakeResponseSent(t)
                              \/ HandshakeResponseUnsent(t)
                              \/ RemoveCount(t)
                              \/ HandshakeFragmentBind(t)
  \/ \E t \in DOMAIN tasks, d \in net : \/ HandshakeResponse(t, d)
                                        \/ HandshakeFragment(t, d)
                                        \/ CookieRequest(t, d)
  \/ \E d \in net : handle_upstream_packet(d) \/ ServerHandshake(d) \/ ServerSession(d)
  \/ \E id \in DOMAIN server.sessions : ServerSend(id)
  \/ cleanup_expired
  \/ Tick

Spec == Init /\ [][Next]_vars

-----------------------------------------------------------------------------
(* Properties *)

Live(t) == tasks[t].pc # "done"

\* The relay's books balance at every step of its tasks: a permit is out for every task that runs,
\* the count of an address is its sessions and the removals between their two locks, and neither
\* limit on sessions is passed, whatever order binds, failed sends and expiries come in.
RelayBooks ==
  /\ relay.permits + Cardinality({t \in DOMAIN tasks : Live(t)}) = conf.max_concurrent
  /\ Cardinality(DOMAIN relay.sessions) <= conf.max_sessions
  /\ \A ip \in {Ip(c) : c \in conf.clients} :
       LET sessions == Cardinality(OfIp(relay, DOMAIN relay.sessions, ip))
           removals == Cardinality({t \in DOMAIN tasks :
                                     tasks[t].pc = "uncount" /\ Ip(tasks[t].client) = ip})
           count == IF ip \in DOMAIN relay.ip_counts THEN relay.ip_counts[ip] ELSE 0
       IN  count = sessions + removals /\ sessions <= conf.max_sessions_per_ip

\* A handshake the relay forwarded whole arrives whole: the server never holds every piece of a
\* client's message without having put them together.
HandshakesArrive ==
  \A c \in conf.clients, n \in 0 .. conf.inits :
    UNION {DOMAIN e.chunks : e \in {x \in server.reasm.entries :
                                     x.key[2] = n /\ \E i \in DOMAIN x.chunks : x.chunks[i] = c}}
      # 1 .. conf.parts
=============================================================================
