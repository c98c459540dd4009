----------------------------- MODULE MCNetwork -----------------------------
(* The server, the relay and what the datagrams pass through, each on small *)
(* instances.  The machines below share no state, so one run explores them  *)
(* side by side: part says which one a behaviour is of, and conf and the    *)
(* slots a to h hold its variables.  What a property says it says of its    *)
(* own machine, whose module explains it.                                   *)
EXTENDS Integers

CONSTANTS c1, c2, NoMessage

VARIABLES part, conf, a, b, c, d, e, f, g, h

vars == <<part, conf, a, b, c, d, e, f, g, h>>

-----------------------------------------------------------------------------
(* Deployments *)

\* A backend with clients, tunnel addresses, and bounds on sessions, packets, moves and TUN reads.
PathOf(backend, clients, ips, sessions, sends, moves, reads) ==
  [backend |-> backend, clients |-> clients, ips |-> ips, sessions |-> sessions, sends |-> sends,
   moves |-> moves, reads |-> reads]

Paths == {PathOf("workers", {c1, c2}, {1}, 2, 0, 0, 3), PathOf("single", {c1, c2}, {1}, 3, 0, 0, 3),
          PathOf("workers", {c1}, {1}, 1, 2, 2, 0), PathOf("workers", {c1, c2}, {1, 2}, 2, 1, 0, 0),
          PathOf("queued", {c1, c2}, {1}, 2, 0, 0, 3), PathOf("uring", {c1}, {1}, 1, 2, 1, 1),
          PathOf("afxdp", {c1}, {1}, 1, 2, 1, 1), PathOf("portable", {c1}, {1, 2}, 1, 2, 2, 0)}

\* AF_XDP sockets: one that also sends, and two that share the frames, to receive or to send too.
Sockets == {[workers |-> 1, tx |-> TRUE], [workers |-> 2, tx |-> FALSE], [workers |-> 2, tx |-> TRUE]}

Urings == {[sqpoll |-> TRUE, packets |-> 1, sends |-> 3, faults |-> 1],
           [sqpoll |-> FALSE, packets |-> 2, sends |-> 3, faults |-> 0]}

PoolKinds == {[kind |-> "BufferPool", size |-> 1, threads |-> 3, packets |-> 5],
              [kind |-> "BytesPool", size |-> 1, threads |-> 3, packets |-> 4],
              [kind |-> "server", size |-> 2, threads |-> 3, packets |-> 6],
              [kind |-> "tun", size |-> 2, threads |-> 1, packets |-> 6]}

Rates == {[pps |-> 1, bps |-> 0, workers |-> 2, sizes |-> {1}, ticks |-> 3],
          [pps |-> 2, bps |-> 2, workers |-> 2, sizes |-> {1, 2}, ticks |-> 3]}

\* The relay: one client that tries twice, clients behind one address, behind two, with traffic,
\* with cookies, and with a handshake in pieces.
Fragments == [max_entries |-> 4, max_total_bytes |-> 8, max_entry_bytes |-> 2,
              max_fragments_per_entry |-> 2, max_payload |-> 1, ttl |-> 5]
Limits == [max_sessions |-> 2, max_sessions_per_ip |-> 1, max_tracked_ips |-> 2, timeout |-> 1,
           rate_limit_pps |-> 0, rate_limit_bps |-> 0, global_max_pps |-> 2, max_pps |-> 2,
           max_rate_ips |-> 2, rate_idle_ttl |-> 1, max_concurrent |-> 2, response_timeout |-> 2,
           reassembly |-> Fragments, cookies |-> FALSE, duplicates |-> FALSE,
           clients |-> {<<1, 1>>}, parts |-> 1, answers |-> 1, inits |-> 1, sends |-> 0, max_time |-> 3]
Pieces == [Limits EXCEPT !.parts = 2, !.max_time = 1]
Relays == {[Limits EXCEPT !.clients = {<<1, 1>>, <<1, 2>>}],
           [Limits EXCEPT !.inits = 2, !.max_sessions_per_ip = 2, !.max_time = 2],
           [Limits EXCEPT !.clients = {<<1, 1>>, <<2, 1>>}, !.max_sessions = 1, !.max_concurrent = 1],
           [Limits EXCEPT !.answers = 2, !.sends = 2, !.rate_limit_pps = 1, !.max_time = 2,
                           !.duplicates = TRUE],
           [Limits EXCEPT !.cookies = TRUE], Pieces}

\* Server processes: killed and started again, dropping privileges, with a queue per worker, with
\* panics that unwind, without NAT, on AF_XDP, and with configurations that validate refuses.
Config == [prefix |-> 24, server_ip |-> 1, max_sessions |-> 0, prefix_v6 |-> 64, server_v6 |-> "inside",
           mtu |-> 1400, session_timeout |-> 300, keepalive |-> 25, log_file |-> TRUE, log_size |-> 10,
           log_files |-> 5, level |-> 3, admin_api |-> TRUE, token |-> 32, repeated |-> FALSE,
           metrics |-> TRUE, loopback |-> FALSE, enable_nat |-> TRUE, run_as |-> "none",
           allow_root |-> TRUE]
Caps == [cpu_cores |-> 4, nic_rx_queues |-> 1, has_tun_multiqueue |-> TRUE, has_afxdp |-> FALSE,
         has_io_uring |-> FALSE]
Killed == [config |-> Config, caps |-> Caps, unwind |-> FALSE, starts |-> 2, faults |-> 2, kills |-> 1,
           panics |-> 0]
Once == [Killed EXCEPT !.starts = 1, !.kills = 0]
Invalid == {[Once EXCEPT !.config.prefix = 31], [Once EXCEPT !.config.server_ip = 300],
            [Once EXCEPT !.config.server_v6 = "outside"], [Once EXCEPT !.config.mtu = 500],
            [Once EXCEPT !.config.keepalive = 0], [Once EXCEPT !.config.log_size = 0],
            [Once EXCEPT !.config.level = 4], [Once EXCEPT !.config.max_sessions = 255],
            [Once EXCEPT !.config.token = 8], [Once EXCEPT !.config.allow_root = FALSE]}
Servers == Invalid \cup
           {Killed,
            [Once EXCEPT !.config.run_as = "user", !.config.prefix_v6 = 0],
            [Once EXCEPT !.config.run_as = "group", !.faults = 0],
            [Once EXCEPT !.caps.nic_rx_queues = 2, !.caps.has_io_uring = TRUE, !.faults = 1,
                         !.unwind = TRUE, !.panics = 1],
            [Once EXCEPT !.unwind = TRUE, !.panics = 3, !.faults = 1],
            [Killed EXCEPT !.config.enable_nat = FALSE, !.starts = 1],
            [Once EXCEPT !.caps.has_afxdp = TRUE],
            [Once EXCEPT !.caps.has_afxdp = TRUE, !.caps.nic_rx_queues = 2]}

\* User databases: one of an older release, one with failures enough to lock, one that does not
\* exist yet, and one in which a name is given twice.
Old == [names |-> {"ann"}, passwords |-> {"red", "blue"}, table |-> "old", logins |-> 2, commands |-> 2,
        restarts |-> 1, ticks |-> 0]
Databases == {Old,
              [Old EXCEPT !.logins = 4, !.commands = 1, !.restarts = 0, !.ticks = 2],
              [Old EXCEPT !.table = "absent", !.names = {"ann", ""}, !.passwords = {"red", "short"},
                           !.restarts = 0],
              [Old EXCEPT !.commands = 3, !.logins = 2, !.restarts = 0, !.table = "current"]}

\* STUN clients (servers, calls, remappings), and pairs of peers behind NATs.
Stun(servers, calls, remaps) ==
  [what |-> "stun", servers |-> servers, calls |-> calls, remaps |-> remaps,
   nat |-> <<"None", "None">>, private |-> FALSE, lan |-> FALSE]
Punch(nat, private, lan) ==
  [what |-> "punch", servers |-> 0, calls |-> 0, remaps |-> 0, nat |-> nat, private |-> private,
   lan |-> lan]
Endpoints == {Stun(0, 1, 0), Stun(2, 1, 1), Stun(1, 2, 1), Punch(<<"None", "Symmetric">>, FALSE, FALSE),
              Punch(<<"FullCone", "PortRestrictedCone">>, TRUE, TRUE),
              Punch(<<"AddressRestrictedCone", "Symmetric">>, TRUE, FALSE),
              Punch(<<"PortRestrictedCone", "Symmetric">>, FALSE, FALSE)}

\* Address pools: IPv4 networks at three places, and IPv6 ones of half an address, more and less.
Pool(v6, base, prefix) == [v6 |-> v6, base |-> base, prefix |-> prefix]
Networks == {Pool(FALSE, <<0, 8>>, 2), Pool(FALSE, <<0, 24>>, 3), Pool(FALSE, <<0, 28>>, 3),
             Pool(TRUE, <<5, 0>>, 4), Pool(TRUE, <<5, 12>>, 4), Pool(TRUE, <<5, 12>>, 6),
             Pool(TRUE, <<4, 0>>, 2)}

\* The admin API: sessions listed and ended by two connections, an address at its limit, more
\* addresses than are tracked, and every route with a token, its hash, and neither.
Asks(method, path, id, bearer) == [method |-> method, path |-> path, id |-> id, bearer |-> bearer]
Managed == [token |-> "plain", enable_metrics |-> TRUE, ips |-> {1}, limit |-> 3, shutdown |-> FALSE,
            requests |-> {Asks("GET", "sessions", 0, "right"), Asks("DELETE", "session", 1, "right")},
            asks |-> 3, sessions |-> 2, ticks |-> 0]
Limited == [Managed EXCEPT !.requests = {Asks("GET", "health", 0, "none")}, !.limit = 1, !.asks = 4,
                            !.sessions = 0, !.ticks = 4]
Routes == {Asks("GET", "sessions", 0, "none"), Asks("GET", "session", 0, "right"),
           Asks("GET", "session", 1, "right"), Asks("DELETE", "session", 0, "right"),
           Asks("DELETE", "session", 1, "wrong"), Asks("GET", "stats", 0, "right"),
           Asks("GET", "metrics", 0, "right"), Asks("GET", "root", 0, "none"),
           Asks("POST", "other", 0, "right"), Asks("GET", "other", 0, "none"),
           Asks("GET", "health", 0, "none")}
Apis == {Managed, Limited, [Limited EXCEPT !.ips = {1, 2}, !.asks = 2]} \cup
        {[Managed EXCEPT !.token = token, !.requests = Routes, !.asks = 1, !.shutdown = TRUE,
                          !.sessions = 1, !.enable_metrics = (token = "plain")] :
           token \in {"none", "plain", "hash"}}

-----------------------------------------------------------------------------
(* The machines *)

Codecs == INSTANCE Wire WITH message <- conf, len <- a, result <- b

Path == INSTANCE DataPath WITH Deployments <- Paths, Capacity <- 2, BatchSize <- 2, server <- a,
  reader <- b, batch <- c, clients <- d, net <- e

Umem == INSTANCE Xsk WITH Deployments <- Sockets, NumFrames <- 4, FrameSize <- 2, Headroom <- 1,
  RingSize <- 2, Width <- 4,
  Prefill <- 1, allocator <- a, rings <- b, workers <- c

Uring == INSTANCE IoUring WITH Deployments <- Urings, DEFAULT_RING_SIZE <- 2, NUM_BUFFERS <- 2,
  worker <- a, uring <- b, kernel <- c, spent <- d

Pools == INSTANCE BufferPools WITH Deployments <- PoolKinds, DEFAULT_OVERFLOW_MULTIPLIER <- 1,
  MIN_OVERFLOW_CAP <- 1, pool <- a, overflow <- b, threads <- c, spent <- d

Limiter == INSTANCE RateLimiter WITH Deployments <- Rates, SECOND <- 2, now <- a, lim <- b,
  threads <- c, granted <- d

Forwarder == INSTANCE Relay WITH Deployments <- Relays, now <- a, relay <- b, tasks <- c,
  server <- d, net <- e, clients <- f

Process == INSTANCE ServerLifecycle WITH Deployments <- Servers, MAX_WORKER_RESTARTS <- 1,
  DEFAULT_MAX_WORKER_PANICS <- 2, host <- a, proc <- b, threads <- c, spent <- d

Users == INSTANCE UserStore WITH Deployments <- Databases, now <- a, db <- b, server <- c, cli <- d,
  upgrades <- e, past <- f, spent <- g

Cookies == INSTANCE Cookie WITH Addresses <- {1, 2}, Difficulties <- {0, 1, 33},
  DEFAULT_COOKIE_MAX_AGE_SECS <- 1, COOKIE_SECRET_ROTATION <- 2, FUTURE_SKEW <- 1, MaxIssued <- 2,
  MaxTime <- 4, MaxSteps <- 1, now <- conf, wall <- a, secrets <- b, difficulty <- c, issued <- d,
  clients <- e, replies <- f, verdict <- g, spent <- h

Keys == INSTANCE Rekey WITH MaxSessions <- 2, MaxRequests <- 4, Times <- {1, 2}, client <- conf,
  server <- a, net <- b, fresh <- c

Traversal == INSTANCE NatTraversal WITH Deployments <- Endpoints, Retries <- 1, Attempts <- 2,
  PredictionRange <- 1, stun <- a, nat <- b, peers <- c, net <- d

Addresses == INSTANCE AddressPools WITH Deployments <- Networks, Width <- 5, LowBits <- 4,
  Holders <- 1..4, pool <- a, held <- b

Admin == INSTANCE AdminApi WITH Deployments <- Apis, MAX_CONCURRENT_CONNECTIONS <- 2,
  MAX_TRACKED_IPS <- 1, RATE_LIMIT_WINDOW <- 2, RATE_LIMIT_CLEANUP_INTERVAL <- 1, now <- a,
  limiter <- b, http <- c, conns <- d, table <- e, past <- f

-----------------------------------------------------------------------------
IdleH == h = "idle"
IdleG == g = "idle" /\ IdleH
IdleF == f = "idle" /\ IdleG
IdleE == e = "idle" /\ IdleF
IdleD == d = "idle" /\ IdleE
IdleC == c = "idle" /\ IdleD

Init ==
  \/ part = "Wire" /\ Codecs!Init /\ IdleC
  \/ part = "DataPath" /\ Path!Init /\ IdleF
  \/ part = "Xsk" /\ Umem!Init /\ IdleD
  \/ part = "IoUring" /\ Uring!Init /\ IdleE
  \/ part = "BufferPools" /\ Pools!Init /\ IdleE
  \/ part = "RateLimiter" /\ Limiter!Init /\ IdleE
  \/ part = "Relay" /\ Forwarder!Init /\ IdleG
  \/ part = "ServerLifecycle" /\ Process!Init /\ IdleE
  \/ part = "UserStore" /\ Users!Init /\ IdleH
  \/ part = "Cookie" /\ Cookies!Init
  \/ part = "Rekey" /\ Keys!Init /\ IdleD
  \/ part = "NatTraversal" /\ Traversal!Init /\ IdleE
  \/ part = "AddressPools" /\ Addresses!Init /\ IdleC
  \/ part = "AdminApi" /\ Admin!Init /\ IdleG

Next ==
  \/ part = "Wire" /\ Codecs!Next /\ UNCHANGED <<part, c, d, e, f, g, h>>
  \/ part = "DataPath" /\ Path!Next /\ UNCHANGED <<part, f, g, h>>
  \/ part = "Xsk" /\ Umem!Next /\ UNCHANGED <<part, d, e, f, g, h>>
  \/ part = "IoUring" /\ Uring!Next /\ UNCHANGED <<part, e, f, g, h>>
  \/ part = "BufferPools" /\ Pools!Next /\ UNCHANGED <<part, e, f, g, h>>
  \/ part = "RateLimiter" /\ Limiter!Next /\ UNCHANGED <<part, e, f, g, h>>
  \/ part = "Relay" /\ Forwarder!Next /\ UNCHANGED <<part, g, h>>
  \/ part = "ServerLifecycle" /\ Process!Next /\ UNCHANGED <<part, e, f, g, h>>
  \/ part = "UserStore" /\ Users!Next /\ UNCHANGED <<part, h>>
  \/ part = "Cookie" /\ Cookies!Next /\ UNCHANGED <<part>>
  \/ part = "Rekey" /\ Keys!Next /\ UNCHANGED <<part, d, e, f, g, h>>
  \/ part = "NatTraversal" /\ Traversal!Next /\ UNCHANGED <<part, e, f, g, h>>
  \/ part = "AddressPools" /\ Addresses!Next /\ UNCHANGED <<part, c, d, e, f, g, h>>
  \/ part = "AdminApi" /\ Admin!Next /\ UNCHANGED <<part, g, h>>

Spec == Init /\ [][Next]_vars

\* The relay alone, with a handshake in two pieces.
PiecesSpec == Init /\ part = "Relay" /\ conf = Pieces /\ [][Next]_vars

-----------------------------------------------------------------------------
(* Properties *)

\* Everything to_bytes can write from_bytes takes back whole, and refuses cut short, but for the
\* answer of a server with more than eight name servers (messages.rs:1294, 1343), which is refused;
\* and a decoder indexes past the end of its buffer, whatever lengths the buffer declares, at the two
\* unchecked reads of Certificate (pki.rs:336) and RendezvousInfo (nat.rs:1106) only (messages.rs,
\* header.rs, fragment.rs, nat.rs, pki.rs and the key files).
CodecsAgree == part = "Wire" => Codecs!DecodersStayInBounds /\ Codecs!EncodedIsDecoded

\* Every handshake message the code can build, at either security level and with the longest
\* credentials, fits the fragment count and arrives whole in datagrams below the threshold.
HandshakesFitFragments == part = "Wire" => Codecs!HandshakesFitFragments

\* What the server sends goes to an endpoint of the client that owns the session, carries only
\* packets for its tunnel address, and what reaches the TUN device has the session's source address:
\* stale lookups, leases given again and half-sent batches included (tun_workers.rs, udp_workers.rs).
TrafficStaysWithItsSession == part = "DataPath" => Path!TrafficStaysWithItsSession

\* A session stays bound to the endpoint the server acknowledged until the client asks for another:
\* late, repeated and reordered rebinds never move it back (client.rs 1451-1495, server.rs 3906-3947).
AckedBinding == part = "DataPath" => Path!AckedBinding

\* A buffer has one holder: a frame of the UMEM is in one ring, in the allocator or in one worker's
\* hand, up to a push and a pop of two workers in one slot at once (socket.rs 358-518, umem.rs
\* 134-190); a buffer lent to io_uring is neither read, lent again nor lost (io_uring_udp.rs); a
\* pooled buffer is handed out whole and empty, and the overflow count is that of the overflow
\* buffers in use (buffer_pool.rs 131-260).
BuffersHeldOnce ==
  /\ part = "Xsk" => Umem!FrameHeldOnce
  /\ part = "IoUring" => Uring!UringBuffersHeldOnce
  /\ part = "BufferPools" => Pools!BuffersStayFit

\* However the workers interleave in check and refill, a session is never let through more than its
\* burst and its rate for the time that has passed (session_manager.rs 95-230); and no address has
\* more requests of the admin API let through than two windows allow (admin.rs 114-170).
RateHolds ==
  /\ part = "RateLimiter" => Limiter!RateHolds
  /\ part = "AdminApi" => Admin!RequestsAreBounded

\* What is counted is what there is: the relay's permits and counts are those of its tasks and
\* sessions and its limits are never passed, whatever order binds, failed sends and expiries come in
\* (session.rs, relay.rs); a tunnel address is held by one session or free, and lies in the network
\* (session_manager.rs 398-576); the admin API's permits are those of its connections, its lists are
\* current, and a session is ended once, for the holder of the token (admin.rs).
BooksBalance ==
  /\ part = "Relay" => Forwarder!RelayBooks
  /\ part = "AddressPools" => Addresses!PoolsAreSound
  /\ part = "AdminApi" => Admin!AdminBooks

\* "Any pre-session / handshake-related packet from the client has to travel through the dedicated
\* forwarding socket" (relay.rs 930-938): the server never holds every piece of a client's message
\* without having put them together.
HandshakesArrive == part = "Relay" => Forwarder!HandshakesArrive

\* A server process that ends by itself leaves no firewall rule that it did not find there, wherever
\* a step of initialize or run failed and whatever killed processes left behind (nat.rs, server.rs).
CleanExit == part = "ServerLifecycle" => Process!CleanExit

\* A stored password was given to that very user by an administrator and the failures counted are
\* those since the last success, although a detached thread may write a hash late; and a login is
\* accepted only against the row as it is at that moment (user_store.rs 300-620).
AccountsHold ==
  /\ [](part = "UserStore" => Users!AccountBooks)
  /\ [][part = "UserStore" => Users!AcceptedAgainstRow]_vars

\* An answer counts for the question it answers, however late, repeated or reordered it comes: a
\* solved cookie admits its client while it is fresh and no other (handshake.rs 330-560), a rekey
\* answer moves the client to the keys the server holds (handshake.rs 960-1130), and a STUN or punch
\* answer yields an endpoint that is good (nat.rs).
LateAnswersAreHarmless ==
  /\ part = "Cookie" => Cookies!CookiesServeTheirClient
  /\ part = "Rekey" => Keys!RekeyAgrees
  /\ part = "NatTraversal" => Traversal!EndpointsAreGood
=============================================================================
