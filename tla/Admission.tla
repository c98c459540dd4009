------------------------------ MODULE Admission ------------------------------
(***************************************************************************)
(* How a handshake gets in: the client's attempts (client.rs), a network   *)
(* that loses, repeats and reorders datagrams, and the server's three      *)
(* handshake paths (server.rs: the Linux workers, AF_XDP, the portable     *)
(* loop) through the rate limiter, the reassembly buffer, the level        *)
(* policy, the replay cache, the lockouts, the user store and the session  *)
(* table.  The server's control loop is serial, so a handler is one step.  *)
(*                                                                         *)
(* A client keeps its address over its attempts, which is what happens     *)
(* when the socket cannot be rebound: a late answer to one attempt then    *)
(* reaches the next.  What is sent stays in `net` and may be delivered     *)
(* any number of times, or never.                                          *)
(*                                                                         *)
(* `conf` is the deployment: the path, whether users log in, whether the   *)
(* inits are sealed with the server's KEM key, the level clients ask for   *)
(* and the least the server takes, and whether an init fits one datagram.  *)
(* Its attempts, frag_ids and max_time bound what happens in it.           *)
(***************************************************************************)
EXTENDS Sequences, Gates, Handshake, Reassembly

CONSTANTS Clients, Deployments,
          Start,       \* the clock runs from Start to the deployment's max_time
          RateLimit, ReplayLimit, LockoutPolicy, AccountPolicy, ServerReassembly, ClientReassembly,
          MaxSessions

VARIABLES conf, now, server, net, clients

vars == <<conf, now, server, net, clients>>

\* The sender and receiver at the other end; no client has its address.
Server == "server"

ASSUME AddressAssumption == Server \notin Clients
ASSUME PathAssumption == \A d \in Deployments : d.path \in {"linux", "portable", "afxdp"}
ASSUME ClockAssumption == Start \in Nat /\ ReplayLimit.ttl \in Int
ASSUME LockoutAssumption ==
  LockoutPolicy.tuple_max_attempts \in Nat \ {0} /\ LockoutPolicy.tuple_lockout_secs \in Nat

\* The account all clients log in to; passwords are right or wrong.
User == "user"
Row == [enabled |-> TRUE, failed_attempts |-> 0, locked_until |-> 0]

\* The server.  made, parsed, paid and failures are history: every session created, the inits
\* parsed and the tokens spent per address, and the times its logins failed since one succeeded.
NewServer(c0) ==
  [limiter |-> NewLimiter(Start), replay |-> EmptyMap, lockout |-> NewLockout, row |-> Row,
   reasm |-> EmptyReassembly, live |-> {}, bridged |-> {}, made |-> {},
   parsed |-> [c \in Clients |-> 0], paid |-> [c \in Clients |-> 0],
   failures |-> [c \in Clients |-> <<>>], evicted |-> FALSE]

Idle == [state |-> "Idle", attempt |-> 0, level |-> 0, eph |-> <<>>, random |-> <<>>,
         session |-> 0, keys |-> <<>>, config |-> <<>>, reasm |-> EmptyReassembly]

Init ==
  /\ conf \in Deployments
  /\ now = Start
  /\ server = NewServer(conf)
  /\ net = {}
  /\ clients = [c \in Clients |-> Idle]

-----------------------------------------------------------------------------
(* Messages *)

\* The pieces of a plain init: the cut is inside the client's key.
PlainParts(i) == [k \in 1..2 |-> IF k = 1 THEN [level |-> i.level, eph |-> i.eph[1]]
                                 ELSE [eph |-> i.eph[2], random |-> i.random, creds |-> i.creds]]
PlainInit(p) == [level |-> p[1].level, eph |-> <<p[1].eph, p[2].eph>>,
                 random |-> p[2].random, creds |-> p[2].creds]

\* The pieces of a sealed init, which opens only when they belong together.
SealedParts(i) == [k \in 1..2 |-> [sealed |-> i, piece |-> k]]
Opens(p) == p[1].sealed = p[2].sealed
decrypt(p) == p[1].sealed

Message(i) ==
  IF conf.sealed THEN [inner |-> "EncryptedHandshakeInit", parts |-> SealedParts(i)]
                 ELSE [inner |-> "HandshakeInit", parts |-> PlainParts(i)]

\* The pieces of a response: session and ciphertext in one, the rest in the other.
ResponseParts(r) ==
  [k \in 1..2 |-> IF k = 1 THEN [session |-> r.session, ct |-> r.ct]
                  ELSE [pk |-> r.pk, signature |-> r.signature, server_random |-> r.server_random,
                        config |-> r.config, key_confirmation |-> r.key_confirmation,
                        kdf_timestamp |-> r.kdf_timestamp]]
decode_handshake_response(p) ==
  [session |-> p[1].session, ct |-> p[1].ct, pk |-> p[2].pk, signature |-> p[2].signature,
   server_random |-> p[2].server_random, config |-> p[2].config,
   key_confirmation |-> p[2].key_confirmation, kdf_timestamp |-> p[2].kdf_timestamp]

\* build_handshake_fragments: one datagram per piece; a piece counts one byte.
Fragments(from, to, id, m) ==
  {[from |-> from, to |-> to,
    frag |-> [frag_id |-> id, inner |-> m.inner, index |-> k, total |-> 2,
              payload |-> m.parts[k], bytes |-> 1]] : k \in 1..2}

-----------------------------------------------------------------------------
(* What the three paths share *)

security_level_accepted(level) == level >= conf.min_level

kem_keypair_for_level(level) == conf.kem

\* A token for the address, if there is one.
Charge(s, addr) ==
  LET a == allow(s.limiter, RateLimit, addr, now)
  IN  [ok |-> a.ok, s |-> [s EXCEPT !.limiter = a.limiter,
                                    !.paid[addr] = IF a.ok THEN @ + 1 ELSE @]]

\* The random is new: it is remembered from here on, whatever becomes of the handshake.
Fresh(s, init) ==
  LET r == check_and_insert(s.replay, ReplayLimit, init.random, now)
  IN  [ok |-> r.ok, s |-> [s EXCEPT !.replay = r.entries], init |-> init]

Refused(s) == [ok |-> FALSE, s |-> s]
Passed(s) == [ok |-> TRUE, s |-> s]

\* authenticate_credentials: the lockout is looked at, the password verified, the outcome counted.
\* An error of the store refuses the client and counts for nothing.
authenticate_credentials(s, right, addr) ==
  LET v == verify_password(s.row, AccountPolicy, right, now)
      known == [s EXCEPT !.row = v.row]
      wrong == [known EXCEPT !.failures[addr] = Append(@, now),
                             !.evicted = @ \/ ~(Size(s.lockout.tuples) < LockoutPolicy.max_entries)]
  IN  IF check_lockout(s.lockout, User, addr, now) # "none" THEN {Refused(s)}
      ELSE {Refused(s)} \cup
           (IF v.ok THEN {Passed([known EXCEPT !.lockout = record_success(@, User, addr),
                                               !.failures[addr] = <<>>])}
            ELSE {Refused([wrong EXCEPT !.lockout = t]) :
                    t \in record_failure(s.lockout, LockoutPolicy, User, addr, now)})

\* The credentials of an init, where users log in.
CheckUser(s, init, addr) ==
  IF ~conf.auth THEN {Passed(s)}
  ELSE IF ~kem_keypair_for_level(init.level) \/ init.creds = "none" THEN {Refused(s)}
  ELSE authenticate_credentials(s, init.creds = "right", addr)

\* The session is created, with an address of its own, and its response completed.
NewId(s) == Cardinality(s.made) + 1
NoAddress == 0
Response(s, init) ==
  refresh_handshake_response_auth(process_init(init, NewId(s), NoAddress, now), init.random, NewId(s))

create_session_dual_stack_with_level(s, init, addr, sent) ==
  LET r == Response(s, init)
  IN  [s EXCEPT !.made = @ \cup {[id |-> r.session, random |-> init.random, addr |-> addr,
                                  keys |-> ServerKeys(r), config |-> NewId(s), at |-> now, sent |-> sent]},
                !.live = @ \cup {r.session}]

\* encode_handshake_response_as_packets: a response of this protocol never fits one datagram.
encode_handshake_response_as_packets(s, init, addr, id) ==
  Fragments(Server, addr, id, [inner |-> "HandshakeResponse", parts |-> ResponseParts(Response(s, init))])

\* The first n packets in their order.
Queued(packets, n) == {d \in packets : d.frag.index <= n}

Done(s) == {[s |-> s, sent |-> {}]}

\* process_init fails on some keys that no client made.
KeyRefused(s, init) == IF init.eph[1] # init.eph[2] THEN Done(s) ELSE {}

-----------------------------------------------------------------------------
(* The Linux workers' path *)

\* Parse, open, level, replay.
handle_handshake_init_internal_prechecked_parse(s, m, addr) ==
  LET seen == [s EXCEPT !.parsed[addr] = @ + 1]
      sealed == m.inner = "EncryptedHandshakeInit"
      init == IF sealed THEN decrypt(m.parts) ELSE PlainInit(m.parts)
  IN  IF sealed /\ (~security_level_accepted(decrypt(m.parts).level)
                    \/ ~kem_keypair_for_level(decrypt(m.parts).level) \/ ~Opens(m.parts))
      THEN Refused(seen)
      ELSE IF ~security_level_accepted(init.level) THEN Refused(seen)
      ELSE Fresh(seen, init)

\* Mutant: a session whose response was cut short stays.
handle_handshake_init_internal_prechecked_answerKept(s, init, addr, id, n) ==
  IF Cardinality(s.live) >= MaxSessions THEN [s |-> s, sent |-> {}]
  ELSE [s |-> create_session_dual_stack_with_level(s, init, addr, n),
        sent |-> Queued(encode_handshake_response_as_packets(s, init, addr, id), n)]

\* Create the session, sign, queue n of the packets; when not all fit, and likewise when signing
\* fails (n = 0), the session is taken away again.
handle_handshake_init_internal_prechecked_answer(s, init, addr, id, n) ==
  LET packets == encode_handshake_response_as_packets(s, init, addr, id)
      made == create_session_dual_stack_with_level(s, init, addr, n)
  IN  IF Cardinality(s.live) >= MaxSessions THEN [s |-> s, sent |-> {}]
      ELSE [s |-> IF n = Cardinality(packets) THEN made ELSE [made EXCEPT !.live = s.live],
            sent |-> Queued(packets, n)]

handle_handshake_init_internal_prechecked(s, m, addr) ==
  LET p == handle_handshake_init_internal_prechecked_parse(s, m, addr)
  IN  IF ~p.ok THEN Done(p.s)
      ELSE UNION {IF ~a.ok THEN Done(a.s)
                  ELSE KeyRefused(a.s, p.init) \cup
                       {handle_handshake_init_internal_prechecked_answer(a.s, p.init, addr, id, n) :
                          id \in conf.frag_ids, n \in 0..2} :
                    a \in CheckUser(p.s, p.init, addr)}

handle_handshake_init_internal(s, m, addr) ==
  LET c == Charge(s, addr)
  IN  IF c.ok THEN handle_handshake_init_internal_prechecked(c.s, m, addr) ELSE Done(c.s)

\* Mutant: only the first piece of an init is charged.
handle_handshake_fragment_internalByIndex(s, f, addr) ==
  LET c == IF f.index = 1 THEN Charge(s, addr) ELSE Passed(s)
  IN  IF ~c.ok THEN Done(c.s)
      ELSE UNION {LET kept == [c.s EXCEPT !.reasm = o.buffer]
                  IN  IF o.message = NoMessage THEN Done(kept)
                      ELSE handle_handshake_init_internal_prechecked(kept, o.message, addr) :
                    o \in insert(c.s.reasm, ServerReassembly, addr, f, now)}

\* A piece that would open an entry is charged; a message that is complete is handled at once.
handle_handshake_fragment_internal(s, f, addr) ==
  LET c == IF contains(s.reasm, <<addr, f.frag_id>>) THEN Passed(s) ELSE Charge(s, addr)
  IN  IF ~c.ok THEN Done(c.s)
      ELSE UNION {LET kept == [c.s EXCEPT !.reasm = o.buffer]
                  IN  IF o.message = NoMessage THEN Done(kept)
                      ELSE handle_handshake_init_internal_prechecked(kept, o.message, addr) :
                    o \in insert(c.s.reasm, ServerReassembly, addr, f, now)}

-----------------------------------------------------------------------------
(* The AF_XDP path: plain inits in one datagram only *)

handle_handshake_init_afxdp_parse(s, m, addr) ==
  LET seen == [s EXCEPT !.parsed[addr] = @ + 1]
      init == PlainInit(m.parts)
  IN  IF m.inner # "HandshakeInit" \/ ~security_level_accepted(init.level) THEN Refused(seen)
      ELSE Fresh(seen, init)

handle_handshake_init_afxdp_answer(s, init, addr, id, n) ==
  LET packets == encode_handshake_response_as_packets(s, init, addr, id)
      made == create_session_dual_stack_with_level(s, init, addr, n)
  IN  IF Cardinality(s.live) >= MaxSessions THEN [s |-> s, sent |-> {}]
      ELSE [s |-> IF n = Cardinality(packets) THEN made ELSE [made EXCEPT !.live = s.live],
            sent |-> Queued(packets, n)]

handle_handshake_init_afxdp(s, m, addr) ==
  LET c == Charge(s, addr)
      p == handle_handshake_init_afxdp_parse(c.s, m, addr)
  IN  IF ~c.ok THEN Done(c.s)
      ELSE IF ~p.ok THEN Done(p.s)
      ELSE UNION {IF ~a.ok THEN Done(a.s)
                  ELSE KeyRefused(a.s, p.init) \cup
                       {handle_handshake_init_afxdp_answer(a.s, p.init, addr, id, n) :
                          id \in conf.frag_ids, n \in 0..2} :
                    a \in CheckUser(p.s, p.init, addr)}

\* handle_afxdp_control: a session that was made is copied to the workers' table.
\* The copy fails when that table is full.
sync_session(s, o) == {o, [o EXCEPT !.s.bridged = @ \cup (o.s.live \ s.live)]}

handle_afxdp_control(s, m, addr) ==
  UNION {sync_session(s, o) : o \in handle_handshake_init_afxdp(s, m, addr)}

-----------------------------------------------------------------------------
(* The portable path *)

handle_handshake_init_prechecked_parse(s, m, addr) ==
  LET seen == [s EXCEPT !.parsed[addr] = @ + 1]
      sealed == m.inner = "EncryptedHandshakeInit"
      init == IF sealed THEN decrypt(m.parts) ELSE PlainInit(m.parts)
  IN  IF sealed /\ (~security_level_accepted(decrypt(m.parts).level)
                    \/ ~kem_keypair_for_level(decrypt(m.parts).level) \/ ~Opens(m.parts))
      THEN Refused(seen)
      ELSE IF ~security_level_accepted(init.level) THEN Refused(seen)
      ELSE Fresh(seen, init)

\* A send that fails stops the answer and leaves the session; only a failed signature removes it.
handle_handshake_init_prechecked_answer(s, init, addr, id, n, signed) ==
  LET made == create_session_dual_stack_with_level(s, init, addr, n)
  IN  IF Cardinality(s.live) >= MaxSessions THEN [s |-> s, sent |-> {}]
      ELSE IF ~signed THEN [s |-> [made EXCEPT !.live = s.live], sent |-> {}]
      ELSE [s |-> made, sent |-> Queued(encode_handshake_response_as_packets(s, init, addr, id), n)]

handle_handshake_init_prechecked(s, m, addr) ==
  LET p == handle_handshake_init_prechecked_parse(s, m, addr)
  IN  IF ~p.ok THEN Done(p.s)
      ELSE UNION {IF ~a.ok THEN Done(a.s)
                  ELSE KeyRefused(a.s, p.init) \cup
                       {handle_handshake_init_prechecked_answer(a.s, p.init, addr, id, n, signed) :
                          id \in conf.frag_ids, n \in 0..2, signed \in BOOLEAN} :
                    a \in CheckUser(p.s, p.init, addr)}

handle_handshake_init(s, m, addr) ==
  LET c == Charge(s, addr)
  IN  IF c.ok THEN handle_handshake_init_prechecked(c.s, m, addr) ELSE Done(c.s)

handle_handshake_fragment(s, f, addr) ==
  LET c == IF contains(s.reasm, <<addr, f.frag_id>>) THEN Passed(s) ELSE Charge(s, addr)
  IN  IF ~c.ok THEN Done(c.s)
      ELSE UNION {LET kept == [c.s EXCEPT !.reasm = o.buffer]
                  IN  IF o.message = NoMessage THEN Done(kept)
                      ELSE handle_handshake_init_prechecked(kept, o.message, addr) :
                    o \in insert(c.s.reasm, ServerReassembly, addr, f, now)}

-----------------------------------------------------------------------------
(* The server's dispatch of a datagram d, by what it carries *)

Whole(d) == "message" \in DOMAIN d

\* handle_control_message, of the Linux workers' control loop.
handle_control_message(s, d) ==
  IF Whole(d) THEN handle_handshake_init_internal(s, d.message, d.from)
  ELSE handle_handshake_fragment_internal(s, d.frag, d.from)

\* handle_packet, of the portable loop.
handle_packet(s, d) ==
  IF Whole(d) THEN handle_handshake_init(s, d.message, d.from)
  ELSE handle_handshake_fragment(s, d.frag, d.from)

\* The control channel of the AF_XDP path carries whole inits only.  The workers do not put
\* any on it yet (afxdp_workers.rs:739): this path is its consumer, given a producer.
AfXdpControlChannel(s, d) == IF Whole(d) THEN handle_afxdp_control(s, d.message, d.from) ELSE Done(s)

Receive ==
  \E d \in {d \in net : d.to = Server} :
    \E o \in CASE conf.path = "linux" -> handle_control_message(server, d)
                [] conf.path = "portable" -> handle_packet(server, d)
                [] conf.path = "afxdp" -> AfXdpControlChannel(server, d) :
      /\ server' = o.s
      /\ net' = net \cup o.sent
      /\ UNCHANGED <<conf, now, clients>>

-----------------------------------------------------------------------------
(* The client *)

\* perform_handshake, up to the wait: an init, sealed and with credentials as configured, is sent.
Connect(c) ==
  /\ clients[c].state \in {"Idle", "Failed"}
  /\ clients[c].attempt < conf.attempts[c]
  /\ \E id \in conf.frag_ids, creds \in (IF conf.auth THEN {"right", "wrong"} ELSE {"none"}) :
       LET n == clients[c].attempt + 1
           init == create_init(<<c, n>>, conf.level, creds)
       IN  /\ clients' = [clients EXCEPT ![c] = [Idle EXCEPT !.state = "AwaitingResponse", !.attempt = n,
                                                  !.level = conf.level, !.eph = init.eph, !.random = init.random]]
           /\ net' = net \cup (IF conf.whole THEN {[from |-> c, to |-> Server, message |-> Message(init)]}
                               ELSE Fragments(c, Server, id, Message(init)))
  /\ UNCHANGED <<conf, now, server>>

\* perform_handshake, its receive loop: a piece of a response is kept, a whole one decides.
ReceiveResponse(c) ==
  /\ clients[c].state = "AwaitingResponse"
  /\ \E d \in {d \in net : d.to = c} :
       \E o \in insert(clients[c].reasm, ClientReassembly, Server, d.frag, now) :
         clients' = [clients EXCEPT ![c] =
                       LET h == [@ EXCEPT !.reasm = o.buffer]
                       IN  IF o.message = NoMessage THEN h
                           ELSE [process_response(h, decode_handshake_response(o.message.parts))
                                   EXCEPT !.reasm = EmptyReassembly]]
  /\ UNCHANGED <<conf, now, server, net>>

\* The attempt times out, or has ignored too many packets.
GiveUp(c) ==
  /\ clients[c].state = "AwaitingResponse"
  /\ clients' = [clients EXCEPT ![c].state = "Failed", ![c].reasm = EmptyReassembly]
  /\ UNCHANGED <<conf, now, server, net>>

Tick ==
  /\ now < conf.max_time
  /\ now' = now + 1
  /\ UNCHANGED <<conf, server, net, clients>>

Next ==
  \/ Receive
  \/ \E c \in Clients : Connect(c) \/ ReceiveResponse(c) \/ GiveUp(c)
  \/ Tick

Spec == Init /\ [][Next]_vars

-----------------------------------------------------------------------------
(* Properties *)

\* A client that reaches Established (client.rs, perform_handshake) holds the keys and the address
\* of a session the server made for exactly that attempt: no late, repeated or mixed piece of
\* another attempt's init or response can lead it anywhere else.
Agreement ==
  \A c \in Clients :
    clients[c].state = "Established" =>
      \E m \in server.made : /\ m.id = clients[c].session
                             /\ m.addr = c
                             /\ m.random = clients[c].random
                             /\ m.keys = clients[c].keys
                             /\ m.config = clients[c].config

\* However often the pieces of an init arrive, two sessions for one client random are made at
\* least a replay TTL apart (handshake_replay.rs, check_and_insert), even when the cache is full.
AdmittedOnce ==
  \A m, k \in server.made :
    m # k /\ m.random = k.random => m.at - k.at >= ReplayLimit.ttl \/ k.at - m.at >= ReplayLimit.ttl

\* Every init an address had parsed and every entry it holds in the reassembly buffer was paid for
\* with a token of its own (server.rs, handle_handshake_fragment*): whatever the order in which
\* pieces arrive, expire, are evicted or disagree.
EveryEntryIsPaid ==
  \A c \in Clients :
    server.parsed[c] + Cardinality({e \in server.reasm.entries : e.key[1] = c}) <= server.paid[c]

\* A session the Linux or the AF_XDP path leaves in the table was answered in full (server.rs,
\* "Partial transmission of a fragmented response is fatal"), and the workers' AF_XDP table
\* holds no other.
SessionsWereAnswered ==
  conf.path # "portable" =>
    \A m \in server.made : m.id \in server.live \cup server.bridged => m.sent = 2

\* The bytes the reassembly buffers account for are those of the entries they hold, and neither
\* an entry nor the number of entries outgrows its limit (fragment.rs, insert).
ReassemblyAccounts ==
  /\ \A b \in {server.reasm} \cup {clients[c].reasm : c \in Clients} : b.total_bytes = Bytes(b.entries)
  /\ Cardinality(server.reasm.entries) <= ServerReassembly.max_entries
  /\ \A e \in server.reasm.entries : e.bytes <= ServerReassembly.max_entry_bytes

\* The times in s that lie less than d before t.
Recent(s, d, t) == {i \in 1..Len(s) : t - s[i] < d}

\* While no entry had to be evicted, an address without a successful login is let try at most
\* tuple_max_attempts passwords in any tuple_lockout_secs (auth_lockout.rs, record_failure),
\* whatever locks of the other kinds, expiries and store errors come between.
GuessesAreBounded ==
  ~server.evicted =>
    \A c \in Clients :
      Cardinality(Recent(server.failures[c], LockoutPolicy.tuple_lockout_secs, now))
        <= LockoutPolicy.tuple_max_attempts
=============================================================================
