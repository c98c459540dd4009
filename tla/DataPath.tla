----------------------------- MODULE DataPath ------------------------------
(***************************************************************************)
(* The server's data path and its control messages, with the clients that  *)
(* roam: udp_workers.rs, tun_workers.rs, the handlers of server.rs and the *)
(* rebind of hpn-client-core/src/client.rs.                                *)
(*                                                                         *)
(* Threads: receivers (Deliver), the reader of the TUN device (Read, Use,  *)
(* Flush), the sender worker (FillOutbound, FillResponse, FlushSender),    *)
(* the writer of the TUN device (WriteTun), the main task (Handle, Ack),   *)
(* the cleanup task (Expire), and each client.  They meet in the session   *)
(* table, in bounded channels and in the batches of SendBatch.             *)
(*                                                                         *)
(* A datagram names its session, its counter and the key it is sealed      *)
(* with.  SecureSession has the threads inside decrypt_packet; here it     *)
(* takes the current key only, and each of its counters once.              *)
(***************************************************************************)
EXTENDS SendBatch, FiniteSets

CONSTANTS
  Deployments,  \* [backend, clients, ips, sessions, sends, moves, reads]: a backend, clients, tunnel
                \* addresses, and bounds on the sessions created, a client's packets and moves, and
                \* the packets read from the TUN device
  Capacity,     \* CHANNEL_CAPACITY and TUN_CHANNEL_CAPACITY
  BatchSize     \* TUN_SENDMMSG_BATCH_SIZE and MAX_SEND_BATCH_SIZE

VARIABLES
  conf,     \* one of Deployments
  server,   \* session table, channels, the main task, and what the kernel took (sent)
  reader,   \* the TUN reader between a lookup and its use
  batch,    \* the batches of the reader and of the sender worker
  clients,  \* client -> its session and its rebind
  net       \* datagrams of clients, delivered in any order and any number of times

vars == <<conf, server, reader, batch, clients, net>>

None == [kind |-> "none"]
Endpoint(c, n) == [kind |-> "endpoint", client |-> c, n |-> n]

NewServer == [sessions |-> <<>>, table |-> <<>>, routes |-> <<>>, leases |-> <<>>,
              tun |-> <<>>, control |-> <<>>, outbound |-> <<>>, response |-> <<>>,
              ack |-> None, read |-> 0, sent |-> {}]
NewClient == [session |-> 0, key |-> 0, ip |-> 0, seen |-> {}, next |-> 1, at |-> 0, sends |-> 0,
              known |-> 0, pending |-> FALSE, sending |-> FALSE, bound |-> None]

Init == /\ conf \in Deployments
        /\ server = NewServer
        /\ reader = None
        /\ batch = [reader |-> new(BatchSize), sender |-> new(BatchSize)]
        /\ clients = [c \in conf.clients |-> NewClient]
        /\ net = {}

-----------------------------------------------------------------------------
(* Sessions (SessionManager) *)

Without(f, x) == [y \in DOMAIN f \ {x} |-> f[y]]
Extended(f, x, v) == [y \in DOMAIN f \cup {x} |-> IF y = x THEN v ELSE f[y]]

get_session(s, id) == id \in DOMAIN s.sessions
get_session_by_ip(s, ip) == IF ip \in DOMAIN s.routes THEN s.routes[ip] ELSE 0

get_session_and_addr_by_ip(s, ip) ==
  LET id == get_session_by_ip(s, ip)
  IN IF get_session(s, id) THEN [kind |-> "found", id |-> id, addr |-> s.sessions[id].addr]
                           ELSE None

update_client_addr(s, id, addr) ==
  IF get_session(s, id) THEN [s EXCEPT !.sessions[id].addr = addr] ELSE s

\* The lifecycle callback of the AF_XDP server takes the session out of its table as well.
remove_session(s, id) ==
  IF get_session(s, id)
    THEN [s EXCEPT !.sessions = Without(@, id), !.routes = Without(@, s.sessions[id].ip),
                   !.table = Without(@, id)]
    ELSE s

\* leases remembers who got which session and address, for the properties.
create_session(s, c, ip, addr) ==
  LET id == Len(s.leases) + 1
  IN [s EXCEPT !.routes = Extended(@, ip, id),
               !.leases = Append(@, [client |-> c, ip |-> ip]),
               !.sessions = Extended(@, id, [ip |-> ip, addr |-> addr, key |-> 1,
                                             seen |-> {}, next |-> 1])]

decrypts(x, d) == d.key = x.key /\ d.ctr \notin x.seen
decrypt_packet(s, d) == [s EXCEPT !.sessions[d.id].seen = @ \cup {d.ctr}]

\* encrypt_packet numbers a datagram for session id and seals it with the session's key.
Sealed(s, id, to, kind, about) ==
  [kind |-> kind, id |-> id, key |-> s.sessions[id].key, ctr |-> s.sessions[id].next,
   to |-> to, about |-> about]
encrypt_packet(s, id) == [s EXCEPT !.sessions[id].next = @ + 1]

\* Either end: a new key starts with an empty window and the first counter.
update_keys(x) == [x EXCEPT !.key = @ + 1, !.seen = {}, !.next = 1]

\* try_send: a full channel drops the message.
try_send(q, m) == IF Len(q) < Capacity THEN Append(q, m) ELSE q

\* The portable server answers on its socket; the others queue for a sender.
Respond(s, d) == IF conf.backend = "portable" THEN [s EXCEPT !.sent = @ \cup {d}]
                 ELSE [s EXCEPT !.response = try_send(@, d)]

-----------------------------------------------------------------------------
(* Data from clients *)

Accepted(s, d) == [s EXCEPT !.tun = try_send(@, [id |-> d.id, src |-> d.about])]

\* The address is compared after decryption, so that a packet from elsewhere uses up its counter.
DataTaken(s, d, limited, checks_source) ==
  IF ~get_session(s, d.id) THEN s
  ELSE IF ~decrypts(s.sessions[d.id], d) THEN s
  ELSE IF \/ s.sessions[d.id].addr # d.from
          \/ limited
          \/ checks_source /\ d.about # s.sessions[d.id].ip
       THEN decrypt_packet(s, d)
       ELSE Accepted(decrypt_packet(s, d), d)

process_packet(s, d, limited) ==
  IF d.kind = "data" THEN DataTaken(s, d, limited, TRUE)
                     ELSE [s EXCEPT !.control = try_send(@, d)]

\* Coalesced datagrams are taken apart and processed one by one.
run_receiver_worker(s, d, limited) == process_packet(s, d, limited)

process_data_packet_io_uring(s, d, limited) == DataTaken(s, d, limited, TRUE)

process_io_uring_segment(s, d, limited) ==
  IF d.kind = "data" THEN process_data_packet_io_uring(s, d, limited)
                     ELSE [s EXCEPT !.control = try_send(@, d)]

run_io_uring_worker(s, d, limited) == process_io_uring_segment(s, d, limited)

\* The portable path neither limits the rate nor looks at the inner source.
handle_data_packet(s, d) == DataTaken(s, d, FALSE, FALSE)

\* The table of the AF_XDP workers holds copies of a session's keys, with one nonce prefix: the
\* one the server seals with.
sync_session(s, id) ==
  IF get_session(s, id)
    THEN [s EXCEPT !.table = Extended(@, id, [key |-> s.sessions[id].key, prefix |-> "server"])]
    ELSE s

\* SessionCrypto::decrypt; clients seal with their own prefix.
OpensInTable(s, d) == /\ d.id \in DOMAIN s.table
                      /\ s.table[d.id].key = d.key
                      /\ s.table[d.id].prefix = "client"

\* Neither the address nor the inner source is looked at, and control messages are passed on with
\* a placeholder for the address.
run_afxdp_worker(s, d, limited) ==
  IF d.kind # "data" THEN [s EXCEPT !.control = try_send(@, [d EXCEPT !.from = None])]
  ELSE IF OpensInTable(s, d) /\ ~limited THEN Accepted(s, d)
  ELSE s

-----------------------------------------------------------------------------
(* Control messages from clients *)

\* What every handler does first: find the session, open the packet, and note where it came from.
Opens(s, d) == get_session(s, d.id) /\ decrypts(s.sessions[d.id], d)
AddrChanged(s, d) == s.sessions[d.id].addr # d.from
Reply(s, d, kind) ==
  Respond(encrypt_packet(s, d.id), Sealed(s, d.id, s.sessions[d.id].addr, kind, None))

handle_keepalive_internal(s, d) ==
  IF ~Opens(s, d) THEN s
  ELSE IF AddrChanged(s, d) THEN decrypt_packet(s, d)
  ELSE Reply(decrypt_packet(s, d), d, "keepalive_reply")

handle_keepalive(s, d) == handle_keepalive_internal(s, d)

\* The answer is sealed with the old keys, and the new ones are in force before it is queued.
Rekeyed(s, d) ==
  LET answered == encrypt_packet(s, d.id)
  IN Respond([answered EXCEPT !.sessions[d.id] = update_keys(@)],
             Sealed(s, d.id, s.sessions[d.id].addr, "rekey_response", None))

handle_rekey_internal(s, d) ==
  IF ~Opens(s, d) THEN s
  ELSE IF AddrChanged(s, d) THEN decrypt_packet(s, d)
  ELSE Rekeyed(decrypt_packet(s, d), d)

\* The portable handler does not compare the address.
handle_rekey(s, d) == IF Opens(s, d) THEN Rekeyed(decrypt_packet(s, d), d) ELSE s

\* A rebind moves the session to where the packet came from, whatever endpoint it names.
handle_control_internal(s, d) ==
  IF ~Opens(s, d) THEN s
  ELSE IF d.kind = "close" THEN remove_session(decrypt_packet(s, d), d.id)
  ELSE [update_client_addr(decrypt_packet(s, d), d.id, d.from)
          EXCEPT !.ack = [kind |-> "ack", id |-> d.id, addr |-> d.from]]

handle_control(s, d) == handle_control_internal(s, d)

\* The signature over the address takes time; an address that drifted meanwhile drops the answer.
send_rebind_ack_internal(s) ==
  LET a == s.ack
      done == [s EXCEPT !.ack = None]
  IN IF ~get_session(s, a.id) THEN done
     ELSE IF s.sessions[a.id].addr # a.addr THEN encrypt_packet(done, a.id)
     ELSE Respond(encrypt_packet(done, a.id), Sealed(s, a.id, a.addr, "rebind_ack", a.addr))

send_rebind_ack(s) == send_rebind_ack_internal(s)

\* The handlers of the AF_XDP server know no address to compare, and none to move to.
is_valid_afxdp_peer_addr(addr) == addr # None
AddrChangedAfxdp(s, d) == is_valid_afxdp_peer_addr(d.from) /\ AddrChanged(s, d)

handle_keepalive_afxdp(s, d) ==
  IF ~Opens(s, d) THEN s
  ELSE IF AddrChangedAfxdp(s, d) THEN decrypt_packet(s, d)
  ELSE Reply(decrypt_packet(s, d), d, "keepalive_reply")

\* Only an answer that could be queued copies the new keys to the table.
handle_rekey_afxdp(s, d) ==
  IF ~Opens(s, d) THEN s
  ELSE IF AddrChangedAfxdp(s, d) THEN decrypt_packet(s, d)
  ELSE IF Len(s.response) < Capacity THEN sync_session(Rekeyed(decrypt_packet(s, d), d), d.id)
  ELSE Rekeyed(decrypt_packet(s, d), d)

\* send_rebind_ack_afxdp signs the address the session has, wherever the packet came from.
handle_control_afxdp(s, d) ==
  IF ~Opens(s, d) THEN s
  ELSE IF d.kind = "close" THEN remove_session(decrypt_packet(s, d), d.id)
  ELSE LET moved == IF is_valid_afxdp_peer_addr(d.from)
                      THEN update_client_addr(decrypt_packet(s, d), d.id, d.from)
                      ELSE decrypt_packet(s, d)
       IN [moved EXCEPT !.ack = [kind |-> "ack", id |-> d.id, addr |-> moved.sessions[d.id].addr]]

send_rebind_ack_afxdp(s) == send_rebind_ack_internal(s)

handle_afxdp_control(s, d) ==
  CASE d.kind = "keepalive" -> handle_keepalive_afxdp(s, d)
    [] d.kind = "rekey" -> handle_rekey_afxdp(s, d)
    [] d.kind \in {"close", "rebind"} -> handle_control_afxdp(s, d)

handle_control_message(s, d) ==
  CASE d.kind = "keepalive" -> handle_keepalive_internal(s, d)
    [] d.kind = "rekey" -> handle_rekey_internal(s, d)
    [] d.kind \in {"close", "rebind"} -> handle_control_internal(s, d)

handle_packet(s, d) ==
  CASE d.kind = "data" -> handle_data_packet(s, d)
    [] d.kind = "keepalive" -> handle_keepalive(s, d)
    [] d.kind = "rekey" -> handle_rekey(s, d)
    [] d.kind \in {"close", "rebind"} -> handle_control(s, d)

-----------------------------------------------------------------------------
(* Receivers and the main task *)

\* The portable server has one task: it receives only when the handler before it is done.
Deliver ==
  \E d \in net, limited \in BOOLEAN :
    /\ limited => d.kind = "data" /\ conf.backend # "portable"
    /\ conf.backend = "portable" => server.ack = None
    /\ server' = CASE conf.backend = "portable" -> handle_packet(server, d)
                   [] conf.backend = "afxdp" -> run_afxdp_worker(server, d, limited)
                   [] conf.backend = "uring" -> run_io_uring_worker(server, d, limited)
                   [] OTHER -> run_receiver_worker(server, d, limited)
    /\ server' # server
    /\ UNCHANGED <<conf, reader, batch, clients, net>>

Handle ==
  /\ server.control # <<>> /\ server.ack = None
  /\ LET d == Head(server.control)
         s == [server EXCEPT !.control = Tail(@)]
     IN server' = IF conf.backend = "afxdp" THEN handle_afxdp_control(s, d)
                                            ELSE handle_control_message(s, d)
  /\ UNCHANGED <<conf, reader, batch, clients, net>>

Ack == /\ server.ack # None
       /\ server' = CASE conf.backend = "portable" -> send_rebind_ack(server)
                      [] conf.backend = "afxdp" -> send_rebind_ack_afxdp(server)
                      [] OTHER -> send_rebind_ack_internal(server)
       /\ UNCHANGED <<conf, reader, batch, clients, net>>

\* cleanup_expired, at any time.
Expire == \E id \in DOMAIN server.sessions :
            /\ server' = remove_session(server, id)
            /\ UNCHANGED <<conf, reader, batch, clients, net>>

-----------------------------------------------------------------------------
(* The TUN device *)

\* A packet for an address no session has is dropped; conf says which reader runs.
Read ==
  \E ip \in conf.ips :
    LET found == get_session_and_addr_by_ip(server, ip)
    IN /\ conf.backend # "portable"
       /\ reader = None /\ server.read < conf.reads
       /\ reader' = IF found = None THEN None
                    ELSE [kind |-> "use", id |-> found.id, addr |-> found.addr, ip |-> ip]
       /\ server' = [server EXCEPT !.read = @ + 1]
       /\ UNCHANGED <<conf, batch, clients, net>>

\* The reader that encrypts itself finds the session again, and drops the packet when the session
\* is gone or no slot of its batch is free.  A batch it fills it flushes at once.
InlineWith(id, addr) ==
  IF get_session(server, id) /\ ~is_full(batch.reader)
    THEN /\ batch' = [batch EXCEPT !.reader =
                        commit(@, Sealed(server, id, addr, "data", reader.ip))]
         /\ server' = encrypt_packet(server, id)
         /\ reader' = IF is_full(batch'.reader) THEN [kind |-> "flush"] ELSE None
    ELSE reader' = None /\ UNCHANGED <<batch, server>>

InlineByIp == InlineWith(get_session_by_ip(server, reader.ip), reader.addr)
Inline == InlineWith(reader.id, reader.addr)

\* The reader VpnServer::run starts for a device with one queue does the same.
InlineSingleQueue == Inline

\* The reader that queues leaves the encryption to the sender worker.
Enqueue == /\ server' = [server EXCEPT !.outbound =
                           try_send(@, [id |-> reader.id, addr |-> reader.addr, ip |-> reader.ip])]
           /\ reader' = None
           /\ UNCHANGED batch

\* The reader of the AF_XDP server has a socket of its own, and loses what the socket cannot take.
SendAtOnce ==
  /\ LET d == Sealed(server, reader.id, reader.addr, "data", reader.ip)
         s == encrypt_packet(server, reader.id)
     IN server' \in IF get_session(server, reader.id) THEN {s, [s EXCEPT !.sent = @ \cup {d}]}
                                                       ELSE {server}
  /\ reader' = None
  /\ UNCHANGED batch

Use == /\ reader # None /\ reader.kind = "use"
       /\ CASE conf.backend = "queued" -> Enqueue
            [] conf.backend = "afxdp" -> SendAtOnce
            [] conf.backend = "single" -> InlineSingleQueue
            [] OTHER -> Inline
       /\ UNCHANGED <<conf, clients, net>>

\* Also when the device had nothing to read FLUSH_AFTER_EMPTY_READS times.
Flush ==
  /\ IF reader = None THEN ~is_empty(batch.reader) ELSE reader.kind = "flush"
  /\ \E end \in FlushEndings(batch.reader) :
       /\ server' = [server EXCEPT !.sent = @ \cup
                        {Leading(batch.reader, end.sent)[i] : i \in 1 .. end.sent}]
       /\ batch' = [batch EXCEPT !.reader = flush(@, end.sent, end.ending)]
  /\ reader' = None
  /\ UNCHANGED <<conf, clients, net>>

\* A write the device refuses is logged, and the packet is gone as well.
spawn_tun_writer_with_tracker(s) == [s EXCEPT !.tun = Tail(@)]
WriterSingleQueue(s) == [s EXCEPT !.tun = Tail(@)]
WriterAfxdp(s) == [s EXCEPT !.tun = Tail(@)]

WriteTun == /\ server.tun # <<>>
            /\ server' = CASE conf.backend = "afxdp" -> WriterAfxdp(server)
                           [] conf.backend \in {"single", "portable"} -> WriterSingleQueue(server)
                           [] OTHER -> spawn_tun_writer_with_tracker(server)
            /\ UNCHANGED <<conf, reader, batch, clients, net>>

-----------------------------------------------------------------------------
(* The sender worker *)

\* The session as it is now, the address looked up when the packet was read.
encrypt_packet_zero_copy(s, p) ==
  IF get_session(s, p.id) THEN Sealed(s, p.id, p.addr, "data", p.ip) ELSE None

FillOutbound ==
  /\ server.outbound # <<>> /\ ~is_full(batch.sender)
  /\ LET p == Head(server.outbound)
         s == [server EXCEPT !.outbound = Tail(@)]
         d == encrypt_packet_zero_copy(s, p)
     IN IF d # None
          THEN server' = encrypt_packet(s, p.id) /\ batch' = [batch EXCEPT !.sender = commit(@, d)]
          ELSE server' = s /\ UNCHANGED batch
  /\ UNCHANGED <<conf, reader, clients, net>>

\* An answer that is sent on its own, or lost: queue_send of io_uring fails when no slot is free,
\* and the task of the AF_XDP server when its socket does.
queue_send(s, d) == {s, [s EXCEPT !.sent = @ \cup {d}]}
SendResponse(s, d) == {s, [s EXCEPT !.sent = @ \cup {d}]}

FillResponse ==
  /\ server.response # <<>>
  /\ LET d == Head(server.response)
         s == [server EXCEPT !.response = Tail(@)]
     IN CASE conf.backend = "uring" -> server' \in queue_send(s, d) /\ UNCHANGED batch
          [] conf.backend = "afxdp" -> server' \in SendResponse(s, d) /\ UNCHANGED batch
          [] OTHER -> /\ ~is_full(batch.sender)
                      /\ server' = s
                      /\ batch' = [batch EXCEPT !.sender = add(@, d)]
  /\ UNCHANGED <<conf, reader, clients, net>>

FlushSender ==
  /\ ~is_empty(batch.sender)
  /\ \E end \in FlushEndings(batch.sender) :
       /\ server' = [server EXCEPT !.sent = @ \cup
                        {Leading(batch.sender, end.sent)[i] : i \in 1 .. end.sent}]
       /\ batch' = [batch EXCEPT !.sender = flush(@, end.sent, end.ending)]
  /\ UNCHANGED <<conf, reader, clients, net>>

-----------------------------------------------------------------------------
(* Clients *)

Here(c) == Endpoint(c, clients[c].at)

\* A completed handshake (Admission) gives the client a session and a free address.
Connect(c) ==
  \E ip \in conf.ips \ DOMAIN server.routes :
    /\ Len(server.leases) < conf.sessions
    /\ LET s == create_session(server, c, ip, Here(c))
       IN server' = IF conf.backend = "afxdp" THEN sync_session(s, Len(s.leases)) ELSE s
    /\ clients' = [clients EXCEPT ![c].session = Len(server.leases) + 1, ![c].key = 1,
                                  ![c].ip = ip, ![c].seen = {}, ![c].next = 1, ![c].known = clients[c].at,
                                  ![c].bound = Here(c)]
    /\ UNCHANGED <<conf, reader, batch, net>>

Move(c) == /\ clients[c].at < conf.moves /\ clients[c].session # 0
           /\ clients' = [clients EXCEPT ![c].at = @ + 1]
           /\ UNCHANGED <<conf, server, reader, batch, net>>

Outgoing(c, kind, about) ==
  [kind |-> kind, id |-> clients[c].session, key |-> clients[c].key, ctr |-> clients[c].next,
   from |-> Here(c), about |-> about]
MaySend(c) == clients[c].session # 0 /\ clients[c].sends < conf.sends

\* send_data, send_keepalive and initiate_rekey (Rekey has its guards); a packet of an earlier lease
\* keeps its source.
Send(c) ==
  \E kind \in {"data", "keepalive", "rekey"} : \E about \in IF kind = "data" THEN conf.ips ELSE {0} :
    /\ MaySend(c)
    /\ net' = net \cup {Outgoing(c, kind, about)}
    /\ clients' = [clients EXCEPT ![c].sends = @ + 1, ![c].next = @ + 1]
    /\ UNCHANGED <<conf, server, reader, batch>>

disconnect(c) ==
  /\ MaySend(c)
  /\ net' = net \cup {Outgoing(c, "close", 0)}
  /\ clients' = [clients EXCEPT ![c].sends = @ + 1, ![c].session = 0, ![c].bound = None]
  /\ UNCHANGED <<conf, server, reader, batch>>

\* discover_nat stores the new endpoint before send_rebind may refuse it.
Rebinds(c, refused) ==
  /\ MaySend(c) /\ ~clients[c].sending /\ clients[c].known # clients[c].at
  /\ net' = IF refused THEN net ELSE net \cup {Outgoing(c, "rebind", 0)}
  /\ clients' = [clients EXCEPT
                   ![c].known = clients[c].at,
                   ![c].sends = IF refused THEN @ ELSE @ + 1,
                   ![c].next = IF refused THEN @ ELSE @ + 1,
                   ![c].sending = ~refused,
                   ![c].bound = IF refused THEN @ ELSE None]
  /\ UNCHANGED <<conf, server, reader, batch>>
check_and_rebindAgain(c) == Rebinds(c, FALSE)
check_and_rebind(c) == Rebinds(c, clients[c].pending)

\* rebind_pending is set after the send returns.
send_rebind_returns(c) ==
  /\ clients[c].sending
  /\ clients' = [clients EXCEPT ![c].sending = FALSE, ![c].pending = TRUE]
  /\ UNCHANGED <<conf, server, reader, batch, net>>

process_control_message(k, d) == [k EXCEPT !.pending = FALSE, !.bound = d.about]
process_rekey_response(k) == update_keys(k)

\* process_packet of the client.
Receive(c) ==
  \E d \in server.sent :
    /\ d.to = Here(c) /\ d.id = clients[c].session /\ decrypts(clients[c], d)
    /\ LET k == [clients[c] EXCEPT !.seen = @ \cup {d.ctr}]
       IN clients' = [clients EXCEPT ![c] =
                        CASE d.kind = "rekey_response" -> process_rekey_response(k)
                          [] d.kind = "rebind_ack" -> process_control_message(k, d)
                          [] OTHER -> k]
    /\ UNCHANGED <<conf, server, reader, batch, net>>

ClientStep(c) == \/ Connect(c) \/ Move(c) \/ Send(c) \/ disconnect(c) \/ check_and_rebind(c)
                 \/ send_rebind_returns(c) \/ Receive(c)

Next == \/ Deliver \/ Handle \/ Ack \/ Expire
        \/ Read \/ Use \/ Flush \/ WriteTun
        \/ FillOutbound \/ FillResponse \/ FlushSender
        \/ \E c \in conf.clients : ClientStep(c)

Spec == Init /\ [][Next]_vars

-----------------------------------------------------------------------------
(* Properties *)

\* What the server sends goes to an endpoint of the client that owns the session it is sealed for,
\* carries only packets for that client's tunnel address, and an acknowledged endpoint is the one
\* the acknowledgement travels to: lookups that are stale by the time they are used, expired
\* sessions, addresses that are leased again, and half-sent batches included
\* (tun_workers.rs:522-740, udp_workers.rs:1083-1267, server.rs:4057-4135).  What reaches the TUN
\* device from a worker has the source address of its session (udp_workers.rs:966-1010).
TrafficStaysWithItsSession ==
  /\ \A d \in server.sent :
       LET lease == server.leases[d.id]
       IN /\ d.to.client = lease.client
          /\ d.kind = "data" => d.about = lease.ip
          /\ d.kind = "rebind_ack" => d.about = d.to
  /\ conf.backend \notin {"portable", "afxdp"} =>
       \A i \in 1 .. Len(server.tun) :
         server.tun[i].src = server.leases[server.tun[i].id].ip

\* An endpoint the server acknowledged, or the one of the handshake, is where the session is bound
\* until the client asks for another: late, repeated and reordered rebinds never move the session
\* back (client.rs:1451-1495 and 766-830, server.rs:3906-3947).
AckedBinding ==
  \A c \in conf.clients :
    clients[c].bound # None /\ get_session(server, clients[c].session)
      => server.sessions[clients[c].session].addr = clients[c].bound

\* A batch that could be sent in part only keeps the rest: what it will hand to the kernel next is
\* what was committed and is not sent yet (syscall_batch.rs:497-504).
UnsentAreKept ==
  \A b \in {batch.reader, batch.sender} : Leading(b, b.count) = b.owed
=============================================================================
