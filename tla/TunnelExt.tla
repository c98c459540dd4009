----------------------------- MODULE TunnelExt -----------------------------
(***************************************************************************)
(* The packet tunnel extension of macOS: the entry points the system calls *)
(* and the tasks of hpn-tunnel-ext/src/lib.rs, over the connection of      *)
(* hpn-client-core/src/connection.rs and the life cycle, keepalives and    *)
(* reconnection of client.rs.                                              *)
(*                                                                         *)
(* The system calls start and stop from one thread, wake from another and  *)
(* its packet pump from a third.  A rebind gives the connection a new      *)
(* socket; a recv in flight stays with the one it began on.  Time is       *)
(* counted in keepalive intervals, which the ticks of the task are apart   *)
(* (of five seconds or more), and keepalive_timeout is conf.count of them. *)
(* The server is reduced to what it answers, and to which address.         *)
(***************************************************************************)
EXTENDS Integers, FiniteSets, Functions

CONSTANT Deployments  \* [count, auto_reconnect, max_attempts: of the configuration; starts, stops,
                      \*  expiries, ticks, wakes, packets, sessions: bounds; rekeys:
                      \*  whether a rekey may be due; faults: whether the send of a keepalive
                      \*  may fail; capacity: of the channels]

VARIABLES
  conf,     \* one of Deployments
  ext,      \* the statics of the extension
  client,   \* the VpnClient and its UdpConnection
  tasks,    \* where the threads and the tasks are
  server,   \* session -> the address the server knows for it
  net,      \* the datagrams on their way
  spent     \* what was used of the bounds

vars == <<conf, ext, client, tasks, server, net, spent>>

None == 0
Server == 0

At(pc) == [pc |-> pc]
Off == At("off")

NewExt == [cached |-> FALSE, channels |-> FALSE, tunnel |-> FALSE, rekey_requested |-> FALSE,
           uplink |-> 0, downlink |-> 0]

Never == -1

\* sent and received are the intervals since last_keepalive_sent and last_keepalive_received.  tried
\* counts the calls of send_keepalive in the session since the last reply that was read, and behind
\* is for an interval timer that a reconnect has kept from its ticks.
new(socket) ==
  [state |-> "Disconnected", session |-> None, connect_in_progress |-> FALSE, attempts |-> 0,
   missed |-> 0, pending |-> FALSE, sent |-> Never, received |-> Never, rekey |-> FALSE,
   socket |-> socket, shutdown |-> FALSE, tried |-> 0, behind |-> FALSE]

Init ==
  /\ conf \in Deployments
  /\ ext = NewExt
  /\ client = new(1)
  /\ tasks = [caller |-> At("idle"), waker |-> At("idle"), downlink |-> Off, keepalive |-> Off,
              uplink |-> Off]
  /\ server = <<>>
  /\ net = {}
  /\ spent = [starts |-> 0, stops |-> 0, expiries |-> 0, ticks |-> 0, wakes |-> 0, packets |-> 0]

-----------------------------------------------------------------------------
(* UdpConnection and VpnClient *)

\* An address is a socket of the client, or Server.
send(kind, session) == [to |-> Server, from |-> client.socket, kind |-> kind, session |-> session]

recv == client.socket

rebind(c) == [c EXCEPT !.socket = @ + 1]

set_state(c, state) == [c EXCEPT !.state = state]

clear_rekey_state(c) == [c EXCEPT !.rekey = FALSE]

reset_keepalive_state(c) ==
  [c EXCEPT !.sent = Never, !.received = Never, !.pending = FALSE, !.missed = 0]

\* Mutant: the keepalives of the dead session stay counted.
reset_for_reconnectKeepsMissed(c) == clear_rekey_state(c)

reset_for_reconnect(c) == clear_rekey_state(reset_keepalive_state(c))

should_reconnect(c) ==
  conf.auto_reconnect /\ (conf.max_attempts = 0 \/ c.attempts < conf.max_attempts)

\* connect_with_credentials up to the first packet of perform_handshake, and after the last.
Connecting(c) == set_state([c EXCEPT !.connect_in_progress = TRUE], "Connecting")
Connected(c, session) ==
  set_state([c EXCEPT !.session = session, !.connect_in_progress = FALSE, !.tried = 0],
            "Connected")
ConnectFailed(c) == set_state([c EXCEPT !.connect_in_progress = FALSE], "Disconnected")

process_keepalive_reply(c) ==
  [c EXCEPT !.pending = FALSE, !.missed = 0, !.received = 0, !.tried = 0]

process_rekey_response(c) == IF c.rekey THEN clear_rekey_state(c) ELSE c

\* process_packet: what it leaves of the client.  A response to a handshake is dropped here, and the
\* server sends no control message to a client that asks for no rebind.
process_packet(c, d) ==
  IF c.session = None \/ c.session # d.session THEN c
  ELSE CASE d.kind = "keepalive_reply" -> process_keepalive_reply(c)
         [] d.kind = "rekey_response" -> process_rekey_response(c)
         [] OTHER -> c

is_connection_dead(c) == c.missed >= conf.count

-----------------------------------------------------------------------------
(* start_with_json_bytes *)

Spend(what) == spent' = [spent EXCEPT ![what] = @ + 1]

Step(who, where) == tasks' = [tasks EXCEPT ![who] = where]

\* A fresh client and connection, and a handshake the caller waits for.
hpn_tunnel_start ==
  /\ tasks.caller.pc = "idle" /\ ~ext.tunnel /\ spent.starts < conf.starts
  /\ Spend("starts")
  /\ client' = Connecting(new(client.socket + 1))
  /\ net' = net \cup {[send("init", None) EXCEPT !.from = client.socket + 1]}
  /\ Step("caller", [pc |-> "handshake", socket |-> client.socket + 1])
  /\ UNCHANGED <<conf, ext, server>>

start_fails ==
  /\ tasks.caller.pc = "handshake"
  /\ client' = ConnectFailed(client)
  /\ Step("caller", At("idle"))
  /\ UNCHANGED <<conf, ext, server, net, spent>>

\* The downlink task starts when the handshake is over, and the others after it.
start_connected(d) ==
  /\ tasks.caller.pc = "handshake"
  /\ d \in net /\ d.kind = "response" /\ d.to = tasks.caller.socket
  /\ net' = net \ {d}
  /\ client' = Connected(client, d.session)
  /\ tasks' = [tasks EXCEPT !.caller = At("spawn"), !.downlink = [pc |-> "recv", socket |-> recv]]
  /\ UNCHANGED <<conf, ext, server, spent>>

start_spawn ==
  /\ tasks.caller.pc = "spawn"
  /\ tasks' = [tasks EXCEPT !.caller = At("publish"), !.uplink = At("run"), !.keepalive = At("tick")]
  /\ UNCHANGED <<conf, ext, client, server, net, spent>>

\* The uplink thread could not be spawned: the runtime goes with its tasks.
start_unspawned ==
  /\ tasks.caller.pc = "spawn"
  /\ tasks' = [tasks EXCEPT !.caller = At("idle"), !.downlink = Off]
  /\ client' = [client EXCEPT !.shutdown = TRUE]
  /\ UNCHANGED <<conf, ext, server, net, spent>>

start_publish ==
  /\ tasks.caller.pc = "publish"
  /\ ext' = [ext EXCEPT !.cached = TRUE, !.channels = TRUE, !.tunnel = TRUE, !.uplink = 0,
                        !.downlink = 0]
  /\ Step("caller", At("idle"))
  /\ UNCHANGED <<conf, client, server, net, spent>>

-----------------------------------------------------------------------------
(* hpn_tunnel_stop *)

hpn_tunnel_stop ==
  /\ tasks.caller.pc = "idle" /\ ext.tunnel /\ spent.stops < conf.stops /\ Spend("stops")
  /\ ext' = [ext EXCEPT !.cached = FALSE, !.channels = FALSE]
  /\ Step("caller", At("stop"))
  /\ UNCHANGED <<conf, client, server, net>>

\* The tunnel leaves its slot, and disconnect sends a close unless the state is Disconnected.
stop_disconnect ==
  /\ tasks.caller.pc = "stop"
  /\ ext' = [ext EXCEPT !.tunnel = FALSE]
  /\ LET c == [client EXCEPT !.shutdown = TRUE]
     IN  IF client.state = "Disconnected"
         THEN client' = c /\ Step("caller", At("drop")) /\ UNCHANGED net
         ELSE /\ client' = set_state(c, "Disconnecting")
              /\ Step("caller", At("disconnect"))
              /\ net' = IF client.session = None THEN net
                        ELSE net \cup {send("close", client.session)}
  /\ UNCHANGED <<conf, server, spent>>

stop_disconnected ==
  /\ tasks.caller.pc = "disconnect"
  /\ client' = set_state(clear_rekey_state([client EXCEPT !.session = None]), "Disconnected")
  /\ Step("caller", At("drop"))
  /\ UNCHANGED <<conf, ext, server, net, spent>>

\* The runtime is dropped, and the tasks with it; the uplink thread ends when it looks.
stop_drop ==
  /\ tasks.caller.pc = "drop"
  /\ tasks' = [tasks EXCEPT !.caller = At("idle"), !.downlink = Off, !.keepalive = Off,
                            !.uplink = IF @.pc = "run" THEN At("ending") ELSE @]
  /\ UNCHANGED <<conf, ext, client, server, net, spent>>

uplink_ends ==
  /\ tasks.uplink.pc = "ending"
  /\ Step("uplink", Off)
  /\ UNCHANGED <<conf, ext, client, server, net, spent>>

-----------------------------------------------------------------------------
(* hpn_tunnel_on_wake, hpn_tunnel_force_rekey and the packet pump *)

hpn_tunnel_force_rekey ==
  /\ ~ext.rekey_requested
  /\ spent.wakes < conf.wakes /\ Spend("wakes")
  /\ ext' = [ext EXCEPT !.rekey_requested = TRUE]
  /\ UNCHANGED <<conf, client, tasks, server, net>>

hpn_tunnel_on_wake ==
  /\ tasks.waker.pc = "idle" /\ spent.wakes < conf.wakes /\ Spend("wakes")
  /\ ext' = [ext EXCEPT !.rekey_requested = TRUE]
  /\ Step("waker", IF ext.cached THEN [pc |-> "rebind", start |-> spent.starts] ELSE At("idle"))
  /\ UNCHANGED <<conf, client, server, net>>

\* The rebind may fail, and is skipped when the tunnel is gone; it is of the connection that was cached,
\* whichever tunnel runs by now.
on_wake_rebind ==
  /\ tasks.waker.pc = "rebind"
  /\ client' \in {client} \cup
       (IF ext.tunnel /\ tasks.waker.start = spent.starts THEN {rebind(client)} ELSE {})
  /\ Step("waker", At("idle"))
  /\ UNCHANGED <<conf, ext, server, net, spent>>

hpn_tunnel_write_packets ==
  /\ ext.channels /\ spent.packets < conf.packets /\ Spend("packets")
  /\ ext' = [ext EXCEPT !.uplink = IF @ < conf.capacity THEN @ + 1 ELSE @]
  /\ UNCHANGED <<conf, client, tasks, server, net>>

hpn_tunnel_read_packets ==
  /\ ext.channels /\ ext.downlink > 0
  /\ ext' = [ext EXCEPT !.downlink = @ - 1]
  /\ UNCHANGED <<conf, client, tasks, server, net, spent>>

\* send_data of what the uplink thread took from the channel.
uplink_send ==
  /\ tasks.uplink.pc = "run" /\ ext.uplink > 0
  /\ ext' = [ext EXCEPT !.uplink = @ - 1]
  /\ net' = IF client.session = None THEN net ELSE net \cup {send("data", client.session)}
  /\ UNCHANGED <<conf, client, tasks, server, spent>>

-----------------------------------------------------------------------------
(* The downlink task *)

\* Its recv ends with a datagram of the socket it waits on, and the next one takes the socket of then.
downlink_recv(d) ==
  /\ tasks.downlink.pc = "recv" /\ d \in net /\ d.to = tasks.downlink.socket
  /\ net' = net \ {d}
  /\ client' = process_packet(client, d)
  /\ ext' = IF d.kind = "data" /\ client.session = d.session /\ ext.downlink < conf.capacity
              THEN [ext EXCEPT !.downlink = @ + 1] ELSE ext
  /\ Step("downlink", IF client.shutdown THEN Off ELSE [pc |-> "recv", socket |-> recv])
  /\ UNCHANGED <<conf, server, spent>>

-----------------------------------------------------------------------------
(* The keepalive, rekey and reconnect task *)

\* An interval passes; past the timeout ages are not told apart.
Older(age) == IF age = Never \/ age > conf.count THEN age ELSE age + 1
Pass(c) == [c EXCEPT !.sent = Older(@), !.received = Older(@), !.behind = FALSE]

\* A tick of the interval.  It comes just before or after the interval since the last keepalive is
\* over, and sends none in the first case.  Ticks that a reconnect made late come at once.
keepalive_tick ==
  /\ tasks.keepalive.pc = "tick" /\ spent.ticks < conf.ticks /\ Spend("ticks")
  /\ client' \in {Pass(client)} \cup (IF client.behind THEN {client} ELSE {})
  /\ \/ client.shutdown /\ Step("keepalive", Off)
     \/ ~client.shutdown /\ client'.sent \in {0, 1} /\ Step("keepalive", At("check"))
     \/ ~client.shutdown /\ client'.sent # 0 /\ Step("keepalive", At("send"))
  /\ UNCHANGED <<conf, ext, server, net>>

\* send_keepalive up to the send: an unanswered one is counted first.  When the send fails no
\* keepalive is noted as sent, and an answered one before it leaves none pending.
send_keepalive ==
  /\ tasks.keepalive.pc = "send"
  /\ LET counted == [client EXCEPT !.missed = IF client.pending THEN @ + 1 ELSE @]
         tried == [counted EXCEPT !.tried = @ + 1]
     IN  \/ /\ client.session = None
            /\ client' = counted /\ Step("keepalive", At("check")) /\ UNCHANGED net
         \/ /\ client.session # None
            /\ client' = tried
            /\ net' = net \cup {send("keepalive", client.session)}
            /\ Step("keepalive", At("sent"))
         \/ /\ client.session # None /\ conf.faults
            /\ client' = tried /\ Step("keepalive", At("check")) /\ UNCHANGED net
  /\ UNCHANGED <<conf, ext, server, spent>>

\* pending_keepalive_seq and last_keepalive_sent are set after the send returned.
keepalive_sent ==
  /\ tasks.keepalive.pc = "sent"
  /\ client' = [client EXCEPT !.pending = TRUE, !.sent = 0]
  /\ Step("keepalive", At("check"))
  /\ UNCHANGED <<conf, ext, server, net, spent>>

\* check_keepalive_timeout.  Without a reply since the reset, the age of the last keepalive counts;
\* an age of conf.count intervals is just under or just over the timeout.
SinceLastResponse == IF client.received = Never THEN client.sent ELSE client.received
TimedOut == client.sent # Never /\ SinceLastResponse >= conf.count
NotTimedOut == client.sent = Never \/ SinceLastResponse <= conf.count

keepalive_check ==
  /\ tasks.keepalive.pc = "check"
  /\ \/ /\ TimedOut /\ is_connection_dead(client)
        /\ IF should_reconnect(client)
             THEN /\ client' = set_state(client, "Reconnecting")
                  /\ Step("keepalive", At("attempt"))
             ELSE UNCHANGED client /\ Step("keepalive", Off)
     \/ /\ NotTimedOut \/ ~is_connection_dead(client)
        /\ Step("keepalive", At("rekey"))
        /\ UNCHANGED client
  /\ UNCHANGED <<conf, ext, server, net, spent>>

\* attempt_reconnect: the old session goes, the socket is renewed if it can be, and connect begins.
\* Only the client's own shutdown flag ends it, and nothing in the extension sets that one.
attempt_reconnect ==
  /\ tasks.keepalive.pc = "attempt"
  /\ \E fresh \in BOOLEAN :
       LET reset == reset_for_reconnect([client EXCEPT !.attempts = @ + 1, !.session = None])
           bound == IF fresh THEN rebind(reset) ELSE reset
       IN  /\ client' = Connecting(bound)
           /\ net' = net \cup {[send("init", None) EXCEPT !.from = bound.socket]}
           /\ Step("keepalive", [pc |-> "handshake", socket |-> bound.socket])
  /\ UNCHANGED <<conf, ext, server, spent>>

reconnect_succeeds(d) ==
  /\ tasks.keepalive.pc = "handshake"
  /\ d \in net /\ d.kind = "response" /\ d.to = tasks.keepalive.socket
  /\ net' = net \ {d}
  /\ client' = [Connected(client, d.session) EXCEPT !.attempts = 0, !.behind = TRUE]
  /\ Step("keepalive", At("rekey"))
  /\ UNCHANGED <<conf, ext, server, spent>>

reconnect_fails ==
  /\ tasks.keepalive.pc = "handshake"
  /\ client' = ConnectFailed(client)
  /\ Step("keepalive", IF should_reconnect(client) THEN At("attempt") ELSE Off)
  /\ UNCHANGED <<conf, ext, server, net, spent>>

\* A rekey that is due, or was asked for: the request is taken back whether or not one is sent.
initiate_rekey ==
  /\ tasks.keepalive.pc = "rekey"
  /\ \E due \in (IF conf.rekeys THEN BOOLEAN ELSE {FALSE}), sends \in BOOLEAN :
       LET starts == (due \/ ext.rekey_requested) /\ ~client.rekey /\ client.session # None
       IN  /\ client' = [client EXCEPT !.rekey = @ \/ (starts /\ sends)]
           /\ net' = IF starts /\ sends THEN net \cup {send("rekey", client.session)} ELSE net
  /\ ext' = [ext EXCEPT !.rekey_requested = FALSE]
  /\ Step("keepalive", At("tick"))
  /\ UNCHANGED <<conf, server, spent>>

-----------------------------------------------------------------------------
(* The server *)

Replies == [keepalive |-> "keepalive_reply", rekey |-> "rekey_response", data |-> "data"]

\* It answers a handshake with a new session, and a session's packets from its address; a close
\* removes the session.
server_answers(d) ==
  /\ d \in net /\ d.to = Server
  /\ LET back(kind, session) == [to |-> d.from, from |-> Server, kind |-> kind, session |-> session]
         id == Cardinality(DOMAIN server) + 1
     IN  CASE d.kind = "init" ->
                /\ id <= conf.sessions
                /\ server' = [s \in DOMAIN server \cup {id} |-> IF s = id THEN d.from ELSE server[s]]
                /\ net' = (net \ {d}) \cup {back("response", id)}
           [] d.kind = "close" ->
                /\ server' = [server EXCEPT ![d.session] = None]
                /\ net' = net \ {d}
           [] OTHER ->
                /\ net' = (net \ {d}) \cup
                     (IF server[d.session] = d.from THEN {back(Replies[d.kind], d.session)} ELSE {})
                /\ UNCHANGED server
  /\ UNCHANGED <<conf, ext, client, tasks, spent>>

\* The server drops a session that it takes for idle, without a word.
server_expires(id) ==
  /\ id \in DOMAIN server /\ server[id] # None /\ spent.expiries < conf.expiries /\ Spend("expiries")
  /\ server' = [server EXCEPT ![id] = None]
  /\ UNCHANGED <<conf, ext, client, tasks, net>>

Next ==
  \/ hpn_tunnel_start \/ start_fails \/ start_spawn \/ start_unspawned \/ start_publish
  \/ hpn_tunnel_stop \/ stop_disconnect \/ stop_disconnected \/ stop_drop \/ uplink_ends
  \/ hpn_tunnel_force_rekey \/ hpn_tunnel_on_wake \/ on_wake_rebind
  \/ hpn_tunnel_write_packets \/ hpn_tunnel_read_packets \/ uplink_send
  \/ keepalive_tick \/ send_keepalive \/ keepalive_sent \/ keepalive_check
  \/ attempt_reconnect \/ reconnect_fails
  \/ initiate_rekey
  \/ \E d \in net : \/ start_connected(d) \/ downlink_recv(d) \/ reconnect_succeeds(d)
                    \/ server_answers(d)
  \/ \E id \in DOMAIN server : server_expires(id)

Spec == Init /\ [][Next]_vars

-----------------------------------------------------------------------------
(* Properties *)

\* A tunnel that is not being stopped is given up only for the silence of its own session: when the
\* task turns to reconnecting, there were conf.count attempts at a keepalive of this session, sent or
\* not, since it last had a reply, whatever the sessions before it missed and however the replies
\* raced the bookkeeping of the sends.
GivenUpWhenSilent ==
  tasks.keepalive.pc = "check" /\ tasks'.keepalive.pc = "attempt" /\ ~client.shutdown
    => client.tried >= conf.count

\* Every attempt at a keepalive but the last is counted as missed when no reply came (lib.rs:729, a
\* socket whose sends fail is given up after the full timeout).  Not so: an attempt whose send fails
\* makes nothing pending, so from an answered keepalive on no failing send is ever counted, and the
\* task goes on trying.
AttemptsAreMissed == tasks.keepalive.pc = "check" => client.tried <= client.missed + 1
=============================================================================
