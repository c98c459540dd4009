--------------------------- MODULE WindowsClient ---------------------------
(***************************************************************************)
(* The Windows application (hpn-ui-windows): connecting, the task that     *)
(* owns a connection, disconnecting, and the start that recovers from a    *)
(* crash.  WindowsHost says what each step does to the machine.            *)
(*                                                                         *)
(* A connection is a slot of conns; two slots are live when a new one is   *)
(* set up while the task of the old one still cleans up.  A step is what   *)
(* happens between two operating system calls whose interruption by a      *)
(* crash leaves a different machine behind.                                *)
(***************************************************************************)
EXTENDS WindowsHost

CONSTANTS
  Deployments,   \* settings, server and machine: [ks, lan, mode, server4, v6, push_dns, ns], and
                 \* bounds on connect commands, failing commands of the system, and crashes:
                 \* [connects, failures, crashes]
  Slots          \* live connections: {1, 2}

VARIABLES
  conf,      \* one of Deployments
  host, ns, journal,
  conns,     \* slot -> what the connection owns
  app,       \* AppState and CONNECT_IN_PROGRESS
  past       \* what happened so far: the counters of the bounds, and the events properties need

vars == <<conf, host, ns, journal, conns, app, past>>

\* The step of slot s sees the machine and its own connection as w, and leaves them as w2.
World(s) == [host |-> host, ns |-> ns, journal |-> journal, c |-> conns[s]]
Leaves(s, w) == /\ host' = w.host
                /\ ns' = w.ns
                /\ journal' = w.journal
                /\ conns' = [conns EXCEPT ![s] = w.c]

Idle == \A s \in Slots : conns[s].pc = "idle"
Going(w, pc) == [w EXCEPT !.c.pc = pc]

\* At most one of the commands a step may run fails in it, while failures are left.
Failing(commands) ==
  IF past.failures < conf.failures THEN {{}} \cup {{x} : x \in commands} ELSE {{}}
Record(f) == past' = [past EXCEPT !.failures = @ + Cardinality(f), !.failed = @ \cup f]
Undone(f) == [past EXCEPT !.failures = @ + Cardinality(f), !.undo_failed = @ \/ f # {}]

NewApp == [alive |-> TRUE, status |-> "Disconnected", in_progress |-> FALSE, owner |-> 0,
           leaving |-> "no", waits |-> 0, blocked |-> "no"]

Init == /\ conf \in Deployments
        /\ host = {}
        /\ ns = conf.ns
        /\ journal = NoFile
        /\ conns = [s \in Slots |-> NoConnection]
        /\ app = NewApp
        /\ past = [connects |-> 0, failures |-> 0, crashes |-> 0, failed |-> {},
                   undo_failed |-> FALSE, overlap |-> FALSE,
                   engaged |-> FALSE, cut |-> FALSE, kept |-> FALSE]

-----------------------------------------------------------------------------
(* AppState *)

set_connected(a) == [a EXCEPT !.status = "Connected", !.in_progress = FALSE]

\* Dropping shutdown_tx ends the receive of the task that holds the other end.
set_disconnected(a) == [a EXCEPT !.status = "Disconnected", !.owner = 0, !.in_progress = FALSE]
set_errorStuck(a) == [a EXCEPT !.status = "Error"]
set_error(a) == [a EXCEPT !.status = "Error", !.in_progress = FALSE]

-----------------------------------------------------------------------------
(* connect_internal *)

\* The flag and the mutex let one connect run; a connection that is up refuses another.
Connect(s) ==
  /\ app.alive /\ ~app.in_progress /\ app.status # "Connected"
  /\ past.connects < conf.connects
  /\ conns[s].pc = "idle" /\ \A o \in 1 .. (s - 1) : conns[o].pc # "idle"
  /\ \A o \in Slots : ~conns[o].infn
  /\ conns' = [conns EXCEPT ![s] = [NoConnection EXCEPT !.pc = "bootstrap", !.infn = TRUE]]
  /\ app' = [app EXCEPT !.in_progress = TRUE, !.status = "Connecting", !.blocked = "no"]
  /\ past' = [past EXCEPT !.connects = @ + 1, !.overlap = @ \/ ~Idle \/ app.leaving # "no"]
  /\ UNCHANGED <<conf, host, ns, journal>>

Bootstrap(s) ==
  /\ conns[s].pc = "bootstrap"
  /\ \E f \in Failing({"firewall"}) :
       /\ Record(f)
       /\ Leaves(s, Going(IF conf.ks /\ conf.server4
                          THEN install_bootstrap_ipv6_block(World(s), f) ELSE World(s),
                          "handshake"))
  /\ UNCHANGED <<conf, app>>

\* The locals of connect_internal are dropped in the reverse of their order when it returns early.
ReturnsEarly(w) == [w EXCEPT !.c.todo = <<"ipv6", "dns", "routes", "adapter", "guard">>,
                             !.c.pc = "unwind"]

\* A profile that does not validate, a client that cannot be made, or no socket: the guard removes the
\* bootstrap rule if it is there.
ConnectInvalid(s) ==
  /\ conns[s].pc \in {"bootstrap", "handshake"}
  /\ Leaves(s, ReturnsEarly(World(s)))
  /\ app' = set_error(app)
  /\ UNCHANGED <<conf, past>>

\* Packets leave the machine by the default route or by a route to the server.
Reachable == "default_gone" \notin host \/ "exclusion" \in host

HandshakeFails(s) ==
  /\ conns[s].pc = "handshake"
  /\ LET w == IF conf.ks /\ conf.server4 THEN tear_down_bootstrap(World(s), {}) ELSE World(s)
     IN Leaves(s, ReturnsEarly(w))
  /\ app' = set_error(app)
  /\ UNCHANGED <<conf, past>>

\* The tunnel carries IPv6 if the server gave an address; then the bootstrap rule goes.  The gateway
\* is read before the adapter exists.
HandshakeSucceeds(s) ==
  /\ conns[s].pc = "handshake"
  /\ Reachable
  /\ \E f \in Failing({"routes"}) :
       /\ Record(f)
       /\ LET known == [World(s) EXCEPT !.c.v6 = conf.v6]
              w == IF conf.ks /\ conf.server4 /\ conf.v6
                   THEN tear_down_bootstrap(known, {}) ELSE known
              c == with_kill_switch(w.c, get_default_gateway(w, f))
          IN Leaves(s, Going([w EXCEPT !.c = c], "adapter"))
  /\ UNCHANGED <<conf, app>>

PrepareAdapter(s) ==
  /\ conns[s].pc = "adapter"
  /\ \E f \in Failing({"create", "address", "ready"}) :
       /\ Record(f)
       /\ IF create_with_dll(f) /\ configure_ip(f) /\ wait_for_ready(f)
          THEN Leaves(s, Going(World(s), "address_v6")) /\ UNCHANGED app
          ELSE Leaves(s, ReturnsEarly(World(s))) /\ app' = set_error(app)
  /\ UNCHANGED conf

\* A failure here is only logged, and the tunnel counts as one that carries IPv6 nevertheless.
AddressIpv6(s) ==
  /\ conns[s].pc = "address_v6"
  /\ \E f \in Failing({"address_v6", "route_v6"}) :
       /\ Record(f)
       /\ Leaves(s, Going(IF conns[s].v6 THEN configure_ipv6(World(s), f) ELSE World(s), "setup"))
  /\ UNCHANGED <<conf, app>>

\* setup_full_tunnel and setup_bypass_tunnel.
setup_full_tunnel == <<"begin", "exclusion", "default", "lan", "ipv6", "half_low", "half_high", "v6",
                       "egress">>
setup_bypass_tunnel == <<"begin", "exclusion", "default", "ipv6", "half_low", "half_high", "v6",
                         "bypass", "egress">>
Stages == IF conf.mode = "full" THEN setup_full_tunnel ELSE setup_bypass_tunnel

Stage(w, name, f) ==
  CASE name = "begin" -> begin_setup(w, f)
    [] name \in {"exclusion", "half_low", "half_high"} -> add_needed_route(w, name, f)
    [] name = "default" -> delete_default_route(w, conf.ks, f)
    [] name = "lan" -> add_optional_routes(w, conf.ks /\ conf.lan, "lan", f)
    [] name = "bypass" -> add_optional_routes(w, TRUE, "bypass", f)
    [] name = "ipv6" -> block_ipv6_unless_dual_stack(w, f)
    [] name = "v6" -> setup_full_tunnel_v6(w, conf.ks /\ conf.lan, f)
    [] name = "egress" -> [enable_dns_egress_blocking(w, f)
                           EXCEPT !.c.routed = TRUE, !.c.stage = 0, !.c.guard = FALSE]

SetupStep(s) ==
  /\ conns[s].pc = "setup" /\ conns[s].stage # 0 /\ conns[s].unsaved = "no"
  /\ \E f \in Failing({"save", "route_add", "route_delete", "firewall"}) :
       /\ Record(f)
       /\ Leaves(s, Stage(World(s), Stages[conns[s].stage], f))
  /\ UNCHANGED <<conf, app>>

Persist(s) ==
  /\ \E f \in Failing({"save"}) :
       /\ Record(f)
       /\ \/ /\ conns[s].unsaved = "added_v4"
             /\ Leaves(s, persist_recovered_added_route_v4(World(s), f))
          \/ /\ conns[s].unsaved = "added_v6"
             /\ Leaves(s, persist_recovered_added_route_v6(World(s), f))
          \/ /\ conns[s].unsaved = "deleted_v4"
             /\ Leaves(s, persist_recovered_deleted_route_v4(World(s), f))
  /\ UNCHANGED <<conf, app>>

\* Whether routing was set up or not, DNS and IPv6 come next.
ClearDns(s) ==
  /\ conns[s].pc = "setup" /\ conns[s].stage = 0 /\ conns[s].unsaved = "no"
  /\ \E f \in Failing({"clear_dns", "netsh", "interfaces"}) :
       /\ Record(f)
       /\ Leaves(s, IF conf.push_dns THEN Going(clear_physical_dns(World(s), f), "set_dns")
                    ELSE Going(World(s), "ipv6"))
  /\ UNCHANGED <<conf, app>>

\* A failure to set the VPN's servers returns from enable: nothing of it is undone then or later.
SetVpnDns(s) ==
  /\ conns[s].pc = "set_dns"
  /\ \E f \in Failing({"set_dns", "nrpt", "reg"}) :
       /\ Record(f)
       /\ Leaves(s, IF "set_dns" \in f THEN Going(World(s), "ipv6")
                    ELSE Going(block_other_resolvers(World(s), f), "flag"))
  /\ UNCHANGED <<conf, app>>

FlagDns(s) ==
  /\ conns[s].pc = "flag"
  /\ Leaves(s, Going(flag_resolvers(World(s)), "ipv6"))
  /\ UNCHANGED <<conf, app, past>>

ProtectIpv6(s) ==
  /\ conns[s].pc = "ipv6"
  /\ \E f \in Failing({"netsh"}) :
       /\ Record(f)
       /\ Leaves(s, Going(IF conns[s].v6 THEN World(s) ELSE disable_ipv6(World(s), f), "decide"))
  /\ UNCHANGED <<conf, app>>

\* Without routes the connection is given up; with them it is Connected, and the way to stop it is
\* published in a step of its own.
Decide(s) ==
  /\ conns[s].pc = "decide"
  /\ IF conns[s].routed
     THEN /\ Leaves(s, Going([World(s) EXCEPT !.c.ks = on_vpn_connected(@, conf.ks)], "connected"))
          /\ app' = set_connected(app)
     ELSE /\ Leaves(s, ReturnsEarly(World(s)))
          /\ app' = set_error(app)
  /\ UNCHANGED <<conf, past>>

\* Whatever stood in shutdown_tx before is dropped, and with it the loop that listened to it.
Publish(s) ==
  /\ conns[s].pc = "connected"
  /\ conns' = [o \in Slots |->
                 IF o = s THEN [conns[o] EXCEPT !.pc = "up", !.infn = FALSE]
                 ELSE IF o = app.owner THEN [conns[o] EXCEPT !.stop = "UserRequested"] ELSE conns[o]]
  /\ app' = [app EXCEPT !.owner = s]
  /\ UNCHANGED <<conf, host, ns, journal, past>>

-----------------------------------------------------------------------------
(* The end of a connection *)

\* disconnect takes the channels, asks the task to stop and waits for it.
Disconnect ==
  /\ app.alive /\ app.status = "Connected" /\ app.leaving = "no"
  /\ app' = [app EXCEPT !.status = "Disconnecting", !.leaving = "yes", !.waits = app.owner,
                        !.owner = 0]
  /\ conns' = [o \in Slots |->
                 IF o = app.owner THEN [conns[o] EXCEPT !.stop = "UserRequested"] ELSE conns[o]]
  /\ UNCHANGED <<conf, host, ns, journal, past>>

\* It is done when the task has cleaned up, or five seconds later.  set_disconnected drops the
\* channels of whichever connection has published its own by then.
DisconnectReturns ==
  /\ app.leaving = "yes"
  /\ app' = [set_disconnected(app) EXCEPT !.leaving = "no", !.waits = 0]
  /\ conns' = [o \in Slots |->
                 IF o = app.owner THEN [conns[o] EXCEPT !.stop = "UserRequested"] ELSE conns[o]]
  /\ past' = [past EXCEPT !.overlap = @ \/ (app.waits # 0 /\ conns[app.waits].pc # "idle")]
  /\ UNCHANGED <<conf, host, ns, journal>>

\* A Disconnected event: the state says Disconnected before anything is cleaned up.
ServerCloses(s) ==
  /\ conns[s].pc = "up" /\ conns[s].stop = "none"
  /\ \E reason \in {"UserRequested", "ServerClosed"} :
       conns' = [o \in Slots |->
                   IF o = s THEN [conns[o] EXCEPT !.stop = reason]
                   ELSE IF o = app.owner THEN [conns[o] EXCEPT !.stop = "UserRequested"]
                   ELSE conns[o]]
  /\ app' = set_disconnected(app)
  /\ UNCHANGED <<conf, host, ns, journal, past>>

\* The loop has ended: the kill switch decides how the connection is taken down.
Stop(s) ==
  /\ conns[s].pc = "up" /\ conns[s].stop # "none"
  /\ LET ks == on_vpn_disconnected(conns[s].ks, conf.ks, conns[s].stop)
     IN /\ conns' = [conns EXCEPT
             ![s].ks = ks, ![s].force_restore = ks # "Engaged", ![s].pc = "unwind",
             ![s].todo = <<"adapter", "routes", "dns", "ipv6">>]
        /\ app' = IF ks = "Engaged"
                  THEN [app EXCEPT !.blocked = IF conns[s].v6 THEN "dual" ELSE "v4"] ELSE app
        /\ past' = [past EXCEPT !.engaged = @ \/ ks = "Engaged"]
  /\ UNCHANGED <<conf, host, ns, journal>>

Drop(w, what, f) ==
  CASE what = "adapter" -> close_adapter(w)
    [] what = "routes" -> drop_RouteManager(w, conf.ks, f)
    [] what = "dns" -> disable(w, f)
    [] what = "ipv6" -> drop_Ipv6LeakProtection(w, f)
    [] what = "guard" -> drop_BootstrapGuard(w, f)

UndoCommands == {"route_add", "firewall", "set_dns", "netsh", "reg", "nrpt", "interfaces"}

\* The routes of an engaged connection are dropped: the default route is cut, the rules are kept.
Cuts(s) == conns[s].ks = "Engaged" /\ Head(conns[s].todo) = "routes"

Unwind(s) ==
  /\ conns[s].pc = "unwind" /\ conns[s].todo # <<>>
  /\ \E f \in Failing(UndoCommands) :
       /\ past' = [Undone(f) EXCEPT !.cut = @ \/ Cuts(s), !.kept = @ \/ Cuts(s)]
       /\ LET w == Drop(World(s), Head(conns[s].todo), f)
          IN Leaves(s, [w EXCEPT !.c.todo = Tail(@)])
  /\ UNCHANGED <<conf, app>>

Done(s) ==
  /\ conns[s].pc = "unwind" /\ conns[s].todo = <<>>
  /\ conns' = [conns EXCEPT ![s] = NoConnection]
  /\ app' = IF app.waits = s THEN [app EXCEPT !.waits = 0] ELSE app
  /\ UNCHANGED <<conf, host, ns, journal, past>>

-----------------------------------------------------------------------------
(* Crash, start, and the network's own doings *)

ProcessEnds ==
  /\ host' = host \ AdapterRoutes
  /\ conns' = [s \in Slots |-> NoConnection]
  /\ app' = [NewApp EXCEPT !.alive = FALSE]
  /\ past' = [past EXCEPT !.crashes = @ + 1]
  /\ UNCHANGED <<conf, ns, journal>>

Crash == app.alive /\ past.crashes < conf.crashes /\ ProcessEnds

\* Quitting asks the task to stop and gives it two seconds, whatever it still has to undo.
Quit ==
  /\ app.alive /\ app.status \in {"Connecting", "Connected"} /\ app.leaving = "no"
  /\ past.crashes < conf.crashes
  /\ app' = [app EXCEPT !.leaving = "quit", !.owner = 0]
  /\ conns' = [o \in Slots |->
                 IF o = app.owner THEN [conns[o] EXCEPT !.stop = "UserRequested"] ELSE conns[o]]
  /\ UNCHANGED <<conf, host, ns, journal, past>>

Exit == app.leaving = "quit" /\ ProcessEnds

StartCommands == {"open", "add_route", "set_dns", "clear_dns", "firewall", "nrpt"}

Start ==
  /\ ~app.alive
  /\ \E f \in Failing(StartCommands) :
       /\ past' = [Undone(f) EXCEPT !.kept = FALSE]
       /\ LET w == check_and_perform_recovery(
                     [host |-> host, ns |-> ns, journal |-> journal, c |-> NoConnection], f)
          IN host' = w.host /\ ns' = w.ns /\ journal' = w.journal
  /\ app' = [app EXCEPT !.alive = TRUE]
  /\ UNCHANGED <<conf, conns>>

\* DHCP gives the machine its default route again.
Renew ==
  /\ app.alive /\ Idle /\ "default_gone" \in host
  /\ host' = host \ {"default_gone"}
  /\ app' = [app EXCEPT !.blocked = "no"]
  /\ past' = [past EXCEPT !.cut = FALSE]
  /\ UNCHANGED <<conf, ns, journal, conns>>

Next == \/ \E s \in Slots :
             \/ Connect(s) \/ ConnectInvalid(s) \/ Bootstrap(s) \/ HandshakeFails(s) \/ HandshakeSucceeds(s)
             \/ PrepareAdapter(s) \/ AddressIpv6(s) \/ SetupStep(s) \/ Persist(s)
             \/ ClearDns(s) \/ SetVpnDns(s) \/ FlagDns(s) \/ ProtectIpv6(s) \/ Decide(s)
             \/ Publish(s) \/ ServerCloses(s) \/ Stop(s) \/ Unwind(s) \/ Done(s)
        \/ Disconnect \/ DisconnectReturns \/ Crash \/ Quit \/ Exit \/ Start \/ Renew

Spec == Init /\ [][Next]_vars

-----------------------------------------------------------------------------

Quiet == app.alive /\ Idle /\ app.leaving = "no"
Orderly == ~past.overlap /\ ~past.undo_failed

\* However far a connection got and whichever commands failed on the way, once it is over the
\* machine is as it was before: every Drop of connect_internal's locals and of the connection task
\* undoes exactly what the set-up did.  Left out: a kill switch that engaged, overlapping
\* connections, undo commands that themselves fail, an enable() that failed half way
\* (SetVpnDns), and the name servers of a machine that had them from DHCP (RestoresNameServers).
QuietHostIsClean ==
  Quiet /\ Orderly /\ ~past.engaged /\ past.crashes = 0 /\ "set_dns" \notin past.failed =>
    host = {} /\ journal = NoFile /\ (conf.ns = "own" => ns = "own")

\* However often the process dies, and wherever, the machine is without its default route exactly
\* if an engaged kill switch was taken down, DHCP not having given it back since.  A start restores
\* it from the recovery file, or its fall-back, after every other death, one between Stop and the
\* end of cleanup included; and after an engaged switch, whose cleanup has deleted the file
\* (routing.rs:2348-2369), it stays gone at every later start.  No route of the tunnel outlives its
\* adapter, and the IPv6 rule no start.  Left out: overlapping connections, undo and recovery
\* commands that fail, and a recovery file that could not be written.
RestartReconnects ==
  Quiet /\ Orderly /\ "save" \notin past.failed =>
    /\ "default_gone" \in host => past.cut
    /\ past.cut /\ "route_delete" \notin past.failed => "default_gone" \in host
    /\ "ipv6_rule" \in host => past.kept
    /\ host \cap AdapterRoutes = {}

\* Once the kill switch has engaged and the task is done, the machine stays cut off until the user
\* connects again, the application restarts or DHCP renews: no Drop brings the default route back,
\* and with a tunnel that carried IPv4 only the IPv6 block stays too.
KillSwitchHolds ==
  app.alive /\ Idle /\ ~past.overlap /\ past.failed = {} =>
    /\ app.blocked # "no" => "default_gone" \in host
    /\ app.blocked = "v4" => {"ipv6_rule", "ipv6_off"} \subseteq host

\* However connects, disconnects and server closes interleave, and whatever fails: when no
\* connection is left the application is ready for the next connect.  (CONNECT_IN_PROGRESS is reset
\* on every path, and no late writer leaves Connected behind a connection that is gone.)
NeverStuck ==
  Quiet => ~app.in_progress /\ app.status \in {"Disconnected", "Error"}

\* What disable() is documented to do: "restore original settings".
RestoresNameServers ==
  Quiet /\ Orderly /\ ~past.engaged /\ past.crashes = 0 /\ past.failed = {} => ns = conf.ns
=============================================================================
