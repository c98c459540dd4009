----------------------------- MODULE MacClient -----------------------------
(***************************************************************************)
(* What the macOS library does to its Mac: routes, packet filter, name     *)
(* servers and IPv6 (hpn-client-macos/src/routing.rs and dns.rs), and the  *)
(* journal that a later process recovers from (recovery.rs).               *)
(*                                                                         *)
(* A function of the library is the sequence of commands that it runs.     *)
(* Every command is a step; it may fail, and the process may die between   *)
(* any two.  No program of the repository drives the library any more, so  *)
(* the calls come from a program that follows the documentation: recovery  *)
(* first, the journal before the changes, force_restore when the user      *)
(* disconnects and the kill switch left up when the tunnel is lost.        *)
(***************************************************************************)
EXTENDS Integers, Sequences, TLC

CONSTANTS
  Deployments  \* [bypass, kill_switch, allow_lan, ipv6: a dual-stack tunnel; gateway_v6: the Mac has one;
               \*  forwarding: of IPv6; manager: DnsManager sets the name servers; and the bounds
               \*  connects, losses, quits, faults, crashes]

VARIABLES
  conf,   \* one of Deployments
  host,   \* thing of the Mac -> its value
  proc,   \* the process, and what it holds in memory
  spent   \* what was used of the bounds

vars == <<conf, host, proc, spent>>

Routes4 == {"default", "server", "low", "high", "lan", "bypass", "discovery"}
Routes6 == {"default6", "low6", "high6", "lan6"}
Routes == Routes4 \cup Routes6

\* A route leads nowhere, to the physical gateway, or into the tunnel.
Fresh(c) ==
  [r \in Routes |-> IF r = "default" \/ (r = "default6" /\ c.gateway_v6) THEN "phys" ELSE "none"]
  @@ ("pf_file" :> FALSE) @@ ("pf_conf" :> FALSE) @@ ("pf_rules" :> FALSE) @@ ("pf" :> FALSE)
  @@ ("dns" :> FALSE) @@ ("utun_dns" :> FALSE) @@ ("resolv_conf" :> FALSE)
  @@ ("forwarding" :> c.forwarding) @@ ("ipv6" :> TRUE) @@ ("journal" :> {})

-----------------------------------------------------------------------------
(* Commands *)

\* ends: whether an error of the command may end the function; it is logged otherwise.
Command(do, at, to, ends) == <<[do |-> do, at |-> at, to |-> to, ends |-> ends]>>
Must(at, to) == Command("set", at, to, {TRUE})
Try(at, to) == Command("set", at, to, {FALSE})

\* A command that does not start is an error, and one that fails is logged.
MustStart(at, to) == Command("set", at, to, BOOLEAN)

\* A flag of the process, after the commands before it.
Flag(at, to) == Command("flag", at, to, {})

\* A destination that is in the table already keeps its route.
add_route(dest, via) == Command("add", dest, via, {TRUE})
add_route_or_log(dest, via) == Command("add", dest, via, {FALSE})

\* A destination that is not in the table is no error, and no failure is.
delete_route(dest) == Try(dest, "none")

DeleteAll(dests) == [i \in DOMAIN dests |-> Head(delete_route(dests[i]))]

If(b, cs) == IF b THEN cs ELSE <<>>

-----------------------------------------------------------------------------
(* Routing *)

\* RoutingConfig is conf, and the gateways in proc.
setup_full_tunnel ==
  add_route("server", "phys") \o delete_route("default")
  \o If(conf.kill_switch /\ conf.allow_lan, add_route_or_log("lan", "phys"))
  \o add_route("low", "vpn") \o add_route("high", "vpn")
  \o If(conf.ipv6, add_route("low6", "vpn") \o add_route("high6", "vpn")
                   \o If(conf.kill_switch /\ conf.allow_lan /\ conf.gateway_v6,
                         add_route_or_log("lan6", "phys")))

setup_bypass_tunnel ==
  add_route("server", "phys") \o delete_route("default")
  \o add_route("low", "vpn") \o add_route("high", "vpn")
  \o add_route_or_log("bypass", "phys") \o add_route_or_log("lan", "phys")
  \o add_route_or_log("discovery", "phys")

\* The routes of a tunnel that both teardowns delete; lan: whether the LAN routes are among them.
TunnelRoutes(lan) ==
  delete_route("low") \o delete_route("high") \o delete_route("server")
  \o If(lan, delete_route("lan"))
  \o If(conf.ipv6, delete_route("low6") \o delete_route("high6") \o If(lan, delete_route("lan6")))

DefaultRoutes(gateway, gateway_v6) ==
  If(gateway, delete_route("default") \o add_route("default", "phys"))
  \o If(gateway_v6, delete_route("default6") \o add_route_or_log("default6", "phys"))

\* Mutant: the kill switch is not looked at.
teardown_routingRestores ==
  TunnelRoutes(conf.kill_switch /\ conf.allow_lan)
  \o DefaultRoutes(proc.original_gateway, conf.ipv6 /\ proc.original_gateway_v6)

\* With the kill switch the default route stays deleted.
teardown_routing ==
  TunnelRoutes(conf.kill_switch /\ conf.allow_lan)
  \o If(~conf.kill_switch, DefaultRoutes(proc.original_gateway, conf.ipv6 /\ proc.original_gateway_v6))

teardown_routing_force_restore ==
  TunnelRoutes(conf.allow_lan)
  \o DefaultRoutes(proc.original_gateway, conf.ipv6 /\ proc.original_gateway_v6)

-----------------------------------------------------------------------------
(* Name servers and IPv6 *)

configure_dns_dual_stack == Must("dns", TRUE)
remove_dns == Try("dns", FALSE)

enable_DnsLeakProtection == If(~proc.dns, configure_dns_dual_stack \o Flag("dns", TRUE))
disable_DnsLeakProtection == If(proc.dns, remove_dns \o Flag("dns", FALSE))

\* The key of the interface, which is not removed again, and /etc/resolv.conf.
set_dns_on_interface == MustStart("utun_dns", TRUE)
write_resolv_conf == Must("resolv_conf", TRUE)
restore_resolv_conf == Must("resolv_conf", FALSE)

configure_DnsManager ==
  If(~proc.manager, set_dns_on_interface \o write_resolv_conf \o Flag("manager", TRUE))
restore_DnsManager == If(proc.manager, restore_resolv_conf \o Flag("manager", FALSE))

\* The forwarding of IPv6, and IPv6 on every network service.
get_ipv6_forwarding == Flag("original_forwarding", host["forwarding"])
disable_ipv6_on_interfaces == Try("ipv6", FALSE)
enable_ipv6_on_interfaces == Try("ipv6", TRUE)

disable_ipv6 ==
  If(~proc.disabled,
     get_ipv6_forwarding \o Must("forwarding", FALSE) \o disable_ipv6_on_interfaces
     \o Flag("disabled", TRUE))
enable_ipv6 ==
  If(proc.disabled,
     MustStart("forwarding", proc.original_forwarding) \o enable_ipv6_on_interfaces \o Flag("disabled", FALSE))

-----------------------------------------------------------------------------
(* The packet filter *)

\* What the rules tell apart; every rule but the first is quick: the first that matches decides.
Packets == {"lo0", "dhcp", "server", "vpn", "lan", "mdns", "public"}

build_rules(allow_lan) ==
  <<"lo0", "dhcp", "server", "vpn">> \o If(allow_lan, <<"lan">>)

\* "block drop all", and what the quick rules pass.
Blocks(packet) ==
  host["pf"] /\ host["pf_rules"]
    /\ packet \notin {build_rules(conf.allow_lan)[i] : i \in DOMAIN build_rules(conf.allow_lan)}

remove_anchor_from_pf_conf == Try("pf_conf", FALSE)

disable_internal ==
  Try("pf_rules", FALSE) \o Try("pf_file", FALSE) \o remove_anchor_from_pf_conf \o Flag("enabled", FALSE)

disable_PfKillSwitch == If(proc.enabled, disable_internal)

write_anchor_file == Must("pf_file", TRUE)

\* pf.conf is replaced as a whole, by a rename.
atomic_write_pf_conf == Must("pf_conf", TRUE)
ensure_anchor_in_pf_conf == If(~host["pf_conf"] \/ proc.enabled, atomic_write_pf_conf)

load_anchor == Must("pf_rules", TRUE)
enable_pf == Must("pf", TRUE)

enable_PfKillSwitch ==
  If(proc.enabled, disable_internal)
  \o write_anchor_file \o ensure_anchor_in_pf_conf \o load_anchor \o enable_pf
  \o Flag("enabled", TRUE)

enable_KillSwitchManager == enable_PfKillSwitch \o Flag("active", TRUE)
disable_KillSwitchManager == If(proc.active, disable_PfKillSwitch \o Flag("active", FALSE))

-----------------------------------------------------------------------------
(* The journal *)

get_default_gateway == host["default"] # "none"
get_default_gateway_v6 == host["default6"] # "none"

\* The file: no state, or one.
capture_pre_vpn_state ==
  [gateway |-> get_default_gateway, gateway_v6 |-> get_default_gateway_v6, pf |-> FALSE,
   added_routes |-> <<>>]

save(state) == Must("journal", {state})
delete == Try("journal", {})

\* record_added_route and record_pf_enabled, for all that the session may do.
Recorded ==
  [capture_pre_vpn_state EXCEPT
     !.pf = conf.kill_switch,
     !.added_routes = <<"low", "high", "lan", "bypass", "discovery", "low6", "high6", "lan6">>]

remove_pf_rules == Try("pf_rules", FALSE) \o Try("pf_file", FALSE)

\* Mutant: the route to the server is left.
perform_recovery_with_stateNoServer(state) ==
  If(state.pf, remove_pf_rules) \o DeleteAll(state.added_routes)
  \o If(state.gateway, delete_route("default") \o add_route_or_log("default", "phys"))
  \o If(state.gateway_v6, delete_route("default6") \o add_route_or_log("default6", "phys"))
  \o delete

\* The name servers would be restored if anything recorded them.
perform_recovery_with_state(state) ==
  If(state.pf, remove_pf_rules) \o DeleteAll(state.added_routes) \o delete_route("server")
  \o If(state.gateway, delete_route("default") \o add_route_or_log("default", "phys"))
  \o If(state.gateway_v6, delete_route("default6") \o add_route_or_log("default6", "phys"))
  \o delete

-----------------------------------------------------------------------------
(* The process *)

\* err: where a function that must not fail and does leads; restoring: it undoes what others did.
NewProcess(pc, todo) ==
  [pc |-> pc, todo |-> todo, err |-> pc, restoring |-> TRUE,
   original_gateway |-> FALSE, original_gateway_v6 |-> FALSE, dns |-> FALSE, manager |-> FALSE,
   disabled |-> FALSE, original_forwarding |-> FALSE, force_restore_on_drop |-> TRUE,
   enabled |-> FALSE, active |-> FALSE]

Init ==
  /\ conf \in Deployments
  /\ host = Fresh(conf)
  /\ proc = NewProcess("down", <<>>)
  /\ spent = [connects |-> 0, losses |-> 0, quits |-> 0, faults |-> 0, crashes |-> 0,
              unrestored |-> FALSE, sealed |-> FALSE]

Spend(what) == [spent EXCEPT ![what] = @ + 1]

Call(todo, pc, err) == [proc EXCEPT !.todo = todo, !.pc = pc, !.err = err, !.restoring = pc = "idle"]

\* run_command_with_timeout: the next command works.
run_command ==
  /\ proc.todo # <<>>
  /\ LET c == Head(proc.todo)
         rest == [proc EXCEPT !.todo = Tail(@)]
     IN  IF c.do = "flag" THEN proc' = [rest EXCEPT ![c.at] = c.to] /\ UNCHANGED host
         ELSE /\ proc' = rest
              /\ host' = [host EXCEPT ![c.at] = IF c.do = "add" /\ @ # "none" THEN @ ELSE c.to]
  /\ UNCHANGED <<conf, spent>>

\* It fails, or takes too long.
run_command_fails ==
  /\ proc.todo # <<>> /\ Head(proc.todo).do # "flag" /\ spent.faults < conf.faults
  /\ LET c == Head(proc.todo)
     IN  /\ \E ends \in c.ends :
              proc' = IF ends THEN [proc EXCEPT !.todo = <<>>, !.pc = proc.err]
                      ELSE [proc EXCEPT !.todo = Tail(@)]
         /\ spent' = [Spend("faults") EXCEPT
                        !.unrestored = @ \/ proc.restoring \/ c.at \in {"pf_file", "pf_conf", "pf_rules", "pf"}]
  /\ UNCHANGED <<conf, host>>

Ready(pcs) == proc.todo = <<>> /\ proc.pc \in pcs

load_with_lock == CHOOSE state \in host["journal"] : TRUE

check_and_perform_recovery ==
  /\ Ready({"down"})
  /\ proc' = NewProcess("idle", If(host["journal"] # {}, perform_recovery_with_state(load_with_lock)))
  /\ spent' = [spent EXCEPT !.sealed = FALSE]
  /\ UNCHANGED <<conf, host>>

\* What a session does to the Mac.
SetUp ==
  (IF conf.bypass THEN setup_bypass_tunnel ELSE setup_full_tunnel)
  \o If(~conf.ipv6, disable_ipv6)
  \o (IF conf.manager THEN configure_DnsManager ELSE enable_DnsLeakProtection)
  \o If(conf.kill_switch, enable_KillSwitchManager)

\* The journal is written first; without it there is no session.
prepare ==
  /\ Ready({"idle"}) /\ spent.connects < conf.connects
  /\ get_default_gateway
  /\ proc' = Call(save(Recorded), "saved", "idle")
  /\ UNCHANGED <<conf, host, spent>>

connect ==
  /\ Ready({"saved"})
  /\ proc' = [Call(SetUp, "up", "error") EXCEPT
                !.original_gateway = TRUE,
                !.original_gateway_v6 = conf.ipv6 /\ get_default_gateway_v6,
                !.force_restore_on_drop = TRUE]
  /\ spent' = Spend("connects")
  /\ UNCHANGED <<conf, host>>

\* The session is up, with the default route gone and the packet filter on.
connected ==
  /\ Ready({"up"}) /\ ~spent.sealed
  /\ conf.kill_switch /\ host["default"] = "none"
  /\ spent' = [spent EXCEPT !.sealed = TRUE]
  /\ UNCHANGED <<conf, host, proc>>

\* The tunnel is lost, and set up once more with the gateways of before.
lose ==
  /\ Ready({"up"}) /\ spent.losses < conf.losses
  /\ proc' = [Call(teardown_routing, "lost", "lost") EXCEPT !.force_restore_on_drop = ~conf.kill_switch]
  /\ spent' = Spend("losses")
  /\ UNCHANGED <<conf, host>>

reconnect ==
  /\ Ready({"lost"}) /\ spent.connects < conf.connects
  /\ proc' = Call(SetUp, "up", "error")
  /\ spent' = Spend("connects")
  /\ UNCHANGED <<conf, host>>

\* The user disconnects; mark_clean_disconnect comes last.
disconnect ==
  /\ Ready({"up", "lost", "error"})
  /\ proc' = Call(disable_KillSwitchManager \o disable_DnsLeakProtection \o restore_DnsManager
                  \o enable_ipv6 \o teardown_routing_force_restore \o delete, "idle", "idle")
  /\ spent' = [spent EXCEPT !.sealed = FALSE]
  /\ UNCHANGED <<conf, host>>

\* The process ends; routes have no destructor.
quit ==
  /\ Ready({"idle", "up", "lost", "error"}) /\ spent.quits < conf.quits
  /\ proc' = Call(disable_PfKillSwitch \o disable_DnsLeakProtection \o restore_DnsManager
                  \o If(proc.force_restore_on_drop, enable_ipv6), "ended", "ended")
  /\ spent' = [Spend("quits") EXCEPT !.sealed = FALSE]
  /\ UNCHANGED <<conf, host>>

\* With the process its interface goes, and the routes into it.
Vanished == [t \in DOMAIN host |-> IF t \in Routes /\ host[t] = "vpn" THEN "none" ELSE host[t]]

ended ==
  /\ Ready({"ended"})
  /\ proc' = NewProcess("down", <<>>) /\ host' = Vanished
  /\ UNCHANGED <<conf, spent>>

crash ==
  /\ proc.pc # "down" /\ spent.crashes < conf.crashes
  /\ proc' = NewProcess("down", <<>>) /\ host' = Vanished /\ spent' = Spend("crashes")
  /\ UNCHANGED conf

Next ==
  \/ run_command \/ run_command_fails \/ check_and_perform_recovery
  \/ prepare \/ connect \/ connected
  \/ lose \/ reconnect \/ disconnect \/ quit \/ ended \/ crash

Spec == Init /\ [][Next]_vars

-----------------------------------------------------------------------------
(* Properties *)

\* What is restored whatever happened, and what is when the process neither died nor ended: the
\* journal knows nothing of the forwarding of IPv6, nor of IPv6 on the services, nor of the name
\* servers, and remove_pf_rules leaves pf.conf alone.
Recovered ==
  {"default", "server", "low", "high", "default6", "low6", "high6", "pf_rules", "pf_file", "journal"}
  \cup IF conf.bypass /\ ~conf.allow_lan THEN {} ELSE {"lan", "lan6"}
Restored == {"pf_conf", "dns", "resolv_conf", "forwarding", "ipv6"}

\* A Mac without a session is as it was before the first: after a disconnect from whatever state,
\* after a set-up that failed half-way, and after recovery from a death at any point (of the set-up,
\* of the teardown, of the recovery itself), as long as the commands that restore it work.  (Routes
\* around the tunnel are left behind by both teardowns, and a packet filter whose set-up failed by
\* disable.)
MacIsRestored ==
  Ready({"idle"}) /\ ~spent.unrestored =>
    \A t \in Recovered \cup IF spent.crashes + spent.quits = 0 THEN Restored ELSE {} :
      host[t] = Fresh(conf)[t]

\* With the kill switch no IPv4 packet to the Internet leaves past the tunnel from the moment a
\* session is up until the user disconnects or quits, or recovery begins: not when the tunnel is lost
\* and set up again, although enable takes the rules away first; not when the process dies; not when
\* commands fail.
MacKillSwitchHolds ==
  spent.sealed => \/ host["default"] = "none"
                  \/ host["low"] = "vpn" /\ host["high"] = "vpn"
                  \/ Blocks("public")
=============================================================================
