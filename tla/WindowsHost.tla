---------------------------- MODULE WindowsHost ----------------------------
(***************************************************************************)
(* What the Windows client does to the machine it runs on, and the journal *)
(* it keeps to undo it: hpn-client-windows (routing.rs, recovery.rs,       *)
(* adapter.rs, windows_api.rs) and the kill switch of hpn-client-core.     *)
(*                                                                         *)
(* A function of the source is an operator on a record w that holds        *)
(*   host     the set of ways the machine differs from the one before the  *)
(*            VPN, {} being the machine untouched,                         *)
(*   ns       the NameServer value of its physical interface: the user's   *)
(*            "own" servers, "none", or a copy of the "leased" ones that   *)
(*            DHCP gives it,                                               *)
(*   journal  the file recovery.json, and                                  *)
(*   c        what one connection owns: its RouteManager, its              *)
(*            DnsLeakProtection and its Ipv6LeakProtection.                *)
(* f is the set of operating system commands that fail in this step.       *)
(***************************************************************************)
EXTENDS Naturals, FiniteSets, FiniteSetsExt, Sequences

\* Routes through the VPN adapter go away with it; the others stay until they are deleted.
AdapterRoutes == {"half_low", "half_high", "half_v6", "lan_v6", "default_v6"}
GatewayRoutes == {"exclusion", "lan", "bypass"}

\* Everything else the client can leave changed.
Settings == {"default_gone", "ipv6_rule", "egress_rules", "rdnss_off", "nrpt", "smart", "llmnr",
             "netbios", "ipv6_off"}

Changes == AdapterRoutes \cup GatewayRoutes \cup Settings
NameServers == {"own", "none", "leased"}

Put(w, x) == [w EXCEPT !.host = @ \cup {x}]
Take(w, x) == [w EXCEPT !.host = @ \ {x}]
PutUnless(w, failed, x) == IF failed THEN w ELSE Put(w, x)
TakeUnless(w, failed, x) == IF failed THEN w ELSE Take(w, x)

-----------------------------------------------------------------------------
(* recovery.rs *)

\* A RecoveryState.  gateway: original_gateway is known; dns: the NameServer captured.
RecoveryState == [vpn_active |-> TRUE, gateway |-> FALSE, added |-> {}, deleted |-> FALSE,
                  dns |-> "none", llmnr |-> FALSE, netbios |-> FALSE, smart |-> FALSE]

NoFile == [RecoveryState EXCEPT !.vpn_active = FALSE]

\* The routes of the table that lead out of the machine without the VPN; none if it cannot be read.
get_routes(w, f) == IF "routes" \in f \/ "default_gone" \in w.host THEN {} ELSE {"default"}
get_default_gateway(w, f) == "default" \in get_routes(w, f)

\* windows_api's own commands on single routes, which recovery uses.
delete_route(w, x) == Take(w, x)
add_route(w, f) == TakeUnless(w, "add_route" \in f, "default_gone")

\* windows_api: is_dhcp is the case "none", in which the servers reported are the leased ones.
get_interface_dns(w) == w.ns
set_interface_dns(w, f, servers) == IF "set_dns" \in f THEN w ELSE [w EXCEPT !.ns = servers]
clear_interface_dns(w, f) == IF "clear_dns" \in f THEN w ELSE [w EXCEPT !.ns = "none"]

capture_pre_vpn_state(w) ==
  [RecoveryState EXCEPT !.gateway = get_default_gateway(w, {}), !.dns = get_interface_dns(w)]

\* save replaces the file as a whole or leaves it as it was.
save(w, f) == IF "save" \in f THEN w ELSE [w EXCEPT !.journal = w.c.rec]
\* A file that cannot be opened or locked counts as none, and stays.
load_with_lock(w, f) == IF "open" \in f THEN NoFile ELSE w.journal
delete(w) == [w EXCEPT !.journal = NoFile]
mark_clean_disconnect(w) == delete([w EXCEPT !.c.rec = NoFile])

remove_ipv6_block_rule(w, f) == TakeUnless(w, "firewall" \in f, "ipv6_rule")
remove_dns_egress_rules(w, f) == TakeUnless(w, "firewall" \in f, "egress_rules")

\* Found by their comment.
cleanup_orphaned_nrpt_rules(w, f) == TakeUnless(w, "nrpt" \in f, "nrpt")

delete_recorded(w, j) == FoldSet(LAMBDA x, v : delete_route(v, x), w, j.added)

restore_recorded_routesOnly(w, j, f) ==
  LET gone == delete_recorded(w, j) IN IF j.deleted THEN add_route(gone, f) ELSE gone

\* The first half of perform_recovery_with_state.  The gateway is the fall-back when the file
\* records no deleted route.
restore_recorded_routes(w, j, f) ==
  LET gone == delete_recorded(w, j)
  IN IF j.deleted \/ j.gateway THEN add_route(gone, f) ELSE gone

restore_recorded_dns(w, j, f) ==
  IF j.dns = "none" THEN clear_interface_dns(w, f) ELSE set_interface_dns(w, f, j.dns)

\* Policies are undone if the file flags them; NRPT rules and the IPv6 rule are, whatever it says.
\* The file goes even if something failed.
perform_recovery_with_state(w, j, f) ==
  LET flagged == {x \in {"llmnr", "netbios", "smart"} : j[x]}
      back == restore_recorded_dns(restore_recorded_routes(w, j, f), j, f)
      open == cleanup_orphaned_nrpt_rules([back EXCEPT !.host = @ \ flagged], f)
  IN delete(remove_ipv6_block_rule(open, f))

\* At every start of the application.
check_and_perform_recovery(w, f) ==
  LET clean == remove_ipv6_block_rule(w, f)
      found == load_with_lock(w, f)
  IN IF found.vpn_active THEN perform_recovery_with_state(clean, found, f) ELSE clean

-----------------------------------------------------------------------------
(* RouteManager, set up stage by stage.  Stage 0 is a set-up that returned an error. *)

NoConnection ==
  [pc |-> "idle", infn |-> FALSE, v6 |-> FALSE, stage |-> 0, todo |-> <<>>,
   gateway |-> FALSE, added |-> {}, deleted |-> FALSE, unsaved |-> "no",
   rec |-> NoFile, ipv6_blocked |-> FALSE, dns_egress_blocked |-> FALSE, force_restore |-> TRUE,
   guard |-> FALSE, dns_active |-> FALSE, original_dns |-> "none", nrpt_guid |-> FALSE,
   smart_was_set |-> FALSE, disabled |-> FALSE, disabled_interfaces |-> FALSE, routed |-> FALSE,
   ks |-> "Inactive", stop |-> "none"]

Next_stage(w) == [w EXCEPT !.c.stage = @ + 1]
Failed(w) == [w EXCEPT !.c.stage = 0]

with_kill_switch(c, gw) == [c EXCEPT !.gateway = gw, !.force_restore = TRUE, !.stage = 1]

\* Without the gateway captured before the adapter was made there is no set-up.
begin_setup(w, f) ==
  IF ~w.c.gateway THEN Failed(w)
  ELSE Next_stage(save([w EXCEPT !.c.rec = [capture_pre_vpn_state(w) EXCEPT !.gateway = TRUE]], f))

\* The route is made first and recorded afterwards: unsaved names what is still to be recorded.
Made(w, x, f, record) ==
  IF "route_add" \in f THEN w
  ELSE [Put(w, x) EXCEPT !.c.added = @ \cup {x}, !.c.unsaved = record]

add_route_with_interface(w, x, f) == Made(w, x, f, "added_v4")
add_route_v6(w, x, f) == Made(w, x, f, "added_v6")
add_route_v6_onlink(w, x, f) == Made(w, x, f, "added_v6")

\* Routes the tunnel cannot do without, and routes whose failure is only logged.
add_needed_route(w, x, f) ==
  IF "route_add" \in f THEN Failed(w) ELSE Next_stage(add_route_with_interface(w, x, f))
add_optional_routes(w, wanted, x, f) ==
  Next_stage(IF wanted THEN add_route_with_interface(w, x, f) ELSE w)

\* The recording of a route, after which the file is written again.
Recorded(w, rec, f) == save([w EXCEPT !.c.rec = rec, !.c.unsaved = "no"], f)

persist_recovered_added_route_v4(w, f) ==
  Recorded(w, [w.c.rec EXCEPT !.added = @ \cup (w.c.added \ {"half_v6", "lan_v6"})], f)
persist_recovered_added_route_v6(w, f) ==
  Recorded(w, [w.c.rec EXCEPT !.added = @ \cup (w.c.added \cap {"half_v6", "lan_v6"})], f)
persist_recovered_deleted_route_v4(w, f) == Recorded(w, [w.c.rec EXCEPT !.deleted = TRUE], f)

\* delete_route reports success even if the command fails, so the route counts as deleted.
delete_default_route(w, ks, f) ==
  IF ~ks THEN Next_stage(w)
  ELSE Next_stage([PutUnless(w, "route_delete" \in f, "default_gone")
                   EXCEPT !.c.deleted = TRUE, !.c.unsaved = "deleted_v4"])

\* The old rule goes before the new one is made.
enable_ipv6_leak_protection(w, f) ==
  IF w.c.ipv6_blocked THEN w
  ELSE IF "firewall" \in f THEN Take(w, "ipv6_rule")
  ELSE [Put(w, "ipv6_rule") EXCEPT !.c.ipv6_blocked = TRUE]

block_ipv6_unless_dual_stack(w, f) ==
  Next_stage(IF w.c.v6 THEN w ELSE enable_ipv6_leak_protection(w, f))

setup_full_tunnel_v6(w, lan, f) ==
  LET routed == add_route_v6(w, "half_v6", f)
  IN Next_stage(IF ~w.c.v6 THEN w
                ELSE IF "route_add" \in f THEN enable_ipv6_leak_protection(w, f)
                ELSE IF lan THEN add_route_v6_onlink(routed, "lan_v6", f) ELSE routed)

\* The rules are made together or removed together; this is the last stage.
enable_dns_egress_blocking(w, f) ==
  IF w.c.dns_egress_blocked THEN w
  ELSE IF "firewall" \in f THEN Take(w, "egress_rules")
  ELSE [Put(w, "egress_rules") EXCEPT !.c.dns_egress_blocked = TRUE]

disable_ipv6_leak_protection(w, f) ==
  IF w.c.ipv6_blocked THEN [remove_ipv6_block_rule(w, f) EXCEPT !.c.ipv6_blocked = FALSE] ELSE w
disable_dns_egress_blocking(w, f) ==
  IF w.c.dns_egress_blocked
  THEN [remove_dns_egress_rules(w, f) EXCEPT !.c.dns_egress_blocked = FALSE] ELSE w

\* Like delete_route it reports success whatever the command does; the route is the adapter's, which
\* is gone by then or goes next.
delete_route_v6(w) == [w EXCEPT !.host = @ \ (w.c.added \cap {"half_v6", "lan_v6"})]

\* What both clean-ups do with routes and file: nothing is left to recover, so the file goes.
remove_routes(w, restore, f) ==
  LET kept == delete_route_v6(w)
      dropped == [kept EXCEPT !.host = @ \ w.c.added, !.c.added = {}]
      back == TakeUnless(dropped, ~restore \/ ~w.c.deleted \/ "route_add" \in f, "default_gone")
  IN mark_clean_disconnect([back EXCEPT !.c.deleted = FALSE])

cleanup_and_restore(w, f) ==
  remove_routes(disable_dns_egress_blocking(disable_ipv6_leak_protection(w, f), f), TRUE, f)

cleanupUnlocked(w, ks, f) ==
  remove_routes(disable_dns_egress_blocking(disable_ipv6_leak_protection(w, f), f), ~ks, f)

\* An engaged kill switch keeps the rules and the default route away.
cleanup(w, ks, f) == IF ks THEN remove_routes(w, FALSE, f) ELSE cleanup_and_restore(w, f)

drop_RouteManager(w, ks, f) ==
  IF w.c.force_restore THEN cleanup_and_restore(w, f) ELSE cleanup(w, ks, f)

-----------------------------------------------------------------------------
(* DnsLeakProtection *)

install_nrpt_rule(w, f) ==
  IF "nrpt" \in f THEN w ELSE [Put(w, "nrpt") EXCEPT !.c.nrpt_guid = TRUE]
remove_nrpt_rule(w, f) ==
  IF w.c.nrpt_guid THEN [TakeUnless(w, "nrpt" \in f, "nrpt") EXCEPT !.c.nrpt_guid = FALSE] ELSE w
disable_smart_multi_homed(w, f) ==
  IF "reg" \in f THEN w ELSE [Put(w, "smart") EXCEPT !.c.smart_was_set = TRUE]
restore_smart_multi_homed(w, f) ==
  IF w.c.smart_was_set
  THEN [TakeUnless(w, "reg" \in f, "smart") EXCEPT !.c.smart_was_set = FALSE] ELSE w
disable_ra_rdnss(w, f) == PutUnless(w, "netsh" \in f, "rdnss_off")
enable_ra_rdnss(w, f) == TakeUnless(w, "netsh" \in f, "rdnss_off")
disable_llmnr(w, f) == PutUnless(w, "reg" \in f, "llmnr")
enable_llmnr(w, f) == TakeUnless(w, "reg" \in f, "llmnr")
disable_netbios(w, f) == PutUnless(w, "reg" \in f, "netbios")
enable_netbios(w, f) == TakeUnless(w, "reg" \in f, "netbios")

\* The servers as a list of addresses: whether DHCP gave them is not part of it.  restore writes the
\* list it is given, and falls back to DHCP for an empty one, which this never is.
get_physical_interfaces(f) == IF "interfaces" \in f THEN {} ELSE {"physical"}
physical_dns(w) == IF get_interface_dns(w) = "none" THEN "leased" ELSE get_interface_dns(w)
restore_interface_dns(w, f, servers) ==
  IF servers = "none" THEN w ELSE set_interface_dns(w, f, servers)

\* If the registry cannot be written the netsh command is tried, and its exit status not looked at.
clear_dns_of_interface(w, f) == clear_interface_dns(w, f)

\* enable in its stages.  If the interfaces cannot be listed, none is touched.
clear_physical_dns(w, f) ==
  LET saved == [w EXCEPT !.c.original_dns = physical_dns(w)]
  IN IF get_physical_interfaces(f) = {} THEN w
     ELSE disable_ra_rdnss(clear_dns_of_interface(saved, f), f)

block_other_resolvers(w, f) ==
  disable_netbios(disable_llmnr(disable_smart_multi_homed(install_nrpt_rule(w, f), f), f), f)

\* The flags go to the file on disk, if there is one, past the copy RouteManager holds.
flag_resolvers(w) ==
  LET j == [w.journal EXCEPT !.llmnr = TRUE, !.netbios = TRUE, !.smart = w.c.smart_was_set]
  IN [w EXCEPT !.journal = IF w.journal.vpn_active THEN j ELSE @, !.c.dns_active = TRUE]

disableKeepsNrpt(w, f) ==
  LET open == enable_ra_rdnss(restore_smart_multi_homed(w, f), f)
      dns == restore_interface_dns(open, f, w.c.original_dns)
  IN IF ~w.c.dns_active THEN w
     ELSE [enable_netbios(enable_llmnr(dns, f), f)
           EXCEPT !.c.dns_active = FALSE, !.c.original_dns = "none"]

\* disable undoes every change of enable, if enable got to its end.
disable(w, f) ==
  LET open == restore_smart_multi_homed(remove_nrpt_rule(w, f), f)
      named == IF get_physical_interfaces(f) = {} THEN open ELSE enable_ra_rdnss(open, f)
      dns == restore_interface_dns(named, f, w.c.original_dns)
  IN IF ~w.c.dns_active THEN w
     ELSE [enable_netbios(enable_llmnr(dns, f), f)
           EXCEPT !.c.dns_active = FALSE, !.c.original_dns = "none"]

-----------------------------------------------------------------------------
(* Ipv6LeakProtection.  An interface whose IPv6 is off already is not listed, and so not owned. *)

get_ipv6_interfaces(w, f) ==
  IF "netsh" \in f \/ "ipv6_off" \in w.host THEN {} ELSE {"physical"}

disable_ipv6(w, f) ==
  IF w.c.disabled THEN w
  ELSE LET mine == get_ipv6_interfaces(w, f) # {}
       IN [PutUnless(w, ~mine, "ipv6_off")
           EXCEPT !.c.disabled = TRUE, !.c.disabled_interfaces = mine]

enable_ipv6(w, f) ==
  IF ~w.c.disabled THEN w
  ELSE [TakeUnless(w, ~w.c.disabled_interfaces \/ "netsh" \in f, "ipv6_off")
        EXCEPT !.c.disabled = FALSE, !.c.disabled_interfaces = FALSE]

drop_Ipv6LeakProtection(w, f) == IF w.c.force_restore THEN enable_ipv6(w, f) ELSE w

-----------------------------------------------------------------------------
(* The bootstrap rule and its guard; the adapter *)

install_bootstrap_ipv6_block(w, f) ==
  IF "firewall" \in f THEN Take(w, "ipv6_rule")
  ELSE [Put(w, "ipv6_rule") EXCEPT !.c.guard = TRUE]

tear_down_bootstrap(w, f) == [remove_ipv6_block_rule(w, f) EXCEPT !.c.guard = FALSE]
drop_BootstrapGuard(w, f) == IF w.c.guard THEN tear_down_bootstrap(w, f) ELSE w

\* Each of the three steps that make the adapter usable may fail.
create_with_dll(f) == "create" \notin f
configure_ip(f) == "address" \notin f
wait_for_ready(f) == "ready" \notin f

\* The address must be taken; the default route through the adapter is made if it can be.
configure_ipv6(w, f) == PutUnless(w, "address_v6" \in f \/ "route_v6" \in f, "default_v6")

\* Windows takes the routes of an adapter away with it.
close_adapter(w) ==
  [w EXCEPT !.host = @ \ ((w.c.added \cup {"default_v6"}) \cap AdapterRoutes)]

-----------------------------------------------------------------------------
(* KillSwitchManager *)

on_vpn_connected(ks, enabled) == IF enabled THEN "Armed" ELSE ks

should_engage_kill_switch(reason) == reason # "UserRequested"

\* The new state; traffic is to be blocked exactly if it is Engaged.
on_vpn_disconnected(ks, enabled, reason) ==
  IF ~enabled \/ ~should_engage_kill_switch(reason) THEN "Inactive"
  ELSE IF ks = "Armed" THEN "Engaged" ELSE ks
=============================================================================
