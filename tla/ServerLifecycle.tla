-------------------------- MODULE ServerLifecycle --------------------------
(***************************************************************************)
(* The life of the server process and what it does to its host:            *)
(* run_server of hpn-server/src/main.rs, VpnServer::initialize, run and    *)
(* drop of server.rs, the firewall rules of nat.rs, the TUN devices of     *)
(* tun.rs and tun_multiqueue.rs, the loss of privileges (privileges.rs),   *)
(* the worker threads of udp_workers.rs and their panics.                  *)
(*                                                                         *)
(* Every command on the host is a step of its own, may be refused, and is  *)
(* refused once the process has given up root.  The process may be killed  *)
(* between any two steps and started again.                                *)
(***************************************************************************)
EXTENDS Integers, FiniteSets, Functions

CONSTANTS
  Deployments,  \* [config: the configuration; caps: the host; unwind: whether the build unwinds panics;
                \*  starts, faults, kills, panics: bounds]
  MAX_WORKER_RESTARTS,
  DEFAULT_MAX_WORKER_PANICS

VARIABLES
  conf,     \* one of Deployments
  host,     \* [rules: rule -> how often it is there, before: the same at the start of this process,
            \*  tun: whether the device is there, forwarding: the families that are forwarded]
  proc,     \* the process, its VpnServer and its UdpWorkerPool
  threads,  \* name -> [state, restarts]
  spent     \* what was used of the bounds

vars == <<conf, host, proc, threads, spent>>

Rules == {"masquerade", "masquerade6", "forward_in", "forward_out"}

-----------------------------------------------------------------------------
(* The configuration and the capabilities of the host *)

\* conf.config: [prefix, server_ip: of the pool, as offsets from its base; max_sessions, 0 for none;
\* prefix_v6, 0 for none; server_v6: none, inside or outside; mtu, session_timeout, keepalive,
\* log_file, log_size, log_files, level, admin_api, token: its length, 0 for none; repeated, metrics, loopback,
\* enable_nat, run_as: none, user or group; allow_root: HPN_ALLOW_RUN_AS_ROOT of the environment].

has_ipv6 == conf.config.prefix_v6 # 0

MaxUsable(c) == 2^(32 - c.prefix) - 2

get_max_sessions(c) ==
  IF c.max_sessions # 0 THEN c.max_sessions
  ELSE IF c.prefix \notin 1..30 THEN 1000
  ELSE IF MaxUsable(c) < 100000 THEN MaxUsable(c) ELSE 100000

validate_ipv6(c) ==
  c.prefix_v6 # 0 => c.prefix_v6 \in 48..128 /\ c.server_v6 = "inside"

validate_admin(c) ==
  /\ c.admin_api /\ c.token # 0 => c.token >= 24 /\ ~c.repeated
  /\ c.metrics /\ ~c.loopback => c.admin_api /\ c.token >= 24

validate(c) ==
  /\ c.prefix \in 16..30
  /\ c.server_ip \in 0..(2^(32 - c.prefix) - 1)
  /\ validate_ipv6(c)
  /\ c.mtu \in 576..9000
  /\ c.session_timeout > 0 /\ c.keepalive > 0
  /\ c.log_file => c.log_size > 0 /\ c.log_files > 0
  /\ c.level \in {3, 5}
  /\ get_max_sessions(c) <= MaxUsable(c)
  /\ validate_admin(c)

\* What is detected of the host, conf.caps: [cpu_cores, nic_rx_queues, has_tun_multiqueue, has_afxdp, has_io_uring].
optimal_tun_queues ==
  IF ~conf.caps.has_tun_multiqueue \/ conf.caps.nic_rx_queues <= 1 THEN 1
  ELSE LET optimal == IF conf.caps.nic_rx_queues < conf.caps.cpu_cores
                        THEN conf.caps.nic_rx_queues ELSE conf.caps.cpu_cores
       IN  IF optimal > 16 THEN 16 ELSE optimal

\* io_uring is chosen over the batched system calls, and runs them.
backend ==
  IF conf.caps.has_afxdp THEN "AfXdp" ELSE IF conf.caps.has_io_uring THEN "IoUring" ELSE "BatchedSyscalls"

should_use_tun_multiqueue == conf.caps.has_tun_multiqueue /\ optimal_tun_queues > 1

-----------------------------------------------------------------------------
(* The process *)

Queues == 1..optimal_tun_queues
TunThreads == {<<"tun-reader", q>> : q \in Queues} \cup {<<"tun-writer", q>> : q \in Queues}
UdpThreads == {<<"udp-recv", q>> : q \in Queues} \cup {<<"udp-send", q>> : q \in Queues}
Off == [state |-> "off", restarts |-> 0]
Running == [state |-> "run", restarts |-> 0]

\* A NatManager.
NatManager == [active |-> FALSE, ipv6_active |-> FALSE]

\* phase: initialize, or the run of AF_XDP, which sets up NAT once more; fresh: the manager being set
\* up; deletions, then: the rules that a destructor still deletes, and what follows; refused: a rule
\* could not be deleted.
NewProcess(pc) ==
  [pc |-> pc, phase |-> "initialize", root |-> TRUE, tun |-> FALSE, nat |-> NatManager,
   fresh |-> NatManager, deletions |-> {}, then |-> pc, shutdown |-> FALSE, pool |-> "none",
   panics |-> 0, degraded |-> FALSE, refused |-> FALSE]

Init ==
  /\ conf \in Deployments
  /\ host = [rules |-> [r \in Rules |-> 0], before |-> [r \in Rules |-> 0], tun |-> FALSE,
             forwarding |-> {}]
  /\ proc = NewProcess("down")
  /\ threads = [t \in TunThreads \cup UdpThreads |-> Off]
  /\ spent = [starts |-> 0, faults |-> 0, kills |-> 0, panics |-> 0]

-----------------------------------------------------------------------------
(* The commands of the host *)

Spend(what) == spent' = [spent EXCEPT ![what] = @ + 1]

\* A command works for root, unless the host refuses it.
Works == proc.root /\ UNCHANGED spent
Refused == \/ ~proc.root /\ UNCHANGED spent
           \/ proc.root /\ spent.faults < conf.faults /\ Spend("faults")

Added(rule) == [host EXCEPT !.rules[rule] = @ + 1]
Deleted(rule) == [host EXCEPT !.rules[rule] = IF @ = 0 THEN 0 ELSE @ - 1]

Goto(pc) == [proc EXCEPT !.pc = pc]

-----------------------------------------------------------------------------
(* NatManager *)

\* Mutant: IPv6 goes with IPv4.
drop_NatManagerActive(m) == IF m.active THEN {"masquerade"} ELSE {}

\* The rules that the destructor of a manager deletes.
drop_NatManager(m) ==
  (IF m.active THEN {"masquerade"} ELSE {}) \cup (IF m.ipv6_active THEN {"masquerade6"} ELSE {})

\* The manager m is destroyed, and pc follows.
Destroying(m, pc) ==
  [proc EXCEPT !.pc = "destroy", !.deletions = drop_NatManager(m), !.then = pc, !.fresh = NatManager]

\* An error of a step after the server exists destroys what the step had, and the server.
Fails == Destroying(proc.fresh, "drop")

\* One deletion of a rule, whose failure is logged.
delete_rule(rule, after) ==
  \/ Works /\ host' = Deleted(rule) /\ proc' = after
  \/ Refused /\ host' = host /\ proc' = [after EXCEPT !.refused = TRUE]

enable ==
  /\ proc.pc = "nat" /\ conf.config.enable_nat
  /\ \/ /\ Works /\ host' = Added("masquerade")
        /\ proc' = [proc EXCEPT !.fresh.active = TRUE, !.pc = "forward_in"]
     \/ Refused /\ proc' = Fails /\ UNCHANGED host
  /\ UNCHANGED <<conf, threads>>

\* The first rule refused, the second is not tried; the error is logged either way.
allow_forward ==
  /\ proc.pc \in {"forward_in", "forward_out"}
  /\ \/ /\ Works /\ host' = Added(proc.pc)
        /\ proc' = Goto(IF proc.pc = "forward_in" THEN "forward_out" ELSE "nat6")
     \/ Refused /\ proc' = Goto("nat6") /\ UNCHANGED host
  /\ UNCHANGED <<conf, threads>>

enable_ipv6 ==
  /\ proc.pc = "nat6" /\ has_ipv6
  /\ \/ /\ Works /\ host' = Added("masquerade6")
        /\ proc' = [proc EXCEPT !.fresh.ipv6_active = TRUE, !.pc = "stored"]
     \/ Refused /\ proc' = Fails /\ UNCHANGED host
  /\ UNCHANGED <<conf, threads>>

AfterNat == IF proc.phase = "initialize" THEN "privileges" ELSE "no_tun"

\* The manager is the server's from here, and the one it had is destroyed.
store_nat ==
  /\ \/ proc.pc = "nat" /\ ~conf.config.enable_nat /\ proc' = Goto(AfterNat)
     \/ proc.pc = "nat6" /\ ~has_ipv6 /\ proc' = Goto("stored")
     \/ /\ proc.pc = "stored"
        /\ proc' = [Destroying(proc.nat, AfterNat) EXCEPT !.nat = proc.fresh]
  /\ UNCHANGED <<conf, host, threads, spent>>

destroy_nat ==
  /\ proc.pc = "destroy"
  /\ \/ proc.deletions = {} /\ proc' = Goto(proc.then) /\ UNCHANGED <<host, spent>>
     \/ \E r \in proc.deletions :
          /\ r = "masquerade6" => proc.deletions = {r}
          /\ delete_rule(r, [proc EXCEPT !.deletions = @ \ {r}])
  /\ UNCHANGED <<conf, threads>>

-----------------------------------------------------------------------------
(* run_server, and initialize *)

\* The configuration is read.
run_server ==
  /\ proc.pc = "down" /\ spent.starts < conf.starts /\ Spend("starts")
  /\ host' = [host EXCEPT !.before = host.rules]
  /\ proc' = NewProcess("new")
  /\ UNCHANGED <<conf, threads>>

\* The configuration validates, and root is to be given up or the operator takes the blame.
MayRun == validate(conf.config) /\ (conf.config.run_as = "user" \/ conf.config.allow_root)

\* Or keys that do not load, an unknown user, a user database that does not open: there is no server
\* yet.
run_server_refuses ==
  /\ proc.pc = "new"
  /\ \/ ~MayRun /\ UNCHANGED spent
     \/ MayRun /\ spent.faults < conf.faults /\ Spend("faults")
  /\ proc' = Goto("exited")
  /\ UNCHANGED <<conf, host, threads>>

new_with_identity_hiding ==
  /\ proc.pc = "new" /\ MayRun
  /\ proc' = Goto("tun")
  /\ UNCHANGED <<conf, host, threads, spent>>

\* The device of a multiqueue host is left to run.
initialize ==
  /\ proc.pc = "tun"
  /\ \/ should_use_tun_multiqueue /\ proc' = Goto("forwarding") /\ UNCHANGED <<host, spent>>
     \/ /\ ~should_use_tun_multiqueue /\ Works /\ host' = [host EXCEPT !.tun = TRUE]
        /\ proc' = [proc EXCEPT !.tun = TRUE, !.pc = "forwarding"]
     \/ ~should_use_tun_multiqueue /\ Refused /\ proc' = Fails /\ UNCHANGED host
  /\ UNCHANGED <<conf, threads>>

\* Forwarding is switched on, and by nobody off again.
enable_ip_forwarding ==
  /\ proc.pc = "forwarding"
  /\ \/ /\ Works /\ host' = [host EXCEPT !.forwarding = @ \cup {4}]
        /\ proc' = Goto(IF has_ipv6 THEN "forwarding6" ELSE "nat")
     \/ Refused /\ proc' = Fails /\ UNCHANGED host
  /\ UNCHANGED <<conf, threads>>

enable_ipv6_forwarding ==
  /\ proc.pc = "forwarding6"
  /\ \/ Works /\ host' = [host EXCEPT !.forwarding = @ \cup {6}] /\ proc' = Goto("nat")
     \/ Refused /\ proc' = Fails /\ UNCHANGED host
  /\ UNCHANGED <<conf, threads>>

\* It has an effect when a user is configured, and cannot be undone.
drop_privileges ==
  /\ proc.pc = "privileges" /\ conf.config.run_as # "group"
  /\ proc' = [proc EXCEPT !.root = conf.config.run_as = "none",
                          !.pc = IF backend = "AfXdp" THEN "afxdp" ELSE "pool"]
  /\ UNCHANGED <<conf, host, threads, spent>>

\* A group without a user leaves the process root, which is an error; a call that fails does so
\* before or after root is given up.
drop_privileges_fails ==
  /\ proc.pc = "privileges"
  /\ \/ conf.config.run_as = "group" /\ proc' = Fails /\ UNCHANGED spent
     \/ /\ conf.config.run_as = "user" /\ spent.faults < conf.faults /\ Spend("faults")
        /\ \E root \in BOOLEAN : proc' = [Fails EXCEPT !.root = root]
  /\ UNCHANGED <<conf, host, threads>>

-----------------------------------------------------------------------------
(* run *)

\* UdpWorkerPool::new, a receiver and a sender for each queue.
new_with_backend ==
  /\ proc.pc = "pool"
  /\ proc' = [proc EXCEPT !.pool = "up", !.pc = "queues"]
  /\ threads' = [t \in DOMAIN threads |-> IF t \in UdpThreads THEN Running ELSE threads[t]]
  /\ UNCHANGED <<conf, host, spent>>

\* A socket or a thread it does not get: the threads it has keep a flag that nobody sets.
new_with_backend_fails ==
  /\ proc.pc = "pool" /\ spent.faults < conf.faults /\ Spend("faults")
  /\ proc' = [Fails EXCEPT !.pool = "lost"]
  /\ \E some \in SUBSET UdpThreads :
       threads' = [t \in DOMAIN threads |-> IF t \in some THEN Running ELSE threads[t]]
  /\ UNCHANGED <<conf, host>>

\* The probe for multiqueue opens such a device, which needs root.
is_multiqueue_supported == proc.root

use_multiqueue == should_use_tun_multiqueue /\ is_multiqueue_supported

\* MultiQueueTun::create: it opens every queue, and the device is gone when one cannot be opened.
open_queues ==
  /\ proc.pc = "queues" /\ use_multiqueue
  /\ \/ Works /\ host' = [host EXCEPT !.tun = TRUE] /\ proc' = Goto("configure_ipv4")
     \/ Refused /\ proc' = Fails /\ UNCHANGED host
  /\ UNCHANGED <<conf, threads>>

\* An address for the new device, which an error closes.
Configures(next) ==
  /\ \/ Works /\ proc' = Goto(next) /\ UNCHANGED host
     \/ Refused /\ proc' = Fails /\ host' = [host EXCEPT !.tun = FALSE]
  /\ UNCHANGED <<conf, threads>>

configure_ipv4 ==
  /\ proc.pc = "configure_ipv4"
  /\ Configures(IF has_ipv6 THEN "configure_ipv6" ELSE "threads")

configure_ipv6 == proc.pc = "configure_ipv6" /\ Configures("threads")

\* The device of initialize; no device, and run goes on.
take_device ==
  /\ proc.pc = "queues" /\ ~use_multiqueue
  /\ proc' = Goto(IF proc.tun THEN "threads" ELSE "serve")
  /\ UNCHANGED <<conf, host, threads, spent>>

\* The reader and the writer of each queue, or one of each.
spawn_tun_threads ==
  /\ proc.pc = "threads"
  /\ LET mine == {t \in TunThreads : should_use_tun_multiqueue \/ t[2] = 1}
     IN  \/ /\ threads' = [t \in DOMAIN threads |-> IF t \in mine THEN Running ELSE threads[t]]
            /\ proc' = Goto("serve") /\ UNCHANGED spent
         \/ /\ spent.faults < conf.faults /\ Spend("faults") /\ proc' = Fails
            /\ \E some \in SUBSET mine :
                 threads' = [t \in DOMAIN threads |-> IF t \in some THEN Running ELSE threads[t]]
  /\ UNCHANGED <<conf, host>>

\* run_afxdp: it sets up the device and NAT as initialize did.  The device that initialize holds is
\* busy; the queues of a multiqueue device are closed again, and no device is left to read from.
run_afxdp ==
  /\ proc.pc = "afxdp"
  /\ \/ ~should_use_tun_multiqueue /\ proc' = Fails /\ UNCHANGED spent
     \/ should_use_tun_multiqueue /\ Refused /\ proc' = Fails
     \/ /\ should_use_tun_multiqueue /\ Works
        /\ proc' = [proc EXCEPT !.phase = "run", !.pc = "nat"]
  /\ UNCHANGED <<conf, host, threads>>

run_afxdp_no_tun ==
  /\ proc.pc = "no_tun"
  /\ proc' = Fails
  /\ UNCHANGED <<conf, host, threads, spent>>

\* A signal: run is abandoned where it waits, and the server is dropped.
signal ==
  /\ proc.pc = "serve"
  /\ proc' = [proc EXCEPT !.shutdown = TRUE, !.pc = "drop"]
  /\ UNCHANGED <<conf, host, threads, spent>>

\* The threshold of panics: the loop ends.
run_ends ==
  /\ proc.pc = "serve" /\ proc.shutdown
  /\ proc' = [proc EXCEPT !.pool = "ending", !.pc = "drop"]
  /\ UNCHANGED <<conf, host, threads, spent>>

-----------------------------------------------------------------------------
(* The threads *)

\* A TUN thread that panics is gone; that of a single queue is counted, the others have no tracker.
record_panic(t) ==
  /\ t \in TunThreads /\ threads[t].state = "run" /\ conf.unwind
  /\ spent.panics < conf.panics /\ Spend("panics")
  /\ threads' = [threads EXCEPT ![t] = Off]
  /\ LET last == proc.panics + 1 >= DEFAULT_MAX_WORKER_PANICS /\ ~proc.degraded
     IN  proc' = IF should_use_tun_multiqueue THEN proc
                 ELSE [proc EXCEPT !.panics = @ + 1, !.degraded = @ \/ last, !.shutdown = @ \/ last]
  /\ UNCHANGED <<conf, host>>

\* A UDP worker that panics starts again, a few times, unless its pool ends.
run_worker_with_panic_recovery(t) ==
  /\ t \in UdpThreads /\ threads[t].state = "run" /\ conf.unwind
  /\ spent.panics < conf.panics /\ Spend("panics")
  /\ LET n == threads[t].restarts + 1
     IN  threads' = [threads EXCEPT ![t] =
                       IF proc.pool = "ending" \/ n > MAX_WORKER_RESTARTS THEN Off
                       ELSE [state |-> "run", restarts |-> n]]
  /\ UNCHANGED <<conf, host, proc>>

\* A thread that sees its flag ends: the server's, or that of its pool.
thread_ends(t) ==
  /\ threads[t].state = "run"
  /\ IF t \in TunThreads THEN proc.shutdown ELSE proc.pool = "ending"
  /\ threads' = [threads EXCEPT ![t] = Off]
  /\ UNCHANGED <<conf, host, proc, spent>>

-----------------------------------------------------------------------------
(* drop *)

\* The flags are set, and the threads waited for, each for a while.
drop ==
  /\ proc.pc = "drop"
  /\ proc' = [proc EXCEPT !.shutdown = TRUE, !.pool = IF @ = "up" THEN "ending" ELSE @, !.pc = "join"]
  /\ UNCHANGED <<conf, host, threads, spent>>

\* The join of a thread may time out, and then it is left alone.
drop_joined ==
  /\ proc.pc = "join"
  /\ proc' = Goto("close")
  /\ UNCHANGED <<conf, host, threads, spent>>

\* The device goes when no thread holds it.
close ==
  /\ proc.pc = "close"
  /\ host' = [host EXCEPT !.tun = @ /\ \E t \in TunThreads : threads[t].state = "run"]
  /\ proc' = [Goto("disallow_in") EXCEPT !.tun = FALSE]
  /\ UNCHANGED <<conf, threads, spent>>

\* Both rules are deleted whether or not they were added.
disallow_forward ==
  /\ \/ proc.pc = "disallow_in" /\ delete_rule("forward_in", Goto("disallow_out"))
     \/ proc.pc = "disallow_out" /\ delete_rule("forward_out", Goto("disable"))
  /\ UNCHANGED <<conf, threads>>

\* NatManager::disable, and the destructor of the manager.
disable ==
  /\ proc.pc = "disable"
  /\ LET after == [Destroying([proc.nat EXCEPT !.active = FALSE], "exited") EXCEPT !.nat = NatManager]
     IN  IF proc.nat.active THEN delete_rule("masquerade", after)
         ELSE proc' = after /\ UNCHANGED <<host, spent>>
  /\ UNCHANGED <<conf, threads>>

\* The process ends, and its threads and its device with it.
exit ==
  /\ proc.pc = "exited"
  /\ proc' = NewProcess("down")
  /\ host' = [host EXCEPT !.tun = FALSE]
  /\ threads' = [t \in DOMAIN threads |-> Off]
  /\ UNCHANGED <<conf, spent>>

\* It is killed, or a panic aborts it.
killed ==
  /\ proc.pc # "down" /\ spent.kills < conf.kills /\ Spend("kills")
  /\ proc' = NewProcess("down")
  /\ host' = [host EXCEPT !.tun = FALSE]
  /\ threads' = [t \in DOMAIN threads |-> Off]
  /\ UNCHANGED conf

Next ==
  \/ run_server \/ run_server_refuses \/ new_with_identity_hiding
  \/ initialize \/ enable_ip_forwarding \/ enable_ipv6_forwarding
  \/ enable \/ allow_forward \/ enable_ipv6 \/ store_nat \/ destroy_nat
  \/ drop_privileges \/ drop_privileges_fails
  \/ new_with_backend \/ new_with_backend_fails
  \/ open_queues \/ configure_ipv4 \/ configure_ipv6 \/ take_device \/ spawn_tun_threads
  \/ run_afxdp \/ run_afxdp_no_tun \/ signal \/ run_ends
  \/ \E t \in TunThreads \cup UdpThreads :
       record_panic(t) \/ run_worker_with_panic_recovery(t) \/ thread_ends(t)
  \/ drop \/ drop_joined \/ close \/ disallow_forward \/ disable \/ exit \/ killed

Spec == Init /\ [][Next]_vars

-----------------------------------------------------------------------------
(* Properties *)

\* A process that ends by itself leaves no rule in the firewall that it did not find there: wherever
\* a step of initialize or run failed, whatever killed processes left behind, the destructors of the
\* server and of its managers delete what it added, as long as the host lets them.  (run_afxdp is
\* left out: it adds the forwarding rules twice and they are deleted once.)
CleanExit ==
  proc.pc = "exited" /\ ~proc.refused /\ backend # "AfXdp" =>
    \A r \in Rules : host.rules[r] <= host.before[r]

\* What initialize announces, run delivers: a server that serves has a TUN device, and threads that
\* read and write it unless they panicked.
ServesWithTun == proc.pc = "serve" => host.tun
=============================================================================
