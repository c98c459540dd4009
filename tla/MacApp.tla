------------------------------- MODULE MacApp -------------------------------
(***************************************************************************)
(* The application of macOS: its commands and their threads                *)
(* (hpn-ui-macos/src-tauri/src: commands.rs, commands/connection.rs,       *)
(* state.rs, main.rs), the manager they call (native/VPNManager.swift) and *)
(* the provider the system starts (PacketTunnelProvider.swift), over the   *)
(* VPN preferences and the tunnel that macOS keeps for the application.    *)
(*                                                                         *)
(* A call of the manager runs in callbacks on a queue while its thread     *)
(* waits for ten seconds; a thread that gives up leaves the callbacks      *)
(* behind it.  The rate limit on connect is left out: two connects may     *)
(* come at any distance.  A profile is a number and stands for the whole   *)
(* provider configuration made from it.                                    *)
(***************************************************************************)
EXTENDS Integers, FiniteSets

CONSTANT Deployments  \* [profiles; connects, disconnects, quits, crashes, restarts, drops: bounds;
                      \*  slow: whether a call of the manager may take more than its ten seconds;
                      \*  faults: whether one may fail]

VARIABLES
  conf,     \* one of Deployments
  app,      \* [run, status, active, in_progress, command; leaving: how far the exit is; ended; and a
            \* history: late, a start since the last stop of the exit, failed, whether that stop failed]
  threads,  \* the threads of the commands: [id, kind, pc, i]
  ops,      \* the callbacks of the manager: [kind, of, stage]
  manager,  \* [pending, installed, config]: the stash, and the VPN preferences of the system
  tunnel,   \* what the system says of the tunnel
  spent     \* what was used of the bounds

vars == <<conf, app, threads, ops, manager, tunnel, spent>>

None == 0
Nobody == 0
POLLS == 3  \* of 30
GRACE == 0  \* polls at which "Disconnected" is not yet believed, of 2

CanSpend(what) == spent[what] < conf[what]
Spend(what) == spent' = [spent EXCEPT ![what] = @ + 1]

\* AppState::new, and the static of commands.rs.
new == [run |-> TRUE, status |-> "Disconnected", active |-> None, in_progress |-> FALSE,
        command |-> None, leaving |-> "no", ended |-> "no", late |-> FALSE, failed |-> FALSE]

Init ==
  /\ conf \in Deployments
  /\ app = new
  /\ threads = {}
  /\ ops = {}
  /\ manager = [pending |-> None, installed |-> FALSE, config |-> None]
  /\ tunnel = "Disconnected"
  /\ spent = [connects |-> 0, disconnects |-> 0, quits |-> 0, crashes |-> 0, restarts |-> 0, drops |-> 0]

-----------------------------------------------------------------------------
(* State *)

reset_connect_in_progress(a) == [a EXCEPT !.in_progress = FALSE]

set_connected(a) == reset_connect_in_progress([a EXCEPT !.status = "Connected"])

set_disconnected(a) == reset_connect_in_progress([a EXCEPT !.status = "Disconnected", !.active = None])

set_error(a) == [a EXCEPT !.status = "Error"]

Step(t, pc) == threads' = (threads \ {t}) \cup {[t EXCEPT !.pc = pc]}
Ends(t) == threads' = threads \ {t}

-----------------------------------------------------------------------------
(* VPNManager.swift: the calls, and their callbacks *)

Call(kind, t) == ops' = ops \cup {[kind |-> kind, of |-> t.id, stage |-> "load"]}
Waiting(o) == {t \in threads : t.id = o.of}

\* The callback is done: its thread, if it still waits, goes on.
Answers(o, pc) ==
  /\ ops' = ops \ {o}
  /\ threads' = (threads \ Waiting(o)) \cup {[t EXCEPT !.pc = pc] : t \in Waiting(o)}

\* The thread stops waiting; the callbacks run on.
TimesOut(t, pc) ==
  /\ conf.slow
  /\ \E o \in ops : o.of = t.id /\ ops' = (ops \ {o}) \cup {[o EXCEPT !.of = Nobody]}
  /\ Step(t, pc)

\* hpn_vpn_manager_save_config: the configuration is stashed.
hpnVpnManagerSaveConfig(m, profile) == [m EXCEPT !.pending = profile]

\* takePendingProviderConfig.
takePendingProviderConfig(m) == [m EXCEPT !.pending = None]

\* hpn_vpn_manager_clear_provider_config: the stash at once, the preferences by callbacks.
hpnVpnManagerClearProviderConfig(t) ==
  /\ manager' = [manager EXCEPT !.pending = None]
  /\ Call("clear", t)

\* The callbacks of install_and_start: the stash goes into the preferences, which are saved.
InstallSaves(o, failed) ==
  /\ o.kind = "install" /\ o.stage = "load"
  /\ \/ /\ manager.pending # None
        /\ manager' = takePendingProviderConfig([manager EXCEPT !.installed = TRUE, !.config = manager.pending])
        /\ ops' = (ops \ {o}) \cup {[o EXCEPT !.stage = "start"]}
        /\ UNCHANGED threads
     \/ manager.pending = None /\ Answers(o, failed) /\ UNCHANGED manager
     \/ /\ conf.faults  \* to load, or to save
        /\ manager' \in {manager, takePendingProviderConfig(manager)}
        /\ Answers(o, failed)
  /\ UNCHANGED <<conf, app, tunnel, spent>>

\* They are read again, and the tunnel is started.
InstallStarts(o, started, failed) ==
  /\ o.kind = "install" /\ o.stage = "start"
  /\ \/ /\ tunnel' = IF tunnel = "Disconnected" THEN "Connecting" ELSE tunnel
        /\ app' = [app EXCEPT !.late = (app.leaving = "over")]
        /\ Answers(o, started)
     \/ conf.faults /\ Answers(o, failed) /\ UNCHANGED <<app, tunnel>>
  /\ UNCHANGED <<conf, manager, spent>>

\* The callbacks of clear: an empty configuration is saved.
ClearSaves(o, cleared) ==
  /\ o.kind = "clear"
  /\ manager' \in {[manager EXCEPT !.config = None]} \cup (IF conf.faults THEN {manager} ELSE {})
  /\ Answers(o, cleared)
  /\ UNCHANGED <<conf, app, tunnel, spent>>

Stopped(s) == IF s = "Disconnected" THEN s ELSE "Disconnecting"

\* The callback of hpn_vpn_manager_stop.
hpnVpnManagerStop(o, stopped) ==
  /\ o.kind = "stop"
  /\ tunnel' = IF manager.installed THEN Stopped(tunnel) ELSE tunnel
  /\ Answers(o, stopped)
  /\ UNCHANGED <<conf, app, manager, spent>>

-----------------------------------------------------------------------------
(* connect *)

\* connect and connect_internal as far as the status: another one that runs, a status of Connected
\* and a profile that does not do are refused, and leave the flag as it was.
connect(profile) ==
  /\ app.run /\ ~app.in_progress /\ app.command = None
  /\ app.status # "Connected"
  /\ CanSpend("connects") /\ Spend("connects")
  /\ app' = [app EXCEPT !.in_progress = TRUE, !.status = "Connecting", !.active = profile, !.command = profile]
  /\ UNCHANGED <<conf, threads, ops, manager, tunnel>>

NextId == CHOOSE i \in 1..(Cardinality(threads) + 1) : \A t \in threads : t.id # i

\* Mutant: a failure of the stash forgets the flag.
CommandFailsHeld(a) == [set_error(a) EXCEPT !.command = None]

\* An address that does not parse, or a configuration that cannot be stashed.
CommandFails(a) == [set_error(reset_connect_in_progress(a)) EXCEPT !.command = None]

\* The rest of connect_internal: the configuration is made and stashed, and the thread started.
connect_internal ==
  /\ app.run /\ app.command # None
  /\ \/ /\ app' = [app EXCEPT !.command = None]
        /\ manager' = hpnVpnManagerSaveConfig(manager, app.command)
        /\ threads' = threads \cup {[id |-> NextId, kind |-> "connect", pc |-> "activate", i |-> 0]}
     \/ app' = CommandFails(app) /\ UNCHANGED <<manager, threads>>
     \/ /\ app' = [reset_connect_in_progress(app) EXCEPT !.command = None]
        /\ UNCHANGED <<manager, threads>>
  /\ UNCHANGED <<conf, ops, tunnel, spent>>

\* ensureSystemExtensionActivated: it may be refused, or take too long.
ensureSystemExtensionActivated(t) ==
  /\ t.pc = "activate"
  /\ \/ Call("install", t) /\ Step(t, "install")
     \/ conf.faults /\ Step(t, "fail") /\ UNCHANGED ops
  /\ UNCHANGED <<conf, app, manager, tunnel, spent>>

\* scutil may fail as well.
check_system_vpn_status == {tunnel} \cup (IF conf.faults THEN {"Invalid"} ELSE {})

\* A pass of the loop that waits for the tunnel.
PollsAgain(t) == threads' = (threads \ {t}) \cup {[t EXCEPT !.i = @ + 1]}
poll(t) ==
  /\ t.pc = "poll"
  /\ \E status \in check_system_vpn_status :
       \/ t.i = POLLS /\ Step(t, "fail")
       \/ t.i < POLLS /\ status = "Connected" /\ Step(t, "connected")
       \/ t.i < POLLS /\ status \in {"Disconnected", "Invalid"} /\ t.i > GRACE /\ Step(t, "fail")
       \/ /\ t.i < POLLS /\ status # "Connected" /\ (status \in {"Disconnected", "Invalid"} => t.i <= GRACE)
          /\ PollsAgain(t)
  /\ UNCHANGED <<conf, app, ops, manager, tunnel, spent>>

\* The tunnel is up: clear_provider_config_post_success does nothing.
Connected(t) ==
  /\ t.pc = "connected"
  /\ app' = set_connected(app)
  /\ Step(t, "end")
  /\ UNCHANGED <<conf, ops, manager, tunnel, spent>>

\* It is not, or could not be started: clear_provider_config_full, then the status.
clear_provider_config_full(t, from, to) ==
  /\ t.pc = from
  /\ hpnVpnManagerClearProviderConfig(t)
  /\ Step(t, to)
  /\ UNCHANGED <<conf, app, tunnel, spent>>

Failed(t) ==
  /\ t.pc = "failed"
  /\ app' = set_error(app)
  /\ Step(t, "end")
  /\ UNCHANGED <<conf, ops, manager, tunnel, spent>>

End(t) ==
  /\ t.pc = "end"
  /\ app' = reset_connect_in_progress(app)
  /\ Ends(t)
  /\ UNCHANGED <<conf, ops, manager, tunnel, spent>>

-----------------------------------------------------------------------------
(* disconnect *)

disconnect ==
  /\ app.run /\ app.status \in {"Connected", "Reconnecting"}
  /\ CanSpend("disconnects") /\ Spend("disconnects")
  /\ app' = [app EXCEPT !.status = "Disconnecting"]
  /\ LET t == [id |-> NextId, kind |-> "disconnect", pc |-> "stop", i |-> 0]
     IN  threads' = threads \cup {t} /\ Call("stop", t)
  /\ UNCHANGED <<conf, manager, tunnel>>

Disconnected(t) ==
  /\ t.pc = "disconnected"
  /\ app' = set_disconnected(app)
  /\ Ends(t)
  /\ UNCHANGED <<conf, ops, manager, tunnel, spent>>

Answered(o) ==
  \/ InstallSaves(o, "fail")
  \/ InstallStarts(o, "poll", "fail")
  \/ ClearSaves(o, IF \E t \in Waiting(o) : t.kind = "connect" THEN "failed" ELSE "disconnected")
  \/ hpnVpnManagerStop(o, "stopped")

\* semaphore.wait(timeout:): every one of the calls.
TimedOut(t) ==
  /\ \/ t.pc = "install" /\ TimesOut(t, "fail")
     \/ t.pc = "stop" /\ TimesOut(t, "stopped")
     \/ t.pc = "clearing" /\ TimesOut(t, IF t.kind = "connect" THEN "failed" ELSE "disconnected")
  /\ UNCHANGED <<conf, app, manager, tunnel, spent>>

Runs(t) ==
  \/ ensureSystemExtensionActivated(t)
  \/ poll(t)
  \/ Connected(t)
  \/ clear_provider_config_full(t, "fail", "clearing")
  \/ clear_provider_config_full(t, "stopped", "clearing")
  \/ Failed(t)
  \/ End(t)
  \/ Disconnected(t)
  \/ TimedOut(t)

-----------------------------------------------------------------------------
(* The application ends *)

\* scutil --nc stop: nothing looks at its status.
scutil_stop(a) ==
  \/ tunnel' = Stopped(tunnel) /\ app' = [a EXCEPT !.failed = FALSE]
  \/ conf.faults /\ tunnel' = tunnel /\ app' = [a EXCEPT !.failed = TRUE]

\* "quit", or the window closes: the tunnel is stopped, and the exit is asked for, by the menu a
\* second later.
quit ==
  /\ app.run /\ app.leaving = "no"
  /\ CanSpend("quits") /\ Spend("quits")
  /\ scutil_stop([app EXCEPT !.leaving = "asked"])
  /\ UNCHANGED <<conf, threads, ops, manager>>

\* Mutant: the tunnel is stopped by the menu only.
RunEventStopsNothing(a) == app' = a /\ UNCHANGED tunnel

RunEventStops(a) == scutil_stop(a)

\* RunEvent::ExitRequested and RunEvent::Exit: the tunnel is stopped at each.
RunEvent(from, to) ==
  /\ app.run /\ app.leaving = from
  /\ RunEventStops([app EXCEPT !.leaving = to])
  /\ UNCHANGED <<conf, threads, ops, manager, spent>>

\* The handler of ctrlc runs in a thread of its own, whatever else goes on.
signal ==
  /\ app.run /\ app.leaving # "over"
  /\ CanSpend("quits") /\ Spend("quits")
  /\ scutil_stop([app EXCEPT !.leaving = "over"])
  /\ UNCHANGED <<conf, threads, ops, manager>>

Gone(how) ==
  /\ app' = [new EXCEPT !.run = FALSE, !.ended = how, !.late = app.late, !.failed = app.failed]
  /\ threads' = {} /\ ops' = {}

\* The process is over a while after the last of these stops; its threads and callbacks run till then.
exit ==
  /\ app.run /\ app.leaving = "over"
  /\ Gone("quit")
  /\ manager' = [manager EXCEPT !.pending = None]
  /\ UNCHANGED <<conf, tunnel, spent>>

\* The process dies; the tunnel is the system's and stays.
crash ==
  /\ app.run
  /\ CanSpend("crashes") /\ Spend("crashes")
  /\ Gone("crash")
  /\ manager' = [manager EXCEPT !.pending = None]
  /\ UNCHANGED <<conf, tunnel>>

\* setup: the configuration an earlier run left is cleared before anything else.
setup ==
  /\ ~app.run
  /\ app' = new
  /\ manager' \in {[manager EXCEPT !.config = None]} \cup (IF conf.faults THEN {manager} ELSE {})
  /\ UNCHANGED <<conf, threads, ops, tunnel, spent>>

-----------------------------------------------------------------------------
(* The tunnel *)

\* startTunnel: the provider reads its configuration; without one it fails, and it may fail with one.
startTunnel ==
  /\ tunnel = "Connecting"
  /\ tunnel' \in {"Disconnected"} \cup (IF manager.config # None THEN {"Connected"} ELSE {})
  /\ UNCHANGED <<conf, app, threads, ops, manager, spent>>

stopTunnel ==
  /\ tunnel = "Disconnecting"
  /\ tunnel' = "Disconnected"
  /\ UNCHANGED <<conf, app, threads, ops, manager, spent>>

\* The system starts the provider again: a crash of its own, or after a sleep.
Restarts ==
  /\ tunnel = "Connected"
  /\ CanSpend("restarts") /\ Spend("restarts")
  /\ tunnel' = "Connecting"
  /\ UNCHANGED <<conf, app, threads, ops, manager>>

Drops ==
  /\ tunnel = "Connected"
  /\ CanSpend("drops") /\ Spend("drops")
  /\ tunnel' = "Disconnected"
  /\ UNCHANGED <<conf, app, threads, ops, manager>>

Next ==
  \/ \E p \in conf.profiles : connect(p)
  \/ connect_internal
  \/ disconnect
  \/ \E t \in threads : Runs(t)
  \/ \E o \in ops : Answered(o)
  \/ quit
  \/ RunEvent("asked", "requested")
  \/ RunEvent("requested", "over")
  \/ signal
  \/ exit
  \/ crash
  \/ setup
  \/ startTunnel
  \/ stopTunnel
  \/ Restarts
  \/ Drops

Spec == Init /\ [][Next]_vars

-----------------------------------------------------------------------------
(* Properties *)

\* A connect can always be tried again: the flag that refuses a second one is never set without a
\* connect that still runs and will reset it, whichever call failed or timed out.
FlagHasAnOwner ==
  app.in_progress => app.command # None \/ \E t \in threads : t.kind = "connect"

\* When the user has quit the application, or it was interrupted, no tunnel is left behind, although
\* a connect may have been anywhere in its callbacks and earlier stops may have failed: the stop of
\* RunEvent::Exit, or of the handler, ends what was started up to it (main.rs:65-70, 316-322).  Left
\* out: that last stop failing, and a startVPNTunnel that comes after it and before the process is
\* over (VPNManager.swift:834); in either case the tunnel stays, and the code does not notice.
QuitEndsTunnel ==
  app.ended = "quit" /\ ~app.failed /\ ~app.late => tunnel \in {"Disconnected", "Disconnecting"}
=============================================================================
