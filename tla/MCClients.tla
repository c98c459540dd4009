----------------------------- MODULE MCClients -----------------------------
(* The client applications and what they do to their hosts, each on small   *)
(* instances.  The machines below share no state, so one run explores them  *)
(* side by side: part says which one a behaviour is of, and conf and the    *)
(* slots a to f hold its variables.  What a property says it says of its    *)
(* own machine, whose module explains it.                                   *)
EXTENDS Integers

VARIABLES part, conf, a, b, c, d, e, f

vars == <<part, conf, a, b, c, d, e, f>>

-----------------------------------------------------------------------------
(* Deployments *)

\* Windows machines with and without the kill switch, full and bypass routing, a tunnel with and
\* without IPv6, and static or leased name servers.
Typical == [ks |-> TRUE, lan |-> TRUE, mode |-> "full", server4 |-> TRUE, v6 |-> FALSE,
            push_dns |-> TRUE, ns |-> "own", connects |-> 2, failures |-> 1, crashes |-> 1]
Bypass == [Typical EXCEPT !.v6 = TRUE, !.mode = "bypass"]
Open == [Typical EXCEPT !.ks = FALSE, !.server4 = FALSE, !.push_dns = FALSE, !.ns = "none"]
WindowsMachines == {Typical, [Bypass EXCEPT !.failures = 0, !.crashes = 2], [Bypass EXCEPT !.connects = 1],
                    [Open EXCEPT !.failures = 0], [Open EXCEPT !.connects = 1]}

Pumps == {[uplink |-> 4, downlink |-> 1, foreign |-> FALSE, errors |-> FALSE],
          [uplink |-> 1, downlink |-> 4, foreign |-> TRUE, errors |-> TRUE]}

\* Macs with a tunnel of IPv4 only, a dual-stack one, without the kill switch, and in bypass mode.
Full == [bypass |-> FALSE, kill_switch |-> TRUE, allow_lan |-> TRUE, ipv6 |-> FALSE, gateway_v6 |-> TRUE,
         forwarding |-> FALSE, manager |-> FALSE, connects |-> 2, losses |-> 1, quits |-> 1,
         faults |-> 1, crashes |-> 2]
Macs == {Full,
         [Full EXCEPT !.ipv6 = TRUE, !.allow_lan = FALSE, !.crashes = 1],
         [Full EXCEPT !.kill_switch = FALSE, !.forwarding = TRUE, !.manager = TRUE, !.crashes = 1,
                       !.faults = 2],
         [Full EXCEPT !.bypass = TRUE, !.gateway_v6 = FALSE, !.crashes = 1]}

\* The macOS application: with calls that take too long, with calls that fail, and two profiles.
OneProfile == [profiles |-> {1}, connects |-> 2, disconnects |-> 1, quits |-> 1, crashes |-> 0,
               restarts |-> 0, drops |-> 1, slow |-> FALSE, faults |-> FALSE]
Apps == {[OneProfile EXCEPT !.quits = 2],
         [OneProfile EXCEPT !.slow = TRUE, !.drops = 0],
         [OneProfile EXCEPT !.faults = TRUE, !.crashes = 1, !.restarts = 1],
         [OneProfile EXCEPT !.profiles = {1, 2}, !.disconnects = 2, !.quits = 0, !.restarts = 1]}

\* The tunnel extension: a server that falls silent, sends that fail, stops and starts, a reconnect
\* that gives up, a wake with a rekey due, and packets both ways.
Quiet == [count |-> 2, auto_reconnect |-> TRUE, max_attempts |-> 2, starts |-> 1, stops |-> 0,
          expiries |-> 0, ticks |-> 0, wakes |-> 0, packets |-> 0, sessions |-> 1, capacity |-> 1,
          rekeys |-> FALSE, faults |-> FALSE]
Extensions == {[Quiet EXCEPT !.ticks = 5, !.sessions = 2],
               [Quiet EXCEPT !.ticks = 6, !.faults = TRUE],
               [Quiet EXCEPT !.starts = 2, !.stops = 2, !.expiries = 1, !.ticks = 1, !.sessions = 2],
               [Quiet EXCEPT !.count = 1, !.max_attempts = 1, !.ticks = 3, !.stops = 1, !.sessions = 2],
               [Quiet EXCEPT !.auto_reconnect = FALSE, !.ticks = 3, !.wakes = 1, !.rekeys = TRUE,
                              !.count = 1],
               [Quiet EXCEPT !.packets = 2, !.stops = 1]}

\* Profiles and key files: Windows with a file of an older release and with decryption that may
\* fail, macOS, and the server's keys.
Legacy == [os |-> "windows", legacy |-> TRUE, dpapi |-> FALSE, faults |-> TRUE, commands |-> 3,
           crashes |-> 2]
Disks == {Legacy, [Legacy EXCEPT !.dpapi = TRUE, !.commands = 2, !.crashes = 1],
          [Legacy EXCEPT !.os = "macos", !.legacy = FALSE],
          [Legacy EXCEPT !.os = "server", !.legacy = FALSE]}

\* Transports: a stream that may fail, failures on both sides of the threshold, no fallback, and calls
\* that are dropped.
Stream == [threshold |-> 1, fallback |-> TRUE, cancels |-> FALSE, sends |-> 2, outcomes |-> 1, faults |-> 1,
           frames |-> <<"data", "empty", "data", "oversize">>]
Streams == {Stream,
            [Stream EXCEPT !.frames = <<>>, !.threshold = 2, !.sends = 1, !.outcomes = 5, !.faults = 0],
            [Stream EXCEPT !.frames = <<>>, !.fallback = FALSE, !.outcomes = 2],
            [Stream EXCEPT !.frames = <<"data", "data">>, !.cancels = TRUE, !.sends = 1]}

-----------------------------------------------------------------------------
(* The machines *)

Windows == INSTANCE WindowsClient WITH Deployments <- WindowsMachines, Slots <- {1, 2}, host <- a,
  ns <- b, journal <- c, conns <- d, app <- e, past <- f

Pump == INSTANCE WindowsPump WITH Deployments <- Pumps, CHANNEL_CAPACITY <- 1, POOL_SIZE <- 2,
  MAX_POOL_SIZE <- 3, workers <- a, chan <- b, pool <- c, main <- d, adapter <- e, seen <- f

Mac == INSTANCE MacClient WITH Deployments <- Macs, host <- a, proc <- b, spent <- c

App == INSTANCE MacApp WITH Deployments <- Apps, app <- a, threads <- b, ops <- c, manager <- d,
  tunnel <- e, spent <- f

Extension == INSTANCE TunnelExt WITH Deployments <- Extensions, ext <- a, client <- b, tasks <- c,
  server <- d, net <- e, spent <- f

Disk == INSTANCE Files WITH Deployments <- Disks, disk <- a, app <- b, op <- c, past <- d,
  spent <- e

Tcp == INSTANCE Transport WITH Deployments <- Streams, mgr <- a, conn <- b, tasks <- c, wire <- d,
  past <- e

-----------------------------------------------------------------------------
IdleF == f = "idle"
IdleE == e = "idle" /\ IdleF
IdleD == d = "idle" /\ IdleE

Init ==
  \/ part = "WindowsClient" /\ Windows!Init
  \/ part = "WindowsPump" /\ Pump!Init
  \/ part = "MacClient" /\ Mac!Init /\ IdleD
  \/ part = "MacApp" /\ App!Init
  \/ part = "TunnelExt" /\ Extension!Init
  \/ part = "Files" /\ Disk!Init /\ IdleF
  \/ part = "Transport" /\ Tcp!Init /\ IdleF

Next ==
  \/ part = "WindowsClient" /\ Windows!Next /\ UNCHANGED part
  \/ part = "WindowsPump" /\ Pump!Next /\ UNCHANGED part
  \/ part = "MacClient" /\ Mac!Next /\ UNCHANGED <<part, d, e, f>>
  \/ part = "MacApp" /\ App!Next /\ UNCHANGED part
  \/ part = "TunnelExt" /\ Extension!Next /\ UNCHANGED part
  \/ part = "Files" /\ Disk!Next /\ UNCHANGED <<part, f>>
  \/ part = "Transport" /\ Tcp!Next /\ UNCHANGED <<part, f>>

Spec == Init /\ [][Next]_vars

-----------------------------------------------------------------------------
(* Properties *)

\* Once a connection is over, however far it got and whichever commands failed on the way up, the
\* machine is as it was before it: on Windows by the Drop of every guard of connect_internal, on
\* macOS by teardown_routing, or after a death by the recovery at the next start.  Left out, each
\* explained in its module: a kill switch that engaged, connections that overlap, commands of the way
\* back that fail, a journal that could not be saved, an enable() that failed half-way, name servers
\* from DHCP, and on macOS the routes around the tunnel.
HostIsRestored ==
  /\ part = "WindowsClient" => Windows!QuietHostIsClean
  /\ part = "MacClient" => Mac!MacIsRestored

\* After a crash at any point the start of the Windows application leaves no tunnel route and no IPv6
\* block of its own, and brings the default route back, but for one case: a kill switch that had
\* engaged was taken down with its connection, and then the default route stays gone
\* (recovery.rs perform_recovery).  Left out: connections that overlap, commands of the undoing or
\* of the recovery that fail, and a journal that could not be saved.
RestartReconnects == part = "WindowsClient" => Windows!RestartReconnects

\* A kill switch that has engaged stays so until the user connects again, disconnects or restarts: no
\* Drop brings the default route back (kill_switch.rs), and on macOS no IPv4 packet to the Internet
\* has a route past the tunnel while it is lost and set up again (routing.rs).  The missing
\* default route alone is enough for it, so the moments in which pf has no rules do not show.
KillSwitchHolds ==
  /\ part = "WindowsClient" => Windows!KillSwitchHolds
  /\ part = "MacClient" => Mac!MacKillSwitchHolds

\* A connect can always be tried again: the flag that refuses a second one is reset on every path of
\* connect, whichever call failed or timed out (commands.rs of both applications).
ConnectCanBeRetried ==
  /\ part = "WindowsClient" => Windows!NeverStuck
  /\ part = "MacApp" => App!FlagHasAnOwner

\* What ends, ends whole: after the user quit or interrupted the macOS application no tunnel is left,
\* unless the last stop failed or a callback started the tunnel after it (main.rs 65-70, 269-322);
\* and when the main task of a Windows connection is through its tasks are too, but for a reader
\* that waits for the adapter (commands.rs 1930-1990).
EndingEndsTheTunnel ==
  /\ part = "MacApp" => App!QuitEndsTunnel
  /\ part = "WindowsPump" => Pump!PumpWindsDown

\* Until it is told to stop the Windows pump loses no packet and keeps their order, however full a
\* channel is, and every buffer of its pools is free or in use (commands.rs 1560-1830); and the frames
\* on the stream of the TCP transport stay whole and in order, however its calls interleave and fail,
\* which is in use only after failures enough of UDP (transport.rs 590-1060).  Packets too long for a
\* frame, which write_frame refuses, are not among the sends.
PacketsAreKept ==
  /\ part = "WindowsPump" => Pump!PumpConserves
  /\ part = "Transport" => Tcp!TransportKeepsFrames

\* A tunnel of the extension that is not being stopped is given up only for the silence of its own
\* session: as many attempts at a keepalive as the configuration asks for, sent or not, and none of
\* the sessions before, had no reply (client.rs 884-1038).
ReconnectsOnlyWhenSilent == [][part = "TunnelExt" => Extension!GivenUpWhenSilent]_vars

\* Whenever the process dies, what the next one loads is what the last command reported as saved or
\* what the one it died in was saving (config.rs of both applications, main.rs of the server); a
\* file of macOS that the death left half written, which config.rs writes in place, is left out.
ProfilesSurvive == part = "Files" => Disk!ProfilesSurvive
=============================================================================
