---------------------------- MODULE WindowsPump ----------------------------
(***************************************************************************)
(* The tasks that carry the packets of a connection of the Windows         *)
(* application, from the moment connect_internal has set it up until its   *)
(* main task has wound them down (hpn-ui-windows/src-tauri/src/commands.rs *)
(* and hpn-client-windows/src/adapter.rs).                                 *)
(*                                                                         *)
(*   adapter -> reader thread -> channel -> forwarder task -> server       *)
(*   server -> receiver task -> channel -> writer thread -> adapter        *)
(*                                                                         *)
(* Packets are numbered in the order in which they enter.  What the main   *)
(* task does to the routes, the name servers and IPv6 is WindowsClient.    *)
(***************************************************************************)
EXTENDS Integers, Sequences

CONSTANTS
  Deployments,       \* [uplink, downlink: packets; foreign, errors: what else the socket may give]
  CHANNEL_CAPACITY,  \* of 8192
  POOL_SIZE,         \* of 1024
  MAX_POOL_SIZE      \* of 4096

VARIABLES
  conf,     \* one of Deployments
  workers,  \* reader and writer threads, forwarder and receiver tasks: [pc, held]
  chan,     \* the channels [up, down]
  pool,     \* the buffers free in the pools [up, down]
  main,     \* the main task, and what it shares: [pc, shutdown_flag, status]
  adapter,  \* [holders, packets]: the session of the adapter ends with the last of its holders
  seen      \* [arrived, heard]: packets that entered; [sent, written]: those that left, in order

vars == <<conf, workers, chan, pool, main, adapter, seen>>

Nothing == 0
At(pc) == [pc |-> pc, held |-> Nothing]
Holding(pc, packet) == [pc |-> pc, held |-> packet]
Ended == At("ended")

Init ==
  /\ conf \in Deployments
  /\ workers = [reader |-> At("top"), writer |-> At("top"), forwarder |-> At("recv"), receiver |-> At("recv")]
  /\ chan = [up |-> <<>>, down |-> <<>>]
  /\ pool = [up |-> POOL_SIZE, down |-> POOL_SIZE]
  /\ main = [pc |-> "loop", shutdown_flag |-> FALSE, status |-> "Connected"]
  /\ adapter = [holders |-> {"main", "reader", "writer"}, packets |-> <<>>]
  /\ seen = [arrived |-> 0, heard |-> 0, sent |-> <<>>, written |-> <<>>]

-----------------------------------------------------------------------------
(* The pools *)

\* BufferPool::get: a pool that is empty makes a new buffer.
get(free) == IF free > 0 THEN free - 1 ELSE 0

\* return_buffer, by the drop of a buffer: a pool that is full lets it go.
return_buffer(free) == IF free < MAX_POOL_SIZE THEN free + 1 ELSE free

\* The drop of n of them: a channel that closes, a task that is aborted.
return_buffers[n \in Nat, free \in Nat] == IF n = 0 THEN free ELSE return_buffers[n - 1, return_buffer(free)]

Held(w) == IF workers[w].held = Nothing THEN 0 ELSE 1

-----------------------------------------------------------------------------
(* Uplink *)

\* The system routes a packet into the adapter.
Arrives ==
  /\ seen.arrived < conf.uplink /\ adapter.holders # {}
  /\ seen' = [seen EXCEPT !.arrived = @ + 1]
  /\ adapter' = [adapter EXCEPT !.packets = Append(@, seen.arrived + 1)]
  /\ UNCHANGED <<conf, workers, chan, pool, main>>

LetsGo(holder) == adapter' = [adapter EXCEPT !.holders = @ \ {holder}]

\* The reader thread: a look at the flag, and a buffer.
ReaderTop ==
  /\ workers.reader.pc = "top"
  /\ IF main.shutdown_flag
     THEN workers' = [workers EXCEPT !.reader = Ended] /\ LetsGo("reader") /\ UNCHANGED pool
     ELSE /\ workers' = [workers EXCEPT !.reader = At("recv")]
          /\ pool' = [pool EXCEPT !.up = get(@)]
          /\ UNCHANGED adapter
  /\ UNCHANGED <<conf, chan, main, seen>>

\* WintunAdapter::recv waits until there is a packet; none is larger than a buffer.
recv ==
  /\ workers.reader.pc = "recv" /\ adapter.packets # <<>>
  /\ adapter' = [adapter EXCEPT !.packets = Tail(@)]
  /\ workers' = [workers EXCEPT !.reader = Holding("send", Head(adapter.packets))]
  /\ UNCHANGED <<conf, chan, pool, main, seen>>

\* An error of the adapter is counted: the buffer goes back, and the thread goes on.
ReaderFails ==
  /\ workers.reader.pc = "recv" /\ conf.errors
  /\ workers' = [workers EXCEPT !.reader = At("top")]
  /\ pool' = [pool EXCEPT !.up = return_buffer(@)]
  /\ UNCHANGED <<conf, chan, main, adapter, seen>>

\* blocking_send: it waits while the channel is full, and fails when it is closed.
ReaderSends ==
  /\ workers.reader.pc = "send"
  /\ \/ /\ workers.forwarder.pc = "ended"
        /\ workers' = [workers EXCEPT !.reader = Ended]
        /\ pool' = [pool EXCEPT !.up = return_buffer(@)]
        /\ LetsGo("reader")
        /\ UNCHANGED chan
     \/ /\ workers.forwarder.pc # "ended" /\ Len(chan.up) < CHANNEL_CAPACITY
        /\ chan' = [chan EXCEPT !.up = Append(@, workers.reader.held)]
        /\ workers' = [workers EXCEPT !.reader = At("top")]
        /\ UNCHANGED <<pool, adapter>>
  /\ UNCHANGED <<conf, main, seen>>

\* The forwarder task takes a packet; it ends with the channel.
ForwarderTakes ==
  /\ workers.forwarder.pc = "recv"
  /\ \/ /\ chan.up # <<>>
        /\ chan' = [chan EXCEPT !.up = Tail(@)]
        /\ workers' = [workers EXCEPT !.forwarder = Holding("send", Head(chan.up))]
     \/ /\ chan.up = <<>> /\ workers.reader.pc = "ended"
        /\ workers' = [workers EXCEPT !.forwarder = Ended]
        /\ UNCHANGED chan
  /\ UNCHANGED <<conf, pool, main, adapter, seen>>

\* client.send_data; an error is counted and no more.
ForwarderSends ==
  /\ workers.forwarder.pc = "send"
  /\ seen' = [seen EXCEPT !.sent = Append(@, workers.forwarder.held)]
  /\ workers' = [workers EXCEPT !.forwarder = At("recv")]
  /\ pool' = [pool EXCEPT !.up = return_buffer(@)]
  /\ UNCHANGED <<conf, chan, main, adapter>>

-----------------------------------------------------------------------------
(* Downlink *)

\* The receiver task hears data of the server: it is decrypted into a buffer.
ReceiverHears ==
  /\ workers.receiver.pc = "recv" /\ seen.heard < conf.downlink
  /\ seen' = [seen EXCEPT !.heard = @ + 1]
  /\ pool' = [pool EXCEPT !.down = get(@)]
  /\ workers' = [workers EXCEPT !.receiver = Holding("send", seen.heard + 1)]
  /\ UNCHANGED <<conf, chan, main, adapter>>

\* Of another address it is skipped; what is not data, or does not decrypt, gives its buffer back.
ReceiverSkips ==
  /\ workers.receiver.pc = "recv" /\ conf.foreign
  /\ pool' = [pool EXCEPT !.down = return_buffer(get(@))]
  /\ UNCHANGED <<conf, workers, chan, main, adapter, seen>>

\* An error of the socket ends the task, and the channel with it; nobody else is told.
ReceiverFails ==
  /\ workers.receiver.pc = "recv" /\ conf.errors
  /\ workers' = [workers EXCEPT !.receiver = Ended]
  /\ UNCHANGED <<conf, chan, pool, main, adapter, seen>>

\* Mutant: a packet that finds the channel full is dropped.
ReceiverSendsOrDrops ==
  /\ workers.receiver.pc = "send" /\ workers.writer.pc # "ended"
  /\ chan' = [chan EXCEPT !.down = IF Len(@) < CHANNEL_CAPACITY THEN Append(@, workers.receiver.held) ELSE @]
  /\ workers' = [workers EXCEPT !.receiver = At("recv")]
  /\ UNCHANGED <<conf, pool, main, adapter, seen>>

\* try_send, and when the channel is full send: the task waits with the packet.
ReceiverSends ==
  /\ workers.receiver.pc = "send"
  /\ \/ /\ workers.writer.pc = "ended"
        /\ workers' = [workers EXCEPT !.receiver = Ended]
        /\ pool' = [pool EXCEPT !.down = return_buffer(@)]
        /\ UNCHANGED chan
     \/ /\ workers.writer.pc # "ended" /\ Len(chan.down) < CHANNEL_CAPACITY
        /\ chan' = [chan EXCEPT !.down = Append(@, workers.receiver.held)]
        /\ workers' = [workers EXCEPT !.receiver = At("recv")]
        /\ UNCHANGED pool
  /\ UNCHANGED <<conf, main, adapter, seen>>

\* The writer thread ends: its channel drops the packets it still holds.
WriterEnds ==
  /\ workers' = [workers EXCEPT !.writer = Ended]
  /\ pool' = [pool EXCEPT !.down = return_buffers[Len(chan.down), @]]
  /\ chan' = [chan EXCEPT !.down = <<>>]
  /\ LetsGo("writer")

\* A look at the flag, then a packet: blocking_recv waits for one until the channel is closed.
WriterTop ==
  /\ workers.writer.pc = "top"
  /\ IF main.shutdown_flag
     THEN WriterEnds
     ELSE workers' = [workers EXCEPT !.writer = At("recv")] /\ UNCHANGED <<chan, pool, adapter>>
  /\ UNCHANGED <<conf, main, seen>>

\* WintunAdapter::send; an error is counted and no more.
send ==
  /\ workers.writer.pc = "recv"
  /\ \/ /\ chan.down # <<>>
        /\ seen' = [seen EXCEPT !.written = Append(@, Head(chan.down))]
        /\ chan' = [chan EXCEPT !.down = Tail(@)]
        /\ pool' = [pool EXCEPT !.down = return_buffer(@)]
        /\ workers' = [workers EXCEPT !.writer = At("top")]
        /\ UNCHANGED adapter
     \/ /\ chan.down = <<>> /\ workers.receiver.pc = "ended"
        /\ WriterEnds
        /\ UNCHANGED seen
  /\ UNCHANGED <<conf, main>>

-----------------------------------------------------------------------------
(* The main task *)

\* shutdown_rx: the flag, then the message to the server.
UserStops ==
  /\ main.pc = "loop"
  /\ main' = [main EXCEPT !.pc = "told", !.shutdown_flag = TRUE]
  /\ UNCHANGED <<conf, workers, chan, pool, adapter, seen>>

\* Disconnected and ReconnectionFailed; handle_client_event sets the status.
handle_client_event ==
  /\ main.pc = "loop"
  /\ main' = [main EXCEPT !.pc = "told", !.shutdown_flag = TRUE, !.status = "Disconnected"]
  /\ UNCHANGED <<conf, workers, chan, pool, adapter, seen>>

\* Mutant: the receiver is left to end by itself.
AbortsForwarder ==
  /\ main.pc = "told"
  /\ main' = [main EXCEPT !.pc = "join"]
  /\ workers' = [workers EXCEPT !.forwarder = Ended]
  /\ pool' = [pool EXCEPT !.up = return_buffers[Len(chan.up) + Held("forwarder"), @]]
  /\ chan' = [chan EXCEPT !.up = <<>>]
  /\ LetsGo("main")
  /\ UNCHANGED <<conf, seen>>

\* Both tasks are aborted, with what they hold, and the adapter is let go.
Aborts ==
  /\ main.pc = "told"
  /\ main' = [main EXCEPT !.pc = "join"]
  /\ workers' = [workers EXCEPT !.forwarder = Ended, !.receiver = Ended]
  /\ pool' = [up |-> return_buffers[Len(chan.up) + Held("forwarder"), pool.up],
              down |-> return_buffers[Held("receiver"), pool.down]]
  /\ chan' = [chan EXCEPT !.up = <<>>]
  /\ LetsGo("main")
  /\ UNCHANGED <<conf, seen>>

\* The threads are joined for two seconds each, and then no longer waited for.
Joins ==
  /\ main.pc = "join"
  /\ main' = [main EXCEPT !.pc = "done"]
  /\ UNCHANGED <<conf, workers, chan, pool, adapter, seen>>

\* What the pump does by itself, without a packet from outside.
Works ==
  \/ ReaderTop
  \/ recv
  \/ ReaderSends
  \/ ForwarderTakes
  \/ ForwarderSends
  \/ ReceiverSends
  \/ WriterTop
  \/ send
  \/ Aborts
  \/ Joins

Next ==
  \/ Works
  \/ Arrives
  \/ ReceiverHears
  \/ ReceiverSkips
  \/ ReceiverFails
  \/ ReaderFails
  \/ UserStops
  \/ handle_client_event

Spec == Init /\ [][Next]_vars

-----------------------------------------------------------------------------
(* Properties *)

InHand(w) == IF workers[w].held = Nothing THEN <<>> ELSE <<workers[w].held>>
FirstN(n) == [i \in 1..n |-> i]
InUse == [up |-> Held("forwarder") + Len(chan.up) + (IF workers.reader.pc \in {"recv", "send"} THEN 1 ELSE 0),
          down |-> Held("receiver") + Len(chan.down)]

\* Until it is told to stop, the pump loses no packet and keeps their order, however full a channel
\* is and whichever thread waits for which; and at all times every buffer of a pool is free or in use.
PumpConserves ==
  /\ ~main.shutdown_flag =>
       /\ seen.sent \o InHand("forwarder") \o chan.up \o InHand("reader") \o adapter.packets = FirstN(seen.arrived)
       /\ seen.written \o chan.down \o InHand("receiver") = FirstN(seen.heard)
  /\ pool.up + InUse.up >= POOL_SIZE
  /\ pool.down + InUse.down >= POOL_SIZE

\* A connection that ends takes its tasks with it: when the main task is through and nothing more
\* moves, the only one left is a reader thread that waits for a packet of the adapter.
PumpWindsDown ==
  main.pc = "done" /\ ~ENABLED Works =>
    /\ workers.forwarder.pc = "ended" /\ workers.receiver.pc = "ended" /\ workers.writer.pc = "ended"
    /\ workers.reader.pc \in {"recv", "ended"}

\* "Cleanup: drop adapter to signal threads" (commands.rs): when the main task is through and nothing
\* more moves, both threads have ended, and the session of the adapter with them.
ThreadsAreSignalled ==
  main.pc = "done" /\ ~ENABLED Works => adapter.holders = {}
=============================================================================
