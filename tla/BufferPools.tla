---------------------------- MODULE BufferPools ----------------------------
(***************************************************************************)
(* The packet buffer pools.  Of the client: BufferPool for what is sent,   *)
(* BytesPool for what is received, both with a bounded number of buffers   *)
(* beyond the pool.  Of the server: BufferPool between the UDP workers and *)
(* the TUN writer, and the BytesPool private to a TUN reader.  A pool is a *)
(* bounded channel; a buffer that finds it full on its way back is freed.  *)
(* Every access to the channel or to the overflow counter is a step.       *)
(***************************************************************************)
EXTENDS Integers, Sequences, FiniteSets

CONSTANTS Deployments,                 \* [kind, size, threads, packets]
          DEFAULT_OVERFLOW_MULTIPLIER,
          MIN_OVERFLOW_CAP

VARIABLES conf,
          pool,          \* the buffers waiting in the channel
          overflow,      \* overflow_in_use
          threads,       \* per thread: where it is and the buffer it holds
          spent          \* packets handled so far

vars == <<conf, pool, overflow, threads, spent>>

Client == conf.kind \in {"BufferPool", "BytesPool"}

\* Of a buffer: whether it is MAX_PACKET_SIZE long, its valid length, and how much of it holds a packet.
zeroed == [full |-> TRUE, len |-> 0, written |-> 0]
Idle == [pc |-> "idle", buf |-> zeroed, counted |-> FALSE, seen |-> 0]

max_overflow_allocations(size) ==
  IF size * DEFAULT_OVERFLOW_MULTIPLIER > MIN_OVERFLOW_CAP THEN size * DEFAULT_OVERFLOW_MULTIPLIER ELSE MIN_OVERFLOW_CAP

\* The constructors fill the channel.
new(size) == [i \in 1..size |-> zeroed]
BytesPool_new(size) == [i \in 1..size |-> zeroed]
ServerBufferPool_new(size) == [i \in 1..size |-> zeroed]
TunBytesPool_new(size) == [i \in 1..size |-> zeroed]

Init ==
  /\ conf \in Deployments
  /\ pool = CASE conf.kind = "BufferPool" -> new(conf.size)
              [] conf.kind = "BytesPool" -> BytesPool_new(conf.size)
              [] conf.kind = "server" -> ServerBufferPool_new(conf.size)
              [] conf.kind = "tun" -> TunBytesPool_new(conf.size)
  /\ overflow = 0
  /\ threads = [t \in 1..conf.threads |-> Idle]
  /\ spent = 0

\* The client's wrappers make the buffer whole again; what it holds stays.
PooledBuffer_new(b) == [b EXCEPT !.full = TRUE, !.len = 0]
PooledBytesMut_new(b) == [b EXCEPT !.full = TRUE]
ServerPooledBuffer_new(b) == [b EXCEPT !.len = 0]

Wrapped(b) ==
  CASE conf.kind = "BufferPool" -> PooledBuffer_new(b)
    [] conf.kind = "BytesPool" -> PooledBytesMut_new(b)
    [] conf.kind = "server" -> ServerPooledBuffer_new(b)
    [] conf.kind = "tun" -> b

Holds(t, b, counted) ==
  threads' = [threads EXCEPT ![t] = [pc |-> "holds", buf |-> Wrapped(b), counted |-> counted, seen |-> 0]]
Goes(t, pc) == threads' = [threads EXCEPT ![t].pc = pc]

Calls(t) == threads[t].pc = "idle" /\ spent < conf.packets /\ spent' = spent + 1

\* get of the client's pools: try_recv, then an overflow slot.
get_try(t) ==
  /\ Client /\ Calls(t)
  /\ IF pool # <<>> THEN Holds(t, Head(pool), FALSE) /\ pool' = Tail(pool)
                    ELSE Goes(t, "slot") /\ UNCHANGED pool
  /\ UNCHANGED overflow

\* get of the server's pools: try_recv, then a new buffer.
ServerBufferPool_get(t) ==
  /\ conf.kind = "server" /\ Calls(t)
  /\ IF pool # <<>> THEN Holds(t, Head(pool), FALSE) /\ pool' = Tail(pool)
                    ELSE Holds(t, zeroed, FALSE) /\ UNCHANGED pool
  /\ UNCHANGED overflow

TunBytesPool_get(t) ==
  /\ conf.kind = "tun" /\ Calls(t)
  /\ IF pool # <<>> THEN Holds(t, Head(pool), FALSE) /\ pool' = Tail(pool)
                    ELSE Holds(t, zeroed, FALSE) /\ UNCHANGED pool
  /\ UNCHANGED overflow

slot_load(t) ==
  /\ threads[t].pc = "slot"
  /\ threads' = [threads EXCEPT ![t].seen = overflow,
                   ![t].pc = IF overflow >= max_overflow_allocations(conf.size) THEN "wait" ELSE "cas"]
  /\ UNCHANGED <<pool, overflow, spent>>

\* compare_exchange_weak: it fails when the counter has moved, and may fail when it has not.
slot_cas(t) ==
  /\ threads[t].pc = "cas"
  /\ \/ overflow = threads[t].seen /\ overflow' = overflow + 1 /\ Holds(t, zeroed, TRUE)
     \/ Goes(t, "slot") /\ UNCHANGED overflow
  /\ UNCHANGED <<pool, spent>>

\* get: at the limit the caller waits for a buffer, and past the wait allocates one uncounted.
get_wait(t) ==
  /\ threads[t].pc = "wait"
  /\ IF pool # <<>> THEN Holds(t, Head(pool), FALSE) /\ pool' = Tail(pool)
                    ELSE Holds(t, zeroed, FALSE) /\ UNCHANGED pool
  /\ UNCHANGED <<overflow, spent>>

\* send_data and send_keepalive write through buffer_mut and leave the valid length at zero.
send_data(b) == [b EXCEPT !.written = 1]

\* The receive loop gives the packet away with split_to_bytes; what is not data stays in the buffer.
split_to_bytes(b) == [b EXCEPT !.full = FALSE, !.written = 0]
process_packet(b) == {split_to_bytes(b), [b EXCEPT !.written = 1], b}

\* A UDP worker decrypts into the buffer, sets its length and passes it to the TUN writer.
handle_data_packet(b) == {[b EXCEPT !.written = 1, !.len = 1], [b EXCEPT !.written = 1], b}

\* A TUN reader splits the packet it has read off its buffer, which is then short.
tun_read(b) == [b EXCEPT !.full = FALSE, !.written = 0]

Uses(b) ==
  CASE conf.kind = "BufferPool" -> {send_data(b), b}
    [] conf.kind = "BytesPool" -> process_packet(b)
    [] conf.kind = "server" -> handle_data_packet(b)
    [] conf.kind = "tun" -> {tun_read(b)}

use(t) ==
  /\ threads[t].pc = "holds"
  /\ \E b \in Uses(threads[t].buf) :
       threads' = [threads EXCEPT ![t].buf = b, ![t].pc = "drops"]
  /\ UNCHANGED <<pool, overflow, spent>>

\* drop: an overflow buffer gives its slot back before it goes to the channel.
drop_slot(t) ==
  /\ threads[t].pc = "drops"
  /\ overflow' = IF threads[t].counted THEN overflow - 1 ELSE overflow
  /\ threads' = [threads EXCEPT ![t].pc = "returns", ![t].counted = FALSE]
  /\ UNCHANGED <<pool, spent>>

\* Mutated form: only the valid range is wiped.
wipeValidRange(b) == [b EXCEPT !.written = IF b.len >= b.written THEN 0 ELSE b.written]

\* The client wipes all of the buffer it still owns.
wipe(b) == [b EXCEPT !.written = 0]

PooledBuffer_drop(b) == wipe(b)
PooledBytesMut_drop(b) == wipe(b)

\* The server's buffers go back as they are, at full length; a short one of a TUN reader is freed.
ServerPooledBuffer_drop(b) == [b EXCEPT !.full = TRUE]
put(b) == IF b.full THEN {b} ELSE {}

\* The buffer that tries the channel, if any.
Returned(b) ==
  CASE conf.kind = "BufferPool" -> {PooledBuffer_drop(b)}
    [] conf.kind = "BytesPool" -> {PooledBytesMut_drop(b)}
    [] conf.kind = "server" -> {ServerPooledBuffer_drop(b)}
    [] conf.kind = "tun" -> put(b)

drop_return(t) ==
  /\ threads[t].pc = "returns"
  /\ LET back == Returned(threads[t].buf) IN
     pool' = IF back # {} /\ Len(pool) < conf.size THEN Append(pool, CHOOSE b \in back : TRUE) ELSE pool
  /\ threads' = [threads EXCEPT ![t] = Idle]
  /\ UNCHANGED <<overflow, spent>>

Step(t) ==
  \/ get_try(t)
  \/ ServerBufferPool_get(t)
  \/ TunBytesPool_get(t)
  \/ slot_load(t)
  \/ slot_cas(t)
  \/ get_wait(t)
  \/ use(t)
  \/ drop_slot(t)
  \/ drop_return(t)

Next == \E t \in 1..conf.threads : Step(t) /\ UNCHANGED conf

Spec == Init /\ [][Next]_vars

-----------------------------------------------------------------------------
(* BuffersStayFit: however the threads interleave in get and drop,         *)
(* overflow_in_use is the number of overflow buffers in use and stays      *)
(* within max_overflow_allocations; whoever gets a buffer gets it at full  *)
(* length with nothing in its valid range; and no buffer of the client     *)
(* waits in its pool, or is handed out, with a packet left in it ("Clear   *)
(* the full pooled allocation before reuse", the drop of PooledBuffer).    *)
BuffersStayFit ==
  /\ overflow = Cardinality({t \in 1..conf.threads : threads[t].counted})
  /\ overflow <= max_overflow_allocations(conf.size)
  /\ \A t \in 1..conf.threads : threads[t].pc = "holds" =>
       threads[t].buf.full /\ threads[t].buf.len = 0 /\ (Client => threads[t].buf.written = 0)
  /\ Client => \A i \in 1..Len(pool) : pool[i].written = 0
=============================================================================
