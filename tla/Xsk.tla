-------------------------------- MODULE Xsk --------------------------------
(***************************************************************************)
(* The AF_XDP sockets of hpn-afxdp: the frames of a UMEM (umem.rs), the    *)
(* four rings a socket shares with the kernel (ring.rs), and the worker    *)
(* that receives and sends through them (socket.rs, datapath.rs).          *)
(*                                                                         *)
(* Workers share one UMEM and its allocator; each has a socket.  Steps of  *)
(* the allocator on shared atomics are steps of their own.  The kernel is  *)
(* external: it takes the frames of the fill and tx rings in order, and    *)
(* hands them back through the rx and completion rings.  An address is a   *)
(* number: frame n starts at n * FrameSize, and a packet stands Headroom   *)
(* after the start of its frame.                                           *)
(***************************************************************************)
EXTENDS Naturals, FiniteSets

CONSTANTS
  Deployments,  \* [workers, tx]: the workers, and whether they send through their sockets
  NumFrames,    \* num_frames
  FrameSize,    \* frame_size
  Headroom,     \* headroom, below frame_size
  RingSize,     \* ring_size, a power of two
  Width,        \* 2^32 in the code: ring indices are counted modulo Width, a multiple of RingSize
  Prefill       \* fill_prefill

VARIABLES
  conf,       \* one of Deployments
  allocator,  \* [free_stack, stack_top], and a history: raced, whether a push and a pop were
              \* ever under way in one slot at the same time
  rings,      \* worker -> [fill, rx, tx, comp]
  workers     \* worker -> where it is in recv or send

vars == <<conf, allocator, rings, workers>>

Frames == 1 .. NumFrames

Start(frame) == frame * FrameSize
FrameOf(addr) == addr \div FrameSize

\* validate_addr: what packet_mut_checked takes for a frame is the start of one.
validate_addr(addr) == FrameOf(addr) \in Frames /\ addr = Start(FrameOf(addr))

-----------------------------------------------------------------------------
(* Rings *)

\* producer and consumer are shared with the kernel, cached is the index the socket keeps itself.
EmptyRing == [desc |-> [i \in 0 .. (RingSize - 1) |-> 0], producer |-> 0, consumer |-> 0, cached |-> 0]

Forward(i, n) == (i + n) % Width
Distance(from, to) == (to + Width - from) % Width

\* Of the rings the socket produces for, fill and tx.
free_slots(r) == RingSize - Distance(r.consumer, r.cached)
reserve(r, count) == [r EXCEPT !.cached = Forward(@, count)]
write(r, idx, addr) == [r EXCEPT !.desc[idx % RingSize] = addr]
submit(r, count) == [r EXCEPT !.producer = Forward(@, count)]

\* Of the rings the socket consumes, rx and comp.
available(r) == Distance(r.cached, r.producer)
peek(r, idx) == r.desc[Forward(r.cached, idx) % RingSize]
release(r, count) == [r EXCEPT !.cached = Forward(@, count), !.consumer = Forward(r.cached, count)]

\* What the kernel does with either kind.
KernelTakes(r) == [r EXCEPT !.consumer = Forward(@, 1)]
KernelPuts(r, addr) == [write(r, r.producer, addr) EXCEPT !.producer = Forward(@, 1)]
KernelHasRoom(r) == Distance(r.consumer, r.producer) < RingSize
Waiting(r) == Distance(r.consumer, r.producer)

-----------------------------------------------------------------------------
(* The allocator *)

NewAllocator == [free_stack |-> [i \in Frames |-> Start(i)], stack_top |-> NumFrames, raced |-> FALSE]

\* A socket puts Prefill frames on its fill ring before its worker starts, one socket after another.
prefill_fill_ring(n, r) ==
  [submit(reserve(r, Prefill), Prefill)
     EXCEPT !.desc = [i \in 0 .. (RingSize - 1) |->
                        IF i < Prefill THEN Start(NumFrames - n * Prefill - i) ELSE 0]]

Idle == [pc |-> "idle"]

Init == /\ conf \in Deployments
        /\ allocator = [NewAllocator EXCEPT !.stack_top = NumFrames - conf.workers * Prefill]
        /\ rings = [w \in 1 .. conf.workers |->
                      [fill |-> prefill_fill_ring(w - 1, EmptyRing),
                       rx |-> EmptyRing, tx |-> EmptyRing, comp |-> EmptyRing]]
        /\ workers = [w \in 1 .. conf.workers |-> Idle]

Goto(w, step) == workers' = [workers EXCEPT ![w] = step]

\* Another worker is between the two steps of its own push or pop of this slot.
InSlot(w, slot) ==
  \E v \in DOMAIN workers \ {w} : workers[v].pc \in {"load", "store"} /\ workers[v].slot = slot

\* alloc pops with a compare-and-swap of stack_top, and reads the slot after it.
AllocPop(w, next) ==
  /\ allocator.stack_top > 0
  /\ allocator' = [allocator EXCEPT !.stack_top = @ - 1, !.raced = @ \/ InSlot(w, allocator.stack_top)]
  /\ Goto(w, [pc |-> "load", slot |-> allocator.stack_top, next |-> next])

\* free pushes with a compare-and-swap, and writes the slot after it.
FreePush(w, addr, next) ==
  /\ allocator' = [allocator EXCEPT !.stack_top = @ + 1, !.raced = @ \/ InSlot(w, allocator.stack_top + 1)]
  /\ Goto(w, [pc |-> "store", slot |-> allocator.stack_top + 1, addr |-> addr, next |-> next])

FreeStore(w) ==
  /\ workers[w].pc = "store"
  /\ allocator' = [allocator EXCEPT !.free_stack[workers[w].slot] = workers[w].addr]
  /\ Goto(w, workers[w].next)
  /\ UNCHANGED <<conf, rings>>

-----------------------------------------------------------------------------
(* recv and refill_frames *)

\* The handler has read the frames when rx.release gives them back, and nothing frees them.
recv(w) ==
  /\ workers[w].pc = "idle" /\ available(rings[w].rx) > 0
  /\ \E count \in 1 .. available(rings[w].rx) :
       /\ rings' = [rings EXCEPT ![w].rx = release(@, count)]
       /\ Goto(w, [pc |-> "reclaim", i |-> 0, completed |-> available(rings[w].comp),
                   next |-> [pc |-> "refill", count |-> count]])
  /\ UNCHANGED <<conf, allocator>>

\* reclaim_completed frees the addresses of the completion ring as they are, the headroom that
\* send_submit added included, then releases the ring.
ReclaimOne(w) ==
  /\ workers[w].pc = "reclaim" /\ workers[w].i < workers[w].completed
  /\ FreePush(w, peek(rings[w].comp, workers[w].i), [workers[w] EXCEPT !.i = @ + 1])
  /\ UNCHANGED <<conf, rings>>

ReleasesComp(w, completed) ==
  /\ workers[w].pc = "reclaim" /\ workers[w].i = workers[w].completed
  /\ rings' = [rings EXCEPT ![w].comp = release(@, completed)]
  /\ Goto(w, workers[w].next)
  /\ UNCHANGED <<conf, allocator>>

ReclaimEndUnreleased(w) == ReleasesComp(w, 0)
ReclaimEnd(w) == ReleasesComp(w, workers[w].completed)

MinOf(a, b) == IF a < b THEN a ELSE b

refill_frames(w) ==
  LET n == MinOf(allocator.stack_top, workers[w].count)
  IN /\ workers[w].pc = "refill"
     /\ IF n = 0 \/ free_slots(rings[w].fill) < n
          THEN Goto(w, Idle) /\ UNCHANGED rings
          ELSE /\ rings' = [rings EXCEPT ![w].fill = reserve(@, n)]
               /\ Goto(w, [pc |-> "fill", start |-> rings[w].fill.cached, i |-> 0, n |-> n])
     /\ UNCHANGED <<conf, allocator>>

\* When the allocator has run dry since, what was written so far is submitted.
RefillOne(w) ==
  /\ workers[w].pc = "fill"
  /\ IF workers[w].i = workers[w].n \/ allocator.stack_top = 0
       THEN /\ rings' = [rings EXCEPT ![w].fill = submit(@, workers[w].i)]
            /\ Goto(w, Idle)
            /\ UNCHANGED allocator
       ELSE AllocPop(w, workers[w]) /\ UNCHANGED rings
  /\ UNCHANGED conf

-----------------------------------------------------------------------------
(* send_reserve and send_submit, as process_tx calls them *)

\* A full tx ring makes the worker reclaim, and try once more.
send_reserve(w) ==
  /\ conf.tx
  /\ \/ /\ workers[w].pc = "idle"
        /\ free_slots(rings[w].tx) = 0
        /\ Goto(w, [pc |-> "reclaim", i |-> 0, completed |-> available(rings[w].comp),
                    next |-> [pc |-> "again"]])
        /\ UNCHANGED allocator
     \/ /\ workers[w].pc = "again" /\ free_slots(rings[w].tx) = 0
        /\ Goto(w, Idle)
        /\ UNCHANGED allocator
     \/ /\ workers[w].pc \in {"idle", "again"} /\ free_slots(rings[w].tx) > 0
        /\ IF allocator.stack_top = 0 THEN Goto(w, Idle) /\ UNCHANGED allocator
                                      ELSE AllocPop(w, [pc |-> "send"])
  /\ UNCHANGED <<conf, rings>>

\* The descriptor points at the packet, past the headroom of its frame.
send_submit(r, addr) == submit(write(reserve(r, 1), r.cached, addr + Headroom), 1)

\* The slot is read after the pop, whatever stands there by then.
Loaded(w) == allocator.free_stack[workers[w].slot]
Loads(w, pc) == workers[w].pc = "load" /\ workers[w].next.pc = pc

\* A popped address goes to the fill ring, whatever it is ...
FillLoad(w) ==
  LET step == workers[w].next
  IN /\ Loads(w, "fill")
     /\ rings' = [rings EXCEPT ![w].fill = write(@, Forward(step.start, step.i), Loaded(w))]
     /\ Goto(w, [step EXCEPT !.i = @ + 1])
     /\ UNCHANGED <<conf, allocator>>

\* ... or to the tx ring, when packet_mut_checked takes it for a frame.  When the packet cannot
\* be encoded or encrypted into the frame, process_tx returns, and the frame is nobody's.
SendLoad(w) ==
  /\ Loads(w, "send") /\ validate_addr(Loaded(w))
  /\ \/ rings' = [rings EXCEPT ![w].tx = send_submit(@, Loaded(w))]
     \/ UNCHANGED rings
  /\ Goto(w, Idle)
  /\ UNCHANGED <<conf, allocator>>

\* Else send_reserve frees the address again, and has no frame to send.
SendRefused(w) ==
  /\ Loads(w, "send") /\ ~validate_addr(Loaded(w))
  /\ FreePush(w, Loaded(w), Idle)
  /\ UNCHANGED <<conf, rings>>

-----------------------------------------------------------------------------
(* The kernel *)

\* The UMEM is registered in aligned mode: the kernel takes any address of the fill ring for the
\* frame it lies in, and writes the packet past its headroom.
KernelReceives(w) ==
  LET addr == rings[w].fill.desc[rings[w].fill.consumer % RingSize]
  IN /\ Waiting(rings[w].fill) > 0 /\ KernelHasRoom(rings[w].rx)
     /\ rings' = [rings EXCEPT ![w].fill = KernelTakes(@),
                               ![w].rx = KernelPuts(@, Start(FrameOf(addr)) + Headroom)]
     /\ UNCHANGED <<conf, allocator, workers>>

KernelSends(w) ==
  /\ Waiting(rings[w].tx) > 0 /\ KernelHasRoom(rings[w].comp)
  /\ rings' = [rings EXCEPT ![w].tx = KernelTakes(@),
                            ![w].comp = KernelPuts(@, rings[w].tx.desc[rings[w].tx.consumer % RingSize])]
  /\ UNCHANGED <<conf, allocator, workers>>

WorkerStep(w) == \/ recv(w) \/ ReclaimOne(w) \/ ReclaimEnd(w) \/ refill_frames(w) \/ RefillOne(w)
                 \/ send_reserve(w) \/ FillLoad(w) \/ SendLoad(w) \/ SendRefused(w) \/ FreeStore(w)

Next == \E w \in 1 .. conf.workers : WorkerStep(w) \/ KernelReceives(w) \/ KernelSends(w)

Spec == Init /\ [][Next]_vars

-----------------------------------------------------------------------------
(* Properties *)

\* How often a frame is listed between the indices of a ring.
Listed(r, from, n, frame) ==
  Cardinality({i \in 0 .. (n - 1) : FrameOf(r.desc[Forward(from, i) % RingSize]) = frame})
InRing(r, frame) == Listed(r, r.consumer, Waiting(r), frame)

\* Completions that are freed already wait for ReclaimEnd.
Freed(w) == CASE workers[w].pc = "reclaim" -> workers[w].i
              [] workers[w].pc = "store" /\ workers[w].next.pc = "reclaim" -> workers[w].next.i
              [] OTHER -> 0
InComp(w, frame) ==
  Listed(rings[w].comp, Forward(rings[w].comp.cached, Freed(w)),
         available(rings[w].comp) - Freed(w), frame)

\* Slots of the fill ring that are written and not submitted yet.
Written(w) == CASE workers[w].pc = "fill" -> workers[w].i
                [] workers[w].pc = "load" /\ workers[w].next.pc = "fill" -> workers[w].next.i
                [] OTHER -> 0
Unsubmitted(w, frame) == Listed(rings[w].fill, rings[w].fill.producer, Written(w), frame)

InHand(w, frame) ==
  IF workers[w].pc = "load" /\ FrameOf(Loaded(w)) = frame THEN 1 ELSE 0

\* The slot of a push that is not written yet counts for the frame that will be there.
Slot(i) == LET writers == {w \in 1 .. conf.workers : workers[w].pc = "store" /\ workers[w].slot = i}
           IN FrameOf(IF writers = {} THEN allocator.free_stack[i]
                      ELSE workers[CHOOSE w \in writers : TRUE].addr)
InAllocator(frame) == Cardinality({i \in 1 .. allocator.stack_top : Slot(i) = frame})

Holders(w, frame) == InRing(rings[w].fill, frame) + InRing(rings[w].rx, frame)
                     + InRing(rings[w].tx, frame) + InComp(w, frame)
                     + Unsubmitted(w, frame) + InHand(w, frame)

HeldOnce ==
  \A frame \in Frames :
    LET held[w \in 0 .. conf.workers] == IF w = 0 THEN InAllocator(frame)
                                         ELSE held[w - 1] + Holders(w, frame)
    IN held[conf.workers] <= 1

\* A frame is never in two places: the allocator, a ring, and a worker's hand never hold it twice,
\* so that neither the kernel nor another worker writes into a packet that is still being read or
\* sent; ring indices that wrap, refills that fall short, and frames that come back from the
\* completion ring as the address of their packet included (socket.rs:358-518).  It takes a push
\* and a pop of two workers in one slot at once to break it (umem.rs:134-190): up to there it
\* holds for workers that share the frames and send.
FrameHeldOnce == ~allocator.raced => HeldOnce

\* What the assertion of free states (umem.rs:171): only the start of a frame is freed.  TLC
\* refutes it as soon as a sent frame is reclaimed.
FreesFrameStarts == \A w \in DOMAIN workers : workers[w].pc = "store" => validate_addr(workers[w].addr)
=============================================================================
