------------------------------ MODULE IoUring ------------------------------
(***************************************************************************)
(* The io_uring backend of a UDP worker (io_uring_udp.rs, and the loop of  *)
(* run_io_uring_worker): the buffers it lends to the kernel with every     *)
(* receive and send, and gets back with their completions.                 *)
(*                                                                         *)
(* The kernel is external: with SQPOLL a thread of its own takes entries   *)
(* from the submission queue at any time, without it they are taken when   *)
(* submit is called; a submit may fail; an entry completes once, in any    *)
(* order, with a result or an error.                                       *)
(*                                                                         *)
(* SendBuffer::new points the header of a send at the address and the      *)
(* vector beside it before the buffer is moved to its slot, so the kernel  *)
(* follows it to the stack frame the buffer was built in.  It finds there  *)
(* the last buffer built, or what later calls have left.  An entry is      *)
(* <<op, index>>; once taken, <<op, index, the packet its header leads to>>. *)
(***************************************************************************)
EXTENDS Integers, Sequences, SequencesExt

CONSTANTS Deployments,       \* [sqpoll; packets, sends, faults: how many]
          DEFAULT_RING_SIZE, \* entries of the submission queue, and sends in flight
          NUM_BUFFERS        \* receive buffers

VARIABLES conf,
          worker,   \* [pc, idx, submitted, sent_any, received]: the loop, and the packets it has taken
          uring,    \* the state of an IoUringUdp
          kernel,   \* [sq, held, cq]: the two queues, and the entries being worked on
          spent

vars == <<conf, worker, uring, kernel, spent>>

OP_RECV == 1
OP_SEND == 2
None == 0
Overwritten == -1

\* The buffer lent with every entry: what a receive buffer holds, None once reset.
new ==
  [recv_buffers |-> [i \in 1..NUM_BUFFERS |-> None],
   free_buffers |-> [i \in 1..NUM_BUFFERS |-> i],
   pending_recv_indices |-> {},
   pending_sends |-> [i \in 1..DEFAULT_RING_SIZE |-> None],
   free_send_indices |-> [i \in 1..DEFAULT_RING_SIZE |-> DEFAULT_RING_SIZE + 1 - i],
   frame |-> Overwritten]

\* The worker submits its first receives before it enters the loop.
Init ==
  /\ conf \in Deployments
  /\ worker = [pc |-> "recvs", idx |-> 0, submitted |-> FALSE, sent_any |-> FALSE, received |-> <<>>]
  /\ uring = new
  /\ kernel = [sq |-> <<>>, held |-> {}, cq |-> <<>>]
  /\ spent = [packets |-> 0, sends |-> 0, faults |-> 0]

HasRoom(k) == Len(k.sq) < DEFAULT_RING_SIZE
push(k, op, idx) == [k EXCEPT !.sq = Append(@, <<op, idx>>)]

\* What a header leads the kernel to: for a send, what is left where its buffer was built.
Found == {uring.frame, Overwritten}
Taken(e, found) == <<e[1], e[2], IF e[1] = OP_SEND THEN found ELSE None>>

\* ring.submit: wakes the kernel's thread, or hands it the whole queue.
Submitted(k, found) ==
  IF conf.sqpoll THEN k
  ELSE [k EXCEPT !.sq = <<>>, !.held = @ \cup {Taken(e, found) : e \in ToSet(k.sq)}]
Submit == \E found \in Found : kernel' = Submitted(kernel, found)
Fails == spent.faults < conf.faults /\ spent' = [spent EXCEPT !.faults = @ + 1]

Goes(pc) == worker' = [worker EXCEPT !.pc = pc]

-----------------------------------------------------------------------------
(* submit_recvs: a step per buffer, as the kernel empties the queue meanwhile *)

reset(u, idx) == [u EXCEPT !.recv_buffers[idx] = None]

\* Mutated form: the buffer popped is not put back when the queue is full.
submit_recvsLost ==
  /\ worker.pc = "recvs" /\ uring.free_buffers # <<>>
  /\ LET idx == Head(uring.free_buffers)
         popped == reset([uring EXCEPT !.free_buffers = Tail(@)], idx)
     IN  IF HasRoom(kernel)
         THEN /\ kernel' = push(kernel, OP_RECV, idx)
              /\ uring' = [popped EXCEPT !.pending_recv_indices = @ \cup {idx}]
              /\ worker' = [worker EXCEPT !.submitted = TRUE]
         ELSE /\ uring' = popped
              /\ Goes("submit")
              /\ UNCHANGED kernel
  /\ UNCHANGED <<conf, spent>>

submit_recvs ==
  /\ worker.pc = "recvs" /\ uring.free_buffers # <<>>
  /\ LET idx == Head(uring.free_buffers)
     IN  IF HasRoom(kernel)
         THEN /\ kernel' = push(kernel, OP_RECV, idx)
              /\ uring' = reset([uring EXCEPT !.free_buffers = Tail(@),
                                              !.pending_recv_indices = @ \cup {idx}], idx)
              /\ worker' = [worker EXCEPT !.submitted = TRUE]
         ELSE /\ uring' = reset(uring, idx)
              /\ Goes("submit")
              /\ UNCHANGED kernel
  /\ UNCHANGED <<conf, spent>>

\* No buffer is left, or there was no room for one: what was queued, if anything, is submitted.
submit_recvs_end ==
  /\ worker.pc = "submit" \/ (worker.pc = "recvs" /\ uring.free_buffers = <<>>)
  /\ \/ worker.submitted /\ Submit /\ UNCHANGED spent
     \/ worker.submitted /\ Fails /\ UNCHANGED kernel
     \/ ~worker.submitted /\ UNCHANGED <<kernel, spent>>
  /\ worker' = [worker EXCEPT !.pc = "sends", !.submitted = FALSE, !.sent_any = FALSE]
  /\ UNCHANGED <<conf, uring>>

-----------------------------------------------------------------------------
(* queue_send, for a packet or an answer taken from the worker's channels *)

\* Built in a stack frame, where its header keeps pointing.
SendBuffer(u, packet) == [u EXCEPT !.frame = packet]

Lent(u, packet) == [u EXCEPT !.free_send_indices = Front(@),
                             !.pending_sends[Last(u.free_send_indices)] = packet]

\* Without a free slot the packet is refused; without room in the queue it is submitted first.
queue_send ==
  /\ worker.pc = "sends" /\ spent.sends < conf.sends
  /\ spent' = [spent EXCEPT !.sends = @ + 1]
  /\ IF uring.free_send_indices = <<>> THEN uring' = SendBuffer(uring, spent.sends + 1) /\ UNCHANGED <<worker, kernel>>
     ELSE LET idx == Last(uring.free_send_indices)
          IN  /\ uring' = Lent(SendBuffer(uring, spent.sends + 1), spent.sends + 1)
              /\ IF HasRoom(kernel)
                 THEN kernel' = push(kernel, OP_SEND, idx) /\ worker' = [worker EXCEPT !.sent_any = TRUE]
                 ELSE worker' = [worker EXCEPT !.pc = "retry", !.idx = idx] /\ UNCHANGED kernel
  /\ UNCHANGED conf

\* The queue was full: submit, whose failure ends the call with the slot still taken.
queue_send_submit ==
  /\ worker.pc = "retry"
  /\ \/ Submit /\ Goes("again") /\ UNCHANGED spent
     \/ Fails /\ Goes("sends") /\ UNCHANGED kernel
  /\ UNCHANGED <<conf, uring>>

\* With SQPOLL the queue may still be full: the call fails, and the slot stays taken.
queue_send_again ==
  /\ worker.pc = "again"
  /\ IF HasRoom(kernel)
     THEN kernel' = push(kernel, OP_SEND, worker.idx) /\ worker' = [worker EXCEPT !.pc = "sends", !.sent_any = TRUE]
     ELSE Goes("sends") /\ UNCHANGED kernel
  /\ UNCHANGED <<conf, uring, spent>>

\* The worker's batch of sends ends.
flush ==
  /\ worker.pc = "sends"
  /\ \/ worker.sent_any /\ Submit /\ UNCHANGED spent
     \/ ~worker.sent_any /\ UNCHANGED <<kernel, spent>>
     \/ worker.sent_any /\ Fails /\ UNCHANGED kernel
  /\ Goes("completions")
  /\ UNCHANGED <<conf, uring>>

-----------------------------------------------------------------------------
(* poll_completions *)

\* A receive with an address behind it is a packet; its buffer is free again either way.
CompleteRecv(u, idx) ==
  [u EXCEPT !.pending_recv_indices = @ \ {idx}, !.free_buffers = Append(@, idx)]

CompleteSend(u, idx) ==
  IF u.pending_sends[idx] = None THEN u
  ELSE [u EXCEPT !.pending_sends[idx] = None, !.free_send_indices = Append(@, idx)]

Received(u, cq) ==
  LET got(c) == c[1] = OP_RECV /\ c[3] /\ u.recv_buffers[c[2]] # None
      those == SelectSeq(cq, got)
  IN  [i \in DOMAIN those |-> u.recv_buffers[those[i][2]]]

\* The receives in their order, and after them the sends from the highest slot down.
process_completions(u, cq) ==
  LET recvs == SelectSeq(cq, LAMBDA c : c[1] = OP_RECV)
      sends == SetToSortSeq({c[2] : c \in {c \in ToSet(cq) : c[1] = OP_SEND}}, LAMBDA i, j : i > j)
  IN  FoldLeft(CompleteSend, FoldLeft(LAMBDA x, c : CompleteRecv(x, c[2]), u, recvs), sends)

\* A failing submit leaves the completions for the next round.
poll_completions ==
  /\ worker.pc = "completions"
  /\ \/ /\ worker' = [worker EXCEPT !.pc = "recvs", !.received = @ \o Received(uring, kernel.cq)]
        /\ uring' = process_completions(uring, kernel.cq)
        /\ \E found \in Found : kernel' = [Submitted(kernel, found) EXCEPT !.cq = <<>>]
        /\ UNCHANGED spent
     \/ Fails /\ Goes("recvs") /\ UNCHANGED <<uring, kernel>>
  /\ UNCHANGED conf

-----------------------------------------------------------------------------
(* The kernel *)

KernelTakes ==
  /\ conf.sqpoll /\ kernel.sq # <<>>
  /\ \E found \in Found :
       kernel' = [kernel EXCEPT !.sq = Tail(@), !.held = @ \cup {Taken(Head(kernel.sq), found)}]
  /\ UNCHANGED <<conf, worker, uring, spent>>

\* A packet arrives in the buffer of a receive; a send is done; either may fail.
KernelCompletes(e, ok) ==
  /\ e \in kernel.held
  /\ ~ok => spent.faults < conf.faults
  /\ e[1] = OP_RECV /\ ok => spent.packets < conf.packets
  /\ kernel' = [kernel EXCEPT !.held = @ \ {e}, !.cq = Append(@, <<e[1], e[2], ok>>)]
  /\ IF e[1] = OP_RECV /\ ok
     THEN /\ uring' = [uring EXCEPT !.recv_buffers[e[2]] = spent.packets + 1]
          /\ spent' = [spent EXCEPT !.packets = @ + 1]
     ELSE /\ spent' = [spent EXCEPT !.faults = IF ok THEN @ ELSE @ + 1]
          /\ UNCHANGED uring
  /\ UNCHANGED <<conf, worker>>

Next ==
  \/ submit_recvs
  \/ submit_recvs_end
  \/ queue_send
  \/ queue_send_submit
  \/ queue_send_again
  \/ flush
  \/ poll_completions
  \/ KernelTakes
  \/ \E e \in kernel.held, ok \in BOOLEAN : KernelCompletes(e, ok)

Spec == Init /\ [][Next]_vars

-----------------------------------------------------------------------------
Places(op, idx) ==
  Len(SelectSeq(kernel.sq, LAMBDA e : e = <<op, idx>>))
    + Cardinality({e \in kernel.held : e[1] = op /\ e[2] = idx})
    + Len(SelectSeq(kernel.cq, LAMBDA c : c[1] = op /\ c[2] = idx))

(* UringBuffersHeldOnce: a receive buffer is free, or lent to the kernel   *)
(* with one entry, never both and never lost, so no receive writes into a  *)
(* buffer that is read or lent again; the buffer of a send lives as long   *)
(* as the kernel may read it, and its slot is given to no other send       *)
(* meanwhile; and no packet is delivered twice.                            *)
UringBuffersHeldOnce ==
  /\ \A i \in 1..NUM_BUFFERS :
       Len(SelectSeq(uring.free_buffers, LAMBDA j : j = i)) + Places(OP_RECV, i) = 1
  /\ \A i \in 1..DEFAULT_RING_SIZE :
       /\ Places(OP_SEND, i) <= 1
       /\ Places(OP_SEND, i) = 1 => uring.pending_sends[i] # None
       /\ (uring.pending_sends[i] = None) <=> (i \in ToSet(uring.free_send_indices))
  /\ IsInjective(worker.received)

(* SendsAsQueued: a packet queued is sent to the address it was queued     *)
(* for: a send the kernel has taken finds its own packet and address, or   *)
(* fails, and never sends another packet in its place.                     *)
SendsAsQueued ==
  \A e \in kernel.held :
    e[1] = OP_SEND => e[3] \in {uring.pending_sends[e[2]], Overwritten}
=============================================================================
