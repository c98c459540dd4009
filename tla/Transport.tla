------------------------------ MODULE Transport ------------------------------
(***************************************************************************)
(* The TCP transport of the client and the fallback to it (transport.rs).  *)
(* Every call that moves a frame holds the lock of the stream from its     *)
(* first byte to its last, awaiting in between, and looks at connected     *)
(* before it has the lock.  A frame is its length prefix followed by its   *)
(* body, two entries of the sequence of bytes in flight.  The manager      *)
(* (TransportFallback) is a state machine of its own, driven by whoever    *)
(* records failures and successes; it decides which transport connect      *)
(* makes.                                                                  *)
(***************************************************************************)
EXTENDS Integers, Sequences, SequencesExt

CONSTANTS Deployments    \* [threshold: udp_failure_threshold; fallback: whether one is configured;
                         \*  cancels: whether a recv may be dropped before it is through, as by select!;
                         \*  frames: what the server writes, each "data", "empty" or "oversize";
                         \*  sends, outcomes, faults: bounds]

VARIABLES conf,
          mgr,           \* [current, using_fallback, count]: TransportFallback
          conn,          \* [connected, lock: the task that has the stream, stream: "up", "down" or "shut"]
          tasks,         \* per task: [pc, frame]
          wire,          \* [out: to the server; in: to the client; written: entries the server has written]
          past           \* [got: frames delivered; streak: failures in a row; spent: per bound]

vars == <<conf, mgr, conn, tasks, wire, past>>

Senders == {"send1", "send2"}
Tasks == Senders \cup {"recv", "close"}
Idle == [pc |-> "idle", frame |-> 0]
NoConn == [connected |-> FALSE, lock |-> "none", stream |-> "down"]
NoBytes == [out |-> <<>>, in |-> <<>>, written |-> 0]
Goes(t, pc) == tasks' = [tasks EXCEPT ![t].pc = pc]

Init ==
  /\ conf \in Deployments
  /\ mgr = [current |-> "none", using_fallback |-> FALSE, count |-> 0]
  /\ conn = NoConn
  /\ tasks = [t \in Tasks |-> Idle]
  /\ wire = NoBytes
  /\ past = [got |-> <<>>, streak |-> 0, sends |-> 0, outcomes |-> 0, faults |-> 0]

\* A transport is replaced when no call is under way on it.
Quiet == \A t \in Tasks : tasks[t].pc = "idle"

-----------------------------------------------------------------------------
(* TransportFallback *)

\* connect_primary: the socket is bound, whether or not anything can pass.
connect_primary ==
  /\ ~mgr.using_fallback
  /\ mgr.current # "udp"
  /\ mgr' = [mgr EXCEPT !.current = "udp", !.using_fallback = FALSE]
  /\ UNCHANGED <<conn, tasks, wire, past>>

\* The transport that connect makes when the TCP connection and its TLS handshake succeed.
TcpTransport_connect == [connected |-> TRUE, lock |-> "none", stream |-> "up"]

\* connect_fallback: without a configuration, or when the connection cannot be made, nothing changes.  The
\* stream is a new one, and the old one went with the transport it replaces.
connect_fallback ==
  /\ mgr.using_fallback /\ conf.fallback
  /\ ~conn.connected /\ Quiet
  /\ mgr' = [mgr EXCEPT !.current = "tcp", !.using_fallback = TRUE]
  /\ conn' = TcpTransport_connect
  /\ wire' = NoBytes
  /\ past' = [past EXCEPT !.got = <<>>]
  /\ UNCHANGED tasks

Spends == past.outcomes < conf.outcomes

\* Mutated form: failures before a success still count.
record_successForgets ==
  /\ Spends /\ mgr.current # "none"
  /\ UNCHANGED mgr
  /\ past' = [past EXCEPT !.outcomes = @ + 1, !.streak = 0]
  /\ UNCHANGED <<conn, tasks, wire>>

record_success ==
  /\ Spends /\ mgr.current # "none"
  /\ mgr' = IF mgr.using_fallback THEN mgr ELSE [mgr EXCEPT !.count = 0]
  /\ past' = [past EXCEPT !.outcomes = @ + 1, !.streak = IF mgr.using_fallback THEN @ ELSE 0]
  /\ UNCHANGED <<conn, tasks, wire>>

record_failure ==
  /\ Spends
  /\ mgr' = IF mgr.using_fallback THEN mgr
            ELSE [mgr EXCEPT !.count = @ + 1,
                             !.using_fallback = mgr.count + 1 >= conf.threshold /\ conf.fallback]
  /\ past' = [past EXCEPT !.outcomes = @ + 1, !.streak = IF mgr.using_fallback THEN @ ELSE @ + 1]
  /\ UNCHANGED <<conn, tasks, wire>>

reset_to_primary ==
  /\ Spends /\ Quiet
  /\ mgr' = [current |-> "none", using_fallback |-> FALSE, count |-> 0]
  /\ conn' = NoConn
  /\ wire' = NoBytes
  /\ past' = [past EXCEPT !.outcomes = @ + 1, !.streak = 0, !.got = <<>>]
  /\ UNCHANGED tasks

-----------------------------------------------------------------------------
(* TcpTransport *)

Tcp == mgr.current = "tcp"

\* send and recv return at once when the transport is not connected.
send(t) ==
  /\ Tcp /\ t \in Senders /\ tasks[t].pc = "idle"
  /\ conn.connected
  /\ past.sends < conf.sends
  /\ tasks' = [tasks EXCEPT ![t] = [pc |-> "lock", frame |-> past.sends + 1]]
  /\ past' = [past EXCEPT !.sends = @ + 1]
  /\ UNCHANGED <<mgr, conn, wire>>

recv ==
  /\ Tcp /\ tasks["recv"].pc = "idle"
  /\ conn.connected
  /\ Goes("recv", "lock")
  /\ UNCHANGED <<mgr, conn, wire, past>>

\* close: connected goes first, and the stream is shut once the lock is free.
close ==
  /\ Tcp /\ tasks["close"].pc = "idle"
  /\ conn.connected
  /\ conn' = [conn EXCEPT !.connected = FALSE]
  /\ Goes("close", "lock")
  /\ UNCHANGED <<mgr, wire, past>>

\* The lock is tokio's, first come first served; whoever waits gets it in the end.
lock(t) ==
  /\ tasks[t].pc = "lock"
  /\ conn.lock = "none"
  /\ conn' = [conn EXCEPT !.lock = t]
  /\ Goes(t, "head")
  /\ UNCHANGED <<mgr, wire, past>>

\* The guard is dropped with the error, before connected is cleared.
Fails(t) ==
  /\ conn' = [conn EXCEPT !.lock = "none"]
  /\ Goes(t, "failed")

\* Mutated form: the lock is taken for each write.
write_frame_headUnlocks(t) ==
  /\ t \in Senders /\ tasks[t].pc = "head"
  /\ \/ /\ conn.stream = "up"
        /\ wire' = [wire EXCEPT !.out = Append(@, <<"head", tasks[t].frame>>)]
        /\ Goes(t, "body")
        /\ conn' = [conn EXCEPT !.lock = "none"]
     \/ conn.stream # "up" /\ Fails(t) /\ UNCHANGED wire
  /\ UNCHANGED <<mgr, past>>

write_frame_head(t) ==
  /\ t \in Senders /\ tasks[t].pc = "head"
  /\ \/ /\ conn.stream = "up"
        /\ wire' = [wire EXCEPT !.out = Append(@, <<"head", tasks[t].frame>>)]
        /\ Goes(t, "body")
        /\ UNCHANGED conn
     \/ conn.stream # "up" /\ Fails(t) /\ UNCHANGED wire
  /\ UNCHANGED <<mgr, past>>

write_frame_body(t) ==
  /\ t \in Senders /\ tasks[t].pc = "body"
  /\ \/ /\ conn.stream = "up"
        /\ wire' = [wire EXCEPT !.out = Append(@, <<"body", tasks[t].frame>>)]
        /\ tasks' = [tasks EXCEPT ![t] = Idle]
        /\ conn' = [conn EXCEPT !.lock = "none"]
     \/ conn.stream # "up" /\ Fails(t) /\ UNCHANGED wire
  /\ UNCHANGED <<mgr, past>>

\* Any error of write_frame or read_frame ends the connection.
failed(t) ==
  /\ tasks[t].pc = "failed"
  /\ conn' = [conn EXCEPT !.connected = FALSE]
  /\ tasks' = [tasks EXCEPT ![t] = Idle]
  /\ UNCHANGED <<mgr, wire, past>>

Take == wire' = [wire EXCEPT !.in = Tail(@)]
Kind(frame) == conf.frames[frame]

\* read_frame waits for the prefix with the lock held.  What it reads as a prefix it takes for one.
read_frame_head ==
  /\ tasks["recv"].pc = "head"
  /\ \/ /\ wire.in # <<>> /\ Head(wire.in)[1] = "head"
        /\ LET frame == Head(wire.in)[2]
           IN \/ /\ Kind(frame) = "data"
                 /\ tasks' = [tasks EXCEPT !["recv"] = [pc |-> "body", frame |-> frame]]
                 /\ UNCHANGED conn
              \/ /\ Kind(frame) = "empty"
                 /\ tasks' = [tasks EXCEPT !["recv"] = Idle]
                 /\ conn' = [conn EXCEPT !.lock = "none"]
              \/ Kind(frame) = "oversize" /\ Fails("recv")
        /\ Take
        /\ UNCHANGED past
     \/ /\ wire.in # <<>> /\ Head(wire.in)[1] = "body"
        /\ Take
        /\ past' = [past EXCEPT !.got = Append(@, 0)]
        /\ tasks' = [tasks EXCEPT !["recv"] = Idle]
        /\ conn' = [conn EXCEPT !.lock = "none"]
     \/ /\ wire.in = <<>> /\ conn.stream # "up"
        /\ Fails("recv")
        /\ UNCHANGED <<wire, past>>
  /\ UNCHANGED mgr

read_frame_body ==
  /\ tasks["recv"].pc = "body"
  /\ \/ /\ wire.in # <<>>
        /\ Take
        /\ past' = [past EXCEPT !.got = Append(@, Head(wire.in)[2])]
        /\ tasks' = [tasks EXCEPT !["recv"] = Idle]
        /\ conn' = [conn EXCEPT !.lock = "none"]
     \/ /\ wire.in = <<>> /\ conn.stream # "up"
        /\ Fails("recv")
        /\ UNCHANGED <<wire, past>>
  /\ UNCHANGED mgr

\* stream.shutdown() of close; its error goes to the caller.
shutdown ==
  /\ tasks["close"].pc = "head"
  /\ conn' = [conn EXCEPT !.lock = "none", !.stream = IF @ = "up" THEN "shut" ELSE @]
  /\ tasks' = [tasks EXCEPT !["close"] = Idle]
  /\ UNCHANGED <<mgr, wire, past>>

\* run_receive_loop's select! drops the call when a timer fires: the guard goes, and what was read is lost.
recv_dropped ==
  /\ conf.cancels
  /\ tasks["recv"].pc \in {"lock", "head", "body"}
  /\ tasks' = [tasks EXCEPT !["recv"] = Idle]
  /\ conn' = [conn EXCEPT !.lock = IF @ = "recv" THEN "none" ELSE @]
  /\ UNCHANGED <<mgr, wire, past>>

-----------------------------------------------------------------------------
(* The network *)

\* The server's frames arrive, prefix and body apart; an empty one has no body.
Entries(i) == IF conf.frames[i] = "empty" THEN << <<"head", i>> >> ELSE << <<"head", i>>, <<"body", i>> >>

Written == FlattenSeq([i \in 1..Len(conf.frames) |-> Entries(i)])

arrives ==
  /\ Tcp /\ conn.stream = "up"
  /\ wire.written < Len(Written)
  /\ wire' = [wire EXCEPT !.in = Append(@, Written[wire.written + 1]), !.written = @ + 1]
  /\ UNCHANGED <<mgr, conn, tasks, past>>

breaks ==
  /\ Tcp /\ conn.stream = "up" /\ past.faults < conf.faults
  /\ conn' = [conn EXCEPT !.stream = "down"]
  /\ past' = [past EXCEPT !.faults = @ + 1]
  /\ UNCHANGED <<mgr, tasks, wire>>

Next ==
  /\ UNCHANGED conf
  /\ \/ connect_primary \/ connect_fallback \/ record_success \/ record_failure \/ reset_to_primary
     \/ recv \/ close \/ read_frame_head \/ read_frame_body \/ shutdown \/ recv_dropped \/ arrives \/ breaks
     \/ \E t \in Tasks : send(t) \/ lock(t) \/ write_frame_head(t) \/ write_frame_body(t) \/ failed(t)

-----------------------------------------------------------------------------
(* Properties *)

\* What goes to the server is whole frames, each prefix followed by its own body, but for a frame that was
\* being written when the stream failed, after which nothing follows: however senders, the receiver, close
\* and failures interleave around the lock.
FramesAreWhole ==
  \A i \in 1..Len(wire.out) :
    IF i % 2 = 1 THEN wire.out[i][1] = "head" ELSE wire.out[i] = <<"body", wire.out[i - 1][2]>>

\* What recv returns is what the server wrote, frame by frame, in order and without a gap: for as long as
\* no call is dropped between the prefix of a frame and its body.
FramesInOrder ==
  LET data == {i \in 1..Len(conf.frames) : Kind(i) = "data"}
  IN /\ \A i \in 1..Len(past.got) : past.got[i] \in data
     /\ \A i \in 1..(Len(past.got) - 1) : past.got[i] < past.got[i + 1]
     /\ \A i \in 1..Len(past.got) : \A d \in data : d < past.got[i] => \E j \in 1..i : past.got[j] = d

\* The client is on the fallback only after as many failures in a row as the threshold says, and TCP is
\* in use only then.
FallbackIsEarned ==
  /\ mgr.using_fallback => past.streak >= conf.threshold /\ conf.fallback
  /\ Tcp => mgr.using_fallback
  /\ ~mgr.using_fallback => mgr.count = past.streak

TransportKeepsFrames == FramesAreWhole /\ FallbackIsEarned /\ (conf.cancels \/ FramesInOrder)
=============================================================================
