---------------------------- MODULE RateLimiter ----------------------------
(***************************************************************************)
(* The token buckets of one session (SessionRateLimiter of                 *)
(* session_manager.rs), called without a lock by every receive worker that *)
(* meets a packet of the session.  Every access to an atomic is a step, so *)
(* the workers interleave between the reading of the clock, the reading of *)
(* the last refill, the compare-and-exchange, the two refills and the two  *)
(* withdrawals.  A tick of the clock is the millisecond below which        *)
(* nothing is refilled.                                                    *)
(***************************************************************************)
EXTENDS Integers

CONSTANTS Deployments,   \* [pps, bps: the limits, 0 for none; workers; sizes; ticks: how long]
          SECOND         \* ticks in a second

VARIABLES conf,
          now,           \* the clock, in ticks
          lim,           \* [packets, bytes, last]: the three atomics
          threads,       \* per worker: where it is in check, with the values it has read
          granted        \* [packets, bytes] let through so far

vars == <<conf, now, lim, threads, granted>>

AtMost(a, b) == IF a < b THEN a ELSE b
Idle == [pc |-> "idle", now |-> 0, last |-> 0, size |-> 0]

new(c) == [packets |-> c.pps * 2, bytes |-> c.bps * 2, last |-> 0]

Init ==
  /\ conf \in Deployments
  /\ now = 0
  /\ lim = new(conf)
  /\ threads = [w \in 1..conf.workers |-> Idle]
  /\ granted = [packets |-> 0, bytes |-> 0]

Goes(w, pc) == threads' = [threads EXCEPT ![w].pc = pc]
Returns(w) == threads' = [threads EXCEPT ![w] = Idle]

\* A worker calls check for a packet of this size: refill first reads the clock.
check(w) ==
  /\ threads[w].pc = "idle"
  /\ conf.pps > 0 \/ conf.bps > 0
  /\ \E size \in conf.sizes :
       threads' = [threads EXCEPT ![w] = [pc |-> "load", now |-> now, last |-> 0, size |-> size]]
  /\ UNCHANGED <<lim, granted>>

\* refill returns at once when less than a millisecond has passed (saturating_sub).
refill_load(w) ==
  /\ threads[w].pc = "load"
  /\ threads' = [threads EXCEPT ![w].last = lim.last,
                                ![w].pc = IF threads[w].now - lim.last < 1 THEN "packet" ELSE "cas"]
  /\ UNCHANGED <<lim, granted>>

\* Mutated form: last_refill_us is stored, whoever has refilled meanwhile.
refill_casStored(w) ==
  /\ threads[w].pc = "cas"
  /\ lim' = [lim EXCEPT !.last = threads[w].now]
  /\ Goes(w, "add packets")
  /\ UNCHANGED granted

\* Only the worker whose exchange succeeds adds the tokens of this interval.
refill_cas(w) ==
  /\ threads[w].pc = "cas"
  /\ IF lim.last = threads[w].last
       THEN lim' = [lim EXCEPT !.last = threads[w].now] /\ Goes(w, "add packets")
       ELSE Goes(w, "packet") /\ UNCHANGED lim
  /\ UNCHANGED granted

\* The tokens of the interval, rounded down, with a burst of two seconds.
Earned(w, rate) == (rate * (threads[w].now - threads[w].last)) \div SECOND

refill_packets(w) ==
  /\ threads[w].pc = "add packets"
  /\ lim' = [lim EXCEPT !.packets = IF conf.pps > 0 THEN AtMost(@ + Earned(w, conf.pps), conf.pps * 2) ELSE @]
  /\ Goes(w, "add bytes")
  /\ UNCHANGED granted

refill_bytes(w) ==
  /\ threads[w].pc = "add bytes"
  /\ lim' = [lim EXCEPT !.bytes = IF conf.bps > 0 THEN AtMost(@ + Earned(w, conf.bps), conf.bps * 2) ELSE @]
  /\ Goes(w, "packet")
  /\ UNCHANGED granted

take_packet(w) ==
  /\ threads[w].pc = "packet"
  /\ CASE conf.pps = 0 -> Goes(w, "bytes") /\ UNCHANGED lim
       [] conf.pps > 0 /\ lim.packets = 0 -> Returns(w) /\ UNCHANGED lim
       [] OTHER -> lim' = [lim EXCEPT !.packets = @ - 1] /\ Goes(w, "bytes")
  /\ UNCHANGED granted

\* Without tokens for its bytes the packet's own token goes back, in a step of its own.
take_bytes(w) ==
  /\ threads[w].pc = "bytes"
  /\ IF conf.bps > 0 /\ lim.bytes < threads[w].size
       THEN Goes(w, "refund") /\ UNCHANGED <<lim, granted>>
       ELSE /\ lim' = [lim EXCEPT !.bytes = IF conf.bps > 0 THEN @ - threads[w].size ELSE @]
            /\ granted' = [packets |-> granted.packets + (IF conf.pps > 0 THEN 1 ELSE 0),
                           bytes |-> granted.bytes + (IF conf.bps > 0 THEN threads[w].size ELSE 0)]
            /\ Returns(w)

refund(w) ==
  /\ threads[w].pc = "refund"
  /\ lim' = [lim EXCEPT !.packets = IF conf.pps > 0 THEN @ + 1 ELSE @]
  /\ Returns(w)
  /\ UNCHANGED granted

Check(w) ==
  \/ check(w)
  \/ refill_load(w)
  \/ refill_cas(w)
  \/ refill_packets(w)
  \/ refill_bytes(w)
  \/ take_packet(w)
  \/ take_bytes(w)
  \/ refund(w)

Tick ==
  /\ now < conf.ticks
  /\ now' = now + 1
  /\ UNCHANGED <<conf, lim, threads, granted>>

Next ==
  \/ \E w \in 1..conf.workers : Check(w) /\ UNCHANGED <<conf, now>>
  \/ Tick

Spec == Init /\ [][Next]_vars

-----------------------------------------------------------------------------
(* RateHolds: however the workers interleave in check and refill, a        *)
(* session is never let through more than a burst of two seconds and then  *)
(* its rate for the time that has passed, in packets and in bytes: an      *)
(* interval is refilled by one worker only, and a refund gives back        *)
(* exactly the token the refused packet took.                              *)
RateHolds ==
  /\ granted.packets <= conf.pps * 2 + (conf.pps * now) \div SECOND
  /\ granted.bytes <= conf.bps * 2 + (conf.bps * now) \div SECOND
=============================================================================
