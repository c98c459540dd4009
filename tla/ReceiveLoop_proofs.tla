------------------------ MODULE ReceiveLoop_proofs -------------------------
(***************************************************************************)
(* For any intervals, keepalive count and number of replies in flight: the *)
(* receive loop declares a connection dead neither early nor late.         *)
(*                                                                         *)
(* Both bounds rest on how fast missed_keepalives can and must grow while  *)
(* a keepalive is outstanding.  The keepalive timer fires once in an       *)
(* interval, so it grows at most that fast (SlowEnough); a fire may pass   *)
(* without a keepalive, when the last one was sent exactly an interval ago,*)
(* but the next one cannot, so it grows at least half that fast            *)
(* (FastEnough).  Then the timeout timer has one check left (Watched).     *)
(***************************************************************************)
EXTENDS ReceiveLoop, TLAPS

(* The time m fires of the keepalive timer take. *)
Span(m) == m * KEEPALIVE_INTERVAL

(* What is outstanding, and where the keepalive timer stands since it was sent. *)
PendingInv ==
  /\ ~ pending => waiting = Never /\ missed = 0
  /\ pending => waiting >= 0 /\ last_sent >= 0
  /\ last_sent # Never => last_sent + timer_in["keepalive"] >= KEEPALIVE_INTERVAL

(* Every keepalive counted as missed took an interval. *)
SlowEnough == pending => waiting + timer_in["keepalive"] >= Span(missed + 1)

(* The longest time until a pending keepalive is counted as missed. *)
UntilMissed ==
  timer_in["keepalive"]
    + (IF last_sent + timer_in["keepalive"] > KEEPALIVE_INTERVAL THEN 0 ELSE KEEPALIVE_INTERVAL)

(* Every keepalive counted as missed took at most two intervals. *)
FastEnough ==
  pending /\ missed < KEEPALIVE_COUNT => waiting + UntilMissed <= 2 * Span(missed + 1)

(* The last reply is older than the keepalives nobody has answered. *)
ReplyIsOlder ==
  pending /\ last_received # Never =>
    last_received > KEEPALIVE_TIMEOUT \/ waiting <= last_received

(* When enough are missed one timeout check is left. *)
Watched ==
  outcome = "running" /\ pending /\ missed = KEEPALIVE_COUNT /\ last_received # Never =>
    waiting + timer_in["timeout"] <= DETECTION_TIME

LoopInv == PendingInv /\ SlowEnough /\ FastEnough /\ ReplyIsOlder /\ Watched /\ NoFalseAlarm
-----------------------------------------------------------------------------
(* The configured periods and counts are positive. *)
LEMMA Constants ==
  /\ KEEPALIVE_INTERVAL \in Nat /\ KEEPALIVE_INTERVAL > 0
  /\ KEEPALIVE_COUNT \in Nat /\ KEEPALIVE_COUNT > 0
  /\ TIMEOUT_CHECK \in Nat /\ TIMEOUT_CHECK > 0
  /\ REKEY_CHECK \in Nat /\ REKEY_CHECK > 0
  /\ REKEY_INTERVAL \in Nat /\ REKEY_INTERVAL > 0
  /\ CONNECTION_TIMEOUT \in Nat /\ CONNECTION_TIMEOUT > 0
  /\ MaxReplies \in Nat /\ MaxReplies > 0
BY PeriodsAssumption

(* keepalive_timeout() is at least one keepalive interval. *)
LEMMA Timeout ==
  /\ KEEPALIVE_TIMEOUT \in Nat /\ KEEPALIVE_TIMEOUT >= KEEPALIVE_INTERVAL
  /\ Span(1) = KEEPALIVE_INTERVAL
<1>1. KEEPALIVE_TIMEOUT = KEEPALIVE_INTERVAL + KEEPALIVE_INTERVAL * (KEEPALIVE_COUNT - 1)
  BY Constants DEF KEEPALIVE_TIMEOUT
<1>2. KEEPALIVE_INTERVAL * (KEEPALIVE_COUNT - 1) \in Nat
  BY Constants
<1> QED
  BY <1>1, <1>2, Constants DEF Span

(* Adding to a number never makes less of it. *)
LEMMA NoLess ==
  ASSUME NEW a \in Int, NEW b \in Nat, a >= 0
  PROVE  a + b >= b
OBVIOUS

(* The bound on detection, in the terms of its parts. *)
LEMMA Detection ==
  DETECTION_TIME \in Nat /\ DETECTION_TIME = 2 * KEEPALIVE_TIMEOUT + TIMEOUT_CHECK
BY Timeout, Constants DEF DETECTION_TIME

(* The three intervals of the select. *)
LEMMA TimerFacts ==
  /\ Timers = {"keepalive", "timeout", "rekey"}
  /\ Period("keepalive") = KEEPALIVE_INTERVAL
  /\ Period("timeout") = TIMEOUT_CHECK
  /\ Period("rekey") = REKEY_CHECK
BY DEF Timers, Period

(* The types, variable by variable. *)
LEMMA Typed ==
  ASSUME TypeOK
  PROVE  /\ last_sent \in Int /\ -1 <= last_sent /\ last_sent <= KEEPALIVE_TIMEOUT + 1
         /\ last_received \in Int /\ -1 <= last_received /\ last_received <= KEEPALIVE_TIMEOUT + 1
         /\ waiting \in Int /\ -1 <= waiting /\ waiting <= DETECTION_TIME + 1
         /\ pending \in BOOLEAN
         /\ missed \in Nat /\ missed <= KEEPALIVE_COUNT
         /\ timer_in["keepalive"] \in Nat /\ timer_in["keepalive"] <= KEEPALIVE_INTERVAL
         /\ timer_in["timeout"] \in Nat /\ timer_in["timeout"] <= TIMEOUT_CHECK
BY Constants, Timeout, Detection, TimerFacts DEF TypeOK, Never

(* Spans of the keepalive timer add up to keepalive_timeout(). *)
LEMMA Spans ==
  ASSUME TypeOK
  PROVE  /\ Span(missed + 1) \in Nat /\ Span(missed + 2) \in Nat
         /\ Span(missed + 2) = Span(missed + 1) + KEEPALIVE_INTERVAL
         /\ Span(missed + 1) <= KEEPALIVE_TIMEOUT + KEEPALIVE_INTERVAL
         /\ missed < KEEPALIVE_COUNT => Span(missed + 1) <= KEEPALIVE_TIMEOUT
         /\ missed + 1 = KEEPALIVE_COUNT => Span(missed + 1) = KEEPALIVE_TIMEOUT
         /\ missed = KEEPALIVE_COUNT => Span(missed + 1) = KEEPALIVE_TIMEOUT + KEEPALIVE_INTERVAL
<1>1. missed \in Nat /\ KEEPALIVE_COUNT - missed \in Nat
  BY Typed, Constants
<1>2. ASSUME NEW m \in Nat PROVE Span(m) \in Nat /\ Span(m + 1) = Span(m) + KEEPALIVE_INTERVAL
  BY Constants DEF Span
<1>3. /\ Span(missed) \in Nat /\ Span(missed + 1) = Span(missed) + KEEPALIVE_INTERVAL
      /\ Span(missed + 1) \in Nat /\ Span((missed + 1) + 1) = Span(missed + 1) + KEEPALIVE_INTERVAL
  BY <1>1, Constants DEF Span
<1>4. KEEPALIVE_TIMEOUT = Span(missed) + Span(KEEPALIVE_COUNT - missed)
  BY <1>1, Constants DEF Span, KEEPALIVE_TIMEOUT
<1>5. missed < KEEPALIVE_COUNT =>
        Span(KEEPALIVE_COUNT - missed) = KEEPALIVE_INTERVAL + Span(KEEPALIVE_COUNT - missed - 1)
  BY <1>1, Constants DEF Span
<1>6. /\ Span(KEEPALIVE_COUNT - missed) \in Nat
      /\ missed < KEEPALIVE_COUNT => Span(KEEPALIVE_COUNT - missed - 1) \in Nat
  BY <1>1, Constants DEF Span
<1>7. missed + 2 = (missed + 1) + 1
  BY <1>1
<1>8. Span(0) = 0
  BY Constants DEF Span
<1> QED
  BY <1>1, <1>3, <1>4, <1>5, <1>6, <1>7, <1>8, Constants, Timeout

(* A timer that is rearmed, and the others. *)
LEMMA RearmEffect ==
  ASSUME TypeOK, NEW timer \in Timers, Rearm(timer)
  PROVE  /\ timer_in' \in [Timers -> Nat]
         /\ \A other \in Timers :
              timer_in'[other] = IF other = timer THEN Period(timer) ELSE timer_in[other]
         /\ \A other \in Timers : timer_in'[other] <= Period(other)
<1>1. \A other \in Timers : Period(other) \in Nat
  BY TimerFacts, Constants
<1> QED
  BY <1>1 DEF Rearm, TypeOK

(* What a unit of time does to an age that is compared with d. *)
LEMMA OlderType ==
  ASSUME NEW d \in Nat, NEW age \in Never .. d + 1
  PROVE  /\ Older(age, d) \in Never .. d + 1
         /\ age # Never => Older(age, d) >= age
         /\ age >= 0 => Older(age, d) \in 0 .. d + 1
         /\ age = Never <=> Older(age, d) = Never
         /\ age # Never /\ age <= d => Older(age, d) = age + 1
         /\ age > d => Older(age, d) = age
         /\ age # Never => Older(age, d) <= age + 1
BY DEF Older, Never

(* Every step of the loop and of its environment keeps the types. *)
LEMMA TypeStep ==
  ASSUME TypeOK, [Next]_vars
  PROVE  TypeOK'
<1>0. /\ Never = -1 /\ KEEPALIVE_TIMEOUT \in Nat /\ DETECTION_TIME \in Nat
      /\ "keepalive" \in Timers /\ "timeout" \in Timers /\ "rekey" \in Timers
  BY Timeout, Detection, TimerFacts DEF Never
<1>1. CASE Tick
  <2>1. /\ last_sent' \in Never .. KEEPALIVE_TIMEOUT + 1
        /\ last_received' \in Never .. KEEPALIVE_TIMEOUT + 1
        /\ waiting' \in Never .. DETECTION_TIME + 1
        /\ rekey_started' \in Never .. CONNECTION_TIMEOUT + 1
        /\ created_at' \in 0 .. REKEY_INTERVAL + 1
        /\ key_age' \in 0 .. REKEY_INTERVAL + 1
    BY <1>0, <1>1, OlderType, Constants DEF Tick, TypeOK
  <2>2. \A timer \in Timers : /\ timer_in'[timer] \in Nat /\ timer_in'[timer] <= Period(timer)
    BY <1>1, TimerFacts, Constants DEF Tick, TypeOK
  <2>3. timer_in' \in [Timers -> Nat]
    BY <1>1, <2>2 DEF Tick
  <2> QED
    BY <1>1, <2>1, <2>2, <2>3 DEF Tick, TypeOK, network
<1>2. CASE SendKeepalive
  <2>1. /\ timer_in' \in [Timers -> Nat]
        /\ \A timer \in Timers : timer_in'[timer] <= Period(timer)
    BY <1>0, <1>2, RearmEffect DEF SendKeepalive
  <2> QED
    BY <1>0, <1>2, <2>1, Constants DEF SendKeepalive, Due, CountMissed, LoopAgain, keys, TypeOK
<1>3. CASE SendKeepaliveFails
  <2>1. /\ timer_in' \in [Timers -> Nat]
        /\ \A timer \in Timers : timer_in'[timer] <= Period(timer)
    BY <1>0, <1>3, RearmEffect DEF SendKeepaliveFails
  <2> QED
    BY <1>0, <1>3, <2>1, Constants DEF SendKeepaliveFails, Due, CountMissed, LoopAgain, keys, network, TypeOK
<1>4. CASE SkipKeepalive
  <2>1. /\ timer_in' \in [Timers -> Nat]
        /\ \A timer \in Timers : timer_in'[timer] <= Period(timer)
    BY <1>0, <1>4, RearmEffect DEF SkipKeepalive
  <2> QED
    BY <1>0, <1>4, <2>1, Constants DEF SkipKeepalive, Due, LoopAgain, keepalive, keys, network, TypeOK
<1>5. CASE ReportDead
  BY <1>0, <1>5, Constants DEF ReportDead, keepalive, keys, network, TypeOK
<1>6. CASE CheckTimeouts
  <2>1. /\ timer_in' \in [Timers -> Nat]
        /\ \A timer \in Timers : timer_in'[timer] <= Period(timer)
    BY <1>0, <1>6, RearmEffect DEF CheckTimeouts
  <2> QED
    BY <1>0, <1>6, <2>1, Constants DEF CheckTimeouts, LoopAgain, keepalive, keys, network, TypeOK
<1>7. CASE ClearStuckRekey
  BY <1>0, <1>7, Constants DEF ClearStuckRekey, keepalive, keys, network, TypeOK
<1>8. CASE InitiateRekey
  BY <1>0, <1>8, Constants, RearmEffect DEF InitiateRekey, LoopAgain, keepalive, keys, TypeOK
<1>9. CASE NoRekey
  BY <1>0, <1>9, Constants, RearmEffect DEF NoRekey, LoopAgain, keepalive, keys, network, TypeOK
<1>10. CASE process_keepalive_reply
  <2>1. pending' \in BOOLEAN
    BY Zenon, <1>10 DEF process_keepalive_reply
  <2> QED
    BY <1>0, <1>10, <2>1, Constants DEF process_keepalive_reply, LoopAgain, keys, TypeOK
<1>11. CASE process_rekey_response
  <2>1. volume' \in BOOLEAN
    BY Zenon, <1>11 DEF process_rekey_response
  <2> QED
    BY <1>0, <1>11, <2>1, Constants DEF process_rekey_response, LoopAgain, keepalive, TypeOK
<1>12. CASE RejectRekeyResponse
  <2>1. reachable' \in BOOLEAN
    BY Zenon, <1>12 DEF RejectRekeyResponse, TypeOK
  <2> QED
    BY <1>0, <1>12, <2>1, Constants DEF RejectRekeyResponse, clear_rekey_state, LoopAgain, keepalive, keys, TypeOK
<1>13. CASE LoseRekeyResponse
  BY <1>0, <1>13, Constants DEF LoseRekeyResponse, keepalive, keys, TypeOK
<1>14. CASE ServerGone
  <2>1. reachable' \in BOOLEAN
    BY Zenon, <1>14 DEF ServerGone
  <2> QED
    BY <1>0, <1>14, <2>1, Constants DEF ServerGone, keepalive, keys, TypeOK
<1>15. CASE LoseReply
  BY <1>0, <1>15, Constants DEF LoseReply, keepalive, keys, TypeOK
<1>16. CASE Traffic
  BY <1>0, <1>16, Constants DEF Traffic, keepalive, network, TypeOK
<1>17. CASE EndOfConnection
  BY <1>0, <1>17, Constants DEF EndOfConnection, keepalive, keys, network, TypeOK
<1>18. CASE Shutdown
  BY <1>0, <1>18, Constants DEF Shutdown, keepalive, keys, network, TypeOK
<1>19. CASE UNCHANGED vars
  BY <1>19 DEF vars, TypeOK
<1> QED
  BY <1>1, <1>2, <1>3, <1>4, <1>5, <1>6, <1>7, <1>8, <1>9, <1>10, <1>11, <1>12, <1>13, <1>14,
     <1>15, <1>16, <1>17, <1>18, <1>19 DEF Next, KeepaliveBranch, TimeoutBranch, RekeyBranch

(* A step that changes nothing the bounds are about, but for the timeout timer. *)
LEMMA KeepalivesStay ==
  ASSUME LoopInv, outcome = "running", outcome' # "KeepaliveTimeout", UNCHANGED keepalive,
         timer_in'["keepalive"] = timer_in["keepalive"],
         Watched'
  PROVE  LoopInv'
BY DEF LoopInv, PendingInv, SlowEnough, FastEnough, UntilMissed, ReplyIsOlder, NoFalseAlarm,
       keepalive

(* A step that leaves the timers alone too. *)
LEMMA TimersStay ==
  ASSUME LoopInv, outcome = "running", outcome' # "KeepaliveTimeout", UNCHANGED keepalive,
         timer_in'["keepalive"] = timer_in["keepalive"],
         timer_in'["timeout"] = timer_in["timeout"]
  PROVE  LoopInv'
<1>1. Watched'
  BY DEF LoopInv, Watched, keepalive
<1> QED
  BY <1>1, KeepalivesStay

(* A fire of the keepalive timer that counts the pending keepalive as missed. *)
MissCounted ==
  /\ pending /\ pending'
  /\ timer_in["keepalive"] = 0 /\ timer_in'["keepalive"] = KEEPALIVE_INTERVAL
  /\ timer_in'["timeout"] = timer_in["timeout"]
  /\ outcome = "running" /\ outcome' # "KeepaliveTimeout"
  /\ last_received' = last_received /\ waiting' = waiting
  /\ last_sent' >= 0
  /\ missed' = IF missed < KEEPALIVE_COUNT THEN missed + 1 ELSE missed

(* Counting a miss keeps the bounds: its span is over. *)
LEMMA MissKeepsBounds ==
  ASSUME TypeOK, LoopInv, MissCounted, last_sent' \in Int, FastEnough'
  PROVE  LoopInv'
<1>1. PendingInv'
  <2>1. pending' /\ waiting' >= 0 /\ last_sent' >= 0
    BY DEF MissCounted, LoopInv, PendingInv
  <2>2. timer_in'["keepalive"] = KEEPALIVE_INTERVAL
    BY Zenon DEF MissCounted
  <2>3. last_sent' + KEEPALIVE_INTERVAL >= KEEPALIVE_INTERVAL
    BY <2>1, Constants, NoLess
  <2> QED
    BY <2>1, <2>2, <2>3 DEF PendingInv
<1>2. SlowEnough'
  <2>1. waiting >= Span(missed + 1)
    BY Typed DEF MissCounted, LoopInv, SlowEnough
  <2>2. Span(missed' + 1) <= Span(missed + 1) + KEEPALIVE_INTERVAL
    BY Typed, Constants, Spans, Timeout DEF MissCounted
  <2>3. Span(missed' + 1) \in Nat /\ Span(missed + 1) \in Nat
    BY Typed, Constants, Spans, Timeout DEF MissCounted
  <2> QED
    BY <2>1, <2>2, <2>3, Typed, Constants DEF MissCounted, SlowEnough
<1>3. ReplyIsOlder'
  BY DEF MissCounted, LoopInv, ReplyIsOlder
<1>4. Watched'
  <2>1. CASE missed < KEEPALIVE_COUNT /\ missed' = KEEPALIVE_COUNT
    <3>1. waiting + UntilMissed <= 2 * KEEPALIVE_TIMEOUT
      BY <2>1, Typed, Spans, Timeout DEF MissCounted, LoopInv, FastEnough
    <3>2. UntilMissed \in Nat
      BY Typed, Constants DEF UntilMissed
    <3> QED
      BY <3>1, <3>2, Typed, Spans, Timeout, Constants, Detection DEF MissCounted, Watched
  <2>2. CASE missed = KEEPALIVE_COUNT
    BY <2>2 DEF MissCounted, LoopInv, Watched
  <2> QED
    BY <2>1, <2>2, Typed, Constants DEF MissCounted, Watched
<1>5. NoFalseAlarm'
  BY DEF MissCounted, NoFalseAlarm
<1> QED
  BY <1>1, <1>2, <1>3, <1>4, <1>5 DEF LoopInv

(* Every step of the loop and of its environment keeps the bounds. *)
LEMMA LoopStep ==
  ASSUME TypeOK, LoopInv, [Next]_vars
  PROVE  LoopInv'
<1>0. /\ Never = -1
      /\ "keepalive" \in Timers /\ "timeout" \in Timers /\ "rekey" \in Timers
  BY TimerFacts DEF Never
<1>1. CASE Tick
  <2>1. /\ timer_in'["keepalive"] = timer_in["keepalive"] - 1
        /\ timer_in'["timeout"] = timer_in["timeout"] - 1
        /\ UNCHANGED <<pending, missed, outcome>> /\ outcome = "running"
        /\ timer_in["keepalive"] > 0 /\ timer_in["timeout"] > 0
    BY <1>0, <1>1 DEF Tick
  <2>2. /\ last_sent' = Older(last_sent, KEEPALIVE_TIMEOUT)
        /\ last_received' = Older(last_received, KEEPALIVE_TIMEOUT)
        /\ waiting' = Older(waiting, DETECTION_TIME)
    BY <1>1 DEF Tick
  <2>3. PendingInv'
    BY <1>0, <2>1, <2>2, Typed, Constants, Spans, Timeout, Detection DEF LoopInv, PendingInv, Older
  <2>4. SlowEnough'
    <3>1. Span(missed + 1) \in Nat /\ Span(missed + 1) <= KEEPALIVE_TIMEOUT + KEEPALIVE_INTERVAL
      BY Typed, Spans, Timeout, Constants
    <3> QED
      BY <1>0, <2>1, <2>2, <3>1, Typed, Constants, Spans, Timeout, Detection
         DEF LoopInv, PendingInv, SlowEnough, Older
  <2>5. FastEnough'
    <3> SUFFICES ASSUME pending', missed' < KEEPALIVE_COUNT
                 PROVE  waiting' + UntilMissed' <= 2 * Span(missed' + 1)
      BY DEF FastEnough
    <3>1. waiting + UntilMissed <= 2 * Span(missed + 1) /\ Span(missed + 1) \in Nat
      BY <2>1, Typed, Spans, Timeout DEF LoopInv, FastEnough
    <3>2. waiting' <= waiting + 1 /\ waiting' \in Int
      BY <1>0, <2>1, <2>2, Typed, Detection DEF LoopInv, PendingInv, Older
    <3>3. UntilMissed' <= UntilMissed - 1 /\ UntilMissed' \in Int /\ UntilMissed \in Int
      BY <1>0, <2>1, <2>2, Typed, Spans, Timeout, Constants DEF LoopInv, PendingInv, UntilMissed, Older
    <3> QED
      BY <2>1, <3>1, <3>2, <3>3, Typed
  <2>6. ReplyIsOlder'
    BY <1>0, <2>1, <2>2, Typed, Spans, Timeout, Detection DEF LoopInv, PendingInv, ReplyIsOlder, Older
  <2>7. Watched'
    BY <1>0, <2>1, <2>2, Typed, Spans, Timeout, Detection DEF LoopInv, PendingInv, Watched, Older
  <2>8. NoFalseAlarm'
    BY <2>1 DEF NoFalseAlarm
  <2> QED
    BY <2>3, <2>4, <2>5, <2>6, <2>7, <2>8 DEF LoopInv
<1>2. CASE SendKeepalive
  <2>1. /\ timer_in["keepalive"] = 0 /\ timer_in'["keepalive"] = KEEPALIVE_INTERVAL
        /\ timer_in'["timeout"] = timer_in["timeout"]
        /\ outcome = "running" /\ outcome' # "KeepaliveTimeout"
    BY <1>0, <1>2, RearmEffect, TimerFacts DEF SendKeepalive, Due, LoopAgain
  <2>2. /\ pending' = TRUE /\ last_sent' = 0 /\ last_received' = last_received
        /\ waiting' = IF pending THEN waiting ELSE 0
        /\ missed' = IF pending /\ missed < KEEPALIVE_COUNT THEN missed + 1 ELSE missed
        /\ pending => last_sent >= KEEPALIVE_INTERVAL
    BY <1>0, <1>2 DEF SendKeepalive, CountMissed, Reached, LoopInv, PendingInv
  <2>3. CASE ~ pending
    BY <1>0, <2>1, <2>2, <2>3, Typed, Constants, Spans, Timeout, Detection
       DEF LoopInv, PendingInv, SlowEnough, FastEnough, UntilMissed, ReplyIsOlder, Watched,
           NoFalseAlarm
  <2>4. CASE pending
    <3>1. MissCounted
      BY <2>1, <2>2, <2>4 DEF MissCounted
    <3>2. FastEnough'
      BY <2>1, <2>2, <2>4, Typed, Constants, Spans, Timeout DEF LoopInv, FastEnough, UntilMissed
    <3> QED
      BY <2>2, <3>1, <3>2, MissKeepsBounds
  <2> QED
    BY <2>3, <2>4, Typed
<1>3. CASE SendKeepaliveFails
  <2>1. /\ timer_in["keepalive"] = 0 /\ timer_in'["keepalive"] = KEEPALIVE_INTERVAL
        /\ timer_in'["timeout"] = timer_in["timeout"]
        /\ outcome = "running" /\ outcome' # "KeepaliveTimeout"
        /\ UNCHANGED <<last_sent, last_received, pending, waiting>>
        /\ missed' = IF pending /\ missed < KEEPALIVE_COUNT THEN missed + 1 ELSE missed
        /\ pending => last_sent >= KEEPALIVE_INTERVAL
    BY <1>0, <1>3, RearmEffect, TimerFacts
       DEF SendKeepaliveFails, Due, LoopAgain, CountMissed, Reached, LoopInv, PendingInv
  <2>2. CASE ~ pending
    BY <2>1, <2>2, Typed, Constants
       DEF LoopInv, PendingInv, SlowEnough, FastEnough, ReplyIsOlder, Watched, NoFalseAlarm
  <2>3. CASE pending
    <3>1. MissCounted
      BY <2>1, <2>3, Typed DEF MissCounted, LoopInv, PendingInv
    <3>2. FastEnough'
      BY <2>1, <2>3, Typed, Constants, Spans, Timeout DEF LoopInv, FastEnough, UntilMissed
    <3> QED
      BY <2>1, <3>1, <3>2, Typed, MissKeepsBounds
  <2> QED
    BY <2>2, <2>3
<1>4. CASE SkipKeepalive
  <2>1. /\ timer_in["keepalive"] = 0 /\ timer_in'["keepalive"] = KEEPALIVE_INTERVAL
        /\ timer_in'["timeout"] = timer_in["timeout"]
        /\ outcome = "running" /\ outcome' \in {"running", "shutdown"} /\ UNCHANGED keepalive
        /\ last_sent = KEEPALIVE_INTERVAL
    BY <1>0, <1>4, RearmEffect, TimerFacts, Typed, Constants
       DEF SkipKeepalive, Due, LoopAgain, NotYet, LoopInv, PendingInv
  <2> QED
    BY <2>1, Typed, Constants, Spans, Timeout
       DEF LoopInv, PendingInv, SlowEnough, FastEnough, UntilMissed, ReplyIsOlder, Watched,
           NoFalseAlarm, keepalive
<1>5. CASE ReportDead
  <2>1. /\ outcome' = "KeepaliveTimeout" /\ missed = KEEPALIVE_COUNT
        /\ UNCHANGED <<keepalive, timer_in>>
    BY <1>5, Typed, Constants DEF ReportDead, is_connection_dead
  <2>2. waiting >= KEEPALIVE_TIMEOUT
    <3>1. pending
      BY <2>1, Typed, Constants DEF LoopInv, PendingInv
    <3>2. Span(missed + 1) = KEEPALIVE_TIMEOUT + KEEPALIVE_INTERVAL
      BY <2>1, Constants, Spans, Timeout
    <3> QED
      BY <3>1, <3>2, Typed, Constants, Spans, Timeout DEF LoopInv, SlowEnough
  <2> QED
    BY <2>1, <2>2
       DEF LoopInv, PendingInv, SlowEnough, FastEnough, UntilMissed, ReplyIsOlder, Watched,
           NoFalseAlarm, keepalive
<1>6. CASE CheckTimeouts
  <2>1. /\ timer_in'["timeout"] = TIMEOUT_CHECK
        /\ timer_in'["keepalive"] = timer_in["keepalive"]
        /\ outcome = "running" /\ outcome' # "KeepaliveTimeout" /\ UNCHANGED keepalive
        /\ NotTimedOut \/ ~ is_connection_dead
    BY <1>0, <1>6, RearmEffect, TimerFacts DEF CheckTimeouts, Due, LoopAgain
  <2>2. Watched'
    <3> SUFFICES ASSUME pending, missed = KEEPALIVE_COUNT, last_received # Never
                 PROVE  waiting + TIMEOUT_CHECK <= DETECTION_TIME
      BY <2>1 DEF Watched, keepalive
    <3>1. last_received <= KEEPALIVE_TIMEOUT
      BY <1>0, <2>1, Typed, Constants DEF NotTimedOut, NotYet, sinceLastResponse, is_connection_dead,
         LoopInv, PendingInv
    <3> QED
      BY <3>1, Typed, Constants, Spans, Timeout, Detection DEF LoopInv, ReplyIsOlder
  <2> QED
    BY <2>1, <2>2, KeepalivesStay
<1>7. CASE ClearStuckRekey
  BY <1>7, TimersStay DEF ClearStuckRekey, Due
<1>8. CASE InitiateRekey
  BY <1>0, <1>8, RearmEffect, TimersStay DEF InitiateRekey, Due, LoopAgain
<1>9. CASE NoRekey
  BY <1>0, <1>9, RearmEffect, TimersStay DEF NoRekey, Due, LoopAgain
<1>10. CASE process_keepalive_reply
  BY <1>0, <1>10, Typed
     DEF process_keepalive_reply, LoopAgain, LoopInv, PendingInv, SlowEnough, FastEnough,
         ReplyIsOlder, Watched, NoFalseAlarm
<1>11. CASE process_rekey_response
  BY <1>11, TimersStay DEF process_rekey_response, LoopAgain
<1>12. CASE RejectRekeyResponse
  BY <1>12, TimersStay DEF RejectRekeyResponse, LoopAgain
<1>13. CASE LoseRekeyResponse
  BY <1>13, TimersStay DEF LoseRekeyResponse
<1>14. CASE ServerGone
  BY <1>14, TimersStay DEF ServerGone
<1>15. CASE LoseReply
  BY <1>15, TimersStay DEF LoseReply
<1>16. CASE Traffic
  BY <1>16, TimersStay DEF Traffic
<1>17. CASE EndOfConnection
  BY <1>17, TimersStay DEF EndOfConnection
<1>18. CASE Shutdown
  BY <1>18, TimersStay DEF Shutdown
<1>19. CASE UNCHANGED vars
  BY <1>19 DEF vars, LoopInv, PendingInv, SlowEnough, FastEnough, UntilMissed, ReplyIsOlder,
     Watched, NoFalseAlarm
<1> QED
  BY <1>1, <1>2, <1>3, <1>4, <1>5, <1>6, <1>7, <1>8, <1>9, <1>10, <1>11, <1>12, <1>13, <1>14,
     <1>15, <1>16, <1>17, <1>18, <1>19 DEF Next, KeepaliveBranch, TimeoutBranch, RekeyBranch

(* A fresh connection satisfies the invariant. *)
LEMMA InitInv == Init => TypeOK /\ LoopInv
<1> SUFFICES ASSUME Init PROVE TypeOK /\ LoopInv
  OBVIOUS
<1>1. Never = -1 /\ \A timer \in Timers : Period(timer) \in Nat
  BY TimerFacts, Constants DEF Never
<1>2. TypeOK
  <2>1. pending \in BOOLEAN /\ volume \in BOOLEAN /\ shutdown \in BOOLEAN
    BY Zenon DEF Init
  <2> QED
    BY <1>1, <2>1, Constants, Timeout, Detection DEF Init, TypeOK
<1>3. LoopInv
  BY <1>1 DEF Init, LoopInv, PendingInv, SlowEnough, FastEnough, ReplyIsOlder, Watched, NoFalseAlarm
<1> QED
  BY <1>2, <1>3

(* LoopInv is inductive given the types. *)
LEMMA Inductive == Spec => [](TypeOK /\ LoopInv)
<1>1. TypeOK /\ LoopInv /\ [Next]_vars => (TypeOK /\ LoopInv)'
  BY TypeStep, LoopStep
<1> QED
  BY InitInv, <1>1, PTL DEF Spec

(* Every field of the client and every timer of the loop keeps its type; in
   particular missed_keepalives, the only way to declare a connection dead, is
   counted up to keepalive_timeout_count and no timer misses its period.   *)
THEOREM TypeCorrect == Spec => []TypeOK
BY Inductive, PTL

(* run_receive_loop never returns KeepaliveTimeout for a connection on which
   every keepalive of the last keepalive_timeout() was answered, whatever the
   intervals, and however sends fail and replies are delayed.              *)
THEOREM NeverDeclaredDeadEarly == Spec => []NoFalseAlarm
BY Inductive, PTL DEF LoopInv

(* While the loop runs, on a connection that has answered before, no keepalive is
   unanswered for longer than two keepalive timeouts and one timeout check: the
   time within which a dead connection is declared so, for all intervals.  *)
THEOREM DeadWithinBound == Spec => []DetectedInTime
<1>1. TypeOK /\ LoopInv => DetectedInTime
  <2> SUFFICES ASSUME TypeOK, LoopInv, outcome = "running", last_received # Never
               PROVE  waiting <= DETECTION_TIME
    BY DEF DetectedInTime
  <2>1. CASE ~ pending
    BY <2>1, Detection DEF LoopInv, PendingInv, Never
  <2>2. CASE pending /\ missed < KEEPALIVE_COUNT
    <3>1. waiting + UntilMissed <= 2 * KEEPALIVE_TIMEOUT
      <4>1. Span(missed + 1) <= KEEPALIVE_TIMEOUT /\ Span(missed + 1) \in Nat
        BY <2>2, Typed, Constants, Spans, Timeout
      <4>2. waiting + UntilMissed <= 2 * Span(missed + 1)
        BY <2>2 DEF LoopInv, FastEnough
      <4>3. UntilMissed \in Nat
        BY Typed, Constants DEF UntilMissed
      <4> QED
        BY <4>1, <4>2, <4>3, Typed, Spans, Timeout
    <3>2. UntilMissed \in Nat
      BY Typed, Constants DEF UntilMissed
    <3> QED
      BY <3>1, <3>2, Typed, Constants, Spans, Timeout, Detection
  <2>3. CASE pending /\ missed = KEEPALIVE_COUNT
    BY <2>3, Typed, Detection DEF LoopInv, Watched
  <2> QED
    BY <2>1, <2>2, <2>3, Typed, Constants
<1> QED
  BY Inductive, <1>1, PTL
=============================================================================
