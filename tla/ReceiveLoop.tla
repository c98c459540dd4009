---------------------------- MODULE ReceiveLoop ----------------------------
(***************************************************************************)
(* run_receive_loop of the VPN client, hpn-client-core/src/client.rs: one  *)
(* task that selects between the socket and three interval timers, which   *)
(* send keepalives, detect a dead connection, give up a stuck rekey and    *)
(* start a rekey.                                                          *)
(*                                                                         *)
(* Time advances in units, and only while no timer is due: the loop serves *)
(* a due timer within the unit.  An Instant is its age in units, Never     *)
(* when it is None; an age stops growing one unit past the longest         *)
(* duration it is compared with.  A timer fires a little late and an       *)
(* Instant is taken a little after that, so when an age equals the         *)
(* duration it is compared with, the comparison may go either way.         *)
(*                                                                         *)
(* The server answers keepalives while it is reachable: until the network  *)
(* fails for good, or the two ends lose their common key in a rekey (see   *)
(* SecureSession), after which it opens nothing the client sends.          *)
(***************************************************************************)
EXTENDS Integers

CONSTANTS KEEPALIVE_INTERVAL,     \* keepalive_interval()
          KEEPALIVE_COUNT,        \* keepalive_timeout_count
          TIMEOUT_CHECK,          \* timeout_check_interval
          REKEY_CHECK,            \* rekey_check_interval
          REKEY_INTERVAL,         \* rekey_interval()
          CONNECTION_TIMEOUT,     \* connection_timeout()
          MaxReplies              \* bound: keepalive replies in flight

ASSUME PeriodsAssumption ==
  {KEEPALIVE_INTERVAL, KEEPALIVE_COUNT, TIMEOUT_CHECK, REKEY_CHECK,
   REKEY_INTERVAL, CONNECTION_TIMEOUT, MaxReplies} \subseteq Nat \ {0}

KEEPALIVE_TIMEOUT == KEEPALIVE_INTERVAL * KEEPALIVE_COUNT

(* The longest a keepalive stays unanswered before the loop ends. *)
DETECTION_TIME == 2 * KEEPALIVE_TIMEOUT + TIMEOUT_CHECK

Never == -1

Timers == {"keepalive", "timeout", "rekey"}

Period(timer) == CASE timer = "keepalive" -> KEEPALIVE_INTERVAL
                   [] timer = "timeout"   -> TIMEOUT_CHECK
                   [] timer = "rekey"     -> REKEY_CHECK

VARIABLES
  last_sent,      \* last_keepalive_sent
  last_received,  \* last_keepalive_received
  pending,        \* pending_keepalive_seq.is_some()
  missed,         \* missed_keepalives, not told apart above KEEPALIVE_COUNT
  rekey_started,  \* rekey_started_at; Never when no rekey is in progress
  created_at,     \* age of the session
  volume,         \* whether rekey_after_bytes was reached under these keys
  shutdown,       \* the shutdown flag, set by another task
  outcome,        \* "running", what the loop returned, or "blocked" on a lock
  timer_in,       \* [Timers -> Nat]: units until the timer fires
  reachable,      \* whether the server still answers
  replies,        \* keepalive replies in flight
  response,       \* rekey response in flight: to the current attempt or an old one
  waiting,        \* history: age of the first keepalive sent since the last reply
  key_age         \* history: age of the session keys

vars == <<last_sent, last_received, pending, missed, rekey_started, created_at,
          volume, shutdown, outcome, timer_in, reachable, replies, response,
          waiting, key_age>>

keepalive == <<last_sent, last_received, pending, missed, waiting>>
keys      == <<created_at, volume, key_age>>
network   == <<reachable, replies, response>>

Reached(age, duration)  == age # Never /\ age >= duration
NotYet(age, duration)   == age = Never \/ age <= duration

Older(age, duration) == IF age = Never \/ age > duration THEN age ELSE age + 1

(* The loop had it not looked at the shutdown flag. *)
LoopForever == outcome' = "running"

(* The top of the loop: it ends before the next select when shutdown is set. *)
LoopAgain == outcome' = IF shutdown THEN "shutdown" ELSE "running"

Due(timer) == outcome = "running" /\ timer_in[timer] = 0

(* A timer that slips by a unit whenever it fires. *)
RearmLate(timer) == timer_in' = [timer_in EXCEPT ![timer] = Period(timer) + 1]

Rearm(timer) == timer_in' = [timer_in EXCEPT ![timer] = Period(timer)]

-----------------------------------------------------------------------------
(* Just connected; tokio's intervals fire at once for the first time. *)
Init ==
  /\ last_sent = Never /\ last_received = Never
  /\ pending = FALSE /\ missed = 0
  /\ rekey_started = Never
  /\ created_at = 0 /\ volume = FALSE
  /\ shutdown = FALSE /\ outcome = "running"
  /\ timer_in = [timer \in Timers |-> 0]
  /\ reachable = TRUE /\ replies = 0 /\ response = "none"
  /\ waiting = Never /\ key_age = 0

(* A unit of time passes. *)
Tick ==
  /\ outcome = "running"
  /\ \A timer \in Timers : timer_in[timer] > 0
  /\ timer_in' = [timer \in Timers |-> timer_in[timer] - 1]
  /\ last_sent' = Older(last_sent, KEEPALIVE_TIMEOUT)
  /\ last_received' = Older(last_received, KEEPALIVE_TIMEOUT)
  /\ rekey_started' = Older(rekey_started, CONNECTION_TIMEOUT)
  /\ created_at' = Older(created_at, REKEY_INTERVAL)
  /\ waiting' = Older(waiting, DETECTION_TIME)
  /\ key_age' = Older(key_age, REKEY_INTERVAL)
  /\ UNCHANGED <<pending, missed, volume, shutdown, outcome, network>>

(* send_keepalive counts a keepalive still pending as missed, first of all. *)
CountMissed ==
  missed' = IF pending /\ missed < KEEPALIVE_COUNT THEN missed + 1 ELSE missed

(* Keepalive timer, should_send_keepalive and send_keepalive succeed.  The
   server answers, unless the reply is lost or it has already switched keys. *)
SendKeepalive ==
  /\ Due("keepalive")
  /\ last_sent = Never \/ Reached(last_sent, KEEPALIVE_INTERVAL)
  /\ CountMissed
  /\ pending' = TRUE
  /\ last_sent' = 0
  /\ waiting' = IF pending THEN waiting ELSE 0
  /\ \/ /\ reachable /\ response = "none"
        /\ replies < MaxReplies
        /\ replies' = replies + 1
     \/ UNCHANGED replies
  /\ Rearm("keepalive") /\ LoopAgain
  /\ UNCHANGED <<last_received, rekey_started, keys, shutdown, reachable, response>>

(* SendKeepaliveFails had the miss been counted after the send. *)
FailWithoutMiss ==
  /\ Due("keepalive")
  /\ last_sent = Never \/ Reached(last_sent, KEEPALIVE_INTERVAL)
  /\ Rearm("keepalive") /\ LoopAgain
  /\ UNCHANGED <<keepalive, rekey_started, keys, shutdown, network>>

(* Keepalive timer, send_keepalive fails at connection.send: the miss is
   counted, nothing else is recorded.                                      *)
SendKeepaliveFails ==
  /\ Due("keepalive")
  /\ last_sent = Never \/ Reached(last_sent, KEEPALIVE_INTERVAL)
  /\ CountMissed
  /\ Rearm("keepalive") /\ LoopAgain
  /\ UNCHANGED <<last_sent, last_received, pending, waiting, rekey_started,
                 keys, shutdown, network>>

(* Keepalive timer, should_send_keepalive says the last one is too recent. *)
SkipKeepalive ==
  /\ Due("keepalive")
  /\ last_sent # Never /\ NotYet(last_sent, KEEPALIVE_INTERVAL)
  /\ Rearm("keepalive") /\ LoopAgain
  /\ UNCHANGED <<keepalive, rekey_started, keys, shutdown, network>>

(* A keepalive reply arrives and opens: process_keepalive_reply accepts it
   whatever sequence number it carries.                                    *)
process_keepalive_reply ==
  /\ outcome = "running"
  /\ replies > 0
  /\ replies' = replies - 1
  /\ pending' = FALSE
  /\ missed' = 0
  /\ last_received' = 0
  /\ waiting' = Never
  /\ LoopAgain
  /\ UNCHANGED <<last_sent, rekey_started, keys, shutdown, timer_in, reachable,
                 response>>

-----------------------------------------------------------------------------
(* since_last_response had it been measured from the last keepalive sent. *)
SinceLastSent == last_sent

(* check_keepalive_timeout: since_last_response may be above the timeout. *)
sinceLastResponse == IF last_received # Never THEN last_received ELSE last_sent

TimedOut    == last_sent # Never /\ Reached(sinceLastResponse, KEEPALIVE_TIMEOUT)
NotTimedOut == last_sent = Never \/ NotYet(sinceLastResponse, KEEPALIVE_TIMEOUT)

(* is_connection_dead one miss early. *)
DeadOneEarly == missed >= KEEPALIVE_COUNT - 1

is_connection_dead == missed >= KEEPALIVE_COUNT

(* clear_rekey_state: a response to the attempt may still be under way. *)
clear_rekey_state ==
  /\ rekey_started' = Never
  /\ response' = IF response = "current" THEN "old" ELSE response

(* Timeout timer, connection dead: the loop returns KeepaliveTimeout. *)
ReportDead ==
  /\ Due("timeout")
  /\ TimedOut
  /\ is_connection_dead
  /\ outcome' = "KeepaliveTimeout"
  /\ UNCHANGED <<keepalive, rekey_started, keys, shutdown, timer_in, network>>

(* Timeout timer otherwise: nothing to give up. *)
CheckTimeouts ==
  /\ Due("timeout")
  /\ NotTimedOut \/ ~ is_connection_dead
  /\ NotYet(rekey_started, CONNECTION_TIMEOUT)
  /\ Rearm("timeout") /\ LoopAgain
  /\ UNCHANGED <<keepalive, rekey_started, keys, shutdown, network>>

(* Timeout timer, the rekey is stuck.  The guard of rekey_started_at.read() in
   the condition of the if let lives to the end of its body, where
   clear_rekey_state asks for rekey_started_at.write(): the lock is not
   reentrant, and the task waits for itself.  (The handler and the flag of the
   attempt are cleared by then; nobody is left to read them.)              *)
ClearStuckRekey ==
  /\ Due("timeout")
  /\ NotTimedOut \/ ~ is_connection_dead
  /\ Reached(rekey_started, CONNECTION_TIMEOUT)
  /\ outcome' = "blocked"
  /\ UNCHANGED <<keepalive, rekey_started, keys, shutdown, timer_in, network>>

needs_rekey == rekey_started = Never
                 /\ (volume \/ Reached(created_at, REKEY_INTERVAL))

(* Rekey timer, initiate_rekey: sent, or the send fails and the state is
   cleared.  The server answers unless the request is lost; it cannot open
   the request when it has switched keys for an earlier one.               *)
InitiateRekey ==
  /\ Due("rekey")
  /\ needs_rekey
  /\ \/ /\ rekey_started' = 0
        /\ \/ reachable /\ response = "none" /\ response' = "current"
           \/ UNCHANGED response
     \/ UNCHANGED <<rekey_started, response>>
  /\ Rearm("rekey") /\ LoopAgain
  /\ UNCHANGED <<keepalive, keys, shutdown, reachable, replies>>

NoRekey ==
  /\ Due("rekey")
  /\ rekey_started # Never \/ (~ volume /\ NotYet(created_at, REKEY_INTERVAL))
  /\ Rearm("rekey") /\ LoopAgain
  /\ UNCHANGED <<keepalive, rekey_started, keys, shutdown, network>>

(* The response to the current attempt arrives: update_keys, then
   clear_rekey_state.  Session::update_keys starts the byte counters afresh
   and leaves created_at alone.                                            *)
process_rekey_response ==
  /\ outcome = "running"
  /\ response = "current"
  /\ response' = "none"
  /\ rekey_started' = Never
  /\ volume' = FALSE
  /\ key_age' = 0
  /\ LoopAgain
  /\ UNCHANGED <<keepalive, created_at, shutdown, timer_in, reachable, replies>>

(* The error branch of the receive arm clears the rekey state of whatever
   attempt is current: for a RekeyResponse that is damaged or a duplicate, and
   for the genuine one when its attempt was cleared so.  In the second case
   the server has switched to keys the client will never have.             *)
RejectRekeyResponse ==
  /\ outcome = "running"
  /\ \/ /\ clear_rekey_state
        /\ UNCHANGED reachable
     \/ /\ response = "old"
        /\ response' = "none"
        /\ rekey_started' = Never
        /\ reachable' = FALSE
  /\ LoopAgain
  /\ UNCHANGED <<keepalive, keys, shutdown, timer_in, replies>>

-----------------------------------------------------------------------------
(* The network and the other tasks. *)

(* The rekey response is lost: the server has switched, the client has not. *)
LoseRekeyResponse ==
  /\ outcome = "running"
  /\ response # "none"
  /\ response' = "none"
  /\ reachable' = FALSE
  /\ UNCHANGED <<keepalive, rekey_started, keys, shutdown, outcome, timer_in, replies>>

(* The server or the path to it is gone for good, with all it had sent. *)
ServerGone ==
  /\ outcome = "running"
  /\ reachable
  /\ reachable' = FALSE
  /\ replies' = 0
  /\ response' = "none"
  /\ UNCHANGED <<keepalive, rekey_started, keys, shutdown, outcome, timer_in>>

LoseReply ==
  /\ outcome = "running"
  /\ replies > 0
  /\ replies' = replies - 1
  /\ UNCHANGED <<keepalive, rekey_started, keys, shutdown, outcome, timer_in,
                 reachable, response>>

(* Tunnel traffic reaches rekey_after_bytes. *)
Traffic ==
  /\ outcome = "running"
  /\ ~ volume
  /\ volume' = TRUE
  /\ UNCHANGED <<keepalive, rekey_started, created_at, key_age, shutdown, outcome,
                 timer_in, network>>

(* A Close message, or an error of recv or of the outbound channel, ends the
   loop at once.                                                           *)
EndOfConnection ==
  /\ outcome = "running"
  /\ outcome' \in {"closed", "ConnectionError"}
  /\ UNCHANGED <<keepalive, rekey_started, keys, shutdown, timer_in, network>>

Shutdown ==
  /\ outcome = "running"
  /\ ~ shutdown
  /\ shutdown' = TRUE
  /\ UNCHANGED <<keepalive, rekey_started, keys, outcome, timer_in, network>>

KeepaliveBranch == SendKeepalive \/ SendKeepaliveFails \/ SkipKeepalive
TimeoutBranch   == ReportDead \/ CheckTimeouts \/ ClearStuckRekey
RekeyBranch     == InitiateRekey \/ NoRekey

Next ==
  \/ Tick \/ KeepaliveBranch \/ TimeoutBranch \/ RekeyBranch
  \/ process_keepalive_reply \/ process_rekey_response \/ RejectRekeyResponse
  \/ LoseRekeyResponse \/ ServerGone \/ LoseReply \/ Traffic
  \/ EndOfConnection \/ Shutdown

(* Time passes, and select! does not pass over a timer that stays due.  Nothing
   is assumed of the network, the server or the other tasks.               *)
Fairness == /\ WF_vars(Tick) /\ WF_vars(KeepaliveBranch)
            /\ WF_vars(TimeoutBranch) /\ WF_vars(RekeyBranch)

Spec == Init /\ [][Next]_vars /\ Fairness

-----------------------------------------------------------------------------
(* Types of the client's fields, the timers and the network. *)
TypeOK ==
  /\ last_sent \in Never .. KEEPALIVE_TIMEOUT + 1
  /\ last_received \in Never .. KEEPALIVE_TIMEOUT + 1
  /\ waiting \in Never .. DETECTION_TIME + 1
  /\ rekey_started \in Never .. CONNECTION_TIMEOUT + 1
  /\ created_at \in 0 .. REKEY_INTERVAL + 1
  /\ key_age \in 0 .. REKEY_INTERVAL + 1
  /\ pending \in BOOLEAN /\ volume \in BOOLEAN
  /\ shutdown \in BOOLEAN /\ reachable \in BOOLEAN
  /\ missed \in 0 .. KEEPALIVE_COUNT
  /\ outcome \in {"running", "shutdown", "closed", "ConnectionError",
                  "KeepaliveTimeout", "blocked"}
  /\ timer_in \in [Timers -> Nat]
  /\ \A timer \in Timers : timer_in[timer] <= Period(timer)
  /\ replies \in 0 .. MaxReplies
  /\ response \in {"none", "current", "old"}

(* A connection is not declared dead early: when the loop returns
   KeepaliveTimeout, a keepalive has gone unanswered, and none since was
   answered, for the whole of keepalive_timeout().                         *)
NoFalseAlarm ==
  outcome = "KeepaliveTimeout" => waiting >= KEEPALIVE_TIMEOUT

(* A dead connection is declared so in bounded time: once a keepalive has been
   answered on this connection, none stays unanswered for longer than two
   intervals per missed keepalive and one timeout check.                   *)
DetectedInTime ==
  outcome = "running" /\ last_received # Never =>
    waiting <= DETECTION_TIME

(* When a server that has answered before falls silent while a keepalive is
   outstanding, because it is gone or because a rekey response was lost, the
   loop does not go on: it returns, so that run_with_reconnect can connect
   again, or the stuck rekey blocks it first (RekeyGivenUp).               *)
SilenceDetected ==
  (~ reachable /\ replies = 0 /\ pending /\ last_received # Never)
    ~> outcome # "running"

(* The loop does not go on after shutdown, though it only looks at the flag
   between two branches.                                                   *)
ShutdownEndsLoop == shutdown ~> outcome # "running"

(* What the comment in the timeout branch says: stuck rekey attempts are
   cleared if the response never arrives.                                  *)
RekeyGivenUp ==
  rekey_started # Never
    ~> (rekey_started = Never \/ outcome \notin {"running", "blocked"})

(* What the doc of run_receive_loop says: it returns KeepaliveTimeout if the
   connection is considered dead, which is what is_connection_dead() tells. *)
DeadIsReported ==
  is_connection_dead ~> (~ is_connection_dead \/ outcome # "running")

(* What the README says: rekey every 64 GB or every hour.  A rekey is started
   for keys that have carried the volume or reached the interval.          *)
RekeyOnlyWhenDue ==
  [][rekey_started = Never /\ rekey_started' # Never
       => volume \/ key_age >= REKEY_INTERVAL]_vars
=============================================================================
