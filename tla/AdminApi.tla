------------------------------ MODULE AdminApi ------------------------------
(***************************************************************************)
(* The REST API for the server's administrators (admin.rs): the accept     *)
(* loop with its permits, the limiter of requests per address with its two *)
(* locks, the gate that asks for a token, and the handlers that list,      *)
(* show and end sessions while the server creates and removes them.  A     *)
(* connection serves one request after another in a task of its own, so    *)
(* the requests of two connections interleave at every lock and at every   *)
(* look at the session table.  Bodies are left out but for the sessions a  *)
(* list names.                                                             *)
(***************************************************************************)
EXTENDS Integers, Sequences, FiniteSets

CONSTANTS Deployments,   \* [token: "none", "plain" or "hash"; enable_metrics; ips; limit; shutdown: whether
                         \* run_with_shutdown is used; requests: what is asked; asks, sessions, ticks: bounds]
          MAX_CONCURRENT_CONNECTIONS,
          MAX_TRACKED_IPS,
          RATE_LIMIT_WINDOW,
          RATE_LIMIT_CLEANUP_INTERVAL

VARIABLES conf,
          now,
          limiter,       \* [requests: a function from the tracked addresses to [count, window_start],
                         \*  last_cleanup]
          http,          \* [listening, permits]
          conns,         \* per slot: the task that serves a connection
          table,         \* [live: the sessions there are, next: the next session ID]
          past           \* [allowed: what the limiter let through, ended: sessions a 204 told of, asks]

vars == <<conf, now, limiter, http, conns, table, past>>

Slots == 1..MAX_CONCURRENT_CONNECTIONS
NoRequest == [method |-> "none", path |-> "none", id |-> 0, bearer |-> "none"]
Free == [pc |-> "free", ip |-> 0, req |-> NoRequest, now |-> 0, at_start |-> {}, gone |-> {}, todo |-> {},
         sessions |-> {}, status |-> 0]
NoEntries == [i \in {} |-> 0]
Since(t, start) == IF t > start THEN t - start ELSE 0

Init ==
  /\ conf \in Deployments
  /\ now = 0
  /\ limiter = [requests |-> NoEntries, last_cleanup |-> 0]
  /\ http = [listening |-> TRUE, permits |-> MAX_CONCURRENT_CONNECTIONS]
  /\ conns = [s \in Slots |-> Free]
  /\ table = [live |-> {}, next |-> 1]
  /\ past = [allowed |-> <<>>, ended |-> <<>>, asks |-> 0]

-----------------------------------------------------------------------------
(* The accept loop *)

\* Mutated form: the permit is dropped before the task is spawned.
acceptUnheld(s) ==
  /\ http.listening /\ conns[s].pc = "free" /\ \A r \in 1..(s - 1) : conns[r].pc # "free"
  /\ http.permits > 0
  /\ \E ip \in conf.ips : conns' = [conns EXCEPT ![s] = [Free EXCEPT !.pc = "open", !.ip = ip]]
  /\ UNCHANGED <<http, limiter, table, past>>

\* run and run_with_shutdown: a connection is served by a task that holds a permit, or dropped.
accept(s) ==
  /\ http.listening /\ conns[s].pc = "free" /\ \A r \in 1..(s - 1) : conns[r].pc # "free"
  /\ http.permits > 0
  /\ http' = [http EXCEPT !.permits = @ - 1]
  /\ \E ip \in conf.ips : conns' = [conns EXCEPT ![s] = [Free EXCEPT !.pc = "open", !.ip = ip]]
  /\ UNCHANGED <<limiter, table, past>>

\* shutdown.recv() breaks the loop; the tasks of the connections go on.
shutdown ==
  /\ conf.shutdown /\ http.listening
  /\ http' = [http EXCEPT !.listening = FALSE]
  /\ UNCHANGED <<limiter, conns, table, past>>

\* serve_connection returns, the client having closed or the transfer having failed: _permit is dropped.
connection_ends(s) ==
  /\ conns[s].pc \in {"open", "answer"}
  /\ conns' = [conns EXCEPT ![s] = Free]
  /\ http' = [http EXCEPT !.permits = @ + 1]
  /\ UNCHANGED <<limiter, table, past>>

-----------------------------------------------------------------------------
(* The limiter *)

\* A request arrives; handle_request calls allow, which reads the clock.
handle_request(s) ==
  /\ conns[s].pc = "open"
  /\ past.asks < conf.asks
  /\ \E r \in conf.requests :
       conns' = [conns EXCEPT ![s] = [@ EXCEPT !.pc = "maybe_cleanup", !.req = r, !.now = now,
                                               !.at_start = table.live, !.gone = (1..(table.next - 1)) \ table.live]]
  /\ past' = [past EXCEPT !.asks = @ + 1]
  /\ UNCHANGED <<limiter, http, table>>

maybe_cleanup(s) ==
  /\ conns[s].pc = "maybe_cleanup"
  /\ IF Since(conns[s].now, limiter.last_cleanup) > RATE_LIMIT_CLEANUP_INTERVAL
     THEN /\ limiter' = [limiter EXCEPT !.last_cleanup = conns[s].now]
          /\ conns' = [conns EXCEPT ![s].pc = "cleanup"]
     ELSE /\ conns' = [conns EXCEPT ![s].pc = "allow"]
          /\ UNCHANGED limiter
  /\ UNCHANGED <<http, table, past>>

\* cleanup reads the clock again before it takes the lock.
cleanup(s) ==
  /\ conns[s].pc = "cleanup"
  /\ LET kept == {ip \in DOMAIN limiter.requests :
                    Since(now, limiter.requests[ip].window_start) <= RATE_LIMIT_WINDOW}
     IN limiter' = [limiter EXCEPT !.requests = [ip \in kept |-> limiter.requests[ip]]]
  /\ conns' = [conns EXCEPT ![s].pc = "allow"]
  /\ UNCHANGED <<http, table, past>>

\* Mutated form: the request after the last one is let through too.
CountedPast(entry, t) ==
  IF Since(t, entry.window_start) > RATE_LIMIT_WINDOW
  THEN [allowed |-> TRUE, entry |-> [count |-> 1, window_start |-> t]]
  ELSE IF entry.count > conf.limit
  THEN [allowed |-> FALSE, entry |-> entry]
  ELSE [allowed |-> TRUE, entry |-> [entry EXCEPT !.count = @ + 1]]

\* What allow makes of an address' entry at time t: [allowed, entry].
Counted(entry, t) ==
  IF Since(t, entry.window_start) > RATE_LIMIT_WINDOW
  THEN [allowed |-> TRUE, entry |-> [count |-> 1, window_start |-> t]]
  ELSE IF entry.count >= conf.limit
  THEN [allowed |-> FALSE, entry |-> entry]
  ELSE [allowed |-> TRUE, entry |-> [entry EXCEPT !.count = @ + 1]]

allow(s) ==
  LET ip == conns[s].ip
      t == conns[s].now
      known == ip \in DOMAIN limiter.requests
      new == [count |-> 0, window_start |-> t]
      verdict == Counted(IF known THEN limiter.requests[ip] ELSE new, t)
      full == ~known /\ Cardinality(DOMAIN limiter.requests) >= MAX_TRACKED_IPS
  IN /\ conns[s].pc = "allow"
     /\ limiter' = IF full THEN limiter
                   ELSE [limiter EXCEPT !.requests = [i \in DOMAIN @ \cup {ip} |->
                                                        IF i = ip THEN verdict.entry ELSE @[i]]]
     /\ IF full \/ ~verdict.allowed
        THEN conns' = [conns EXCEPT ![s].pc = "answer", ![s].status = 429] /\ UNCHANGED past
        ELSE /\ conns' = [conns EXCEPT ![s].pc = "gate"]
             /\ past' = [past EXCEPT !.allowed = Append(@, [ip |-> ip, at |-> now])]
     /\ UNCHANGED <<http, table>>

-----------------------------------------------------------------------------
(* The gate and the handlers *)

Public == {"root", "health"}
Writes == {"DELETE", "POST", "PUT", "PATCH"}
Sensitive == {"sessions", "session", "stats", "metrics"}

\* check_auth, with a header as the request carries it: the digest is compared when a hash is set.
check_auth(r) == conf.token = "none" \/ r.bearer = "right"

\* Mutated form: without a token only the writes are refused.
RefusalOfWrites(r) ==
  IF r.path \in Public THEN 0
  ELSE IF conf.token = "plain" THEN (IF check_auth(r) THEN 0 ELSE 401)
  ELSE IF r.method \in Writes THEN 403
  ELSE 0

\* 0 when the request may go on, and the status of the refusal otherwise.  Only the plain token is looked
\* at to see whether one is configured.
Refusal(r) ==
  IF r.path \in Public THEN 0
  ELSE IF conf.token = "plain" THEN (IF check_auth(r) THEN 0 ELSE 401)
  ELSE IF r.method \in Writes \/ r.path \in Sensitive THEN 403
  ELSE 0

Answers(s, status) == conns' = [conns EXCEPT ![s].pc = "answer", ![s].status = status]

\* The gate has let the request through and the routes are matched.
Routed(s, method, path) ==
  /\ conns[s].pc = "gate"
  /\ Refusal(conns[s].req) = 0
  /\ conns[s].req.method = method /\ conns[s].req.path = path

refuse(s) ==
  /\ conns[s].pc = "gate"
  /\ Refusal(conns[s].req) # 0
  /\ Answers(s, Refusal(conns[s].req))
  /\ UNCHANGED <<limiter, http, table, past>>

\* session_ids takes the IDs there are; each session is then looked up by itself.
handle_list_sessions(s) ==
  /\ Routed(s, "GET", "sessions")
  /\ conns' = [conns EXCEPT ![s].pc = "list", ![s].todo = table.live]
  /\ UNCHANGED <<limiter, http, table, past>>

\* Mutated form: the list ends at the first session that is gone.
list_sessionStops(s) ==
  /\ conns[s].pc = "list"
  /\ \E id \in conns[s].todo :
       conns' = [conns EXCEPT ![s].todo = IF id \in table.live THEN @ \ {id} ELSE {},
                              ![s].sessions = @ \cup ({id} \cap table.live)]
  /\ UNCHANGED <<limiter, http, table, past>>

list_session(s) ==
  /\ conns[s].pc = "list"
  /\ \E id \in conns[s].todo :
       conns' = [conns EXCEPT ![s].todo = @ \ {id}, ![s].sessions = @ \cup ({id} \cap table.live)]
  /\ UNCHANGED <<limiter, http, table, past>>

list_done(s) ==
  /\ conns[s].pc = "list" /\ conns[s].todo = {}
  /\ Answers(s, 200)
  /\ UNCHANGED <<limiter, http, table, past>>

\* An ID of 0 stands for one that is no hexadecimal number.
handle_get_session(s) ==
  LET id == conns[s].req.id
  IN /\ Routed(s, "GET", "session")
     /\ Answers(s, IF id = 0 THEN 400 ELSE IF id \in table.live THEN 200 ELSE 404)
     /\ UNCHANGED <<limiter, http, table, past>>

\* Mutated form: the session was looked up when the request came, and is removed now.
handle_delete_sessionTwice(s) ==
  LET id == conns[s].req.id
  IN /\ Routed(s, "DELETE", "session")
     /\ Answers(s, IF id = 0 THEN 400 ELSE IF id \notin conns[s].gone /\ id < table.next THEN 204 ELSE 404)
     /\ table' = [table EXCEPT !.live = @ \ {id}]
     /\ past' = IF id \notin conns[s].gone /\ id \in 1..(table.next - 1)
                THEN [past EXCEPT !.ended = Append(@, id)] ELSE past
     /\ UNCHANGED <<limiter, http>>

\* remove_session takes the session out of the table once; what else it does is SessionManager's.
handle_delete_session(s) ==
  LET id == conns[s].req.id
  IN /\ Routed(s, "DELETE", "session")
     /\ Answers(s, IF id = 0 THEN 400 ELSE IF id \in table.live THEN 204 ELSE 404)
     /\ table' = [table EXCEPT !.live = @ \ {id}]
     /\ past' = IF id \in table.live THEN [past EXCEPT !.ended = Append(@, id)] ELSE past
     /\ UNCHANGED <<limiter, http>>

handle_stats(s) ==
  /\ Routed(s, "GET", "stats")
  /\ Answers(s, 200)
  /\ UNCHANGED <<limiter, http, table, past>>

handle_health(s) ==
  /\ Routed(s, "GET", "health")
  /\ Answers(s, 200)
  /\ UNCHANGED <<limiter, http, table, past>>

\* The remaining routes: the metrics, the root page and everything that is not found.
handle_other(s) ==
  LET r == conns[s].req
  IN /\ conns[s].pc = "gate" /\ Refusal(r) = 0
     /\ r.path \in {"root", "metrics", "other"} \/ <<r.method, r.path>> \notin
          {<<"GET", "sessions">>, <<"GET", "session">>, <<"DELETE", "session">>, <<"GET", "stats">>,
           <<"GET", "health">>}
     /\ Answers(s, IF r.method = "GET" /\ (r.path = "root" \/ (r.path = "metrics" /\ conf.enable_metrics))
                   THEN 200 ELSE 404)
     /\ UNCHANGED <<limiter, http, table, past>>

\* The response is on its way and the connection waits for the next request.
respond(s) ==
  /\ conns[s].pc = "answer"
  /\ conns' = [conns EXCEPT ![s] = [Free EXCEPT !.pc = "open", !.ip = conns[s].ip]]
  /\ UNCHANGED <<limiter, http, table, past>>

-----------------------------------------------------------------------------
(* The rest of the server *)

create_session ==
  /\ table.next <= conf.sessions
  /\ table' = [live |-> table.live \cup {table.next}, next |-> table.next + 1]
  /\ UNCHANGED <<limiter, http, conns, past>>

session_expires ==
  /\ \E id \in table.live : table' = [table EXCEPT !.live = @ \ {id}]
  /\ UNCHANGED <<limiter, http, conns, past>>

\* allow waits for nothing but two short locks: it is through before a window has passed.
Prompt(s) == conns[s].pc \in {"maybe_cleanup", "cleanup", "allow"} => now + 1 < conns[s].now + RATE_LIMIT_WINDOW

Tick ==
  /\ now < conf.ticks
  /\ \A s \in Slots : Prompt(s)
  /\ now' = now + 1
  /\ UNCHANGED <<conf, limiter, http, conns, table, past>>

Step(s) ==
  \/ accept(s) \/ connection_ends(s) \/ handle_request(s) \/ maybe_cleanup(s) \/ cleanup(s) \/ allow(s)
  \/ refuse(s) \/ handle_list_sessions(s) \/ list_session(s) \/ list_done(s) \/ handle_get_session(s)
  \/ handle_delete_session(s) \/ handle_stats(s) \/ handle_health(s) \/ handle_other(s) \/ respond(s)

Next ==
  \/ UNCHANGED <<conf, now>> /\ (shutdown \/ create_session \/ session_expires \/ \E s \in Slots : Step(s))
  \/ Tick

-----------------------------------------------------------------------------
(* Properties *)

\* The permits are those the open connections do not hold, so never more than
\* MAX_CONCURRENT_CONNECTIONS are served at once; and the limiter never tracks more addresses than it may.
PermitsAreHeld ==
  /\ http.permits + Cardinality({s \in Slots : conns[s].pc # "free"}) = MAX_CONCURRENT_CONNECTIONS
  /\ Cardinality(DOMAIN limiter.requests) <= MAX_TRACKED_IPS

\* A list names sessions that were there while it was made and leaves out none that stayed, although the
\* table changes between session_ids and the lookups.
ListsAreCurrent ==
  \A s \in Slots :
    conns[s].pc = "answer" /\ conns[s].req.path = "sessions" /\ conns[s].status = 200
      => /\ conns[s].sessions \cap conns[s].gone = {}
         /\ conns[s].at_start \cap table.live \subseteq conns[s].sessions

\* One DELETE of a session is answered with 204, however many connections ask for it at once, and the
\* session is gone for good.
EndedOnce ==
  /\ \A i, j \in 1..Len(past.ended) : past.ended[i] = past.ended[j] => i = j
  /\ \A i \in 1..Len(past.ended) : past.ended[i] \notin table.live

\* What the API tells of sessions and what it does to them it does for the holder of the token.
OnlyForTheTokenHolder ==
  \A s \in Slots :
    conns[s].pc = "answer" /\ conns[s].status \in {200, 204} /\ conns[s].req.path \in Sensitive
      => conf.token # "none" /\ conns[s].req.bearer = "right"

AdminBooks == PermitsAreHeld /\ ListsAreCurrent /\ EndedOnce /\ OnlyForTheTokenHolder

\* However the requests of an address interleave with the cleanup and with the end of its window, no
\* stretch of one window's length sees more than two windows' worth of its requests let through.
RequestsAreBounded ==
  \A i, j \in 1..Len(past.allowed) :
    LET within == {k \in i..j : past.allowed[k].ip = past.allowed[i].ip}
    IN past.allowed[j].at - past.allowed[i].at <= RATE_LIMIT_WINDOW => Cardinality(within) <= 2 * conf.limit

\* "Tracks the number of requests per IP address within a sliding time window" (admin.rs 57): no stretch of
\* a window's length sees more than the limit.
WindowSlides ==
  \A i, j \in 1..Len(past.allowed) :
    LET within == {k \in i..j : past.allowed[k].ip = past.allowed[i].ip}
    IN past.allowed[j].at - past.allowed[i].at <= RATE_LIMIT_WINDOW => Cardinality(within) <= conf.limit

\* "When set, check_auth recomputes the SHA-256 of the incoming bearer token" (admin.rs 289-293): who shows
\* the configured token is not turned away at the gate.
TokenHolderIsServed ==
  \A s \in Slots :
    conns[s].pc = "answer" /\ conf.token # "none" /\ conns[s].req.bearer = "right"
      => conns[s].status \notin {401, 403}
=============================================================================
