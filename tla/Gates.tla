-------------------------------- MODULE Gates --------------------------------
(***************************************************************************)
(* The gates a handshake passes at the server, as operators on their       *)
(* state: the per-address rate limiter (rate_limit.rs), the cache of       *)
(* client randoms (handshake_replay.rs), the three failure counters        *)
(* (auth_lockout.rs) and the account's own lock (user_store.rs).  Each     *)
(* keeps its maps behind a lock, and one loop handles the handshakes one   *)
(* after the other, so a call is atomic.  A map is a function on the keys  *)
(* it holds.                                                               *)
(***************************************************************************)
EXTENDS Integers, FiniteSets, Functions

Put(f, k, v) == [x \in DOMAIN f \cup {k} |-> IF x = k THEN v ELSE f[x]]
Get(f, k, default) == IF k \in DOMAIN f THEN f[k] ELSE default
Size(f) == Cardinality(DOMAIN f)

\* The keys whose entries satisfy P stay.
Retain(f, P(_)) == Restrict(f, {k \in DOMAIN f : P(f[k])})

EmptyMap == [k \in {} |-> 0]

-----------------------------------------------------------------------------
(* HandshakeRateLimiter *)

NewLimiter(now) == [requests |-> EmptyMap, last_cleanup |-> now]

maybe_cleanup(l, p, now) ==
  IF now - l.last_cleanup > p.cleanup_interval
  THEN [requests |-> Retain(l.requests, LAMBDA e : now - e.window_start <= p.window),
        last_cleanup |-> now]
  ELSE l

\* A new key is refused when the table is full; a window that has run out starts again at one.
allow(l, p, key, now) ==
  LET c == maybe_cleanup(l, p, now)
      e == Get(c.requests, key, [count |-> 0, window_start |-> now])
      kept(f) == [c EXCEPT !.requests = Put(@, key, f)]
  IN  IF key \notin DOMAIN c.requests /\ Size(c.requests) >= p.max_tracked_ips
      THEN [ok |-> FALSE, limiter |-> c]
      ELSE IF now - e.window_start > p.window
      THEN [ok |-> TRUE, limiter |-> kept([count |-> 1, window_start |-> now])]
      ELSE IF e.count >= p.max_per_window
      THEN [ok |-> FALSE, limiter |-> kept(e)]
      ELSE [ok |-> TRUE, limiter |-> kept([e EXCEPT !.count = @ + 1])]

-----------------------------------------------------------------------------
(* HandshakeReplayCache *)

\* Mutant: a random that does not fit is let through without being recorded.
check_and_insertFailOpen(entries, p, random, now) ==
  LET swept == IF Size(entries) >= p.max_entries
               THEN Retain(entries, LAMBDA seen : now - seen < p.ttl) ELSE entries
  IN  IF random \in DOMAIN swept /\ now - swept[random] < p.ttl
      THEN [ok |-> FALSE, entries |-> swept]
      ELSE IF Size(swept) >= p.max_entries /\ random \notin DOMAIN swept
      THEN [ok |-> TRUE, entries |-> swept]
      ELSE [ok |-> TRUE, entries |-> Put(swept, random, now)]

\* check_and_insert: sweep when full, refuse a live random, refuse a new one above 110 %.
check_and_insert(entries, p, random, now) ==
  LET swept == IF Size(entries) >= p.max_entries
               THEN Retain(entries, LAMBDA seen : now - seen < p.ttl) ELSE entries
      hard_cap == p.max_entries + p.max_entries \div 10
  IN  IF random \in DOMAIN swept /\ now - swept[random] < p.ttl
      THEN [ok |-> FALSE, entries |-> swept]
      ELSE IF Size(swept) >= hard_cap /\ random \notin DOMAIN swept
      THEN [ok |-> FALSE, entries |-> swept]
      ELSE [ok |-> TRUE, entries |-> Put(swept, random, now)]

-----------------------------------------------------------------------------
(* AuthLockoutTracker *)

NewLockout == [tuples |-> EmptyMap, ips |-> EmptyMap, usernames |-> EmptyMap]

NewCounter == [attempts |-> 0, ips |-> {}, window_start |-> 0, locked_until |-> 0, last_access |-> 0]

Locked(f, k, now) == k \in DOMAIN f /\ f[k].locked_until > now

\* The kind of the first active lock, or "none".
check_lockout(t, user, ip, now) ==
  CASE Locked(t.ips, ip, now) -> "ip"
    [] ~Locked(t.ips, ip, now) /\ Locked(t.tuples, <<user, ip>>, now) -> "tuple"
    [] ~Locked(t.ips, ip, now) /\ ~Locked(t.tuples, <<user, ip>>, now)
         /\ Locked(t.usernames, user, now) -> "username"
    [] OTHER -> "none"

record_success(t, user, ip) ==
  [t EXCEPT !.tuples = Restrict(@, DOMAIN @ \ {<<user, ip>>})]

\* At capacity one of the oldest entries goes, whether or not the key is new.
evict_if_full(f, cap) ==
  IF Size(f) < cap THEN {f}
  ELSE {Restrict(f, DOMAIN f \ {k}) :
          k \in {k \in DOMAIN f : \A j \in DOMAIN f : f[k].last_access <= f[j].last_access}}

\* One dimension of record_failure: the counter of key k, restarted when its window has run out.
Counted(f, k, ip, window, now) ==
  LET e == Get(f, k, NewCounter)
      w == IF now - e.window_start > window
           THEN [e EXCEPT !.attempts = 0, !.ips = {}, !.window_start = now] ELSE e
  IN  [w EXCEPT !.attempts = @ + 1, !.ips = @ \cup {ip}, !.last_access = now]

\* The counter locks when it crosses its threshold and no lock is active, and starts again.
LockAt(e, due, secs, now) ==
  IF due /\ e.locked_until <= now
  THEN [e EXCEPT !.locked_until = now + secs, !.attempts = 0, !.ips = {}] ELSE e

\* The failures of one user from one address; they have no window and never age.
TupleFailed(f, k, now) ==
  [Get(f, k, NewCounter) EXCEPT !.attempts = @ + 1, !.last_access = now]

\* Mutant: the counter locks one failure late.
FailedTuplesNoLock(t, p, user, ip, now) ==
  {Put(m, <<user, ip>>, LockAt(TupleFailed(m, <<user, ip>>, now),
                               TupleFailed(m, <<user, ip>>, now).attempts > p.tuple_max_attempts,
                               p.tuple_lockout_secs, now)) :
     m \in evict_if_full(t.tuples, p.max_entries)}

FailedTuples(t, p, user, ip, now) ==
  {Put(m, <<user, ip>>, LockAt(TupleFailed(m, <<user, ip>>, now),
                               TupleFailed(m, <<user, ip>>, now).attempts >= p.tuple_max_attempts,
                               p.tuple_lockout_secs, now)) :
     m \in evict_if_full(t.tuples, p.max_entries)}

FailedIps(t, p, ip, now) ==
  {LET e == Counted(m, ip, ip, p.ip_window_secs, now)
   IN  Put(m, ip, LockAt(e, e.attempts >= p.ip_max_attempts, p.ip_ban_secs, now)) :
     m \in evict_if_full(t.ips, p.max_entries)}

FailedUsernames(t, p, user, ip, now) ==
  {LET e == Counted(m, user, ip, p.username_window_secs, now)
   IN  Put(m, user, LockAt(e, /\ e.attempts >= p.username_min_attempts
                              /\ Cardinality(e.ips) >= p.username_spread_min_ips,
                           p.username_lock_secs, now)) :
     m \in evict_if_full(t.usernames, p.max_entries)}

record_failure(t, p, user, ip, now) ==
  {[tuples |-> m, ips |-> i, usernames |-> u] :
     m \in FailedTuples(t, p, user, ip, now), i \in FailedIps(t, p, ip, now),
     u \in FailedUsernames(t, p, user, ip, now)}

-----------------------------------------------------------------------------
(* UserStore::verify_password; hash upgrades are in UserStore.tla *)

\* The seconds an account stays locked after its n-th failure in a row.
Backoff(p, n) ==
  LET e == IF n - p.MAX_FAILED_ATTEMPTS > 10 THEN 10 ELSE n - p.MAX_FAILED_ATTEMPTS
      secs == p.LOCKOUT_BASE_SECS * 2^e
  IN  IF secs > p.LOCKOUT_MAX_SECS THEN p.LOCKOUT_MAX_SECS ELSE secs

\* The row u after a login with a password that does or does not match, and the verdict.
\* A row that is absent, locked or disabled is left as it is.
verify_password(u, p, matches, now) ==
  IF u.locked_until > now \/ ~u.enabled THEN [ok |-> FALSE, row |-> u]
  ELSE IF matches
  THEN [ok |-> TRUE, row |-> [u EXCEPT !.failed_attempts = 0, !.locked_until = 0]]
  ELSE LET n == u.failed_attempts + 1
       IN  [ok |-> FALSE,
            row |-> [u EXCEPT !.failed_attempts = n,
                              !.locked_until = IF n >= p.MAX_FAILED_ATTEMPTS
                                               THEN now + Backoff(p, n) ELSE 0]]
=============================================================================
