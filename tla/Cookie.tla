------------------------------- MODULE Cookie -------------------------------
(***************************************************************************)
(* The stateless cookie of hpn-core (handshake.rs, messages.rs): a server  *)
(* under load answers an init with a challenge it does not remember, and   *)
(* takes the init only with the solved challenge.  The key of the tag      *)
(* rotates, lazily, on a monotonic clock; the age of a challenge is        *)
(* measured on the wall clock, which may be set back.                      *)
(***************************************************************************)
EXTENDS Integers, FiniteSets

CONSTANTS
  Addresses,                     \* client addresses
  Difficulties,                  \* what set_cookie_difficulty is called with
  DEFAULT_COOKIE_MAX_AGE_SECS,
  COOKIE_SECRET_ROTATION,
  FUTURE_SKEW,                   \* a challenge this far in the future is still taken
  MaxIssued,                     \* bound on the challenges given out
  MaxTime,                       \* bound on the clock
  MaxSteps                       \* bound on how often the wall clock is set back, and difficulty set

VARIABLES
  now,       \* the monotonic clock
  wall,      \* the wall clock
  secrets,   \* CookieSecrets; a secret is a number never used before
  difficulty,
  issued,    \* the challenges given out, with the address and time they were made for
  clients,   \* address -> state of the ClientHandshake
  replies,   \* CookieReply messages sent
  verdict,   \* the last verification
  spent

vars == <<now, wall, secrets, difficulty, issued, clients, replies, verdict, spent>>

\* No secret yet, and no verification yet.
None == 0
Unverified == [done |-> FALSE]

initial_cookie_secrets == [current |-> 1, previous |-> None, last_rotation |-> 0]

Init == /\ now = 0
        /\ wall = 0
        /\ secrets = initial_cookie_secrets
        /\ difficulty \in Difficulties
        /\ issued = {}
        /\ clients = [a \in Addresses |-> "AwaitingResponse"]
        /\ replies = {}
        /\ verdict = Unverified
        /\ spent = 0

-----------------------------------------------------------------------------
(* The secret *)

\* Mutant: the replaced secret is not kept.
maybe_rotate_cookie_secretForgets ==
  IF now - secrets.last_rotation >= COOKIE_SECRET_ROTATION
  THEN [current |-> secrets.current + 1, previous |-> None, last_rotation |-> now]
  ELSE secrets

\* Both request and verification look whether the secret is due.
maybe_rotate_cookie_secret ==
  IF now - secrets.last_rotation >= COOKIE_SECRET_ROTATION
  THEN [current |-> secrets.current + 1, previous |-> secrets.current, last_rotation |-> now]
  ELSE secrets

\* The tag is a function of its inputs; no two inputs share one.
compute_cookie_hmac_with(secret, timestamp, addr, d) == <<secret, timestamp, addr, d>>
compute_cookie_hmac(s, timestamp, addr, d) == compute_cookie_hmac_with(s.current, timestamp, addr, d)

-----------------------------------------------------------------------------
(* Server and client *)

CookieRequest_new(d, addr) == [timestamp |-> wall, server_addr |-> addr, difficulty |-> d]

\* made is the time of making on the clock nobody sets, for the property.
create_cookie_request(addr) ==
  LET s == maybe_rotate_cookie_secret
      request == CookieRequest_new(difficulty, addr)
      tag == compute_cookie_hmac(s, request.timestamp, request.server_addr, request.difficulty)
  IN /\ secrets' = s
     /\ issued' = issued \cup {[timestamp |-> request.timestamp, tag |-> tag, addr |-> addr,
                                difficulty |-> request.difficulty, made |-> now]}

Challenge(addr) ==
  /\ Cardinality(issued) < MaxIssued
  /\ create_cookie_request(addr)
  /\ UNCHANGED <<now, wall, difficulty, clients, replies, verdict, spent>>

\* The search ends with a nonce of enough leading zeros, here exactly enough, or gives up after
\* MAX_POW_ITERATIONS.
CookieReply_solve(challenge, luck) ==
  IF challenge.difficulty \in 1 .. 32 /\ luck
  THEN {[challenge |-> challenge, zeros |-> challenge.difficulty]} ELSE {}

\* A handshake answers one challenge.  If the puzzle is refused or not solved it stays in
\* SolvingCookie, in which no response is taken either.
solve_cookie_challenge(addr, challenge) ==
  /\ clients[addr] = "AwaitingResponse"
  /\ challenge \in issued /\ challenge.addr = addr
  /\ \E luck \in BOOLEAN :
       LET reply == CookieReply_solve(challenge, luck)
       IN /\ clients' = [clients EXCEPT
               ![addr] = IF reply = {} THEN "SolvingCookie" ELSE "AwaitingResponseAfterCookie"]
          /\ replies' = replies \cup reply
  /\ UNCHANGED <<now, wall, secrets, difficulty, issued, verdict, spent>>

\* A connection attempt that failed is followed by another, with a handshake of its own.
Again(addr) ==
  /\ clients[addr] # "AwaitingResponse"
  /\ clients' = [clients EXCEPT ![addr] = "AwaitingResponse"]
  /\ UNCHANGED <<now, wall, secrets, difficulty, issued, replies, verdict, spent>>

is_expired(timestamp, max_age) == timestamp > wall + FUTURE_SKEW \/ wall - timestamp > max_age
CookieReply_verify(reply, d) == reply.zeros >= d

\* A reply may arrive at any time, more than once, and from another address than it was made for.
verify_cookie_reply(reply, addr) ==
  LET s == maybe_rotate_cookie_secret
      c == reply.challenge
      known == {s.current} \cup ({s.previous} \ {None})
      tags == {compute_cookie_hmac_with(k, c.timestamp, addr, difficulty) : k \in known}
  IN /\ secrets' = s
     /\ verdict' = [done |-> TRUE, challenge |-> c, addr |-> addr, difficulty |-> difficulty,
                    accepted |-> /\ c.tag \in tags
                                 /\ ~is_expired(c.timestamp, DEFAULT_COOKIE_MAX_AGE_SECS)
                                 /\ CookieReply_verify(reply, difficulty),
                    at |-> now, wall |-> wall]

Verify(reply, addr) ==
  /\ verify_cookie_reply(reply, addr)
  /\ UNCHANGED <<now, wall, difficulty, issued, clients, replies, spent>>

-----------------------------------------------------------------------------
(* The clocks and the operator *)

Tick == /\ now < MaxTime
        /\ now' = now + 1
        /\ wall' = wall + 1
        /\ UNCHANGED <<secrets, difficulty, issued, clients, replies, verdict, spent>>

SetBack == /\ spent < MaxSteps /\ wall > 0
           /\ \E t \in 0 .. (wall - 1) : wall' = t
           /\ spent' = spent + 1
           /\ UNCHANGED <<now, secrets, difficulty, issued, clients, replies, verdict>>

set_cookie_difficulty == /\ spent < MaxSteps
                         /\ difficulty' \in Difficulties \ {difficulty}
                         /\ spent' = spent + 1
                         /\ UNCHANGED <<now, wall, secrets, issued, clients, replies, verdict>>

Next == \/ \E a \in Addresses : \/ Challenge(a) \/ Again(a)
                                \/ \E c \in issued : solve_cookie_challenge(a, c)
                                \/ \E r \in replies : Verify(r, a)
        \/ Tick \/ SetBack \/ set_cookie_difficulty

Spec == Init /\ [][Next]_vars

-----------------------------------------------------------------------------

\* A solved challenge admits the client it was made for, and only that one, while it is fresh:
\* whenever the secret rotated in between, whether or not anybody called the server meanwhile, and
\* however the wall clock was set.  (Two clocks are at work: a wall clock set back makes a challenge
\* look young that is older than two rotations, so what is promised to the client is counted on the
\* clock that is not set.)
CookiesServeTheirClient ==
  verdict.done =>
    LET c == verdict.challenge
        fresh == /\ c.timestamp <= verdict.wall + FUTURE_SKEW
                 /\ verdict.wall - c.timestamp <= DEFAULT_COOKIE_MAX_AGE_SECS
        own == verdict.addr = c.addr /\ verdict.difficulty = c.difficulty
    IN /\ verdict.accepted => own /\ fresh
       /\ own /\ fresh /\ verdict.at - c.made <= DEFAULT_COOKIE_MAX_AGE_SECS => verdict.accepted
=============================================================================
