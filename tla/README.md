# A TLA+ model of HPN-VPN

HPN-VPN is a post-quantum VPN in Rust: a client library with applications for
macOS and Windows, a Linux server, and a relay between them. This directory
models the parts of it whose correctness depends on the order of events, checks
them with TLC on small instances, and proves the main invariants of the core
with TLAPS for every value of the constants. `PROJECT.json` maps every
definition to the lines it models, the modules that stand for most code per
definition first, and lists every component with its status, every hazard at its
line, and a mutant of the code for every property.

## The system

A client handshakes with the server. Its init passes the rate limiter, the
reassembly buffer, the replay cache and the lockouts; the server then creates a
session in its table and gives it tunnel addresses. Both ends protect packets
with a `Session` that several worker threads share; workers carry the packets
between sockets, rings and TUN devices. The client's loop keeps the connection
alive, rekeys in band and reports a dead connection, and the client connects
again. The administration API, the cleanup task and the control loop remove
sessions concurrently. A relay may sit between the two. On the desktop the
application rewrites routes, firewall rules and name servers, and must undo that
after any failure or crash.

## The modules

`MC*` modules and `.cfg` files give the constants their values (`ReceiveLoop`,
whose constants are numbers, needs only the files); `*_proofs`,
`SecureSession_rekey`, `SessionManager_inv` and `SessionManager_owner` hold the
theorems.

### The session

**`ReplayFilter`** is the promise of the anti-replay window: the set of accepted
counters; a counter is accepted exactly when it is not in the set and less than
a window behind the highest. **`AntiReplayWindow`** is the code: the bitmap as a
function from words to sets of bits, `shift_bitmap` with whole words first and
then bits with the carry, and the branches of `check_and_update`, which runs
under one lock and is one action. `ImplementsFilter` states the refinement; the
set of the filter is the set of counters with a positive count in the history
`accepts`.

**`SecureSession`** is one session with its two ends. Threads of an end share
the `Session` under a read guard; `encrypt_packet` and `decrypt_packet` take two
steps each, at the atomics the threads race on. `update_keys` needs the write
guard, so it waits until no thread is between its two steps. `wire` keeps every
packet ever sent: any of them may arrive at any time, any number of times, or
never, which covers loss, duplication, delay and reordering. A key is a fresh
number in place of the KEM and the KDF, and a packet opens exactly under the key
that sealed it. The window is the set of `ReplayFilter`. Key identifiers wrap at
`KEY_IDS`, 2^32 in the code. The error return of `update_keys` is left out: it
needs a key that is not 32 bytes long.

**`Rekey`** has what `SecureSession` takes for granted: the signatures,
transcripts and the two key derivations of a rekey, as terms, with requests and
answers lost, repeated and crossing a new session. **`ReceiveLoop`** is
`run_receive_loop` in discrete time. A field that holds an `Instant` is its age
in units, capped one unit past the longest duration it is compared with. When an
age equals that duration the comparison may go either way, because a timer fires
a little late and an `Instant` is read a little later. Time advances only while
no timer is due. The server answers while it is reachable: until the network
fails for good or a rekey strands the client.

### Getting in

**`Handshake`** has the messages and what the two ends compute from them, over
symbolic cryptography; a client's ephemeral key is two halves, because a plain
init is cut inside its key. **`Reassembly`** is the buffer of `fragment.rs`:
consistency, expiry, eviction, byte accounts. **`Gates`** has the rate limiter,
the replay cache, the three failure counters and the account's own lock as
operators on their maps. **`Admission`** composes them with the client's
attempts, a network that loses, repeats and reorders, the user store and the
session table, on the three paths of the server (Linux workers, portable loop,
AF_XDP). The control loop is serial, so a handler is one step. The AF_XDP path
is modelled given a producer; no worker forwards handshakes to it today.
**`Cookie`** is the stateless cookie with its lazily rotated secrets, a
monotonic and a wall clock. **`UserStore`** is the SQLite database under three
kinds of writers, one statement per step, with the snapshot rule of WAL mode.

### The server

**`SessionManager`** is the session table. The control loop creates sessions;
the admin API, the cleanup task and the handlers of Close remove them. Each
access to a DashMap, to an allocator under its lock, to the atomic counter or to
the gauge is a step, in the order of the code, and the tasks interleave at every
one of them. An allocator is the next offset never handed out and the set of
released ones; which released offset is reused is left open. IPv4 and IPv6 are
two families of one function. **`AddressPools`** has the arithmetic that
`SessionManager` leaves out: additions that wrap or fail at the width of the
address. **`RateLimiter`** is the session's token buckets at their atomics.
**`DataPath`** has the threads between socket and TUN device, the control
messages and the clients that roam; its senders fill the batches of
**`SendBatch`**, `sendmmsg` with what it keeps after a partial success.
**`Xsk`** is AF_XDP: UMEM frames, four rings whose indices wrap, an allocator
shared by workers, against the kernel. **`IoUring`** lends buffers to the kernel
and gets them back in any order. **`BufferPools`** has the four packet pools.
**`ServerLifecycle`** is the process: configuration, `initialize`, `run`,
privileges, worker panics, firewall rules and devices, every command of which
may be refused, and a kill between any two. **`AdminApi`** is the REST API with
its permits, its two-lock limiter, the token and every route.

### Between and at the clients

**`Wire`** states every encoder as the fields it writes and every decoder as its
sequence of length checks and reads, with the sizes of the code. **`Relay`** has
the session table, limits and forwarding of the relay. **`NatTraversal`** has
STUN and hole punching. **`Transport`** is the TCP transport and the fallback to
it. **`TunnelExt`** is the macOS packet tunnel extension: the entry points the
system calls from three threads, the main loop and the reconnect of the client.

**`WindowsHost`** says what each function of the Windows client does to the
machine and to the journal; **`WindowsClient`** runs them from `connect_internal`,
the task that owns the connection, disconnect, quit, a crash and the recovery at
the next start. A step is what lies between two system calls whose interruption
leaves a different machine. **`WindowsPump`** has the threads and tasks that
carry the packets. **`MacClient`** does the same for macOS, a function being the
sequence of its commands; no program drives that library any more, so its
caller follows the documentation. **`MacApp`** is the macOS application over the
system's VPN preferences. **`Files`** has the profiles, settings and key files,
and a process that dies inside a write.

The machines of **`MCNetwork`** and of **`MCClients`** share no state, so one run
explores them side by side: `part` says which one a behaviour is of, and a
property speaks of its own machine. Where a property has a conjunct for each of
several machines, every conjunct was tried against a mutated form of its own
module; the listed mutant is one of them.

## What TLC checks

| Run | States | Shows |
|---|---|---|
| `anti_replay_window` | 49 thousand | 3 words of 2 bits, counters to 11: twice the window, so that every combination of word and bit shift occurs. No counter is accepted twice between resets (`AcceptedAtMostOnce`), the bitmap is exactly the accepted counters of the window (`BitmapIsExact`), and the window implements the filter (`ImplementsFilter`). |
| `secure_session` | 0.9 million | 2 threads per end, 5 packets, 2 rekeys, 2 key ids, counters up to 2. No nonce is used twice (`NonceUnique`), no plaintext is handed up twice (`DeliveredAtMostOnce`), equal key ids mean equal keys (`KeyIdIdentifiesKey`), an awaited rekey answer can still be opened (`AnswerStaysReadable`), and a client that missed it is not taken along later (`StrandedIsForever`). |
| `session_manager` | 1.0 million | 2 ids, 2 removing tasks, 2 addresses per family, at most 2 sessions, 4 creations: replacement, exhaustion of either pool while a removal still holds an address, the limit while a removal still counts, and races for the same session. Addresses are exclusive (`AddressesExclusive`) and not lost (`NoAddressLeak`), the count is exact (`SessionCountExact`), a session keeps its mappings (`MappedWhileLive`). |
| `receive_loop` | 0.5 million | Periods in the order of the real ones. A connection is not declared dead before `keepalive_timeout()` (`NoFalseAlarm`) nor later than two intervals per miss and one check (`DetectedInTime`); a server that falls silent is noticed (`SilenceDetected`); shutdown ends the loop (`ShutdownEndsLoop`). |
| `admission` | 0.6 million | Retries with pieces under one and two fragment ids, two clients competing for one reassembly entry, every path, logins to both lockouts. See below. |
| `network` | 1.8 million | The fourteen machines of the server, the relay and the wire. See below. |
| `clients` | 1.5 million | The seven machines of the clients. See below. |

`admission`:

* `Agreement`: a client that is Established holds the keys and the address of a
  session made for exactly that attempt, however pieces of attempts mix.
* `AdmittedOnce`: two sessions for one client random are a replay TTL apart,
  even when the cache is full.
* `EveryEntryIsPaid`: every init parsed and every reassembly entry cost its
  address a token.
* `SessionsWereAnswered`: a session left in the table was answered in full.
* `ReassemblyAccounts`: the bytes accounted for are those of the entries held.
* `GuessesAreBounded`: without eviction an address gets `tuple_max_attempts`
  password tries in any lockout period.

`network`:

* `CodecsAgree`, `HandshakesFitFragments` (`Wire`): what is encoded is decoded,
  but for a tunnel configuration with more than eight name servers; no decoder
  reads past its buffer, but for two reads at lengths the module names; the
  largest handshake fits its fragments.
* `TrafficStaysWithItsSession`, `AckedBinding` (`DataPath`): stale lookups,
  leases given again, half-sent batches and late rebinds never send a packet to
  another client or move a binding back.
* `BuffersHeldOnce` (`Xsk`, `IoUring`, `BufferPools`): a buffer has one holder;
  a UMEM frame up to the moment a push and a pop of the allocator meet in one
  slot, which only workers that share the frames and send can bring about.
* `RateHolds` (`RateLimiter`, `AdminApi`): racing workers never let through more
  than burst and rate; no address gets more than two windows' requests.
* `BooksBalance` (`Relay`, `AddressPools`, `AdminApi`): counts, permits and
  pools are those of the tasks, sessions and addresses there are.
* `CleanExit` (`ServerLifecycle`): a process that ends by itself leaves no rule
  it did not find.
* `LateAnswersAreHarmless` (`Cookie`, `Rekey`, `NatTraversal`): an answer counts
  for the question it answers.
* `AccountsHold` (`UserStore`): passwords and failure counts are right in spite
  of a late hash upgrade, and a login is accepted against the row of that moment.

`clients`:

* `HostIsRestored` (`WindowsClient`, `MacClient`): after a connection, however
  far it got and whatever failed, the machine is as before.
* `RestartReconnects` (`WindowsClient`): after any crashes a start removes what
  the tunnel left, and the default route is missing exactly when an engaged kill
  switch was taken down with its connection. Connections that overlap, commands
  of the undoing that fail and a journal that was not saved are left out.
* `KillSwitchHolds` (`WindowsClient`, `MacClient`): an engaged kill switch is
  not undone by a destructor, nor while the tunnel is set up again. On macOS it
  is about IPv4 and ends with a recovery; the missing default route is enough
  for it, so it says nothing about the moments in which `pf` has no rules.
* `ConnectCanBeRetried` (`WindowsClient`, `MacApp`): the flag that refuses a
  second connect always has an owner that will reset it.
* `EndingEndsTheTunnel` (`MacApp`, `WindowsPump`): an application that was quit
  or interrupted leaves no tunnel, whatever connect was under way and whichever
  earlier stops failed, provided that its last stop works and that no callback
  starts the tunnel after it; the tasks of a Windows connection end with it.
* `PacketsAreKept` (`WindowsPump`, `Transport`), `ProfilesSurvive` (`Files`).
* `ReconnectsOnlyWhenSilent` (`TunnelExt`): a tunnel is given up only for the
  silence of its own session: as many attempts at a keepalive as the
  configuration says, sent or failed, since its last reply.

Five runs show that the code does not do what a comment or doc says of it:

| Run | Statement | What happens |
|---|---|---|
| `session_gauge` | `server.rs:538`: every path stays consistent with `sessions_active` | A removal between the insertion and the Created event decrements a gauge that is zero; Created then leaves it one too high. |
| `receive_loop_rekey_stuck` | `client.rs:1339`: stuck rekey attempts are cleared | The read guard of `rekey_started_at` in the `if let` lives through its body, where `clear_rekey_state` wants the write guard: the task blocks itself. |
| `receive_loop_dead` | `client.rs:1242`: returns `KeepaliveTimeout` if the connection is considered dead | With no reply ever received, the timeout is measured from the last keepalive sent, which each keepalive refreshes. |
| `receive_loop_rekey_due` | `README.md:25`: rekey every 64 GB or 1 hour | `update_keys` does not reset the age that `needs_rekey` reads: after an hour every check rekeys. |
| `relay_pieces` | `relay.rs:930`: fragments travel through the dedicated forwarding socket so that the reply lands in its task | Every packet gets a socket of its own; the server keys reassembly by source address and never completes the message. |

**Bounds.** Deployments are small sets of configurations, one per case that
matters; each names its own bounds (packets, sends, connects, faults, crashes,
ticks), and every bound is in a guard or in the set of inputs. Capacities are
scaled so that they fill: pools and channels of 1 or 2, 2 sessions, 1 reassembly
entry, ring indices of 4 bits, addresses of 5 bits, times of a few units. Two
rekeys with two key identifiers make the identifiers wrap; two threads are
enough for every race on one counter or one datagram, because a race is between
two accesses; the theorems remove these bounds for the invariants they cover.
The sizes in `Wire` are the real ones. Threads, session ids and removers are
symmetric in the runs of `SecureSession` and `SessionManager`; no run that uses
symmetry checks a liveness property.

**Fairness** is assumed in `ReceiveLoop` only: time passes, and `select!` does
not pass over a timer that stays due (tokio polls the branches in random order).
Nothing is assumed of the network, the server or other tasks. `AdminApi` assumes
(`Prompt`) that a call of `allow` is over before a window has passed.

**Deadlock** is not checked where the system may stop: when the bounds are used
up, and when the receive loop has returned.

## What is proved

* `AntiReplayWindow_proofs`: `TypeCorrect`, `NoReplay`, `ExactBitmap` and
  `Refinement`, for every word size, number of words and set of counters. The
  inductive invariant is the type invariant, the two invariants of the run, and
  that the highest counter was accepted: a counter is refused because its bit is
  set, and its bit is set because it was accepted. The lemmas say where a bit
  goes under `ShiftWords`, `ShiftBits` and `shift_bitmap`: bit `d` of the shifted
  bitmap is bit `d - shift` of the old one, whichever words they fall into.
* `SecureSession_proofs`: `TypeCorrect`, `NoNonceReuse`, `NoDuplicateDelivery`
  and `KeyIdsAreFaithful`, for any number of threads, packets and rekeys. The
  strengthening says what is on the wire (`WireInv`: a packet under the current
  key of its sender has a counter below the send counter, and no packet is
  under a later key than its sender's), that a plaintext is sealed once
  (`IdUnique`), how far apart the two ends can be (`KeyInv`: the server's
  identifier is the client's or the next one, never further, so a wrap cannot
  make them meet while the keys differ), what a rekey response can carry
  (`ResponseInv`), and what a thread may hold (`HeldInv`, `DeliveredInv`).
* `SecureSession_rekey`: `ResponseNeverGoesStale` and the action property
  `StrandedForGood`, on top of the invariant above. Three facts are added:
  requests are numbered and a response bears the number of its request
  (`ReqInv`); the response is the last packet the server seals under the old key
  (`LastInv`); the client has accepted no counter the server has yet to use
  (`SeenInv`). So nothing can have moved the client's window past the response.
* `SessionManager_proofs`: `TypeCorrect`, `AddressesNeverShared`,
  `NoAddressIsLost`, `LiveSessionsAreMapped`, `CountNeverDrifts` and
  `CapacityRespected`, for any number of sessions, removing tasks and addresses.
  The strengthening says that every address has at most one owner at every step
  (`OwnerInv`): a session, a task between two accesses, the released pool, or the
  part of the subnet not handed out yet; that it has at least one (`LeakInv`);
  that sessions and tasks hold addresses in the families their step says
  (`WholeInv`); that a session is mapped but for the families the control loop
  has still to map (`MapInv`), which exclusive ownership protects from the
  unmapping of another session; and that the count is the table plus the tasks
  between table and counter. The invariant and the steps of its first conjuncts
  are in `SessionManager_inv`, ownership is in `SessionManager_owner` (one lemma
  per way an address changes hands), the rest is in `SessionManager_proofs`.
* `ReceiveLoop_proofs`: `TypeCorrect`, `NeverDeclaredDeadEarly` and
  `DeadWithinBound`, for any intervals, keepalive count and number of replies in
  flight. Both bounds are about how fast `missed_keepalives` grows while a
  keepalive is outstanding: the timer fires once in an interval, so at most that
  fast (`SlowEnough`); a fire may pass without a keepalive, when the last was
  sent exactly an interval ago, but the next cannot, so at least half that fast
  (`FastEnough`); then one timeout check is left (`Watched`).
* `Admission_proofs`: `ClientsAgree`, `ReplaysAreApart`, `EntriesArePaid`,
  `LeftSessionsWereAnswered` and `GuessesStayBounded`, for any clients,
  deployments, limits and policies. A handler is a chain of phases (charge,
  reassembly, parse and replay check, login, answer) that each take the server's
  record to a record, so the invariant is stated of the record: for each phase one
  lemma says what it may change and one that it keeps the invariant, whichever of
  the three handlers it is part of. The strengthening says that every piece in
  flight or in a buffer is of an init of its sender or of a response signed for a
  session the server made (`Good`); that the replay cache remembers the random of
  every session younger than the TTL (`ReplayInv`); that a token is spare between
  the charge and what it pays for (`PaidInv`, `Spare`); and that the failures of an
  address beyond those its counter stands for are older than a lock lasts
  (`CounterInv`).

The assumptions are those on the constants, each named in the module that
declares the constant; TLC evaluates them. Those of `Admission` are that the
server is not a client's address, that a deployment has one of the three paths,
that times are integers and that the lockout allows at least one attempt. Type
correctness and the session limit are proved and not checked by a run of their
own. `GuessesAreBounded` is said of servers that evicted no counter: `evicted` is
set exactly when `evict_if_full` drops one.

Only model-checked are:

* `SilenceDetected` and `ShutdownEndsLoop`: liveness under fairness, outside the
  prover.
* `ReassemblyAccounts`: `Bytes` sums over the entries with a fold, and what a fold
  computes needs induction over data with an operator as a parameter, which the
  provers cannot instantiate.
* The properties of `MCNetwork` and `MCClients`: each speaks of several machines,
  which are instances of their modules, and none of those modules has an
  inductive invariant in TLAPS yet. `Wire` declares a recursive operator, so no
  theorem can be about it.

## Promises the code does not keep

Beside the five runs, modules state promises of a comment that TLC refutes, or
their properties leave a case out because the code does not cover it:

* `WindowsHost`: `DnsLeakProtection` "restores original settings"
  (`routing.rs:3514`), but name servers that DHCP gave come back as static ones
  (`RestoresNameServers`); the IPv6 protection is not in the journal; egress
  rules are not removed at start-up although `routing.rs:2200` says so; a
  dual-stack tunnel leaves no IPv6 block when the kill switch engages; `enable`
  that fails at the second command leaves the name servers cleared. A disconnect
  between `set_connected` and the publication of the channels leaves the tunnel
  up, and a late `set_disconnected` can stop a newer connection. The state of an
  engaged kill switch is to survive a restart (`routing.rs:2362`): the missing
  default route does, the IPv6 rule is removed by every start.
* `Wire`: the length of a certificate's issuer (`pki.rs:335`) and the byte before
  a private endpoint (`nat.rs:1106`) are read without a check of their own, so a
  buffer cut just there panics. The server's configuration may list more name
  servers (`config.rs:687`, `config.rs:716`) than the eight every client takes.
* `SendBatch`: a partial `sendmmsg` does not "keep rest for next flush"
  (`syscall_batch.rs:497`, `UnsentAreKept`).
* `ServerLifecycle`: a server without a TUN device goes on serving
  (`ServesWithTun`); rules stay when privileges were dropped; the set-up of
  `run_afxdp` runs twice and fails; panics of multi-queue TUN threads are only
  logged.
* `WindowsPump`: dropping the adapter does not "signal threads"
  (`commands.rs:1949`, `ThreadsAreSignalled`): the reader holds it too.
* `IoUring`: message headers point at a stack frame the buffer has left
  (`io_uring_udp.rs:175`, `SendsAsQueued`).
* `AdminApi`: the window does not slide (`admin.rs:57`, `WindowSlides`), and a
  server configured with only the hash of a token admits nobody
  (`admin.rs:289`, `TokenHolderIsServed`).
* `AddressPools`: the number of available addresses is one too high
  (`AvailableIsExact`).
* `Transport`: a receive that `select!` drops between prefix and body loses the
  framing, so `FramesInOrder` is said of deployments without such cancellations.
* `Xsk`: received frames are never freed, nor is one whose packet could not be
  encrypted. `free` is to get the start of a frame (`umem.rs:171`,
  `FreesFrameStarts`), but completions carry the headroom; such a frame can be
  filled again and is refused for sending. And although `alloc` is to get "the
  real address" (`umem.rs:163`), it takes what the slot holds: with two workers
  that send a frame has two holders (`HeldOnce`).
* `MacApp`: the VPN is to be disconnected on any exit (`main.rs:64`). A stop that
  fails is not noticed, a `startVPNTunnel` may come after the last stop, and the
  handler is not called for SIGTERM, because `ctrlc` is built without its
  `termination` feature.
* `TunnelExt`: a socket whose sends fail is to be given up after the full timeout
  (`lib.rs:727`). A keepalive that could not be sent is not pending, so when the
  one before it was answered none is ever counted as missed
  (`AttemptsAreMissed`).
* `MacClient`: recovery knows nothing of name servers, IPv6 and `pf.conf`, and
  the bypass routes are never removed; `MacIsRestored` says exactly what is.
* `Files`: `profiles.json` of macOS is written in place and can be torn.
* `NatTraversal`: the receive timeout is longer than the delay between punch
  attempts, so a quiet peer makes the first attempt the last.
* `BufferPools`: past its wait `get` hands out a buffer that is not counted; the
  split buffer of a TUN reader comes back too short, so its pool drains.
* `Relay`: the `sessions_active` gauge is not decremented by the clean-up inside
  `get_or_create`.
* `UserStore`: a hash upgrade that commits late writes the password of the login
  that started it, over one given since; `AccountBooks` therefore says that a
  stored password was given to that user, and not that it is the last one given.

## What is not modelled

* Cryptographic primitives: numeric algorithms on bytes, out of TLC's reach. The
  models use an ideal AEAD, KEM, signature and KDF, and terms for what is
  derived.
* The text of commands, socket options and sysctl values, user interfaces, logs,
  metrics (but for the one gauge) and the configuration of relay and clients:
  parsing and output with no state that a property relates.
* AF_XDP workers beyond sockets, table and admission: the `afxdp` feature of the
  server does not match the API of `hpn-afxdp` (`afxdp_workers.rs:298`,
  `xdp_program.rs:106`).
* Code that nothing calls: the batch data plane of the relay, the reconnect
  schedule of `KillSwitchManager`, `setup_split_tunnel` and the bootstrap IPv4
  block of Windows. (`Cookie`, hole punching and the TCP transport are called by
  no application either; they are modelled because they are complete and have
  state of their own.)
* Details inside modelled parts: the MTU step and a thread that cannot be
  spawned on Windows; split tunnelling, the file lock and power events on macOS;
  TLS pinning and scoped receives of the transport; the fallback from io_uring;
  the failure of `Session::new` after a handshake; the stale UDP socket a
  receive in flight keeps is modelled in `TunnelExt`, the server's answer to
  packets from the new port in `DataPath`.

## Plan

1. Proofs: `FrameHeldOnce` of `Xsk`, `RateHolds` of `RateLimiter` and
   `PoolsAreSound` of `AddressPools`, modules without recursion whose constants
   are numbers.
2. A client life cycle module over `ReceiveLoop` and `TunnelExt`, with the
   failure of `Session::new` (`client.rs:302` leaves `connect_in_progress` set).
