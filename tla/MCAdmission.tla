----------------------------- MODULE MCAdmission -----------------------------
(* Instances of Admission: one client over two attempts, two clients at once, and logins. *)
EXTENDS Admission

CONSTANTS c1, c2, f1, f2

MCClients == {c1, c2}

Deployment(path, auth, sealed, whole, n1, n2) ==
  [path |-> path, auth |-> auth, kem |-> sealed \/ auth, sealed |-> sealed, whole |-> whole,
   level |-> 3, min_level |-> 3, attempts |-> [c \in MCClients |-> IF c = c1 THEN n1 ELSE n2],
   frag_ids |-> {f1}, max_time |-> 12]

\* One client that retries: pieces of plain inits under one fragment id, of sealed inits under two.
Retries ==
  {Deployment("linux", FALSE, FALSE, FALSE, 2, 0),
   [Deployment("portable", FALSE, TRUE, FALSE, 2, 0) EXCEPT !.frag_ids = {f1, f2}, !.max_time = 11]}

\* Two clients whose pieces compete for one reassembly entry.
Competing == {[Deployment("linux", FALSE, FALSE, FALSE, 1, 1) EXCEPT !.max_time = 11]}

\* Inits in one datagram, the only ones AF_XDP takes; a level below the minimum; no KEM key.
Unfragmented ==
  {Deployment(p, FALSE, FALSE, TRUE, 2, 0) : p \in {"linux", "portable", "afxdp"}}
  \cup {[Deployment(p, FALSE, s, TRUE, 1, 0) EXCEPT !.min_level = 5] :
          p \in {"linux", "portable", "afxdp"}, s \in BOOLEAN}
  \cup {[Deployment(p, FALSE, TRUE, TRUE, 1, 0) EXCEPT !.kem = FALSE] :
          p \in {"linux", "portable", "afxdp"}}

\* Logins: one address that keeps trying, and two that try one account at the same time.
Logins ==
  {Deployment("linux", TRUE, TRUE, TRUE, 3, 0), Deployment("portable", TRUE, TRUE, TRUE, 2, 0),
   Deployment("afxdp", TRUE, FALSE, TRUE, 2, 0)}
  \cup {[Deployment("linux", TRUE, TRUE, TRUE, 2, 1) EXCEPT !.max_time = Start]}

MCDeployments == Retries \cup Competing \cup Unfragmented \cup Logins

MCRateLimit == [window |-> 2, max_per_window |-> 3, max_tracked_ips |-> 2, cleanup_interval |-> 2]
MCReplayLimit == [max_entries |-> 2, ttl |-> 2]
MCLockoutPolicy == [tuple_max_attempts |-> 2, tuple_lockout_secs |-> 3, ip_max_attempts |-> 3,
                    ip_window_secs |-> 2, ip_ban_secs |-> 2, username_min_attempts |-> 3,
                    username_spread_min_ips |-> 2, username_window_secs |-> 3,
                    username_lock_secs |-> 1, max_entries |-> 2]
MCAccountPolicy == [MAX_FAILED_ATTEMPTS |-> 3, LOCKOUT_BASE_SECS |-> 1, LOCKOUT_MAX_SECS |-> 2]
MCServerReassembly == [max_entries |-> 1, max_total_bytes |-> 2, max_entry_bytes |-> 2,
                       max_fragments_per_entry |-> 2, max_payload |-> 1, ttl |-> 1]
MCClientReassembly == [MCServerReassembly EXCEPT !.max_entries = 4, !.max_total_bytes = 8]
=============================================================================
