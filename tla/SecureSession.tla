--------------------------- MODULE SecureSession ---------------------------
(***************************************************************************)
(* The two ends of one established session: hpn-core's Session on the      *)
(* client and on the server, the worker threads that encrypt and decrypt   *)
(* with it, and the in-band rekey exchange, over a network that loses,     *)
(* duplicates, delays and reorders datagrams.                              *)
(*                                                                         *)
(* Threads share a Session through a read guard (the client's RwLock, the  *)
(* server's DashMap shard lock).  encrypt_packet and decrypt_packet run    *)
(* under that guard and take two steps here, at the atomics they race on:  *)
(* the load and the compare_exchange of next_send_counter, the AEAD open   *)
(* and the window update of decrypt_packet.  update_keys needs the write   *)
(* guard, so it waits until no thread of that end is between two steps.    *)
(*                                                                         *)
(* A key is a number: minting one stands for the KEM and the KDF, whose    *)
(* output is fresh.  AEAD opens a packet exactly under the key that sealed *)
(* it.  The receive window is the filter AntiReplayWindow implements.      *)
(***************************************************************************)
EXTENDS Integers

CONSTANTS Threads,    \* worker threads of each end
          MAX_SAFE,   \* Counter::MAX_SAFE, the first counter never used
          KEY_IDS,    \* number of key identifiers: 2^32 in the code
          Window,     \* REPLAY_WINDOW_SIZE
          MaxSealed,  \* bound: packets encrypted by both ends together
          MaxRekeys   \* bound: rekey requests of the client

ASSUME ThreadsAssumption == Threads # {}
ASSUME MaxSafeAssumption == MAX_SAFE \in Nat
ASSUME KeyIdsAssumption == KEY_IDS \in Nat /\ KEY_IDS >= 2
ASSUME WindowAssumption == Window \in Nat \ {0}
ASSUME BoundsAssumption == MaxSealed \in Nat /\ MaxRekeys \in Nat

Ends == {"client", "server"}
Peer(e) == IF e = "client" THEN "server" ELSE "client"
Workers == Ends \X Threads
EndOf(w) == w[1]

Ids == 1 .. MaxSealed
KeyIds == 0 .. KEY_IDS - 1

(* What travels: the authenticated header fields, the key that sealed it, the
   plaintext's identity, and for the rekey messages the request (client_random)
   and the key the response carries.                                       *)
Packet == [from: Ends, type: {"Data", "Rekey", "RekeyResponse"},
           key_id: Nat, counter: Nat, key: Nat, id: Ids, req: Nat, grant: Nat]

VARIABLES
  key,           \* [Ends -> Nat]: the key material in use
  key_id,        \* [Ends -> Nat]: Session::key_id
  send_counter,  \* [Ends -> Nat]: Session::send_counter
  seen,          \* [Ends -> SUBSET Nat]: counters the receive window has accepted
  pc,            \* [Workers -> {"idle", "loaded", "opened"}]
  loaded,        \* [Workers -> Nat]: counter read by next_send_counter
  held,          \* [Workers -> SUBSET Packet]: the packet decrypted whose counter is not yet recorded
  handler,       \* client: request awaiting its response, 0 if none (rekey_handler)
  reqs,          \* client: rekey requests created so far
  minted,        \* keys minted by the server so far
  sealed,        \* plaintexts encrypted so far by both ends
  wire,          \* every packet ever sent; any of them may still arrive, any number of times
  delivered      \* history: [Ids -> Nat], how often each plaintext was handed up

vars == <<key, key_id, send_counter, seen, pc, loaded, held, handler, reqs,
          minted, sealed, wire, delivered>>

session == <<key, key_id, send_counter, seen>>
threads == <<pc, loaded, held>>
rekey   == <<handler, reqs, minted>>

Fresh(accepted, c) == c \notin accepted /\ \A s \in accepted : s - c < Window

(* No thread of end e holds the read guard. *)
Exclusive(e) == \A t \in Threads : pc[<<e, t>>] = "idle"

(* decrypt_packet up to the window: session, key identifier, AEAD. *)
Opens(e, p) ==
  /\ p.from = Peer(e)
  /\ p.key_id = key_id[e]
  /\ p.key = key[e]

Seal(e, type, c, r, g) ==
  [from |-> e, type |-> type, key_id |-> key_id[e], counter |-> c,
   key |-> key[e], id |-> sealed + 1, req |-> r, grant |-> g]

Deliver(p) == delivered' = [delivered EXCEPT ![p.id] = @ + 1]

(* KeyId::next had the addition not wrapped around. *)
NextKeyIdNoWrap(k) == k + 1

nextKeyId(k) == (k + 1) % KEY_IDS

-----------------------------------------------------------------------------
Init ==
  /\ key = [e \in Ends |-> 0]
  /\ key_id = [e \in Ends |-> 0]
  /\ send_counter = [e \in Ends |-> 0]
  /\ seen = [e \in Ends |-> {}]
  /\ pc = [w \in Workers |-> "idle"]
  /\ loaded = [w \in Workers |-> 0]
  /\ held = [w \in Workers |-> {}]
  /\ handler = 0
  /\ reqs = 0
  /\ minted = 0
  /\ sealed = 0
  /\ wire = {}
  /\ delivered = [i \in Ids |-> 0]

(* next_send_counter reads the counter; at MAX_SAFE it returns
   CounterExhausted instead and the packet is not sent.                    *)
LoadCounter(w) ==
  /\ pc[w] = "idle"
  /\ send_counter[EndOf(w)] < MAX_SAFE
  /\ pc' = [pc EXCEPT ![w] = "loaded"]
  /\ loaded' = [loaded EXCEPT ![w] = send_counter[EndOf(w)]]
  /\ UNCHANGED <<session, held, rekey, sealed, wire, delivered>>

(* The compare_exchange fails: another thread took the counter; retry. *)
RetryCounter(w) ==
  /\ pc[w] = "loaded"
  /\ send_counter[EndOf(w)] # loaded[w]
  /\ IF send_counter[EndOf(w)] < MAX_SAFE
     THEN /\ loaded' = [loaded EXCEPT ![w] = send_counter[EndOf(w)]]
          /\ UNCHANGED pc
     ELSE /\ pc' = [pc EXCEPT ![w] = "idle"]
          /\ loaded' = [loaded EXCEPT ![w] = 0]
  /\ UNCHANGED <<session, held, rekey, sealed, wire, delivered>>

(* EncryptPacket had next_send_counter stored the counter it loaded plus one
   without comparing.                                                      *)
EncryptWithoutCompare(w) ==
  LET e == EndOf(w) IN
  /\ pc[w] = "loaded"
  /\ sealed < MaxSealed
  /\ send_counter' = [send_counter EXCEPT ![e] = loaded[w] + 1]
  /\ pc' = [pc EXCEPT ![w] = "idle"]
  /\ loaded' = [loaded EXCEPT ![w] = 0]
  /\ wire' = wire \cup {Seal(e, "Data", loaded[w], 0, 0)}
  /\ sealed' = sealed + 1
  /\ UNCHANGED <<key, key_id, seen, held, rekey, delivered>>

(* The compare_exchange succeeds and encrypt_packet seals the packet; with an
   output buffer that is too small the counter is spent and nothing is sent. *)
EncryptPacket(w) ==
  LET e == EndOf(w) IN
  /\ pc[w] = "loaded"
  /\ send_counter[e] = loaded[w]
  /\ sealed < MaxSealed
  /\ send_counter' = [send_counter EXCEPT ![e] = loaded[w] + 1]
  /\ pc' = [pc EXCEPT ![w] = "idle"]
  /\ loaded' = [loaded EXCEPT ![w] = 0]
  /\ \/ /\ wire' = wire \cup {Seal(e, "Data", loaded[w], 0, 0)}
        /\ sealed' = sealed + 1
     \/ UNCHANGED <<wire, sealed>>
  /\ UNCHANGED <<key, key_id, seen, held, rekey, delivered>>

(* decrypt_packet of a data packet: header checks and AEAD. *)
OpenPacket(w, p) ==
  /\ pc[w] = "idle"
  /\ p.type = "Data"
  /\ Opens(EndOf(w), p)
  /\ pc' = [pc EXCEPT ![w] = "opened"]
  /\ held' = [held EXCEPT ![w] = {p}]
  /\ UNCHANGED <<session, loaded, rekey, sealed, wire, delivered>>

(* UpdateRecvCounter had it relied on an earlier check of the window. *)
UpdateWithoutCheck(w, p) ==
  LET e == EndOf(w) IN
  /\ pc[w] = "opened"
  /\ pc' = [pc EXCEPT ![w] = "idle"]
  /\ held' = [held EXCEPT ![w] = {}]
  /\ seen' = [seen EXCEPT ![e] = @ \cup {p.counter}]
  /\ Deliver(p)
  /\ UNCHANGED <<key, key_id, send_counter, loaded, rekey, sealed, wire>>

(* decrypt_packet of a data packet: update_recv_counter, then hand the
   plaintext up, or ReplayDetected.                                        *)
UpdateRecvCounter(w, p) ==
  LET e == EndOf(w) IN
  /\ pc[w] = "opened"
  /\ pc' = [pc EXCEPT ![w] = "idle"]
  /\ held' = [held EXCEPT ![w] = {}]
  /\ \/ /\ Fresh(seen[e], p.counter)
        /\ seen' = [seen EXCEPT ![e] = @ \cup {p.counter}]
        /\ Deliver(p)
     \/ /\ ~ Fresh(seen[e], p.counter)
        /\ UNCHANGED <<seen, delivered>>
  /\ UNCHANGED <<key, key_id, send_counter, loaded, rekey, sealed, wire>>

-----------------------------------------------------------------------------
(* Client, initiate_rekey: refuses while one is in progress; creates the
   request, seals it, stores the handler, then sends.  A failing send clears
   the rekey state again; the counter stays spent.                         *)
InitiateRekey ==
  /\ handler = 0
  /\ reqs < MaxRekeys
  /\ sealed < MaxSealed
  /\ send_counter["client"] < MAX_SAFE
  /\ reqs' = reqs + 1
  /\ send_counter' = [send_counter EXCEPT !["client"] = @ + 1]
  /\ \/ /\ wire' = wire \cup
                     {Seal("client", "Rekey", send_counter["client"], reqs + 1, 0)}
        /\ sealed' = sealed + 1
        /\ handler' = reqs + 1
     \/ UNCHANGED <<wire, sealed, handler>>
  /\ UNCHANGED <<key, key_id, seen, threads, minted, delivered>>

(* update_keys without recording the new key identifier. *)
UpdateKeysKeepsId(e, k) ==
  /\ key' = [key EXCEPT ![e] = k]
  /\ send_counter' = [send_counter EXCEPT ![e] = 0]
  /\ seen' = [seen EXCEPT ![e] = {}]
  /\ UNCHANGED key_id

(* update_keys, under the write guard: the new key, the next identifier, the
   counter and the window start afresh.                                    *)
update_keys(e, k) ==
  /\ key' = [key EXCEPT ![e] = k]
  /\ key_id' = [key_id EXCEPT ![e] = nextKeyId(@)]
  /\ send_counter' = [send_counter EXCEPT ![e] = 0]
  /\ seen' = [seen EXCEPT ![e] = {}]

(* handle_rekey had it sealed the response after switching to the new key. *)
HandleRekeySwitchFirst(p) ==
  /\ p.type = "Rekey"
  /\ Exclusive("server")
  /\ Opens("server", p)
  /\ Fresh(seen["server"], p.counter)
  /\ sealed < MaxSealed
  /\ Deliver(p)
  /\ minted' = minted + 1
  /\ wire' = wire \cup
               {[Seal("server", "RekeyResponse", 0, p.req, minted + 1)
                   EXCEPT !.key = minted + 1, !.key_id = nextKeyId(@)]}
  /\ sealed' = sealed + 1
  /\ update_keys("server", minted + 1)
  /\ UNCHANGED <<threads, handler, reqs>>

(* Server, handle_rekey: under the write guard, decrypt, mint the new key,
   seal the response under the OLD key, switch to the new one.  A request
   from another address or of another security level is refused, and one the
   server cannot answer fails, after the window has recorded it.  The response
   may be lost on the way: try_send of a full queue only logs.             *)
handle_rekey(p) ==
  /\ p.type = "Rekey"
  /\ Exclusive("server")
  /\ Opens("server", p)
  /\ Fresh(seen["server"], p.counter)
  /\ sealed < MaxSealed
  /\ Deliver(p)
  /\ \/ /\ send_counter["server"] < MAX_SAFE
        /\ minted' = minted + 1
        /\ wire' = wire \cup
                     {Seal("server", "RekeyResponse", send_counter["server"],
                           p.req, minted + 1)}
        /\ sealed' = sealed + 1
        /\ update_keys("server", minted + 1)
     \/ /\ seen' = [seen EXCEPT !["server"] = @ \cup {p.counter}]
        /\ UNCHANGED <<key, key_id, send_counter, minted, wire, sealed>>
  /\ UNCHANGED <<threads, handler, reqs>>

(* Client, receive loop on a RekeyResponse it cannot open or has seen, or with
   no handler waiting, or whose transcript is not the waiting request's: the
   error branch clears the rekey state.  (Nothing else clears it and goes on:
   the rekey timeout ends the receive loop, see ReceiveLoop.)              *)
RejectRekeyResponse(p) ==
  /\ p.type = "RekeyResponse"
  /\ \/ /\ ~ (Opens("client", p) /\ Fresh(seen["client"], p.counter))
        /\ UNCHANGED <<seen, delivered>>
     \/ /\ Opens("client", p)
        /\ Fresh(seen["client"], p.counter)
        /\ p.req # handler
        /\ seen' = [seen EXCEPT !["client"] = @ \cup {p.counter}]
        /\ Deliver(p)
  /\ handler' = 0
  /\ UNCHANGED <<key, key_id, send_counter, threads, reqs, minted, sealed, wire>>

(* process_rekey_response had it not compared the response with the request. *)
AcceptAnyResponse(p) ==
  /\ p.type = "RekeyResponse"
  /\ Exclusive("client")
  /\ Opens("client", p)
  /\ Fresh(seen["client"], p.counter)
  /\ update_keys("client", p.grant)
  /\ handler' = 0
  /\ Deliver(p)
  /\ UNCHANGED <<threads, reqs, minted, sealed, wire>>

(* Client, process_rekey_response: the handler derives the key the server
   minted for its request; switch and clear the rekey state.               *)
process_rekey_response(p) ==
  /\ p.type = "RekeyResponse"
  /\ Exclusive("client")
  /\ Opens("client", p)
  /\ Fresh(seen["client"], p.counter)
  /\ p.req = handler
  /\ update_keys("client", p.grant)
  /\ handler' = 0
  /\ Deliver(p)
  /\ UNCHANGED <<threads, reqs, minted, sealed, wire>>

Next ==
  \/ \E w \in Workers :
       \/ LoadCounter(w) \/ RetryCounter(w) \/ EncryptPacket(w)
       \/ \E p \in wire : OpenPacket(w, p)
       \/ \E p \in held[w] : UpdateRecvCounter(w, p)
  \/ InitiateRekey
  \/ \E p \in wire :
       handle_rekey(p) \/ RejectRekeyResponse(p) \/ process_rekey_response(p)

Spec == Init /\ [][Next]_vars

-----------------------------------------------------------------------------
(* Types of the two sessions, their threads and the network. *)
TypeOK ==
  /\ key \in [Ends -> Nat]
  /\ key_id \in [Ends -> KeyIds]
  /\ send_counter \in [Ends -> Nat]
  /\ seen \in [Ends -> SUBSET Nat]
  /\ pc \in [Workers -> {"idle", "loaded", "opened"}]
  /\ loaded \in [Workers -> Nat]
  /\ held \in [Workers -> SUBSET Packet]
  /\ handler \in Nat /\ reqs \in Nat /\ minted \in Nat
  /\ sealed \in 0 .. MaxSealed
  /\ wire \subseteq Packet
  /\ delivered \in [Ids -> Nat]

(* next_send_counter hands every counter of a key to one packet only, whatever
   the threads and the rekeys do: no AEAD nonce seals two plaintexts.      *)
NonceUnique ==
  \A p, q \in wire :
    p.from = q.from /\ p.key = q.key /\ p.counter = q.counter => p.id = q.id

(* No plaintext is handed up twice, though two threads may hold the same
   datagram after a successful AEAD open and the window starts afresh at
   every rekey.                                                            *)
DeliveredAtMostOnce == \A i \in Ids : delivered[i] <= 1

(* The key identifier in the header is enough to tell the keys apart: the two
   ends show the same identifier exactly when they hold the same key, even
   after the identifiers have wrapped around.                              *)
KeyIdIdentifiesKey ==
  key_id["client"] = key_id["server"] <=> key["client"] = key["server"]

(* While the client waits for the response to the request the server has
   answered, that response still opens and is still fresh: no packet of the
   server's other threads can push it out of the client's window, because it
   is the last one sealed under the old key.                               *)
AnswerStaysReadable ==
  \A p \in wire :
    p.type = "RekeyResponse" /\ p.req = handler
      => Opens("client", p) /\ Fresh(seen["client"], p.counter)

(* The server has switched and no response that could take the client along
   is left: the handler that waited for it was cleared.                    *)
Stranded ==
  /\ key["client"] # key["server"]
  /\ \A p \in wire : p.type = "RekeyResponse" => p.req # handler

(* A lost rekey cannot be repaired in band: once the client is stranded it
   stays so, and the server accepts nothing from it any more.  Keepalives go
   unanswered, which is what makes the client reconnect.                   *)
StrandedIsForever ==
  [][Stranded => /\ Stranded'
                 /\ seen'["server"] = seen["server"]]_vars
=============================================================================
