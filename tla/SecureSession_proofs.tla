------------------------ MODULE SecureSession_proofs ------------------------
(***************************************************************************)
(* For any number of threads, packets and rekeys, any window and any       *)
(* number of key identifiers: no nonce seals two plaintexts, no plaintext  *)
(* is handed up twice, and the key identifier tells the keys apart.        *)
(***************************************************************************)
EXTENDS SecureSession, TLAPS

(* What is on the wire was sealed under a key its sender still holds or has
   left behind; under the current key its counter is below send_counter.   *)
WireInv ==
  \A p \in wire :
    /\ p.id <= sealed
    /\ p.key <= key[p.from]
    /\ p.key = key[p.from] => p.counter < send_counter[p.from]

IdUnique == \A p, q \in wire : p.id = q.id => p = q

(* The server holds the last key minted.  The client holds the same key and
   shows the same identifier, or an earlier key and the identifier before. *)
KeyInv ==
  /\ key["server"] = minted
  /\ \A e \in Ends : key_id[e] < KEY_IDS
  /\ \/ key["client"] = key["server"] /\ key_id["client"] = key_id["server"]
     \/ key["client"] < key["server"] /\ key_id["server"] = nextKeyId(key_id["client"])

(* A response carries a key newer than the one that sealed it, and the one
   the client can open carries the key the server is using.                *)
ResponseInv ==
  \A p \in wire : p.type = "RekeyResponse" =>
    /\ p.key < p.grant
    /\ p.grant <= key["server"]
    /\ p.key = key["client"] => p.grant = key["server"]

(* The read guard: the key does not change while a thread holds a packet it
   has opened.                                                             *)
HeldInv ==
  \A w \in Workers : \A p \in held[w] :
    p \in wire /\ Opens(EndOf(w), p) /\ pc[w] = "opened"

(* A delivered packet is recorded in its receiver's window, or its receiver
   has left its key behind.                                                *)
DeliveredInv ==
  /\ \A i \in Ids : i > sealed => delivered[i] = 0
  /\ \A p \in wire : delivered[p.id] > 0 =>
       \/ p.key < key[Peer(p.from)]
       \/ p.key = key[Peer(p.from)] /\ p.counter \in seen[Peer(p.from)]

IInv == /\ TypeOK /\ WireInv /\ IdUnique /\ NonceUnique /\ KeyInv
        /\ ResponseInv /\ HeldInv /\ DeliveredInv /\ DeliveredAtMostOnce

-----------------------------------------------------------------------------
LEMMA EndsFacts ==
  /\ "client" \in Ends /\ "server" \in Ends
  /\ Peer("client") = "server" /\ Peer("server") = "client"
  /\ \A e \in Ends : Peer(e) \in Ends
  /\ \A w \in Workers : EndOf(w) \in Ends
BY DEF Ends, Peer, Workers, EndOf

(* The exclusive guard really excludes every worker of that end. *)
LEMMA ExclusiveIsIdle ==
  ASSUME NEW e \in Ends, Exclusive(e), NEW w \in Workers, EndOf(w) = e
  PROVE  pc[w] = "idle"
BY DEF Exclusive, Workers, EndOf

LEMMA PacketFields ==
  ASSUME NEW p \in Packet
  PROVE  /\ p.from \in Ends /\ p.key_id \in Nat /\ p.counter \in Nat
         /\ p.key \in Nat /\ p.id \in Ids /\ p.req \in Nat /\ p.grant \in Nat
         /\ p.type \in {"Data", "Rekey", "RekeyResponse"}
BY DEF Packet

LEMMA IdsFacts == Ids \subseteq Nat /\ \A i \in Ids : 1 <= i /\ i <= MaxSealed
BY BoundsAssumption DEF Ids

LEMMA NextKeyIdDiffers ==
  ASSUME NEW k \in Nat, k < KEY_IDS
  PROVE  nextKeyId(k) \in Nat /\ nextKeyId(k) < KEY_IDS /\ nextKeyId(k) # k
<1>1. KEY_IDS \in Nat /\ KEY_IDS >= 2
  BY KeyIdsAssumption
<1>2. CASE k + 1 < KEY_IDS
  <2>1. (k + 1) % KEY_IDS = k + 1
    BY <1>1, <1>2
  <2> QED BY <2>1, <1>1, <1>2 DEF nextKeyId
<1>3. CASE k + 1 = KEY_IDS
  <2>1. (k + 1) % KEY_IDS = 0
    BY <1>1, <1>3
  <2> QED BY <2>1, <1>1, <1>3 DEF nextKeyId
<1> QED BY <1>1, <1>2, <1>3

LEMMA InitIInv == Init => IInv
<1> SUFFICES ASSUME Init PROVE IInv
  OBVIOUS
<1>1. TypeOK
  BY BoundsAssumption, KeyIdsAssumption DEF Init, TypeOK, KeyIds
<1>2. KeyInv
  BY KeyIdsAssumption DEF Init, KeyInv, Ends
<1>3. DeliveredInv /\ DeliveredAtMostOnce
  BY DEF Init, DeliveredInv, DeliveredAtMostOnce
<1>4. WireInv /\ IdUnique /\ NonceUnique /\ ResponseInv /\ HeldInv
  BY DEF Init, WireInv, IdUnique, NonceUnique, ResponseInv, HeldInv
<1> QED BY <1>1, <1>2, <1>3, <1>4 DEF IInv

(* Sealing one more packet of end e with the counter next_send_counter
   returned, the key staying the same: the part of the invariant about the
   wire survives.                                                          *)
LEMMA SealKeepsWire ==
  ASSUME IInv, NEW e \in Ends, sealed < MaxSealed,
         NEW n, n = Seal(e, n.type, send_counter[e], n.req, n.grant), n \in Packet,
         n.type # "RekeyResponse",
         wire' = wire \cup {n}, sealed' = sealed + 1,
         send_counter' = [send_counter EXCEPT ![e] = send_counter[e] + 1],
         UNCHANGED <<key, key_id, seen, delivered>>
  PROVE  /\ WireInv' /\ IdUnique' /\ NonceUnique' /\ ResponseInv' /\ DeliveredInv'
         /\ DeliveredAtMostOnce'
<1> USE DEF IInv
<1>1. sealed \in Nat /\ wire \subseteq Packet /\ key \in [Ends -> Nat]
      /\ send_counter \in [Ends -> Nat] /\ delivered \in [Ids -> Nat]
  BY BoundsAssumption DEF TypeOK
<1>2. n.from = e /\ n.key = key[e] /\ n.counter = send_counter[e] /\ n.id = sealed + 1
  BY DEF Seal
<1>3. \A p \in wire : p.id # n.id
  BY <1>1, <1>2, PacketFields, IdsFacts DEF WireInv
<1>4. \A p \in wire : p.from = e /\ p.key = key[e] => p.counter # n.counter
  BY <1>1, <1>2, PacketFields DEF WireInv
<1>5. WireInv'
  <2> SUFFICES ASSUME NEW p \in wire'
               PROVE  /\ p.id <= sealed'
                      /\ p.key <= key'[p.from]
                      /\ p.key = key'[p.from] => p.counter < send_counter'[p.from]
    BY DEF WireInv
  <2>1. CASE p = n
    BY <2>1, <1>1, <1>2
  <2>2. CASE p \in wire
    <3>1. p.id \in Nat /\ p.key \in Nat /\ p.counter \in Nat /\ p.from \in Ends
      BY <2>2, <1>1, PacketFields, IdsFacts
    <3>2. send_counter[p.from] <= send_counter'[p.from]
      BY <3>1, <1>1
    <3>3. send_counter[p.from] \in Nat /\ send_counter'[p.from] \in Nat
      BY <3>1, <1>1
    <3> QED BY <2>2, <3>1, <3>2, <3>3, <1>1 DEF WireInv
  <2> QED BY <2>1, <2>2
<1>6. IdUnique'
  BY <1>3 DEF IdUnique
<1>7. NonceUnique'
  BY <1>2, <1>4 DEF NonceUnique
<1>8. ResponseInv'
  BY DEF ResponseInv
<1>9. delivered[n.id] = 0
  BY <1>1, <1>2, PacketFields DEF DeliveredInv
<1>10. DeliveredInv'
  <2>1. \A i \in Ids : i > sealed' => delivered'[i] = 0
    BY <1>1, IdsFacts DEF DeliveredInv
  <2>2. \A p \in wire' : delivered'[p.id] > 0 =>
       \/ p.key < key'[Peer(p.from)]
       \/ p.key = key'[Peer(p.from)] /\ p.counter \in seen'[Peer(p.from)]
    BY <1>9 DEF DeliveredInv
  <2> QED BY <2>1, <2>2 DEF DeliveredInv
<1>11. DeliveredAtMostOnce'
  BY DEF DeliveredAtMostOnce
<1> QED BY <1>5, <1>6, <1>7, <1>8, <1>10, <1>11

(* Handing up packet p, opened by end e and fresh for its window, when the
   window records it and no key changes.                                   *)
LEMMA DeliverKeepsHistory ==
  ASSUME IInv, NEW e \in Ends, NEW p \in wire, Opens(e, p), Fresh(seen[e], p.counter),
         Deliver(p), seen' = [seen EXCEPT ![e] = @ \cup {p.counter}],
         UNCHANGED <<key, wire, sealed>>
  PROVE  DeliveredInv' /\ DeliveredAtMostOnce'
<1> USE DEF IInv
<1>1. wire \subseteq Packet /\ key \in [Ends -> Nat] /\ sealed \in Nat
      /\ delivered \in [Ids -> Nat] /\ seen \in [Ends -> SUBSET Nat]
  BY BoundsAssumption DEF TypeOK
<1>2. p.from = Peer(e) /\ Peer(p.from) = e /\ p.key = key[e] /\ p.counter \notin seen[e]
  BY DEF Opens, Fresh, Peer, Ends
<1>3. p.id \in Ids /\ p.key \in Nat /\ p.id <= sealed
  BY <1>1, PacketFields DEF WireInv
<1>4. delivered[p.id] = 0
  BY <1>1, <1>2, <1>3 DEF DeliveredInv
<1>5. delivered' = [delivered EXCEPT ![p.id] = @ + 1]
  BY DEF Deliver
<1>6. DeliveredAtMostOnce'
  BY <1>1, <1>3, <1>4, <1>5 DEF DeliveredAtMostOnce
<1>7. \A i \in Ids : i > sealed' => delivered'[i] = 0
  BY <1>1, <1>3, <1>5, IdsFacts DEF DeliveredInv
<1>8. ASSUME NEW q \in wire', delivered'[q.id] > 0
      PROVE  \/ q.key < key'[Peer(q.from)]
             \/ q.key = key'[Peer(q.from)] /\ q.counter \in seen'[Peer(q.from)]
  <2>1. q \in wire /\ q.id \in Ids /\ Peer(q.from) \in Ends
    BY <1>1, <1>8, PacketFields, EndsFacts
  <2>2. CASE q.id = p.id
    <3>1. q = p
      BY <2>1, <2>2 DEF IdUnique
    <3> QED BY <3>1, <1>1, <1>2
  <2>3. CASE q.id # p.id
    <3>1. delivered[q.id] > 0
      BY <2>1, <2>3, <1>1, <1>5, <1>8
    <3>2. seen[Peer(q.from)] \subseteq seen'[Peer(q.from)]
      BY <2>1, <1>1
    <3> QED BY <2>1, <3>1, <3>2 DEF DeliveredInv
  <2> QED BY <2>2, <2>3
<1> QED BY <1>6, <1>7, <1>8 DEF DeliveredInv

(* The facts that no step of a thread and no refused packet can disturb. *)
LEMMA UnchangedSession ==
  ASSUME IInv, UNCHANGED <<key, key_id, send_counter, seen, wire, sealed, delivered, minted>>
  PROVE  /\ WireInv' /\ IdUnique' /\ NonceUnique' /\ KeyInv' /\ ResponseInv'
         /\ DeliveredInv' /\ DeliveredAtMostOnce'
BY DEF IInv, WireInv, IdUnique, NonceUnique, KeyInv, ResponseInv, DeliveredInv,
       DeliveredAtMostOnce, nextKeyId

-----------------------------------------------------------------------------
LEMMA LoadCounterIInv ==
  ASSUME IInv, NEW w \in Workers, LoadCounter(w) PROVE IInv'
<1> USE DEF IInv
<1>1. UNCHANGED <<key, key_id, send_counter, seen, wire, sealed, delivered, minted>>
  BY DEF LoadCounter, session, rekey
<1>2. TypeOK'
  BY EndsFacts DEF LoadCounter, TypeOK, session, rekey
<1>3. HeldInv'
  BY DEF LoadCounter, HeldInv, Opens, session, TypeOK
<1> QED BY <1>1, <1>2, <1>3, UnchangedSession

LEMMA RetryCounterIInv ==
  ASSUME IInv, NEW w \in Workers, RetryCounter(w) PROVE IInv'
<1> USE DEF IInv
<1>1. UNCHANGED <<key, key_id, send_counter, seen, wire, sealed, delivered, minted>>
  BY DEF RetryCounter, session, rekey
<1>2. TypeOK'
  BY EndsFacts DEF RetryCounter, TypeOK, session, rekey
<1>3. HeldInv'
  BY DEF RetryCounter, HeldInv, Opens, session, TypeOK
<1> QED BY <1>1, <1>2, <1>3, UnchangedSession

LEMMA OpenPacketIInv ==
  ASSUME IInv, NEW w \in Workers, NEW p \in wire, OpenPacket(w, p) PROVE IInv'
<1> USE DEF IInv
<1>1. UNCHANGED <<key, key_id, send_counter, seen, wire, sealed, delivered, minted>>
  BY DEF OpenPacket, session, rekey
<1>2. TypeOK'
  BY EndsFacts DEF OpenPacket, TypeOK, session, rekey
<1>3. HeldInv'
  BY DEF OpenPacket, HeldInv, Opens, session, TypeOK
<1> QED BY <1>1, <1>2, <1>3, UnchangedSession

(* A sealed packet is a packet. *)
LEMMA SealIsPacket ==
  ASSUME TypeOK, sealed < MaxSealed, NEW e \in Ends,
         NEW type \in {"Data", "Rekey", "RekeyResponse"},
         NEW c \in Nat, NEW r \in Nat, NEW g \in Nat
  PROVE  Seal(e, type, c, r, g) \in Packet
<1>1. sealed + 1 \in Ids
  BY BoundsAssumption DEF TypeOK, Ids
<1>2. key_id[e] \in Nat /\ key[e] \in Nat
  BY DEF TypeOK, KeyIds
<1> QED BY <1>1, <1>2 DEF Seal, Packet

LEMMA EncryptPacketIInv ==
  ASSUME IInv, NEW w \in Workers, EncryptPacket(w) PROVE IInv'
<1> USE DEF IInv
<1> DEFINE e == EndOf(w)
<1>1. e \in Ends /\ send_counter[e] \in Nat /\ loaded[w] = send_counter[e] /\ sealed < MaxSealed
  BY EndsFacts DEF EncryptPacket, TypeOK
<1>2. send_counter' = [send_counter EXCEPT ![e] = send_counter[e] + 1]
  BY DEF EncryptPacket
<1>3. UNCHANGED <<key, key_id, seen, held, handler, reqs, minted, delivered>>
  BY DEF EncryptPacket, rekey
<1>4. pc' = [pc EXCEPT ![w] = "idle"] /\ loaded' = [loaded EXCEPT ![w] = 0]
  BY DEF EncryptPacket
<1>5. KeyInv'
  BY <1>3 DEF KeyInv, nextKeyId
<1>6. pc[w] = "loaded" /\ wire \subseteq wire'
  BY DEF EncryptPacket
<1>7. HeldInv'
  BY <1>3, <1>4, <1>6 DEF HeldInv, Opens, TypeOK
<1>8. CASE UNCHANGED <<wire, sealed>>
  <2>1. TypeOK'
    BY <1>1, <1>2, <1>3, <1>4, <1>8 DEF TypeOK
  <2>2. WireInv'
    <3> SUFFICES ASSUME NEW p \in wire PROVE p.key = key[p.from] => p.counter < send_counter'[p.from]
      BY <1>3, <1>8 DEF WireInv
    <3>1. p.from \in Ends /\ p.counter \in Nat
      BY PacketFields DEF TypeOK
    <3>2. send_counter[p.from] \in Nat /\ send_counter'[p.from] \in Nat
          /\ send_counter[p.from] <= send_counter'[p.from]
      BY <3>1, <1>1, <1>2 DEF TypeOK
    <3> QED BY <3>1, <3>2 DEF WireInv
  <2>3. IdUnique' /\ NonceUnique' /\ ResponseInv' /\ DeliveredInv' /\ DeliveredAtMostOnce'
    BY <1>3, <1>8 DEF IdUnique, NonceUnique, ResponseInv, DeliveredInv, DeliveredAtMostOnce
  <2> QED BY <2>1, <2>2, <2>3, <1>5, <1>7
<1>9. CASE /\ wire' = wire \cup {Seal(e, "Data", loaded[w], 0, 0)}
           /\ sealed' = sealed + 1
  <2> DEFINE m == Seal(e, "Data", send_counter[e], 0, 0)
  <2>1. PICK n : n = m
    OBVIOUS
  <2>2. n \in Packet
    BY <2>1, <1>1, SealIsPacket
  <2>3. n.type = "Data" /\ n.req = 0 /\ n.grant = 0
    BY <2>1 DEF Seal
  <2>4. wire' = wire \cup {n}
    BY <2>1, <1>1, <1>9
  <2>5. n = Seal(e, n.type, send_counter[e], n.req, n.grant)
    BY <2>1, <2>3
  <2> HIDE DEF e
  <2>6. /\ WireInv' /\ IdUnique' /\ NonceUnique' /\ ResponseInv' /\ DeliveredInv'
        /\ DeliveredAtMostOnce'
    BY <2>2, <2>3, <2>4, <2>5, <1>1, <1>2, <1>3, <1>9, SealKeepsWire
  <2>7. TypeOK'
    BY <2>2, <2>4, <1>1, <1>2, <1>3, <1>4, <1>9, BoundsAssumption DEF TypeOK
  <2> QED BY <2>6, <2>7, <1>5, <1>7
<1> QED BY <1>8, <1>9 DEF EncryptPacket

LEMMA UpdateRecvCounterIInv ==
  ASSUME IInv, NEW w \in Workers, NEW p \in held[w], UpdateRecvCounter(w, p) PROVE IInv'
<1> USE DEF IInv
<1> DEFINE e == EndOf(w)
<1>1. e \in Ends /\ p \in wire /\ Opens(e, p) /\ p \in Packet
  BY EndsFacts DEF HeldInv, TypeOK
<1>2. UNCHANGED <<key, key_id, send_counter, loaded, handler, reqs, minted, sealed, wire>>
  BY DEF UpdateRecvCounter, rekey
<1>3. pc' = [pc EXCEPT ![w] = "idle"] /\ held' = [held EXCEPT ![w] = {}]
  BY DEF UpdateRecvCounter
<1>4. HeldInv'
  BY <1>2, <1>3 DEF HeldInv, Opens, TypeOK
<1>5. CASE /\ Fresh(seen[e], p.counter)
           /\ seen' = [seen EXCEPT ![e] = @ \cup {p.counter}]
           /\ Deliver(p)
  <2>1. TypeOK'
    <3>1. p.counter \in Nat /\ p.id \in Ids
      BY <1>1, PacketFields
    <3> QED BY <3>1, <1>1, <1>2, <1>3, <1>5 DEF TypeOK, Deliver
  <2>2. DeliveredInv' /\ DeliveredAtMostOnce'
    BY <1>1, <1>2, <1>5, DeliverKeepsHistory
  <2>3. WireInv' /\ IdUnique' /\ NonceUnique' /\ KeyInv' /\ ResponseInv'
    BY <1>2 DEF WireInv, IdUnique, NonceUnique, KeyInv, ResponseInv, nextKeyId
  <2> QED BY <2>1, <2>2, <2>3, <1>4
<1>6. CASE UNCHANGED <<seen, delivered>>
  <2>1. TypeOK'
    BY <1>2, <1>3, <1>6 DEF TypeOK
  <2> QED BY <2>1, <1>2, <1>4, <1>6, UnchangedSession
<1> QED BY <1>5, <1>6 DEF UpdateRecvCounter

LEMMA InitiateRekeyIInv ==
  ASSUME IInv, InitiateRekey PROVE IInv'
<1> USE DEF IInv
<1>1. "client" \in Ends /\ send_counter["client"] \in Nat /\ sealed < MaxSealed
  BY EndsFacts DEF InitiateRekey, TypeOK
<1>2. send_counter' = [send_counter EXCEPT !["client"] = send_counter["client"] + 1]
  BY DEF InitiateRekey
<1>3. UNCHANGED <<key, key_id, seen, pc, loaded, held, minted, delivered>>
  BY DEF InitiateRekey, threads
<1>4. KeyInv'
  BY <1>3 DEF KeyInv, nextKeyId
<1>5. HeldInv'
  BY <1>3 DEF InitiateRekey, HeldInv, Opens
<1>6. reqs \in Nat /\ reqs + 1 \in Nat /\ reqs' = reqs + 1
  BY DEF InitiateRekey, TypeOK
<1>7. CASE UNCHANGED <<wire, sealed, handler>>
  <2>1. TypeOK'
    BY <1>1, <1>2, <1>3, <1>6, <1>7 DEF TypeOK
  <2>2. WireInv'
    <3> SUFFICES ASSUME NEW p \in wire PROVE p.key = key[p.from] => p.counter < send_counter'[p.from]
      BY <1>3, <1>7 DEF WireInv
    <3>1. p.from \in Ends /\ p.counter \in Nat
      BY PacketFields DEF TypeOK
    <3>2. send_counter[p.from] \in Nat /\ send_counter'[p.from] \in Nat
          /\ send_counter[p.from] <= send_counter'[p.from]
      BY <3>1, <1>1, <1>2 DEF TypeOK
    <3> QED BY <3>1, <3>2 DEF WireInv
  <2>3. IdUnique' /\ NonceUnique' /\ ResponseInv' /\ DeliveredInv' /\ DeliveredAtMostOnce'
    BY <1>3, <1>7 DEF IdUnique, NonceUnique, ResponseInv, DeliveredInv, DeliveredAtMostOnce
  <2> QED BY <2>1, <2>2, <2>3, <1>4, <1>5
<1>8. CASE /\ wire' = wire \cup
                     {Seal("client", "Rekey", send_counter["client"], reqs + 1, 0)}
           /\ sealed' = sealed + 1
           /\ handler' = reqs + 1
  <2>1. PICK n : n = Seal("client", "Rekey", send_counter["client"], reqs + 1, 0)
    OBVIOUS
  <2>2. n \in Packet
    BY <2>1, <1>1, <1>6, SealIsPacket
  <2>3. n.type = "Rekey" /\ n.req = reqs + 1 /\ n.grant = 0
    BY <2>1 DEF Seal
  <2>4. wire' = wire \cup {n}
    BY <2>1, <1>8
  <2>5. n = Seal("client", n.type, send_counter["client"], n.req, n.grant)
    BY <2>1, <2>3
  <2>6. /\ WireInv' /\ IdUnique' /\ NonceUnique' /\ ResponseInv' /\ DeliveredInv'
        /\ DeliveredAtMostOnce'
    BY <2>2, <2>3, <2>4, <2>5, <1>1, <1>2, <1>3, <1>8, SealKeepsWire
  <2>7. TypeOK'
    BY <2>2, <2>4, <1>1, <1>2, <1>3, <1>6, <1>8, BoundsAssumption DEF TypeOK
  <2> QED BY <2>6, <2>7, <1>4, <1>5
<1> QED BY <1>7, <1>8 DEF InitiateRekey

LEMMA RejectRekeyResponseIInv ==
  ASSUME IInv, NEW p \in wire, RejectRekeyResponse(p) PROVE IInv'
<1> USE DEF IInv
<1>1. UNCHANGED <<key, key_id, send_counter, pc, loaded, held, reqs, minted, sealed, wire>>
  BY DEF RejectRekeyResponse, threads
<1>2. HeldInv'
  BY <1>1 DEF HeldInv, Opens
<1>3. handler' = 0 /\ "client" \in Ends /\ p \in Packet
  BY EndsFacts DEF RejectRekeyResponse, TypeOK
<1>4. CASE UNCHANGED <<seen, delivered>>
  <2>1. TypeOK'
    BY <1>1, <1>3, <1>4 DEF TypeOK
  <2> QED BY <2>1, <1>1, <1>2, <1>4, UnchangedSession
<1>5. CASE /\ Opens("client", p)
           /\ Fresh(seen["client"], p.counter)
           /\ seen' = [seen EXCEPT !["client"] = @ \cup {p.counter}]
           /\ Deliver(p)
  <2>1. TypeOK'
    <3>1. p.counter \in Nat /\ p.id \in Ids
      BY <1>3, PacketFields
    <3> QED BY <3>1, <1>1, <1>3, <1>5 DEF TypeOK, Deliver
  <2>2. DeliveredInv' /\ DeliveredAtMostOnce'
    BY <1>1, <1>3, <1>5, DeliverKeepsHistory
  <2>3. WireInv' /\ IdUnique' /\ NonceUnique' /\ KeyInv' /\ ResponseInv'
    BY <1>1 DEF WireInv, IdUnique, NonceUnique, KeyInv, ResponseInv, nextKeyId
  <2> QED BY <2>1, <2>2, <2>3, <1>2
<1> QED BY <1>4, <1>5 DEF RejectRekeyResponse

-----------------------------------------------------------------------------
(* A packet that opens and is fresh has not been delivered before. *)
LEMMA FreshNotDelivered ==
  ASSUME IInv, NEW e \in Ends, NEW p \in wire, Opens(e, p), Fresh(seen[e], p.counter)
  PROVE  delivered[p.id] = 0 /\ p.id \in Ids /\ p.id <= sealed
<1>1. p \in Packet /\ key[e] \in Nat /\ delivered \in [Ids -> Nat]
  BY DEF IInv, TypeOK
<1>2. Peer(p.from) = e /\ p.key = key[e] /\ p.counter \notin seen[e]
  BY DEF Opens, Fresh, Peer, Ends
<1>3. p.id \in Ids
  BY <1>1, PacketFields
<1> QED BY <1>1, <1>2, <1>3 DEF IInv, DeliveredInv, WireInv

LEMMA HandleRekeyIInv ==
  ASSUME IInv, NEW p \in wire, handle_rekey(p) PROVE IInv'
<1> USE DEF IInv
<1>1. Opens("server", p) /\ Fresh(seen["server"], p.counter) /\ Deliver(p) /\ sealed < MaxSealed
      /\ Exclusive("server")
  BY DEF handle_rekey
<1>2. UNCHANGED <<pc, loaded, held, handler, reqs>>
  BY DEF handle_rekey, threads
<1>3. "client" \in Ends /\ "server" \in Ends /\ p \in Packet /\ p.req \in Nat /\ p.counter \in Nat
      /\ p.id \in Ids /\ p.key \in Nat
  BY EndsFacts, PacketFields DEF TypeOK
<1>4. key["client"] \in Nat /\ key["server"] \in Nat /\ minted \in Nat /\ sealed \in Nat
      /\ key \in [Ends -> Nat] /\ key_id \in [Ends -> KeyIds] /\ send_counter \in [Ends -> Nat]
      /\ seen \in [Ends -> SUBSET Nat] /\ delivered \in [Ids -> Nat] /\ wire \subseteq Packet
  BY <1>3, BoundsAssumption DEF TypeOK
<1>5. delivered[p.id] = 0 /\ p.id <= sealed
  BY <1>1, <1>3, FreshNotDelivered
<1>6. delivered' = [delivered EXCEPT ![p.id] = 1]
  BY <1>1, <1>4, <1>5 DEF Deliver
<1>7. CASE /\ seen' = [seen EXCEPT !["server"] = @ \cup {p.counter}]
           /\ UNCHANGED <<key, key_id, send_counter, minted, wire, sealed>>
  <2>1. TypeOK'
    BY <1>2, <1>3, <1>4, <1>6, <1>7 DEF TypeOK
  <2>2. DeliveredInv' /\ DeliveredAtMostOnce'
    BY <1>1, <1>3, <1>7, DeliverKeepsHistory
  <2>3. WireInv' /\ IdUnique' /\ NonceUnique' /\ KeyInv' /\ ResponseInv' /\ HeldInv'
    BY <1>2, <1>7 DEF WireInv, IdUnique, NonceUnique, KeyInv, ResponseInv, HeldInv, Opens, nextKeyId
  <2> QED BY <2>1, <2>2, <2>3
<1>8. CASE /\ minted' = minted + 1
           /\ wire' = wire \cup
                     {Seal("server", "RekeyResponse", send_counter["server"],
                           p.req, minted + 1)}
           /\ sealed' = sealed + 1
           /\ update_keys("server", minted + 1)
  <2> DEFINE K == key["client"]
             n == Seal("server", "RekeyResponse", send_counter["server"], p.req, minted + 1)
  (* Only a client that holds the server's key can make the server switch. *)
  <2>1. K = key["server"] /\ K = minted /\ key_id["client"] = key_id["server"]
    BY <1>1, <1>3, <1>4 DEF Opens, Peer, WireInv, KeyInv
  <2>2. /\ n.from = "server" /\ n.type = "RekeyResponse" /\ n.key = K
        /\ n.counter = send_counter["server"] /\ n.id = sealed + 1 /\ n.grant = K + 1
    BY <2>1 DEF Seal
  <2>3. n \in Packet
    BY <1>1, <1>3, <1>4, SealIsPacket
  <2>4. wire' = wire \cup {n}
    BY <1>8
  <2>5. /\ key' = [key EXCEPT !["server"] = K + 1]
        /\ key_id' = [key_id EXCEPT !["server"] = nextKeyId(key_id["server"])]
        /\ send_counter' = [send_counter EXCEPT !["server"] = 0]
        /\ seen' = [seen EXCEPT !["server"] = {}]
    BY <1>8, <2>1 DEF update_keys
  <2>6. key'["client"] = K /\ key'["server"] = K + 1 /\ seen'["client"] = seen["client"]
        /\ send_counter'["client"] = send_counter["client"]
    BY <1>3, <1>4, <2>5, EndsFacts DEF Ends
  <2>7. key_id["server"] \in Nat /\ key_id["server"] < KEY_IDS
    BY <1>3, <1>4 DEF KeyInv, KeyIds
  <2>8. nextKeyId(key_id["server"]) < KEY_IDS /\ nextKeyId(key_id["server"]) \in KeyIds
    BY <2>7, KeyIdsAssumption, NextKeyIdDiffers DEF KeyIds
  <2>9. \A q \in wire : /\ q.from \in Ends /\ q.key \in Nat /\ q.counter \in Nat /\ q.id \in Ids
                        /\ q.id \in Nat /\ q.id <= sealed /\ q.key <= K
    BY <1>3, <1>4, <2>1, PacketFields, IdsFacts DEF WireInv, Ends
  <2> HIDE DEF K, n
  <2>10. K \in Nat
    BY <1>4 DEF K
  <2>11. TypeOK'
    BY <1>1, <1>2, <1>3, <1>4, <1>6, <1>8, <2>1, <2>3, <2>4, <2>5, <2>8, <2>10, BoundsAssumption DEF TypeOK
  <2>12. WireInv'
    <3> SUFFICES ASSUME NEW q \in wire'
                 PROVE  /\ q.id <= sealed'
                        /\ q.key <= key'[q.from]
                        /\ q.key = key'[q.from] => q.counter < send_counter'[q.from]
      BY DEF WireInv
    <3>1. CASE q = n
      BY <3>1, <1>4, <1>8, <2>2, <2>6, <2>10
    <3>2. CASE q \in wire
      <4>1. q.id <= sealed' /\ q.key < K + 1
        BY <3>2, <1>4, <1>8, <2>9, <2>10
      <4>2. CASE q.from = "server"
        BY <4>1, <4>2, <2>6, <2>9, <2>10, <3>2
      <4>3. CASE q.from = "client"
        BY <4>1, <4>3, <2>6, <3>2 DEF WireInv, K
      <4> QED BY <3>2, <4>2, <4>3, <2>9 DEF Ends
    <3> QED BY <3>1, <3>2, <2>4
  <2>13. \A q \in wire : q.id # n.id
    BY <1>4, <2>2, <2>9
  <2>14. IdUnique'
    BY <2>4, <2>13 DEF IdUnique
  <2>15. \A q \in wire : q.from = "server" /\ q.key = K => q.counter # n.counter
    <3> SUFFICES ASSUME NEW q \in wire, q.from = "server", q.key = K
                 PROVE  q.counter # n.counter
      OBVIOUS
    <3>1. q.key = key[q.from]
      BY <2>1
    <3>2. q.counter < send_counter["server"]
      BY <3>1 DEF WireInv
    <3>3. q.counter \in Nat /\ send_counter["server"] \in Nat
      BY <1>3, <1>4, <2>9
    <3> QED BY <3>2, <3>3, <2>2
  <2>16. NonceUnique'
    BY <2>2, <2>4, <2>15 DEF NonceUnique
  <2>17. KeyInv'
    <3>1. key_id'["client"] = key_id["client"] /\ key_id'["server"] = nextKeyId(key_id["client"])
      BY <1>3, <1>4, <2>1, <2>5, EndsFacts
    <3>2. \A e \in Ends : key_id'[e] < KEY_IDS
      BY <3>1, <2>1, <2>8, <1>3 DEF KeyInv, Ends
    <3>3. key'["client"] < key'["server"] /\ key'["server"] = minted'
      BY <1>8, <2>1, <2>6, <2>10
    <3>4. nextKeyId(key_id["client"])' = nextKeyId(key_id'["client"])
      BY DEF nextKeyId
    <3> QED BY <3>1, <3>2, <3>3, <3>4 DEF KeyInv, nextKeyId
  <2>18. ResponseInv'
    <3> SUFFICES ASSUME NEW q \in wire', q.type = "RekeyResponse"
                 PROVE  /\ q.key < q.grant
                        /\ q.grant <= key'["server"]
                        /\ q.key = key'["client"] => q.grant = key'["server"]
      BY DEF ResponseInv
    <3>1. CASE q = n
      BY <3>1, <2>2, <2>6, <2>10
    <3>2. CASE q \in wire
      <4>1. q.key < q.grant /\ q.grant <= K /\ q.grant \in Nat /\ q.key \in Nat
        BY <3>2, <1>4, <2>1, PacketFields DEF ResponseInv
      <4> QED BY <4>1, <2>6, <2>10
    <3> QED BY <3>1, <3>2, <2>4
  <2>19. HeldInv'
    <3> SUFFICES ASSUME NEW w \in Workers, NEW q \in held'[w]
                 PROVE  q \in wire' /\ Opens(EndOf(w), q)' /\ pc'[w] = "opened"
      BY DEF HeldInv
    <3>1. q \in wire /\ Opens(EndOf(w), q) /\ pc[w] = "opened"
      BY <1>2 DEF HeldInv
    <3>2. EndOf(w) # "server"
      BY <3>1, <1>1, <1>3, ExclusiveIsIdle
    <3>3. EndOf(w) = "client"
      BY <3>2, EndsFacts DEF Ends
    <3>4. key'["client"] = key["client"] /\ key_id'["client"] = key_id["client"]
      BY <1>3, <1>4, <2>5, EndsFacts
    <3> QED BY <3>1, <3>3, <3>4, <1>2, <2>4 DEF Opens
  <2>20. DeliveredAtMostOnce'
    BY <1>3, <1>4, <1>6 DEF DeliveredAtMostOnce
  <2>21. DeliveredInv'
    <3>1. \A i \in Ids : i > sealed' => delivered'[i] = 0
      BY <1>3, <1>4, <1>5, <1>6, <1>8, IdsFacts DEF DeliveredInv
    <3>2. ASSUME NEW q \in wire', delivered'[q.id] > 0
          PROVE  \/ q.key < key'[Peer(q.from)]
                 \/ q.key = key'[Peer(q.from)] /\ q.counter \in seen'[Peer(q.from)]
      <4>1. CASE q = n
        <5>1. n.id \in Ids /\ n.id > sealed /\ n.id # p.id
          BY <1>4, <1>5, <1>3, <2>2, <2>3, PacketFields, IdsFacts
        <5>2. delivered'[n.id] = 0
          BY <5>1, <1>3, <1>4, <1>6 DEF DeliveredInv
        <5> QED BY <4>1, <5>2, <3>2
      <4>2. CASE q \in wire /\ q.from = "client"
        BY <4>2, <2>6, <2>9, <2>10, EndsFacts
      <4>3. CASE q \in wire /\ q.from = "server"
        <5>1. q # p
          BY <4>3, <1>1 DEF Opens, Peer
        <5>2. q.id # p.id
          BY <5>1, <4>3 DEF IdUnique
        <5>3. delivered[q.id] > 0
          BY <5>2, <4>3, <3>2, <1>3, <1>4, <1>6, <2>9
        <5> QED BY <5>3, <4>3, <2>6, EndsFacts DEF DeliveredInv, K
      <4> QED BY <4>1, <4>2, <4>3, <2>4, <2>9 DEF Ends
    <3> QED BY <3>1, <3>2 DEF DeliveredInv
  <2> QED BY <2>11, <2>12, <2>14, <2>16, <2>17, <2>18, <2>19, <2>20, <2>21
<1> QED BY <1>7, <1>8 DEF handle_rekey

LEMMA ProcessRekeyResponseIInv ==
  ASSUME IInv, NEW p \in wire, process_rekey_response(p) PROVE IInv'
<1> USE DEF IInv
<1>1. Opens("client", p) /\ Fresh(seen["client"], p.counter) /\ Deliver(p)
      /\ Exclusive("client") /\ p.type = "RekeyResponse" /\ handler' = 0
  BY DEF process_rekey_response
<1>2. UNCHANGED <<pc, loaded, held, reqs, minted, sealed, wire>>
  BY DEF process_rekey_response, threads
<1>3. "client" \in Ends /\ "server" \in Ends /\ p \in Packet /\ p.grant \in Nat
      /\ p.id \in Ids /\ p.key \in Nat
  BY EndsFacts, PacketFields DEF TypeOK
<1>4. key["client"] \in Nat /\ key["server"] \in Nat /\ sealed \in Nat
      /\ key \in [Ends -> Nat] /\ key_id \in [Ends -> KeyIds] /\ send_counter \in [Ends -> Nat]
      /\ seen \in [Ends -> SUBSET Nat] /\ delivered \in [Ids -> Nat] /\ wire \subseteq Packet
  BY <1>3, BoundsAssumption DEF TypeOK
<1>5. delivered[p.id] = 0 /\ p.id <= sealed
  BY <1>1, <1>3, FreshNotDelivered
<1>6. delivered' = [delivered EXCEPT ![p.id] = 1]
  BY <1>1, <1>4, <1>5 DEF Deliver
(* The response the client opens carries the server's current key. *)
<1>7. p.from = "server" /\ p.key = key["client"] /\ p.grant = key["server"]
      /\ key["client"] < key["server"]
  BY <1>1, <1>3 DEF Opens, Peer, ResponseInv
<1>8. key_id["server"] = nextKeyId(key_id["client"])
  BY <1>4, <1>7 DEF KeyInv
<1>9. /\ key' = [key EXCEPT !["client"] = key["server"]]
      /\ key_id' = [key_id EXCEPT !["client"] = key_id["server"]]
      /\ send_counter' = [send_counter EXCEPT !["client"] = 0]
      /\ seen' = [seen EXCEPT !["client"] = {}]
  BY <1>4, <1>7, <1>8 DEF process_rekey_response, update_keys
<1>10. /\ key'["client"] = key["server"] /\ key'["server"] = key["server"]
       /\ key_id'["client"] = key_id["server"] /\ key_id'["server"] = key_id["server"]
       /\ seen'["server"] = seen["server"]
       /\ send_counter'["server"] = send_counter["server"]
  BY <1>3, <1>4, <1>9
<1>11. \A q \in wire : /\ q.from \in Ends /\ q.key \in Nat /\ q.counter \in Nat /\ q.id \in Ids
                       /\ q.grant \in Nat
  BY <1>4, PacketFields
<1>12. TypeOK'
  <2>1. key_id["server"] \in KeyIds
    BY <1>3, <1>4
  <2> QED BY <2>1, <1>1, <1>2, <1>3, <1>4, <1>6, <1>9 DEF TypeOK
<1>13. WireInv'
  <2> SUFFICES ASSUME NEW q \in wire
               PROVE  /\ q.id <= sealed
                      /\ q.key <= key'[q.from]
                      /\ q.key = key'[q.from] => q.counter < send_counter'[q.from]
    BY <1>2 DEF WireInv
  <2>1. CASE q.from = "client"
    BY <2>1, <1>4, <1>7, <1>10, <1>11 DEF WireInv
  <2>2. CASE q.from = "server"
    BY <2>2, <1>10 DEF WireInv
  <2> QED BY <2>1, <2>2, <1>11 DEF Ends
<1>14. IdUnique' /\ NonceUnique'
  BY <1>2 DEF IdUnique, NonceUnique
<1>15. KeyInv'
  BY <1>2, <1>3, <1>10 DEF KeyInv, Ends
<1>16. ResponseInv'
  <2> SUFFICES ASSUME NEW q \in wire, q.type = "RekeyResponse"
               PROVE  /\ q.key < q.grant
                      /\ q.grant <= key'["server"]
                      /\ q.key = key'["client"] => q.grant = key'["server"]
    BY <1>2 DEF ResponseInv
  <2>1. q.key < q.grant /\ q.grant <= key["server"]
    BY DEF ResponseInv
  <2> QED BY <2>1, <1>4, <1>10, <1>11
<1>17. HeldInv'
  <2> SUFFICES ASSUME NEW w \in Workers, NEW q \in held[w]
               PROVE  q \in wire /\ Opens(EndOf(w), q)' /\ pc[w] = "opened"
    BY <1>2 DEF HeldInv
  <2>1. q \in wire /\ Opens(EndOf(w), q) /\ pc[w] = "opened"
    BY DEF HeldInv
  <2>2. EndOf(w) # "client"
    BY <2>1, <1>1, <1>3, ExclusiveIsIdle
  <2>3. EndOf(w) = "server"
    BY <2>2, EndsFacts DEF Ends
  <2> QED BY <2>1, <2>3, <1>10 DEF Opens
<1>18. DeliveredAtMostOnce'
  BY <1>3, <1>4, <1>6 DEF DeliveredAtMostOnce
<1>19. DeliveredInv'
  <2>1. \A i \in Ids : i > sealed' => delivered'[i] = 0
    BY <1>2, <1>3, <1>4, <1>5, <1>6, IdsFacts DEF DeliveredInv
  <2>2. ASSUME NEW q \in wire, delivered'[q.id] > 0
        PROVE  \/ q.key < key'[Peer(q.from)]
               \/ q.key = key'[Peer(q.from)] /\ q.counter \in seen'[Peer(q.from)]
    <3>1. CASE q = p
      BY <3>1, <1>7, <1>10, EndsFacts
    <3>2. CASE q # p
      <4>1. q.id # p.id
        BY <3>2 DEF IdUnique
      <4>2. delivered[q.id] > 0
        BY <4>1, <2>2, <1>3, <1>4, <1>6, <1>11
      <4>3. CASE q.from = "client"
        BY <4>2, <4>3, <1>10, EndsFacts DEF DeliveredInv
      <4>4. CASE q.from = "server"
        <5>1. q.key < key["client"] \/ q.key = key["client"]
          BY <4>2, <4>4, EndsFacts DEF DeliveredInv
        <5> QED BY <5>1, <4>4, <1>4, <1>7, <1>10, <1>11, EndsFacts
      <4> QED BY <4>3, <4>4, <1>11 DEF Ends
    <3> QED BY <3>1, <3>2
  <2> QED BY <2>1, <2>2, <1>2 DEF DeliveredInv
<1> QED BY <1>12, <1>13, <1>14, <1>15, <1>16, <1>17, <1>18, <1>19

-----------------------------------------------------------------------------
LEMMA NextIInv == IInv /\ [Next]_vars => IInv'
<1> SUFFICES ASSUME IInv, [Next]_vars PROVE IInv'
  OBVIOUS
<1>1. ASSUME NEW w \in Workers, LoadCounter(w) \/ RetryCounter(w) \/ EncryptPacket(w) PROVE IInv'
  BY <1>1, LoadCounterIInv, RetryCounterIInv, EncryptPacketIInv
<1>2. ASSUME NEW w \in Workers, NEW p \in wire, OpenPacket(w, p) PROVE IInv'
  BY <1>2, OpenPacketIInv
<1>3. ASSUME NEW w \in Workers, NEW p \in held[w], UpdateRecvCounter(w, p) PROVE IInv'
  BY <1>3, UpdateRecvCounterIInv
<1>4. CASE InitiateRekey
  BY <1>4, InitiateRekeyIInv
<1>5. ASSUME NEW p \in wire, handle_rekey(p) PROVE IInv'
  BY <1>5, HandleRekeyIInv
<1>6. ASSUME NEW p \in wire, RejectRekeyResponse(p) PROVE IInv'
  BY <1>6, RejectRekeyResponseIInv
<1>7. ASSUME NEW p \in wire, process_rekey_response(p) PROVE IInv'
  BY <1>7, ProcessRekeyResponseIInv
<1>8. CASE UNCHANGED vars
  <2>1. UNCHANGED <<key, key_id, send_counter, seen, wire, sealed, delivered, minted>>
    BY <1>8 DEF vars
  <2>2. TypeOK' /\ HeldInv'
    BY <1>8 DEF vars, IInv, TypeOK, HeldInv, Opens
  <2> QED BY <2>1, <2>2, UnchangedSession DEF IInv
<1>9. CASE Next
  <2>1. CASE \E w \in Workers :
               \/ LoadCounter(w) \/ RetryCounter(w) \/ EncryptPacket(w)
               \/ \E p \in wire : OpenPacket(w, p)
               \/ \E p \in held[w] : UpdateRecvCounter(w, p)
    BY <2>1, <1>1, <1>2, <1>3
  <2>2. CASE \E p \in wire :
               handle_rekey(p) \/ RejectRekeyResponse(p) \/ process_rekey_response(p)
    BY <2>2, <1>5, <1>6, <1>7
  <2> QED BY <2>1, <2>2, <1>4, <1>9 DEF Next
<1> QED BY <1>8, <1>9

LEMMA SpecIInv == Spec => []IInv
BY InitIInv, NextIInv, PTL DEF Spec

(* The sessions, their threads and the network keep their types. *)
THEOREM TypeCorrect == Spec => []TypeOK
BY SpecIInv, PTL DEF IInv

(* No counter of a key is ever used for two packets: concurrent encryption and
   rekeying never repeat an AEAD nonce.                                    *)
THEOREM NoNonceReuse == Spec => []NonceUnique
BY SpecIInv, PTL DEF IInv

(* decrypt_packet hands no plaintext up twice, on any number of threads and
   across rekeys.                                                          *)
THEOREM NoDuplicateDelivery == Spec => []DeliveredAtMostOnce
BY SpecIInv, PTL DEF IInv

(* The key identifiers of the two ends agree exactly when their keys do. *)
THEOREM KeyIdsAreFaithful == Spec => []KeyIdIdentifiesKey
<1>1. IInv => KeyIdIdentifiesKey
  <2> SUFFICES ASSUME IInv PROVE KeyIdIdentifiesKey
    OBVIOUS
  <2>1. key_id["client"] \in Nat /\ key_id["client"] < KEY_IDS
        /\ key["client"] \in Nat /\ key["server"] \in Nat
    BY EndsFacts DEF IInv, TypeOK, KeyInv, KeyIds
  <2>2. nextKeyId(key_id["client"]) # key_id["client"]
    BY <2>1, NextKeyIdDiffers
  <2> QED BY <2>1, <2>2 DEF IInv, KeyInv, KeyIdIdentifiesKey
<1> QED BY <1>1, SpecIInv, PTL
=============================================================================
