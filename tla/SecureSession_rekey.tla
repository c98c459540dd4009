------------------------ MODULE SecureSession_rekey ------------------------
(***************************************************************************)
(* The rekey exchange, for any number of threads, packets and rekeys, any  *)
(* window and any number of key identifiers: the answer the client waits   *)
(* for stays readable, and a client that has missed it is stranded for     *)
(* good.                                                                   *)
(***************************************************************************)
EXTENDS SecureSession_proofs

(* Requests are numbered from 1 in the order the client creates them, and a
   response bears the number of the request it answers.                    *)
ReqInv ==
  /\ handler <= reqs
  /\ \A p \in wire : p.type \in {"Rekey", "RekeyResponse"} => p.req > 0 /\ p.req <= reqs
  /\ \A p \in wire : /\ p.type = "Rekey" => p.from = "client"
                     /\ p.type = "RekeyResponse" => p.from = "server"

(* handle_rekey switches to the new key in the step that seals the response,
   which is therefore the last packet of the server under the old one.     *)
LastInv ==
  \A p, q \in wire :
    /\ p.type = "RekeyResponse"
    /\ q.from = "server" /\ q.key = p.key
    => q.counter <= p.counter

(* The client has accepted no counter the server has yet to use. *)
SeenInv ==
  key["client"] = key["server"] =>
    \A c \in seen["client"] : c < send_counter["server"]

(* The workers open data packets only; rekey messages go to the loops. *)
HeldIsData == \A w \in Workers : \A p \in held[w] : p.type = "Data"

RekeyInv == ReqInv /\ LastInv /\ SeenInv /\ AnswerStaysReadable

-----------------------------------------------------------------------------
(* The types of what the rekey exchange is about. *)
LEMMA RekeyTypes ==
  ASSUME IInv
  PROVE  /\ key["client"] \in Nat /\ key["server"] \in Nat
         /\ send_counter["client"] \in Nat /\ send_counter["server"] \in Nat
         /\ seen["client"] \subseteq Nat
         /\ handler \in Nat /\ reqs \in Nat
         /\ \A p \in wire : p \in Packet
BY EndsFacts DEF IInv, TypeOK

(* A response was sealed under a key the server has left behind. *)
LEMMA ResponseIsOld ==
  ASSUME IInv, NEW p \in wire, p.type = "RekeyResponse"
  PROVE  p.key < key["server"]
<1>1. p.key \in Nat /\ p.grant \in Nat
  BY RekeyTypes, PacketFields
<1>2. p.key < p.grant /\ p.grant <= key["server"]
  BY DEF IInv, ResponseInv
<1> QED
  BY <1>1, <1>2, RekeyTypes

(* The client never holds a newer key than the server. *)
LEMMA ClientIsBehind ==
  ASSUME IInv
  PROVE  key["client"] <= key["server"]
BY RekeyTypes DEF IInv, KeyInv

(* A packet of the client that the server opens shows that they share a key. *)
LEMMA OpenedIsShared ==
  ASSUME IInv, NEW p \in wire, Opens("server", p)
  PROVE  key["client"] = key["server"]
<1>1. p.from = "client" /\ p.key = key["server"]
  BY EndsFacts DEF Opens
<1>2. p.key <= key["client"]
  BY <1>1 DEF IInv, WireInv
<1> QED
  BY <1>1, <1>2, ClientIsBehind, RekeyTypes

(* A step that changes neither the wire nor the sessions, but for counters that
   are spent and requests that are created.                                *)
LEMMA CountersGrow ==
  ASSUME IInv, RekeyInv,
         UNCHANGED <<wire, key, key_id, seen, handler>>,
         send_counter'["server"] \in Nat, send_counter["server"] <= send_counter'["server"],
         reqs' \in Nat, reqs <= reqs'
  PROVE  RekeyInv'
<1>1. ReqInv'
  <2>1. \A p \in wire : p.req \in Nat
    BY RekeyTypes, PacketFields
  <2> QED
    BY <2>1, RekeyTypes DEF RekeyInv, ReqInv
<1>2. SeenInv'
  BY RekeyTypes DEF RekeyInv, SeenInv
<1>3. LastInv' /\ AnswerStaysReadable'
  BY DEF RekeyInv, LastInv, AnswerStaysReadable, Opens, Fresh
<1> QED
  BY <1>1, <1>2, <1>3 DEF RekeyInv

(* A step that clears the handler. *)
LEMMA HandlerCleared ==
  ASSUME IInv, RekeyInv, handler' = 0, UNCHANGED <<reqs, wire>>, SeenInv'
  PROVE  RekeyInv'
<1>1. \A p \in wire : p.type \in {"Rekey", "RekeyResponse"} => p.req # 0
  BY RekeyTypes, PacketFields DEF RekeyInv, ReqInv
<1>2. ReqInv'
  BY RekeyTypes DEF RekeyInv, ReqInv
<1>3. AnswerStaysReadable'
  BY <1>1 DEF AnswerStaysReadable
<1>4. LastInv'
  BY DEF RekeyInv, LastInv
<1> QED
  BY <1>2, <1>3, <1>4 DEF RekeyInv

(* An end seals one more packet that is not a response; when it is a request
   the client waits for its answer from now on.                            *)
LEMMA SealKeepsRekey ==
  ASSUME IInv, RekeyInv, NEW e \in Ends, NEW n \in Packet,
         n.from = e, n.key = key[e], n.type # "RekeyResponse",
         n.type = "Rekey" => e = "client" /\ n.req > 0 /\ n.req <= reqs',
         wire' = wire \cup {n},
         send_counter' = [send_counter EXCEPT ![e] = send_counter[e] + 1],
         UNCHANGED <<key, key_id, seen>>,
         reqs' \in Nat, reqs <= reqs', handler' <= reqs',
         handler' = handler \/ handler' > reqs
  PROVE  RekeyInv'
<1>1. ASSUME NEW p \in wire PROVE p.req \in Nat /\ p.key \in Nat
  BY RekeyTypes, PacketFields
<1>2. \A p \in wire : p.type \in {"Rekey", "RekeyResponse"} /\ p.req = handler' => handler' = handler
  BY <1>1, RekeyTypes DEF RekeyInv, ReqInv
<1>3. ReqInv'
  <2> SUFFICES ASSUME NEW p \in wire'
               PROVE  /\ p.type \in {"Rekey", "RekeyResponse"} => p.req > 0 /\ p.req <= reqs'
                      /\ p.type = "Rekey" => p.from = "client"
                      /\ p.type = "RekeyResponse" => p.from = "server"
    BY DEF ReqInv
  <2>1. CASE p = n
    BY <2>1
  <2>2. CASE p \in wire
    BY <2>2, <1>1, RekeyTypes DEF RekeyInv, ReqInv
  <2> QED
    BY <2>1, <2>2
<1>4. LastInv'
  <2> SUFFICES ASSUME NEW p \in wire', NEW q \in wire', p.type = "RekeyResponse",
                      q.from = "server", q.key = p.key
               PROVE  q.counter <= p.counter
    BY DEF LastInv
  <2>1. p \in wire
    OBVIOUS
  <2>2. q # n
    BY <2>1, ResponseIsOld, RekeyTypes, <1>1
  <2> QED
    BY <2>1, <2>2 DEF RekeyInv, LastInv
<1>5. SeenInv'
  <2>1. send_counter'["server"] \in Nat /\ send_counter["server"] <= send_counter'["server"]
    BY EndsFacts DEF IInv, TypeOK
  <2> QED
    BY <2>1, RekeyTypes DEF RekeyInv, SeenInv
<1>6. AnswerStaysReadable'
  <2> SUFFICES ASSUME NEW p \in wire', p.type = "RekeyResponse", p.req = handler'
               PROVE  Opens("client", p)' /\ Fresh(seen["client"], p.counter)'
    BY DEF AnswerStaysReadable
  <2>1. p \in wire /\ handler' = handler
    BY <1>2
  <2>2. Opens("client", p) /\ Fresh(seen["client"], p.counter)
    BY <2>1 DEF RekeyInv, AnswerStaysReadable
  <2> QED
    BY <2>2 DEF Opens, Fresh
<1> QED
  BY <1>3, <1>4, <1>5, <1>6 DEF RekeyInv

-----------------------------------------------------------------------------
(* Encryption: a packet is sealed, or only its counter is spent. *)
LEMMA EncryptPacketRekey ==
  ASSUME IInv, RekeyInv, NEW w \in Workers, EncryptPacket(w)
  PROVE  RekeyInv'
<1> DEFINE e == EndOf(w)
           n == Seal(e, "Data", loaded[w], 0, 0)
<1>1. e \in Ends /\ send_counter[e] \in Nat /\ send_counter[e] = loaded[w] /\ sealed < MaxSealed
  BY EndsFacts DEF IInv, TypeOK, EncryptPacket
<1>2. /\ send_counter' = [send_counter EXCEPT ![e] = send_counter[e] + 1]
      /\ UNCHANGED <<key, key_id, seen, handler, reqs>>
  BY <1>1 DEF EncryptPacket, rekey
<1>3. CASE wire' = wire \cup {n}
  <2>1. n \in Packet /\ n.from = e /\ n.key = key[e] /\ n.type = "Data"
    BY <1>1, SealIsPacket DEF Seal, IInv
  <2>2. handler <= reqs
    BY DEF RekeyInv, ReqInv
  <2>3. handler' = handler /\ reqs' = reqs /\ reqs \in Nat /\ reqs <= reqs
    BY <1>2, RekeyTypes
  <2> HIDE DEF n, e
  <2> QED
    BY <1>1, <1>2, <1>3, <2>1, <2>2, <2>3, SealKeepsRekey
<1>4. CASE UNCHANGED wire
  <2>1. send_counter'["server"] \in Nat /\ send_counter["server"] <= send_counter'["server"]
    BY <1>1, <1>2, EndsFacts DEF IInv, TypeOK
  <2>2. reqs' \in Nat /\ reqs <= reqs'
    BY <1>2, RekeyTypes
  <2> QED
    BY <1>2, <1>4, <2>1, <2>2, CountersGrow
<1> QED
  BY <1>3, <1>4 DEF EncryptPacket

(* A data packet is accepted: at the client it is not the answer, and under the
   old key the answer is the last.                                         *)
LEMMA UpdateRecvCounterRekey ==
  ASSUME IInv, RekeyInv, NEW w \in Workers, NEW q \in held[w], q.type = "Data",
         UpdateRecvCounter(w, q)
  PROVE  RekeyInv'
<1> DEFINE e == EndOf(w)
<1>1. e \in Ends /\ q \in wire /\ Opens(e, q)
  BY EndsFacts DEF IInv, HeldInv
<1>2. UNCHANGED <<key, key_id, send_counter, handler, reqs, wire>>
  BY DEF UpdateRecvCounter, rekey
<1>3. q.counter \in Nat /\ q.key \in Nat
  BY <1>1, RekeyTypes, PacketFields
<1>4. CASE seen' = [seen EXCEPT ![e] = @ \cup {q.counter}] /\ e = "client"
  <2>1. seen'["client"] = seen["client"] \cup {q.counter}
    BY <1>4, EndsFacts DEF IInv, TypeOK
  <2>2. q.from = "server" /\ q.key = key["client"] /\ q.key_id = key_id["client"]
    BY <1>1, <1>4, EndsFacts DEF Opens
  <2>3. SeenInv'
    <3>1. key["client"] = key["server"] => q.counter < send_counter["server"]
      BY <1>1, <2>2 DEF IInv, WireInv
    <3> QED
      BY <1>2, <2>1, <3>1 DEF RekeyInv, SeenInv
  <2>4. AnswerStaysReadable'
    <3> SUFFICES ASSUME NEW p \in wire, p.type = "RekeyResponse", p.req = handler
                 PROVE  Opens("client", p)' /\ Fresh(seen["client"], p.counter)'
      BY <1>2 DEF AnswerStaysReadable
    <3>1. Opens("client", p) /\ Fresh(seen["client"], p.counter)
      BY DEF RekeyInv, AnswerStaysReadable
    <3>2. p.key = key["client"] /\ p.from = "server" /\ p.counter \in Nat
      BY <3>1, EndsFacts, RekeyTypes, PacketFields DEF Opens
    <3>3. q.counter <= p.counter
      BY <1>1, <2>2, <3>2 DEF RekeyInv, LastInv
    <3>4. q.counter # p.counter
      BY <1>1, <2>2, <3>2 DEF IInv, NonceUnique, IdUnique
    <3>5. q.counter - p.counter < Window
      BY <1>3, <3>2, <3>3, WindowAssumption
    <3> QED
      BY <1>2, <2>1, <3>1, <3>4, <3>5 DEF Opens, Fresh
  <2> QED
    BY <1>2, <2>3, <2>4 DEF RekeyInv, ReqInv, LastInv
<1>5. CASE seen'["client"] = seen["client"]
  BY <1>2, <1>5
     DEF RekeyInv, ReqInv, LastInv, SeenInv, AnswerStaysReadable, Opens, Fresh
<1>6. CASE seen' = [seen EXCEPT ![e] = @ \cup {q.counter}] /\ e = "server"
  BY <1>5, <1>6, EndsFacts DEF IInv, TypeOK
<1> QED
  BY <1>1, <1>4, <1>5, <1>6 DEF UpdateRecvCounter, Ends

(* The client creates a request: no answer to it can be on the wire yet. *)
LEMMA InitiateRekeyRekey ==
  ASSUME IInv, RekeyInv, InitiateRekey
  PROVE  RekeyInv'
<1> DEFINE n == Seal("client", "Rekey", send_counter["client"], reqs + 1, 0)
<1>1. /\ send_counter' = [send_counter EXCEPT !["client"] = send_counter["client"] + 1]
      /\ UNCHANGED <<key, key_id, seen>> /\ reqs' = reqs + 1
      /\ sealed < MaxSealed
  BY DEF InitiateRekey
<1>2. reqs \in Nat /\ reqs + 1 \in Nat /\ reqs + 1 > reqs /\ reqs <= reqs + 1 /\ reqs + 1 > 0
  BY RekeyTypes
<1>3. CASE wire' = wire \cup {n} /\ handler' = reqs + 1
  <2>1. n \in Packet
    BY <1>1, <1>2, RekeyTypes, EndsFacts, SealIsPacket DEF IInv
  <2>2. n.from = "client" /\ n.key = key["client"] /\ n.type = "Rekey" /\ n.req = reqs + 1
    BY DEF Seal
  <2>3. handler' <= reqs' /\ n.req > 0 /\ n.req <= reqs'
    BY <1>1, <1>2, <1>3, <2>2
  <2> HIDE DEF n
  <2> QED
    BY <1>1, <1>2, <1>3, <2>1, <2>2, <2>3, EndsFacts, SealKeepsRekey
<1>4. CASE UNCHANGED <<wire, handler>>
  <2>1. send_counter'["server"] = send_counter["server"]
    BY <1>1, EndsFacts DEF IInv, TypeOK
  <2>2. send_counter'["server"] \in Nat /\ send_counter["server"] <= send_counter'["server"]
    BY <2>1, RekeyTypes
  <2> QED
    BY <1>1, <1>2, <1>4, <2>2, CountersGrow
<1> QED
  BY <1>3, <1>4 DEF InitiateRekey

(* The server answers a request and switches, or refuses it: the client that
   sent it shares its key, so the response opens there, and it is newer than
   anything the client has accepted.                                       *)
LEMMA HandleRekeyRekey ==
  ASSUME IInv, RekeyInv, NEW r \in wire, handle_rekey(r)
  PROVE  RekeyInv'
<1> DEFINE n == Seal("server", "RekeyResponse", send_counter["server"], r.req, minted + 1)
<1>1. key["client"] = key["server"] /\ key_id["client"] = key_id["server"]
  <2>1. key["client"] = key["server"]
    BY OpenedIsShared DEF handle_rekey
  <2> QED
    BY <2>1, RekeyTypes DEF IInv, KeyInv
<1>2. UNCHANGED <<handler, reqs>> /\ r.type = "Rekey" /\ r.req \in Nat
  BY RekeyTypes, PacketFields DEF handle_rekey
<1>3. seen'["client"] = seen["client"] /\ key'["client"] = key["client"]
      /\ key_id'["client"] = key_id["client"]
  BY EndsFacts DEF handle_rekey, update_keys, IInv, TypeOK
<1>4. CASE UNCHANGED <<key, key_id, send_counter, wire>>
  <2>1. SeenInv' /\ AnswerStaysReadable'
    BY <1>2, <1>3, <1>4 DEF RekeyInv, SeenInv, AnswerStaysReadable, Opens, Fresh
  <2> QED
    BY <1>2, <1>4, <2>1 DEF RekeyInv, ReqInv, LastInv
<1>5. CASE wire' = wire \cup {n} /\ update_keys("server", minted + 1)
  <2>1. /\ n.from = "server" /\ n.key = key["server"] /\ n.key_id = key_id["server"]
        /\ n.counter = send_counter["server"] /\ n.req = r.req /\ n.type = "RekeyResponse"
    BY DEF Seal
  <2> HIDE DEF n
  <2>2. key'["server"] = minted + 1 /\ minted \in Nat /\ key["server"] = minted
    BY <1>5, EndsFacts DEF update_keys, IInv, TypeOK, KeyInv
  <2>3. ReqInv'
    BY <1>2, <1>5, <2>1 DEF RekeyInv, ReqInv
  <2>4. LastInv'
    <3> SUFFICES ASSUME NEW p \in wire', NEW q \in wire', p.type = "RekeyResponse",
                        q.from = "server", q.key = p.key
                 PROVE  q.counter <= p.counter
      BY DEF LastInv
    <3>1. CASE p = n /\ q = n
      BY <2>1, <3>1, RekeyTypes
    <3>2. CASE p = n /\ q \in wire
      <4>1. q.counter < send_counter["server"] /\ q.counter \in Nat
        BY <2>1, <3>2, RekeyTypes, PacketFields DEF IInv, WireInv
      <4> QED
        BY <2>1, <3>2, <4>1, RekeyTypes
    <3>3. CASE p \in wire /\ q = n
      <4>1. p.key < key["server"] /\ p.key \in Nat
        BY <3>3, ResponseIsOld, RekeyTypes, PacketFields
      <4> QED
        BY <2>1, <3>3, <4>1, RekeyTypes
    <3>4. CASE p \in wire /\ q \in wire
      BY <3>4 DEF RekeyInv, LastInv
    <3> QED
      BY <1>5, <3>1, <3>2, <3>3, <3>4
  <2>5. SeenInv'
    BY <1>1, <1>3, <2>2, RekeyTypes DEF SeenInv
  <2>6. AnswerStaysReadable'
    <3> SUFFICES ASSUME NEW p \in wire', p.type = "RekeyResponse", p.req = handler'
                 PROVE  Opens("client", p)' /\ Fresh(seen["client"], p.counter)'
      BY DEF AnswerStaysReadable
    <3>1. CASE p \in wire
      BY <1>2, <1>3, <3>1 DEF RekeyInv, AnswerStaysReadable, Opens, Fresh
    <3>2. CASE p = n
      <4>1. Opens("client", p)'
        BY <1>1, <1>3, <2>1, <3>2, EndsFacts DEF Opens
      <4>2. ASSUME NEW c \in seen["client"]
            PROVE  c # p.counter /\ c - p.counter < Window
        <5>1. c \in Nat /\ c < send_counter["server"]
          BY <1>1, RekeyTypes DEF RekeyInv, SeenInv
        <5> QED
          BY <2>1, <3>2, <5>1, RekeyTypes, WindowAssumption
      <4> QED
        BY <1>3, <4>1, <4>2 DEF Fresh
    <3> QED
      BY <1>5, <3>1, <3>2
  <2> QED
    BY <2>3, <2>4, <2>5, <2>6 DEF RekeyInv
<1> QED
  BY <1>4, <1>5 DEF handle_rekey

(* The client rejects a response: it has no request left to wait for. *)
LEMMA RejectRekeyResponseRekey ==
  ASSUME IInv, RekeyInv, NEW p \in wire, RejectRekeyResponse(p)
  PROVE  RekeyInv'
<1>1. handler' = 0 /\ UNCHANGED <<key, send_counter, reqs, wire>>
  BY DEF RejectRekeyResponse
<1>2. SeenInv'
  <2>1. CASE UNCHANGED seen
    BY <1>1, <2>1 DEF RekeyInv, SeenInv
  <2>2. CASE Opens("client", p) /\ seen' = [seen EXCEPT !["client"] = @ \cup {p.counter}]
    <3>1. key["client"] # key["server"]
      BY <2>2, ResponseIsOld, RekeyTypes DEF Opens, RejectRekeyResponse
    <3> QED
      BY <1>1, <3>1 DEF SeenInv
  <2> QED
    BY <2>1, <2>2 DEF RejectRekeyResponse
<1> QED
  BY <1>1, <1>2, HandlerCleared

(* The client takes the new key, with an empty window. *)
LEMMA ProcessRekeyResponseRekey ==
  ASSUME IInv, RekeyInv, NEW p \in wire, process_rekey_response(p)
  PROVE  RekeyInv'
<1>1. handler' = 0 /\ UNCHANGED <<reqs, wire>> /\ seen'["client"] = {}
  BY EndsFacts DEF process_rekey_response, update_keys, IInv, TypeOK
<1>2. SeenInv'
  BY <1>1 DEF SeenInv
<1> QED
  BY <1>1, <1>2, HandlerCleared

-----------------------------------------------------------------------------
(* Only OpenPacket gives a thread a packet to hold. *)
LEMMA HeldStep == IInv /\ HeldIsData /\ [Next]_vars => HeldIsData'
<1> SUFFICES ASSUME IInv, HeldIsData, [Next]_vars PROVE HeldIsData'
  OBVIOUS
<1>1. ASSUME NEW w \in Workers, NEW p \in wire, OpenPacket(w, p) PROVE HeldIsData'
  BY <1>1 DEF OpenPacket, HeldIsData, IInv, TypeOK
<1>2. ASSUME NEW w \in Workers, NEW p \in held[w], UpdateRecvCounter(w, p) PROVE HeldIsData'
  BY <1>2 DEF UpdateRecvCounter, HeldIsData, IInv, TypeOK
<1>3. ASSUME UNCHANGED held PROVE HeldIsData'
  BY <1>3 DEF HeldIsData
<1> QED
  BY <1>1, <1>2, <1>3
     DEF Next, LoadCounter, RetryCounter, EncryptPacket, InitiateRekey, handle_rekey,
         RejectRekeyResponse, process_rekey_response, threads, vars

(* Every step keeps what the rekey exchange relies on. *)
LEMMA RekeyStep == IInv /\ HeldIsData /\ RekeyInv /\ [Next]_vars => RekeyInv'
<1> SUFFICES ASSUME IInv, HeldIsData, RekeyInv, [Next]_vars PROVE RekeyInv'
  OBVIOUS
<1>1. ASSUME UNCHANGED <<key, key_id, send_counter, seen, handler, reqs, wire>> PROVE RekeyInv'
  <2>1. /\ send_counter'["server"] \in Nat /\ send_counter["server"] <= send_counter'["server"]
        /\ reqs' \in Nat /\ reqs <= reqs'
    BY <1>1, RekeyTypes
  <2> QED
    BY <1>1, <2>1, CountersGrow
<1>2. ASSUME NEW w \in Workers, LoadCounter(w) \/ RetryCounter(w) PROVE RekeyInv'
  BY <1>1, <1>2 DEF LoadCounter, RetryCounter, session, rekey
<1>3. ASSUME NEW w \in Workers, EncryptPacket(w) PROVE RekeyInv'
  BY <1>3, EncryptPacketRekey
<1>4. ASSUME NEW w \in Workers, NEW p \in wire, OpenPacket(w, p) PROVE RekeyInv'
  BY <1>1, <1>4 DEF OpenPacket, session, rekey
<1>5. ASSUME NEW w \in Workers, NEW p \in held[w], UpdateRecvCounter(w, p) PROVE RekeyInv'
  BY <1>5, UpdateRecvCounterRekey DEF HeldIsData
<1>6. CASE InitiateRekey
  BY <1>6, InitiateRekeyRekey
<1>7. ASSUME NEW p \in wire, handle_rekey(p) PROVE RekeyInv'
  BY <1>7, HandleRekeyRekey
<1>8. ASSUME NEW p \in wire, RejectRekeyResponse(p) PROVE RekeyInv'
  BY <1>8, RejectRekeyResponseRekey
<1>9. ASSUME NEW p \in wire, process_rekey_response(p) PROVE RekeyInv'
  BY <1>9, ProcessRekeyResponseRekey
<1>10. CASE UNCHANGED vars
  BY <1>1, <1>10 DEF vars
<1> QED
  BY <1>2, <1>3, <1>4, <1>5, <1>6, <1>7, <1>8, <1>9, <1>10 DEF Next

(* With IInv, the rekey exchange's invariant is inductive. *)
LEMMA SpecRekeyInv == Spec => [](IInv /\ HeldIsData /\ RekeyInv)
<1>1. Init => HeldIsData /\ RekeyInv
  BY DEF Init, HeldIsData, RekeyInv, ReqInv, LastInv, SeenInv, AnswerStaysReadable, Ends
<1> QED
  BY <1>1, InitIInv, NextIInv, HeldStep, RekeyStep, PTL DEF Spec

(* While the client waits for the answer to a request the server has answered,
   process_rekey_response can still open it and its counter is still fresh:
   data the server's threads sent before the switch, in whatever order it
   arrives, never pushes the response out of the client's replay window.   *)
THEOREM ResponseNeverGoesStale == Spec => []AnswerStaysReadable
BY SpecRekeyInv, PTL DEF RekeyInv

(* Once the server has switched and the client's handler is gone, no step of
   either end brings the two keys together again or makes the server accept
   another packet of the client: only a new handshake helps.               *)
THEOREM StrandedForGood == Spec => StrandedIsForever
<1>1. ASSUME IInv, HeldIsData, RekeyInv, [Next]_vars, Stranded
      PROVE  Stranded' /\ seen'["server"] = seen["server"]
  <2>1. key["client"] # key["server"] /\ \A p \in wire : p.type = "RekeyResponse" => p.req # handler
    BY <1>1 DEF Stranded
  <2>2. ASSUME NEW p \in wire, Opens("server", p) PROVE FALSE
    BY <1>1, <2>1, <2>2, OpenedIsShared
  <2>3. \A p \in wire : p.type = "RekeyResponse" => p.req \in Nat /\ p.req > 0 /\ p.req <= reqs
    BY <1>1, RekeyTypes, PacketFields DEF RekeyInv, ReqInv
  <2>4. ASSUME UNCHANGED <<key, seen, handler, wire>> PROVE Stranded' /\ seen'["server"] = seen["server"]
    BY <2>1, <2>4 DEF Stranded
  <2>5. ASSUME NEW w \in Workers, EncryptPacket(w) PROVE Stranded' /\ seen'["server"] = seen["server"]
    <3>1. \A p \in wire' : p.type = "RekeyResponse" => p \in wire
      BY <2>5 DEF EncryptPacket, Seal
    <3> QED
      BY <2>1, <2>5, <3>1 DEF Stranded, EncryptPacket, rekey
  <2>6. ASSUME NEW w \in Workers, NEW p \in held[w], UpdateRecvCounter(w, p)
        PROVE  Stranded' /\ seen'["server"] = seen["server"]
    <3>1. EndOf(w) = "client"
      BY <1>1, <2>2, EndsFacts DEF IInv, HeldInv, Ends
    <3>2. seen'["server"] = seen["server"]
      BY <1>1, <2>6, <3>1, EndsFacts DEF UpdateRecvCounter, IInv, TypeOK
    <3> QED
      BY <2>1, <2>6, <3>2 DEF Stranded, UpdateRecvCounter, rekey
  <2>7. ASSUME InitiateRekey PROVE Stranded' /\ seen'["server"] = seen["server"]
    <3>1. \A p \in wire' : p.type = "RekeyResponse" => p \in wire
      BY <2>7 DEF InitiateRekey, Seal
    <3>2. handler' = handler \/ handler' = reqs + 1
      BY <2>7 DEF InitiateRekey
    <3>3. \A p \in wire : p.type = "RekeyResponse" => p.req # reqs + 1
      BY <1>1, <2>3, RekeyTypes
    <3> QED
      BY <2>1, <2>7, <3>1, <3>2, <3>3 DEF Stranded, InitiateRekey
  <2>8. ASSUME NEW p \in wire, handle_rekey(p) PROVE FALSE
    BY <2>2, <2>8 DEF handle_rekey
  <2>9. ASSUME NEW p \in wire, RejectRekeyResponse(p)
        PROVE  Stranded' /\ seen'["server"] = seen["server"]
    <3>1. seen'["server"] = seen["server"]
      BY <1>1, <2>9, EndsFacts DEF RejectRekeyResponse, IInv, TypeOK
    <3> QED
      BY <2>1, <2>3, <2>9, <3>1 DEF Stranded, RejectRekeyResponse
  <2>10. ASSUME NEW p \in wire, process_rekey_response(p) PROVE FALSE
    BY <2>1, <2>10 DEF process_rekey_response
  <2>11. ASSUME NEW w \in Workers,
                LoadCounter(w) \/ RetryCounter(w) \/ \E p \in wire : OpenPacket(w, p)
         PROVE  Stranded' /\ seen'["server"] = seen["server"]
    BY <2>4, <2>11 DEF LoadCounter, RetryCounter, OpenPacket, session, rekey
  <2>12. CASE UNCHANGED vars
    BY <2>4, <2>12 DEF vars
  <2> QED
    BY <1>1, <2>5, <2>6, <2>7, <2>8, <2>9, <2>10, <2>11, <2>12 DEF Next
<1>2. IInv /\ HeldIsData /\ RekeyInv /\ [Next]_vars
        => [Stranded => Stranded' /\ seen'["server"] = seen["server"]]_vars
  BY <1>1
<1> QED
  BY <1>2, SpecRekeyInv, PTL DEF Spec, StrandedIsForever
=============================================================================
