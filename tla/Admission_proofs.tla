------------------------- MODULE Admission_proofs --------------------------
(***************************************************************************)
(* For any clients, deployments, limits and policies: a client and the     *)
(* server agree on the session, a replayed init makes no second session    *)
(* within the replay TTL, what an address has parsed and holds is paid for,*)
(* a session left in the tables was answered, and guesses are bounded.     *)
(*                                                                         *)
(* The invariant is stated of the server's record, because a handler is a  *)
(* chain of phases that each take a record to a record: the limiter's      *)
(* charge, the reassembly, the parse with the replay check, the login and  *)
(* the answer.  A first lemma says what a phase may change (...Effect), a  *)
(* second that it keeps ServerInv (...Keeps), whichever of the three       *)
(* handlers the phase belongs to; the handlers and the steps follow.       *)
(* What crosses the network is carried along by Good: each piece in flight *)
(* or in a buffer is of an init of its sender or of a response signed for  *)
(* a session the server made.                                              *)
(***************************************************************************)
EXTENDS Admission, FiniteSetTheorems, TLAPS

-----------------------------------------------------------------------------
(* The reassembly buffer *)

EntryFields == {"key", "inner", "total", "bytes", "chunks", "first_seen"}

(* An entry with a piece more, and one with its first piece. *)
Grown(e, f) ==
  [e EXCEPT !.chunks = [i \in DOMAIN e.chunks \cup {f.index} |->
                          IF i = f.index THEN f.payload ELSE e.chunks[i]],
            !.bytes = @ + f.bytes]
First(key, f, t) ==
  [key |-> key, inner |-> f.inner, total |-> f.total, bytes |-> f.bytes,
   chunks |-> [i \in {f.index} |-> f.payload], first_seen |-> t]

(* The four things insert may do to the entries of buffer b: drop some; let one
   grow; complete one and deliver it; open one where none has its key.     *)
Dropped(b, o) == o.message = NoMessage /\ o.buffer.entries \subseteq b.entries
Grew(b, o, e, f) == o.message = NoMessage /\ o.buffer.entries \subseteq (b.entries \ {e}) \cup {Grown(e, f)}
Completed(b, o, e, f) ==
  /\ o.buffer.entries \subseteq b.entries \ {e}
  /\ o.message = reassemble(Grown(e, f))
  /\ Cardinality(DOMAIN Grown(e, f).chunks) = 2
Opened(b, o, key, f, t) ==
  /\ o.message = NoMessage
  /\ o.buffer.entries \subseteq {x \in b.entries : x.key # key} \cup {First(key, f, t)}

(* What insert does with a piece of a message cut in two. *)
LEMMA InsertEffect ==
  ASSUME NEW b, NEW limits, NEW source, NEW f, f.total = 2, NEW t,
         NEW o \in insert(b, limits, source, f, t)
  PROVE  \/ Dropped(b, o)
         \/ \E e \in b.entries : /\ e.key = <<source, f.frag_id>> /\ e.inner = f.inner
                                 /\ Grew(b, o, e, f) \/ Completed(b, o, e, f)
         \/ Opened(b, o, <<source, f.frag_id>>, f, t)
<1> DEFINE purged == purge_expired(b, limits, t)
           key == <<source, f.frag_id>>
<1>1. purged.entries \subseteq b.entries
  BY DEF purge_expired, debit_bytes
<1>2. CASE o \in Outcomes({purged})
  BY <1>1, <1>2 DEF Outcomes, Dropped
<1>3. CASE contains(purged, key) /\ o \in insert_existing(purged, limits, key, f)
  <2> DEFINE e == EntryOf(purged, key)
             kept == [entries |-> (purged.entries \ {e}) \cup {Grown(e, f)},
                      total_bytes |-> purged.total_bytes + f.bytes]
  <2>1. e \in purged.entries /\ e.key = key
    BY <1>3 DEF contains, EntryOf
  <2>2. \/ o \in Outcomes({debit_bytes(purged, {e})}) \/ o \in Outcomes({purged})
        \/ /\ e.inner = f.inner /\ Cardinality(DOMAIN Grown(e, f).chunks) = f.total
           /\ o = [buffer |-> debit_bytes(kept, {Grown(e, f)}), message |-> reassemble(Grown(e, f))]
        \/ /\ e.inner = f.inner /\ o \in Outcomes({kept})
    BY Zenon, <1>3 DEF insert_existing, Grown
  <2> HIDE DEF purged, e
  <2>3. CASE o \in Outcomes({debit_bytes(purged, {e})}) \/ o \in Outcomes({purged})
    BY <1>1, <2>3 DEF Outcomes, debit_bytes, Dropped
  <2>4. CASE /\ e.inner = f.inner /\ Cardinality(DOMAIN Grown(e, f).chunks) = f.total
             /\ o = [buffer |-> debit_bytes(kept, {Grown(e, f)}), message |-> reassemble(Grown(e, f))]
    BY <1>1, <2>1, <2>4 DEF debit_bytes, Completed
  <2>5. CASE e.inner = f.inner /\ o \in Outcomes({kept})
    BY <1>1, <2>1, <2>5 DEF Outcomes, Grew
  <2> QED
    BY <2>2, <2>3, <2>4, <2>5
<1>4. CASE ~contains(purged, key) /\ o \in insert_new(purged, limits, key, f, t)
  <2> HIDE DEF purged, key
  <2>1. PICK s \in enforce_caps_for_new_entry(purged, limits) :
          o = [buffer |-> [entries |-> s.entries \cup {First(key, f, t)},
                           total_bytes |-> s.total_bytes + f.bytes], message |-> NoMessage]
    <3>1. f.total # 1
      OBVIOUS
    <3> QED
      BY Zenon, <1>4, <3>1 DEF insert_new, First
  <2>2. s.entries \subseteq purged.entries
    <3>1. PICK es \in SUBSET purged.entries : s = debit_bytes(purged, es)
      BY Zenon DEF enforce_caps_for_new_entry
    <3> QED
      BY <3>1 DEF debit_bytes
  <2>3. \A x \in purged.entries : x.key # key
    BY <1>4 DEF contains
  <2> QED
    BY <1>1, <2>1, <2>2, <2>3 DEF Opened, key
<1> QED
  BY <1>2, <1>3, <1>4 DEF insert

(* A piece of an init: it carries a random of its sender, unless it is the
   first of a plain one.                                                   *)
InitPiece(source, inner, k, payload) ==
  /\ inner = "EncryptedHandshakeInit" => payload.sealed.random[1] = source
  /\ inner # "EncryptedHandshakeInit" /\ k = 2 => payload.random[1] = source

(* A piece of a response: the second one is signed for a session in M. *)
ResponsePiece(k, payload, M) ==
  k = 2 => \E m \in M : /\ payload.signature.over.session = m.id
                        /\ payload.signature.over.client_random = m.random
                        /\ payload.signature.over.config = m.config
                        /\ payload.key_confirmation.keys = m.keys

Good(source, inner, k, payload, M) ==
  IF source = Server THEN ResponsePiece(k, payload, M) ELSE InitPiece(source, inner, k, payload)

(* The entries of b hold good pieces only, and so does message m of a sender. *)
OnlyGood(b, M) ==
  \A e \in b.entries :
    /\ DOMAIN e = EntryFields /\ DOMAIN e.chunks \subseteq {1, 2}
    /\ \A k \in DOMAIN e.chunks : Good(e.key[1], e.inner, k, e.chunks[k], M)
GoodMessage(source, m, M) == \A k \in {1, 2} : Good(source, m.inner, k, m.parts[k], M)
GoodFragment(source, f, M) ==
  f.total = 2 /\ f.index \in {1, 2} /\ Good(source, f.inner, f.index, f.payload, M)

(* A pair of different values is a set of two. *)
LEMMA PairCount ==
  ASSUME NEW x, NEW y, x # y
  PROVE  IsFiniteSet({x, y}) /\ Cardinality({x, y}) = 2
<1>1. IsFiniteSet({x}) /\ Cardinality({x}) = 1 /\ {x, y} = {x} \cup {y} /\ y \notin {x}
  BY FS_Singleton
<1> QED
  BY <1>1, FS_AddElement

(* An entry with two of the pieces 1 and 2 has both. *)
LEMMA BothPieces ==
  ASSUME NEW S \in SUBSET {1, 2}, Cardinality(S) = 2
  PROVE  S = {1, 2}
<1>1. 1 # 2
  OBVIOUS
<1>2. IsFiniteSet({1, 2}) /\ Cardinality({1, 2}) = 2
  BY Zenon, <1>1, PairCount
<1> QED
  BY <1>2, FS_Subset

(* insert keeps good pieces and delivers messages of good pieces. *)
LEMMA InsertOnlyGood ==
  ASSUME NEW M, NEW b, OnlyGood(b, M), NEW limits, NEW source, NEW f, NEW t,
         GoodFragment(source, f, M),
         NEW o \in insert(b, limits, source, f, t)
  PROVE  /\ OnlyGood(o.buffer, M)
         /\ o.message # NoMessage => GoodMessage(source, o.message, M)
<1>1. CASE Dropped(b, o)
  BY <1>1 DEF Dropped, OnlyGood
<1>2. CASE Opened(b, o, <<source, f.frag_id>>, f, t)
  <2> DEFINE n == First(<<source, f.frag_id>>, f, t)
  <2>1. /\ DOMAIN n = EntryFields /\ DOMAIN n.chunks \subseteq {1, 2}
        /\ \A k \in DOMAIN n.chunks : Good(n.key[1], n.inner, k, n.chunks[k], M)
    BY DEF First, EntryFields, GoodFragment
  <2> HIDE DEF n
  <2> QED
    BY <1>2, <2>1 DEF Opened, OnlyGood, n
<1>3. ASSUME NEW e \in b.entries, e.key = <<source, f.frag_id>>, e.inner = f.inner,
             Grew(b, o, e, f) \/ Completed(b, o, e, f)
      PROVE  /\ OnlyGood(o.buffer, M)
             /\ o.message # NoMessage => GoodMessage(source, o.message, M)
  <2> DEFINE n == Grown(e, f)
  <2>1. DOMAIN e = EntryFields /\ DOMAIN e.chunks \subseteq {1, 2} /\ e.key[1] = source
        /\ \A k \in DOMAIN e.chunks : Good(source, f.inner, k, e.chunks[k], M)
    BY <1>3 DEF OnlyGood
  <2>2. /\ DOMAIN n = EntryFields /\ DOMAIN n.chunks \subseteq {1, 2} /\ n.key = e.key /\ n.inner = f.inner
        /\ \A k \in DOMAIN n.chunks : Good(source, n.inner, k, n.chunks[k], M)
    BY <1>3, <2>1 DEF Grown, EntryFields, GoodFragment
  <2> HIDE DEF n
  <2>3. CASE Grew(b, o, e, f)
    BY <2>1, <2>2, <2>3 DEF Grew, OnlyGood, n
  <2>4. CASE Completed(b, o, e, f)
    <3>1. DOMAIN n.chunks = {1, 2}
      BY <2>2, <2>4, BothPieces DEF Completed, n
    <3> QED
      BY <2>2, <2>4, <3>1 DEF Completed, OnlyGood, GoodMessage, reassemble, n
  <2> QED
    BY <1>3, <2>3, <2>4
<1> QED
  BY <1>1, <1>2, <1>3, InsertEffect DEF GoodFragment

(* The entries of b an address has opened. *)
Opener(b, c) == {e \in b.entries : e.key[1] = c}

(* How the size of a set bounds that of its subsets, with one element more, and with one exchanged. *)
LEMMA Counts ==
  ASSUME NEW S, NEW T, IsFiniteSet(T)
  PROVE  /\ Cardinality(T) \in Nat
         /\ S \subseteq T => IsFiniteSet(S) /\ Cardinality(S) \in Nat /\ Cardinality(S) <= Cardinality(T)
         /\ \A n : S \subseteq T \cup {n} =>
              IsFiniteSet(S) /\ Cardinality(S) \in Nat /\ Cardinality(S) <= Cardinality(T) + 1
         /\ \A e \in T : \A n : S \subseteq (T \ {e}) \cup {n} => Cardinality(S) <= Cardinality(T)
         /\ \A e \in T : S \subseteq T \ {e} => Cardinality(S) < Cardinality(T)
<1>1. Cardinality(T) \in Nat
  BY FS_CardinalityType
<1>2. S \subseteq T => IsFiniteSet(S) /\ Cardinality(S) \in Nat /\ Cardinality(S) <= Cardinality(T)
  BY FS_Subset, FS_CardinalityType
<1>3. ASSUME NEW n, S \subseteq T \cup {n}
      PROVE  IsFiniteSet(S) /\ Cardinality(S) \in Nat /\ Cardinality(S) <= Cardinality(T) + 1
  <2>1. IsFiniteSet(T \cup {n}) /\ Cardinality(T \cup {n}) \in Nat
        /\ Cardinality(T \cup {n}) <= Cardinality(T) + 1
    BY <1>1, FS_AddElement, FS_CardinalityType
  <2>2. IsFiniteSet(S) /\ Cardinality(S) \in Nat /\ Cardinality(S) <= Cardinality(T \cup {n})
    BY <1>3, <2>1, FS_Subset, FS_CardinalityType
  <2> QED
    BY <1>1, <2>1, <2>2
<1>4. ASSUME NEW e \in T
      PROVE  IsFiniteSet(T \ {e}) /\ Cardinality(T \ {e}) = Cardinality(T) - 1
  BY FS_RemoveElement
<1>5. ASSUME NEW e \in T, NEW n, S \subseteq (T \ {e}) \cup {n}
      PROVE  Cardinality(S) <= Cardinality(T)
  <2> DEFINE U == T \ {e}
  <2>0. IsFiniteSet(U) /\ Cardinality(U) = Cardinality(T) - 1
    BY <1>4
  <2> HIDE DEF U
  <2>1. IsFiniteSet(U \cup {n}) /\ Cardinality(U \cup {n}) \in {Cardinality(U), Cardinality(U) + 1}
    BY <2>0, FS_AddElement
  <2>2. Cardinality(S) \in Nat /\ Cardinality(S) <= Cardinality(U \cup {n})
    BY <1>5, <2>1, FS_Subset, FS_CardinalityType DEF U
  <2> QED
    BY <1>1, <2>0, <2>1, <2>2
<1>6. ASSUME NEW e \in T, S \subseteq T \ {e} PROVE Cardinality(S) < Cardinality(T)
  <2>1. Cardinality(S) \in Nat /\ Cardinality(S) <= Cardinality(T \ {e})
    BY <1>4, <1>6, FS_Subset, FS_CardinalityType
  <2> QED
    BY <1>1, <1>4, <2>1
<1> QED
  BY <1>1, <1>2, <1>3, <1>5, <1>6

(* insert opens at most one entry, for the sender of the piece; it opens none
   when one with that key was there, and a message takes its entry away.   *)
LEMMA InsertCounts ==
  ASSUME NEW b, IsFiniteSet(b.entries), NEW limits, NEW source, NEW f, NEW t,
         \A e \in b.entries : DOMAIN e = EntryFields,
         f.total = 2, NEW o \in insert(b, limits, source, f, t)
  PROVE  /\ IsFiniteSet(o.buffer.entries)
         /\ \A c : c # source => Opener(o.buffer, c) \subseteq Opener(b, c)
         /\ Cardinality(Opener(o.buffer, source)) <= Cardinality(Opener(b, source)) + 1
         /\ contains(b, <<source, f.frag_id>>) =>
              Cardinality(Opener(o.buffer, source)) <= Cardinality(Opener(b, source))
         /\ o.message # NoMessage =>
              Cardinality(Opener(o.buffer, source)) < Cardinality(Opener(b, source))
<1> DEFINE key == <<source, f.frag_id>>
           T == Opener(b, source)
           S == Opener(o.buffer, source)
<1>1. IsFiniteSet(T) /\ Cardinality(T) \in Nat
  BY FS_Subset, FS_CardinalityType DEF Opener
<1>2. CASE Dropped(b, o)
  <2>1. S \subseteq T
    BY <1>2 DEF Dropped, Opener
  <2>2. Cardinality(S) \in Nat /\ Cardinality(S) <= Cardinality(T)
    BY <1>1, <2>1, Counts
  <2>3. IsFiniteSet(o.buffer.entries) /\ \A c : Opener(o.buffer, c) \subseteq Opener(b, c)
    BY <1>2, Counts DEF Dropped, Opener
  <2> QED
    BY <1>1, <1>2, <2>2, <2>3 DEF Dropped
<1>3. ASSUME NEW e \in b.entries, e.key = key, Grew(b, o, e, f) \/ Completed(b, o, e, f)
      PROVE  /\ IsFiniteSet(o.buffer.entries)
             /\ \A c : c # source => Opener(o.buffer, c) \subseteq Opener(b, c)
             /\ Cardinality(S) <= Cardinality(T)
             /\ o.message # NoMessage => Cardinality(S) < Cardinality(T)
  <2>1. Grown(e, f).key = key /\ key[1] = source /\ e \in T
    BY <1>3 DEF Grown, EntryFields, Opener
  <2>2. CASE Grew(b, o, e, f)
    <3>1. S \subseteq (T \ {e}) \cup {Grown(e, f)}
          /\ \A c : c # source => Opener(o.buffer, c) \subseteq Opener(b, c)
      BY <2>1, <2>2 DEF Grew, Opener
    <3>2. o.buffer.entries \subseteq b.entries \cup {Grown(e, f)} /\ o.message = NoMessage
      BY <2>2 DEF Grew
    <3> QED
      BY <1>1, <2>1, <3>1, <3>2, Counts
  <2>3. CASE Completed(b, o, e, f)
    <3>1. S \subseteq T \ {e} /\ \A c : Opener(o.buffer, c) \subseteq Opener(b, c)
          /\ o.buffer.entries \subseteq b.entries
      BY <2>3 DEF Completed, Opener
    <3>2. Cardinality(S) < Cardinality(T) /\ Cardinality(S) \in Nat
      BY <1>1, <2>1, <3>1, Counts
    <3> QED
      BY <1>1, <3>1, <3>2, Counts
  <2> QED
    BY <1>3, <2>2, <2>3
<1>4. CASE Opened(b, o, key, f, t)
  <2> DEFINE n == First(key, f, t)
  <2>1. n.key[1] = source
    BY DEF First
  <2> HIDE DEF n
  <2>2. S \subseteq T \cup {n} /\ o.buffer.entries \subseteq b.entries \cup {n} /\ o.message = NoMessage
        /\ \A c : c # source => Opener(o.buffer, c) \subseteq Opener(b, c)
    BY <1>4, <2>1 DEF Opened, Opener, n
  <2>3. ASSUME contains(b, key) PROVE Cardinality(S) <= Cardinality(T)
    <3>1. PICK e \in b.entries : e.key = key
      BY <2>3 DEF contains
    <3>2. e \in T /\ S \subseteq (T \ {e}) \cup {n}
      BY <1>4, <3>1 DEF Opened, Opener, n
    <3> QED
      BY <1>1, <3>2, Counts
  <2> QED
    BY <1>1, <2>2, <2>3, Counts
<1>5. Cardinality(S) \in Nat
  <2>1. IsFiniteSet(o.buffer.entries)
    BY <1>2, <1>3, <1>4, InsertEffect, Counts DEF Dropped
  <2> QED
    BY <2>1, Counts DEF Opener
<1> HIDE DEF S, T
<1>6. ASSUME NEW e \in b.entries, e.key = key, Grew(b, o, e, f) \/ Completed(b, o, e, f)
      PROVE  Cardinality(S) <= Cardinality(T) + 1
  BY <1>1, <1>3, <1>5, <1>6
<1> QED
  BY <1>2, <1>3, <1>4, <1>6, InsertEffect DEF S, T

-----------------------------------------------------------------------------
(* What the handlers leave behind, phase by phase *)

Fields == {"limiter", "replay", "lockout", "row", "reasm", "live", "bridged", "made",
           "parsed", "paid", "failures", "evicted"}

(* Server t is server s but for the fields in changed. *)
Keeps(s, t, changed) == DOMAIN t = Fields /\ \A x \in Fields \ changed : t[x] = s[x]

(* The session made for an init. *)
Session(s, init, addr, n) ==
  [id |-> NewId(s), random |-> init.random, addr |-> addr, keys |-> ServerKeys(Response(s, init)),
   config |-> NewId(s), at |-> now, sent |-> n]

(* Parsed, and perhaps remembered by the replay cache and let through. *)
ParseFacts(s, p, addr) ==
  /\ Keeps(s, p.s, {"parsed", "replay"})
  /\ p.s.parsed = [s.parsed EXCEPT ![addr] = @ + 1]
  /\ \/ ~p.ok /\ p.s.replay = s.replay
     \/ \E r : LET check == check_and_insert(s.replay, ReplayLimit, r, now)
               IN  /\ p.s.replay = check.entries
                   /\ p.ok => check.ok /\ p.init.random = r /\ r[1] = addr

(* Refused, logged in, or failed and counted. *)
LoginFacts(s, t, addr) ==
  /\ Keeps(s, t, {"row", "lockout", "failures", "evicted"})
  /\ \/ t.lockout = s.lockout /\ t.failures = s.failures /\ t.evicted = s.evicted
     \/ /\ t.lockout = record_success(s.lockout, User, addr)
        /\ t.failures = [s.failures EXCEPT ![addr] = <<>>] /\ t.evicted = s.evicted
     \/ /\ check_lockout(s.lockout, User, addr, now) = "none"
        /\ t.lockout \in record_failure(s.lockout, LockoutPolicy, User, addr, now)
        /\ t.failures = [s.failures EXCEPT ![addr] = Append(@, now)]
        /\ t.evicted = (s.evicted \/ ~(Size(s.lockout.tuples) < LockoutPolicy.max_entries))

(* No session, or one, with some of its response. *)
AnswerFacts(s, o, init, addr) ==
  /\ DOMAIN o = {"s", "sent"} /\ Keeps(s, o.s, {"made", "live"})
  /\ \/ o.s.made = s.made /\ o.s.live = s.live /\ o.sent = {}
     \/ \E id, n :
          /\ o.s.made = s.made \cup {Session(s, init, addr, n)}
          /\ o.sent \subseteq encode_handshake_response_as_packets(s, init, addr, id)
          /\ \/ o.s.live = s.live
             \/ o.s.live = s.live \cup {NewId(s)} /\ (conf.path # "portable" => n = 2)

(* The charge touches the limiter, and counts a token that was granted. *)
LEMMA ChargeEffect ==
  ASSUME NEW s, DOMAIN s = Fields, NEW addr
  PROVE  /\ Keeps(s, Charge(s, addr).s, {"limiter", "paid"})
         /\ Charge(s, addr).s.paid = [s.paid EXCEPT ![addr] = IF Charge(s, addr).ok THEN @ + 1 ELSE @]
BY DEF Charge, Keeps, Fields

(* Whichever handler parses: the init counts as parsed, and only a random of the
   sender that the replay cache accepts lets it pass. *)
LEMMA ParseEffect ==
  ASSUME NEW s, DOMAIN s = Fields, NEW addr, NEW m, NEW M, GoodMessage(addr, m, M), addr # Server, NEW p,
         \/ p = handle_handshake_init_internal_prechecked_parse(s, m, addr)
         \/ p = handle_handshake_init_afxdp_parse(s, m, addr)
         \/ p = handle_handshake_init_prechecked_parse(s, m, addr)
  PROVE  ParseFacts(s, p, addr)
<1> DEFINE seen == [s EXCEPT !.parsed[addr] = @ + 1]
           init == IF m.inner = "EncryptedHandshakeInit" THEN decrypt(m.parts) ELSE PlainInit(m.parts)
<1>1. p = Refused(seen) \/ p = Fresh(seen, init)
  BY DEF handle_handshake_init_internal_prechecked_parse, handle_handshake_init_afxdp_parse,
         handle_handshake_init_prechecked_parse
<1>2. init.random[1] = addr
  BY DEF GoodMessage, Good, InitPiece, decrypt, PlainInit
<1> HIDE DEF init
<1>3. CASE p = Refused(seen)
  BY <1>3 DEF Refused, ParseFacts, Keeps, Fields
<1>4. CASE p = Fresh(seen, init)
  <2>1. Keeps(s, p.s, {"parsed", "replay"}) /\ p.s.parsed = [s.parsed EXCEPT ![addr] = @ + 1]
    BY <1>4 DEF Fresh, Keeps, Fields
  <2>2. p.s.replay = check_and_insert(s.replay, ReplayLimit, init.random, now).entries
    BY <1>4 DEF Fresh, Fields
  <2>3. p.ok => check_and_insert(s.replay, ReplayLimit, init.random, now).ok /\ p.init = init
    BY <1>4 DEF Fresh, Fields
  <2> QED
    BY <1>2, <2>1, <2>2, <2>3 DEF ParseFacts
<1> QED
  BY <1>1, <1>3, <1>4

(* CheckUser changes the account row and the lockout table only, and counts a
   failure only for an address that check_lockout let through. *)
LEMMA LoginEffect ==
  ASSUME NEW s, DOMAIN s = Fields, NEW init, NEW addr, NEW a \in CheckUser(s, init, addr)
  PROVE  LoginFacts(s, a.s, addr)
<1>1. CASE a.s = s
  BY <1>1 DEF LoginFacts, Keeps
<1>2. CASE a \in authenticate_credentials(s, init.creds = "right", addr)
  <2> DEFINE v == verify_password(s.row, AccountPolicy, init.creds = "right", now)
             known == [s EXCEPT !.row = v.row]
             wrong == [known EXCEPT !.failures[addr] = Append(@, now),
                                    !.evicted = @ \/ ~(Size(s.lockout.tuples) < LockoutPolicy.max_entries)]
             passed == [known EXCEPT !.lockout = record_success(@, User, addr), !.failures[addr] = <<>>]
  <2>1. \/ a.s = s \/ a.s = passed
        \/ /\ check_lockout(s.lockout, User, addr, now) = "none"
           /\ \E t \in record_failure(s.lockout, LockoutPolicy, User, addr, now) :
                a.s = [wrong EXCEPT !.lockout = t]
    <3>1. \/ a = Refused(s) \/ a = Passed(passed)
          \/ /\ check_lockout(s.lockout, User, addr, now) = "none"
             /\ \E t \in record_failure(s.lockout, LockoutPolicy, User, addr, now) :
                  a = Refused([wrong EXCEPT !.lockout = t])
      BY ZenonT(30), <1>2 DEF authenticate_credentials
    <3> HIDE DEF passed, wrong
    <3> QED
      BY <3>1 DEF Refused, Passed
  <2>2. CASE a.s = passed
    BY <2>2 DEF LoginFacts, Keeps, Fields
  <2>3. ASSUME check_lockout(s.lockout, User, addr, now) = "none",
               NEW t \in record_failure(s.lockout, LockoutPolicy, User, addr, now),
               a.s = [wrong EXCEPT !.lockout = t]
        PROVE  LoginFacts(s, a.s, addr)
    <3>1. Keeps(s, a.s, {"row", "lockout", "failures", "evicted"})
      BY <2>3 DEF Keeps, Fields
    <3>2. a.s.lockout = t /\ a.s.failures = [s.failures EXCEPT ![addr] = Append(@, now)]
          /\ a.s.evicted = (s.evicted \/ ~(Size(s.lockout.tuples) < LockoutPolicy.max_entries))
      BY <2>3 DEF Fields
    <3> QED
      BY <2>3, <3>1, <3>2 DEF LoginFacts
  <2> QED
    BY Zenon, <1>1, <2>1, <2>2, <2>3
<1> QED
  BY <1>1, <1>2 DEF CheckUser, Passed, Refused

(* A response is sent as two packets. *)
LEMMA ResponseIsTwo ==
  ASSUME NEW s, NEW init, NEW addr, NEW id
  PROVE  Cardinality(encode_handshake_response_as_packets(s, init, addr, id)) = 2
<1> DEFINE m == [inner |-> "HandshakeResponse", parts |-> ResponseParts(Response(s, init))]
           d(k) == [from |-> Server, to |-> addr,
                    frag |-> [frag_id |-> id, inner |-> m.inner, index |-> k, total |-> 2,
                              payload |-> m.parts[k], bytes |-> 1]]
<1>1. encode_handshake_response_as_packets(s, init, addr, id) = {d(k) : k \in 1 .. 2}
  BY DEF encode_handshake_response_as_packets, Fragments
<1>2. d(1) # d(2) /\ 1 .. 2 = {1, 2}
  <2>1. d(1).frag.index # d(2).frag.index
    OBVIOUS
  <2> QED
    BY <2>1
<1> HIDE DEF d
<1>3. {d(k) : k \in {1, 2}} = {d(1), d(2)}
  OBVIOUS
<1> QED
  BY <1>1, <1>2, <1>3, PairCount

(* Whichever handler answers: it makes no session and sends nothing, or makes one;
   off the portable path it stays in the table only when both packets went out. *)
LEMMA AnswerEffect ==
  ASSUME NEW s, DOMAIN s = Fields, NEW init, NEW addr, NEW id, NEW n, NEW signed, NEW o,
         \/ o = handle_handshake_init_internal_prechecked_answer(s, init, addr, id, n)
         \/ o = handle_handshake_init_afxdp_answer(s, init, addr, id, n)
         \/ /\ o = handle_handshake_init_prechecked_answer(s, init, addr, id, n, signed)
            /\ conf.path = "portable"
  PROVE  AnswerFacts(s, o, init, addr)
<1> DEFINE packets == encode_handshake_response_as_packets(s, init, addr, id)
           made == create_session_dual_stack_with_level(s, init, addr, n)
<1>1. /\ Keeps(s, made, {"made", "live"}) /\ made.made = s.made \cup {Session(s, init, addr, n)}
      /\ made.live = s.live \cup {NewId(s)}
  BY Zenon DEF create_session_dual_stack_with_level, Keeps, Fields, Session, Response, process_init,
         refresh_handshake_response_auth
<1>2. Cardinality(packets) = 2 /\ Queued(packets, n) \subseteq packets
  BY ResponseIsTwo DEF Queued
<1>0. DOMAIN o = {"s", "sent"}
  BY DEF handle_handshake_init_internal_prechecked_answer, handle_handshake_init_afxdp_answer,
         handle_handshake_init_prechecked_answer
<1>3. \/ o = [s |-> s, sent |-> {}]
      \/ /\ o.s = made /\ o.sent = Queued(packets, n) /\ (conf.path = "portable" \/ n = Cardinality(packets))
      \/ o.s = [made EXCEPT !.live = s.live] /\ (o.sent = Queued(packets, n) \/ o.sent = {})
  BY DEF handle_handshake_init_internal_prechecked_answer, handle_handshake_init_afxdp_answer,
         handle_handshake_init_prechecked_answer
<1> HIDE DEF packets, made
<1>4. CASE o = [s |-> s, sent |-> {}]
  BY <1>0, <1>4 DEF AnswerFacts, Keeps
<1>5. CASE o.s = made /\ o.sent = Queued(packets, n) /\ (conf.path = "portable" \/ n = Cardinality(packets))
  BY <1>0, <1>1, <1>2, <1>5 DEF AnswerFacts, packets
<1>6. CASE o.s = [made EXCEPT !.live = s.live] /\ (o.sent = Queued(packets, n) \/ o.sent = {})
  <2>1. Keeps(s, o.s, {"made", "live"}) /\ o.s.made = made.made /\ o.s.live = s.live
    BY <1>1, <1>6 DEF Keeps, Fields
  <2> QED
    BY <1>0, <1>1, <1>2, <1>6, <2>1 DEF AnswerFacts, packets
<1> QED
  BY <1>3, <1>4, <1>5, <1>6

-----------------------------------------------------------------------------
(* The invariant of the server, as a predicate of its record *)

(* Off the portable path, what the tables hold was answered in full. *)
Answered(s) ==
  conf.path # "portable" => \A m \in s.made : m.id \in s.live \cup s.bridged => m.sent = 2

(* Ids are given out in order, a session is its own address's, and what the
   tables hold was answered.                                               *)
MadeInv(s) ==
  /\ IsFiniteSet(s.made)
  /\ \A m \in s.made : m.id \in 1 .. Cardinality(s.made) /\ m.addr = m.random[1]
  /\ s.live \cup s.bridged \subseteq 1 .. Cardinality(s.made)
  /\ Answered(s)

(* The replay cache remembers the random of every session younger than the TTL,
   at a time not before the session.                                       *)
ReplayInv(s) ==
  /\ \A r \in DOMAIN s.replay : s.replay[r] \in Int /\ s.replay[r] <= now
  /\ \A m \in s.made :
       /\ m.at \in Int /\ m.at <= now
       /\ now - m.at < ReplayLimit.ttl => m.random \in DOMAIN s.replay /\ m.at <= s.replay[m.random]
  /\ \A m, k \in s.made :
       m # k /\ m.random = k.random => m.at - k.at >= ReplayLimit.ttl \/ k.at - m.at >= ReplayLimit.ttl

(* Random r was let through at this time. *)
Admissible(s, r) ==
  /\ r \in DOMAIN s.replay /\ s.replay[r] = now
  /\ \A m \in s.made : m.random = r => now - m.at >= ReplayLimit.ttl

(* Inits parsed and entries held are paid for; a spare token pays for the next. *)
Owed(s, c) == s.parsed[c] + Cardinality(Opener(s.reasm, c))
PaidInv(s) ==
  /\ IsFiniteSet(s.reasm.entries)
  /\ DOMAIN s.parsed = Clients /\ DOMAIN s.paid = Clients
  /\ \A c \in Clients : s.parsed[c] \in Int /\ s.paid[c] \in Int /\ Owed(s, c) <= s.paid[c]
Spare(s, c) == Owed(s, c) + 1 <= s.paid[c]

(* The failures of c that its counter t stands for are its last K; those before
   are older than a lock lasts.                                            *)
CounterFields == {"attempts", "ips", "window_start", "locked_until", "last_access"}
LockedNow(t) == t.locked_until > now
Standing(t) == IF LockedNow(t) THEN LockoutPolicy.tuple_max_attempts ELSE t.attempts
CounterInv(t, F) ==
  /\ DOMAIN t = CounterFields /\ F \in Seq(Int)
  /\ t.attempts \in Nat /\ t.attempts < LockoutPolicy.tuple_max_attempts /\ t.locked_until \in Int
  /\ \A i \in 1 .. Len(F) : F[i] <= now
  /\ \A i \in 1 .. Len(F) - Standing(t) : now - F[i] >= LockoutPolicy.tuple_lockout_secs
  /\ LockedNow(t) => /\ t.attempts = 0
                     /\ \A i \in 1 .. Len(F) : F[i] <= t.locked_until - LockoutPolicy.tuple_lockout_secs
Counter(s, c) == Get(s.lockout.tuples, <<User, c>>, NewCounter)
LockInv(s) ==
  /\ DOMAIN s.failures = Clients
  /\ ~s.evicted => \A c \in Clients : CounterInv(Counter(s, c), s.failures[c])

ServerInv(s) ==
  DOMAIN s = Fields /\ MadeInv(s) /\ ReplayInv(s) /\ PaidInv(s) /\ LockInv(s) /\ OnlyGood(s.reasm, s.made)

(* The invariant of the network and of the clients *)
GoodDatagram(d, M) ==
  /\ \/ d.to = Server /\ d.from \in Clients
     \/ d.to \in Clients /\ d.from = Server /\ ~Whole(d)
  /\ IF Whole(d) THEN GoodMessage(d.from, d.message, M) ELSE GoodFragment(d.from, d.frag, M)

(* A client's handshake: an established one agrees with a session in M. *)
ClientInv(h, c, M) ==
  /\ DOMAIN h = DOMAIN Idle
  /\ h.state \in {"AwaitingResponse", "Established"} => h.random[1] = c
  /\ OnlyGood(h.reasm, M)
  /\ h.state = "Established" =>
       \E m \in M : m.id = h.session /\ m.random = h.random /\ m.keys = h.keys /\ m.config = h.config

(* The inductive invariant. *)
Inv ==
  /\ now \in Nat
  /\ conf \in Deployments
  /\ ServerInv(server)
  /\ \A d \in net : GoodDatagram(d, server.made)
  /\ DOMAIN clients = Clients /\ \A c \in Clients : ClientInv(clients[c], c, server.made)

-----------------------------------------------------------------------------
(* The phases of a handler preserve the server's invariant *)

(* What an address owes and has paid are integers. *)
LEMMA OwedCounts ==
  ASSUME NEW s, PaidInv(s), NEW c \in Clients
  PROVE  /\ Owed(s, c) \in Int /\ s.parsed[c] \in Int /\ s.paid[c] \in Int /\ Owed(s, c) <= s.paid[c]
         /\ Cardinality(Opener(s.reasm, c)) \in Nat
BY FS_Subset, FS_CardinalityType DEF PaidInv, Opener, Owed

(* A granted charge leaves a spare token for what comes next. *)
LEMMA ChargeKeeps ==
  ASSUME NEW s, ServerInv(s), NEW addr \in Clients, NEW c, c = Charge(s, addr)
  PROVE  ServerInv(c.s) /\ c.s.made = s.made /\ c.s.reasm = s.reasm /\ (c.ok => Spare(c.s, addr))
<1>1. Keeps(s, c.s, {"limiter", "paid"}) /\ c.s.paid = [s.paid EXCEPT ![addr] = IF c.ok THEN @ + 1 ELSE @]
  BY ChargeEffect DEF ServerInv
<1>2. /\ c.s.made = s.made /\ c.s.live = s.live /\ c.s.bridged = s.bridged /\ c.s.replay = s.replay
      /\ c.s.lockout = s.lockout /\ c.s.failures = s.failures /\ c.s.evicted = s.evicted
      /\ c.s.reasm = s.reasm /\ c.s.parsed = s.parsed /\ DOMAIN c.s = Fields
  BY <1>1 DEF Keeps, Fields
<1>3. PaidInv(c.s) /\ (c.ok => Spare(c.s, addr))
  <2>1. \A x \in Clients : Owed(c.s, x) = Owed(s, x)
    BY <1>2 DEF Owed
  <2>2. /\ DOMAIN c.s.paid = Clients /\ \A x \in Clients : x # addr => c.s.paid[x] = s.paid[x]
        /\ c.s.paid[addr] = IF c.ok THEN s.paid[addr] + 1 ELSE s.paid[addr]
    BY <1>1 DEF ServerInv, PaidInv
  <2>3. \A x \in Clients : Owed(s, x) \in Int /\ s.parsed[x] \in Int /\ s.paid[x] \in Int /\ Owed(s, x) <= s.paid[x]
    BY OwedCounts DEF ServerInv
  <2> QED
    BY <1>2, <2>1, <2>2, <2>3 DEF ServerInv, PaidInv, Spare
<1> QED
  BY <1>2, <1>3 DEF ServerInv, MadeInv, Answered, ReplayInv, LockInv, Counter

(* A piece either belongs to an entry that is there or spends the spare token on
   a new one; a completed message hands the token of its entry back. *)
LEMMA InsertKeeps ==
  ASSUME NEW s, ServerInv(s), NEW addr \in Clients, NEW f, GoodFragment(addr, f, s.made),
         contains(s.reasm, <<addr, f.frag_id>>) \/ Spare(s, addr),
         NEW o \in insert(s.reasm, ServerReassembly, addr, f, now),
         NEW t, t = [s EXCEPT !.reasm = o.buffer]
  PROVE  /\ ServerInv(t) /\ t.made = s.made
         /\ o.message # NoMessage => Spare(t, addr) /\ GoodMessage(addr, o.message, t.made)
<1>1. /\ t.made = s.made /\ t.live = s.live /\ t.bridged = s.bridged /\ t.replay = s.replay
      /\ t.lockout = s.lockout /\ t.failures = s.failures /\ t.evicted = s.evicted
      /\ t.reasm = o.buffer /\ t.parsed = s.parsed /\ t.paid = s.paid /\ DOMAIN t = Fields
  BY DEF ServerInv, Fields
<1>2. OnlyGood(t.reasm, t.made) /\ (o.message # NoMessage => GoodMessage(addr, o.message, t.made))
  BY <1>1, InsertOnlyGood DEF ServerInv
<1> DEFINE n == Cardinality(Opener(o.buffer, addr))
           n0 == Cardinality(Opener(s.reasm, addr))
<1>3. /\ IsFiniteSet(o.buffer.entries)
      /\ \A c : c # addr => Opener(o.buffer, c) \subseteq Opener(s.reasm, c)
      /\ n <= n0 + 1
      /\ contains(s.reasm, <<addr, f.frag_id>>) => n <= n0
      /\ o.message # NoMessage => n < n0
  BY InsertCounts DEF ServerInv, OnlyGood, PaidInv, GoodFragment
<1>4. \A c : IsFiniteSet(Opener(o.buffer, c)) /\ Cardinality(Opener(o.buffer, c)) \in Nat
             /\ IsFiniteSet(Opener(s.reasm, c)) /\ Cardinality(Opener(s.reasm, c)) \in Nat
  <2>1. \A c : Opener(o.buffer, c) \subseteq o.buffer.entries /\ Opener(s.reasm, c) \subseteq s.reasm.entries
    BY DEF Opener
  <2> QED
    BY <1>3, <2>1, FS_Subset, FS_CardinalityType DEF ServerInv, PaidInv
<1>5. \A c \in Clients : s.parsed[c] \in Int /\ s.paid[c] \in Int /\ Owed(s, c) <= s.paid[c]
  BY DEF ServerInv, PaidInv
<1>6. Owed(t, addr) <= s.paid[addr] /\ (o.message # NoMessage => Spare(t, addr))
  BY <1>1, <1>3, <1>4, <1>5 DEF Owed, Spare
<1>7. ASSUME NEW c \in Clients, c # addr PROVE Owed(t, c) <= s.paid[c]
  <2>1. Cardinality(Opener(o.buffer, c)) <= Cardinality(Opener(s.reasm, c))
    BY <1>3, <1>4, <1>7, FS_Subset
  <2> QED
    BY <1>1, <1>4, <1>5, <2>1 DEF Owed
<1>8. PaidInv(t)
  BY <1>1, <1>3, <1>5, <1>6, <1>7 DEF ServerInv, PaidInv
<1> QED
  BY <1>1, <1>2, <1>6, <1>8 DEF ServerInv, MadeInv, Answered, ReplayInv, LockInv, Counter

(* check_and_insert keeps the randoms of young sessions, and lets a random
   through only when no young session has it.                              *)
LEMMA CheckKeeps ==
  ASSUME now \in Nat, NEW s, ReplayInv(s), NEW r, NEW c, c = check_and_insert(s.replay, ReplayLimit, r, now),
         NEW t, t.replay = c.entries, t.made = s.made
  PROVE  ReplayInv(t) /\ (c.ok => Admissible(t, r))
<1> DEFINE swept == IF Size(s.replay) >= ReplayLimit.max_entries
                    THEN Retain(s.replay, LAMBDA seen : now - seen < ReplayLimit.ttl) ELSE s.replay
<1>1. /\ DOMAIN swept \subseteq DOMAIN s.replay /\ \A x \in DOMAIN swept : swept[x] = s.replay[x]
      /\ \A x \in DOMAIN s.replay : now - s.replay[x] < ReplayLimit.ttl => x \in DOMAIN swept
  BY DEF Retain, Restrict
<1>2. \/ ~c.ok /\ c.entries = swept
      \/ /\ c.ok /\ c.entries = Put(swept, r, now)
         /\ ~(r \in DOMAIN swept /\ now - swept[r] < ReplayLimit.ttl)
  BY DEF check_and_insert
<1> HIDE DEF swept
<1>3. \A m \in s.made : m.at \in Int /\ m.at <= now /\
        (now - m.at < ReplayLimit.ttl => m.random \in DOMAIN swept /\ m.at <= swept[m.random])
  BY <1>1, ClockAssumption DEF ReplayInv
<1>4. \A x \in DOMAIN swept : swept[x] \in Int /\ swept[x] <= now
  BY <1>1 DEF ReplayInv
<1>5. CASE ~c.ok /\ c.entries = swept
  BY <1>3, <1>4, <1>5 DEF ReplayInv
<1>6. CASE /\ c.ok /\ c.entries = Put(swept, r, now)
           /\ ~(r \in DOMAIN swept /\ now - swept[r] < ReplayLimit.ttl)
  <2>1. /\ DOMAIN t.replay = DOMAIN swept \cup {r} /\ t.replay[r] = now
        /\ \A x \in DOMAIN swept : x # r => t.replay[x] = swept[x]
    BY <1>6 DEF Put
  <2>2. \A m \in s.made : m.random = r => now - m.at >= ReplayLimit.ttl
    BY <1>3, <1>4, <1>6, ClockAssumption
  <2> QED
    BY <1>3, <1>4, <2>1, <2>2 DEF ReplayInv, Admissible
<1> QED
  BY <1>2, <1>5, <1>6

(* The parse spends the spare token, and lets only an admissible random pass. *)
LEMMA ParseKeeps ==
  ASSUME now \in Nat, NEW s, ServerInv(s), NEW addr \in Clients, Spare(s, addr), NEW p, ParseFacts(s, p, addr)
  PROVE  /\ ServerInv(p.s) /\ p.s.made = s.made
         /\ p.ok => Admissible(p.s, p.init.random) /\ p.init.random[1] = addr
<1>1. /\ p.s.made = s.made /\ p.s.live = s.live /\ p.s.bridged = s.bridged
      /\ p.s.lockout = s.lockout /\ p.s.failures = s.failures /\ p.s.evicted = s.evicted
      /\ p.s.reasm = s.reasm /\ p.s.paid = s.paid /\ DOMAIN p.s = Fields
      /\ p.s.parsed = [s.parsed EXCEPT ![addr] = @ + 1]
  BY DEF ParseFacts, Keeps, Fields
<1>2. PaidInv(p.s)
  <2>1. \A x \in Clients : Owed(s, x) \in Int /\ s.parsed[x] \in Int /\ s.paid[x] \in Int /\ Owed(s, x) <= s.paid[x]
                             /\ Cardinality(Opener(s.reasm, x)) \in Nat
    BY OwedCounts DEF ServerInv
  <2>2. DOMAIN s.parsed = Clients /\ DOMAIN s.paid = Clients /\ IsFiniteSet(s.reasm.entries)
    BY DEF ServerInv, PaidInv
  <2>3. /\ \A x \in Clients : x # addr => p.s.parsed[x] = s.parsed[x] /\ Owed(p.s, x) = Owed(s, x)
        /\ p.s.parsed[addr] = s.parsed[addr] + 1 /\ Owed(p.s, addr) = Owed(s, addr) + 1
        /\ DOMAIN p.s.parsed = Clients
    BY <1>1, <2>1, <2>2 DEF Owed
  <2> QED
    BY <1>1, <2>1, <2>2, <2>3 DEF PaidInv, Spare
<1>3. ReplayInv(p.s) /\ (p.ok => Admissible(p.s, p.init.random) /\ p.init.random[1] = addr)
  <2>1. CASE ~p.ok /\ p.s.replay = s.replay
    BY <1>1, <2>1 DEF ServerInv, ReplayInv
  <2>2. ASSUME NEW r, p.s.replay = check_and_insert(s.replay, ReplayLimit, r, now).entries,
               p.ok => /\ check_and_insert(s.replay, ReplayLimit, r, now).ok
                       /\ p.init.random = r /\ r[1] = addr
        PROVE  ReplayInv(p.s) /\ (p.ok => Admissible(p.s, p.init.random) /\ p.init.random[1] = addr)
    BY <1>1, <2>2, CheckKeeps DEF ServerInv
  <2> QED
    BY <2>1, <2>2 DEF ParseFacts
<1> QED
  BY <1>1, <1>2, <1>3 DEF ServerInv, MadeInv, Answered, LockInv, Counter

(* One more failed login of an address: its counter, which locks at the last
   one it allows.                                                          *)
Failed(l, addr) ==
  LET e == TupleFailed(l.tuples, <<User, addr>>, now)
  IN  LockAt(e, e.attempts >= LockoutPolicy.tuple_max_attempts, LockoutPolicy.tuple_lockout_secs, now)

(* A failure counted for an address that is not locked: one attempt more, or the lock. *)
LEMMA FailureEffect ==
  ASSUME now \in Nat, NEW s, NEW addr, NEW F, NEW t, t = Counter(s, addr), CounterInv(t, F),
         check_lockout(s.lockout, User, addr, now) = "none", NEW u, u = Failed(s.lockout, addr)
  PROVE  /\ ~LockedNow(t) /\ DOMAIN u = CounterFields
         /\ IF t.attempts + 1 >= LockoutPolicy.tuple_max_attempts
            THEN u.attempts = 0 /\ u.locked_until = now + LockoutPolicy.tuple_lockout_secs
            ELSE u.attempts = t.attempts + 1 /\ u.locked_until = t.locked_until
<1> DEFINE e == TupleFailed(s.lockout.tuples, <<User, addr>>, now)
<1>1. ~LockedNow(t) /\ e = [t EXCEPT !.attempts = @ + 1, !.last_access = now]
  <2>1. ~Locked(s.lockout.tuples, <<User, addr>>, now)
    BY DEF check_lockout
  <2> QED
    BY <2>1 DEF Locked, LockedNow, Counter, Get, TupleFailed, NewCounter
<1> HIDE DEF e
<1>2. /\ e.attempts = t.attempts + 1 /\ e.locked_until = t.locked_until /\ DOMAIN e = CounterFields
      /\ e.locked_until <= now
  BY <1>1 DEF CounterInv, LockedNow, CounterFields
<1>3. u = LockAt(e, e.attempts >= LockoutPolicy.tuple_max_attempts, LockoutPolicy.tuple_lockout_secs, now)
  BY DEF Failed, e
<1> QED
  BY <1>1, <1>2, <1>3 DEF LockAt, CounterFields

(* The counter after a failure stands for the failures with the new one. *)
LEMMA FailureCounted ==
  ASSUME now \in Nat, NEW t, NEW F, CounterInv(t, F), ~LockedNow(t), NEW u, DOMAIN u = CounterFields,
         IF t.attempts + 1 >= LockoutPolicy.tuple_max_attempts
         THEN u.attempts = 0 /\ u.locked_until = now + LockoutPolicy.tuple_lockout_secs
         ELSE u.attempts = t.attempts + 1 /\ u.locked_until = t.locked_until
  PROVE  CounterInv(u, Append(F, now))
<1> DEFINE max == LockoutPolicy.tuple_max_attempts
           secs == LockoutPolicy.tuple_lockout_secs
           G == Append(F, now)
<1>1. /\ max \in Nat \ {0} /\ secs \in Nat
      /\ t.attempts \in Nat /\ t.attempts < max /\ t.locked_until \in Int /\ t.locked_until <= now
  BY LockoutAssumption DEF CounterInv, LockedNow
<1>2. Len(G) = Len(F) + 1 /\ Len(F) \in Nat
  BY DEF CounterInv
<1>8. G \in Seq(Int)
  BY DEF CounterInv
<1>3. /\ \A i \in 1 .. Len(F) : G[i] = F[i] /\ F[i] \in Int /\ F[i] <= now
      /\ G[Len(F) + 1] = now
      /\ \A i \in 1 .. Len(F) - t.attempts : now - F[i] >= secs
  BY DEF CounterInv, Standing
<1>4. /\ u.attempts \in Nat /\ u.attempts < max /\ u.locked_until \in Int
      /\ LockedNow(u) => u.attempts = 0 /\ u.locked_until = now + secs
      /\ Standing(u) = t.attempts + 1 \/ (secs = 0 /\ Standing(u) = 0)
  BY <1>1 DEF Standing, LockedNow
<1> HIDE DEF max, secs, G
<1>5. ASSUME NEW i \in 1 .. Len(G) PROVE G[i] \in Int /\ G[i] <= now /\ (secs = 0 => now - G[i] >= secs)
  <2>1. i \in 1 .. Len(F) \/ i = Len(F) + 1
    BY <1>2
  <2>2. G[i] \in Int /\ G[i] <= now
    BY <1>3, <2>1
  <2> QED
    BY <2>2
<1>6. ASSUME NEW i \in 1 .. Len(G) - Standing(u) PROVE now - G[i] >= secs
  <2>1. CASE Standing(u) = t.attempts + 1
    <3>1. Len(G) - Standing(u) = Len(F) - t.attempts
      BY <1>1, <1>2, <2>1
    <3>2. i \in 1 .. Len(F) - t.attempts /\ i \in 1 .. Len(F)
      BY <1>1, <1>2, <3>1
    <3> QED
      BY <1>3, <3>2
  <2>2. CASE secs = 0 /\ Standing(u) = 0
    BY <1>2, <1>5, <2>2
  <2> QED
    BY <1>4, <2>1, <2>2
<1>7. ASSUME LockedNow(u), NEW i \in 1 .. Len(G) PROVE G[i] <= u.locked_until - secs
  BY <1>1, <1>4, <1>5, <1>7
<1> QED
  BY <1>4, <1>5, <1>6, <1>7, <1>8 DEF CounterInv, max, secs, G

(* record_failure writes the tuple of the address and, with room left, evicts none. *)
LEMMA TuplesEffect ==
  ASSUME NEW l, NEW addr, Size(l.tuples) < LockoutPolicy.max_entries,
         NEW x \in record_failure(l, LockoutPolicy, User, addr, now)
  PROVE  x.tuples = Put(l.tuples, <<User, addr>>, Failed(l, addr))
<1> DEFINE T == FailedTuples(l, LockoutPolicy, User, addr, now)
           counted(m) == Put(m, <<User, addr>>, LockAt(TupleFailed(m, <<User, addr>>, now),
                               TupleFailed(m, <<User, addr>>, now).attempts >= LockoutPolicy.tuple_max_attempts,
                               LockoutPolicy.tuple_lockout_secs, now))
<1>1. evict_if_full(l.tuples, LockoutPolicy.max_entries) = {l.tuples}
  BY DEF evict_if_full
<1>2. T = {counted(m) : m \in evict_if_full(l.tuples, LockoutPolicy.max_entries)}
  BY DEF FailedTuples
<1>3. counted(l.tuples) = Put(l.tuples, <<User, addr>>, Failed(l, addr))
  BY Zenon DEF Failed
<1> HIDE DEF T, counted
<1>4. x.tuples \in T
  BY DEF record_failure, T
<1> QED
  BY <1>1, <1>2, <1>3, <1>4

(* The login keeps the invariant, and what was admissible stays so. *)
LEMMA LoginKeeps ==
  ASSUME now \in Nat, NEW s, ServerInv(s), NEW addr \in Clients, NEW t, LoginFacts(s, t, addr)
  PROVE  /\ ServerInv(t) /\ t.made = s.made
         /\ \A r : Admissible(s, r) => Admissible(t, r)
<1>1. /\ t.made = s.made /\ t.live = s.live /\ t.bridged = s.bridged /\ t.replay = s.replay
      /\ t.reasm = s.reasm /\ t.parsed = s.parsed /\ t.paid = s.paid /\ DOMAIN t = Fields
  BY DEF LoginFacts, Keeps, Fields
<1>2. LockInv(t)
  <2> DEFINE key(c) == <<User, c>>
  <2>1. CASE t.lockout = s.lockout /\ t.failures = s.failures /\ t.evicted = s.evicted
    BY <2>1 DEF ServerInv, LockInv, Counter
  <2>2. CASE /\ t.lockout = record_success(s.lockout, User, addr)
             /\ t.failures = [s.failures EXCEPT ![addr] = <<>>] /\ t.evicted = s.evicted
    <3> SUFFICES ASSUME ~s.evicted, NEW c \in Clients PROVE CounterInv(Counter(t, c), t.failures[c])
      BY <2>2 DEF ServerInv, LockInv
    <3>1. t.lockout.tuples = Restrict(s.lockout.tuples, DOMAIN s.lockout.tuples \ {key(addr)})
      BY <2>2 DEF record_success
    <3>2. CASE c = addr
      <4>1. Counter(t, c) = NewCounter /\ t.failures[c] = <<>>
        BY <2>2, <3>1, <3>2 DEF Counter, Get, Restrict, ServerInv, LockInv
      <4> QED
        BY <4>1, LockoutAssumption DEF CounterInv, CounterFields, NewCounter, Standing, LockedNow
    <3>3. CASE c # addr
      <4>1. Counter(t, c) = Counter(s, c) /\ t.failures[c] = s.failures[c]
        BY <2>2, <3>1, <3>3 DEF Counter, Get, Restrict, ServerInv, LockInv
      <4> QED
        BY <4>1 DEF ServerInv, LockInv
    <3> QED
      BY <3>2, <3>3
  <2>3. CASE /\ check_lockout(s.lockout, User, addr, now) = "none"
             /\ t.lockout \in record_failure(s.lockout, LockoutPolicy, User, addr, now)
             /\ t.failures = [s.failures EXCEPT ![addr] = Append(@, now)]
             /\ t.evicted = (s.evicted \/ ~(Size(s.lockout.tuples) < LockoutPolicy.max_entries))
    <3> SUFFICES ASSUME ~t.evicted, NEW c \in Clients PROVE CounterInv(Counter(t, c), t.failures[c])
      BY <2>3 DEF ServerInv, LockInv
    <3>1. ~s.evicted /\ Size(s.lockout.tuples) < LockoutPolicy.max_entries
      BY <2>3
    <3> DEFINE u == Failed(s.lockout, addr)
    <3>2. t.lockout.tuples = Put(s.lockout.tuples, key(addr), u)
      BY <2>3, <3>1, TuplesEffect
    <3> HIDE DEF u
    <3>3. CASE c = addr
      <4>1. Counter(t, c) = u /\ t.failures[c] = Append(s.failures[addr], now)
        BY <2>3, <3>2, <3>3 DEF Counter, Get, Put, ServerInv, LockInv
      <4>2. CounterInv(Counter(s, addr), s.failures[addr])
        BY <3>1 DEF ServerInv, LockInv
      <4> DEFINE q == Counter(s, addr)
      <4>3. /\ ~LockedNow(q) /\ DOMAIN u = CounterFields
            /\ IF q.attempts + 1 >= LockoutPolicy.tuple_max_attempts
               THEN u.attempts = 0 /\ u.locked_until = now + LockoutPolicy.tuple_lockout_secs
               ELSE u.attempts = q.attempts + 1 /\ u.locked_until = q.locked_until
        BY SMTT(20), <2>3, <4>2, FailureEffect DEF u
      <4> HIDE DEF q
      <4>4. CounterInv(u, Append(s.failures[addr], now))
        BY <4>2, <4>3, FailureCounted DEF q
      <4> QED
        BY <4>1, <4>4
    <3>4. CASE c # addr
      <4>1. Counter(t, c) = Counter(s, c) /\ t.failures[c] = s.failures[c]
        BY <2>3, <3>2, <3>4 DEF Counter, Get, Put, ServerInv, LockInv
      <4> QED
        BY <3>1, <4>1 DEF ServerInv, LockInv
    <3> QED
      BY <3>3, <3>4
  <2> QED
    BY <2>1, <2>2, <2>3 DEF LoginFacts
<1>3. \A r : Admissible(s, r) => Admissible(t, r)
  BY <1>1 DEF Admissible
<1> QED
  BY <1>1, <1>2, <1>3 DEF ServerInv, MadeInv, Answered, ReplayInv, PaidInv, Owed

(* Pieces stay good when the server makes more sessions. *)
LEMMA GoodGrows ==
  ASSUME NEW M, NEW N, M \subseteq N
  PROVE  /\ \A source, f : GoodFragment(source, f, M) => GoodFragment(source, f, N)
         /\ \A d : GoodDatagram(d, M) => GoodDatagram(d, N)
         /\ \A b : OnlyGood(b, M) => OnlyGood(b, N)
<1>1. \A k, payload : ResponsePiece(k, payload, M) => ResponsePiece(k, payload, N)
  BY DEF ResponsePiece
<1>2. \A source, inner, k, payload : Good(source, inner, k, payload, M) => Good(source, inner, k, payload, N)
  BY <1>1 DEF Good
<1> QED
  BY <1>2 DEF GoodFragment, GoodDatagram, GoodMessage, OnlyGood

(* The packets of a response are signed for the session that was made for it. *)
LEMMA ResponsePieces ==
  ASSUME NEW s, NEW init, NEW addr \in Clients, NEW id, NEW n,
         NEW d \in encode_handshake_response_as_packets(s, init, addr, id),
         NEW M, Session(s, init, addr, n) \in M
  PROVE  GoodDatagram(d, M)
<1> DEFINE r == Response(s, init)
           m == Session(s, init, addr, n)
<1>1. PICK k \in {1, 2} :
        d = [from |-> Server, to |-> addr,
             frag |-> [frag_id |-> id, inner |-> "HandshakeResponse", index |-> k, total |-> 2,
                       payload |-> ResponseParts(r)[k], bytes |-> 1]]
  BY DEF encode_handshake_response_as_packets, Fragments
<1>2. /\ r.signature.over.session = m.id /\ r.signature.over.client_random = m.random
      /\ r.signature.over.config = m.config /\ r.key_confirmation.keys = m.keys
  BY Zenon DEF Session, Response, refresh_handshake_response_auth, process_init, sign, build_transcript,
         compute_key_confirmation, ServerKeys
<1>3. ResponseParts(r)[2].signature = r.signature /\ ResponseParts(r)[2].key_confirmation = r.key_confirmation
  BY DEF ResponseParts
<1> HIDE DEF r, m
<1>4. ResponsePiece(k, ResponseParts(r)[k], M)
  BY <1>1, <1>2, <1>3 DEF ResponsePiece, m
<1> QED
  BY <1>1, <1>4 DEF GoodDatagram, GoodFragment, Good, Whole

(* The answer makes at most one session, for an admissible random, under a new id. *)
LEMMA AnswerKeeps ==
  ASSUME now \in Nat, NEW s, ServerInv(s), NEW addr \in Clients, NEW init, Admissible(s, init.random),
         init.random[1] = addr, NEW o, AnswerFacts(s, o, init, addr)
  PROVE  ServerInv(o.s) /\ s.made \subseteq o.s.made /\ \A d \in o.sent : GoodDatagram(d, o.s.made)
<1>1. /\ o.s.lockout = s.lockout /\ o.s.failures = s.failures /\ o.s.evicted = s.evicted
      /\ o.s.bridged = s.bridged /\ o.s.replay = s.replay
      /\ o.s.reasm = s.reasm /\ o.s.parsed = s.parsed /\ o.s.paid = s.paid /\ DOMAIN o.s = Fields
  BY DEF AnswerFacts, Keeps, Fields
<1>2. PaidInv(o.s) /\ LockInv(o.s)
  BY Zenon, <1>1 DEF ServerInv, PaidInv, Owed, LockInv, Counter
<1>3. CASE o.s.made = s.made /\ o.s.live = s.live /\ o.sent = {}
  BY <1>1, <1>2, <1>3 DEF ServerInv, MadeInv, Answered, ReplayInv
<1>4. ASSUME NEW id, NEW n, o.s.made = s.made \cup {Session(s, init, addr, n)},
             o.sent \subseteq encode_handshake_response_as_packets(s, init, addr, id),
             \/ o.s.live = s.live
             \/ o.s.live = s.live \cup {NewId(s)} /\ (conf.path # "portable" => n = 2)
      PROVE  ServerInv(o.s) /\ s.made \subseteq o.s.made /\ \A d \in o.sent : GoodDatagram(d, o.s.made)
  <2> DEFINE m == Session(s, init, addr, n)
             N == Cardinality(s.made)
  <2>1. /\ m.id = N + 1 /\ m.random = init.random /\ m.addr = addr /\ m.at = now /\ m.sent = n /\ NewId(s) = N + 1
        /\ IsFiniteSet(s.made) /\ N \in Nat
    BY FS_CardinalityType DEF Session, NewId, ServerInv, MadeInv
  <2> HIDE DEF m
  <2>2. \A k \in s.made : k.id \in 1 .. N /\ k.id # N + 1 /\ k.addr = k.random[1]
    BY <2>1 DEF ServerInv, MadeInv
  <2>3. o.s.made = s.made \cup {m} /\ IsFiniteSet(o.s.made) /\ Cardinality(o.s.made) = N + 1
    <3>1. m \notin s.made /\ o.s.made = s.made \cup {m}
      BY <1>4, <2>1, <2>2 DEF m
    <3>2. IsFiniteSet(s.made \cup {m}) /\ Cardinality(s.made \cup {m}) = N + 1
      BY <2>1, <3>1, FS_AddElement
    <3> QED
      BY <3>1, <3>2
  <2>4. MadeInv(o.s)
    <3> DEFINE tables == s.live \cup s.bridged
    <3>1. tables \subseteq 1 .. N /\ N + 1 \notin tables
      BY <2>1 DEF ServerInv, MadeInv
    <3>2. o.s.live \cup o.s.bridged \subseteq tables \cup {N + 1}
      BY Zenon, <1>1, <1>4, <2>1
    <3>3. \A k \in s.made : k.id \in o.s.live \cup o.s.bridged => k.id \in tables
      BY Zenon, <2>2, <3>2
    <3>4. Answered(o.s)
      BY Zenon, <1>1, <1>4, <2>1, <2>3, <3>1, <3>3 DEF ServerInv, MadeInv, Answered
    <3>5. m.id \in 1 .. (N + 1) /\ m.addr = m.random[1] /\ 1 .. N \subseteq 1 .. (N + 1) /\ N + 1 \in 1 .. (N + 1)
      BY <2>1
    <3>6. \A k \in o.s.made : k.id \in 1 .. (N + 1) /\ k.addr = k.random[1]
      BY Zenon, <2>2, <2>3, <3>5
    <3>7. o.s.live \cup o.s.bridged \subseteq 1 .. (N + 1)
      BY Zenon, <3>1, <3>2, <3>5
    <3> HIDE DEF N
    <3> QED
      BY <2>3, <3>4, <3>6, <3>7 DEF MadeInv
  <2>5. ReplayInv(o.s)
    <3>1. /\ \A r \in DOMAIN o.s.replay : o.s.replay[r] \in Int /\ o.s.replay[r] <= now
          /\ \A k \in s.made :
               /\ k.at \in Int /\ k.at <= now
               /\ now - k.at < ReplayLimit.ttl => k.random \in DOMAIN o.s.replay /\ k.at <= o.s.replay[k.random]
      BY Zenon, <1>1 DEF ServerInv, ReplayInv
    <3>2. /\ m.at \in Int /\ m.at <= now
          /\ m.random \in DOMAIN o.s.replay /\ m.at <= o.s.replay[m.random]
      BY <1>1, <2>1 DEF Admissible
    <3>3. \A k \in s.made : k.random = m.random => m.at - k.at >= ReplayLimit.ttl
      BY Zenon, <2>1 DEF Admissible
    <3>4. \A j, k \in s.made :
            j # k /\ j.random = k.random => j.at - k.at >= ReplayLimit.ttl \/ k.at - j.at >= ReplayLimit.ttl
      BY Zenon DEF ServerInv, ReplayInv
    <3> QED
      BY Zenon, <2>3, <3>1, <3>2, <3>3, <3>4 DEF ReplayInv
  <2>6. \A d \in o.sent : GoodDatagram(d, o.s.made)
    BY <1>4, <2>3, ResponsePieces DEF m
  <2>7. OnlyGood(o.s.reasm, o.s.made)
    BY <1>1, <2>3, GoodGrows DEF ServerInv
  <2> QED
    BY Zenon, <1>1, <1>2, <2>3, <2>4, <2>5, <2>6, <2>7 DEF ServerInv
<1> QED
  BY <1>3, <1>4 DEF AnswerFacts

-----------------------------------------------------------------------------
(* A whole handler preserves it *)

Outcome(s, o) ==
  DOMAIN o = {"s", "sent"} /\ ServerInv(o.s) /\ s.made \subseteq o.s.made /\ \A d \in o.sent : GoodDatagram(d, o.s.made)

(* A handler that ends without an answer. *)
LEMMA NothingSent ==
  ASSUME NEW s, NEW t, ServerInv(t), t.made = s.made, NEW o \in Done(t)
  PROVE  Outcome(s, o)
BY DEF Outcome, Done

(* From a parsed message on: p is what the parse left, a what the login left. *)
LEMMA AdmitKeeps ==
  ASSUME now \in Nat, NEW s, ServerInv(s), NEW addr \in Clients, Spare(s, addr),
         NEW m, GoodMessage(addr, m, s.made), NEW o,
         \/ o \in handle_handshake_init_internal_prechecked(s, m, addr)
         \/ o \in handle_handshake_init_prechecked(s, m, addr) /\ conf.path = "portable"
         \/ \E z : /\ Charge(z, addr).ok /\ s = Charge(z, addr).s
                   /\ o \in handle_handshake_init_afxdp(z, m, addr)
  PROVE  Outcome(s, o)
<1> DEFINE parsed(p) == \/ p = handle_handshake_init_internal_prechecked_parse(s, m, addr)
                        \/ p = handle_handshake_init_afxdp_parse(s, m, addr)
                        \/ p = handle_handshake_init_prechecked_parse(s, m, addr)
           answered(p, a) ==
             \E id, n, signed :
               \/ o = handle_handshake_init_internal_prechecked_answer(a.s, p.init, addr, id, n)
               \/ o = handle_handshake_init_afxdp_answer(a.s, p.init, addr, id, n)
               \/ /\ o = handle_handshake_init_prechecked_answer(a.s, p.init, addr, id, n, signed)
                  /\ conf.path = "portable"
<1>1. PICK p : /\ parsed(p)
               /\ \/ o \in Done(p.s)
                  \/ p.ok /\ \E a \in CheckUser(p.s, p.init, addr) : o \in Done(a.s) \/ answered(p, a)
  <2>1. CASE o \in handle_handshake_init_internal_prechecked(s, m, addr)
    <3> DEFINE p == handle_handshake_init_internal_prechecked_parse(s, m, addr)
               after(a) == IF ~a.ok THEN Done(a.s)
                           ELSE KeyRefused(a.s, p.init) \cup
                                  {handle_handshake_init_internal_prechecked_answer(a.s, p.init, addr, id, n) :
                                     id \in conf.frag_ids, n \in 0 .. 2}
    <3>1. o \in IF ~p.ok THEN Done(p.s) ELSE UNION {after(a) : a \in CheckUser(p.s, p.init, addr)}
      BY SMTT(20), <2>1 DEF handle_handshake_init_internal_prechecked
    <3>2. \A a : o \in after(a) => o \in Done(a.s) \/ answered(p, a)
      BY DEF KeyRefused
    <3>3. parsed(p)
      OBVIOUS
    <3> HIDE DEF p, after, parsed, answered
    <3> QED
      BY Zenon, <3>1, <3>2, <3>3
  <2>2. CASE o \in handle_handshake_init_prechecked(s, m, addr) /\ conf.path = "portable"
    <3> DEFINE p == handle_handshake_init_prechecked_parse(s, m, addr)
               after(a) == IF ~a.ok THEN Done(a.s)
                           ELSE KeyRefused(a.s, p.init) \cup
                                  {handle_handshake_init_prechecked_answer(a.s, p.init, addr, id, n, signed) :
                                     id \in conf.frag_ids, n \in 0 .. 2, signed \in BOOLEAN}
    <3>1. o \in IF ~p.ok THEN Done(p.s) ELSE UNION {after(a) : a \in CheckUser(p.s, p.init, addr)}
      BY SMTT(20), <2>2 DEF handle_handshake_init_prechecked
    <3>2. \A a : o \in after(a) => o \in Done(a.s) \/ answered(p, a)
      BY <2>2 DEF KeyRefused
    <3>3. parsed(p)
      OBVIOUS
    <3> HIDE DEF p, after, parsed, answered
    <3> QED
      BY Zenon, <3>1, <3>2, <3>3
  <2>3. ASSUME NEW z, Charge(z, addr).ok, s = Charge(z, addr).s, o \in handle_handshake_init_afxdp(z, m, addr)
        PROVE  \E p : /\ parsed(p)
                      /\ \/ o \in Done(p.s)
                         \/ p.ok /\ \E a \in CheckUser(p.s, p.init, addr) : o \in Done(a.s) \/ answered(p, a)
    <3> DEFINE p == handle_handshake_init_afxdp_parse(s, m, addr)
               after(a) == IF ~a.ok THEN Done(a.s)
                           ELSE KeyRefused(a.s, p.init) \cup
                                  {handle_handshake_init_afxdp_answer(a.s, p.init, addr, id, n) :
                                     id \in conf.frag_ids, n \in 0 .. 2}
    <3>1. o \in IF ~p.ok THEN Done(p.s) ELSE UNION {after(a) : a \in CheckUser(p.s, p.init, addr)}
      BY SMTT(20), <2>3 DEF handle_handshake_init_afxdp
    <3>2. \A a : o \in after(a) => o \in Done(a.s) \/ answered(p, a)
      BY DEF KeyRefused
    <3>3. parsed(p)
      OBVIOUS
    <3> HIDE DEF p, after, parsed, answered
    <3> QED
      BY Zenon, <3>1, <3>2, <3>3
  <2> QED
    BY Zenon, <2>1, <2>2, <2>3
<1>2. /\ ServerInv(p.s) /\ p.s.made = s.made
      /\ p.ok => Admissible(p.s, p.init.random) /\ p.init.random[1] = addr
  <2>1. ParseFacts(s, p, addr)
    <3>1. addr # Server /\ DOMAIN s = Fields
      BY AddressAssumption DEF ServerInv
    <3> QED
      BY Zenon, <1>1, <3>1, ParseEffect
  <2> HIDE DEF parsed, answered
  <2> QED
    BY SMTT(20), <2>1, ParseKeeps
<1>3. CASE o \in Done(p.s)
  BY Zenon, <1>2, <1>3, NothingSent
<1>4. ASSUME p.ok, NEW a \in CheckUser(p.s, p.init, addr), o \in Done(a.s) \/ answered(p, a)
      PROVE  Outcome(s, o)
  <2>1. ServerInv(a.s) /\ a.s.made = s.made /\ Admissible(a.s, p.init.random)
    <3>1. DOMAIN p.s = Fields
      BY <1>2 DEF ServerInv
    <3>2. LoginFacts(p.s, a.s, addr)
      BY Zenon, <3>1, LoginEffect
    <3> HIDE DEF parsed, answered
    <3>3. /\ ServerInv(a.s) /\ a.s.made = p.s.made
          /\ \A r : Admissible(p.s, r) => Admissible(a.s, r)
      BY Zenon, <1>2, <3>2, LoginKeeps
    <3> QED
      BY Zenon, <1>2, <1>4, <3>3
  <2>2. CASE o \in Done(a.s)
    BY Zenon, <2>1, <2>2, NothingSent
  <2>3. CASE answered(p, a)
    <3>1. AnswerFacts(a.s, o, p.init, addr)
      BY Zenon, <2>1, <2>3, AnswerEffect DEF ServerInv
    <3> QED
      BY Zenon, <1>2, <1>4, <2>1, <3>1, AnswerKeeps DEF Outcome, AnswerFacts
  <2> QED
    BY <1>4, <2>2, <2>3
<1> QED
  BY Zenon, <1>1, <1>3, <1>4

(* A piece: charged if it opens an entry, kept, and handled when it completes one. *)
LEMMA FragmentKeeps ==
  ASSUME now \in Nat, NEW s, ServerInv(s), NEW addr \in Clients, NEW f, GoodFragment(addr, f, s.made), NEW o,
         \/ o \in handle_handshake_fragment_internal(s, f, addr)
         \/ o \in handle_handshake_fragment(s, f, addr) /\ conf.path = "portable"
  PROVE  Outcome(s, o)
<1> DEFINE c == IF contains(s.reasm, <<addr, f.frag_id>>) THEN Passed(s) ELSE Charge(s, addr)
           kept(q) == [c.s EXCEPT !.reasm = q.buffer]
<1>1. /\ ServerInv(c.s) /\ c.s.made = s.made
      /\ c.ok => contains(c.s.reasm, <<addr, f.frag_id>>) \/ Spare(c.s, addr)
  BY ChargeKeeps DEF Passed
<1>2. \/ o \in Done(c.s)
      \/ /\ c.ok
         /\ \E q \in insert(c.s.reasm, ServerReassembly, addr, f, now) :
              \/ o \in Done(kept(q))
              \/ /\ q.message # NoMessage
                 /\ \/ o \in handle_handshake_init_internal_prechecked(kept(q), q.message, addr)
                    \/ /\ o \in handle_handshake_init_prechecked(kept(q), q.message, addr)
                       /\ conf.path = "portable"
  <2>1. CASE o \in handle_handshake_fragment_internal(s, f, addr)
    <3> DEFINE next(q) == IF q.message = NoMessage THEN Done(kept(q))
                          ELSE handle_handshake_init_internal_prechecked(kept(q), q.message, addr)
    <3>1. o \in IF ~c.ok THEN Done(c.s)
                ELSE UNION {next(q) : q \in insert(c.s.reasm, ServerReassembly, addr, f, now)}
      BY Zenon, <2>1 DEF handle_handshake_fragment_internal
    <3> HIDE DEF c, kept
    <3> QED
      BY Zenon, <3>1
  <2>2. CASE o \in handle_handshake_fragment(s, f, addr) /\ conf.path = "portable"
    <3> DEFINE next(q) == IF q.message = NoMessage THEN Done(kept(q))
                          ELSE handle_handshake_init_prechecked(kept(q), q.message, addr)
    <3>1. o \in IF ~c.ok THEN Done(c.s)
                ELSE UNION {next(q) : q \in insert(c.s.reasm, ServerReassembly, addr, f, now)}
      BY Zenon, <2>2 DEF handle_handshake_fragment
    <3> HIDE DEF c, kept
    <3> QED
      BY Zenon, <2>2, <3>1
  <2> QED
    BY Zenon, <2>1, <2>2
<1> HIDE DEF c
<1>3. CASE o \in Done(c.s)
  BY <1>1, <1>3, NothingSent
<1>4. ASSUME c.ok, NEW q \in insert(c.s.reasm, ServerReassembly, addr, f, now)
      PROVE  /\ ServerInv(kept(q)) /\ kept(q).made = s.made
             /\ q.message # NoMessage => Spare(kept(q), addr) /\ GoodMessage(addr, q.message, kept(q).made)
  BY <1>1, <1>4, InsertKeeps
<1> HIDE DEF kept
<1>5. ASSUME c.ok, NEW q \in insert(c.s.reasm, ServerReassembly, addr, f, now), o \in Done(kept(q))
      PROVE  Outcome(s, o)
  BY <1>4, <1>5, NothingSent
<1>6. ASSUME c.ok, NEW q \in insert(c.s.reasm, ServerReassembly, addr, f, now), q.message # NoMessage,
             \/ o \in handle_handshake_init_internal_prechecked(kept(q), q.message, addr)
             \/ o \in handle_handshake_init_prechecked(kept(q), q.message, addr) /\ conf.path = "portable"
      PROVE  Outcome(s, o)
  <2>1. Outcome(kept(q), o)
    BY <1>4, <1>6, AdmitKeeps
  <2> QED
    BY <1>4, <1>6, <2>1 DEF Outcome
<1> QED
  BY <1>2, <1>3, <1>5, <1>6

(* An init in one datagram: charged, then handled. *)
LEMMA WholeKeeps ==
  ASSUME now \in Nat, NEW s, ServerInv(s), NEW addr \in Clients, NEW m, GoodMessage(addr, m, s.made), NEW o,
         \/ o \in handle_handshake_init_internal(s, m, addr)
         \/ o \in handle_handshake_init(s, m, addr) /\ conf.path = "portable"
         \/ o \in handle_handshake_init_afxdp(s, m, addr)
  PROVE  Outcome(s, o)
<1> DEFINE c == Charge(s, addr)
<1>1. ServerInv(c.s) /\ c.s.made = s.made /\ (c.ok => Spare(c.s, addr))
  BY ChargeKeeps
<1>2. CASE ~c.ok
  <2>1. o \in Done(c.s)
    BY <1>2 DEF handle_handshake_init_internal, handle_handshake_init, handle_handshake_init_afxdp
  <2> QED
    BY <1>1, <2>1, NothingSent
<1>3. CASE c.ok
  <2>1. \/ o \in handle_handshake_init_internal_prechecked(c.s, m, addr)
        \/ o \in handle_handshake_init_prechecked(c.s, m, addr) /\ conf.path = "portable"
        \/ \E z : /\ Charge(z, addr).ok /\ c.s = Charge(z, addr).s
                  /\ o \in handle_handshake_init_afxdp(z, m, addr)
    BY <1>3 DEF handle_handshake_init_internal, handle_handshake_init
  <2> HIDE DEF c
  <2>2. Outcome(c.s, o)
    BY <1>1, <1>3, <2>1, AdmitKeeps
  <2> QED
    BY <1>1, <2>2 DEF Outcome
<1> QED
  BY <1>2, <1>3

(* Copying the new session to the workers' table. *)
LEMMA SyncKeeps ==
  ASSUME NEW s, ServerInv(s), NEW t, Keeps(s, t, {"bridged"}), NEW L, t.bridged = s.bridged \cup (s.live \ L)
  PROVE  ServerInv(t) /\ t.made = s.made
<1>1. /\ t.made = s.made /\ t.live = s.live /\ t.replay = s.replay
      /\ t.lockout = s.lockout /\ t.failures = s.failures /\ t.evicted = s.evicted
      /\ t.reasm = s.reasm /\ t.parsed = s.parsed /\ t.paid = s.paid /\ DOMAIN t = Fields
  BY DEF Keeps, Fields
<1>2. t.live \cup t.bridged = s.live \cup s.bridged
  BY <1>1
<1> QED
  BY Zenon, <1>1, <1>2 DEF ServerInv, MadeInv, Answered, ReplayInv, PaidInv, Owed, LockInv, Counter

(* A datagram for the server, on any of the three paths. *)
LEMMA ReceiveKeeps ==
  ASSUME now \in Nat, conf \in Deployments, NEW s, ServerInv(s), NEW d, d.to = Server, GoodDatagram(d, s.made),
         NEW o \in CASE conf.path = "linux" -> handle_control_message(s, d)
                     [] conf.path = "portable" -> handle_packet(s, d)
                     [] conf.path = "afxdp" -> AfXdpControlChannel(s, d)
  PROVE  Outcome(s, o)
<1>1. /\ d.from \in Clients /\ (Whole(d) => GoodMessage(d.from, d.message, s.made))
      /\ ~Whole(d) => GoodFragment(d.from, d.frag, s.made)
  BY AddressAssumption DEF GoodDatagram
<1>2. CASE conf.path = "linux" /\ o \in handle_control_message(s, d)
  BY <1>1, <1>2, WholeKeeps, FragmentKeeps DEF handle_control_message
<1>3. CASE conf.path = "portable" /\ o \in handle_packet(s, d)
  BY <1>1, <1>3, WholeKeeps, FragmentKeeps DEF handle_packet
<1>4. CASE conf.path = "afxdp" /\ o \in AfXdpControlChannel(s, d)
  <2>1. CASE o \in Done(s)
    BY <2>1, NothingSent
  <2>2. ASSUME Whole(d), NEW q \in handle_handshake_init_afxdp(s, d.message, d.from), o \in sync_session(s, q)
        PROVE  Outcome(s, o)
    <3>1. Outcome(s, q)
      BY <1>1, <2>2, WholeKeeps
    <3>2. CASE o = [q EXCEPT !.s.bridged = @ \cup (q.s.live \ s.live)]
      <4>1. /\ o.s = [q.s EXCEPT !.bridged = @ \cup (q.s.live \ s.live)] /\ o.sent = q.sent
        BY <3>1, <3>2 DEF Outcome
      <4>2. /\ Keeps(q.s, o.s, {"bridged"}) /\ o.s.bridged = q.s.bridged \cup (q.s.live \ s.live)
            /\ DOMAIN o = {"s", "sent"}
        BY <3>1, <3>2, <4>1 DEF Outcome, ServerInv, Keeps, Fields
      <4>3. ServerInv(o.s) /\ o.s.made = q.s.made
        BY <3>1, <4>2, SyncKeeps DEF Outcome
      <4> QED
        BY <3>1, <4>1, <4>2, <4>3 DEF Outcome
    <3> QED
      BY <2>2, <3>1, <3>2 DEF sync_session
  <2> QED
    BY <1>4, <2>1, <2>2 DEF AfXdpControlChannel, handle_afxdp_control
<1> QED
  BY <1>2, <1>3, <1>4, PathAssumption

-----------------------------------------------------------------------------
(* The steps preserve the invariant *)

(* The invariant depends on the server, the time and the deployment only. *)
LEMMA SameTime ==
  ASSUME UNCHANGED <<now, conf>>, ServerInv(server')
  PROVE  ServerInv(server)'
<1>1. MadeInv(server)' /\ ReplayInv(server)' /\ PaidInv(server)'
  BY DEF ServerInv, MadeInv, Answered, ReplayInv, PaidInv, Owed
<1>2. LockInv(server)'
  BY Zenon DEF ServerInv, LockInv, Counter, CounterInv, Standing, LockedNow
<1> QED
  BY <1>1, <1>2 DEF ServerInv

(* Time passes: young sessions become fewer, and a lock that runs out leaves
   only failures older than it lasted.                                     *)
LEMMA TickKeeps ==
  ASSUME now \in Nat, now' = now + 1, UNCHANGED <<conf, server>>, ServerInv(server)
  PROVE  ServerInv(server)'
<1>1. MadeInv(server)' /\ PaidInv(server)' /\ OnlyGood(server.reasm, server.made)' /\ (DOMAIN server = Fields)'
  BY DEF ServerInv, MadeInv, Answered, PaidInv, Owed
<1>2. ReplayInv(server)'
  BY ClockAssumption DEF ServerInv, ReplayInv
<1>3. ASSUME NEW t, NEW F, CounterInv(t, F) PROVE CounterInv(t, F)'
  <2> DEFINE max == LockoutPolicy.tuple_max_attempts
             secs == LockoutPolicy.tuple_lockout_secs
  <2>1. /\ max \in Nat /\ secs \in Nat /\ Len(F) \in Nat /\ t.attempts \in Nat /\ t.locked_until \in Int
        /\ \A i \in 1 .. Len(F) : F[i] \in Int /\ F[i] <= now
        /\ LockedNow(t) => t.attempts = 0 /\ \A i \in 1 .. Len(F) : F[i] <= t.locked_until - secs
    BY <1>3, LockoutAssumption DEF CounterInv
  <2>2. LockedNow(t)' => LockedNow(t)
    BY <2>1 DEF LockedNow
  <2>3. ASSUME NEW i \in 1 .. Len(F) - Standing(t)' PROVE (now - F[i] >= secs)'
    <3>1. Standing(t)' \in Nat /\ i \in 1 .. Len(F)
      BY <2>1, <2>3 DEF Standing
    <3>2. F[i] \in Int /\ F[i] <= now
      BY <2>1, <3>1
    <3>3. CASE Standing(t)' = Standing(t)
      <4>1. now - F[i] >= secs
        BY <1>3, <2>3, <3>3 DEF CounterInv
      <4> QED
        BY <2>1, <3>2, <4>1
    <3>4. CASE LockedNow(t) /\ ~LockedNow(t)'
      <4>1. t.locked_until = now + 1 /\ F[i] <= t.locked_until - secs
        BY <2>1, <3>1, <3>4 DEF LockedNow
      <4> QED
        BY <2>1, <3>2, <4>1
    <3> QED
      BY <2>2, <3>3, <3>4 DEF Standing
  <2>4. \A i \in 1 .. Len(F) : (F[i] <= now)'
    BY <2>1
  <2> QED
    BY <1>3, <2>2, <2>3, <2>4 DEF CounterInv
<1>4. LockInv(server)'
  BY <1>3 DEF ServerInv, LockInv, Counter
<1> QED
  BY <1>1, <1>2, <1>4 DEF ServerInv

(* What a client sends when it connects is an init of its own. *)
LEMMA ConnectSends ==
  ASSUME NEW c \in Clients, NEW n, NEW level, NEW creds, NEW id, NEW M, NEW init,
         init = create_init(<<c, n>>, level, creds),
         NEW d, \/ d = [from |-> c, to |-> Server, message |-> Message(init)]
                \/ d \in Fragments(c, Server, id, Message(init))
  PROVE  GoodDatagram(d, M)
<1> DEFINE m == Message(init)
<1>1. init.random[1] = c
  BY DEF create_init
<1>2. GoodMessage(c, m, M)
  <2>1. ASSUME NEW k \in {1, 2} PROVE InitPiece(c, m.inner, k, m.parts[k])
    <3>1. CASE conf.sealed
      <4>1. m.inner = "EncryptedHandshakeInit" /\ m.parts[k].sealed = init
        BY <3>1 DEF Message, SealedParts
      <4> QED
        BY Zenon, <1>1, <4>1 DEF InitPiece
    <3>2. CASE ~conf.sealed
      <4>1. m = [inner |-> "HandshakeInit", parts |-> PlainParts(init)]
        BY Zenon, <3>2 DEF Message
      <4>2. m.inner # "EncryptedHandshakeInit" /\ m.parts = PlainParts(init)
        BY <4>1
      <4>3. PlainParts(init)[2].random = init.random
        BY DEF PlainParts
      <4> HIDE DEF m
      <4> QED
        BY Zenon, <1>1, <4>2, <4>3 DEF InitPiece
    <3> QED
      BY <3>1, <3>2
  <2> HIDE DEF m
  <2> QED
    BY <2>1, AddressAssumption DEF GoodMessage, Good
<1> HIDE DEF m
<1>3. CASE d = [from |-> c, to |-> Server, message |-> m]
  BY <1>2, <1>3 DEF GoodDatagram, Whole
<1>4. CASE d \in Fragments(c, Server, id, m)
  <2>0. PICK k \in 1 .. 2 :
          d = [from |-> c, to |-> Server,
               frag |-> [frag_id |-> id, inner |-> m.inner, index |-> k, total |-> 2,
                         payload |-> m.parts[k], bytes |-> 1]]
    BY Zenon, <1>4 DEF Fragments
  <2>1. k \in {1, 2}
    OBVIOUS
  <2>2. /\ d.from = c /\ d.to = Server /\ ~Whole(d)
        /\ d.frag.total = 2 /\ d.frag.index = k /\ d.frag.inner = m.inner /\ d.frag.payload = m.parts[k]
    BY <2>0 DEF Whole
  <2>3. Good(c, m.inner, k, m.parts[k], M)
    BY Zenon, <1>2, <2>1 DEF GoodMessage
  <2> QED
    BY Zenon, <2>1, <2>2, <2>3 DEF GoodDatagram, GoodFragment
<1> QED
  BY <1>3, <1>4 DEF m

(* A response that decides: its second piece was signed for a session. *)
LEMMA ResponseDecides ==
  ASSUME NEW c \in Clients, NEW M, NEW h, ClientInv(h, c, M), h.state = "AwaitingResponse",
         NEW m, GoodMessage(Server, m, M), NEW t,
         t = [process_response(h, decode_handshake_response(m.parts)) EXCEPT !.reasm = EmptyReassembly]
  PROVE  ClientInv(t, c, M)
<1> DEFINE r == decode_handshake_response(m.parts)
           p == m.parts[2]
           transcript == build_transcript(r.session, h.random, r.server_random, r.ct, r.config)
           keys == derive_session_keys_with_context(decapsulate(h.eph, r.ct), r.session, r.kdf_timestamp)
<1>1. PICK k \in M : /\ p.signature.over.session = k.id /\ p.signature.over.client_random = k.random
                     /\ p.signature.over.config = k.config /\ p.key_confirmation.keys = k.keys
  BY DEF GoodMessage, Good, ResponsePiece
<1>2. r.signature = p.signature /\ r.key_confirmation = p.key_confirmation
  BY DEF decode_handshake_response
<1>3. OnlyGood(EmptyReassembly, M)
  BY DEF OnlyGood, EmptyReassembly
<1>4. /\ DOMAIN t = DOMAIN h /\ t.reasm = EmptyReassembly /\ t.random = h.random
      /\ \/ t.state = "Failed"
         \/ /\ r.signature = sign(r.pk, transcript) /\ r.key_confirmation = compute_key_confirmation(keys, transcript)
            /\ t.session = r.session /\ t.keys = keys /\ t.config = r.config
  BY DEF process_response, verify_key_confirmation, ClientInv, Idle
<1>5. /\ transcript.session = r.session /\ transcript.client_random = h.random /\ transcript.config = r.config
      /\ sign(r.pk, transcript).over = transcript /\ compute_key_confirmation(keys, transcript).keys = keys
  BY DEF build_transcript, sign, compute_key_confirmation
<1> HIDE DEF r, p, transcript, keys
<1> QED
  BY <1>1, <1>2, <1>3, <1>4, <1>5 DEF ClientInv

(* The invariant holds of the new server, the idle clients and the empty network. *)
LEMMA Initially == Init => Inv
<1> SUFFICES ASSUME Init PROVE Inv
  OBVIOUS
<1>1. now = Start /\ conf \in Deployments /\ server = NewServer(conf) /\ net = {}
      /\ clients = [c \in Clients |-> Idle]
  BY DEF Init
<1>2. OnlyGood(EmptyReassembly, {})
  BY DEF OnlyGood, EmptyReassembly
<1>3. \A c \in Clients : ClientInv(Idle, c, {})
  BY <1>2 DEF ClientInv, Idle
<1>4. IsFiniteSet({}) /\ Cardinality({}) = 0
  BY FS_EmptySet
<1>5. MadeInv(server) /\ ReplayInv(server) /\ DOMAIN server = Fields
  BY <1>1, <1>4 DEF NewServer, MadeInv, Answered, ReplayInv, EmptyMap, Fields
<1>6. PaidInv(server)
  <2>1. \A c : Opener(EmptyReassembly, c) = {}
    BY DEF Opener, EmptyReassembly
  <2>2. /\ server.reasm = EmptyReassembly /\ IsFiniteSet(EmptyReassembly.entries)
        /\ server.parsed = [c \in Clients |-> 0] /\ server.paid = [c \in Clients |-> 0]
    BY <1>1, <1>4 DEF NewServer, EmptyReassembly
  <2> QED
    BY <1>4, <2>1, <2>2 DEF PaidInv, Owed
<1>7. LockInv(server)
  <2>1. CounterInv(NewCounter, <<>>)
    <3>1. now \in Nat
      BY <1>1, ClockAssumption
    <3>2. DOMAIN NewCounter = CounterFields /\ NewCounter.attempts = 0 /\ NewCounter.locked_until = 0
      BY DEF NewCounter, CounterFields
    <3>3. ~LockedNow(NewCounter)
      BY <3>1, <3>2 DEF LockedNow
    <3>4. Standing(NewCounter) = 0
      BY Zenon, <3>2, <3>3 DEF Standing
    <3>5. \A i : i \notin 1 .. Len(<<>>) /\ i \notin 1 .. Len(<<>>) - Standing(NewCounter)
      BY <3>4
    <3>6. <<>> \in Seq(Int)
      OBVIOUS
    <3>7. 0 \in Nat /\ 0 \in Int /\ 0 < LockoutPolicy.tuple_max_attempts
      BY LockoutAssumption
    <3> QED
      BY Zenon, <3>2, <3>3, <3>5, <3>6, <3>7 DEF CounterInv
  <2>2. \A c : Counter(server, c) = NewCounter
    BY <1>1 DEF NewServer, NewLockout, EmptyMap, Counter, Get
  <2> QED
    BY <1>1, <2>1, <2>2 DEF NewServer, LockInv
<1>8. server.made = {} /\ server.reasm = EmptyReassembly
  BY <1>1 DEF NewServer
<1> QED
  BY <1>1, <1>2, <1>3, <1>5, <1>6, <1>7, <1>8, ClockAssumption DEF Inv, ServerInv

(* A client agrees with the server still when it makes more sessions. *)
LEMMA ClientGrows ==
  ASSUME NEW h, NEW c, NEW M, NEW N, M \subseteq N, ClientInv(h, c, M)
  PROVE  ClientInv(h, c, N)
<1>1. OnlyGood(h.reasm, N)
  BY GoodGrows DEF ClientInv
<1> QED
  BY <1>1 DEF ClientInv

(* Every step preserves the invariant: a datagram handled, a connection attempt, a
   piece of a response, an attempt given up, a tick of the clock. *)
LEMMA Step == Inv /\ [Next]_vars => Inv'
<1> SUFFICES ASSUME Inv, [Next]_vars PROVE Inv'
  OBVIOUS
<1>0. /\ now \in Nat /\ conf \in Deployments /\ ServerInv(server) /\ \A d \in net : GoodDatagram(d, server.made)
      /\ DOMAIN clients = Clients /\ \A c \in Clients : ClientInv(clients[c], c, server.made)
  BY DEF Inv
<1>1. CASE Receive
  <2> DEFINE outcomes(d) == CASE conf.path = "linux" -> handle_control_message(server, d)
                              [] conf.path = "portable" -> handle_packet(server, d)
                              [] conf.path = "afxdp" -> AfXdpControlChannel(server, d)
  <2>0. PICK d \in net : d.to = Server /\ \E o \in outcomes(d) :
          server' = o.s /\ net' = net \cup o.sent /\ UNCHANGED <<conf, now, clients>>
    BY <1>1 DEF Receive
  <2>1. PICK o \in outcomes(d) :
          server' = o.s /\ net' = net \cup o.sent /\ UNCHANGED <<conf, now, clients>>
    BY <2>0
  <2>2. Outcome(server, o)
    BY <1>0, <2>0, ReceiveKeeps
  <2>3. ServerInv(server)'
    BY <2>1, <2>2, SameTime DEF Outcome
  <2>4. \A x \in net' : GoodDatagram(x, server'.made)
    BY <1>0, <2>1, <2>2, GoodGrows DEF Outcome
  <2>5. \A c \in Clients : ClientInv(clients[c], c, server'.made)
    BY <1>0, <2>1, <2>2, ClientGrows DEF Outcome
  <2> QED
    BY <1>0, <2>1, <2>3, <2>4, <2>5 DEF Inv
<1>2. ASSUME NEW c \in Clients, Connect(c) PROVE Inv'
  <2>1. UNCHANGED <<conf, now, server>>
    BY <1>2 DEF Connect
  <2>2. ServerInv(server)'
    BY <1>0, <2>1, SameTime
  <2>3. PICK id, creds, n, init :
          /\ init = create_init(<<c, n>>, conf.level, creds)
          /\ clients' = [clients EXCEPT ![c] = [Idle EXCEPT !.state = "AwaitingResponse", !.attempt = n,
                                             !.level = conf.level, !.eph = init.eph, !.random = init.random]]
          /\ net' = net \cup (IF conf.whole THEN {[from |-> c, to |-> Server, message |-> Message(init)]}
                              ELSE Fragments(c, Server, id, Message(init)))
    BY <1>2, Zenon DEF Connect
  <2>4. \A d \in net' : GoodDatagram(d, server.made)
    BY <1>0, <2>3, ConnectSends
  <2>5. ClientInv(clients'[c], c, server.made)
    <3>1. /\ DOMAIN clients'[c] = DOMAIN Idle /\ clients'[c].random = <<c, n>>
          /\ clients'[c].state = "AwaitingResponse" /\ clients'[c].reasm = EmptyReassembly
      BY <1>0, <2>3 DEF Idle, create_init
    <3> QED
      BY <3>1 DEF ClientInv, OnlyGood, EmptyReassembly
  <2> QED
    BY <1>0, <2>1, <2>2, <2>3, <2>4, <2>5 DEF Inv
<1>3. ASSUME NEW c \in Clients, ReceiveResponse(c) PROVE Inv'
  <2>1. UNCHANGED <<conf, now, server, net>> /\ clients[c].state = "AwaitingResponse"
    BY <1>3 DEF ReceiveResponse
  <2>2. ServerInv(server)'
    BY <1>0, <2>1, SameTime
  <2> DEFINE kept(o) == [clients[c] EXCEPT !.reasm = o.buffer]
             decided(o) == [process_response(kept(o), decode_handshake_response(o.message.parts))
                              EXCEPT !.reasm = EmptyReassembly]
  <2>0. PICK d \in net : d.to = c /\
          \E o \in insert(clients[c].reasm, ClientReassembly, Server, d.frag, now) :
            clients' = [clients EXCEPT ![c] = IF o.message = NoMessage THEN kept(o) ELSE decided(o)]
    BY <1>3 DEF ReceiveResponse
  <2>3. PICK o \in insert(clients[c].reasm, ClientReassembly, Server, d.frag, now) :
          clients' = [clients EXCEPT ![c] = IF o.message = NoMessage THEN kept(o) ELSE decided(o)]
    BY <2>0
  <2>4. GoodFragment(Server, d.frag, server.made)
    BY <1>0, <2>0, AddressAssumption DEF GoodDatagram
  <2>5. /\ OnlyGood(o.buffer, server.made)
        /\ o.message # NoMessage => GoodMessage(Server, o.message, server.made)
    BY Zenon, <1>0, <2>4, InsertOnlyGood DEF ClientInv
  <2>6. ClientInv(kept(o), c, server.made) /\ kept(o).state = "AwaitingResponse"
    BY <1>0, <2>1, <2>5 DEF ClientInv, Idle
  <2> HIDE DEF kept
  <2>7. o.message # NoMessage => ClientInv(decided(o), c, server.made)
    BY <2>5, <2>6, ResponseDecides
  <2> HIDE DEF decided
  <2> QED
    BY Zenon, <1>0, <2>1, <2>2, <2>3, <2>6, <2>7 DEF Inv
<1>4. ASSUME NEW c \in Clients, GiveUp(c) PROVE Inv'
  <2>1. UNCHANGED <<conf, now, server, net>>
    BY <1>4 DEF GiveUp
  <2>2. ServerInv(server)'
    BY <1>0, <2>1, SameTime
  <2>3. /\ \A x \in Clients : x # c => clients'[x] = clients[x]
        /\ DOMAIN clients' = Clients /\ DOMAIN clients'[c] = DOMAIN Idle
        /\ clients'[c].state = "Failed" /\ clients'[c].reasm = EmptyReassembly
    BY <1>0, <1>4 DEF GiveUp, ClientInv, Idle
  <2>4. ClientInv(clients'[c], c, server.made)
    BY <2>3 DEF ClientInv, OnlyGood, EmptyReassembly
  <2> QED
    BY <1>0, <2>1, <2>2, <2>3, <2>4 DEF Inv
<1>5. CASE Tick
  BY <1>0, <1>5, TickKeeps DEF Tick, Inv
<1>6. CASE UNCHANGED vars
  BY <1>0, <1>6, SameTime DEF vars, Inv
<1> QED
  BY <1>1, <1>2, <1>3, <1>4, <1>5, <1>6 DEF Next

(* The inductive invariant of the admission of clients. *)
THEOREM Invariance == Spec => []Inv
BY Initially, Step, PTL DEF Spec

-----------------------------------------------------------------------------
(* What follows *)

(* client.rs, perform_handshake: an established client holds the keys and the address
   of a session that the server made for that very attempt, however the pieces of
   other attempts were lost, repeated, delayed or mixed. *)
THEOREM ClientsAgree == Spec => []Agreement
<1>1. ASSUME Inv, NEW c \in Clients, clients[c].state = "Established"
      PROVE  \E m \in server.made : /\ m.id = clients[c].session /\ m.addr = c /\ m.random = clients[c].random
                                    /\ m.keys = clients[c].keys /\ m.config = clients[c].config
  <2>1. clients[c].random[1] = c
    BY <1>1 DEF Inv, ClientInv
  <2>2. PICK m \in server.made : /\ m.id = clients[c].session /\ m.random = clients[c].random
                                 /\ m.keys = clients[c].keys /\ m.config = clients[c].config
    BY Zenon, <1>1 DEF Inv, ClientInv
  <2>3. m.addr = m.random[1]
    BY Zenon, <1>1 DEF Inv, ServerInv, MadeInv
  <2> QED
    BY Zenon, <2>1, <2>2, <2>3
<1>2. Inv => Agreement
  BY Zenon, <1>1 DEF Agreement
<1> QED
  BY <1>2, Invariance, PTL

(* handshake_replay.rs, check_and_insert: two sessions for one client random are at
   least a replay TTL apart, for any capacity of the cache. *)
THEOREM ReplaysAreApart == Spec => []AdmittedOnce
<1>1. Inv => AdmittedOnce
  BY DEF Inv, ServerInv, ReplayInv, AdmittedOnce
<1> QED
  BY <1>1, Invariance, PTL

(* server.rs, handle_handshake_fragment and its two likes: an address's parsed inits
   and reassembly entries never outnumber the tokens it was granted. *)
THEOREM EntriesArePaid == Spec => []EveryEntryIsPaid
<1>1. Inv => EveryEntryIsPaid
  BY DEF Inv, ServerInv, PaidInv, Owed, Opener, EveryEntryIsPaid
<1> QED
  BY <1>1, Invariance, PTL

(* server.rs: off the portable path, a session in the table or in the AF_XDP workers'
   copy of it had its whole response sent. *)
THEOREM LeftSessionsWereAnswered == Spec => []SessionsWereAnswered
<1>1. Inv => SessionsWereAnswered
  BY DEF Inv, ServerInv, MadeInv, Answered, SessionsWereAnswered
<1> QED
  BY <1>1, Invariance, PTL

(* The failures within the last tuple_lockout_secs are among those the counter stands for. *)
LEMMA RecentFew ==
  ASSUME now \in Nat, NEW t, NEW F, CounterInv(t, F)
  PROVE  Cardinality(Recent(F, LockoutPolicy.tuple_lockout_secs, now)) <= LockoutPolicy.tuple_max_attempts
<1> DEFINE K == Standing(t)
           R == Recent(F, LockoutPolicy.tuple_lockout_secs, now)
           tail == (Len(F) - K + 1) .. Len(F)
<1>1. K \in Nat /\ K <= LockoutPolicy.tuple_max_attempts /\ Len(F) \in Nat /\ LockoutPolicy.tuple_max_attempts \in Nat
  BY LockoutAssumption DEF CounterInv, Standing
<1>2. \A i \in 1 .. Len(F) : F[i] \in Int
  BY DEF CounterInv
<1>3. \A i \in 1 .. Len(F) - K : now - F[i] >= LockoutPolicy.tuple_lockout_secs
  BY DEF CounterInv
<1> HIDE DEF K
<1>4. ASSUME NEW i \in R PROVE i \in tail
  <2>1. i \in 1 .. Len(F) /\ now - F[i] < LockoutPolicy.tuple_lockout_secs
    BY DEF Recent
  <2>2. i \notin 1 .. Len(F) - K
    BY <1>2, <1>3, <2>1, LockoutAssumption
  <2> QED
    BY <1>1, <2>1, <2>2
<1>5. IsFiniteSet(tail) /\ Cardinality(tail) \in Nat /\ Cardinality(tail) <= K
  <2>1. \A a, b \in Int : IsFiniteSet(a .. b) /\ Cardinality(a .. b) = IF a > b THEN 0 ELSE b - a + 1
    BY FS_Interval
  <2>2. Len(F) - K + 1 \in Int /\ Len(F) \in Int
    BY <1>1
  <2>3. IsFiniteSet(tail) /\ Cardinality(tail) = IF Len(F) - K + 1 > Len(F) THEN 0 ELSE Len(F) - (Len(F) - K + 1) + 1
    BY Zenon, <2>1, <2>2
  <2> HIDE DEF tail
  <2> QED
    BY <1>1, <2>3
<1> HIDE DEF R, tail
<1>6. Cardinality(R) \in Nat /\ Cardinality(R) <= Cardinality(tail)
  BY <1>4, <1>5, FS_Subset, FS_CardinalityType
<1> QED
  BY <1>1, <1>5, <1>6 DEF R

(* auth_lockout.rs, record_failure: with nothing evicted, an address fails at most
   tuple_max_attempts logins in any tuple_lockout_secs. *)
THEOREM GuessesStayBounded == Spec => []GuessesAreBounded
<1>1. Inv => GuessesAreBounded
  BY RecentFew DEF Inv, ServerInv, LockInv, GuessesAreBounded
<1> QED
  BY <1>1, Invariance, PTL
=============================================================================
