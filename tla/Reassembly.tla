----------------------------- MODULE Reassembly -----------------------------
(***************************************************************************)
(* The reassembly buffer of hpn-core/src/protocol/fragment.rs, which the   *)
(* server keeps for all its clients and the client for one response.       *)
(*                                                                         *)
(* A buffer is a record [entries, total_bytes]; an entry is a record [key, *)
(* inner, total, chunks, bytes, first_seen], chunks a function from the    *)
(* indices received to their payloads.  A fragment is a record [frag_id,   *)
(* inner, index, total, payload, bytes].  The limits are a record of the   *)
(* fields of ReassemblerConfig.                                            *)
(***************************************************************************)
EXTENDS Integers, FiniteSetsExt

CONSTANT NoMessage    \* insert has nothing to deliver

EmptyReassembly == [entries |-> {}, total_bytes |-> 0]

Bytes(es) == MapThenSumSet(LAMBDA e : e.bytes, es)

contains(r, key) == \E e \in r.entries : e.key = key

EntryOf(r, key) == CHOOSE e \in r.entries : e.key = key

\* Mutant: the entries leave and their bytes stay accounted.
debit_bytesForgotten(r, es) == [r EXCEPT !.entries = @ \ es]

\* The entries es leave the map and their bytes the total.
debit_bytes(r, es) ==
  [entries |-> r.entries \ es,
   total_bytes |-> IF r.total_bytes < Bytes(es) THEN 0 ELSE r.total_bytes - Bytes(es)]

purge_expired(r, limits, now) ==
  debit_bytes(r, {e \in r.entries : now - e.first_seen > limits.ttl})

Full(r, limits) ==
  Cardinality(r.entries) >= limits.max_entries \/ r.total_bytes >= limits.max_total_bytes

\* The buffers the eviction of the oldest entries, one by one until a new one fits, may leave:
\* entries of the same age go in either order.
enforce_caps_for_new_entry(r, limits) ==
  {debit_bytes(r, es) : es \in
     {es \in SUBSET r.entries :
        /\ \A e \in es, f \in r.entries \ es : e.first_seen <= f.first_seen
        /\ ~Full(debit_bytes(r, es), limits) \/ es = r.entries
        /\ es = {} \/ \E last \in es : /\ \A e \in es : e.first_seen <= last.first_seen
                                        /\ Full(debit_bytes(r, es \ {last}), limits)}}

\* The message whose chunks are all there.
reassemble(e) == [inner |-> e.inner, parts |-> e.chunks]

Outcomes(rs) == {[buffer |-> r, message |-> NoMessage] : r \in rs}

\* A fragment of an entry that is there.
insert_existing(r, limits, key, f) ==
  LET e == EntryOf(r, key)
      grown == [e EXCEPT !.chunks = [i \in DOMAIN e.chunks \cup {f.index} |->
                                       IF i = f.index THEN f.payload ELSE e.chunks[i]],
                         !.bytes = @ + f.bytes]
  IN  IF e.total # f.total \/ e.inner # f.inner THEN Outcomes({debit_bytes(r, {e})})
      ELSE IF f.index \in DOMAIN e.chunks THEN Outcomes({r})
      ELSE IF grown.bytes > limits.max_entry_bytes THEN Outcomes({debit_bytes(r, {e})})
      ELSE LET kept == [entries |-> (r.entries \ {e}) \cup {grown},
                        total_bytes |-> r.total_bytes + f.bytes]
           IN  IF Cardinality(DOMAIN grown.chunks) = f.total
               THEN {[buffer |-> debit_bytes(kept, {grown}), message |-> reassemble(grown)]}
               ELSE Outcomes({kept})

\* The first fragment of an entry.
insert_new(r, limits, key, f, now) ==
  LET e == [key |-> key, inner |-> f.inner, total |-> f.total, bytes |-> f.bytes,
            chunks |-> [i \in {f.index} |-> f.payload], first_seen |-> now]
  IN  {IF f.total = 1 THEN [buffer |-> s, message |-> reassemble(e)]
       ELSE [buffer |-> [entries |-> s.entries \cup {e}, total_bytes |-> s.total_bytes + f.bytes],
             message |-> NoMessage] : s \in enforce_caps_for_new_entry(r, limits)}

\* insert: the buffers it may leave and the message each delivers.
insert(r, limits, source, f, now) ==
  LET purged == purge_expired(r, limits, now)
      key == <<source, f.frag_id>>
  IN  IF f.total = 0 \/ f.total > limits.max_fragments_per_entry
         \/ f.total * limits.max_payload > limits.max_entry_bytes
      THEN Outcomes({purged})
      ELSE IF contains(purged, key) THEN insert_existing(purged, limits, key, f)
      ELSE insert_new(purged, limits, key, f, now)
=============================================================================
