------------------------------ MODULE Handshake ------------------------------
(***************************************************************************)
(* The messages of hpn-core/src/protocol/handshake.rs and what the two     *)
(* ends compute from them.  Keys, ciphertexts, signatures and MACs are     *)
(* terms: equal when they were made from equal inputs.                     *)
(*                                                                         *)
(* A client's ephemeral key is a pair of halves, because a plain init is   *)
(* cut inside its key: a message put together from two attempts carries a  *)
(* key that neither attempt knows.                                         *)
(***************************************************************************)
EXTENDS Integers

\* The client's half: a key, a random and a state.
create_init(id, level, creds) ==
  [level |-> level, eph |-> <<id, id>>, random |-> id, creds |-> creds]

\* HybridKem: the secret of the pair (key, coins); decapsulating with another key yields a
\* secret nobody else has.
encapsulate(eph, coins) == [to |-> eph, coins |-> coins]
SecretOf(ct) == <<"shared", ct.to, ct.coins>>
decapsulate(eph, ct) == IF ct.to = eph THEN SecretOf(ct) ELSE <<"rejected", eph, ct.coins>>

derive_session_keys_with_context(secret, session, timestamp) ==
  [secret |-> secret, session |-> session, timestamp |-> timestamp]

build_transcript(session, client_random, server_random, ct, config) ==
  [session |-> session, client_random |-> client_random, server_random |-> server_random,
   ct |-> ct, config |-> config]

sign(pk, transcript) == [pk |-> pk, over |-> transcript]
compute_key_confirmation(keys, transcript) == [keys |-> keys, over |-> transcript]
verify_key_confirmation(keys, transcript, mac) == mac = compute_key_confirmation(keys, transcript)

\* The server's static key of a level.
keypair_for_level(level) == <<"server", level>>

\* process_init: the response, its authentication made for a configuration without addresses.
process_init(init, session, config, now) ==
  LET ct == encapsulate(init.eph, session)
      keys == derive_session_keys_with_context(SecretOf(ct), session, now)
      transcript == build_transcript(session, init.random, session, ct, config)
      pk == keypair_for_level(init.level)
  IN  [session |-> session, ct |-> ct, pk |-> pk, signature |-> sign(pk, transcript),
       server_random |-> session, config |-> config,
       key_confirmation |-> compute_key_confirmation(keys, transcript),
       kdf_timestamp |-> now]

ServerKeys(r) == derive_session_keys_with_context(SecretOf(r.ct), r.session, r.kdf_timestamp)

\* The addresses are filled in and both proofs made again.
refresh_handshake_response_auth(r, client_random, config) ==
  LET transcript == build_transcript(r.session, client_random, r.server_random, r.ct, config)
  IN  [r EXCEPT !.config = config, !.signature = sign(r.pk, transcript),
                !.key_confirmation = compute_key_confirmation(ServerKeys(r), transcript)]

\* Mutant: the transcript is not tied to the attempt, and the confirmation is not checked.
process_responseUnbound(h, r) ==
  IF r.pk # keypair_for_level(h.level) \/ r.signature.pk # r.pk THEN [h EXCEPT !.state = "Failed"]
  ELSE [h EXCEPT !.state = "Established", !.session = r.session, !.config = r.config,
                 !.keys = derive_session_keys_with_context(decapsulate(h.eph, r.ct), r.session, r.kdf_timestamp)]

\* process_response: pinned key, signature over the client's own random, decapsulation, key
\* confirmation; any failure ends the attempt.
process_response(h, r) ==
  LET transcript == build_transcript(r.session, h.random, r.server_random, r.ct, r.config)
      keys == derive_session_keys_with_context(decapsulate(h.eph, r.ct), r.session, r.kdf_timestamp)
  IN  IF \/ h.state # "AwaitingResponse"
         \/ r.pk # keypair_for_level(h.level)
         \/ r.signature # sign(r.pk, transcript)
         \/ ~verify_key_confirmation(keys, transcript, r.key_confirmation)
      THEN [h EXCEPT !.state = "Failed"]
      ELSE [h EXCEPT !.state = "Established", !.session = r.session, !.keys = keys,
                     !.config = r.config]
=============================================================================
