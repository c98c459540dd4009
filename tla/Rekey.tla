------------------------------- MODULE Rekey -------------------------------
(***************************************************************************)
(* Changing the keys of a session: ClientRekey and process_rekey of        *)
(* hpn-core, between VpnClient and the server's handlers, with the terms   *)
(* of Handshake for what they compute.  SecureSession has the packets and  *)
(* counters of a session; here are the signatures, the transcripts and the *)
(* two key derivations that SecureSession takes for granted.               *)
(***************************************************************************)
EXTENDS Handshake

CONSTANTS
  MaxSessions,   \* bound on the sessions the client has, one after the other
  MaxRequests,   \* bound on its rekey requests
  Times          \* what the server's clock may read

VARIABLES
  client,    \* VpnClient: session, keys, key identifier, rekey_handler, rekey_in_progress
  server,    \* session -> keys and key identifier
  net,       \* packets sent; each may arrive late, more than once or never
  fresh      \* randoms drawn so far

vars == <<client, server, net, fresh>>

Level == "server"

\* ClientRekey before create_request and after its parts were taken.
NoRequest == [pair |-> 0, random |-> 0]
ClientRekey_new(session) == [session |-> session, request |-> NoRequest]
NoHandler == ClientRekey_new(0)

FirstKeys(session) == derive_session_keys_with_context(<<"shared", 0, session>>, session, 0)

Init == /\ client = [session |-> 1, keys |-> FirstKeys(1), key_id |-> 0, handler |-> NoHandler,
                     in_progress |-> FALSE]
        /\ server = [s \in 1 .. MaxSessions |-> [keys |-> FirstKeys(s), key_id |-> 0]]
        /\ net = {}
        /\ fresh = 0

build_rekey_transcript(session, client_random, server_random, ct) ==
  [purpose |-> "HPN-REKEY-V1", session |-> session, client_random |-> client_random,
   server_random |-> server_random, ct |-> ct]

-----------------------------------------------------------------------------
(* The request *)

RekeyMessage_new(pk, random) == [client_ephemeral_pk |-> pk, client_random |-> random]

create_request(handler, n) == [handler EXCEPT !.request = [pair |-> n, random |-> n]]

\* The handler is in place before the packet is sent; a send that fails clears it again.
initiate_rekey ==
  /\ ~client.in_progress
  /\ fresh < MaxRequests
  /\ fresh' = fresh + 1
  /\ \E sends \in BOOLEAN :
       LET handler == create_request(ClientRekey_new(client.session), fresh')
           message == RekeyMessage_new(handler.request.pair, handler.request.random)
       IN IF sends
          THEN /\ client' = [client EXCEPT !.handler = handler, !.in_progress = TRUE]
               /\ net' = net \cup {[to |-> "server", session |-> client.session,
                                    sealed |-> client.keys, body |-> message]}
          ELSE client' = [client EXCEPT !.handler = NoHandler, !.in_progress = FALSE] /\ UNCHANGED net
  /\ UNCHANGED server

\* The request takes too long.
clear_rekey_state ==
  /\ client.in_progress
  /\ client' = [client EXCEPT !.handler = NoHandler, !.in_progress = FALSE]
  /\ UNCHANGED <<server, net, fresh>>

-----------------------------------------------------------------------------
(* The server *)

\* The response and the keys it stands for.  The random is drawn for this response alone.
process_rekey(rekey, key_id, session, now) ==
  LET server_random == <<"server", rekey.client_random, key_id, now>>
      ct == encapsulate(rekey.client_ephemeral_pk, server_random)
      transcript == build_rekey_transcript(session, rekey.client_random, server_random, ct)
      keys == derive_session_keys_with_context(SecretOf(ct), session, now)
      pk == keypair_for_level(Level)
  IN [response |-> [ct |-> ct, signature |-> sign(pk, transcript), server_random |-> server_random,
                    new_key_id |-> key_id + 1,
                    key_confirmation |-> compute_key_confirmation(keys, transcript),
                    kdf_timestamp |-> now, session |-> session],
      keys |-> keys]

\* The answer is sealed with the keys it replaces.
handle_rekey(p) ==
  /\ p.to = "server" /\ p.sealed = server[p.session].keys
  /\ \E now \in Times :
       LET s == server[p.session]
           made == process_rekey(p.body, s.key_id, p.session, now)
       IN /\ server' = [server EXCEPT ![p.session] = [keys |-> made.keys, key_id |-> s.key_id + 1]]
          /\ net' = net \cup {[to |-> "client", session |-> p.session, sealed |-> s.keys,
                               body |-> made.response]}
  /\ UNCHANGED <<client, fresh>>

-----------------------------------------------------------------------------
(* The response *)

\* Mutant: the errors of the two checks are dropped.
process_responseUnchecked(handler, response) ==
  LET secret == decapsulate(handler.request.pair, response.ct)
  IN [ok |-> handler.request # NoRequest,
      keys |-> derive_session_keys_with_context(secret, response.session, response.kdf_timestamp)]

\* The session of the transcript is the handler's; the session of the keys is the response's.
ClientRekey_process_response(handler, response) ==
  LET transcript == build_rekey_transcript(handler.session, handler.request.random,
                                           response.server_random, response.ct)
      secret == decapsulate(handler.request.pair, response.ct)
      keys == derive_session_keys_with_context(secret, response.session, response.kdf_timestamp)
  IN [ok |-> /\ handler.request # NoRequest
             /\ response.signature = sign(keypair_for_level(Level), transcript)
             /\ verify_key_confirmation(keys, transcript, response.key_confirmation),
      keys |-> keys]

\* Whatever the outcome, the request is used up; only success ends rekey_in_progress.
process_rekey_response(p) ==
  /\ p.to = "client" /\ p.session = client.session /\ p.sealed = client.keys
  /\ LET result == ClientRekey_process_response(client.handler, p.body)
     IN client' = IF client.handler = NoHandler THEN client
                  ELSE IF result.ok
                  THEN [client EXCEPT !.keys = result.keys, !.key_id = @ + 1, !.handler = NoHandler,
                                      !.in_progress = FALSE]
                  ELSE [client EXCEPT !.handler.request = NoRequest]
  /\ UNCHANGED <<server, net, fresh>>

\* The client connects again: another session, and a request in flight is forgotten.
Reconnect ==
  /\ client.session < MaxSessions
  /\ client' = [session |-> client.session + 1, keys |-> FirstKeys(client.session + 1), key_id |-> 0,
                handler |-> NoHandler, in_progress |-> FALSE]
  /\ UNCHANGED <<server, net, fresh>>

Next == \/ initiate_rekey \/ clear_rekey_state \/ Reconnect
        \/ \E p \in net : handle_rekey(p) \/ process_rekey_response(p)

Spec == Init /\ [][Next]_vars

-----------------------------------------------------------------------------

\* Requests given up and made again, answers that come late, twice or in a later session: when client
\* and server of a session stand at the same key identifier they hold the same keys, and the client
\* is never ahead of the server.  (A late answer to an earlier request opens, because the client
\* still has the keys it was sealed with, and it must be the transcript that turns it away.)
RekeyAgrees ==
  LET s == server[client.session]
  IN /\ client.key_id <= s.key_id
     /\ client.key_id = s.key_id => client.keys = s.keys
=============================================================================
