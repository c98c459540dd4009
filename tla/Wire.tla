-------------------------------- MODULE Wire --------------------------------
(***************************************************************************)
(* The codecs of the wire formats.                                         *)
(*                                                                         *)
(* A decoder is the sequence of the steps its from_bytes takes, in order:  *)
(* a length check that refuses (Need), an index or a slice that would      *)
(* panic past the end of the buffer (Reads), a check of a value (Valid), a *)
(* decoder run on an inner slice (Slice), and an early Ok for an older     *)
(* layout (OkBelow).  The steps depend on the field values found in the    *)
(* buffer (the parameter f); what they do then depends on its length only. *)
(* An encoder is the number of bytes its to_bytes writes.                  *)
(***************************************************************************)
EXTENDS Integers, Sequences, FiniteSetsExt

Step(op, at, ok) == [op |-> op, at |-> at, ok |-> ok]

Need(n) == Step("need", n, TRUE)
Reads(n) == Step("read", n, TRUE)
Valid(b) == Step("valid", 0, b)
OkBelow(n) == Step("okbelow", n, TRUE)

\* A step that settles what the decoder returns on a buffer of len bytes.
Settles(s, len) ==
  \/ s.op \in {"need", "read", "okbelow"} /\ len < s.at
  \/ s.op \in {"valid", "slice"} /\ ~s.ok

Outcome(steps, len) ==
  LET settled == {i \in DOMAIN steps : Settles(steps[i], len)}
  IN  IF settled = {} THEN "ok"
      ELSE LET s == steps[Min(settled)]
           IN  CASE s.op = "okbelow" -> "ok"
                 [] s.op = "read" \/ (s.op = "slice" /\ s.at < 0) -> "panic"
                 [] OTHER -> "refused"

\* A decoder applied to an inner slice of exactly n bytes ...
Inner(o) == Step("slice", IF o = "panic" THEN -1 ELSE 0, o = "ok")
Slice(steps, n) == Inner(Outcome(steps, n))

\* ... and to the rest of the buffer from offset off on.
Rest(steps, off) ==
  [i \in DOMAIN steps |->
     IF steps[i].op \in {"need", "read", "okbelow"}
     THEN [steps[i] EXCEPT !.at = @ + off] ELSE steps[i]]

-----------------------------------------------------------------------------
(* Sizes by security level. 0 stands for a level byte that is neither 3 nor 5. *)

LEVELS == {3, 5}

mlkem_public_key_size(l) == IF l = 3 THEN 1184 ELSE 1568
mlkem_secret_key_size(l) == IF l = 3 THEN 2400 ELSE 3168
mlkem_ciphertext_size(l) == IF l = 3 THEN 1088 ELSE 1568
mldsa_public_key_size(l) == IF l = 3 THEN 1952 ELSE 2592
mldsa_signature_size(l) == IF l = 3 THEN 3309 ELSE 4627
hybrid_public_key_size(l) == 32 + mlkem_public_key_size(l)
hybrid_ciphertext_size(l) == 32 + mlkem_ciphertext_size(l)

TAG_SIZE == 16
SessionIdSize == 8
MAX_DNS_SERVERS == 8
MAX_CONTROL_MESSAGE_LEN == 1024
MAX_USERNAME_LEN == 64
MAX_PASSWORD_LEN == 256
MAX_HYBRID_CIPHERTEXT_LEN == 2048
MAX_CREDENTIALS_PAYLOAD_LEN == 4096
MAX_CONFIG_LEN == 4096
FRAGMENT_HEADER_SIZE == 11
MAX_FRAGMENT_PAYLOAD == 1165
MAX_FRAGMENTS_PER_HANDSHAKE == 32
FRAGMENTATION_THRESHOLD == 1176
MAX_PAYLOAD_LEN == 65536

-----------------------------------------------------------------------------
(* Keys, ciphertexts and signatures. *)

MlKemPublicKey_from_bytes_strict(l) ==
  <<Need(mlkem_public_key_size(l))>>

HybridPublicKey_from_bytes(l) ==
  <<Need(1), Reads(1), Valid(l \in LEVELS), Need(1 + hybrid_public_key_size(l)), Reads(33),
    Reads(33 + mlkem_public_key_size(l)),
    Slice(MlKemPublicKey_from_bytes_strict(l), mlkem_public_key_size(l))>>

HybridPublicKey_from_bytes_with_level(l) ==
  <<Need(hybrid_public_key_size(l)), Reads(32), Reads(32 + mlkem_public_key_size(l)),
    Slice(MlKemPublicKey_from_bytes_strict(l), mlkem_public_key_size(l))>>

HybridPublicKey_to_bytes(l) == 1 + 32 + mlkem_public_key_size(l)

HybridSecretKey_from_bytes(l) ==
  <<Need(1), Reads(1), Valid(l \in LEVELS), Need(33 + mlkem_secret_key_size(l)), Reads(33),
    Reads(33 + mlkem_secret_key_size(l))>>

HybridSecretKey_to_bytes(l) == 1 + 32 + mlkem_secret_key_size(l)

HybridCiphertext_from_bytes(l) ==
  <<Need(1), Reads(1), Valid(l \in LEVELS), Need(1 + hybrid_ciphertext_size(l)), Reads(33),
    Reads(33 + mlkem_ciphertext_size(l))>>

HybridCiphertext_from_bytes_with_level(l) ==
  <<Need(hybrid_ciphertext_size(l)), Reads(32), Reads(32 + mlkem_ciphertext_size(l))>>

HybridCiphertext_to_bytes(l) == 1 + 32 + mlkem_ciphertext_size(l)

\* MlDsaSignature::from_bytes_with_level refuses every size but its level's.
MlDsaSignature_from_bytes_with_level(n, l) == Valid(n = mldsa_signature_size(l))

\* MlDsaPublicKey::from_bytes takes the size of either level.
MlDsaPublicKey_from_bytes(n) == Valid(n \in {mldsa_public_key_size(l) : l \in LEVELS})

-----------------------------------------------------------------------------
(* The packet header, the fragments and the length-prefixed helper. *)

HEADER_SIZE == 24
HEADER_SIZE_WITH_TIMESTAMP == 32

\* f: the version, the type, the flag bits and the reserved byte are known; timestamp flag.
PacketHeader_decode(f) ==
  <<Need(HEADER_SIZE), Reads(4), Valid(f.wellFormed), Reads(HEADER_SIZE)>>
  \o IF f.timestamp THEN <<Need(HEADER_SIZE_WITH_TIMESTAMP), Reads(HEADER_SIZE_WITH_TIMESTAMP)>>
     ELSE <<>>

PacketHeader_encode(m) == IF m.timestamp THEN HEADER_SIZE_WITH_TIMESTAMP ELSE HEADER_SIZE

HandshakeFragment_from_bytes(f) ==
  <<Need(FRAGMENT_HEADER_SIZE), Reads(1), Valid(f.wellFormed), Reads(FRAGMENT_HEADER_SIZE),
    Valid(f.total \in 1..MAX_FRAGMENTS_PER_HANDSHAKE), Valid(f.index < f.total),
    Valid(f.payload <= MAX_FRAGMENT_PAYLOAD), Need(FRAGMENT_HEADER_SIZE + f.payload),
    Reads(FRAGMENT_HEADER_SIZE + f.payload)>>

HandshakeFragment_to_bytes(m) == FRAGMENT_HEADER_SIZE + m.payload

\* Mutant: the count is not rounded up.
split_payloadRoundedDown(n) ==
  LET required == n \div MAX_FRAGMENT_PAYLOAD
  IN  IF n = 0 \/ required > MAX_FRAGMENTS_PER_HANDSHAKE THEN <<>>
      ELSE [i \in 1..required |-> [wellFormed |-> TRUE, index |-> i - 1, total |-> required,
                                  payload |-> MAX_FRAGMENT_PAYLOAD]]

\* split_payload: the fragment sizes of a payload of n bytes, or "refused".
split_payload(n) ==
  LET required == (n + MAX_FRAGMENT_PAYLOAD - 1) \div MAX_FRAGMENT_PAYLOAD
  IN  IF n = 0 \/ required > MAX_FRAGMENTS_PER_HANDSHAKE THEN <<>>
      ELSE [i \in 1..required |->
              [wellFormed |-> TRUE, index |-> i - 1, total |-> required,
               payload |-> IF i < required THEN MAX_FRAGMENT_PAYLOAD
                           ELSE n - (required - 1) * MAX_FRAGMENT_PAYLOAD]]

read_length_prefixed(f) ==
  <<Need(f.off + 2), Reads(f.off + 2), Need(f.off + 2 + f.len), Reads(f.off + 2 + f.len)>>

write_length_prefixed(m) == m.off + 2 + m.len

-----------------------------------------------------------------------------
(* The handshake messages. *)

\* f.ct, f.payload: the two length fields; f.inner: the level byte of the inner ciphertext.
EncryptedCredentials_from_bytes(f) ==
  <<Need(4), Reads(2), Valid(f.ct <= MAX_HYBRID_CIPHERTEXT_LEN), Need(2 + f.ct + 2),
    Slice(HybridCiphertext_from_bytes(f.inner), f.ct), Reads(2 + f.ct + 2),
    Valid(f.payload <= MAX_CREDENTIALS_PAYLOAD_LEN), Need(4 + f.ct + f.payload),
    Reads(4 + f.ct + f.payload)>>

EncryptedCredentials_to_bytes(m) == 2 + m.ct + 2 + m.payload

\* encrypt: a name and a password within their bounds become name, NUL, password and a tag.
EncryptedCredentials_encrypt(user, password, l) ==
  [ok |-> user <= MAX_USERNAME_LEN /\ password <= MAX_PASSWORD_LEN,
   user |-> user, password |-> password, ct |-> HybridCiphertext_to_bytes(l), inner |-> l,
   payload |-> user + 1 + password + TAG_SIZE]

\* decrypt takes the tag off and splits at the first NUL (at: its position, or no position in
\* the plaintext), within the same bounds.
EncryptedCredentials_decrypt(payload, at) ==
  LET plain == payload - TAG_SIZE
      rest == plain - at - 1
  IN  [ok |-> plain >= 0 /\ at < plain /\ at <= MAX_USERNAME_LEN /\ rest <= MAX_PASSWORD_LEN,
       user |-> at, password |-> rest]

HandshakeInit_from_bytes(f) ==
  LET pk == hybrid_public_key_size(f.level)
      legacy_size == 1 + pk + 32
      creds_offset == legacy_size + 1
  IN  <<Need(1), Reads(1), Valid(f.level \in LEVELS), Need(legacy_size), Reads(1 + pk),
        Slice(HybridPublicKey_from_bytes_with_level(f.level), pk), Reads(legacy_size),
        OkBelow(creds_offset), Reads(creds_offset)>>
      \o IF f.has_credentials
         THEN <<Need(creds_offset + 1)>> \o Rest(EncryptedCredentials_from_bytes(f.creds), creds_offset)
         ELSE <<>>

HandshakeInit_to_bytes(m) ==
  1 + hybrid_public_key_size(m.level) + 32 + 1
    + IF m.has_credentials THEN EncryptedCredentials_to_bytes(m.creds) ELSE 0

EncryptedHandshakeInit_from_bytes(f) ==
  <<Need(3), Reads(1), Valid(f.level \in LEVELS), Reads(3),
    Valid(f.ct <= MAX_HYBRID_CIPHERTEXT_LEN), Need(3 + f.ct), Reads(3 + f.ct),
    Slice(HybridCiphertext_from_bytes(f.inner), f.ct), Need(3 + f.ct + TAG_SIZE)>>

EncryptedHandshakeInit_to_bytes(m) == 3 + m.ct + m.payload

\* encrypt: the inner message is encrypted whole under the encapsulated secret.
EncryptedHandshakeInit_encrypt(init) ==
  [level |-> init.level, ct |-> HybridCiphertext_to_bytes(init.level), inner |-> init.level,
   payload |-> HandshakeInit_to_bytes(init) + TAG_SIZE]

-----------------------------------------------------------------------------
(* The tunnel configuration. dns, dns6: the lengths of the two lists of DNS servers. *)

NONE == "none"
NO_PREFIX == -1

\* The fields written: the list lengths as one byte each; without a client IPv6 address the rest
\* of the IPv6 section is left out, and a missing prefix or gateway is written as 64 and zeroes.
TunnelConfig_to_bytes(c) ==
  IF c.client_ipv6 = NONE
  THEN [dns |-> c.dns % 256, client_ipv6 |-> NONE, prefix |-> NO_PREFIX, gateway |-> NONE, dns6 |-> 0]
  ELSE [dns |-> c.dns % 256, client_ipv6 |-> c.client_ipv6,
        prefix |-> IF c.prefix = NO_PREFIX THEN 64 ELSE c.prefix,
        gateway |-> IF c.gateway = NONE THEN "zeroes" ELSE c.gateway, dns6 |-> c.dns6 % 256]

TunnelConfigSize(c) ==
  13 + 4 * c.dns + 2 + IF c.client_ipv6 = NONE THEN 1 ELSE 1 + 16 + 1 + 16 + 1 + 16 * c.dns6

\* Mutant: the lengths are checked once, for the IPv4 part.
TunnelConfig_from_bytesCheckedOnce(f) ==
  LET v6 == 13 + 4 * f.dns + 1
      end == IF f.client_ipv6 = NONE THEN v6 ELSE v6 + 34 + 16 * f.dns6
  IN  <<Need(16), Reads(13), Valid(f.dns <= MAX_DNS_SERVERS), Need(v6 + 2), Reads(v6), Reads(end + 2)>>

TunnelConfig_from_bytes(f) ==
  LET v6 == 13 + 4 * f.dns + 1
      end == IF f.client_ipv6 = NONE THEN v6 ELSE v6 + 34 + 16 * f.dns6
  IN  <<Need(16), Reads(13), Valid(f.dns <= MAX_DNS_SERVERS), Need(v6 + 2), Reads(v6)>>
      \o (IF f.client_ipv6 = NONE THEN <<>>
          ELSE <<Need(v6 + 34 + 2), Reads(v6 + 34), Valid(f.dns6 <= MAX_DNS_SERVERS),
                 Need(end + 2), Reads(end)>>)
      \o <<Need(end + 2), Reads(end + 2)>>

\* Mutant: the prefix is not taken over.
TunnelConfigValueNoPrefix(f) ==
  [dns |-> f.dns, client_ipv6 |-> f.client_ipv6, prefix |-> NO_PREFIX, gateway |-> f.gateway,
   dns6 |-> f.dns6]

\* The configuration from_bytes builds: with the IPv6 flag set every IPv6 field is present.
TunnelConfigValue(f) ==
  [dns |-> f.dns, client_ipv6 |-> f.client_ipv6, prefix |-> f.prefix, gateway |-> f.gateway,
   dns6 |-> f.dns6]

\* build_transcript: the configuration enters the signed transcript as its own to_bytes, which
\* the client computes anew from what it decoded.
build_transcript(f) == TunnelConfig_to_bytes(TunnelConfigValue(f))

\* config: the bytes of the configuration, of config_len bytes.
HandshakeResponse_from_bytes_with_level(f, l) ==
  LET ct == SessionIdSize + hybrid_ciphertext_size(l)
      pk == ct + mldsa_public_key_size(l)
      sig == pk + mldsa_signature_size(l)
      config == sig + 32 + 4
  IN  <<Need(SessionIdSize), Reads(SessionIdSize), Need(ct),
        Slice(HybridCiphertext_from_bytes_with_level(l), hybrid_ciphertext_size(l)), Need(pk),
        MlDsaPublicKey_from_bytes(mldsa_public_key_size(l)), Need(sig), Reads(sig),
        MlDsaSignature_from_bytes_with_level(mldsa_signature_size(l), l), Need(sig + 32),
        Reads(sig + 32), Need(config), Reads(config), Valid(f.config_len <= MAX_CONFIG_LEN),
        Need(config + f.config_len), Slice(TunnelConfig_from_bytes(f.config), f.config_len),
        Need(config + f.config_len + 32), Reads(config + f.config_len + 32),
        Need(config + f.config_len + 40), Reads(config + f.config_len + 40)>>

HandshakeResponse_session_id_from_bytes == <<Need(SessionIdSize), Reads(SessionIdSize)>>

HandshakeResponse_to_bytes(m) ==
  SessionIdSize + hybrid_ciphertext_size(m.level) + mldsa_public_key_size(m.level)
    + mldsa_signature_size(m.level) + 32 + 4 + TunnelConfigSize(m.config) + 32 + 8

-----------------------------------------------------------------------------
(* Messages of an established session. *)

KeepaliveMessage_from_bytes == <<Need(4), Reads(4)>>

KeepaliveReplyMessage_from_bytes == <<Need(12), Reads(12)>>

AddrSize(family) == IF family = 4 THEN 4 ELSE 16

SignedRebindAckPayload_from_bytes(f) ==
  LET addr_end == 10 + AddrSize(f.family) + 2
      sig == mldsa_signature_size(f.level)
  IN  <<Need(1 + 8 + 1 + 4 + 2 + mldsa_signature_size(3)), Reads(1), Valid(f.level \in LEVELS),
        Reads(10), Valid(f.family \in {4, 6}), Need(addr_end), Reads(addr_end),
        Need(addr_end + sig), Reads(addr_end + sig), MlDsaSignature_from_bytes_with_level(sig, f.level)>>

SignedRebindAckPayload_to_bytes(m) ==
  1 + 8 + 1 + AddrSize(m.family) + 2 + mldsa_signature_size(m.level)

\* f.msg, f.sig: the length fields of the text and of the signed block.
ControlMessage_from_bytes(f) ==
  LET signed == 5 + f.msg
  IN  <<Need(5), Reads(1), Valid(f.wellFormed), Reads(5), Valid(f.msg <= MAX_CONTROL_MESSAGE_LEN),
        Need(signed), Reads(signed), OkBelow(signed + 2), Reads(signed + 2)>>
      \o IF f.sig = 0 THEN <<>>
         ELSE <<Need(signed + 2 + f.sig), Reads(signed + 2 + f.sig),
                Slice(SignedRebindAckPayload_from_bytes(f.ack), f.sig)>>

\* m.text: the length of the message, cut to its maximum; m.ack: the signed payload or NONE.
ControlMessageFields(m) ==
  [wellFormed |-> TRUE,
   msg |-> IF m.text > MAX_CONTROL_MESSAGE_LEN THEN MAX_CONTROL_MESSAGE_LEN ELSE m.text,
   sig |-> IF m.ack = {} THEN 0 ELSE SignedRebindAckPayload_to_bytes(CHOOSE a \in m.ack : TRUE),
   ack |-> IF m.ack = {} THEN [family |-> 4, level |-> 3] ELSE CHOOSE a \in m.ack : TRUE]

ControlMessage_to_bytes(m) ==
  5 + ControlMessageFields(m).msg + IF m.ack = {} THEN 0 ELSE 2 + ControlMessageFields(m).sig

\* A first byte that is no level is taken for the start of an older message without a level byte.
RekeyMessage_from_bytes(f) ==
  LET l == IF f.level \in LEVELS THEN f.level ELSE 3
      off == IF f.level \in LEVELS THEN 1 ELSE 0
      min_size == off + hybrid_public_key_size(l) + 32
  IN  <<Need(1), Reads(1), Need(min_size), Reads(off + hybrid_public_key_size(l)),
        Slice(HybridPublicKey_from_bytes_with_level(l), hybrid_public_key_size(l)), Reads(min_size)>>

RekeyMessage_to_bytes(m) == 1 + hybrid_public_key_size(m.level) + 32

RekeyResponse_from_bytes_with_level(l) ==
  LET ct == hybrid_ciphertext_size(l)
      sig == ct + mldsa_signature_size(l)
      min_size == sig + 32 + 4 + 32 + 8 + SessionIdSize
  IN  <<Need(min_size), Slice(HybridCiphertext_from_bytes_with_level(l), ct), Reads(sig),
        MlDsaSignature_from_bytes_with_level(mldsa_signature_size(l), l), Reads(min_size)>>

RekeyResponse_to_bytes(m) ==
  hybrid_ciphertext_size(m.level) + mldsa_signature_size(m.level) + 32 + 4 + 32 + 8 + SessionIdSize

CookieRequest_from_bytes == <<Need(57), Reads(57)>>

CookieRequest_to_bytes == 32 + 1 + 16 + 8

CookieReply_from_bytes(f) == <<Need(40), Reads(40)>> \o Rest(HandshakeInit_from_bytes(f), 40)

CookieReply_to_bytes(m) == 32 + 8 + HandshakeInit_to_bytes(m)
-----------------------------------------------------------------------------
(* Files and the client's NAT messages. *)

ENVELOPE_HEADER_SIZE == 4 + 1 + 3 + 32 + 4

\* f.wellFormed: magic, version and reserved bytes; f.json: the length field; f.mac: the tag fits.
unwrap_payload(f) ==
  <<Need(ENVELOPE_HEADER_SIZE), Reads(8), Valid(f.wellFormed), Reads(ENVELOPE_HEADER_SIZE),
    Valid(f.json <= MAX_PAYLOAD_LEN), Need(ENVELOPE_HEADER_SIZE + f.json),
    Reads(ENVELOPE_HEADER_SIZE + f.json), Valid(f.mac)>>

\* wrap: nothing is written for a payload above the maximum.
wrap(m) == IF m.json > MAX_PAYLOAD_LEN THEN 0 ELSE 8 + 32 + 4 + m.json

\* f: the five length fields. The length of the issuer is read without a check of its own.
Certificate_from_bytes(f) ==
  LET issuer == 6 + f.subject
      times == issuer + 2 + f.issuer
      pk == times + 16 + 3
      ext == pk + f.pk + 2
      sig == ext + f.ext + 3
  IN  <<Need(20), Reads(2), Valid(f.wellFormed), Reads(6), Need(issuer), Reads(issuer),
        Reads(issuer + 2), Need(times), Reads(times), Need(times + 16), Reads(times + 16),
        Need(pk), Reads(pk), Need(pk + f.pk), Reads(pk + f.pk), Need(ext), Reads(ext),
        Need(ext + f.ext), Reads(ext + f.ext), Need(sig), Reads(sig), Need(sig + f.sig),
        Reads(sig + f.sig)>>

Certificate_to_be_signed(m) == 4 + 2 + m.subject + 2 + m.issuer + 16 + 1 + 2 + m.pk + 2 + m.ext

Certificate_to_bytes(m) == Certificate_to_be_signed(m) + 1 + 2 + m.sig

HolePunchMessage_from_bytes(f) == <<Need(29), Reads(1), Valid(f.wellFormed), Reads(29)>>

HolePunchMessage_to_bytes == 1 + 16 + 4 + 8

\* parse_endpoint from offset off: the family byte, then 6 or 18 bytes.
parse_endpoint(family, off) ==
  <<Need(off + 1), Reads(off + 1), Valid(family \in {4, 6}), Need(off + 1 + AddrSize(family) + 2),
    Reads(off + 1 + AddrSize(family) + 2)>>

\* f.private: the family of the private endpoint, 0 when there is none.  The byte that says
\* whether there is one is read without a check of its own.
RendezvousInfo_from_bytes(f) ==
  LET private == 16 + 1 + AddrSize(f.public) + 2
      nat == IF f.private = 0 THEN private + 1 ELSE private + 2 + AddrSize(f.private) + 2
  IN  <<Need(24), Reads(16)>> \o parse_endpoint(f.public, 16) \o <<Reads(private + 1)>>
      \o (IF f.private = 0 THEN <<>> ELSE parse_endpoint(f.private, private + 1))
      \o <<Need(nat + 1), Reads(nat + 1), Need(nat + 1 + 8), Reads(nat + 1 + 8)>>

RendezvousInfo_to_bytes(m) ==
  16 + 1 + AddrSize(m.public) + 2
    + (IF m.private = 0 THEN 1 ELSE 2 + AddrSize(m.private) + 2) + 1 + 8

STUN_HEADER_SIZE == 20

\* An address attribute of n bytes of the given family: the checks come before every index.
parse_mapped_address(family, n) ==
  Outcome(<<Need(8), Reads(8), Valid(family \in {1, 2})>>
          \o IF family = 2 THEN <<Need(20), Reads(20)>> ELSE <<>>, n)

\* The attributes from number i on, the loop standing at offset off of attrs_end: an attribute
\* that runs past the end stops the loop, an address that parses ends it, and the step to the
\* next one is rounded up to a multiple of four.
RECURSIVE StunAttributes(_, _, _, _)
StunAttributes(attrs, i, off, attrs_end) ==
  IF i > Len(attrs) \/ off + 4 > attrs_end THEN <<Valid(FALSE)>>
  ELSE LET a == attrs[i]
           at == off + 4
           o == parse_mapped_address(a.family, a.len)
       IN  <<Reads(at)>>
           \o IF at + a.len > attrs_end THEN <<Valid(FALSE)>>
              ELSE <<Reads(at + a.len)>>
                   \o IF a.address /\ o # "refused" THEN <<Inner(o)>>
                      ELSE StunAttributes(attrs, i + 1, at + ((a.len + 3) \div 4) * 4, attrs_end)

parse_binding_response(f) ==
  <<Need(STUN_HEADER_SIZE), Reads(STUN_HEADER_SIZE), Valid(f.wellFormed),
    Need(STUN_HEADER_SIZE + f.msg_len)>>
  \o StunAttributes(f.attrs, 1, STUN_HEADER_SIZE, STUN_HEADER_SIZE + f.msg_len)
-----------------------------------------------------------------------------
(* What the encoders send, and what a decoder may find in a buffer. *)

Credentials == {EncryptedCredentials_encrypt(u, p, l) : u \in {1, MAX_USERNAME_LEN},
                                                        p \in {0, MAX_PASSWORD_LEN}, l \in LEVELS}
Inits == {[level |-> c.inner, has_credentials |-> h, creds |-> c] : c \in Credentials, h \in BOOLEAN}
\* The server's configuration bounds neither list of name servers.  Bound: each has below 256
\* entries, so that its length fits the byte it is written to.
Configs == [dns : {0, 1, MAX_DNS_SERVERS, MAX_DNS_SERVERS + 1, 255}, client_ipv6 : {NONE, "v6"},
            prefix : {NO_PREFIX, 64, 120}, gateway : {NONE, "gateway"},
            dns6 : {0, MAX_DNS_SERVERS, MAX_DNS_SERVERS + 1, 255}]
Acks == [family : {4, 6}, level : LEVELS]
Controls == [text : {0, 1, MAX_CONTROL_MESSAGE_LEN, 2000}, ack : {{}} \cup {{a} : a \in Acks}]
Certificates == [wellFormed : {TRUE}, subject : {1, 12}, issuer : {6}, ext : {0},
                 pk : {mldsa_public_key_size(l) : l \in LEVELS},
                 sig : {mldsa_signature_size(l) : l \in LEVELS}]

\* An encoded message: its size, the steps of its decoder, and the shorter sizes the decoder
\* takes: those of an older layout, and those whose last part is an encrypted payload, which
\* only its tag can show to be cut.  over: it exceeds a limit that only the decoder has.
\* unchecked: the lengths at which the decoder indexes past the end, having made no check for what
\* it reads there.
Sent(size, steps, old) ==
  [sent |-> TRUE, handshake |-> FALSE, over |-> FALSE, size |-> size, steps |-> steps, old |-> old,
   unchecked |-> {}]

\* The length of the issuer, and the byte that says whether there is a private endpoint, are read
\* after the check of the part before them and of the least size of the whole.
CertificateUnchecked(f) == {n \in (6 + f.subject)..(7 + f.subject) : n >= 20}
RendezvousUnchecked(f) == {n \in {19 + AddrSize(f.public)} : n >= 24}

\* More name servers than MAX_DNS_SERVERS, of a family that is written.
TooManyServers(c) == c.dns > MAX_DNS_SERVERS \/ (c.client_ipv6 # NONE /\ c.dns6 > MAX_DNS_SERVERS)

\* What the server decrypts from the credentials of a handshake is what the user typed.
CredentialsSurvive(c) ==
  Valid(LET d == EncryptedCredentials_decrypt(c.payload, c.user)
        IN  d.ok /\ d.user = c.user /\ d.password = c.password)

SentHandshakes ==
  {Sent(HandshakeInit_to_bytes(m), HandshakeInit_from_bytes(m) \o <<CredentialsSurvive(m.creds)>>,
        {1 + hybrid_public_key_size(m.level) + 32}) : m \in Inits}
  \cup {LET e == EncryptedHandshakeInit_encrypt(m)
        IN  Sent(EncryptedHandshakeInit_to_bytes(e), EncryptedHandshakeInit_from_bytes(e),
                 (3 + e.ct + TAG_SIZE)..EncryptedHandshakeInit_to_bytes(e)) : m \in Inits}
  \cup {LET f == [config_len |-> TunnelConfigSize(c), config |-> TunnelConfig_to_bytes(c)]
        IN  [Sent(HandshakeResponse_to_bytes([level |-> l, config |-> c]),
                  HandshakeResponse_from_bytes_with_level(f, l)
                    \o <<Valid(build_transcript(f.config) = f.config)>>, {})
               EXCEPT !.over = TooManyServers(c)] : c \in Configs, l \in LEVELS}

SentFragments(n) ==
  {Sent(HandshakeFragment_to_bytes(split_payload(n)[i]),
        HandshakeFragment_from_bytes(split_payload(n)[i]), {}) : i \in DOMAIN split_payload(n)}

SentInSession ==
  {Sent(ControlMessage_to_bytes(m), ControlMessage_from_bytes(ControlMessageFields(m)),
        {5 + ControlMessageFields(m).msg, 6 + ControlMessageFields(m).msg}) : m \in Controls}
  \cup {Sent(RekeyMessage_to_bytes(m), RekeyMessage_from_bytes(m), {}) : m \in [level : LEVELS]}
  \cup {Sent(RekeyResponse_to_bytes(m), RekeyResponse_from_bytes_with_level(m.level), {}) :
          m \in [level : LEVELS]}
  \cup {Sent(CookieReply_to_bytes(m), CookieReply_from_bytes(m),
             {40 + 1 + hybrid_public_key_size(m.level) + 32}) : m \in Inits}
  \cup {Sent(CookieRequest_to_bytes, CookieRequest_from_bytes, {})}
  \cup {Sent(PacketHeader_encode(m), PacketHeader_decode(m), {}) :
          m \in [wellFormed : {TRUE}, timestamp : BOOLEAN]}

SentElsewhere ==
  {Sent(wrap(m), unwrap_payload(m), {}) :
     m \in [wellFormed : {TRUE}, mac : {TRUE}, json : {0, 300, MAX_PAYLOAD_LEN}]}
  \cup {[Sent(Certificate_to_bytes(m), Certificate_from_bytes(m), {})
           EXCEPT !.unchecked = CertificateUnchecked(m)] : m \in Certificates}
  \cup {Sent(HolePunchMessage_to_bytes, HolePunchMessage_from_bytes([wellFormed |-> TRUE]), {})}
  \cup {[Sent(RendezvousInfo_to_bytes(m), RendezvousInfo_from_bytes(m), {})
           EXCEPT !.unchecked = RendezvousUnchecked(m)] :
          m \in [public : {4, 6}, private : {0, 4, 6}]}
  \cup {Sent(HybridPublicKey_to_bytes(l), HybridPublicKey_from_bytes(l), {}) : l \in LEVELS}
  \cup {Sent(HybridSecretKey_to_bytes(l), HybridSecretKey_from_bytes(l), {}) : l \in LEVELS}
  \cup {Sent(write_length_prefixed(m), read_length_prefixed(m), {}) :
          m \in [off : {0, 3}, len : {0, 1, 65535}]}

\* Field values a decoder may find, none of which need agree with the length of the buffer.
AnyLevel == {0, 3, 5}
AnyCreds == [ct : {0, 1, 1121, 1122, 1601, 2048, 2049, 65535}, inner : AnyLevel,
             payload : {0, 15, 4096, 4097}]
AnyConfig == [dns : {0, 8, 9, 255}, client_ipv6 : {NONE, "v6"}, prefix : {64}, gateway : {"gateway"},
              dns6 : {0, 8, 9, 255}]

\* Decoders of what a peer sends.
PeerDecoders ==
  {HandshakeInit_from_bytes([level |-> l, has_credentials |-> h, creds |-> c]) :
     l \in AnyLevel, h \in BOOLEAN, c \in AnyCreds}
  \cup {EncryptedHandshakeInit_from_bytes([level |-> l, ct |-> c.ct, inner |-> c.inner]) :
          l \in AnyLevel, c \in AnyCreds}
  \cup {HandshakeResponse_from_bytes_with_level([config_len |-> n, config |-> c], l) :
          n \in {0, 15, 16, 20, 52, 4096, 4097}, c \in AnyConfig, l \in LEVELS}
  \cup {CookieReply_from_bytes([level |-> l, has_credentials |-> h, creds |-> c]) :
          l \in AnyLevel, h \in BOOLEAN, c \in {d \in AnyCreds : d.inner = 3}}
  \cup {ControlMessage_from_bytes([wellFormed |-> w, msg |-> n, sig |-> g, ack |-> a]) :
          w \in BOOLEAN, n \in {0, 1, 1024, 1025}, g \in {0, 1, 3325, 3336, 3337, 4643, 65535},
          a \in [family : {4, 6, 9}, level : AnyLevel]}
  \cup {RekeyMessage_from_bytes([level |-> l]) : l \in AnyLevel}
  \cup {RekeyResponse_from_bytes_with_level(l) : l \in LEVELS}
  \cup {HandshakeFragment_from_bytes(f) :
          f \in [wellFormed : BOOLEAN, total : {0, 1, 32, 33}, index : {0, 31, 32},
                 payload : {0, 1, 1165, 1166}]}
  \cup {PacketHeader_decode(f) : f \in [wellFormed : BOOLEAN, timestamp : BOOLEAN]}
  \cup {HandshakeResponse_session_id_from_bytes, KeepaliveMessage_from_bytes,
        KeepaliveReplyMessage_from_bytes, CookieRequest_from_bytes}
  \cup {parse_binding_response([wellFormed |-> w, msg_len |-> n, attrs |-> a]) :
          w \in BOOLEAN, n \in {0, 3, 4, 11, 12, 24, 65535},
          a \in {<<x, y>> : x, y \in [address : BOOLEAN, family : {1, 2, 3}, len : {0, 7, 8, 19, 20}]}}
  \cup {HolePunchMessage_from_bytes([wellFormed |-> w]) : w \in BOOLEAN}

\* Decoders of key, configuration and other files.
FileDecoders ==
  {HybridPublicKey_from_bytes(l) : l \in AnyLevel} \cup {HybridSecretKey_from_bytes(l) : l \in AnyLevel}
  \cup {unwrap_payload(f) : f \in [wellFormed : BOOLEAN, json : {0, 1, 65536, 65537}, mac : BOOLEAN]}
  \cup {read_length_prefixed(f) : f \in [off : {0, 3}, len : {0, 1, 65535}]}

-----------------------------------------------------------------------------
(* A buffer is encoded or arrives, may be cut on the way, and is decoded. *)

VARIABLES message, len, result

vars == <<message, len, result>>

\* The buffer lengths at which some step of a decoder changes its mind.
Cuts(steps) == {n \in {steps[i].at - k : i \in DOMAIN steps, k \in 0..1} : n >= 0}

\* A buffer that need not come from an encoder.
Found(steps, unchecked) ==
  [sent |-> FALSE, handshake |-> FALSE, over |-> FALSE, size |-> Max(Cuts(steps)), steps |-> steps,
   old |-> {}, unchecked |-> unchecked]

FoundUnchecked ==
  {Found(Certificate_from_bytes(f), CertificateUnchecked(f)) :
     f \in [wellFormed : BOOLEAN, subject : {0, 12, 13, 14, 65535}, issuer : {0, 6, 65535},
            pk : {0, 1952, 65535}, ext : {0, 1}, sig : {0, 3309, 65535}]}
  \cup {Found(RendezvousInfo_from_bytes(f), RendezvousUnchecked(f)) :
          f \in [public : {4, 6, 9}, private : {0, 4, 6, 9}]}

Init ==
  /\ message \in {[m EXCEPT !.handshake = TRUE] : m \in SentHandshakes} \cup SentInSession \cup SentElsewhere
                 \cup {Found(steps, {}) : steps \in PeerDecoders \cup FileDecoders} \cup FoundUnchecked
  /\ len = message.size
  /\ result = "none"

Cut ==
  /\ result = "none" /\ len = message.size
  /\ len' \in {n \in Cuts(message.steps) : n < len}
  /\ UNCHANGED <<message, result>>

Decode ==
  /\ result = "none"
  /\ result' = Outcome(message.steps, len)
  /\ UNCHANGED <<message, len>>

Next == Cut \/ Decode

Spec == Init /\ [][Next]_vars

-----------------------------------------------------------------------------
(* Properties. *)

\* A decoder of what a peer sends, or of a key, certificate or configuration file, indexes past
\* the end of its buffer, whatever lengths the buffer declares and wherever it is cut, at two
\* places only: Certificate::from_bytes when the buffer ends at the length of the issuer
\* (pki.rs:336), and RendezvousInfo::from_bytes when it ends after a public IPv6 endpoint
\* (nat.rs:1106).  Every other from_bytes refuses a short buffer before it reads it.
DecodersStayInBounds == result = "panic" => len \in message.unchecked

\* Everything to_bytes can write from_bytes takes back whole, at either security level, with the
\* longest credentials, configuration and text the encoders allow: the server decrypts the name
\* and password that were typed, and the client rebuilds the transcript that was signed.  A
\* message cut short is refused unless it is then complete in an older layout, or its encrypted
\* part is what is cut.  The one limit the decoder has and the encoder has not is that of eight
\* name servers (messages.rs:1294, 1343): the answer of a server configured with more is refused.
EncodedIsDecoded ==
  message.sent /\ result # "none" =>
    (result = "ok" <=> (len = message.size \/ len \in message.old) /\ ~message.over)

\* Every handshake message the code can build fits the fragment count, and its fragments carry
\* all of it in datagrams below the threshold, so the largest one still reaches the peer.
HandshakesFitFragments ==
  message.handshake /\ result = "none" /\ len = message.size =>
    LET fs == split_payload(message.size)
    IN  /\ fs # <<>>
        /\ MapThenSumSet(LAMBDA i : fs[i].payload, DOMAIN fs) = message.size
        /\ \A d \in SentFragments(message.size) :
             d.size <= FRAGMENTATION_THRESHOLD /\ Outcome(d.steps, d.size) = "ok"
=============================================================================
