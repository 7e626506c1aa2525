------------------------------- MODULE Crypto -------------------------------
(***************************************************************************)
(* The cryptography of client/crypto.py, as far as the handshake and the   *)
(* tunnel depend on it.  A key pair is named by its public key, an integer *)
(* (the 32 raw bytes read as a big-endian number: comparing the bytes      *)
(* lexicographically compares the numbers).  The primitives are ideal: a   *)
(* derived key is the tuple of everything HKDF was fed, so two derivations *)
(* give the same key exactly when they agree on all of it, and AES-GCM     *)
(* opens a packet only under the key that sealed it.                       *)
(***************************************************************************)
EXTENDS Integers

\* X25519: the secret two key pairs share does not depend on which side
\* computes it.
Exchange(mine, peer) == {mine, peer}

HKDF(secret, nonce, info) == [secret |-> secret, salt |-> nonce, info |-> info]

-----------------------------------------------------------------------------
(* A mutated form of DeriveSessionKeys. *)

\* Both sides take the initiator's role.
DeriveSessionKeys_OneRole(mine, peer, nonce) ==
  [encrypt_key |-> HKDF(Exchange(mine, peer), nonce, "vpn-key-1"),
   decrypt_key |-> HKDF(Exchange(mine, peer), nonce, "vpn-key-2")]

-----------------------------------------------------------------------------
\* KeyExchange.derive_session_keys: two keys from one secret, and the side
\* with the smaller public key encrypts with the first.
DeriveSessionKeys(mine, peer, nonce) ==
  LET secret == Exchange(mine, peer)
      key1   == HKDF(secret, nonce, "vpn-key-1")
      key2   == HKDF(secret, nonce, "vpn-key-2")
  IN  IF mine < peer THEN [encrypt_key |-> key1, decrypt_key |-> key2]
                     ELSE [encrypt_key |-> key2, decrypt_key |-> key1]

\* The keys of the other end of a session.
Opposite(keys) ==
  [encrypt_key |-> keys.decrypt_key, decrypt_key |-> keys.encrypt_key]

\* The two keys of a session, as a set.
KeysOf(keys) == {keys.encrypt_key, keys.decrypt_key}

\* CryptoManager.encrypt.  The random nonce prepended to the packet is left
\* out: nothing in the program looks at it.
Encrypt(key, plaintext) == [key |-> key, plaintext |-> plaintext]

\* CryptoManager.decrypt returns the plaintext, or raises ValueError.
Decrypts(key, packet) == packet.key = key
=============================================================================
