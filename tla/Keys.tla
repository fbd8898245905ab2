-------------------------------- MODULE Keys --------------------------------
(***************************************************************************)
(* Keys of Curve25519 and Ed25519 as the terms they are computed by.  The  *)
(* scalar that belongs to a public key stands for the key, on either       *)
(* curve.  Two libraries make and use Ed25519 keys: the one under          *)
(* lib/ed25519, which stores a private key expanded, and libsodium, which  *)
(* stores the seed and the public key; both take 64 bytes.                 *)
(***************************************************************************)
CONSTANT Zeros   \* 32 zero bytes: the keys of a new object

Hash(seed) == << "hash", seed >>      \* a half of the SHA-512 of 32 bytes, as a scalar
Prefix(seed) == << "prefix", seed >>  \* the other half
Garbled(text) == << "garbled", text >>  \* what a text that is not base64 decodes to

(* 32 bytes are a private key of Curve25519 as they stand. *)
crypto_curve25519_generate_key(random) == [public |-> random, private |-> random]

(* Either party of an exchange computes the same from its own private key; *)
(* with a public key of zeros everybody gets zeros, here the empty set.    *)
crypto_curve25519_shared_secret(pair, public) ==
  IF public = Zeros THEN {} ELSE { pair.private, public }

crypto_ed25519_generate_key(seed) ==
  [public |-> Hash(seed), private |-> << Hash(seed), Prefix(seed) >>]

crypto_sign_seed_keypair(seed) == [public |-> Hash(seed), private |-> << seed, Hash(seed) >>]

(* The conversion to a Curve25519 key hashes the first half, the seed of a *)
(* key of libsodium; a public key is converted to that of its scalar.      *)
crypto_sign_ed25519_sk_to_curve25519(private) == Hash(private[1])
crypto_sign_ed25519_pk_to_curve25519(public) == public

(* A signature is made with a scalar and bound to a public key and a       *)
(* message: an expanded private key begins with the scalar, the public key *)
(* comes with it; of a key of libsodium both are computed from the halves. *)
crypto_ed25519_sign(pair, message) ==
  [scalar |-> pair.private[1], bound |-> pair.public, message |-> message]

crypto_sign(private, message) ==
  [scalar |-> Hash(private[1]), bound |-> private[2], message |-> message]

crypto_ed25519_verify(public, message, signature) ==
  signature = [scalar |-> public, bound |-> public, message |-> message]
=============================================================================
