----------------------------- MODULE KeyObjects -----------------------------
(***************************************************************************)
(* The objects that hold a key or two and nothing that moves on: accounts  *)
(* with their identity keys, OlmPkSigning, OlmSAS, OlmPkEncryption with    *)
(* OlmPkDecryption, and the OlmUtility that verifies.  Alice and Bob have  *)
(* objects of one kind; keys are made, and made again, handed out and used *)
(* in any order, and nothing that was sent is forgotten by the network.    *)
(***************************************************************************)
EXTENDS Keys, Integers, FiniteSets

CONSTANTS Random,     \* strings of 32 random bytes; each is used once
          Message,
          MaxRandom,  \* bound: how many of them are used, for each kind
          MaxTexts    \* bound: the signatures or ciphertexts that are about, for each kind

ASSUME ZerosAssumption ==
  /\ Zeros \notin Random
  /\ \A seed \in Random : Hash(seed) # Zeros

VARIABLES
  kind,       \* "account", "signing", "sas" or "pk"
  signing,    \* the Ed25519 key pair of either end
  curve,      \* the Curve25519 key pair of either end
  secret,     \* OlmSAS.secret of either end
  recipient,  \* OlmPkEncryption.recipient_key, Bob's
  used,       \* the random bytes that were used
  handed,     \* the public keys that were handed out, with their curve
  texts,      \* the signatures and ciphertexts that were made
  made,       \* by which call the keys of either end were made last
  met,        \* the two public keys of the last exchange of either end
  chosen,     \* the recipient key that Bob's application set last
  answer      \* the last verification or decryption, and its result

objects == << kind, signing, curve, secret, recipient >>
known == << used, handed, texts, made, met, chosen >>
vars == << objects, known, answer >>

End == {"alice", "bob"}
Kind == {"account", "signing", "sas", "pk"}

None == [call |-> "none"]

Init ==
  /\ kind \in Kind
  /\ signing = [e \in End |-> [public |-> Zeros, private |-> << Zeros, Zeros >>]]
  /\ curve = [e \in End |-> [public |-> Zeros, private |-> Zeros]]
  /\ secret = [e \in End |-> {}]
  /\ recipient = Zeros
  /\ used = {} /\ handed = {} /\ texts = {}
  /\ made = [e \in End |-> "nothing"]
  /\ met = [e \in End |-> << >>]
  /\ chosen = Zeros
  /\ answer = None

Fresh == IF Cardinality(used) < MaxRandom[kind] THEN Random \ used ELSE {}
On(c, public) == [curve |-> c, key |-> public]
KeysOn(c) == { h.key : h \in { k \in handed : k.curve = c } }
-----------------------------------------------------------------------------
(* olm_create_account: either pair from its own part of the random bytes,  *)
(* which are told apart by what is made of them.                           *)
new_account(e) ==
  /\ kind = "account"
  /\ \E random \in Fresh :
       /\ signing' = [signing EXCEPT ![e] = crypto_ed25519_generate_key(random)]
       /\ curve' = [curve EXCEPT ![e] = crypto_curve25519_generate_key(random)]
       /\ used' = used \cup {random}
  /\ made' = [made EXCEPT ![e] = "olm_create_account"]
  /\ answer' = None
  /\ UNCHANGED << kind, secret, recipient, handed, texts, met, chosen >>

(* The Curve25519 pair after two or three of the calls of libsodium went   *)
(* well: the halves are written one after the other.                       *)
DerivedPair(pair, before, done) ==
  [ public  |-> IF done = 3 THEN crypto_sign_ed25519_pk_to_curve25519(pair.public)
                ELSE before.public,
    private |-> IF done >= 2 THEN crypto_sign_ed25519_sk_to_curve25519(pair.private)
                ELSE before.private ]

(* olm_create_account_derrived_keys: three calls of libsodium, each of     *)
(* which may fail and leaves what those before it wrote.                   *)
new_account_derrived_keys(e) ==
  /\ kind = "account"
  /\ \E seed \in Fresh, done \in 0..3 : \E pair \in { crypto_sign_seed_keypair(seed) } :
       /\ signing' = [signing EXCEPT ![e] = IF done >= 1 THEN pair ELSE @]
       /\ curve' = [curve EXCEPT ![e] = DerivedPair(pair, @, done)]
       /\ used' = used \cup {seed}
       /\ made' = [made EXCEPT ![e] = IF done = 3 THEN "olm_create_account_derrived_keys"
                                      ELSE "failed"]
  /\ answer' = None
  /\ UNCHANGED << kind, secret, recipient, handed, texts, met, chosen >>

(* olm_account_identity_keys. *)
identity_keys(e) ==
  /\ kind = "account"
  /\ handed' = handed \cup { On("ed25519", signing[e].public), On("curve25519", curve[e].public) }
  /\ answer' = None
  /\ UNCHANGED << objects, used, texts, made, met, chosen >>

(* olm_pk_signing_key_from_seed gives out the public key with the pair. *)
pk_signing_key_from_seed ==
  /\ kind = "signing"
  /\ \E seed \in Fresh : \E pair \in { crypto_ed25519_generate_key(seed) } :
       /\ signing' = [signing EXCEPT !.alice = pair]
       /\ used' = used \cup {seed}
       /\ handed' = handed \cup { On("ed25519", pair.public) }
  /\ made' = [made EXCEPT !.alice = "olm_pk_signing_key_from_seed"]
  /\ answer' = None
  /\ UNCHANGED << kind, curve, secret, recipient, texts, met, chosen >>

(* Mutant: accounts sign the way OlmPkSigning does. *)
SignatureOf_NoSodium(e, message) == crypto_ed25519_sign(signing[e], message)

(* olm_account_sign goes to libsodium, whatever made the key; olm_pk_sign  *)
(* to lib/ed25519.                                                         *)
SignatureOf(e, message) ==
  IF kind = "account" THEN crypto_sign(signing[e].private, message)
  ELSE crypto_ed25519_sign(signing[e], message)

sign(e, message) ==
  /\ kind = "account" \/ (kind = "signing" /\ e = "alice")
  /\ Cardinality(texts) < MaxTexts[kind]
  /\ texts' = texts \cup { [ signature |-> SignatureOf(e, message), message |-> message,
                             signer |-> signing[e].public, maker |-> made[e] ] }
  /\ answer' = None
  /\ UNCHANGED << objects, used, handed, made, met, chosen >>

(* olm_ed25519_verify with any key, message and signature that are about,  *)
(* the texts of key and signature being base64 of the right length.        *)
ed25519_verify ==
  /\ kind \in {"account", "signing"}
  /\ \E public \in KeysOn("ed25519"), message \in Message, text \in texts :
       answer' = [ call |-> "olm_ed25519_verify",
                   key |-> public, message |-> message, text |-> text,
                   result |-> IF crypto_ed25519_verify(public, message, text.signature)
                              THEN "SUCCESS" ELSE "BAD_MESSAGE_MAC" ]
  /\ UNCHANGED << objects, known >>
-----------------------------------------------------------------------------
(* olm_create_sas: the secret of an earlier exchange stays. *)
create_sas(e) ==
  /\ kind = "sas"
  /\ \E random \in Fresh :
       /\ curve' = [curve EXCEPT ![e] = crypto_curve25519_generate_key(random)]
       /\ used' = used \cup {random}
  /\ made' = [made EXCEPT ![e] = "olm_create_sas"]
  /\ answer' = None
  /\ UNCHANGED << kind, signing, secret, recipient, handed, texts, met, chosen >>

(* olm_sas_get_pubkey, also before there is one. *)
sas_get_pubkey(e) ==
  /\ kind = "sas"
  /\ handed' = handed \cup { On("curve25519", curve[e].public) }
  /\ answer' = None
  /\ UNCHANGED << objects, used, texts, made, met, chosen >>

(* Mutant: once there is a secret it is kept. *)
SasSecret_FirstStays(e, their_key) ==
  IF secret[e] # {} THEN secret[e] ELSE crypto_curve25519_shared_secret(curve[e], their_key)

SasSecret(e, their_key) == crypto_curve25519_shared_secret(curve[e], their_key)

(* olm_sas_set_their_key: a text that is not base64 is taken for a key. *)
sas_set_their_key(e) ==
  /\ kind = "sas"
  /\ \E text \in KeysOn("curve25519") : \E their_key \in {text, Garbled(text)} :
       /\ secret' = [secret EXCEPT ![e] = SasSecret(e, their_key)]
       /\ met' = [met EXCEPT ![e] = << curve[e].public, their_key >>]
  /\ answer' = None
  /\ UNCHANGED << kind, signing, curve, recipient, used, handed, texts, made, chosen >>

(* What olm_sas_generate_bytes and olm_sas_calculate_mac compute, for the  *)
(* same info, and for the same input, at both ends.                        *)
GeneratedBytes(e, info) == << "hkdf", secret[e], info >>
CalculatedMac(e, input, info) == << "hmac", << "hkdf", secret[e], info >>, input >>
-----------------------------------------------------------------------------
(* olm_pk_key_from_private gives out the public key with the pair. *)
pk_key_from_private ==
  /\ kind = "pk"
  /\ \E random \in Fresh :
       /\ curve' = [curve EXCEPT !.alice = crypto_curve25519_generate_key(random)]
       /\ used' = used \cup {random}
       /\ handed' = handed \cup { On("curve25519", random) }
  /\ made' = [made EXCEPT !.alice = "olm_pk_key_from_private"]
  /\ answer' = None
  /\ UNCHANGED << kind, signing, secret, recipient, texts, met, chosen >>

(* olm_pk_encryption_set_recipient_key. *)
pk_encryption_set_recipient_key ==
  /\ kind = "pk"
  /\ \E key \in KeysOn("curve25519") : recipient' = key /\ chosen' = key
  /\ answer' = None
  /\ UNCHANGED << kind, signing, curve, secret, used, handed, texts, made, met >>

(* olm_pk_encrypt: one secret for each message.  The MAC depends on the    *)
(* secret only: the buffer that the cipher computes it over is its own.    *)
pk_encrypt(message) ==
  /\ kind = "pk"
  /\ Cardinality(texts) < MaxTexts[kind]
  /\ \E random \in Fresh : \E ephemeral \in { crypto_curve25519_generate_key(random) } :
       \E s \in { crypto_curve25519_shared_secret(ephemeral, recipient) } :
         /\ texts' = texts \cup { [ ephemeral_key |-> ephemeral.public, mac |-> s,
                                    ciphertext |-> << s, message >>,
                                    message |-> message, to |-> chosen ] }
         /\ used' = used \cup {random}
  /\ answer' = None
  /\ UNCHANGED << objects, handed, made, met, chosen >>

(* Mutant: the MAC is not compared. *)
pk_decrypted_MacIgnored(text) ==
  LET s == crypto_curve25519_shared_secret(curve.alice, text.ephemeral_key)
  IN IF text.ciphertext[1] = s THEN {text.ciphertext[2]} ELSE {"garbage", "BAD_MESSAGE_MAC"}

(* The results olm_pk_decrypt may have: of bytes that this secret did not  *)
(* encrypt, padding that is wrong or a plaintext that nobody wrote.        *)
pk_decrypted(text) ==
  LET s == crypto_curve25519_shared_secret(curve.alice, text.ephemeral_key)
  IN CASE text.mac # s           -> {"BAD_MESSAGE_MAC"}
       [] text.ciphertext[1] = s -> {text.ciphertext[2]}
       [] OTHER                  -> {"garbage", "BAD_MESSAGE_MAC"}

Damaged(text) == [text EXCEPT !.ciphertext[1] = {Garbled("ciphertext")}]

(* olm_pk_decrypt, of a ciphertext as it was made or damaged on its way. *)
pk_decrypt ==
  /\ kind = "pk"
  /\ \E text \in texts : \E got \in {text, Damaged(text)} : \E result \in pk_decrypted(got) :
       answer' = [ call |-> "olm_pk_decrypt", text |-> got, whole |-> got = text,
                   result |-> result ]
  /\ UNCHANGED << objects, known >>
-----------------------------------------------------------------------------
(* The errors of calls whose buffers are too short, or whose key or        *)
(* signature has a wrong length: they return before they change anything.  *)
Refusals ==
  [ account |-> {"NOT_ENOUGH_RANDOM", "OUTPUT_BUFFER_TOO_SMALL", "INVALID_BASE64",
                 "BAD_MESSAGE_MAC"},
    signing |-> {"INPUT_BUFFER_TOO_SMALL", "OUTPUT_BUFFER_TOO_SMALL", "INVALID_BASE64",
                 "BAD_MESSAGE_MAC"},
    sas     |-> {"NOT_ENOUGH_RANDOM", "INPUT_BUFFER_TOO_SMALL", "OUTPUT_BUFFER_TOO_SMALL"},
    pk      |-> {"NOT_ENOUGH_RANDOM", "INPUT_BUFFER_TOO_SMALL", "OUTPUT_BUFFER_TOO_SMALL"} ]

refused ==
  /\ \E error \in Refusals[kind] : answer' = [call |-> "refused", result |-> error]
  /\ UNCHANGED << objects, known >>

Next ==
  \/ \E e \in End :
       \/ new_account(e) \/ new_account_derrived_keys(e) \/ identity_keys(e)
       \/ create_sas(e) \/ sas_get_pubkey(e) \/ sas_set_their_key(e)
       \/ \E message \in Message : sign(e, message)
  \/ pk_signing_key_from_seed \/ ed25519_verify
  \/ pk_key_from_private \/ pk_encryption_set_recipient_key \/ pk_decrypt
  \/ \E message \in Message : pk_encrypt(message)
  \/ refused

Spec == Init /\ [][Next]_vars
-----------------------------------------------------------------------------
Created(e) == made[e] \notin {"nothing", "failed"}

SasAgrees ==
  LET x == met.alice  y == met.bob
      same == x = << y[2], y[1] >>
  IN x # << >> /\ y # << >> /\ Zeros \notin {x[1], x[2], y[1], y[2]} =>
       /\ GeneratedBytes("alice", "info") = GeneratedBytes("bob", "info") <=> same
       /\ CalculatedMac("alice", "input", "info") = CalculatedMac("bob", "input", "info") <=> same

AccountsAgree ==
  Created("alice") /\ Created("bob") =>
    crypto_curve25519_shared_secret(curve.alice, curve.bob.public)
      = crypto_curve25519_shared_secret(curve.bob, curve.alice.public)

(* Two ends that last gave each other the keys they had compute the same   *)
(* secret, and other ends never do, in whatever order keys were made, made *)
(* again, handed out and set (sas.c; exchanges of an object that had no    *)
(* key yet are left aside).  Two accounts whose creation succeeded agree,  *)
(* by either way of creating them, also over what an attempt that failed   *)
(* half-way left behind (account.cpp).                                     *)
ExchangeAgrees == (kind = "sas" => SasAgrees) /\ (kind = "account" => AccountsAgree)

ByOwnKeys == {"olm_create_account_derrived_keys", "olm_pk_signing_key_from_seed"}

(* A signature verifies with the key that its signer had, and the message, *)
(* and with no other: account.cpp and libsodium for accounts with derived  *)
(* keys, pk.cpp and lib/ed25519 for OlmPkSigning, olm_ed25519_verify.      *)
SignaturesTellTheSigner ==
  answer.call = "olm_ed25519_verify" /\ answer.text.maker \in ByOwnKeys =>
    (answer.result = "SUCCESS" <=>
       answer.key = answer.text.signer /\ answer.message = answer.text.message)

(* A ciphertext is decrypted to its message as long as the object has the  *)
(* key it was made for, and refused after another key was made, or set     *)
(* (pk.cpp).  Nothing is said of one that was damaged.                     *)
CiphertextsFindTheirKey ==
  answer.call = "olm_pk_decrypt" /\ answer.whole /\ answer.text.to # Zeros =>
    answer.result = IF curve.alice.public = answer.text.to THEN answer.text.message
                    ELSE "BAD_MESSAGE_MAC"

(* "Signs a message with the ed25519 key for this account" (olm.h), and    *)
(* the test test_olm_signature.cpp: a signature of an account created by   *)
(* olm_create_account verifies with its identity key.                      *)
AccountSignaturesVerify ==
  answer.call = "olm_ed25519_verify" /\ answer.text.maker = "olm_create_account" =>
    (answer.key = answer.text.signer /\ answer.message = answer.text.message
       => answer.result = "SUCCESS")
=============================================================================
