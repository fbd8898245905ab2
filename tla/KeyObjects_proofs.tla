------------------------- MODULE KeyObjects_proofs -------------------------
(***************************************************************************)
(* The three properties of KeyObjects, for any number of random strings,   *)
(* messages, texts and repetitions.                                        *)
(*                                                                         *)
(* They speak of the last call and the last exchange.  What makes them so  *)
(* is in the invariant: a private key that was made completely belongs to  *)
(* its public key, in the format of the library that will use it; what is  *)
(* about was made from such keys; and no end ever has a key of the other.  *)
(***************************************************************************)
EXTENDS KeyObjects, TLAPS

Shapes ==
  /\ kind \in Kind
  /\ DOMAIN signing = End /\ DOMAIN curve = End /\ DOMAIN secret = End
  /\ DOMAIN made = End /\ DOMAIN met = End
  /\ used \subseteq Random

(* The key pairs that sign are in the format of the library they go to. *)
SigningPairs ==
  \A e \in End :
    /\ made[e] = "olm_create_account_derrived_keys" =>
         /\ kind = "account"
         /\ signing[e].public = Hash(signing[e].private[1])
         /\ signing[e].private[2] = signing[e].public
    /\ made[e] = "olm_pk_signing_key_from_seed" =>
         /\ kind = "signing"
         /\ signing[e].private[1] = signing[e].public

Signatures ==
  kind \in {"account", "signing"} =>
    \A t \in texts : t.maker \in ByOwnKeys =>
      t.signature = [scalar |-> t.signer, bound |-> t.signer, message |-> t.message]

CurvePairs ==
  \A e \in End :
    /\ kind \in {"sas", "pk"} => curve[e].public = curve[e].private
    /\ kind = "account" /\ Created(e) =>
         curve[e].public = curve[e].private /\ curve[e].public # Zeros

(* The keys of end e: the one it has, and the one of its last exchange. *)
Own(e) == {curve[e].public} \cup (IF met[e] = << >> THEN {} ELSE {met[e][1]})

Exchanges ==
  kind = "sas" =>
    /\ \A e \in End : Own(e) \subseteq used \cup {Zeros}
    /\ Own("alice") \cap Own("bob") \subseteq {Zeros}
    /\ \A e \in End : met[e] # << >> =>
         /\ met[e] = << met[e][1], met[e][2] >>
         /\ met[e][2] # Zeros => secret[e] = {met[e][1], met[e][2]}

Ciphertexts ==
  kind = "pk" =>
    /\ recipient = chosen
    /\ \A t \in texts :
         /\ t.ephemeral_key \in Random
         /\ t.ciphertext = << t.mac, t.message >>
         /\ t.to # Zeros => t.mac = {t.ephemeral_key, t.to}

KeyInv ==
  Shapes /\ SigningPairs /\ Signatures /\ CurvePairs /\ Exchanges /\ Ciphertexts

-----------------------------------------------------------------------------
LEMMA FreshIsNew == Fresh \subseteq Random \ used
BY DEF Fresh

LEMMA NoZeros == /\ Zeros \notin Random
                 /\ \A seed \in Random : Hash(seed) # Zeros
BY ZerosAssumption

(* Nothing was made, met or sent. *)
LEMMA KeysInit ==
  ASSUME Init
  PROVE  KeyInv
<1>1. Shapes
  BY DEF Init, Shapes
<1>2. SigningPairs /\ Signatures
  BY DEF Init, SigningPairs, Signatures
<1>3. CurvePairs
  BY DEF Init, CurvePairs, Created
<1>4. Exchanges
  <2>1. \A e \in End : met[e] = << >> /\ curve[e].public = Zeros
    BY DEF Init
  <2>2. \A e \in End : Own(e) = {Zeros}
    BY <2>1 DEF Own
  <2>3. "alice" \in End /\ "bob" \in End
    BY DEF End
  <2> QED
    BY <2>1, <2>2, <2>3 DEF Exchanges
<1>5. Ciphertexts
  BY DEF Init, Ciphertexts
<1> QED
  BY <1>1, <1>2, <1>3, <1>4, <1>5 DEF KeyInv

(* Kind is fixed and the functions stay functions of the ends. *)
LEMMA ShapesStep ==
  ASSUME Shapes, [Next]_vars
  PROVE  Shapes' /\ kind' = kind
<1> USE DEF Shapes
<1>1. ASSUME NEW e \in End, new_account(e) PROVE Shapes' /\ kind' = kind
  BY <1>1, FreshIsNew DEF new_account
<1>2. ASSUME NEW e \in End, new_account_derrived_keys(e) PROVE Shapes' /\ kind' = kind
  BY <1>2, FreshIsNew DEF new_account_derrived_keys
<1>3. ASSUME NEW e \in End, identity_keys(e) \/ sas_get_pubkey(e) PROVE Shapes' /\ kind' = kind
  BY <1>3 DEF identity_keys, sas_get_pubkey, objects
<1>4. ASSUME NEW e \in End, create_sas(e) PROVE Shapes' /\ kind' = kind
  BY <1>4, FreshIsNew DEF create_sas
<1>5. ASSUME NEW e \in End, sas_set_their_key(e) PROVE Shapes' /\ kind' = kind
  BY <1>5 DEF sas_set_their_key
<1>6. ASSUME NEW e \in End, NEW message \in Message, sign(e, message)
      PROVE Shapes' /\ kind' = kind
  BY <1>6 DEF sign, objects
<1>7. CASE pk_signing_key_from_seed
  BY <1>7, FreshIsNew DEF pk_signing_key_from_seed
<1>8. CASE ed25519_verify \/ pk_decrypt \/ refused
  BY <1>8 DEF ed25519_verify, pk_decrypt, refused, objects, known
<1>9. CASE pk_key_from_private
  BY <1>9, FreshIsNew DEF pk_key_from_private
<1>10. CASE pk_encryption_set_recipient_key
  BY <1>10 DEF pk_encryption_set_recipient_key
<1>11. ASSUME NEW message \in Message, pk_encrypt(message) PROVE Shapes' /\ kind' = kind
  BY <1>11, FreshIsNew DEF pk_encrypt, objects
<1>12. CASE UNCHANGED vars
  BY <1>12 DEF vars, objects, known
<1> QED
  BY <1>1, <1>2, <1>3, <1>4, <1>5, <1>6, <1>7, <1>8, <1>9, <1>10, <1>11, <1>12 DEF Next

-----------------------------------------------------------------------------
(* Of an account, only these steps touch its key pairs or signatures. *)
LEMMA AccountStep ==
  ASSUME KeyInv, [Next]_vars, kind = "account"
  PROVE  \/ \E e \in End : new_account(e) \/ new_account_derrived_keys(e)
         \/ \E e \in End, message \in Message : sign(e, message)
         \/ UNCHANGED << signing, curve, texts, made >>
BY DEF Next, vars, objects, known, identity_keys, create_sas, sas_get_pubkey,
       sas_set_their_key, pk_signing_key_from_seed, ed25519_verify, pk_key_from_private,
       pk_encryption_set_recipient_key, pk_decrypt, pk_encrypt, refused

LEMMA SigningStep ==
  ASSUME KeyInv, [Next]_vars, kind = "signing"
  PROVE  \/ pk_signing_key_from_seed
         \/ \E message \in Message : sign("alice", message)
         \/ UNCHANGED << signing, texts, made >>
BY DEF Next, vars, objects, known, new_account, new_account_derrived_keys, identity_keys,
       create_sas, sas_get_pubkey, sas_set_their_key, sign, ed25519_verify,
       pk_key_from_private, pk_encryption_set_recipient_key, pk_decrypt, pk_encrypt, refused

LEMMA SasStep ==
  ASSUME KeyInv, [Next]_vars, kind = "sas"
  PROVE  \/ \E e \in End : create_sas(e) \/ sas_set_their_key(e)
         \/ UNCHANGED << signing, curve, secret, met, used, made >>
BY DEF Next, vars, objects, known, new_account, new_account_derrived_keys, identity_keys,
       sas_get_pubkey, sign, pk_signing_key_from_seed, ed25519_verify,
       pk_key_from_private, pk_encryption_set_recipient_key, pk_decrypt, pk_encrypt, refused

LEMMA PkStep ==
  ASSUME KeyInv, [Next]_vars, kind = "pk"
  PROVE  \/ pk_key_from_private \/ pk_encryption_set_recipient_key
         \/ \E message \in Message : pk_encrypt(message)
         \/ UNCHANGED << signing, curve, recipient, chosen, texts, made >>
BY DEF Next, vars, objects, known, new_account, new_account_derrived_keys, identity_keys,
       create_sas, sas_get_pubkey, sas_set_their_key, sign, pk_signing_key_from_seed,
       ed25519_verify, pk_decrypt, refused

-----------------------------------------------------------------------------
(* Made with a pair of the right format, a signature is that of its signer.*)
LEMMA NewSignature ==
  ASSUME KeyInv, NEW e \in End, made[e] \in ByOwnKeys, NEW message
  PROVE  SignatureOf(e, message) =
           [scalar |-> signing[e].public, bound |-> signing[e].public, message |-> message]
BY DEF KeyInv, SigningPairs, SignatureOf, crypto_sign, crypto_ed25519_sign, ByOwnKeys

LEMMA SigningKept ==
  ASSUME KeyInv, [Next]_vars
  PROVE  SigningPairs' /\ Signatures'
<1> DEFINE same == UNCHANGED << signing, texts, made >>
<1>1. kind' = kind /\ kind \in Kind
  BY ShapesStep DEF KeyInv, Shapes
<1>2. ASSUME same PROVE SigningPairs' /\ Signatures'
  BY <1>1, <1>2 DEF KeyInv, SigningPairs, Signatures
<1>3. ASSUME NEW e \in End, NEW message \in Message, sign(e, message)
      PROVE  SigningPairs' /\ Signatures'
  <2>1. SigningPairs'
    BY <1>1, <1>3 DEF sign, objects, KeyInv, SigningPairs
  <2>2. Signatures'
    BY <1>1, <1>3, NewSignature DEF sign, KeyInv, Signatures
  <2> QED
    BY <2>1, <2>2
<1>4. ASSUME NEW e \in End, new_account(e) PROVE SigningPairs' /\ Signatures'
  BY <1>1, <1>4 DEF new_account, KeyInv, Shapes, SigningPairs, Signatures
<1>5. ASSUME NEW e \in End, new_account_derrived_keys(e) PROVE SigningPairs' /\ Signatures'
  BY <1>1, <1>5 DEF new_account_derrived_keys, KeyInv, Shapes, SigningPairs, Signatures,
                    crypto_sign_seed_keypair
<1>6. ASSUME pk_signing_key_from_seed PROVE SigningPairs' /\ Signatures'
  BY <1>1, <1>6 DEF pk_signing_key_from_seed, KeyInv, Shapes, SigningPairs, Signatures,
                    crypto_ed25519_generate_key
<1>7. CASE kind = "account"
  BY <1>2, <1>3, <1>4, <1>5, <1>7, AccountStep
<1>8. CASE kind = "signing"
  BY <1>2, <1>3, <1>6, <1>8, SigningStep DEF End
<1>9. CASE kind = "sas"
  <2>1. SigningPairs'
    BY <1>1, <1>9, SasStep
       DEF KeyInv, Shapes, SigningPairs, create_sas, sas_set_their_key, ByOwnKeys
  <2> QED
    BY <1>1, <1>9, <2>1 DEF Signatures
<1>10. CASE kind = "pk"
  <2>1. SigningPairs'
    BY <1>1, <1>10, PkStep
       DEF KeyInv, Shapes, SigningPairs, pk_key_from_private, pk_encryption_set_recipient_key,
           pk_encrypt, objects
  <2> QED
    BY <1>1, <1>10, <2>1 DEF Signatures
<1> QED
  BY <1>1, <1>7, <1>8, <1>9, <1>10 DEF Kind

LEMMA CurvePairsKept ==
  ASSUME KeyInv, [Next]_vars
  PROVE  CurvePairs'
<1>1. kind' = kind /\ kind \in Kind
  BY ShapesStep DEF KeyInv, Shapes
<1>2. CASE kind = "account"
  <2>1. ASSUME NEW e \in End, new_account(e) PROVE CurvePairs'
    <3>1. PICK random \in Random : curve' = [curve EXCEPT ![e] = [public |-> random,
                                                                 private |-> random]]
      BY <2>1, FreshIsNew DEF new_account, crypto_curve25519_generate_key
    <3> QED
      BY <1>1, <1>2, <2>1, <3>1, NoZeros DEF new_account, KeyInv, Shapes, CurvePairs, Created
  <2>2. ASSUME NEW e \in End, new_account_derrived_keys(e) PROVE CurvePairs'
    <3>0. PICK seed \in Fresh, done \in 0..3 :
            \E pair \in { crypto_sign_seed_keypair(seed) } :
              /\ signing' = [signing EXCEPT ![e] = IF done >= 1 THEN pair ELSE @]
              /\ curve' = [curve EXCEPT ![e] = DerivedPair(pair, @, done)]
              /\ used' = used \cup {seed}
              /\ made' = [made EXCEPT ![e] = IF done = 3 THEN "olm_create_account_derrived_keys"
                                             ELSE "failed"]
      BY <2>2, Zenon DEF new_account_derrived_keys
    <3>1. /\ seed \in Random
          /\ curve' = [curve EXCEPT ![e] = DerivedPair(crypto_sign_seed_keypair(seed), @, done)]
          /\ made' = [made EXCEPT ![e] = IF done = 3 THEN "olm_create_account_derrived_keys"
                                         ELSE "failed"]
      BY <3>0, FreshIsNew
    <3>2. done = 3 =>
            DerivedPair(crypto_sign_seed_keypair(seed), curve[e], done)
              = [public |-> Hash(seed), private |-> Hash(seed)]
      BY DEF DerivedPair, crypto_sign_seed_keypair, crypto_sign_ed25519_sk_to_curve25519,
             crypto_sign_ed25519_pk_to_curve25519
    <3> QED
      BY <1>1, <1>2, <3>1, <3>2, NoZeros DEF KeyInv, Shapes, CurvePairs, Created
  <2>3. ASSUME NEW e \in End, NEW message \in Message, sign(e, message) PROVE CurvePairs'
    BY <1>1, <2>3 DEF sign, objects, KeyInv, CurvePairs, Created
  <2>4. ASSUME UNCHANGED << curve, made >> PROVE CurvePairs'
    BY <1>1, <2>4 DEF KeyInv, CurvePairs, Created
  <2> QED
    BY <1>2, <2>1, <2>2, <2>3, <2>4, AccountStep
<1>3. CASE kind = "signing"
  BY <1>1, <1>3 DEF CurvePairs
<1>4. CASE kind = "sas"
  <2>1. ASSUME NEW e \in End, create_sas(e) PROVE CurvePairs'
    BY <1>1, <1>4, <2>1 DEF create_sas, crypto_curve25519_generate_key, KeyInv, Shapes, CurvePairs
  <2> QED
    BY <1>1, <1>4, <2>1, SasStep DEF sas_set_their_key, KeyInv, CurvePairs
<1>5. CASE kind = "pk"
  <2>1. ASSUME pk_key_from_private PROVE CurvePairs'
    BY <1>1, <1>5, <2>1
       DEF pk_key_from_private, crypto_curve25519_generate_key, KeyInv, Shapes, CurvePairs
  <2> QED
    BY <1>1, <1>5, <2>1, PkStep
       DEF pk_encryption_set_recipient_key, pk_encrypt, objects, KeyInv, CurvePairs
<1> QED
  BY <1>1, <1>2, <1>3, <1>4, <1>5 DEF Kind

-----------------------------------------------------------------------------
(* A key that is made is new to both ends. *)
LEMMA ExchangesKept ==
  ASSUME KeyInv, [Next]_vars
  PROVE  Exchanges'
<1> SUFFICES ASSUME kind' = "sas" PROVE Exchanges'
  BY DEF Exchanges
<1>1. kind = "sas" /\ Shapes
  BY ShapesStep DEF KeyInv
<1>2. /\ \A e \in End : Own(e) \subseteq used \cup {Zeros}
      /\ Own("alice") \cap Own("bob") \subseteq {Zeros}
      /\ \A e \in End : met[e] # << >> =>
           /\ met[e] = << met[e][1], met[e][2] >>
           /\ met[e][2] # Zeros => secret[e] = {met[e][1], met[e][2]}
      /\ \A e \in End : curve[e].public = curve[e].private
  BY <1>1 DEF KeyInv, Exchanges, CurvePairs
<1>3. ASSUME NEW e \in End, create_sas(e) PROVE Exchanges'
  <2>1. PICK random \in Random \ used :
          /\ curve' = [curve EXCEPT ![e] = crypto_curve25519_generate_key(random)]
          /\ used' = used \cup {random}
          /\ met' = met /\ secret' = secret
    BY <1>3, FreshIsNew DEF create_sas
  <2>2. Own(e)' \subseteq Own(e) \cup {random}
    BY <1>1, <2>1 DEF Shapes, Own, crypto_curve25519_generate_key
  <2>3. \A f \in End \ {e} : Own(f)' = Own(f)
    BY <1>1, <2>1 DEF Shapes, Own
  <2>4. \A f \in End : random \notin Own(f)
    BY <1>2, <2>1, NoZeros
  <2>5. \A f \in End : Own(f)' \subseteq used' \cup {Zeros}
    BY <1>2, <2>1, <2>2, <2>3
  <2>6. Own("alice")' \cap Own("bob")' \subseteq {Zeros}
    BY <1>2, <2>2, <2>3, <2>4 DEF End
  <2> QED
    BY <1>2, <2>1, <2>5, <2>6 DEF Exchanges
<1>4. ASSUME NEW e \in End, sas_set_their_key(e) PROVE Exchanges'
  <2>1. PICK their_key :
          /\ secret' = [secret EXCEPT ![e] = SasSecret(e, their_key)]
          /\ met' = [met EXCEPT ![e] = << curve[e].public, their_key >>]
          /\ curve' = curve /\ used' = used
    BY <1>4 DEF sas_set_their_key
  <2>2. /\ met'[e] # << >> /\ met'[e] = << met'[e][1], met'[e][2] >>
        /\ met'[e][1] = curve[e].public /\ met'[e][2] = their_key
    BY <1>1, <2>1 DEF Shapes
  <2>3. their_key # Zeros => secret'[e] = {met'[e][1], met'[e][2]}
    BY <1>1, <1>2, <2>1, <2>2 DEF Shapes, SasSecret, crypto_curve25519_shared_secret
  <2>4. \A f \in End \ {e} : met'[f] = met[f] /\ secret'[f] = secret[f]
    BY <1>1, <2>1 DEF Shapes
  <2>5. \A f \in End : Own(f)' \subseteq Own(f)
    BY <2>1, <2>2, <2>4 DEF Own
  <2> QED
    BY <1>2, <2>1, <2>2, <2>3, <2>4, <2>5 DEF Exchanges, End
<1>5. ASSUME UNCHANGED << curve, secret, met, used >> PROVE Exchanges'
  BY <1>2, <1>5 DEF Exchanges, Own
<1> QED
  BY <1>1, <1>3, <1>4, <1>5, SasStep

(* Every ciphertext is for the key that the application set. *)
LEMMA CiphertextsKept ==
  ASSUME KeyInv, [Next]_vars
  PROVE  Ciphertexts'
<1> SUFFICES ASSUME kind' = "pk" PROVE Ciphertexts'
  BY DEF Ciphertexts
<1>1. kind = "pk"
  BY ShapesStep DEF KeyInv
<1>2. CASE pk_key_from_private
  BY <1>1, <1>2 DEF pk_key_from_private, KeyInv, Ciphertexts
<1>3. CASE pk_encryption_set_recipient_key
  BY <1>1, <1>3 DEF pk_encryption_set_recipient_key, KeyInv, Ciphertexts
<1>4. ASSUME NEW message \in Message, pk_encrypt(message) PROVE Ciphertexts'
  <2>1. PICK random \in Random :
          \E s \in { crypto_curve25519_shared_secret(crypto_curve25519_generate_key(random),
                                                     recipient) } :
            texts' = texts \cup { [ ephemeral_key |-> random, mac |-> s,
                                   ciphertext |-> << s, message >>,
                                   message |-> message, to |-> chosen ] }
    BY <1>4, FreshIsNew DEF pk_encrypt, crypto_curve25519_generate_key
  <2>2. recipient = chosen /\ recipient' = recipient /\ chosen' = chosen
    BY <1>1, <1>4 DEF pk_encrypt, objects, KeyInv, Ciphertexts
  <2>3. chosen # Zeros =>
          crypto_curve25519_shared_secret(crypto_curve25519_generate_key(random), recipient)
            = {random, chosen}
    BY <2>2 DEF crypto_curve25519_shared_secret, crypto_curve25519_generate_key
  <2> QED
    BY <1>1, <2>1, <2>2, <2>3 DEF KeyInv, Ciphertexts
<1>5. CASE UNCHANGED << recipient, chosen, texts >>
  BY <1>1, <1>5 DEF KeyInv, Ciphertexts
<1> QED
  BY <1>1, <1>2, <1>3, <1>4, <1>5, PkStep

(* The private keys belong to their public keys, and everything about was  *)
(* made from such keys: the inductive invariant.                           *)
THEOREM KeysBelong == Spec => []KeyInv
<1>1. Init => KeyInv
  BY KeysInit
<1>2. KeyInv /\ [Next]_vars => KeyInv'
  <2> SUFFICES ASSUME KeyInv, [Next]_vars PROVE KeyInv'
    OBVIOUS
  <2>1. Shapes'
    BY ShapesStep DEF KeyInv
  <2> QED
    BY <2>1, SigningKept, CurvePairsKept, ExchangesKept, CiphertextsKept DEF KeyInv
<1> QED
  BY <1>1, <1>2, PTL DEF Spec

-----------------------------------------------------------------------------
(* sas.c and account.cpp: two ends compute the same secret iff they met    *)
(* each other's keys last, and two accounts that exist always agree.       *)
THEOREM ExchangeAgreesHolds == Spec => []ExchangeAgrees
<1>1. KeyInv => ExchangeAgrees
  <2> SUFFICES ASSUME KeyInv PROVE ExchangeAgrees
    OBVIOUS
  <2>1. ASSUME kind = "sas" PROVE SasAgrees
    <3> DEFINE x == met.alice
               y == met.bob
    <3> SUFFICES ASSUME x # << >>, y # << >>, Zeros \notin {x[1], x[2], y[1], y[2]}
                 PROVE  /\ GeneratedBytes("alice", "info") = GeneratedBytes("bob", "info")
                              <=> x = << y[2], y[1] >>
                        /\ CalculatedMac("alice", "input", "info")
                              = CalculatedMac("bob", "input", "info") <=> x = << y[2], y[1] >>
      BY DEF SasAgrees
    <3>1. /\ secret["alice"] = {x[1], x[2]} /\ secret["bob"] = {y[1], y[2]}
          /\ x = << x[1], x[2] >>
      BY <2>1 DEF KeyInv, Exchanges, End
    <3>2. x[1] # y[1]
      BY <2>1 DEF KeyInv, Exchanges, Own
    <3>3. secret["alice"] = secret["bob"] <=> x[1] = y[2] /\ x[2] = y[1]
      BY <3>1, <3>2
    <3>4. x[1] = y[2] /\ x[2] = y[1] <=> x = << y[2], y[1] >>
      BY <3>1
    <3> QED
      BY <3>3, <3>4 DEF GeneratedBytes, CalculatedMac
  <2>2. ASSUME kind = "account" PROVE AccountsAgree
    BY <2>2 DEF AccountsAgree, KeyInv, CurvePairs, crypto_curve25519_shared_secret, End
  <2> QED
    BY <2>1, <2>2 DEF ExchangeAgrees
<1> QED
  BY <1>1, KeysBelong, PTL

-----------------------------------------------------------------------------
(* Only olm_ed25519_verify answers for itself; every other call either is  *)
(* about something else or leaves everything as it was.                    *)
LEMMA WhoAnswers ==
  ASSUME [Next]_vars
  PROVE  \/ ed25519_verify
         \/ pk_decrypt
         \/ answer'.call \notin {"olm_ed25519_verify", "olm_pk_decrypt"}
         \/ UNCHANGED vars
BY DEF Next, None, new_account, new_account_derrived_keys, identity_keys,
       create_sas, sas_get_pubkey, sas_set_their_key, sign, pk_signing_key_from_seed,
       pk_key_from_private, pk_encryption_set_recipient_key, pk_encrypt, refused

(* account.cpp, pk.cpp and Utility: where one library makes and uses the   *)
(* key, a signature verifies with the key and message it was made for, and *)
(* with no other.                                                          *)
THEOREM SignaturesTellTheSignerHolds == Spec => []SignaturesTellTheSigner
<1>1. Init => SignaturesTellTheSigner
  BY DEF Init, None, SignaturesTellTheSigner
<1>2. KeyInv /\ SignaturesTellTheSigner /\ [Next]_vars => SignaturesTellTheSigner'
  <2> SUFFICES ASSUME KeyInv, SignaturesTellTheSigner, [Next]_vars
               PROVE  SignaturesTellTheSigner'
    OBVIOUS
  <2>1. CASE ed25519_verify
    <3>1. PICK public \in KeysOn("ed25519"), message \in Message, text \in texts :
            answer' = [ call |-> "olm_ed25519_verify",
                        key |-> public, message |-> message, text |-> text,
                        result |-> IF crypto_ed25519_verify(public, message, text.signature)
                                   THEN "SUCCESS" ELSE "BAD_MESSAGE_MAC" ]
      BY <2>1 DEF ed25519_verify
    <3>2. text.maker \in ByOwnKeys =>
            text.signature = [scalar |-> text.signer, bound |-> text.signer,
                              message |-> text.message]
      BY <2>1 DEF ed25519_verify, KeyInv, Signatures
    <3>3. text.maker \in ByOwnKeys =>
            (crypto_ed25519_verify(public, message, text.signature)
               <=> public = text.signer /\ message = text.message)
      BY <3>2 DEF crypto_ed25519_verify
    <3> QED
      BY <3>1, <3>3 DEF SignaturesTellTheSigner
  <2>2. CASE pk_decrypt
    BY <2>2 DEF pk_decrypt, SignaturesTellTheSigner
  <2>3. CASE answer'.call \notin {"olm_ed25519_verify", "olm_pk_decrypt"}
    BY <2>3 DEF SignaturesTellTheSigner
  <2>4. CASE UNCHANGED vars
    BY <2>4 DEF vars, SignaturesTellTheSigner
  <2> QED
    BY <2>1, <2>2, <2>3, <2>4, WhoAnswers
<1> QED
  BY <1>1, <1>2, KeysBelong, PTL DEF Spec

(* pk.cpp: a ciphertext is decrypted to its message by the key it was made *)
(* for, and refused when the object has another one.                       *)
THEOREM CiphertextsFindTheirKeyHolds == Spec => []CiphertextsFindTheirKey
<1>1. Init => CiphertextsFindTheirKey
  BY DEF Init, None, CiphertextsFindTheirKey
<1>2. KeyInv /\ CiphertextsFindTheirKey /\ [Next]_vars => CiphertextsFindTheirKey'
  <2> SUFFICES ASSUME KeyInv, CiphertextsFindTheirKey, [Next]_vars
               PROVE  CiphertextsFindTheirKey'
    OBVIOUS
  <2>1. CASE pk_decrypt
    <3>1. PICK text \in texts : \E got \in {text, Damaged(text)} :
            \E result \in pk_decrypted(got) :
              answer' = [call |-> "olm_pk_decrypt", text |-> got, whole |-> got = text,
                         result |-> result]
      BY <2>1 DEF pk_decrypt
    <3>2. curve' = curve
      BY <2>1 DEF pk_decrypt, objects
    <3>3. /\ text.ephemeral_key \in Random
          /\ text.ciphertext = << text.mac, text.message >>
          /\ text.to # Zeros => text.mac = {text.ephemeral_key, text.to}
      BY <2>1 DEF pk_decrypt, KeyInv, Ciphertexts
    <3>4. /\ "alice" \in End
          /\ curve.alice.public = curve.alice.private
      BY <2>1 DEF pk_decrypt, KeyInv, CurvePairs, End
    <3>5. crypto_curve25519_shared_secret(curve.alice, text.ephemeral_key)
            = {curve.alice.public, text.ephemeral_key}
      BY <3>3, <3>4, NoZeros DEF crypto_curve25519_shared_secret
    <3>6. text.to # Zeros =>
            (text.mac = {curve.alice.public, text.ephemeral_key} <=> text.to = curve.alice.public)
      BY <3>3
    <3>7. text.to # Zeros =>
            pk_decrypted(text) = {IF curve.alice.public = text.to THEN text.message
                                  ELSE "BAD_MESSAGE_MAC"}
      BY <3>3, <3>5, <3>6 DEF pk_decrypted
    <3>8. answer'.whole =>
            answer'.text = text /\ answer'.result \in pk_decrypted(text)
      <4>0. PICK got \in {text, Damaged(text)} :
              \E result \in pk_decrypted(got) :
                answer' = [call |-> "olm_pk_decrypt", text |-> got, whole |-> got = text,
                           result |-> result]
        BY <3>1
      <4>1. PICK result \in pk_decrypted(got) :
              answer' = [call |-> "olm_pk_decrypt", text |-> got, whole |-> got = text,
                         result |-> result]
        BY <4>0
      <4>2. /\ answer'.whole = (got = text)
            /\ answer'.text = got /\ answer'.result = result
        BY <4>1
      <4> QED
        BY <4>1, <4>2
    <3> QED
      BY <3>2, <3>7, <3>8 DEF CiphertextsFindTheirKey
  <2>2. CASE ed25519_verify
    BY <2>2 DEF ed25519_verify, CiphertextsFindTheirKey
  <2>3. CASE answer'.call \notin {"olm_ed25519_verify", "olm_pk_decrypt"}
    BY <2>3 DEF CiphertextsFindTheirKey
  <2>4. CASE UNCHANGED vars
    BY <2>4 DEF vars, objects, CiphertextsFindTheirKey
  <2> QED
    BY <2>1, <2>2, <2>3, <2>4, WhoAnswers
<1> QED
  BY <1>1, <1>2, KeysBelong, PTL DEF Spec
=============================================================================
