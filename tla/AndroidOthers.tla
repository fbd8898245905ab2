---------------------------- MODULE AndroidOthers ----------------------------
(***************************************************************************)
(* OlmUtility, OlmSAS and the three OlmPk classes on Android: the JNI      *)
(* functions of olm_utility.cpp, olm_sas.cpp and olm_pk.cpp, and the Java  *)
(* methods around them.                                                    *)
(***************************************************************************)
EXTENDS BindingScripts

createUtilityJni == Method(<< Object >>, << >>)
releaseUtilityJni == Method(<< Destroy("released") >>, << >>)

(* The answer is a message that says why a signature is wrong, and null    *)
(* when it is right; when the function gives up early it is null as well.  *)
verifyEd25519SignatureJni ==
  Method(<< Unnoticed(Need("object")), Unnoticed(Need("signature")),
            Unnoticed(Need("fingerprint key")), Unnoticed(Need("message")),
            Unnoticed(Take("signature")), Unnoticed(Take("fingerprint key")),
            Unnoticed(Take("message")), Call("olm_ed25519_verify") >>,
         << Free("signature"), Free("fingerprint key") >> \o WipeAndFree("message"))

sha256Jni ==
  Method(<< Silent(Need("object")), Silent(Need("message")), Silent(Take("message")),
            Silent(Room("hash")), Silent(Call("olm_sha256")), Unchecked(Give("hash")) >>,
         << Free("hash") >> \o WipeAndFree("message"))

Utility_verifyEd25519Signature ==
  Around(<< Need("signature"), Need("fingerprint key"), Need("message"), Copy("java message") >>,
         verifyEd25519SignatureJni, << >>, << Wipe("java message") >>)

(* Null does not become a string: the exception is caught, the answer null. *)
Utility_sha256 ==
  Around(<< Silent(Need("message")), Copy("java message") >>, Swallowed(sha256Jni),
         << >>, << Wipe("java message") >>)

OlmUtility ==
  [ OlmUtility |-> createUtilityJni,
    releaseUtility |-> releaseUtilityJni,
    verifyEd25519Signature |-> Utility_verifyEd25519Signature,
    sha256 |-> Utility_sha256 ]
-----------------------------------------------------------------------------
(* Without memory for it the object is used all the same, and when the     *)
(* library refuses it nobody releases it.                                  *)
createNewSASJni ==
  Method(<< Unchecked(Object), Random("random"), Call("olm_create_sas") >>,
         WipeAndFree("random"))

releaseSASJni == Method(<< Destroy("released") >>, << >>)

getPubKeyJni ==
  Method(<< Need("object"), Unchecked(Room("public key")), Call("olm_sas_get_pubkey"),
            Unchecked(Give("public key")) >>,
         << Free("public key") >>)

setTheirPubKey ==
  Method(<< Need("object"), Need("their key"), Take("their key"),
            Call("olm_sas_set_their_key") >>,
         WipeAndFree("their key"))

(* The result of olm_sas_generate_bytes is not looked at. *)
generateShortCodeJni ==
  Method(<< Need("object"), Need("info"), Take("info"), Unchecked(Room("short code")),
            Ignored(Call("olm_sas_generate_bytes")), Unchecked(Give("short code")) >>,
         << Free("short code") >> \o WipeAndFree("info"))

calculateMacJni ==
  Method(<< Need("object"), Need("message"), Take("message"), Take("info"),
            Unchecked(Room("mac")), Call("olm_sas_calculate_mac"), Unchecked(Give("mac")) >>,
         << Free("mac") >> \o WipeAndFree("info") \o WipeAndFree("message"))

calculateMacLongKdfJni ==
  Method(<< Need("object"), Need("message"), Take("message"), Take("info"),
            Unchecked(Room("mac")), Call("olm_sas_calculate_mac_long_kdf"),
            Unchecked(Give("mac")) >>,
         << Free("mac") >> \o WipeAndFree("info") \o WipeAndFree("message"))

SAS_setTheirPublicKey == Around(<< Need("their key") >>, setTheirPubKey, << >>, << >>)

SAS_generateShortCode ==
  Around(<< Need("theirPublicKey"), Need("info") >>, generateShortCodeJni, << >>, << >>)

SAS_calculateMac ==
  Around(<< Need("message"), Need("info") >>, calculateMacJni, << >>, << >>)
SAS_calculateMacLongKdf ==
  Around(<< Need("message"), Need("info") >>, calculateMacLongKdfJni, << >>, << >>)

OlmSAS ==
  [ OlmSAS |-> createNewSASJni,
    releaseSas |-> releaseSASJni,
    getPublicKey |-> getPubKeyJni,
    setTheirPublicKey |-> SAS_setTheirPublicKey,
    generateShortCode |-> SAS_generateShortCode,
    calculateMac |-> SAS_calculateMac,
    calculateMacLongKdf |-> SAS_calculateMacLongKdf ]
-----------------------------------------------------------------------------
createNewPkEncryptionJni == Method(<< Object >>, << >>)
releasePkEncryptionJni == Method(<< Destroy("released") >>, << >>)

setRecipientKeyJni ==
  Method(<< Unnoticed(Need("object")), Need("recipient key"), Take("recipient key"),
            Call("olm_pk_encryption_set_recipient_key") >>,
         << Free("recipient key") >>)

(* Without the native object the answer is null, which the Java method     *)
(* gives out as a message without a ciphertext.                            *)
encryptJni ==
  Method(<< Unnoticed(Need("object")), Need("plaintext"), Take("plaintext"), Need("class"),
            Need("mMac"), Need("mEphemeralKey"), Room("ciphertext"), Room("mac"),
            Room("ephemeral key"), Random("random"), Call("olm_pk_encrypt"),
            Unchecked(Give("ciphertext")) >>,
         WipeAndFree("random")
           \o << Free("ephemeral key"), Free("mac"), Free("ciphertext") >>
           \o WipeAndFree("plaintext"))

(* A key that is null is not set. *)
PkEncryption_setRecipientKey ==
  Around(<< Unnoticed(Need("recipient key")) >>, setRecipientKeyJni, << >>, << >>)

PkEncryption_encrypt ==
  Around(<< Silent(Need("plaintext")), Copy("java plaintext") >>, encryptJni, << >>,
         << Wipe("java plaintext") >>)

OlmPkEncryption ==
  [ OlmPkEncryption |-> createNewPkEncryptionJni,
    releaseEncryption |-> releasePkEncryptionJni,
    setRecipientKey |-> PkEncryption_setRecipientKey,
    encrypt |-> PkEncryption_encrypt ]
-----------------------------------------------------------------------------
createNewPkDecryptionJni == Method(<< Object >>, << >>)
releasePkDecryptionJni == Method(<< Destroy("released") >>, << >>)

(* Where these answer null the Java method trips over it: an exception.    *)
(* Their public and private keys are not released.                         *)
setPrivateKeyJni ==
  Method(<< Need("object"), Need("private key"), Take("private key"), Room("public key"),
            Call("olm_pk_key_from_private"), Unchecked(Give("public key")) >>,
         WipeAndFree("private key"))

generateKeyJni ==
  Method(<< Need("object"), Random("random"), Room("public key"),
            Call("olm_pk_key_from_private"), Unchecked(Give("public key")) >>,
         WipeAndFree("random"))

privateKeyJni ==
  Method(<< Silent(Need("object")), Room("private key"),
            CallFor("olm_pk_get_private_key", "private key"),
            Unchecked(Give("private key")), WipeNow("private key") >>,
         << >>)

(* The ciphertext is taken twice, into one pointer: the first string is    *)
(* never released, be the second taken or not.                             *)
decryptJni ==
  Method(<< Need("object"), Need("message"), Need("class"), Need("mCipherText"),
            Need("ciphertext"), Take("first ciphertext"), Need("ciphertext"), Take("ciphertext"),
            Need("mMac"), Need("mac"), Take("mac"), Need("mEphemeralKey"),
            Need("ephemeral key"), Take("ephemeral key"), Room("plaintext"),
            Take("temporary copy"), CallFor("olm_pk_decrypt", "plaintext"),
            Unchecked(Give("plaintext")) >>,
         << Free("temporary copy") >> \o WipeAndFree("plaintext")
           \o << Free("ciphertext"), Free("mac"), Free("ephemeral key") >>)

PkDecryption_decrypt ==
  Around(<< Silent(Need("message")) >>, decryptJni, << Copy("java plaintext") >>,
         << Wipe("java plaintext") >>)

OlmPkDecryption ==
  [ OlmPkDecryption |-> createNewPkDecryptionJni,
    releaseDecryption |-> releasePkDecryptionJni,
    setPrivateKey |-> setPrivateKeyJni,
    generateKey |-> generateKeyJni,
    privateKey |-> privateKeyJni,
    decrypt |-> PkDecryption_decrypt ]
-----------------------------------------------------------------------------
createNewPkSigningJni == Method(<< Object >>, << >>)
releasePkSigningJni == Method(<< Destroy("released") >>, << >>)

generateSeedJni ==
  Method(<< Random("random"), Give("random") >>, WipeAndFree("random"))

(* The public key and the signature are not released. *)
setKeyFromSeedJni ==
  Method(<< Need("object"), Need("seed"), Take("seed"), Room("public key"),
            Call("olm_pk_signing_key_from_seed"), Give("public key") >>,
         WipeAndFree("seed"))

pkSignJni ==
  Method(<< Need("object"), Need("message"), Take("message"), Room("signature"),
            Call("olm_pk_sign"), Give("signature") >>,
         WipeAndFree("message"))

PkSigning_sign ==
  Around(<< Silent(Need("message")), Copy("java message") >>, pkSignJni, << >>,
         << Wipe("java message") >>)

OlmPkSigning ==
  [ OlmPkSigning |-> createNewPkSigningJni,
    releaseSigning |-> releasePkSigningJni,
    generateSeed |-> generateSeedJni,
    initWithSeed |-> setKeyFromSeedJni,
    sign |-> PkSigning_sign ]
=============================================================================
