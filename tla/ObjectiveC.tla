----------------------------- MODULE ObjectiveC -----------------------------
(***************************************************************************)
(* The Objective-C binding, OLMKit.  NSData belongs to the collector; an   *)
(* initializer that returns nil gives the object it was making up, and     *)
(* dealloc clears it.  nil without an NSError is an empty answer.  The     *)
(* NSParameterAsserts are left out: a release build has none.              *)
(***************************************************************************)
EXTENDS BindingScripts

(* malloc, in the classes that look at what it returns and in the others. *)
initializeMemory == Silent(Object)
malloc == Unchecked(Object)
dealloc == Method(<< Destroy("absent") >>, << >>)

dataWithLength(r) == Silent(Need(r))

(* randomBytesOfLength returns nil when there are none.  A caller that     *)
(* does not look passes a length of zero, and the library reports it.      *)
randomBytesOfLength == Copy("random")
checkedRandom == << Silent(Need("random bytes")), randomBytesOfLength >>

(* An initializer without an NSError. *)
initWith(steps, cleanup) == Method(<< initializeMemory >> \o steps, cleanup \o << Discard >>)

(* Mutant: the pickle is cleared after the result has been looked at. *)
initWithSerializedData_WipedLate(memory, unpickle) ==
  Method(<< memory, Need("key"), Need("pickle"), Copy("pickle"), Call(unpickle),
            WipeNow("pickle") >>,
         << Discard >>)

initWithSerializedData(memory, unpickle) ==
  Method(<< memory, Need("key"), Need("pickle"), Copy("pickle"), Call(unpickle) >>,
         << Wipe("pickle"), Discard >>)

serializeDataWithKey(pickle) ==
  Method(<< CallFor(pickle, "pickled"), WipeNow("pickled") >>, << >>)

(* An archive of another version leaves an object without native memory,   *)
(* which nobody refuses.  A pickle that fails is archived as nil.          *)
initWithCoder(memory, unpickle) ==
  Around(<< Unnoticed(Need("version")) >>, Swallowed(initWithSerializedData(memory, unpickle)),
         << >>, << >>)
encodeWithCoder(pickle) ==
  Method(<< Copy("archive key"), Unnoticed(CallFor(pickle, "pickled")),
            WipeNow("pickled") >>, << >>)
-----------------------------------------------------------------------------
Account_initNewAccount ==
  initWith(<< randomBytesOfLength, Silent(Call("olm_create_account")) >>, << Wipe("random") >>)

Account_maxOneTimeKeys ==
  Method(<< Sure(Call("olm_account_max_number_of_one_time_keys")) >>, << >>)

(* The buffer is freed after an error, else NSData owns it.  JSON that     *)
(* does not parse is logged.                                               *)
malloced(r, steps) == Method(<< Silent(Room(r)) >> \o steps, << Free(r) >>)

Account_identityKeys ==
  malloced("identity keys", << Silent(Call("olm_account_identity_keys")),
                               Silent(Call("NSJSONSerialization")) >>)

Account_signMessage == malloced("signature", << Silent(Call("olm_account_sign")) >>)

Account_oneTimeKeys ==
  malloced("one time keys", << Silent(Call("olm_account_one_time_keys")),
                               Silent(Call("NSJSONSerialization")) >>)

(* The error is logged: the method returns nothing. *)
Account_generateOneTimeKeys ==
  Method(<< randomBytesOfLength, Unnoticed(Call("olm_account_generate_one_time_keys")) >>,
         << Wipe("random") >>)

Account_removeOneTimeKeysForSession ==
  Method(<< Silent(Need("session")), Silent(Call("olm_remove_one_time_keys")) >>, << >>)

Account_markOneTimeKeysAsPublished ==
  Method(<< Sure(Call("olm_account_mark_keys_as_published")) >>, << >>)

Account_initWithSerializedData ==
  initWithSerializedData(initializeMemory, "olm_unpickle_account")
Account_serializeDataWithKey == serializeDataWithKey("olm_pickle_account")
Account_initWithCoder == initWithCoder(initializeMemory, "olm_unpickle_account")
Account_encodeWithCoder == encodeWithCoder("olm_pickle_account")

OLMAccount ==
  [ initNewAccount |-> Account_initNewAccount, maxOneTimeKeys |-> Account_maxOneTimeKeys,
    identityKeys |-> Account_identityKeys, signMessage |-> Account_signMessage,
    oneTimeKeys |-> Account_oneTimeKeys,
    generateOneTimeKeys |-> Account_generateOneTimeKeys,
    removeOneTimeKeysForSession |-> Account_removeOneTimeKeysForSession,
    markOneTimeKeysAsPublished |-> Account_markOneTimeKeysAsPublished,
    initWithSerializedData |-> Account_initWithSerializedData,
    serializeDataWithKey |-> Account_serializeDataWithKey,
    initWithCoder |-> Account_initWithCoder, encodeWithCoder |-> Account_encodeWithCoder,
    dealloc |-> dealloc ]
-----------------------------------------------------------------------------
Session_initWithAccount == << initializeMemory, Silent(Need("account")) >>

Session_initOutboundSession ==
  Method(Session_initWithAccount
           \o << randomBytesOfLength, Call("olm_create_outbound_session") >>,
         << Wipe("random"), Discard >>)

Session_initInboundSession ==
  Method(Session_initWithAccount \o << Call("olm_create_inbound_session") >>, << Discard >>)

Session_initInboundSessionFrom ==
  Method(Session_initWithAccount \o << Call("olm_create_inbound_session_from") >>,
         << Discard >>)

Session_sessionIdentifier ==
  Method(<< dataWithLength("id"), Silent(Call("olm_session_id")) >>, << >>)

Session_matchesInboundSession ==
  Method(<< Silent(Call("olm_matches_inbound_session")) >>, << >>)

Session_matchesInboundSessionFrom ==
  Method(<< Silent(Call("olm_matches_inbound_session_from")) >>, << >>)

(* The random bytes are cleared after the call, whatever it says, and stay *)
(* when there is no room for the ciphertext.                               *)
Session_encryptMessage ==
  Method(<< randomBytesOfLength, dataWithLength("ciphertext"), WipeNow("random"),
            Advance("olm_encrypt", "ciphertext") >>, << >>)

(* A plaintext that is not UTF-8 makes no string: the answer is nil, and   *)
(* there is no NSError.                                                    *)
Session_decryptMessage ==
  Method(<< Silent(Need("message")), Call("olm_decrypt_max_plaintext_length"),
            Advance("olm_decrypt", "plaintext"), Silent(Give("string")) >>,
         << Wipe("plaintext") >>)

Session_initWithSerializedData ==
  initWithSerializedData(initializeMemory, "olm_unpickle_session")
Session_serializeDataWithKey == serializeDataWithKey("olm_pickle_session")
Session_initWithCoder == initWithCoder(initializeMemory, "olm_unpickle_session")
Session_encodeWithCoder == encodeWithCoder("olm_pickle_session")

OLMSession ==
  [ initOutboundSession |-> Session_initOutboundSession,
    initInboundSession |-> Session_initInboundSession,
    initInboundSessionFrom |-> Session_initInboundSessionFrom,
    sessionIdentifier |-> Session_sessionIdentifier,
    matchesInboundSession |-> Session_matchesInboundSession,
    matchesInboundSessionFrom |-> Session_matchesInboundSessionFrom,
    encryptMessage |-> Session_encryptMessage, decryptMessage |-> Session_decryptMessage,
    initWithSerializedData |-> Session_initWithSerializedData,
    serializeDataWithKey |-> Session_serializeDataWithKey,
    initWithCoder |-> Session_initWithCoder, encodeWithCoder |-> Session_encodeWithCoder,
    dealloc |-> dealloc ]
-----------------------------------------------------------------------------
InboundGroup_initWithSessionKey ==
  Method(<< initializeMemory, Call("olm_init_inbound_group_session") >>, << Discard >>)

InboundGroup_initWithImportedSession ==
  Method(<< initializeMemory, Call("olm_import_inbound_group_session") >>, << Discard >>)

InboundGroup_sessionIdentifier ==
  Method(<< dataWithLength("id"), Silent(Call("olm_inbound_group_session_id")) >>, << >>)

InboundGroup_decryptMessage ==
  Method(<< Silent(Need("message")), Call("olm_group_decrypt_max_plaintext_length"),
            CallFor("olm_group_decrypt", "plaintext"), Silent(Give("string")) >>,
         << Wipe("plaintext") >>)

InboundGroup_firstKnownIndex ==
  Method(<< Sure(Call("olm_inbound_group_session_first_known_index")) >>, << >>)
InboundGroup_isVerified ==
  Method(<< Sure(Call("olm_inbound_group_session_is_verified")) >>, << >>)

InboundGroup_exportSessionAtMessageIndex ==
  Method(<< CallFor("olm_export_inbound_group_session", "export"), WipeNow("export") >>, << >>)

InboundGroup_initWithSerializedData ==
  initWithSerializedData(initializeMemory, "olm_unpickle_inbound_group_session")
InboundGroup_serializeDataWithKey == serializeDataWithKey("olm_pickle_inbound_group_session")
InboundGroup_initWithCoder ==
  initWithCoder(initializeMemory, "olm_unpickle_inbound_group_session")
InboundGroup_encodeWithCoder == encodeWithCoder("olm_pickle_inbound_group_session")

OLMInboundGroupSession ==
  [ initWithSessionKey |-> InboundGroup_initWithSessionKey,
    initWithImportedSession |-> InboundGroup_initWithImportedSession,
    sessionIdentifier |-> InboundGroup_sessionIdentifier,
    decryptMessage |-> InboundGroup_decryptMessage,
    firstKnownIndex |-> InboundGroup_firstKnownIndex, isVerified |-> InboundGroup_isVerified,
    exportSessionAtMessageIndex |-> InboundGroup_exportSessionAtMessageIndex,
    initWithSerializedData |-> InboundGroup_initWithSerializedData,
    serializeDataWithKey |-> InboundGroup_serializeDataWithKey,
    initWithCoder |-> InboundGroup_initWithCoder,
    encodeWithCoder |-> InboundGroup_encodeWithCoder, dealloc |-> dealloc ]
-----------------------------------------------------------------------------
OutboundGroup_init ==
  initWith(<< randomBytesOfLength, Silent(Call("olm_init_outbound_group_session")) >>,
           << Wipe("random") >>)

OutboundGroup_sessionIdentifier ==
  Method(<< dataWithLength("id"), Silent(Call("olm_outbound_group_session_id")) >>, << >>)

OutboundGroup_messageIndex ==
  Method(<< Sure(Call("olm_outbound_group_session_message_index")) >>, << >>)

OutboundGroup_sessionKey ==
  Method(<< dataWithLength("session key data"),
            Silent(CallFor("olm_outbound_group_session_key", "session key")),
            WipeNow("session key") >>, << >>)

OutboundGroup_encryptMessage ==
  Method(<< dataWithLength("ciphertext"), Advance("olm_group_encrypt", "ciphertext") >>, << >>)

OutboundGroup_initWithSerializedData ==
  initWithSerializedData(initializeMemory, "olm_unpickle_outbound_group_session")
OutboundGroup_serializeDataWithKey == serializeDataWithKey("olm_pickle_outbound_group_session")
OutboundGroup_initWithCoder ==
  initWithCoder(initializeMemory, "olm_unpickle_outbound_group_session")
OutboundGroup_encodeWithCoder == encodeWithCoder("olm_pickle_outbound_group_session")

OLMOutboundGroupSession ==
  [ init |-> OutboundGroup_init, sessionIdentifier |-> OutboundGroup_sessionIdentifier,
    messageIndex |-> OutboundGroup_messageIndex, sessionKey |-> OutboundGroup_sessionKey,
    encryptMessage |-> OutboundGroup_encryptMessage,
    initWithSerializedData |-> OutboundGroup_initWithSerializedData,
    serializeDataWithKey |-> OutboundGroup_serializeDataWithKey,
    initWithCoder |-> OutboundGroup_initWithCoder,
    encodeWithCoder |-> OutboundGroup_encodeWithCoder, dealloc |-> dealloc ]
-----------------------------------------------------------------------------
pk_init == Method(<< malloc >>, << >>)

PkEncryption_setRecipientKey ==
  Method(<< Ignored(Call("olm_pk_encryption_set_recipient_key")) >>, << >>)

PkEncryption_encryptMessage ==
  Method(checkedRandom
           \o << dataWithLength("ciphertext"), dataWithLength("mac"),
                 dataWithLength("ephemeral key"), Call("olm_pk_encrypt") >>, << >>)

OLMPkEncryption ==
  [ init |-> pk_init, setRecipientKey |-> PkEncryption_setRecipientKey,
    encryptMessage |-> PkEncryption_encryptMessage, dealloc |-> dealloc ]

PkDecryption_setPrivateKey ==
  Method(<< dataWithLength("public key"), Call("olm_pk_key_from_private") >>, << >>)

(* The random bytes: as in encryptMessage of a session. *)
PkDecryption_generateKey ==
  Method(checkedRandom
           \o << dataWithLength("public key"), WipeNow("random"),
                 Call("olm_pk_key_from_private") >>, << >>)

PkDecryption_privateKey ==
  Method(<< dataWithLength("private key data"),
            Silent(CallFor("olm_pk_get_private_key", "private key")),
            WipeNow("private key") >>, << >>)

PkDecryption_decryptMessage ==
  Method(<< Silent(Need("message")), Call("olm_pk_max_plaintext_length"),
            CallFor("olm_pk_decrypt", "plaintext"), Silent(Give("string")) >>,
         << Wipe("plaintext") >>)

PkDecryption_initWithSerializedData ==
  initWithSerializedData(malloc, "olm_unpickle_pk_decryption")
PkDecryption_serializeDataWithKey == serializeDataWithKey("olm_pickle_pk_decryption")
PkDecryption_initWithCoder == initWithCoder(malloc, "olm_unpickle_pk_decryption")
PkDecryption_encodeWithCoder == encodeWithCoder("olm_pickle_pk_decryption")

OLMPkDecryption ==
  [ init |-> pk_init, setPrivateKey |-> PkDecryption_setPrivateKey,
    generateKey |-> PkDecryption_generateKey, privateKey |-> PkDecryption_privateKey,
    decryptMessage |-> PkDecryption_decryptMessage,
    initWithSerializedData |-> PkDecryption_initWithSerializedData,
    serializeDataWithKey |-> PkDecryption_serializeDataWithKey,
    initWithCoder |-> PkDecryption_initWithCoder,
    encodeWithCoder |-> PkDecryption_encodeWithCoder, dealloc |-> dealloc ]

(* The copy of the seed is cleared when the call went well. *)
PkSigning_doInitWithSeed ==
  Method(<< dataWithLength("public key"), Copy("seed"),
            Call("olm_pk_signing_key_from_seed"), WipeNow("seed") >>, << >>)

PkSigning_sign == Method(<< dataWithLength("signature"), Call("olm_pk_sign") >>, << >>)

(* The seed is the answer. *)
PkSigning_generateSeed == Method(<< Silent(Need("random bytes")), Copy("result") >>, << >>)

OLMPkSigning ==
  [ init |-> pk_init, doInitWithSeed |-> PkSigning_doInitWithSeed,
    sign |-> PkSigning_sign, generateSeed |-> PkSigning_generateSeed, dealloc |-> dealloc ]
-----------------------------------------------------------------------------
SAS_init ==
  Method(<< malloc >> \o checkedRandom \o << Ignored(Call("olm_create_sas")) >>,
         << Wipe("random"), Discard >>)

SAS_publicKey ==
  Method(<< dataWithLength("public key"), Silent(Call("olm_sas_get_pubkey")) >>, << >>)

(* The answer is the NSError. *)
SAS_setTheirPublicKey == Method(<< Call("olm_sas_set_their_key") >>, << >>)

(* The result of the call is not looked at. *)
SAS_generateBytes ==
  Method(<< dataWithLength("bytes"), Ignored(Call("olm_sas_generate_bytes")) >>, << >>)

SAS_calculateMac ==
  Method(<< dataWithLength("mac"), Call("olm_sas_calculate_mac") >>, << >>)
SAS_calculateMacLongKdf ==
  Method(<< dataWithLength("mac"), Call("olm_sas_calculate_mac_long_kdf") >>, << >>)

OLMSAS ==
  [ init |-> SAS_init, publicKey |-> SAS_publicKey,
    setTheirPublicKey |-> SAS_setTheirPublicKey, generateBytes |-> SAS_generateBytes,
    calculateMac |-> SAS_calculateMac, calculateMacLongKdf |-> SAS_calculateMacLongKdf,
    dealloc |-> dealloc ]
-----------------------------------------------------------------------------
Utility_init == initWith(<< >>, << >>)

Utility_sha256 ==
  Method(<< dataWithLength("sha"), Silent(Call("olm_sha256")) >>, << >>)

Utility_verifyEd25519Signature == Method(<< Call("olm_ed25519_verify") >>, << >>)

OLMUtility ==
  [ init |-> Utility_init, sha256 |-> Utility_sha256,
    verifyEd25519Signature |-> Utility_verifyEd25519Signature, dealloc |-> dealloc ]
=============================================================================
