--------------------------- MODULE AndroidSessions ---------------------------
(***************************************************************************)
(* OlmSession and OlmAccount on Android: the JNI functions of              *)
(* olm_session.cpp and olm_account.cpp, and the methods of OlmSession.java *)
(* and OlmAccount.java around them.                                        *)
(***************************************************************************)
EXTENDS BindingScripts

(* The session: a function of the account and of what the other side sent. *)
createNewSessionJni == Method(<< Object >>, << >>)
(* Releasing what is released already does nothing. *)
releaseSessionJni == Method(<< Destroy("released") >>, << >>)

initOutboundSessionJni ==
  Method(<< Need("object"), Need("account"), Need("identity key"), Need("one time key"),
            RandomHere("random"), Take("identity key"), Take("one time key"),
            Call("olm_create_outbound_session") >>,
         << Free("identity key"), Free("one time key") >> \o WipeAndFree("random"))

initInboundSessionJni ==
  Method(<< Need("object"), Need("account"), Need("message"), Take("message"),
            Call("olm_create_inbound_session") >>,
         << Free("message") >>)

initInboundSessionFromIdKeyJni ==
  Method(<< Need("object"), Need("account"), Need("identity key"), Need("message"),
            Take("message"), Take("identity key"),
            Call("olm_create_inbound_session_from") >>,
         << Free("message"), Free("identity key") >>)

(* A test that fails is a test that answers no. *)
matchesInboundSessionJni ==
  Method(<< Silent(Need("object")), Silent(Need("message")), Silent(Take("message")),
            Silent(Call("olm_matches_inbound_session")) >>,
         << Free("message") >>)

matchesInboundSessionFromIdKeyJni ==
  Method(<< Silent(Need("object")), Silent(Need("identity key")),
            Silent(Take("identity key")), Silent(Need("message")), Silent(Take("message")),
            Silent(Call("olm_matches_inbound_session_from")) >>,
         << Free("identity key"), Free("message") >>)

encryptMessageJni ==
  Method(<< Need("object"), Need("clear message"), Need("encrypted message"),
            Take("clear message"), Need("class"), Need("mType"),
            RandomHere("random"), Room("ciphertext"),
            Advance("olm_encrypt", "ciphertext"), Unchecked(Give("ciphertext")) >>,
         << Free("ciphertext") >> \o WipeAndFree("random") \o WipeAndFree("clear message"))

decryptMessageJni ==
  Method(<< Need("object"), Need("encrypted message"), Need("class"), Need("mCipherText"),
            Need("mType"), Need("ciphertext"), Take("ciphertext"),
            Unchecked(Take("temporary copy")), Call("olm_decrypt_max_plaintext_length"),
            Unchecked(Room("plaintext")), Advance("olm_decrypt", "plaintext"),
            Unchecked(Give("plaintext")) >>,
         << Wipe("plaintext"), Free("ciphertext"), Free("temporary copy"), Free("plaintext") >>)

getSessionIdentifierJni ==
  Method(<< Need("object"), Room("identifier"), Call("olm_session_id"),
            Unchecked(Give("identifier")) >>,
         << Free("identifier") >>)

session_serializeJni ==
  Method(<< Need("object"), Need("key"), Take("key"), Room("pickle"),
            Call("olm_pickle_session"), Unchecked(Give("pickle")) >>,
         << Free("pickle") >> \o WipeAndFree("key"))

session_deserializeJni ==
  Method(<< Object, Need("key"), Need("pickle"), Take("key"), Take("pickle"),
            Call("olm_unpickle_session") >>,
         WipeAndFree("key") \o << Free("pickle"), Discard >>)

-----------------------------------------------------------------------------
(* The account. *)
createNewAccountJni ==
  Method(<< Object, Random("random"), Call("olm_create_account") >>,
         WipeAndFree("random") \o << Discard >>)

releaseAccountJni == Method(<< Destroy("released") >>, << >>)

identityKeysJni ==
  Method(<< Need("object"), Room("keys"), Call("olm_account_identity_keys"), Give("keys") >>,
         << Free("keys") >>)

oneTimeKeysJni ==
  Method(<< Need("object"), Room("keys"), Call("olm_account_one_time_keys"), Give("keys") >>,
         << Free("keys") >>)

(* Without an account the answer is -1. *)
maxOneTimeKeysJni == Method(<< Silent(Need("object")) >>, << >>)

generateOneTimeKeysJni ==
  Method(<< Need("object"), Random("random"), Call("olm_account_generate_one_time_keys") >>,
         WipeAndFree("random"))

removeOneTimeKeysJni ==
  Method(<< Need("session"), Need("object"), Call("olm_remove_one_time_keys") >>, << >>)

markOneTimeKeysAsPublishedJni ==
  Method(<< Need("object"), Call("olm_account_mark_keys_as_published") >>, << >>)

signMessageJni ==
  Method(<< Need("message"), Need("object"), Unchecked(Take("message")), Room("signature"),
            Call("olm_account_sign"), Unchecked(Give("signature")) >>,
         << Free("signature"), Free("message") >>)

account_serializeJni ==
  Method(<< Need("key"), Need("object"), Take("key"), Room("pickle"),
            Call("olm_pickle_account"), Unchecked(Give("pickle")) >>,
         << Free("pickle") >> \o WipeAndFree("key"))

account_deserializeJni ==
  Method(<< Need("key"), Need("pickle"), Object, Take("key"), Take("pickle"),
            Call("olm_unpickle_account") >>,
         WipeAndFree("key") \o << Free("pickle"), Discard >>)
-----------------------------------------------------------------------------
(* The Java methods.  The object they are given and the native one behind   *)
(* it are checked separately.                                              *)
Session_initOutboundSession ==
  Around(<< Need("OlmAccount"), Need("identity key"), Need("one time key") >>,
         initOutboundSessionJni, << >>, << >>)

Session_initInboundSession ==
  Around(<< Need("OlmAccount"), Need("message") >>, initInboundSessionJni, << >>, << >>)

Session_initInboundSessionFrom ==
  Around(<< Need("OlmAccount"), Need("message") >>, initInboundSessionFromIdKeyJni, << >>, << >>)

Session_matchesInboundSession == Swallowed(matchesInboundSessionJni)

Session_matchesInboundSessionFrom == Swallowed(matchesInboundSessionFromIdKeyJni)

(* Null is answered with null; the bytes of the message are cleared when    *)
(* the native function has returned.                                       *)
Session_encryptMessage ==
  Around(<< Silent(Need("clear message")), Sure(Need("encrypted message")),
            Copy("java clear message") >>,
         encryptMessageJni, << WipeNow("java clear message") >>, << >>)

Session_decryptMessage ==
  Around(<< Silent(Need("encrypted message")) >>, decryptMessageJni,
         << Copy("java plaintext"), WipeNow("java plaintext") >>, << >>)

(* serialize() makes a key of its own; its error becomes an exception in   *)
(* CommonSerializeUtils.                                                   *)
Session_serialize == Around(<< Need("key") >>, session_serializeJni, << >>, << >>)
Session_deserialize ==
  Around(<< Need("pickle"), Need("key") >>, session_deserializeJni, << >>, << >>)

OlmSession ==
  [ OlmSession |-> createNewSessionJni,
    releaseSession |-> releaseSessionJni,
    initOutboundSession |-> Session_initOutboundSession,
    initInboundSession |-> Session_initInboundSession,
    initInboundSessionFrom |-> Session_initInboundSessionFrom,
    sessionIdentifier |-> getSessionIdentifierJni,
    matchesInboundSession |-> Session_matchesInboundSession,
    matchesInboundSessionFrom |-> Session_matchesInboundSessionFrom,
    encryptMessage |-> Session_encryptMessage,
    decryptMessage |-> Session_decryptMessage,
    serialize |-> Session_serialize,
    deserialize |-> Session_deserialize ]

(* Keys that are not JSON are answered with null. *)
Account_identityKeys == Around(<< >>, identityKeysJni, << Silent(Call("JSONObject")) >>, << >>)
Account_oneTimeKeys == Around(<< >>, oneTimeKeysJni, << Silent(Call("JSONObject")) >>, << >>)

(* Nothing is done for a session that is null. *)
Account_removeOneTimeKeys ==
  Around(<< Unnoticed(Need("OlmSession")) >>, removeOneTimeKeysJni, << >>, << >>)

Account_signMessage ==
  Around(<< Silent(Need("message")), Copy("java message") >>, signMessageJni, << >>,
         << Wipe("java message") >>)

Account_serialize == Around(<< Need("key") >>, account_serializeJni, << >>, << >>)
Account_deserialize ==
  Around(<< Need("pickle"), Need("key") >>, account_deserializeJni, << >>, << >>)

OlmAccount ==
  [ OlmAccount |-> createNewAccountJni,
    releaseAccount |-> releaseAccountJni,
    identityKeys |-> Account_identityKeys,
    maxOneTimeKeys |-> maxOneTimeKeysJni,
    generateOneTimeKeys |-> generateOneTimeKeysJni,
    oneTimeKeys |-> Account_oneTimeKeys,
    removeOneTimeKeys |-> Account_removeOneTimeKeys,
    markOneTimeKeysAsPublished |-> markOneTimeKeysAsPublishedJni,
    signMessage |-> Account_signMessage,
    serialize |-> Account_serialize,
    deserialize |-> Account_deserialize ]
=============================================================================
