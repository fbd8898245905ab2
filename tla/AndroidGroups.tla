---------------------------- MODULE AndroidGroups ----------------------------
(***************************************************************************)
(* OlmInboundGroupSession and OlmOutboundGroupSession on Android: the JNI   *)
(* functions of olm_inbound_group_session.cpp and                          *)
(* olm_outbound_group_session.cpp, and the Java methods around them.       *)
(***************************************************************************)
EXTENDS BindingScripts

(* The group session of a receiver. *)
inbound_releaseSessionJni == Method(<< Destroy("released") >>, << >>)

inbound_createNewSessionJni ==
  Method(<< Object, Need("session key"), Take("session key"),
            Call("olm_init_inbound_group_session") >>,
         WipeAndFree("session key") \o << Discard >>)

inbound_sessionIdentifierJni ==
  Method(<< Need("object"), Room("identifier"), Call("olm_inbound_group_session_id"),
            Unchecked(Give("identifier")) >>,
         << Free("identifier") >>)

(* A group message can be decrypted again, so no call of it is an Advance. *)
inbound_decryptMessageJni ==
  Method(<< Need("object"), Need("message"), Need("result"), Take("message"), Need("class"),
            Need("mIndex"), Take("temporary copy"),
            Call("olm_group_decrypt_max_plaintext_length"), Unchecked(Room("plaintext")),
            CallFor("olm_group_decrypt", "plaintext"), Unchecked(Give("plaintext")) >>,
         WipeAndFree("plaintext") \o << Free("temporary copy"), Free("message") >>)

firstKnownIndexJni == Method(<< Need("object") >>, << >>)
isVerifiedJni == Method(<< Need("object") >>, << >>)

(* The exported key is cleared when it has been given to Java. *)
exportJni ==
  Method(<< Need("object"), Room("export"),
            CallFor("olm_export_inbound_group_session", "export"), Unchecked(Give("export")),
            WipeNow("export") >>,
         << Free("export") >>)

inbound_serializeJni ==
  Method(<< Need("object"), Need("key"), Take("key"), Room("pickle"),
            Call("olm_pickle_inbound_group_session"), Unchecked(Give("pickle")) >>,
         << Free("pickle") >> \o WipeAndFree("key"))

inbound_deserializeJni ==
  Method(<< Object, Need("key"), Need("pickle"), Take("key"), Take("pickle"),
            Call("olm_unpickle_inbound_group_session") >>,
         WipeAndFree("key") \o << Free("pickle"), Discard >>)

(* The bytes that are cleared are not the ones the native function gets:   *)
(* the constructor makes them from the string a second time.               *)
InboundGroup_new ==
  Around(<< Need("session key"), Copy("session buffer"), Copy("second session buffer") >>,
         inbound_createNewSessionJni, << >>, << Wipe("session buffer") >>)

InboundGroup_export ==
  Around(<< >>, exportJni, << Copy("java export"), WipeNow("java export") >>, << >>)

InboundGroup_decryptMessage ==
  Around(<< Need("message"), Sure(Need("result")) >>, inbound_decryptMessageJni,
         << Copy("java plaintext"), WipeNow("java plaintext") >>, << >>)

InboundGroup_serialize == Around(<< Need("key") >>, inbound_serializeJni, << >>, << >>)
InboundGroup_deserialize ==
  Around(<< Need("pickle"), Need("key") >>, inbound_deserializeJni, << >>, << >>)

OlmInboundGroupSession ==
  [ OlmInboundGroupSession |-> InboundGroup_new,
    releaseSession |-> inbound_releaseSessionJni,
    sessionIdentifier |-> inbound_sessionIdentifierJni,
    getFirstKnownIndex |-> firstKnownIndexJni,
    isVerified |-> isVerifiedJni,
    export |-> InboundGroup_export,
    decryptMessage |-> InboundGroup_decryptMessage,
    serialize |-> InboundGroup_serialize,
    deserialize |-> InboundGroup_deserialize ]
-----------------------------------------------------------------------------
(* The group session of the sender. *)
outbound_releaseSessionJni == Method(<< Destroy("released") >>, << >>)

(* The random bytes are cleared and released where only success arrives. *)
outbound_createNewSessionJni ==
  Method(<< Object, RandomHere("random"), Call("olm_init_outbound_group_session") >>,
         WipeAndFree("random") \o << Discard >>)

outbound_sessionIdentifierJni ==
  Method(<< Need("object"), Room("identifier"), Call("olm_outbound_group_session_id"),
            Unchecked(Give("identifier")) >>,
         << Free("identifier") >>)

(* Without a session the answer is 0, which is an index like any other. *)
messageIndexJni == Method(<< Unnoticed(Need("object")) >>, << >>)

sessionKeyJni ==
  Method(<< Need("object"), Room("session key"),
            CallFor("olm_outbound_group_session_key", "session key"),
            Unchecked(Give("session key")) >>,
         << Free("session key") >>)

group_encryptMessageJni ==
  Method(<< Need("object"), Need("clear message"), Take("clear message"), Room("ciphertext"),
            Advance("olm_group_encrypt", "ciphertext"), Unchecked(Give("ciphertext")) >>,
         << Free("ciphertext") >> \o WipeAndFree("clear message"))

outbound_serializeJni ==
  Method(<< Need("object"), Need("key"), Take("key"), Room("pickle"),
            Call("olm_pickle_outbound_group_session"), Unchecked(Give("pickle")) >>,
         << Free("pickle") >> \o WipeAndFree("key"))

outbound_deserializeJni ==
  Method(<< Object, Need("key"), Need("pickle"), Take("key"), Take("pickle"),
            Call("olm_unpickle_outbound_group_session") >>,
         WipeAndFree("key") \o << Free("pickle"), Discard >>)

OutboundGroup_sessionKey ==
  Around(<< >>, sessionKeyJni, << Copy("java session key"), WipeNow("java session key") >>, << >>)

(* An empty message is answered with null. *)
OutboundGroup_encryptMessage ==
  Around(<< Silent(Need("clear message")), Copy("java clear message") >>,
         group_encryptMessageJni, << WipeNow("java clear message") >>, << >>)

OutboundGroup_serialize == Around(<< Need("key") >>, outbound_serializeJni, << >>, << >>)
OutboundGroup_deserialize ==
  Around(<< Need("pickle"), Need("key") >>, outbound_deserializeJni, << >>, << >>)

OlmOutboundGroupSession ==
  [ OlmOutboundGroupSession |-> outbound_createNewSessionJni,
    releaseSession |-> outbound_releaseSessionJni,
    sessionIdentifier |-> outbound_sessionIdentifierJni,
    messageIndex |-> messageIndexJni,
    sessionKey |-> OutboundGroup_sessionKey,
    encryptMessage |-> OutboundGroup_encryptMessage,
    serialize |-> OutboundGroup_serialize,
    deserialize |-> OutboundGroup_deserialize ]
=============================================================================
