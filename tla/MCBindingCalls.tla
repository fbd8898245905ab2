---------------------------- MODULE MCBindingCalls ----------------------------
EXTENDS BindingCalls

Sessions == INSTANCE AndroidSessions
Groups == INSTANCE AndroidGroups
Others == INSTANCE AndroidOthers
JS == INSTANCE JavaScript
Py == INSTANCE Python
ObjC == INSTANCE ObjectiveC

MCClasses ==
  { "Java_OlmAccount", "Java_OlmSession", "Java_OlmInboundGroupSession",
    "Java_OlmOutboundGroupSession", "Java_OlmUtility", "Java_OlmSAS",
    "Java_OlmPkEncryption", "Java_OlmPkDecryption", "Java_OlmPkSigning",
    "JS_Account", "JS_Session", "JS_InboundGroupSession",
    "JS_OutboundGroupSession", "JS_Utility", "JS_SAS", "JS_PkEncryption",
    "JS_PkDecryption", "JS_PkSigning", "Py_Account", "Py_Session",
    "Py_InboundGroupSession", "Py_OutboundGroupSession", "Py_Utility",
    "Py_Sas", "Py_PkEncryption", "Py_PkDecryption", "Py_PkSigning",
    "ObjC_OLMAccount", "ObjC_OLMSession", "ObjC_OLMInboundGroupSession",
    "ObjC_OLMOutboundGroupSession", "ObjC_OLMUtility", "ObjC_OLMSAS",
    "ObjC_OLMPkEncryption", "ObjC_OLMPkDecryption", "ObjC_OLMPkSigning" }

MCBindings ==
  [ c \in MCClasses |->
      CASE c = "Java_OlmAccount" -> Sessions!OlmAccount
        [] c = "Java_OlmSession" -> Sessions!OlmSession
        [] c = "Java_OlmInboundGroupSession" -> Groups!OlmInboundGroupSession
        [] c = "Java_OlmOutboundGroupSession" -> Groups!OlmOutboundGroupSession
        [] c = "Java_OlmUtility" -> Others!OlmUtility
        [] c = "Java_OlmSAS" -> Others!OlmSAS
        [] c = "Java_OlmPkEncryption" -> Others!OlmPkEncryption
        [] c = "Java_OlmPkDecryption" -> Others!OlmPkDecryption
        [] c = "Java_OlmPkSigning" -> Others!OlmPkSigning
        [] c = "JS_Account" -> JS!Account
        [] c = "JS_Session" -> JS!Session
        [] c = "JS_InboundGroupSession" -> JS!InboundGroupSession
        [] c = "JS_OutboundGroupSession" -> JS!OutboundGroupSession
        [] c = "JS_Utility" -> JS!Utility
        [] c = "JS_SAS" -> JS!SAS
        [] c = "JS_PkEncryption" -> JS!PkEncryption
        [] c = "JS_PkDecryption" -> JS!PkDecryption
        [] c = "JS_PkSigning" -> JS!PkSigning
        [] c = "Py_Account" -> Py!Account
        [] c = "Py_Session" -> Py!Session
        [] c = "Py_InboundGroupSession" -> Py!InboundGroupSession
        [] c = "Py_OutboundGroupSession" -> Py!OutboundGroupSession
        [] c = "Py_Utility" -> Py!Utility
        [] c = "Py_Sas" -> Py!Sas
        [] c = "Py_PkEncryption" -> Py!PkEncryption
        [] c = "Py_PkDecryption" -> Py!PkDecryption
        [] c = "Py_PkSigning" -> Py!PkSigning
        [] c = "ObjC_OLMAccount" -> ObjC!OLMAccount
        [] c = "ObjC_OLMSession" -> ObjC!OLMSession
        [] c = "ObjC_OLMInboundGroupSession" -> ObjC!OLMInboundGroupSession
        [] c = "ObjC_OLMOutboundGroupSession" -> ObjC!OLMOutboundGroupSession
        [] c = "ObjC_OLMUtility" -> ObjC!OLMUtility
        [] c = "ObjC_OLMSAS" -> ObjC!OLMSAS
        [] c = "ObjC_OLMPkEncryption" -> ObjC!OLMPkEncryption
        [] c = "ObjC_OLMPkDecryption" -> ObjC!OLMPkDecryption
        [] c = "ObjC_OLMPkSigning" -> ObjC!OLMPkSigning ]

(* The deviations, by class, method and buffer or step; README.md explains *)
(* them.                                                                   *)
MCKnownKept ==
  { << "JS_SAS", "SAS", "stack" >>,
    << "Java_OlmOutboundGroupSession", "OlmOutboundGroupSession", "unfilled random" >>,
    << "Java_OlmPkDecryption", "decrypt", "first ciphertext" >>,
    << "Java_OlmPkDecryption", "generateKey", "public key" >>,
    << "Java_OlmPkDecryption", "privateKey", "private key" >>,
    << "Java_OlmPkDecryption", "setPrivateKey", "public key" >>,
    << "Java_OlmPkSigning", "initWithSeed", "public key" >>,
    << "Java_OlmPkSigning", "sign", "signature" >>,
    << "Java_OlmSAS", "OlmSAS", "object" >>,
    << "Java_OlmSession", "encryptMessage", "unfilled random" >>,
    << "Java_OlmSession", "initOutboundSession", "unfilled random" >> }

MCKnownUnsaid ==
  { << "JS_SAS", "SAS", "olm_create_sas" >>,
    << "Java_OlmAccount", "removeOneTimeKeys", "OlmSession" >>,
    << "Java_OlmOutboundGroupSession", "messageIndex", "object" >>,
    << "Java_OlmPkEncryption", "encrypt", "object" >>,
    << "Java_OlmPkEncryption", "setRecipientKey", "object" >>,
    << "Java_OlmPkEncryption", "setRecipientKey", "recipient key" >>,
    << "Java_OlmSAS", "generateShortCode", "olm_sas_generate_bytes" >>,
    << "Java_OlmUtility", "verifyEd25519Signature", "fingerprint key" >>,
    << "Java_OlmUtility", "verifyEd25519Signature", "message" >>,
    << "Java_OlmUtility", "verifyEd25519Signature", "object" >>,
    << "Java_OlmUtility", "verifyEd25519Signature", "signature" >>,
    << "ObjC_OLMAccount", "encodeWithCoder", "olm_pickle_account" >>,
    << "ObjC_OLMAccount", "generateOneTimeKeys", "olm_account_generate_one_time_keys" >>,
    << "ObjC_OLMAccount", "initWithCoder", "version" >>,
    << "ObjC_OLMInboundGroupSession", "encodeWithCoder", "olm_pickle_inbound_group_session" >>,
    << "ObjC_OLMInboundGroupSession", "initWithCoder", "version" >>,
    << "ObjC_OLMOutboundGroupSession", "encodeWithCoder", "olm_pickle_outbound_group_session" >>,
    << "ObjC_OLMOutboundGroupSession", "initWithCoder", "version" >>,
    << "ObjC_OLMPkDecryption", "encodeWithCoder", "olm_pickle_pk_decryption" >>,
    << "ObjC_OLMPkDecryption", "initWithCoder", "version" >>,
    << "ObjC_OLMPkEncryption", "setRecipientKey", "olm_pk_encryption_set_recipient_key" >>,
    << "ObjC_OLMSAS", "generateBytes", "olm_sas_generate_bytes" >>,
    << "ObjC_OLMSAS", "init", "olm_create_sas" >>,
    << "ObjC_OLMSession", "encodeWithCoder", "olm_pickle_session" >>,
    << "ObjC_OLMSession", "initWithCoder", "version" >>,
    << "Py_PkEncryption", "init", "olm_pk_encryption_set_recipient_key" >> }

MCKnownUnwiped ==
  { << "JS_Account", "create", "random" >>,
    << "JS_Account", "generate_one_time_keys", "random" >>,
    << "JS_OutboundGroupSession", "create", "random" >>,
    << "Java_OlmOutboundGroupSession", "encryptMessage", "java clear message" >>,
    << "Java_OlmOutboundGroupSession", "sessionKey", "session key" >>,
    << "Java_OlmSession", "encryptMessage", "java clear message" >>,
    << "ObjC_OLMPkDecryption", "generateKey", "random" >>,
    << "ObjC_OLMPkEncryption", "encryptMessage", "random" >>,
    << "ObjC_OLMPkSigning", "doInitWithSeed", "seed" >>,
    << "ObjC_OLMSession", "encryptMessage", "random" >>,
    << "Py_Account", "generate_one_time_keys", "random" >>,
    << "Py_Account", "init", "random" >>,
    << "Py_InboundGroupSession", "decrypt", "plaintext" >>,
    << "Py_OutboundGroupSession", "init", "random" >>,
    << "Py_OutboundGroupSession", "session_key", "session key" >>,
    << "Py_PkDecryption", "init", "random" >>,
    << "Py_PkEncryption", "encrypt", "random" >>,
    << "Py_Sas", "init", "random" >>,
    << "Py_Session", "OutboundSession", "random" >>,
    << "Py_Session", "decrypt", "plaintext" >>,
    << "Py_Session", "encrypt", "random" >> }

MCKnownLost ==
  { << "ObjC_OLMSession", "decryptMessage", "olm_decrypt" >>,
    << "Py_Session", "decrypt", "olm_decrypt" >> }
=============================================================================
