-------------------------------- MODULE Python --------------------------------
(***************************************************************************)
(* The Python binding: account.py, session.py, group_session.py, pk.py,    *)
(* sas.py and utility.py.  Memory belongs to the collector, and is there;  *)
(* track_for_finalization clears an object nobody refers to any more, and  *)
(* so one whose constructor raised.  os.urandom does not fail.             *)
(***************************************************************************)
EXTENDS BindingScripts

new == Sure(Object)

(* Mutant: the result of the call is dropped. *)
check_error_Dropped(call) == Ignored(call)

(* _check_error raises what the library says. *)
check_error(call) == call

(* to_unicode_str raises if the caller asked for strict decoding. *)
to_unicode_str == Call("to_unicode_str")
-----------------------------------------------------------------------------
Account_init ==
  Method(<< new, Copy("random"), check_error(Call("olm_create_account")) >>, << Discard >>)

Account_pickle ==
  Method(<< Copy("key"), check_error(Call("olm_pickle_account")) >>, << Wipe("key") >>)

Account_from_pickle ==
  Method(<< Need("pickle"), Copy("key"), new, check_error(Call("olm_unpickle_account")) >>,
         << Wipe("key"), Discard >>)

Account_identity_keys ==
  Method(<< check_error(Call("olm_account_identity_keys")), Call("json.loads") >>, << >>)

Account_sign ==
  Method(<< Need("message"), Copy("message"), check_error(Call("olm_account_sign")) >>,
         << Wipe("message") >>)

Account_max_one_time_keys ==
  Method(<< Sure(Call("olm_account_max_number_of_one_time_keys")) >>, << >>)

(* The result is not looked at: the library never fails here. *)
Account_mark_keys_as_published ==
  Method(<< Sure(Call("olm_account_mark_keys_as_published")) >>, << >>)

Account_generate_one_time_keys ==
  Method(<< Copy("random"), check_error(Call("olm_account_generate_one_time_keys")) >>, << >>)

Account_one_time_keys ==
  Method(<< check_error(Call("olm_account_one_time_keys")), Call("json.loads") >>, << >>)

Account_remove_one_time_keys ==
  Method(<< check_error(Call("olm_remove_one_time_keys")) >>, << >>)

Account ==
  [ init |-> Account_init, pickle |-> Account_pickle, from_pickle |-> Account_from_pickle,
    identity_keys |-> Account_identity_keys, sign |-> Account_sign,
    max_one_time_keys |-> Account_max_one_time_keys,
    mark_keys_as_published |-> Account_mark_keys_as_published,
    generate_one_time_keys |-> Account_generate_one_time_keys,
    one_time_keys |-> Account_one_time_keys,
    remove_one_time_keys |-> Account_remove_one_time_keys ]
-----------------------------------------------------------------------------
Session_pickle ==
  Method(<< Copy("key"), check_error(Call("olm_pickle_session")) >>, << Wipe("key") >>)

Session_from_pickle ==
  Method(<< Need("pickle"), Copy("key"), new, check_error(Call("olm_unpickle_session")) >>,
         << Wipe("key"), Discard >>)

Session_encrypt ==
  Method(<< Need("plaintext"), Copy("plaintext"), Copy("random"),
            check_error(Advance("olm_encrypt", "ciphertext")) >>,
         << Wipe("plaintext") >>)

(* The plaintext is cleared when it has become a string. *)
Session_decrypt ==
  Method(<< Need("ciphertext"), check_error(Call("olm_decrypt_max_plaintext_length")),
            check_error(Advance("olm_decrypt", "plaintext")), to_unicode_str,
            WipeNow("plaintext") >>,
         << >>)

Session_id == Method(<< check_error(Call("olm_session_id")) >>, << >>)

Session_matches ==
  Method(<< Need("OlmPreKeyMessage"), Need("ciphertext"),
            check_error(Call("olm_matches_inbound_session_from")) >>, << >>)

InboundSession_init ==
  Method(<< new, Need("ciphertext"), check_error(Call("olm_create_inbound_session_from")) >>,
         << Discard >>)

OutboundSession_init ==
  Method(<< new, Need("identity key"), Need("one time key"), Copy("random"),
            check_error(Call("olm_create_outbound_session")) >>,
         << Discard >>)

Session ==
  [ InboundSession |-> InboundSession_init, OutboundSession |-> OutboundSession_init,
    pickle |-> Session_pickle, from_pickle |-> Session_from_pickle,
    encrypt |-> Session_encrypt, decrypt |-> Session_decrypt,
    id |-> Session_id, matches |-> Session_matches ]
-----------------------------------------------------------------------------
InboundGroupSession_init ==
  Method(<< new, Need("session key"), Copy("session key"),
            check_error(Call("olm_init_inbound_group_session")) >>,
         << Wipe("session key"), Discard >>)

InboundGroupSession_pickle ==
  Method(<< Copy("key"), check_error(Call("olm_pickle_inbound_group_session")) >>,
         << Wipe("key") >>)

InboundGroupSession_from_pickle ==
  Method(<< Need("pickle"), Copy("key"), new,
            check_error(Call("olm_unpickle_inbound_group_session")) >>,
         << Wipe("key"), Discard >>)

InboundGroupSession_decrypt ==
  Method(<< Need("ciphertext"), check_error(Call("olm_group_decrypt_max_plaintext_length")),
            check_error(CallFor("olm_group_decrypt", "plaintext")), to_unicode_str,
            WipeNow("plaintext") >>,
         << >>)

InboundGroupSession_id ==
  Method(<< check_error(Call("olm_inbound_group_session_id")) >>, << >>)

InboundGroupSession_first_known_index ==
  Method(<< Sure(Call("olm_inbound_group_session_first_known_index")) >>, << >>)

InboundGroupSession_export_session ==
  Method(<< check_error(CallFor("olm_export_inbound_group_session", "export")),
            WipeNow("export") >>, << >>)

InboundGroupSession_import_session ==
  Method(<< new, Need("session key"), Copy("session key"),
            check_error(Call("olm_import_inbound_group_session")) >>,
         << Wipe("session key"), Discard >>)

InboundGroupSession ==
  [ init |-> InboundGroupSession_init, pickle |-> InboundGroupSession_pickle,
    from_pickle |-> InboundGroupSession_from_pickle, decrypt |-> InboundGroupSession_decrypt,
    id |-> InboundGroupSession_id,
    first_known_index |-> InboundGroupSession_first_known_index,
    export_session |-> InboundGroupSession_export_session,
    import_session |-> InboundGroupSession_import_session ]
-----------------------------------------------------------------------------
OutboundGroupSession_init ==
  Method(<< new, Copy("random"), check_error(Call("olm_init_outbound_group_session")) >>,
         << Discard >>)

OutboundGroupSession_pickle ==
  Method(<< Copy("key"), check_error(Call("olm_pickle_outbound_group_session")) >>,
         << Wipe("key") >>)

OutboundGroupSession_from_pickle ==
  Method(<< Need("pickle"), Copy("key"), new,
            check_error(Call("olm_unpickle_outbound_group_session")) >>,
         << Wipe("key"), Discard >>)

(* Mutant: the message is decoded strictly, as plaintexts are. *)
OutboundGroupSession_encrypt_Decoded ==
  Method(<< Need("plaintext"), Copy("plaintext"),
            check_error(Advance("olm_group_encrypt", "message")), to_unicode_str >>,
         << Wipe("plaintext") >>)

OutboundGroupSession_encrypt ==
  Method(<< Need("plaintext"), Copy("plaintext"),
            check_error(Advance("olm_group_encrypt", "message")) >>,
         << Wipe("plaintext") >>)

OutboundGroupSession_id ==
  Method(<< check_error(Call("olm_outbound_group_session_id")) >>, << >>)

OutboundGroupSession_message_index ==
  Method(<< Sure(Call("olm_outbound_group_session_message_index")) >>, << >>)

OutboundGroupSession_session_key ==
  Method(<< check_error(CallFor("olm_outbound_group_session_key", "session key")) >>, << >>)

OutboundGroupSession ==
  [ init |-> OutboundGroupSession_init, pickle |-> OutboundGroupSession_pickle,
    from_pickle |-> OutboundGroupSession_from_pickle,
    encrypt |-> OutboundGroupSession_encrypt, id |-> OutboundGroupSession_id,
    message_index |-> OutboundGroupSession_message_index,
    session_key |-> OutboundGroupSession_session_key ]
-----------------------------------------------------------------------------
(* The result of setting the key is not looked at. *)
PkEncryption_init ==
  Method(<< Need("recipient key"), new, Copy("recipient key"),
            Ignored(Call("olm_pk_encryption_set_recipient_key")), WipeNow("recipient key") >>,
         << Discard >>)

PkEncryption_encrypt ==
  Method(<< Need("plaintext"), Copy("plaintext"), Copy("random"),
            check_error(Call("olm_pk_encrypt")) >>,
         << Wipe("plaintext") >>)

PkEncryption == [ init |-> PkEncryption_init, encrypt |-> PkEncryption_encrypt ]

PkDecryption_init ==
  Method(<< new, Copy("random"), check_error(Call("olm_pk_key_from_private")) >>, << Discard >>)

PkDecryption_pickle ==
  Method(<< Need("key"), Copy("key"), check_error(Call("olm_pickle_pk_decryption")) >>,
         << Wipe("key") >>)

PkDecryption_from_pickle ==
  Method(<< Need("pickle"), Need("key"), Copy("key"), new,
            check_error(Call("olm_unpickle_pk_decryption")) >>,
         << Wipe("key"), Discard >>)

PkDecryption_decrypt ==
  Method(<< Need("ephemeral key"), Need("mac"), Need("ciphertext"),
            check_error(CallFor("olm_pk_decrypt", "plaintext")), WipeNow("plaintext"),
            to_unicode_str >>, << >>)

PkDecryption ==
  [ init |-> PkDecryption_init, pickle |-> PkDecryption_pickle,
    from_pickle |-> PkDecryption_from_pickle, decrypt |-> PkDecryption_decrypt ]

(* The seed is cleared before the result is looked at. *)
PkSigning_init ==
  Method(<< Need("seed"), new, Copy("seed"),
            check_error(Call("olm_pk_signing_key_from_seed")) >>,
         << Wipe("seed"), Discard >>)

PkSigning_generate_seed == Method(<< Copy("result") >>, << >>)

PkSigning_sign ==
  Method(<< Need("message"), Copy("message"), check_error(Call("olm_pk_sign")) >>, << >>)

PkSigning ==
  [ init |-> PkSigning_init, generate_seed |-> PkSigning_generate_seed,
    sign |-> PkSigning_sign ]
-----------------------------------------------------------------------------
Sas_init ==
  Method(<< new, Copy("random"), check_error(Call("olm_create_sas")),
            check_error(Call("olm_sas_set_their_key")) >>,
         << Discard >>)

Sas_pubkey == Method(<< check_error(Call("olm_sas_get_pubkey")) >>, << >>)

Sas_set_their_pubkey ==
  Method(<< Need("their key"), check_error(Call("olm_sas_set_their_key")) >>, << >>)

(* The decorator of the three that follow. *)
other_pubkey_set(method) == Around(<< Need("other_key_set") >>, method, << >>, << >>)

Sas_generate_bytes ==
  other_pubkey_set(Method(<< Need("length"), Need("info"),
                             check_error(Call("olm_sas_generate_bytes")) >>, << >>))

Sas_calculate_mac ==
  other_pubkey_set(Method(<< Need("message"), Need("info"),
                             check_error(Call("olm_sas_calculate_mac")) >>, << >>))

Sas_calculate_mac_long_kdf ==
  other_pubkey_set(Method(<< Need("message"), Need("info"),
                             check_error(Call("olm_sas_calculate_mac_long_kdf")) >>, << >>))

Sas ==
  [ init |-> Sas_init, pubkey |-> Sas_pubkey, set_their_pubkey |-> Sas_set_their_pubkey,
    generate_bytes |-> Sas_generate_bytes, calculate_mac |-> Sas_calculate_mac,
    calculate_mac_long_kdf |-> Sas_calculate_mac_long_kdf ]
-----------------------------------------------------------------------------
(* One utility object serves the process. *)
Utility_allocate == Method(<< new >>, << >>)

Utility_ed25519_verify ==
  Method(<< Need("fingerprint key"), Need("message"), Copy("message"), Need("signature"),
            check_error(Call("olm_ed25519_verify")) >>,
         << Wipe("message") >>)

Utility_sha256 == Method(<< Need("input"), check_error(Call("olm_sha256")) >>, << >>)

Utility ==
  [ allocate |-> Utility_allocate, ed25519_verify |-> Utility_ed25519_verify,
    sha256 |-> Utility_sha256 ]
=============================================================================
