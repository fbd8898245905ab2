------------------------------ MODULE JavaScript ------------------------------
(***************************************************************************)
(* The JavaScript binding: olm_post.js, olm_inbound_group_session.js,      *)
(* olm_outbound_group_session.js, olm_pk.js and olm_sas.js.  Memory comes  *)
(* from the stack of the compiled library, which restore_stack gives back, *)
(* or from its malloc, which aborts when it has none.  A string is copied  *)
(* to an array and from there to the stack; the two copies are cleared     *)
(* together and are one buffer here.  free() leaves the pointer as it is:  *)
(* an object is not used after it.                                         *)
(***************************************************************************)
EXTENDS BindingScripts

(* Mutant: the stack is not given back. *)
restore_stack_Forgotten(method) ==
  Around(<< Sure(Room("stack")) >>, method, << >>, << >>)

restore_stack(method) ==
  Around(<< Sure(Room("stack")) >>, method, << >>, << Free("stack") >>)

stack(r) == Copy(r)
random_stack(r) == [Copy(r) EXCEPT !.fails = "said"]
malloc(r) == Unchecked(Room(r))
malloc_copy(r) == Unchecked(Take(r))

new == Method(<< Unchecked(Object) >>, << >>)
free == Method(<< Destroy("absent") >>, << >>)
-----------------------------------------------------------------------------
Account_create ==
  restore_stack(Method(<< random_stack("random"), Call("olm_create_account") >>, << >>))

Account_identity_keys ==
  restore_stack(Method(<< Call("olm_account_identity_keys") >>, << >>))

Account_sign ==
  restore_stack(Method(<< stack("message"), Call("olm_account_sign") >>, << Wipe("message") >>))

Account_one_time_keys ==
  restore_stack(Method(<< Call("olm_account_one_time_keys") >>, << >>))

Account_mark_keys_as_published ==
  restore_stack(Method(<< Call("olm_account_mark_keys_as_published") >>, << >>))

Account_max_number_of_one_time_keys ==
  restore_stack(Method(<< Call("olm_account_max_number_of_one_time_keys") >>, << >>))

Account_generate_one_time_keys ==
  restore_stack(Method(<< random_stack("random"),
                          Call("olm_account_generate_one_time_keys") >>, << >>))

Account_remove_one_time_keys ==
  restore_stack(Method(<< Call("olm_remove_one_time_keys") >>, << >>))

Account_pickle ==
  restore_stack(Method(<< stack("key"), Call("olm_pickle_account") >>, << Wipe("key") >>))

Account_unpickle ==
  restore_stack(Method(<< stack("key"), stack("pickle"), Call("olm_unpickle_account") >>,
                       << Wipe("key") >>))

Account ==
  [ Account |-> new, free |-> free, create |-> Account_create,
    identity_keys |-> Account_identity_keys, sign |-> Account_sign,
    one_time_keys |-> Account_one_time_keys,
    mark_keys_as_published |-> Account_mark_keys_as_published,
    max_number_of_one_time_keys |-> Account_max_number_of_one_time_keys,
    generate_one_time_keys |-> Account_generate_one_time_keys,
    remove_one_time_keys |-> Account_remove_one_time_keys,
    pickle |-> Account_pickle, unpickle |-> Account_unpickle ]
-----------------------------------------------------------------------------
Session_pickle ==
  restore_stack(Method(<< stack("key"), Call("olm_pickle_session") >>, << Wipe("key") >>))

Session_unpickle ==
  restore_stack(Method(<< stack("key"), stack("pickle"), Call("olm_unpickle_session") >>,
                       << Wipe("key") >>))

Session_create_outbound ==
  restore_stack(Method(<< random_stack("random"), stack("identity key"),
                          stack("one time key"), Call("olm_create_outbound_session") >>,
                       << Wipe("random") >>))

Session_create_inbound ==
  restore_stack(Method(<< stack("message"), Call("olm_create_inbound_session") >>,
                       << Wipe("message") >>))

Session_create_inbound_from ==
  restore_stack(Method(<< stack("identity key"), stack("message"),
                          Call("olm_create_inbound_session_from") >>,
                       << Wipe("message") >>))

Session_session_id == restore_stack(Method(<< Call("olm_session_id") >>, << >>))
Session_has_received_message == Method(<< Call("olm_session_has_received_message") >>, << >>)

Session_matches_inbound ==
  restore_stack(Method(<< stack("message"), Call("olm_matches_inbound_session") >>, << >>))

Session_matches_inbound_from ==
  restore_stack(Method(<< stack("identity key"), stack("message"),
                          Call("olm_matches_inbound_session_from") >>, << >>))

Session_encrypt ==
  restore_stack(
    Method(<< random_stack("random"), malloc_copy("plaintext"), malloc("message"),
              Advance("olm_encrypt", "message") >>,
           << Wipe("random") >> \o WipeAndFree("plaintext") \o << Free("message") >>))

Session_decrypt ==
  restore_stack(
    Method(<< malloc_copy("message"), Call("olm_decrypt_max_plaintext_length"),
              malloc("plaintext"), Advance("olm_decrypt", "plaintext") >>,
           << Free("message") >> \o WipeAndFree("plaintext")))

Session_describe ==
  restore_stack(Method(<< malloc("description"), Call("olm_session_describe") >>,
                       << Free("description") >>))

Session ==
  [ Session |-> new, free |-> free, pickle |-> Session_pickle,
    unpickle |-> Session_unpickle, create_outbound |-> Session_create_outbound,
    create_inbound |-> Session_create_inbound,
    create_inbound_from |-> Session_create_inbound_from,
    session_id |-> Session_session_id, has_received_message |-> Session_has_received_message,
    matches_inbound |-> Session_matches_inbound,
    matches_inbound_from |-> Session_matches_inbound_from,
    encrypt |-> Session_encrypt, decrypt |-> Session_decrypt, describe |-> Session_describe ]
-----------------------------------------------------------------------------
Utility_sha256 ==
  restore_stack(Method(<< stack("input"), Call("olm_sha256") >>, << Wipe("input") >>))

Utility_ed25519_verify ==
  restore_stack(Method(<< stack("fingerprint key"), stack("message"), stack("signature"),
                          Call("olm_ed25519_verify") >>, << Wipe("message") >>))

Utility ==
  [ Utility |-> new, free |-> free, sha256 |-> Utility_sha256,
    ed25519_verify |-> Utility_ed25519_verify ]
-----------------------------------------------------------------------------
InboundGroupSession_pickle ==
  restore_stack(Method(<< stack("key"), Call("olm_pickle_inbound_group_session") >>,
                       << Wipe("key") >>))

InboundGroupSession_unpickle ==
  restore_stack(Method(<< stack("key"), stack("pickle"),
                          Call("olm_unpickle_inbound_group_session") >>, << Wipe("key") >>))

InboundGroupSession_create ==
  restore_stack(Method(<< stack("session key"), Call("olm_init_inbound_group_session") >>,
                       << Wipe("session key") >>))

InboundGroupSession_import_session ==
  restore_stack(Method(<< stack("session key"), Call("olm_import_inbound_group_session") >>,
                       << Wipe("session key") >>))

(* After a failure the length to clear is undefined and nothing is cleared. *)
InboundGroupSession_decrypt ==
  restore_stack(
    Method(<< malloc_copy("message"), Call("olm_group_decrypt_max_plaintext_length"),
              malloc("plaintext"), CallFor("olm_group_decrypt", "plaintext"),
              WipeNow("plaintext") >>,
           << Free("message"), Free("plaintext") >>))

InboundGroupSession_session_id ==
  restore_stack(Method(<< Call("olm_inbound_group_session_id") >>, << >>))

InboundGroupSession_first_known_index ==
  restore_stack(Method(<< Call("olm_inbound_group_session_first_known_index") >>, << >>))

InboundGroupSession_export_session ==
  restore_stack(Method(<< CallFor("olm_export_inbound_group_session", "export"),
                          WipeNow("export") >>, << >>))

InboundGroupSession ==
  [ InboundGroupSession |-> new, free |-> free, pickle |-> InboundGroupSession_pickle,
    unpickle |-> InboundGroupSession_unpickle, create |-> InboundGroupSession_create,
    import_session |-> InboundGroupSession_import_session,
    decrypt |-> InboundGroupSession_decrypt, session_id |-> InboundGroupSession_session_id,
    first_known_index |-> InboundGroupSession_first_known_index,
    export_session |-> InboundGroupSession_export_session ]
-----------------------------------------------------------------------------
OutboundGroupSession_pickle ==
  restore_stack(Method(<< stack("key"), Call("olm_pickle_outbound_group_session") >>,
                       << Wipe("key") >>))

OutboundGroupSession_unpickle ==
  restore_stack(Method(<< stack("key"), stack("pickle"),
                          Call("olm_unpickle_outbound_group_session") >>, << Wipe("key") >>))

OutboundGroupSession_create ==
  restore_stack(Method(<< random_stack("random"),
                          Call("olm_init_outbound_group_session") >>, << >>))

(* Everything is on the heap: there is no stack to restore. *)
OutboundGroupSession_encrypt ==
  Method(<< malloc_copy("plaintext"), malloc("message"),
            Advance("olm_group_encrypt", "message") >>,
         WipeAndFree("plaintext") \o << Free("message") >>)

OutboundGroupSession_session_id ==
  restore_stack(Method(<< Call("olm_outbound_group_session_id") >>, << >>))

OutboundGroupSession_session_key ==
  restore_stack(Method(<< CallFor("olm_outbound_group_session_key", "session key"),
                          WipeNow("session key") >>, << >>))

OutboundGroupSession_message_index ==
  Method(<< Call("olm_outbound_group_session_message_index") >>, << >>)

OutboundGroupSession ==
  [ OutboundGroupSession |-> new, free |-> free, pickle |-> OutboundGroupSession_pickle,
    unpickle |-> OutboundGroupSession_unpickle, create |-> OutboundGroupSession_create,
    encrypt |-> OutboundGroupSession_encrypt, session_id |-> OutboundGroupSession_session_id,
    session_key |-> OutboundGroupSession_session_key,
    message_index |-> OutboundGroupSession_message_index ]
-----------------------------------------------------------------------------
PkEncryption_set_recipient_key ==
  restore_stack(Method(<< stack("recipient key"),
                          Call("olm_pk_encryption_set_recipient_key") >>, << >>))

PkEncryption_encrypt ==
  restore_stack(
    Method(<< malloc_copy("plaintext"), random_stack("random"), malloc("ciphertext"),
              Call("olm_pk_encrypt") >>,
           << Wipe("random") >> \o WipeAndFree("plaintext") \o << Free("ciphertext") >>))

PkEncryption ==
  [ PkEncryption |-> new, free |-> free,
    set_recipient_key |-> PkEncryption_set_recipient_key, encrypt |-> PkEncryption_encrypt ]

PkDecryption_init_with_private_key ==
  restore_stack(Method(<< stack("private key"), Call("olm_pk_key_from_private") >>,
                       << Wipe("private key") >>))

PkDecryption_generate_key ==
  restore_stack(Method(<< random_stack("random"), Call("olm_pk_key_from_private") >>,
                       << Wipe("random") >>))

PkDecryption_get_private_key ==
  restore_stack(Method(<< CallFor("olm_pk_get_private_key", "private key"),
                          WipeNow("private key") >>, << >>))

PkDecryption_pickle ==
  restore_stack(Method(<< stack("key"), Call("olm_pickle_pk_decryption") >>, << Wipe("key") >>))

PkDecryption_unpickle ==
  restore_stack(Method(<< stack("key"), stack("pickle"), Call("olm_unpickle_pk_decryption") >>,
                       << Wipe("key") >>))

(* As InboundGroupSession_decrypt. *)
PkDecryption_decrypt ==
  restore_stack(
    Method(<< malloc_copy("ciphertext"), stack("ephemeral key"), stack("mac"),
              malloc("plaintext"), CallFor("olm_pk_decrypt", "plaintext"),
              WipeNow("plaintext") >>,
           << Free("plaintext"), Free("ciphertext") >>))

PkDecryption ==
  [ PkDecryption |-> new, free |-> free,
    init_with_private_key |-> PkDecryption_init_with_private_key,
    generate_key |-> PkDecryption_generate_key,
    get_private_key |-> PkDecryption_get_private_key,
    pickle |-> PkDecryption_pickle, unpickle |-> PkDecryption_unpickle,
    decrypt |-> PkDecryption_decrypt ]

PkSigning_init_with_seed ==
  restore_stack(Method(<< stack("seed"), Call("olm_pk_signing_key_from_seed") >>,
                       << Wipe("seed") >>))

PkSigning_generate_seed ==
  restore_stack(Method(<< random_stack("random"), WipeNow("random") >>, << >>))

PkSigning_sign ==
  restore_stack(Method(<< malloc_copy("message"), Call("olm_pk_sign") >>,
                       WipeAndFree("message")))

PkSigning ==
  [ PkSigning |-> new, free |-> free, init_with_seed |-> PkSigning_init_with_seed,
    generate_seed |-> PkSigning_generate_seed, sign |-> PkSigning_sign ]
-----------------------------------------------------------------------------
(* The constructor is the only function that takes from the stack without  *)
(* restore_stack, and it does not look at the result of olm_create_sas.    *)
new_SAS ==
  Method(<< Sure(Room("stack")), random_stack("random"), Unchecked(Object),
            Ignored(Call("olm_create_sas")), WipeNow("random") >>,
         << >>)

SAS_get_pubkey == restore_stack(Method(<< Call("olm_sas_get_pubkey") >>, << >>))

SAS_set_their_key ==
  restore_stack(Method(<< stack("their key"), Call("olm_sas_set_their_key") >>, << >>))

SAS_generate_bytes ==
  restore_stack(Method(<< stack("info"), Call("olm_sas_generate_bytes") >>, << >>))

SAS_calculate_mac ==
  restore_stack(Method(<< stack("input"), stack("info"), Call("olm_sas_calculate_mac") >>,
                       << >>))

SAS_calculate_mac_long_kdf ==
  restore_stack(Method(<< stack("input"), stack("info"),
                          Call("olm_sas_calculate_mac_long_kdf") >>, << >>))

SAS ==
  [ SAS |-> new_SAS, free |-> free, get_pubkey |-> SAS_get_pubkey,
    set_their_key |-> SAS_set_their_key, generate_bytes |-> SAS_generate_bytes,
    calculate_mac |-> SAS_calculate_mac,
    calculate_mac_long_kdf |-> SAS_calculate_mac_long_kdf ]
=============================================================================
