------------------------------ MODULE Session ------------------------------
(***************************************************************************)
(* olm::Session (src/session.cpp): the triple Diffie-Hellman set-up of a   *)
(* ratchet, and the choice between messages that carry the set-up with     *)
(* them (PRE_KEY) and messages that do not (MESSAGE).                      *)
(*                                                                         *)
(* The three public keys that both ends combine are those of Alice, who    *)
(* opens the session, and Bob: they identify the session.                  *)
(***************************************************************************)
EXTENDS Ratchet, Account

PROTOCOL_VERSION == 3

(* The constructor leaves the public keys unset. *)
NoKey == << >>

new_ratchet ==
  [root_key             |-> << >>,
   sender_chain         |-> << >>,
   receiver_chains      |-> << >>,
   skipped_message_keys |-> << >>,
   last_error           |-> "SUCCESS"]

new_session ==
  [ratchet            |-> new_ratchet,
   last_error         |-> "SUCCESS",
   received_message   |-> FALSE,
   alice_identity_key |-> NoKey,
   alice_base_key     |-> NoKey,
   bob_one_time_key   |-> NoKey]

(* session_id hashes exactly these. *)
session_id(s) == <<s.alice_identity_key, s.alice_base_key, s.bob_one_time_key>>

SessionFailed(s, error) == [s EXCEPT !.last_error = error]

(* Alice's end: the pairs are hers, the public keys Bob's. *)
new_outbound_session(s, alice_identity, base, ratchet_key, bob_identity, bob_one_time) ==
  [s EXCEPT
     !.received_message   = FALSE,
     !.alice_identity_key = alice_identity,
     !.alice_base_key     = base,
     !.bob_one_time_key   = bob_one_time,
     !.ratchet = initialise_as_alice(<< SharedSecret(alice_identity, bob_one_time),
                                        SharedSecret(base, bob_identity),
                                        SharedSecret(base, bob_one_time) >>, ratchet_key)]

(***************************************************************************)
(* new_inbound_session, on a pre-key message whose fields are all there.   *)
(* their_identity_key is NoKey when the caller does not know it.           *)
(***************************************************************************)
IdentityMismatch(m, their_identity_key) ==
  their_identity_key # NoKey /\ m.identity_key # their_identity_key

(* The three keys are stored before the last two checks. *)
WithMessageKeys(s, m) ==
  [s EXCEPT !.alice_identity_key = m.identity_key,
            !.alice_base_key     = m.base_key,
            !.bob_one_time_key   = m.one_time_key]

HasRatchetKey(m) == m.message.ratchet_key # NoKey

(* Mutant: the secret leaves out Bob's identity. *)
new_inbound_session_NoIdentity(s, m, bob_identity) ==
  [WithMessageKeys(s, m) EXCEPT
     !.ratchet = initialise_as_bob(<< SharedSecret(m.one_time_key, m.identity_key),
                                      SharedSecret(m.one_time_key, m.base_key),
                                      SharedSecret(m.one_time_key, m.base_key) >>,
                                   m.message.ratchet_key)]

(* All checks passed: Bob's pair is the one that lookup_key found.  *)
new_inbound_session(s, m, bob_identity) ==
  [WithMessageKeys(s, m) EXCEPT
     !.ratchet = initialise_as_bob(<< SharedSecret(m.one_time_key, m.identity_key),
                                      SharedSecret(bob_identity, m.base_key),
                                      SharedSecret(m.one_time_key, m.base_key) >>,
                                   m.message.ratchet_key)]

(* Mutant: the two keys after the identity are swapped. *)
matches_inbound_session_Swapped(s, m) ==
  /\ m.identity_key = s.alice_identity_key
  /\ m.base_key = s.bob_one_time_key
  /\ m.one_time_key = s.alice_base_key

matches_inbound_session(s, m) ==
  /\ m.identity_key = s.alice_identity_key
  /\ m.base_key = s.alice_base_key
  /\ m.one_time_key = s.bob_one_time_key

(***************************************************************************)
(* Messages.                                                               *)
(***************************************************************************)
encrypt_message_type(s) == IF s.received_message THEN "MESSAGE" ELSE "PRE_KEY"

SessionMessage(s, fresh, plaintext) ==
  LET body == EncryptedMessage(s.ratchet, fresh, plaintext)
  IN  IF encrypt_message_type(s) = "MESSAGE"
      THEN [type |-> "MESSAGE", message |-> body]
      ELSE [type |-> "PRE_KEY", version |-> PROTOCOL_VERSION, message |-> body,
            identity_key |-> s.alice_identity_key,
            base_key     |-> s.alice_base_key,
            one_time_key |-> s.bob_one_time_key]

SessionEncrypted(s, fresh) == [s EXCEPT !.ratchet = Encrypted(@, fresh)]

DecryptedBy(r, m) ==
  IF VerifiesOnNewChain(r, m) THEN DecryptedOnNewChain(r, m)
  ELSE IF VerifiesOnExistingChain(r, m) THEN DecryptedOnExistingChain(r, m)
  ELSE DecryptedWithSkippedKey(r, m)

(* Mutant: any message stops the set-up from being sent. *)
SessionDecryptFailed_Received(s, error) ==
  [s EXCEPT !.last_error = error, !.received_message = TRUE]

(* The error of the ratchet moves to the session. *)
SessionDecryptFailed(s, error) ==
  [s EXCEPT !.last_error = error, !.ratchet.last_error = "SUCCESS"]

(* decrypt looks at the message inside a pre-key message, never around it. *)
SessionDecrypted(s, m) ==
  [s EXCEPT !.ratchet = DecryptedBy(@, m.message), !.received_message = TRUE]

============================================================================
