---------------------------- MODULE GroupSession ----------------------------
(***************************************************************************)
(* OlmOutboundGroupSession and OlmInboundGroupSession                      *)
(* (src/outbound_group_session.c, src/inbound_group_session.c): one sender *)
(* shares its Megolm ratchet with many receivers, who can also pass it on  *)
(* to each other from a message onwards.                                   *)
(*                                                                         *)
(* A signing key is its name, and a signature the name of the key that     *)
(* made it.  A MAC verifies iff the ratchet values are those it was made   *)
(* with.                                                                   *)
(***************************************************************************)
EXTENDS Megolm

OLM_PROTOCOL_VERSION == 3
SESSION_KEY_VERSION == 2
SESSION_EXPORT_VERSION == 1

(***************************************************************************)
(* The sender.                                                             *)
(***************************************************************************)
init_outbound(random_data, signing_key) ==
  [ratchet |-> megolm_init(random_data, 0), signing_key |-> signing_key,
   last_error |-> "SUCCESS"]

outbound_group_session_key(out) ==
  [version |-> SESSION_KEY_VERSION, counter |-> out.ratchet.counter,
   data |-> out.ratchet.data, signing_key |-> out.signing_key,
   signed_by |-> out.signing_key]

GroupMessage(out) ==
  [version |-> OLM_PROTOCOL_VERSION, message_index |-> out.ratchet.counter,
   key |-> out.ratchet.data, signed_by |-> out.signing_key]

GroupEncrypted(out) == [out EXCEPT !.ratchet = megolm_advance(@)]

(***************************************************************************)
(* A receiver.                                                             *)
(***************************************************************************)
NoData == [j \in Part |-> << >>]
NoSigningKey == "none"

(* olm_inbound_group_session clears all of the memory. *)
cleared_inbound ==
  [initial_ratchet      |-> megolm_init(NoData, 0),
   latest_ratchet       |-> megolm_init(NoData, 0),
   signing_key          |-> NoSigningKey,
   signing_key_verified |-> FALSE,
   last_error           |-> "SUCCESS"]

InboundFailed(s, error) == [s EXCEPT !.last_error = error]

(* The part of _init_group_session_keys that a bad signature comes after.  *)
WithGroupKeys(s, key) ==
  [s EXCEPT !.initial_ratchet = megolm_init(key.data, key.counter),
            !.latest_ratchet  = megolm_init(key.data, key.counter),
            !.signing_key     = key.signing_key]

init_inbound(s, key) ==
  IF key.version # SESSION_KEY_VERSION THEN InboundFailed(s, "BAD_SESSION_KEY")
  ELSE IF key.signed_by # key.signing_key THEN InboundFailed(WithGroupKeys(s, key), "BAD_SIGNATURE")
  ELSE [WithGroupKeys(s, key) EXCEPT !.signing_key_verified = TRUE]

import_inbound(s, key) ==
  IF key.version # SESSION_EXPORT_VERSION THEN InboundFailed(s, "BAD_SESSION_KEY")
  ELSE WithGroupKeys(s, key)

(***************************************************************************)
(* _get_megolm: which ratchet is asked, and what it leaves behind.         *)
(***************************************************************************)
(* Mutant: counters are compared as numbers. *)
UsesLatest_Plain(s, message_index) == message_index >= s.latest_ratchet.counter

UsesLatest(s, message_index) == Distance(s.latest_ratchet.counter, message_index) < Half

IsKnown(s, message_index) ==
  \/ UsesLatest(s, message_index)
  \/ Distance(s.initial_ratchet.counter, message_index) < Half

(* The ratchet it returns for an index that is known. *)
get_megolm(s, message_index) ==
  megolm_advance_to(IF UsesLatest(s, message_index) THEN s.latest_ratchet
                                                    ELSE s.initial_ratchet, message_index)

(* Mutant: the ratchet that is asked is advanced, whichever it is. *)
WithMegolm_InPlace(s, message_index) ==
  IF UsesLatest(s, message_index) THEN [s EXCEPT !.latest_ratchet = get_megolm(s, message_index)]
  ELSE [s EXCEPT !.initial_ratchet = get_megolm(s, message_index)]

WithMegolm(s, message_index) ==
  IF UsesLatest(s, message_index) THEN [s EXCEPT !.latest_ratchet = get_megolm(s, message_index)]
  ELSE s

(***************************************************************************)
(* _decrypt: the checks in their order, for a message that decodes.        *)
(***************************************************************************)
DecryptResult(s, m) ==
  IF m.version # OLM_PROTOCOL_VERSION THEN "BAD_MESSAGE_VERSION"
  ELSE IF m.signed_by # s.signing_key THEN "BAD_SIGNATURE"
  ELSE IF ~ IsKnown(s, m.message_index) THEN "UNKNOWN_MESSAGE_INDEX"
  ELSE IF get_megolm(s, m.message_index).data # m.key THEN "BAD_MESSAGE_MAC"
  ELSE "SUCCESS"

(* The ratchet is advanced before the MAC is checked. *)
GroupDecrypted(s, m) ==
  LET result == DecryptResult(s, m)
  IN  IF result = "SUCCESS"
      THEN [WithMegolm(s, m.message_index) EXCEPT !.signing_key_verified = TRUE]
      ELSE IF result = "BAD_MESSAGE_MAC"
      THEN InboundFailed(WithMegolm(s, m.message_index), result)
      ELSE InboundFailed(s, result)

(***************************************************************************)
(* olm_export_inbound_group_session.                                       *)
(***************************************************************************)
(* Mutant: the export is the ratchet that the session was started with. *)
export_inbound_Initial(s, message_index) ==
  [version |-> SESSION_EXPORT_VERSION, counter |-> s.initial_ratchet.counter,
   data |-> s.initial_ratchet.data, signing_key |-> s.signing_key]

export_inbound(s, message_index) ==
  [version |-> SESSION_EXPORT_VERSION, counter |-> message_index,
   data |-> get_megolm(s, message_index).data, signing_key |-> s.signing_key]

Exported(s, message_index) ==
  IF IsKnown(s, message_index) THEN WithMegolm(s, message_index)
  ELSE InboundFailed(s, "UNKNOWN_MESSAGE_INDEX")

=============================================================================
