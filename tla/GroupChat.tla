----------------------------- MODULE GroupChat -----------------------------
(***************************************************************************)
(* One sender of a group and the sessions of its receivers, over any       *)
(* network: messages are lost, repeated, late, or changed.                 *)
(*                                                                         *)
(* Messages are numbered from 1; number i is encrypted with the ratchet    *)
(* made[i], and the last element of made is the ratchet for the next       *)
(* message.  A receiver may be given the sender's session key as it was    *)
(* before any message, and any index to export: the counter of a message   *)
(* that was sent, or will be.                                              *)
(***************************************************************************)
EXTENDS GroupSession

CONSTANTS
  Receiver,
  Start,       \* messages the sender has encrypted before number 1
  MaxMessages  \* bound: messages after that

ASSUME GroupChatConstants == Start \in Nat /\ MaxMessages \in Nat

Sender == "sender"
Stranger == "stranger"

VARIABLES
  out,        \* the sender's session
  made,       \* its ratchets so far
  inbound,    \* the session of each receiver
  first,      \* the number of the message it starts with, 0 if it has none
  reach,      \* the furthest number it was asked for since
  evidence,   \* it came signed, or has decrypted a message since
  exported    \* the last export, and the number of the message it starts with

vars == <<out, made, inbound, first, reach, evidence, exported>>

NoExport == [number |-> 0]

(* The ratchet after n messages, by single steps. *)
RatchetAt[n \in Nat] ==
  IF n = 0 THEN init_outbound(RandomData("R"), Sender).ratchet
  ELSE megolm_advance(RatchetAt[n - 1])

Init ==
  /\ out = [init_outbound(RandomData("R"), Sender) EXCEPT !.ratchet = RatchetAt[Start]]
  /\ made = << out.ratchet >>
  /\ inbound = [r \in Receiver |-> cleared_inbound]
  /\ first = [r \in Receiver |-> 0]
  /\ reach = [r \in Receiver |-> 0]
  /\ evidence = [r \in Receiver |-> FALSE]
  /\ exported = NoExport

Sent == 1..(Len(made) - 1)
IndexOf(i) == (Start + i - 1) % Counters
MessageAt(i) == GroupMessage([out EXCEPT !.ratchet = made[i]])
SessionKeyAt(i) == outbound_group_session_key([out EXCEPT !.ratchet = made[i]])

(***************************************************************************)
(* The sender.                                                             *)
(***************************************************************************)
GroupEncrypt ==
  /\ Len(made) <= MaxMessages
  /\ out' = GroupEncrypted(out)
  /\ made' = Append(made, out'.ratchet)
  /\ UNCHANGED <<inbound, first, reach, evidence, exported>>

(* The buffer is checked before anything changes. *)
GroupEncryptFails ==
  /\ out' = [out EXCEPT !.last_error = "OUTPUT_BUFFER_TOO_SMALL"]
  /\ UNCHANGED <<made, inbound, first, reach, evidence, exported>>

(***************************************************************************)
(* A receiver's session is started, in cleared memory or over another.     *)
(***************************************************************************)
InitInbound(r, i) ==
  /\ inbound' = [inbound EXCEPT ![r] = init_inbound(@, SessionKeyAt(i))]
  /\ first' = [first EXCEPT ![r] = i]
  /\ reach' = [reach EXCEPT ![r] = i]
  /\ evidence' = [evidence EXCEPT ![r] = TRUE]
  /\ UNCHANGED <<out, made, exported>>

(* A session key that someone has changed: it is stored all the same. *)
ForgedKey == [SessionKeyAt(1) EXCEPT !.data = RandomData(Stranger), !.signed_by = Stranger]

InitInboundForged(r) ==
  /\ inbound' = [inbound EXCEPT ![r] = init_inbound(@, ForgedKey)]
  /\ first' = [first EXCEPT ![r] = 0]
  /\ reach' = [reach EXCEPT ![r] = 0]
  /\ evidence' = [evidence EXCEPT ![r] = FALSE]
  /\ UNCHANGED <<out, made, exported>>

(* An export is no session key, and a session key no export. *)
InitInboundFails(r) ==
  /\ \/ exported # NoExport /\ inbound' = [inbound EXCEPT ![r] = init_inbound(@, exported.key)]
     \/ inbound' = [inbound EXCEPT ![r] = import_inbound(@, SessionKeyAt(1))]
  /\ UNCHANGED <<out, made, first, reach, evidence, exported>>

ImportInbound(r) ==
  /\ exported # NoExport
  /\ inbound' = [inbound EXCEPT ![r] = import_inbound(@, exported.key)]
  /\ first' = [first EXCEPT ![r] = exported.number]
  /\ reach' = [reach EXCEPT ![r] = exported.number]
  /\ evidence' = [evidence EXCEPT ![r] = FALSE]
  /\ UNCHANGED <<out, made, exported>>

(***************************************************************************)
(* What a session is asked for, and what it says.  Nothing that is older   *)
(* by more than half of the counters than what the session has seen ever   *)
(* arrives.                                                                *)
(***************************************************************************)
InWindow(r, i) == first[r] # 0 /\ reach[r] - i <= Half

Reached(r, i) ==
  reach' = [reach EXCEPT ![r] = IF i - @ \in 0..(Half - 1) THEN i ELSE @]

GroupDecrypt(r, i) ==
  /\ InWindow(r, i)
  /\ inbound' = [inbound EXCEPT ![r] = GroupDecrypted(@, MessageAt(i))]
  /\ Reached(r, i)
  /\ evidence' = [evidence EXCEPT ![r] = @ \/ DecryptResult(inbound[r], MessageAt(i)) = "SUCCESS"]
  /\ UNCHANGED <<out, made, first, exported>>

(* Another version, or changed after it was signed. *)
Altered(m) == { [m EXCEPT !.version = 4], [m EXCEPT !.signed_by = Stranger],
                [m EXCEPT !.message_index = (@ + 1) % Counters, !.signed_by = Stranger] }

GroupDecryptAltered(r, m) ==
  /\ first[r] # 0
  /\ inbound' = [inbound EXCEPT ![r] = GroupDecrypted(@, m)]
  /\ UNCHANGED <<out, made, first, reach, evidence, exported>>

(* A message or a key that cannot be read at all. *)
InboundUnreadable(r, error) ==
  /\ error \in {"INVALID_BASE64", "BAD_MESSAGE_FORMAT", "BAD_SESSION_KEY", "OUTPUT_BUFFER_TOO_SMALL"}
  /\ inbound' = [inbound EXCEPT ![r] = InboundFailed(@, error)]
  /\ UNCHANGED <<out, made, first, reach, evidence, exported>>

Export(r, i) ==
  /\ InWindow(r, i)
  /\ inbound' = [inbound EXCEPT ![r] = Exported(@, IndexOf(i))]
  /\ exported' = IF IsKnown(inbound[r], IndexOf(i))
                 THEN [number |-> i, key |-> export_inbound(inbound[r], IndexOf(i))]
                 ELSE exported
  /\ Reached(r, i)
  /\ UNCHANGED <<out, made, first, evidence>>

Next ==
  \/ GroupEncrypt
  \/ GroupEncryptFails
  \/ \E r \in Receiver :
       \/ \E i \in DOMAIN made : InitInbound(r, i)
       \/ InitInboundForged(r)
       \/ InitInboundFails(r)
       \/ ImportInbound(r)
       \/ \E i \in Sent : GroupDecrypt(r, i) \/ \E m \in Altered(MessageAt(i)) : GroupDecryptAltered(r, m)
       \/ \E i \in 1..(MaxMessages + 1) : Export(r, i)
       \/ \E error \in {"INVALID_BASE64", "BAD_MESSAGE_FORMAT", "BAD_SESSION_KEY",
                        "OUTPUT_BUFFER_TOO_SMALL"} : InboundUnreadable(r, error)

Spec == Init /\ [][Next]_vars

(***************************************************************************)
(* What a group session promises.                                          *)
(***************************************************************************)
HasSession(r) == first[r] # 0

(* A receiver reads every message from the one its session starts with, in *)
(* any order and any number of times, and says UNKNOWN_MESSAGE_INDEX of    *)
(* the others: no message or export that it was asked for, early, late or  *)
(* repeated, and no turn of the counter spoils that.  The limits are half  *)
(* of the counters: ahead of all that it has seen, and, for a message that *)
(* comes late, ahead of the first.                                         *)
IsReadable(r, i) ==
  /\ i >= first[r]
  /\ i < reach[r] => i - first[r] < Half
  /\ i - reach[r] < Half

ReadsFromFirst ==
  \A r \in Receiver : HasSession(r) =>
    \A i \in Sent : InWindow(r, i) =>
      DecryptResult(inbound[r], MessageAt(i)) =
        IF IsReadable(r, i) THEN "SUCCESS" ELSE "UNKNOWN_MESSAGE_INDEX"

(* Nothing a receiver holds, and nothing it exports, can be hashed into    *)
(* the key of a message before the one its session starts with.            *)
NoHistory ==
  /\ \A r \in Receiver : HasSession(r) =>
       \A i \in DOMAIN made : i < first[r] =>
         ~ Derivable(Range(inbound[r].initial_ratchet.data) \cup Range(inbound[r].latest_ratchet.data),
                     made[i].data)
  /\ \A i \in DOMAIN made : i < exported.number => ~ Derivable(Range(exported.key.data), made[i].data)

(* Type invariant: a session that is started is the sender's, and the      *)
(* ratchet that serves new messages is at or after the one it started with.*)
TypeOK ==
  \A r \in Receiver :
    /\ inbound[r].initial_ratchet.counter \in 0..(Counters - 1)
    /\ inbound[r].signing_key_verified \in BOOLEAN
    /\ HasSession(r) =>
         /\ inbound[r].signing_key = Sender
         /\ inbound[r].initial_ratchet.counter = IndexOf(first[r])
         /\ inbound[r].latest_ratchet.counter = IndexOf(reach[r])
         /\ first[r] <= reach[r]

(* inbound_group_session.h: a session is verified either because the       *)
(* session share was signed, or because it has decrypted a message since.  *)
VerifiedHasEvidence ==
  \A r \in Receiver : HasSession(r) /\ inbound[r].signing_key_verified => evidence[r]

=============================================================================
