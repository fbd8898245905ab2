---------------------------- MODULE OlmSessions ----------------------------
(***************************************************************************)
(* Accounts and the sessions they open with each other, as an application  *)
(* uses them.                                                              *)
(*                                                                         *)
(* The application and the key server are not part of the library.  They   *)
(* are assumed to do what USAGE.md and olm.h say: the server hands each    *)
(* one-time key to one session, a pre-key message goes to the session it   *)
(* matches if there is one, and a session that was opened by a message is  *)
(* not forgotten before its one-time key is removed.  Everything else they *)
(* may do in any order, and the network may do anything with messages.     *)
(***************************************************************************)
EXTENDS Session

CONSTANTS
  Party,
  Bounds              \* what to bound behaviours by: a set, of which each obeys one

Field == {"version", "identity_key", "base_key", "one_time_key", "ratchet_key", "no_ratchet_key"}

ASSUME OlmSessionsConstants ==
  Bounds \subseteq [slots : [Party -> SUBSET Nat], keys : [Party -> Nat],
                    counter : Nat, ratchets : Nat, damage : SUBSET Field]

(* Key pairs, and their public keys, by owner and purpose. *)
IdentityKey(p) == <<p, "identity", 0, 0>>
OneTimeKey(p, id) == <<p, "one_time", id, 0>>
BaseKey(p, s) == <<p, "base", s, 0>>
RatchetKeyOf(p, s, n) == <<p, "ratchet", s, n>>
Owner(key) == key[1]

VARIABLES
  bounds,     \* the bounds this behaviour obeys
  account,    \* the account of each party
  session,    \* the sessions of each party
  role,       \* "alice" or "bob" where a session was created, "none" where not
  forgotten,  \* the sessions each party has deleted
  uploaded,   \* the one-time keys each party has given to the server
  claimed,    \* the one-time keys the server has handed out
  removed,    \* the one-time keys each party has removed
  sent,       \* every message that was ever encrypted
  delivered   \* what each party has decrypted, and in which session

vars == <<bounds, account, session, role, forgotten, uploaded, claimed, removed, sent, delivered>>

Slots == bounds.slots           \* the sessions each party has memory for
MaxKeys == bounds.keys          \* one-time keys each party generates
MaxCounter == bounds.counter    \* messages on one sender chain
MaxRatchets == bounds.ratchets  \* changes of the root in one session
Damage == bounds.damage         \* the fields of a pre-key message that may arrive changed

keyVars == <<uploaded, claimed, removed>>
messageVars == <<sent, delivered>>

Init ==
  /\ bounds \in Bounds
  /\ account = [p \in Party |-> new_account(IdentityKey(p))]
  /\ session = [p \in Party |-> [s \in Slots[p] |-> new_session]]
  /\ role = [p \in Party |-> [s \in Slots[p] |-> "none"]]
  /\ forgotten = [p \in Party |-> {}]
  /\ uploaded = [p \in Party |-> {}]
  /\ claimed = {}
  /\ removed = [p \in Party |-> {}]
  /\ sent = {}
  /\ delivered = [p \in Party |-> {}]

Opened(p, s) == role[p][s] # "none"

(* The memory that the application uses for the next session it opens. *)
NextSlot(p, s) == ~ Opened(p, s) /\ \A t \in Slots[p] : t < s => Opened(p, t)
Live(p, s) == Opened(p, s) /\ s \notin forgotten[p]

(***************************************************************************)
(* The account.                                                            *)
(***************************************************************************)
GenerateOneTimeKeys(p, n) ==
  /\ account[p].next_one_time_key_id + n <= MaxKeys[p]
  /\ account' = [account EXCEPT ![p] =
       generate_one_time_keys(@, [i \in 1..n |-> OneTimeKey(p, @.next_one_time_key_id + i)])]
  /\ UNCHANGED <<session, role, forgotten, keyVars, messageVars>>

GenerateOneTimeKeysFails(p) ==
  /\ account' = [account EXCEPT ![p] = AccountFailed(@, "NOT_ENOUGH_RANDOM")]
  /\ UNCHANGED <<session, role, forgotten, keyVars, messageVars>>

Upload(p) ==
  /\ uploaded' = [uploaded EXCEPT ![p] = @ \cup get_one_time_keys_json(account[p])]
  /\ UNCHANGED <<account, session, role, forgotten, claimed, removed, messageVars>>

MarkKeysAsPublished(p) ==
  /\ account' = [account EXCEPT ![p] = mark_keys_as_published(@)]
  /\ UNCHANGED <<session, role, forgotten, keyVars, messageVars>>

(* olm_remove_one_time_keys, for a session that was created. *)
RemoveOneTimeKeys(p, s) ==
  LET key == session[p][s].bob_one_time_key
  IN  /\ Live(p, s)
      /\ lookup_key(account[p], key)
      /\ account' = [account EXCEPT ![p] = remove_key(@, key)]
      /\ removed' = [removed EXCEPT ![p] = @ \cup {key}]
      /\ UNCHANGED <<session, role, forgotten, uploaded, claimed, messageVars>>

RemoveOneTimeKeysFails(p, s) ==
  /\ Live(p, s)
  /\ ~ lookup_key(account[p], session[p][s].bob_one_time_key)
  /\ account' = [account EXCEPT ![p] = AccountFailed(@, "BAD_MESSAGE_KEY_ID")]
  /\ UNCHANGED <<session, role, forgotten, keyVars, messageVars>>

(***************************************************************************)
(* Opening sessions.                                                       *)
(***************************************************************************)
(* p has claimed the one-time key k of q. *)
CreateOutbound(p, s, q, k) ==
  /\ NextSlot(p, s)
  /\ k \in uploaded[q] \ claimed
  /\ claimed' = claimed \cup {k}
  /\ session' = [session EXCEPT ![p][s] =
       new_outbound_session(@, account[p].identity_key, BaseKey(p, s),
                            RatchetKeyOf(p, s, 0), account[q].identity_key, k.key)]
  /\ role' = [role EXCEPT ![p][s] = "alice"]
  /\ UNCHANGED <<account, forgotten, uploaded, removed, messageVars>>

(* Too little random data, or a pre-key message with a field missing: the  *)
(* session is as it was.                                                   *)
CreateUnready(p, s, error) ==
  /\ NextSlot(p, s)
  /\ error \in {"NOT_ENOUGH_RANDOM", "BAD_MESSAGE_FORMAT"}
  /\ session' = [session EXCEPT ![p][s] = SessionFailed(@, error)]
  /\ UNCHANGED <<account, role, forgotten, keyVars, messageVars>>

(* A pre-key message that belongs to no session of p.  from is the sender  *)
(* if the application knows it (olm_create_inbound_session_from).          *)
Unmatched(p, m) ==
  /\ m.type = "PRE_KEY"
  /\ \A t \in Slots[p] : Live(p, t) => ~ matches_inbound_session(session[p][t], m)

CreateInbound(p, s, from, m) ==
  /\ NextSlot(p, s)
  /\ Unmatched(p, m)
  /\ ~ IdentityMismatch(m, from)
  /\ HasRatchetKey(m)
  /\ lookup_key(account[p], m.one_time_key)
  /\ session' = [session EXCEPT ![p][s] = new_inbound_session(@, m, account[p].identity_key)]
  /\ role' = [role EXCEPT ![p][s] = "bob"]
  /\ UNCHANGED <<account, forgotten, keyVars, messageVars>>

(* The checks before the keys of the message are stored. *)
CreateInboundRefused(p, s, from, m) ==
  /\ NextSlot(p, s)
  /\ Unmatched(p, m)
  /\ IdentityMismatch(m, from)
  /\ session' = [session EXCEPT ![p][s] = SessionFailed(@, "BAD_MESSAGE_KEY_ID")]
  /\ UNCHANGED <<account, role, forgotten, keyVars, messageVars>>

(* The checks after: the session now has the id of the message, and no     *)
(* ratchet.  The application may try another message with it.              *)
CreateInboundFails(p, s, from, m) ==
  /\ NextSlot(p, s)
  /\ Unmatched(p, m)
  /\ ~ IdentityMismatch(m, from)
  /\ ~ HasRatchetKey(m) \/ ~ lookup_key(account[p], m.one_time_key)
  /\ session' = [session EXCEPT ![p][s] =
       SessionFailed(WithMessageKeys(@, m), IF HasRatchetKey(m) THEN "BAD_MESSAGE_KEY_ID"
                                            ELSE "BAD_MESSAGE_FORMAT")]
  /\ UNCHANGED <<account, role, forgotten, keyVars, messageVars>>

(* The application deletes a session, once its one-time key is gone. *)
Forget(p, s) ==
  /\ Live(p, s)
  /\ ~ lookup_key(account[p], session[p][s].bob_one_time_key)
  /\ forgotten' = [forgotten EXCEPT ![p] = @ \cup {s}]
  /\ UNCHANGED <<account, session, role, keyVars, messageVars>>

(***************************************************************************)
(* Messages.                                                               *)
(***************************************************************************)
FreshKey(p, s) == RatchetKeyOf(p, s, Len(session[p][s].ratchet.root_key))

(* A message says which session it is of. *)
NextMessage(p, s) == SessionMessage(session[p][s], FreshKey(p, s), <<p, s>>)

Encrypt(p, s) ==
  /\ Live(p, s)
  /\ NeedsRandom(session[p][s].ratchet) => Len(session[p][s].ratchet.root_key) < 3 + MaxRatchets
  /\ NextMessage(p, s).message.counter < MaxCounter
  /\ session' = [session EXCEPT ![p][s] = SessionEncrypted(@, FreshKey(p, s))]
  /\ sent' = sent \cup {NextMessage(p, s)}
  /\ UNCHANGED <<account, role, forgotten, keyVars, delivered>>

Decrypt(p, s, m) ==
  /\ Live(p, s)
  /\ CanDecrypt(session[p][s].ratchet, m.message)
  /\ session' = [session EXCEPT ![p][s] = SessionDecrypted(@, m)]
  /\ delivered' = [delivered EXCEPT ![p] = @ \cup {[slot |-> s, message |-> m.message]}]
  /\ UNCHANGED <<account, role, forgotten, keyVars, sent>>

(* encrypt and decrypt that fail, whatever the reason. *)
SessionCallFails(p, s, error) ==
  /\ Live(p, s)
  /\ \/ error = "NOT_ENOUGH_RANDOM" /\ NeedsRandom(session[p][s].ratchet)
     \/ error \in {"OUTPUT_BUFFER_TOO_SMALL", "BAD_MESSAGE_FORMAT", "BAD_MESSAGE_VERSION"}
     \/ /\ error = "BAD_MESSAGE_MAC"
        /\ \E m \in sent : ~ CanDecrypt(session[p][s].ratchet, m.message)
  /\ session' = [session EXCEPT ![p][s] = SessionDecryptFailed(@, error)]
  /\ UNCHANGED <<account, role, forgotten, keyVars, messageVars>>

(* Another ratchet key in the header of the inner message.  The MAC covers *)
(* that header: no key fits it any more.                                   *)
WithRatchetKey(m, key) ==
  [m EXCEPT !.message.ratchet_key = key, !.message.key = [key |-> <<{}>>, index |-> 0]]

(* What may arrive in place of a pre-key message m: one field is another   *)
(* key that is known, or another version, or missing.                      *)
Damaged(m) ==
  { [m EXCEPT !.version = 4] : f \in Damage \cap {"version"} }
  \cup { [m EXCEPT !.identity_key = IdentityKey(p)] : p \in Party,
           f \in Damage \cap {"identity_key"} }
  \cup { [m EXCEPT !.base_key = m.one_time_key] : f \in Damage \cap {"base_key"} }
  \cup { [m EXCEPT !.one_time_key = k.key] : k \in UNION { uploaded[p] : p \in Party },
           f \in Damage \cap {"one_time_key"} }
  \cup { WithRatchetKey(m, m.base_key) : f \in Damage \cap {"ratchet_key"} }
  \cup { WithRatchetKey(m, NoKey) : f \in Damage \cap {"no_ratchet_key"} }

Arriving == sent \cup UNION { Damaged(m) : m \in { x \in sent : x.type = "PRE_KEY" } }

Senders == {NoKey} \cup { IdentityKey(p) : p \in Party }

PartyActs ==
  \E p \in Party :
    \/ \E n \in 1..2 : GenerateOneTimeKeys(p, n)
    \/ GenerateOneTimeKeysFails(p)
    \/ Upload(p)
    \/ MarkKeysAsPublished(p)
    \/ \E s \in Slots[p] :
         \/ \E q \in Party \ {p} : \E k \in uploaded[q] : CreateOutbound(p, s, q, k)
         \/ \E m \in Arriving, from \in Senders :
              \/ CreateInbound(p, s, from, m)
              \/ CreateInboundRefused(p, s, from, m)
              \/ CreateInboundFails(p, s, from, m)
         \/ RemoveOneTimeKeys(p, s)
         \/ RemoveOneTimeKeysFails(p, s)
         \/ Forget(p, s)
         \/ Encrypt(p, s)
         \/ \E m \in Arriving : Decrypt(p, s, m)
         \/ \E error \in {"NOT_ENOUGH_RANDOM", "OUTPUT_BUFFER_TOO_SMALL", "BAD_MESSAGE_FORMAT",
                          "BAD_MESSAGE_VERSION", "BAD_MESSAGE_MAC"} :
              CreateUnready(p, s, error) \/ SessionCallFails(p, s, error)

Next == PartyActs /\ UNCHANGED bounds

Spec == Init /\ [][Next]_vars

(***************************************************************************)
(* What sessions promise.                                                  *)
(***************************************************************************)
(* The session t of q is the other end of the session s of p. *)
OtherEnd(p, s, q, t) ==
  /\ p # q
  /\ Opened(p, s) /\ Opened(q, t)
  /\ role[p][s] # role[q][t]
  /\ session_id(session[p][s]) = session_id(session[q][t])

(* Every place where a session can be. *)
Ends == UNION { {p} \X Slots[p] : p \in Party }

(* Type invariant: the one-time keys fit their list, newest first, none    *)
(* twice, and no list of a session's ratchet is longer than its storage.   *)
TypeOK ==
  \A p \in Party :
    /\ Len(account[p].one_time_keys) <= MAX_ONE_TIME_KEYS
    /\ \A i, j \in DOMAIN account[p].one_time_keys :
         i < j => account[p].one_time_keys[i].id > account[p].one_time_keys[j].id
    /\ account[p].next_one_time_key_id \in 0..MaxKeys[p]
    /\ \A k \in uploaded[p] : k.id \in 1..account[p].next_one_time_key_id
    /\ removed[p] \subseteq { k.key : k \in uploaded[p] }
    /\ forgotten[p] \subseteq { s \in Slots[p] : Opened(p, s) }
    /\ \A s \in Slots[p] :
         LET r == session[p][s].ratchet
         IN  /\ role[p][s] \in {"none", "alice", "bob"}
             /\ Len(r.sender_chain) <= 1
             /\ Len(r.receiver_chains) <= MAX_RECEIVER_CHAINS
             /\ Len(r.skipped_message_keys) <= MAX_SKIPPED_MESSAGE_KEYS
             /\ Opened(p, s) => r.sender_chain # << >> \/ r.receiver_chains # << >>

(* The history that the keys of an account were published, claimed and     *)
(* removed in: a key that was published can be looked up until it is       *)
(* removed, or until as many newer keys as the account holds were made.    *)
PublishedKeysWork ==
  \A p \in Party : \A k \in uploaded[p] :
    \/ lookup_key(account[p], k.key)
    \/ k.key \in removed[p]
    \/ account[p].next_one_time_key_id - k.id >= MAX_ONE_TIME_KEYS

(* decrypt in a session returns only what was encrypted at the other end   *)
(* of the same session, whatever the header of the message said: the       *)
(* secret of a session binds both identities.                              *)
DeliveredInItsSession ==
  \A p \in Party : \A d \in delivered[p] :
    OtherEnd(p, d.slot, d.message.plaintext[1], d.message.plaintext[2])

(* No message is decrypted twice, by the same session or by another that   *)
(* was opened with a copy of it.                                           *)
NoReplayInAnySession ==
  \A p \in Party : \A d \in delivered[p] :
    /\ \A e \in delivered[p] : e.message = d.message => e.slot = d.slot
    /\ \A s \in Slots[p] : Live(p, s) => ~ CanDecrypt(session[p][s].ratchet, d.message)

(* A message without the set-up (MESSAGE) is sent only when the other end  *)
(* has a session that can read it: received_message is never early.        *)
MessagesFindTheirSession ==
  \A m \in sent : m.type = "MESSAGE" =>
    \E e \in Ends : OtherEnd(m.message.plaintext[1], m.message.plaintext[2], e[1], e[2])

(* First contact works at any time: if Bob still has the one-time key and  *)
(* no session of this id, any next message of Alice opens one that reads   *)
(* it, however many before it were lost.                                   *)
FirstContactWorks ==
  \A e \in Ends :
    LET p == e[1]  s == e[2]
        m == NextMessage(p, s)
        q == Owner(session[p][s].bob_one_time_key)
        opened == new_inbound_session(new_session, m, account[q].identity_key)
    IN  /\ Live(p, s)
        /\ role[p][s] = "alice"
        /\ m.message.counter <= MAX_MESSAGE_GAP
        /\ lookup_key(account[q], session[p][s].bob_one_time_key)
        /\ \A t \in Slots[q] : ~ OtherEnd(p, s, q, t)
        => m.type = "PRE_KEY" /\ CanDecrypt(opened.ratchet, m.message)

(* Once Bob has decrypted something in a session, each end reads the next  *)
(* message of the other, within the gap.                                   *)
SessionsWork ==
  \A d, e \in Ends :
    LET p == d[1]  s == d[2]
        q == e[1]  t == e[2]
        m == NextMessage(p, s).message
    IN  /\ OtherEnd(p, s, q, t) /\ Live(p, s) /\ Live(q, t)
        /\ \E x \in {d, e} : role[x[1]][x[2]] = "bob" /\ session[x[1]][x[2]].received_message
        /\ m.counter <= MAX_MESSAGE_GAP
        => CanDecrypt(session[q][t].ratchet, m)

=============================================================================
