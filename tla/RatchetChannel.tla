--------------------------- MODULE RatchetChannel ---------------------------
(***************************************************************************)
(* Two ratchets that share a secret, and everything the network between    *)
(* them may do.                                                            *)
(*                                                                         *)
(* A message that was encrypted stays in `sent' for ever and may be handed *)
(* to either party at any time: that is a network that loses, duplicates,  *)
(* delays, reorders and reflects.  A message may also arrive damaged.      *)
(* Each action is one call of olm_encrypt or olm_decrypt; the library has  *)
(* no threads, so that a call is a step.                                   *)
(***************************************************************************)
EXTENDS Ratchet

CONSTANTS
  Alice, Bob,  \* the two ends; Alice starts
  Bounds       \* what a run may use up: it keeps to one of these, of
               \*   keys: ratchet keys of a party, counter: messages on a sender chain

ASSUME ChannelConstants ==
  /\ Alice # Bob
  /\ \A b \in Bounds : b.keys \in Nat \ {0} /\ b.counter \in Nat \ {0}

Party == {Alice, Bob}
Peer(p) == IF p = Alice THEN Bob ELSE Alice

(* A party's ratchet keys, in the order it generates them. *)
RatchetKey == Party \X Nat
Owner(key) == key[1]

VARIABLES
  ratchet,    \* the ratchet of each party
  generated,  \* how many ratchet keys each party has generated
  encrypted,  \* how many messages each party has encrypted
  sent,       \* every message that was ever encrypted
  delivered,  \* the messages each party has decrypted
  decrypted   \* how often decrypt has returned a message to each party

vars == <<ratchet, generated, encrypted, sent, delivered, decrypted>>

(***************************************************************************)
(* Types.                                                                  *)
(***************************************************************************)
History == Seq(SUBSET RatchetKey)
ChainKey == [key : History, index : Nat]
MessageKey == ChainKey
SenderChainType == [ratchet_key : RatchetKey, chain_key : ChainKey]
ReceiverChainType == [ratchet_key : RatchetKey, chain_key : ChainKey]
SkippedMessageKey == [ratchet_key : RatchetKey, message_key : MessageKey]
Message == [ratchet_key : RatchetKey, counter : Nat, key : MessageKey, plaintext : Nat]

RatchetType ==
  [root_key             : History,
   sender_chain         : Seq(SenderChainType),
   receiver_chains      : Seq(ReceiverChainType),
   skipped_message_keys : Seq(SkippedMessageKey),
   last_error           : Error]

(* Type invariant. *)
TypeOK ==
  /\ ratchet \in [Party -> RatchetType]
  /\ \A p \in Party : WithinBounds(ratchet[p])
  /\ generated \in [Party -> Nat]
  /\ encrypted \in [Party -> Nat]
  /\ sent \in SUBSET Message
  /\ delivered \in [Party -> SUBSET Message]
  /\ decrypted \in [Party -> Nat]

(***************************************************************************)
(* Behaviour.                                                              *)
(***************************************************************************)
(* The session set-up gives both ends the same secret, and Bob Alice's     *)
(* first ratchet key.                                                      *)
Init ==
  /\ ratchet = [p \in Party |-> IF p = Alice THEN initialise_as_alice(<< >>, <<Alice, 1>>)
                                             ELSE initialise_as_bob(<< >>, <<Alice, 1>>)]
  /\ generated = [p \in Party |-> IF p = Alice THEN 1 ELSE 0]
  /\ encrypted = [p \in Party |-> 0]
  /\ sent = {}
  /\ delivered = [p \in Party |-> {}]
  /\ decrypted = [p \in Party |-> 0]

FreshKey(p) == <<p, generated[p] + 1>>

(* What p would send now.  Every message has a plaintext of its own. *)
NextMessage(p) == EncryptedMessage(ratchet[p], FreshKey(p), encrypted[p])

InSomeBound ==
  \E b \in Bounds :
    /\ \A p \in Party : generated[p] <= b.keys
    /\ \A m \in sent : m.counter < b.counter

Encrypt(p) ==
  /\ ratchet' = [ratchet EXCEPT ![p] = Encrypted(@, FreshKey(p))]
  /\ generated' = [generated EXCEPT ![p] = IF NeedsRandom(ratchet[p]) THEN @ + 1 ELSE @]
  /\ encrypted' = [encrypted EXCEPT ![p] = @ + 1]
  /\ sent' = sent \cup {NextMessage(p)}
  /\ InSomeBound'
  /\ UNCHANGED <<delivered, decrypted>>

(* The caller's buffers are checked before anything changes. *)
EncryptFails(p, error) ==
  /\ error = "NOT_ENOUGH_RANDOM" => NeedsRandom(ratchet[p])
  /\ error \in {"NOT_ENOUGH_RANDOM", "OUTPUT_BUFFER_TOO_SMALL"}
  /\ ratchet' = [ratchet EXCEPT ![p] = Failed(@, error)]
  /\ UNCHANGED <<generated, encrypted, sent, delivered, decrypted>>

(* A message that does not decode, of another version, or larger than the  *)
(* caller's buffer.                                                        *)
DecryptUnreadable(p, error) ==
  /\ error \in {"BAD_MESSAGE_VERSION", "BAD_MESSAGE_FORMAT", "OUTPUT_BUFFER_TOO_SMALL"}
  /\ ratchet' = [ratchet EXCEPT ![p] = Failed(@, error)]
  /\ UNCHANGED <<generated, encrypted, sent, delivered, decrypted>>

Deliver(p, m) ==
  /\ delivered' = [delivered EXCEPT ![p] = @ \cup {m}]
  /\ decrypted' = [decrypted EXCEPT ![p] = @ + 1]
  /\ UNCHANGED <<generated, encrypted, sent>>

DecryptNewChain(p, m) ==
  /\ VerifiesOnNewChain(ratchet[p], m)
  /\ ratchet' = [ratchet EXCEPT ![p] = DecryptedOnNewChain(@, m)]
  /\ Deliver(p, m)

DecryptExistingChain(p, m) ==
  /\ VerifiesOnExistingChain(ratchet[p], m)
  /\ ratchet' = [ratchet EXCEPT ![p] = DecryptedOnExistingChain(@, m)]
  /\ Deliver(p, m)

DecryptSkipped(p, m) ==
  /\ VerifiesWithSkippedKey(ratchet[p], m)
  /\ ratchet' = [ratchet EXCEPT ![p] = DecryptedWithSkippedKey(@, m)]
  /\ Deliver(p, m)

(* Mutant: a new chain is entered before its MAC is checked. *)
DecryptRejected_ChainEntered(p, m) ==
  /\ ~ CanDecrypt(ratchet[p], m)
  /\ ratchet' = [ratchet EXCEPT ![p] =
       IF HasReceiverChain(@, m) \/ @.sender_chain = << >>
       THEN Failed(@, "BAD_MESSAGE_MAC")
       ELSE Failed(WithNewReceiverChain(@, m), "BAD_MESSAGE_MAC")]
  /\ UNCHANGED <<generated, encrypted, sent, delivered, decrypted>>

DecryptRejected(p, m) ==
  /\ ~ CanDecrypt(ratchet[p], m)
  /\ ratchet' = [ratchet EXCEPT ![p] = Failed(@, "BAD_MESSAGE_MAC")]
  /\ UNCHANGED <<generated, encrypted, sent, delivered, decrypted>>

Decrypt(p, m) ==
  \/ DecryptNewChain(p, m)
  \/ DecryptExistingChain(p, m)
  \/ DecryptSkipped(p, m)
  \/ DecryptRejected(p, m)

(* What a transmission error makes of a message: another header, over a    *)
(* MAC that no key of either party made.                                   *)
NoKey == [key |-> <<{}>>, index |-> 0]
Damaged(m) ==
  { [ratchet_key |-> key, counter |-> c, key |-> NoKey, plaintext |-> 0] :
      key \in {m.ratchet_key, <<Owner(m.ratchet_key), 0>>}, c \in {m.counter, m.counter + 1} }

Arriving == sent \cup UNION { Damaged(m) : m \in sent }

Next ==
  \E p \in Party :
    \/ Encrypt(p)
    \/ \E error \in Error : EncryptFails(p, error) \/ DecryptUnreadable(p, error)
    \/ \E m \in Arriving : Decrypt(p, m)

Spec == Init /\ [][Next]_vars

(***************************************************************************)
(* What the ratchet promises.                                              *)
(***************************************************************************)
SentBy(p) == { m \in sent : Owner(m.ratchet_key) = p }

(* decrypt accepts a message at most once: whatever arrived in between, no *)
(* branch of decrypt verifies a message that was decrypted already.        *)
NoReplay ==
  \A p \in Party : \A m \in delivered[p] : ~ CanDecrypt(ratchet[p], m)

(* decrypt accepts only what the other end encrypted: not a damaged        *)
(* message, and not the party's own messages sent back to it.              *)
Authentic == \A p \in Party : delivered[p] \subseteq SentBy(Peer(p))

(* create_message_keys never gives two messages the same key, not even     *)
(* messages of different parties.                                          *)
UniqueKeys == \A m1, m2 \in sent : m1.key = m2.key => m1 = m2

(* The keys that can be had from what a ratchet stores, by hashing the     *)
(* chain keys forward.                                                     *)
Derivable(r, key) ==
  \/ \E i \in DOMAIN r.sender_chain :
       /\ r.sender_chain[i].chain_key.key = key.key
       /\ r.sender_chain[i].chain_key.index <= key.index
  \/ \E i \in DOMAIN r.receiver_chains :
       /\ r.receiver_chains[i].chain_key.key = key.key
       /\ r.receiver_chains[i].chain_key.index <= key.index
  \/ \E i \in DOMAIN r.skipped_message_keys : r.skipped_message_keys[i].message_key = key

(* A ratchet holds nothing from which the key of a message that it has     *)
(* encrypted or decrypted can be had: encrypt and decrypt advance every    *)
(* chain past the message and erase the skipped key they use.              *)
UsedKeysAreGone ==
  \A p \in Party : \A m \in SentBy(p) \cup delivered[p] : ~ Derivable(ratchet[p], m.key)

(* The roots of the two ends never drift apart: one is the other, or the   *)
(* other with one more secret mixed in.                                    *)
RootsInStep ==
  \/ ratchet[Alice].root_key = ratchet[Bob].root_key
  \/ \E p \in Party : /\ Len(ratchet[p].root_key) = Len(ratchet[Peer(p)].root_key) + 1
                      /\ Front(ratchet[p].root_key) = ratchet[Peer(p)].root_key

(* How many messages a party has to skip to decrypt m. *)
Gap(p, m) ==
  m.counter - (IF HasReceiverChain(ratchet[p], m)
               THEN ratchet[p].receiver_chains[ReceiverChain(ratchet[p], m)].chain_key.index
               ELSE 0)

(* The ends cannot wedge: whatever was lost, reordered or rejected so far, *)
(* the next message either of them encrypts is one the other decrypts, if  *)
(* it is within the gap.  In particular the guard of decrypt that refuses  *)
(* a new chain while there is no sender chain never refuses an honest one. *)
NeverWedged ==
  \A p \in Party :
    Gap(Peer(p), NextMessage(p)) <= MAX_MESSAGE_GAP
      => CanDecrypt(ratchet[Peer(p)], NextMessage(p))

(* Decrypting d makes p discard what it needs for m, for want of room and  *)
(* for no other reason: m's chain is the last of a full list of chains, or *)
(* m's key, skipped now or before, has more than the list holds before it. *)
Discards(p, d, m) ==
  LET chains == ratchet[p].receiver_chains
      keys   == ratchet[p].skipped_message_keys
  IN  \/ /\ ~ HasReceiverChain(ratchet[p], d)
         /\ Len(chains) = MAX_RECEIVER_CHAINS
         /\ chains[Len(chains)].ratchet_key = m.ratchet_key
      \/ /\ d.ratchet_key = m.ratchet_key
         /\ Gap(p, m) >= 0
         /\ d.counter - m.counter > MAX_SKIPPED_MESSAGE_KEYS
      \/ \E i \in DOMAIN keys :
           /\ keys[i].message_key = m.key
           /\ i + Gap(p, d) > MAX_SKIPPED_MESSAGE_KEYS

KeptUnlessDiscarded ==
  \A p \in Party : \A m \in SentBy(Peer(p)) \ delivered[p] :
    CanDecrypt(ratchet[p], m) =>
      \/ CanDecrypt(ratchet'[p], m)
      \/ \E d \in delivered'[p] \ delivered[p] : d = m \/ Discards(p, d, m)

(* A message that decrypt would accept stays so until it is decrypted, or  *)
(* until another message makes a full list discard its own chain or key:   *)
(* no order of arrival and no rejected message loses it otherwise, and a   *)
(* list that overflows gives up its oldest and nothing else.               *)
KeptUntilDiscarded == [][KeptUnlessDiscarded]_vars

(* Each ratchet is past every key it has used: the inductive form of       *)
(* NoReplay.                                                               *)
ReplayInv == \A p \in Party : ReplaySafe(ratchet[p], delivered[p])

(***************************************************************************)
(* The channel that the two ratchets implement.                            *)
(***************************************************************************)
Abstract(m) == <<Owner(m.ratchet_key), m.plaintext>>

Secure == INSTANCE SecureChannel WITH
  Plaintext <- UNION { 0..(b.keys * b.counter - 1) : b \in Bounds },
  sent      <- { Abstract(m) : m \in sent },
  delivered <- [p \in Party |-> { Abstract(m) : m \in delivered[p] }],
  returned  <- decrypted

(* Two ratchets over any network are a secure channel: each time decrypt   *)
(* returns a message, it is one that encrypt was given at the other end,   *)
(* and one that this end was not given before.                             *)
ImplementsSecureChannel == Secure!Spec

=============================================================================
