------------------------------ MODULE Ratchet ------------------------------
(***************************************************************************)
(* olm::Ratchet (src/ratchet.cpp): one end of the double ratchet, as a     *)
(* value and the functions from one value to the next.                     *)
(*                                                                         *)
(* Cryptography is symbolic.  A Curve25519 key pair is its own name, and   *)
(* the shared secret of two pairs is the set of their names, so that both  *)
(* ends compute the same one.  A key that a derivation outputs is the      *)
(* history of the derivation: the sequence of the secrets that were mixed  *)
(* into the root, and for a chain or message key the number of hashes too. *)
(* Two keys are equal iff they were derived in the same way, and a MAC     *)
(* verifies iff it is checked with the key it was made with.               *)
(***************************************************************************)
EXTENDS OlmList

CONSTANTS
  MAX_RECEIVER_CHAINS,       \* 5 in the code
  MAX_SKIPPED_MESSAGE_KEYS,  \* 40 in the code
  MAX_MESSAGE_GAP            \* 2000 in the code

ASSUME RatchetConstants ==
  /\ MAX_RECEIVER_CHAINS \in Nat \ {0}
  /\ MAX_SKIPPED_MESSAGE_KEYS \in Nat \ {0}
  /\ MAX_MESSAGE_GAP \in Nat

(***************************************************************************)
(* Keys.                                                                   *)
(***************************************************************************)
SharedSecret(pair, public_key) == {pair, public_key}

(* The root key and the chain key that HKDF derives from the old root and  *)
(* the secret of our pair and their public key: the two halves of one      *)
(* output, so one history names both.                                      *)
create_chain_key(root_key, our_key, their_key) ==
  LET history == Append(root_key, SharedSecret(our_key, their_key))
  IN  [root_key |-> history, chain_key |-> [key |-> history, index |-> 0]]

advance_chain_key(chain_key) == [chain_key EXCEPT !.index = @ + 1]

(* The message key of a chain key has its own seed and the same index. *)
create_message_keys(chain_key) == chain_key

(* The chain key that counter - index hashes turn chain_key into. *)
AdvancedTo(chain_key, counter) == [chain_key EXCEPT !.index = counter]

(* What a call can leave in last_error. *)
Error == {"SUCCESS", "NOT_ENOUGH_RANDOM", "OUTPUT_BUFFER_TOO_SMALL",
          "BAD_MESSAGE_VERSION", "BAD_MESSAGE_FORMAT", "BAD_MESSAGE_MAC"}

(***************************************************************************)
(* The ratchet.  A message carries its header, and the key its MAC was     *)
(* made with: what the receiver cannot see but can test a key against.     *)
(***************************************************************************)
initialise_as_alice(shared_secret, our_key) ==
  [root_key             |-> shared_secret,
   sender_chain         |-> << [ratchet_key |-> our_key,
                                chain_key |-> [key |-> shared_secret, index |-> 0]] >>,
   receiver_chains      |-> << >>,
   skipped_message_keys |-> << >>,
   last_error           |-> "SUCCESS"]

initialise_as_bob(shared_secret, their_key) ==
  [root_key             |-> shared_secret,
   sender_chain         |-> << >>,
   receiver_chains      |-> << [ratchet_key |-> their_key,
                                chain_key |-> [key |-> shared_secret, index |-> 0]] >>,
   skipped_message_keys |-> << >>,
   last_error           |-> "SUCCESS"]

Failed(r, error) == [r EXCEPT !.last_error = error]

(***************************************************************************)
(* encrypt.  fresh is the pair that the caller's random bytes make.        *)
(***************************************************************************)
WithSenderChain(r, fresh) ==
  IF r.sender_chain # << >> THEN r
  ELSE LET new == create_chain_key(r.root_key, fresh, r.receiver_chains[1].ratchet_key)
       IN  [r EXCEPT !.root_key = new.root_key,
                     !.sender_chain = << [ratchet_key |-> fresh,
                                          chain_key |-> new.chain_key] >>]

EncryptedMessage(r, fresh, plaintext) ==
  LET chain == WithSenderChain(r, fresh).sender_chain[1]
  IN  [ratchet_key |-> chain.ratchet_key,
       counter     |-> chain.chain_key.index,
       key         |-> create_message_keys(chain.chain_key),
       plaintext   |-> plaintext]

(* Mutant: the chain key is used again for the next message. *)
Encrypted_ChainNotAdvanced(r, fresh) == WithSenderChain(r, fresh)

Encrypted(r, fresh) ==
  LET s == WithSenderChain(r, fresh)
  IN  [s EXCEPT !.sender_chain =
         << [s.sender_chain[1] EXCEPT !.chain_key = advance_chain_key(@)] >>]

(* encrypt_random_length() > 0 *)
NeedsRandom(r) == r.sender_chain = << >>

(***************************************************************************)
(* decrypt, once the header is read.  Each branch has the condition under  *)
(* which its MAC verifies; what the branch then does to the ratchet        *)
(* follows.  Of the chains and skipped keys that fit, the first is taken.  *)
(***************************************************************************)
ChainsFor(r, m) ==
  { i \in DOMAIN r.receiver_chains : r.receiver_chains[i].ratchet_key = m.ratchet_key }

HasReceiverChain(r, m) == ChainsFor(r, m) # {}

ReceiverChain(r, m) == Min(ChainsFor(r, m))

(* Mutant: the MAC is not checked. *)
VerifiesOnChain_NoMac(chain_key, m) ==
  /\ m.counter >= chain_key.index
  /\ m.counter - chain_key.index <= MAX_MESSAGE_GAP

VerifiesOnChain(chain_key, m) ==
  /\ m.counter >= chain_key.index
  /\ m.counter - chain_key.index <= MAX_MESSAGE_GAP
  /\ create_message_keys(AdvancedTo(chain_key, m.counter)) = m.key

NewChain(r, m) ==
  create_chain_key(r.root_key, r.sender_chain[1].ratchet_key, m.ratchet_key)

VerifiesOnNewChain(r, m) ==
  /\ ~ HasReceiverChain(r, m)
  /\ r.sender_chain # << >>
  /\ m.counter <= MAX_MESSAGE_GAP
  /\ VerifiesOnChain(NewChain(r, m).chain_key, m)

VerifiesOnExistingChain(r, m) ==
  /\ HasReceiverChain(r, m)
  /\ VerifiesOnChain(r.receiver_chains[ReceiverChain(r, m)].chain_key, m)

SkippedKeysFor(r, m) ==
  { i \in DOMAIN r.skipped_message_keys :
      LET skipped == r.skipped_message_keys[i]
      IN  /\ skipped.message_key.index = m.counter
          /\ skipped.ratchet_key = m.ratchet_key
          /\ skipped.message_key = m.key }

VerifiesWithSkippedKey(r, m) ==
  /\ HasReceiverChain(r, m)
  /\ r.receiver_chains[ReceiverChain(r, m)].chain_key.index > m.counter
  /\ SkippedKeysFor(r, m) # {}

CanDecrypt(r, m) ==
  \/ VerifiesOnNewChain(r, m)
  \/ VerifiesOnExistingChain(r, m)
  \/ VerifiesWithSkippedKey(r, m)

(* Mutant: the skipped key is not erased once it is used. *)
DecryptedWithSkippedKey_NotErased(r, m) == r

DecryptedWithSkippedKey(r, m) ==
  [r EXCEPT !.skipped_message_keys = Erase(@, Min(SkippedKeysFor(r, m)))]

(* Mutant: the loop stores the key of the message too. *)
SkippedKeys_OfMessageToo(chain, counter) ==
  [n \in 1..(counter - chain.chain_key.index + 1) |->
     [ratchet_key |-> chain.ratchet_key,
      message_key |-> create_message_keys(
                        AdvancedTo(chain.chain_key, chain.chain_key.index + n - 1))]]

(* The keys from the chain's index up to the counter of the message, in    *)
(* the order they are skipped.                                             *)
SkippedKeys(chain, counter) ==
  [n \in 1..(counter - chain.chain_key.index) |->
     [ratchet_key |-> chain.ratchet_key,
      message_key |-> create_message_keys(
                        AdvancedTo(chain.chain_key, chain.chain_key.index + n - 1))]]

(* Mutant: the chain stops at the message instead of going past it. *)
DecryptedOnChain_NotPast(r, i, m) ==
  LET chain == r.receiver_chains[i]
  IN  [r EXCEPT
         !.skipped_message_keys =
            InsertFirstAll(@, MAX_SKIPPED_MESSAGE_KEYS, SkippedKeys(chain, m.counter)),
         !.receiver_chains[i].chain_key = AdvancedTo(@, m.counter)]

(* The loop over the skipped keys, and the last step past the message. *)
DecryptedOnChain(r, i, m) ==
  LET chain == r.receiver_chains[i]
  IN  [r EXCEPT
         !.skipped_message_keys =
            InsertFirstAll(@, MAX_SKIPPED_MESSAGE_KEYS, SkippedKeys(chain, m.counter)),
         !.receiver_chains[i].chain_key =
            advance_chain_key(AdvancedTo(@, m.counter))]

(* Mutant: the root key stays where it was. *)
WithNewReceiverChain_OldRoot(r, m) ==
  [r EXCEPT
     !.receiver_chains = InsertFirst(@, MAX_RECEIVER_CHAINS,
        [ratchet_key |-> m.ratchet_key, chain_key |-> NewChain(r, m).chain_key]),
     !.sender_chain = << >>]

(* A new chain goes in front of the others, and the sender chain it        *)
(* answers is dropped.                                                     *)
WithNewReceiverChain(r, m) ==
  LET new == NewChain(r, m)
  IN  [r EXCEPT
         !.receiver_chains = InsertFirst(@, MAX_RECEIVER_CHAINS,
            [ratchet_key |-> m.ratchet_key, chain_key |-> new.chain_key]),
         !.root_key = new.root_key,
         !.sender_chain = << >>]

DecryptedOnNewChain(r, m) == DecryptedOnChain(WithNewReceiverChain(r, m), 1, m)

DecryptedOnExistingChain(r, m) == DecryptedOnChain(r, ReceiverChain(r, m), m)

(* The lists fit their storage, and encrypt always finds a key to use: a   *)
(* sender chain, or a receiver chain to answer.                            *)
WithinBounds(r) ==
  /\ Len(r.sender_chain) <= 1
  /\ Len(r.receiver_chains) <= MAX_RECEIVER_CHAINS
  /\ Len(r.skipped_message_keys) <= MAX_SKIPPED_MESSAGE_KEYS
  /\ r.sender_chain = << >> => r.receiver_chains # << >>

(***************************************************************************)
(* Why no message is decrypted twice.  The length of the root key dates    *)
(* every key that was derived from it: a new chain is one secret longer    *)
(* than all that the ratchet knows.  A key that was used is behind the     *)
(* chain it was derived from, if the chain is still there, and no stored   *)
(* key equals it.  This speaks of one end only: the network and the other  *)
(* end may do anything.                                                    *)
(***************************************************************************)
OldKeys(r, used) ==
  /\ \A i \in DOMAIN r.receiver_chains :
       Len(r.receiver_chains[i].chain_key.key) <= Len(r.root_key)
  /\ \A i \in DOMAIN r.skipped_message_keys :
       Len(r.skipped_message_keys[i].message_key.key) <= Len(r.root_key)
  /\ \A m \in used : Len(m.key.key) <= Len(r.root_key)

DistinctKeys(r) ==
  /\ \A i, j \in DOMAIN r.receiver_chains :
       r.receiver_chains[i].chain_key.key = r.receiver_chains[j].chain_key.key => i = j
  /\ \A i, j \in DOMAIN r.skipped_message_keys :
       r.skipped_message_keys[i].message_key = r.skipped_message_keys[j].message_key => i = j

ChainsArePast(r, used) ==
  \A i \in DOMAIN r.receiver_chains :
    LET chain_key == r.receiver_chains[i].chain_key
    IN  /\ \A j \in DOMAIN r.skipped_message_keys :
             LET key == r.skipped_message_keys[j].message_key
             IN  key.key = chain_key.key => key.index < chain_key.index
        /\ \A m \in used : m.key.key = chain_key.key => m.key.index < chain_key.index

UsedNotSkipped(r, used) ==
  \A m \in used : \A i \in DOMAIN r.skipped_message_keys :
    r.skipped_message_keys[i].message_key # m.key

ReplaySafe(r, used) ==
  /\ OldKeys(r, used)
  /\ DistinctKeys(r)
  /\ ChainsArePast(r, used)
  /\ UsedNotSkipped(r, used)

============================================================================
