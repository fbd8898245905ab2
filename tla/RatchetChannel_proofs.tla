------------------------ MODULE RatchetChannel_proofs ------------------------
(***************************************************************************)
(* Theorems about RatchetChannel, for every value of its constants.        *)
(***************************************************************************)
EXTENDS RatchetChannel, Ratchet_proofs

(***************************************************************************)
(* The lemmas about a single ratchet, for the keys and the plaintexts of   *)
(* this channel.                                                           *)
(***************************************************************************)
LEMMA Types ==
  /\ History = Histories(RatchetKey)
  /\ ChainKey = ChainKeys(RatchetKey)
  /\ MessageKey = MessageKeys(RatchetKey)
  /\ SenderChainType = SenderChains(RatchetKey)
  /\ ReceiverChainType = ReceiverChains(RatchetKey)
  /\ SkippedMessageKey = SkippedMessageKeys(RatchetKey)
  /\ Message = Messages(RatchetKey, Nat)
  /\ RatchetType = Ratchets(RatchetKey)
BY DEF History, ChainKey, MessageKey, SenderChainType, ReceiverChainType, SkippedMessageKey,
       Message, RatchetType, Histories, ChainKeys, MessageKeys, SenderChains, ReceiverChains,
       SkippedMessageKeys, Messages, Ratchets

LEMMA Channel_create_chain_keyType ==
  ASSUME NEW root_key \in History, NEW our \in RatchetKey, NEW their \in RatchetKey
  PROVE  LET new == create_chain_key(root_key, our, their)
         IN  /\ new.root_key \in History
             /\ Len(new.root_key) = Len(root_key) + 1
             /\ new.chain_key \in ChainKey
             /\ new.chain_key.key = new.root_key
             /\ new.chain_key.index = 0
  BY Types, create_chain_keyType

LEMMA Channel_ChainKeySteps ==
  ASSUME NEW chain_key \in ChainKey, NEW counter \in Nat
  PROVE  /\ AdvancedTo(chain_key, counter) = [key |-> chain_key.key, index |-> counter]
         /\ advance_chain_key(AdvancedTo(chain_key, counter)) =
              [key |-> chain_key.key, index |-> counter + 1]
         /\ [key |-> chain_key.key, index |-> counter] \in ChainKey
         /\ [key |-> chain_key.key, index |-> counter + 1] \in ChainKey
  BY Types, ChainKeySteps

LEMMA Channel_SkippedKeysType ==
  ASSUME NEW chain \in ReceiverChainType, NEW counter \in Nat,
         chain.chain_key.index <= counter
  PROVE  LET keys == SkippedKeys(chain, counter)
         IN  /\ keys \in Seq(SkippedMessageKey)
             /\ Len(keys) = counter - chain.chain_key.index
             /\ \A n \in 1..Len(keys) :
                  keys[n].message_key = [key |-> chain.chain_key.key,
                                         index |-> chain.chain_key.index + n - 1]
  BY Types, SkippedKeysType

LEMMA Channel_ReceiverChainInDomain ==
  ASSUME NEW r \in RatchetType, NEW m \in Message, HasReceiverChain(r, m)
  PROVE  /\ ReceiverChain(r, m) \in 1..Len(r.receiver_chains)
         /\ r.receiver_chains[ReceiverChain(r, m)].ratchet_key = m.ratchet_key
  BY Types, ReceiverChainInDomain

LEMMA Channel_SkippedKeyInDomain ==
  ASSUME NEW r \in RatchetType, NEW m \in Message, SkippedKeysFor(r, m) # {}
  PROVE  /\ Min(SkippedKeysFor(r, m)) \in 1..Len(r.skipped_message_keys)
         /\ r.skipped_message_keys[Min(SkippedKeysFor(r, m))].message_key = m.key
  BY Types, SkippedKeyInDomain

LEMMA Channel_TypedKeys ==
  ASSUME NEW r \in RatchetType, NEW used \in SUBSET Message
  PROVE  /\ Len(r.root_key) \in Nat
         /\ Len(r.receiver_chains) \in Nat
         /\ DOMAIN r.receiver_chains = 1..Len(r.receiver_chains)
         /\ Len(r.skipped_message_keys) \in Nat
         /\ DOMAIN r.skipped_message_keys = 1..Len(r.skipped_message_keys)
         /\ \A j \in 1..Len(r.receiver_chains) :
              /\ r.receiver_chains[j].chain_key.index \in Nat
              /\ Len(r.receiver_chains[j].chain_key.key) \in Nat
         /\ \A j \in 1..Len(r.skipped_message_keys) :
              /\ r.skipped_message_keys[j].message_key.index \in Nat
              /\ Len(r.skipped_message_keys[j].message_key.key) \in Nat
         /\ \A m \in used : m.key.index \in Nat /\ Len(m.key.key) \in Nat
  BY Types, TypedKeys

LEMMA Channel_DecryptedOnChainProperties ==
  ASSUME NEW r \in RatchetType, NEW m \in Message, NEW i, Verified(r, i, m),
         NEW s, s = DecryptedOnChain(r, i, m),
         NEW new, new = m.counter - r.receiver_chains[i].chain_key.index
  PROVE  /\ new \in Nat
         /\ s \in RatchetType
         /\ s.root_key = r.root_key
         /\ s.sender_chain = r.sender_chain
         /\ Len(s.receiver_chains) = Len(r.receiver_chains)
         /\ \A j \in 1..Len(r.receiver_chains) :
              s.receiver_chains[j].chain_key =
                IF j = i THEN [key |-> m.key.key, index |-> m.counter + 1]
                         ELSE r.receiver_chains[j].chain_key
         /\ Len(s.skipped_message_keys) <= MAX_SKIPPED_MESSAGE_KEYS
         /\ \A j \in 1..Len(s.skipped_message_keys) :
              j <= new => s.skipped_message_keys[j].message_key =
                            [key |-> m.key.key, index |-> m.counter - j]
         /\ \A j \in 1..Len(s.skipped_message_keys) :
              j > new => /\ j - new \in 1..Len(r.skipped_message_keys)
                         /\ s.skipped_message_keys[j] = r.skipped_message_keys[j - new]
<1>1. r \in Ratchets(RatchetKey) /\ m \in Messages(RatchetKey, Nat)
  BY Types
<1>2. /\ new \in Nat
      /\ s \in Ratchets(RatchetKey)
      /\ OnChain(r, i, m, s, new)
  BY <1>1, DecryptedOnChainProperties
<1>3. s \in RatchetType
  BY <1>2, Types
<1>4. ASSUME NEW j \in 1..Len(r.receiver_chains)
      PROVE  s.receiver_chains[j].chain_key =
               IF j = i THEN [key |-> m.key.key, index |-> m.counter + 1]
                        ELSE r.receiver_chains[j].chain_key
  <2>1. CASE j = i
    BY <1>2, <2>1 DEF OnChain
  <2>2. CASE j # i
    BY <1>2, <2>2 DEF OnChain
  <2>. QED
    BY <2>1, <2>2
<1>. QED
  BY <1>2, <1>3, <1>4, Zenon DEF OnChain

LEMMA Channel_WithNewReceiverChainProperties ==
  ASSUME NEW r \in RatchetType, WithinBounds(r), NEW m \in Message, r.sender_chain # << >>,
         NEW s, s = WithNewReceiverChain(r, m)
  PROVE  /\ s \in RatchetType
         /\ s.root_key = NewChain(r, m).root_key
         /\ Len(s.root_key) = Len(r.root_key) + 1
         /\ s.sender_chain = << >>
         /\ s.skipped_message_keys = r.skipped_message_keys
         /\ 1 <= Len(s.receiver_chains)
         /\ Len(s.receiver_chains) <= MAX_RECEIVER_CHAINS
         /\ s.receiver_chains[1].chain_key = NewChain(r, m).chain_key
         /\ NewChain(r, m).chain_key = [key |-> s.root_key, index |-> 0]
         /\ \A j \in 2..Len(s.receiver_chains) :
              /\ j - 1 \in 1..Len(r.receiver_chains)
              /\ s.receiver_chains[j] = r.receiver_chains[j - 1]
<1>1. r \in Ratchets(RatchetKey) /\ m \in Messages(RatchetKey, Nat)
  BY Types
<1>2. /\ s \in Ratchets(RatchetKey)
      /\ NewFront(r, m, s)
      /\ Len(s.root_key) = Len(r.root_key) + 1
  BY <1>1, WithNewReceiverChainProperties
<1>. QED
  BY <1>2, Types DEF NewFront

LEMMA Channel_EncryptedProperties ==
  ASSUME NEW r \in RatchetType, WithinBounds(r), NEW fresh \in RatchetKey, NEW n \in Nat
  PROVE  LET s == Encrypted(r, fresh)
         IN  /\ s \in RatchetType
             /\ WithinBounds(s)
             /\ Len(s.root_key) >= Len(r.root_key)
             /\ s.receiver_chains = r.receiver_chains
             /\ s.skipped_message_keys = r.skipped_message_keys
             /\ EncryptedMessage(r, fresh, n) \in Message
<1>1. r \in Ratchets(RatchetKey) /\ n \in Nat
  BY Types
<1>2. PICK s, chain : s = Encrypted(r, fresh) /\ chain = WithSenderChain(r, fresh).sender_chain[1]
  OBVIOUS
<1>3. /\ s \in Ratchets(RatchetKey)
      /\ WithinBounds(s)
      /\ Len(s.root_key) >= Len(r.root_key)
      /\ s.receiver_chains = r.receiver_chains
      /\ s.skipped_message_keys = r.skipped_message_keys
  BY <1>1, <1>2, EncryptedProperties
<1>4. EncryptedMessage(r, fresh, n) \in Messages(RatchetKey, Nat)
  BY <1>1, <1>2, EncryptedMessageProperties
<1>. QED
  BY <1>2, <1>3, <1>4, Types

LEMMA Channel_SkippedKeyUsed ==
  ASSUME NEW r \in RatchetType, WithinBounds(r), NEW m \in Message,
         VerifiesWithSkippedKey(r, m),
         NEW used \in SUBSET Message
  PROVE  LET s == DecryptedWithSkippedKey(r, m)
         IN  /\ s \in RatchetType
             /\ WithinBounds(s)
             /\ ReplaySafe(r, used) => ReplaySafe(s, used \cup {m})
  BY Types, SkippedKeyUsed

LEMMA Channel_ExistingChainUsed ==
  ASSUME NEW r \in RatchetType, WithinBounds(r), NEW m \in Message,
         VerifiesOnExistingChain(r, m),
         NEW used \in SUBSET Message,
         NEW s, s = DecryptedOnExistingChain(r, m)
  PROVE  /\ s \in RatchetType
         /\ WithinBounds(s)
         /\ ReplaySafe(r, used) => ReplaySafe(s, used \cup {m})
  BY Types, ExistingChainUsed

LEMMA Channel_NewChainUsed ==
  ASSUME NEW r \in RatchetType, WithinBounds(r), NEW m \in Message,
         VerifiesOnNewChain(r, m),
         NEW used \in SUBSET Message,
         NEW s, s = DecryptedOnNewChain(r, m)
  PROVE  /\ s \in RatchetType
         /\ WithinBounds(s)
         /\ ReplaySafe(r, used) => ReplaySafe(s, used \cup {m})
  BY Types, NewChainUsed

LEMMA Channel_FailedKeeps ==
  ASSUME NEW r \in RatchetType, WithinBounds(r), NEW error \in Error, NEW used,
         NEW s, s = Failed(r, error)
  PROVE  /\ s \in RatchetType
         /\ WithinBounds(s)
         /\ ReplaySafe(r, used) => ReplaySafe(s, used)
  BY Types, FailedKeeps

LEMMA Channel_EncryptedReplaySafe ==
  ASSUME NEW r \in RatchetType, WithinBounds(r), NEW fresh \in RatchetKey,
         NEW used \in SUBSET Message, ReplaySafe(r, used),
         NEW s, s = Encrypted(r, fresh)
  PROVE  ReplaySafe(s, used)
  BY Types, EncryptedReplaySafe

LEMMA Channel_ReplaySafeRejects ==
  ASSUME NEW r \in RatchetType, WithinBounds(r), NEW used \in SUBSET Message,
         ReplaySafe(r, used), NEW m \in used
  PROVE  ~ CanDecrypt(r, m)
  BY Types, ReplaySafeRejects

(***************************************************************************)
(* The channel.                                                            *)
(***************************************************************************)
(* Whatever the network makes of messages has the form of a message. *)
LEMMA ArrivingType ==
  ASSUME sent \in SUBSET Message
  PROVE  Arriving \in SUBSET Message
<1>1. NoKey \in MessageKey
  <2>1. <<{}>> \in History
    <3>1. {} \in SUBSET RatchetKey
      OBVIOUS
    <3>. QED
      BY <3>1 DEF History
  <2>. QED
    BY <2>1 DEF NoKey, MessageKey, ChainKey
<1>2. ASSUME NEW m \in Message
      PROVE  Damaged(m) \subseteq Message
  <2>1. m.ratchet_key \in RatchetKey /\ m.counter \in Nat
    BY DEF Message
  <2>2. <<Owner(m.ratchet_key), 0>> \in RatchetKey
    BY <2>1 DEF Owner, RatchetKey
  <2>3. \A k \in RatchetKey, c \in Nat :
          [ratchet_key |-> k, counter |-> c, key |-> NoKey, plaintext |-> 0] \in Message
    BY <1>1 DEF Message
  <2>. QED
    BY <2>1, <2>2, <2>3 DEF Damaged
<1>. QED
  BY <1>2 DEF Arriving

(* decrypt keeps the type of the ratchet, and leaves it past the message.  *)
LEMMA DecryptKeeps ==
  ASSUME TypeOK, NEW p \in Party, NEW m \in Message, Decrypt(p, m)
  PROVE  /\ TypeOK'
         /\ ReplayInv => ReplayInv'
<1> DEFINE r == ratchet[p]
           used == delivered[p]
<1>1. /\ r \in RatchetType
      /\ WithinBounds(r)
      /\ used \in SUBSET Message
  BY DEF TypeOK
<1>2. PICK s : /\ s \in RatchetType
               /\ WithinBounds(s)
               /\ ratchet' = [ratchet EXCEPT ![p] = s]
               /\ \/ /\ delivered' = [delivered EXCEPT ![p] = used \cup {m}]
                     /\ ReplaySafe(r, used) => ReplaySafe(s, used \cup {m})
                  \/ /\ delivered' = delivered
                     /\ ReplaySafe(r, used) => ReplaySafe(s, used)
               /\ UNCHANGED <<generated, encrypted, sent>>
  <2>1. CASE DecryptNewChain(p, m)
    <3>. WITNESS DecryptedOnNewChain(r, m)
    <3>. QED
      BY <1>1, <2>1, Channel_NewChainUsed DEF DecryptNewChain, Deliver
  <2>2. CASE DecryptExistingChain(p, m)
    <3>. WITNESS DecryptedOnExistingChain(r, m)
    <3>. QED
      BY <1>1, <2>2, Channel_ExistingChainUsed DEF DecryptExistingChain, Deliver
  <2>3. CASE DecryptSkipped(p, m)
    <3>. WITNESS DecryptedWithSkippedKey(r, m)
    <3>. QED
      BY <1>1, <2>3, Channel_SkippedKeyUsed DEF DecryptSkipped, Deliver
  <2>4. CASE DecryptRejected(p, m)
    <3>. WITNESS Failed(r, "BAD_MESSAGE_MAC")
    <3>1. "BAD_MESSAGE_MAC" \in Error
      BY DEF Error
    <3>. QED
      BY <1>1, <2>4, <3>1, Channel_FailedKeeps DEF DecryptRejected
  <2>. QED
    BY <2>1, <2>2, <2>3, <2>4 DEF Decrypt
<1>3. /\ ratchet' \in [Party -> RatchetType]
      /\ ratchet'[p] = s
      /\ \A q \in Party : q # p => ratchet'[q] = ratchet[q]
  BY <1>2 DEF TypeOK
<1>4. /\ delivered' \in [Party -> SUBSET Message]
      /\ \A q \in Party : q # p => delivered'[q] = delivered[q]
      /\ ReplaySafe(r, used) => ReplaySafe(s, delivered'[p])
  <2>1. delivered \in [Party -> SUBSET Message]
    BY DEF TypeOK
  <2>2. CASE delivered' = delivered /\ (ReplaySafe(r, used) => ReplaySafe(s, used))
    BY <2>1, <2>2
  <2>3. CASE /\ delivered' = [delivered EXCEPT ![p] = used \cup {m}]
             /\ ReplaySafe(r, used) => ReplaySafe(s, used \cup {m})
    <3>1. delivered'[p] = used \cup {m}
      BY <2>1, <2>3
    <3>2. delivered' \in [Party -> SUBSET Message]
      BY <1>1, <2>1, <2>3
    <3>. QED
      BY <2>1, <2>3, <3>1, <3>2
  <2>. QED
    BY <1>2, <2>2, <2>3
<1>5. decrypted' \in [Party -> Nat]
  <2>1. \/ decrypted' = [decrypted EXCEPT ![p] = @ + 1]
        \/ decrypted' = decrypted
    BY DEF Decrypt, DecryptNewChain, DecryptExistingChain, DecryptSkipped, DecryptRejected,
           Deliver
  <2>. QED
    BY <2>1 DEF TypeOK
<1>6. TypeOK'
  BY <1>2, <1>3, <1>4, <1>5 DEF TypeOK
<1>7. ReplayInv => ReplaySafe(s, delivered'[p])
  BY <1>4 DEF ReplayInv
<1>8. ReplayInv => ReplayInv'
  BY <1>3, <1>4, <1>7 DEF ReplayInv
<1>. QED
  BY <1>6, <1>8

(* A step of one end that decrypts nothing. *)
LEMMA OtherStepKeeps ==
  ASSUME TypeOK, NEW p \in Party,
         \/ Encrypt(p)
         \/ \E error \in Error : EncryptFails(p, error) \/ DecryptUnreadable(p, error)
  PROVE  /\ TypeOK'
         /\ ReplayInv => ReplayInv'
<1> DEFINE r == ratchet[p]
           used == delivered[p]
<1>1. /\ r \in RatchetType
      /\ WithinBounds(r)
      /\ used \in SUBSET Message
  BY DEF TypeOK
<1>2. /\ FreshKey(p) \in RatchetKey
      /\ generated[p] \in Nat /\ encrypted[p] \in Nat
  BY DEF TypeOK, FreshKey, RatchetKey
<1>3. PICK s : /\ s \in RatchetType
               /\ WithinBounds(s)
               /\ ratchet' = [ratchet EXCEPT ![p] = s]
               /\ ReplaySafe(r, used) => ReplaySafe(s, used)
               /\ generated' \in [Party -> Nat]
               /\ encrypted' \in [Party -> Nat]
               /\ sent' \in SUBSET Message
               /\ delivered' = delivered
               /\ decrypted' = decrypted
  <2>1. CASE Encrypt(p)
    <3>. WITNESS Encrypted(r, FreshKey(p))
    <3>1. /\ Encrypted(r, FreshKey(p)) \in RatchetType
          /\ WithinBounds(Encrypted(r, FreshKey(p)))
          /\ NextMessage(p) \in Message
      BY <1>1, <1>2, Channel_EncryptedProperties DEF NextMessage
    <3>2. ReplaySafe(r, used) => ReplaySafe(Encrypted(r, FreshKey(p)), used)
      BY <1>1, <1>2, Channel_EncryptedReplaySafe
    <3>3. generated' \in [Party -> Nat] /\ encrypted' \in [Party -> Nat]
      BY <1>2, <2>1 DEF Encrypt, TypeOK
    <3>. QED
      BY <2>1, <3>1, <3>2, <3>3 DEF Encrypt, TypeOK
  <2>2. CASE \E error \in Error : EncryptFails(p, error) \/ DecryptUnreadable(p, error)
    <3>1. PICK error \in Error : EncryptFails(p, error) \/ DecryptUnreadable(p, error)
      BY <2>2
    <3>. WITNESS Failed(r, error)
    <3>. QED
      BY <1>1, <3>1, Channel_FailedKeeps DEF EncryptFails, DecryptUnreadable, TypeOK
  <2>. QED
    BY <2>1, <2>2
<1>4. /\ ratchet' \in [Party -> RatchetType]
      /\ ratchet'[p] = s
      /\ \A q \in Party : q # p => ratchet'[q] = ratchet[q]
  BY <1>3 DEF TypeOK
<1>5. TypeOK'
  BY <1>3, <1>4 DEF TypeOK
<1>6. ReplayInv => ReplayInv'
  BY <1>3, <1>4 DEF ReplayInv
<1>. QED
  BY <1>5, <1>6

(* Every step of the channel keeps the two invariants. *)
LEMMA StepKeeps ==
  ASSUME TypeOK, [Next]_vars
  PROVE  /\ TypeOK'
         /\ ReplayInv => ReplayInv'
<1>1. CASE Next
  <2>1. PICK p \in Party :
          \/ Encrypt(p)
          \/ \E error \in Error : EncryptFails(p, error) \/ DecryptUnreadable(p, error)
          \/ \E m \in Arriving : Decrypt(p, m)
    BY <1>1 DEF Next
  <2>2. CASE \E m \in Arriving : Decrypt(p, m)
    BY <2>2, ArrivingType, DecryptKeeps DEF TypeOK
  <2>. QED
    BY <2>1, <2>2, OtherStepKeeps
<1>2. CASE UNCHANGED vars
  BY <1>2 DEF vars, TypeOK, ReplayInv
<1>. QED
  BY <1>1, <1>2

(* The shared secret and Alice's first ratchet key make two good ratchets. *)
LEMMA InitKeeps ==
  ASSUME Init
  PROVE  TypeOK /\ ReplayInv
<1> DEFINE key == <<Alice, 1>>
           chain == [ratchet_key |-> key, chain_key |-> [key |-> << >>, index |-> 0]]
           a == initialise_as_alice(<< >>, key)
           b == initialise_as_bob(<< >>, key)
<1>1. chain \in SenderChainType /\ chain \in ReceiverChainType
  <2>1. << >> \in History
    BY DEF History
  <2>2. key \in RatchetKey
    BY DEF RatchetKey, Party
  <2>. QED
    BY <2>1, <2>2 DEF SenderChainType, ReceiverChainType, ChainKey
<1>2. "SUCCESS" \in Error /\ << >> \in History /\ MAX_RECEIVER_CHAINS >= 1
  BY RatchetConstants DEF Error, History
<1>3. a \in RatchetType /\ WithinBounds(a) /\ ReplaySafe(a, {})
  <2>1. << chain >> \in Seq(SenderChainType)
    BY <1>1
  <2>2. a = [root_key |-> << >>, sender_chain |-> << chain >>, receiver_chains |-> << >>,
             skipped_message_keys |-> << >>, last_error |-> "SUCCESS"]
    BY DEF initialise_as_alice
  <2>6. << >> \in Seq(ReceiverChainType) /\ << >> \in Seq(SkippedMessageKey)
    OBVIOUS
  <2>7. /\ Len(<< chain >>) = 1 /\ Len(<< >>) = 0
        /\ << chain >> # << >>
        /\ 0 <= MAX_RECEIVER_CHAINS /\ 0 <= MAX_SKIPPED_MESSAGE_KEYS
    BY RatchetConstants
  <2>. HIDE DEF a, chain
  <2>3. a \in RatchetType
    BY <1>2, <2>1, <2>2, <2>6 DEF RatchetType
  <2>4. WithinBounds(a)
    BY <2>2, <2>7 DEF WithinBounds
  <2>5. ReplaySafe(a, {})
    BY <2>2 DEF ReplaySafe, OldKeys, DistinctKeys, ChainsArePast, UsedNotSkipped
  <2>. QED
    BY <2>3, <2>4, <2>5
<1>4. b \in RatchetType /\ WithinBounds(b) /\ ReplaySafe(b, {})
  <2>1. << chain >> \in Seq(ReceiverChainType)
    BY <1>1
  <2>2. b = [root_key |-> << >>, sender_chain |-> << >>, receiver_chains |-> << chain >>,
             skipped_message_keys |-> << >>, last_error |-> "SUCCESS"]
    BY DEF initialise_as_bob
  <2>6. << >> \in Seq(SenderChainType) /\ << >> \in Seq(SkippedMessageKey)
    OBVIOUS
  <2>. HIDE DEF b, chain
  <2>3. b \in RatchetType
    BY <1>2, <2>1, <2>2, <2>6 DEF RatchetType
  <2>4. WithinBounds(b)
    BY <1>2, <2>2, RatchetConstants DEF WithinBounds
  <2>5. ReplaySafe(b, {})
    BY <2>2 DEF chain, ReplaySafe, OldKeys, DistinctKeys, ChainsArePast, UsedNotSkipped
  <2>. QED
    BY <2>3, <2>4, <2>5
<1>. HIDE DEF a, b
<1>5. \A p \in Party : ratchet[p] = a \/ ratchet[p] = b
  BY DEF Init, a, b
<1>6. ratchet \in [Party -> RatchetType]
  BY <1>3, <1>4 DEF Init, a, b
<1>7. TypeOK
  BY <1>3, <1>4, <1>5, <1>6 DEF Init, TypeOK
<1>8. ReplayInv
  BY <1>3, <1>4, <1>5 DEF Init, ReplayInv
<1>. QED
  BY <1>7, <1>8

(* The lists of a ratchet never outgrow their storage, and encrypt always  *)
(* has a chain to send on or one to answer.                                *)
THEOREM TypeCorrect == Spec => []TypeOK
<1>1. Init => TypeOK
  BY InitKeeps
<1>2. TypeOK /\ [Next]_vars => TypeOK'
  BY StepKeeps
<1>. QED
  BY <1>1, <1>2, PTL DEF Spec

(* Whatever arrives, each ratchet stays past every key that decrypt used.  *)
THEOREM ReplayInvariant == Spec => []ReplayInv
<1>1. Init => ReplayInv
  BY InitKeeps
<1>2. TypeOK /\ ReplayInv /\ [Next]_vars => ReplayInv'
  BY StepKeeps
<1>. QED
  BY <1>1, <1>2, TypeCorrect, PTL DEF Spec

(* decrypt accepts no message twice, for any limits of the lists and of    *)
(* the gap, any number of messages, and any network.                       *)
THEOREM NoReplayHolds == Spec => []NoReplay
<1>1. TypeOK /\ ReplayInv => NoReplay
  <2>1. SUFFICES ASSUME TypeOK, ReplayInv, NEW p \in Party, NEW m \in delivered[p]
                 PROVE  ~ CanDecrypt(ratchet[p], m)
    BY DEF NoReplay
  <2>2. /\ ratchet[p] \in RatchetType
        /\ WithinBounds(ratchet[p])
        /\ delivered[p] \in SUBSET Message
        /\ ReplaySafe(ratchet[p], delivered[p])
    BY <2>1 DEF TypeOK, ReplayInv
  <2>. QED
    BY <2>1, <2>2, Channel_ReplaySafeRejects
<1>. QED
  BY <1>1, TypeCorrect, ReplayInvariant, PTL


(***************************************************************************)
(* What the two ratchets of RatchetChannel promise together, for every     *)
(* value of the constants: what is decrypted was encrypted at the other    *)
(* end, no two messages share a key, the keys of the past are gone, the    *)
(* ends never wedge, and so they implement SecureChannel.                  *)
(*                                                                         *)
(* The ends take turns: chain n is Alice's if n is even and Bob's if n is  *)
(* odd, and its ratchet key and its root follow from n alone.  The         *)
(* invariant numbers all that is stored and sent by the chain it is of.    *)
(***************************************************************************)

(* Whose chain n is, its ratchet key, and the root that it starts with. *)
Turn(n) == IF n % 2 = 0 THEN Alice ELSE Bob
KeyOf(n) == << Turn(n), n \div 2 + 1 >>
RootOf(n) == [i \in 1..n |-> {KeyOf(i - 1), KeyOf(i)}]

(* A key of the chain whose number is the length of its history. *)
OfChain(ratchet_key, history) ==
  ratchet_key = KeyOf(Len(history)) /\ history = RootOf(Len(history))

(* The number of the chain that r has got to. *)
Chain(r) == Len(r.root_key)

(* A ratchet knows its own newest chain if it was the last to answer, and  *)
(* of the other end chains up to the newest, which is in front.            *)
Senders(r, p) ==
  /\ r.sender_chain # << >> <=> Turn(Chain(r)) = p
  /\ r.sender_chain # << >> =>
       /\ r.sender_chain[1].ratchet_key = KeyOf(Chain(r))
       /\ r.sender_chain[1].chain_key.key = r.root_key

Receivers(r, p) ==
  \A i \in 1..Len(r.receiver_chains) :
    LET chain == r.receiver_chains[i]
    IN  /\ OfChain(chain.ratchet_key, chain.chain_key.key)
        /\ Turn(Len(chain.chain_key.key)) = Peer(p)
        /\ Len(chain.chain_key.key) <= Chain(r)

Newest(r, p) ==
  LET n == IF Turn(Chain(r)) = p THEN Chain(r) - 1 ELSE Chain(r)
  IN  n >= 0 => /\ 1 <= Len(r.receiver_chains)
                /\ Len(r.receiver_chains[1].chain_key.key) = n

Skipped(r, p) ==
  \A i \in 1..Len(r.skipped_message_keys) :
    LET skipped == r.skipped_message_keys[i]
    IN  /\ OfChain(skipped.ratchet_key, skipped.message_key.key)
        /\ Turn(Len(skipped.message_key.key)) = Peer(p)
        /\ Len(skipped.message_key.key) <= Chain(r)

InTurn(r, p) ==
  /\ r.root_key = RootOf(Chain(r))
  /\ Senders(r, p) /\ Receivers(r, p) /\ Newest(r, p) /\ Skipped(r, p)

(* An end is ahead by its own chain at most. *)
InStep ==
  \A p \in Party :
    Chain(ratchet[p]) <= Chain(ratchet[Peer(p)]) + (IF Turn(Chain(ratchet[p])) = p THEN 1 ELSE 0)

(* How many pairs p has generated at chain n: one for each chain of its own. *)
Pairs(n, p) == IF p = Alice THEN n \div 2 + 1 ELSE (n + 1) \div 2

Generated == \A p \in Party : generated[p] = Pairs(Chain(ratchet[p]), p)

(* A message is of a chain that its sender has got to, and of the newest   *)
(* chain, from before its index.                                           *)
NextIndex(r) == r.sender_chain[1].chain_key.index

Past(r, m) ==
  /\ Len(m.key.key) <= Chain(r)
  /\ Len(m.key.key) = Chain(r) => r.sender_chain # << >> /\ m.counter < NextIndex(r)

SentInTurn ==
  \A m \in sent :
    LET p == Owner(m.ratchet_key)
    IN  /\ OfChain(m.ratchet_key, m.key.key)
        /\ m.key.index = m.counter
        /\ Past(ratchet[p], m)
        /\ m.plaintext < encrypted[p]

Different ==
  \A m1, m2 \in sent : m1.key = m2.key \/ Abstract(m1) = Abstract(m2) => m1 = m2

(* No receiver chain is past the sender chain of the other end. *)
Behind(r, peer) ==
  \A i \in 1..Len(r.receiver_chains) :
    LET chain_key == r.receiver_chains[i].chain_key
    IN  Len(chain_key.key) = Chain(peer) => chain_key.index <= NextIndex(peer)

NotAhead == \A p \in Party : Behind(ratchet[p], ratchet[Peer(p)])

PairInv ==
  /\ \A p \in Party : InTurn(ratchet[p], p)
  /\ InStep
  /\ Generated
  /\ SentInTurn
  /\ Different
  /\ NotAhead
  /\ Authentic

(* The number of messages is bounded by the lengths of the chains, and of  *)
(* the newest chain the last message was sent.                             *)
Count(p, c) ==
  IF ratchet[p].sender_chain = << >> THEN generated[p] * c
  ELSE (generated[p] - 1) * c + NextIndex(ratchet[p])

Counted ==
  \A p \in Party, c \in Nat :
    (\A m \in sent : m.counter < c) => encrypted[p] <= Count(p, c)

LastSent ==
  \A p \in Party :
    ratchet[p].sender_chain # << >> /\ NextIndex(ratchet[p]) > 0 =>
      \E m \in sent : m.counter = NextIndex(ratchet[p]) - 1

CountInv == Counted /\ LastSent

(***************************************************************************)
(* Turns.                                                                  *)
(***************************************************************************)
(* Each end is the peer of its peer. *)
LEMMA Peers ==
  ASSUME NEW p \in Party
  PROVE  /\ Peer(p) \in Party /\ Peer(p) # p /\ Peer(Peer(p)) = p
         /\ \A q \in Party : q = p \/ q = Peer(p)
  BY ChannelConstants DEF Party, Peer

(* The ends take turns, and no two chains have the same ratchet key. *)
LEMMA Turns ==
  ASSUME NEW n \in Nat
  PROVE  /\ Turn(n) \in Party
         /\ Turn(n + 1) = Peer(Turn(n))
         /\ KeyOf(n) \in RatchetKey
         /\ Owner(KeyOf(n)) = Turn(n)
<1>1. Turn(n) \in Party
  BY DEF Turn, Party
<1>2. n \div 2 + 1 \in Nat
  OBVIOUS
<1>3. n % 2 = 0 <=> (n + 1) % 2 # 0
  OBVIOUS
<1>. QED
  BY <1>1, <1>2, <1>3, ChannelConstants DEF Turn, Peer, KeyOf, RatchetKey, Owner

LEMMA KeysDiffer ==
  ASSUME NEW n \in Nat, NEW k \in Nat, KeyOf(n) = KeyOf(k)
  PROVE  n = k
<1>1. Turn(n) = Turn(k) /\ n \div 2 + 1 = k \div 2 + 1
  BY DEF KeyOf
<1>2. n % 2 = 0 <=> k % 2 = 0
  BY <1>1, ChannelConstants DEF Turn
<1>3. n \div 2 = k \div 2 /\ n % 2 = k % 2
  BY <1>1, <1>2
<1>. QED
  BY <1>3

(* The peer's chains are those in between. *)
LEMMA OtherTurn ==
  ASSUME NEW n \in Nat, NEW p \in Party
  PROVE  /\ Turn(n) # p <=> Turn(n) = Peer(p)
         /\ Turn(n + 1) = p <=> Turn(n) = Peer(p)
         /\ n > 0 => (Turn(n - 1) = p <=> Turn(n) = Peer(p))
<1>1. ASSUME NEW k \in Nat
      PROVE  /\ Turn(k) # p <=> Turn(k) = Peer(p)
             /\ Turn(k + 1) = p <=> Turn(k) = Peer(p)
  BY Turns, Peers
<1>2. n > 0 => n - 1 \in Nat /\ (n - 1) + 1 = n
  OBVIOUS
<1>. QED
  BY <1>1, <1>2, Turns, Peers

(* Each turn mixes the new ratchet key with the last. *)
LEMMA Roots ==
  ASSUME NEW n \in Nat
  PROVE  /\ RootOf(n) \in History
         /\ Len(RootOf(n)) = n
         /\ Append(RootOf(n), {KeyOf(n), KeyOf(n + 1)}) = RootOf(n + 1)
         /\ RootOf(n) # << {} >>
<1> DEFINE Secret(i) == {KeyOf(i - 1), KeyOf(i)}
<1>1. \A i \in 1..(n + 1) : Secret(i) \in SUBSET RatchetKey
  <2>1. ASSUME NEW i \in 1..(n + 1)
        PROVE  KeyOf(i - 1) \in RatchetKey /\ KeyOf(i) \in RatchetKey
    <3>1. i - 1 \in Nat /\ i \in Nat
      OBVIOUS
    <3>. QED
      BY <3>1, Turns
  <2>. QED
    BY <2>1
<1>. HIDE DEF Secret
<1>2. /\ RootOf(n) = [i \in 1..n |-> Secret(i)]
      /\ RootOf(n + 1) = [i \in 1..(n + 1) |-> Secret(i)]
  BY DEF RootOf, Secret
<1>3. RootOf(n) \in History /\ Len(RootOf(n)) = n
  BY <1>1, <1>2 DEF History
<1>4. Append(RootOf(n), Secret(n + 1)) = RootOf(n + 1)
  BY <1>1, <1>2
<1>5. Secret(n + 1) = {KeyOf(n), KeyOf(n + 1)}
  <2>1. (n + 1) - 1 = n
    OBVIOUS
  <2>. QED
    BY <2>1 DEF Secret
<1>6. ASSUME RootOf(n) = << {} >>
      PROVE  FALSE
  <2>1. n = 1 /\ RootOf(n)[1] = {}
    BY <1>3, <1>6
  <2>2. Secret(1) = {}
    BY <1>2, <2>1
  <2>. QED
    BY <2>2 DEF Secret
<1>. QED
  BY <1>3, <1>4, <1>5, <1>6

(***************************************************************************)
(* Each operation, as a step of the turns.                                 *)
(***************************************************************************)
(* The types of what a ratchet stores. *)
LEMMA Stored ==
  ASSUME NEW r \in RatchetType
  PROVE  /\ r.root_key \in History /\ Chain(r) \in Nat
         /\ r.sender_chain # << >> =>
              /\ r.sender_chain[1] \in SenderChainType
              /\ r.sender_chain[1].ratchet_key \in RatchetKey
              /\ r.sender_chain[1].chain_key \in ChainKey
              /\ NextIndex(r) \in Nat
         /\ Len(r.receiver_chains) \in Nat
         /\ Len(r.skipped_message_keys) \in Nat
         /\ \A i \in 1..Len(r.receiver_chains) :
              LET chain == r.receiver_chains[i]
              IN  /\ chain \in ReceiverChainType
                  /\ chain.ratchet_key \in RatchetKey
                  /\ chain.chain_key \in ChainKey
                  /\ chain.chain_key.index \in Nat
                  /\ Len(chain.chain_key.key) \in Nat
         /\ \A i \in 1..Len(r.skipped_message_keys) :
              LET skipped == r.skipped_message_keys[i]
              IN  /\ skipped \in SkippedMessageKey
                  /\ skipped.ratchet_key \in RatchetKey
                  /\ skipped.message_key \in ChainKey
                  /\ Len(skipped.message_key.key) \in Nat
<1>1. /\ r.root_key \in History
      /\ r.sender_chain \in Seq(SenderChainType)
      /\ r.receiver_chains \in Seq(ReceiverChainType)
      /\ r.skipped_message_keys \in Seq(SkippedMessageKey)
  BY DEF RatchetType
<1>2. \A h \in History : Len(h) \in Nat
  BY DEF History
<1>3. \A k \in ChainKey : k.index \in Nat /\ Len(k.key) \in Nat
  BY <1>2 DEF ChainKey
<1>4. /\ \A c \in SenderChainType : c.ratchet_key \in RatchetKey /\ c.chain_key \in ChainKey
      /\ \A c \in ReceiverChainType : c.ratchet_key \in RatchetKey /\ c.chain_key \in ChainKey
      /\ \A c \in SkippedMessageKey : c.ratchet_key \in RatchetKey /\ c.message_key \in ChainKey
  BY DEF SenderChainType, ReceiverChainType, SkippedMessageKey, MessageKey
<1>5. r.sender_chain # << >> => r.sender_chain[1] \in SenderChainType
  BY <1>1
<1>6. \A i \in 1..Len(r.receiver_chains) : r.receiver_chains[i] \in ReceiverChainType
  BY <1>1
<1>7. \A i \in 1..Len(r.skipped_message_keys) : r.skipped_message_keys[i] \in SkippedMessageKey
  BY <1>1
<1>8. Len(r.receiver_chains) \in Nat /\ Len(r.skipped_message_keys) \in Nat
  BY <1>1
<1>. QED
  BY <1>1, <1>2, <1>3, <1>4, <1>5, <1>6, <1>7, <1>8 DEF Chain, NextIndex

(* encrypt sends m on this chain: the one it has, or a new one. *)
SentOn(chain, r, fresh, text, s, m) ==
  /\ chain \in SenderChainType
  /\ IF r.sender_chain # << >>
     THEN chain = r.sender_chain[1] /\ s.root_key = r.root_key
     ELSE /\ s.root_key = Append(r.root_key, {fresh, r.receiver_chains[1].ratchet_key})
          /\ chain = [ratchet_key |-> fresh,
                      chain_key |-> [key |-> s.root_key, index |-> 0]]
  /\ s.sender_chain = << [ratchet_key |-> chain.ratchet_key,
                          chain_key |-> [key |-> chain.chain_key.key,
                                         index |-> chain.chain_key.index + 1]] >>
  /\ m = [ratchet_key |-> chain.ratchet_key, counter |-> chain.chain_key.index,
          key |-> chain.chain_key, plaintext |-> text]

LEMMA EncryptedChain ==
  ASSUME NEW r \in RatchetType, WithinBounds(r), NEW fresh \in RatchetKey, NEW text,
         NEW s, s = Encrypted(r, fresh),
         NEW m, m = EncryptedMessage(r, fresh, text)
  PROVE  \E chain : SentOn(chain, r, fresh, text, s, m)
<1> DEFINE w == WithSenderChain(r, fresh)
           chain == w.sender_chain[1]
<1>1. /\ chain \in SenderChainType
      /\ IF r.sender_chain # << >>
         THEN w = r
         ELSE /\ w.root_key = Append(r.root_key, {fresh, r.receiver_chains[1].ratchet_key})
              /\ chain = [ratchet_key |-> fresh,
                          chain_key |-> [key |-> w.root_key, index |-> 0]]
  <2>1. CASE r.sender_chain # << >>
    BY <2>1, Stored DEF WithSenderChain
  <2>2. CASE r.sender_chain = << >>
    <3> DEFINE their == r.receiver_chains[1].ratchet_key
               new == create_chain_key(r.root_key, fresh, their)
               c == [ratchet_key |-> fresh, chain_key |-> new.chain_key]
    <3>1. w = [r EXCEPT !.root_key = new.root_key, !.sender_chain = << c >>]
      BY <2>2 DEF WithSenderChain
    <3>2. /\ new.root_key = Append(r.root_key, {fresh, their})
          /\ new.chain_key = [key |-> new.root_key, index |-> 0]
      BY DEF create_chain_key, SharedSecret
    <3>3. r.root_key \in History /\ their \in RatchetKey
      <4>1. 1 \in 1..Len(r.receiver_chains)
        BY <2>2 DEF WithinBounds, RatchetType
      <4>. QED
        BY <4>1, Stored
    <3>4. new.chain_key \in ChainKey
      BY <3>3, Channel_create_chain_keyType
    <3>5. c \in SenderChainType
      BY <3>4 DEF SenderChainType
    <3>. HIDE DEF new, c
    <3>6. w.root_key = new.root_key /\ w.sender_chain = << c >>
      BY <3>1 DEF RatchetType
    <3>7. chain = c
      BY <3>6
    <3>. QED
      BY <2>2, <3>2, <3>5, <3>6, <3>7 DEF c
  <2>. QED
    BY <2>1, <2>2
<1>2. \A k \in ChainKey : advance_chain_key(k) = [key |-> k.key, index |-> k.index + 1]
  BY DEF advance_chain_key, ChainKey
<1>3. w \in [root_key : {w.root_key}, sender_chain : {w.sender_chain},
             receiver_chains : {w.receiver_chains},
             skipped_message_keys : {w.skipped_message_keys}, last_error : {w.last_error}]
  BY DEF WithSenderChain, RatchetType
<1> DEFINE past == [chain EXCEPT !.chain_key = advance_chain_key(@)]
<1>4. s = [w EXCEPT !.sender_chain = << past >>]
  BY DEF Encrypted
<1>5. past = [ratchet_key |-> chain.ratchet_key,
              chain_key |-> [key |-> chain.chain_key.key, index |-> chain.chain_key.index + 1]]
  <2>. HIDE DEF chain
  <2>. QED
    BY <1>1, <1>2 DEF SenderChainType
<1>6. m = [ratchet_key |-> chain.ratchet_key, counter |-> chain.chain_key.index,
           key |-> chain.chain_key, plaintext |-> text]
  BY DEF EncryptedMessage, create_message_keys
<1>. HIDE DEF w, chain, past
<1>7. s.root_key = w.root_key /\ s.sender_chain = << past >>
  BY <1>3, <1>4
<1>8. r.sender_chain # << >> => chain = r.sender_chain[1]
  BY <1>1 DEF chain
<1>. QED
  BY <1>1, <1>5, <1>6, <1>7, <1>8 DEF SentOn

(* The pair that encrypt would make is that of the next chain. *)
LEMMA EncryptedInTurn ==
  ASSUME NEW p \in Party, NEW r \in RatchetType, WithinBounds(r), InTurn(r, p),
         NEW fresh \in RatchetKey, r.sender_chain = << >> => fresh = KeyOf(Chain(r) + 1),
         NEW text,
         NEW s, s = Encrypted(r, fresh), s \in RatchetType,
         s.receiver_chains = r.receiver_chains,
         s.skipped_message_keys = r.skipped_message_keys,
         NEW m, m = EncryptedMessage(r, fresh, text)
  PROVE  /\ InTurn(s, p)
         /\ s.sender_chain # << >>
         /\ Chain(s) = IF r.sender_chain = << >> THEN Chain(r) + 1 ELSE Chain(r)
         /\ Turn(Chain(s)) = p
         /\ OfChain(m.ratchet_key, m.key.key)
         /\ Owner(m.ratchet_key) = p
         /\ Len(m.key.key) = Chain(s)
         /\ m.counter = IF r.sender_chain = << >> THEN 0 ELSE NextIndex(r)
         /\ m.counter \in Nat
         /\ m.key.index = m.counter
         /\ NextIndex(s) = m.counter + 1
         /\ m.plaintext = text
<1> DEFINE n == Chain(r)
           new == Chain(s)
<1>1. /\ n \in Nat /\ new \in Nat
      /\ r.root_key = RootOf(n)
      /\ r.sender_chain # << >> <=> Turn(n) = p
  BY Stored DEF InTurn, Senders
<1>. PICK chain : SentOn(chain, r, fresh, text, s, m)
  BY EncryptedChain
<1>2. /\ chain \in SenderChainType
      /\ IF r.sender_chain # << >>
         THEN chain = r.sender_chain[1] /\ s.root_key = r.root_key
         ELSE /\ s.root_key = Append(r.root_key, {fresh, r.receiver_chains[1].ratchet_key})
              /\ chain = [ratchet_key |-> fresh,
                          chain_key |-> [key |-> s.root_key, index |-> 0]]
      /\ s.sender_chain = << [ratchet_key |-> chain.ratchet_key,
                              chain_key |-> [key |-> chain.chain_key.key,
                                             index |-> chain.chain_key.index + 1]] >>
      /\ m = [ratchet_key |-> chain.ratchet_key, counter |-> chain.chain_key.index,
              key |-> chain.chain_key, plaintext |-> text]
  BY DEF SentOn
(* The chain is the sender's newest. *)
<1>3. /\ new = IF r.sender_chain = << >> THEN n + 1 ELSE n
      /\ s.root_key = RootOf(new)
      /\ Turn(new) = p
      /\ chain.ratchet_key = KeyOf(new)
      /\ chain.chain_key.key = s.root_key
      /\ chain.chain_key.index = IF r.sender_chain = << >> THEN 0 ELSE NextIndex(r)
  <2>1. CASE r.sender_chain # << >>
    <3>1. new = n
      BY <1>2, <2>1 DEF Chain
    <3>. QED
      BY <1>1, <1>2, <2>1, <3>1 DEF InTurn, Senders, NextIndex
  <2>2. CASE r.sender_chain = << >>
    <3>1. Turn(n) # p
      BY <1>1, <2>2
    <3>2. r.receiver_chains[1].ratchet_key = KeyOf(n)
      <4>1. /\ 1 <= Len(r.receiver_chains)
            /\ Len(r.receiver_chains[1].chain_key.key) = n
        BY <1>1, <3>1 DEF InTurn, Newest
      <4>2. 1 \in 1..Len(r.receiver_chains)
        BY <4>1, Stored
      <4>. QED
        BY <4>1, <4>2 DEF InTurn, Receivers, OfChain
    <3>3. s.root_key = RootOf(n + 1)
      <4>1. {KeyOf(n + 1), KeyOf(n)} = {KeyOf(n), KeyOf(n + 1)}
        OBVIOUS
      <4>. QED
        BY <1>1, <1>2, <2>2, <3>2, <4>1, Roots
    <3>4. new = n + 1
      <4>1. n + 1 \in Nat
        BY <1>1
      <4>. QED
        BY <3>3, <4>1, Roots DEF Chain
    <3>5. Turn(n + 1) = p
      BY <1>1, <3>1, OtherTurn
    <3>6. fresh = KeyOf(n + 1)
      BY <2>2
    <3>7. chain.ratchet_key = fresh /\ chain.chain_key = [key |-> s.root_key, index |-> 0]
      BY <1>2, <2>2
    <3>. QED
      BY <2>2, <3>3, <3>4, <3>5, <3>6, <3>7
  <2>. QED
    BY <2>1, <2>2
<1>4. /\ s.sender_chain # << >>
      /\ s.sender_chain[1].ratchet_key = KeyOf(new)
      /\ s.sender_chain[1].chain_key.key = s.root_key
      /\ NextIndex(s) = chain.chain_key.index + 1
  BY <1>2, <1>3 DEF NextIndex
<1>5. /\ m.ratchet_key = KeyOf(new)
      /\ m.counter = chain.chain_key.index
      /\ m.key = chain.chain_key
      /\ m.plaintext = text
  BY <1>2, <1>3
<1>6. n <= new
  BY <1>1, <1>3
<1>7. Receivers(s, p) /\ Skipped(s, p)
  <2>1. \A k \in Nat : k <= n => k <= new
    BY <1>1, <1>6
  <2>2. Receivers(r, p) /\ Skipped(r, p)
    BY DEF InTurn
  <2>. QED
    BY <2>1, <2>2, Stored DEF Receivers, Skipped
<1>8. Newest(s, p)
  <2>1. CASE r.sender_chain # << >>
    BY <1>1, <1>3, <2>1 DEF InTurn, Newest
  <2>2. CASE r.sender_chain = << >>
    <3>1. new - 1 = n /\ new # n
      BY <1>1, <1>3, <2>2
    <3>2. Turn(n) # p
      BY <1>1, <2>2
    <3>3. /\ 1 <= Len(r.receiver_chains)
          /\ Len(r.receiver_chains[1].chain_key.key) = n
      BY <1>1, <3>2 DEF InTurn, Newest
    <3>. QED
      BY <1>3, <3>1, <3>3 DEF Newest
  <2>. QED
    BY <2>1, <2>2
<1>9. Len(m.key.key) = new
  BY <1>3, <1>5 DEF Chain
<1>10. OfChain(m.ratchet_key, m.key.key) /\ Owner(m.ratchet_key) = p
  BY <1>1, <1>3, <1>5, <1>9, Turns DEF OfChain
<1>11. m.counter \in Nat
  BY <1>3, <1>5, Stored
<1>. QED
  BY <1>3, <1>4, <1>5, <1>7, <1>8, <1>9, <1>10, <1>11 DEF InTurn, Senders

(* A new chain of the other end is the one that follows ours. *)
LEMMA NewChainInTurn ==
  ASSUME NEW p \in Party, NEW r \in RatchetType, WithinBounds(r), InTurn(r, p),
         NEW m \in Message, VerifiesOnNewChain(r, m), OfChain(m.ratchet_key, m.key.key),
         NEW w, w = WithNewReceiverChain(r, m)
  PROVE  /\ InTurn(w, p)
         /\ Turn(Chain(r)) = p
         /\ Chain(w) = Chain(r) + 1
         /\ Len(m.key.key) = Chain(r) + 1
         /\ Owner(m.ratchet_key) = Peer(p)
         /\ w \in RatchetType
         /\ 1 <= Len(w.receiver_chains)
         /\ \A j \in 2..Len(w.receiver_chains) :
              /\ j - 1 \in 1..Len(r.receiver_chains)
              /\ w.receiver_chains[j] = r.receiver_chains[j - 1]
<1> DEFINE n == Chain(r)
<1>1. /\ n \in Nat
      /\ r.root_key = RootOf(n)
      /\ r.sender_chain # << >>
      /\ Turn(n) = p
      /\ r.sender_chain[1].ratchet_key = KeyOf(n)
  BY Stored DEF InTurn, Senders, VerifiesOnNewChain
<1>2. /\ w \in RatchetType
      /\ w.root_key = NewChain(r, m).root_key
      /\ w.sender_chain = << >>
      /\ w.skipped_message_keys = r.skipped_message_keys
      /\ 1 <= Len(w.receiver_chains)
      /\ w.receiver_chains[1].chain_key = NewChain(r, m).chain_key
      /\ NewChain(r, m).chain_key = [key |-> w.root_key, index |-> 0]
      /\ \A j \in 2..Len(w.receiver_chains) :
           /\ j - 1 \in 1..Len(r.receiver_chains)
           /\ w.receiver_chains[j] = r.receiver_chains[j - 1]
  BY <1>1, Channel_WithNewReceiverChainProperties
<1>3. w.root_key = Append(RootOf(n), {KeyOf(n), m.ratchet_key})
  BY <1>1, <1>2 DEF NewChain, create_chain_key, SharedSecret
<1>4. m.key.key = w.root_key
  <2> DEFINE c == [key |-> w.root_key, index |-> 0]
  <2>1. c \in ChainKey
    BY <1>2, Stored DEF ChainKey
  <2>2. m.key = AdvancedTo(c, m.counter)
    BY <1>2 DEF VerifiesOnNewChain, VerifiesOnChain, create_message_keys
  <2>3. m.counter \in Nat
    BY DEF Message
  <2>4. m.key = [key |-> c.key, index |-> m.counter]
    BY <2>1, <2>2, <2>3, Channel_ChainKeySteps
  <2>. QED
    BY <2>4
<1>5. Chain(w) = n + 1
  <2>1. w.root_key = NewChain(r, m).root_key /\ r.root_key \in History
        /\ r.sender_chain[1].ratchet_key \in RatchetKey /\ m.ratchet_key \in RatchetKey
    BY <1>1, <1>2, Stored DEF Message
  <2>. QED
    BY <2>1, Channel_create_chain_keyType DEF NewChain, Chain
<1>6. m.ratchet_key = KeyOf(n + 1)
  BY <1>4, <1>5 DEF OfChain, Chain
<1>7. /\ w.root_key = RootOf(n + 1)
      /\ Turn(n + 1) = Peer(p)
      /\ Owner(m.ratchet_key) = Peer(p)
      /\ Peer(p) # p
  <2>1. n + 1 \in Nat
    BY <1>1
  <2>. QED
    BY <1>1, <1>3, <1>6, <2>1, Roots, Turns, Peers
<1>8. Len(w.root_key) = n + 1
  BY <1>5 DEF Chain
<1>9. w.receiver_chains[1].ratchet_key = m.ratchet_key
  <2>1. r.receiver_chains \in Seq(ReceiverChainType)
    BY DEF RatchetType
  <2> DEFINE chain == [ratchet_key |-> m.ratchet_key, chain_key |-> NewChain(r, m).chain_key]
  <2>2. w.receiver_chains = InsertFirst(r.receiver_chains, MAX_RECEIVER_CHAINS, chain)
    BY DEF WithNewReceiverChain, RatchetType
  <2>3. chain \in ReceiverChainType
    BY <1>2, Stored DEF ReceiverChainType, ChainKey, Message
  <2>. HIDE DEF chain
  <2>4. w.receiver_chains[1] = chain
    BY <2>1, <2>2, <2>3, RatchetConstants, InsertFirstProperties
  <2>. QED
    BY <2>4 DEF chain
<1>10. Receivers(w, p)
  <2>1. ASSUME NEW i \in 1..Len(w.receiver_chains)
        PROVE  LET chain == w.receiver_chains[i]
               IN  /\ OfChain(chain.ratchet_key, chain.chain_key.key)
                   /\ Turn(Len(chain.chain_key.key)) = Peer(p)
                   /\ Len(chain.chain_key.key) <= Chain(w)
    <3>1. CASE i = 1
      BY <1>1, <1>2, <1>4, <1>5, <1>7, <1>8, <1>9, <3>1 DEF OfChain
    <3>2. CASE i # 1
      <4>1. i - 1 \in 1..Len(r.receiver_chains) /\ w.receiver_chains[i] = r.receiver_chains[i - 1]
        <5>1. i \in 2..Len(w.receiver_chains)
          BY <3>2
        <5>. QED
          BY <1>2, <5>1
      <4>2. \A k \in Nat : k <= n => k <= n + 1
        BY <1>1
      <4>3. Receivers(r, p)
        BY DEF InTurn
      <4>. QED
        BY <1>5, <4>1, <4>2, <4>3, Stored DEF Receivers
    <3>. QED
      BY <3>1, <3>2
  <2>. QED
    BY <2>1 DEF Receivers
<1>11. Skipped(w, p)
  <2>1. \A k \in Nat : k <= n => k <= n + 1
    BY <1>1
  <2>2. Skipped(r, p)
    BY DEF InTurn
  <2>. QED
    BY <1>2, <1>5, <2>1, <2>2, Stored DEF Skipped
<1>12. Newest(w, p) /\ Senders(w, p)
  BY <1>2, <1>5, <1>7, <1>8 DEF Newest, Senders
<1>. QED
  BY <1>1, <1>2, <1>4, <1>5, <1>7, <1>8, <1>10, <1>11, <1>12 DEF InTurn

(* decrypt moves no chain to another ratchet key, and files the keys that  *)
(* it skips under that of their chain.                                     *)
LEMMA OnChainRatchetKeys ==
  ASSUME NEW r \in RatchetType, NEW m \in Message, NEW i, Verified(r, i, m),
         NEW s, s = DecryptedOnChain(r, i, m), s \in RatchetType,
         NEW new, new = m.counter - r.receiver_chains[i].chain_key.index
  PROVE  /\ \A j \in 1..Len(r.receiver_chains) :
              s.receiver_chains[j].ratchet_key = r.receiver_chains[j].ratchet_key
         /\ \A j \in 1..Len(s.skipped_message_keys) :
              j <= new => s.skipped_message_keys[j].ratchet_key = r.receiver_chains[i].ratchet_key
<1> DEFINE chain == r.receiver_chains[i]
           past == advance_chain_key(AdvancedTo(chain.chain_key, m.counter))
           keys == SkippedKeys(chain, m.counter)
<1>1. /\ i \in 1..Len(r.receiver_chains)
      /\ chain \in ReceiverChainType
      /\ chain.chain_key.index \in Nat
      /\ chain.chain_key.index <= m.counter
      /\ m.counter \in Nat
      /\ r.receiver_chains \in Seq(ReceiverChainType)
      /\ r.skipped_message_keys \in Seq(SkippedMessageKey)
  BY Stored DEF Verified, Message, RatchetType
<1>2. s = [r EXCEPT
             !.skipped_message_keys =
                InsertFirstAll(@, MAX_SKIPPED_MESSAGE_KEYS, keys),
             !.receiver_chains[i].chain_key = past]
  BY DEF DecryptedOnChain
<1>. HIDE DEF past, keys
<1>3. /\ s.receiver_chains = [r.receiver_chains EXCEPT ![i].chain_key = past]
      /\ s.skipped_message_keys =
           InsertFirstAll(r.skipped_message_keys, MAX_SKIPPED_MESSAGE_KEYS, keys)
  BY <1>2 DEF RatchetType
<1>4. \A j \in 1..Len(r.receiver_chains) :
        s.receiver_chains[j].ratchet_key = r.receiver_chains[j].ratchet_key
  <2>1. s.receiver_chains[i] = [chain EXCEPT !.chain_key = past]
    BY <1>1, <1>3
  <2>2. \A j \in 1..Len(r.receiver_chains) :
          j # i => s.receiver_chains[j] = r.receiver_chains[j]
    BY <1>1, <1>3
  <2>. HIDE DEF chain
  <2>3. [chain EXCEPT !.chain_key = past].ratchet_key = chain.ratchet_key
    BY <1>1 DEF ReceiverChainType
  <2>. QED
    BY <2>1, <2>2, <2>3 DEF chain
<1>5. /\ keys \in Seq(SkippedMessageKey)
      /\ Len(keys) = new
      /\ new \in Nat
      /\ \A n \in 1..new : keys[n].ratchet_key = chain.ratchet_key
  <2>1. keys \in Seq(SkippedMessageKey) /\ Len(keys) = new
    BY <1>1, Channel_SkippedKeysType DEF keys
  <2>2. \A n \in 1..new : keys[n].ratchet_key = chain.ratchet_key
    BY DEF keys, SkippedKeys
  <2>. QED
    BY <1>1, <2>1, <2>2
<1>6. \A j \in 1..Len(s.skipped_message_keys) :
        j <= Len(keys) => s.skipped_message_keys[j] = keys[Len(keys) - j + 1]
  <2>1. MAX_SKIPPED_MESSAGE_KEYS \in Nat
    BY RatchetConstants
  <2> DEFINE list == InsertFirstAll(r.skipped_message_keys, MAX_SKIPPED_MESSAGE_KEYS, keys)
  <2>2. \A j \in 1..Len(list) :
          \/ j <= Len(keys) /\ list[j] = keys[Len(keys) - j + 1]
          \/ j > Len(keys)
    BY <1>1, <1>5, <2>1, InsertFirstAllProperties
  <2>. HIDE DEF list
  <2>3. list = s.skipped_message_keys
    BY <1>3 DEF list
  <2>. QED
    BY <1>5, <2>2, <2>3
<1>7. \A j \in 1..Len(s.skipped_message_keys) :
        j <= new => s.skipped_message_keys[j].ratchet_key = chain.ratchet_key
  <2>1. ASSUME NEW j \in 1..Len(s.skipped_message_keys), j <= new
        PROVE  new - j + 1 \in 1..new
    BY <1>5, <2>1
  <2>. QED
    BY <1>5, <1>6, <2>1
<1>. QED
  BY <1>4, <1>7

(* What decrypt leaves of the turns, whichever branch it takes. *)
KeepsTurn(r, s, p, m) ==
  /\ InTurn(s, p)
  /\ \/ Chain(s) = Chain(r) /\ s.sender_chain = r.sender_chain
     \/ /\ Turn(Chain(r)) = p
        /\ Chain(s) = Chain(r) + 1
        /\ Len(m.key.key) = Chain(s)
  /\ \A i \in 1..Len(s.receiver_chains) :
       LET chain_key == s.receiver_chains[i].chain_key
       IN  \/ chain_key.key = m.key.key /\ chain_key.index <= m.counter + 1
           \/ \E j \in 1..Len(r.receiver_chains) : chain_key = r.receiver_chains[j].chain_key

LEMMA OnChainInTurn ==
  ASSUME NEW p \in Party, NEW r \in RatchetType, InTurn(r, p),
         NEW m \in Message, NEW i, Verified(r, i, m),
         NEW s, s = DecryptedOnChain(r, i, m)
  PROVE  /\ KeepsTurn(r, s, p, m)
         /\ Chain(s) = Chain(r) /\ s.sender_chain = r.sender_chain
<1>1. PICK new : new = m.counter - r.receiver_chains[i].chain_key.index
  OBVIOUS
<1> DEFINE k == Len(m.key.key)
<1>2. /\ new \in Nat
      /\ s \in RatchetType
      /\ s.root_key = r.root_key
      /\ s.sender_chain = r.sender_chain
      /\ Len(s.receiver_chains) = Len(r.receiver_chains)
      /\ \A j \in 1..Len(r.receiver_chains) :
           s.receiver_chains[j].chain_key =
             IF j = i THEN [key |-> m.key.key, index |-> m.counter + 1]
                      ELSE r.receiver_chains[j].chain_key
      /\ \A j \in 1..Len(s.skipped_message_keys) :
           j <= new => s.skipped_message_keys[j].message_key =
                         [key |-> m.key.key, index |-> m.counter - j]
      /\ \A j \in 1..Len(s.skipped_message_keys) :
           j > new => /\ j - new \in 1..Len(r.skipped_message_keys)
                      /\ s.skipped_message_keys[j] = r.skipped_message_keys[j - new]
  BY <1>1, Channel_DecryptedOnChainProperties, SMTT(30)
<1>3. /\ \A j \in 1..Len(r.receiver_chains) :
           s.receiver_chains[j].ratchet_key = r.receiver_chains[j].ratchet_key
      /\ \A j \in 1..Len(s.skipped_message_keys) :
           j <= new => s.skipped_message_keys[j].ratchet_key = r.receiver_chains[i].ratchet_key
  <2>1. s \in RatchetType
    BY <1>2
  <2>. QED
    BY <1>1, <2>1, OnChainRatchetKeys
<1>4. /\ i \in 1..Len(r.receiver_chains)
      /\ m.key = [key |-> r.receiver_chains[i].chain_key.key, index |-> m.counter]
      /\ m.key.key = r.receiver_chains[i].chain_key.key
      /\ m.counter \in Nat
  BY DEF Verified, Message
<1>5. /\ OfChain(r.receiver_chains[i].ratchet_key, m.key.key)
      /\ Turn(k) = Peer(p)
      /\ k <= Chain(r)
  BY <1>4 DEF InTurn, Receivers
<1>6. Chain(s) = Chain(r)
  BY <1>2 DEF Chain
<1>7. \A j \in 1..Len(r.receiver_chains) :
        s.receiver_chains[j].chain_key.key = r.receiver_chains[j].chain_key.key
  BY <1>2, <1>4
<1>8. Receivers(s, p)
  BY <1>2, <1>3, <1>6, <1>7, SMTT(30) DEF InTurn, Receivers
<1>9. Newest(s, p)
  <2>1. 1 <= Len(r.receiver_chains) => 1 \in 1..Len(r.receiver_chains)
    BY Stored
  <2>2. Newest(r, p)
    BY DEF InTurn
  <2>. QED
    BY <1>2, <1>6, <1>7, <2>1, <2>2 DEF Newest
<1>10. Skipped(s, p)
  <2>1. ASSUME NEW j \in 1..Len(s.skipped_message_keys)
        PROVE  LET skipped == s.skipped_message_keys[j]
               IN  /\ OfChain(skipped.ratchet_key, skipped.message_key.key)
                   /\ Turn(Len(skipped.message_key.key)) = Peer(p)
                   /\ Len(skipped.message_key.key) <= Chain(s)
    <3>1. CASE j <= new
      <4>1. s.skipped_message_keys[j].message_key.key = m.key.key
        <5>1. s.skipped_message_keys[j].message_key =
                [key |-> m.key.key, index |-> m.counter - j]
          BY <1>2, <3>1
        <5>. QED
          BY <5>1
      <4>2. s.skipped_message_keys[j].ratchet_key = r.receiver_chains[i].ratchet_key
        BY <1>3, <3>1
      <4>. QED
        BY <1>5, <1>6, <4>1, <4>2
    <3>2. CASE j > new
      BY <1>2, <1>6, <3>2 DEF InTurn, Skipped
    <3>. QED
      BY <1>2, <3>1, <3>2
  <2>. QED
    BY <2>1 DEF Skipped
<1>11. InTurn(s, p)
  BY <1>2, <1>6, <1>8, <1>9, <1>10 DEF InTurn, Senders, NextIndex
<1>12. ASSUME NEW j \in 1..Len(s.receiver_chains)
       PROVE  LET chain_key == s.receiver_chains[j].chain_key
              IN  \/ chain_key.key = m.key.key /\ chain_key.index <= m.counter + 1
                  \/ \E l \in 1..Len(r.receiver_chains) : chain_key = r.receiver_chains[l].chain_key
  BY <1>2, <1>4
<1>. QED
  BY <1>2, <1>6, <1>11, <1>12 DEF KeepsTurn

(* A message that a chain verifies was made with its key. *)
LEMMA ExistingChainVerifies ==
  ASSUME NEW r \in RatchetType, NEW m \in Message, VerifiesOnExistingChain(r, m)
  PROVE  Verified(r, ReceiverChain(r, m), m)
<1> DEFINE i == ReceiverChain(r, m)
           chain_key == r.receiver_chains[i].chain_key
<1>1. /\ i \in 1..Len(r.receiver_chains)
      /\ VerifiesOnChain(chain_key, m)
      /\ chain_key \in ChainKey
      /\ chain_key.index \in Nat
      /\ m.counter \in Nat
  BY Channel_ReceiverChainInDomain, Stored DEF VerifiesOnExistingChain, Message
<1>. HIDE DEF i
<1>2. m.key = AdvancedTo(chain_key, m.counter) /\ chain_key.index <= m.counter
  BY <1>1 DEF VerifiesOnChain, create_message_keys
<1>3. AdvancedTo(chain_key, m.counter) = [key |-> chain_key.key, index |-> m.counter]
  <2>. HIDE DEF chain_key
  <2>. QED
    BY <1>1, Channel_ChainKeySteps
<1>4. Verified(r, i, m)
  BY <1>1, <1>2, <1>3 DEF Verified
<1>. QED
  BY <1>4 DEF i

LEMMA NewChainVerifies ==
  ASSUME NEW r \in RatchetType, WithinBounds(r), NEW m \in Message, VerifiesOnNewChain(r, m),
         NEW w, w = WithNewReceiverChain(r, m)
  PROVE  /\ Verified(w, 1, m)
         /\ m.key.key = Append(r.root_key, {r.sender_chain[1].ratchet_key, m.ratchet_key})
<1>1. /\ r.sender_chain # << >>
      /\ VerifiesOnChain(NewChain(r, m).chain_key, m)
      /\ m.counter \in Nat
  BY DEF VerifiesOnNewChain, Message
<1>2. /\ w \in RatchetType
      /\ w.root_key = NewChain(r, m).root_key
      /\ 1 <= Len(w.receiver_chains)
      /\ w.receiver_chains[1].chain_key = NewChain(r, m).chain_key
      /\ NewChain(r, m).chain_key = [key |-> w.root_key, index |-> 0]
  BY <1>1, Channel_WithNewReceiverChainProperties
<1> DEFINE c == [key |-> w.root_key, index |-> 0]
<1>3. c \in ChainKey
  BY <1>2, Stored DEF ChainKey
<1>4. m.key = AdvancedTo(c, m.counter)
  BY <1>1, <1>2 DEF VerifiesOnChain, create_message_keys
<1>5. m.key = [key |-> c.key, index |-> m.counter]
  BY <1>1, <1>3, <1>4, Channel_ChainKeySteps
<1>6. 1 \in 1..Len(w.receiver_chains)
  BY <1>2, Stored
<1>7. Verified(w, 1, m)
  BY <1>1, <1>2, <1>5, <1>6 DEF Verified
<1>8. m.key.key = w.root_key
  BY <1>5
<1>. QED
  BY <1>2, <1>7, <1>8 DEF NewChain, create_chain_key, SharedSecret

(* Neither end ever has a key that fits a damaged message. *)
LEMMA NoKeyNeverFits ==
  ASSUME NEW p \in Party, NEW r \in RatchetType, WithinBounds(r), InTurn(r, p),
         NEW m \in Message, m.key = NoKey
  PROVE  ~ CanDecrypt(r, m)
<1>1. m.key.key = << {} >>
  BY DEF NoKey
<1>2. \A n \in Nat : RootOf(n) # << {} >>
  BY Roots
<1>3. ~ VerifiesOnNewChain(r, m)
  <2>1. SUFFICES ASSUME VerifiesOnNewChain(r, m)
                 PROVE  FALSE
    OBVIOUS
  <2> DEFINE S == {r.sender_chain[1].ratchet_key, m.ratchet_key}
  <2>2. Append(r.root_key, S) = << {} >>
    BY <1>1, <2>1, NewChainVerifies
  <2>3. r.root_key \in Seq(SUBSET RatchetKey)
    BY Stored DEF History
  <2>4. S # {}
    OBVIOUS
  <2>. HIDE DEF S
  <2>5. /\ Append(r.root_key, S)[Len(r.root_key) + 1] = S
        /\ Len(Append(r.root_key, S)) = Len(r.root_key) + 1
    BY <2>3
  <2>6. Len(r.root_key) + 1 = 1
    BY <2>2, <2>5
  <2>7. S = {}
    BY <2>2, <2>5, <2>6
  <2>. QED
    BY <2>4, <2>7
<1>4. ~ VerifiesOnExistingChain(r, m)
  <2>1. SUFFICES ASSUME VerifiesOnExistingChain(r, m)
                 PROVE  FALSE
    OBVIOUS
  <2> DEFINE i == ReceiverChain(r, m)
  <2>2. Verified(r, i, m)
    BY <2>1, ExistingChainVerifies
  <2>. HIDE DEF i
  <2>3. i \in 1..Len(r.receiver_chains) /\ m.key.key = r.receiver_chains[i].chain_key.key
    BY <2>2 DEF Verified
  <2>. QED
    BY <1>1, <1>2, <2>3, Stored DEF InTurn, Receivers, OfChain
<1>5. ~ VerifiesWithSkippedKey(r, m)
  <2>1. SUFFICES ASSUME SkippedKeysFor(r, m) # {}
                 PROVE  FALSE
    BY DEF VerifiesWithSkippedKey
  <2>2. PICK i \in 1..Len(r.skipped_message_keys) : r.skipped_message_keys[i].message_key = m.key
    BY <2>1, Channel_SkippedKeyInDomain
  <2>. QED
    BY <1>1, <1>2, <2>2, Stored DEF InTurn, Skipped, OfChain
<1>. QED
  BY <1>3, <1>4, <1>5 DEF CanDecrypt

(* What a successful decrypt makes of r. *)
DecryptedTo(r, m, s) ==
  \/ VerifiesOnNewChain(r, m) /\ s = DecryptedOnNewChain(r, m)
  \/ VerifiesOnExistingChain(r, m) /\ s = DecryptedOnExistingChain(r, m)
  \/ VerifiesWithSkippedKey(r, m) /\ s = DecryptedWithSkippedKey(r, m)

LEMMA DecryptedType ==
  ASSUME NEW r \in RatchetType, WithinBounds(r), NEW m \in Message,
         NEW s, DecryptedTo(r, m, s)
  PROVE  s \in RatchetType /\ WithinBounds(s)
<1>1. {} \in SUBSET Message
  OBVIOUS
<1>2. CASE VerifiesOnNewChain(r, m) /\ s = DecryptedOnNewChain(r, m)
  BY <1>1, <1>2, Channel_NewChainUsed
<1>3. CASE VerifiesOnExistingChain(r, m) /\ s = DecryptedOnExistingChain(r, m)
  BY <1>1, <1>3, Channel_ExistingChainUsed
<1>4. CASE VerifiesWithSkippedKey(r, m) /\ s = DecryptedWithSkippedKey(r, m)
  BY <1>1, <1>4, Channel_SkippedKeyUsed
<1>. QED
  BY <1>2, <1>3, <1>4 DEF DecryptedTo

(* decrypt keeps the turns, and reads only what the other end has sent. *)
LEMMA DecryptedInTurn ==
  ASSUME NEW p \in Party, NEW r \in RatchetType, WithinBounds(r), InTurn(r, p),
         NEW m \in Message, OfChain(m.ratchet_key, m.key.key),
         NEW s, DecryptedTo(r, m, s)
  PROVE  KeepsTurn(r, s, p, m) /\ Owner(m.ratchet_key) = Peer(p)
<1>1. CASE VerifiesOnNewChain(r, m) /\ s = DecryptedOnNewChain(r, m)
  <2> DEFINE w == WithNewReceiverChain(r, m)
  <2>1. /\ InTurn(w, p)
        /\ Turn(Chain(r)) = p
        /\ Chain(w) = Chain(r) + 1
        /\ Len(m.key.key) = Chain(r) + 1
        /\ Owner(m.ratchet_key) = Peer(p)
    BY <1>1, NewChainInTurn
  <2>2. /\ w \in RatchetType
        /\ 1 <= Len(w.receiver_chains)
        /\ \A j \in 2..Len(w.receiver_chains) :
             /\ j - 1 \in 1..Len(r.receiver_chains)
             /\ w.receiver_chains[j] = r.receiver_chains[j - 1]
    BY <1>1, NewChainInTurn
  <2>3. Verified(w, 1, m)
    BY <1>1, NewChainVerifies
  <2>. HIDE DEF w
  <2>4. s = DecryptedOnChain(w, 1, m)
    BY <1>1 DEF DecryptedOnNewChain, w
  <2>5. KeepsTurn(w, s, p, m) /\ Chain(s) = Chain(w)
    BY <2>1, <2>2, <2>3, <2>4, OnChainInTurn
  <2>6. ASSUME NEW i \in 1..Len(w.receiver_chains)
        PROVE  LET chain_key == w.receiver_chains[i].chain_key
               IN  \/ chain_key.key = m.key.key /\ chain_key.index <= m.counter
                   \/ \E j \in 1..Len(r.receiver_chains) : chain_key = r.receiver_chains[j].chain_key
    <3>1. CASE i = 1
      <4>1. /\ m.key = [key |-> w.receiver_chains[1].chain_key.key, index |-> m.counter]
            /\ w.receiver_chains[1].chain_key.index <= m.counter
        BY <2>3 DEF Verified
      <4>2. m.key.key = w.receiver_chains[1].chain_key.key
        BY <4>1
      <4>. QED
        BY <3>1, <4>1, <4>2
    <3>2. CASE i # 1
      <4>1. i \in 2..Len(w.receiver_chains)
        BY <3>2
      <4>. QED
        BY <2>2, <4>1
    <3>. QED
      BY <3>1, <3>2
  <2>7. ASSUME NEW i \in 1..Len(s.receiver_chains)
        PROVE  LET chain_key == s.receiver_chains[i].chain_key
               IN  \/ chain_key.key = m.key.key /\ chain_key.index <= m.counter + 1
                   \/ \E j \in 1..Len(r.receiver_chains) : chain_key = r.receiver_chains[j].chain_key
    <3> DEFINE chain_key == s.receiver_chains[i].chain_key
    <3>1. CASE chain_key.key = m.key.key /\ chain_key.index <= m.counter + 1
      BY <3>1
    <3>2. CASE \E l \in 1..Len(w.receiver_chains) : chain_key = w.receiver_chains[l].chain_key
      <4>1. PICK l \in 1..Len(w.receiver_chains) : chain_key = w.receiver_chains[l].chain_key
        BY <3>2
      <4>2. chain_key.index \in Nat /\ m.counter \in Nat
        BY <2>2, <4>1, Stored DEF Message
      <4>3. chain_key.index <= m.counter => chain_key.index <= m.counter + 1
        BY <4>2, SMTT(30)
      <4>. QED
        BY <2>6, <4>1, <4>3
    <3>. QED
      BY <2>5, <3>1, <3>2 DEF KeepsTurn
  <2>. QED
    BY <2>1, <2>5, <2>7 DEF KeepsTurn
<1>2. CASE VerifiesOnExistingChain(r, m) /\ s = DecryptedOnExistingChain(r, m)
  <2> DEFINE i == ReceiverChain(r, m)
  <2>1. Verified(r, i, m) /\ s = DecryptedOnChain(r, i, m)
    BY <1>2, ExistingChainVerifies DEF DecryptedOnExistingChain
  <2>. HIDE DEF i
  <2>2. KeepsTurn(r, s, p, m)
    BY <2>1, OnChainInTurn
  <2>3. i \in 1..Len(r.receiver_chains) /\ m.key.key = r.receiver_chains[i].chain_key.key
    BY <2>1 DEF Verified
  <2>4. Turn(Len(m.key.key)) = Peer(p) /\ Len(m.key.key) \in Nat
    BY <2>3, Stored DEF InTurn, Receivers
  <2>. QED
    BY <2>2, <2>4, Turns DEF OfChain
<1>3. CASE VerifiesWithSkippedKey(r, m) /\ s = DecryptedWithSkippedKey(r, m)
  <2> DEFINE pos == Min(SkippedKeysFor(r, m))
             keys == r.skipped_message_keys
  <2>1. /\ pos \in 1..Len(keys)
        /\ keys[pos].message_key = m.key
        /\ keys \in Seq(SkippedMessageKey)
    BY <1>3, Channel_SkippedKeyInDomain DEF VerifiesWithSkippedKey, RatchetType
  <2>. HIDE DEF pos
  <2>2. s = [r EXCEPT !.skipped_message_keys = Erase(keys, pos)]
    BY <1>3 DEF DecryptedWithSkippedKey, pos
  <2>3. /\ s.root_key = r.root_key
        /\ s.sender_chain = r.sender_chain
        /\ s.receiver_chains = r.receiver_chains
        /\ s.skipped_message_keys = Erase(keys, pos)
    BY <2>2 DEF RatchetType
  <2>4. \A j \in 1..Len(s.skipped_message_keys) :
          \E k \in 1..Len(keys) : s.skipped_message_keys[j] = keys[k]
    <3>. HIDE DEF keys
    <3>1. /\ Len(Erase(keys, pos)) = Len(keys) - 1
          /\ \A j \in 1..(Len(keys) - 1) :
               Erase(keys, pos)[j] = IF j < pos THEN keys[j] ELSE keys[j + 1]
      BY <2>1, EraseProperties
    <3>2. ASSUME NEW j \in 1..(Len(keys) - 1)
          PROVE  j \in 1..Len(keys) /\ j + 1 \in 1..Len(keys)
      BY <2>1
    <3>. QED
      BY <2>3, <3>1, <3>2
  <2>5. Chain(s) = Chain(r)
    BY <2>3 DEF Chain
  <2>6. Skipped(s, p)
    BY <2>4, <2>5 DEF InTurn, Skipped
  <2>7. InTurn(s, p)
    BY <2>3, <2>5, <2>6 DEF InTurn, Senders, Receivers, Newest
  <2>8. Turn(Len(m.key.key)) = Peer(p) /\ Len(m.key.key) \in Nat
    BY <2>1, Stored DEF InTurn, Skipped
  <2>. QED
    BY <2>3, <2>5, <2>7, <2>8, Turns DEF KeepsTurn, OfChain
<1>. QED
  BY <1>1, <1>2, <1>3 DEF DecryptedTo

(* The pair that encrypt makes next is the one of the next chain. *)
LEMMA PairsOfTurns ==
  ASSUME NEW p \in Party, NEW n \in Nat
  PROVE  /\ Pairs(n, p) \in Nat
         /\ Turn(n) = p => Pairs(n + 1, p) = Pairs(n, p)
         /\ Turn(n) # p => /\ Pairs(n + 1, p) = Pairs(n, p) + 1
                           /\ << p, Pairs(n, p) + 1 >> = KeyOf(n + 1)
<1>1. Turn(n) = Alice <=> n % 2 = 0
  BY ChannelConstants DEF Turn
<1>2. CASE p = Alice
  <2>1. n % 2 = 0 => (n + 1) \div 2 = n \div 2
    OBVIOUS
  <2>2. n % 2 # 0 => (n + 1) \div 2 = n \div 2 + 1 /\ (n + 1) % 2 = 0
    OBVIOUS
  <2>. QED
    BY <1>1, <1>2, <2>1, <2>2 DEF Pairs, KeyOf, Turn
<1>3. CASE p # Alice
  <2>1. p = Bob /\ (Turn(n) = p <=> n % 2 # 0)
    BY <1>1, <1>3 DEF Party, Turn
  <2>2. n % 2 # 0 => (n + 2) \div 2 = (n + 1) \div 2
    OBVIOUS
  <2>3. n % 2 = 0 => (n + 2) \div 2 = (n + 1) \div 2 + 1 /\ (n + 1) % 2 # 0
    OBVIOUS
  <2>. QED
    BY <1>3, <2>1, <2>2, <2>3 DEF Pairs, KeyOf, Turn
<1>. QED
  BY <1>2, <1>3

(***************************************************************************)
(* The two ends together.                                                  *)
(***************************************************************************)
(* What the invariant says of the party p and its peer. *)
LEMMA PairOf ==
  ASSUME TypeOK, PairInv, NEW p \in Party
  PROVE  /\ ratchet[p] \in RatchetType /\ WithinBounds(ratchet[p])
         /\ Chain(ratchet[p]) \in Nat
         /\ InTurn(ratchet[p], p)
         /\ Chain(ratchet[p]) <= Chain(ratchet[Peer(p)])
                                   + (IF Turn(Chain(ratchet[p])) = p THEN 1 ELSE 0)
         /\ generated[p] = Pairs(Chain(ratchet[p]), p)
         /\ Behind(ratchet[p], ratchet[Peer(p)])
         /\ encrypted[p] \in Nat
  BY Stored DEF TypeOK, PairInv, InStep, Generated, NotAhead

(* What the invariant says of a message. *)
LEMMA SentOf ==
  ASSUME TypeOK, PairInv, NEW m \in sent
  PROVE  /\ m \in Message
         /\ Len(m.key.key) \in Nat
         /\ m.counter \in Nat /\ m.key.index = m.counter
         /\ m.plaintext \in Nat
         /\ OfChain(m.ratchet_key, m.key.key)
         /\ Owner(m.ratchet_key) \in Party
         /\ Owner(m.ratchet_key) = Turn(Len(m.key.key))
         /\ Past(ratchet[Owner(m.ratchet_key)], m)
         /\ m.plaintext < encrypted[Owner(m.ratchet_key)]
<1>1. m \in Message
  BY DEF TypeOK
<1>2. /\ m.counter \in Nat /\ m.plaintext \in Nat /\ m.key \in ChainKey
  BY <1>1 DEF Message, MessageKey
<1>3. Len(m.key.key) \in Nat
  BY <1>2 DEF ChainKey, History
<1>4. /\ OfChain(m.ratchet_key, m.key.key)
      /\ m.key.index = m.counter
      /\ Past(ratchet[Owner(m.ratchet_key)], m)
      /\ m.plaintext < encrypted[Owner(m.ratchet_key)]
  BY DEF PairInv, SentInTurn
<1>5. Owner(m.ratchet_key) = Turn(Len(m.key.key)) /\ Turn(Len(m.key.key)) \in Party
  BY <1>3, <1>4, Turns DEF OfChain
<1>. QED
  BY <1>1, <1>2, <1>3, <1>4, <1>5

(* decrypt reads no message that was damaged, and none of its own end. *)
LEMMA DecryptsTheOther ==
  ASSUME TypeOK, PairInv, NEW p \in Party, NEW m \in Arriving, CanDecrypt(ratchet[p], m)
  PROVE  /\ m \in sent /\ m \in Message
         /\ OfChain(m.ratchet_key, m.key.key)
         /\ Owner(m.ratchet_key) = Peer(p)
<1>1. m \in Message
  BY ArrivingType DEF TypeOK
<1>2. m.key # NoKey
  BY <1>1, PairOf, NoKeyNeverFits
<1>3. m \in sent
  BY <1>2 DEF Arriving, Damaged
<1>4. OfChain(m.ratchet_key, m.key.key)
  BY <1>3, SentOf
<1>5. \E s : DecryptedTo(ratchet[p], m, s)
  BY DEF CanDecrypt, DecryptedTo
<1>6. Owner(m.ratchet_key) = Peer(p)
  BY <1>1, <1>4, <1>5, PairOf, DecryptedInTurn
<1>. QED
  BY <1>1, <1>3, <1>4, <1>6

(* A successful decrypt keeps the ends together. *)
LEMMA DecryptKeepsPair ==
  ASSUME TypeOK, PairInv, NEW p \in Party, NEW m \in Arriving,
         NEW s, DecryptedTo(ratchet[p], m, s),
         ratchet' = [ratchet EXCEPT ![p] = s],
         Deliver(p, m)
  PROVE  PairInv'
<1> DEFINE r == ratchet[p]
           q == Peer(p)
           peer == ratchet[q]
           n == Chain(r)
<1>1. /\ m \in sent /\ m \in Message
      /\ OfChain(m.ratchet_key, m.key.key)
      /\ Owner(m.ratchet_key) = q
  BY DecryptsTheOther DEF CanDecrypt, DecryptedTo
<1>2. /\ r \in RatchetType /\ WithinBounds(r) /\ n \in Nat
      /\ InTurn(r, p)
      /\ n <= Chain(peer) + (IF Turn(n) = p THEN 1 ELSE 0)
      /\ generated[p] = Pairs(n, p)
      /\ Behind(r, peer)
  BY PairOf
<1>3. /\ q \in Party /\ q # p /\ Peer(q) = p
      /\ \A x \in Party : x = p \/ x = q
  BY Peers
<1>4. /\ peer \in RatchetType /\ Chain(peer) \in Nat
      /\ InTurn(peer, q)
      /\ Chain(peer) <= n + (IF Turn(Chain(peer)) = q THEN 1 ELSE 0)
      /\ generated[q] = Pairs(Chain(peer), q)
      /\ Behind(peer, r)
  BY <1>3, PairOf
<1>5. /\ Len(m.key.key) \in Nat /\ m.counter \in Nat
      /\ Past(peer, m)
  BY <1>1, SentOf
<1>6. KeepsTurn(r, s, p, m)
  BY <1>1, <1>2, DecryptedInTurn
<1>7. /\ ratchet'[p] = s /\ ratchet'[q] = peer
      /\ generated' = generated /\ encrypted' = encrypted /\ sent' = sent
      /\ delivered' = [delivered EXCEPT ![p] = @ \cup {m}]
  BY <1>3 DEF Deliver, TypeOK
<1>. HIDE DEF r, q, peer
<1>8. \/ Chain(s) = n /\ s.sender_chain = r.sender_chain
      \/ Turn(n) = p /\ Chain(s) = n + 1 /\ Chain(s) <= Chain(peer)
  BY <1>5, <1>6 DEF KeepsTurn, Past
<1>9. InTurn(s, p) /\ Chain(s) \in Nat
  BY <1>2, <1>6, <1>8 DEF KeepsTurn
<1>10. (\A x \in Party : InTurn(ratchet[x], x))'
  BY <1>3, <1>4, <1>7, <1>9
<1>11. InStep'
  <2>1. Chain(s) <= Chain(peer) + (IF Turn(Chain(s)) = p THEN 1 ELSE 0)
    BY <1>2, <1>4, <1>8
  <2>2. Chain(peer) <= Chain(s) + (IF Turn(Chain(peer)) = q THEN 1 ELSE 0)
    BY <1>2, <1>4, <1>8
  <2>. QED
    BY <1>3, <1>7, <2>1, <2>2 DEF InStep, q
<1>12. Generated'
  <2>1. Pairs(Chain(s), p) = Pairs(n, p)
    BY <1>2, <1>8, PairsOfTurns
  <2>. QED
    BY <1>2, <1>3, <1>4, <1>7, <2>1 DEF Generated
<1>13. SentInTurn'
  <2>1. ASSUME NEW d \in sent
        PROVE  /\ OfChain(d.ratchet_key, d.key.key)
               /\ d.key.index = d.counter
               /\ Past(ratchet'[Owner(d.ratchet_key)], d)
               /\ d.plaintext < encrypted[Owner(d.ratchet_key)]
    <3>1. /\ Len(d.key.key) \in Nat
          /\ Owner(d.ratchet_key) \in Party
          /\ Past(ratchet[Owner(d.ratchet_key)], d)
          /\ OfChain(d.ratchet_key, d.key.key)
          /\ d.key.index = d.counter
          /\ d.plaintext < encrypted[Owner(d.ratchet_key)]
      BY SentOf
    <3>2. Past(r, d) => Past(s, d)
      BY <1>2, <1>8, <3>1 DEF Past, NextIndex
    <3>. QED
      BY <1>3, <1>7, <3>1, <3>2 DEF r, peer
  <2>. QED
    BY <1>7, <2>1 DEF SentInTurn
<1>14. Different'
  BY <1>7 DEF PairInv, Different
<1>15. NotAhead'
  <2>1. Behind(s, peer)
    <3>1. ASSUME NEW i \in 1..Len(s.receiver_chains),
                 Len(s.receiver_chains[i].chain_key.key) = Chain(peer)
          PROVE  s.receiver_chains[i].chain_key.index <= NextIndex(peer)
      <4> DEFINE chain_key == s.receiver_chains[i].chain_key
      <4>1. CASE chain_key.key = m.key.key /\ chain_key.index <= m.counter + 1
        <5>1. peer.sender_chain # << >> /\ m.counter < NextIndex(peer)
          BY <1>5, <3>1, <4>1 DEF Past
        <5>2. NextIndex(peer) \in Nat
          BY <1>4, <5>1, Stored
        <5>3. chain_key.index \in Nat
          <6>1. s \in RatchetType
            BY <1>1, <1>2, DecryptedType DEF r
          <6>. QED
            BY <6>1, Stored
        <5>. QED
          BY <1>5, <4>1, <5>1, <5>2, <5>3, SMTT(30)
      <4>2. CASE \E j \in 1..Len(r.receiver_chains) : chain_key = r.receiver_chains[j].chain_key
        BY <1>2, <3>1, <4>2 DEF Behind
      <4>. QED
        BY <1>6, <4>1, <4>2 DEF KeepsTurn
    <3>. QED
      BY <3>1 DEF Behind
  <2>2. Behind(peer, s)
    <3>1. CASE Chain(s) = n /\ s.sender_chain = r.sender_chain
      BY <1>4, <3>1 DEF Behind, NextIndex
    <3>2. CASE Turn(n) = p /\ Chain(s) = n + 1
      <4>1. Turn(Chain(s)) = q
        BY <1>2, <3>2, Turns DEF q
      <4>2. \A i \in 1..Len(peer.receiver_chains) :
              Turn(Len(peer.receiver_chains[i].chain_key.key)) = p
        BY <1>3, <1>4 DEF InTurn, Receivers
      <4>. QED
        BY <1>3, <4>1, <4>2 DEF Behind
    <3>. QED
      BY <1>8, <3>1, <3>2
  <2>. QED
    BY <1>3, <1>7, <2>1, <2>2 DEF NotAhead, q
<1>16. Authentic'
  <2>1. \A x \in Party : delivered[x] \subseteq SentBy(Peer(x))
    BY DEF PairInv, Authentic
  <2>2. m \in SentBy(q)
    BY <1>1 DEF SentBy
  <2>3. \A x \in Party : delivered'[x] \subseteq SentBy(Peer(x))
    BY <1>7, <2>1, <2>2 DEF q, TypeOK
  <2>4. \A x : SentBy(x)' = SentBy(x)
    BY <1>7 DEF SentBy
  <2>. QED
    BY <2>3, <2>4 DEF Authentic
<1>. QED
  BY <1>10, <1>11, <1>12, <1>13, <1>14, <1>15, <1>16 DEF PairInv

(* encrypt keeps the ends together: a new chain is one that the other end  *)
(* has not got to, and a message on a chain is past all the earlier ones.  *)
LEMMA EncryptKeepsPair ==
  ASSUME TypeOK, PairInv, NEW p \in Party, Encrypt(p)
  PROVE  PairInv'
<1> DEFINE r == ratchet[p]
           q == Peer(p)
           peer == ratchet[q]
           n == Chain(r)
           fresh == FreshKey(p)
           s == Encrypted(r, fresh)
           m == EncryptedMessage(r, fresh, encrypted[p])
<1>1. /\ r \in RatchetType /\ WithinBounds(r) /\ n \in Nat
      /\ InTurn(r, p)
      /\ n <= Chain(peer) + (IF Turn(n) = p THEN 1 ELSE 0)
      /\ generated[p] = Pairs(n, p)
      /\ Behind(r, peer)
      /\ encrypted[p] \in Nat
  BY PairOf
<1>2. /\ q \in Party /\ q # p /\ Peer(q) = p
      /\ \A x \in Party : x = p \/ x = q
  BY Peers
<1>3. /\ peer \in RatchetType /\ Chain(peer) \in Nat
      /\ InTurn(peer, q)
      /\ Chain(peer) <= n + (IF Turn(Chain(peer)) = q THEN 1 ELSE 0)
      /\ generated[q] = Pairs(Chain(peer), q)
      /\ Behind(peer, r)
  BY <1>2, PairOf
<1>4. r.sender_chain # << >> <=> Turn(n) = p
  BY <1>1 DEF InTurn, Senders
<1>5. /\ fresh \in RatchetKey
      /\ r.sender_chain = << >> => fresh = KeyOf(n + 1)
  <2>1. generated[p] \in Nat
    BY DEF TypeOK
  <2>. QED
    <3>1. fresh = << p, generated[p] + 1 >>
      BY DEF FreshKey
    <3>2. fresh \in RatchetKey
      BY <2>1, <3>1 DEF RatchetKey
    <3>3. Turn(n) # p => << p, Pairs(n, p) + 1 >> = KeyOf(n + 1)
      BY <1>1, PairsOfTurns
    <3>. QED
      BY <1>1, <1>4, <3>1, <3>2, <3>3
<1>6. /\ ratchet' = [ratchet EXCEPT ![p] = s]
      /\ generated' = [generated EXCEPT ![p] = IF NeedsRandom(r) THEN @ + 1 ELSE @]
      /\ encrypted' = [encrypted EXCEPT ![p] = @ + 1]
      /\ sent' = sent \cup {m}
      /\ delivered' = delivered
  BY DEF Encrypt, NextMessage
<1>. HIDE DEF fresh, s, m
<1>7. /\ s \in RatchetType
      /\ s.receiver_chains = r.receiver_chains
      /\ s.skipped_message_keys = r.skipped_message_keys
  BY <1>1, <1>5, Channel_EncryptedProperties DEF s
<1>8. /\ InTurn(s, p)
      /\ s.sender_chain # << >>
      /\ Chain(s) = IF r.sender_chain = << >> THEN n + 1 ELSE n
      /\ Turn(Chain(s)) = p
      /\ OfChain(m.ratchet_key, m.key.key)
      /\ Owner(m.ratchet_key) = p
      /\ Len(m.key.key) = Chain(s)
      /\ m.counter = IF r.sender_chain = << >> THEN 0 ELSE NextIndex(r)
      /\ m.counter \in Nat
      /\ m.key.index = m.counter
      /\ NextIndex(s) = m.counter + 1
      /\ m.plaintext = encrypted[p]
  BY <1>1, <1>5, <1>7, EncryptedInTurn DEF s, m
<1>9. /\ ratchet'[p] = s /\ ratchet'[q] = peer
      /\ generated'[p] = (IF r.sender_chain = << >> THEN generated[p] + 1 ELSE generated[p])
      /\ generated'[q] = generated[q]
      /\ encrypted'[p] = encrypted[p] + 1 /\ encrypted'[q] = encrypted[q]
  BY <1>2, <1>6 DEF TypeOK, NeedsRandom
<1>. HIDE DEF r, q, peer
<1>10. (\A x \in Party : InTurn(ratchet[x], x))'
  BY <1>2, <1>3, <1>8, <1>9
<1>11. InStep'
  <2>1. Chain(s) <= Chain(peer) + (IF Turn(Chain(s)) = p THEN 1 ELSE 0)
    BY <1>1, <1>3, <1>4, <1>8
  <2>2. Chain(peer) <= Chain(s) + (IF Turn(Chain(peer)) = q THEN 1 ELSE 0)
    BY <1>1, <1>3, <1>8
  <2>. QED
    BY <1>2, <1>9, <2>1, <2>2 DEF InStep, q
<1>12. Generated'
  <2>1. Pairs(Chain(s), p) = IF r.sender_chain = << >> THEN Pairs(n, p) + 1 ELSE Pairs(n, p)
    BY <1>1, <1>4, <1>8, PairsOfTurns
  <2>. QED
    BY <1>1, <1>2, <1>3, <1>9, <2>1 DEF Generated
(* The new message is past all that were sent. *)
<1>13. ASSUME NEW d \in sent, Owner(d.ratchet_key) = p
       PROVE  /\ Past(s, d)
              /\ d.key # m.key
              /\ d.plaintext < encrypted[p]
  <2>1. /\ Len(d.key.key) \in Nat
        /\ Past(r, d)
        /\ d.plaintext < encrypted[p]
        /\ d.counter \in Nat /\ d.key.index = d.counter
    BY <1>13, SentOf DEF r
  <2>2. r.sender_chain # << >> => NextIndex(r) \in Nat
    BY <1>1, Stored
  <2>3. Len(d.key.key) = Chain(s) => r.sender_chain # << >> /\ d.counter < NextIndex(r)
    BY <1>1, <1>8, <2>1 DEF Past
  <2>4. Past(s, d)
    BY <1>1, <1>8, <2>1, <2>2, <2>3 DEF Past
  <2>5. d.key # m.key
    BY <1>8, <2>1, <2>2, <2>3
  <2>. QED
    BY <2>1, <2>4, <2>5
<1>14. ASSUME NEW d \in sent
       PROVE  /\ d.key # m.key
              /\ Abstract(d) # Abstract(m)
  <2>1. CASE Owner(d.ratchet_key) = p
    <3>1. d.plaintext \in Nat /\ d.plaintext < encrypted[p] /\ d.key # m.key
      BY <1>13, <2>1, SentOf
    <3>. QED
      BY <1>1, <1>8, <3>1 DEF Abstract
  <2>2. CASE Owner(d.ratchet_key) # p
    <3>1. Owner(d.ratchet_key) = Turn(Len(d.key.key))
      BY SentOf
    <3>. QED
      BY <1>8, <2>2, <3>1 DEF Abstract
  <2>. QED
    BY <2>1, <2>2
<1>15. SentInTurn'
  <2>1. ASSUME NEW d \in sent
        PROVE  /\ OfChain(d.ratchet_key, d.key.key)
               /\ d.key.index = d.counter
               /\ Past(ratchet'[Owner(d.ratchet_key)], d)
               /\ d.plaintext < encrypted'[Owner(d.ratchet_key)]
    <3>1. /\ Owner(d.ratchet_key) \in Party
          /\ Past(ratchet[Owner(d.ratchet_key)], d)
          /\ OfChain(d.ratchet_key, d.key.key)
          /\ d.key.index = d.counter
          /\ d.plaintext \in Nat
          /\ d.plaintext < encrypted[Owner(d.ratchet_key)]
      BY SentOf
    <3>2. CASE Owner(d.ratchet_key) = p
      <4>1. d.plaintext < encrypted[p] + 1
        BY <1>1, <3>1, <3>2
      <4>. QED
        BY <1>9, <1>13, <3>1, <3>2, <4>1
    <3>3. CASE Owner(d.ratchet_key) = q
      BY <1>9, <3>1, <3>3 DEF peer
    <3>. QED
      BY <1>2, <3>1, <3>2, <3>3
  <2>2. /\ Past(s, m)
        /\ m.plaintext < encrypted'[p]
    BY <1>1, <1>8, <1>9 DEF Past
  <2>. QED
    BY <1>6, <1>8, <1>9, <2>1, <2>2 DEF SentInTurn
<1>16. Different'
  <2>1. Different
    BY DEF PairInv
  <2>2. ASSUME NEW d1 \in sent \cup {m}, NEW d2 \in sent \cup {m},
               d1.key = d2.key \/ Abstract(d1) = Abstract(d2)
        PROVE  d1 = d2
    BY <1>14, <2>1, <2>2 DEF Different
  <2>. QED
    BY <1>6, <2>2 DEF Different, Abstract, Owner
<1>17. NotAhead'
  <2>1. Behind(s, peer)
    BY <1>1, <1>7 DEF Behind
  <2>2. Behind(peer, s)
    <3>1. CASE r.sender_chain # << >>
      <4>1. NextIndex(r) \in Nat /\ NextIndex(s) = NextIndex(r) + 1 /\ Chain(s) = n
        BY <1>1, <1>8, <3>1, Stored
      <4>2. ASSUME NEW i \in 1..Len(peer.receiver_chains),
                   Len(peer.receiver_chains[i].chain_key.key) = n
            PROVE  peer.receiver_chains[i].chain_key.index <= NextIndex(r) + 1
        <5>1. peer.receiver_chains[i].chain_key.index <= NextIndex(r)
          BY <1>3, <4>2 DEF Behind
        <5>2. peer.receiver_chains[i].chain_key.index \in Nat
          BY <1>3, Stored
        <5>. QED
          BY <4>1, <5>1, <5>2
      <4>. QED
        BY <4>1, <4>2 DEF Behind
    <3>2. CASE r.sender_chain = << >>
      <4>1. Chain(s) = n + 1 /\ Turn(n + 1) = p
        BY <1>8, <3>2
      <4>2. Chain(peer) <= n
        BY <1>1, <1>2, <1>3, <4>1
      <4>3. \A i \in 1..Len(peer.receiver_chains) :
              /\ Len(peer.receiver_chains[i].chain_key.key) \in Nat
              /\ Len(peer.receiver_chains[i].chain_key.key) <= Chain(peer)
        BY <1>3, Stored DEF InTurn, Receivers
      <4>4. \A i \in 1..Len(peer.receiver_chains) :
              Len(peer.receiver_chains[i].chain_key.key) # Chain(s)
        BY <1>1, <1>3, <4>1, <4>2, <4>3, SMTT(30)
      <4>. QED
        BY <4>4 DEF Behind
    <3>. QED
      BY <3>1, <3>2
  <2>. QED
    BY <1>2, <1>9, <2>1, <2>2 DEF NotAhead, q
<1>18. Authentic'
  <2>1. \A x \in Party : delivered[x] \subseteq SentBy(Peer(x))
    BY DEF PairInv, Authentic
  <2>2. \A x : SentBy(x) \subseteq SentBy(x)'
    BY <1>6 DEF SentBy
  <2>. QED
    BY <1>6, <2>1, <2>2 DEF Authentic
<1>. QED
  BY <1>10, <1>11, <1>12, <1>15, <1>16, <1>17, <1>18 DEF PairInv

(* A call that fails, and a step that is none, keep the ends together. *)
LEMMA FailureKeepsPair ==
  ASSUME TypeOK, PairInv, NEW p \in Party, NEW error,
         ratchet' = [ratchet EXCEPT ![p] = Failed(@, error)],
         UNCHANGED << generated, encrypted, sent, delivered >>
  PROVE  PairInv'
<1>1. \A x \in Party : /\ ratchet'[x].root_key = ratchet[x].root_key
                       /\ ratchet'[x].sender_chain = ratchet[x].sender_chain
                       /\ ratchet'[x].receiver_chains = ratchet[x].receiver_chains
                       /\ ratchet'[x].skipped_message_keys = ratchet[x].skipped_message_keys
  <2>1. /\ ratchet'[p] = Failed(ratchet[p], error)
        /\ \A x \in Party : x # p => ratchet'[x] = ratchet[x]
        /\ ratchet[p] \in RatchetType
    BY DEF TypeOK
  <2>. QED
    BY <2>1 DEF Failed, RatchetType
<1>2. \A x \in Party : /\ Chain(ratchet'[x]) = Chain(ratchet[x])
                       /\ NextIndex(ratchet'[x]) = NextIndex(ratchet[x])
  BY <1>1 DEF Chain, NextIndex
<1>3. \A x \in Party : Peer(x) \in Party
  BY Peers
<1>4. (\A x \in Party : InTurn(ratchet[x], x))'
  <2>1. ASSUME NEW x \in Party
        PROVE  InTurn(ratchet'[x], x)
    <3>1. InTurn(ratchet[x], x)
      BY DEF PairInv
    <3>. QED
      BY <1>1, <1>2, <3>1 DEF InTurn, Senders, Receivers, Newest, Skipped
  <2>. QED
    BY <2>1
<1>5. InStep' /\ Generated'
  BY <1>2, <1>3 DEF PairInv, InStep, Generated
<1>6. SentInTurn'
  <2>1. \A m \in sent : /\ Owner(m.ratchet_key) \in Party
                        /\ Past(ratchet[Owner(m.ratchet_key)], m)
    BY SentOf
  <2>2. \A m \in sent : Past(ratchet'[Owner(m.ratchet_key)], m)
    BY <1>1, <1>2, <2>1 DEF Past
  <2>. QED
    BY <2>2 DEF PairInv, SentInTurn
<1>7. Different' /\ Authentic'
  BY DEF PairInv, Different, Authentic, SentBy
<1>8. NotAhead'
  BY <1>1, <1>2, <1>3 DEF PairInv, NotAhead, Behind
<1>. QED
  BY <1>4, <1>5, <1>6, <1>7, <1>8 DEF PairInv

LEMMA StepKeepsPair ==
  ASSUME TypeOK, PairInv, [Next]_vars
  PROVE  PairInv'
<1>1. CASE Next
  <2>1. PICK p \in Party :
          \/ Encrypt(p)
          \/ \E error \in Error : EncryptFails(p, error) \/ DecryptUnreadable(p, error)
          \/ \E m \in Arriving : Decrypt(p, m)
    BY <1>1 DEF Next
  <2>2. CASE Encrypt(p)
    BY <2>2, EncryptKeepsPair
  <2>3. CASE \E error \in Error : EncryptFails(p, error) \/ DecryptUnreadable(p, error)
    BY <2>3, FailureKeepsPair DEF EncryptFails, DecryptUnreadable
  <2>4. CASE \E m \in Arriving : Decrypt(p, m)
    <3>1. PICK m \in Arriving : Decrypt(p, m)
      BY <2>4
    <3>2. CASE DecryptNewChain(p, m)
      BY <3>2, DecryptKeepsPair DEF DecryptNewChain, DecryptedTo
    <3>3. CASE DecryptExistingChain(p, m)
      BY <3>3, DecryptKeepsPair DEF DecryptExistingChain, DecryptedTo
    <3>4. CASE DecryptSkipped(p, m)
      BY <3>4, DecryptKeepsPair DEF DecryptSkipped, DecryptedTo
    <3>5. CASE DecryptRejected(p, m)
      BY <3>5, FailureKeepsPair DEF DecryptRejected
    <3>. QED
      BY <3>1, <3>2, <3>3, <3>4, <3>5 DEF Decrypt
  <2>. QED
    BY <2>1, <2>2, <2>3, <2>4
<1>2. CASE UNCHANGED vars
  <2>1. /\ ratchet' = ratchet /\ generated' = generated /\ encrypted' = encrypted
        /\ sent' = sent /\ delivered' = delivered
    BY <1>2 DEF vars
  <2>. QED
    BY <2>1 DEF PairInv, InTurn, Senders, Receivers, Newest, Skipped, InStep, Generated,
                SentInTurn, Past, Different, NotAhead, Behind, Authentic, SentBy
<1>. QED
  BY <1>1, <1>2

(* Alice starts, with chain 0. *)
LEMMA InitKeepsPair ==
  ASSUME Init
  PROVE  PairInv
<1> DEFINE key == <<Alice, 1>>
           chain == [ratchet_key |-> key, chain_key |-> [key |-> << >>, index |-> 0]]
           a == initialise_as_alice(<< >>, key)
           b == initialise_as_bob(<< >>, key)
<1>1. /\ a = [root_key |-> << >>, sender_chain |-> << chain >>, receiver_chains |-> << >>,
              skipped_message_keys |-> << >>, last_error |-> "SUCCESS"]
      /\ b = [root_key |-> << >>, sender_chain |-> << >>, receiver_chains |-> << chain >>,
              skipped_message_keys |-> << >>, last_error |-> "SUCCESS"]
  BY DEF initialise_as_alice, initialise_as_bob
<1>2. /\ Alice # Bob /\ Alice \in Party /\ Bob \in Party
      /\ Peer(Alice) = Bob /\ Peer(Bob) = Alice
      /\ \A p \in Party : p = Alice \/ p = Bob
  BY ChannelConstants DEF Party, Peer
<1>3. /\ ratchet[Alice] = a /\ ratchet[Bob] = b
      /\ generated[Alice] = 1 /\ generated[Bob] = 0
      /\ sent = {} /\ delivered = [p \in Party |-> {}]
  BY <1>2 DEF Init
<1>4. /\ Len(<< >>) = 0
      /\ 0 % 2 = 0 /\ 0 \div 2 = 0 /\ (0 + 1) \div 2 = 0
  OBVIOUS
<1>5. /\ Turn(0) = Alice /\ KeyOf(0) = key
      /\ Pairs(0, Alice) = 1 /\ Pairs(0, Bob) = 0
  BY <1>2, <1>4 DEF Turn, KeyOf, Pairs
<1>6. RootOf(0) = << >>
  BY DEF RootOf
<1>7. << chain >>[1] = chain /\ Len(<< chain >>) = 1 /\ << chain >> # << >>
  OBVIOUS
<1>. HIDE DEF a, b
<1>8. /\ Chain(a) = 0 /\ Chain(b) = 0
      /\ a.receiver_chains = << >> /\ b.receiver_chains = << chain >>
      /\ a.sender_chain = << chain >> /\ b.sender_chain = << >>
      /\ a.skipped_message_keys = << >> /\ b.skipped_message_keys = << >>
      /\ a.root_key = << >> /\ b.root_key = << >>
  BY <1>1, <1>4 DEF Chain
<1>9. chain.ratchet_key = key /\ chain.chain_key.key = << >> /\ chain.chain_key.index = 0
  OBVIOUS
<1>. HIDE DEF chain
<1>10. InTurn(a, Alice)
  <2>1. Senders(a, Alice)
    BY <1>5, <1>7, <1>8, <1>9 DEF Senders
  <2>2. Receivers(a, Alice) /\ Newest(a, Alice) /\ Skipped(a, Alice)
    BY <1>4, <1>5, <1>8 DEF Receivers, Newest, Skipped
  <2>. QED
    BY <1>6, <1>8, <2>1, <2>2 DEF InTurn
<1>11. InTurn(b, Bob)
  <2>1. Senders(b, Bob)
    BY <1>2, <1>5, <1>8 DEF Senders
  <2>2. Receivers(b, Bob) /\ Newest(b, Bob) /\ Skipped(b, Bob)
    BY <1>2, <1>4, <1>5, <1>6, <1>7, <1>8, <1>9 DEF Receivers, Newest, Skipped, OfChain
  <2>. QED
    BY <1>6, <1>8, <2>1, <2>2 DEF InTurn
<1>12. InStep /\ Generated
  BY <1>2, <1>3, <1>5, <1>8 DEF InStep, Generated
<1>13. NotAhead
  <2>1. Behind(a, b)
    BY <1>4, <1>8 DEF Behind
  <2>2. Behind(b, a)
    BY <1>4, <1>7, <1>8, <1>9 DEF Behind, NextIndex
  <2>. QED
    BY <1>2, <1>3, <2>1, <2>2 DEF NotAhead
<1>14. SentInTurn /\ Different /\ Authentic
  BY <1>3 DEF SentInTurn, Different, Authentic
<1>. QED
  BY <1>2, <1>3, <1>10, <1>11, <1>12, <1>13, <1>14 DEF PairInv

(* The ends take turns whatever the network does, and everything that they *)
(* store or send is of the chain that its number says.                     *)
THEOREM PairInvariant == Spec => []PairInv
<1>1. Init => PairInv
  BY InitKeepsPair
<1>2. TypeOK /\ PairInv /\ [Next]_vars => PairInv'
  BY StepKeepsPair
<1>. QED
  BY <1>1, <1>2, TypeCorrect, PTL DEF Spec

(* decrypt accepts only what the other end has encrypted: whatever the     *)
(* network damages or reflects, a MAC that verifies is the other end's.    *)
THEOREM AuthenticHolds == Spec => []Authentic
<1>1. PairInv => Authentic
  BY DEF PairInv
<1>. QED
  BY <1>1, PairInvariant, PTL

(* No two messages are encrypted with the same key, by either end.         *)
THEOREM UniqueKeysHolds == Spec => []UniqueKeys
<1>1. PairInv => UniqueKeys
  BY DEF PairInv, Different, UniqueKeys
<1>. QED
  BY <1>1, PairInvariant, PTL

(* The roots of the two ends never drift apart by more than one secret.    *)
THEOREM RootsInStepHolds == Spec => []RootsInStep
<1>1. ASSUME TypeOK, PairInv
      PROVE  RootsInStep
  <2> DEFINE n(p) == Chain(ratchet[p])
  <2>1. Alice \in Party /\ Bob \in Party /\ Peer(Alice) = Bob /\ Peer(Bob) = Alice
    BY ChannelConstants DEF Party, Peer
  <2>2. \A p \in Party : /\ ratchet[p].root_key = RootOf(n(p))
                         /\ n(p) \in Nat
                         /\ n(p) <= n(Peer(p)) + 1
    BY <1>1, PairOf, Peers DEF InTurn
  <2>. HIDE DEF n
  <2>3. ASSUME NEW p \in Party, n(p) = n(Peer(p)) + 1
        PROVE  /\ Len(ratchet[p].root_key) = Len(ratchet[Peer(p)].root_key) + 1
               /\ Front(ratchet[p].root_key) = ratchet[Peer(p)].root_key
    <3> DEFINE k == n(Peer(p))
    <3>1. k \in Nat /\ k + 1 \in Nat
      BY <2>2, Peers
    <3>2. Len(RootOf(k)) = k /\ Len(RootOf(k + 1)) = k + 1
      BY <3>1, Roots
    <3>3. Front(RootOf(k + 1)) = RootOf(k)
      <4>1. RootOf(k + 1) = Append(RootOf(k), {KeyOf(k), KeyOf(k + 1)})
        BY <3>1, Roots
      <4>2. RootOf(k) \in Seq(SUBSET RatchetKey)
        BY <3>1, Roots DEF History
      <4>3. {KeyOf(k), KeyOf(k + 1)} \in SUBSET RatchetKey
        BY <3>1, Turns
      <4>4. \A S, h, e : h \in Seq(S) /\ e \in S => SubSeq(Append(h, e), 1, Len(Append(h, e)) - 1) = h
        BY AppendProperties, SMT
      <4>. QED
        BY <4>1, <4>2, <4>3, <4>4 DEF Front
    <3>. QED
      BY <2>2, <2>3, <3>1, <3>2, <3>3, Peers
  <2>4. n(Alice) = n(Bob) \/ n(Alice) = n(Bob) + 1 \/ n(Bob) = n(Alice) + 1
    BY <2>1, <2>2
  <2>. QED
    BY <2>1, <2>2, <2>3, <2>4 DEF RootsInStep
<1>. QED
  BY <1>1, TypeCorrect, PairInvariant, PTL

(* A ratchet can derive no key of a message it has encrypted or decrypted: *)
(* forward secrecy, as far as the state of the library goes.               *)
THEOREM UsedKeysAreGoneHolds == Spec => []UsedKeysAreGone
<1>1. ASSUME TypeOK, ReplayInv, PairInv, NEW p \in Party, NEW m \in SentBy(p) \cup delivered[p]
      PROVE  ~ Derivable(ratchet[p], m.key)
  <2> DEFINE r == ratchet[p]
             n == Len(m.key.key)
  <2>1. /\ r \in RatchetType /\ WithinBounds(r)
        /\ InTurn(r, p)
        /\ Chain(r) \in Nat
    BY <1>1, PairOf
  <2>2. m \in sent /\ (Owner(m.ratchet_key) = p \/ m \in delivered[p])
    BY <1>1, Peers DEF PairInv, Authentic, SentBy
  <2>3. m \in delivered[p] => Owner(m.ratchet_key) = Peer(p)
    BY <1>1 DEF PairInv, Authentic, SentBy
  <2>4. /\ n \in Nat /\ m.counter \in Nat /\ m.key.index = m.counter
        /\ Owner(m.ratchet_key) = Turn(n)
        /\ Past(ratchet[Owner(m.ratchet_key)], m)
    BY <1>1, <2>2, SentOf
  <2>5. Peer(p) # p
    BY Peers
  <2>6. ~ \E i \in DOMAIN r.sender_chain :
            /\ r.sender_chain[i].chain_key.key = m.key.key
            /\ r.sender_chain[i].chain_key.index <= m.key.index
    <3>1. SUFFICES ASSUME NEW i \in DOMAIN r.sender_chain,
                          r.sender_chain[i].chain_key.key = m.key.key,
                          r.sender_chain[i].chain_key.index <= m.key.index
                   PROVE  FALSE
      OBVIOUS
    <3>2. i = 1 /\ r.sender_chain # << >>
      BY <2>1, <3>1 DEF WithinBounds, RatchetType
    <3>3. /\ Turn(Chain(r)) = p /\ n = Chain(r)
          /\ NextIndex(r) \in Nat /\ NextIndex(r) <= m.counter
      <4>1. r.sender_chain[1].chain_key.key = r.root_key /\ Turn(Chain(r)) = p
        BY <2>1, <3>2 DEF InTurn, Senders
      <4>2. NextIndex(r) \in Nat
        BY <2>1, <3>2, Stored
      <4>3. n = Chain(r)
        BY <3>1, <3>2, <4>1 DEF Chain
      <4>. QED
        BY <2>4, <3>1, <3>2, <4>1, <4>2, <4>3 DEF NextIndex
    <3>4. Owner(m.ratchet_key) = p
      BY <2>4, <3>3
    <3>. QED
      BY <2>4, <3>3, <3>4 DEF Past
  <2>7. ~ \E i \in DOMAIN r.receiver_chains :
            /\ r.receiver_chains[i].chain_key.key = m.key.key
            /\ r.receiver_chains[i].chain_key.index <= m.key.index
    <3>1. SUFFICES ASSUME NEW i \in DOMAIN r.receiver_chains,
                          r.receiver_chains[i].chain_key.key = m.key.key,
                          r.receiver_chains[i].chain_key.index <= m.key.index
                   PROVE  FALSE
      OBVIOUS
    <3>2. i \in 1..Len(r.receiver_chains)
      BY <2>1 DEF RatchetType
    <3>3. Turn(n) = Peer(p) /\ r.receiver_chains[i].chain_key.index \in Nat
      BY <2>1, <3>1, <3>2, Stored DEF InTurn, Receivers
    <3>4. m \in delivered[p]
      BY <2>2, <2>4, <2>5, <3>3
    <3>5. m.key.index < r.receiver_chains[i].chain_key.index
      BY <1>1, <3>1, <3>4 DEF ReplayInv, ReplaySafe, ChainsArePast
    <3>. QED
      BY <2>4, <3>1, <3>3, <3>5
  <2>8. ~ \E i \in DOMAIN r.skipped_message_keys : r.skipped_message_keys[i].message_key = m.key
    <3>1. SUFFICES ASSUME NEW i \in DOMAIN r.skipped_message_keys,
                          r.skipped_message_keys[i].message_key = m.key
                   PROVE  FALSE
      OBVIOUS
    <3>2. i \in 1..Len(r.skipped_message_keys)
      BY <2>1 DEF RatchetType
    <3>3. Turn(n) = Peer(p)
      BY <2>1, <3>1, <3>2 DEF InTurn, Skipped
    <3>4. m \in delivered[p]
      BY <2>2, <2>4, <2>5, <3>3
    <3>. QED
      BY <1>1, <3>1, <3>4 DEF ReplayInv, ReplaySafe, UsedNotSkipped
  <2>. QED
    BY <2>6, <2>7, <2>8 DEF Derivable
<1>2. TypeOK /\ ReplayInv /\ PairInv => UsedKeysAreGone
  BY <1>1 DEF UsedKeysAreGone
<1>. QED
  BY <1>2, TypeCorrect, ReplayInvariant, PairInvariant, PTL

(***************************************************************************)
(* The ends never wedge.                                                   *)
(***************************************************************************)
(* What p would send now. *)
LEMMA NextInTurn ==
  ASSUME TypeOK, PairInv, NEW p \in Party,
         NEW m, m = NextMessage(p),
         NEW k, k = IF ratchet[p].sender_chain = << >> THEN Chain(ratchet[p]) + 1
                    ELSE Chain(ratchet[p])
  PROVE  /\ m \in Message
         /\ k \in Nat /\ Turn(k) = p
         /\ m.ratchet_key = KeyOf(k)
         /\ m.counter \in Nat
         /\ m.counter = IF ratchet[p].sender_chain = << >> THEN 0 ELSE NextIndex(ratchet[p])
         /\ m.key = [key |-> RootOf(k), index |-> m.counter]
<1> DEFINE r == ratchet[p]
           n == Chain(r)
           fresh == FreshKey(p)
           s == Encrypted(r, fresh)
<1>1. /\ r \in RatchetType /\ WithinBounds(r) /\ n \in Nat
      /\ InTurn(r, p)
      /\ generated[p] = Pairs(n, p)
      /\ encrypted[p] \in Nat
  BY PairOf
<1>2. r.sender_chain # << >> <=> Turn(n) = p
  BY <1>1 DEF InTurn, Senders
<1>3. /\ fresh \in RatchetKey
      /\ r.sender_chain = << >> => fresh = KeyOf(n + 1)
  <2>1. generated[p] \in Nat
    BY DEF TypeOK
  <2>2. fresh = << p, generated[p] + 1 >>
    BY DEF FreshKey
  <2>3. fresh \in RatchetKey
    BY <2>1, <2>2 DEF RatchetKey
  <2>4. Turn(n) # p => << p, Pairs(n, p) + 1 >> = KeyOf(n + 1)
    BY <1>1, PairsOfTurns
  <2>. QED
    BY <1>1, <1>2, <2>2, <2>3, <2>4
<1>4. m = EncryptedMessage(r, fresh, encrypted[p])
  BY DEF NextMessage
<1>. HIDE DEF r, fresh, s
<1>5. /\ s \in RatchetType
      /\ s.receiver_chains = r.receiver_chains
      /\ s.skipped_message_keys = r.skipped_message_keys
      /\ m \in Message
  BY <1>1, <1>3, <1>4, Channel_EncryptedProperties DEF s
<1>6. /\ Chain(s) = IF r.sender_chain = << >> THEN n + 1 ELSE n
      /\ Turn(Chain(s)) = p
      /\ OfChain(m.ratchet_key, m.key.key)
      /\ Len(m.key.key) = Chain(s)
      /\ m.counter = IF r.sender_chain = << >> THEN 0 ELSE NextIndex(r)
      /\ m.counter \in Nat
      /\ m.key.index = m.counter
  BY <1>1, <1>3, <1>4, <1>5, EncryptedInTurn DEF s
<1>7. k = Chain(s) /\ k \in Nat
  BY <1>1, <1>6 DEF r
<1>8. m.key \in ChainKey
  BY <1>5 DEF Message, MessageKey
<1>9. m.key = [key |-> RootOf(k), index |-> m.counter]
  BY <1>6, <1>7, <1>8 DEF ChainKey, OfChain
<1>. QED
  BY <1>5, <1>6, <1>7, <1>9 DEF OfChain, r

(* The message that p sends next is on the newest chain that its peer has, *)
(* or on the one after the peer's own.                                     *)
LEMMA NextChain ==
  ASSUME TypeOK, PairInv, NEW p \in Party,
         NEW k, k = IF ratchet[p].sender_chain = << >> THEN Chain(ratchet[p]) + 1
                    ELSE Chain(ratchet[p]),
         NEW r, r = ratchet[Peer(p)]
  PROVE  /\ k \in Nat /\ Chain(r) \in Nat
         /\ \/ Turn(Chain(r)) = p /\ Chain(r) = k
            \/ Turn(Chain(r)) = Peer(p) /\ Chain(r) = k + 1
            \/ Turn(Chain(r)) = Peer(p) /\ Chain(r) = k - 1
         /\ Chain(r) >= k => ratchet[p].sender_chain # << >>
<1> DEFINE s == ratchet[p]
           n == Chain(s)
           c == Chain(r)
           q == Peer(p)
<1>1. /\ n \in Nat /\ InTurn(s, p)
      /\ n <= c + (IF Turn(n) = p THEN 1 ELSE 0)
  BY PairOf
<1>2. q \in Party /\ q # p /\ Peer(q) = p
  BY Peers
<1>3. /\ c \in Nat
      /\ c <= n + (IF Turn(c) = q THEN 1 ELSE 0)
  BY <1>2, PairOf
<1>4. s.sender_chain # << >> <=> Turn(n) = p
  BY <1>1 DEF InTurn, Senders
<1>. HIDE DEF s, c, q
<1>5. CASE Turn(n) = p
  <2>1. k = n /\ s.sender_chain # << >>
    BY <1>4, <1>5 DEF s
  <2>2. CASE Turn(c) = p
    <3>1. c <= n /\ n <= c + 1
      BY <1>1, <1>2, <1>3, <1>5, <2>2
    <3>2. n # c + 1
      BY <1>2, <1>3, <1>5, <2>2, Turns DEF q
    <3>. QED
      BY <1>1, <1>3, <2>1, <2>2, <3>1, <3>2 DEF s, c
  <2>3. CASE Turn(c) = q
    <3>1. c <= n + 1 /\ n <= c + 1
      BY <1>1, <1>3, <1>5, <2>3
    <3>2. c # n
      BY <1>2, <1>5, <2>3
    <3>. QED
      BY <1>1, <1>3, <2>1, <2>3, <3>1, <3>2 DEF s, c, q
  <2>. QED
    BY <1>3, <2>2, <2>3, OtherTurn DEF q
<1>6. CASE Turn(n) # p
  <2>1. k = n + 1 /\ Turn(n) = q /\ n <= c
    BY <1>1, <1>3, <1>4, <1>6, OtherTurn DEF s, q
  <2>2. CASE Turn(c) = p
    <3>1. c = n
      BY <1>1, <1>2, <1>3, <2>1, <2>2
    <3>. QED
      BY <1>6, <2>2, <3>1
  <2>3. CASE Turn(c) = q
    <3>1. c # n + 1
      BY <1>1, <1>2, <2>1, <2>3, Turns DEF q
    <3>2. c = n
      BY <1>1, <1>3, <2>1, <2>3, <3>1
    <3>. QED
      BY <1>1, <1>3, <2>1, <2>3, <3>2 DEF c, q
  <2>. QED
    BY <1>3, <2>2, <2>3, OtherTurn DEF q
<1>. QED
  BY <1>5, <1>6

(* Whatever was lost, reordered or rejected, what an end encrypts next is  *)
(* a message that the other end decrypts, within the gap.                  *)
THEOREM NeverWedgedHolds == Spec => []NeverWedged
<1>1. ASSUME TypeOK, PairInv, NEW p \in Party,
             Gap(Peer(p), NextMessage(p)) <= MAX_MESSAGE_GAP
      PROVE  CanDecrypt(ratchet[Peer(p)], NextMessage(p))
  <2> DEFINE q == Peer(p)
             r == ratchet[q]
             m == NextMessage(p)
             c == Chain(r)
             k == IF ratchet[p].sender_chain = << >> THEN Chain(ratchet[p]) + 1
                  ELSE Chain(ratchet[p])
  <2>1. /\ m \in Message
        /\ k \in Nat /\ Turn(k) = p
        /\ m.ratchet_key = KeyOf(k)
        /\ m.counter \in Nat
        /\ m.counter = IF ratchet[p].sender_chain = << >> THEN 0 ELSE NextIndex(ratchet[p])
        /\ m.key = [key |-> RootOf(k), index |-> m.counter]
    <3>. HIDE DEF m, k
    <3>1. m = NextMessage(p)
      BY DEF m
    <3>2. k = IF ratchet[p].sender_chain = << >> THEN Chain(ratchet[p]) + 1
              ELSE Chain(ratchet[p])
      BY DEF k
    <3>. QED
      BY <1>1, <3>1, <3>2, NextInTurn
  <2>2. /\ c \in Nat
        /\ \/ Turn(c) = p /\ c = k
           \/ Turn(c) = q /\ c = k + 1
           \/ Turn(c) = q /\ c = k - 1
        /\ c >= k => ratchet[p].sender_chain # << >>
    BY <1>1, NextChain
  <2>3. q \in Party /\ q # p /\ Peer(q) = p
    BY Peers
  <2>4. /\ r \in RatchetType /\ WithinBounds(r)
        /\ InTurn(r, q)
        /\ Behind(r, ratchet[p])
    BY <1>1, <2>3, PairOf
  <2>5. c >= k => k = Chain(ratchet[p])
    BY <2>2
  <2>6. Gap(q, m) <= MAX_MESSAGE_GAP
    BY <1>1
  <2>. HIDE DEF m, k, q
  <2>7. CASE HasReceiverChain(r, m)
    <3> DEFINE i == ReceiverChain(r, m)
               chain_key == r.receiver_chains[i].chain_key
    <3>1. i \in 1..Len(r.receiver_chains) /\ r.receiver_chains[i].ratchet_key = KeyOf(k)
      BY <2>1, <2>4, <2>7, Channel_ReceiverChainInDomain
    <3>. HIDE DEF i
    <3>2. chain_key \in ChainKey /\ chain_key.index \in Nat /\ Len(chain_key.key) \in Nat
      BY <2>4, <3>1, Stored
    <3>3. /\ KeyOf(k) = KeyOf(Len(chain_key.key))
          /\ chain_key.key = RootOf(Len(chain_key.key))
          /\ Len(chain_key.key) <= c
      BY <2>4, <3>1 DEF InTurn, Receivers, OfChain
    <3>4. Len(chain_key.key) = k
      BY <2>1, <3>2, <3>3, KeysDiffer
    <3>5. chain_key.index <= NextIndex(ratchet[p]) /\ ratchet[p].sender_chain # << >>
      BY <2>2, <2>4, <2>5, <3>1, <3>3, <3>4 DEF Behind
    <3>6. chain_key.index <= m.counter
      BY <2>1, <3>5
    <3>7. m.counter - chain_key.index <= MAX_MESSAGE_GAP
      BY <2>6, <2>7 DEF Gap, i, r
    <3>8. AdvancedTo(chain_key, m.counter) = m.key
      <4>1. AdvancedTo(chain_key, m.counter) = [key |-> chain_key.key, index |-> m.counter]
        <5>. HIDE DEF chain_key
        <5>. QED
          BY <2>1, <3>2, Channel_ChainKeySteps
      <4>. QED
        BY <2>1, <3>3, <3>4, <4>1
    <3>9. VerifiesOnExistingChain(r, m)
      BY <2>1, <2>7, <3>2, <3>6, <3>7, <3>8
         DEF VerifiesOnExistingChain, VerifiesOnChain, create_message_keys, i
    <3>. QED
      BY <3>9 DEF CanDecrypt, m, q
  <2>8. CASE ~ HasReceiverChain(r, m)
    <3>1. Turn(c) = q /\ c = k - 1
      <4>1. SUFFICES ASSUME ~ (Turn(c) = q /\ c = k - 1)
                     PROVE  FALSE
        OBVIOUS
      <4>2. /\ 1 <= Len(r.receiver_chains)
            /\ Len(r.receiver_chains[1].chain_key.key) = k
        BY <2>1, <2>2, <2>3, <2>4, <4>1, SMTT(30) DEF InTurn, Newest
      <4>3. 1 \in 1..Len(r.receiver_chains)
        BY <2>4, <4>2, Stored
      <4>4. r.receiver_chains[1].ratchet_key = KeyOf(k)
        BY <2>4, <4>2, <4>3 DEF InTurn, Receivers, OfChain
      <4>5. 1 \in DOMAIN r.receiver_chains
        BY <2>4, <4>3 DEF RatchetType
      <4>. QED
        BY <2>1, <2>8, <4>4, <4>5 DEF HasReceiverChain, ChainsFor
    <3>2. /\ r.sender_chain # << >>
          /\ r.sender_chain[1].ratchet_key = KeyOf(c)
          /\ r.root_key = RootOf(c)
      BY <2>4, <3>1 DEF InTurn, Senders
    <3>3. Append(RootOf(c), {KeyOf(c), KeyOf(k)}) = RootOf(k)
      <4>1. c + 1 = k
        BY <2>1, <2>2, <3>1
      <4>. QED
        BY <2>2, <4>1, Roots
    <3>4. NewChain(r, m).chain_key = [key |-> RootOf(k), index |-> 0]
      BY <2>1, <3>2, <3>3 DEF NewChain, create_chain_key, SharedSecret
    <3>5. m.counter <= MAX_MESSAGE_GAP
      BY <2>1, <2>6, <2>8 DEF Gap, r
    <3>6. AdvancedTo([key |-> RootOf(k), index |-> 0], m.counter) = m.key
      BY <2>1 DEF AdvancedTo
    <3>7. VerifiesOnNewChain(r, m)
      BY <2>1, <2>8, <3>2, <3>4, <3>5, <3>6
         DEF VerifiesOnNewChain, VerifiesOnChain, create_message_keys
    <3>. QED
      BY <3>7 DEF CanDecrypt, m, q
  <2>. QED
    BY <2>7, <2>8
<1>2. TypeOK /\ PairInv => NeverWedged
  BY <1>1 DEF NeverWedged
<1>. QED
  BY <1>2, TypeCorrect, PairInvariant, PTL

(***************************************************************************)
(* The two ratchets implement SecureChannel.                               *)
(***************************************************************************)
(* p encrypts at most so many messages on each of its chains. *)
LEMMA EncryptKeepsCount ==
  ASSUME TypeOK, PairInv, CountInv, NEW p \in Party, Encrypt(p)
  PROVE  /\ CountInv'
         /\ \A c \in Nat : (\A m \in sent' : m.counter < c) => encrypted'[p] <= generated'[p] * c
<1> DEFINE r == ratchet[p]
           s == Encrypted(r, FreshKey(p))
           m == NextMessage(p)
           g == generated[p]
           e == encrypted[p]
<1>1. /\ r \in RatchetType /\ WithinBounds(r) /\ InTurn(r, p)
      /\ e \in Nat /\ g \in Nat
      /\ r.sender_chain # << >> => NextIndex(r) \in Nat
  BY PairOf, Stored DEF TypeOK
<1>2. /\ ratchet' = [ratchet EXCEPT ![p] = s]
      /\ generated' = [generated EXCEPT ![p] = IF NeedsRandom(r) THEN @ + 1 ELSE @]
      /\ encrypted' = [encrypted EXCEPT ![p] = @ + 1]
      /\ sent' = sent \cup {m}
  BY DEF Encrypt
<1>3. /\ s.sender_chain # << >>
      /\ NextIndex(s) = m.counter + 1
      /\ m.counter \in Nat
      /\ m.counter = IF r.sender_chain = << >> THEN 0 ELSE NextIndex(r)
  <2>1. m.counter \in Nat /\ m.counter = IF r.sender_chain = << >> THEN 0 ELSE NextIndex(r)
    <3>. HIDE DEF m
    <3>1. m = NextMessage(p)
      BY DEF m
    <3>. QED
      BY <3>1, NextInTurn
  <2>2. FreshKey(p) \in RatchetKey
    BY <1>1 DEF FreshKey, RatchetKey
  <2>3. PICK chain : SentOn(chain, r, FreshKey(p), e, s, m)
    BY <1>1, <2>2, EncryptedChain DEF NextMessage
  <2>. HIDE DEF s, m, r
  <2>. QED
    BY <2>1, <2>3 DEF SentOn, NextIndex
<1>. HIDE DEF s, m
<1>4. /\ ratchet'[p] = s
      /\ generated'[p] = (IF r.sender_chain = << >> THEN g + 1 ELSE g)
      /\ encrypted'[p] = e + 1
      /\ \A q \in Party : q # p => /\ ratchet'[q] = ratchet[q]
                                   /\ generated'[q] = generated[q]
                                   /\ encrypted'[q] = encrypted[q]
  BY <1>2 DEF TypeOK, NeedsRandom
<1>5. ASSUME NEW c \in Nat, \A d \in sent' : d.counter < c
      PROVE  /\ \A q \in Party : encrypted[q] <= Count(q, c)
             /\ m.counter < c
  BY <1>2, <1>5 DEF CountInv, Counted
<1>6. ASSUME NEW c \in Nat, \A d \in sent' : d.counter < c
      PROVE  /\ encrypted'[p] <= (generated'[p] - 1) * c + NextIndex(s)
             /\ encrypted'[p] <= generated'[p] * c
  <2>1. e <= Count(p, c) /\ m.counter < c
    BY <1>5, <1>6
  <2>2. CASE r.sender_chain = << >>
    <3>1. e <= g * c
      BY <2>1, <2>2 DEF Count
    <3>2. e + 1 <= ((g + 1) - 1) * c + 1 /\ e + 1 <= (g + 1) * c
      BY <1>1, <1>3, <2>1, <2>2, <3>1, SMTT(30)
    <3>. QED
      BY <1>3, <1>4, <2>2, <3>2
  <2>3. CASE r.sender_chain # << >>
    <3>1. e <= (g - 1) * c + NextIndex(r)
      BY <2>1, <2>3 DEF Count
    <3>2. /\ e + 1 <= (g - 1) * c + (NextIndex(r) + 1)
          /\ e + 1 <= g * c
      BY <1>1, <1>3, <2>1, <2>3, <3>1, SMTT(30)
    <3>. QED
      BY <1>3, <1>4, <2>3, <3>2
  <2>. QED
    BY <2>2, <2>3
<1>7. Counted'
  <2>1. ASSUME NEW q \in Party, NEW c \in Nat, \A d \in sent' : d.counter < c
        PROVE  encrypted'[q] <= Count(q, c)'
    <3>1. CASE q = p
      BY <1>3, <1>4, <1>6, <2>1, <3>1 DEF Count
    <3>2. CASE q # p
      BY <1>4, <1>5, <2>1, <3>2 DEF Count
    <3>. QED
      BY <3>1, <3>2
  <2>. QED
    BY <2>1 DEF Counted
<1>8. LastSent'
  <2>1. m \in sent' /\ m.counter = NextIndex(s) - 1
    BY <1>2, <1>3
  <2>2. ASSUME NEW q \in Party, q # p,
               ratchet[q].sender_chain # << >> /\ NextIndex(ratchet[q]) > 0
        PROVE  \E d \in sent' : d.counter = NextIndex(ratchet[q]) - 1
    BY <1>2, <2>2 DEF CountInv, LastSent
  <2>. QED
    BY <1>4, <2>1, <2>2 DEF LastSent
<1>. QED
  BY <1>6, <1>7, <1>8 DEF CountInv

(* A step that sends nothing may drop a chain, with what was left of it. *)
LEMMA OthersKeepCount ==
  ASSUME TypeOK, CountInv, NEW p \in Party, NEW s,
         ratchet' = [ratchet EXCEPT ![p] = s],
         s.sender_chain = << >> \/ s.sender_chain = ratchet[p].sender_chain,
         UNCHANGED << generated, encrypted, sent >>
  PROVE  CountInv'
<1>1. /\ ratchet'[p] = s
      /\ \A q \in Party : q # p => ratchet'[q] = ratchet[q]
      /\ generated' = generated /\ encrypted' = encrypted /\ sent' = sent
  BY DEF TypeOK
<1>2. LastSent'
  <2>1. \A q \in Party : ratchet'[q].sender_chain # << >> =>
          ratchet'[q].sender_chain = ratchet[q].sender_chain
    BY <1>1
  <2>. QED
    BY <1>1, <2>1 DEF CountInv, LastSent, NextIndex
<1>3. Counted'
  <2>1. ASSUME NEW q \in Party, NEW c \in Nat, \A m \in sent : m.counter < c
        PROVE  encrypted[q] <= Count(q, c)'
    <3>1. encrypted[q] <= Count(q, c)
      BY <2>1 DEF CountInv, Counted
    <3>2. CASE ratchet'[q].sender_chain = ratchet[q].sender_chain
      BY <1>1, <3>1, <3>2 DEF Count, NextIndex
    <3>3. CASE ratchet'[q].sender_chain = << >> /\ ratchet[q].sender_chain # << >>
      <4>1. NextIndex(ratchet[q]) \in Nat /\ generated[q] \in Nat /\ encrypted[q] \in Nat
        BY <3>3, Stored DEF TypeOK
      <4>2. NextIndex(ratchet[q]) <= c
        <5>1. CASE NextIndex(ratchet[q]) > 0
          <6>1. PICK m \in sent : m.counter = NextIndex(ratchet[q]) - 1
            BY <3>3, <5>1 DEF CountInv, LastSent
          <6>. QED
            BY <2>1, <4>1, <6>1
        <5>2. CASE NextIndex(ratchet[q]) = 0
          BY <5>2
        <5>. QED
          BY <4>1, <5>1, <5>2
      <4>3. encrypted[q] <= (generated[q] - 1) * c + NextIndex(ratchet[q])
        BY <3>1, <3>3 DEF Count
      <4>4. encrypted[q] <= generated[q] * c
        BY <4>1, <4>2, <4>3, SMTT(30)
      <4>. QED
        BY <1>1, <3>3, <4>4 DEF Count
    <3>. QED
      BY <1>1, <3>2, <3>3
  <2>. QED
    BY <1>1, <2>1 DEF Counted
<1>. QED
  BY <1>2, <1>3 DEF CountInv

(* What a call makes of the ratchet of p, if it is not an encrypt. *)
LEMMA OtherCalls ==
  ASSUME TypeOK, PairInv, NEW p \in Party,
         \/ \E error \in Error : EncryptFails(p, error) \/ DecryptUnreadable(p, error)
         \/ \E m \in Arriving : Decrypt(p, m)
  PROVE  \E s : /\ ratchet' = [ratchet EXCEPT ![p] = s]
                /\ s.sender_chain = << >> \/ s.sender_chain = ratchet[p].sender_chain
                /\ UNCHANGED << generated, encrypted, sent >>
                /\ \/ UNCHANGED << delivered, decrypted >>
                   \/ \E m \in Arriving : CanDecrypt(ratchet[p], m) /\ Deliver(p, m)
<1> DEFINE r == ratchet[p]
<1>1. r \in RatchetType /\ WithinBounds(r) /\ InTurn(r, p) /\ Chain(r) \in Nat
  BY PairOf
<1>2. ASSUME NEW error,
             ratchet' = [ratchet EXCEPT ![p] = Failed(@, error)],
             UNCHANGED << generated, encrypted, sent, delivered, decrypted >>
      PROVE  /\ ratchet' = [ratchet EXCEPT ![p] = Failed(r, error)]
             /\ Failed(r, error).sender_chain = r.sender_chain
  BY <1>1, <1>2 DEF Failed, RatchetType
<1>3. ASSUME NEW m \in Arriving, NEW s, DecryptedTo(r, m, s)
      PROVE  /\ s.sender_chain = << >> \/ s.sender_chain = r.sender_chain
             /\ CanDecrypt(r, m)
  <2>1. CanDecrypt(r, m)
    BY <1>3 DEF CanDecrypt, DecryptedTo
  <2>2. m \in Message /\ OfChain(m.ratchet_key, m.key.key)
    BY <2>1, DecryptsTheOther
  <2>. HIDE DEF r
  <2>3. KeepsTurn(r, s, p, m)
    BY <1>1, <1>3, <2>2, DecryptedInTurn
  <2>4. CASE Turn(Chain(r)) = p /\ Chain(s) = Chain(r) + 1
    <3>1. Turn(Chain(s)) # p
      BY <1>1, <2>4, Turns, Peers
    <3>. QED
      BY <2>1, <2>3, <3>1 DEF KeepsTurn, InTurn, Senders
  <2>. QED
    BY <2>1, <2>3, <2>4 DEF KeepsTurn
<1>4. CASE \E error \in Error : EncryptFails(p, error) \/ DecryptUnreadable(p, error)
  <2>1. PICK error \in Error : EncryptFails(p, error) \/ DecryptUnreadable(p, error)
    BY <1>4
  <2>. WITNESS Failed(r, error)
  <2>. QED
    BY <1>2, <2>1 DEF EncryptFails, DecryptUnreadable
<1>5. CASE \E m \in Arriving : Decrypt(p, m)
  <2>1. PICK m \in Arriving : Decrypt(p, m)
    BY <1>5
  <2>2. CASE DecryptRejected(p, m)
    <3>. WITNESS Failed(r, "BAD_MESSAGE_MAC")
    <3>. QED
      BY <1>2, <2>2 DEF DecryptRejected
  <2>3. CASE \E s : /\ DecryptedTo(r, m, s)
                    /\ ratchet' = [ratchet EXCEPT ![p] = s]
                    /\ Deliver(p, m)
    <3>1. PICK s : /\ DecryptedTo(r, m, s)
                   /\ ratchet' = [ratchet EXCEPT ![p] = s]
                   /\ Deliver(p, m)
      BY <2>3
    <3>. WITNESS s
    <3>. QED
      BY <1>3, <3>1 DEF Deliver
  <2>4. \/ DecryptRejected(p, m)
        \/ \E s : /\ DecryptedTo(r, m, s)
                  /\ ratchet' = [ratchet EXCEPT ![p] = s]
                  /\ Deliver(p, m)
    BY <2>1 DEF Decrypt, DecryptNewChain, DecryptExistingChain, DecryptSkipped, DecryptedTo
  <2>. QED
    BY <2>2, <2>3, <2>4
<1>. QED
  BY <1>4, <1>5

LEMMA StepKeepsCount ==
  ASSUME TypeOK, PairInv, CountInv, [Next]_vars
  PROVE  CountInv'
<1>1. ASSUME NEW p \in Party, Encrypt(p)
      PROVE  CountInv'
  BY <1>1, EncryptKeepsCount
<1>2. ASSUME NEW p \in Party,
             \/ \E error \in Error : EncryptFails(p, error) \/ DecryptUnreadable(p, error)
             \/ \E m \in Arriving : Decrypt(p, m)
      PROVE  CountInv'
  BY <1>2, OtherCalls, OthersKeepCount
<1>3. CASE UNCHANGED vars
  BY <1>3 DEF vars, CountInv, Counted, Count, LastSent, NextIndex
<1>. QED
  BY <1>1, <1>2, <1>3 DEF Next

LEMMA InitKeepsCount ==
  ASSUME Init
  PROVE  CountInv
<1>1. TypeOK
  BY InitKeeps
<1>2. \A p \in Party : /\ encrypted[p] = 0
                       /\ generated[p] \in Nat
                       /\ ratchet[p].sender_chain # << >> => /\ NextIndex(ratchet[p]) = 0
                                                             /\ generated[p] = 1
  BY <1>1 DEF Init, TypeOK, initialise_as_alice, initialise_as_bob, NextIndex
<1>3. \A g, c \in Nat : 0 <= g * c /\ 0 <= (1 - 1) * c + 0
  OBVIOUS
<1>4. Counted
  BY <1>2, <1>3 DEF Counted, Count
<1>5. LastSent
  BY <1>2 DEF LastSent
<1>. QED
  BY <1>4, <1>5 DEF CountInv

(* A party encrypts no more messages than its chains have places for. *)
THEOREM CountInvariant == Spec => []CountInv
<1>1. Init => CountInv
  BY InitKeepsCount
<1>2. TypeOK /\ PairInv /\ CountInv /\ [Next]_vars => CountInv'
  BY StepKeepsCount
<1>. QED
  BY <1>1, <1>2, TypeCorrect, PairInvariant, PTL DEF Spec

(* encrypt is a Send of a message that is new. *)
LEMMA EncryptSends ==
  ASSUME TypeOK, PairInv, CountInv, NEW p \in Party, Encrypt(p)
  PROVE  Secure!Next
<1> DEFINE m == NextMessage(p)
           text == encrypted[p]
           g == generated'[p]
<1>1. /\ encrypted'[p] = text + 1
      /\ text \in Nat
      /\ g \in Nat
      /\ sent' = sent \cup {m}
      /\ delivered' = delivered
      /\ decrypted' = decrypted
  BY DEF Encrypt, TypeOK
<1>2. Abstract(m) = << p, text >>
  <2>1. m.plaintext = text
    BY DEF NextMessage, EncryptedMessage
  <2>2. Owner(m.ratchet_key) = p
    <3> DEFINE k == IF ratchet[p].sender_chain = << >> THEN Chain(ratchet[p]) + 1
                    ELSE Chain(ratchet[p])
    <3>. HIDE DEF m, k
    <3>1. m = NextMessage(p)
      BY DEF m
    <3>2. k = IF ratchet[p].sender_chain = << >> THEN Chain(ratchet[p]) + 1
              ELSE Chain(ratchet[p])
      BY DEF k
    <3>3. k \in Nat /\ Turn(k) = p /\ m.ratchet_key = KeyOf(k)
      BY <3>1, <3>2, NextInTurn
    <3>. QED
      BY <3>3, Turns
  <2>. QED
    BY <2>1, <2>2 DEF Abstract
<1>. HIDE DEF m
<1>3. << p, text >> \notin { Abstract(d) : d \in sent }
  <2>1. SUFFICES ASSUME NEW d \in sent, Abstract(d) = << p, text >>
                 PROVE  FALSE
    OBVIOUS
  <2>2. Owner(d.ratchet_key) = p /\ d.plaintext = text
    BY <2>1 DEF Abstract
  <2>. QED
    BY <1>1, <2>2, SentOf
<1>4. text \in UNION { 0..(b.keys * b.counter - 1) : b \in Bounds }
  <2>1. PICK b \in Bounds : /\ \A q \in Party : generated'[q] <= b.keys
                            /\ \A d \in sent' : d.counter < b.counter
    BY DEF Encrypt, InSomeBound
  <2>2. b.keys \in Nat /\ b.counter \in Nat
    BY ChannelConstants
  <2>3. text + 1 <= g * b.counter /\ g <= b.keys
    BY <1>1, <2>1, <2>2, EncryptKeepsCount
  <2>4. \A x, y, z, t \in Nat : x <= y /\ t + 1 <= x * z => t \in 0..(y * z - 1)
    <3>1. \A x, y, z \in Nat : x <= y => x * z <= y * z
      <4>1. \A x, y, z \in Nat : x <= y => (y - x) * z >= 0 /\ y * z = x * z + (y - x) * z
        OBVIOUS
      <4>. QED
        BY <4>1
    <3>. QED
      BY <3>1
  <2>5. text \in 0..(b.keys * b.counter - 1)
    BY <1>1, <2>2, <2>3, <2>4
  <2>. QED
    BY <2>5
<1>5. Secure!Send(p, text)
  <2>1. { Abstract(d) : d \in sent' } = { Abstract(d) : d \in sent } \cup {<< p, text >>}
    BY <1>1, <1>2
  <2>. QED
    BY <1>1, <1>3, <2>1 DEF Secure!Send, Abstract, Owner
<1>. QED
  BY <1>4, <1>5 DEF Secure!Next

(* A successful decrypt is a Deliver, of a message of the other end that   *)
(* was not given before.                                                   *)
LEMMA DecryptDelivers ==
  ASSUME TypeOK, PairInv, NoReplay, NEW p \in Party, NEW m \in Arriving,
         CanDecrypt(ratchet[p], m), Deliver(p, m)
  PROVE  Secure!Next
<1>1. /\ delivered' = [delivered EXCEPT ![p] = @ \cup {m}]
      /\ decrypted' = [decrypted EXCEPT ![p] = @ + 1]
      /\ UNCHANGED sent
  BY DEF Deliver
<1>2. m \in sent /\ Owner(m.ratchet_key) = Peer(p) /\ Peer(p) # p
  BY DecryptsTheOther, Peers
<1>3. Abstract(m)[1] # p
  BY <1>2 DEF Abstract
<1>4. Abstract(m) \notin { Abstract(d) : d \in delivered[p] }
  <2>1. SUFFICES ASSUME NEW d \in delivered[p], Abstract(d) = Abstract(m)
                 PROVE  FALSE
    OBVIOUS
  <2>2. d \in sent
    BY DEF PairInv, Authentic, SentBy
  <2>3. d = m
    BY <1>2, <2>1, <2>2 DEF PairInv, Different
  <2>. QED
    BY <2>3 DEF NoReplay
<1> DEFINE given == [q \in Party |-> { Abstract(d) : d \in delivered[q] }]
<1>5. [q \in Party |-> { Abstract(d) : d \in delivered'[q] }]
        = [given EXCEPT ![p] = @ \cup {Abstract(m)}]
  <2>1. \A q \in Party : delivered'[q] = IF q = p THEN delivered[p] \cup {m} ELSE delivered[q]
    BY <1>1 DEF TypeOK
  <2>2. { Abstract(d) : d \in delivered'[p] } = { Abstract(d) : d \in delivered[p] } \cup {Abstract(m)}
    BY <2>1
  <2>. QED
    BY <2>1, <2>2
<1>6. Secure!Deliver(p, Abstract(m))
  BY <1>1, <1>3, <1>4, <1>5 DEF Secure!Deliver, Abstract, Owner
<1>. QED
  BY <1>2, <1>6 DEF Secure!Next

(* Two ratchets over any network are a secure channel. *)
THEOREM SecureChannelImplemented == Spec => ImplementsSecureChannel
<1>1. Init => Secure!Init
  BY DEF Init, Secure!Init
<1>2. ASSUME TypeOK, PairInv, CountInv, NoReplay, [Next]_vars
      PROVE  [Secure!Next]_(Secure!vars)
  <2>1. ASSUME NEW p \in Party, Encrypt(p)
        PROVE  Secure!Next
    BY <1>2, <2>1, EncryptSends
  <2>2. ASSUME UNCHANGED << sent, delivered, decrypted >>
        PROVE  UNCHANGED Secure!vars
    BY <2>2 DEF Secure!vars, Abstract, Owner
  <2>3. ASSUME NEW p \in Party,
               \/ \E error \in Error : EncryptFails(p, error) \/ DecryptUnreadable(p, error)
               \/ \E m \in Arriving : Decrypt(p, m)
        PROVE  [Secure!Next]_(Secure!vars)
    <3>1. /\ UNCHANGED sent
          /\ \/ UNCHANGED << delivered, decrypted >>
             \/ \E m \in Arriving : CanDecrypt(ratchet[p], m) /\ Deliver(p, m)
      BY <1>2, <2>3, OtherCalls
    <3>. QED
      BY <1>2, <2>2, <3>1, DecryptDelivers
  <2>4. CASE UNCHANGED vars
    BY <2>2, <2>4 DEF vars
  <2>. QED
    BY <1>2, <2>1, <2>3, <2>4 DEF Next
<1>. QED
  BY <1>1, <1>2, TypeCorrect, PairInvariant, CountInvariant, NoReplayHolds, PTL
     DEF Spec, ImplementsSecureChannel, Secure!Spec

(***************************************************************************)
(* What is kept.                                                           *)
(***************************************************************************)
(* Insertion discards only what is beyond the last place of the list. *)
LEMMA InsertFirstAllLength ==
  ASSUME NEW S, NEW list \in Seq(S), NEW values \in Seq(S), NEW max \in Nat
  PROVE  Len(InsertFirstAll(list, max, values)) =
           IF Len(values) + Len(list) <= max THEN Len(values) + Len(list) ELSE max
  BY DEF InsertFirstAll, Truncate, Reverse

LEMMA InsertFirstKeeps ==
  ASSUME NEW S, NEW list \in Seq(S), NEW value \in S, NEW max \in Nat, max >= 1,
         NEW new, new = InsertFirst(list, max, value)
  PROVE  /\ 1 \in 1..Len(new)
         /\ new[1] = value
         /\ \A j \in 1..Len(list) :
              j + 1 <= max => j + 1 \in 1..Len(new) /\ new[j + 1] = list[j]
  BY DEF InsertFirst, Truncate

(* CanDecrypt, by the one chain that has the ratchet key of the message.   *)
OpensAlong(chain, r, m) ==
  /\ chain.ratchet_key = m.ratchet_key
  /\ \/ VerifiesOnChain(chain.chain_key, m)
     \/ /\ chain.chain_key.index > m.counter
        /\ \E k \in 1..Len(r.skipped_message_keys) :
             LET skipped == r.skipped_message_keys[k]
             IN  /\ skipped.ratchet_key = m.ratchet_key
                 /\ skipped.message_key = m.key

Readable(r, m) ==
  \/ VerifiesOnNewChain(r, m)
  \/ \E i \in 1..Len(r.receiver_chains) : OpensAlong(r.receiver_chains[i], r, m)

(* A ratchet has at most one receiver chain for a ratchet key. *)
LEMMA OneChain ==
  ASSUME NEW p \in Party, NEW r \in RatchetType, InTurn(r, p), DistinctKeys(r),
         NEW m \in Message, NEW i \in 1..Len(r.receiver_chains),
         r.receiver_chains[i].ratchet_key = m.ratchet_key
  PROVE  HasReceiverChain(r, m) /\ ReceiverChain(r, m) = i
<1> DEFINE j == ReceiverChain(r, m)
<1>1. HasReceiverChain(r, m)
  BY DEF HasReceiverChain, ChainsFor, RatchetType
<1>2. j \in 1..Len(r.receiver_chains) /\ r.receiver_chains[j].ratchet_key = m.ratchet_key
  BY <1>1, Channel_ReceiverChainInDomain
<1>. HIDE DEF j
<1> DEFINE key(x) == r.receiver_chains[x].chain_key.key
<1>3. \A x \in {i, j} : /\ Len(key(x)) \in Nat
                        /\ m.ratchet_key = KeyOf(Len(key(x)))
                        /\ key(x) = RootOf(Len(key(x)))
  BY <1>2, Stored DEF InTurn, Receivers, OfChain
<1>4. key(i) = key(j)
  <2>. HIDE DEF key
  <2>1. Len(key(i)) = Len(key(j))
    BY <1>3, KeysDiffer
  <2>. QED
    BY <1>3, <2>1
<1>5. i = j
  BY <1>2, <1>4 DEF DistinctKeys, RatchetType
<1>. QED
  BY <1>1, <1>5 DEF j

LEMMA ReadableIsDecryptable ==
  ASSUME NEW p \in Party, NEW r \in RatchetType, InTurn(r, p), DistinctKeys(r),
         NEW m \in Message, m.key.index = m.counter
  PROVE  CanDecrypt(r, m) <=> Readable(r, m)
<1>1. DOMAIN r.skipped_message_keys = 1..Len(r.skipped_message_keys)
  BY DEF RatchetType
<1>2. ASSUME CanDecrypt(r, m)
      PROVE  Readable(r, m)
  <2> DEFINE i == ReceiverChain(r, m)
  <2>1. HasReceiverChain(r, m) => /\ i \in 1..Len(r.receiver_chains)
                                  /\ r.receiver_chains[i].ratchet_key = m.ratchet_key
    BY Channel_ReceiverChainInDomain
  <2>2. CASE VerifiesOnExistingChain(r, m)
    BY <2>1, <2>2 DEF VerifiesOnExistingChain, Readable, OpensAlong
  <2>3. CASE VerifiesWithSkippedKey(r, m)
    BY <1>1, <2>1, <2>3 DEF VerifiesWithSkippedKey, SkippedKeysFor, Readable, OpensAlong
  <2>. QED
    BY <1>2, <2>2, <2>3 DEF CanDecrypt, Readable
<1>3. ASSUME NEW i \in 1..Len(r.receiver_chains), OpensAlong(r.receiver_chains[i], r, m)
      PROVE  CanDecrypt(r, m)
  <2>1. HasReceiverChain(r, m) /\ ReceiverChain(r, m) = i
    BY <1>3, OneChain DEF OpensAlong
  <2>2. CASE VerifiesOnChain(r.receiver_chains[i].chain_key, m)
    BY <2>1, <2>2 DEF CanDecrypt, VerifiesOnExistingChain
  <2>3. CASE /\ r.receiver_chains[i].chain_key.index > m.counter
             /\ \E k \in 1..Len(r.skipped_message_keys) :
                  /\ r.skipped_message_keys[k].ratchet_key = m.ratchet_key
                  /\ r.skipped_message_keys[k].message_key = m.key
    BY <1>1, <2>1, <2>3 DEF CanDecrypt, VerifiesWithSkippedKey, SkippedKeysFor
  <2>. QED
    BY <1>3, <2>2, <2>3 DEF OpensAlong
<1>. QED
  BY <1>2, <1>3 DEF CanDecrypt, Readable

(* decrypt on a chain puts the keys it skips in front of those that were   *)
(* skipped before, as far as there is room.                                *)
LEMMA OnChainKeepsSkipped ==
  ASSUME NEW r \in RatchetType, NEW m \in Message, NEW i, Verified(r, i, m),
         NEW s, s = DecryptedOnChain(r, i, m),
         NEW new, new = m.counter - r.receiver_chains[i].chain_key.index
  PROVE  /\ \A k \in 1..new :
              k <= MAX_SKIPPED_MESSAGE_KEYS => k \in 1..Len(s.skipped_message_keys)
         /\ \A k \in 1..Len(r.skipped_message_keys) :
              new + k <= MAX_SKIPPED_MESSAGE_KEYS =>
                /\ new + k \in 1..Len(s.skipped_message_keys)
                /\ s.skipped_message_keys[new + k] = r.skipped_message_keys[k]
<1> DEFINE keys == SkippedKeys(r.receiver_chains[i], m.counter)
           list == r.skipped_message_keys
<1>1. /\ new \in Nat
      /\ \A j \in 1..Len(s.skipped_message_keys) :
           j > new => /\ j - new \in 1..Len(r.skipped_message_keys)
                      /\ s.skipped_message_keys[j] = r.skipped_message_keys[j - new]
  <2>1. /\ new \in Nat
        /\ s \in RatchetType
        /\ s.root_key = r.root_key
        /\ s.sender_chain = r.sender_chain
        /\ Len(s.receiver_chains) = Len(r.receiver_chains)
        /\ \A j \in 1..Len(r.receiver_chains) :
             s.receiver_chains[j].chain_key =
               IF j = i THEN [key |-> m.key.key, index |-> m.counter + 1]
                        ELSE r.receiver_chains[j].chain_key
        /\ Len(s.skipped_message_keys) <= MAX_SKIPPED_MESSAGE_KEYS
        /\ \A j \in 1..Len(s.skipped_message_keys) :
             j <= new => s.skipped_message_keys[j].message_key =
                           [key |-> m.key.key, index |-> m.counter - j]
        /\ \A j \in 1..Len(s.skipped_message_keys) :
             j > new => /\ j - new \in 1..Len(r.skipped_message_keys)
                        /\ s.skipped_message_keys[j] = r.skipped_message_keys[j - new]
    BY Channel_DecryptedOnChainProperties, SMTT(60)
  <2>. QED
    BY <2>1
<1>2. /\ i \in 1..Len(r.receiver_chains)
      /\ r.receiver_chains[i].chain_key.index <= m.counter
      /\ m.counter \in Nat
  BY DEF Verified, Message
<1>3. s.skipped_message_keys = InsertFirstAll(list, MAX_SKIPPED_MESSAGE_KEYS, keys)
  BY DEF DecryptedOnChain, RatchetType
<1>4. keys \in Seq(SkippedMessageKey) /\ Len(keys) = new
  BY <1>2, Stored, Channel_SkippedKeysType
<1>5. list \in Seq(SkippedMessageKey) /\ MAX_SKIPPED_MESSAGE_KEYS \in Nat
  BY RatchetConstants DEF RatchetType
<1>6. Len(s.skipped_message_keys) =
        IF new + Len(r.skipped_message_keys) <= MAX_SKIPPED_MESSAGE_KEYS
        THEN new + Len(r.skipped_message_keys) ELSE MAX_SKIPPED_MESSAGE_KEYS
  <2>. HIDE DEF keys
  <2>. QED
    BY <1>3, <1>4, <1>5, InsertFirstAllLength
<1>7. ASSUME NEW k \in 1..Len(r.skipped_message_keys), new + k <= MAX_SKIPPED_MESSAGE_KEYS
      PROVE  /\ new + k \in 1..Len(s.skipped_message_keys)
             /\ s.skipped_message_keys[new + k] = r.skipped_message_keys[k]
  <2>. HIDE DEF keys
  <2>1. Len(r.skipped_message_keys) \in Nat
    BY Stored
  <2>2. new + k \in 1..Len(s.skipped_message_keys) /\ new + k > new /\ (new + k) - new = k
    BY <1>1, <1>5, <1>6, <1>7, <2>1
  <2>. QED
    BY <1>1, <2>2
<1>8. ASSUME NEW k \in 1..new, k <= MAX_SKIPPED_MESSAGE_KEYS
      PROVE  k \in 1..Len(s.skipped_message_keys)
  <2>1. Len(r.skipped_message_keys) \in Nat
    BY Stored
  <2>. QED
    BY <1>1, <1>5, <1>6, <1>8, <2>1
<1>. QED
  BY <1>7, <1>8

(* decrypt on a chain keeps what another message of any chain needs, the   *)
(* chain or a key that was skipped, now or before, if there is room for    *)
(* the key.                                                                *)
LEMMA OnChainKeepsReadable ==
  ASSUME NEW r \in RatchetType, NEW d \in Message, NEW i, Verified(r, i, d),
         r.receiver_chains[i].ratchet_key = d.ratchet_key,
         NEW new, new = d.counter - r.receiver_chains[i].chain_key.index,
         NEW s, s = DecryptedOnChain(r, i, d), s \in RatchetType,
         NEW m \in Message, m.key # d.key,
         NEW j \in 1..Len(r.receiver_chains), OpensAlong(r.receiver_chains[j], r, m),
         j = i /\ r.receiver_chains[i].chain_key.index <= m.counter =>
           d.counter - m.counter <= MAX_SKIPPED_MESSAGE_KEYS,
         \A k \in 1..Len(r.skipped_message_keys) :
           r.skipped_message_keys[k].message_key = m.key => new + k <= MAX_SKIPPED_MESSAGE_KEYS
  PROVE  j \in 1..Len(s.receiver_chains) /\ OpensAlong(s.receiver_chains[j], s, m)
<1> DEFINE chain == r.receiver_chains[j]
           chain_ == s.receiver_chains[j]
           past == [key |-> d.key.key, index |-> d.counter + 1]
<1>1. /\ new \in Nat
      /\ Len(s.receiver_chains) = Len(r.receiver_chains)
      /\ chain_.chain_key = IF j = i THEN past ELSE chain.chain_key
      /\ \A k \in 1..Len(s.skipped_message_keys) :
           k <= new => s.skipped_message_keys[k].message_key =
                         [key |-> d.key.key, index |-> d.counter - k]
  <2>1. /\ new \in Nat
        /\ Len(s.receiver_chains) = Len(r.receiver_chains)
        /\ \A k \in 1..Len(r.receiver_chains) :
             s.receiver_chains[k].chain_key =
               IF k = i THEN [key |-> d.key.key, index |-> d.counter + 1]
                        ELSE r.receiver_chains[k].chain_key
        /\ \A k \in 1..Len(s.skipped_message_keys) :
             k <= new => s.skipped_message_keys[k].message_key =
                           [key |-> d.key.key, index |-> d.counter - k]
    BY Channel_DecryptedOnChainProperties, SMTT(30)
  <2>. QED
    BY <2>1
<1>2. /\ chain_.ratchet_key = chain.ratchet_key
      /\ \A k \in 1..Len(s.skipped_message_keys) :
           k <= new => s.skipped_message_keys[k].ratchet_key = d.ratchet_key
  BY OnChainRatchetKeys
<1>3. /\ i \in 1..Len(r.receiver_chains)
      /\ r.receiver_chains[i].chain_key.index <= d.counter
      /\ r.receiver_chains[i].chain_key.index \in Nat
      /\ d.key = [key |-> r.receiver_chains[i].chain_key.key, index |-> d.counter]
      /\ d.key.key = r.receiver_chains[i].chain_key.key
      /\ d.counter \in Nat /\ m.counter \in Nat
  <2>1. /\ i \in 1..Len(r.receiver_chains)
        /\ r.receiver_chains[i].chain_key.index <= d.counter
        /\ d.key = [key |-> r.receiver_chains[i].chain_key.key, index |-> d.counter]
        /\ d.counter \in Nat /\ m.counter \in Nat
    BY DEF Verified, Message
  <2>2. d.key.key = r.receiver_chains[i].chain_key.key
    BY <2>1
  <2>. QED
    BY <2>1, <2>2, Stored
<1>4. /\ chain \in ReceiverChainType /\ chain.chain_key \in ChainKey
      /\ chain.chain_key.index \in Nat
  BY Stored
<1>5. /\ \A k \in 1..new :
           k <= MAX_SKIPPED_MESSAGE_KEYS => k \in 1..Len(s.skipped_message_keys)
      /\ \A k \in 1..Len(r.skipped_message_keys) :
           new + k <= MAX_SKIPPED_MESSAGE_KEYS =>
             /\ new + k \in 1..Len(s.skipped_message_keys)
             /\ s.skipped_message_keys[new + k] = r.skipped_message_keys[k]
  BY OnChainKeepsSkipped
<1>6. Len(r.skipped_message_keys) \in Nat
  BY Stored
<1>7. chain.ratchet_key = m.ratchet_key
  BY DEF OpensAlong
<1>. HIDE DEF chain, chain_, past
<1>8. CASE VerifiesOnChain(chain.chain_key, m)
  <2>1. /\ chain.chain_key.index <= m.counter
        /\ m.counter - chain.chain_key.index <= MAX_MESSAGE_GAP
        /\ m.key = [key |-> chain.chain_key.key, index |-> m.counter]
    <3>1. AdvancedTo(chain.chain_key, m.counter) =
            [key |-> chain.chain_key.key, index |-> m.counter]
      BY <1>3, <1>4, Channel_ChainKeySteps
    <3>. QED
      BY <1>3, <1>4, <1>8, <3>1 DEF VerifiesOnChain, create_message_keys
  <2>2. CASE j # i
    BY <1>1, <1>2, <1>7, <1>8, <2>2 DEF OpensAlong, chain_
  <2>3. CASE j = i
    <3>1. /\ chain.chain_key.key = d.key.key
          /\ chain.chain_key.index = d.counter - new
      BY <1>1, <1>3, <2>3 DEF chain
    <3>2. m.counter # d.counter
      BY <1>3, <2>1, <2>3 DEF chain
    <3>3. CASE m.counter > d.counter
      <4>1. AdvancedTo(past, m.counter) = m.key
        <5>1. AdvancedTo(past, m.counter) = [key |-> d.key.key, index |-> m.counter]
          BY DEF AdvancedTo, past
        <5>. QED
          BY <2>1, <3>1, <5>1
      <4>2. past.index = d.counter + 1
        BY DEF past
      <4>3. /\ m.counter >= past.index
            /\ m.counter - past.index <= MAX_MESSAGE_GAP
        BY <1>1, <1>3, <2>1, <3>1, <3>3, <4>2, RatchetConstants, SMTT(30)
      <4>4. VerifiesOnChain(past, m)
        BY <4>1, <4>3 DEF VerifiesOnChain, create_message_keys
      <4>. QED
        BY <1>1, <1>2, <1>7, <2>3, <4>4 DEF OpensAlong, chain_
    <3>4. CASE m.counter < d.counter
      <4> DEFINE k == d.counter - m.counter
      <4>1. k \in 1..new /\ d.counter - k = m.counter
        BY <1>1, <1>3, <2>1, <3>1, <3>4, SMTT(60)
      <4>2. k \in 1..Len(s.skipped_message_keys) /\ k <= new
        <5>1. k <= MAX_SKIPPED_MESSAGE_KEYS
          BY <2>1, <2>3 DEF chain
        <5>. QED
          BY <1>1, <1>5, <4>1, <5>1
      <4>. HIDE DEF k
      <4>3. s.skipped_message_keys[k].message_key = m.key
        BY <1>1, <2>1, <3>1, <4>1, <4>2
      <4>4. s.skipped_message_keys[k].ratchet_key = m.ratchet_key
        BY <1>2, <1>7, <2>3, <4>2 DEF chain
      <4>5. past.index > m.counter
        BY <1>3, <3>4 DEF past
      <4>. QED
        BY <1>1, <1>2, <1>7, <2>3, <4>2, <4>3, <4>4, <4>5 DEF OpensAlong, chain_
    <3>. QED
      BY <1>3, <3>2, <3>3, <3>4
  <2>. QED
    BY <2>2, <2>3 DEF chain_
<1>9. CASE /\ chain.chain_key.index > m.counter
           /\ \E k \in 1..Len(r.skipped_message_keys) :
                /\ r.skipped_message_keys[k].ratchet_key = m.ratchet_key
                /\ r.skipped_message_keys[k].message_key = m.key
  <2>1. PICK k \in 1..Len(r.skipped_message_keys) :
          /\ r.skipped_message_keys[k].ratchet_key = m.ratchet_key
          /\ r.skipped_message_keys[k].message_key = m.key
    BY <1>9
  <2>2. /\ new + k \in 1..Len(s.skipped_message_keys)
        /\ s.skipped_message_keys[new + k] = r.skipped_message_keys[k]
    <3>1. new + k <= MAX_SKIPPED_MESSAGE_KEYS
      BY <2>1
    <3>. QED
      BY <1>5, <3>1
  <2>3. chain_.chain_key.index > m.counter
    <3>1. CASE j # i
      BY <1>1, <1>9, <3>1
    <3>2. CASE j = i
      <4>1. past.index = d.counter + 1 /\ chain.chain_key.index <= d.counter
        BY <1>3, <3>2 DEF past, chain
      <4>. QED
        BY <1>1, <1>3, <1>4, <1>9, <3>2, <4>1
    <3>. QED
      BY <3>1, <3>2
  <2>. QED
    BY <1>1, <1>2, <1>7, <2>1, <2>2, <2>3 DEF OpensAlong, chain_
<1>. QED
  BY <1>8, <1>9 DEF OpensAlong, chain

(* A new chain follows from the root and the sender's ratchet key alone. *)
LEMMA NewChainKept ==
  ASSUME NEW r \in RatchetType, NEW s \in RatchetType, NEW m,
         s.root_key = r.root_key, s.sender_chain # << >>,
         s.sender_chain[1].ratchet_key = r.sender_chain[1].ratchet_key,
         Len(s.receiver_chains) = Len(r.receiver_chains),
         \A j \in 1..Len(r.receiver_chains) :
           s.receiver_chains[j].ratchet_key = r.receiver_chains[j].ratchet_key,
         VerifiesOnNewChain(r, m)
  PROVE  VerifiesOnNewChain(s, m)
<1>1. /\ DOMAIN r.receiver_chains = 1..Len(r.receiver_chains)
      /\ DOMAIN s.receiver_chains = 1..Len(s.receiver_chains)
  BY DEF RatchetType
<1>2. ~ HasReceiverChain(s, m)
  BY <1>1 DEF VerifiesOnNewChain, HasReceiverChain, ChainsFor
<1>3. NewChain(s, m) = NewChain(r, m)
  BY DEF NewChain
<1>. QED
  BY <1>2, <1>3 DEF VerifiesOnNewChain

(* A new chain goes in front of the others, and only the last of them may  *)
(* have to go.                                                             *)
LEMMA NewChainKeepsReadable ==
  ASSUME NEW p \in Party, NEW r \in RatchetType, WithinBounds(r), InTurn(r, p),
         NEW d \in Message, VerifiesOnNewChain(r, d), OfChain(d.ratchet_key, d.key.key),
         NEW w, w = WithNewReceiverChain(r, d),
         NEW m \in Message, OfChain(m.ratchet_key, m.key.key), Readable(r, m),
         Len(r.receiver_chains) = MAX_RECEIVER_CHAINS =>
           r.receiver_chains[Len(r.receiver_chains)].ratchet_key # m.ratchet_key
  PROVE  /\ w.receiver_chains[1].ratchet_key = d.ratchet_key
         /\ w.receiver_chains[1].chain_key.index = 0
         /\ \E j \in 1..Len(w.receiver_chains) : OpensAlong(w.receiver_chains[j], w, m)
<1> DEFINE new == NewChain(r, d).chain_key
           chain == [ratchet_key |-> d.ratchet_key, chain_key |-> new]
<1>1. /\ w \in RatchetType
      /\ w.skipped_message_keys = r.skipped_message_keys
      /\ new = [key |-> w.root_key, index |-> 0]
  <2>1. r.sender_chain # << >>
    BY DEF VerifiesOnNewChain
  <2>. QED
    BY <2>1, Channel_WithNewReceiverChainProperties
<1>2. chain \in ReceiverChainType
  <2>1. new \in ChainKey
    BY <1>1, Stored DEF ChainKey
  <2>. QED
    BY <2>1 DEF ReceiverChainType, Message
<1>3. w.receiver_chains = InsertFirst(r.receiver_chains, MAX_RECEIVER_CHAINS, chain)
  BY DEF WithNewReceiverChain, RatchetType
<1>4. /\ r.receiver_chains \in Seq(ReceiverChainType)
      /\ MAX_RECEIVER_CHAINS \in Nat /\ MAX_RECEIVER_CHAINS >= 1
  BY RatchetConstants DEF RatchetType
<1>5. /\ 1 \in 1..Len(w.receiver_chains)
      /\ w.receiver_chains[1] = chain
      /\ \A j \in 1..Len(r.receiver_chains) :
           j + 1 <= MAX_RECEIVER_CHAINS => /\ j + 1 \in 1..Len(w.receiver_chains)
                                           /\ w.receiver_chains[j + 1] = r.receiver_chains[j]
  <2>. HIDE DEF chain
  <2>. QED
    BY <1>2, <1>3, <1>4, InsertFirstKeeps
<1>6. Len(r.receiver_chains) \in Nat /\ Len(r.receiver_chains) <= MAX_RECEIVER_CHAINS
  BY Stored DEF WithinBounds
<1>. HIDE DEF new
<1>7. CASE VerifiesOnNewChain(r, m)
  <2>1. Len(m.key.key) = Chain(r) + 1 /\ Len(d.key.key) = Chain(r) + 1
    BY <1>7, NewChainInTurn
  <2>2. m.ratchet_key = d.ratchet_key
    BY <2>1 DEF OfChain
  <2>3. NewChain(r, m) = NewChain(r, d)
    BY <2>2 DEF NewChain
  <2>4. VerifiesOnChain(new, m)
    BY <1>7, <2>3 DEF VerifiesOnNewChain, new
  <2>5. OpensAlong(w.receiver_chains[1], w, m)
    BY <1>5, <2>2, <2>4 DEF OpensAlong
  <2>. QED
    BY <1>1, <1>5, <2>5
<1>8. CASE \E j \in 1..Len(r.receiver_chains) : OpensAlong(r.receiver_chains[j], r, m)
  <2>1. PICK j \in 1..Len(r.receiver_chains) : OpensAlong(r.receiver_chains[j], r, m)
    BY <1>8
  <2>2. j + 1 <= MAX_RECEIVER_CHAINS
    <3>1. r.receiver_chains[j].ratchet_key = m.ratchet_key
      BY <2>1 DEF OpensAlong
    <3>. QED
      BY <1>4, <1>6, <3>1
  <2>3. OpensAlong(w.receiver_chains[j + 1], w, m)
    BY <1>1, <1>5, <2>1, <2>2 DEF OpensAlong
  <2>. QED
    BY <1>1, <1>5, <2>2, <2>3
<1>. QED
  BY <1>7, <1>8 DEF Readable

(* Erasing the key of one message keeps that of every other. *)
LEMMA SkippedKeepsReadable ==
  ASSUME NEW r \in RatchetType, NEW d \in Message, VerifiesWithSkippedKey(r, d),
         NEW s \in RatchetType, s = DecryptedWithSkippedKey(r, d),
         NEW m \in Message, m.key # d.key, Readable(r, m)
  PROVE  Readable(s, m)
<1> DEFINE pos == Min(SkippedKeysFor(r, d))
           keys == r.skipped_message_keys
<1>1. /\ pos \in 1..Len(keys)
      /\ keys[pos].message_key = d.key
      /\ keys \in Seq(SkippedMessageKey)
  BY Channel_SkippedKeyInDomain DEF VerifiesWithSkippedKey, RatchetType
<1>2. s = [r EXCEPT !.skipped_message_keys = Erase(keys, pos)]
  BY DEF DecryptedWithSkippedKey
<1>. HIDE DEF pos
<1>3. /\ s.root_key = r.root_key
      /\ s.sender_chain = r.sender_chain
      /\ s.receiver_chains = r.receiver_chains
      /\ s.skipped_message_keys = Erase(keys, pos)
  BY <1>2 DEF RatchetType
<1>4. ASSUME NEW k \in 1..Len(keys), keys[k].message_key = m.key
      PROVE  \E l \in 1..Len(s.skipped_message_keys) : s.skipped_message_keys[l] = keys[k]
  <2>1. k # pos
    BY <1>1, <1>4
  <2>. HIDE DEF keys
  <2>2. /\ Len(Erase(keys, pos)) = Len(keys) - 1
        /\ \A l \in 1..(Len(keys) - 1) :
             Erase(keys, pos)[l] = IF l < pos THEN keys[l] ELSE keys[l + 1]
    BY <1>1, EraseProperties
  <2>3. CASE k < pos
    <3>1. k \in 1..(Len(keys) - 1)
      BY <1>1, <2>3
    <3>. QED
      BY <1>3, <2>2, <2>3, <3>1
  <2>4. CASE k > pos
    <3>1. k - 1 \in 1..(Len(keys) - 1) /\ ~ (k - 1 < pos) /\ (k - 1) + 1 = k
      BY <1>1, <2>4
    <3>. QED
      BY <1>3, <2>2, <3>1
  <2>. QED
    BY <1>1, <2>1, <2>3, <2>4
<1>5. CASE VerifiesOnNewChain(r, m)
  <2>1. s.sender_chain # << >>
    BY <1>3, <1>5 DEF VerifiesOnNewChain
  <2>. QED
    BY <1>3, <1>5, <2>1, NewChainKept DEF Readable
<1>6. CASE \E j \in 1..Len(r.receiver_chains) : OpensAlong(r.receiver_chains[j], r, m)
  <2>1. PICK j \in 1..Len(r.receiver_chains) : OpensAlong(r.receiver_chains[j], r, m)
    BY <1>6
  <2>2. CASE VerifiesOnChain(r.receiver_chains[j].chain_key, m)
    BY <1>3, <2>1, <2>2 DEF Readable, OpensAlong
  <2>3. CASE /\ r.receiver_chains[j].chain_key.index > m.counter
             /\ \E k \in 1..Len(keys) : /\ keys[k].ratchet_key = m.ratchet_key
                                        /\ keys[k].message_key = m.key
    <3>1. PICK k \in 1..Len(keys) : /\ keys[k].ratchet_key = m.ratchet_key
                                    /\ keys[k].message_key = m.key
      BY <2>3
    <3>2. PICK l \in 1..Len(s.skipped_message_keys) : s.skipped_message_keys[l] = keys[k]
      BY <1>4, <3>1
    <3>3. OpensAlong(s.receiver_chains[j], s, m)
      <4>1. /\ s.skipped_message_keys[l].ratchet_key = m.ratchet_key
            /\ s.skipped_message_keys[l].message_key = m.key
        BY <3>1, <3>2
      <4>2. s.receiver_chains[j].ratchet_key = m.ratchet_key
        BY <1>3, <2>1 DEF OpensAlong
      <4>. QED
        BY <1>3, <2>3, <4>1, <4>2 DEF OpensAlong
    <3>. QED
      BY <1>3, <3>3 DEF Readable
  <2>. QED
    BY <2>1, <2>2, <2>3 DEF OpensAlong
<1>. QED
  BY <1>5, <1>6 DEF Readable

(* Discards and Gap, of a ratchet. *)
Distance(r, d) ==
  d.counter - (IF HasReceiverChain(r, d)
               THEN r.receiver_chains[ReceiverChain(r, d)].chain_key.index
               ELSE 0)

Discarded(r, d, m) ==
  \/ /\ ~ HasReceiverChain(r, d)
     /\ Len(r.receiver_chains) = MAX_RECEIVER_CHAINS
     /\ r.receiver_chains[Len(r.receiver_chains)].ratchet_key = m.ratchet_key
  \/ /\ d.ratchet_key = m.ratchet_key
     /\ Distance(r, m) >= 0
     /\ d.counter - m.counter > MAX_SKIPPED_MESSAGE_KEYS
  \/ \E i \in DOMAIN r.skipped_message_keys :
       /\ r.skipped_message_keys[i].message_key = m.key
       /\ i + Distance(r, d) > MAX_SKIPPED_MESSAGE_KEYS

(* decrypt keeps every other message that it could read, but those that it *)
(* discards for want of room.                                              *)
LEMMA DecryptKeepsReadable ==
  ASSUME NEW p \in Party, NEW r \in RatchetType, WithinBounds(r), InTurn(r, p),
         NEW d \in Message, OfChain(d.ratchet_key, d.key.key),
         NEW s \in RatchetType, DecryptedTo(r, d, s),
         NEW m \in Message, OfChain(m.ratchet_key, m.key.key), m.key # d.key,
         Readable(r, m), ~ Discarded(r, d, m)
  PROVE  Readable(s, m)
<1>1. /\ Len(r.skipped_message_keys) \in Nat /\ Len(r.receiver_chains) \in Nat
      /\ MAX_SKIPPED_MESSAGE_KEYS \in Nat /\ MAX_RECEIVER_CHAINS \in Nat
      /\ d.counter \in Nat /\ m.counter \in Nat
      /\ DOMAIN r.skipped_message_keys = 1..Len(r.skipped_message_keys)
  BY Stored, RatchetConstants DEF Message, RatchetType
<1>2. CASE VerifiesOnNewChain(r, d) /\ s = DecryptedOnNewChain(r, d)
  <2> DEFINE w == WithNewReceiverChain(r, d)
  <2>1. ~ HasReceiverChain(r, d)
    BY <1>2 DEF VerifiesOnNewChain
  <2>2. /\ Len(r.receiver_chains) = MAX_RECEIVER_CHAINS =>
             r.receiver_chains[Len(r.receiver_chains)].ratchet_key # m.ratchet_key
        /\ \A k \in 1..Len(r.skipped_message_keys) :
             r.skipped_message_keys[k].message_key = m.key =>
               d.counter + k <= MAX_SKIPPED_MESSAGE_KEYS
        /\ d.ratchet_key = m.ratchet_key => d.counter - m.counter <= MAX_SKIPPED_MESSAGE_KEYS
    <3>1. Distance(r, d) = d.counter
      BY <1>1, <2>1 DEF Distance
    <3>2. d.ratchet_key = m.ratchet_key => Distance(r, m) = m.counter
      BY <1>1, <2>1 DEF Distance, HasReceiverChain, ChainsFor
    <3>3. \A k \in 1..Len(r.skipped_message_keys) :
            r.skipped_message_keys[k].message_key = m.key =>
              ~ (k + d.counter > MAX_SKIPPED_MESSAGE_KEYS)
      BY <1>1, <3>1 DEF Discarded
    <3>4. d.ratchet_key = m.ratchet_key => ~ (d.counter - m.counter > MAX_SKIPPED_MESSAGE_KEYS)
      BY <1>1, <3>2 DEF Discarded
    <3>5. Len(r.receiver_chains) = MAX_RECEIVER_CHAINS =>
            r.receiver_chains[Len(r.receiver_chains)].ratchet_key # m.ratchet_key
      BY <2>1 DEF Discarded
    <3>. QED
      BY <1>1, <3>3, <3>4, <3>5
  <2>3. /\ w \in RatchetType
        /\ w.skipped_message_keys = r.skipped_message_keys
    <3>1. r.sender_chain # << >>
      BY <1>2 DEF VerifiesOnNewChain
    <3>. QED
      BY <3>1, Channel_WithNewReceiverChainProperties, ZenonT(30)
  <2>4. Verified(w, 1, d)
    BY <1>2, NewChainVerifies
  <2>5. /\ w.receiver_chains[1].ratchet_key = d.ratchet_key
        /\ w.receiver_chains[1].chain_key.index = 0
        /\ \E j \in 1..Len(w.receiver_chains) : OpensAlong(w.receiver_chains[j], w, m)
    BY <1>2, <2>2, NewChainKeepsReadable
  <2>6. s = DecryptedOnChain(w, 1, d)
    BY <1>2 DEF DecryptedOnNewChain
  <2>. HIDE DEF w
  <2>7. PICK j \in 1..Len(w.receiver_chains) : OpensAlong(w.receiver_chains[j], w, m)
    BY <2>5
  <2>8. PICK new : new = d.counter - w.receiver_chains[1].chain_key.index
    OBVIOUS
  <2>9. /\ j = 1 => d.counter - m.counter <= MAX_SKIPPED_MESSAGE_KEYS
        /\ \A k \in 1..Len(w.skipped_message_keys) :
             w.skipped_message_keys[k].message_key = m.key =>
               new + k <= MAX_SKIPPED_MESSAGE_KEYS
    <3>1. new = d.counter
      BY <1>1, <2>5, <2>8
    <3>2. w.receiver_chains[j].ratchet_key = m.ratchet_key
      BY <2>7 DEF OpensAlong
    <3>. QED
      BY <2>2, <2>3, <2>5, <3>1, <3>2
  <2>10. j \in 1..Len(s.receiver_chains) /\ OpensAlong(s.receiver_chains[j], s, m)
    <3>1. PICK i : i = 1
      OBVIOUS
    <3>2. /\ Verified(w, i, d)
          /\ w.receiver_chains[i].ratchet_key = d.ratchet_key
          /\ new = d.counter - w.receiver_chains[i].chain_key.index
          /\ s = DecryptedOnChain(w, i, d)
          /\ j = i => d.counter - m.counter <= MAX_SKIPPED_MESSAGE_KEYS
      BY <2>4, <2>5, <2>6, <2>8, <2>9, <3>1
    <3>. QED
      BY <2>3, <2>7, <2>9, <3>2, OnChainKeepsReadable
  <2>. QED
    BY <2>10 DEF Readable
<1>3. CASE VerifiesOnExistingChain(r, d) /\ s = DecryptedOnExistingChain(r, d)
  <2> DEFINE i == ReceiverChain(r, d)
  <2>1. Verified(r, i, d) /\ s = DecryptedOnChain(r, i, d)
    BY <1>3, ExistingChainVerifies DEF DecryptedOnExistingChain
  <2>2. /\ r.receiver_chains[i].ratchet_key = d.ratchet_key
        /\ r.receiver_chains[i].chain_key.index \in Nat
    BY <1>3, Channel_ReceiverChainInDomain, Stored DEF VerifiesOnExistingChain
  <2>3. /\ Distance(r, d) = d.counter - r.receiver_chains[i].chain_key.index
        /\ d.ratchet_key = m.ratchet_key =>
             Distance(r, m) = m.counter - r.receiver_chains[i].chain_key.index
    BY <1>3 DEF VerifiesOnExistingChain, Distance, HasReceiverChain, ReceiverChain, ChainsFor
  <2>. HIDE DEF i
  <2>4. PICK new : new = d.counter - r.receiver_chains[i].chain_key.index
    OBVIOUS
  <2>5. /\ d.ratchet_key = m.ratchet_key /\ r.receiver_chains[i].chain_key.index <= m.counter =>
             d.counter - m.counter <= MAX_SKIPPED_MESSAGE_KEYS
        /\ \A k \in 1..Len(r.skipped_message_keys) :
             r.skipped_message_keys[k].message_key = m.key =>
               new + k <= MAX_SKIPPED_MESSAGE_KEYS
    <3>1. \A k \in 1..Len(r.skipped_message_keys) :
            r.skipped_message_keys[k].message_key = m.key =>
              ~ (k + Distance(r, d) > MAX_SKIPPED_MESSAGE_KEYS)
      BY <1>1 DEF Discarded
    <3>2. d.ratchet_key = m.ratchet_key /\ Distance(r, m) >= 0 =>
            ~ (d.counter - m.counter > MAX_SKIPPED_MESSAGE_KEYS)
      BY DEF Discarded
    <3>. QED
      BY <1>1, <2>2, <2>3, <2>4, <3>1, <3>2
  <2>6. CASE VerifiesOnNewChain(r, m)
    <3>1. s.root_key = r.root_key /\ s.sender_chain = r.sender_chain
      BY <2>1 DEF DecryptedOnChain, RatchetType
    <3>2. Len(s.receiver_chains) = Len(r.receiver_chains)
      BY <2>1 DEF DecryptedOnChain, RatchetType
    <3>3. \A j \in 1..Len(r.receiver_chains) :
            s.receiver_chains[j].ratchet_key = r.receiver_chains[j].ratchet_key
      BY <2>1, <2>4, OnChainRatchetKeys
    <3>4. s.sender_chain # << >>
      BY <2>6, <3>1 DEF VerifiesOnNewChain
    <3>. QED
      BY <2>6, <3>1, <3>2, <3>3, <3>4, NewChainKept DEF Readable
  <2>7. CASE \E j \in 1..Len(r.receiver_chains) : OpensAlong(r.receiver_chains[j], r, m)
    <3>1. PICK j \in 1..Len(r.receiver_chains) : OpensAlong(r.receiver_chains[j], r, m)
      BY <2>7
    <3>2. r.receiver_chains[j].ratchet_key = m.ratchet_key
      BY <3>1 DEF OpensAlong
    <3>3. j = i /\ r.receiver_chains[i].chain_key.index <= m.counter =>
            d.counter - m.counter <= MAX_SKIPPED_MESSAGE_KEYS
      BY <2>2, <2>5, <3>2
    <3>4. j \in 1..Len(s.receiver_chains) /\ OpensAlong(s.receiver_chains[j], s, m)
      BY <2>1, <2>2, <2>4, <2>5, <3>1, <3>3, OnChainKeepsReadable
    <3>. QED
      BY <3>4 DEF Readable
  <2>. QED
    BY <2>6, <2>7 DEF Readable
<1>4. CASE VerifiesWithSkippedKey(r, d) /\ s = DecryptedWithSkippedKey(r, d)
  BY <1>4, SkippedKeepsReadable
<1>. QED
  BY <1>2, <1>3, <1>4 DEF DecryptedTo

(* encrypt and the calls that fail touch nothing that decrypt needs. *)
LEMMA OthersKeepReadable ==
  ASSUME NEW r \in RatchetType, NEW s \in RatchetType,
         s.receiver_chains = r.receiver_chains,
         s.skipped_message_keys = r.skipped_message_keys,
         r.sender_chain # << >> =>
           /\ s.root_key = r.root_key
           /\ s.sender_chain # << >>
           /\ s.sender_chain[1].ratchet_key = r.sender_chain[1].ratchet_key,
         NEW m, Readable(r, m)
  PROVE  Readable(s, m)
<1>1. CASE VerifiesOnNewChain(r, m)
  <2>1. r.sender_chain # << >>
    BY <1>1 DEF VerifiesOnNewChain
  <2>. QED
    BY <1>1, <2>1, NewChainKept DEF Readable
<1>2. CASE \E j \in 1..Len(r.receiver_chains) : OpensAlong(r.receiver_chains[j], r, m)
  BY <1>2 DEF Readable, OpensAlong
<1>. QED
  BY <1>1, <1>2 DEF Readable

LEMMA EncryptKeepsReadable ==
  ASSUME NEW r \in RatchetType, WithinBounds(r), NEW fresh \in RatchetKey,
         NEW s \in RatchetType, s = Encrypted(r, fresh),
         NEW m, Readable(r, m)
  PROVE  Readable(s, m)
<1>1. 0 \in Nat
  OBVIOUS
<1>2. /\ s.receiver_chains = r.receiver_chains
      /\ s.skipped_message_keys = r.skipped_message_keys
  BY <1>1, Channel_EncryptedProperties
<1>3. PICK chain : SentOn(chain, r, fresh, 0, s, EncryptedMessage(r, fresh, 0))
  BY EncryptedChain
<1>4. ASSUME r.sender_chain # << >>
      PROVE  /\ s.root_key = r.root_key
             /\ s.sender_chain # << >>
             /\ s.sender_chain[1].ratchet_key = r.sender_chain[1].ratchet_key
  BY <1>3, <1>4 DEF SentOn
<1>. QED
  BY <1>2, <1>4, OthersKeepReadable

(* What a step makes of the ratchet r of p, with what it delivers. *)
Stepped(p, r, s) ==
  \/ /\ s.receiver_chains = r.receiver_chains
     /\ s.skipped_message_keys = r.skipped_message_keys
     /\ s.root_key = r.root_key
     /\ s.sender_chain = r.sender_chain
  \/ \E fresh \in RatchetKey : s = Encrypted(r, fresh)
  \/ \E d \in Arriving : DecryptedTo(r, d, s) /\ d \in delivered'[p]

LEMMA StepOf ==
  ASSUME TypeOK, [Next]_vars, NEW p \in Party
  PROVE  Stepped(p, ratchet[p], ratchet'[p])
<1> DEFINE r == ratchet[p]
<1>1. r \in RatchetType /\ ratchet \in [Party -> RatchetType]
  BY DEF TypeOK
<1>2. ASSUME NEW error, ratchet' = [ratchet EXCEPT ![p] = Failed(@, error)]
      PROVE  Stepped(p, r, ratchet'[p])
  <2>1. ratchet'[p] = [r EXCEPT !.last_error = error]
    BY <1>1, <1>2 DEF Failed
  <2>. QED
    BY <1>1, <2>1 DEF Stepped, RatchetType
<1>3. ASSUME ratchet'[p] = r
      PROVE  Stepped(p, r, ratchet'[p])
  BY <1>3 DEF Stepped
<1>4. CASE Next
  <2>1. PICK q \in Party :
          \/ Encrypt(q)
          \/ \E error \in Error : EncryptFails(q, error) \/ DecryptUnreadable(q, error)
          \/ \E m \in Arriving : Decrypt(q, m)
    BY <1>4 DEF Next
  <2>2. CASE Encrypt(q)
    <3>1. FreshKey(q) \in RatchetKey
      BY DEF TypeOK, FreshKey, RatchetKey
    <3>2. ratchet'[p] = IF p = q THEN Encrypted(r, FreshKey(q)) ELSE r
      BY <1>1, <2>2 DEF Encrypt
    <3>. QED
      BY <1>3, <3>1, <3>2 DEF Stepped
  <2>3. CASE \E error \in Error : EncryptFails(q, error) \/ DecryptUnreadable(q, error)
    <3>1. PICK error \in Error : EncryptFails(q, error) \/ DecryptUnreadable(q, error)
      BY <2>3
    <3>2. ratchet' = [ratchet EXCEPT ![q] = Failed(@, error)]
      BY <3>1 DEF EncryptFails, DecryptUnreadable
    <3>3. p # q => ratchet'[p] = r
      BY <1>1, <3>2
    <3>. QED
      BY <1>2, <1>3, <3>2, <3>3
  <2>4. CASE \E m \in Arriving : Decrypt(q, m)
    <3>1. PICK m \in Arriving : Decrypt(q, m)
      BY <2>4
    <3>2. CASE DecryptRejected(q, m)
      <4>1. ratchet' = [ratchet EXCEPT ![q] = Failed(@, "BAD_MESSAGE_MAC")]
        BY <3>2 DEF DecryptRejected
      <4>2. p # q => ratchet'[p] = r
        BY <1>1, <4>1
      <4>. QED
        BY <1>2, <1>3, <4>1, <4>2
    <3>3. CASE \E s : /\ DecryptedTo(ratchet[q], m, s)
                      /\ ratchet' = [ratchet EXCEPT ![q] = s]
                      /\ Deliver(q, m)
      <4>1. PICK s : /\ DecryptedTo(ratchet[q], m, s)
                     /\ ratchet' = [ratchet EXCEPT ![q] = s]
                     /\ Deliver(q, m)
        BY <3>3
      <4>2. m \in delivered'[q]
        BY <4>1 DEF Deliver, TypeOK
      <4>3. ratchet'[p] = IF p = q THEN s ELSE r
        BY <1>1, <4>1
      <4>. QED
        BY <1>3, <4>1, <4>2, <4>3 DEF Stepped
    <3>. QED
      BY <3>1, <3>2, <3>3
         DEF Decrypt, DecryptNewChain, DecryptExistingChain, DecryptSkipped, DecryptedTo
  <2>. QED
    BY <2>1, <2>2, <2>3, <2>4
<1>5. CASE UNCHANGED vars
  BY <1>3, <1>5 DEF vars
<1>. QED
  BY <1>4, <1>5

(* No step makes a message unreadable, unless it discards what it needs. *)
LEMMA StepKeepsReadable ==
  ASSUME TypeOK, ReplayInv, PairInv, NoReplay, [Next]_vars,
         NEW p \in Party, NEW m \in SentBy(Peer(p)) \ delivered[p],
         CanDecrypt(ratchet[p], m)
  PROVE  \/ CanDecrypt(ratchet'[p], m)
         \/ \E d \in delivered'[p] \ delivered[p] : d = m \/ Discards(p, d, m)
<1>1. PICK r : r = ratchet[p]
  OBVIOUS
<1>2. PICK s : s = ratchet'[p]
  OBVIOUS
<1>3. r \in RatchetType /\ WithinBounds(r) /\ InTurn(r, p) /\ DistinctKeys(r)
  BY <1>1, PairOf DEF ReplayInv, ReplaySafe
<1>4. s \in RatchetType /\ InTurn(s, p) /\ DistinctKeys(s)
  <2>1. TypeOK' /\ PairInv' /\ ReplayInv'
    BY StepKeeps, StepKeepsPair
  <2>. QED
    BY <1>2, <2>1 DEF TypeOK, PairInv, ReplayInv, ReplaySafe
<1>5. /\ m \in sent /\ m \in Message
      /\ OfChain(m.ratchet_key, m.key.key)
      /\ m.key.index = m.counter
  BY SentOf DEF SentBy
<1>6. Readable(r, m)
  BY <1>1, <1>3, <1>5, ReadableIsDecryptable
<1>7. Readable(s, m) => CanDecrypt(ratchet'[p], m)
  BY <1>2, <1>4, <1>5, ReadableIsDecryptable
<1>8. Stepped(p, r, s)
  BY <1>1, <1>2, StepOf
<1>9. CASE /\ s.receiver_chains = r.receiver_chains
           /\ s.skipped_message_keys = r.skipped_message_keys
           /\ s.root_key = r.root_key
           /\ s.sender_chain = r.sender_chain
  BY <1>3, <1>4, <1>6, <1>7, <1>9, OthersKeepReadable
<1>10. CASE \E fresh \in RatchetKey : s = Encrypted(r, fresh)
  BY <1>3, <1>4, <1>6, <1>7, <1>10, EncryptKeepsReadable
<1>11. CASE \E d \in Arriving : DecryptedTo(r, d, s) /\ d \in delivered'[p]
  <2>1. PICK d \in Arriving : DecryptedTo(r, d, s) /\ d \in delivered'[p]
    BY <1>11
  <2>2. CanDecrypt(r, d)
    BY <2>1 DEF CanDecrypt, DecryptedTo
  <2>3. d \notin delivered[p]
    BY <1>1, <2>2 DEF NoReplay
  <2>4. d \in sent /\ d \in Message /\ OfChain(d.ratchet_key, d.key.key)
    BY <1>1, <2>2, DecryptsTheOther
  <2>5. CASE d = m
    BY <2>1, <2>3, <2>5
  <2>6. CASE Discarded(r, d, m)
    <3>1. Discards(p, d, m)
      BY <1>1, <2>6 DEF Discarded, Distance, Discards, Gap
    <3>. QED
      BY <2>1, <2>3, <3>1
  <2>7. CASE d # m /\ ~ Discarded(r, d, m)
    <3>1. m.key # d.key
      BY <1>5, <2>4, <2>7 DEF PairInv, Different
    <3>2. Readable(s, m)
      BY <1>3, <1>4, <1>5, <1>6, <2>1, <2>4, <2>7, <3>1, DecryptKeepsReadable
    <3>. QED
      BY <1>7, <3>2
  <2>. QED
    BY <2>5, <2>6, <2>7
<1>. QED
  BY <1>8, <1>9, <1>10, <1>11 DEF Stepped

(* A message that decrypt would accept is kept until a full list discards  *)
(* its own chain or key.                                                   *)
THEOREM KeptUntilDiscardedHolds == Spec => KeptUntilDiscarded
<1>1. ASSUME TypeOK, ReplayInv, PairInv, NoReplay, [Next]_vars
      PROVE  KeptUnlessDiscarded
  BY <1>1, StepKeepsReadable DEF KeptUnlessDiscarded
<1>. QED
  BY <1>1, TypeCorrect, ReplayInvariant, PairInvariant, NoReplayHolds, PTL
     DEF Spec, KeptUntilDiscarded

=============================================================================
