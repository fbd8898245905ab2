--------------------------- MODULE Ratchet_proofs ---------------------------
(***************************************************************************)
(* Lemmas about a single ratchet, whatever its keys and its messages are:  *)
(* what each call does to the lists, and why a ratchet that is past every  *)
(* key it has used stays so.  The proofs about two ratchets and about      *)
(* sessions both rest on them.                                             *)
(***************************************************************************)
EXTENDS Ratchet, SequenceTheorems, WellFoundedInduction, TLAPS

(***************************************************************************)
(* Types, for a set K of ratchet keys and a set P of plaintexts.           *)
(***************************************************************************)
Histories(K) == Seq(SUBSET K)
ChainKeys(K) == [key : Histories(K), index : Nat]
MessageKeys(K) == ChainKeys(K)
SenderChains(K) == [ratchet_key : K, chain_key : ChainKeys(K)]
ReceiverChains(K) == [ratchet_key : K, chain_key : ChainKeys(K)]
SkippedMessageKeys(K) == [ratchet_key : K, message_key : MessageKeys(K)]
Messages(K, P) == [ratchet_key : K, counter : Nat, key : MessageKeys(K), plaintext : P]

Ratchets(K) ==
  [root_key             : Histories(K),
   sender_chain         : Seq(SenderChains(K)),
   receiver_chains      : Seq(ReceiverChains(K)),
   skipped_message_keys : Seq(SkippedMessageKeys(K)),
   last_error           : Error]

(***************************************************************************)
(* Lists.                                                                  *)
(***************************************************************************)

(* Insertion at the front of a list (List::insert) keeps the newest        *)
(* elements in front of the oldest, within the storage of the list.        *)
LEMMA InsertFirstAllProperties ==
  ASSUME NEW S, NEW list \in Seq(S), NEW values \in Seq(S), NEW max \in Nat
  PROVE  LET new == InsertFirstAll(list, max, values)
         IN  /\ new \in Seq(S)
             /\ Len(new) <= max
             /\ Len(new) <= Len(values) + Len(list)
             /\ \A j \in 1..Len(new) :
                  \/ j <= Len(values) /\ new[j] = values[Len(values) - j + 1]
                  \/ /\ j > Len(values)
                     /\ j - Len(values) \in 1..Len(list)
                     /\ new[j] = list[j - Len(values)]
  BY SMTT(30) DEF InsertFirstAll, Truncate, Reverse

LEMMA InsertFirstProperties ==
  ASSUME NEW S, NEW list \in Seq(S), NEW value \in S, NEW max \in Nat \ {0}
  PROVE  LET new == InsertFirst(list, max, value)
         IN  /\ new \in Seq(S)
             /\ 1 <= Len(new) /\ Len(new) <= max
             /\ new[1] = value
             /\ \A j \in 2..Len(new) : j - 1 \in 1..Len(list) /\ new[j] = list[j - 1]
  BY DEF InsertFirst, Truncate

(* List::erase removes one element and keeps the order of the others. *)
LEMMA EraseProperties ==
  ASSUME NEW S, NEW list \in Seq(S), NEW pos \in 1..Len(list)
  PROVE  /\ Erase(list, pos) \in Seq(S)
         /\ Len(Erase(list, pos)) = Len(list) - 1
         /\ \A j \in 1..(Len(list) - 1) :
              Erase(list, pos)[j] = IF j < pos THEN list[j] ELSE list[j + 1]
<1> DEFINE a == SubSeq(list, 1, pos - 1)
           b == SubSeq(list, pos + 1, Len(list))
<1>1. /\ a \in Seq(S) /\ Len(a) = pos - 1
      /\ \A j \in 1..(pos - 1) : a[j] = list[j]
  OBVIOUS
<1>2. /\ b \in Seq(S) /\ Len(b) = Len(list) - pos
      /\ \A j \in 1..(Len(list) - pos) : b[j] = list[pos + j]
  OBVIOUS
<1>3. Erase(list, pos) = a \o b
  BY DEF Erase, RemoveAt
<1>. HIDE DEF a, b
<1>4. /\ a \o b \in Seq(S)
      /\ Len(a \o b) = Len(a) + Len(b)
      /\ \A j \in 1..(Len(a) + Len(b)) :
           (a \o b)[j] = IF j <= Len(a) THEN a[j] ELSE b[j - Len(a)]
  BY <1>1, <1>2, ConcatProperties
<1>. QED
  BY <1>1, <1>2, <1>3, <1>4

(* The first of the positions that fit, which the loops of decrypt stop at. *)
LEMMA MinProperties ==
  ASSUME NEW T, T \subseteq Nat, T # {}
  PROVE  /\ Min(T) \in T
         /\ \A t \in T : Min(T) <= t
<1> DEFINE Less == { pair \in Nat \X Nat : pair[1] < pair[2] }
<1>1. IsWellFoundedOn(Less, Nat)
  BY NatLessThanWellFounded, Zenon DEF OpToRel
<1>2. \E s \in T : \A t \in T : s <= t
  <2>1. PICK s \in T : \A t \in T : ~ (<<t, s>> \in Less)
    BY <1>1, WFMin
  <2>2. ASSUME NEW t \in T
        PROVE  s <= t
    <3>1. <<t, s>> \in Nat \X Nat /\ s \in Nat /\ t \in Nat
      OBVIOUS
    <3>2. ~ (t < s)
      BY <2>1, <3>1
    <3>. QED
      BY <3>1, <3>2
  <2>. QED
    BY <2>2
<1>. QED
  BY <1>2 DEF Min

(***************************************************************************)
(* Types: each step of a ratchet gives a ratchet whose lists fit.          *)
(***************************************************************************)
LEMMA create_chain_keyType ==
  ASSUME NEW K,
         NEW root_key \in Histories(K), NEW our \in K, NEW their \in K
  PROVE  LET new == create_chain_key(root_key, our, their)
         IN  /\ new.root_key \in Histories(K)
             /\ Len(new.root_key) = Len(root_key) + 1
             /\ new.chain_key \in ChainKeys(K)
             /\ new.chain_key.key = new.root_key
             /\ new.chain_key.index = 0
  BY DEF create_chain_key, SharedSecret, Histories, ChainKeys

LEMMA ChainKeySteps ==
  ASSUME NEW K,
         NEW chain_key \in ChainKeys(K), NEW counter \in Nat
  PROVE  /\ AdvancedTo(chain_key, counter) = [key |-> chain_key.key, index |-> counter]
         /\ advance_chain_key(AdvancedTo(chain_key, counter)) =
              [key |-> chain_key.key, index |-> counter + 1]
         /\ [key |-> chain_key.key, index |-> counter] \in ChainKeys(K)
         /\ [key |-> chain_key.key, index |-> counter + 1] \in ChainKeys(K)
<1>1. AdvancedTo(chain_key, counter) = [key |-> chain_key.key, index |-> counter]
  BY DEF AdvancedTo, ChainKeys
<1>2. advance_chain_key([key |-> chain_key.key, index |-> counter]) =
        [key |-> chain_key.key, index |-> counter + 1]
  BY DEF advance_chain_key
<1>. QED
  BY <1>1, <1>2 DEF ChainKeys

LEMMA SkippedKeysType ==
  ASSUME NEW K,
         NEW chain \in ReceiverChains(K), NEW counter \in Nat,
         chain.chain_key.index <= counter
  PROVE  LET keys == SkippedKeys(chain, counter)
         IN  /\ keys \in Seq(SkippedMessageKeys(K))
             /\ Len(keys) = counter - chain.chain_key.index
             /\ \A n \in 1..Len(keys) :
                  keys[n].message_key = [key |-> chain.chain_key.key,
                                         index |-> chain.chain_key.index + n - 1]
<1> DEFINE index == chain.chain_key.index
           element(n) == [ratchet_key |-> chain.ratchet_key,
                          message_key |-> [key |-> chain.chain_key.key,
                                           index |-> index + n - 1]]
<1>1. /\ index \in Nat
      /\ chain.chain_key = [key |-> chain.chain_key.key, index |-> index]
      /\ chain.ratchet_key \in K
      /\ chain.chain_key.key \in Histories(K)
  BY DEF ReceiverChains, ChainKeys
<1>2. \A i : AdvancedTo(chain.chain_key, i) = [key |-> chain.chain_key.key, index |-> i]
  BY <1>1 DEF AdvancedTo
<1>3. SkippedKeys(chain, counter) = [n \in 1..(counter - index) |-> element(n)]
  BY <1>2 DEF SkippedKeys, create_message_keys
<1>4. \A n \in 1..(counter - index) : element(n) \in SkippedMessageKeys(K)
  BY <1>1 DEF SkippedMessageKeys, MessageKeys, ChainKeys
<1>5. [n \in 1..(counter - index) |-> element(n)] \in Seq(SkippedMessageKeys(K))
  BY <1>1, <1>4, IsASeq
<1>. QED
  BY <1>1, <1>3, <1>5

LEMMA ReceiverChainInDomain ==
  ASSUME NEW K, NEW P,
         NEW r \in Ratchets(K), NEW m \in Messages(K, P), HasReceiverChain(r, m)
  PROVE  /\ ReceiverChain(r, m) \in 1..Len(r.receiver_chains)
         /\ r.receiver_chains[ReceiverChain(r, m)].ratchet_key = m.ratchet_key
<1>1. ChainsFor(r, m) \subseteq Nat /\ DOMAIN r.receiver_chains = 1..Len(r.receiver_chains)
  BY DEF ChainsFor, Ratchets
<1>2. ReceiverChain(r, m) \in ChainsFor(r, m)
  BY <1>1, MinProperties DEF HasReceiverChain, ReceiverChain
<1>. QED
  BY <1>1, <1>2 DEF ChainsFor

LEMMA SkippedKeyInDomain ==
  ASSUME NEW K, NEW P,
         NEW r \in Ratchets(K), NEW m \in Messages(K, P), SkippedKeysFor(r, m) # {}
  PROVE  /\ Min(SkippedKeysFor(r, m)) \in 1..Len(r.skipped_message_keys)
         /\ r.skipped_message_keys[Min(SkippedKeysFor(r, m))].message_key = m.key
<1>1. /\ SkippedKeysFor(r, m) \subseteq Nat
      /\ DOMAIN r.skipped_message_keys = 1..Len(r.skipped_message_keys)
  BY DEF SkippedKeysFor, Ratchets
<1>2. Min(SkippedKeysFor(r, m)) \in SkippedKeysFor(r, m)
  BY <1>1, MinProperties
<1>. QED
  BY <1>1, <1>2, ZenonT(30) DEF SkippedKeysFor

LEMMA TypedKeys ==
  ASSUME NEW K, NEW P,
         NEW r \in Ratchets(K), NEW used \in SUBSET Messages(K, P)
  PROVE  /\ Len(r.root_key) \in Nat
         /\ Len(r.receiver_chains) \in Nat
         /\ DOMAIN r.receiver_chains = 1..Len(r.receiver_chains)
         /\ Len(r.skipped_message_keys) \in Nat
         /\ DOMAIN r.skipped_message_keys = 1..Len(r.skipped_message_keys)
         /\ \A j \in 1..Len(r.receiver_chains) :
              /\ r.receiver_chains[j].chain_key.index \in Nat
              /\ Len(r.receiver_chains[j].chain_key.key) \in Nat
         /\ \A j \in 1..Len(r.skipped_message_keys) :
              /\ r.skipped_message_keys[j].message_key.index \in Nat
              /\ Len(r.skipped_message_keys[j].message_key.key) \in Nat
         /\ \A m \in used : m.key.index \in Nat /\ Len(m.key.key) \in Nat
<1>1. /\ r.root_key \in Histories(K)
      /\ r.receiver_chains \in Seq(ReceiverChains(K))
      /\ r.skipped_message_keys \in Seq(SkippedMessageKeys(K))
  BY DEF Ratchets
<1>2. \A h \in Histories(K) : Len(h) \in Nat
  BY DEF Histories
<1>3. \A k \in ChainKeys(K) : k.index \in Nat /\ Len(k.key) \in Nat
  BY <1>2 DEF ChainKeys
<1>4. \A c \in ReceiverChains(K) : c.chain_key \in ChainKeys(K)
  BY DEF ReceiverChains
<1>5. \A c \in SkippedMessageKeys(K) : c.message_key \in ChainKeys(K)
  BY DEF SkippedMessageKeys, MessageKeys
<1>6. \A m \in used : m.key \in ChainKeys(K)
  BY DEF Messages, MessageKeys
<1>7. /\ \A j \in 1..Len(r.receiver_chains) : r.receiver_chains[j] \in ReceiverChains(K)
      /\ \A j \in 1..Len(r.skipped_message_keys) :
           r.skipped_message_keys[j] \in SkippedMessageKeys(K)
  BY <1>1
<1>8. /\ Len(r.receiver_chains) \in Nat
      /\ DOMAIN r.receiver_chains = 1..Len(r.receiver_chains)
      /\ Len(r.skipped_message_keys) \in Nat
      /\ DOMAIN r.skipped_message_keys = 1..Len(r.skipped_message_keys)
  BY <1>1
<1>. QED
  BY <1>1, <1>2, <1>3, <1>4, <1>5, <1>6, <1>7, <1>8

(* The message m is one that the i-th receiver chain of r verifies. *)
Verified(r, i, m) ==
  /\ i \in 1..Len(r.receiver_chains)
  /\ r.receiver_chains[i].chain_key.index <= m.counter
  /\ m.key = [key |-> r.receiver_chains[i].chain_key.key, index |-> m.counter]

(* What decrypt does to the chain of the message and to the skipped keys:  *)
(* new of them are stored in front of the old ones.                        *)
OnChain(r, i, m, s, new) ==
  /\ s.root_key = r.root_key
  /\ s.sender_chain = r.sender_chain
  /\ Len(s.receiver_chains) = Len(r.receiver_chains)
  /\ \A j \in 1..Len(r.receiver_chains) :
       s.receiver_chains[j] =
         IF j = i THEN [ratchet_key |-> r.receiver_chains[i].ratchet_key,
                        chain_key   |-> [key |-> m.key.key, index |-> m.counter + 1]]
                  ELSE r.receiver_chains[j]
  /\ Len(s.skipped_message_keys) <= MAX_SKIPPED_MESSAGE_KEYS
  /\ \A j \in 1..Len(s.skipped_message_keys) :
       j <= new => s.skipped_message_keys[j].message_key =
                     [key |-> m.key.key, index |-> m.counter - j]
  /\ \A j \in 1..Len(s.skipped_message_keys) :
       j > new => /\ j - new \in 1..Len(r.skipped_message_keys)
                  /\ s.skipped_message_keys[j] = r.skipped_message_keys[j - new]

LEMMA DecryptedOnChainProperties ==
  ASSUME NEW K, NEW P,
         NEW r \in Ratchets(K), NEW m \in Messages(K, P), NEW i, Verified(r, i, m),
         NEW s, s = DecryptedOnChain(r, i, m),
         NEW new, new = m.counter - r.receiver_chains[i].chain_key.index
  PROVE  /\ new \in Nat
         /\ s \in Ratchets(K)
         /\ OnChain(r, i, m, s, new)
<1> DEFINE chain == r.receiver_chains[i]
           keys == SkippedKeys(chain, m.counter)
           skipped == InsertFirstAll(r.skipped_message_keys, MAX_SKIPPED_MESSAGE_KEYS, keys)
           past == [key |-> m.key.key, index |-> m.counter + 1]
           chains == [r.receiver_chains EXCEPT ![i].chain_key = past]
<1>. HIDE DEF keys, skipped, past, chains
<1>1. /\ r.receiver_chains \in Seq(ReceiverChains(K))
      /\ r.skipped_message_keys \in Seq(SkippedMessageKeys(K))
      /\ m.counter \in Nat
  BY DEF Ratchets, Messages
<1>2. /\ i \in 1..Len(r.receiver_chains)
      /\ chain.chain_key.index <= m.counter
      /\ m.key = [key |-> chain.chain_key.key, index |-> m.counter]
      /\ new = m.counter - chain.chain_key.index
  BY DEF Verified
<1>3. /\ chain \in ReceiverChains(K)
      /\ chain.chain_key \in ChainKeys(K)
      /\ chain.chain_key.index \in Nat
      /\ m.key.key = chain.chain_key.key
  <2>1. chain \in ReceiverChains(K)
    BY <1>1, <1>2, ElementOfSeq
  <2>2. m.key.key = chain.chain_key.key
    BY <1>2
  <2>. HIDE DEF chain
  <2>. QED
    BY <2>1, <2>2 DEF ReceiverChains, ChainKeys
<1>. HIDE DEF chain
<1>4. /\ new \in Nat
      /\ keys \in Seq(SkippedMessageKeys(K))
      /\ Len(keys) = new
      /\ \A n \in 1..new : keys[n].message_key =
           [key |-> m.key.key, index |-> chain.chain_key.index + n - 1]
  BY <1>1, <1>2, <1>3, SkippedKeysType, SMTT(30) DEF keys
<1>5. /\ skipped \in Seq(SkippedMessageKeys(K))
      /\ Len(skipped) <= MAX_SKIPPED_MESSAGE_KEYS
      /\ \A j \in 1..Len(skipped) :
           \/ j <= new /\ skipped[j] = keys[new - j + 1]
           \/ /\ j > new
              /\ j - new \in 1..Len(r.skipped_message_keys)
              /\ skipped[j] = r.skipped_message_keys[j - new]
  <2>1. MAX_SKIPPED_MESSAGE_KEYS \in Nat
    BY RatchetConstants
  <2>2. /\ skipped \in Seq(SkippedMessageKeys(K))
        /\ Len(skipped) <= MAX_SKIPPED_MESSAGE_KEYS
        /\ \A j \in 1..Len(skipped) :
             \/ j <= Len(keys) /\ skipped[j] = keys[Len(keys) - j + 1]
             \/ /\ j > Len(keys)
                /\ j - Len(keys) \in 1..Len(r.skipped_message_keys)
                /\ skipped[j] = r.skipped_message_keys[j - Len(keys)]
    <3>1. PICK T, list : T = SkippedMessageKeys(K) /\ list = r.skipped_message_keys
      OBVIOUS
    <3>2. /\ list \in Seq(T)
          /\ keys \in Seq(T)
          /\ skipped = InsertFirstAll(list, MAX_SKIPPED_MESSAGE_KEYS, keys)
      BY <1>1, <1>4, <3>1 DEF skipped
    <3>3. /\ skipped \in Seq(T)
          /\ Len(skipped) <= MAX_SKIPPED_MESSAGE_KEYS
          /\ \A j \in 1..Len(skipped) :
               \/ j <= Len(keys) /\ skipped[j] = keys[Len(keys) - j + 1]
               \/ /\ j > Len(keys)
                  /\ j - Len(keys) \in 1..Len(list)
                  /\ skipped[j] = list[j - Len(keys)]
      BY <2>1, <3>2, InsertFirstAllProperties
    <3>. QED
      BY <3>1, <3>3
  <2>. QED
    BY <1>4, <2>2, ZenonT(30)
<1>6. ASSUME NEW j \in 1..Len(skipped), j <= new
      PROVE  keys[new - j + 1].message_key = [key |-> m.key.key, index |-> m.counter - j]
  <2>1. new - j + 1 \in 1..new
    <3>1. \A a, n, b \in Int : b \in 1..n /\ b <= a => a - b + 1 \in 1..a
      OBVIOUS
    <3>2. new \in Int /\ Len(skipped) \in Int /\ j \in Int
      <4>1. new \in Nat /\ skipped \in Seq(SkippedMessageKeys(K))
        BY <1>4, <1>5, Zenon
      <4>. QED
        BY <4>1
    <3>. QED
      BY <1>6, <3>1, <3>2, Zenon
  <2>2. chain.chain_key.index + (new - j + 1) - 1 = m.counter - j
    <3>1. \A c, x, n \in Int : x + ((c - x) - n + 1) - 1 = c - n
      OBVIOUS
    <3>2. m.counter \in Int /\ chain.chain_key.index \in Int /\ j \in Int
      BY <1>1, <1>3
    <3>3. new = m.counter - chain.chain_key.index
      BY <1>2
    <3>. QED
      BY <3>1, <3>2, <3>3
  <2>. QED
    BY <1>4, <2>1, <2>2
<1>7. past \in ChainKeys(K)
  BY <1>1, <1>3, ChainKeySteps DEF past
<1>8. /\ chains \in Seq(ReceiverChains(K))
      /\ Len(chains) = Len(r.receiver_chains)
      /\ \A j \in 1..Len(r.receiver_chains) :
           chains[j] = IF j = i THEN [ratchet_key |-> chain.ratchet_key, chain_key |-> past]
                                ELSE r.receiver_chains[j]
  <2>1. chains = [r.receiver_chains EXCEPT ![i] = [chain EXCEPT !.chain_key = past]]
    BY DEF chains, chain
  <2>2. [chain EXCEPT !.chain_key = past] = [ratchet_key |-> chain.ratchet_key, chain_key |-> past]
    BY <1>3 DEF ReceiverChains
  <2>3. [ratchet_key |-> chain.ratchet_key, chain_key |-> past] \in ReceiverChains(K)
    BY <1>3, <1>7 DEF ReceiverChains
  <2>. QED
    BY <1>1, <1>2, <2>1, <2>2, <2>3, ExceptSeq
<1>9. s = [r EXCEPT !.skipped_message_keys = skipped, !.receiver_chains = chains]
  <2>1. advance_chain_key(AdvancedTo(chain.chain_key, m.counter)) = past
    BY <1>1, <1>3, ChainKeySteps DEF past
  <2>. QED
    BY <2>1 DEF DecryptedOnChain, skipped, keys, chains, chain
<1>10. /\ s.root_key = r.root_key
       /\ s.sender_chain = r.sender_chain
       /\ s.receiver_chains = chains
       /\ s.skipped_message_keys = skipped
       /\ s \in Ratchets(K)
  BY <1>5, <1>8, <1>9 DEF Ratchets
<1>11. /\ \A j \in 1..Len(skipped) : j <= new =>
            skipped[j].message_key = [key |-> m.key.key, index |-> m.counter - j]
       /\ \A j \in 1..Len(skipped) : j > new =>
            /\ j - new \in 1..Len(r.skipped_message_keys)
            /\ skipped[j] = r.skipped_message_keys[j - new]
  <2>1. ASSUME NEW j \in 1..Len(skipped), j <= new
        PROVE  skipped[j].message_key = [key |-> m.key.key, index |-> m.counter - j]
    <3>1. skipped[j] = keys[new - j + 1]
      BY <1>5, <2>1
    <3>2. keys[new - j + 1].message_key = [key |-> m.key.key, index |-> m.counter - j]
      BY <1>6, <2>1
    <3>. QED
      BY <3>1, <3>2
  <2>2. ASSUME NEW j \in 1..Len(skipped), j > new
        PROVE  /\ j - new \in 1..Len(r.skipped_message_keys)
               /\ skipped[j] = r.skipped_message_keys[j - new]
    <3>1. j \in Nat
      BY <1>5
    <3>2. ~(j <= new)
      BY <1>4, <2>2, <3>1
    <3>. QED
      BY <1>5, <2>2, <3>2, Zenon
  <2>. QED
    BY <2>1, <2>2, Zenon
<1>12. OnChain(r, i, m, s, new)
  BY <1>5, <1>8, <1>10, <1>11 DEF past, chain, OnChain
<1>. QED
  BY <1>4, <1>10, <1>12

(* decrypt on a new chain puts it in front of the others; its key is the   *)
(* new root.                                                               *)
NewFront(r, m, s) ==
  /\ s.root_key = NewChain(r, m).root_key
  /\ s.sender_chain = << >>
  /\ s.skipped_message_keys = r.skipped_message_keys
  /\ 1 <= Len(s.receiver_chains)
  /\ Len(s.receiver_chains) <= MAX_RECEIVER_CHAINS
  /\ s.receiver_chains[1] = [ratchet_key |-> m.ratchet_key,
                             chain_key   |-> NewChain(r, m).chain_key]
  /\ NewChain(r, m).chain_key = [key |-> s.root_key, index |-> 0]
  /\ \A j \in 2..Len(s.receiver_chains) :
       /\ j - 1 \in 1..Len(r.receiver_chains)
       /\ s.receiver_chains[j] = r.receiver_chains[j - 1]

(* A new chain is one secret longer than the root it is derived from. *)
LEMMA WithNewReceiverChainProperties ==
  ASSUME NEW K, NEW P,
         NEW r \in Ratchets(K), WithinBounds(r), NEW m \in Messages(K, P), r.sender_chain # << >>,
         NEW s, s = WithNewReceiverChain(r, m)
  PROVE  /\ s \in Ratchets(K)
         /\ NewFront(r, m, s)
         /\ Len(s.root_key) = Len(r.root_key) + 1
<1> DEFINE new == NewChain(r, m)
           chain == [ratchet_key |-> m.ratchet_key, chain_key |-> new.chain_key]
           chains == InsertFirst(r.receiver_chains, MAX_RECEIVER_CHAINS, chain)
<1>. HIDE DEF new, chain, chains
<1>1. /\ r.root_key \in Histories(K)
      /\ r.receiver_chains \in Seq(ReceiverChains(K))
      /\ r.sender_chain \in Seq(SenderChains(K))
      /\ r.sender_chain[1].ratchet_key \in K
      /\ m.ratchet_key \in K
      /\ << >> \in Seq(SenderChains(K))
  <2>1. r.sender_chain \in Seq(SenderChains(K))
    BY DEF Ratchets
  <2>2. 1 \in 1..Len(r.sender_chain)
    BY <2>1, EmptySeq
  <2>3. r.sender_chain[1] \in SenderChains(K)
    BY <2>1, <2>2, ElementOfSeq
  <2>. QED
    BY <2>1, <2>3, EmptySeq DEF Ratchets, Messages, SenderChains
<1>2. /\ new.root_key \in Histories(K)
      /\ Len(new.root_key) = Len(r.root_key) + 1
      /\ new.chain_key \in ChainKeys(K)
      /\ new.chain_key = [key |-> new.root_key, index |-> 0]
  BY <1>1, create_chain_keyType DEF NewChain, new, ChainKeys
<1>3. chain \in ReceiverChains(K) /\ chain.chain_key = new.chain_key
  BY <1>1, <1>2 DEF chain, ReceiverChains
<1>4. /\ chains \in Seq(ReceiverChains(K))
      /\ 1 <= Len(chains) /\ Len(chains) <= MAX_RECEIVER_CHAINS
      /\ chains[1] = chain
      /\ \A j \in 2..Len(chains) : /\ j - 1 \in 1..Len(r.receiver_chains)
                                   /\ chains[j] = r.receiver_chains[j - 1]
  BY <1>1, <1>3, RatchetConstants, InsertFirstProperties, SMTT(60) DEF chains
<1>5. s = [r EXCEPT !.receiver_chains = chains,
                    !.root_key = new.root_key,
                    !.sender_chain = << >>]
  BY DEF WithNewReceiverChain, chains, chain, new
<1>6. /\ s \in Ratchets(K)
      /\ s.root_key = new.root_key
      /\ s.sender_chain = << >>
      /\ s.skipped_message_keys = r.skipped_message_keys
      /\ s.receiver_chains = chains
  BY <1>1, <1>2, <1>4, <1>5 DEF Ratchets
<1>7. NewFront(r, m, s)
  BY <1>2, <1>3, <1>4, <1>6 DEF new, chain, NewFront
<1>. QED
  BY <1>2, <1>6, <1>7

(* encrypt has a sender chain to use, or makes one from the newest         *)
(* receiver chain.                                                         *)
LEMMA WithSenderChainProperties ==
  ASSUME NEW K,
         NEW r \in Ratchets(K), WithinBounds(r), NEW fresh \in K,
         NEW w, w = WithSenderChain(r, fresh)
  PROVE  /\ w \in Ratchets(K)
         /\ Len(w.sender_chain) = 1
         /\ w.sender_chain[1] \in SenderChains(K)
         /\ Len(w.root_key) >= Len(r.root_key)
         /\ w.receiver_chains = r.receiver_chains
         /\ w.skipped_message_keys = r.skipped_message_keys
<1>1. /\ w \in Ratchets(K)
      /\ Len(w.sender_chain) = 1
      /\ Len(w.root_key) >= Len(r.root_key)
      /\ w.receiver_chains = r.receiver_chains
      /\ w.skipped_message_keys = r.skipped_message_keys
  <2>1. CASE r.sender_chain # << >>
    <3>1. w = r
      BY <2>1 DEF WithSenderChain
    <3>2. Len(r.sender_chain) = 1
      <4>1. r.sender_chain \in Seq(SenderChains(K))
        BY DEF Ratchets
      <4>2. Len(r.sender_chain) \in Nat \ {0}
        BY <2>1, <4>1, EmptySeq
      <4>3. Len(r.sender_chain) <= 1
        BY DEF WithinBounds
      <4>4. \A k \in Nat \ {0} : k <= 1 => k = 1
        OBVIOUS
      <4>. QED
        BY <4>2, <4>3, <4>4, Zenon
    <3>3. Len(r.root_key) \in Nat
      BY DEF Ratchets, Histories
    <3>. QED
      BY <3>1, <3>2, <3>3
  <2>2. CASE r.sender_chain = << >>
    <3> DEFINE new == create_chain_key(r.root_key, fresh, r.receiver_chains[1].ratchet_key)
               chain == [ratchet_key |-> fresh, chain_key |-> new.chain_key]
    <3>. HIDE DEF new, chain
    <3>1. r.root_key \in Histories(K) /\ r.receiver_chains[1].ratchet_key \in K
      <4>1. 1 \in 1..Len(r.receiver_chains) /\ r.receiver_chains \in Seq(ReceiverChains(K))
        BY <2>2 DEF WithinBounds, Ratchets
      <4>2. r.receiver_chains[1] \in ReceiverChains(K)
        BY <4>1, ElementOfSeq
      <4>. QED
        BY <4>2 DEF Ratchets, ReceiverChains
    <3>2. /\ new.root_key \in Histories(K)
          /\ Len(new.root_key) = Len(r.root_key) + 1
          /\ new.chain_key \in ChainKeys(K)
      BY <3>1, create_chain_keyType DEF new
    <3>3. Len(r.root_key) \in Nat
      BY <3>1 DEF Histories
    <3>4. chain \in SenderChains(K)
      BY <3>2 DEF chain, SenderChains
    <3>5. w = [r EXCEPT !.root_key = new.root_key, !.sender_chain = << chain >>]
      BY <2>2 DEF WithSenderChain, new, chain
    <3>6. /\ w \in Ratchets(K)
          /\ w.sender_chain = << chain >>
          /\ w.root_key = new.root_key
          /\ w.receiver_chains = r.receiver_chains
          /\ w.skipped_message_keys = r.skipped_message_keys
      <4>1. << chain >> \in Seq(SenderChains(K))
        BY <3>4
      <4>. QED
        BY <3>2, <3>5, <4>1 DEF Ratchets
    <3>. QED
      BY <3>2, <3>3, <3>6
  <2>. QED
    BY <2>1, <2>2
<1>2. w.sender_chain[1] \in SenderChains(K)
  <2>1. w.sender_chain \in Seq(SenderChains(K)) /\ 1 \in 1..Len(w.sender_chain)
    BY <1>1 DEF Ratchets
  <2>. QED
    BY <2>1, ElementOfSeq
<1>. QED
  BY <1>1, <1>2

(* encrypt uses the first key of the sender chain and moves past it. *)
Sends(w, chain, s) ==
  /\ s.sender_chain = << [ratchet_key |-> chain.ratchet_key,
                          chain_key |-> [key   |-> chain.chain_key.key,
                                         index |-> chain.chain_key.index + 1]] >>
  /\ s.root_key = w.root_key
  /\ s.receiver_chains = w.receiver_chains
  /\ s.skipped_message_keys = w.skipped_message_keys

LEMMA EncryptedSenderChain ==
  ASSUME NEW K,
         NEW r \in Ratchets(K), WithinBounds(r), NEW fresh \in K,
         NEW w, w = WithSenderChain(r, fresh),
         NEW chain, chain = w.sender_chain[1],
         NEW s, s = Encrypted(r, fresh)
  PROVE  s \in Ratchets(K) /\ Sends(w, chain, s)
<1> DEFINE past == [ratchet_key |-> chain.ratchet_key,
                    chain_key |-> [key   |-> chain.chain_key.key,
                                   index |-> chain.chain_key.index + 1]]
<1>1. w \in Ratchets(K) /\ chain \in SenderChains(K)
  BY WithSenderChainProperties
<1>2. past \in SenderChains(K)
  BY <1>1 DEF SenderChains, ChainKeys
<1>3. [chain EXCEPT !.chain_key = advance_chain_key(@)] = past
  BY <1>1 DEF SenderChains, ChainKeys, advance_chain_key
<1>. HIDE DEF past
<1>4. s = [w EXCEPT !.sender_chain = << past >>]
  BY <1>3 DEF Encrypted
<1>5. << past >> \in Seq(SenderChains(K))
  BY <1>2
<1>6. /\ s \in Ratchets(K)
      /\ s.sender_chain = << past >>
      /\ s.root_key = w.root_key
      /\ s.receiver_chains = w.receiver_chains
      /\ s.skipped_message_keys = w.skipped_message_keys
  BY <1>1, <1>4, <1>5 DEF Ratchets
<1>. QED
  BY <1>6 DEF past, Sends

LEMMA EncryptedProperties ==
  ASSUME NEW K,
         NEW r \in Ratchets(K), WithinBounds(r), NEW fresh \in K,
         NEW s, s = Encrypted(r, fresh)
  PROVE  /\ s \in Ratchets(K)
         /\ WithinBounds(s)
         /\ Len(s.root_key) >= Len(r.root_key)
         /\ s.receiver_chains = r.receiver_chains
         /\ s.skipped_message_keys = r.skipped_message_keys
<1>1. PICK w, chain : /\ w = WithSenderChain(r, fresh)
                      /\ chain = w.sender_chain[1]
  OBVIOUS
<1>2. /\ w \in Ratchets(K)
      /\ Len(w.root_key) >= Len(r.root_key)
      /\ w.receiver_chains = r.receiver_chains
      /\ w.skipped_message_keys = r.skipped_message_keys
  BY <1>1, WithSenderChainProperties
<1>3. s \in Ratchets(K) /\ Sends(w, chain, s)
  BY <1>1, EncryptedSenderChain
<1>4. WithinBounds(s)
  BY <1>2, <1>3 DEF WithinBounds, Sends
<1>. QED
  BY <1>2, <1>3, <1>4 DEF Sends

(* The message carries the key that encrypt used. *)
LEMMA EncryptedMessageProperties ==
  ASSUME NEW K, NEW P,
         NEW r \in Ratchets(K), WithinBounds(r), NEW fresh \in K, NEW plaintext \in P,
         NEW chain, chain = WithSenderChain(r, fresh).sender_chain[1],
         NEW m, m = EncryptedMessage(r, fresh, plaintext)
  PROVE  /\ m \in Messages(K, P)
         /\ m.ratchet_key = chain.ratchet_key
         /\ m.counter = chain.chain_key.index
         /\ m.key = chain.chain_key
         /\ m.plaintext = plaintext
<1>1. chain \in SenderChains(K)
  BY WithSenderChainProperties
<1>2. m = [ratchet_key |-> chain.ratchet_key, counter |-> chain.chain_key.index,
           key |-> chain.chain_key, plaintext |-> plaintext]
  BY DEF EncryptedMessage, create_message_keys
<1>. QED
  BY <1>1, <1>2 DEF SenderChains, ChainKeys, MessageKeys, Messages

(***************************************************************************)
(* Every branch of decrypt keeps the types, and the inductive form of      *)
(* NoReplay.                                                               *)
(***************************************************************************)
(* A decrypt that succeeds with a skipped key. *)
LEMMA SkippedKeyUsed ==
  ASSUME NEW K, NEW P,
         NEW r \in Ratchets(K), WithinBounds(r), NEW m \in Messages(K, P),
         VerifiesWithSkippedKey(r, m),
         NEW used \in SUBSET Messages(K, P)
  PROVE  LET s == DecryptedWithSkippedKey(r, m)
         IN  /\ s \in Ratchets(K)
             /\ WithinBounds(s)
             /\ ReplaySafe(r, used) => ReplaySafe(s, used \cup {m})
<1> DEFINE pos == Min(SkippedKeysFor(r, m))
           keys == r.skipped_message_keys
           left == Erase(keys, pos)
           s == DecryptedWithSkippedKey(r, m)
<1>. HIDE DEF pos, keys, left, s
<1>1. /\ keys \in Seq(SkippedMessageKeys(K))
      /\ pos \in 1..Len(keys)
      /\ keys[pos].message_key = m.key
  <2>1. SkippedKeysFor(r, m) # {}
    BY DEF VerifiesWithSkippedKey
  <2>. QED
    BY <2>1, SkippedKeyInDomain DEF pos, keys, Ratchets
<1>2. /\ left \in Seq(SkippedMessageKeys(K))
      /\ Len(left) = Len(keys) - 1
      /\ \A j \in 1..Len(left) : left[j] = IF j < pos THEN keys[j] ELSE keys[j + 1]
  BY <1>1, EraseProperties DEF left
<1>3. s = [r EXCEPT !.skipped_message_keys = left]
  BY DEF s, DecryptedWithSkippedKey, left, keys, pos
<1>4. /\ s \in Ratchets(K)
      /\ s.root_key = r.root_key
      /\ s.sender_chain = r.sender_chain
      /\ s.receiver_chains = r.receiver_chains
      /\ s.skipped_message_keys = left
  BY <1>2, <1>3 DEF Ratchets
<1>5. WithinBounds(s)
  <2>1. Len(keys) \in Nat /\ Len(keys) <= MAX_SKIPPED_MESSAGE_KEYS
    BY <1>1 DEF WithinBounds, keys
  <2>2. Len(left) <= MAX_SKIPPED_MESSAGE_KEYS
    BY <1>2, <2>1, RatchetConstants
  <2>. QED
    BY <1>4, <2>2 DEF WithinBounds
<1> DEFINE old(j) == IF j < pos THEN j ELSE j + 1
<1>6. \A j \in 1..Len(left) : /\ old(j) \in 1..Len(keys)
                               /\ old(j) # pos
                               /\ left[j] = keys[old(j)]
  BY <1>1, <1>2
<1>7. \A i, j \in 1..Len(left) : old(i) = old(j) => i = j
  BY <1>1, <1>2
<1>. HIDE DEF old
<1>8. ASSUME ReplaySafe(r, used)
      PROVE  ReplaySafe(s, used \cup {m})
  <2>1. /\ DOMAIN r.skipped_message_keys = 1..Len(keys)
        /\ DOMAIN s.skipped_message_keys = 1..Len(left)
    BY <1>1, <1>2, <1>4 DEF keys
  <2>2. OldKeys(s, used \cup {m})
    BY <1>1, <1>4, <1>6, <1>8, <2>1 DEF ReplaySafe, OldKeys, keys
  <2>3. DistinctKeys(s)
    BY <1>4, <1>6, <1>7, <1>8, <2>1 DEF ReplaySafe, DistinctKeys, keys
  <2>4. ChainsArePast(s, used \cup {m})
    <3>1. ASSUME NEW i \in DOMAIN r.receiver_chains,
                 NEW j \in 1..Len(left),
                 left[j].message_key.key = r.receiver_chains[i].chain_key.key
          PROVE  left[j].message_key.index < r.receiver_chains[i].chain_key.index
      BY <1>6, <1>8, <2>1, <3>1 DEF ReplaySafe, ChainsArePast, keys
    <3>2. ASSUME NEW i \in DOMAIN r.receiver_chains, NEW d \in used \cup {m},
                 d.key.key = r.receiver_chains[i].chain_key.key
          PROVE  d.key.index < r.receiver_chains[i].chain_key.index
      BY <1>1, <1>8, <2>1, <3>2 DEF ReplaySafe, ChainsArePast, keys
    <3>. QED
      BY <1>4, <2>1, <3>1, <3>2 DEF ChainsArePast
  <2>5. UsedNotSkipped(s, used \cup {m})
    <3>1. \A j \in 1..Len(left) : left[j].message_key # m.key
      BY <1>1, <1>6, <1>8, <2>1 DEF ReplaySafe, DistinctKeys, keys
    <3>. QED
      BY <1>4, <1>6, <1>8, <2>1, <3>1 DEF ReplaySafe, UsedNotSkipped, keys
  <2>. QED
    BY <2>2, <2>3, <2>4, <2>5 DEF ReplaySafe
<1>. QED
  BY <1>4, <1>5, <1>8 DEF s

(* decrypt on a chain keeps the lists within their storage. *)
LEMMA OnChainKeepsType ==
  ASSUME NEW K, NEW P,
         NEW r \in Ratchets(K), NEW m \in Messages(K, P), NEW i, Verified(r, i, m),
         NEW s, s = DecryptedOnChain(r, i, m)
  PROVE  /\ s \in Ratchets(K)
         /\ s.sender_chain = r.sender_chain
         /\ Len(s.receiver_chains) = Len(r.receiver_chains)
         /\ Len(s.skipped_message_keys) <= MAX_SKIPPED_MESSAGE_KEYS
<1>1. PICK new : new = m.counter - r.receiver_chains[i].chain_key.index
  OBVIOUS
<1>2. s \in Ratchets(K) /\ OnChain(r, i, m, s, new)
  BY <1>1, DecryptedOnChainProperties
<1>. QED
  BY <1>2 DEF OnChain

(* decrypt on a chain leaves the ratchet past the message. *)
LEMMA OnChainReplaySafe ==
  ASSUME NEW K, NEW P,
         NEW r \in Ratchets(K), NEW m \in Messages(K, P), NEW i, Verified(r, i, m),
         NEW used \in SUBSET Messages(K, P), ReplaySafe(r, used),
         NEW s, s = DecryptedOnChain(r, i, m)
  PROVE  ReplaySafe(s, used \cup {m})
<1> DEFINE chain(j) == r.receiver_chains[j].chain_key
           key(j) == r.skipped_message_keys[j].message_key
           chain_(j) == s.receiver_chains[j].chain_key
           key_(j) == s.skipped_message_keys[j].message_key
           chains == 1..Len(r.receiver_chains)
           old == 1..Len(r.skipped_message_keys)
           stored == 1..Len(s.skipped_message_keys)
           new == m.counter - chain(i).index
<1>1. /\ s \in Ratchets(K)
      /\ s.root_key = r.root_key
      /\ Len(s.receiver_chains) = Len(r.receiver_chains)
      /\ new \in Nat
      /\ \A j \in chains :
           chain_(j) = IF j = i THEN [key |-> m.key.key, index |-> m.counter + 1] ELSE chain(j)
      /\ \A j \in stored : j <= new => key_(j) = [key |-> m.key.key, index |-> m.counter - j]
      /\ \A j \in stored : j > new => j - new \in old /\ key_(j) = key(j - new)
  <2>1. PICK n : n = m.counter - r.receiver_chains[i].chain_key.index
    OBVIOUS
  <2>2. n \in Nat /\ s \in Ratchets(K) /\ OnChain(r, i, m, s, n)
    BY <2>1, DecryptedOnChainProperties
  <2>3. s.root_key = r.root_key /\ Len(s.receiver_chains) = Len(r.receiver_chains)
    BY <2>2 DEF OnChain
  <2>4. \A j \in chains :
          chain_(j) = IF j = i THEN [key |-> m.key.key, index |-> m.counter + 1] ELSE chain(j)
    BY <2>2 DEF OnChain
  <2>5. n = new
    BY <2>1
  <2>6. /\ \A j \in stored : j <= n => key_(j) = [key |-> m.key.key, index |-> m.counter - j]
        /\ \A j \in stored : j > n => j - n \in old /\ key_(j) = key(j - n)
    BY <2>2 DEF OnChain
  <2>. QED
    BY <2>2, <2>3, <2>4, <2>5, <2>6, Zenon
<1>2. /\ DOMAIN r.receiver_chains = chains /\ DOMAIN s.receiver_chains = chains
      /\ DOMAIN r.skipped_message_keys = old /\ DOMAIN s.skipped_message_keys = stored
      /\ Len(r.root_key) \in Nat
      /\ \A j \in chains : chain(j).index \in Nat
      /\ \A j \in old : key(j).index \in Nat
      /\ \A d \in used : d.key.index \in Nat
      /\ stored \subseteq Nat
  <2>. HIDE DEF chains, old, stored, chain, key
  <2>1. /\ DOMAIN r.receiver_chains = chains
        /\ DOMAIN r.skipped_message_keys = old
        /\ Len(r.root_key) \in Nat
        /\ \A j \in chains : chain(j).index \in Nat
        /\ \A j \in old : key(j).index \in Nat
        /\ \A d \in used : d.key.index \in Nat
    BY TypedKeys DEF chains, old, chain, key
  <2>2. /\ DOMAIN s.receiver_chains = chains
        /\ DOMAIN s.skipped_message_keys = stored
    <3>1. s \in Ratchets(K) /\ Len(s.receiver_chains) = Len(r.receiver_chains)
      BY <1>1
    <3>. QED
      BY <3>1, TypedKeys DEF chains, stored
  <2>3. stored \subseteq Nat
    BY DEF stored
  <2>. QED
    BY <2>1, <2>2, <2>3
<1>3. /\ i \in chains
      /\ chain(i).index <= m.counter
      /\ m.key = [key |-> chain(i).key, index |-> m.counter]
      /\ m.counter \in Nat
  BY DEF Verified, Messages
<1>4. new = m.counter - chain(i).index /\ new \in Nat
  BY <1>1
<1>. HIDE DEF chain, key, chain_, key_, chains, old, stored, new
(* What ReplaySafe says of r. *)
<1>5. /\ \A j \in chains : Len(chain(j).key) <= Len(r.root_key)
      /\ \A j \in old : Len(key(j).key) <= Len(r.root_key)
      /\ \A d \in used : Len(d.key.key) <= Len(r.root_key)
  BY <1>2 DEF ReplaySafe, OldKeys, chain, key
<1>6. /\ \A j, k \in chains : chain(j).key = chain(k).key => j = k
      /\ \A j, k \in old : key(j) = key(k) => j = k
  BY <1>2 DEF ReplaySafe, DistinctKeys, chain, key
<1>7. \A j \in chains :
        /\ \A k \in old : key(k).key = chain(j).key => key(k).index < chain(j).index
        /\ \A d \in used : d.key.key = chain(j).key => d.key.index < chain(j).index
  BY <1>2 DEF ReplaySafe, ChainsArePast, chain, key
<1>8. \A d \in used : \A k \in old : key(k) # d.key
  BY <1>2 DEF ReplaySafe, UsedNotSkipped, key
(* Where the keys of s come from. *)
<1>9. \A j \in chains : IF j = i THEN /\ chain_(j).key = chain(i).key
                                      /\ chain_(j).index = m.counter + 1
                        ELSE chain_(j) = chain(j)
  BY <1>1, <1>3
<1>10. \A j \in stored : j <= new => /\ key_(j).key = chain(i).key
                                     /\ key_(j).index = m.counter - j
                                     /\ key_(j).index >= chain(i).index
                                     /\ key_(j).index < m.counter
  <2>1. ASSUME NEW j \in stored, j <= new
        PROVE  key_(j).key = chain(i).key /\ key_(j).index = m.counter - j
    BY <1>1, <1>3, <2>1
  <2>2. ASSUME NEW j \in stored, j <= new
        PROVE  m.counter - j >= chain(i).index /\ m.counter - j < m.counter
    <3>1. j \in Nat /\ j >= 1
      BY DEF stored
    <3>2. chain(i).index \in Nat /\ m.counter \in Nat
      BY <1>2, <1>3
    <3>. QED
      BY <1>4, <2>2, <3>1, <3>2
  <2>. QED
    BY <2>1, <2>2
<1>11. \A j \in stored : j > new => j - new \in old /\ key_(j) = key(j - new)
  BY <1>1
<1>12. \A j \in stored : j <= new \/ j > new
  BY <1>2, <1>4
<1>13. OldKeys(s, used \cup {m})
  <2>1. \A j \in chains : Len(chain_(j).key) <= Len(r.root_key)
    BY <1>3, <1>5, <1>9
  <2>2. \A j \in stored : Len(key_(j).key) <= Len(r.root_key)
    BY <1>3, <1>5, <1>10, <1>11, <1>12
  <2>3. \A d \in used \cup {m} : Len(d.key.key) <= Len(r.root_key)
    BY <1>3, <1>5
  <2>. QED
    BY <1>1, <1>2, <2>1, <2>2, <2>3 DEF OldKeys, chain_, key_
<1>14. DistinctKeys(s)
  <2>1. \A j, k \in chains : chain_(j).key = chain_(k).key => j = k
    BY <1>3, <1>6, <1>9
  <2>2. ASSUME NEW j \in stored, NEW k \in stored, key_(j) = key_(k)
        PROVE  j = k
    <3>1. CASE j <= new /\ k <= new
      <4>1. m.counter - j = m.counter - k
        BY <1>10, <2>2, <3>1
      <4>. QED
        BY <1>2, <1>3, <4>1
    <3>2. CASE j <= new /\ k > new
      <4>1. /\ key_(j).key = chain(i).key
            /\ key_(j).index >= chain(i).index
            /\ key_(j).index < m.counter
        BY <1>10, <3>2
      <4>2. k - new \in old /\ key_(k) = key(k - new)
        BY <1>11, <3>2
      <4>3. key(k - new).key = chain(i).key => key(k - new).index < chain(i).index
        BY <1>3, <1>7, <4>2
      <4>4. key(k - new).index \in Nat /\ chain(i).index \in Nat
        BY <1>2, <1>3, <4>2
      <4>. QED
        BY <2>2, <4>1, <4>2, <4>3, <4>4
    <3>3. CASE j > new /\ k <= new
      <4>1. /\ key_(k).key = chain(i).key
            /\ key_(k).index >= chain(i).index
            /\ key_(k).index < m.counter
        BY <1>10, <3>3
      <4>2. j - new \in old /\ key_(j) = key(j - new)
        BY <1>11, <3>3
      <4>3. key(j - new).key = chain(i).key => key(j - new).index < chain(i).index
        BY <1>3, <1>7, <4>2
      <4>4. key(j - new).index \in Nat /\ chain(i).index \in Nat
        BY <1>2, <1>3, <4>2
      <4>. QED
        BY <2>2, <4>1, <4>2, <4>3, <4>4
    <3>4. CASE j > new /\ k > new
      <4>1. j - new = k - new
        BY <1>6, <1>11, <2>2, <3>4
      <4>. QED
        BY <1>2, <1>4, <4>1
    <3>. QED
      BY <1>12, <3>1, <3>2, <3>3, <3>4
  <2>3. \A j, k \in DOMAIN s.receiver_chains :
          s.receiver_chains[j].chain_key.key = s.receiver_chains[k].chain_key.key => j = k
    BY <1>2, <2>1 DEF chain_
  <2>4. \A j, k \in DOMAIN s.skipped_message_keys :
          s.skipped_message_keys[j].message_key = s.skipped_message_keys[k].message_key => j = k
    BY <1>2, <2>2 DEF key_
  <2>. QED
    BY <2>3, <2>4 DEF DistinctKeys
<1>15. ChainsArePast(s, used \cup {m})
  <2>1. ASSUME NEW j \in chains, NEW k \in stored, key_(k).key = chain_(j).key
        PROVE  key_(k).index < chain_(j).index
    <3>1. CASE j = i /\ k <= new
      BY <1>2, <1>3, <1>9, <1>10, <3>1
    <3>2. CASE j = i /\ k > new
      <4>1. /\ k - new \in old /\ key_(k) = key(k - new)
            /\ chain_(j).key = chain(i).key /\ chain_(j).index = m.counter + 1
        BY <1>9, <1>11, <3>2
      <4>2. key(k - new).index < chain(i).index
        BY <1>3, <1>7, <2>1, <4>1
      <4>. QED
        BY <1>2, <1>3, <4>1, <4>2
    <3>3. CASE j # i /\ k <= new
      BY <1>3, <1>6, <1>9, <1>10, <2>1, <3>3
    <3>4. CASE j # i /\ k > new
      BY <1>7, <1>9, <1>11, <2>1, <3>4
    <3>. QED
      BY <1>12, <3>1, <3>2, <3>3, <3>4
  <2>2. ASSUME NEW j \in chains, NEW d \in used \cup {m}, d.key.key = chain_(j).key
        PROVE  d.key.index < chain_(j).index
    <3>1. CASE j = i /\ d = m
      BY <1>3, <1>9, <3>1
    <3>2. CASE j = i /\ d \in used
      BY <1>2, <1>3, <1>7, <1>9, <2>2, <3>2
    <3>3. CASE j # i /\ d = m
      BY <1>3, <1>6, <1>9, <2>2, <3>3
    <3>4. CASE j # i /\ d \in used
      BY <1>7, <1>9, <2>2, <3>4
    <3>. QED
      BY <3>1, <3>2, <3>3, <3>4
  <2>. QED
    BY <1>2, <2>1, <2>2 DEF ChainsArePast, chain_, key_
<1>16. UsedNotSkipped(s, used \cup {m})
  <2>1. ASSUME NEW d \in used \cup {m}, NEW k \in stored
        PROVE  key_(k) # d.key
    <3>1. CASE k <= new /\ d = m
      BY <1>2, <1>3, <1>10, <3>1
    <3>2. CASE k <= new /\ d \in used
      BY <1>2, <1>3, <1>7, <1>10, <3>2
    <3>3. CASE k > new /\ d = m
      BY <1>2, <1>3, <1>7, <1>11, <3>3
    <3>4. CASE k > new /\ d \in used
      BY <1>8, <1>11, <3>4
    <3>. QED
      BY <1>12, <3>1, <3>2, <3>3, <3>4
  <2>. QED
    BY <1>2, <2>1 DEF UsedNotSkipped, key_
<1>. QED
  BY <1>13, <1>14, <1>15, <1>16 DEF ReplaySafe

(* The new chain is none that a used key was derived from. *)
LEMMA NewChainReplaySafe ==
  ASSUME NEW K, NEW P,
         NEW r \in Ratchets(K), WithinBounds(r), NEW m \in Messages(K, P), r.sender_chain # << >>,
         NEW used \in SUBSET Messages(K, P), ReplaySafe(r, used),
         NEW s, s = WithNewReceiverChain(r, m)
  PROVE  ReplaySafe(s, used)
<1> DEFINE chain(j) == r.receiver_chains[j].chain_key
           key(j) == r.skipped_message_keys[j].message_key
           chain_(j) == s.receiver_chains[j].chain_key
           chains == 1..Len(r.receiver_chains)
           chains_ == 1..Len(s.receiver_chains)
           old == 1..Len(r.skipped_message_keys)
<1>. HIDE DEF chain, key, chain_, chains, chains_, old
<1>1. /\ s \in Ratchets(K)
      /\ Len(s.root_key) = Len(r.root_key) + 1
      /\ s.skipped_message_keys = r.skipped_message_keys
      /\ chain_(1).key = s.root_key
      /\ \A j \in 2..Len(s.receiver_chains) :
           j - 1 \in chains /\ chain_(j) = chain(j - 1)
  <2>1. /\ s \in Ratchets(K)
        /\ NewFront(r, m, s)
        /\ Len(s.root_key) = Len(r.root_key) + 1
    BY WithNewReceiverChainProperties
  <2>. QED
    BY <2>1 DEF NewFront, chain, chain_, chains
<1>2. /\ DOMAIN r.receiver_chains = chains
      /\ DOMAIN r.skipped_message_keys = old
      /\ Len(r.root_key) \in Nat
      /\ \A j \in chains : Len(chain(j).key) \in Nat
      /\ \A j \in old : Len(key(j).key) \in Nat
      /\ \A d \in used : Len(d.key.key) \in Nat
  BY TypedKeys DEF chains, old, chain, key
<1>3. /\ DOMAIN s.receiver_chains = chains_
      /\ DOMAIN s.skipped_message_keys = old
  BY <1>1, TypedKeys DEF chains_, old
<1>4. \A j \in chains_ : j = 1 \/ (j # 1 /\ j - 1 \in chains /\ chain_(j) = chain(j - 1))
  BY <1>1 DEF chains_
(* What ReplaySafe says of r. *)
<1>5. /\ \A j \in chains : Len(chain(j).key) <= Len(r.root_key)
      /\ \A j \in old : Len(key(j).key) <= Len(r.root_key)
      /\ \A d \in used : Len(d.key.key) <= Len(r.root_key)
  BY <1>2 DEF ReplaySafe, OldKeys, chain, key
<1>6. /\ \A j, k \in chains : chain(j).key = chain(k).key => j = k
      /\ \A j, k \in old : key(j) = key(k) => j = k
  BY <1>2 DEF ReplaySafe, DistinctKeys, chain, key
<1>7. \A j \in chains :
        /\ \A k \in old : key(k).key = chain(j).key => key(k).index < chain(j).index
        /\ \A d \in used : d.key.key = chain(j).key => d.key.index < chain(j).index
  BY <1>2 DEF ReplaySafe, ChainsArePast, chain, key
<1>8. UsedNotSkipped(s, used)
  BY <1>1 DEF ReplaySafe, UsedNotSkipped
(* No key that r knows is the key of the new chain. *)
<1>9. /\ \A j \in chains : chain(j).key # chain_(1).key
      /\ \A j \in old : key(j).key # chain_(1).key
      /\ \A d \in used : d.key.key # chain_(1).key
  BY <1>1, <1>2, <1>5
<1>10. OldKeys(s, used)
  <2>1. \A j \in chains_ : Len(chain_(j).key) <= Len(s.root_key)
    BY <1>1, <1>2, <1>4, <1>5
  <2>2. /\ \A j \in old : Len(key(j).key) <= Len(s.root_key)
        /\ \A d \in used : Len(d.key.key) <= Len(s.root_key)
    BY <1>1, <1>2, <1>5, SMTT(30)
  <2>. QED
    BY <1>1, <1>3, <2>1, <2>2 DEF OldKeys, chain_, key
<1>11. DistinctKeys(s)
  <2>1. ASSUME NEW j \in chains_, NEW k \in chains_, chain_(j).key = chain_(k).key
        PROVE  j = k
    <3>1. CASE j # 1 /\ k # 1
      <4>1. j - 1 = k - 1
        BY <1>4, <1>6, <2>1, <3>1
      <4>. QED
        BY <4>1 DEF chains_
    <3>. QED
      BY <1>4, <1>9, <2>1, <3>1
  <2>2. \A j, k \in DOMAIN s.receiver_chains :
          s.receiver_chains[j].chain_key.key = s.receiver_chains[k].chain_key.key => j = k
    BY <1>3, <2>1 DEF chain_
  <2>3. \A j, k \in DOMAIN s.skipped_message_keys :
          s.skipped_message_keys[j].message_key = s.skipped_message_keys[k].message_key => j = k
    BY <1>1, <1>3, <1>6 DEF key
  <2>. QED
    BY <2>2, <2>3 DEF DistinctKeys
<1>12. ChainsArePast(s, used)
  <2>1. \A j \in chains_ :
          /\ \A k \in old : key(k).key = chain_(j).key => key(k).index < chain_(j).index
          /\ \A d \in used : d.key.key = chain_(j).key => d.key.index < chain_(j).index
    BY <1>4, <1>7, <1>9
  <2>. QED
    BY <1>1, <1>3, <2>1 DEF ChainsArePast, chain_, key
<1>. QED
  BY <1>8, <1>10, <1>11, <1>12 DEF ReplaySafe

(* What the MAC tells of a message: it was made with the key that the      *)
(* chain reaches at the counter of the message.                            *)
LEMMA ExistingChainVerified ==
  ASSUME NEW K, NEW P,
         NEW r \in Ratchets(K), NEW m \in Messages(K, P),
         VerifiesOnExistingChain(r, m),
         NEW i, i = ReceiverChain(r, m)
  PROVE  Verified(r, i, m) /\ r.receiver_chains[i].ratchet_key = m.ratchet_key
<1>1. /\ i \in 1..Len(r.receiver_chains)
      /\ r.receiver_chains[i].ratchet_key = m.ratchet_key
      /\ VerifiesOnChain(r.receiver_chains[i].chain_key, m)
  BY ReceiverChainInDomain DEF VerifiesOnExistingChain
<1>2. r.receiver_chains[i].chain_key \in ChainKeys(K) /\ m.counter \in Nat
  <2>1. r.receiver_chains[i] \in ReceiverChains(K)
    BY <1>1, ElementOfSeq DEF Ratchets
  <2>. QED
    BY <2>1 DEF ReceiverChains, Messages
<1>3. m.key = AdvancedTo(r.receiver_chains[i].chain_key, m.counter)
  BY <1>1 DEF VerifiesOnChain, create_message_keys
<1>4. r.receiver_chains[i].chain_key.index <= m.counter
  BY <1>1, <1>2 DEF VerifiesOnChain, ChainKeys
<1>. QED
  BY <1>1, <1>2, <1>3, <1>4, ChainKeySteps DEF Verified

LEMMA NewChainVerified ==
  ASSUME NEW K, NEW P,
         NEW r \in Ratchets(K), WithinBounds(r), NEW m \in Messages(K, P),
         VerifiesOnNewChain(r, m),
         NEW w, w = WithNewReceiverChain(r, m)
  PROVE  /\ w \in Ratchets(K)
         /\ NewFront(r, m, w)
         /\ Len(w.root_key) = Len(r.root_key) + 1
         /\ m.key = [key |-> w.root_key, index |-> m.counter]
         /\ Verified(w, 1, m)
<1>1. r.sender_chain # << >> /\ VerifiesOnChain(NewChain(r, m).chain_key, m)
  BY DEF VerifiesOnNewChain
<1>2. /\ w \in Ratchets(K)
      /\ NewFront(r, m, w)
      /\ Len(w.root_key) = Len(r.root_key) + 1
  BY <1>1, WithNewReceiverChainProperties
<1> DEFINE c == [key |-> w.root_key, index |-> 0]
<1>3. /\ w.receiver_chains[1].chain_key = c
      /\ NewChain(r, m).chain_key = c
      /\ 1 <= Len(w.receiver_chains)
  BY <1>2 DEF NewFront
<1>4. /\ Len(w.receiver_chains) \in Nat
      /\ c \in ChainKeys(K)
      /\ m.counter \in Nat
  BY <1>2 DEF Ratchets, ChainKeys, Messages
<1>5. m.key = AdvancedTo(c, m.counter)
  BY <1>1, <1>3 DEF VerifiesOnChain, create_message_keys
<1>6. m.key = [key |-> c.key, index |-> m.counter]
  <2>. HIDE DEF c
  <2>. QED
    BY <1>4, <1>5, ChainKeySteps
<1>7. 1 \in 1..Len(w.receiver_chains)
  BY <1>3, <1>4
<1>. QED
  BY <1>2, <1>3, <1>4, <1>6, <1>7 DEF Verified

(* A decrypt that succeeds on a chain that is there already. *)
LEMMA ExistingChainUsed ==
  ASSUME NEW K, NEW P,
         NEW r \in Ratchets(K), WithinBounds(r), NEW m \in Messages(K, P),
         VerifiesOnExistingChain(r, m),
         NEW used \in SUBSET Messages(K, P),
         NEW s, s = DecryptedOnExistingChain(r, m)
  PROVE  /\ s \in Ratchets(K)
         /\ WithinBounds(s)
         /\ ReplaySafe(r, used) => ReplaySafe(s, used \cup {m})
<1>1. PICK i : i = ReceiverChain(r, m)
  OBVIOUS
<1>2. Verified(r, i, m) /\ s = DecryptedOnChain(r, i, m)
  BY <1>1, ExistingChainVerified DEF DecryptedOnExistingChain
<1>3. WithinBounds(s) /\ s \in Ratchets(K)
  <2>1. /\ s \in Ratchets(K)
        /\ s.sender_chain = r.sender_chain
        /\ Len(s.receiver_chains) = Len(r.receiver_chains)
        /\ Len(s.skipped_message_keys) <= MAX_SKIPPED_MESSAGE_KEYS
    BY <1>2, OnChainKeepsType
  <2>2. s.receiver_chains # << >>
    BY <1>2, <2>1 DEF Verified
  <2>. QED
    BY <2>1, <2>2 DEF WithinBounds
<1>. QED
  BY <1>2, <1>3, OnChainReplaySafe

(* A decrypt that succeeds on a chain the message starts. *)
LEMMA NewChainUsed ==
  ASSUME NEW K, NEW P,
         NEW r \in Ratchets(K), WithinBounds(r), NEW m \in Messages(K, P),
         VerifiesOnNewChain(r, m),
         NEW used \in SUBSET Messages(K, P),
         NEW s, s = DecryptedOnNewChain(r, m)
  PROVE  /\ s \in Ratchets(K)
         /\ WithinBounds(s)
         /\ ReplaySafe(r, used) => ReplaySafe(s, used \cup {m})
<1>1. PICK w : w = WithNewReceiverChain(r, m)
  OBVIOUS
<1>2. w \in Ratchets(K) /\ NewFront(r, m, w) /\ Verified(w, 1, m)
  BY <1>1, NewChainVerified
<1>3. s = DecryptedOnChain(w, 1, m)
  BY <1>1 DEF DecryptedOnNewChain
<1>4. WithinBounds(s) /\ s \in Ratchets(K)
  <2>1. PICK i : i = 1
    OBVIOUS
  <2>2. Verified(w, i, m) /\ s = DecryptedOnChain(w, i, m)
    BY <1>2, <1>3, <2>1
  <2>3. /\ s \in Ratchets(K)
        /\ s.sender_chain = w.sender_chain
        /\ Len(s.receiver_chains) = Len(w.receiver_chains)
        /\ Len(s.skipped_message_keys) <= MAX_SKIPPED_MESSAGE_KEYS
    BY <1>2, <2>2, OnChainKeepsType
  <2>4. s.receiver_chains # << >>
    BY <1>2, <2>3 DEF NewFront
  <2>. QED
    BY <1>2, <2>3, <2>4 DEF WithinBounds, NewFront
<1>5. ReplaySafe(r, used) => ReplaySafe(w, used)
  BY <1>1, NewChainReplaySafe DEF VerifiesOnNewChain
<1>. QED
  BY <1>2, <1>3, <1>4, <1>5, OnChainReplaySafe

(* A call that fails only sets last_error. *)
LEMMA FailedKeeps ==
  ASSUME NEW K,
         NEW r \in Ratchets(K), WithinBounds(r), NEW error \in Error, NEW used,
         NEW s, s = Failed(r, error)
  PROVE  /\ s \in Ratchets(K)
         /\ WithinBounds(s)
         /\ ReplaySafe(r, used) => ReplaySafe(s, used)
<1>1. /\ s \in Ratchets(K)
      /\ s.root_key = r.root_key
      /\ s.sender_chain = r.sender_chain
      /\ s.receiver_chains = r.receiver_chains
      /\ s.skipped_message_keys = r.skipped_message_keys
  BY DEF Failed, Ratchets
<1>. QED
  BY <1>1 DEF WithinBounds, ReplaySafe, OldKeys, DistinctKeys, ChainsArePast, UsedNotSkipped

(* encrypt moves the root at most forward, and no chain that decrypt uses. *)
LEMMA EncryptedReplaySafe ==
  ASSUME NEW K, NEW P,
         NEW r \in Ratchets(K), WithinBounds(r), NEW fresh \in K,
         NEW used \in SUBSET Messages(K, P), ReplaySafe(r, used),
         NEW s, s = Encrypted(r, fresh)
  PROVE  ReplaySafe(s, used)
<1>1. /\ s \in Ratchets(K)
      /\ Len(s.root_key) >= Len(r.root_key)
      /\ s.receiver_chains = r.receiver_chains
      /\ s.skipped_message_keys = r.skipped_message_keys
  BY EncryptedProperties
<1>2. Len(s.root_key) \in Nat
  BY <1>1, TypedKeys
<1>3. \A n \in Nat : n <= Len(r.root_key) => n <= Len(s.root_key)
  <2>1. Len(r.root_key) \in Nat
    BY TypedKeys
  <2>. QED
    BY <1>1, <1>2, <2>1
<1>4. OldKeys(s, used)
  BY <1>1, <1>3, TypedKeys DEF ReplaySafe, OldKeys
<1>. QED
  BY <1>1, <1>4 DEF ReplaySafe, DistinctKeys, ChainsArePast, UsedNotSkipped

(* A ratchet that is past a key decrypts no message with it. *)
LEMMA ReplaySafeRejects ==
  ASSUME NEW K, NEW P,
         NEW r \in Ratchets(K), WithinBounds(r), NEW used \in SUBSET Messages(K, P),
         ReplaySafe(r, used), NEW m \in used
  PROVE  ~ CanDecrypt(r, m)
<1>. m \in Messages(K, P)
  OBVIOUS
<1>1. ~ VerifiesOnNewChain(r, m)
  <2>1. SUFFICES ASSUME VerifiesOnNewChain(r, m)
                 PROVE  FALSE
    OBVIOUS
  <2>2. PICK w : w = WithNewReceiverChain(r, m)
    OBVIOUS
  <2>3. /\ Len(w.root_key) = Len(r.root_key) + 1
        /\ m.key = [key |-> w.root_key, index |-> m.counter]
    BY <2>1, <2>2, NewChainVerified
  <2>4. Len(m.key.key) <= Len(r.root_key) /\ Len(r.root_key) \in Nat
    BY TypedKeys DEF ReplaySafe, OldKeys
  <2>. QED
    BY <2>3, <2>4
<1>2. ~ VerifiesOnExistingChain(r, m)
  <2>1. SUFFICES ASSUME VerifiesOnExistingChain(r, m)
                 PROVE  FALSE
    OBVIOUS
  <2>2. PICK i : i = ReceiverChain(r, m)
    OBVIOUS
  <2>3. Verified(r, i, m)
    BY <2>1, <2>2, ExistingChainVerified
  <2>4. i \in DOMAIN r.receiver_chains /\ r.receiver_chains[i].chain_key.index \in Nat
    BY <2>3, TypedKeys DEF Verified
  <2>5. m.key.key = r.receiver_chains[i].chain_key.key =>
          m.key.index < r.receiver_chains[i].chain_key.index
    BY <2>4 DEF ReplaySafe, ChainsArePast
  <2>. QED
    BY <2>3, <2>4, <2>5 DEF Verified, Messages
<1>3. ~ VerifiesWithSkippedKey(r, m)
  BY SkippedKeyInDomain, TypedKeys DEF VerifiesWithSkippedKey, ReplaySafe, UsedNotSkipped
<1>. QED
  BY <1>1, <1>2, <1>3 DEF CanDecrypt


(***************************************************************************)
(* What a ratchet keeps: its root and every key that it stores are in a    *)
(* set H of histories, and the ratchet keys of its receiver chains are     *)
(* never among its own.                                                    *)
(***************************************************************************)
Keeps(r, H, own, theirs) ==
  /\ r.root_key \in H
  /\ \A i \in 1..Len(r.sender_chain) :
       /\ r.sender_chain[i].ratchet_key \in own
       /\ r.sender_chain[i].chain_key.key \in H
       /\ Len(r.sender_chain[i].chain_key.key) <= Len(r.root_key)
  /\ \A i \in 1..Len(r.receiver_chains) :
       /\ r.receiver_chains[i].ratchet_key \in theirs
       /\ r.receiver_chains[i].chain_key.key \in H
  /\ \A i \in 1..Len(r.skipped_message_keys) :
       r.skipped_message_keys[i].message_key.key \in H

(* One more secret may be mixed into any history of H. *)
Grows(H, K) ==
  /\ H \subseteq Histories(K)
  /\ \A h \in H : \A secret \in SUBSET K : Append(h, secret) \in H

LEMMA WithSenderChainKeeps ==
  ASSUME NEW K, NEW r \in Ratchets(K), WithinBounds(r),
         NEW H, Grows(H, K), NEW own, NEW theirs, Keeps(r, H, own, theirs),
         NEW fresh \in K, fresh \in own,
         NEW w, w = WithSenderChain(r, fresh)
  PROVE  Keeps(w, H, own, theirs)
<1>1. CASE r.sender_chain # << >>
  BY <1>1 DEF WithSenderChain
<1>2. CASE r.sender_chain = << >>
  <2> DEFINE secret == SharedSecret(fresh, r.receiver_chains[1].ratchet_key)
             root == Append(r.root_key, secret)
             chain == [ratchet_key |-> fresh, chain_key |-> [key |-> root, index |-> 0]]
  <2>1. secret \in SUBSET K
    <3>1. r.receiver_chains \in Seq(ReceiverChains(K)) /\ 1 \in 1..Len(r.receiver_chains)
      BY <1>2 DEF WithinBounds, Ratchets
    <3>2. r.receiver_chains[1] \in ReceiverChains(K)
      BY <3>1, ElementOfSeq
    <3>. QED
      BY <3>2 DEF ReceiverChains, SharedSecret
  <2>2. r.root_key \in H /\ root \in H /\ root \in Histories(K)
    BY <2>1 DEF Keeps, Grows
  <2>3. w = [r EXCEPT !.root_key = root, !.sender_chain = << chain >>]
    BY <1>2 DEF WithSenderChain, create_chain_key
  <2>. HIDE DEF secret, root
  <2>4. /\ w.root_key = root
        /\ w.sender_chain = << chain >>
        /\ w.receiver_chains = r.receiver_chains
        /\ w.skipped_message_keys = r.skipped_message_keys
    BY <2>3 DEF Ratchets
  <2>5. Len(root) \in Nat
    BY <2>2 DEF Histories
  <2>6. \A i \in 1..Len(<< chain >>) : << chain >>[i] = chain
    OBVIOUS
  <2>7. /\ chain.ratchet_key = fresh
        /\ chain.chain_key.key = root
    OBVIOUS
  <2>. HIDE DEF chain
  <2>8. \A i \in 1..Len(w.sender_chain) :
          /\ w.sender_chain[i].ratchet_key \in own
          /\ w.sender_chain[i].chain_key.key \in H
          /\ Len(w.sender_chain[i].chain_key.key) <= Len(w.root_key)
    BY <2>2, <2>4, <2>5, <2>6, <2>7
  <2>. QED
    BY <2>2, <2>4, <2>8 DEF Keeps
<1>. QED
  BY <1>1, <1>2

(* encrypt. *)
LEMMA EncryptedKeeps ==
  ASSUME NEW K, NEW r \in Ratchets(K), WithinBounds(r),
         NEW H, Grows(H, K), NEW own, NEW theirs, Keeps(r, H, own, theirs),
         NEW fresh \in K, fresh \in own,
         NEW s, s = Encrypted(r, fresh),
         NEW P, NEW plaintext \in P,
         NEW m, m = EncryptedMessage(r, fresh, plaintext)
  PROVE  /\ Keeps(s, H, own, theirs)
         /\ m.ratchet_key \in own
         /\ m.key.key \in H
         /\ Len(m.key.key) <= Len(s.root_key)
<1>1. PICK w, chain : w = WithSenderChain(r, fresh) /\ chain = w.sender_chain[1]
  OBVIOUS
<1>2. Keeps(w, H, own, theirs)
  BY <1>1, WithSenderChainKeeps
<1>3. 1 \in 1..Len(w.sender_chain)
  BY <1>1, WithSenderChainProperties
<1>4. /\ chain.ratchet_key \in own
      /\ chain.chain_key.key \in H
      /\ Len(chain.chain_key.key) <= Len(w.root_key)
  BY <1>1, <1>2, <1>3 DEF Keeps
<1>5. Sends(w, chain, s)
  BY <1>1, EncryptedSenderChain
<1> DEFINE past == [ratchet_key |-> chain.ratchet_key,
                    chain_key |-> [key |-> chain.chain_key.key,
                                   index |-> chain.chain_key.index + 1]]
<1>6. /\ s.sender_chain = << past >>
      /\ past.ratchet_key = chain.ratchet_key
      /\ past.chain_key.key = chain.chain_key.key
  BY <1>5 DEF Sends
<1>. HIDE DEF past
<1>7. \A i \in 1..Len(s.sender_chain) : s.sender_chain[i] = past
  BY <1>6
<1>8. /\ s.root_key = w.root_key
      /\ s.receiver_chains = w.receiver_chains
      /\ s.skipped_message_keys = w.skipped_message_keys
  BY <1>5 DEF Sends
<1>9. Keeps(s, H, own, theirs)
  BY <1>2, <1>4, <1>6, <1>7, <1>8 DEF Keeps
<1>10. m.ratchet_key = chain.ratchet_key /\ m.key = chain.chain_key
  BY <1>1 DEF EncryptedMessage, create_message_keys
<1>. QED
  BY <1>4, <1>8, <1>9, <1>10

(* decrypt on a chain. *)
LEMMA OnChainKeeps ==
  ASSUME NEW K, NEW P,
         NEW r \in Ratchets(K), NEW m \in Messages(K, P), NEW i, Verified(r, i, m),
         NEW H, NEW own, NEW theirs, Keeps(r, H, own, theirs),
         NEW s, s = DecryptedOnChain(r, i, m)
  PROVE  Keeps(s, H, own, theirs)
<1>1. PICK new : new = m.counter - r.receiver_chains[i].chain_key.index
  OBVIOUS
<1>2. new \in Nat /\ s \in Ratchets(K) /\ OnChain(r, i, m, s, new)
  BY <1>1, DecryptedOnChainProperties
<1>3. /\ i \in 1..Len(r.receiver_chains)
      /\ m.key.key = r.receiver_chains[i].chain_key.key
  BY DEF Verified
<1>4. m.key.key \in H
  BY <1>3 DEF Keeps
<1>5. \A j \in 1..Len(r.receiver_chains) :
        /\ s.receiver_chains[j].ratchet_key = r.receiver_chains[j].ratchet_key
        /\ s.receiver_chains[j].chain_key.key = r.receiver_chains[j].chain_key.key
  BY <1>2, <1>3 DEF OnChain
<1>6. \A j \in 1..Len(s.skipped_message_keys) : s.skipped_message_keys[j].message_key.key \in H
  <2>1. ASSUME NEW j \in 1..Len(s.skipped_message_keys)
        PROVE  s.skipped_message_keys[j].message_key.key \in H
    <3>1. CASE j <= new
      <4>1. s.skipped_message_keys[j].message_key = [key |-> m.key.key, index |-> m.counter - j]
        BY <1>2, <3>1 DEF OnChain
      <4>. QED
        BY <1>4, <4>1
    <3>2. CASE j > new
      BY <1>2, <3>2 DEF OnChain, Keeps
    <3>. QED
      BY <1>2, <3>1, <3>2
  <2>. QED
    BY <2>1
<1>7. /\ s.root_key = r.root_key
      /\ s.sender_chain = r.sender_chain
      /\ Len(s.receiver_chains) = Len(r.receiver_chains)
  BY <1>2 DEF OnChain
<1>. QED
  BY <1>5, <1>6, <1>7 DEF Keeps

LEMMA ExistingChainKeeps ==
  ASSUME NEW K, NEW P,
         NEW r \in Ratchets(K), NEW m \in Messages(K, P), VerifiesOnExistingChain(r, m),
         NEW H, NEW own, NEW theirs, Keeps(r, H, own, theirs),
         NEW s, s = DecryptedOnExistingChain(r, m)
  PROVE  /\ Keeps(s, H, own, theirs)
         /\ m.key.key \in H
         /\ m.ratchet_key \in theirs
<1>1. PICK i : i = ReceiverChain(r, m)
  OBVIOUS
<1>2. Verified(r, i, m) /\ r.receiver_chains[i].ratchet_key = m.ratchet_key
  BY <1>1, ExistingChainVerified
<1>3. s = DecryptedOnChain(r, i, m)
  BY <1>1 DEF DecryptedOnExistingChain
<1>4. Keeps(s, H, own, theirs)
  BY <1>2, <1>3, OnChainKeeps
<1>. QED
  BY <1>2, <1>4 DEF Keeps, Verified

(* The key of a new chain is longer than any key that the ratchet made for *)
(* itself.                                                                 *)
LEMMA NewChainKey ==
  ASSUME NEW K, NEW P,
         NEW r \in Ratchets(K), WithinBounds(r), NEW m \in Messages(K, P),
         VerifiesOnNewChain(r, m),
         NEW H, Grows(H, K), NEW own, NEW theirs, Keeps(r, H, own, theirs)
  PROVE  /\ m.key.key \in H
         /\ Len(m.key.key) > Len(r.root_key)
<1>1. PICK w : w = WithNewReceiverChain(r, m)
  OBVIOUS
<1>2. /\ w \in Ratchets(K)
      /\ NewFront(r, m, w)
      /\ Len(w.root_key) = Len(r.root_key) + 1
      /\ m.key = [key |-> w.root_key, index |-> m.counter]
  BY <1>1, NewChainVerified
<1>3. Len(m.key.key) > Len(r.root_key)
  <2>1. Len(r.root_key) \in Nat
    BY DEF Ratchets, Histories
  <2>. QED
    BY <1>2, <2>1
<1>4. r.sender_chain[1].ratchet_key \in K /\ m.ratchet_key \in K
  <2>1. r.sender_chain \in Seq(SenderChains(K)) /\ r.sender_chain # << >>
    BY DEF Ratchets, VerifiesOnNewChain
  <2>2. 1 \in 1..Len(r.sender_chain)
    BY <2>1, EmptySeq
  <2>3. r.sender_chain[1] \in SenderChains(K)
    BY <2>1, <2>2, ElementOfSeq
  <2>. QED
    BY <2>3 DEF SenderChains, Messages
<1>5. w.root_key = Append(r.root_key, {r.sender_chain[1].ratchet_key, m.ratchet_key})
  BY <1>2 DEF NewFront, NewChain, create_chain_key, SharedSecret
<1>6. w.root_key \in H
  BY <1>4, <1>5 DEF Keeps, Grows
<1>. QED
  BY <1>2, <1>3, <1>6

LEMMA NewChainKeeps ==
  ASSUME NEW K, NEW P,
         NEW r \in Ratchets(K), WithinBounds(r), NEW m \in Messages(K, P),
         VerifiesOnNewChain(r, m),
         NEW H, Grows(H, K), NEW own, NEW theirs, Keeps(r, H, own, theirs),
         m.ratchet_key \in theirs,
         NEW s, s = DecryptedOnNewChain(r, m)
  PROVE  Keeps(s, H, own, theirs)
<1>1. PICK w : w = WithNewReceiverChain(r, m)
  OBVIOUS
<1>2. /\ w \in Ratchets(K)
      /\ NewFront(r, m, w)
      /\ m.key = [key |-> w.root_key, index |-> m.counter]
      /\ Verified(w, 1, m)
  BY <1>1, NewChainVerified
<1>3. w.root_key \in H
  BY <1>2, NewChainKey
<1>4. /\ w.root_key \in H
      /\ w.sender_chain = << >>
      /\ w.skipped_message_keys = r.skipped_message_keys
  BY <1>2, <1>3 DEF NewFront
<1>5. \A j \in 1..Len(w.receiver_chains) :
        /\ w.receiver_chains[j].ratchet_key \in theirs
        /\ w.receiver_chains[j].chain_key.key \in H
  <2>1. ASSUME NEW j \in 1..Len(w.receiver_chains)
        PROVE  /\ w.receiver_chains[j].ratchet_key \in theirs
               /\ w.receiver_chains[j].chain_key.key \in H
    <3>1. CASE j = 1
      BY <1>2, <1>3, <3>1 DEF NewFront
    <3>2. CASE j # 1
      <4>1. j \in 2..Len(w.receiver_chains)
        BY <3>2
      <4>2. /\ j - 1 \in 1..Len(r.receiver_chains)
            /\ w.receiver_chains[j] = r.receiver_chains[j - 1]
        BY <1>2, <4>1 DEF NewFront
      <4>. QED
        BY <4>2 DEF Keeps
    <3>. QED
      BY <3>1, <3>2
  <2>. QED
    BY <2>1
<1>6. \A j \in 1..Len(w.sender_chain) : FALSE
  BY <1>4
<1>7. Keeps(w, H, own, theirs)
  BY <1>4, <1>5, <1>6 DEF Keeps
<1>8. s = DecryptedOnChain(w, 1, m)
  BY <1>1 DEF DecryptedOnNewChain
<1>. QED
  BY <1>2, <1>7, <1>8, OnChainKeeps

LEMMA SkippedKeyKeeps ==
  ASSUME NEW K, NEW P,
         NEW r \in Ratchets(K), NEW m \in Messages(K, P), VerifiesWithSkippedKey(r, m),
         NEW H, NEW own, NEW theirs, Keeps(r, H, own, theirs),
         NEW s, s = DecryptedWithSkippedKey(r, m)
  PROVE  /\ Keeps(s, H, own, theirs)
         /\ m.key.key \in H
         /\ m.ratchet_key \in theirs
<1>1. PICK pos, keys, left : /\ pos = Min(SkippedKeysFor(r, m))
                             /\ keys = r.skipped_message_keys
                             /\ left = Erase(keys, pos)
  OBVIOUS
<1>2. pos \in 1..Len(keys) /\ keys[pos].message_key = m.key
  BY <1>1, SkippedKeyInDomain DEF VerifiesWithSkippedKey
<1>3. m.ratchet_key \in theirs
  BY ReceiverChainInDomain DEF VerifiesWithSkippedKey, Keeps
<1>4. keys \in Seq(SkippedMessageKeys(K))
  BY <1>1 DEF Ratchets
<1>5. /\ Len(left) = Len(keys) - 1
      /\ \A j \in 1..(Len(keys) - 1) : left[j] = IF j < pos THEN keys[j] ELSE keys[j + 1]
  BY <1>1, <1>2, <1>4, EraseProperties, SMTT(30)
<1>6. s = [r EXCEPT !.skipped_message_keys = left]
  BY <1>1 DEF DecryptedWithSkippedKey
<1>7. /\ s.root_key = r.root_key
      /\ s.sender_chain = r.sender_chain
      /\ s.receiver_chains = r.receiver_chains
      /\ s.skipped_message_keys = left
  BY <1>6 DEF Ratchets
<1>8. \A j \in 1..Len(keys) : keys[j].message_key.key \in H
  BY <1>1 DEF Keeps
<1>9. \A j \in 1..Len(left) : left[j].message_key.key \in H
  <2>1. ASSUME NEW j \in 1..Len(left)
        PROVE  \E k \in 1..Len(keys) : left[j] = keys[k]
    <3>1. Len(keys) \in Nat
      BY <1>4
    <3>2. j \in 1..(Len(keys) - 1) /\ j \in 1..Len(keys) /\ j + 1 \in 1..Len(keys)
      BY <1>5, <3>1
    <3>. QED
      BY <1>5, <3>2
  <2>. QED
    BY <1>8, <2>1
<1>10. Keeps(s, H, own, theirs)
  BY <1>7, <1>9 DEF Keeps
<1>. QED
  BY <1>1, <1>2, <1>3, <1>8, <1>10

(* A call that fails. *)
LEMMA FailedKeepsKeys ==
  ASSUME NEW K, NEW r \in Ratchets(K), NEW error,
         NEW H, NEW own, NEW theirs, Keeps(r, H, own, theirs)
  PROVE  Keeps(Failed(r, error), H, own, theirs)
BY DEF Keeps, Failed, Ratchets
(* The ratchets that a session starts with. *)
LEMMA AliceKeeps ==
  ASSUME NEW K, NEW secret \in Histories(K), NEW our \in K,
         NEW H, secret \in H, NEW own, our \in own, NEW theirs,
         NEW r, r = initialise_as_alice(secret, our)
  PROVE  /\ r \in Ratchets(K)
         /\ WithinBounds(r)
         /\ ReplaySafe(r, {})
         /\ Keeps(r, H, own, theirs)
         /\ r.root_key = secret
         /\ Len(r.sender_chain) = 1
         /\ r.sender_chain[1].chain_key.key = secret
<1>1. PICK chain : chain = [ratchet_key |-> our, chain_key |-> [key |-> secret, index |-> 0]]
  OBVIOUS
<1>2. chain \in SenderChains(K)
  BY <1>1 DEF SenderChains, ChainKeys
<1>3. PICK chains, none, more : chains = << chain >> /\ none = << >> /\ more = << >>
  OBVIOUS
<1>4. /\ chains \in Seq(SenderChains(K)) /\ Len(chains) = 1 /\ chains[1] = chain
      /\ none \in Seq(ReceiverChains(K)) /\ Len(none) = 0
      /\ more \in Seq(SkippedMessageKeys(K)) /\ Len(more) = 0
  BY <1>2, <1>3
<1>5. r = [root_key |-> secret, sender_chain |-> chains, receiver_chains |-> none,
           skipped_message_keys |-> more, last_error |-> "SUCCESS"]
  BY <1>1, <1>3 DEF initialise_as_alice
<1>6. /\ r \in Ratchets(K)
      /\ r.root_key = secret /\ r.sender_chain = chains
      /\ r.receiver_chains = none /\ r.skipped_message_keys = more
  BY <1>4, <1>5 DEF Ratchets, Error
<1>7. /\ chain.ratchet_key = our /\ chain.chain_key.key = secret
  BY <1>1
<1>8. WithinBounds(r)
  <2>1. Len(chains) <= 1 /\ Len(none) <= MAX_RECEIVER_CHAINS /\ Len(more) <= MAX_SKIPPED_MESSAGE_KEYS
    BY <1>4, RatchetConstants
  <2>2. chains # << >>
    BY <1>3
  <2>. QED
    BY <1>6, <2>1, <2>2 DEF WithinBounds
<1>9. ReplaySafe(r, {})
  <2>1. DOMAIN none = {} /\ DOMAIN more = {}
    BY <1>3
  <2>. QED
    BY <1>6, <2>1 DEF ReplaySafe, OldKeys, DistinctKeys, ChainsArePast, UsedNotSkipped
<1>10. Keeps(r, H, own, theirs)
  <2>1. Len(secret) \in Nat
    BY DEF Histories
  <2>2. \A i \in 1..Len(r.sender_chain) : r.sender_chain[i] = chain
    <3>1. PICK n : n = Len(r.sender_chain)
      OBVIOUS
    <3>2. n = 1 /\ r.sender_chain[1] = chain
      BY <1>4, <1>6, <3>1
    <3>3. \A i \in 1..n : i = 1
      BY <3>2
    <3>. QED
      BY <3>1, <3>2, <3>3
  <2>3. Len(r.receiver_chains) = 0 /\ Len(r.skipped_message_keys) = 0
    BY <1>4, <1>6
  <2>4. Len(secret) <= Len(secret)
    BY <2>1
  <2>. QED
    BY <1>6, <1>7, <2>2, <2>3, <2>4 DEF Keeps
<1>. QED
  BY <1>4, <1>6, <1>7, <1>8, <1>9, <1>10

LEMMA BobKeeps ==
  ASSUME NEW K, NEW secret \in Histories(K), NEW their \in K,
         NEW H, secret \in H, NEW own, NEW theirs, their \in theirs,
         NEW r, r = initialise_as_bob(secret, their)
  PROVE  /\ r \in Ratchets(K)
         /\ WithinBounds(r)
         /\ ReplaySafe(r, {})
         /\ Keeps(r, H, own, theirs)
<1>1. PICK chain : chain = [ratchet_key |-> their, chain_key |-> [key |-> secret, index |-> 0]]
  OBVIOUS
<1>2. chain \in ReceiverChains(K)
  BY <1>1 DEF ReceiverChains, ChainKeys
<1>3. PICK chains, none, more : chains = << chain >> /\ none = << >> /\ more = << >>
  OBVIOUS
<1>4. /\ chains \in Seq(ReceiverChains(K)) /\ Len(chains) = 1 /\ chains[1] = chain
      /\ none \in Seq(SenderChains(K)) /\ Len(none) = 0
      /\ more \in Seq(SkippedMessageKeys(K)) /\ Len(more) = 0
  BY <1>2, <1>3
<1>5. r = [root_key |-> secret, sender_chain |-> none, receiver_chains |-> chains,
           skipped_message_keys |-> more, last_error |-> "SUCCESS"]
  BY <1>1, <1>3 DEF initialise_as_bob
<1>6. /\ r \in Ratchets(K)
      /\ r.root_key = secret /\ r.sender_chain = none
      /\ r.receiver_chains = chains /\ r.skipped_message_keys = more
  BY <1>4, <1>5 DEF Ratchets, Error
<1>7. chain.ratchet_key = their /\ chain.chain_key.key = secret
  BY <1>1
<1>8. WithinBounds(r)
  <2>1. Len(none) <= 1 /\ Len(chains) <= MAX_RECEIVER_CHAINS /\ Len(more) <= MAX_SKIPPED_MESSAGE_KEYS
    BY <1>4, RatchetConstants
  <2>2. chains # << >>
    BY <1>3
  <2>. QED
    BY <1>6, <2>1, <2>2 DEF WithinBounds
<1>9. ReplaySafe(r, {})
  <2>1. DOMAIN chains = {1} /\ DOMAIN more = {}
    BY <1>3
  <2>2. Len(secret) \in Nat
    BY DEF Histories
  <2>. QED
    BY <1>4, <1>6, <1>7, <2>1, <2>2
    DEF ReplaySafe, OldKeys, DistinctKeys, ChainsArePast, UsedNotSkipped
<1>10. Keeps(r, H, own, theirs)
  BY <1>4, <1>6, <1>7, SMTT(30) DEF Keeps
<1>. QED
  BY <1>6, <1>8, <1>9, <1>10

(* decrypt on a new chain makes the root longer. *)
LEMMA NewChainRoot ==
  ASSUME NEW K, NEW P,
         NEW r \in Ratchets(K), WithinBounds(r), NEW m \in Messages(K, P),
         VerifiesOnNewChain(r, m),
         NEW s, s = DecryptedOnNewChain(r, m)
  PROVE  Len(s.root_key) > Len(r.root_key)
<1>1. PICK w : w = WithNewReceiverChain(r, m)
  OBVIOUS
<1>2. /\ w \in Ratchets(K)
      /\ Len(w.root_key) = Len(r.root_key) + 1
      /\ Verified(w, 1, m)
  <2>1. /\ Len(w.root_key) = Len(r.root_key) + 1
        /\ m.key = [key |-> w.root_key, index |-> m.counter]
    BY <1>1, NewChainVerified
  <2>2. w \in Ratchets(K) /\ NewFront(r, m, w) /\ Verified(w, 1, m)
    BY <1>1, NewChainVerified
  <2>. QED
    BY <2>1, <2>2
<1>3. PICK i : i = 1
  OBVIOUS
<1>4. PICK new : new = m.counter - w.receiver_chains[i].chain_key.index
  OBVIOUS
<1>5. s = DecryptedOnChain(w, i, m) /\ Verified(w, i, m)
  BY <1>1, <1>2, <1>3 DEF DecryptedOnNewChain
<1>6. OnChain(w, i, m, s, new)
  BY <1>2, <1>4, <1>5, DecryptedOnChainProperties
<1>7. s.root_key = w.root_key
  BY <1>6 DEF OnChain
<1>8. Len(r.root_key) \in Nat
  BY LenProperties DEF Ratchets, Histories
<1>. QED
  BY <1>2, <1>7, <1>8

(* The ratchet that Bob starts with reads what Alice sends on her first    *)
(* chain.                                                                  *)
LEMMA BobReads ==
  ASSUME NEW K, NEW P, NEW secret \in Histories(K), NEW m \in Messages(K, P),
         m.key = [key |-> secret, index |-> m.counter], m.counter <= MAX_MESSAGE_GAP,
         NEW r, r = initialise_as_bob(secret, m.ratchet_key)
  PROVE  CanDecrypt(r, m)
<1>1. PICK chain_key : chain_key = [key |-> secret, index |-> 0]
  OBVIOUS
<1>2. PICK chain : chain = [ratchet_key |-> m.ratchet_key, chain_key |-> chain_key]
  OBVIOUS
<1>3. PICK chains : chains = << chain >>
  OBVIOUS
<1>4. r.receiver_chains = chains
  BY <1>1, <1>2, <1>3 DEF initialise_as_bob
<1>5. DOMAIN chains = {1} /\ chains[1] = chain /\ chain.ratchet_key = m.ratchet_key
  BY <1>2, <1>3
<1>6. PICK T : T = ChainsFor(r, m)
  OBVIOUS
<1>7. T = {1}
  BY <1>4, <1>5, <1>6 DEF ChainsFor
<1>8. Min(T) = 1
  <2>1. T \subseteq Nat /\ T # {}
    BY <1>7
  <2>2. Min(T) \in T
    BY <2>1, MinProperties
  <2>. QED
    BY <1>7, <2>2
<1>9. HasReceiverChain(r, m) /\ ReceiverChain(r, m) = 1
  BY <1>6, <1>7, <1>8 DEF HasReceiverChain, ReceiverChain
<1>10. VerifiesOnChain(chain_key, m)
  <2>1. m.counter \in Nat /\ chain_key.index = 0
    BY <1>1 DEF Messages
  <2>2. AdvancedTo(chain_key, m.counter) = m.key
    BY <1>1 DEF AdvancedTo
  <2>3. m.counter >= chain_key.index /\ m.counter - chain_key.index <= MAX_MESSAGE_GAP
    BY <2>1
  <2>. QED
    BY <2>2, <2>3 DEF VerifiesOnChain, create_message_keys
<1>11. r.receiver_chains[ReceiverChain(r, m)].chain_key = chain_key
  BY <1>2, <1>4, <1>5, <1>9
<1>12. VerifiesOnExistingChain(r, m)
  BY <1>9, <1>10, <1>11 DEF VerifiesOnExistingChain
<1>. QED
  BY <1>12 DEF CanDecrypt

(***************************************************************************)
(* Two ratchets that talk to each other take turns.  The chains of their   *)
(* conversation are numbered by the length of their history: turn[n] is    *)
(* the end that sends on chain n, key[n] its ratchet key, root[n] its      *)
(* history, and base is the number of the first chain.                     *)
(***************************************************************************)
IsTurns(T, K) ==
  /\ T.base \in Nat
  /\ \A n \in Nat : T.turn[n] \in T.ends
  /\ \A n \in Nat : \A end \in T.ends : T.turn[n + 1] = end <=> T.turn[n] # end
  /\ \A n \in Nat : n >= T.base =>
       /\ T.key[n] \in K
       /\ T.root[n] \in Histories(K)
       /\ Len(T.root[n]) = n
       /\ Append(T.root[n], {T.key[n], T.key[n + 1]}) = T.root[n + 1]
  /\ \A n, k \in Nat : n >= T.base /\ k >= T.base /\ T.key[n] = T.key[k] => n = k

(* A ratchet key and a history that are those of one chain. *)
OfTurn(T, ratchet_key, history) ==
  /\ Len(history) >= T.base
  /\ ratchet_key = T.key[Len(history)]
  /\ history = T.root[Len(history)]

(* The newest chain that a ratchet knows of. *)
Stage(r) == Len(r.root_key)

NextCounter(r) == r.sender_chain[1].chain_key.index

(* An end has a sender chain iff the newest chain is its own. *)
OwnChain(T, r, end) ==
  /\ r.sender_chain # << >> <=> T.turn[Stage(r)] = end
  /\ r.sender_chain # << >> => /\ r.sender_chain[1].ratchet_key = T.key[Stage(r)]
                               /\ r.sender_chain[1].chain_key.key = r.root_key

(* What it has of the other end's chains are chains of the other end. *)
TheirChains(T, r, end) ==
  \A i \in 1..Len(r.receiver_chains) :
    LET chain == r.receiver_chains[i]
    IN  /\ OfTurn(T, chain.ratchet_key, chain.chain_key.key)
        /\ T.turn[Len(chain.chain_key.key)] # end
        /\ Len(chain.chain_key.key) <= Stage(r)

TheirSkippedKeys(T, r, end) ==
  \A i \in 1..Len(r.skipped_message_keys) :
    LET skipped == r.skipped_message_keys[i]
    IN  /\ OfTurn(T, skipped.ratchet_key, skipped.message_key.key)
        /\ T.turn[Len(skipped.message_key.key)] # end
        /\ Len(skipped.message_key.key) <= Stage(r)

(* The newest chain of the other end is in front, if there was one. *)
NewestChain(T, r, end) ==
  LET n == IF T.turn[Stage(r)] = end THEN Stage(r) - 1 ELSE Stage(r)
  IN  n >= T.base => /\ 1 <= Len(r.receiver_chains)
                     /\ Len(r.receiver_chains[1].chain_key.key) = n

TakesTurns(T, r, end) ==
  /\ Stage(r) >= T.base
  /\ r.root_key = T.root[Stage(r)]
  /\ OwnChain(T, r, end)
  /\ TheirChains(T, r, end)
  /\ NewestChain(T, r, end)
  /\ TheirSkippedKeys(T, r, end)

Turning(T, K, r, end) ==
  /\ IsTurns(T, K)
  /\ end \in T.ends
  /\ r \in Ratchets(K)
  /\ WithinBounds(r)
  /\ TakesTurns(T, r, end)

(* The types of what a ratchet stores. *)
LEMMA StoredTypes ==
  ASSUME NEW K, NEW r \in Ratchets(K)
  PROVE  /\ r.root_key \in Histories(K) /\ Stage(r) \in Nat
         /\ r.sender_chain # << >> =>
              /\ r.sender_chain[1] \in SenderChains(K)
              /\ r.sender_chain[1].ratchet_key \in K
              /\ r.sender_chain[1].chain_key \in ChainKeys(K)
              /\ NextCounter(r) \in Nat
         /\ Len(r.receiver_chains) \in Nat
         /\ Len(r.skipped_message_keys) \in Nat
         /\ \A i \in 1..Len(r.receiver_chains) :
              LET chain == r.receiver_chains[i]
              IN  /\ chain \in ReceiverChains(K)
                  /\ chain.ratchet_key \in K
                  /\ chain.chain_key \in ChainKeys(K)
                  /\ chain.chain_key.index \in Nat
                  /\ Len(chain.chain_key.key) \in Nat
         /\ \A i \in 1..Len(r.skipped_message_keys) :
              LET skipped == r.skipped_message_keys[i]
              IN  /\ skipped \in SkippedMessageKeys(K)
                  /\ skipped.ratchet_key \in K
                  /\ skipped.message_key \in ChainKeys(K)
                  /\ Len(skipped.message_key.key) \in Nat
<1>1. /\ r.root_key \in Histories(K)
      /\ r.sender_chain \in Seq(SenderChains(K))
      /\ r.receiver_chains \in Seq(ReceiverChains(K))
      /\ r.skipped_message_keys \in Seq(SkippedMessageKeys(K))
  BY DEF Ratchets
<1>2. \A h \in Histories(K) : Len(h) \in Nat
  BY DEF Histories
<1>3. \A k \in ChainKeys(K) : k.index \in Nat /\ Len(k.key) \in Nat
  BY <1>2 DEF ChainKeys
<1>4. /\ \A c \in SenderChains(K) : c.ratchet_key \in K /\ c.chain_key \in ChainKeys(K)
      /\ \A c \in ReceiverChains(K) : c.ratchet_key \in K /\ c.chain_key \in ChainKeys(K)
      /\ \A c \in SkippedMessageKeys(K) : c.ratchet_key \in K /\ c.message_key \in ChainKeys(K)
  BY DEF SenderChains, ReceiverChains, SkippedMessageKeys, MessageKeys
<1>5. r.sender_chain # << >> => r.sender_chain[1] \in SenderChains(K)
  BY <1>1
<1>6. \A i \in 1..Len(r.receiver_chains) : r.receiver_chains[i] \in ReceiverChains(K)
  BY <1>1
<1>7. \A i \in 1..Len(r.skipped_message_keys) : r.skipped_message_keys[i] \in SkippedMessageKeys(K)
  BY <1>1
<1>8. Len(r.receiver_chains) \in Nat /\ Len(r.skipped_message_keys) \in Nat
  BY <1>1
<1>. QED
  BY <1>1, <1>2, <1>3, <1>4, <1>5, <1>6, <1>7, <1>8 DEF Stage, NextCounter

(* encrypt sends m on this chain: the one it has, or a new one. *)
SendsWith(chain, r, fresh, text, s, m) ==
  /\ IF r.sender_chain # << >>
     THEN chain = r.sender_chain[1] /\ s.root_key = r.root_key
     ELSE /\ s.root_key = Append(r.root_key, {fresh, r.receiver_chains[1].ratchet_key})
          /\ chain = [ratchet_key |-> fresh,
                      chain_key |-> [key |-> s.root_key, index |-> 0]]
  /\ s.sender_chain = << [ratchet_key |-> chain.ratchet_key,
                          chain_key |-> [key |-> chain.chain_key.key,
                                         index |-> chain.chain_key.index + 1]] >>
  /\ s.receiver_chains = r.receiver_chains
  /\ s.skipped_message_keys = r.skipped_message_keys
  /\ m = [ratchet_key |-> chain.ratchet_key, counter |-> chain.chain_key.index,
          key |-> chain.chain_key, plaintext |-> text]

LEMMA EncryptedSends ==
  ASSUME NEW K, NEW r \in Ratchets(K), WithinBounds(r), NEW fresh \in K, NEW text,
         NEW s, s = Encrypted(r, fresh),
         NEW m, m = EncryptedMessage(r, fresh, text)
  PROVE  /\ s \in Ratchets(K)
         /\ \E chain \in SenderChains(K) : SendsWith(chain, r, fresh, text, s, m)
<1>1. PICK w : w = WithSenderChain(r, fresh)
  OBVIOUS
<1>2. PICK chain : chain = w.sender_chain[1]
  OBVIOUS
<1>3. /\ w \in Ratchets(K)
      /\ chain \in SenderChains(K)
      /\ w.receiver_chains = r.receiver_chains
      /\ w.skipped_message_keys = r.skipped_message_keys
  BY <1>1, <1>2, WithSenderChainProperties
<1>4. s \in Ratchets(K) /\ Sends(w, chain, s)
  BY <1>1, <1>2, EncryptedSenderChain
<1>5. m = [ratchet_key |-> chain.ratchet_key, counter |-> chain.chain_key.index,
           key |-> chain.chain_key, plaintext |-> text]
  BY <1>1, <1>2 DEF EncryptedMessage, create_message_keys
<1>6. IF r.sender_chain # << >>
      THEN chain = r.sender_chain[1] /\ w.root_key = r.root_key
      ELSE /\ w.root_key = Append(r.root_key, {fresh, r.receiver_chains[1].ratchet_key})
           /\ chain = [ratchet_key |-> fresh,
                       chain_key |-> [key |-> w.root_key, index |-> 0]]
  <2>1. CASE r.sender_chain # << >>
    BY <1>1, <1>2, <2>1 DEF WithSenderChain
  <2>2. CASE r.sender_chain = << >>
    <3>1. PICK their, new : /\ their = r.receiver_chains[1].ratchet_key
                            /\ new = create_chain_key(r.root_key, fresh, their)
      OBVIOUS
    <3>2. PICK c : c = [ratchet_key |-> fresh, chain_key |-> new.chain_key]
      OBVIOUS
    <3>3. w = [r EXCEPT !.root_key = new.root_key, !.sender_chain = << c >>]
      BY <1>1, <2>2, <3>1, <3>2 DEF WithSenderChain
    <3>4. /\ new.root_key = Append(r.root_key, {fresh, their})
          /\ new.chain_key = [key |-> new.root_key, index |-> 0]
      BY <3>1 DEF create_chain_key, SharedSecret
    <3>5. w.root_key = new.root_key /\ w.sender_chain = << c >>
      BY <3>3 DEF Ratchets
    <3>6. chain = c
      BY <1>2, <3>5
    <3>. QED
      BY <2>2, <3>1, <3>2, <3>4, <3>5, <3>6
  <2>. QED
    BY <2>1, <2>2
<1>. QED
  BY <1>3, <1>4, <1>5, <1>6 DEF Sends, SendsWith


(* What the turns say of one chain and of the next. *)
LEMMA TurnsOf ==
  ASSUME NEW T, NEW K, IsTurns(T, K), NEW n \in Nat, n >= T.base
  PROVE  /\ T.key[n] \in K /\ T.key[n + 1] \in K
         /\ T.root[n] \in Histories(K) /\ Len(T.root[n]) = n
         /\ Append(T.root[n], {T.key[n], T.key[n + 1]}) = T.root[n + 1]
         /\ Append(T.root[n], {T.key[n + 1], T.key[n]}) = T.root[n + 1]
         /\ Len(T.root[n + 1]) = n + 1
         /\ \A end \in T.ends : T.turn[n + 1] = end <=> T.turn[n] # end
<1>1. n + 1 \in Nat /\ n + 1 >= T.base
  BY DEF IsTurns
<1>2. {T.key[n], T.key[n + 1]} = {T.key[n + 1], T.key[n]}
  OBVIOUS
<1>3. Append(T.root[n], {T.key[n], T.key[n + 1]}) = T.root[n + 1]
  BY DEF IsTurns
<1>. QED
  BY <1>1, <1>2, <1>3 DEF IsTurns

LEMMA OfTurnMeans ==
  ASSUME NEW T, NEW K, IsTurns(T, K), NEW n \in Nat, n >= T.base,
         NEW ratchet_key, NEW history, ratchet_key = T.key[n], history = T.root[n]
  PROVE  OfTurn(T, ratchet_key, history) /\ Len(history) = n
  BY TurnsOf DEF OfTurn

(* What a message says of the turns when it is sent at an end. *)
SentOnTurn(T, r, end, m) ==
  /\ OfTurn(T, m.ratchet_key, m.key.key)
  /\ T.turn[Len(m.key.key)] = end
  /\ m.key.index = m.counter
  /\ Len(m.key.key) <= Stage(r)
  /\ Len(m.key.key) = Stage(r) => r.sender_chain # << >> /\ m.counter < NextCounter(r)

(* encrypt leaves r as s, and m is the next message of its newest chain. *)
NextOnTurn(T, r, end, s, m) ==
  /\ s.sender_chain # << >>
  /\ Stage(s) = IF r.sender_chain = << >> THEN Stage(r) + 1 ELSE Stage(r)
  /\ T.turn[Stage(s)] = end
  /\ OfTurn(T, m.ratchet_key, m.key.key)
  /\ Len(m.key.key) = Stage(s)
  /\ m.counter = IF r.sender_chain = << >> THEN 0 ELSE NextCounter(r)
  /\ m.counter \in Nat
  /\ m.key = [key |-> T.root[Stage(s)], index |-> m.counter]
  /\ m.ratchet_key = T.key[Stage(s)]
  /\ NextCounter(s) = m.counter + 1
  /\ s.receiver_chains = r.receiver_chains
  /\ s.skipped_message_keys = r.skipped_message_keys

(* The pair that encrypt makes is that of the next chain. *)
NextPair(T, r, fresh) == r.sender_chain = << >> => fresh = T.key[Stage(r) + 1]

LEMMA EncryptTurns ==
  ASSUME NEW T, NEW K, NEW r, NEW end, Turning(T, K, r, end),
         NEW fresh \in K, NextPair(T, r, fresh),
         NEW text, NEW s, s = Encrypted(r, fresh),
         NEW m, m = EncryptedMessage(r, fresh, text)
  PROVE  TakesTurns(T, s, end) /\ NextOnTurn(T, r, end, s, m)
<1>1. /\ IsTurns(T, K) /\ end \in T.ends
      /\ r \in Ratchets(K) /\ WithinBounds(r)
      /\ TakesTurns(T, r, end)
      /\ T.base \in Nat
  BY DEF Turning, IsTurns
<1>2. PICK n : n = Stage(r)
  OBVIOUS
<1>3. /\ n \in Nat /\ n >= T.base
      /\ r.root_key = T.root[n]
      /\ r.sender_chain # << >> <=> T.turn[n] = end
  BY <1>1, <1>2, StoredTypes DEF TakesTurns, OwnChain
<1>4. PICK new : new = IF r.sender_chain = << >> THEN n + 1 ELSE n
  OBVIOUS
<1>5. new \in Nat /\ new >= T.base /\ n <= new
  BY <1>1, <1>3, <1>4
<1>. PICK chain \in SenderChains(K) : SendsWith(chain, r, fresh, text, s, m)
  BY <1>1, EncryptedSends
<1>6. /\ IF r.sender_chain # << >>
         THEN chain = r.sender_chain[1] /\ s.root_key = r.root_key
         ELSE /\ s.root_key = Append(r.root_key, {fresh, r.receiver_chains[1].ratchet_key})
              /\ chain = [ratchet_key |-> fresh,
                          chain_key |-> [key |-> s.root_key, index |-> 0]]
      /\ s.sender_chain = << [ratchet_key |-> chain.ratchet_key,
                              chain_key |-> [key |-> chain.chain_key.key,
                                             index |-> chain.chain_key.index + 1]] >>
      /\ m = [ratchet_key |-> chain.ratchet_key, counter |-> chain.chain_key.index,
              key |-> chain.chain_key, plaintext |-> text]
      /\ s.receiver_chains = r.receiver_chains
      /\ s.skipped_message_keys = r.skipped_message_keys
  BY DEF SendsWith
(* The chain is the newest of this end. *)
<1>7. /\ s.root_key = T.root[new]
      /\ T.turn[new] = end
      /\ chain.ratchet_key = T.key[new]
      /\ chain.chain_key.key = s.root_key
      /\ chain.chain_key.index = IF r.sender_chain = << >> THEN 0 ELSE NextCounter(r)
  <2>1. CASE r.sender_chain # << >>
    BY <1>1, <1>2, <1>3, <1>4, <1>6, <2>1 DEF TakesTurns, OwnChain, NextCounter
  <2>2. CASE r.sender_chain = << >>
    <3>1. T.turn[n] # end
      BY <1>3, <2>2
    <3>2. r.receiver_chains[1].ratchet_key = T.key[n]
      <4>1. /\ 1 <= Len(r.receiver_chains)
            /\ Len(r.receiver_chains[1].chain_key.key) = n
        BY <1>1, <1>2, <1>3, <3>1 DEF TakesTurns, NewestChain
      <4>2. 1 \in 1..Len(r.receiver_chains)
        BY <1>1, <4>1, StoredTypes
      <4>. QED
        BY <1>1, <4>1, <4>2 DEF TakesTurns, TheirChains, OfTurn
    <3>3. fresh = T.key[n + 1]
      BY <1>2, <2>2 DEF NextPair
    <3>4. s.root_key = T.root[n + 1]
      <4>1. s.root_key = Append(r.root_key, {fresh, r.receiver_chains[1].ratchet_key})
        BY <1>6, <2>2
      <4>2. s.root_key = Append(T.root[n], {T.key[n + 1], T.key[n]})
        BY <1>3, <3>2, <3>3, <4>1, Zenon
      <4>3. Append(T.root[n], {T.key[n + 1], T.key[n]}) = T.root[n + 1]
        BY <1>1, <1>3, TurnsOf
      <4>. QED
        BY <4>2, <4>3, Zenon
    <3>5. T.turn[n + 1] = end
      BY <1>1, <1>3, <3>1, TurnsOf
    <3>6. chain.ratchet_key = fresh /\ chain.chain_key = [key |-> s.root_key, index |-> 0]
      BY <1>6, <2>2
    <3>. QED
      BY <1>4, <2>2, <3>3, <3>4, <3>5, <3>6
  <2>. QED
    BY <2>1, <2>2
<1>8. Stage(s) = new
  BY <1>1, <1>5, <1>7, TurnsOf DEF Stage
<1>9. /\ s.sender_chain # << >>
      /\ s.sender_chain[1].ratchet_key = T.key[new]
      /\ s.sender_chain[1].chain_key.key = s.root_key
      /\ NextCounter(s) = chain.chain_key.index + 1
  BY <1>6, <1>7 DEF NextCounter
<1>10. /\ m.ratchet_key = T.key[new]
       /\ m.counter = chain.chain_key.index
       /\ m.key = chain.chain_key
  BY <1>6, <1>7
<1>11. TheirChains(T, s, end) /\ TheirSkippedKeys(T, s, end)
  <2>1. \A k \in Nat : k <= n => k <= new
    BY <1>3, <1>4
  <2>2. TheirChains(T, r, end) /\ TheirSkippedKeys(T, r, end)
    BY <1>1 DEF TakesTurns
  <2>. QED
    BY <1>1, <1>2, <1>6, <1>8, <2>1, <2>2, StoredTypes DEF TheirChains, TheirSkippedKeys
<1>12. NewestChain(T, s, end)
  <2>0. NewestChain(T, r, end)
    BY <1>1 DEF TakesTurns
  <2>1. CASE r.sender_chain # << >>
    <3>1. new = n /\ T.turn[n] = end
      BY <1>3, <1>4, <2>1
    <3>. QED
      BY <1>2, <1>6, <1>8, <2>0, <3>1 DEF NewestChain
  <2>2. CASE r.sender_chain = << >>
    <3>1. new - 1 = n
      BY <1>3, <1>4, <2>2
    <3>2. T.turn[n] # end
      BY <1>3, <2>2
    <3>3. /\ 1 <= Len(r.receiver_chains)
          /\ Len(r.receiver_chains[1].chain_key.key) = n
      BY <1>2, <1>3, <2>0, <3>2 DEF NewestChain
    <3>. QED
      BY <1>6, <1>7, <1>8, <3>1, <3>3 DEF NewestChain
  <2>. QED
    BY <2>1, <2>2
<1>13. TakesTurns(T, s, end)
  BY <1>5, <1>7, <1>8, <1>9, <1>11, <1>12 DEF TakesTurns, OwnChain
<1>14. m.counter \in Nat /\ m.key = [key |-> T.root[new], index |-> m.counter]
  BY <1>7, <1>10 DEF SenderChains, ChainKeys
<1>15. m.key.key = T.root[new]
  BY <1>14
<1>16. OfTurn(T, m.ratchet_key, m.key.key) /\ Len(m.key.key) = new
  BY <1>1, <1>5, <1>10, <1>15, OfTurnMeans
<1>17. /\ s.receiver_chains = r.receiver_chains
       /\ s.skipped_message_keys = r.skipped_message_keys
       /\ m.counter = IF r.sender_chain = << >> THEN 0 ELSE NextCounter(r)
  BY <1>6, <1>7, <1>10
<1>. QED
  BY <1>2, <1>4, <1>7, <1>8, <1>9, <1>10, <1>13, <1>14, <1>16, <1>17 DEF NextOnTurn


(* A new chain of the other end is the one that follows ours. *)
LEMMA NewChainTurns ==
  ASSUME NEW T, NEW K, NEW P, NEW r, NEW end, Turning(T, K, r, end),
         NEW m \in Messages(K, P), VerifiesOnNewChain(r, m), OfTurn(T, m.ratchet_key, m.key.key),
         NEW w, w = WithNewReceiverChain(r, m)
  PROVE  /\ TakesTurns(T, w, end)
         /\ T.turn[Stage(r)] = end
         /\ Stage(w) = Stage(r) + 1
         /\ Len(m.key.key) = Stage(r) + 1
         /\ T.turn[Len(m.key.key)] # end
<1>1. /\ IsTurns(T, K) /\ end \in T.ends
      /\ r \in Ratchets(K) /\ WithinBounds(r)
      /\ TakesTurns(T, r, end)
      /\ T.base \in Nat
  BY DEF Turning, IsTurns
<1>2. PICK n : n = Stage(r)
  OBVIOUS
<1>3. /\ n \in Nat /\ n >= T.base
      /\ r.root_key = T.root[n]
      /\ r.sender_chain # << >>
      /\ T.turn[n] = end
      /\ r.sender_chain[1].ratchet_key = T.key[n]
  BY <1>1, <1>2, StoredTypes DEF TakesTurns, OwnChain, VerifiesOnNewChain
<1>4. /\ w \in Ratchets(K)
      /\ NewFront(r, m, w)
      /\ Len(w.root_key) = Len(r.root_key) + 1
      /\ m.key = [key |-> w.root_key, index |-> m.counter]
  <2>1. w \in Ratchets(K) /\ NewFront(r, m, w) /\ Len(w.root_key) = Len(r.root_key) + 1
    BY <1>1, <1>3, WithNewReceiverChainProperties
  <2>2. m.key = [key |-> w.root_key, index |-> m.counter]
    BY <1>1, NewChainVerified
  <2>. QED
    BY <2>1, <2>2
<1>5. m.key.key = w.root_key /\ Stage(w) = n + 1
  BY <1>2, <1>4 DEF Stage
<1>6. Len(m.key.key) = n + 1 /\ m.ratchet_key = T.key[n + 1] /\ w.root_key = T.root[n + 1]
  BY <1>5 DEF OfTurn, Stage
<1>7. T.turn[n + 1] # end
  BY <1>1, <1>3, TurnsOf
<1>8. /\ w.sender_chain = << >>
      /\ w.skipped_message_keys = r.skipped_message_keys
      /\ 1 <= Len(w.receiver_chains)
      /\ w.receiver_chains[1].ratchet_key = m.ratchet_key
      /\ w.receiver_chains[1].chain_key.key = w.root_key
      /\ \A j \in 2..Len(w.receiver_chains) :
           /\ j - 1 \in 1..Len(r.receiver_chains)
           /\ w.receiver_chains[j] = r.receiver_chains[j - 1]
  BY <1>4 DEF NewFront
<1>9. \A k \in Nat : k <= n => k <= n + 1
  BY <1>3
<1>10. TheirChains(T, w, end)
  <2>1. ASSUME NEW i \in 1..Len(w.receiver_chains)
        PROVE  LET chain == w.receiver_chains[i]
               IN  /\ OfTurn(T, chain.ratchet_key, chain.chain_key.key)
                   /\ T.turn[Len(chain.chain_key.key)] # end
                   /\ Len(chain.chain_key.key) <= Stage(w)
    <3>1. CASE i = 1
      BY <1>3, <1>5, <1>6, <1>7, <1>8, <3>1
    <3>2. CASE i # 1
      <4>1. i - 1 \in 1..Len(r.receiver_chains) /\ w.receiver_chains[i] = r.receiver_chains[i - 1]
        <5>1. i \in 2..Len(w.receiver_chains)
          BY <3>2
        <5>. QED
          BY <1>8, <5>1
      <4>2. TheirChains(T, r, end)
        BY <1>1 DEF TakesTurns
      <4>. QED
        BY <1>1, <1>2, <1>5, <1>9, <4>1, <4>2, StoredTypes DEF TheirChains
    <3>. QED
      BY <3>1, <3>2
  <2>. QED
    BY <2>1 DEF TheirChains
<1>11. TheirSkippedKeys(T, w, end)
  <2>1. TheirSkippedKeys(T, r, end)
    BY <1>1 DEF TakesTurns
  <2>. QED
    BY <1>1, <1>2, <1>5, <1>8, <1>9, <2>1, StoredTypes DEF TheirSkippedKeys
<1>12. NewestChain(T, w, end) /\ OwnChain(T, w, end)
  <2>1. T.turn[Stage(w)] # end
    BY <1>5, <1>7
  <2>2. Len(w.receiver_chains[1].chain_key.key) = Stage(w)
    BY <1>8 DEF Stage
  <2>. QED
    BY <1>8, <2>1, <2>2 DEF NewestChain, OwnChain
<1>13. Stage(w) >= T.base /\ w.root_key = T.root[Stage(w)]
  BY <1>1, <1>3, <1>5, <1>6
<1>. QED
  BY <1>2, <1>3, <1>5, <1>6, <1>7, <1>10, <1>11, <1>12, <1>13 DEF TakesTurns

(* decrypt files the keys that it skips under the ratchet key of their     *)
(* chain.                                                                  *)
LEMMA SkippedRatchetKeys ==
  ASSUME NEW K, NEW P, NEW r \in Ratchets(K), NEW m \in Messages(K, P), NEW i, Verified(r, i, m),
         NEW s, s = DecryptedOnChain(r, i, m),
         NEW new, new = m.counter - r.receiver_chains[i].chain_key.index
  PROVE  \A j \in 1..Len(s.skipped_message_keys) :
           j <= new => s.skipped_message_keys[j].ratchet_key = r.receiver_chains[i].ratchet_key
<1>1. PICK chain : chain = r.receiver_chains[i]
  OBVIOUS
<1>2. PICK past, keys : /\ past = advance_chain_key(AdvancedTo(chain.chain_key, m.counter))
                        /\ keys = SkippedKeys(chain, m.counter)
  OBVIOUS
<1>3. /\ i \in 1..Len(r.receiver_chains)
      /\ chain \in ReceiverChains(K)
      /\ chain.chain_key.index \in Nat
      /\ chain.chain_key.index <= m.counter
      /\ m.counter \in Nat
      /\ r.receiver_chains \in Seq(ReceiverChains(K))
      /\ r.skipped_message_keys \in Seq(SkippedMessageKeys(K))
  BY <1>1, StoredTypes DEF Verified, Messages, Ratchets
<1>4. s = [r EXCEPT
             !.skipped_message_keys =
                InsertFirstAll(@, MAX_SKIPPED_MESSAGE_KEYS, keys),
             !.receiver_chains[i].chain_key = past]
  BY <1>1, <1>2 DEF DecryptedOnChain
<1>5. s.skipped_message_keys =
        InsertFirstAll(r.skipped_message_keys, MAX_SKIPPED_MESSAGE_KEYS, keys)
  BY <1>4 DEF Ratchets
<1>6. /\ keys \in Seq(SkippedMessageKeys(K))
      /\ Len(keys) = new
      /\ new \in Nat
      /\ \A n \in 1..new : keys[n].ratchet_key = chain.ratchet_key
  <2>1. keys \in Seq(SkippedMessageKeys(K)) /\ Len(keys) = new
    BY <1>1, <1>2, <1>3, SkippedKeysType
  <2>2. \A n \in 1..new : keys[n].ratchet_key = chain.ratchet_key
    BY <1>1, <1>2 DEF SkippedKeys
  <2>. QED
    BY <1>1, <1>3, <2>1, <2>2
<1>7. PICK list : list = InsertFirstAll(r.skipped_message_keys, MAX_SKIPPED_MESSAGE_KEYS, keys)
  OBVIOUS
<1>8. \A j \in 1..Len(list) :
        \/ j <= Len(keys) /\ list[j] = keys[Len(keys) - j + 1]
        \/ j > Len(keys)
  <2>1. MAX_SKIPPED_MESSAGE_KEYS \in Nat
    BY RatchetConstants
  <2>. QED
    BY <1>3, <1>6, <1>7, <2>1, InsertFirstAllProperties
<1>9. ASSUME NEW j \in 1..Len(list), j <= new
      PROVE  list[j].ratchet_key = chain.ratchet_key
  <2>1. new - j + 1 \in 1..new
    BY <1>6, <1>9
  <2>2. list[j] = keys[new - j + 1]
    BY <1>6, <1>8, <1>9
  <2>. QED
    BY <1>6, <2>1, <2>2
<1>. QED
  BY <1>1, <1>5, <1>7, <1>9

(* What decrypt leaves of the turns, whichever branch it takes. *)
TurnKept(T, r, end, m, s) ==
  /\ TakesTurns(T, s, end)
  /\ \/ Stage(s) = Stage(r) /\ s.sender_chain = r.sender_chain
     \/ /\ T.turn[Stage(r)] = end
        /\ Stage(s) = Stage(r) + 1
        /\ Len(m.key.key) = Stage(s)
  /\ \A i \in 1..Len(s.receiver_chains) :
       LET chain_key == s.receiver_chains[i].chain_key
       IN  \/ chain_key.key = m.key.key /\ chain_key.index <= m.counter + 1
           \/ \E j \in 1..Len(r.receiver_chains) : chain_key = r.receiver_chains[j].chain_key

LEMMA OnChainTurns ==
  ASSUME NEW T, NEW K, NEW P, IsTurns(T, K), NEW end, NEW r \in Ratchets(K), TakesTurns(T, r, end),
         NEW m \in Messages(K, P), NEW i, Verified(r, i, m),
         NEW s, s = DecryptedOnChain(r, i, m)
  PROVE  /\ TurnKept(T, r, end, m, s)
         /\ Stage(s) = Stage(r) /\ s.sender_chain = r.sender_chain
<1>1. PICK new : new = m.counter - r.receiver_chains[i].chain_key.index
  OBVIOUS
<1>2. PICK k : k = Len(m.key.key)
  OBVIOUS
<1>3. new \in Nat /\ s \in Ratchets(K) /\ OnChain(r, i, m, s, new)
  BY <1>1, DecryptedOnChainProperties
<1>4. /\ s.root_key = r.root_key
      /\ s.sender_chain = r.sender_chain
      /\ Len(s.receiver_chains) = Len(r.receiver_chains)
      /\ \A j \in 1..Len(r.receiver_chains) :
           s.receiver_chains[j] =
             IF j = i THEN [ratchet_key |-> r.receiver_chains[i].ratchet_key,
                            chain_key   |-> [key |-> m.key.key, index |-> m.counter + 1]]
                      ELSE r.receiver_chains[j]
      /\ \A j \in 1..Len(s.skipped_message_keys) :
           j <= new => s.skipped_message_keys[j].message_key =
                         [key |-> m.key.key, index |-> m.counter - j]
      /\ \A j \in 1..Len(s.skipped_message_keys) :
           j > new => /\ j - new \in 1..Len(r.skipped_message_keys)
                      /\ s.skipped_message_keys[j] = r.skipped_message_keys[j - new]
  BY <1>3 DEF OnChain
<1>5. \A j \in 1..Len(s.skipped_message_keys) :
        j <= new => s.skipped_message_keys[j].ratchet_key = r.receiver_chains[i].ratchet_key
  BY <1>1, SkippedRatchetKeys
<1>6. /\ i \in 1..Len(r.receiver_chains)
      /\ m.key = [key |-> r.receiver_chains[i].chain_key.key, index |-> m.counter]
      /\ m.counter \in Nat
  BY DEF Verified, Messages
<1>7. m.key.key = r.receiver_chains[i].chain_key.key
  BY <1>6
<1>8. /\ OfTurn(T, r.receiver_chains[i].ratchet_key, m.key.key)
      /\ T.turn[k] # end
      /\ k <= Stage(r)
  BY <1>2, <1>6, <1>7 DEF TakesTurns, TheirChains
<1>9. Stage(s) = Stage(r)
  BY <1>4 DEF Stage
<1>10. \A j \in 1..Len(r.receiver_chains) :
         /\ s.receiver_chains[j].ratchet_key = r.receiver_chains[j].ratchet_key
         /\ s.receiver_chains[j].chain_key.key = r.receiver_chains[j].chain_key.key
  <2>1. ASSUME NEW j \in 1..Len(r.receiver_chains)
        PROVE  /\ s.receiver_chains[j].ratchet_key = r.receiver_chains[j].ratchet_key
               /\ s.receiver_chains[j].chain_key.key = r.receiver_chains[j].chain_key.key
    <3>1. CASE j = i
      BY <1>4, <1>7, <3>1
    <3>2. CASE j # i
      BY <1>4, <3>2
    <3>. QED
      BY <3>1, <3>2
  <2>. QED
    BY <2>1
<1>11. TheirChains(T, s, end)
  <2>1. TheirChains(T, r, end)
    BY DEF TakesTurns
  <2>. QED
    BY <1>4, <1>9, <1>10, <2>1 DEF TheirChains
<1>12. NewestChain(T, s, end)
  <2>1. 1 <= Len(r.receiver_chains) => 1 \in 1..Len(r.receiver_chains)
    BY StoredTypes
  <2>2. NewestChain(T, r, end)
    BY DEF TakesTurns
  <2>. QED
    BY <1>4, <1>9, <1>10, <2>1, <2>2 DEF NewestChain
<1>13. TheirSkippedKeys(T, s, end)
  <2>1. ASSUME NEW j \in 1..Len(s.skipped_message_keys)
        PROVE  LET skipped == s.skipped_message_keys[j]
               IN  /\ OfTurn(T, skipped.ratchet_key, skipped.message_key.key)
                   /\ T.turn[Len(skipped.message_key.key)] # end
                   /\ Len(skipped.message_key.key) <= Stage(s)
    <3>1. CASE j <= new
      <4>1. s.skipped_message_keys[j].message_key.key = m.key.key
        <5>1. s.skipped_message_keys[j].message_key =
                [key |-> m.key.key, index |-> m.counter - j]
          BY <1>4, <3>1
        <5>. QED
          BY <5>1
      <4>2. s.skipped_message_keys[j].ratchet_key = r.receiver_chains[i].ratchet_key
        BY <1>5, <3>1
      <4>. QED
        BY <1>2, <1>8, <1>9, <4>1, <4>2
    <3>2. CASE j > new
      BY <1>4, <1>9, <3>2 DEF TakesTurns, TheirSkippedKeys
    <3>. QED
      BY <1>3, <3>1, <3>2
  <2>. QED
    BY <2>1 DEF TheirSkippedKeys
<1>14. TakesTurns(T, s, end)
  BY <1>4, <1>9, <1>11, <1>12, <1>13 DEF TakesTurns, OwnChain
<1>15. ASSUME NEW j \in 1..Len(s.receiver_chains)
       PROVE  LET chain_key == s.receiver_chains[j].chain_key
              IN  \/ chain_key.key = m.key.key /\ chain_key.index <= m.counter + 1
                  \/ \E l \in 1..Len(r.receiver_chains) : chain_key = r.receiver_chains[l].chain_key
  <2>1. CASE j = i
    BY <1>4, <1>6, <2>1
  <2>2. CASE j # i
    BY <1>4, <2>2
  <2>. QED
    BY <2>1, <2>2
<1>. QED
  BY <1>4, <1>9, <1>14, <1>15 DEF TurnKept

(* What a successful decrypt makes of r. *)
DecryptedInto(r, m, s) ==
  \/ VerifiesOnNewChain(r, m) /\ s = DecryptedOnNewChain(r, m)
  \/ VerifiesOnExistingChain(r, m) /\ s = DecryptedOnExistingChain(r, m)
  \/ VerifiesWithSkippedKey(r, m) /\ s = DecryptedWithSkippedKey(r, m)

LEMMA DecryptedIntoType ==
  ASSUME NEW K, NEW P, NEW r \in Ratchets(K), WithinBounds(r), NEW m \in Messages(K, P),
         NEW s, DecryptedInto(r, m, s)
  PROVE  s \in Ratchets(K) /\ WithinBounds(s)
<1>1. {} \in SUBSET Messages(K, P)
  OBVIOUS
<1>2. CASE VerifiesOnNewChain(r, m) /\ s = DecryptedOnNewChain(r, m)
  BY <1>1, <1>2, NewChainUsed
<1>3. CASE VerifiesOnExistingChain(r, m) /\ s = DecryptedOnExistingChain(r, m)
  BY <1>1, <1>3, ExistingChainUsed
<1>4. CASE VerifiesWithSkippedKey(r, m) /\ s = DecryptedWithSkippedKey(r, m)
  BY <1>1, <1>4, SkippedKeyUsed
<1>. QED
  BY <1>2, <1>3, <1>4 DEF DecryptedInto


(* decrypt keeps the turns, and reads only what the other end has sent. *)
LEMMA DecryptTurns ==
  ASSUME NEW T, NEW K, NEW P, NEW r, NEW end, Turning(T, K, r, end),
         NEW m \in Messages(K, P), OfTurn(T, m.ratchet_key, m.key.key),
         NEW s, DecryptedInto(r, m, s)
  PROVE  TurnKept(T, r, end, m, s) /\ T.turn[Len(m.key.key)] # end
<1>0. /\ IsTurns(T, K) /\ r \in Ratchets(K) /\ WithinBounds(r) /\ TakesTurns(T, r, end)
      /\ m.counter \in Nat
  BY DEF Turning, Messages
<1>1. CASE VerifiesOnNewChain(r, m) /\ s = DecryptedOnNewChain(r, m)
  <2>1. PICK w : w = WithNewReceiverChain(r, m)
    OBVIOUS
  <2>2. /\ TakesTurns(T, w, end)
        /\ T.turn[Stage(r)] = end
        /\ Stage(w) = Stage(r) + 1
        /\ Len(m.key.key) = Stage(r) + 1
        /\ T.turn[Len(m.key.key)] # end
    BY <1>1, <2>1, NewChainTurns
  <2>3. w \in Ratchets(K) /\ NewFront(r, m, w) /\ Verified(w, 1, m)
    BY <1>0, <1>1, <2>1, NewChainVerified
  <2>4. PICK i : i = 1
    OBVIOUS
  <2>5. s = DecryptedOnChain(w, i, m) /\ Verified(w, i, m)
    BY <1>1, <2>1, <2>3, <2>4 DEF DecryptedOnNewChain
  <2>6. TurnKept(T, w, end, m, s) /\ Stage(s) = Stage(w)
    BY <1>0, <2>2, <2>3, <2>5, OnChainTurns
  <2>7. ASSUME NEW l \in 1..Len(w.receiver_chains)
        PROVE  LET chain_key == w.receiver_chains[l].chain_key
               IN  \/ chain_key.key = m.key.key /\ chain_key.index <= m.counter
                   \/ \E j \in 1..Len(r.receiver_chains) : chain_key = r.receiver_chains[j].chain_key
    <3>1. CASE l = 1
      <4>1. /\ m.key = [key |-> w.receiver_chains[1].chain_key.key, index |-> m.counter]
            /\ w.receiver_chains[1].chain_key.index <= m.counter
        BY <2>3 DEF Verified
      <4>2. m.key.key = w.receiver_chains[1].chain_key.key
        BY <4>1
      <4>. QED
        BY <3>1, <4>1, <4>2
    <3>2. CASE l # 1
      <4>1. l \in 2..Len(w.receiver_chains)
        BY <3>2
      <4>. QED
        BY <2>3, <4>1 DEF NewFront
    <3>. QED
      BY <3>1, <3>2
  <2>8. ASSUME NEW j \in 1..Len(s.receiver_chains)
        PROVE  LET chain_key == s.receiver_chains[j].chain_key
               IN  \/ chain_key.key = m.key.key /\ chain_key.index <= m.counter + 1
                   \/ \E l \in 1..Len(r.receiver_chains) : chain_key = r.receiver_chains[l].chain_key
    <3>1. PICK chain_key : chain_key = s.receiver_chains[j].chain_key
      OBVIOUS
    <3>2. CASE chain_key.key = m.key.key /\ chain_key.index <= m.counter + 1
      BY <3>1, <3>2
    <3>3. CASE \E l \in 1..Len(w.receiver_chains) : chain_key = w.receiver_chains[l].chain_key
      <4>1. PICK l \in 1..Len(w.receiver_chains) : chain_key = w.receiver_chains[l].chain_key
        BY <3>3
      <4>2. chain_key.index \in Nat
        BY <2>3, <4>1, StoredTypes
      <4>3. chain_key.index <= m.counter => chain_key.index <= m.counter + 1
        BY <1>0, <4>2
      <4>. QED
        BY <2>7, <3>1, <4>1, <4>3
    <3>. QED
      BY <2>6, <3>1, <3>2, <3>3 DEF TurnKept
  <2>. QED
    BY <2>2, <2>6, <2>8 DEF TurnKept
<1>2. CASE VerifiesOnExistingChain(r, m) /\ s = DecryptedOnExistingChain(r, m)
  <2>1. PICK i : i = ReceiverChain(r, m)
    OBVIOUS
  <2>2. Verified(r, i, m) /\ s = DecryptedOnChain(r, i, m)
    BY <1>0, <1>2, <2>1, ExistingChainVerified DEF DecryptedOnExistingChain
  <2>3. TurnKept(T, r, end, m, s)
    BY <1>0, <2>2, OnChainTurns
  <2>4. /\ i \in 1..Len(r.receiver_chains)
        /\ m.key = [key |-> r.receiver_chains[i].chain_key.key, index |-> m.counter]
    BY <2>2 DEF Verified
  <2>5. m.key.key = r.receiver_chains[i].chain_key.key
    BY <2>4
  <2>6. T.turn[Len(m.key.key)] # end
    BY <1>0, <2>4, <2>5 DEF TakesTurns, TheirChains
  <2>. QED
    BY <2>3, <2>6
<1>3. CASE VerifiesWithSkippedKey(r, m) /\ s = DecryptedWithSkippedKey(r, m)
  <2>1. PICK pos, keys : pos = Min(SkippedKeysFor(r, m)) /\ keys = r.skipped_message_keys
    OBVIOUS
  <2>2. /\ pos \in 1..Len(keys)
        /\ keys[pos].message_key = m.key
        /\ keys \in Seq(SkippedMessageKeys(K))
    BY <1>0, <1>3, <2>1, SkippedKeyInDomain DEF VerifiesWithSkippedKey, Ratchets
  <2>3. s = [r EXCEPT !.skipped_message_keys = Erase(keys, pos)]
    BY <1>3, <2>1 DEF DecryptedWithSkippedKey
  <2>4. /\ s.root_key = r.root_key
        /\ s.sender_chain = r.sender_chain
        /\ s.receiver_chains = r.receiver_chains
        /\ s.skipped_message_keys = Erase(keys, pos)
    BY <1>0, <2>3 DEF Ratchets
  <2>5. \A j \in 1..Len(s.skipped_message_keys) :
          \E k \in 1..Len(keys) : s.skipped_message_keys[j] = keys[k]
    <3>1. /\ Len(Erase(keys, pos)) = Len(keys) - 1
          /\ \A j \in 1..(Len(keys) - 1) :
               Erase(keys, pos)[j] = IF j < pos THEN keys[j] ELSE keys[j + 1]
      BY <2>2, EraseProperties
    <3>2. ASSUME NEW j \in 1..(Len(keys) - 1)
          PROVE  j \in 1..Len(keys) /\ j + 1 \in 1..Len(keys)
      BY <2>2
    <3>. QED
      BY <2>4, <3>1, <3>2
  <2>6. Stage(s) = Stage(r)
    BY <2>4 DEF Stage
  <2>7. TheirSkippedKeys(T, s, end)
    BY <1>0, <2>1, <2>5, <2>6 DEF TakesTurns, TheirSkippedKeys
  <2>8. TakesTurns(T, s, end)
    BY <1>0, <2>4, <2>6, <2>7 DEF TakesTurns, OwnChain, TheirChains, NewestChain
  <2>9. T.turn[Len(m.key.key)] # end
    BY <1>0, <2>1, <2>2 DEF TakesTurns, TheirSkippedKeys
  <2>. QED
    BY <2>4, <2>6, <2>8, <2>9 DEF TurnKept
<1>. QED
  BY <1>1, <1>2, <1>3 DEF DecryptedInto

(***************************************************************************)
(* Two ends of one conversation.                                           *)
(***************************************************************************)
(* An end is at most one chain ahead of its peer, and only on its own. *)
Ahead(T, r, end, peer) ==
  Stage(r) <= Stage(peer) + (IF T.turn[Stage(r)] = end THEN 1 ELSE 0)

(* It has not gone past what its peer has sent on the newest chain. *)
NotPast(r, peer) ==
  \A i \in 1..Len(r.receiver_chains) :
    LET chain_key == r.receiver_chains[i].chain_key
    IN  Len(chain_key.key) = Stage(peer) => chain_key.index <= NextCounter(peer)

TurnPair(T, K, r, x, peer, y) ==
  /\ Turning(T, K, r, x) /\ Turning(T, K, peer, y)
  /\ x # y
  /\ \A end \in T.ends : end = x \/ end = y
  /\ Ahead(T, r, x, peer) /\ Ahead(T, peer, y, r)
  /\ NotPast(r, peer) /\ NotPast(peer, r)

(* The two ends send on the chains in turn. *)
Alternate(T, x, y) ==
  \A n \in Nat : /\ T.turn[n] = x \/ T.turn[n] = y
                 /\ T.turn[n + 1] = x <=> T.turn[n] = y
                 /\ T.turn[n + 1] = y <=> T.turn[n] = x

(* What follows of a pair, for arithmetic. *)
LEMMA PairStages ==
  ASSUME NEW T, NEW K, NEW r, NEW x, NEW peer, NEW y, TurnPair(T, K, r, x, peer, y)
  PROVE  /\ T.base \in Nat
         /\ Stage(r) \in Nat /\ Stage(peer) \in Nat
         /\ Stage(r) >= T.base /\ Stage(peer) >= T.base
         /\ x \in T.ends /\ y \in T.ends /\ x # y
         /\ r \in Ratchets(K) /\ peer \in Ratchets(K)
         /\ Alternate(T, x, y)
         /\ r.sender_chain # << >> <=> T.turn[Stage(r)] = x
         /\ peer.sender_chain # << >> <=> T.turn[Stage(peer)] = y
         /\ Stage(r) <= Stage(peer) + (IF T.turn[Stage(r)] = x THEN 1 ELSE 0)
         /\ Stage(peer) <= Stage(r) + (IF T.turn[Stage(peer)] = y THEN 1 ELSE 0)
<1>1. /\ IsTurns(T, K) /\ T.base \in Nat
      /\ x \in T.ends /\ y \in T.ends /\ x # y
      /\ r \in Ratchets(K) /\ peer \in Ratchets(K)
      /\ TakesTurns(T, r, x) /\ TakesTurns(T, peer, y)
      /\ \A end \in T.ends : end = x \/ end = y
      /\ Ahead(T, r, x, peer) /\ Ahead(T, peer, y, r)
  BY DEF TurnPair, Turning, IsTurns
<1>2. Stage(r) \in Nat /\ Stage(peer) \in Nat
  BY <1>1, StoredTypes
<1>3. /\ Stage(r) >= T.base /\ Stage(peer) >= T.base
      /\ r.sender_chain # << >> <=> T.turn[Stage(r)] = x
      /\ peer.sender_chain # << >> <=> T.turn[Stage(peer)] = y
  BY <1>1 DEF TakesTurns, OwnChain
<1>4. /\ Stage(r) <= Stage(peer) + (IF T.turn[Stage(r)] = x THEN 1 ELSE 0)
      /\ Stage(peer) <= Stage(r) + (IF T.turn[Stage(peer)] = y THEN 1 ELSE 0)
  BY <1>1 DEF Ahead
<1>5. ASSUME NEW n \in Nat
      PROVE  /\ T.turn[n] = x \/ T.turn[n] = y
             /\ T.turn[n + 1] = x <=> T.turn[n] = y
             /\ T.turn[n + 1] = y <=> T.turn[n] = x
  <2>1. T.turn[n] \in T.ends
    BY <1>1 DEF IsTurns
  <2>2. \A end \in T.ends : T.turn[n + 1] = end <=> T.turn[n] # end
    BY <1>1 DEF IsTurns
  <2>. QED
    BY <1>1, <2>1, <2>2, Zenon
<1>. QED
  BY <1>1, <1>2, <1>3, <1>4, <1>5 DEF Alternate

LEMMA PairSwaps ==
  ASSUME NEW T, NEW K, NEW r, NEW x, NEW peer, NEW y, TurnPair(T, K, r, x, peer, y)
  PROVE  TurnPair(T, K, peer, y, r, x)
  BY Zenon DEF TurnPair


(* encrypt keeps the ends together: a new chain is one that the other end  *)
(* has not got to, and a message on a chain is past all the earlier ones.  *)
LEMMA EncryptPair ==
  ASSUME NEW T, NEW K, NEW P, NEW r, NEW x, NEW peer, NEW y, TurnPair(T, K, r, x, peer, y),
         NEW fresh \in K, NextPair(T, r, fresh),
         NEW text \in P, NEW s, s = Encrypted(r, fresh),
         NEW m, m = EncryptedMessage(r, fresh, text)
  PROVE  /\ TurnPair(T, K, s, x, peer, y)
         /\ SentOnTurn(T, s, x, m)
         /\ \A d \in Messages(K, P) : SentOnTurn(T, r, x, d) => SentOnTurn(T, s, x, d)
<1>1. /\ Turning(T, K, r, x) /\ Turning(T, K, peer, y)
      /\ x # y
      /\ \A end \in T.ends : end = x \/ end = y
      /\ NotPast(r, peer) /\ NotPast(peer, r)
  BY DEF TurnPair
<1>2. PICK n, c, new : n = Stage(r) /\ c = Stage(peer) /\ new = Stage(s)
  OBVIOUS
<1>3. /\ n \in Nat /\ c \in Nat
      /\ r \in Ratchets(K) /\ peer \in Ratchets(K)
      /\ Alternate(T, x, y)
      /\ r.sender_chain # << >> <=> T.turn[n] = x
      /\ n <= c + (IF T.turn[n] = x THEN 1 ELSE 0)
      /\ c <= n + (IF T.turn[c] = y THEN 1 ELSE 0)
  BY <1>2, PairStages
<1>4. IsTurns(T, K) /\ x \in T.ends /\ WithinBounds(r)
  BY <1>1 DEF Turning
<1>5. s \in Ratchets(K) /\ WithinBounds(s)
  BY <1>3, <1>4, EncryptedProperties
<1>6. TakesTurns(T, s, x) /\ NextOnTurn(T, r, x, s, m)
  BY <1>1, EncryptTurns
<1>7. /\ s.sender_chain # << >>
      /\ new = IF r.sender_chain = << >> THEN n + 1 ELSE n
      /\ T.turn[new] = x
      /\ OfTurn(T, m.ratchet_key, m.key.key)
      /\ Len(m.key.key) = new
      /\ m.counter = IF r.sender_chain = << >> THEN 0 ELSE NextCounter(r)
      /\ m.counter \in Nat
      /\ m.key.index = m.counter
      /\ NextCounter(s) = m.counter + 1
      /\ s.receiver_chains = r.receiver_chains
  BY <1>2, <1>6 DEF NextOnTurn
<1>8. new \in Nat /\ n <= new
  BY <1>3, <1>7
<1>9. Turning(T, K, s, x)
  BY <1>4, <1>5, <1>6 DEF Turning
<1>10. Ahead(T, s, x, peer)
  <2>1. n <= c + 1 /\ (T.turn[n] # x => n <= c) /\ n \in Nat /\ c \in Nat
    BY <1>3
  <2>2. new = n \/ (new = n + 1 /\ T.turn[n] # x)
    <3>1. r.sender_chain = << >> => T.turn[n] # x
      BY <1>3
    <3>2. new = IF r.sender_chain = << >> THEN n + 1 ELSE n
      BY <1>7
    <3>. QED
      BY <3>1, <3>2
  <2>3. new <= c + 1
    BY <2>1, <2>2
  <2>. QED
    BY <1>2, <1>7, <2>3 DEF Ahead
<1>11. Ahead(T, peer, y, s)
  <2>1. c <= n + (IF T.turn[c] = y THEN 1 ELSE 0) /\ n \in Nat /\ c \in Nat
    BY <1>3
  <2>2. c <= new + (IF T.turn[c] = y THEN 1 ELSE 0)
    BY <1>8, <2>1
  <2>. QED
    BY <1>2, <2>2 DEF Ahead
<1>12. NotPast(s, peer)
  BY <1>1, <1>7 DEF NotPast
<1>13. NotPast(peer, s)
  <2>1. ASSUME NEW i \in 1..Len(peer.receiver_chains),
               Len(peer.receiver_chains[i].chain_key.key) = new
        PROVE  peer.receiver_chains[i].chain_key.index <= NextCounter(s)
    <3>1. /\ peer.receiver_chains[i].chain_key.index \in Nat
          /\ Len(peer.receiver_chains[i].chain_key.key) <= c
      BY <1>1, <1>2, <1>3, StoredTypes DEF Turning, TakesTurns, TheirChains
    <3>2. CASE r.sender_chain # << >>
      <4>1. new = n /\ NextCounter(s) = NextCounter(r) + 1 /\ NextCounter(r) \in Nat
        BY <1>3, <1>7, <3>2, StoredTypes
      <4>2. peer.receiver_chains[i].chain_key.index <= NextCounter(r)
        BY <1>1, <1>2, <2>1, <4>1 DEF NotPast
      <4>. QED
        BY <3>1, <4>1, <4>2
    <3>3. CASE r.sender_chain = << >>
      <4>1. new = n + 1 /\ new <= c
        BY <1>7, <2>1, <3>1, <3>3
      <4>2. c <= n + 1
        BY <1>3
      <4>3. c = n + 1
        BY <1>3, <4>1, <4>2
      <4>4. T.turn[c] = x
        BY <1>7, <4>1, <4>3
      <4>. QED
        BY <1>1, <1>3, <4>3, <4>4
    <3>. QED
      BY <3>2, <3>3
  <2>. QED
    BY <1>2, <2>1 DEF NotPast
<1>14. TurnPair(T, K, s, x, peer, y)
  BY <1>1, <1>9, <1>10, <1>11, <1>12, <1>13 DEF TurnPair
<1>15. SentOnTurn(T, s, x, m)
  BY <1>2, <1>7, <1>8 DEF SentOnTurn
<1>16. ASSUME NEW d \in Messages(K, P), SentOnTurn(T, r, x, d)
       PROVE  SentOnTurn(T, s, x, d)
  <2>1. PICK k : k = Len(d.key.key)
    OBVIOUS
  <2>2. /\ OfTurn(T, d.ratchet_key, d.key.key)
        /\ T.turn[k] = x
        /\ d.key.index = d.counter
        /\ k <= n
        /\ k = n => r.sender_chain # << >> /\ d.counter < NextCounter(r)
    BY <1>2, <1>16, <2>1 DEF SentOnTurn
  <2>3. k \in Nat /\ d.counter \in Nat
    BY <2>1 DEF Messages, MessageKeys, ChainKeys, Histories
  <2>4. k <= new
    BY <1>3, <1>8, <2>2, <2>3
  <2>5. k = new => d.counter < NextCounter(s)
    <3>1. SUFFICES ASSUME k = new
                   PROVE  d.counter < NextCounter(s)
      OBVIOUS
    <3>2. k = n /\ r.sender_chain # << >>
      BY <1>3, <1>7, <2>2, <2>3, <3>1
    <3>3. NextCounter(r) \in Nat
      BY <1>3, <3>2, StoredTypes
    <3>. QED
      BY <1>7, <2>2, <2>3, <3>2, <3>3
  <2>. QED
    BY <1>2, <1>7, <2>1, <2>2, <2>4, <2>5 DEF SentOnTurn
<1>. QED
  BY <1>14, <1>15, <1>16

(* decrypt of a message of the other end keeps the ends together.          *)
LEMMA DecryptPair ==
  ASSUME NEW T, NEW K, NEW P, NEW r, NEW x, NEW peer, NEW y, TurnPair(T, K, r, x, peer, y),
         NEW m \in Messages(K, P), SentOnTurn(T, peer, y, m),
         NEW s, DecryptedInto(r, m, s)
  PROVE  /\ TurnPair(T, K, s, x, peer, y)
         /\ \A d \in Messages(K, P) : SentOnTurn(T, r, x, d) => SentOnTurn(T, s, x, d)
<1>1. /\ Turning(T, K, r, x) /\ Turning(T, K, peer, y)
      /\ x # y
      /\ \A end \in T.ends : end = x \/ end = y
      /\ NotPast(r, peer) /\ NotPast(peer, r)
  BY DEF TurnPair
<1>2. PICK n, c, new : n = Stage(r) /\ c = Stage(peer) /\ new = Stage(s)
  OBVIOUS
<1>3. /\ n \in Nat /\ c \in Nat
      /\ r \in Ratchets(K) /\ peer \in Ratchets(K)
      /\ Alternate(T, x, y)
      /\ peer.sender_chain # << >> <=> T.turn[c] = y
      /\ n <= c + (IF T.turn[n] = x THEN 1 ELSE 0)
      /\ c <= n + (IF T.turn[c] = y THEN 1 ELSE 0)
  <2>1. /\ Stage(r) \in Nat /\ Stage(peer) \in Nat
        /\ r \in Ratchets(K) /\ peer \in Ratchets(K)
        /\ Alternate(T, x, y)
    BY PairStages
  <2>2. /\ peer.sender_chain # << >> <=> T.turn[Stage(peer)] = y
        /\ Stage(r) <= Stage(peer) + (IF T.turn[Stage(r)] = x THEN 1 ELSE 0)
        /\ Stage(peer) <= Stage(r) + (IF T.turn[Stage(peer)] = y THEN 1 ELSE 0)
    BY PairStages
  <2>. QED
    BY <1>2, <2>1, <2>2
<1>4. IsTurns(T, K) /\ x \in T.ends /\ WithinBounds(r)
  BY <1>1 DEF Turning
<1>5. s \in Ratchets(K) /\ WithinBounds(s)
  BY <1>3, <1>4, DecryptedIntoType
<1>6. /\ OfTurn(T, m.ratchet_key, m.key.key)
      /\ Len(m.key.key) <= c
      /\ Len(m.key.key) = c => peer.sender_chain # << >> /\ m.counter < NextCounter(peer)
      /\ m.counter \in Nat
  BY <1>2 DEF SentOnTurn, Messages
<1>7. TurnKept(T, r, x, m, s)
  BY <1>1, <1>6, DecryptTurns
<1>8. /\ TakesTurns(T, s, x)
      /\ \/ new = n /\ s.sender_chain = r.sender_chain
         \/ T.turn[n] = x /\ new = n + 1 /\ new <= c
      /\ \A i \in 1..Len(s.receiver_chains) :
           LET chain_key == s.receiver_chains[i].chain_key
           IN  \/ chain_key.key = m.key.key /\ chain_key.index <= m.counter + 1
               \/ \E j \in 1..Len(r.receiver_chains) : chain_key = r.receiver_chains[j].chain_key
  BY <1>2, <1>6, <1>7 DEF TurnKept
<1>9. new \in Nat
  <2>1. n \in Nat /\ (new = n \/ new = n + 1)
    BY <1>3, <1>8
  <2>. QED
    BY <2>1
<1>10. Turning(T, K, s, x)
  BY <1>4, <1>5, <1>8 DEF Turning
<1>11. Ahead(T, s, x, peer)
  <2>1. new <= c + (IF T.turn[new] = x THEN 1 ELSE 0)
    BY <1>3, <1>8
  <2>. QED
    BY <1>2, <2>1 DEF Ahead
<1>12. Ahead(T, peer, y, s)
  <2>1. c <= new + (IF T.turn[c] = y THEN 1 ELSE 0)
    BY <1>3, <1>8
  <2>. QED
    BY <1>2, <2>1 DEF Ahead
<1>13. NotPast(s, peer)
  <2>1. ASSUME NEW i \in 1..Len(s.receiver_chains),
               Len(s.receiver_chains[i].chain_key.key) = c
        PROVE  s.receiver_chains[i].chain_key.index <= NextCounter(peer)
    <3>1. PICK chain_key : chain_key = s.receiver_chains[i].chain_key
      OBVIOUS
    <3>2. CASE chain_key.key = m.key.key /\ chain_key.index <= m.counter + 1
      <4>1. peer.sender_chain # << >> /\ m.counter < NextCounter(peer)
        BY <1>6, <2>1, <3>1, <3>2
      <4>2. NextCounter(peer) \in Nat
        BY <1>3, <4>1, StoredTypes
      <4>3. chain_key.index \in Nat
        BY <1>5, <3>1, StoredTypes
      <4>. QED
        BY <1>6, <3>1, <3>2, <4>1, <4>2, <4>3
    <3>3. CASE \E j \in 1..Len(r.receiver_chains) : chain_key = r.receiver_chains[j].chain_key
      BY <1>1, <1>2, <2>1, <3>1, <3>3 DEF NotPast
    <3>. QED
      BY <1>8, <3>1, <3>2, <3>3
  <2>. QED
    BY <1>2, <2>1 DEF NotPast
<1>14. NotPast(peer, s)
  <2>1. CASE new = n /\ s.sender_chain = r.sender_chain
    BY <1>1, <1>2, <2>1 DEF NotPast, NextCounter
  <2>2. CASE T.turn[n] = x /\ new = n + 1
    <3>1. T.turn[new] = y
      BY <1>3, <2>2 DEF Alternate
    <3>2. \A i \in 1..Len(peer.receiver_chains) :
            T.turn[Len(peer.receiver_chains[i].chain_key.key)] # y
      BY <1>1 DEF Turning, TakesTurns, TheirChains
    <3>. QED
      BY <1>2, <3>1, <3>2 DEF NotPast
  <2>. QED
    BY <1>8, <2>1, <2>2
<1>15. TurnPair(T, K, s, x, peer, y)
  BY <1>1, <1>10, <1>11, <1>12, <1>13, <1>14 DEF TurnPair
<1>16. ASSUME NEW d \in Messages(K, P), SentOnTurn(T, r, x, d)
       PROVE  SentOnTurn(T, s, x, d)
  <2>1. PICK k : k = Len(d.key.key)
    OBVIOUS
  <2>2. /\ OfTurn(T, d.ratchet_key, d.key.key)
        /\ T.turn[k] = x
        /\ d.key.index = d.counter
        /\ k <= n
        /\ k = n => r.sender_chain # << >> /\ d.counter < NextCounter(r)
    BY <1>2, <1>16, <2>1 DEF SentOnTurn
  <2>3. k \in Nat
    BY <2>1 DEF Messages, MessageKeys, ChainKeys, Histories
  <2>4. CASE new = n /\ s.sender_chain = r.sender_chain
    BY <1>2, <2>1, <2>2, <2>4 DEF SentOnTurn, NextCounter
  <2>5. CASE new = n + 1
    <3>1. k <= new /\ k # new
      BY <1>3, <2>2, <2>3, <2>5
    <3>. QED
      BY <1>2, <2>1, <2>2, <3>1 DEF SentOnTurn
  <2>. QED
    BY <1>8, <2>4, <2>5
<1>. QED
  BY <1>15, <1>16


(* How far ahead of the chain it is for a message may be. *)
WithinGap(r, m) ==
  IF HasReceiverChain(r, m)
  THEN m.counter - r.receiver_chains[ReceiverChain(r, m)].chain_key.index <= MAX_MESSAGE_GAP
  ELSE m.counter <= MAX_MESSAGE_GAP

LEMMA LowCounterWithinGap ==
  ASSUME NEW K, NEW P, NEW r \in Ratchets(K), NEW m \in Messages(K, P),
         m.counter <= MAX_MESSAGE_GAP
  PROVE  WithinGap(r, m)
<1>1. m.counter \in Nat /\ MAX_MESSAGE_GAP \in Nat
  BY RatchetConstants DEF Messages
<1>2. CASE HasReceiverChain(r, m)
  <2>1. ReceiverChain(r, m) \in 1..Len(r.receiver_chains)
    BY <1>2, ReceiverChainInDomain
  <2>2. PICK index : index = r.receiver_chains[ReceiverChain(r, m)].chain_key.index
    OBVIOUS
  <2>3. index \in Nat
    BY <2>1, <2>2, StoredTypes
  <2>4. m.counter - index <= MAX_MESSAGE_GAP
    BY <1>1, <2>3
  <2>. QED
    BY <1>2, <2>2, <2>4 DEF WithinGap
<1>3. CASE ~ HasReceiverChain(r, m)
  BY <1>3 DEF WithinGap
<1>. QED
  BY <1>2, <1>3

(* The message that an end sends next is on the newest chain that its peer *)
(* has, or on the one after the peer's own.                                *)
LEMMA NextStage ==
  ASSUME NEW T, NEW K, NEW r, NEW x, NEW peer, NEW y, TurnPair(T, K, r, x, peer, y),
         NEW k, k = IF r.sender_chain = << >> THEN Stage(r) + 1 ELSE Stage(r)
  PROVE  \/ T.turn[Stage(peer)] = x /\ Stage(peer) = k /\ r.sender_chain # << >> /\ k = Stage(r)
         \/ T.turn[Stage(peer)] = y /\ Stage(peer) = k + 1 /\ r.sender_chain # << >> /\ k = Stage(r)
         \/ T.turn[Stage(peer)] = y /\ Stage(peer) = k - 1
<1>1. PICK n, c : n = Stage(r) /\ c = Stage(peer)
  OBVIOUS
<1>2. /\ n \in Nat /\ c \in Nat /\ x # y
      /\ Alternate(T, x, y)
      /\ r.sender_chain # << >> <=> T.turn[n] = x
      /\ n <= c + (IF T.turn[n] = x THEN 1 ELSE 0)
      /\ c <= n + (IF T.turn[c] = y THEN 1 ELSE 0)
  BY <1>1, PairStages
<1>3. CASE T.turn[n] = x
  <2>1. k = n /\ r.sender_chain # << >>
    BY <1>1, <1>2, <1>3
  <2>2. CASE T.turn[c] = x
    <3>1. c <= n /\ n <= c + 1
      BY <1>2, <1>3, <2>2
    <3>2. n # c + 1
      BY <1>2, <1>3, <2>2 DEF Alternate
    <3>3. c = n
      BY <1>2, <3>1, <3>2
    <3>. QED
      BY <1>1, <2>1, <2>2, <3>3
  <2>3. CASE T.turn[c] = y
    <3>1. c <= n + 1 /\ n <= c + 1
      BY <1>2, <1>3, <2>3
    <3>2. c # n
      BY <1>2, <1>3, <2>3
    <3>3. c = n + 1 \/ c = n - 1
      BY <1>2, <3>1, <3>2
    <3>. QED
      BY <1>1, <2>1, <2>3, <3>3
  <2>. QED
    BY <1>2, <2>2, <2>3 DEF Alternate
<1>4. CASE T.turn[n] # x
  <2>1. k = n + 1 /\ T.turn[n] = y /\ n <= c
    <3>1. T.turn[n] = y
      BY <1>2, <1>4 DEF Alternate
    <3>2. r.sender_chain = << >>
      BY <1>2, <1>4
    <3>3. n <= c
      BY <1>2, <1>4
    <3>. QED
      BY <1>1, <3>1, <3>2, <3>3
  <2>2. CASE T.turn[c] = x
    <3>1. c = n
      BY <1>2, <2>1, <2>2
    <3>. QED
      BY <1>4, <2>2, <3>1
  <2>3. CASE T.turn[c] = y
    <3>1. c # n + 1
      BY <1>2, <2>1, <2>3 DEF Alternate
    <3>2. c = n
      BY <1>2, <2>1, <2>3, <3>1
    <3>. QED
      BY <1>1, <1>2, <2>1, <2>3, <3>2
  <2>. QED
    BY <1>2, <2>2, <2>3 DEF Alternate
<1>. QED
  BY <1>3, <1>4

(* Whatever was lost, reordered or rejected, what an end encrypts next is  *)
(* a message that the other end decrypts, within the gap.                  *)
LEMMA NextReadable ==
  ASSUME NEW T, NEW K, NEW P, NEW r, NEW x, NEW peer, NEW y, TurnPair(T, K, r, x, peer, y),
         NEW fresh \in K, NextPair(T, r, fresh), NEW text \in P,
         NEW m, m = EncryptedMessage(r, fresh, text), WithinGap(peer, m)
  PROVE  CanDecrypt(peer, m)
<1>1. /\ Turning(T, K, r, x) /\ Turning(T, K, peer, y) /\ NotPast(peer, r)
      /\ IsTurns(T, K) /\ x \in T.ends /\ y \in T.ends
      /\ peer \in Ratchets(K) /\ TakesTurns(T, peer, y)
      /\ r \in Ratchets(K) /\ WithinBounds(r)
  BY DEF TurnPair, Turning
<1>2. PICK c, k : /\ c = Stage(peer)
                  /\ k = IF r.sender_chain = << >> THEN Stage(r) + 1 ELSE Stage(r)
  OBVIOUS
<1>3. /\ c \in Nat /\ c >= T.base /\ k \in Nat /\ k >= T.base /\ x # y
      /\ \/ T.turn[c] = x /\ c = k /\ r.sender_chain # << >> /\ k = Stage(r)
         \/ T.turn[c] = y /\ c = k + 1 /\ r.sender_chain # << >> /\ k = Stage(r)
         \/ T.turn[c] = y /\ c = k - 1
  <2>1. /\ T.base \in Nat /\ Stage(r) \in Nat /\ c \in Nat /\ Stage(r) >= T.base /\ c >= T.base
        /\ x # y
    BY <1>2, PairStages
  <2>2. k \in Nat /\ k >= T.base
    BY <1>2, <2>1
  <2>. QED
    BY <1>2, <2>1, <2>2, NextStage
<1>4. m \in Messages(K, P)
  <2>1. PICK chain : chain = WithSenderChain(r, fresh).sender_chain[1]
    OBVIOUS
  <2>. QED
    BY <1>1, <2>1, EncryptedMessageProperties
<1>5. /\ m.ratchet_key = T.key[k]
      /\ m.counter = IF r.sender_chain = << >> THEN 0 ELSE NextCounter(r)
      /\ m.counter \in Nat
      /\ m.key = [key |-> T.root[k], index |-> m.counter]
  <2>1. PICK s : s = Encrypted(r, fresh)
    OBVIOUS
  <2>2. NextOnTurn(T, r, x, s, m)
    BY <1>1, <2>1, EncryptTurns
  <2>. QED
    BY <1>2, <2>2 DEF NextOnTurn
<1>6. CASE HasReceiverChain(peer, m)
  <2>1. PICK i : i = ReceiverChain(peer, m)
    OBVIOUS
  <2>2. i \in 1..Len(peer.receiver_chains) /\ peer.receiver_chains[i].ratchet_key = T.key[k]
    BY <1>1, <1>4, <1>5, <1>6, <2>1, ReceiverChainInDomain
  <2>3. PICK chain_key : chain_key = peer.receiver_chains[i].chain_key
    OBVIOUS
  <2>4. chain_key \in ChainKeys(K) /\ chain_key.index \in Nat /\ Len(chain_key.key) \in Nat
    BY <1>1, <2>2, <2>3, StoredTypes
  <2>5. PICK l : l = Len(chain_key.key)
    OBVIOUS
  <2>6. /\ l >= T.base /\ T.key[k] = T.key[l]
        /\ chain_key.key = T.root[l]
        /\ l <= c /\ T.turn[l] # y
    BY <1>1, <1>2, <2>2, <2>3, <2>5 DEF TakesTurns, TheirChains, OfTurn
  <2>7. l = k
    BY <1>1, <1>3, <2>4, <2>5, <2>6 DEF IsTurns
  <2>8. k = Stage(r) /\ r.sender_chain # << >>
    BY <1>3, <2>6, <2>7
  <2>9. chain_key.index <= NextCounter(r)
    BY <1>1, <2>2, <2>3, <2>5, <2>7, <2>8 DEF NotPast
  <2>10. chain_key.index <= m.counter
    BY <1>5, <2>8, <2>9
  <2>11. m.counter - chain_key.index <= MAX_MESSAGE_GAP
    BY <1>6, <2>1, <2>3 DEF WithinGap
  <2>12. AdvancedTo(chain_key, m.counter) = m.key
    <3>1. AdvancedTo(chain_key, m.counter) = [key |-> chain_key.key, index |-> m.counter]
      BY <1>5, <2>4, ChainKeySteps
    <3>. QED
      BY <1>5, <2>6, <2>7, <3>1
  <2>13. VerifiesOnChain(chain_key, m)
    BY <1>5, <2>4, <2>10, <2>11, <2>12 DEF VerifiesOnChain, create_message_keys
  <2>. QED
    BY <1>6, <2>1, <2>3, <2>13 DEF VerifiesOnExistingChain, CanDecrypt
<1>7. CASE ~ HasReceiverChain(peer, m)
  <2>1. T.turn[c] = y /\ c = k - 1
    <3>1. SUFFICES ASSUME ~ (T.turn[c] = y /\ c = k - 1)
                   PROVE  FALSE
      OBVIOUS
    <3>2. (IF T.turn[c] = y THEN c - 1 ELSE c) = k
      BY <1>3, <3>1
    <3>3. 1 <= Len(peer.receiver_chains) /\ Len(peer.receiver_chains[1].chain_key.key) = k
      BY <1>1, <1>2, <1>3, <3>2 DEF TakesTurns, NewestChain
    <3>4. 1 \in 1..Len(peer.receiver_chains)
      BY <1>1, <3>3, StoredTypes
    <3>5. peer.receiver_chains[1].ratchet_key = T.key[k]
      BY <1>1, <3>3, <3>4 DEF TakesTurns, TheirChains, OfTurn
    <3>6. 1 \in DOMAIN peer.receiver_chains
      BY <1>1, <3>4 DEF Ratchets
    <3>. QED
      BY <1>5, <1>7, <3>5, <3>6 DEF HasReceiverChain, ChainsFor
  <2>2. /\ peer.sender_chain # << >>
        /\ peer.sender_chain[1].ratchet_key = T.key[c]
        /\ peer.root_key = T.root[c]
    BY <1>1, <1>2, <2>1 DEF TakesTurns, OwnChain
  <2>3. Append(T.root[c], {T.key[c], T.key[k]}) = T.root[k]
    <3>1. c + 1 = k
      BY <1>3, <2>1
    <3>. QED
      BY <1>1, <1>3, <3>1, TurnsOf
  <2>4. NewChain(peer, m).chain_key = [key |-> T.root[k], index |-> 0]
    BY <1>5, <2>2, <2>3 DEF NewChain, create_chain_key, SharedSecret
  <2>5. m.counter <= MAX_MESSAGE_GAP
    BY <1>7 DEF WithinGap
  <2>6. AdvancedTo([key |-> T.root[k], index |-> 0], m.counter) = m.key
    BY <1>5 DEF AdvancedTo
  <2>7. VerifiesOnNewChain(peer, m)
    BY <1>5, <1>7, <2>2, <2>4, <2>5, <2>6
       DEF VerifiesOnNewChain, VerifiesOnChain, create_message_keys
  <2>. QED
    BY <2>7 DEF CanDecrypt
<1>. QED
  BY <1>6, <1>7


(* The conversation at its beginning: x has a first sender chain, and y    *)
(* was made from the ratchet key of that chain.                            *)
Fresh(r, secret, ratchet_key) ==
  /\ r.root_key = secret
  /\ r.sender_chain # << >>
  /\ r.sender_chain[1].ratchet_key = ratchet_key
  /\ r.sender_chain[1].chain_key.key = secret
  /\ r.receiver_chains = << >>
  /\ r.skipped_message_keys = << >>

LEMMA StartPair ==
  ASSUME NEW T, NEW K, IsTurns(T, K), NEW x \in T.ends, NEW y \in T.ends, x # y,
         \A end \in T.ends : end = x \/ end = y, T.turn[T.base] = x,
         NEW r \in Ratchets(K), WithinBounds(r), Fresh(r, T.root[T.base], T.key[T.base]),
         NEW peer, peer = initialise_as_bob(T.root[T.base], T.key[T.base])
  PROVE  TurnPair(T, K, r, x, peer, y)
<1>1. PICK b, h, key : b = T.base /\ h = T.root[b] /\ key = T.key[b]
  OBVIOUS
<1>2. b \in Nat /\ h \in Histories(K) /\ Len(h) = b /\ key \in K
  BY <1>1, TurnsOf DEF IsTurns
<1>3. PICK chain : chain = [ratchet_key |-> key, chain_key |-> [key |-> h, index |-> 0]]
  OBVIOUS
<1>4. /\ peer.root_key = h /\ peer.sender_chain = << >> /\ peer.receiver_chains = << chain >>
      /\ peer.skipped_message_keys = << >>
  BY <1>1, <1>3 DEF initialise_as_bob
<1>5. peer \in Ratchets(K) /\ WithinBounds(peer)
  <2>1. PICK H : H = {h}
    OBVIOUS
  <2>2. PICK k : k = {key}
    OBVIOUS
  <2>3. h \in H /\ key \in k /\ peer = initialise_as_bob(h, key)
    BY <1>1, <2>1, <2>2
  <2>. QED
    BY <1>2, <2>3, BobKeeps
<1>6. Stage(r) = b /\ Stage(peer) = b
  BY <1>1, <1>2, <1>4 DEF Stage, Fresh
<1>7. T.turn[b] = x /\ x # y
  BY <1>1
<1>8. /\ chain.ratchet_key = key /\ chain.chain_key.key = h /\ chain.chain_key.index = 0
      /\ OfTurn(T, key, h)
  BY <1>1, <1>2, <1>3 DEF OfTurn
<1>9. /\ 1..Len(r.receiver_chains) = {} /\ 1..Len(r.skipped_message_keys) = {}
      /\ 1..Len(peer.skipped_message_keys) = {}
  <2>1. /\ Len(r.receiver_chains) = 0 /\ Len(r.skipped_message_keys) = 0
        /\ Len(peer.skipped_message_keys) = 0
    BY <1>4 DEF Fresh
  <2>2. 1..0 = {}
    OBVIOUS
  <2>. QED
    BY <2>1, <2>2
<1>10. /\ Len(peer.receiver_chains) = 1
       /\ peer.receiver_chains[1] = chain
       /\ \A i \in 1..Len(peer.receiver_chains) : peer.receiver_chains[i] = chain
  BY <1>4
<1>11. TakesTurns(T, r, x)
  <2>1. TheirChains(T, r, x) /\ TheirSkippedKeys(T, r, x)
    BY <1>9, Zenon DEF TheirChains, TheirSkippedKeys
  <2>2. NewestChain(T, r, x)
    BY <1>1, <1>2, <1>6, <1>7 DEF NewestChain
  <2>3. OwnChain(T, r, x)
    BY <1>1, <1>6, <1>7 DEF OwnChain, Fresh
  <2>. QED
    BY <1>1, <1>2, <1>6, <2>1, <2>2, <2>3 DEF TakesTurns, Fresh
<1>12. TakesTurns(T, peer, y)
  <2>1. TheirChains(T, peer, y)
    <3>1. /\ OfTurn(T, chain.ratchet_key, chain.chain_key.key)
          /\ T.turn[Len(chain.chain_key.key)] # y
          /\ Len(chain.chain_key.key) <= Stage(peer)
      BY <1>2, <1>6, <1>7, <1>8
    <3>. QED
      BY <1>10, <3>1, Zenon DEF TheirChains
  <2>2. TheirSkippedKeys(T, peer, y)
    BY <1>9, Zenon DEF TheirSkippedKeys
  <2>3. NewestChain(T, peer, y)
    BY <1>2, <1>6, <1>7, <1>8, <1>10 DEF NewestChain
  <2>4. OwnChain(T, peer, y)
    BY <1>4, <1>6, <1>7 DEF OwnChain
  <2>. QED
    BY <1>1, <1>2, <1>4, <1>6, <2>1, <2>2, <2>3, <2>4 DEF TakesTurns
<1>13. Ahead(T, r, x, peer) /\ Ahead(T, peer, y, r)
  BY <1>2, <1>6, <1>7 DEF Ahead
<1>14. NotPast(r, peer)
  BY <1>9, Zenon DEF NotPast
<1>15. NotPast(peer, r)
  <2>1. NextCounter(r) \in Nat
    BY StoredTypes DEF Fresh
  <2>2. 0 <= NextCounter(r)
    BY <2>1
  <2>. QED
    BY <1>8, <1>10, <2>2 DEF NotPast
<1>16. Turning(T, K, r, x) /\ Turning(T, K, peer, y)
  BY <1>5, <1>11, <1>12 DEF Turning
<1>. QED
  BY <1>7, <1>13, <1>14, <1>15, <1>16 DEF TurnPair

(* The histories of a conversation that starts from a secret. *)
RootsFrom(secret, key) ==
  [n \in Nat |-> [i \in 1..n |-> IF i <= Len(secret) THEN secret[i] ELSE {key[i - 1], key[i]}]]

LEMMA RootsFromSecret ==
  ASSUME NEW K, NEW secret \in Histories(K), NEW key,
         \A n \in Nat : n >= Len(secret) => key[n] \in K
  PROVE  /\ RootsFrom(secret, key)[Len(secret)] = secret
         /\ \A n \in Nat : n >= Len(secret) =>
              /\ RootsFrom(secret, key)[n] \in Histories(K)
              /\ Len(RootsFrom(secret, key)[n]) = n
              /\ Append(RootsFrom(secret, key)[n], {key[n], key[n + 1]})
                   = RootsFrom(secret, key)[n + 1]
<1>1. PICK b : b = Len(secret)
  OBVIOUS
<1>2. /\ b \in Nat /\ secret = [i \in 1..b |-> secret[i]]
      /\ \A i \in 1..b : secret[i] \in SUBSET K
  BY <1>1 DEF Histories
<1>3. RootsFrom(secret, key)[b] = secret
  <2>1. RootsFrom(secret, key)[b] =
          [i \in 1..b |-> IF i <= b THEN secret[i] ELSE {key[i - 1], key[i]}]
    BY <1>1, <1>2 DEF RootsFrom
  <2>2. [i \in 1..b |-> IF i <= b THEN secret[i] ELSE {key[i - 1], key[i]}]
          = [i \in 1..b |-> secret[i]]
    BY <1>2
  <2>. QED
    BY <1>2, <2>1, <2>2
<1>4. ASSUME NEW n \in Nat, n >= b
      PROVE  /\ RootsFrom(secret, key)[n] \in Histories(K)
             /\ Len(RootsFrom(secret, key)[n]) = n
             /\ Append(RootsFrom(secret, key)[n], {key[n], key[n + 1]})
                  = RootsFrom(secret, key)[n + 1]
  <2>1. PICK f, g : f = RootsFrom(secret, key)[n] /\ g = RootsFrom(secret, key)[n + 1]
    OBVIOUS
  <2>2. /\ f = [i \in 1..n |-> IF i <= b THEN secret[i] ELSE {key[i - 1], key[i]}]
        /\ g = [i \in 1..(n + 1) |-> IF i <= b THEN secret[i] ELSE {key[i - 1], key[i]}]
    BY <1>1, <2>1 DEF RootsFrom
  <2>3. ASSUME NEW i \in 1..(n + 1)
        PROVE  (IF i <= b THEN secret[i] ELSE {key[i - 1], key[i]}) \in SUBSET K
    <3>1. CASE i <= b
      <4>1. i \in 1..b
        BY <1>2, <3>1
      <4>. QED
        BY <1>2, <3>1, <4>1
    <3>2. CASE ~ (i <= b)
      <4>1. i - 1 \in Nat /\ i \in Nat /\ i - 1 >= b /\ i >= b
        BY <1>2, <3>2
      <4>2. key[i - 1] \in K /\ key[i] \in K
        BY <1>1, <4>1
      <4>. QED
        BY <3>2, <4>2
    <3>. QED
      BY <3>1, <3>2
  <2>4. \A i \in 1..n : i \in 1..(n + 1)
    OBVIOUS
  <2>5. \A i \in 1..n : f[i] \in SUBSET K
    BY <2>2, <2>3, <2>4
  <2>6. f \in Seq(SUBSET K) /\ Len(f) = n
    <3>1. f = [i \in 1..n |-> f[i]]
      BY <2>2
    <3>. QED
      BY <2>5, <3>1, IsASeq
  <2>7. \A i \in 1..(n + 1) : g[i] \in SUBSET K
    BY <2>2, <2>3
  <2>8. g \in Seq(SUBSET K) /\ Len(g) = n + 1
    <3>1. g = [i \in 1..(n + 1) |-> g[i]]
      BY <2>2
    <3>2. n + 1 \in Nat
      OBVIOUS
    <3>. QED
      BY <2>7, <3>1, <3>2, IsASeq
  <2>9. PICK last : last = {key[n], key[n + 1]}
    OBVIOUS
  <2>10. last \in SUBSET K
    <3>1. n + 1 \in Nat /\ n + 1 >= b
      BY <1>2, <1>4
    <3>. QED
      BY <1>1, <1>4, <2>9, <3>1
  <2>11. /\ Append(f, last) \in Seq(SUBSET K) /\ Len(Append(f, last)) = n + 1
         /\ \A i \in 1..n : Append(f, last)[i] = f[i]
         /\ Append(f, last)[n + 1] = last
    BY <2>6, <2>10, AppendProperties
  <2>12. ASSUME NEW i \in 1..(n + 1)
         PROVE  Append(f, last)[i] = g[i]
    <3>1. CASE i = n + 1
      <4>1. ~ (i <= b) /\ i - 1 = n
        BY <1>2, <1>4, <3>1
      <4>. QED
        BY <2>2, <2>9, <2>11, <3>1, <4>1
    <3>2. CASE i # n + 1
      <4>1. i \in 1..n
        BY <3>2
      <4>. QED
        BY <2>2, <2>11, <4>1
    <3>. QED
      BY <3>1, <3>2
  <2>13. Append(f, last) = g
    BY <2>8, <2>11, <2>12, SeqEqual
  <2>. QED
    BY <2>1, <2>6, <2>9, <2>13 DEF Histories
<1>. QED
  BY <1>1, <1>3, <1>4

(***************************************************************************)
(* Two ends and what they have sent, M and N.  They are together when they *)
(* take turns, or one has begun and was not answered, or the other was     *)
(* made from a ratchet key that is not the first one: then no message of   *)
(* either is ever read.                                                    *)
(***************************************************************************)
Together(T, K, r, x, M, peer, y, N) ==
  /\ TurnPair(T, K, r, x, peer, y)
  /\ \A m \in M : SentOnTurn(T, r, x, m)
  /\ \A m \in N : SentOnTurn(T, peer, y, m)

Alone(r, secret, ratchet_key, M) ==
  /\ Fresh(r, secret, ratchet_key)
  /\ \A m \in M : /\ m.ratchet_key = ratchet_key
                  /\ m.key = [key |-> secret, index |-> m.counter]
                  /\ m.counter < NextCounter(r)

(* What an end that was made from the key wrong has sent. *)
Unread(r, secret, wrong, own, M) ==
  IF r.sender_chain = << >>
  THEN r.root_key = secret /\ M = {}
  ELSE \E fresh \in own :
         /\ r.root_key = Append(secret, {fresh, wrong})
         /\ r.sender_chain[1].chain_key.key = r.root_key
         /\ \A m \in M : m.key.key = r.root_key

Astray(K, r, secret, ratchet_key, own, M) ==
  \E wrong \in K \ {ratchet_key} :
    /\ r.receiver_chains =
         << [ratchet_key |-> wrong, chain_key |-> [key |-> secret, index |-> 0]] >>
    /\ r.skipped_message_keys = << >>
    /\ Unread(r, secret, wrong, own, M)

(* Another error was recorded, nothing else. *)
SameButError(r, s) ==
  /\ s.root_key = r.root_key
  /\ s.sender_chain = r.sender_chain
  /\ s.receiver_chains = r.receiver_chains
  /\ s.skipped_message_keys = r.skipped_message_keys

LEMMA TogetherSwaps ==
  ASSUME NEW T, NEW K, NEW r, NEW x, NEW M, NEW peer, NEW y, NEW N,
         Together(T, K, r, x, M, peer, y, N)
  PROVE  Together(T, K, peer, y, N, r, x, M)
<1>1. TurnPair(T, K, peer, y, r, x)
  BY PairSwaps DEF Together
<1>. QED
  BY <1>1 DEF Together

LEMMA TogetherEncrypts ==
  ASSUME NEW T, NEW K, NEW P, NEW r, NEW x, NEW M \in SUBSET Messages(K, P),
         NEW peer, NEW y, NEW N, Together(T, K, r, x, M, peer, y, N),
         NEW fresh \in K, NextPair(T, r, fresh),
         NEW text \in P, NEW s, s = Encrypted(r, fresh),
         NEW m, m = EncryptedMessage(r, fresh, text)
  PROVE  Together(T, K, s, x, M \cup {m}, peer, y, N)
<1>1. TurnPair(T, K, r, x, peer, y)
  BY DEF Together
<1>2. /\ TurnPair(T, K, s, x, peer, y)
      /\ SentOnTurn(T, s, x, m)
      /\ \A d \in Messages(K, P) : SentOnTurn(T, r, x, d) => SentOnTurn(T, s, x, d)
  BY <1>1, EncryptPair
<1>. QED
  BY <1>2, Zenon DEF Together

LEMMA TogetherDecrypts ==
  ASSUME NEW T, NEW K, NEW P, NEW r, NEW x, NEW M \in SUBSET Messages(K, P),
         NEW peer, NEW y, NEW N \in SUBSET Messages(K, P), Together(T, K, r, x, M, peer, y, N),
         NEW m \in N, NEW s, DecryptedInto(r, m, s)
  PROVE  Together(T, K, s, x, M, peer, y, N)
<1>1. TurnPair(T, K, r, x, peer, y) /\ SentOnTurn(T, peer, y, m) /\ m \in Messages(K, P)
  BY DEF Together
<1>2. /\ TurnPair(T, K, s, x, peer, y)
      /\ \A d \in Messages(K, P) : SentOnTurn(T, r, x, d) => SentOnTurn(T, s, x, d)
  BY <1>1, DecryptPair
<1>. QED
  BY <1>2, Zenon DEF Together

LEMMA AloneEncrypts ==
  ASSUME NEW K, NEW r \in Ratchets(K), WithinBounds(r), NEW fresh \in K, NEW text,
         NEW secret, NEW ratchet_key, NEW M, Alone(r, secret, ratchet_key, M),
         \A d \in M : d.counter \in Nat,
         NEW s, s = Encrypted(r, fresh),
         NEW m, m = EncryptedMessage(r, fresh, text)
  PROVE  Alone(s, secret, ratchet_key, M \cup {m})
<1>1. PICK chain \in SenderChains(K) : SendsWith(chain, r, fresh, text, s, m)
  BY EncryptedSends
<1>2. /\ Fresh(r, secret, ratchet_key)
      /\ \A d \in M : /\ d.ratchet_key = ratchet_key
                      /\ d.key = [key |-> secret, index |-> d.counter]
                      /\ d.counter < NextCounter(r)
  BY DEF Alone
<1>3. /\ chain = r.sender_chain[1]
      /\ chain.ratchet_key = ratchet_key
      /\ chain.chain_key.key = secret
      /\ s.root_key = secret
      /\ s.receiver_chains = << >>
      /\ s.skipped_message_keys = << >>
  BY <1>1, <1>2 DEF SendsWith, Fresh
<1>4. PICK index : index = chain.chain_key.index
  OBVIOUS
<1>5. index \in Nat /\ index = NextCounter(r) /\ chain.chain_key \in ChainKeys(K)
  BY <1>3, <1>4 DEF SenderChains, ChainKeys, NextCounter
<1>6. PICK new : new = [ratchet_key |-> ratchet_key,
                        chain_key |-> [key |-> secret, index |-> index + 1]]
  OBVIOUS
<1>7. s.sender_chain = << new >>
  BY <1>1, <1>3, <1>4, <1>6 DEF SendsWith
<1>8. /\ s.sender_chain # << >> /\ s.sender_chain[1] = new
      /\ new.ratchet_key = ratchet_key /\ new.chain_key.key = secret
      /\ new.chain_key.index = index + 1
  BY <1>6, <1>7
<1>9. Fresh(s, secret, ratchet_key) /\ NextCounter(s) = index + 1
  BY <1>3, <1>8 DEF Fresh, NextCounter
<1>10. /\ m.ratchet_key = ratchet_key /\ m.counter = index
       /\ m.key = chain.chain_key
  BY <1>1, <1>3, <1>4 DEF SendsWith
<1>11. m.key = [key |-> secret, index |-> m.counter]
  BY <1>3, <1>4, <1>5, <1>10 DEF ChainKeys
<1>12. m.counter < NextCounter(s)
  BY <1>5, <1>9, <1>10
<1>13. \A d \in M : d.counter < NextCounter(s)
  <2>1. TAKE d \in M
  <2>2. PICK c : c = d.counter
    OBVIOUS
  <2>3. c \in Nat /\ c < index
    BY <1>2, <1>5, <2>2
  <2>4. c < index + 1
    BY <1>5, <2>3
  <2>. QED
    BY <1>9, <2>2, <2>4
<1>. QED
  BY <1>2, <1>9, <1>10, <1>11, <1>12, <1>13 DEF Alone

LEMMA AstrayEncrypts ==
  ASSUME NEW K, NEW r \in Ratchets(K), WithinBounds(r), NEW fresh \in K, NEW text,
         NEW secret, NEW ratchet_key, NEW own, fresh \in own,
         NEW M, Astray(K, r, secret, ratchet_key, own, M),
         NEW s, s = Encrypted(r, fresh),
         NEW m, m = EncryptedMessage(r, fresh, text)
  PROVE  Astray(K, s, secret, ratchet_key, own, M \cup {m})
<1>1. PICK chain \in SenderChains(K) : SendsWith(chain, r, fresh, text, s, m)
  BY EncryptedSends
<1>2. PICK wrong \in K \ {ratchet_key} :
        /\ r.receiver_chains =
             << [ratchet_key |-> wrong, chain_key |-> [key |-> secret, index |-> 0]] >>
        /\ r.skipped_message_keys = << >>
        /\ Unread(r, secret, wrong, own, M)
  BY DEF Astray
<1>3. s.receiver_chains = r.receiver_chains /\ s.skipped_message_keys = r.skipped_message_keys
  BY <1>1 DEF SendsWith
<1>4. r.receiver_chains[1].ratchet_key = wrong
  BY <1>2
<1>5. PICK next : next = [ratchet_key |-> chain.ratchet_key,
                          chain_key |-> [key |-> chain.chain_key.key,
                                         index |-> chain.chain_key.index + 1]]
  OBVIOUS
<1>6. /\ s.sender_chain # << >> /\ s.sender_chain[1].chain_key.key = chain.chain_key.key
      /\ m.key.key = chain.chain_key.key
  <2>1. s.sender_chain = << next >> /\ m.key = chain.chain_key
    BY <1>1, <1>5 DEF SendsWith
  <2>. QED
    BY <1>5, <2>1
<1>7. Unread(s, secret, wrong, own, M \cup {m})
  <2>1. CASE r.sender_chain # << >>
    <3>1. PICK first \in own : /\ r.root_key = Append(secret, {first, wrong})
                               /\ r.sender_chain[1].chain_key.key = r.root_key
                               /\ \A d \in M : d.key.key = r.root_key
      BY <1>2, <2>1 DEF Unread
    <3>2. chain = r.sender_chain[1] /\ s.root_key = r.root_key
      BY <1>1, <2>1 DEF SendsWith
    <3>. QED
      BY <1>6, <3>1, <3>2 DEF Unread
  <2>2. CASE r.sender_chain = << >>
    <3>1. r.root_key = secret /\ M = {}
      BY <1>2, <2>2 DEF Unread
    <3>2. /\ s.root_key = Append(secret, {fresh, wrong})
          /\ chain.chain_key.key = s.root_key
      BY <1>1, <1>4, <2>2, <3>1 DEF SendsWith
    <3>. QED
      BY <1>6, <3>1, <3>2 DEF Unread
  <2>. QED
    BY <2>1, <2>2
<1>. QED
  BY <1>2, <1>3, <1>7 DEF Astray

(* What the first end sent is not for an end that went astray. *)
LEMMA AstrayReadsNothing ==
  ASSUME NEW K, NEW P, NEW r \in Ratchets(K), WithinBounds(r),
         NEW secret \in Histories(K), NEW ratchet_key, NEW own \in SUBSET K,
         NEW M, Astray(K, r, secret, ratchet_key, own, M),
         NEW m \in Messages(K, P), m.ratchet_key = ratchet_key, m.key.key = secret
  PROVE  ~ CanDecrypt(r, m)
<1>1. PICK wrong \in K \ {ratchet_key} :
        /\ r.receiver_chains =
             << [ratchet_key |-> wrong, chain_key |-> [key |-> secret, index |-> 0]] >>
        /\ Unread(r, secret, wrong, own, M)
  BY DEF Astray
<1>2. ~ HasReceiverChain(r, m)
  <2>1. /\ DOMAIN r.receiver_chains = {1}
        /\ r.receiver_chains[1].ratchet_key = wrong
    BY <1>1
  <2>2. ChainsFor(r, m) = {}
    BY <1>1, <2>1 DEF ChainsFor
  <2>. QED
    BY <2>2 DEF HasReceiverChain
<1>3. ASSUME VerifiesOnNewChain(r, m)
      PROVE  FALSE
  <2>1. PICK w : w = WithNewReceiverChain(r, m)
    OBVIOUS
  <2>2. /\ Len(w.root_key) = Len(r.root_key) + 1
        /\ m.key = [key |-> w.root_key, index |-> m.counter]
    BY <1>3, <2>1, NewChainVerified
  <2>3. r.sender_chain # << >>
    BY <1>3 DEF VerifiesOnNewChain
  <2>4. PICK fresh \in own : r.root_key = Append(secret, {fresh, wrong})
    BY <1>1, <2>3 DEF Unread
  <2>5. PICK n : n = Len(secret)
    OBVIOUS
  <2>6. n \in Nat /\ Len(r.root_key) = n + 1
    BY <1>1, <2>4, <2>5, AppendProperties DEF Histories
  <2>7. w.root_key = secret
    BY <2>2
  <2>. QED
    BY <2>2, <2>5, <2>6, <2>7
<1>. QED
  BY <1>2, <1>3 DEF CanDecrypt, VerifiesOnExistingChain, VerifiesWithSkippedKey

(* Nor can the first end read what such an end sends. *)
LEMMA AloneReadsNothing ==
  ASSUME NEW K, NEW P, NEW r \in Ratchets(K), WithinBounds(r),
         NEW secret \in Histories(K), NEW ratchet_key \in K, NEW M,
         Alone(r, secret, ratchet_key, M),
         NEW peer, NEW own \in SUBSET K, ratchet_key \notin own,
         NEW N, Astray(K, peer, secret, ratchet_key, own, N),
         NEW m \in Messages(K, P), m \in N
  PROVE  ~ CanDecrypt(r, m)
<1>1. /\ r.root_key = secret
      /\ r.sender_chain # << >>
      /\ r.sender_chain[1].ratchet_key = ratchet_key
      /\ r.receiver_chains = << >>
  BY DEF Alone, Fresh
<1>2. ~ HasReceiverChain(r, m)
  BY <1>1 DEF HasReceiverChain, ChainsFor
<1>3. PICK wrong \in K \ {ratchet_key} : Unread(peer, secret, wrong, own, N)
  BY DEF Astray
<1>4. PICK fresh \in own : m.key.key = Append(secret, {fresh, wrong})
  BY <1>3 DEF Unread
<1>5. ASSUME VerifiesOnNewChain(r, m)
      PROVE  FALSE
  <2>1. PICK w : w = WithNewReceiverChain(r, m)
    OBVIOUS
  <2>2. /\ NewFront(r, m, w)
        /\ m.key = [key |-> w.root_key, index |-> m.counter]
    BY <1>5, <2>1, NewChainVerified
  <2>3. PICK a, b : a = {ratchet_key, m.ratchet_key} /\ b = {fresh, wrong}
    OBVIOUS
  <2>4. w.root_key = Append(secret, a)
    BY <1>1, <2>2, <2>3 DEF NewFront, NewChain, create_chain_key, SharedSecret
  <2>5. Append(secret, a) = Append(secret, b)
    BY <1>4, <2>2, <2>3, <2>4
  <2>6. a \in SUBSET K /\ b \in SUBSET K
    BY <1>3, <1>4, <2>3 DEF Messages
  <2>7. secret \in Seq(SUBSET K)
    BY DEF Histories
  <2>8. Append(secret, a)[Len(secret) + 1] = a /\ Append(secret, b)[Len(secret) + 1] = b
    BY <2>6, <2>7, AppendProperties
  <2>9. a = b
    BY <2>5, <2>8
  <2>10. ratchet_key \in b
    BY <2>3, <2>9
  <2>. QED
    BY <1>3, <1>4, <2>3, <2>10
<1>. QED
  BY <1>2, <1>5 DEF CanDecrypt, VerifiesOnExistingChain, VerifiesWithSkippedKey

(* The second end is made: from the first ratchet key, or from a wrong one. *)
LEMMA Begins ==
  ASSUME NEW T, NEW K, IsTurns(T, K), NEW x \in T.ends, NEW y \in T.ends, x # y,
         \A end \in T.ends : end = x \/ end = y, T.turn[T.base] = x,
         NEW secret, secret = T.root[T.base], NEW ratchet_key, ratchet_key = T.key[T.base],
         NEW r \in Ratchets(K), WithinBounds(r), NEW M, Alone(r, secret, ratchet_key, M),
         NEW their \in K, NEW peer, peer = initialise_as_bob(secret, their), NEW own
  PROVE  \/ Together(T, K, r, x, M, peer, y, {})
         \/ Astray(K, peer, secret, ratchet_key, own, {})
<1>1. CASE their = ratchet_key
  <2>1. Fresh(r, secret, ratchet_key)
    BY DEF Alone
  <2>2. peer = initialise_as_bob(secret, ratchet_key)
    BY <1>1
  <2>3. TurnPair(T, K, r, x, peer, y)
    BY <2>1, <2>2, StartPair
  <2>4. T.base \in Nat /\ Len(secret) = T.base /\ Stage(r) = T.base
    <3>1. PICK b : b = T.base
      OBVIOUS
    <3>2. b \in Nat /\ b >= T.base
      BY <3>1 DEF IsTurns
    <3>3. Len(T.root[b]) = b
      BY <3>2, TurnsOf
    <3>4. r.root_key = secret
      BY <2>1 DEF Fresh
    <3>. QED
      BY <3>1, <3>2, <3>3, <3>4 DEF Stage
  <2>5. ASSUME NEW m \in M
        PROVE  SentOnTurn(T, r, x, m)
    <3>1. /\ m.ratchet_key = ratchet_key
          /\ m.key = [key |-> secret, index |-> m.counter]
          /\ m.counter < NextCounter(r)
      BY DEF Alone
    <3>2. m.key.key = secret /\ m.key.index = m.counter
      BY <3>1
    <3>3. OfTurn(T, m.ratchet_key, m.key.key)
      BY <2>4, <3>1, <3>2 DEF OfTurn
    <3>4. r.sender_chain # << >>
      BY <2>1 DEF Fresh
    <3>. QED
      BY <2>4, <3>1, <3>2, <3>3, <3>4 DEF SentOnTurn
  <2>. QED
    BY <2>3, <2>5 DEF Together
<1>2. CASE their # ratchet_key
  <2>1. PICK chain : chain = [ratchet_key |-> their, chain_key |-> [key |-> secret, index |-> 0]]
    OBVIOUS
  <2>2. /\ peer.receiver_chains = << chain >>
        /\ peer.skipped_message_keys = << >>
        /\ peer.sender_chain = << >>
        /\ peer.root_key = secret
    BY <2>1 DEF initialise_as_bob
  <2>3. Unread(peer, secret, their, own, {})
    BY <2>2 DEF Unread
  <2>4. their \in K \ {ratchet_key}
    BY <1>2
  <2>. QED
    BY <2>1, <2>2, <2>3, <2>4 DEF Astray
<1>. QED
  BY <1>1, <1>2

(* Errors do not matter. *)
LEMMA SameTurns ==
  ASSUME NEW T, NEW K, NEW r, NEW x, NEW M, NEW peer, NEW y, NEW N,
         Together(T, K, r, x, M, peer, y, N),
         NEW s \in Ratchets(K), SameButError(r, s)
  PROVE  Together(T, K, s, x, M, peer, y, N)
<1>1. /\ Turning(T, K, r, x) /\ Turning(T, K, peer, y)
      /\ x # y
      /\ \A end \in T.ends : end = x \/ end = y
      /\ Ahead(T, r, x, peer) /\ Ahead(T, peer, y, r)
      /\ NotPast(r, peer) /\ NotPast(peer, r)
  BY DEF Together, TurnPair
<1>2. /\ IsTurns(T, K) /\ x \in T.ends /\ WithinBounds(r) /\ TakesTurns(T, r, x)
  BY <1>1 DEF Turning
<1>3. Stage(s) = Stage(r) /\ NextCounter(s) = NextCounter(r)
  BY DEF SameButError, Stage, NextCounter
<1>4. WithinBounds(s)
  BY <1>2 DEF SameButError, WithinBounds
<1>5. TakesTurns(T, s, x)
  <2>1. /\ Stage(r) >= T.base /\ r.root_key = T.root[Stage(r)]
        /\ OwnChain(T, r, x) /\ TheirChains(T, r, x)
        /\ NewestChain(T, r, x) /\ TheirSkippedKeys(T, r, x)
    BY <1>2 DEF TakesTurns
  <2>2. OwnChain(T, s, x)
    BY <1>3, <2>1 DEF OwnChain, SameButError
  <2>3. TheirChains(T, s, x)
    BY <1>3, <2>1, Zenon DEF TheirChains, SameButError
  <2>4. NewestChain(T, s, x)
    BY <1>3, <2>1, Zenon DEF NewestChain, SameButError
  <2>5. TheirSkippedKeys(T, s, x)
    BY <1>3, <2>1, Zenon DEF TheirSkippedKeys, SameButError
  <2>. QED
    BY <1>3, <2>1, <2>2, <2>3, <2>4, <2>5 DEF TakesTurns, SameButError
<1>6. Turning(T, K, s, x)
  BY <1>2, <1>4, <1>5 DEF Turning
<1>7. Ahead(T, s, x, peer) /\ Ahead(T, peer, y, s)
  BY <1>1, <1>3 DEF Ahead
<1>8. NotPast(s, peer) /\ NotPast(peer, s)
  BY <1>1, <1>3, Zenon DEF NotPast, SameButError
<1>9. TurnPair(T, K, s, x, peer, y)
  BY <1>1, <1>6, <1>7, <1>8 DEF TurnPair
<1>10. ASSUME NEW m \in M
       PROVE  SentOnTurn(T, s, x, m)
  <2>1. SentOnTurn(T, r, x, m)
    BY DEF Together
  <2>. QED
    BY <1>3, <2>1 DEF SentOnTurn, SameButError
<1>. QED
  BY <1>9, <1>10 DEF Together

LEMMA SameAlone ==
  ASSUME NEW r, NEW s, SameButError(r, s),
         NEW secret, NEW ratchet_key, NEW M, Alone(r, secret, ratchet_key, M)
  PROVE  Alone(s, secret, ratchet_key, M)
<1>1. Fresh(s, secret, ratchet_key) /\ NextCounter(s) = NextCounter(r)
  BY DEF Alone, Fresh, SameButError, NextCounter
<1>. QED
  BY <1>1 DEF Alone

LEMMA SameAstray ==
  ASSUME NEW K, NEW r, NEW s, SameButError(r, s),
         NEW secret, NEW ratchet_key, NEW own, NEW M, Astray(K, r, secret, ratchet_key, own, M)
  PROVE  Astray(K, s, secret, ratchet_key, own, M)
BY Zenon DEF Astray, Unread, SameButError

=============================================================================
