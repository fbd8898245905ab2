------------------------- MODULE OlmSessions_proofs -------------------------
(***************************************************************************)
(* Theorems about OlmSessions, for every value of its constants: any       *)
(* number of parties, sessions, one-time keys and messages, and any limit  *)
(* of the lists.                                                           *)
(***************************************************************************)
EXTENDS OlmSessions, Ratchet_proofs

(***************************************************************************)
(* Types.                                                                  *)
(***************************************************************************)
Purpose == {"identity", "one_time", "base", "ratchet"}
Key == {NoKey} \cup (Party \X Purpose \X Nat \X Nat)
Place == Party \X Nat
Body == Messages(Key, Place)
Entry == [id : Nat, published : BOOLEAN, key : Key]
PublicKey == [id : Nat, key : Key]

SessionError == Error \cup {"BAD_MESSAGE_KEY_ID"}

AccountType ==
  [identity_key         : Key,
   one_time_keys        : Seq(Entry),
   next_one_time_key_id : Nat,
   last_error           : SessionError]

SessionType ==
  [ratchet            : Ratchets(Key),
   last_error         : SessionError,
   received_message   : BOOLEAN,
   alice_identity_key : Key,
   alice_base_key     : Key,
   bob_one_time_key   : Key]

PlainMessage == [type : {"MESSAGE"}, message : Body]
PreKeyMessage ==
  [type : {"PRE_KEY"}, version : Nat, message : Body,
   identity_key : Key, base_key : Key, one_time_key : Key]

(* What each variable holds, and for session and role: in each slot. *)
StateType ==
  /\ bounds \in Bounds
  /\ account \in [Party -> AccountType]
  /\ session = [p \in Party |-> session[p]]
  /\ \A p \in Party : session[p] \in [Slots[p] -> SessionType]
  /\ role = [p \in Party |-> role[p]]
  /\ \A p \in Party : role[p] \in [Slots[p] -> {"none", "alice", "bob"}]
  /\ forgotten \in [Party -> SUBSET Nat]
  /\ uploaded \in [Party -> SUBSET PublicKey]
  /\ removed \in [Party -> SUBSET Key]
  /\ sent \subseteq PlainMessage \cup PreKeyMessage
  /\ delivered \in [Party -> SUBSET [slot : Nat, message : Body]]

(***************************************************************************)
(* The accounts.                                                           *)
(***************************************************************************)
(* The entries of a list are the party's newest keys that were not         *)
(* removed, newest first: entry i is at least i - 1 keys old.              *)
ListInv(p, list, next) ==
  /\ Len(list) <= MAX_ONE_TIME_KEYS
  /\ \A i, j \in 1..Len(list) : i < j => list[i].id > list[j].id
  /\ \A i \in 1..Len(list) : /\ list[i].id \in 1..(next - i + 1)
                             /\ list[i].key = OneTimeKey(p, list[i].id)

KeysInv(p, list, next, gone) ==
  \A id \in 1..next :
    \/ \E i \in 1..Len(list) : list[i].id = id
    \/ OneTimeKey(p, id) \in gone
    \/ next - id >= MAX_ONE_TIME_KEYS

AccountInv(p) ==
  LET list == account[p].one_time_keys
      next == account[p].next_one_time_key_id
  IN  /\ account[p].identity_key = IdentityKey(p)
      /\ next <= MaxKeys[p]
      /\ ListInv(p, list, next)
      /\ KeysInv(p, list, next, removed[p])
      /\ \A k \in uploaded[p] : k.id \in 1..next /\ k.key = OneTimeKey(p, k.id)
      /\ removed[p] \subseteq { k.key : k \in uploaded[p] }

(***************************************************************************)
(* The sessions.                                                           *)
(***************************************************************************)
UploadedKeys == UNION { { k.key : k \in uploaded[p] } : p \in Party }

(* Alice's base key, and what a damaged message can make of it. *)
Bases == { BaseKey(p, s) : p \in Party, s \in Nat } \cup { OneTimeKey(p, n) : p \in Party, n \in Nat }

IdsInv(p, s, S, end) ==
  /\ end \in {"alice", "bob"}
  /\ \E q \in Party, n \in Nat : S.bob_one_time_key = OneTimeKey(q, n)
  /\ end = "alice" => /\ S.alice_identity_key = IdentityKey(p)
                      /\ S.alice_base_key = BaseKey(p, s)
                      /\ Owner(S.bob_one_time_key) # p
  /\ end = "bob" => /\ \E q \in Party : S.alice_identity_key = IdentityKey(q)
                    /\ S.alice_base_key \in Bases
                    /\ Owner(S.bob_one_time_key) = p

(* The secret that both ends of a session combine. *)
Secret(S) ==
  << {S.alice_identity_key, S.bob_one_time_key},
     {S.alice_base_key, IdentityKey(Owner(S.bob_one_time_key))},
     {S.alice_base_key, S.bob_one_time_key} >>

(* The histories of keys that were derived from it. *)
From(history, secret) ==
  /\ Len(history) >= 3
  /\ history[1] = secret[1]
  /\ history[2] = secret[2]
  /\ history[3] = secret[3]

HistoriesOf(S) == { h \in Histories(Key) : From(h, Secret(S)) }

OwnKeys(p, s) == { RatchetKeyOf(p, s, n) : n \in Nat }

(* used: what was decrypted in the session. *)
RatchetInv(p, s, S, end, used) ==
  /\ WithinBounds(S.ratchet)
  /\ Keeps(S.ratchet, HistoriesOf(S), OwnKeys(p, s), Key \ OwnKeys(p, s))
  /\ ReplaySafe(S.ratchet, used)
  /\ S.received_message => used # {}
  /\ end = "alice" /\ used = {} =>
       /\ S.ratchet.root_key = Secret(S)
       /\ Len(S.ratchet.sender_chain) = 1
       /\ S.ratchet.sender_chain[1].chain_key.key = Secret(S)

DeliveredIn(p, s) == { d.message : d \in { x \in delivered[p] : x.slot = s } }

SlotInv(p, s) ==
  IF Opened(p, s)
  THEN /\ IdsInv(p, s, session[p][s], role[p][s])
       /\ RatchetInv(p, s, session[p][s], role[p][s], DeliveredIn(p, s))
       /\ session[p][s].bob_one_time_key \in UploadedKeys
  ELSE /\ session[p][s].ratchet = new_ratchet
       /\ ~ session[p][s].received_message

ForgottenInv(p) ==
  \A s \in forgotten[p] :
    /\ s \in Slots[p]
    /\ Opened(p, s)
    /\ ~ lookup_key(account[p], session[p][s].bob_one_time_key)

(* A one-time key opens one session of its owner. *)
OneSession(p) ==
  \A s, t \in Slots[p] :
    /\ role[p][s] = "bob" /\ role[p][t] = "bob"
    /\ session[p][s].bob_one_time_key = session[p][t].bob_one_time_key
    /\ session[p][s].alice_identity_key = session[p][t].alice_identity_key
    /\ session[p][s].alice_base_key = session[p][t].alice_base_key
    => s = t

(***************************************************************************)
(* The messages.                                                           *)
(***************************************************************************)
(* m was encrypted in the session S of the slot s of p. *)
BodyInv(m, p, s, S) ==
  /\ m.ratchet_key \in OwnKeys(p, s)
  /\ From(m.key.key, Secret(S))
  /\ Len(m.key.key) <= Len(S.ratchet.root_key)

SentInv(m) ==
  LET p == m.message.plaintext[1]
      s == m.message.plaintext[2]
      S == session[p][s]
  IN  /\ s \in Slots[p]
      /\ Opened(p, s)
      /\ BodyInv(m.message, p, s, S)
      /\ m.type = "PRE_KEY" => /\ m.identity_key = S.alice_identity_key
                               /\ m.base_key = S.alice_base_key
                               /\ m.one_time_key = S.bob_one_time_key
      /\ m.type = "MESSAGE" => DeliveredIn(p, s) # {}

DeliveredInv(p) ==
  \A d \in delivered[p] :
    /\ d.slot \in Slots[p]
    /\ \E m \in sent : m.message = d.message
    /\ OtherEnd(p, d.slot, d.message.plaintext[1], d.message.plaintext[2])

SessionsInv ==
  /\ \A p \in Party : /\ AccountInv(p)
                      /\ \A s \in Slots[p] : SlotInv(p, s)
                      /\ ForgottenInv(p)
                      /\ OneSession(p)
                      /\ DeliveredInv(p)
  /\ \A m \in sent : SentInv(m)

(***************************************************************************)
(* Names of keys.                                                          *)
(***************************************************************************)
LEMMA KeyTypes ==
  ASSUME NEW p \in Party
  PROVE  /\ NoKey \in Key
         /\ IdentityKey(p) \in Key
         /\ \A n \in Nat : OneTimeKey(p, n) \in Key
         /\ \A s \in Nat : BaseKey(p, s) \in Key
         /\ \A s, n \in Nat : RatchetKeyOf(p, s, n) \in Key
BY DEF Key, Purpose, NoKey, IdentityKey, OneTimeKey, BaseKey, RatchetKeyOf

(* The name of a key says whose it is and what it is for. *)
LEMMA KeyOwners ==
  /\ \A p : Owner(IdentityKey(p)) = p
  /\ \A p, n : Owner(OneTimeKey(p, n)) = p
  /\ \A p, s : Owner(BaseKey(p, s)) = p
BY DEF Owner, IdentityKey, OneTimeKey, BaseKey

LEMMA KeyNames ==
  /\ \A p, q : IdentityKey(p) = IdentityKey(q) => p = q
  /\ \A p, q, n, k : OneTimeKey(p, n) = OneTimeKey(q, k) => p = q /\ n = k
  /\ \A p, q, s, t : BaseKey(p, s) = BaseKey(q, t) => p = q /\ s = t
  /\ \A p, q, s, t, n, k :
       RatchetKeyOf(p, s, n) = RatchetKeyOf(q, t, k) => p = q /\ s = t
  /\ \A p, q, n : IdentityKey(p) # OneTimeKey(q, n)
  /\ \A p, q, s, n : BaseKey(p, s) # OneTimeKey(q, n)
  /\ \A p, q, s, t, n : RatchetKeyOf(p, s, n) # BaseKey(q, t)
  /\ \A p, q, s, k, n : RatchetKeyOf(p, s, n) # OneTimeKey(q, k)
BY DEF IdentityKey, OneTimeKey, BaseKey, RatchetKeyOf

(***************************************************************************)
(* The list of one-time keys.                                              *)
(***************************************************************************)
LEMMA InsertFirstAllLength ==
  ASSUME NEW S, NEW list \in Seq(S), NEW values \in Seq(S), NEW max \in Nat
  PROVE  Len(InsertFirstAll(list, max, values)) =
           IF Len(values) + Len(list) < max THEN Len(values) + Len(list) ELSE max
BY DEF InsertFirstAll, Truncate, Reverse

(* Where the entries of a list come from, when n new ones are made. *)
Inserted(p, list, next, n, after) ==
  /\ after \in Seq(Entry)
  /\ Len(after) = IF n + Len(list) < MAX_ONE_TIME_KEYS THEN n + Len(list) ELSE MAX_ONE_TIME_KEYS
  /\ \A j \in 1..Len(after) :
       j <= n => /\ after[j].id = next + n - j + 1
                 /\ after[j].key = OneTimeKey(p, next + n - j + 1)
  /\ \A j \in 1..Len(after) :
       j > n => j - n \in 1..Len(list) /\ after[j] = list[j - n]

LEMMA InsertedList ==
  ASSUME NEW p, NEW list \in Seq(Entry), NEW next \in Nat, NEW n \in Nat,
         NEW new \in Seq(Entry), Len(new) = n,
         \A i \in 1..n : new[i].id = next + i /\ new[i].key = OneTimeKey(p, next + i),
         NEW after, after = InsertFirstAll(list, MAX_ONE_TIME_KEYS, new)
  PROVE  Inserted(p, list, next, n, after)
<1>1. MAX_ONE_TIME_KEYS \in Nat
  BY AccountConstants
<1>2. /\ after \in Seq(Entry)
      /\ \A j \in 1..Len(after) :
           \/ j <= n /\ after[j] = new[n - j + 1]
           \/ /\ j > n
              /\ j - n \in 1..Len(list)
              /\ after[j] = list[j - n]
  <2>1. PICK T, max : T = Entry /\ max = MAX_ONE_TIME_KEYS
    OBVIOUS
  <2>2. list \in Seq(T) /\ new \in Seq(T) /\ max \in Nat /\ after = InsertFirstAll(list, max, new)
    BY <1>1, <2>1
  <2>3. after \in Seq(T)
    BY <2>2, InsertFirstAllProperties
  <2>4. \A j \in 1..Len(after) :
           \/ j <= Len(new) /\ after[j] = new[Len(new) - j + 1]
           \/ /\ j > Len(new)
              /\ j - Len(new) \in 1..Len(list)
              /\ after[j] = list[j - Len(new)]
    BY <2>2, InsertFirstAllProperties, SMTT(30)
  <2>. QED
    BY <2>1, <2>3, <2>4
<1>3. Len(after) = IF n + Len(list) < MAX_ONE_TIME_KEYS THEN n + Len(list) ELSE MAX_ONE_TIME_KEYS
  BY <1>1, InsertFirstAllLength
<1>4. ASSUME NEW j \in 1..Len(after), j <= n
      PROVE  /\ after[j].id = next + n - j + 1
             /\ after[j].key = OneTimeKey(p, next + n - j + 1)
  <2>1. after[j] = new[n - j + 1]
    BY <1>2, <1>4
  <2>2. n - j + 1 \in 1..n /\ next + (n - j + 1) = next + n - j + 1
    BY <1>4
  <2>. QED
    BY <2>1, <2>2
<1>5. \A j \in 1..Len(after) : j > n => j - n \in 1..Len(list) /\ after[j] = list[j - n]
  BY <1>2
<1>. QED
  BY <1>2, <1>3, <1>4, <1>5 DEF Inserted

LEMMA GeneratedList ==
  ASSUME NEW p \in Party, NEW list \in Seq(Entry), NEW next \in Nat, NEW n \in Nat,
         NEW pairs, pairs = [i \in 1..n |-> OneTimeKey(p, next + i)],
         NEW new, new = [i \in DOMAIN pairs |->
                           [id |-> next + i, published |-> FALSE, key |-> pairs[i]]],
         NEW after, after = InsertFirstAll(list, MAX_ONE_TIME_KEYS, new)
  PROVE  Inserted(p, list, next, n, after)
<1> DEFINE entry(i) == [id |-> next + i, published |-> FALSE, key |-> OneTimeKey(p, next + i)]
<1>1. new = [i \in 1..n |-> entry(i)]
  OBVIOUS
<1>2. \A i \in 1..n : entry(i) \in Entry
  <2>1. \A i \in 1..n : next + i \in Nat
    OBVIOUS
  <2>2. \A i \in 1..n : OneTimeKey(p, next + i) \in Key
    BY <2>1, KeyTypes
  <2>. QED
    BY <2>1, <2>2 DEF Entry
<1>3. \A i \in 1..n : new[i].id = next + i /\ new[i].key = OneTimeKey(p, next + i)
  BY <1>1
<1>. HIDE DEF entry
<1>4. new \in Seq(Entry) /\ Len(new) = n
  <2>1. PICK copy : copy = [i \in 1..n |-> entry(i)]
    OBVIOUS
  <2>2. copy \in Seq(Entry)
    BY <1>2, <2>1, IsASeq
  <2>3. DOMAIN copy = 1..n
    BY <2>1
  <2>4. Len(copy) = n
    BY <2>2, <2>3, LenProperties
  <2>. QED
    BY <1>1, <2>1, <2>2, <2>4
<1>. QED
  BY <1>3, <1>4, InsertedList

(* The newest keys stay in front, and none is lost before MAX_ONE_TIME_KEYS *)
(* newer ones were made.                                                   *)
LEMMA GeneratedListInv ==
  ASSUME NEW p \in Party, NEW list \in Seq(Entry), NEW next \in Nat, NEW n \in Nat,
         NEW after, Inserted(p, list, next, n, after),
         ListInv(p, list, next)
  PROVE  /\ ListInv(p, after, next + n)
         /\ \A gone : KeysInv(p, list, next, gone) => KeysInv(p, after, next + n, gone)
<1>0. /\ MAX_ONE_TIME_KEYS \in Nat \ {0}
      /\ Len(list) \in Nat
      /\ Len(after) \in Nat
  BY AccountConstants DEF Inserted
<1> DEFINE old(j) == list[j].id
           new(j) == after[j].id
<1>1. \A i \in 1..Len(list) : old(i) \in Nat /\ old(i) >= 1 /\ old(i) <= next - i + 1
  BY DEF ListInv
<1>2. \A j \in 1..Len(after) : j <= n => new(j) = next + n - j + 1
  BY DEF Inserted
<1>3. \A j \in 1..Len(after) : j > n => j - n \in 1..Len(list) /\ new(j) = old(j - n)
  BY DEF Inserted
<1>4. \A i, j \in 1..Len(list) : i < j => old(i) > old(j)
  BY DEF ListInv
<1>. HIDE DEF old, new
<1>5. Len(after) <= MAX_ONE_TIME_KEYS
  BY <1>0 DEF Inserted
<1>6. ASSUME NEW i \in 1..Len(after), NEW j \in 1..Len(after), i < j
      PROVE  new(i) > new(j)
  <2>1. CASE j <= n
    BY <1>2, <1>6, <2>1
  <2>2. CASE i <= n /\ j > n
    <3>1. new(j) <= next /\ new(j) \in Nat
      BY <1>1, <1>3, <2>2
    <3>2. new(i) = next + n - i + 1
      BY <1>2, <2>2
    <3>. QED
      BY <2>2, <3>1, <3>2
  <2>3. CASE i > n
    <3>1. i - n \in 1..Len(list) /\ j - n \in 1..Len(list) /\ i - n < j - n
      BY <1>3, <1>6, <2>3
    <3>. QED
      BY <1>3, <1>4, <1>6, <2>3, <3>1, SMTT(30)
  <2>. QED
    BY <1>6, <2>1, <2>2, <2>3
<1>7. ASSUME NEW j \in 1..Len(after)
      PROVE  new(j) \in 1..(next + n - j + 1)
  <2>1. CASE j <= n
    BY <1>2, <2>1
  <2>2. CASE j > n
    <3>1. /\ j - n \in 1..Len(list)
          /\ new(j) = old(j - n)
      BY <1>3, <2>2
    <3>2. PICK i : i = j - n
      OBVIOUS
    <3>3. i \in 1..Len(list) /\ new(j) = old(i)
      BY <3>1, <3>2
    <3>4. new(j) \in Nat /\ new(j) >= 1 /\ new(j) <= next - i + 1
      BY <1>1, <3>3
    <3>. QED
      BY <2>2, <3>2, <3>4
  <2>. QED
    BY <2>1, <2>2
<1>8. ASSUME NEW j \in 1..Len(after)
      PROVE  after[j].key = OneTimeKey(p, after[j].id)
  <2>1. CASE j <= n
    BY <2>1 DEF Inserted
  <2>2. CASE j > n
    BY <2>2 DEF Inserted, ListInv
  <2>. QED
    BY <2>1, <2>2
<1>9. ListInv(p, after, next + n)
  BY <1>5, <1>6, <1>7, <1>8 DEF ListInv, new
<1>10. ASSUME NEW gone, KeysInv(p, list, next, gone), NEW id \in 1..(next + n)
       PROVE  \/ \E j \in 1..Len(after) : new(j) = id
              \/ OneTimeKey(p, id) \in gone
              \/ next + n - id >= MAX_ONE_TIME_KEYS
  <2>1. CASE id > next
    <3>1. PICK j : j = next + n - id + 1
      OBVIOUS
    <3>2. j \in 1..n
      BY <2>1, <3>1
    <3>3. CASE j <= Len(after)
      <4>1. new(j) = id
        BY <1>0, <1>2, <3>1, <3>2, <3>3
      <4>. QED
        BY <1>0, <3>2, <3>3, <4>1
    <3>4. CASE j > Len(after)
      <4>1. Len(after) = MAX_ONE_TIME_KEYS
        BY <1>0, <3>2, <3>4 DEF Inserted
      <4>. QED
        BY <1>0, <3>1, <3>2, <3>4, <4>1
    <3>. QED
      BY <1>0, <3>2, <3>3, <3>4
  <2>2. CASE id <= next
    <3>1. \/ \E i \in 1..Len(list) : old(i) = id
          \/ OneTimeKey(p, id) \in gone
          \/ next - id >= MAX_ONE_TIME_KEYS
      BY <1>10, <2>2 DEF KeysInv, old
    <3>2. ASSUME NEW i \in 1..Len(list), old(i) = id
          PROVE  \/ \E j \in 1..Len(after) : new(j) = id
                 \/ next + n - id >= MAX_ONE_TIME_KEYS
      <4>1. PICK j : j = n + i
        OBVIOUS
      <4>2. CASE j <= Len(after)
        <5>1. j \in 1..Len(after) /\ j > n /\ j - n = i
          BY <1>0, <4>1, <4>2
        <5>2. new(j) = old(i)
          BY <1>3, <5>1
        <5>. QED
          BY <3>2, <5>1, <5>2
      <4>3. CASE j > Len(after)
        <5>1. Len(after) = MAX_ONE_TIME_KEYS
          BY <1>0, <4>1, <4>3 DEF Inserted
        <5>2. id <= next - i + 1
          BY <1>1, <3>2
        <5>. QED
          BY <1>0, <4>1, <4>3, <5>1, <5>2
      <4>. QED
        BY <1>0, <4>1, <4>2, <4>3
    <3>3. next - id >= MAX_ONE_TIME_KEYS => next + n - id >= MAX_ONE_TIME_KEYS
      BY <1>0
    <3>. QED
      BY <3>1, <3>2, <3>3
  <2>. QED
    BY <2>1, <2>2
<1>11. ASSUME NEW gone, KeysInv(p, list, next, gone)
       PROVE  KeysInv(p, after, next + n, gone)
  BY <1>10, <1>11 DEF KeysInv, new
<1>. QED
  BY <1>9, <1>11

(* Each entry of the one list is an entry of the other. *)
AllFrom(after, list) == \A j \in 1..Len(after) : \E i \in 1..Len(list) : after[j] = list[i]

(* remove_key takes one entry out. *)
LEMMA ErasedListInv ==
  ASSUME NEW p \in Party, NEW list \in Seq(Entry), NEW next \in Nat,
         ListInv(p, list, next),
         NEW pos \in 1..Len(list), NEW after, after = Erase(list, pos)
  PROVE  /\ after \in Seq(Entry)
         /\ ListInv(p, after, next)
         /\ \A gone : KeysInv(p, list, next, gone) =>
                        KeysInv(p, after, next, gone \cup {list[pos].key})
         /\ AllFrom(after, list)
<1>0. Len(list) \in Nat /\ Len(list) >= 1
  OBVIOUS
<1>1. /\ after \in Seq(Entry)
      /\ Len(after) = Len(list) - 1
      /\ \A j \in 1..(Len(list) - 1) : after[j] = IF j < pos THEN list[j] ELSE list[j + 1]
  BY EraseProperties
<1> DEFINE from(j) == IF j < pos THEN j ELSE j + 1
<1>2. \A j \in 1..Len(after) : /\ from(j) \in 1..Len(list)
                               /\ after[j] = list[from(j)]
                               /\ from(j) >= j
  BY <1>0, <1>1
<1>3. \A i, j \in 1..Len(after) : i < j => from(i) < from(j)
  BY <1>0, <1>1
<1>. HIDE DEF from
<1>4. Len(after) <= MAX_ONE_TIME_KEYS
  BY <1>0, <1>1, AccountConstants DEF ListInv
<1>5. \A i, j \in 1..Len(after) : i < j => after[i].id > after[j].id
  BY <1>2, <1>3 DEF ListInv
<1>6. ASSUME NEW j \in 1..Len(after)
      PROVE  after[j].id \in 1..(next - j + 1) /\ after[j].key = OneTimeKey(p, after[j].id)
  <2>1. PICK i : i = from(j)
    OBVIOUS
  <2>2. i \in 1..Len(list) /\ after[j] = list[i] /\ i >= j
    BY <1>2, <2>1
  <2>3. list[i].id \in 1..(next - i + 1) /\ list[i].key = OneTimeKey(p, list[i].id)
    BY <2>2 DEF ListInv
  <2>. QED
    BY <2>2, <2>3, SMTT(30)
<1>7. ListInv(p, after, next)
  BY <1>4, <1>5, <1>6 DEF ListInv
<1>8. ASSUME NEW gone, KeysInv(p, list, next, gone), NEW id \in 1..next
      PROVE  \/ \E j \in 1..Len(after) : after[j].id = id
             \/ OneTimeKey(p, id) \in gone \cup {list[pos].key}
             \/ next - id >= MAX_ONE_TIME_KEYS
  <2>1. SUFFICES ASSUME NEW i \in 1..Len(list), list[i].id = id
                 PROVE  \/ \E j \in 1..Len(after) : after[j].id = id
                        \/ OneTimeKey(p, id) = list[pos].key
    BY <1>8 DEF KeysInv
  <2>2. CASE i = pos
    BY <2>1, <2>2 DEF ListInv
  <2>3. CASE i < pos
    <3>1. i \in 1..Len(after) /\ after[i] = list[i]
      BY <1>0, <1>1, <2>3
    <3>. QED
      BY <2>1, <3>1
  <2>4. CASE i > pos
    <3>1. PICK j : j = i - 1
      OBVIOUS
    <3>2. j \in 1..(Len(list) - 1) /\ ~ (j < pos) /\ j + 1 = i
      BY <1>0, <2>4, <3>1
    <3>3. after[j] = list[i] /\ j \in 1..Len(after)
      BY <1>1, <3>2
    <3>. QED
      BY <2>1, <3>3
  <2>. QED
    BY <2>2, <2>3, <2>4
<1>. QED
  BY <1>1, <1>2, <1>7, <1>8 DEF KeysInv, AllFrom

(***************************************************************************)
(* The state.                                                              *)
(***************************************************************************)
LEMMA BoundsTypes ==
  ASSUME bounds \in Bounds
  PROVE  /\ Slots \in [Party -> SUBSET Nat]
         /\ MaxKeys \in [Party -> Nat]
BY OlmSessionsConstants DEF Slots, MaxKeys

LEMMA NewSessionType ==
  /\ new_ratchet \in Ratchets(Key)
  /\ new_session \in SessionType
  /\ new_session.ratchet = new_ratchet
  /\ ~ new_session.received_message
<1>1. << >> \in Histories(Key)
  BY EmptySeq DEF Histories
<1>2. << >> \in Seq(SenderChains(Key)) /\ << >> \in Seq(ReceiverChains(Key))
      /\ << >> \in Seq(SkippedMessageKeys(Key))
  BY EmptySeq
<1>3. new_ratchet \in Ratchets(Key)
  BY <1>1, <1>2 DEF new_ratchet, Ratchets, Error
<1>4. NoKey \in Key
  BY DEF Key
<1>5. PICK r, k : r = new_ratchet /\ k = NoKey
  OBVIOUS
<1>6. new_session = [ratchet            |-> r,
                     last_error         |-> "SUCCESS",
                     received_message   |-> FALSE,
                     alice_identity_key |-> k,
                     alice_base_key     |-> k,
                     bob_one_time_key   |-> k]
  BY <1>5 DEF new_session
<1>7. r \in Ratchets(Key) /\ k \in Key
  BY <1>3, <1>4, <1>5
<1>. HIDE DEF new_session
<1>8. new_session \in SessionType
  BY <1>6, <1>7 DEF SessionType, SessionError, Error
<1>. QED
  BY <1>3, <1>5, <1>6, <1>8

LEMMA InitHolds == Init => StateType /\ SessionsInv
<1>. SUFFICES ASSUME Init
              PROVE  StateType /\ SessionsInv
  OBVIOUS
<1>0. bounds \in Bounds /\ Slots \in [Party -> SUBSET Nat] /\ MaxKeys \in [Party -> Nat]
  BY BoundsTypes DEF Init
<1>1. ASSUME NEW p \in Party
      PROVE  account[p] \in AccountType
  <2>1. account[p] = new_account(IdentityKey(p))
    BY DEF Init
  <2>2. IdentityKey(p) \in Key /\ << >> \in Seq(Entry)
    BY KeyTypes, EmptySeq
  <2>. QED
    <3>1. PICK k, list : k = IdentityKey(p) /\ list = << >>
      OBVIOUS
    <3>2. account[p] = [identity_key         |-> k,
                        one_time_keys        |-> list,
                        next_one_time_key_id |-> 0,
                        last_error           |-> "SUCCESS"]
      BY <2>1, <3>1 DEF new_account
    <3>3. k \in Key /\ list \in Seq(Entry)
      BY <2>2, <3>1
    <3>. QED
      BY <3>2, <3>3 DEF AccountType, SessionError, Error
<1>2. ASSUME NEW p \in Party
      PROVE  /\ session[p] = [s \in Slots[p] |-> new_session]
             /\ role[p] = [s \in Slots[p] |-> "none"]
  BY DEF Init
<1>3. StateType
  <2>1. account \in [Party -> AccountType]
    BY <1>1 DEF Init
  <2>2. session = [p \in Party |-> session[p]] /\ role = [p \in Party |-> role[p]]
    BY DEF Init
  <2>3. \A p \in Party : session[p] \in [Slots[p] -> SessionType]
    BY <1>2, NewSessionType
  <2>4. \A p \in Party : role[p] \in [Slots[p] -> {"none", "alice", "bob"}]
    BY <1>2
  <2>5. /\ forgotten \in [Party -> SUBSET Nat]
        /\ uploaded \in [Party -> SUBSET PublicKey]
        /\ removed \in [Party -> SUBSET Key]
        /\ delivered \in [Party -> SUBSET [slot : Nat, message : Body]]
        /\ sent \subseteq PlainMessage \cup PreKeyMessage
    BY DEF Init
  <2>. QED
    BY <1>0, <2>1, <2>2, <2>3, <2>4, <2>5 DEF StateType
<1>4. ASSUME NEW p \in Party
      PROVE  AccountInv(p)
  <2>1. /\ account[p].identity_key = IdentityKey(p)
        /\ account[p].one_time_keys = << >>
        /\ account[p].next_one_time_key_id = 0
        /\ removed[p] = {} /\ uploaded[p] = {}
    BY DEF Init, new_account
  <2>2. ListInv(p, << >>, 0) /\ KeysInv(p, << >>, 0, {})
    BY AccountConstants DEF ListInv, KeysInv
  <2>. QED
    BY <1>0, <2>1, <2>2 DEF AccountInv
<1>5. ASSUME NEW p \in Party
      PROVE  /\ \A s \in Slots[p] : SlotInv(p, s)
             /\ ForgottenInv(p)
             /\ OneSession(p)
             /\ DeliveredInv(p)
  <2>1. \A s \in Slots[p] : ~ Opened(p, s)
    BY <1>2, ZenonT(30) DEF Opened
  <2>2. \A s \in Slots[p] : session[p][s] = new_session
    BY <1>2, ZenonT(30)
  <2>4. \A s \in Slots[p] : /\ session[p][s].ratchet = new_ratchet
                            /\ ~ session[p][s].received_message
    BY <2>2, NewSessionType
  <2>5. \A s \in Slots[p] : SlotInv(p, s)
    BY <2>1, <2>4 DEF SlotInv
  <2>3. forgotten[p] = {} /\ delivered[p] = {}
    BY DEF Init
  <2>. QED
    BY <1>2, <2>5, <2>3 DEF ForgottenInv, OneSession, DeliveredInv
<1>6. \A m \in sent : SentInv(m)
  BY DEF Init
<1>. QED
  BY <1>3, <1>4, <1>5, <1>6 DEF SessionsInv

(***************************************************************************)
(* The steps of an account.                                                *)
(***************************************************************************)
(* What an account step may do: the invariant of its own list holds, and   *)
(* no key that was uploaded comes back.                                    *)
LEMMA AccountStep ==
  ASSUME StateType, SessionsInv,
         NEW p \in Party, NEW a \in AccountType, account' = [account EXCEPT ![p] = a],
         UNCHANGED <<bounds, session, role, forgotten, sent, delivered>>,
         uploaded' \in [Party -> SUBSET PublicKey], removed' \in [Party -> SUBSET Key],
         \A q \in Party : uploaded[q] \subseteq uploaded'[q],
         \A q \in Party \ {p} : uploaded'[q] = uploaded[q] /\ removed'[q] = removed[q],
         AccountInv(p)',
         \A k \in UploadedKeys : lookup_key(a, k) => lookup_key(account[p], k)
  PROVE  StateType' /\ SessionsInv'
<1>1. StateType'
  <2>1. account' \in [Party -> AccountType]
    BY DEF StateType
  <2>. QED
    BY <2>1 DEF StateType, Slots
<1>2. ASSUME NEW q \in Party
      PROVE  AccountInv(q)'
  <2>1. CASE q # p
    BY <2>1 DEF AccountInv, SessionsInv, MaxKeys, StateType
  <2>. QED
    BY <2>1
<1>3. UploadedKeys \subseteq UploadedKeys'
  BY DEF UploadedKeys
<1>4. ASSUME NEW q \in Party, NEW s \in Slots[q]
      PROVE  SlotInv(q, s)'
  BY <1>3 DEF SlotInv, SessionsInv, Opened, DeliveredIn, Slots
<1>5. ASSUME NEW q \in Party
      PROVE  ForgottenInv(q)'
  <2>1. ForgottenInv(q) /\ \A s \in Slots[q] : SlotInv(q, s)
    BY DEF SessionsInv
  <2>2. ASSUME NEW s \in forgotten[q]
        PROVE  ~ lookup_key(account'[q], session[q][s].bob_one_time_key)
    <3>1. /\ s \in Slots[q] /\ Opened(q, s)
          /\ ~ lookup_key(account[q], session[q][s].bob_one_time_key)
      BY <2>1 DEF ForgottenInv
    <3>2. session[q][s].bob_one_time_key \in UploadedKeys
      BY <2>1, <3>1 DEF SlotInv
    <3>3. account'[q] = IF q = p THEN a ELSE account[q]
      BY DEF StateType
    <3>. QED
      BY <3>1, <3>2, <3>3
  <2>. QED
    BY <2>1, <2>2 DEF ForgottenInv, Opened, Slots
<1>6. ASSUME NEW q \in Party
      PROVE  OneSession(q)' /\ DeliveredInv(q)'
  <2>1. OneSession(q) /\ DeliveredInv(q)
    BY DEF SessionsInv
  <2>. QED
    BY <2>1 DEF OneSession, DeliveredInv, OtherEnd, Opened, Slots
<1>7. ASSUME NEW m \in sent
      PROVE  SentInv(m)'
  <2>1. SentInv(m)
    BY DEF SessionsInv
  <2>. QED
    BY <2>1, ZenonT(30) DEF SentInv, Opened, DeliveredIn, Slots
<1>8. \A q \in Party : \A s \in Slots'[q] : SlotInv(q, s)'
  BY <1>4 DEF Slots
<1>. QED
  BY <1>1, <1>2, <1>5, <1>6, <1>7, <1>8 DEF SessionsInv

LEMMA GenerateStep ==
  ASSUME StateType, SessionsInv, UNCHANGED bounds,
         NEW p \in Party, NEW n \in 1..2, GenerateOneTimeKeys(p, n)
  PROVE  StateType' /\ SessionsInv'
<1>1. PICK next, list : /\ next = account[p].next_one_time_key_id
                        /\ list = account[p].one_time_keys
  OBVIOUS
<1>2. account[p] \in AccountType /\ AccountInv(p)
  BY DEF StateType, SessionsInv
<1>3. next \in Nat /\ list \in Seq(Entry) /\ n \in Nat
  BY <1>1, <1>2 DEF AccountType
<1>4. PICK pairs : pairs = [i \in 1..n |-> OneTimeKey(p, next + i)]
  OBVIOUS
<1>5. PICK new : new = [i \in DOMAIN pairs |->
                          [id |-> next + i, published |-> FALSE, key |-> pairs[i]]]
  OBVIOUS
<1>6. PICK after : after = InsertFirstAll(list, MAX_ONE_TIME_KEYS, new)
  OBVIOUS
<1>7. PICK a : a = [account[p] EXCEPT !.one_time_keys = after, !.next_one_time_key_id = next + n]
  OBVIOUS
<1>8. Inserted(p, list, next, n, after)
  BY <1>3, <1>4, <1>5, <1>6, GeneratedList
<1>9. ListInv(p, list, next) /\ KeysInv(p, list, next, removed[p])
  BY <1>1, <1>2 DEF AccountInv
<1>10. ListInv(p, after, next + n) /\ KeysInv(p, after, next + n, removed[p])
  BY <1>3, <1>8, <1>9, GeneratedListInv
<1>11. account' = [account EXCEPT ![p] = a]
  <2>1. Len(pairs) = n
    <3>1. DOMAIN pairs = 1..n
      BY <1>4
    <3>2. PICK copy : copy = [i \in 1..n |-> OneTimeKey(p, next + i)]
      OBVIOUS
    <3>3. \A i \in 1..n : OneTimeKey(p, next + i) \in Key
      BY <1>3, KeyTypes
    <3>4. copy \in Seq(Key)
      BY <1>3, <3>2, <3>3, IsASeq
    <3>. QED
      BY <1>3, <1>4, <3>1, <3>2, <3>4, LenProperties
  <2>2. account' = [account EXCEPT ![p] = generate_one_time_keys(account[p], pairs)]
    BY <1>1, <1>4 DEF GenerateOneTimeKeys
  <2>3. generate_one_time_keys(account[p], pairs) = a
    BY <1>1, <1>5, <1>6, <1>7, <2>1 DEF generate_one_time_keys
  <2>. QED
    BY <2>2, <2>3
<1>12. /\ UNCHANGED <<session, role, forgotten, uploaded, removed, sent, delivered>>
       /\ next + n <= MaxKeys[p]
  BY <1>1 DEF GenerateOneTimeKeys, keyVars, messageVars
<1>13. /\ a \in AccountType
       /\ a.identity_key = account[p].identity_key
       /\ a.one_time_keys = after
       /\ a.next_one_time_key_id = next + n
  <2>1. after \in Seq(Entry) /\ next + n \in Nat
    BY <1>3, <1>8 DEF Inserted
  <2>. QED
    BY <1>2, <1>7, <2>1 DEF AccountType
<1>14. account'[p] = a
  BY <1>11 DEF StateType
<1>15. ASSUME NEW k \in uploaded[p]
       PROVE  k.id \in 1..(next + n) /\ k.key = OneTimeKey(p, k.id)
  <2>1. k.id \in 1..next /\ k.key = OneTimeKey(p, k.id)
    BY <1>1, <1>2 DEF AccountInv
  <2>. QED
    BY <1>3, <2>1
<1>16. AccountInv(p)'
  <2>1. /\ account[p].identity_key = IdentityKey(p)
        /\ removed[p] \subseteq { k.key : k \in uploaded[p] }
    BY <1>2 DEF AccountInv
  <2>. QED
    BY <1>10, <1>12, <1>13, <1>14, <1>15, <2>1 DEF AccountInv, MaxKeys
<1>17. ASSUME NEW k \in UploadedKeys, lookup_key(a, k)
       PROVE  lookup_key(account[p], k)
  <2>1. PICK q \in Party : \E u \in uploaded[q] : u.key = k
    BY DEF UploadedKeys
  <2>2. PICK u \in uploaded[q] : u.key = k
    BY <2>1
  <2>3. PICK id : id = u.id
    OBVIOUS
  <2>4. k = OneTimeKey(q, id) /\ id \in 1..account[q].next_one_time_key_id
    BY <2>2, <2>3 DEF SessionsInv, AccountInv
  <2>5. PICK i \in DOMAIN after : after[i].key = k
    BY <1>13, <1>17 DEF lookup_key, EntriesFor
  <2>6. after \in Seq(Entry) /\ i \in 1..Len(after)
    BY <1>8, <2>5 DEF Inserted
  <2>7. ~ (i <= n)
    <3>1. SUFFICES ASSUME i <= n PROVE FALSE
      OBVIOUS
    <3>2. OneTimeKey(p, next + n - i + 1) = OneTimeKey(q, id)
      BY <1>8, <2>4, <2>5, <2>6, <3>1 DEF Inserted
    <3>3. q = p /\ id = next + n - i + 1
      BY <3>2, KeyNames
    <3>. QED
      BY <1>1, <1>3, <2>4, <2>6, <3>1, <3>3, SMTT(30)
  <2>8. i - n \in 1..Len(list) /\ list[i - n].key = k
    BY <1>3, <1>8, <2>5, <2>6, <2>7 DEF Inserted
  <2>. QED
    BY <1>1, <1>3, <2>8 DEF lookup_key, EntriesFor
<1>18. /\ uploaded' \in [Party -> SUBSET PublicKey]
       /\ removed' \in [Party -> SUBSET Key]
  BY <1>12 DEF StateType
<1>. QED
  BY <1>11, <1>12, <1>13, <1>16, <1>17, <1>18, AccountStep

(* A failed call sets last_error. *)
LEMMA AccountFailedStep ==
  ASSUME StateType, SessionsInv, UNCHANGED bounds,
         NEW p \in Party, NEW error \in SessionError,
         account' = [account EXCEPT ![p] = AccountFailed(@, error)],
         UNCHANGED <<session, role, forgotten, uploaded, removed, sent, delivered>>
  PROVE  StateType' /\ SessionsInv'
<1>1. PICK a : a = AccountFailed(account[p], error)
  OBVIOUS
<1>2. account[p] \in AccountType /\ AccountInv(p)
  BY DEF StateType, SessionsInv
<1>3. /\ a \in AccountType
      /\ a.identity_key = account[p].identity_key
      /\ a.one_time_keys = account[p].one_time_keys
      /\ a.next_one_time_key_id = account[p].next_one_time_key_id
  BY <1>1, <1>2 DEF AccountFailed, AccountType
<1>4. account' = [account EXCEPT ![p] = a] /\ account'[p] = a
  BY <1>1 DEF StateType
<1>5. AccountInv(p)'
  BY <1>2, <1>3, <1>4 DEF AccountInv, MaxKeys
<1>6. \A k \in UploadedKeys : lookup_key(a, k) => lookup_key(account[p], k)
  BY <1>3 DEF lookup_key, EntriesFor
<1>7. uploaded' \in [Party -> SUBSET PublicKey] /\ removed' \in [Party -> SUBSET Key]
  BY DEF StateType
<1>. QED
  BY <1>3, <1>4, <1>5, <1>6, <1>7, AccountStep

LEMMA UploadStep ==
  ASSUME StateType, SessionsInv, UNCHANGED bounds,
         NEW p \in Party, Upload(p)
  PROVE  StateType' /\ SessionsInv'
<1>1. PICK new : new = get_one_time_keys_json(account[p])
  OBVIOUS
<1>2. account[p] \in AccountType /\ AccountInv(p)
  BY DEF StateType, SessionsInv
<1>3. /\ uploaded' = [uploaded EXCEPT ![p] = @ \cup new]
      /\ UNCHANGED <<account, session, role, forgotten, removed, sent, delivered>>
  BY <1>1 DEF Upload, messageVars
<1>4. ASSUME NEW k \in new
      PROVE  /\ k \in PublicKey
             /\ k.id \in 1..account[p].next_one_time_key_id
             /\ k.key = OneTimeKey(p, k.id)
  <2>1. PICK list : list = account[p].one_time_keys
    OBVIOUS
  <2>2. list \in Seq(Entry)
    BY <1>2, <2>1 DEF AccountType
  <2>3. PICK entry \in Range(list) : k = [id |-> entry.id, key |-> entry.key]
    BY <1>1, <2>1 DEF get_one_time_keys_json
  <2>4. PICK i \in 1..Len(list) : entry = list[i]
    BY <2>2, <2>3 DEF Range
  <2>5. /\ entry \in Entry
        /\ entry.id \in 1..(account[p].next_one_time_key_id - i + 1)
        /\ entry.key = OneTimeKey(p, entry.id)
    BY <1>2, <2>1, <2>2, <2>4 DEF AccountInv, ListInv
  <2>6. entry.id \in Nat /\ entry.key \in Key
    BY <2>5 DEF Entry
  <2>7. account[p].next_one_time_key_id \in Nat
    BY <1>2 DEF AccountType
  <2>. QED
    BY <2>3, <2>4, <2>5, <2>6, <2>7, SMTT(30) DEF PublicKey
<1>5. uploaded' \in [Party -> SUBSET PublicKey]
  <2>1. new \subseteq PublicKey
    BY <1>4
  <2>. QED
    BY <1>3, <2>1 DEF StateType
<1>6. uploaded'[p] = uploaded[p] \cup new
  BY <1>3 DEF StateType
<1>7. AccountInv(p)'
  <2>1. \A k \in uploaded'[p] : /\ k.id \in 1..account[p].next_one_time_key_id
                                /\ k.key = OneTimeKey(p, k.id)
    BY <1>2, <1>4, <1>6 DEF AccountInv
  <2>2. removed[p] \subseteq { k.key : k \in uploaded'[p] }
    BY <1>2, <1>6 DEF AccountInv
  <2>. QED
    BY <1>2, <1>3, <2>1, <2>2 DEF AccountInv, MaxKeys
<1>8. account' = [account EXCEPT ![p] = account[p]]
  BY <1>3 DEF StateType
<1>9. /\ \A q \in Party : uploaded[q] \subseteq uploaded'[q]
      /\ \A q \in Party \ {p} : uploaded'[q] = uploaded[q] /\ removed'[q] = removed[q]
      /\ removed' \in [Party -> SUBSET Key]
  BY <1>3 DEF StateType
<1>10. PICK a : a = account[p]
  OBVIOUS
<1>11. /\ a \in AccountType
       /\ account' = [account EXCEPT ![p] = a]
       /\ \A k \in UploadedKeys : lookup_key(a, k) => lookup_key(account[p], k)
  BY <1>2, <1>8, <1>10
<1>. QED
  BY <1>3, <1>5, <1>7, <1>9, <1>11, AccountStep

LEMMA MarkStep ==
  ASSUME StateType, SessionsInv, UNCHANGED bounds,
         NEW p \in Party, MarkKeysAsPublished(p)
  PROVE  StateType' /\ SessionsInv'
<1>1. PICK list : list = account[p].one_time_keys
  OBVIOUS
<1>2. PICK after : after = [i \in DOMAIN list |-> [list[i] EXCEPT !.published = TRUE]]
  OBVIOUS
<1>3. PICK a : a = [account[p] EXCEPT !.one_time_keys = after]
  OBVIOUS
<1>4. account[p] \in AccountType /\ AccountInv(p)
  BY DEF StateType, SessionsInv
<1>5. list \in Seq(Entry)
  BY <1>1, <1>4 DEF AccountType
<1>6. \A i \in 1..Len(list) : /\ after[i] \in Entry
                              /\ after[i].id = list[i].id
                              /\ after[i].key = list[i].key
  <2>1. ASSUME NEW i \in 1..Len(list)
        PROVE  after[i] = [list[i] EXCEPT !.published = TRUE] /\ list[i] \in Entry
    <3>1. DOMAIN list = 1..Len(list) /\ list[i] \in Entry
      BY <1>5
    <3>. QED
      BY <1>2, <3>1
  <2>. QED
    BY <2>1 DEF Entry
<1>7. after \in Seq(Entry) /\ Len(after) = Len(list)
  <2>1. DOMAIN after = 1..Len(list)
    BY <1>2, <1>5
  <2>2. after = [i \in 1..Len(list) |-> after[i]]
    <3>1. DOMAIN list = 1..Len(list)
      BY <1>5
    <3>. QED
      BY <1>2, <3>1
  <2>3. after \in Seq(Entry)
    <3>1. Len(list) \in Nat
      BY <1>5
    <3>. QED
      BY <1>6, <2>2, <3>1, IsASeq
  <2>. QED
    BY <1>5, <2>1, <2>3, LenProperties
<1>8. /\ account' = [account EXCEPT ![p] = a]
      /\ UNCHANGED <<session, role, forgotten, uploaded, removed, sent, delivered>>
  BY <1>1, <1>2, <1>3 DEF MarkKeysAsPublished, mark_keys_as_published, keyVars, messageVars
<1>9. /\ a \in AccountType
      /\ a.identity_key = account[p].identity_key
      /\ a.one_time_keys = after
      /\ a.next_one_time_key_id = account[p].next_one_time_key_id
  BY <1>3, <1>4, <1>7 DEF AccountType
<1>10. account'[p] = a
  BY <1>8 DEF StateType
<1>11. AccountInv(p)'
  <2>1. ListInv(p, after, a.next_one_time_key_id)
    BY <1>1, <1>4, <1>6, <1>7, <1>9 DEF AccountInv, ListInv
  <2>2. KeysInv(p, after, a.next_one_time_key_id, removed[p])
    BY <1>1, <1>4, <1>6, <1>7, <1>9 DEF AccountInv, KeysInv
  <2>. QED
    BY <1>4, <1>8, <1>9, <1>10, <2>1, <2>2 DEF AccountInv, MaxKeys
<1>12. \A k \in UploadedKeys : lookup_key(a, k) => lookup_key(account[p], k)
  BY <1>1, <1>5, <1>6, <1>7, <1>9 DEF lookup_key, EntriesFor
<1>13. uploaded' \in [Party -> SUBSET PublicKey] /\ removed' \in [Party -> SUBSET Key]
  BY <1>8 DEF StateType
<1>. QED
  BY <1>8, <1>9, <1>11, <1>12, <1>13, AccountStep

(* A one-time key that an account holds and that was uploaded, its owner   *)
(* uploaded.                                                               *)
LEMMA HeldKey ==
  ASSUME StateType, SessionsInv, NEW p \in Party, NEW key,
         key \in UploadedKeys, lookup_key(account[p], key)
  PROVE  Owner(key) = p /\ \E k \in uploaded[p] : k.key = key
<1>1. account[p] \in AccountType /\ AccountInv(p)
  BY DEF StateType, SessionsInv
<1>2. PICK list : list = account[p].one_time_keys
  OBVIOUS
<1>3. PICK i \in 1..Len(list) : list[i].key = key
  BY <1>1, <1>2 DEF lookup_key, EntriesFor, AccountType
<1>4. key = OneTimeKey(p, list[i].id)
  BY <1>1, <1>2, <1>3 DEF AccountInv, ListInv
<1>5. PICK q \in Party : \E k \in uploaded[q] : k.key = key
  BY DEF UploadedKeys
<1>6. \A k \in uploaded[q] : k.key = OneTimeKey(q, k.id)
  BY DEF SessionsInv, AccountInv
<1>7. q = p
  BY <1>4, <1>5, <1>6, KeyNames
<1>. QED
  BY <1>4, <1>5, <1>7, KeyOwners

LEMMA RemoveStep ==
  ASSUME StateType, SessionsInv, UNCHANGED bounds,
         NEW p \in Party, NEW s \in Slots[p], RemoveOneTimeKeys(p, s)
  PROVE  StateType' /\ SessionsInv'
<1>1. PICK key, list : key = session[p][s].bob_one_time_key /\ list = account[p].one_time_keys
  OBVIOUS
<1>2. PICK pos : pos = Min(EntriesFor(account[p], key))
  OBVIOUS
<1>3. PICK after : after = Erase(list, pos)
  OBVIOUS
<1>4. PICK a : a = [account[p] EXCEPT !.one_time_keys = after]
  OBVIOUS
<1>5. account[p] \in AccountType /\ AccountInv(p)
  BY DEF StateType, SessionsInv
<1>6. PICK next : next = account[p].next_one_time_key_id
  OBVIOUS
<1>7. list \in Seq(Entry) /\ next \in Nat
  BY <1>1, <1>5, <1>6 DEF AccountType
<1>8. /\ Live(p, s)
      /\ lookup_key(account[p], key)
      /\ account' = [account EXCEPT ![p] = a]
      /\ removed' = [removed EXCEPT ![p] = @ \cup {key}]
      /\ UNCHANGED <<session, role, forgotten, uploaded, sent, delivered>>
  BY <1>1, <1>2, <1>3, <1>4 DEF RemoveOneTimeKeys, remove_key, messageVars
<1>9. pos \in 1..Len(list) /\ list[pos].key = key
  <2>1. PICK T : T = EntriesFor(account[p], key)
    OBVIOUS
  <2>2. T = { i \in 1..Len(list) : list[i].key = key }
    BY <1>1, <1>7, <2>1 DEF EntriesFor
  <2>3. T \subseteq Nat /\ T # {}
    BY <1>8, <2>1, <2>2 DEF lookup_key
  <2>4. pos = Min(T)
    BY <1>2, <2>1
  <2>5. pos \in T
    BY <2>3, <2>4, MinProperties
  <2>. QED
    BY <2>2, <2>5
<1>10. ListInv(p, list, next) /\ KeysInv(p, list, next, removed[p])
  BY <1>1, <1>5, <1>6 DEF AccountInv
<1>11. /\ after \in Seq(Entry)
       /\ ListInv(p, after, next)
       /\ \A j \in 1..Len(after) : \E i \in 1..Len(list) : after[j] = list[i]
  <2>1. after \in Seq(Entry)
    BY <1>3, <1>7, <1>9, <1>10, ErasedListInv
  <2>2. ListInv(p, after, next)
    BY <1>3, <1>7, <1>9, <1>10, ErasedListInv
  <2>3. AllFrom(after, list)
    BY <1>3, <1>7, <1>9, <1>10, ErasedListInv
  <2>. QED
    BY <2>1, <2>2, <2>3 DEF AllFrom
<1>12. KeysInv(p, after, next, removed[p] \cup {key})
  <2>1. \A gone : KeysInv(p, list, next, gone) => KeysInv(p, after, next, gone \cup {list[pos].key})
    BY <1>3, <1>7, <1>9, <1>10, ErasedListInv
  <2>. QED
    BY <1>9, <1>10, <2>1
<1>13. /\ a \in AccountType
       /\ a.identity_key = account[p].identity_key
       /\ a.one_time_keys = after
       /\ a.next_one_time_key_id = next
  BY <1>4, <1>5, <1>6, <1>11 DEF AccountType
<1>14. account'[p] = a
  BY <1>8 DEF StateType
<1>15. key \in UploadedKeys /\ key \in Key
  <2>1. SlotInv(p, s) /\ Opened(p, s) /\ session[p][s] \in SessionType
    BY <1>8 DEF SessionsInv, StateType, Live
  <2>. QED
    BY <1>1, <2>1 DEF SlotInv, SessionType
<1>16. \E k \in uploaded[p] : k.key = key
  BY <1>8, <1>15, HeldKey
<1>17. removed'[p] = removed[p] \cup {key} /\ removed' \in [Party -> SUBSET Key]
  BY <1>8, <1>15 DEF StateType
<1>18. AccountInv(p)'
  <2>1. removed'[p] \subseteq { k.key : k \in uploaded[p] }
    BY <1>5, <1>16, <1>17 DEF AccountInv
  <2>2. /\ account[p].identity_key = IdentityKey(p)
        /\ next <= MaxKeys[p]
        /\ \A k \in uploaded[p] : k.id \in 1..next /\ k.key = OneTimeKey(p, k.id)
    BY <1>5, <1>6 DEF AccountInv
  <2>. QED
    BY <1>8, <1>11, <1>12, <1>13, <1>14, <1>17, <2>1, <2>2 DEF AccountInv, MaxKeys
<1>19. ASSUME NEW k \in UploadedKeys, lookup_key(a, k)
       PROVE  lookup_key(account[p], k)
  <2>1. PICK j \in 1..Len(after) : after[j].key = k
    BY <1>11, <1>13, <1>19 DEF lookup_key, EntriesFor
  <2>2. PICK i \in 1..Len(list) : after[j] = list[i]
    BY <1>11
  <2>. QED
    BY <1>1, <1>7, <2>1, <2>2 DEF lookup_key, EntriesFor
<1>20. /\ uploaded' \in [Party -> SUBSET PublicKey]
       /\ \A q \in Party : uploaded[q] \subseteq uploaded'[q]
       /\ \A q \in Party \ {p} : uploaded'[q] = uploaded[q] /\ removed'[q] = removed[q]
  BY <1>8 DEF StateType
<1>. QED
  BY <1>8, <1>13, <1>17, <1>18, <1>19, <1>20, AccountStep

(***************************************************************************)
(* The steps of a session.                                                 *)
(***************************************************************************)
(* A table of the parties' slots, in which one slot is given a new value.  *)
LEMMA OneSlotChanged ==
  ASSUME NEW T, NEW D, NEW f, f = [q \in Party |-> f[q]],
         \A q \in Party : f[q] \in [D[q] -> T],
         NEW p \in Party, NEW s \in D[p], NEW v \in T,
         NEW g, g = [f EXCEPT ![p][s] = v]
  PROVE  /\ g = [q \in Party |-> g[q]]
         /\ \A q \in Party : g[q] \in [D[q] -> T]
         /\ g[p][s] = v
         /\ \A q \in Party : \A t \in D[q] : q # p \/ t # s => g[q][t] = f[q][t]
<1>1. DOMAIN f = Party
  OBVIOUS
<1>2. g = [q \in Party |-> IF q = p THEN [f[p] EXCEPT ![s] = v] ELSE f[q]]
  BY <1>1
<1>3. g[p] = [f[p] EXCEPT ![s] = v] /\ \A q \in Party \ {p} : g[q] = f[q]
  BY <1>2
<1>4. g[p] \in [D[p] -> T] /\ g[p][s] = v /\ \A t \in D[p] \ {s} : g[p][t] = f[p][t]
  BY <1>3
<1>5. g = [q \in Party |-> g[q]]
  BY <1>2
<1>6. \A q \in Party : g[q] \in [D[q] -> T]
  BY <1>3, <1>4
<1>7. \A q \in Party : \A t \in D[q] : q # p \/ t # s => g[q][t] = f[q][t]
  BY <1>3, <1>4
<1>. QED
  BY <1>4, <1>5, <1>6, <1>7

(* The step that makes of the session s of p the session S, for the given  *)
(* end.                                                                    *)
Becomes(p, s, S, end) ==
  /\ session' = [session EXCEPT ![p][s] = S]
  /\ role' = [role EXCEPT ![p][s] = end]

(* The tables of sessions after it. *)
ChangesOnly(p, s, S, end) ==
  /\ session'[p][s] = S
  /\ role'[p][s] = end
  /\ \A q \in Party : \A t \in Slots[q] :
       q # p \/ t # s => session'[q][t] = session[q][t] /\ role'[q][t] = role[q][t]

LEMMA BecomesProperties ==
  ASSUME StateType, UNCHANGED bounds,
         NEW p \in Party, NEW s \in Slots[p], NEW S \in SessionType,
         NEW end \in {"none", "alice", "bob"}, Becomes(p, s, S, end)
  PROVE  /\ session' = [q \in Party |-> session'[q]]
         /\ \A q \in Party : session'[q] \in [Slots[q] -> SessionType]
         /\ role' = [q \in Party |-> role'[q]]
         /\ \A q \in Party : role'[q] \in [Slots[q] -> {"none", "alice", "bob"}]
         /\ ChangesOnly(p, s, S, end)
<1>1. PICK D : D = Slots
  OBVIOUS
<1>2. PICK f, g : f = session /\ g = session'
  OBVIOUS
<1>3. /\ f = [q \in Party |-> f[q]]
      /\ \A q \in Party : f[q] \in [D[q] -> SessionType]
      /\ g = [f EXCEPT ![p][s] = S]
      /\ s \in D[p]
  BY <1>1, <1>2 DEF StateType, Becomes
<1>4. /\ g = [q \in Party |-> g[q]]
      /\ \A q \in Party : g[q] \in [D[q] -> SessionType]
      /\ g[p][s] = S
      /\ \A q \in Party : \A t \in D[q] : q # p \/ t # s => g[q][t] = f[q][t]
  BY <1>3, OneSlotChanged, ZenonT(30)
<1>5. PICK h, k, T : h = role /\ k = role' /\ T = {"none", "alice", "bob"}
  OBVIOUS
<1>6. /\ h = [q \in Party |-> h[q]]
      /\ \A q \in Party : h[q] \in [D[q] -> T]
      /\ k = [h EXCEPT ![p][s] = end]
      /\ s \in D[p]
      /\ end \in T
  BY <1>1, <1>5 DEF StateType, Becomes
<1>7. /\ k = [q \in Party |-> k[q]]
      /\ \A q \in Party : k[q] \in [D[q] -> T]
      /\ k[p][s] = end
      /\ \A q \in Party : \A t \in D[q] : q # p \/ t # s => k[q][t] = h[q][t]
  BY <1>6, OneSlotChanged, ZenonT(30)
<1>8. ChangesOnly(p, s, S, end)
  BY <1>1, <1>2, <1>4, <1>5, <1>7 DEF ChangesOnly
<1>. QED
  BY <1>1, <1>2, <1>4, <1>5, <1>7, <1>8

(* What never changes of a session, once it is open. *)
Evolves(p, s, S, end) ==
  Opened(p, s) =>
    /\ end = role[p][s]
    /\ S.alice_identity_key = session[p][s].alice_identity_key
    /\ S.alice_base_key = session[p][s].alice_base_key
    /\ S.bob_one_time_key = session[p][s].bob_one_time_key
    /\ Len(S.ratchet.root_key) >= Len(session[p][s].ratchet.root_key)

LEMMA OtherEndStays ==
  ASSUME UNCHANGED bounds, NEW p \in Party, NEW s \in Slots[p], NEW S, NEW end,
         ChangesOnly(p, s, S, end), Evolves(p, s, S, end),
         NEW q \in Party, NEW t \in Slots[q], NEW u \in Party, NEW v \in Slots[u],
         OtherEnd(q, t, u, v)
  PROVE  OtherEnd(q, t, u, v)'
<1>1. /\ q # u /\ Opened(q, t) /\ Opened(u, v)
      /\ role[q][t] # role[u][v]
      /\ session_id(session[q][t]) = session_id(session[u][v])
  BY DEF OtherEnd
<1>2. ASSUME NEW x \in Party, NEW y \in Slots[x], Opened(x, y)
      PROVE  role'[x][y] = role[x][y] /\ session_id(session'[x][y]) = session_id(session[x][y])
  <2>1. CASE x = p /\ y = s
    BY <1>2, <2>1 DEF ChangesOnly, Evolves, session_id
  <2>2. CASE x # p \/ y # s
    BY <2>2 DEF ChangesOnly
  <2>. QED
    BY <2>1, <2>2
<1>3. /\ role'[q][t] = role[q][t] /\ session_id(session'[q][t]) = session_id(session[q][t])
      /\ role'[u][v] = role[u][v] /\ session_id(session'[u][v]) = session_id(session[u][v])
  BY <1>1, <1>2
<1>. QED
  BY <1>1, <1>3 DEF OtherEnd, Opened, session_id

LEMMA MessageStays ==
  ASSUME StateType, UNCHANGED bounds, NEW p \in Party, NEW s \in Slots[p],
         NEW S \in SessionType, NEW end,
         ChangesOnly(p, s, S, end), Evolves(p, s, S, end),
         \A q \in Party : delivered[q] \subseteq delivered'[q],
         NEW m \in sent, SentInv(m)
  PROVE  SentInv(m)'
<1>1. PICK q, t : q = m.message.plaintext[1] /\ t = m.message.plaintext[2]
  OBVIOUS
<1>2. m.message \in Body
  BY DEF StateType, PlainMessage, PreKeyMessage
<1>3. q \in Party
  BY <1>1, <1>2 DEF Body, Messages, Place
<1>4. t \in Slots[q] /\ Opened(q, t) /\ BodyInv(m.message, q, t, session[q][t])
  BY <1>1, SMTT(30) DEF SentInv
<1>5. PICK Z : Z = session'[q][t]
  OBVIOUS
<1>6. /\ role'[q][t] = role[q][t]
      /\ Z.alice_identity_key = session[q][t].alice_identity_key
      /\ Z.alice_base_key = session[q][t].alice_base_key
      /\ Z.bob_one_time_key = session[q][t].bob_one_time_key
  <2>1. CASE q = p /\ t = s
    BY <1>4, <1>5, <2>1 DEF ChangesOnly, Evolves
  <2>2. CASE q # p \/ t # s
    BY <1>3, <1>4, <1>5, <2>2 DEF ChangesOnly
  <2>. QED
    BY <2>1, <2>2
<1>7. Len(m.message.key.key) <= Len(Z.ratchet.root_key)
  <2>1. Len(m.message.key.key) <= Len(session[q][t].ratchet.root_key)
    BY <1>4 DEF BodyInv
  <2>2. CASE q # p \/ t # s
    BY <1>3, <1>4, <1>5, <2>1, <2>2 DEF ChangesOnly
  <2>3. CASE q = p /\ t = s
    <3>1. Z = S
      BY <1>5, <2>3 DEF ChangesOnly
    <3>2. Len(S.ratchet.root_key) >= Len(session[p][s].ratchet.root_key)
      BY <1>4, <2>3 DEF Evolves
    <3>3. S.ratchet.root_key \in Histories(Key)
      BY DEF SessionType, Ratchets
    <3>4. session[p][s] \in SessionType
      BY <1>3, <1>4, <2>3 DEF StateType
    <3>5. session[p][s].ratchet.root_key \in Histories(Key)
      BY <3>4 DEF SessionType, Ratchets
    <3>6. m.message.key.key \in Histories(Key)
      BY <1>2 DEF Body, Messages, MessageKeys, ChainKeys
    <3>7. PICK a, b, c : a = Len(S.ratchet.root_key) /\ b = Len(session[p][s].ratchet.root_key)
                         /\ c = Len(m.message.key.key)
      OBVIOUS
    <3>8. a \in Nat /\ b \in Nat /\ c \in Nat
      BY <3>3, <3>5, <3>6, <3>7, LenProperties DEF Histories
    <3>9. a >= b /\ c <= b
      BY <2>1, <2>3, <3>2, <3>7
    <3>. QED
      BY <3>1, <3>7, <3>8, <3>9, SMTT(30)
  <2>. QED
    BY <2>2, <2>3
<1>8. BodyInv(m.message, q, t, Z)
  <2>1. Secret(Z) = Secret(session[q][t])
    BY <1>6 DEF Secret
  <2>. QED
    BY <1>4, <1>7, <2>1 DEF BodyInv
<1>9. Opened(q, t)'
  BY <1>4, <1>6 DEF Opened
<1>10. DeliveredIn(q, t) # {} => DeliveredIn(q, t)' # {}
  BY <1>3 DEF DeliveredIn
<1>. QED
  BY <1>1, <1>4, <1>5, <1>6, <1>8, <1>9, <1>10, ZenonT(30) DEF SentInv, Slots

(* Where a message was encrypted. *)
LEMMA Origin ==
  ASSUME StateType, NEW m \in sent, SentInv(m)
  PROVE  /\ m.message \in Body
         /\ m.message.plaintext[1] \in Party
         /\ m.message.plaintext[2] \in Slots[m.message.plaintext[1]]
<1>1. m.message \in Body
  BY DEF StateType, PlainMessage, PreKeyMessage
<1>. QED
  BY <1>1, SMTT(30) DEF Body, Messages, Place, SentInv

(* What must be shown of a step that changes one session, or opens it. *)
LEMMA SessionStep ==
  ASSUME StateType, SessionsInv,
         UNCHANGED <<bounds, account, forgotten, uploaded, removed>>,
         NEW p \in Party, NEW s \in Slots[p], NEW S \in SessionType, NEW end \in {"alice", "bob"},
         Becomes(p, s, S, end), Evolves(p, s, S, end),
         sent \subseteq sent', sent' \subseteq PlainMessage \cup PreKeyMessage,
         \A m \in sent' \ sent : SentInv(m)',
         delivered' \in [Party -> SUBSET [slot : Nat, message : Body]],
         \A q \in Party \ {p} : delivered'[q] = delivered[q],
         delivered[p] \subseteq delivered'[p],
         \A d \in delivered'[p] \ delivered[p] :
           /\ d.slot = s
           /\ \E m \in sent : m.message = d.message
           /\ OtherEnd(p, s, d.message.plaintext[1], d.message.plaintext[2])',
         IdsInv(p, s, S, end),
         RatchetInv(p, s, S, end, DeliveredIn(p, s)'),
         S.bob_one_time_key \in UploadedKeys,
         OneSession(p)'
  PROVE  StateType' /\ SessionsInv'
<1>1. /\ session' = [q \in Party |-> session'[q]]
      /\ \A q \in Party : session'[q] \in [Slots[q] -> SessionType]
      /\ role' = [q \in Party |-> role'[q]]
      /\ \A q \in Party : role'[q] \in [Slots[q] -> {"none", "alice", "bob"}]
      /\ ChangesOnly(p, s, S, end)
  BY BecomesProperties
<1>2. StateType'
  BY <1>1 DEF StateType, Slots
<1>3. ASSUME NEW q \in Party
      PROVE  AccountInv(q)'
  BY DEF SessionsInv, AccountInv, MaxKeys
<1>4. ASSUME NEW q \in Party, NEW t \in Slots[q]
      PROVE  SlotInv(q, t)'
  <2>1. CASE q = p /\ t = s
    <3>1. session'[p][s] = S /\ role'[p][s] = end
      BY <1>1 DEF ChangesOnly
    <3>2. UploadedKeys' = UploadedKeys
      BY DEF UploadedKeys
    <3>. QED
      BY <2>1, <3>1, <3>2 DEF SlotInv, Opened
  <2>2. CASE q # p \/ t # s
    <3>1. session'[q][t] = session[q][t] /\ role'[q][t] = role[q][t]
      BY <1>1, <2>2 DEF ChangesOnly
    <3>2. UploadedKeys' = UploadedKeys
      BY DEF UploadedKeys
    <3>3. DeliveredIn(q, t)' = DeliveredIn(q, t)
      BY <2>2 DEF DeliveredIn
    <3>4. SlotInv(q, t)
      BY DEF SessionsInv
    <3>. QED
      BY <3>1, <3>2, <3>3, <3>4 DEF SlotInv, Opened
  <2>. QED
    BY <2>1, <2>2
<1>5. ASSUME NEW q \in Party
      PROVE  ForgottenInv(q)'
  <2>1. ForgottenInv(q)
    BY DEF SessionsInv
  <2>2. ASSUME NEW t \in forgotten[q]
        PROVE  /\ t \in Slots[q]
               /\ Opened(q, t)'
               /\ ~ lookup_key(account[q], session'[q][t].bob_one_time_key)
    <3>1. /\ t \in Slots[q]
          /\ Opened(q, t)
          /\ ~ lookup_key(account[q], session[q][t].bob_one_time_key)
      BY <2>1 DEF ForgottenInv
    <3>2. CASE q = p /\ t = s
      BY <1>1, <3>1, <3>2 DEF ChangesOnly, Evolves, Opened
    <3>3. CASE q # p \/ t # s
      BY <1>1, <3>1, <3>3 DEF ChangesOnly, Opened
    <3>. QED
      BY <3>2, <3>3
  <2>. QED
    BY <2>2 DEF ForgottenInv, Slots
<1>6. ASSUME NEW q \in Party
      PROVE  OneSession(q)'
  <2>1. CASE q = p
    BY <2>1
  <2>2. CASE q # p
    <3>1. \A t \in Slots[q] : session'[q][t] = session[q][t] /\ role'[q][t] = role[q][t]
      BY <1>1, <2>2 DEF ChangesOnly
    <3>2. OneSession(q)
      BY DEF SessionsInv
    <3>. QED
      BY <3>1, <3>2 DEF OneSession, Slots
  <2>. QED
    BY <2>1, <2>2
<1>7. ASSUME NEW q \in Party
      PROVE  DeliveredInv(q)'
  <2>1. DeliveredInv(q) /\ \A m \in sent : SentInv(m)
    BY DEF SessionsInv
  <2>2. ASSUME NEW d \in delivered[q]
        PROVE  /\ d.slot \in Slots[q]
               /\ \E m \in sent' : m.message = d.message
               /\ OtherEnd(q, d.slot, d.message.plaintext[1], d.message.plaintext[2])'
    <3>1. /\ d.slot \in Slots[q]
          /\ \E m \in sent : m.message = d.message
          /\ OtherEnd(q, d.slot, d.message.plaintext[1], d.message.plaintext[2])
      BY <2>1 DEF DeliveredInv
    <3>2. /\ d.message.plaintext[1] \in Party
          /\ d.message.plaintext[2] \in Slots[d.message.plaintext[1]]
      BY <2>1, <3>1, Origin
    <3>3. OtherEnd(q, d.slot, d.message.plaintext[1], d.message.plaintext[2])'
      <4>1. PICK t, u, v : /\ t = d.slot
                           /\ u = d.message.plaintext[1]
                           /\ v = d.message.plaintext[2]
        OBVIOUS
      <4>2. OtherEnd(q, t, u, v)'
        BY <1>1, <3>1, <3>2, <4>1, OtherEndStays
      <4>. QED
        BY <4>1, <4>2
    <3>. QED
      BY <3>1, <3>3
  <2>3. ASSUME NEW d \in delivered'[p] \ delivered[p]
        PROVE  /\ d.slot \in Slots[p]
               /\ \E m \in sent' : m.message = d.message
               /\ OtherEnd(p, d.slot, d.message.plaintext[1], d.message.plaintext[2])'
    OBVIOUS
  <2>4. \A d \in delivered'[q] : d \in delivered[q] \/ (q = p /\ d \in delivered'[p] \ delivered[p])
    OBVIOUS
  <2>. QED
    BY <2>2, <2>3, <2>4 DEF DeliveredInv, Slots
<1>8. ASSUME NEW m \in sent'
      PROVE  SentInv(m)'
  <2>1. CASE m \in sent
    <3>1. SentInv(m)
      BY <2>1 DEF SessionsInv
    <3>2. \A q \in Party : delivered[q] \subseteq delivered'[q]
      OBVIOUS
    <3>. QED
      BY <1>1, <2>1, <3>1, <3>2, MessageStays
  <2>. QED
    BY <2>1
<1>9. \A q \in Party : \A t \in Slots'[q] : SlotInv(q, t)'
  BY <1>4 DEF Slots
<1>. QED
  BY <1>2, <1>3, <1>5, <1>6, <1>7, <1>8, <1>9 DEF SessionsInv

(* The keys of a session that was open already stay as they were. *)
LEMMA OneSessionStays ==
  ASSUME StateType, SessionsInv, UNCHANGED bounds,
         NEW p \in Party, NEW s \in Slots[p], NEW S \in SessionType, NEW end,
         ChangesOnly(p, s, S, end), Evolves(p, s, S, end),
         Opened(p, s) \/ end = "alice"
  PROVE  OneSession(p)'
<1>1. OneSession(p)
  BY DEF SessionsInv
<1>2. ASSUME NEW t \in Slots[p], role'[p][t] = "bob"
      PROVE  /\ role[p][t] = "bob"
             /\ session'[p][t].bob_one_time_key = session[p][t].bob_one_time_key
             /\ session'[p][t].alice_identity_key = session[p][t].alice_identity_key
             /\ session'[p][t].alice_base_key = session[p][t].alice_base_key
  <2>1. CASE t = s
    BY <1>2, <2>1 DEF ChangesOnly, Evolves
  <2>2. CASE t # s
    BY <1>2, <2>2 DEF ChangesOnly
  <2>. QED
    BY <2>1, <2>2
<1>. QED
  BY <1>1, <1>2 DEF OneSession, Slots

(* A slot that is not open may change its keys and its last_error. *)
LEMMA UnopenedStep ==
  ASSUME StateType, SessionsInv,
         UNCHANGED <<bounds, account, role, forgotten, uploaded, removed, sent, delivered>>,
         NEW p \in Party, NEW s \in Slots[p], ~ Opened(p, s), NEW S \in SessionType,
         session' = [session EXCEPT ![p][s] = S],
         S.ratchet = session[p][s].ratchet,
         S.received_message = session[p][s].received_message
  PROVE  StateType' /\ SessionsInv'
<1>1. role[p][s] = "none" /\ role = [q \in Party |-> role[q]] /\ role[p] \in [Slots[p] -> {"none", "alice", "bob"}]
  BY DEF Opened, StateType
<1>2. role' = [role EXCEPT ![p][s] = "none"]
  <2>1. [role[p] EXCEPT ![s] = "none"] = role[p]
    BY <1>1
  <2>2. [role EXCEPT ![p] = role[p]] = role
    BY <1>1
  <2>. QED
    BY <2>1, <2>2
<1>3. Becomes(p, s, S, "none")
  BY <1>2 DEF Becomes
<1>4. /\ session' = [q \in Party |-> session'[q]]
      /\ \A q \in Party : session'[q] \in [Slots[q] -> SessionType]
      /\ ChangesOnly(p, s, S, "none")
  BY <1>3, BecomesProperties
<1>5. StateType'
  BY <1>4 DEF StateType, Slots
<1>6. Evolves(p, s, S, "none")
  BY DEF Evolves
<1>7. ASSUME NEW q \in Party, NEW t \in Slots[q]
      PROVE  SlotInv(q, t)'
  <2>1. SlotInv(q, t)
    BY DEF SessionsInv
  <2>2. CASE q = p /\ t = s
    BY <1>4, <2>1, <2>2 DEF SlotInv, Opened, ChangesOnly
  <2>3. CASE q # p \/ t # s
    <3>1. session'[q][t] = session[q][t]
      BY <1>4, <2>3 DEF ChangesOnly
    <3>. QED
      BY <2>1, <3>1 DEF SlotInv, Opened, DeliveredIn, UploadedKeys
  <2>. QED
    BY <2>2, <2>3
<1>8. ASSUME NEW q \in Party, NEW t \in Slots[q], Opened(q, t)
      PROVE  session'[q][t] = session[q][t]
  BY <1>4, <1>8 DEF ChangesOnly
<1>9. ASSUME NEW q \in Party
      PROVE  AccountInv(q)' /\ ForgottenInv(q)' /\ OneSession(q)'
  <2>1. AccountInv(q)'
    BY DEF SessionsInv, AccountInv, MaxKeys
  <2>2. ForgottenInv(q)'
    <3>1. ForgottenInv(q)
      BY DEF SessionsInv
    <3>. QED
      BY <1>8, <3>1 DEF ForgottenInv, Opened, Slots
  <2>3. OneSession(q)'
    <3>1. OneSession(q)
      BY DEF SessionsInv
    <3>2. ASSUME NEW t \in Slots[q], role[q][t] = "bob"
          PROVE  session'[q][t] = session[q][t]
      BY <1>8, <3>2 DEF Opened
    <3>. QED
      BY <3>1, <3>2 DEF OneSession, Slots
  <2>. QED
    BY <2>1, <2>2, <2>3
<1>10. ASSUME NEW q \in Party
       PROVE  DeliveredInv(q)'
  <2>1. DeliveredInv(q) /\ \A m \in sent : SentInv(m)
    BY DEF SessionsInv
  <2>2. ASSUME NEW d \in delivered[q]
        PROVE  OtherEnd(q, d.slot, d.message.plaintext[1], d.message.plaintext[2])'
    <3>1. /\ d.slot \in Slots[q]
          /\ \E m \in sent : m.message = d.message
          /\ OtherEnd(q, d.slot, d.message.plaintext[1], d.message.plaintext[2])
      BY <2>1 DEF DeliveredInv
    <3>2. /\ d.message.plaintext[1] \in Party
          /\ d.message.plaintext[2] \in Slots[d.message.plaintext[1]]
      BY <2>1, <3>1, Origin
    <3>3. PICK t, u, v : /\ t = d.slot
                         /\ u = d.message.plaintext[1]
                         /\ v = d.message.plaintext[2]
      OBVIOUS
    <3>4. OtherEnd(q, t, u, v)'
      BY <1>4, <1>6, <3>1, <3>2, <3>3, OtherEndStays
    <3>. QED
      BY <3>3, <3>4
  <2>. QED
    BY <2>1, <2>2 DEF DeliveredInv, Slots
<1>11. ASSUME NEW m \in sent
       PROVE  SentInv(m)'
  <2>1. SentInv(m)
    BY DEF SessionsInv
  <2>2. \A q \in Party : delivered[q] \subseteq delivered'[q]
    OBVIOUS
  <2>. QED
    BY <1>4, <1>6, <2>1, <2>2, MessageStays
<1>12. \A q \in Party : \A t \in Slots'[q] : SlotInv(q, t)'
  BY <1>7 DEF Slots
<1>. QED
  BY <1>5, <1>9, <1>10, <1>11, <1>12 DEF SessionsInv

LEMMA ForgetStep ==
  ASSUME StateType, SessionsInv, UNCHANGED bounds,
         NEW p \in Party, NEW s \in Slots[p], Forget(p, s)
  PROVE  StateType' /\ SessionsInv'
<1>1. /\ Live(p, s)
      /\ ~ lookup_key(account[p], session[p][s].bob_one_time_key)
      /\ forgotten' = [forgotten EXCEPT ![p] = @ \cup {s}]
      /\ UNCHANGED <<account, session, role, uploaded, removed, sent, delivered>>
  BY DEF Forget, keyVars, messageVars
<1>2. s \in Nat
  BY BoundsTypes DEF StateType
<1>3. StateType'
  <2>1. forgotten' \in [Party -> SUBSET Nat]
    BY <1>1, <1>2 DEF StateType
  <2>. QED
    BY <1>1, <2>1 DEF StateType, Slots
<1>4. ASSUME NEW q \in Party
      PROVE  ForgottenInv(q)'
  <2>1. ForgottenInv(q)
    BY DEF SessionsInv
  <2>2. forgotten'[q] = IF q = p THEN forgotten[q] \cup {s} ELSE forgotten[q]
    BY <1>1 DEF StateType
  <2>. QED
    BY <1>1, <2>1, <2>2 DEF ForgottenInv, Live, Opened, Slots
<1>5. ASSUME NEW q \in Party
      PROVE  /\ AccountInv(q)'
             /\ \A t \in Slots'[q] : SlotInv(q, t)'
             /\ OneSession(q)'
             /\ DeliveredInv(q)'
  <2>1. /\ AccountInv(q)
        /\ \A t \in Slots[q] : SlotInv(q, t)
        /\ OneSession(q)
        /\ DeliveredInv(q)
    BY DEF SessionsInv
  <2>2. AccountInv(q)'
    BY <1>1, <2>1 DEF AccountInv, MaxKeys
  <2>3. \A t \in Slots'[q] : SlotInv(q, t)'
    BY <1>1, <2>1 DEF SlotInv, Opened, DeliveredIn, UploadedKeys, Slots
  <2>4. OneSession(q)' /\ DeliveredInv(q)'
    BY <1>1, <2>1 DEF OneSession, DeliveredInv, OtherEnd, Opened, Slots
  <2>. QED
    BY <2>2, <2>3, <2>4
<1>6. ASSUME NEW m \in sent
      PROVE  SentInv(m)'
  <2>1. SentInv(m)
    BY DEF SessionsInv
  <2>. QED
    BY <1>1, <2>1, ZenonT(30) DEF SentInv, Opened, DeliveredIn, Slots
<1>. QED
  BY <1>1, <1>3, <1>4, <1>5, <1>6 DEF SessionsInv

(***************************************************************************)
(* What arrives.                                                           *)
(***************************************************************************)
(* The set-up of a pre-key message names an identity, a base key or a      *)
(* one-time key in its place, and a one-time key that was uploaded.        *)
SetUpInv(m) ==
  /\ \E q \in Party : m.identity_key = IdentityKey(q)
  /\ m.base_key \in Bases
  /\ m.one_time_key \in UploadedKeys

(* The body of a message that arrives was sent, or no key verifies it and  *)
(* it names no ratchet key.                                                *)
ArrivingInv(m) ==
  /\ m.type = "PRE_KEY" => m \in PreKeyMessage /\ SetUpInv(m)
  /\ m.message \in Body
  /\ \/ \E x \in sent : x.message = m.message
     \/ m.message.key.key = << {} >> /\ m.message.ratchet_key \in {NoKey} \cup Bases

LEMMA KnownKeys ==
  ASSUME StateType, SessionsInv
  PROVE  /\ Bases \subseteq Key
         /\ UploadedKeys \subseteq Key
         /\ \A k \in UploadedKeys : \E q \in Party, n \in Nat : k = OneTimeKey(q, n)
<1>1. Bases \subseteq Key
  BY KeyTypes DEF Bases
<1>2. ASSUME NEW k \in UploadedKeys
      PROVE  \E q \in Party, n \in Nat : k = OneTimeKey(q, n)
  <2>1. PICK q \in Party : \E u \in uploaded[q] : u.key = k
    BY DEF UploadedKeys
  <2>2. PICK u \in uploaded[q] : u.key = k
    BY <2>1
  <2>3. k = OneTimeKey(q, u.id)
    BY <2>2 DEF SessionsInv, AccountInv
  <2>4. u.id \in Nat
    BY DEF StateType, PublicKey
  <2>. QED
    BY <2>3, <2>4
<1>3. UploadedKeys \subseteq Key
  BY <1>2, KeyTypes
<1>. QED
  BY <1>1, <1>2, <1>3

LEMMA SentArrives ==
  ASSUME StateType, SessionsInv, NEW m \in sent
  PROVE  ArrivingInv(m)
<1>1. SentInv(m)
  BY DEF SessionsInv
<1>2. PICK p, s : p = m.message.plaintext[1] /\ s = m.message.plaintext[2]
  OBVIOUS
<1>3. m.message \in Body /\ p \in Party /\ s \in Slots[p] /\ Opened(p, s)
  BY <1>1, <1>2, Origin, ZenonT(30) DEF SentInv
<1>4. PICK S : S = session[p][s]
  OBVIOUS
<1>5. SlotInv(p, s)
  BY <1>3 DEF SessionsInv
<1>6. IdsInv(p, s, S, role[p][s]) /\ S.bob_one_time_key \in UploadedKeys
  BY <1>3, <1>4, <1>5 DEF SlotInv
<1>7. s \in Nat
  BY <1>3, BoundsTypes DEF StateType
<1>8. (\E q \in Party : S.alice_identity_key = IdentityKey(q)) /\ S.alice_base_key \in Bases
  <2>1. CASE role[p][s] = "alice"
    BY <1>3, <1>6, <1>7, <2>1 DEF IdsInv, Bases
  <2>2. CASE role[p][s] = "bob"
    BY <1>6, <2>2 DEF IdsInv
  <2>. QED
    BY <1>6, <2>1, <2>2 DEF IdsInv
<1>9. ASSUME m.type = "PRE_KEY"
      PROVE  m \in PreKeyMessage /\ SetUpInv(m)
  <2>1. m \in PreKeyMessage
    BY <1>9 DEF StateType, PlainMessage
  <2>2. /\ m.identity_key = S.alice_identity_key
        /\ m.base_key = S.alice_base_key
        /\ m.one_time_key = S.bob_one_time_key
    BY <1>1, <1>2, <1>4, <1>9, SMTT(30) DEF SentInv
  <2>. QED
    BY <1>6, <1>8, <2>1, <2>2 DEF SetUpInv
<1>. QED
  BY <1>3, <1>9 DEF ArrivingInv

LEMMA DamagedForms ==
  ASSUME NEW m, NEW x \in Damaged(m)
  PROVE  \/ x = [m EXCEPT !.version = 4]
         \/ \E p \in Party : x = [m EXCEPT !.identity_key = IdentityKey(p)]
         \/ x = [m EXCEPT !.base_key = m.one_time_key]
         \/ \E k \in UNION { uploaded[p] : p \in Party } : x = [m EXCEPT !.one_time_key = k.key]
         \/ x = WithRatchetKey(m, m.base_key)
         \/ x = WithRatchetKey(m, NoKey)
<1> DEFINE version == { [m EXCEPT !.version = 4] : f \in Damage \cap {"version"} }
           identity == { [m EXCEPT !.identity_key = IdentityKey(p)] : p \in Party,
                           f \in Damage \cap {"identity_key"} }
           base == { [m EXCEPT !.base_key = m.one_time_key] : f \in Damage \cap {"base_key"} }
           one_time == { [m EXCEPT !.one_time_key = k.key] :
                           k \in UNION { uploaded[p] : p \in Party },
                           f \in Damage \cap {"one_time_key"} }
           other == { WithRatchetKey(m, m.base_key) : f \in Damage \cap {"ratchet_key"} }
           none == { WithRatchetKey(m, NoKey) : f \in Damage \cap {"no_ratchet_key"} }
<1>1. x \in version => x = [m EXCEPT !.version = 4]
  OBVIOUS
<1>2. x \in identity => \E p \in Party : x = [m EXCEPT !.identity_key = IdentityKey(p)]
  OBVIOUS
<1>3. x \in base => x = [m EXCEPT !.base_key = m.one_time_key]
  OBVIOUS
<1>4. x \in one_time =>
        \E k \in UNION { uploaded[p] : p \in Party } : x = [m EXCEPT !.one_time_key = k.key]
  OBVIOUS
<1>5. x \in other => x = WithRatchetKey(m, m.base_key)
  OBVIOUS
<1>6. x \in none => x = WithRatchetKey(m, NoKey)
  OBVIOUS
<1>7. Damaged(m) = version \cup identity \cup base \cup one_time \cup other \cup none
  BY DEF Damaged
<1>. HIDE DEF version, identity, base, one_time, other, none
<1>. QED
  BY <1>1, <1>2, <1>3, <1>4, <1>5, <1>6, <1>7

LEMMA DamagedArrives ==
  ASSUME StateType, SessionsInv, NEW m \in sent, m.type = "PRE_KEY", NEW x \in Damaged(m)
  PROVE  ArrivingInv(x)
<1>1. m \in PreKeyMessage /\ SetUpInv(m) /\ m.message \in Body
  BY SentArrives DEF ArrivingInv
<1>2. Bases \subseteq Key /\ UploadedKeys \subseteq Key
  BY KnownKeys
<1>3. ASSUME x = [m EXCEPT !.version = 4]
      PROVE  ArrivingInv(x)
  <2>1. x \in PreKeyMessage
    BY <1>1, <1>3 DEF PreKeyMessage
  <2>2. /\ x.identity_key = m.identity_key /\ x.base_key = m.base_key
        /\ x.one_time_key = m.one_time_key /\ x.message = m.message
    BY <1>1, <1>3 DEF PreKeyMessage
  <2>. QED
    BY <1>1, <2>1, <2>2 DEF ArrivingInv, SetUpInv
<1>4. ASSUME NEW p \in Party, x = [m EXCEPT !.identity_key = IdentityKey(p)]
      PROVE  ArrivingInv(x)
  <2>1. IdentityKey(p) \in Key
    BY KeyTypes
  <2>2. x \in PreKeyMessage
    BY <1>1, <1>4, <2>1 DEF PreKeyMessage
  <2>3. /\ x.identity_key = IdentityKey(p) /\ x.base_key = m.base_key
        /\ x.one_time_key = m.one_time_key /\ x.message = m.message
    BY <1>1, <1>4 DEF PreKeyMessage
  <2>. QED
    BY <1>1, <2>2, <2>3 DEF ArrivingInv, SetUpInv
<1>5. ASSUME x = [m EXCEPT !.base_key = m.one_time_key]
      PROVE  ArrivingInv(x)
  <2>1. m.one_time_key \in Key /\ m.one_time_key \in Bases
    BY <1>1, <1>2, KnownKeys DEF SetUpInv, Bases
  <2>2. x \in PreKeyMessage
    BY <1>1, <1>5, <2>1 DEF PreKeyMessage
  <2>3. /\ x.identity_key = m.identity_key /\ x.base_key = m.one_time_key
        /\ x.one_time_key = m.one_time_key /\ x.message = m.message
    BY <1>1, <1>5 DEF PreKeyMessage
  <2>. QED
    BY <1>1, <2>1, <2>2, <2>3 DEF ArrivingInv, SetUpInv
<1>6. ASSUME NEW k \in UploadedKeys, x = [m EXCEPT !.one_time_key = k]
      PROVE  ArrivingInv(x)
  <2>1. k \in Key
    BY <1>2
  <2>2. x \in PreKeyMessage
    BY <1>1, <1>6, <2>1 DEF PreKeyMessage
  <2>3. /\ x.identity_key = m.identity_key /\ x.base_key = m.base_key
        /\ x.one_time_key = k /\ x.message = m.message
    BY <1>1, <1>6 DEF PreKeyMessage
  <2>. QED
    BY <1>1, <2>2, <2>3 DEF ArrivingInv, SetUpInv
<1>7. ASSUME NEW key \in {NoKey} \cup Bases, x = WithRatchetKey(m, key)
      PROVE  ArrivingInv(x)
  <2>0. key \in Key
    BY <1>2 DEF Key
  <2>1. PICK lost : lost = [key |-> << {} >>, index |-> 0]
    OBVIOUS
  <2>2. PICK body : body = [m.message EXCEPT !.ratchet_key = key, !.key = lost]
    OBVIOUS
  <2>3. x = [m EXCEPT !.message = body]
    BY <1>1, <1>7, <2>1, <2>2 DEF WithRatchetKey, PreKeyMessage, Body, Messages
  <2>4. lost \in MessageKeys(Key)
    <3>1. PICK h : h = << {} >>
      OBVIOUS
    <3>2. h \in Histories(Key)
      BY <3>1 DEF Histories
    <3>3. lost = [key |-> h, index |-> 0]
      BY <2>1, <3>1
    <3>. QED
      BY <3>2, <3>3 DEF MessageKeys, ChainKeys
  <2>5. body \in Body /\ body.key = lost /\ body.ratchet_key = key
    BY <1>1, <2>0, <2>2, <2>4 DEF Body, Messages
  <2>6. lost.key = << {} >>
    BY <2>1
  <2>7. x \in PreKeyMessage
    BY <1>1, <2>3, <2>5 DEF PreKeyMessage
  <2>8. /\ x.identity_key = m.identity_key /\ x.base_key = m.base_key
        /\ x.one_time_key = m.one_time_key /\ x.message = body
    BY <1>1, <2>3 DEF PreKeyMessage
  <2>. QED
    BY <1>1, <2>5, <2>6, <2>7, <2>8 DEF ArrivingInv, SetUpInv
<1>8. \/ x = [m EXCEPT !.version = 4]
      \/ \E p \in Party : x = [m EXCEPT !.identity_key = IdentityKey(p)]
      \/ x = [m EXCEPT !.base_key = m.one_time_key]
      \/ \E k \in UNION { uploaded[p] : p \in Party } : x = [m EXCEPT !.one_time_key = k.key]
      \/ x = WithRatchetKey(m, m.base_key)
      \/ x = WithRatchetKey(m, NoKey)
  BY DamagedForms, Zenon
<1>9. \A k \in UNION { uploaded[p] : p \in Party } : k.key \in UploadedKeys
  BY DEF UploadedKeys
<1>10. m.base_key \in {NoKey} \cup Bases
  BY <1>1 DEF SetUpInv
<1>. QED
  BY <1>3, <1>4, <1>5, <1>6, <1>7, <1>8, <1>9, <1>10

LEMMA Arrived ==
  ASSUME StateType, SessionsInv, NEW m \in Arriving
  PROVE  ArrivingInv(m)
BY SentArrives, DamagedArrives DEF Arriving

(***************************************************************************)
(* Calls that fail.                                                        *)
(***************************************************************************)
LEMMA CreateUnreadyStep ==
  ASSUME StateType, SessionsInv, UNCHANGED bounds,
         NEW p \in Party, NEW s \in Slots[p], NEW error, CreateUnready(p, s, error)
  PROVE  StateType' /\ SessionsInv'
<1>1. PICK S : S = SessionFailed(session[p][s], error)
  OBVIOUS
<1>2. /\ ~ Opened(p, s)
      /\ error \in SessionError
      /\ session' = [session EXCEPT ![p][s] = S]
      /\ UNCHANGED <<account, role, forgotten, uploaded, removed, sent, delivered>>
  BY <1>1 DEF CreateUnready, NextSlot, SessionError, Error, keyVars, messageVars
<1>3. session[p][s] \in SessionType
  BY DEF StateType
<1>4. /\ S \in SessionType
      /\ S.ratchet = session[p][s].ratchet
      /\ S.received_message = session[p][s].received_message
  BY <1>1, <1>2, <1>3 DEF SessionFailed, SessionType
<1>. QED
  BY <1>2, <1>4, UnopenedStep

LEMMA CreateInboundRefusedStep ==
  ASSUME StateType, SessionsInv, UNCHANGED bounds,
         NEW p \in Party, NEW s \in Slots[p], NEW from, NEW m, CreateInboundRefused(p, s, from, m)
  PROVE  StateType' /\ SessionsInv'
<1>1. PICK S : S = SessionFailed(session[p][s], "BAD_MESSAGE_KEY_ID")
  OBVIOUS
<1>2. /\ ~ Opened(p, s)
      /\ session' = [session EXCEPT ![p][s] = S]
      /\ UNCHANGED <<account, role, forgotten, uploaded, removed, sent, delivered>>
  BY <1>1 DEF CreateInboundRefused, NextSlot, keyVars, messageVars
<1>3. session[p][s] \in SessionType
  BY DEF StateType
<1>4. /\ S \in SessionType
      /\ S.ratchet = session[p][s].ratchet
      /\ S.received_message = session[p][s].received_message
  BY <1>1, <1>3 DEF SessionFailed, SessionType, SessionError
<1>. QED
  BY <1>2, <1>4, UnopenedStep

LEMMA CreateInboundFailsStep ==
  ASSUME StateType, SessionsInv, UNCHANGED bounds,
         NEW p \in Party, NEW s \in Slots[p], NEW from, NEW m \in Arriving,
         CreateInboundFails(p, s, from, m)
  PROVE  StateType' /\ SessionsInv'
<1>1. PICK error : error = IF HasRatchetKey(m) THEN "BAD_MESSAGE_KEY_ID" ELSE "BAD_MESSAGE_FORMAT"
  OBVIOUS
<1>2. PICK W : W = WithMessageKeys(session[p][s], m)
  OBVIOUS
<1>3. PICK S : S = SessionFailed(W, error)
  OBVIOUS
<1>4. /\ ~ Opened(p, s)
      /\ m.type = "PRE_KEY"
      /\ session' = [session EXCEPT ![p][s] = S]
      /\ UNCHANGED <<account, role, forgotten, uploaded, removed, sent, delivered>>
  BY <1>1, <1>2, <1>3 DEF CreateInboundFails, NextSlot, Unmatched, keyVars, messageVars
<1>5. session[p][s] \in SessionType
  BY DEF StateType
<1>6. m \in PreKeyMessage
  BY <1>4, Arrived DEF ArrivingInv
<1>7. /\ W \in SessionType
      /\ W.ratchet = session[p][s].ratchet
      /\ W.received_message = session[p][s].received_message
  BY <1>2, <1>5, <1>6 DEF WithMessageKeys, SessionType, PreKeyMessage
<1>8. error \in SessionError
  BY <1>1 DEF SessionError, Error
<1>9. /\ S \in SessionType
      /\ S.ratchet = session[p][s].ratchet
      /\ S.received_message = session[p][s].received_message
  BY <1>3, <1>7, <1>8 DEF SessionFailed, SessionType
<1>. QED
  BY <1>4, <1>9, UnopenedStep

(* What the invariant says of an open session. *)
LEMMA OpenSession ==
  ASSUME StateType, SessionsInv, NEW p \in Party, NEW s \in Slots[p], Opened(p, s),
         NEW S, S = session[p][s]
  PROVE  /\ S \in SessionType
         /\ S.ratchet \in Ratchets(Key)
         /\ role[p][s] \in {"alice", "bob"}
         /\ IdsInv(p, s, S, role[p][s])
         /\ RatchetInv(p, s, S, role[p][s], DeliveredIn(p, s))
         /\ WithinBounds(S.ratchet)
         /\ S.bob_one_time_key \in UploadedKeys
         /\ DeliveredIn(p, s) \in SUBSET Body
<1>1. S \in SessionType
  BY DEF StateType
<1>2. SlotInv(p, s)
  BY DEF SessionsInv
<1>3. /\ IdsInv(p, s, S, role[p][s])
      /\ RatchetInv(p, s, S, role[p][s], DeliveredIn(p, s))
      /\ S.bob_one_time_key \in UploadedKeys
  BY <1>2 DEF SlotInv
<1>4. DeliveredIn(p, s) \in SUBSET Body
  BY DEF StateType, DeliveredIn
<1>. QED
  BY <1>1, <1>3, <1>4 DEF IdsInv, RatchetInv, SessionType

(* The secrets of later derivations are mixed in after the three of the    *)
(* set-up.                                                                 *)
LEMMA HistoriesGrow ==
  ASSUME NEW S
  PROVE  Grows(HistoriesOf(S), Key)
<1>1. HistoriesOf(S) \subseteq Histories(Key)
  BY DEF HistoriesOf
<1>2. ASSUME NEW h \in HistoriesOf(S), NEW secret \in SUBSET Key
      PROVE  Append(h, secret) \in HistoriesOf(S)
  <2>1. PICK g : g = Append(h, secret)
    OBVIOUS
  <2>2. h \in Seq(SUBSET Key) /\ Len(h) >= 3
    BY DEF HistoriesOf, Histories, From
  <2>3. g \in Seq(SUBSET Key) /\ Len(g) = Len(h) + 1
    BY <2>1, <2>2, AppendProperties
  <2>4. g[1] = h[1] /\ g[2] = h[2] /\ g[3] = h[3]
    <3>1. \A i \in 1..Len(h) : g[i] = h[i]
      BY <2>1, <2>2, AppendProperties
    <3>. QED
      BY <2>2, <3>1
  <2>5. From(g, Secret(S))
    <3>1. Len(h) \in Nat
      BY <2>2
    <3>. QED
      BY <2>2, <2>3, <2>4, <3>1 DEF HistoriesOf, From
  <2>. QED
    BY <2>1, <2>3, <2>5 DEF HistoriesOf, Histories
<1>. QED
  BY <1>1, <1>2 DEF Grows

LEMMA SameRole ==
  ASSUME StateType, NEW p \in Party, NEW s \in Slots[p], UNCHANGED role
  PROVE  role' = [role EXCEPT ![p][s] = role[p][s]]
<1>1. role = [q \in Party |-> role[q]] /\ role[p] \in [Slots[p] -> {"none", "alice", "bob"}]
  BY DEF StateType
<1>2. [role[p] EXCEPT ![s] = role[p][s]] = role[p]
  BY <1>1
<1>3. [role EXCEPT ![p] = role[p]] = role
  BY <1>1
<1>. QED
  BY <1>2, <1>3

LEMMA SessionCallFailsStep ==
  ASSUME StateType, SessionsInv, UNCHANGED bounds,
         NEW p \in Party, NEW s \in Slots[p], NEW error, SessionCallFails(p, s, error)
  PROVE  StateType' /\ SessionsInv'
<1>1. PICK S : S = session[p][s]
  OBVIOUS
<1>2. PICK Z : Z = SessionDecryptFailed(S, error)
  OBVIOUS
<1>3. /\ Opened(p, s)
      /\ error \in SessionError
      /\ session' = [session EXCEPT ![p][s] = Z]
      /\ UNCHANGED <<account, role, forgotten, uploaded, removed, sent, delivered>>
  BY <1>1, <1>2 DEF SessionCallFails, Live, SessionError, Error, keyVars, messageVars
<1>4. PICK end, used : end = role[p][s] /\ used = DeliveredIn(p, s)
  OBVIOUS
<1>5. /\ S \in SessionType
      /\ S.ratchet \in Ratchets(Key)
      /\ end \in {"alice", "bob"}
      /\ IdsInv(p, s, S, end)
      /\ RatchetInv(p, s, S, end, used)
      /\ WithinBounds(S.ratchet)
      /\ S.bob_one_time_key \in UploadedKeys
  BY <1>1, <1>3, <1>4, OpenSession
<1>6. PICK r : r = Failed(S.ratchet, "SUCCESS")
  OBVIOUS
<1>7. r \in Ratchets(Key) /\ WithinBounds(r) /\ (ReplaySafe(S.ratchet, used) => ReplaySafe(r, used))
  <2>1. "SUCCESS" \in Error
    BY DEF Error
  <2>. QED
    BY <1>5, <1>6, <2>1, FailedKeeps
<1>8. Z = [S EXCEPT !.last_error = error, !.ratchet = r]
  BY <1>2, <1>5, <1>6 DEF SessionDecryptFailed, Failed, SessionType
<1>9. /\ Z \in SessionType
      /\ Z.ratchet = r
      /\ Z.received_message = S.received_message
      /\ Z.alice_identity_key = S.alice_identity_key
      /\ Z.alice_base_key = S.alice_base_key
      /\ Z.bob_one_time_key = S.bob_one_time_key
  BY <1>3, <1>5, <1>7, <1>8 DEF SessionType
<1>10. /\ Len(r.root_key) = Len(S.ratchet.root_key)
       /\ r.root_key = S.ratchet.root_key
       /\ r.sender_chain = S.ratchet.sender_chain
       /\ Len(S.ratchet.root_key) \in Nat
  BY <1>5, <1>6, LenProperties DEF Failed, Ratchets, Histories
<1>11. Becomes(p, s, Z, end)
  BY <1>3, <1>4, SameRole DEF Becomes
<1>12. Evolves(p, s, Z, end)
  BY <1>1, <1>4, <1>9, <1>10 DEF Evolves
<1>13. IdsInv(p, s, Z, end)
  BY <1>5, <1>9 DEF IdsInv
<1>14. Secret(Z) = Secret(S)
  BY <1>9 DEF Secret
<1>15. Keeps(r, HistoriesOf(S), OwnKeys(p, s), Key \ OwnKeys(p, s))
  <2>1. Keeps(S.ratchet, HistoriesOf(S), OwnKeys(p, s), Key \ OwnKeys(p, s))
    BY <1>5 DEF RatchetInv
  <2>. QED
    BY <1>5, <1>6, <2>1, FailedKeepsKeys
<1>16. RatchetInv(p, s, Z, end, used)
  <2>1. HistoriesOf(Z) = HistoriesOf(S)
    BY <1>14 DEF HistoriesOf
  <2>. QED
    BY <1>5, <1>7, <1>9, <1>10, <1>14, <1>15, <2>1 DEF RatchetInv
<1>17. DeliveredIn(p, s)' = used
  BY <1>3, <1>4 DEF DeliveredIn
<1>18. OneSession(p)'
  <2>1. ChangesOnly(p, s, Z, end)
    BY <1>5, <1>9, <1>11, BecomesProperties
  <2>. QED
    BY <1>3, <1>9, <1>12, <2>1, OneSessionStays
<1>19. /\ sent \subseteq sent' /\ sent' \subseteq PlainMessage \cup PreKeyMessage
       /\ sent' \ sent = {}
       /\ delivered' \in [Party -> SUBSET [slot : Nat, message : Body]]
       /\ \A q \in Party \ {p} : delivered'[q] = delivered[q]
       /\ delivered[p] \subseteq delivered'[p]
       /\ delivered'[p] \ delivered[p] = {}
  BY <1>3 DEF StateType
<1>20. Z.bob_one_time_key \in UploadedKeys
  BY <1>5, <1>9
<1>21. RatchetInv(p, s, Z, end, DeliveredIn(p, s)')
  BY <1>16, <1>17
<1>. QED
  BY <1>3, <1>5, <1>9, <1>11, <1>12, <1>13, <1>18, <1>19, <1>20, <1>21, SessionStep

(***************************************************************************)
(* Sessions that open.                                                     *)
(***************************************************************************)
(* Nothing was decrypted in a slot that is not open. *)
LEMMA NothingDelivered ==
  ASSUME StateType, SessionsInv, NEW p \in Party, NEW s, ~ Opened(p, s)
  PROVE  DeliveredIn(p, s) = {} /\ s \notin forgotten[p]
BY DEF SessionsInv, DeliveredInv, OtherEnd, DeliveredIn, ForgottenInv

(* The secret is a history of the session's own. *)
LEMMA SecretIsHistory ==
  ASSUME NEW S, S.alice_identity_key \in Key, S.alice_base_key \in Key, S.bob_one_time_key \in Key,
         NEW q \in Party, Owner(S.bob_one_time_key) = q
  PROVE  Secret(S) \in HistoriesOf(S) /\ Secret(S) \in Histories(Key)
<1>1. PICK a, b, c : /\ a = {S.alice_identity_key, S.bob_one_time_key}
                     /\ b = {S.alice_base_key, IdentityKey(q)}
                     /\ c = {S.alice_base_key, S.bob_one_time_key}
  OBVIOUS
<1>2. a \in SUBSET Key /\ b \in SUBSET Key /\ c \in SUBSET Key
  BY <1>1, KeyTypes
<1>3. PICK h : h = << a, b, c >>
  OBVIOUS
<1>4. h \in Seq(SUBSET Key) /\ Len(h) = 3
  BY <1>2, <1>3
<1>5. Secret(S) = h
  BY <1>1, <1>3 DEF Secret
<1>6. From(h, h)
  <2>1. Len(h) >= 3
    BY <1>4
  <2>. QED
    BY <2>1 DEF From
<1>7. h \in Histories(Key)
  BY <1>4 DEF Histories
<1>. QED
  BY <1>5, <1>6, <1>7 DEF HistoriesOf

LEMMA CreateOutboundStep ==
  ASSUME StateType, SessionsInv, UNCHANGED bounds,
         NEW p \in Party, NEW s \in Slots[p], NEW q \in Party \ {p}, NEW k \in uploaded[q],
         CreateOutbound(p, s, q, k)
  PROVE  StateType' /\ SessionsInv'
<1>1. PICK S : S = session[p][s]
  OBVIOUS
<1>2. S \in SessionType /\ s \in Nat
  BY <1>1, BoundsTypes DEF StateType
<1>3. /\ account[p].identity_key = IdentityKey(p)
      /\ account[q].identity_key = IdentityKey(q)
      /\ k.key = OneTimeKey(q, k.id)
      /\ k.id \in Nat
  BY DEF SessionsInv, AccountInv, StateType, PublicKey
<1>4. PICK otk, base, own : otk = k.key /\ base = BaseKey(p, s) /\ own = RatchetKeyOf(p, s, 0)
  OBVIOUS
<1>5. /\ otk \in Key /\ base \in Key /\ own \in Key /\ IdentityKey(p) \in Key
      /\ own \in OwnKeys(p, s)
      /\ Owner(otk) = q
  BY <1>2, <1>3, <1>4, KeyTypes, KeyOwners DEF OwnKeys
<1>6. PICK secret : secret = << {IdentityKey(p), otk}, {base, IdentityKey(q)}, {base, otk} >>
  OBVIOUS
<1>7. PICK r : r = initialise_as_alice(secret, own)
  OBVIOUS
<1>8. PICK Z : Z = new_outbound_session(S, account[p].identity_key, BaseKey(p, s),
                                        RatchetKeyOf(p, s, 0), account[q].identity_key, k.key)
  OBVIOUS
<1>9. /\ ~ Opened(p, s)
      /\ session' = [session EXCEPT ![p][s] = Z]
      /\ role' = [role EXCEPT ![p][s] = "alice"]
      /\ UNCHANGED <<account, forgotten, uploaded, removed, sent, delivered>>
  BY <1>1, <1>8 DEF CreateOutbound, NextSlot, messageVars
<1>10. Z = [S EXCEPT !.received_message = FALSE, !.alice_identity_key = IdentityKey(p),
                     !.alice_base_key = base, !.bob_one_time_key = otk, !.ratchet = r]
  BY <1>3, <1>4, <1>6, <1>7, <1>8 DEF new_outbound_session, SharedSecret
<1>11. /\ Z.ratchet = r
       /\ ~ Z.received_message
       /\ Z.alice_identity_key = IdentityKey(p)
       /\ Z.alice_base_key = base
       /\ Z.bob_one_time_key = otk
  BY <1>2, <1>10 DEF SessionType
<1>12. Secret(Z) = secret
  BY <1>5, <1>6, <1>11 DEF Secret
<1>13. secret \in HistoriesOf(Z) /\ secret \in Histories(Key)
  BY <1>5, <1>11, <1>12, SecretIsHistory
<1>14. /\ r \in Ratchets(Key)
       /\ WithinBounds(r)
       /\ ReplaySafe(r, {})
       /\ Keeps(r, HistoriesOf(Z), OwnKeys(p, s), Key \ OwnKeys(p, s))
       /\ r.root_key = secret
       /\ Len(r.sender_chain) = 1
       /\ r.sender_chain[1].chain_key.key = secret
  <2>1. PICK H, mine, theirs : /\ H = HistoriesOf(Z) /\ mine = OwnKeys(p, s)
                               /\ theirs = Key \ OwnKeys(p, s)
    OBVIOUS
  <2>2. secret \in H /\ own \in mine
    BY <1>5, <1>13, <2>1
  <2>3. r \in Ratchets(Key) /\ WithinBounds(r) /\ ReplaySafe(r, {}) /\ Keeps(r, H, mine, theirs)
    BY <1>5, <1>7, <1>13, <2>2, AliceKeeps
  <2>4. r.root_key = secret /\ Len(r.sender_chain) = 1 /\ r.sender_chain[1].chain_key.key = secret
    BY <1>5, <1>7, <1>13, <2>2, AliceKeeps
  <2>. QED
    BY <2>1, <2>3, <2>4
<1>15. Z \in SessionType
  BY <1>2, <1>5, <1>10, <1>14 DEF SessionType
<1>16. Becomes(p, s, Z, "alice") /\ Evolves(p, s, Z, "alice")
  BY <1>9 DEF Becomes, Evolves
<1>17. DeliveredIn(p, s)' = {}
  BY <1>9, NothingDelivered DEF DeliveredIn
<1>18. IdsInv(p, s, Z, "alice")
  BY <1>3, <1>4, <1>5, <1>11 DEF IdsInv
<1>19. RatchetInv(p, s, Z, "alice", DeliveredIn(p, s)')
  BY <1>11, <1>12, <1>14, <1>17 DEF RatchetInv
<1>20. Z.bob_one_time_key \in UploadedKeys
  BY <1>4, <1>11 DEF UploadedKeys
<1>21. OneSession(p)'
  <2>1. ChangesOnly(p, s, Z, "alice")
    BY <1>15, <1>16, BecomesProperties
  <2>. QED
    BY <1>15, <1>16, <2>1, OneSessionStays
<1>22. /\ sent \subseteq sent' /\ sent' \subseteq PlainMessage \cup PreKeyMessage
       /\ sent' \ sent = {}
       /\ delivered' \in [Party -> SUBSET [slot : Nat, message : Body]]
       /\ \A u \in Party \ {p} : delivered'[u] = delivered[u]
       /\ delivered[p] \subseteq delivered'[p]
       /\ delivered'[p] \ delivered[p] = {}
  BY <1>9 DEF StateType
<1>. QED
  BY <1>9, <1>15, <1>16, <1>18, <1>19, <1>20, <1>21, <1>22, SessionStep

(* The ratchet key of a message that arrives is never one of a session     *)
(* that is not open.                                                       *)
LEMMA TheirRatchetKey ==
  ASSUME StateType, SessionsInv, NEW p \in Party, NEW s \in Slots[p], ~ Opened(p, s),
         NEW m \in Arriving
  PROVE  m.message.ratchet_key \in Key \ OwnKeys(p, s)
<1>1. ArrivingInv(m)
  BY Arrived
<1>2. m.message.ratchet_key \in Key
  BY <1>1 DEF ArrivingInv, Body, Messages
<1>3. CASE m.message.ratchet_key \in {NoKey} \cup Bases
  <2>1. \A n : RatchetKeyOf(p, s, n) # NoKey
    BY DEF RatchetKeyOf, NoKey
  <2>. QED
    BY <1>2, <1>3, <2>1, KeyNames DEF OwnKeys, Bases
<1>4. ASSUME NEW x \in sent, x.message = m.message
      PROVE  m.message.ratchet_key \notin OwnKeys(p, s)
  <2>1. PICK q, t : q = x.message.plaintext[1] /\ t = x.message.plaintext[2]
    OBVIOUS
  <2>2. Opened(q, t) /\ m.message.ratchet_key \in OwnKeys(q, t)
    BY <1>4, <2>1 DEF SessionsInv, SentInv, BodyInv
  <2>. QED
    BY <2>2, KeyNames DEF OwnKeys
<1>. QED
  BY <1>1, <1>2, <1>3, <1>4 DEF ArrivingInv

LEMMA CreateInboundStep ==
  ASSUME StateType, SessionsInv, UNCHANGED bounds,
         NEW p \in Party, NEW s \in Slots[p], NEW from, NEW m \in Arriving,
         CreateInbound(p, s, from, m)
  PROVE  StateType' /\ SessionsInv'
<1>1. PICK S : S = session[p][s]
  OBVIOUS
<1>2. S \in SessionType
  BY <1>1 DEF StateType
<1>3. PICK Z : Z = new_inbound_session(S, m, account[p].identity_key)
  OBVIOUS
<1>4. /\ ~ Opened(p, s)
      /\ m.type = "PRE_KEY"
      /\ \A t \in Slots[p] : Live(p, t) => ~ matches_inbound_session(session[p][t], m)
      /\ lookup_key(account[p], m.one_time_key)
      /\ session' = [session EXCEPT ![p][s] = Z]
      /\ role' = [role EXCEPT ![p][s] = "bob"]
      /\ UNCHANGED <<account, forgotten, uploaded, removed, sent, delivered>>
  BY <1>1, <1>3 DEF CreateInbound, NextSlot, Unmatched, keyVars, messageVars
<1>5. ~ S.received_message
  BY <1>1, <1>4 DEF SessionsInv, SlotInv
<1>6. PICK aid, base, otk, their : /\ aid = m.identity_key /\ base = m.base_key
                                   /\ otk = m.one_time_key /\ their = m.message.ratchet_key
  OBVIOUS
<1>7. /\ \E q \in Party : aid = IdentityKey(q)
      /\ base \in Bases
      /\ otk \in UploadedKeys
      /\ their \in Key \ OwnKeys(p, s)
  BY <1>4, <1>6, Arrived, TheirRatchetKey DEF ArrivingInv, SetUpInv
<1>8. /\ aid \in Key /\ base \in Key /\ otk \in Key /\ IdentityKey(p) \in Key
      /\ \E q \in Party, n \in Nat : otk = OneTimeKey(q, n)
  BY <1>7, KeyTypes, KnownKeys
<1>9. Owner(otk) = p
  BY <1>4, <1>6, <1>7, HeldKey
<1>10. PICK secret : secret = << {otk, aid}, {IdentityKey(p), base}, {otk, base} >>
  OBVIOUS
<1>11. PICK r : r = initialise_as_bob(secret, their)
  OBVIOUS
<1>12. account[p].identity_key = IdentityKey(p)
  BY DEF SessionsInv, AccountInv
<1>13. Z = [S EXCEPT !.alice_identity_key = aid, !.alice_base_key = base,
                     !.bob_one_time_key = otk, !.ratchet = r]
  <2>1. PICK W : W = WithMessageKeys(S, m)
    OBVIOUS
  <2>2. W = [S EXCEPT !.alice_identity_key = aid, !.alice_base_key = base,
                      !.bob_one_time_key = otk]
    BY <1>6, <2>1 DEF WithMessageKeys
  <2>3. Z = [W EXCEPT !.ratchet = r]
    BY <1>3, <1>6, <1>10, <1>11, <1>12, <2>1 DEF new_inbound_session, SharedSecret
  <2>. QED
    BY <1>2, <2>2, <2>3 DEF SessionType
<1>14. /\ Z.ratchet = r
       /\ ~ Z.received_message
       /\ Z.alice_identity_key = aid
       /\ Z.alice_base_key = base
       /\ Z.bob_one_time_key = otk
  BY <1>2, <1>5, <1>13 DEF SessionType
<1>15. Secret(Z) = secret
  <2>1. Secret(Z) = << {aid, otk}, {base, IdentityKey(p)}, {base, otk} >>
    BY <1>9, <1>14 DEF Secret
  <2>2. {aid, otk} = {otk, aid} /\ {base, IdentityKey(p)} = {IdentityKey(p), base}
        /\ {base, otk} = {otk, base}
    OBVIOUS
  <2>. QED
    BY <1>10, <2>1, <2>2
<1>16. secret \in HistoriesOf(Z) /\ secret \in Histories(Key)
  BY <1>8, <1>9, <1>14, <1>15, SecretIsHistory
<1>17. /\ r \in Ratchets(Key)
       /\ WithinBounds(r)
       /\ ReplaySafe(r, {})
       /\ Keeps(r, HistoriesOf(Z), OwnKeys(p, s), Key \ OwnKeys(p, s))
  <2>1. PICK H, mine, theirs : /\ H = HistoriesOf(Z) /\ mine = OwnKeys(p, s)
                               /\ theirs = Key \ OwnKeys(p, s)
    OBVIOUS
  <2>2. secret \in H /\ their \in theirs /\ their \in Key
    BY <1>7, <1>16, <2>1
  <2>3. r \in Ratchets(Key) /\ WithinBounds(r) /\ ReplaySafe(r, {}) /\ Keeps(r, H, mine, theirs)
    BY <1>11, <1>16, <2>2, BobKeeps
  <2>. QED
    BY <2>1, <2>3
<1>18. Z \in SessionType
  BY <1>2, <1>8, <1>13, <1>17 DEF SessionType
<1>19. Becomes(p, s, Z, "bob") /\ Evolves(p, s, Z, "bob")
  BY <1>4 DEF Becomes, Evolves
<1>20. ChangesOnly(p, s, Z, "bob")
  BY <1>18, <1>19, BecomesProperties
<1>21. DeliveredIn(p, s)' = {}
  BY <1>4, NothingDelivered DEF DeliveredIn
<1>22. IdsInv(p, s, Z, "bob")
  BY <1>7, <1>8, <1>9, <1>14 DEF IdsInv
<1>23. RatchetInv(p, s, Z, "bob", DeliveredIn(p, s)')
  BY <1>14, <1>17, <1>21 DEF RatchetInv
<1>24. Z.bob_one_time_key \in UploadedKeys
  BY <1>7, <1>14
(* No other session has these keys: it would be live, and the message its, *)
(* or forgotten, and the one-time key gone.                                *)
<1>25. ASSUME NEW t \in Slots[p], t # s, role[p][t] = "bob",
              session[p][t].bob_one_time_key = otk,
              session[p][t].alice_identity_key = aid,
              session[p][t].alice_base_key = base
       PROVE  FALSE
  <2>1. Opened(p, t)
    BY <1>25 DEF Opened
  <2>2. CASE t \in forgotten[p]
    <3>1. ~ lookup_key(account[p], otk)
      BY <1>25, <2>2 DEF SessionsInv, ForgottenInv
    <3>. QED
      BY <1>4, <1>6, <3>1
  <2>3. CASE t \notin forgotten[p]
    <3>1. Live(p, t)
      BY <2>1, <2>3 DEF Live
    <3>2. matches_inbound_session(session[p][t], m)
      BY <1>6, <1>25 DEF matches_inbound_session
    <3>. QED
      BY <1>4, <3>1, <3>2
  <2>. QED
    BY <2>2, <2>3
<1>26. OneSession(p)'
  <2>1. OneSession(p)
    BY DEF SessionsInv
  <2>2. \A t \in Slots[p] : t # s => session'[p][t] = session[p][t] /\ role'[p][t] = role[p][t]
    BY <1>20 DEF ChangesOnly
  <2>3. session'[p][s] = Z
    BY <1>20 DEF ChangesOnly
  <2>4. ASSUME NEW t \in Slots[p], t # s, role'[p][t] = "bob",
               session'[p][t].bob_one_time_key = Z.bob_one_time_key,
               session'[p][t].alice_identity_key = Z.alice_identity_key,
               session'[p][t].alice_base_key = Z.alice_base_key
        PROVE  FALSE
    BY <1>14, <1>25, <2>2, <2>4
  <2>. QED
    BY <2>1, <2>2, <2>3, <2>4 DEF OneSession, Slots
<1>27. /\ sent \subseteq sent' /\ sent' \subseteq PlainMessage \cup PreKeyMessage
       /\ sent' \ sent = {}
       /\ delivered' \in [Party -> SUBSET [slot : Nat, message : Body]]
       /\ \A u \in Party \ {p} : delivered'[u] = delivered[u]
       /\ delivered[p] \subseteq delivered'[p]
       /\ delivered'[p] \ delivered[p] = {}
  BY <1>4 DEF StateType
<1>. QED
  BY <1>4, <1>18, <1>19, <1>22, <1>23, <1>24, <1>26, <1>27, SessionStep

(***************************************************************************)
(* encrypt.                                                                *)
(***************************************************************************)
(* The ratchet of a session after it encrypted m. *)
LEMMA EncryptedRatchet ==
  ASSUME NEW p \in Party, NEW s \in Nat, NEW S \in SessionType, NEW end, NEW used \in SUBSET Body,
         RatchetInv(p, s, S, end, used),
         NEW fresh \in Key, fresh \in OwnKeys(p, s),
         NEW r, r = Encrypted(S.ratchet, fresh),
         NEW m, m = EncryptedMessage(S.ratchet, fresh, <<p, s>>)
  PROVE  /\ r \in Ratchets(Key)
         /\ WithinBounds(r)
         /\ ReplaySafe(r, used)
         /\ Keeps(r, HistoriesOf(S), OwnKeys(p, s), Key \ OwnKeys(p, s))
         /\ Len(r.root_key) >= Len(S.ratchet.root_key)
         /\ m \in Body
         /\ m.plaintext = <<p, s>>
         /\ m.ratchet_key \in OwnKeys(p, s)
         /\ From(m.key.key, Secret(S))
         /\ Len(m.key.key) <= Len(r.root_key)
<1>1. PICK a, place : a = S.ratchet /\ place = <<p, s>>
  OBVIOUS
<1>2. /\ a \in Ratchets(Key)
      /\ WithinBounds(a)
      /\ ReplaySafe(a, used)
      /\ place \in Place
  BY <1>1 DEF SessionType, RatchetInv, Place
<1>3. PICK H, mine, theirs : /\ H = HistoriesOf(S) /\ mine = OwnKeys(p, s)
                             /\ theirs = Key \ OwnKeys(p, s)
  OBVIOUS
<1>4. Grows(H, Key) /\ Keeps(a, H, mine, theirs) /\ fresh \in mine
  BY <1>1, <1>3, HistoriesGrow DEF RatchetInv
<1>5. r = Encrypted(a, fresh) /\ m = EncryptedMessage(a, fresh, place)
  BY <1>1
<1>6. used \in SUBSET Messages(Key, Place)
  BY DEF Body
<1>7. r \in Ratchets(Key) /\ WithinBounds(r)
  BY <1>2, <1>5, EncryptedProperties
<1>8. Len(r.root_key) >= Len(a.root_key)
  BY <1>2, <1>5, EncryptedProperties
<1>9. ReplaySafe(r, used)
  BY <1>2, <1>5, <1>6, EncryptedReplaySafe
<1>10. Keeps(r, H, mine, theirs)
  BY <1>2, <1>4, <1>5, EncryptedKeeps
<1>11. m.ratchet_key \in mine
  BY <1>2, <1>4, <1>5, EncryptedKeeps
<1>12. m.key.key \in H
  BY <1>2, <1>4, <1>5, EncryptedKeeps
<1>13. Len(m.key.key) <= Len(r.root_key)
  BY <1>2, <1>4, <1>5, EncryptedKeeps
<1>14. m \in Messages(Key, Place) /\ m.plaintext = place
  <2>1. PICK chain : chain = WithSenderChain(a, fresh).sender_chain[1]
    OBVIOUS
  <2>. QED
    BY <1>2, <1>5, <2>1, EncryptedMessageProperties
<1>15. From(m.key.key, Secret(S))
  BY <1>3, <1>12 DEF HistoriesOf
<1>. QED
  BY <1>1, <1>3, <1>7, <1>8, <1>9, <1>10, <1>11, <1>13, <1>14, <1>15 DEF Body

(* While Alice has read nothing she sends on the chain that she began with. *)
LEMMA EncryptedFirstChain ==
  ASSUME NEW a \in Ratchets(Key), WithinBounds(a), Len(a.sender_chain) = 1, NEW fresh \in Key,
         NEW r, r = Encrypted(a, fresh)
  PROVE  /\ r.root_key = a.root_key
         /\ Len(r.sender_chain) = 1
         /\ r.sender_chain[1].chain_key.key = a.sender_chain[1].chain_key.key
<1>1. WithSenderChain(a, fresh) = a
  <2>1. a.sender_chain # << >>
    OBVIOUS
  <2>. QED
    BY <2>1 DEF WithSenderChain
<1>2. PICK chain : chain = a.sender_chain[1]
  OBVIOUS
<1>3. Sends(a, chain, r)
  BY <1>1, <1>2, EncryptedSenderChain
<1>4. PICK next : next = [ratchet_key |-> chain.ratchet_key,
                          chain_key |-> [key   |-> chain.chain_key.key,
                                         index |-> chain.chain_key.index + 1]]
  OBVIOUS
<1>5. r.sender_chain = << next >> /\ r.root_key = a.root_key
  BY <1>3, <1>4 DEF Sends
<1>6. next.chain_key.key = chain.chain_key.key
  BY <1>4
<1>. QED
  BY <1>2, <1>5, <1>6

LEMMA EncryptStep ==
  ASSUME StateType, SessionsInv, UNCHANGED bounds,
         NEW p \in Party, NEW s \in Slots[p], Encrypt(p, s)
  PROVE  StateType' /\ SessionsInv'
<1>1. PICK S, fresh : S = session[p][s] /\ fresh = FreshKey(p, s)
  OBVIOUS
<1>2. PICK Z : Z = SessionEncrypted(S, fresh)
  OBVIOUS
<1>3. PICK m : m = NextMessage(p, s)
  OBVIOUS
<1>4. /\ Opened(p, s)
      /\ session' = [session EXCEPT ![p][s] = Z]
      /\ sent' = sent \cup {m}
      /\ UNCHANGED <<account, role, forgotten, uploaded, removed, delivered>>
  BY <1>1, <1>2, <1>3 DEF Encrypt, Live, keyVars
<1>5. PICK end, used : end = role[p][s] /\ used = DeliveredIn(p, s)
  OBVIOUS
<1>6. /\ S \in SessionType
      /\ S.ratchet \in Ratchets(Key)
      /\ end \in {"alice", "bob"}
      /\ IdsInv(p, s, S, end)
      /\ RatchetInv(p, s, S, end, used)
      /\ WithinBounds(S.ratchet)
      /\ S.bob_one_time_key \in UploadedKeys
      /\ used \in SUBSET Body
  BY <1>1, <1>4, <1>5, OpenSession
<1>7. s \in Nat
  BY BoundsTypes DEF StateType
<1>8. fresh \in Key /\ fresh \in OwnKeys(p, s)
  <2>1. Len(S.ratchet.root_key) \in Nat
    BY <1>6, LenProperties DEF Ratchets, Histories
  <2>2. fresh = RatchetKeyOf(p, s, Len(S.ratchet.root_key))
    BY <1>1 DEF FreshKey
  <2>. QED
    BY <1>7, <2>1, <2>2, KeyTypes DEF OwnKeys
<1>9. PICK r, body : /\ r = Encrypted(S.ratchet, fresh)
                     /\ body = EncryptedMessage(S.ratchet, fresh, <<p, s>>)
  OBVIOUS
<1>10. /\ r \in Ratchets(Key)
       /\ WithinBounds(r)
       /\ ReplaySafe(r, used)
       /\ Keeps(r, HistoriesOf(S), OwnKeys(p, s), Key \ OwnKeys(p, s))
       /\ Len(r.root_key) >= Len(S.ratchet.root_key)
       /\ body \in Body
       /\ body.plaintext = <<p, s>>
       /\ body.ratchet_key \in OwnKeys(p, s)
       /\ From(body.key.key, Secret(S))
       /\ Len(body.key.key) <= Len(r.root_key)
  BY <1>6, <1>7, <1>8, <1>9, EncryptedRatchet
<1>11. Z = [S EXCEPT !.ratchet = r]
  BY <1>2, <1>9 DEF SessionEncrypted
<1>12. /\ Z \in SessionType
       /\ Z.ratchet = r
       /\ Z.received_message = S.received_message
       /\ Z.alice_identity_key = S.alice_identity_key
       /\ Z.alice_base_key = S.alice_base_key
       /\ Z.bob_one_time_key = S.bob_one_time_key
  BY <1>6, <1>10, <1>11 DEF SessionType
<1>13. Becomes(p, s, Z, end) /\ Evolves(p, s, Z, end)
  BY <1>1, <1>4, <1>5, <1>10, <1>12, SameRole DEF Becomes, Evolves
<1>14. ChangesOnly(p, s, Z, end)
  BY <1>6, <1>12, <1>13, BecomesProperties
<1>15. IdsInv(p, s, Z, end)
  BY <1>6, <1>12 DEF IdsInv
<1>16. Secret(Z) = Secret(S) /\ HistoriesOf(Z) = HistoriesOf(S)
  BY <1>12 DEF Secret, HistoriesOf
<1>17. RatchetInv(p, s, Z, end, used)
  <2>1. ASSUME end = "alice", used = {}
        PROVE  /\ r.root_key = Secret(Z)
               /\ Len(r.sender_chain) = 1
               /\ r.sender_chain[1].chain_key.key = Secret(Z)
    <3>1. /\ S.ratchet.root_key = Secret(S)
          /\ Len(S.ratchet.sender_chain) = 1
          /\ S.ratchet.sender_chain[1].chain_key.key = Secret(S)
      BY <1>6, <2>1 DEF RatchetInv
    <3>2. PICK a : a = S.ratchet
      OBVIOUS
    <3>3. /\ r.root_key = a.root_key
          /\ Len(r.sender_chain) = 1
          /\ r.sender_chain[1].chain_key.key = a.sender_chain[1].chain_key.key
      BY <1>6, <1>8, <1>9, <3>1, <3>2, EncryptedFirstChain
    <3>. QED
      BY <1>16, <3>1, <3>2, <3>3
  <2>2. S.received_message => used # {}
    BY <1>6 DEF RatchetInv
  <2>. QED
    BY <1>10, <1>12, <1>16, <2>1, <2>2 DEF RatchetInv
<1>18. DeliveredIn(p, s)' = used
  BY <1>4, <1>5 DEF DeliveredIn
<1>19. OneSession(p)'
  BY <1>4, <1>12, <1>13, <1>14, OneSessionStays
<1>20. /\ m.message = body
       /\ m.type = "PRE_KEY" => /\ m.identity_key = S.alice_identity_key
                                /\ m.base_key = S.alice_base_key
                                /\ m.one_time_key = S.bob_one_time_key
       /\ m.type = "MESSAGE" => S.received_message
       /\ m \in PlainMessage \cup PreKeyMessage
  <2>1. m = SessionMessage(S, fresh, <<p, s>>)
    BY <1>1, <1>3 DEF NextMessage
  <2>2. CASE S.received_message
    <3>1. m = [type |-> "MESSAGE", message |-> body]
      BY <1>9, <2>1, <2>2 DEF SessionMessage, encrypt_message_type
    <3>. QED
      BY <1>10, <2>2, <3>1 DEF PlainMessage
  <2>3. CASE ~ S.received_message
    <3>1. m = [type |-> "PRE_KEY", version |-> PROTOCOL_VERSION, message |-> body,
               identity_key |-> S.alice_identity_key,
               base_key     |-> S.alice_base_key,
               one_time_key |-> S.bob_one_time_key]
      BY <1>9, <2>1, <2>3 DEF SessionMessage, encrypt_message_type
    <3>2. /\ S.alice_identity_key \in Key /\ S.alice_base_key \in Key
          /\ S.bob_one_time_key \in Key /\ PROTOCOL_VERSION \in Nat
      BY <1>6 DEF SessionType, PROTOCOL_VERSION
    <3>. QED
      BY <1>10, <3>1, <3>2 DEF PreKeyMessage
  <2>. QED
    BY <2>2, <2>3
<1>21. SentInv(m)'
  <2>1. m.message.plaintext[1] = p /\ m.message.plaintext[2] = s
    BY <1>10, <1>20
  <2>2. session'[p][s] = Z /\ Opened(p, s)'
    BY <1>6, <1>14 DEF ChangesOnly, Opened
  <2>3. BodyInv(m.message, p, s, Z)
    BY <1>10, <1>12, <1>16, <1>20 DEF BodyInv
  <2>4. m.type = "MESSAGE" => DeliveredIn(p, s)' # {}
    BY <1>6, <1>18, <1>20 DEF RatchetInv
  <2>. QED
    BY <1>12, <1>20, <2>1, <2>2, <2>3, <2>4 DEF SentInv, Slots
<1>22. /\ sent \subseteq sent' /\ sent' \subseteq PlainMessage \cup PreKeyMessage
       /\ \A x \in sent' \ sent : x = m
       /\ delivered' \in [Party -> SUBSET [slot : Nat, message : Body]]
       /\ \A u \in Party \ {p} : delivered'[u] = delivered[u]
       /\ delivered[p] \subseteq delivered'[p]
       /\ delivered'[p] \ delivered[p] = {}
  BY <1>4, <1>20 DEF StateType
<1>23. \A x \in sent' \ sent : SentInv(x)'
  BY <1>21, <1>22
<1>24. Z.bob_one_time_key \in UploadedKeys /\ RatchetInv(p, s, Z, end, DeliveredIn(p, s)')
  BY <1>6, <1>12, <1>17, <1>18
<1>. QED
  BY <1>4, <1>6, <1>12, <1>13, <1>15, <1>19, <1>22, <1>23, <1>24, SessionStep

(***************************************************************************)
(* Who wrote what a session reads.                                         *)
(***************************************************************************)
(* The secret of a session names its three keys, and so the session. *)
LEMMA SecretNamesSession ==
  ASSUME NEW p \in Party, NEW s, NEW S, NEW end, IdsInv(p, s, S, end),
         NEW q \in Party, NEW t, NEW Z, NEW other, IdsInv(q, t, Z, other),
         s \in Nat, t \in Nat, Secret(S) = Secret(Z)
  PROVE  /\ S.alice_identity_key = Z.alice_identity_key
         /\ S.alice_base_key = Z.alice_base_key
         /\ S.bob_one_time_key = Z.bob_one_time_key
<1>1. PICK a, b, c, x, y, z :
        /\ a = S.alice_identity_key /\ b = S.alice_base_key /\ c = S.bob_one_time_key
        /\ x = Z.alice_identity_key /\ y = Z.alice_base_key /\ z = Z.bob_one_time_key
  OBVIOUS
<1>2. /\ \E u \in Party : a = IdentityKey(u)
      /\ \E u \in Party : x = IdentityKey(u)
      /\ \E u \in Party, n \in Nat : c = OneTimeKey(u, n)
      /\ \E u \in Party, n \in Nat : z = OneTimeKey(u, n)
  BY <1>1 DEF IdsInv
<1>3. b \in Bases /\ y \in Bases
  BY <1>1 DEF IdsInv, Bases
<1>4. PICK i, j : i = IdentityKey(Owner(c)) /\ j = IdentityKey(Owner(z))
  OBVIOUS
<1>5. {a, c} = {x, z} /\ {b, i} = {y, j}
  <2>1. << {a, c}, {b, i}, {b, c} >> = << {x, z}, {y, j}, {y, z} >>
    BY <1>1, <1>4 DEF Secret
  <2>. QED
    BY <2>1
<1>6. a # z /\ x # c
  BY <1>2, KeyNames
<1>7. a = x /\ c = z
  <2>1. a \in {x, z} /\ c \in {x, z}
    BY <1>5
  <2>. QED
    BY <1>6, <2>1
<1>8. b # j
  BY <1>3, <1>4, KeyNames DEF Bases, BaseKey, OneTimeKey, IdentityKey
<1>9. b = y
  <2>1. b \in {y, j}
    BY <1>5
  <2>. QED
    BY <1>8, <2>1
<1>. QED
  BY <1>1, <1>7, <1>9

(* Two ends with the same keys are one end, or the two ends of a session. *)
LEMMA SameKeys ==
  ASSUME StateType, SessionsInv,
         NEW p \in Party, NEW s \in Slots[p], Opened(p, s),
         NEW q \in Party, NEW t \in Slots[q], Opened(q, t),
         session_id(session[p][s]) = session_id(session[q][t])
  PROVE  (p = q /\ s = t) \/ OtherEnd(p, s, q, t)
<1>1. PICK S, Z : S = session[p][s] /\ Z = session[q][t]
  OBVIOUS
<1>2. /\ S.alice_identity_key = Z.alice_identity_key
      /\ S.alice_base_key = Z.alice_base_key
      /\ S.bob_one_time_key = Z.bob_one_time_key
  BY <1>1 DEF session_id
<1>3. IdsInv(p, s, S, role[p][s]) /\ IdsInv(q, t, Z, role[q][t])
  BY <1>1, OpenSession
<1>4. CASE role[p][s] = "alice" /\ role[q][t] = "alice"
  <2>1. IdentityKey(p) = IdentityKey(q) /\ BaseKey(p, s) = BaseKey(q, t)
    BY <1>2, <1>3, <1>4 DEF IdsInv
  <2>. QED
    BY <2>1, KeyNames
<1>5. CASE role[p][s] = "bob" /\ role[q][t] = "bob"
  <2>1. p = q
    BY <1>2, <1>3, <1>5 DEF IdsInv
  <2>2. OneSession(p)
    BY DEF SessionsInv
  <2>. QED
    BY <1>1, <1>2, <1>5, <2>1, <2>2 DEF OneSession
<1>6. CASE role[p][s] # role[q][t]
  <2>1. p # q
    BY <1>2, <1>3, <1>6 DEF IdsInv
  <2>. QED
    BY <1>6, <2>1 DEF OtherEnd
<1>. QED
  BY <1>3, <1>4, <1>5, <1>6 DEF IdsInv

(* The key that verifies a message was derived from the session's secret,  *)
(* and the session did not send the message itself.                        *)
LEMMA ReadKeys ==
  ASSUME NEW p, NEW s, NEW S \in SessionType, NEW end, NEW used,
         RatchetInv(p, s, S, end, used),
         NEW m \in Body, CanDecrypt(S.ratchet, m)
  PROVE  /\ From(m.key.key, Secret(S))
         /\ ~ BodyInv(m, p, s, S)
<1>1. PICK r, H, mine, theirs : /\ r = S.ratchet /\ H = HistoriesOf(S) /\ mine = OwnKeys(p, s)
                                /\ theirs = Key \ OwnKeys(p, s)
  OBVIOUS
<1>2. /\ r \in Ratchets(Key) /\ WithinBounds(r) /\ Keeps(r, H, mine, theirs) /\ Grows(H, Key)
  BY <1>1, HistoriesGrow DEF SessionType, RatchetInv
<1>3. m \in Messages(Key, Place)
  BY DEF Body
<1>4. PICK n, k : n = Len(m.key.key) /\ k = Len(r.root_key)
  OBVIOUS
<1>5. n \in Nat /\ k \in Nat
  <2>1. m.key.key \in Histories(Key) /\ r.root_key \in Histories(Key)
    BY <1>2, <1>3 DEF Messages, MessageKeys, ChainKeys, Ratchets
  <2>. QED
    BY <1>4, <2>1, LenProperties DEF Histories
<1>6. CASE VerifiesOnNewChain(r, m)
  <2>1. m.key.key \in H
    BY <1>2, <1>3, <1>6, NewChainKey
  <2>2. Len(m.key.key) > Len(r.root_key)
    BY <1>2, <1>3, <1>6, NewChainKey
  <2>3. n > k
    BY <1>4, <2>2
  <2>4. ~ (n <= k)
    BY <1>5, <2>3
  <2>. QED
    BY <1>1, <1>4, <2>1, <2>4 DEF HistoriesOf, BodyInv
<1>7. CASE VerifiesOnExistingChain(r, m)
  <2>1. PICK z : z = DecryptedOnExistingChain(r, m)
    OBVIOUS
  <2>2. m.key.key \in H
    BY <1>2, <1>3, <1>7, <2>1, ExistingChainKeeps
  <2>3. m.ratchet_key \in theirs
    BY <1>2, <1>3, <1>7, <2>1, ExistingChainKeeps
  <2>. QED
    BY <1>1, <2>2, <2>3 DEF HistoriesOf, BodyInv
<1>8. CASE VerifiesWithSkippedKey(r, m)
  <2>1. PICK z : z = DecryptedWithSkippedKey(r, m)
    OBVIOUS
  <2>2. m.key.key \in H
    BY <1>2, <1>3, <1>8, <2>1, SkippedKeyKeeps
  <2>3. m.ratchet_key \in theirs
    BY <1>2, <1>3, <1>8, <2>1, SkippedKeyKeeps
  <2>. QED
    BY <1>1, <2>2, <2>3 DEF HistoriesOf, BodyInv
<1>. QED
  BY <1>1, <1>6, <1>7, <1>8 DEF CanDecrypt

(* What a session can decrypt was encrypted at its other end. *)
LEMMA Reads ==
  ASSUME StateType, SessionsInv,
         NEW p \in Party, NEW s \in Slots[p], Opened(p, s),
         NEW m \in Body, CanDecrypt(session[p][s].ratchet, m),
         (\E x \in sent : x.message = m) \/ m.key.key = << {} >>
  PROVE  /\ \E x \in sent : x.message = m
         /\ OtherEnd(p, s, m.plaintext[1], m.plaintext[2])
         /\ m.ratchet_key \in Key \ OwnKeys(p, s)
<1>1. PICK S : S = session[p][s]
  OBVIOUS
<1>2. /\ S \in SessionType
      /\ IdsInv(p, s, S, role[p][s])
      /\ RatchetInv(p, s, S, role[p][s], DeliveredIn(p, s))
  BY <1>1, OpenSession
<1>3. From(m.key.key, Secret(S)) /\ ~ BodyInv(m, p, s, S)
  BY <1>1, <1>2, ReadKeys
<1>4. m.key.key # << {} >>
  <2>1. PICK n : n = Len(m.key.key)
    OBVIOUS
  <2>2. n >= 3
    BY <1>3, <2>1 DEF From
  <2>3. m.key.key = << {} >> => n = 1
    BY <2>1
  <2>4. n # 1
    BY <2>2
  <2>. QED
    BY <2>3, <2>4
<1>5. PICK x \in sent : x.message = m
  BY <1>4
<1>6. SentInv(x)
  BY DEF SessionsInv
<1>7. PICK q, t : q = m.plaintext[1] /\ t = m.plaintext[2]
  OBVIOUS
<1>8. q \in Party /\ t \in Slots[q] /\ Opened(q, t)
  BY <1>5, <1>6, <1>7, Origin, ZenonT(30) DEF SentInv
<1>9. PICK Z : Z = session[q][t]
  OBVIOUS
<1>10. BodyInv(m, q, t, Z)
  BY <1>5, <1>6, <1>7, <1>9 DEF SentInv
<1>11. IdsInv(q, t, Z, role[q][t])
  BY <1>8, <1>9, OpenSession
<1>12. Secret(S) = Secret(Z)
  <2>1. From(m.key.key, Secret(Z))
    BY <1>10 DEF BodyInv
  <2>2. /\ Secret(S)[1] = Secret(Z)[1] /\ Secret(S)[2] = Secret(Z)[2]
        /\ Secret(S)[3] = Secret(Z)[3]
    BY <1>3, <2>1 DEF From
  <2>3. ASSUME NEW W
        PROVE  Secret(W) = << Secret(W)[1], Secret(W)[2], Secret(W)[3] >>
    BY DEF Secret
  <2>. QED
    BY <2>2, <2>3
<1>13. s \in Nat /\ t \in Nat
  BY <1>8, BoundsTypes DEF StateType
<1>14. session_id(S) = session_id(Z)
  <2>1. PICK end, other : end = role[p][s] /\ other = role[q][t]
    OBVIOUS
  <2>2. IdsInv(p, s, S, end) /\ IdsInv(q, t, Z, other)
    BY <1>2, <1>11, <2>1
  <2>3. /\ S.alice_identity_key = Z.alice_identity_key
        /\ S.alice_base_key = Z.alice_base_key
        /\ S.bob_one_time_key = Z.bob_one_time_key
    BY <1>8, <1>12, <1>13, <2>2, SecretNamesSession
  <2>. QED
    BY <2>3 DEF session_id
<1>15. ~ (p = q /\ s = t)
  BY <1>1, <1>3, <1>9, <1>10
<1>16. OtherEnd(p, s, q, t)
  BY <1>1, <1>8, <1>9, <1>14, <1>15, SameKeys
<1>17. m.ratchet_key \in OwnKeys(q, t) /\ m.ratchet_key \in Key
  BY <1>10 DEF BodyInv, Body, Messages
<1>18. m.ratchet_key \notin OwnKeys(p, s)
  BY <1>15, <1>17, KeyNames DEF OwnKeys
<1>. QED
  BY <1>5, <1>7, <1>16, <1>17, <1>18

(***************************************************************************)
(* decrypt.                                                                *)
(***************************************************************************)
(* The ratchet of a session after it decrypted m. *)
LEMMA DecryptedRatchet ==
  ASSUME NEW p, NEW s, NEW S \in SessionType, NEW end, NEW used \in SUBSET Body,
         RatchetInv(p, s, S, end, used),
         NEW m \in Body, CanDecrypt(S.ratchet, m), m.ratchet_key \in Key \ OwnKeys(p, s),
         NEW r, r = DecryptedBy(S.ratchet, m)
  PROVE  /\ r \in Ratchets(Key)
         /\ WithinBounds(r)
         /\ ReplaySafe(r, used \cup {m})
         /\ Keeps(r, HistoriesOf(S), OwnKeys(p, s), Key \ OwnKeys(p, s))
         /\ Len(r.root_key) >= Len(S.ratchet.root_key)
<1>1. PICK a, H, mine, theirs : /\ a = S.ratchet /\ H = HistoriesOf(S) /\ mine = OwnKeys(p, s)
                                /\ theirs = Key \ OwnKeys(p, s)
  OBVIOUS
<1>2. /\ a \in Ratchets(Key) /\ WithinBounds(a) /\ Keeps(a, H, mine, theirs) /\ Grows(H, Key)
      /\ ReplaySafe(a, used)
  BY <1>1, HistoriesGrow DEF SessionType, RatchetInv
<1>3. m \in Messages(Key, Place) /\ used \in SUBSET Messages(Key, Place)
      /\ m.ratchet_key \in theirs
  BY <1>1 DEF Body
<1>4. PICK n : n = Len(a.root_key)
  OBVIOUS
<1>5. n \in Nat
  BY <1>2, <1>4, LenProperties DEF Ratchets, Histories
<1>6. CASE VerifiesOnNewChain(a, m)
  <2>1. r = DecryptedOnNewChain(a, m)
    BY <1>1, <1>6 DEF DecryptedBy
  <2>2. /\ r \in Ratchets(Key) /\ WithinBounds(r)
        /\ ReplaySafe(a, used) => ReplaySafe(r, used \cup {m})
    BY <1>2, <1>3, <1>6, <2>1, NewChainUsed
  <2>3. Keeps(r, H, mine, theirs)
    BY <1>2, <1>3, <1>6, <2>1, NewChainKeeps
  <2>4. Len(r.root_key) > Len(a.root_key)
    BY <1>2, <1>3, <1>6, <2>1, NewChainRoot
  <2>5. Len(r.root_key) >= n
    <3>1. PICK k : k = Len(r.root_key)
      OBVIOUS
    <3>2. k \in Nat
      BY <2>2, <3>1, LenProperties DEF Ratchets, Histories
    <3>3. k > n
      BY <1>4, <2>4, <3>1
    <3>. QED
      BY <1>5, <3>1, <3>2, <3>3
  <2>. QED
    BY <1>1, <1>2, <1>4, <2>2, <2>3, <2>5
<1>7. CASE ~ VerifiesOnNewChain(a, m) /\ VerifiesOnExistingChain(a, m)
  <2>1. r = DecryptedOnExistingChain(a, m)
    BY <1>1, <1>7 DEF DecryptedBy
  <2>2. /\ r \in Ratchets(Key) /\ WithinBounds(r)
        /\ ReplaySafe(a, used) => ReplaySafe(r, used \cup {m})
    BY <1>2, <1>3, <1>7, <2>1, ExistingChainUsed
  <2>3. Keeps(r, H, mine, theirs)
    BY <1>2, <1>3, <1>7, <2>1, ExistingChainKeeps
  <2>4. Len(r.root_key) >= n
    <3>1. r.root_key = a.root_key
      <4>1. PICK i : i = ReceiverChain(a, m)
        OBVIOUS
      <4>2. PICK new : new = m.counter - a.receiver_chains[i].chain_key.index
        OBVIOUS
      <4>3. r = DecryptedOnChain(a, i, m) /\ Verified(a, i, m)
        BY <1>2, <1>3, <1>7, <2>1, <4>1, ExistingChainVerified DEF DecryptedOnExistingChain
      <4>4. OnChain(a, i, m, r, new)
        BY <1>2, <1>3, <4>2, <4>3, DecryptedOnChainProperties
      <4>. QED
        BY <4>4 DEF OnChain
    <3>. QED
      BY <1>4, <1>5, <3>1
  <2>. QED
    BY <1>1, <1>2, <1>4, <2>2, <2>3, <2>4
<1>8. CASE ~ VerifiesOnNewChain(a, m) /\ ~ VerifiesOnExistingChain(a, m)
  <2>0. VerifiesWithSkippedKey(a, m)
    BY <1>1, <1>8 DEF CanDecrypt
  <2>1. r = DecryptedWithSkippedKey(a, m)
    BY <1>1, <1>8 DEF DecryptedBy
  <2>2. /\ r \in Ratchets(Key) /\ WithinBounds(r)
        /\ ReplaySafe(a, used) => ReplaySafe(r, used \cup {m})
    BY <1>2, <1>3, <2>0, <2>1, SkippedKeyUsed
  <2>3. Keeps(r, H, mine, theirs)
    BY <1>2, <1>3, <2>0, <2>1, SkippedKeyKeeps
  <2>4. Len(r.root_key) >= n
    BY <1>2, <1>4, <1>5, <2>1 DEF DecryptedWithSkippedKey, Ratchets
  <2>. QED
    BY <1>1, <1>2, <1>4, <2>2, <2>3, <2>4
<1>. QED
  BY <1>6, <1>7, <1>8

LEMMA DecryptStep ==
  ASSUME StateType, SessionsInv, UNCHANGED bounds,
         NEW p \in Party, NEW s \in Slots[p], NEW m \in Arriving, Decrypt(p, s, m)
  PROVE  StateType' /\ SessionsInv'
<1>1. PICK S, body : S = session[p][s] /\ body = m.message
  OBVIOUS
<1>2. PICK Z : Z = SessionDecrypted(S, m)
  OBVIOUS
<1>3. PICK d : d = [slot |-> s, message |-> body]
  OBVIOUS
<1>4. /\ Opened(p, s)
      /\ CanDecrypt(S.ratchet, body)
      /\ session' = [session EXCEPT ![p][s] = Z]
      /\ delivered' = [delivered EXCEPT ![p] = @ \cup {d}]
      /\ UNCHANGED <<account, role, forgotten, uploaded, removed, sent>>
  BY <1>1, <1>2, <1>3 DEF Decrypt, Live, keyVars
<1>5. PICK end, used : end = role[p][s] /\ used = DeliveredIn(p, s)
  OBVIOUS
<1>6. /\ S \in SessionType
      /\ end \in {"alice", "bob"}
      /\ IdsInv(p, s, S, end)
      /\ RatchetInv(p, s, S, end, used)
      /\ S.bob_one_time_key \in UploadedKeys
      /\ used \in SUBSET Body
  BY <1>1, <1>4, <1>5, OpenSession
<1>7. s \in Nat
  BY BoundsTypes DEF StateType
<1>8. body \in Body /\ ((\E x \in sent : x.message = body) \/ body.key.key = << {} >>)
  BY <1>1, Arrived DEF ArrivingInv
<1>9. /\ \E x \in sent : x.message = body
      /\ OtherEnd(p, s, body.plaintext[1], body.plaintext[2])
      /\ body.ratchet_key \in Key \ OwnKeys(p, s)
  BY <1>1, <1>4, <1>8, Reads, SMTT(30)
<1>10. PICK r : r = DecryptedBy(S.ratchet, body)
  OBVIOUS
<1>11. /\ r \in Ratchets(Key)
       /\ WithinBounds(r)
       /\ ReplaySafe(r, used \cup {body})
       /\ Keeps(r, HistoriesOf(S), OwnKeys(p, s), Key \ OwnKeys(p, s))
       /\ Len(r.root_key) >= Len(S.ratchet.root_key)
  BY <1>4, <1>6, <1>8, <1>9, <1>10, DecryptedRatchet
<1>12. Z = [S EXCEPT !.ratchet = r, !.received_message = TRUE]
  BY <1>1, <1>2, <1>10 DEF SessionDecrypted
<1>13. /\ Z \in SessionType
       /\ Z.ratchet = r
       /\ Z.alice_identity_key = S.alice_identity_key
       /\ Z.alice_base_key = S.alice_base_key
       /\ Z.bob_one_time_key = S.bob_one_time_key
  BY <1>6, <1>11, <1>12 DEF SessionType
<1>14. Becomes(p, s, Z, end) /\ Evolves(p, s, Z, end)
  BY <1>1, <1>4, <1>5, <1>11, <1>13, SameRole DEF Becomes, Evolves
<1>15. ChangesOnly(p, s, Z, end)
  BY <1>6, <1>13, <1>14, BecomesProperties
<1>16. IdsInv(p, s, Z, end)
  BY <1>6, <1>13 DEF IdsInv
<1>17. delivered'[p] = delivered[p] \cup {d}
  BY <1>4 DEF StateType
<1>18. DeliveredIn(p, s)' = used \cup {body}
  BY <1>3, <1>5, <1>17 DEF DeliveredIn
<1>19. RatchetInv(p, s, Z, end, DeliveredIn(p, s)')
  <2>1. HistoriesOf(Z) = HistoriesOf(S)
    BY <1>13 DEF HistoriesOf, Secret
  <2>2. used \cup {body} # {}
    OBVIOUS
  <2>. QED
    BY <1>11, <1>13, <1>18, <2>1, <2>2 DEF RatchetInv
<1>20. OneSession(p)'
  BY <1>4, <1>13, <1>14, <1>15, OneSessionStays
<1>21. d \in [slot : Nat, message : Body]
  BY <1>3, <1>7, <1>8
<1>22. /\ sent \subseteq sent' /\ sent' \subseteq PlainMessage \cup PreKeyMessage
       /\ sent' \ sent = {}
       /\ delivered' \in [Party -> SUBSET [slot : Nat, message : Body]]
       /\ \A u \in Party \ {p} : delivered'[u] = delivered[u]
       /\ delivered[p] \subseteq delivered'[p]
  BY <1>4, <1>17, <1>21 DEF StateType
<1>23. ASSUME NEW e \in delivered'[p] \ delivered[p]
       PROVE  /\ e.slot = s
              /\ \E x \in sent : x.message = e.message
              /\ OtherEnd(p, s, e.message.plaintext[1], e.message.plaintext[2])'
  <2>1. e = d
    BY <1>17, <1>23
  <2>2. e.slot = s /\ e.message = body
    BY <1>3, <2>1
  <2>3. PICK q, t : q = body.plaintext[1] /\ t = body.plaintext[2]
    OBVIOUS
  <2>4. q \in Party /\ t \in Slots[q]
    <3>1. PICK x \in sent : x.message = body
      BY <1>9
    <3>2. SentInv(x)
      BY DEF SessionsInv
    <3>. QED
      BY <2>3, <3>1, <3>2, Origin
  <2>5. OtherEnd(p, s, q, t)
    BY <1>9, <2>3
  <2>6. OtherEnd(p, s, q, t)'
    BY <1>14, <1>15, <2>4, <2>5, OtherEndStays
  <2>. QED
    BY <1>9, <2>2, <2>3, <2>6
<1>24. Z.bob_one_time_key \in UploadedKeys
  BY <1>6, <1>13
<1>. QED
  BY <1>4, <1>6, <1>13, <1>14, <1>16, <1>19, <1>20, <1>22, <1>23, <1>24, SessionStep

(***************************************************************************)
(* The theorems.                                                           *)
(***************************************************************************)
LEMMA NextKeeps ==
  ASSUME StateType, SessionsInv, [Next]_vars
  PROVE  StateType' /\ SessionsInv'
<1>1. CASE UNCHANGED vars
  <2>1. UNCHANGED <<bounds, account, session, role, forgotten, uploaded, claimed, removed, sent, delivered>>
    BY <1>1 DEF vars
  <2>2. StateType'
    BY <2>1 DEF StateType, Slots
  <2>3. ASSUME NEW p \in Party
        PROVE  /\ AccountInv(p)'
               /\ \A s \in Slots'[p] : SlotInv(p, s)'
               /\ ForgottenInv(p)'
               /\ OneSession(p)'
               /\ DeliveredInv(p)'
    <3>1. /\ AccountInv(p)
          /\ \A s \in Slots[p] : SlotInv(p, s)
          /\ ForgottenInv(p)
          /\ OneSession(p)
          /\ DeliveredInv(p)
      BY DEF SessionsInv
    <3>2. AccountInv(p)'
      BY <2>1, <3>1 DEF AccountInv, MaxKeys
    <3>3. \A s \in Slots'[p] : SlotInv(p, s)'
      BY <2>1, <3>1 DEF SlotInv, Opened, DeliveredIn, UploadedKeys, Slots
    <3>4. ForgottenInv(p)'
      BY <2>1, <3>1 DEF ForgottenInv, Opened, Slots
    <3>5. OneSession(p)' /\ DeliveredInv(p)'
      BY <2>1, <3>1 DEF OneSession, DeliveredInv, OtherEnd, Opened, Slots
    <3>. QED
      BY <3>2, <3>3, <3>4, <3>5
  <2>4. ASSUME NEW m \in sent
        PROVE  SentInv(m)'
    <3>1. SentInv(m)
      BY DEF SessionsInv
    <3>. QED
      BY <2>1, <3>1, ZenonT(30) DEF SentInv, Opened, DeliveredIn, Slots
  <2>. QED
    BY <2>1, <2>2, <2>3, <2>4 DEF SessionsInv
<1>2. CASE Next
  <2>0. UNCHANGED bounds
    BY <1>2 DEF Next
  <2>1. PICK p \in Party :
          \/ \E n \in 1..2 : GenerateOneTimeKeys(p, n)
          \/ GenerateOneTimeKeysFails(p)
          \/ Upload(p)
          \/ MarkKeysAsPublished(p)
          \/ \E s \in Slots[p] :
               \/ \E q \in Party \ {p} : \E k \in uploaded[q] : CreateOutbound(p, s, q, k)
               \/ \E m \in Arriving, from \in Senders :
                    \/ CreateInbound(p, s, from, m)
                    \/ CreateInboundRefused(p, s, from, m)
                    \/ CreateInboundFails(p, s, from, m)
               \/ RemoveOneTimeKeys(p, s)
               \/ RemoveOneTimeKeysFails(p, s)
               \/ Forget(p, s)
               \/ Encrypt(p, s)
               \/ \E m \in Arriving : Decrypt(p, s, m)
               \/ \E error : CreateUnready(p, s, error) \/ SessionCallFails(p, s, error)
    BY <1>2 DEF Next, PartyActs
  <2>2. ASSUME NEW n \in 1..2, GenerateOneTimeKeys(p, n)
        PROVE  StateType' /\ SessionsInv'
    BY <2>0, <2>2, GenerateStep
  <2>3. CASE GenerateOneTimeKeysFails(p)
    <3>1. "NOT_ENOUGH_RANDOM" \in SessionError
      BY DEF SessionError, Error
    <3>2. /\ account' = [account EXCEPT ![p] = AccountFailed(@, "NOT_ENOUGH_RANDOM")]
          /\ UNCHANGED <<session, role, forgotten, uploaded, removed, sent, delivered>>
      BY <2>3 DEF GenerateOneTimeKeysFails, keyVars, messageVars
    <3>. QED
      BY <2>0, <3>1, <3>2, AccountFailedStep
  <2>4. CASE Upload(p)
    BY <2>0, <2>4, UploadStep
  <2>5. CASE MarkKeysAsPublished(p)
    BY <2>0, <2>5, MarkStep
  <2>6. ASSUME NEW s \in Slots[p], RemoveOneTimeKeysFails(p, s)
        PROVE  StateType' /\ SessionsInv'
    <3>1. "BAD_MESSAGE_KEY_ID" \in SessionError
      BY DEF SessionError
    <3>2. /\ account' = [account EXCEPT ![p] = AccountFailed(@, "BAD_MESSAGE_KEY_ID")]
          /\ UNCHANGED <<session, role, forgotten, uploaded, removed, sent, delivered>>
      BY <2>6 DEF RemoveOneTimeKeysFails, keyVars, messageVars
    <3>. QED
      BY <2>0, <3>1, <3>2, AccountFailedStep
  <2>7. ASSUME NEW s \in Slots[p], NEW q \in Party \ {p}, NEW k \in uploaded[q],
               CreateOutbound(p, s, q, k)
        PROVE  StateType' /\ SessionsInv'
    BY <2>0, <2>7, CreateOutboundStep
  <2>8. ASSUME NEW s \in Slots[p], NEW m \in Arriving, NEW from,
               \/ CreateInbound(p, s, from, m)
               \/ CreateInboundRefused(p, s, from, m)
               \/ CreateInboundFails(p, s, from, m)
        PROVE  StateType' /\ SessionsInv'
    BY <2>0, <2>8, CreateInboundStep, CreateInboundRefusedStep, CreateInboundFailsStep
  <2>9. ASSUME NEW s \in Slots[p],
               RemoveOneTimeKeys(p, s) \/ Forget(p, s) \/ Encrypt(p, s)
        PROVE  StateType' /\ SessionsInv'
    BY <2>0, <2>9, RemoveStep, ForgetStep, EncryptStep
  <2>10. ASSUME NEW s \in Slots[p], NEW m \in Arriving, Decrypt(p, s, m)
         PROVE  StateType' /\ SessionsInv'
    BY <2>0, <2>10, DecryptStep
  <2>11. ASSUME NEW s \in Slots[p], NEW error,
                CreateUnready(p, s, error) \/ SessionCallFails(p, s, error)
         PROVE  StateType' /\ SessionsInv'
    BY <2>0, <2>11, CreateUnreadyStep, SessionCallFailsStep
  <2>. QED
    BY <2>1, <2>2, <2>3, <2>4, <2>5, <2>6, <2>7, <2>8, <2>9, <2>10, <2>11
<1>. QED
  BY <1>1, <1>2

(* The keys of accounts and sessions, and what was said with them, stay    *)
(* together: whatever arrives, each session has one other end at most, and *)
(* holds only keys that its own secret is part of.                         *)
THEOREM SessionsInvariant == Spec => [](StateType /\ SessionsInv)
<1>1. Init => StateType /\ SessionsInv
  BY InitHolds
<1>2. (StateType /\ SessionsInv) /\ [Next]_vars => (StateType /\ SessionsInv)'
  BY NextKeeps
<1>. QED
  BY <1>1, <1>2, PTL DEF Spec

(* The list of one-time keys and the lists of each ratchet never outgrow   *)
(* their storage, and an open session always has a key to answer with.     *)
THEOREM TypeCorrect == Spec => []TypeOK
<1>1. ASSUME StateType, SessionsInv
      PROVE  TypeOK
  <2>1. ASSUME NEW p \in Party
        PROVE  /\ Len(account[p].one_time_keys) <= MAX_ONE_TIME_KEYS
               /\ \A i, j \in DOMAIN account[p].one_time_keys :
                    i < j => account[p].one_time_keys[i].id > account[p].one_time_keys[j].id
               /\ account[p].next_one_time_key_id \in 0..MaxKeys[p]
               /\ \A k \in uploaded[p] : k.id \in 1..account[p].next_one_time_key_id
               /\ removed[p] \subseteq { k.key : k \in uploaded[p] }
               /\ forgotten[p] \subseteq { s \in Slots[p] : Opened(p, s) }
    <3>1. AccountInv(p) /\ ForgottenInv(p) /\ account[p] \in AccountType
      BY <1>1 DEF SessionsInv, StateType
    <3>2. PICK list : list = account[p].one_time_keys
      OBVIOUS
    <3>3. DOMAIN list = 1..Len(list)
      BY <3>1, <3>2 DEF AccountType
    <3>4. /\ Len(list) <= MAX_ONE_TIME_KEYS
          /\ \A i, j \in DOMAIN list : i < j => list[i].id > list[j].id
      BY <3>1, <3>2, <3>3 DEF AccountInv, ListInv
    <3>5. account[p].next_one_time_key_id \in 0..MaxKeys[p]
      <4>1. MaxKeys[p] \in Nat
        BY <1>1, BoundsTypes DEF StateType
      <4>. QED
        BY <3>1, <4>1 DEF AccountInv, AccountType
    <3>. QED
      BY <3>1, <3>2, <3>4, <3>5 DEF AccountInv, ForgottenInv
  <2>2. ASSUME NEW p \in Party, NEW s \in Slots[p], NEW r, r = session[p][s].ratchet
        PROVE  /\ role[p][s] \in {"none", "alice", "bob"}
               /\ Len(r.sender_chain) <= 1
               /\ Len(r.receiver_chains) <= MAX_RECEIVER_CHAINS
               /\ Len(r.skipped_message_keys) <= MAX_SKIPPED_MESSAGE_KEYS
               /\ Opened(p, s) => r.sender_chain # << >> \/ r.receiver_chains # << >>
    <3>1. role[p][s] \in {"none", "alice", "bob"} /\ SlotInv(p, s)
      BY <1>1 DEF StateType, SessionsInv
    <3>2. CASE Opened(p, s)
      BY <2>2, <3>1, <3>2 DEF SlotInv, RatchetInv, WithinBounds
    <3>3. CASE ~ Opened(p, s)
      <4>1. r = new_ratchet
        BY <2>2, <3>1, <3>3 DEF SlotInv
      <4>2. PICK n : n = Len(<< >>)
        OBVIOUS
      <4>3. n = 0
        BY <4>2
      <4>4. n <= 1 /\ n <= MAX_RECEIVER_CHAINS /\ n <= MAX_SKIPPED_MESSAGE_KEYS
        BY <4>3, RatchetConstants
      <4>5. /\ Len(r.sender_chain) = n /\ Len(r.receiver_chains) = n
            /\ Len(r.skipped_message_keys) = n
        BY <4>1, <4>2 DEF new_ratchet
      <4>. QED
        BY <3>1, <3>3, <4>4, <4>5
    <3>. QED
      BY <3>2, <3>3
  <2>. QED
    BY <2>1, <2>2 DEF TypeOK
<1>. QED
  BY <1>1, SessionsInvariant, PTL

(* A key that was published works until it is removed, or until            *)
(* MAX_ONE_TIME_KEYS newer ones were generated, whatever the limit.        *)
THEOREM PublishedKeysWorkHolds == Spec => []PublishedKeysWork
<1>1. ASSUME StateType, SessionsInv
      PROVE  PublishedKeysWork
  <2>1. SUFFICES ASSUME NEW p \in Party, NEW k \in uploaded[p]
                 PROVE  \/ lookup_key(account[p], k.key)
                        \/ k.key \in removed[p]
                        \/ account[p].next_one_time_key_id - k.id >= MAX_ONE_TIME_KEYS
    BY DEF PublishedKeysWork
  <2>2. AccountInv(p) /\ account[p] \in AccountType
    BY <1>1 DEF SessionsInv, StateType
  <2>3. PICK list, next, id : /\ list = account[p].one_time_keys
                              /\ next = account[p].next_one_time_key_id
                              /\ id = k.id
    OBVIOUS
  <2>4. id \in 1..next /\ k.key = OneTimeKey(p, id)
    BY <2>2, <2>3 DEF AccountInv
  <2>5. \/ \E i \in 1..Len(list) : list[i].id = id
        \/ OneTimeKey(p, id) \in removed[p]
        \/ next - id >= MAX_ONE_TIME_KEYS
    BY <2>2, <2>3, <2>4 DEF AccountInv, KeysInv
  <2>6. ASSUME NEW i \in 1..Len(list), list[i].id = id
        PROVE  lookup_key(account[p], k.key)
    <3>1. list[i].key = k.key
      BY <2>2, <2>3, <2>4, <2>6 DEF AccountInv, ListInv
    <3>. QED
      BY <2>2, <2>3, <3>1 DEF lookup_key, EntriesFor, AccountType
  <2>. QED
    BY <2>3, <2>4, <2>5, <2>6
<1>. QED
  BY <1>1, SessionsInvariant, PTL

(* What a session decrypts was encrypted at its other end, whatever the    *)
(* header of the message said.                                             *)
THEOREM DeliveredInItsSessionHolds == Spec => []DeliveredInItsSession
<1>1. SessionsInv => DeliveredInItsSession
  BY DEF SessionsInv, DeliveredInv, DeliveredInItsSession
<1>. QED
  BY <1>1, SessionsInvariant, PTL

(* A message is decrypted once, in one session of a party, however many    *)
(* sessions were opened with copies of it.                                 *)
THEOREM NoReplayInAnySessionHolds == Spec => []NoReplayInAnySession
<1>1. ASSUME StateType, SessionsInv, NEW p \in Party, NEW s \in Slots[p], NEW t \in Slots[p],
             NEW q \in Party, NEW u \in Slots[q], OtherEnd(p, s, q, u), OtherEnd(p, t, q, u)
      PROVE  s = t
  <2>1. /\ Opened(p, s) /\ Opened(p, t)
        /\ session_id(session[p][s]) = session_id(session[p][t])
    BY <1>1 DEF OtherEnd
  <2>2. (p = p /\ s = t) \/ OtherEnd(p, s, p, t)
    BY <1>1, <2>1, SameKeys
  <2>. QED
    BY <2>2 DEF OtherEnd
<1>2. ASSUME StateType, SessionsInv, NEW p \in Party, NEW d \in delivered[p]
      PROVE  /\ d.slot \in Slots[p]
             /\ d.message \in Body
             /\ d.message \in DeliveredIn(p, d.slot)
             /\ \E x \in sent : x.message = d.message
             /\ d.message.plaintext[1] \in Party
             /\ d.message.plaintext[2] \in Slots[d.message.plaintext[1]]
             /\ OtherEnd(p, d.slot, d.message.plaintext[1], d.message.plaintext[2])
  <2>1. /\ d.slot \in Slots[p]
        /\ \E x \in sent : x.message = d.message
        /\ OtherEnd(p, d.slot, d.message.plaintext[1], d.message.plaintext[2])
    BY <1>2 DEF SessionsInv, DeliveredInv
  <2>2. PICK x \in sent : x.message = d.message
    BY <2>1
  <2>3. SentInv(x)
    BY <1>2 DEF SessionsInv
  <2>4. /\ d.message \in Body
        /\ d.message.plaintext[1] \in Party
        /\ d.message.plaintext[2] \in Slots[d.message.plaintext[1]]
    BY <1>2, <2>2, <2>3, Origin
  <2>5. d.message \in DeliveredIn(p, d.slot)
    BY DEF DeliveredIn
  <2>. QED
    BY <2>1, <2>4, <2>5
<1>3. ASSUME StateType, SessionsInv
      PROVE  NoReplayInAnySession
  <2>1. SUFFICES ASSUME NEW p \in Party, NEW d \in delivered[p]
                 PROVE  /\ \A e \in delivered[p] : e.message = d.message => e.slot = d.slot
                        /\ \A s \in Slots[p] :
                             Live(p, s) => ~ CanDecrypt(session[p][s].ratchet, d.message)
    BY DEF NoReplayInAnySession
  <2>2. PICK q, u, m : /\ m = d.message
                       /\ q = m.plaintext[1]
                       /\ u = m.plaintext[2]
    OBVIOUS
  <2>3. /\ d.slot \in Slots[p] /\ m \in Body /\ m \in DeliveredIn(p, d.slot)
        /\ \E x \in sent : x.message = m
        /\ q \in Party /\ u \in Slots[q] /\ OtherEnd(p, d.slot, q, u)
    BY <1>2, <1>3, <2>2
  <2>4. ASSUME NEW e \in delivered[p], e.message = m
        PROVE  e.slot = d.slot
    <3>1. e.slot \in Slots[p] /\ OtherEnd(p, e.slot, q, u)
      BY <1>2, <1>3, <2>2, <2>4
    <3>. QED
      BY <1>1, <1>3, <2>3, <3>1
  <2>5. ASSUME NEW s \in Slots[p], Live(p, s), CanDecrypt(session[p][s].ratchet, m)
        PROVE  FALSE
    <3>1. Opened(p, s)
      BY <2>5 DEF Live
    <3>2. OtherEnd(p, s, q, u)
      BY <1>3, <2>2, <2>3, <2>5, <3>1, Reads
    <3>3. s = d.slot
      BY <1>1, <1>3, <2>3, <3>2
    <3>4. PICK r, used : r = session[p][s].ratchet /\ used = DeliveredIn(p, s)
      OBVIOUS
    <3>5. /\ r \in Ratchets(Key) /\ WithinBounds(r) /\ ReplaySafe(r, used)
          /\ used \in SUBSET Messages(Key, Place)
          /\ m \in used
      BY <1>3, <2>3, <3>1, <3>3, <3>4, OpenSession DEF RatchetInv, Body
    <3>6. ~ CanDecrypt(r, m)
      BY <3>5, ReplaySafeRejects
    <3>. QED
      BY <2>5, <3>4, <3>6
  <2>. QED
    BY <2>2, <2>4, <2>5
<1>. QED
  BY <1>3, SessionsInvariant, PTL

(* A message that leaves out the set-up has an other end to go to. *)
THEOREM MessagesFindTheirSessionHolds == Spec => []MessagesFindTheirSession
<1>1. ASSUME StateType, SessionsInv
      PROVE  MessagesFindTheirSession
  <2>1. SUFFICES ASSUME NEW m \in sent, m.type = "MESSAGE"
                 PROVE  \E e \in Ends : OtherEnd(m.message.plaintext[1], m.message.plaintext[2],
                                                 e[1], e[2])
    BY DEF MessagesFindTheirSession
  <2>2. PICK p, s : p = m.message.plaintext[1] /\ s = m.message.plaintext[2]
    OBVIOUS
  <2>3. SentInv(m)
    BY <1>1 DEF SessionsInv
  <2>4. p \in Party /\ s \in Slots[p] /\ DeliveredIn(p, s) # {}
    BY <1>1, <2>1, <2>2, <2>3, Origin, ZenonT(30) DEF SentInv
  <2>5. PICK d \in delivered[p] : d.slot = s
    BY <2>4 DEF DeliveredIn
  <2>6. PICK q, t : q = d.message.plaintext[1] /\ t = d.message.plaintext[2]
    OBVIOUS
  <2>7. OtherEnd(p, s, q, t) /\ q \in Party /\ t \in Slots[q]
    <3>1. /\ \E x \in sent : x.message = d.message
          /\ OtherEnd(p, s, q, t)
      BY <1>1, <2>4, <2>5, <2>6 DEF SessionsInv, DeliveredInv
    <3>2. PICK x \in sent : x.message = d.message
      BY <3>1
    <3>3. SentInv(x)
      BY <1>1 DEF SessionsInv
    <3>4. q \in Party /\ t \in Slots[q]
      BY <1>1, <2>6, <3>2, <3>3, Origin
    <3>. QED
      BY <3>1, <3>4
  <2>8. PICK e : e = <<q, t>>
    OBVIOUS
  <2>9. e \in Ends /\ e[1] = q /\ e[2] = t
    BY <2>7, <2>8 DEF Ends
  <2>. QED
    BY <2>2, <2>7, <2>9
<1>. QED
  BY <1>1, SessionsInvariant, PTL

(* What Alice sends before she has read anything. *)
LEMMA FirstMessage ==
  ASSUME StateType, SessionsInv,
         NEW p \in Party, NEW s \in Slots[p], Opened(p, s), role[p][s] = "alice",
         DeliveredIn(p, s) = {},
         NEW S, S = session[p][s], NEW m, m = NextMessage(p, s)
  PROVE  /\ m.type = "PRE_KEY"
         /\ m.identity_key = S.alice_identity_key
         /\ m.base_key = S.alice_base_key
         /\ m.one_time_key = S.bob_one_time_key
         /\ m.message \in Body
         /\ m.message.key = [key |-> Secret(S), index |-> m.message.counter]
<1>1. /\ S \in SessionType
      /\ S.ratchet \in Ratchets(Key)
      /\ WithinBounds(S.ratchet)
      /\ RatchetInv(p, s, S, role[p][s], DeliveredIn(p, s))
  BY OpenSession
<1>2. /\ ~ S.received_message
      /\ S.ratchet.root_key = Secret(S)
      /\ Len(S.ratchet.sender_chain) = 1
      /\ S.ratchet.sender_chain[1].chain_key.key = Secret(S)
  BY <1>1 DEF RatchetInv
<1>3. PICK a, fresh, place : a = S.ratchet /\ fresh = FreshKey(p, s) /\ place = <<p, s>>
  OBVIOUS
<1>4. s \in Nat
  BY BoundsTypes DEF StateType
<1>5. fresh \in Key /\ place \in Place
  <2>1. Len(a.root_key) \in Nat
    BY <1>1, <1>3, LenProperties DEF Ratchets, Histories
  <2>2. fresh = RatchetKeyOf(p, s, Len(a.root_key))
    BY <1>3 DEF FreshKey
  <2>. QED
    BY <1>3, <1>4, <2>1, <2>2, KeyTypes DEF Place
<1>6. PICK body : body = EncryptedMessage(a, fresh, place)
  OBVIOUS
<1>7. m = [type |-> "PRE_KEY", version |-> PROTOCOL_VERSION, message |-> body,
           identity_key |-> S.alice_identity_key,
           base_key     |-> S.alice_base_key,
           one_time_key |-> S.bob_one_time_key]
  BY <1>2, <1>3, <1>6 DEF NextMessage, SessionMessage, encrypt_message_type
<1>8. PICK chain : chain = WithSenderChain(a, fresh).sender_chain[1]
  OBVIOUS
<1>9. WithSenderChain(a, fresh) = a
  <2>1. a.sender_chain # << >>
    BY <1>2, <1>3
  <2>. QED
    BY <2>1 DEF WithSenderChain
<1>10. chain.chain_key.key = Secret(S)
  BY <1>2, <1>3, <1>8, <1>9
<1>11. /\ body \in Messages(Key, Place)
       /\ body.counter = chain.chain_key.index
       /\ body.key = chain.chain_key
  BY <1>1, <1>3, <1>5, <1>6, <1>8, EncryptedMessageProperties
<1>12. body.key = [key |-> Secret(S), index |-> body.counter]
  <2>1. body.key \in MessageKeys(Key)
    BY <1>11 DEF Messages
  <2>2. body.key = [key |-> body.key.key, index |-> body.key.index]
    BY <2>1 DEF MessageKeys, ChainKeys
  <2>3. body.key.key = Secret(S) /\ body.key.index = body.counter
    BY <1>10, <1>11
  <2>. QED
    BY <2>2, <2>3
<1>. QED
  BY <1>7, <1>11, <1>12 DEF Body

(* Whatever Alice sent before and whatever was lost, her next message      *)
(* opens a session of Bob's that reads it, while he has the one-time key.  *)
THEOREM FirstContactWorksHolds == Spec => []FirstContactWorks
<1>1. ASSUME StateType, SessionsInv,
             NEW p \in Party, NEW s \in Slots[p],
             NEW S, S = session[p][s], NEW m, m = NextMessage(p, s),
             NEW q, q = Owner(S.bob_one_time_key),
             NEW opened, opened = new_inbound_session(new_session, m, account[q].identity_key),
             Live(p, s), role[p][s] = "alice",
             m.message.counter <= MAX_MESSAGE_GAP,
             \A t \in Slots[q] : ~ OtherEnd(p, s, q, t)
      PROVE  m.type = "PRE_KEY" /\ CanDecrypt(opened.ratchet, m.message)
  <2>1. Opened(p, s)
    BY <1>1 DEF Live
  <2>2. /\ S \in SessionType
        /\ IdsInv(p, s, S, "alice")
    BY <1>1, <2>1, OpenSession
  <2>3. q \in Party
    <3>1. PICK u \in Party, n \in Nat : S.bob_one_time_key = OneTimeKey(u, n)
      BY <2>2 DEF IdsInv
    <3>. QED
      BY <1>1, <3>1, KeyOwners
  <2>4. DeliveredIn(p, s) = {}
    <3>1. SUFFICES ASSUME NEW d \in delivered[p], d.slot = s
                   PROVE  FALSE
      BY DEF DeliveredIn
    <3>2. PICK u, t : u = d.message.plaintext[1] /\ t = d.message.plaintext[2]
      OBVIOUS
    <3>3. /\ \E x \in sent : x.message = d.message
          /\ OtherEnd(p, s, u, t)
      BY <1>1, <3>1, <3>2 DEF SessionsInv, DeliveredInv
    <3>4. PICK x \in sent : x.message = d.message
      BY <3>3
    <3>5. SentInv(x)
      BY <1>1 DEF SessionsInv
    <3>6. u \in Party /\ t \in Slots[u]
      BY <1>1, <3>2, <3>4, <3>5, Origin
    <3>7. Opened(u, t) /\ role[u][t] # "alice"
          /\ session[u][t].bob_one_time_key = S.bob_one_time_key
      BY <1>1, <3>3 DEF OtherEnd, session_id
    <3>8. PICK Z : Z = session[u][t]
      OBVIOUS
    <3>9. IdsInv(u, t, Z, role[u][t])
      BY <1>1, <3>6, <3>7, <3>8, OpenSession
    <3>10. Owner(S.bob_one_time_key) = u
      BY <3>7, <3>8, <3>9 DEF IdsInv
    <3>. QED
      BY <1>1, <3>3, <3>6, <3>10
  <2>5. /\ m.type = "PRE_KEY"
        /\ m.identity_key = S.alice_identity_key
        /\ m.base_key = S.alice_base_key
        /\ m.one_time_key = S.bob_one_time_key
        /\ m.message \in Body
        /\ m.message.key = [key |-> Secret(S), index |-> m.message.counter]
    BY <1>1, <2>1, <2>4, FirstMessage
  <2>6. PICK secret, body, r : /\ secret = Secret(S)
                               /\ body = m.message
                               /\ r = initialise_as_bob(secret, body.ratchet_key)
    OBVIOUS
  <2>7. opened.ratchet = r
    <3>1. account[q].identity_key = IdentityKey(q)
      BY <1>1, <2>3 DEF SessionsInv, AccountInv
    <3>2. PICK W : W = WithMessageKeys(new_session, m)
      OBVIOUS
    <3>3. "ratchet" \in DOMAIN W
      BY <3>2 DEF WithMessageKeys, new_session
    <3>4. << {m.one_time_key, m.identity_key}, {IdentityKey(q), m.base_key},
             {m.one_time_key, m.base_key} >> = secret
      <4>1. secret = << {S.alice_identity_key, S.bob_one_time_key},
                        {S.alice_base_key, IdentityKey(q)},
                        {S.alice_base_key, S.bob_one_time_key} >>
        BY <1>1, <2>6 DEF Secret
      <4>2. /\ {m.one_time_key, m.identity_key} = {S.alice_identity_key, S.bob_one_time_key}
            /\ {IdentityKey(q), m.base_key} = {S.alice_base_key, IdentityKey(q)}
            /\ {m.one_time_key, m.base_key} = {S.alice_base_key, S.bob_one_time_key}
        BY <2>5
      <4>. QED
        BY <4>1, <4>2
    <3>5. opened = [W EXCEPT !.ratchet = r]
      BY <1>1, <2>6, <3>1, <3>2, <3>4 DEF new_inbound_session, SharedSecret
    <3>. QED
      BY <3>3, <3>5
  <2>8. secret \in Histories(Key)
    <3>1. /\ S.alice_identity_key \in Key /\ S.alice_base_key \in Key
          /\ S.bob_one_time_key \in Key
      BY <2>2 DEF SessionType
    <3>. QED
      BY <1>1, <2>3, <2>6, <3>1, SecretIsHistory
  <2>9. /\ body \in Messages(Key, Place)
        /\ body.key = [key |-> secret, index |-> body.counter]
        /\ body.counter <= MAX_MESSAGE_GAP
    BY <1>1, <2>5, <2>6 DEF Body
  <2>10. CanDecrypt(r, body)
    BY <2>6, <2>8, <2>9, BobReads
  <2>. QED
    BY <2>5, <2>6, <2>7, <2>10
<1>2. ASSUME StateType, SessionsInv
      PROVE  FirstContactWorks
  <2>1. ASSUME NEW e \in Ends
        PROVE  e[1] \in Party /\ e[2] \in Slots[e[1]]
    BY DEF Ends
  <2>. QED
    BY <1>1, <1>2, <2>1, SMTT(30) DEF FirstContactWorks
<1>. QED
  BY <1>2, SessionsInvariant, PTL



(***************************************************************************)
(* Conversations.  A secret is a history of three, Alice sends on the      *)
(* chains of odd length, and the pair that an end makes for a chain is     *)
(* numbered by the length of the history before it; Alice's first pair is  *)
(* made before there is one.                                               *)
(***************************************************************************)
FirstKey(p, s) == RatchetKeyOf(p, s, 0)

TurnKeys(p, s, q, t) ==
  [n \in Nat |-> LET i == IF n = 3 THEN 0 ELSE n - 1
                 IN  IF n % 2 = 1 THEN RatchetKeyOf(p, s, i) ELSE RatchetKeyOf(q, t, i)]

TurnsFrom(secret, p, s, q, t) ==
  [base |-> 3,
   ends |-> {"alice", "bob"},
   turn |-> [n \in Nat |-> IF n % 2 = 1 THEN "alice" ELSE "bob"],
   key  |-> TurnKeys(p, s, q, t),
   root |-> RootsFrom(secret, TurnKeys(p, s, q, t))]

(* The histories that a conversation may start from. *)
Secrets == { h \in Histories(Key) : Len(h) = 3 }

LEMMA TurnsAre ==
  ASSUME NEW p \in Party, NEW q \in Party, p # q, NEW s \in Nat, NEW t \in Nat,
         NEW secret \in Secrets,
         NEW T, T = TurnsFrom(secret, p, s, q, t)
  PROVE  /\ IsTurns(T, Key)
         /\ T.base = 3 /\ T.ends = {"alice", "bob"}
         /\ T.turn[3] = "alice" /\ T.key[3] = FirstKey(p, s) /\ T.root[3] = secret
         /\ \A n \in Nat : n >= 3 =>
              /\ T.turn[n] # "alice" => T.key[n + 1] = RatchetKeyOf(p, s, n)
              /\ T.turn[n] # "bob" => T.key[n + 1] = RatchetKeyOf(q, t, n)
<1>1. PICK key, root : key = TurnKeys(p, s, q, t) /\ root = RootsFrom(secret, key)
  OBVIOUS
<1>2. PICK turn : turn = [n \in Nat |-> IF n % 2 = 1 THEN "alice" ELSE "bob"]
  OBVIOUS
<1>3. T = [base |-> 3, ends |-> {"alice", "bob"}, turn |-> turn, key |-> key, root |-> root]
  BY <1>1, <1>2 DEF TurnsFrom
<1>4. /\ T.base = 3 /\ T.ends = {"alice", "bob"}
      /\ T.turn = turn /\ T.key = key /\ T.root = root
  BY <1>3
<1>5. PICK at : at = [n \in Nat |-> IF n = 3 THEN 0 ELSE n - 1]
  OBVIOUS
<1>6. ASSUME NEW n \in Nat
      PROVE  /\ turn[n] = "alice" <=> (n % 2 = 1)
             /\ turn[n] = "bob" <=> (n % 2 # 1)
             /\ turn[n] \in {"alice", "bob"}
  BY <1>2
<1>7. ASSUME NEW n \in Nat
      PROVE  key[n] = IF turn[n] = "alice" THEN RatchetKeyOf(p, s, at[n]) ELSE RatchetKeyOf(q, t, at[n])
  <2>1. key[n] = IF n % 2 = 1 THEN RatchetKeyOf(p, s, IF n = 3 THEN 0 ELSE n - 1)
                 ELSE RatchetKeyOf(q, t, IF n = 3 THEN 0 ELSE n - 1)
    BY <1>1 DEF TurnKeys
  <2>2. at[n] = IF n = 3 THEN 0 ELSE n - 1
    BY <1>5
  <2>. QED
    BY <1>6, <2>1, <2>2
<1>8. ASSUME NEW n \in Nat, n >= 3
      PROVE  at[n] \in Nat /\ at[n + 1] = n
  BY <1>5, <1>8
<1>9. ASSUME NEW n \in Nat, NEW k \in Nat, n >= 3, k >= 3, at[n] = at[k]
      PROVE  n = k
  BY <1>5, <1>9
<1>10. turn[3] = "alice"
  <2>1. 3 % 2 = 1
    OBVIOUS
  <2>. QED
    BY <1>6, <2>1
<1>11. ASSUME NEW n \in Nat, NEW end \in {"alice", "bob"}
       PROVE  turn[n + 1] = end <=> turn[n] # end
  <2>1. ((n + 1) % 2 = 1) <=> (n % 2 # 1)
    OBVIOUS
  <2>2. n + 1 \in Nat
    OBVIOUS
  <2>. QED
    BY <1>6, <2>1, <2>2, Zenon
<1>12. ASSUME NEW n \in Nat, n >= 3
       PROVE  key[n] \in Key
  <2>1. RatchetKeyOf(p, s, at[n]) \in Key /\ RatchetKeyOf(q, t, at[n]) \in Key
    BY <1>8, <1>12, KeyTypes
  <2>. QED
    BY <1>7, <2>1
<1>13. ASSUME NEW n \in Nat, NEW k \in Nat, n >= 3, k >= 3, key[n] = key[k]
       PROVE  n = k
  <2>1. at[n] = at[k]
    <3>1. \A u, v, i, j : RatchetKeyOf(p, u, i) # RatchetKeyOf(q, v, j)
      BY DEF RatchetKeyOf
    <3>2. \A x, u, i, j : RatchetKeyOf(x, u, i) = RatchetKeyOf(x, u, j) => i = j
      BY DEF RatchetKeyOf
    <3>3. PICK i, j : i = at[n] /\ j = at[k]
      OBVIOUS
    <3>4. /\ key[n] = RatchetKeyOf(p, s, i) \/ key[n] = RatchetKeyOf(q, t, i)
          /\ key[k] = RatchetKeyOf(p, s, j) \/ key[k] = RatchetKeyOf(q, t, j)
      BY <1>7, <3>3
    <3>5. \/ RatchetKeyOf(p, s, i) = RatchetKeyOf(p, s, j)
          \/ RatchetKeyOf(q, t, i) = RatchetKeyOf(q, t, j)
      BY <1>13, <3>1, <3>4
    <3>. QED
      BY <3>2, <3>3, <3>5
  <2>. QED
    BY <1>9, <1>13, <2>1
<1>14. /\ root[3] = secret
       /\ \A n \in Nat : n >= 3 =>
            /\ root[n] \in Histories(Key)
            /\ Len(root[n]) = n
            /\ Append(root[n], {key[n], key[n + 1]}) = root[n + 1]
  <2>1. secret \in Histories(Key)
    BY DEF Secrets
  <2>2. \A n \in Nat : n >= Len(secret) => key[n] \in Key
    BY <1>12 DEF Secrets
  <2>3. RootsFrom(secret, key)[Len(secret)] = secret
    BY <2>1, <2>2, RootsFromSecret
  <2>4. \A n \in Nat : n >= Len(secret) =>
          /\ RootsFrom(secret, key)[n] \in Histories(Key)
          /\ Len(RootsFrom(secret, key)[n]) = n
          /\ Append(RootsFrom(secret, key)[n], {key[n], key[n + 1]})
               = RootsFrom(secret, key)[n + 1]
    BY <2>1, <2>2, RootsFromSecret
  <2>. QED
    BY <1>1, <2>3, <2>4 DEF Secrets
<1>15. IsTurns(T, Key)
  <2>1. T.base \in Nat
    BY <1>4
  <2>2. /\ \A n \in Nat : T.turn[n] \in T.ends
        /\ \A n \in Nat : \A end \in T.ends : T.turn[n + 1] = end <=> T.turn[n] # end
    BY <1>4, <1>6, <1>11, Zenon
  <2>3. \A n \in Nat : n >= T.base =>
          /\ T.key[n] \in Key
          /\ T.root[n] \in Histories(Key)
          /\ Len(T.root[n]) = n
          /\ Append(T.root[n], {T.key[n], T.key[n + 1]}) = T.root[n + 1]
    BY <1>4, <1>12, <1>14, Zenon
  <2>4. \A n, k \in Nat : n >= T.base /\ k >= T.base /\ T.key[n] = T.key[k] => n = k
    BY <1>4, <1>13, Zenon
  <2>. QED
    BY <2>1, <2>2, <2>3, <2>4 DEF IsTurns
<1>16. T.key[3] = FirstKey(p, s)
  <2>1. at[3] = 0
    BY <1>5
  <2>. QED
    BY <1>4, <1>7, <1>10, <2>1 DEF FirstKey
<1>17. ASSUME NEW n \in Nat, n >= 3
       PROVE  /\ T.turn[n] # "alice" => T.key[n + 1] = RatchetKeyOf(p, s, n)
              /\ T.turn[n] # "bob" => T.key[n + 1] = RatchetKeyOf(q, t, n)
  <2>1. n + 1 \in Nat
    OBVIOUS
  <2>2. turn[n + 1] = "alice" <=> turn[n] # "alice"
    BY <1>11, Zenon
  <2>3. key[n + 1] = IF turn[n + 1] = "alice" THEN RatchetKeyOf(p, s, n) ELSE RatchetKeyOf(q, t, n)
    BY <1>7, <1>8, <1>17, <2>1
  <2>. QED
    BY <1>4, <1>6, <2>2, <2>3
<1>. QED
  BY <1>4, <1>10, <1>14, <1>15, <1>16, <1>17

(***************************************************************************)
(* The two ends of a session.                                              *)
(***************************************************************************)
SentIn(p, s) == { m.message : m \in { x \in sent : x.message.plaintext = <<p, s>> } }

(* Until Alice has read something, she is as she began. *)
AloneAt(p, s) ==
  role[p][s] = "alice" /\ DeliveredIn(p, s) = {} =>
    Alone(session[p][s].ratchet, Secret(session[p][s]), FirstKey(p, s), SentIn(p, s))

TogetherAt(p, s, q, t) ==
  Together(TurnsFrom(Secret(session[p][s]), p, s, q, t), Key,
           session[p][s].ratchet, "alice", SentIn(p, s),
           session[q][t].ratchet, "bob", SentIn(q, t))

(* The message that made Bob's end had another ratchet key in its header,  *)
(* and neither has read anything since.                                    *)
AstrayAt(p, s, q, t) ==
  /\ DeliveredIn(p, s) = {}
  /\ DeliveredIn(q, t) = {}
  /\ Astray(Key, session[q][t].ratchet, Secret(session[p][s]), FirstKey(p, s),
            OwnKeys(q, t), SentIn(q, t))

PairAt(p, s, q, t) ==
  role[p][s] = "alice" /\ OtherEnd(p, s, q, t) =>
    TogetherAt(p, s, q, t) \/ AstrayAt(p, s, q, t)

(* A base key that a session names is that of an end that began one. *)
BaseInv(p, s, q, t) ==
  Opened(p, s) /\ session[p][s].alice_base_key = BaseKey(q, t) => role[q][t] = "alice"

ConversationsInv ==
  \A p \in Party : \A s \in Slots[p] :
    /\ AloneAt(p, s)
    /\ \A q \in Party : \A t \in Slots[q] : PairAt(p, s, q, t) /\ BaseInv(p, s, q, t)

LEMMA SameSecret ==
  ASSUME NEW S, NEW Z, session_id(S) = session_id(Z)
  PROVE  Secret(S) = Secret(Z)
BY DEF session_id, Secret

LEMMA SentTypes ==
  ASSUME StateType, NEW p, NEW s
  PROVE  SentIn(p, s) \in SUBSET Body
BY DEF StateType, SentIn, PlainMessage, PreKeyMessage

(* Types of an end. *)
LEMMA EndTypes ==
  ASSUME StateType, SessionsInv, NEW p \in Party, NEW s \in Slots[p], Opened(p, s)
  PROVE  /\ s \in Nat
         /\ session[p][s] \in SessionType
         /\ session[p][s].ratchet \in Ratchets(Key)
         /\ WithinBounds(session[p][s].ratchet)
         /\ Secret(session[p][s]) \in Secrets
         /\ SentIn(p, s) \in SUBSET Messages(Key, Place)
         /\ DeliveredIn(p, s) \in SUBSET Messages(Key, Place)
         /\ OwnKeys(p, s) \in SUBSET Key
         /\ <<p, s>> \in Place
         /\ FirstKey(p, s) \in Key
<1>1. PICK S : S = session[p][s]
  OBVIOUS
<1>2. /\ S \in SessionType /\ S.ratchet \in Ratchets(Key) /\ WithinBounds(S.ratchet)
      /\ S.bob_one_time_key \in UploadedKeys
      /\ DeliveredIn(p, s) \in SUBSET Body
  BY <1>1, OpenSession
<1>3. s \in Nat
  BY BoundsTypes DEF StateType
<1>4. Secret(S) \in Secrets
  <2>1. PICK q \in Party, n \in Nat : S.bob_one_time_key = OneTimeKey(q, n)
    BY <1>2, KnownKeys
  <2>2. Owner(S.bob_one_time_key) = q
    BY <2>1, KeyOwners
  <2>3. S.alice_identity_key \in Key /\ S.alice_base_key \in Key /\ S.bob_one_time_key \in Key
    BY <1>2 DEF SessionType
  <2>4. Secret(S) \in Histories(Key)
    BY <2>2, <2>3, SecretIsHistory
  <2>5. Len(Secret(S)) = 3
    BY DEF Secret
  <2>. QED
    BY <2>4, <2>5 DEF Secrets
<1>5. OwnKeys(p, s) \in SUBSET Key /\ FirstKey(p, s) \in Key
  BY <1>3, KeyTypes DEF OwnKeys, FirstKey
<1>6. SentIn(p, s) \in SUBSET Body
  BY SentTypes
<1>. QED
  BY <1>1, <1>2, <1>3, <1>4, <1>5, <1>6 DEF Body, Place

(* Nothing was sent in a slot that is not open. *)
LEMMA NothingSent ==
  ASSUME SessionsInv, NEW p, NEW s, ~ Opened(p, s)
  PROVE  SentIn(p, s) = {}
<1>1. ASSUME NEW x \in sent, x.message.plaintext = <<p, s>>
      PROVE  FALSE
  <2>1. SentInv(x)
    BY DEF SessionsInv
  <2>2. x.message.plaintext[1] = p /\ x.message.plaintext[2] = s
    BY <1>1
  <2>3. Opened(x.message.plaintext[1], x.message.plaintext[2])
    BY <2>1 DEF SentInv
  <2>. QED
    BY <2>2, <2>3
<1>. QED
  BY <1>1 DEF SentIn

(* A step that leaves an end as it is, or records an error in it. *)
Rests(p, s) ==
  /\ role'[p][s] = role[p][s]
  /\ Opened(p, s) =>
       /\ session_id(session'[p][s]) = session_id(session[p][s])
       /\ SameButError(session[p][s].ratchet, session'[p][s].ratchet)
       /\ SentIn(p, s)' = SentIn(p, s)
       /\ DeliveredIn(p, s)' = DeliveredIn(p, s)

LEMMA AloneRests ==
  ASSUME NEW p, NEW s, AloneAt(p, s), Rests(p, s)
  PROVE  AloneAt(p, s)'
<1>. SUFFICES ASSUME role'[p][s] = "alice", DeliveredIn(p, s)' = {}
              PROVE  Alone(session[p][s].ratchet, Secret(session[p][s]), FirstKey(p, s),
                           SentIn(p, s))'
  BY DEF AloneAt
<1>1. role[p][s] = "alice"
  BY DEF Rests
<1>2. Opened(p, s)
  BY <1>1 DEF Opened
<1>3. PICK r, w, secret, M : /\ r = session[p][s].ratchet /\ w = session'[p][s].ratchet
                             /\ secret = Secret(session[p][s]) /\ M = SentIn(p, s)
  OBVIOUS
<1>4. SameButError(r, w) /\ M = SentIn(p, s)' /\ DeliveredIn(p, s) = {}
  BY <1>2, <1>3 DEF Rests
<1>5. secret = Secret(session'[p][s])
  BY <1>2, <1>3, SameSecret DEF Rests
<1>6. Alone(r, secret, FirstKey(p, s), M)
  BY <1>1, <1>3, <1>4 DEF AloneAt
<1>7. Alone(w, secret, FirstKey(p, s), M)
  BY <1>4, <1>6, SameAlone
<1>8. Alone(w, secret, FirstKey(p, s), M) =
        Alone(session[p][s].ratchet, Secret(session[p][s]), FirstKey(p, s), SentIn(p, s))'
  BY <1>3, <1>4, <1>5 DEF Alone, Fresh, NextCounter, FirstKey, RatchetKeyOf
<1>. QED
  BY <1>7, <1>8

LEMMA BaseRests ==
  ASSUME NEW p, NEW s, NEW q, NEW t, BaseInv(p, s, q, t), Rests(p, s), Rests(q, t)
  PROVE  BaseInv(p, s, q, t)'
<1>. SUFFICES ASSUME Opened(p, s)', session'[p][s].alice_base_key = BaseKey(q, t)
              PROVE  role'[q][t] = "alice"
  BY DEF BaseInv, BaseKey
<1>1. Opened(p, s)
  BY DEF Rests, Opened
<1>2. session'[p][s].alice_base_key = session[p][s].alice_base_key
  BY <1>1 DEF Rests, session_id
<1>. QED
  BY <1>1, <1>2 DEF BaseInv, Rests

LEMMA PairRests ==
  ASSUME StateType', UNCHANGED bounds,
         NEW p \in Party, NEW s \in Slots[p], NEW q \in Party, NEW t \in Slots[q],
         PairAt(p, s, q, t), Rests(p, s), Rests(q, t)
  PROVE  PairAt(p, s, q, t)'
<1>. SUFFICES ASSUME role'[p][s] = "alice", OtherEnd(p, s, q, t)'
              PROVE  TogetherAt(p, s, q, t)' \/ AstrayAt(p, s, q, t)'
  BY DEF PairAt
<1>1. role[p][s] = "alice" /\ role[q][t] = role'[q][t]
  BY DEF Rests
<1>2. Opened(p, s) /\ Opened(q, t)
  BY <1>1 DEF OtherEnd, Opened
<1>3. OtherEnd(p, s, q, t)
  BY <1>1, <1>2 DEF Rests, OtherEnd, Opened
<1>4. PICK r, w, M, secret : /\ r = session[p][s].ratchet /\ w = session'[p][s].ratchet
                             /\ M = SentIn(p, s) /\ secret = Secret(session[p][s])
  OBVIOUS
<1>5. PICK peer, new, N : /\ peer = session[q][t].ratchet /\ new = session'[q][t].ratchet
                          /\ N = SentIn(q, t)
  OBVIOUS
<1>6. /\ SameButError(r, w) /\ M = SentIn(p, s)' /\ secret = Secret(session'[p][s])
      /\ SameButError(peer, new) /\ N = SentIn(q, t)'
      /\ DeliveredIn(p, s)' = DeliveredIn(p, s)
      /\ DeliveredIn(q, t)' = DeliveredIn(q, t)
  BY <1>2, <1>4, <1>5, SameSecret DEF Rests
<1>7. w \in Ratchets(Key) /\ new \in Ratchets(Key)
  <2>1. session'[p][s] \in SessionType /\ session'[q][t] \in SessionType
    BY DEF StateType, Slots
  <2>. QED
    BY <1>4, <1>5, <2>1 DEF SessionType
<1>8. CASE TogetherAt(p, s, q, t)
  <2>1. PICK T : T = TurnsFrom(secret, p, s, q, t)
    OBVIOUS
  <2>2. Together(T, Key, r, "alice", M, peer, "bob", N)
    BY <1>4, <1>5, <1>8, <2>1 DEF TogetherAt
  <2>3. Together(T, Key, w, "alice", M, peer, "bob", N)
    BY <1>6, <1>7, <2>2, SameTurns
  <2>4. Together(T, Key, peer, "bob", N, w, "alice", M)
    BY <2>3, TogetherSwaps
  <2>5. Together(T, Key, new, "bob", N, w, "alice", M)
    BY <1>6, <1>7, <2>4, SameTurns
  <2>6. Together(T, Key, w, "alice", M, new, "bob", N)
    BY <2>5, TogetherSwaps
  <2>7. TogetherAt(p, s, q, t)'
    BY <1>4, <1>5, <1>6, <2>1, <2>6 DEF TogetherAt
  <2>. QED
    BY <2>7
<1>9. CASE AstrayAt(p, s, q, t)
  <2>1. Astray(Key, peer, secret, FirstKey(p, s), OwnKeys(q, t), N)
    BY <1>4, <1>5, <1>9 DEF AstrayAt
  <2>2. Astray(Key, new, secret, FirstKey(p, s), OwnKeys(q, t), N)
    BY <1>6, <2>1, SameAstray
  <2>3. DeliveredIn(p, s)' = {} /\ DeliveredIn(q, t)' = {}
    BY <1>6, <1>9 DEF AstrayAt
  <2>4. AstrayAt(p, s, q, t)'
    BY <1>5, <1>6, <2>2, <2>3 DEF AstrayAt
  <2>. QED
    BY <2>4
<1>. QED
  BY <1>1, <1>3, <1>8, <1>9 DEF PairAt

(* The step that stores a session. *)
Stores(p, s, S) == session' = [session EXCEPT ![p][s] = S]

LEMMA OneEndChanges ==
  ASSUME StateType, NEW p \in Party, NEW s \in Slots[p], NEW S, Stores(p, s, S)
  PROVE  /\ session'[p][s] = S
         /\ \A q \in Party : \A t \in Slots[q] :
              q # p \/ t # s => session'[q][t] = session[q][t]
<1>1. /\ session = [q \in Party |-> session[q]]
      /\ session[p] = [t \in Slots[p] |-> session[p][t]]
  BY DEF StateType
<1>2. session' = [q \in Party |-> IF q = p THEN [session[p] EXCEPT ![s] = S] ELSE session[q]]
  BY <1>1 DEF Stores
<1>3. session'[p] = [session[p] EXCEPT ![s] = S] /\ \A q \in Party \ {p} : session'[q] = session[q]
  BY <1>2
<1>. QED
  BY <1>1, <1>3

LEMMA UntouchedRests ==
  ASSUME UNCHANGED <<role, sent, delivered>>, NEW p, NEW s, session'[p][s] = session[p][s]
  PROVE  Rests(p, s)
<1>1. SentIn(p, s)' = SentIn(p, s) /\ DeliveredIn(p, s)' = DeliveredIn(p, s)
  BY DEF SentIn, DeliveredIn
<1>. QED
  BY <1>1 DEF Rests, SameButError

(* The steps that say nothing. *)
LEMMA AllRest ==
  ASSUME StateType', UNCHANGED bounds, ConversationsInv,
         \A p \in Party : \A s \in Slots[p] : Rests(p, s)
  PROVE  ConversationsInv'
<1>1. Slots' = Slots
  BY DEF Slots
<1>2. ASSUME NEW p \in Party, NEW s \in Slots[p]
      PROVE  /\ AloneAt(p, s)'
             /\ \A q \in Party : \A t \in Slots[q] : PairAt(p, s, q, t)' /\ BaseInv(p, s, q, t)'
  <2>1. AloneAt(p, s)'
    BY AloneRests DEF ConversationsInv
  <2>2. ASSUME NEW q \in Party, NEW t \in Slots[q]
        PROVE  PairAt(p, s, q, t)' /\ BaseInv(p, s, q, t)'
    <3>1. PairAt(p, s, q, t) /\ BaseInv(p, s, q, t)
      BY DEF ConversationsInv
    <3>2. PairAt(p, s, q, t)'
      BY <3>1, PairRests
    <3>3. BaseInv(p, s, q, t)'
      BY <3>1, BaseRests
    <3>. QED
      BY <3>2, <3>3
  <2>. QED
    BY <2>1, <2>2
<1>. QED
  BY <1>1, <1>2 DEF ConversationsInv

LEMMA QuietStep ==
  ASSUME StateType', UNCHANGED bounds, ConversationsInv,
         UNCHANGED <<session, role, sent, delivered>>
  PROVE  ConversationsInv'
<1>1. \A p \in Party : \A s \in Slots[p] : Rests(p, s)
  BY UntouchedRests
<1>. QED
  BY <1>1, AllRest

(* A session that is not open, or one whose ratchet is the same. *)
LEMMA QuietSession ==
  ASSUME StateType, StateType', UNCHANGED bounds, ConversationsInv,
         UNCHANGED <<role, sent, delivered>>,
         NEW p \in Party, NEW s \in Slots[p], NEW S, Stores(p, s, S),
         Opened(p, s) => /\ session_id(S) = session_id(session[p][s])
                         /\ SameButError(session[p][s].ratchet, S.ratchet)
  PROVE  ConversationsInv'
<1>1. Rests(p, s)
  <2>1. session'[p][s] = S
    BY OneEndChanges
  <2>2. SentIn(p, s)' = SentIn(p, s) /\ DeliveredIn(p, s)' = DeliveredIn(p, s)
    BY DEF SentIn, DeliveredIn
  <2>. QED
    BY <2>1, <2>2 DEF Rests
<1>2. ASSUME NEW q \in Party, NEW t \in Slots[q], q # p \/ t # s
      PROVE  Rests(q, t)
  BY <1>2, OneEndChanges, UntouchedRests
<1>3. \A q \in Party : \A t \in Slots[q] : Rests(q, t)
  BY <1>1, <1>2
<1>. QED
  BY <1>3, AllRest

LEMMA UnopenedQuiet ==
  ASSUME StateType, StateType', UNCHANGED bounds, ConversationsInv,
         NEW p \in Party, NEW s \in Slots[p], NEW error, NEW from, NEW m,
         \/ CreateUnready(p, s, error)
         \/ CreateInboundRefused(p, s, from, m)
         \/ CreateInboundFails(p, s, from, m)
  PROVE  ConversationsInv'
<1>1. ~ Opened(p, s) /\ UNCHANGED <<role, sent, delivered>>
  BY DEF CreateUnready, CreateInboundRefused, CreateInboundFails, NextSlot, messageVars
<1>2. \E S : Stores(p, s, S)
  <2>1. CASE CreateUnready(p, s, error)
    BY <2>1 DEF CreateUnready, Stores
  <2>2. CASE CreateInboundRefused(p, s, from, m)
    BY <2>2 DEF CreateInboundRefused, Stores
  <2>3. CASE CreateInboundFails(p, s, from, m)
    BY <2>3 DEF CreateInboundFails, Stores
  <2>. QED
    BY <2>1, <2>2, <2>3
<1>. QED
  BY <1>1, <1>2, QuietSession

LEMMA FailedCallQuiet ==
  ASSUME StateType, StateType', UNCHANGED bounds, ConversationsInv,
         NEW p \in Party, NEW s \in Slots[p], NEW error, SessionCallFails(p, s, error)
  PROVE  ConversationsInv'
<1>1. PICK S, Z : S = session[p][s] /\ Z = SessionDecryptFailed(S, error)
  OBVIOUS
<1>2. Stores(p, s, Z) /\ UNCHANGED <<role, sent, delivered>>
  BY <1>1 DEF SessionCallFails, messageVars, Stores
<1>3. S \in SessionType /\ S.ratchet \in Ratchets(Key)
  BY <1>1 DEF StateType, SessionType
<1>4. PICK r : r = Failed(S.ratchet, "SUCCESS")
  OBVIOUS
<1>5. Z = [S EXCEPT !.last_error = error, !.ratchet = r]
  BY <1>1, <1>3, <1>4 DEF SessionDecryptFailed, Failed, SessionType
<1>6. SameButError(S.ratchet, r)
  BY <1>3, <1>4 DEF Failed, Ratchets, SameButError
<1>7. Z.ratchet = r /\ session_id(Z) = session_id(S)
  BY <1>3, <1>5 DEF SessionType, session_id
<1>. QED
  BY <1>1, <1>2, <1>6, <1>7, QuietSession

(* What the end (p, s) adds to ConversationsInv. *)
EndInv(p, s) ==
  /\ AloneAt(p, s)
  /\ \A q \in Party : \A t \in Slots[q] :
       /\ PairAt(p, s, q, t) /\ PairAt(q, t, p, s)
       /\ BaseInv(p, s, q, t) /\ BaseInv(q, t, p, s)

LEMMA OneActs ==
  ASSUME StateType', UNCHANGED bounds, ConversationsInv, NEW p \in Party, NEW s \in Slots[p],
         EndInv(p, s)',
         \A q \in Party : \A t \in Slots[q] : q # p \/ t # s => Rests(q, t)
  PROVE  ConversationsInv'
<1>1. Slots' = Slots
  BY DEF Slots
<1>2. ASSUME NEW q \in Party, NEW t \in Slots[q]
      PROVE  AloneAt(q, t)'
  <2>1. CASE q = p /\ t = s
    BY <2>1 DEF EndInv
  <2>2. CASE q # p \/ t # s
    BY <2>2, AloneRests DEF ConversationsInv
  <2>. QED
    BY <2>1, <2>2
<1>3. ASSUME NEW q \in Party, NEW t \in Slots[q], NEW u \in Party, NEW v \in Slots[u]
      PROVE  PairAt(q, t, u, v)' /\ BaseInv(q, t, u, v)'
  <2>1. CASE q = p /\ t = s
    BY <1>1, <2>1 DEF EndInv
  <2>2. CASE u = p /\ v = s
    BY <1>1, <2>2 DEF EndInv
  <2>3. CASE (q # p \/ t # s) /\ (u # p \/ v # s)
    <3>1. Rests(q, t) /\ Rests(u, v)
      BY <2>3
    <3>2. PairAt(q, t, u, v) /\ BaseInv(q, t, u, v)
      BY DEF ConversationsInv
    <3>3. PairAt(q, t, u, v)'
      BY <3>1, <3>2, PairRests
    <3>4. BaseInv(q, t, u, v)'
      BY <3>1, <3>2, BaseRests
    <3>. QED
      BY <3>3, <3>4
  <2>. QED
    BY <2>1, <2>2, <2>3
<1>. QED
  BY <1>1, <1>2, <1>3 DEF ConversationsInv

(* A session that goes on is the other end of the same ones, and names the *)
(* same base key.                                                          *)
GoesOn(p, s, S) ==
  /\ Stores(p, s, S)
  /\ UNCHANGED role
  /\ session_id(S) = session_id(session[p][s])

LEMMA IdsStay ==
  ASSUME StateType, NEW p \in Party, NEW s \in Slots[p], NEW S, GoesOn(p, s, S),
         NEW q \in Party, NEW t \in Slots[q]
  PROVE  /\ session_id(session'[q][t]) = session_id(session[q][t])
         /\ Secret(session'[q][t]) = Secret(session[q][t])
<1>1. /\ Stores(p, s, S)
      /\ session_id(S) = session_id(session[p][s])
  BY DEF GoesOn
<1>2. session_id(session'[q][t]) = session_id(session[q][t])
  <2>1. CASE q = p /\ t = s
    BY <1>1, <2>1, OneEndChanges
  <2>2. CASE q # p \/ t # s
    BY <1>1, <2>2, OneEndChanges
  <2>. QED
    BY <2>1, <2>2
<1>. QED
  BY <1>2, SameSecret

LEMMA EndsStay ==
  ASSUME StateType, NEW p \in Party, NEW s \in Slots[p], NEW S, GoesOn(p, s, S),
         NEW q \in Party, NEW t \in Slots[q], NEW u \in Party, NEW v \in Slots[u]
  PROVE  /\ OtherEnd(q, t, u, v)' => OtherEnd(q, t, u, v)
         /\ BaseInv(q, t, u, v) => BaseInv(q, t, u, v)'
<1>1. /\ session_id(session'[q][t]) = session_id(session[q][t])
      /\ session_id(session'[u][v]) = session_id(session[u][v])
      /\ UNCHANGED role
  BY IdsStay DEF GoesOn
<1>2. OtherEnd(q, t, u, v)' => OtherEnd(q, t, u, v)
  BY <1>1 DEF OtherEnd, Opened
<1>3. session'[q][t].alice_base_key = session[q][t].alice_base_key
  BY <1>1 DEF session_id
<1>4. BaseInv(q, t, u, v) => BaseInv(q, t, u, v)'
  BY <1>1, <1>3 DEF BaseInv, Opened, BaseKey
<1>. QED
  BY <1>2, <1>4

(* The pair that an end makes next is that of the next chain. *)
LEMMA FreshIsNext ==
  ASSUME NEW p \in Party, NEW q \in Party, p # q, NEW s \in Nat, NEW t \in Nat,
         NEW secret \in Secrets, NEW T, T = TurnsFrom(secret, p, s, q, t),
         NEW r, NEW M, NEW peer, NEW N, Together(T, Key, r, "alice", M, peer, "bob", N)
  PROVE  /\ NextPair(T, r, RatchetKeyOf(p, s, Len(r.root_key)))
         /\ NextPair(T, peer, RatchetKeyOf(q, t, Len(peer.root_key)))
<1>0. T.base = 3
  BY TurnsAre
<1>1. \A n \in Nat : n >= 3 =>
        /\ T.turn[n] # "alice" => T.key[n + 1] = RatchetKeyOf(p, s, n)
        /\ T.turn[n] # "bob" => T.key[n + 1] = RatchetKeyOf(q, t, n)
  BY TurnsAre
<1>2. TurnPair(T, Key, r, "alice", peer, "bob")
  BY DEF Together
<1>3. /\ Stage(r) \in Nat /\ Stage(r) >= T.base
      /\ r.sender_chain # << >> <=> T.turn[Stage(r)] = "alice"
  BY <1>2, PairStages
<1>4. /\ Stage(peer) \in Nat /\ Stage(peer) >= T.base
      /\ peer.sender_chain # << >> <=> T.turn[Stage(peer)] = "bob"
  BY <1>2, PairStages
<1>5. r.sender_chain = << >> => RatchetKeyOf(p, s, Stage(r)) = T.key[Stage(r) + 1]
  BY <1>0, <1>1, <1>3
<1>6. peer.sender_chain = << >> => RatchetKeyOf(q, t, Stage(peer)) = T.key[Stage(peer) + 1]
  BY <1>0, <1>1, <1>4
<1>. QED
  BY <1>5, <1>6 DEF NextPair, Stage

(***************************************************************************)
(* encrypt.                                                                *)
(***************************************************************************)
LEMMA EncryptChanges ==
  ASSUME StateType, SessionsInv, NEW p \in Party, NEW s \in Slots[p], Encrypt(p, s),
         NEW r, r = session[p][s].ratchet,
         NEW fresh, fresh = FreshKey(p, s),
         NEW m, m = EncryptedMessage(r, fresh, <<p, s>>),
         NEW S, S = SessionEncrypted(session[p][s], fresh)
  PROVE  /\ Opened(p, s)
         /\ GoesOn(p, s, S) /\ S.ratchet = Encrypted(r, fresh)
         /\ fresh = RatchetKeyOf(p, s, Len(r.root_key))
         /\ fresh \in Key /\ fresh \in OwnKeys(p, s)
         /\ SentIn(p, s)' = SentIn(p, s) \cup {m}
         /\ \A q, t : q # p \/ t # s => SentIn(q, t)' = SentIn(q, t)
         /\ UNCHANGED delivered
<1>1. PICK sending : sending = NextMessage(p, s)
  OBVIOUS
<1>2. /\ Opened(p, s)
      /\ Stores(p, s, S)
      /\ sent' = sent \cup {sending}
      /\ UNCHANGED <<role, delivered>>
  BY <1>1 DEF Encrypt, Live, Stores
<1>3. /\ s \in Nat
      /\ session[p][s] \in SessionType
      /\ r \in Ratchets(Key)
      /\ WithinBounds(r)
      /\ <<p, s>> \in Place
  BY <1>2, EndTypes
<1>4. fresh = RatchetKeyOf(p, s, Len(r.root_key))
  BY DEF FreshKey
<1>5. fresh \in Key /\ fresh \in OwnKeys(p, s)
  <2>1. Len(r.root_key) \in Nat
    BY <1>3, LenProperties DEF Ratchets, Histories
  <2>. QED
    BY <1>3, <1>4, <2>1, KeyTypes DEF OwnKeys
<1>6. S.ratchet = Encrypted(r, fresh) /\ session_id(S) = session_id(session[p][s])
  BY <1>3 DEF SessionEncrypted, SessionType, session_id
<1>7. m.plaintext = <<p, s>>
  BY DEF EncryptedMessage
<1>8. sending.message = m
  BY <1>1 DEF NextMessage, SessionMessage
<1>9. SentIn(p, s)' = SentIn(p, s) \cup {m}
  BY <1>2, <1>7, <1>8 DEF SentIn
<1>10. ASSUME NEW q, NEW t, q # p \/ t # s
       PROVE  SentIn(q, t)' = SentIn(q, t)
  <2>1. m.plaintext # <<q, t>>
    BY <1>7, <1>10
  <2>. QED
    BY <1>2, <1>8, <2>1 DEF SentIn
<1>. QED
  BY <1>2, <1>4, <1>5, <1>6, <1>9, <1>10 DEF GoesOn

(* The other end of an end that is not itself. *)
LEMMA TwoEnds ==
  ASSUME StateType, NEW p \in Party, NEW s \in Slots[p], NEW q \in Party, NEW t \in Slots[q],
         OtherEnd(p, s, q, t)
  PROVE  /\ p # q /\ Opened(p, s) /\ Opened(q, t)
         /\ role[p][s] = "alice" => role[q][t] = "bob"
         /\ Secret(session[p][s]) = Secret(session[q][t])
         /\ OtherEnd(q, t, p, s)
<1>1. role[p][s] \in {"none", "alice", "bob"} /\ role[q][t] \in {"none", "alice", "bob"}
  BY DEF StateType
<1>. QED
  BY <1>1, SameSecret DEF OtherEnd, Opened

LEMMA EncryptAlone ==
  ASSUME StateType, SessionsInv, NEW p \in Party, NEW s \in Slots[p], Encrypt(p, s),
         AloneAt(p, s)
  PROVE  AloneAt(p, s)'
<1>. SUFFICES ASSUME role'[p][s] = "alice", DeliveredIn(p, s)' = {}
              PROVE  Alone(session[p][s].ratchet, Secret(session[p][s]), FirstKey(p, s),
                           SentIn(p, s))'
  BY DEF AloneAt
<1>1. PICK r, fresh, secret, M : /\ r = session[p][s].ratchet
                                 /\ fresh = FreshKey(p, s)
                                 /\ secret = Secret(session[p][s])
                                 /\ M = SentIn(p, s)
  OBVIOUS
<1>2. PICK m, S : /\ m = EncryptedMessage(r, fresh, <<p, s>>)
                  /\ S = SessionEncrypted(session[p][s], fresh)
  OBVIOUS
<1>3. /\ Opened(p, s)
      /\ GoesOn(p, s, S) /\ S.ratchet = Encrypted(r, fresh)
      /\ fresh \in Key
      /\ SentIn(p, s)' = M \cup {m}
      /\ UNCHANGED delivered
  BY <1>1, <1>2, EncryptChanges
<1>4. role[p][s] = "alice" /\ DeliveredIn(p, s) = {}
  BY <1>3 DEF GoesOn, DeliveredIn
<1>5. Alone(r, secret, FirstKey(p, s), M)
  BY <1>1, <1>4 DEF AloneAt
<1>6. PICK w : w = S.ratchet
  OBVIOUS
<1>7. r \in Ratchets(Key) /\ WithinBounds(r) /\ \A d \in M : d.counter \in Nat
  <2>1. M \in SUBSET Messages(Key, Place)
    BY <1>1, <1>3, EndTypes
  <2>2. \A d \in M : d.counter \in Nat
    BY <2>1 DEF Messages
  <2>. QED
    BY <1>1, <1>3, <2>2, EndTypes
<1>8. Alone(w, secret, FirstKey(p, s), M \cup {m})
  BY <1>2, <1>3, <1>5, <1>6, <1>7, AloneEncrypts
<1>9. /\ session'[p][s].ratchet = w
      /\ Secret(session'[p][s]) = secret
  BY <1>1, <1>3, <1>6, IdsStay, OneEndChanges DEF GoesOn
<1>10. Alone(w, secret, FirstKey(p, s), M \cup {m}) =
         Alone(session[p][s].ratchet, Secret(session[p][s]), FirstKey(p, s), SentIn(p, s))'
  BY <1>3, <1>9 DEF Alone, Fresh, NextCounter, FirstKey, RatchetKeyOf
<1>. QED
  BY <1>8, <1>10

LEMMA AliceEncrypts ==
  ASSUME StateType, SessionsInv, NEW p \in Party, NEW s \in Slots[p], Encrypt(p, s),
         NEW q \in Party, NEW t \in Slots[q], PairAt(p, s, q, t)
  PROVE  PairAt(p, s, q, t)'
<1>. SUFFICES ASSUME role'[p][s] = "alice", OtherEnd(p, s, q, t)'
              PROVE  TogetherAt(p, s, q, t)' \/ AstrayAt(p, s, q, t)'
  BY DEF PairAt
<1>1. PICK r, fresh, secret, M : /\ r = session[p][s].ratchet
                                 /\ fresh = FreshKey(p, s)
                                 /\ secret = Secret(session[p][s])
                                 /\ M = SentIn(p, s)
  OBVIOUS
<1>2. PICK m, S : /\ m = EncryptedMessage(r, fresh, <<p, s>>)
                  /\ S = SessionEncrypted(session[p][s], fresh)
  OBVIOUS
<1>3. PICK w : w = S.ratchet
  OBVIOUS
<1>4. /\ GoesOn(p, s, S) /\ w = Encrypted(r, fresh)
      /\ fresh = RatchetKeyOf(p, s, Len(r.root_key)) /\ fresh \in Key
      /\ SentIn(p, s)' = M \cup {m}
      /\ \A u, v : u # p \/ v # s => SentIn(u, v)' = SentIn(u, v)
      /\ UNCHANGED delivered
  BY <1>1, <1>2, <1>3, EncryptChanges
<1>5. OtherEnd(p, s, q, t) /\ role[p][s] = "alice"
  BY <1>4, EndsStay DEF GoesOn
<1>6. p # q /\ Opened(p, s) /\ Opened(q, t)
  BY <1>5, TwoEnds
<1>7. PICK peer, N : peer = session[q][t].ratchet /\ N = SentIn(q, t)
  OBVIOUS
<1>8. /\ session'[p][s].ratchet = w
      /\ Secret(session'[p][s]) = secret
      /\ session'[q][t].ratchet = peer
      /\ SentIn(q, t)' = N
      /\ DeliveredIn(p, s)' = DeliveredIn(p, s)
      /\ DeliveredIn(q, t)' = DeliveredIn(q, t)
  <2>1. Stores(p, s, S) /\ (q # p \/ t # s)
    BY <1>4, <1>6 DEF GoesOn
  <2>2. session'[p][s] = S /\ session'[q][t] = session[q][t]
    BY <2>1, OneEndChanges
  <2>3. Secret(session'[p][s]) = secret
    BY <1>1, <1>4, IdsStay
  <2>. QED
    BY <1>3, <1>4, <1>7, <2>1, <2>2, <2>3 DEF DeliveredIn
<1>9. /\ s \in Nat /\ t \in Nat /\ secret \in Secrets
      /\ M \in SUBSET Messages(Key, Place) /\ <<p, s>> \in Place
  BY <1>1, <1>6, EndTypes
<1>10. CASE TogetherAt(p, s, q, t)
  <2>1. PICK T : T = TurnsFrom(secret, p, s, q, t)
    OBVIOUS
  <2>2. Together(T, Key, r, "alice", M, peer, "bob", N)
    BY <1>1, <1>7, <1>10, <2>1 DEF TogetherAt
  <2>3. NextPair(T, r, fresh)
    BY <1>4, <1>6, <1>9, <2>1, <2>2, FreshIsNext
  <2>4. Together(T, Key, w, "alice", M \cup {m}, peer, "bob", N)
    BY <1>2, <1>4, <1>9, <2>2, <2>3, TogetherEncrypts
  <2>5. TogetherAt(p, s, q, t)'
    BY <1>4, <1>8, <2>1, <2>4 DEF TogetherAt
  <2>. QED
    BY <2>5
<1>11. CASE AstrayAt(p, s, q, t)
  <2>1. Astray(Key, peer, secret, FirstKey(p, s), OwnKeys(q, t), N)
    BY <1>1, <1>7, <1>11 DEF AstrayAt
  <2>2. AstrayAt(p, s, q, t)'
    BY <1>8, <1>11, <2>1 DEF AstrayAt
  <2>. QED
    BY <2>2
<1>. QED
  BY <1>5, <1>10, <1>11 DEF PairAt

LEMMA BobEncrypts ==
  ASSUME StateType, SessionsInv, NEW p \in Party, NEW s \in Slots[p],
         NEW q \in Party, NEW t \in Slots[q], Encrypt(q, t), PairAt(p, s, q, t)
  PROVE  PairAt(p, s, q, t)'
<1>. SUFFICES ASSUME role'[p][s] = "alice", OtherEnd(p, s, q, t)'
              PROVE  TogetherAt(p, s, q, t)' \/ AstrayAt(p, s, q, t)'
  BY DEF PairAt
<1>1. PICK r, fresh, M : /\ r = session[q][t].ratchet
                         /\ fresh = FreshKey(q, t)
                         /\ M = SentIn(q, t)
  OBVIOUS
<1>2. PICK m, S : /\ m = EncryptedMessage(r, fresh, <<q, t>>)
                  /\ S = SessionEncrypted(session[q][t], fresh)
  OBVIOUS
<1>3. PICK w : w = S.ratchet
  OBVIOUS
<1>4. /\ GoesOn(q, t, S) /\ w = Encrypted(r, fresh)
      /\ fresh = RatchetKeyOf(q, t, Len(r.root_key))
      /\ fresh \in Key /\ fresh \in OwnKeys(q, t)
      /\ SentIn(q, t)' = M \cup {m}
      /\ \A u, v : u # q \/ v # t => SentIn(u, v)' = SentIn(u, v)
      /\ UNCHANGED delivered
  BY <1>1, <1>2, <1>3, EncryptChanges
<1>5. OtherEnd(p, s, q, t) /\ role[p][s] = "alice"
  BY <1>4, EndsStay DEF GoesOn
<1>6. p # q /\ Opened(p, s) /\ Opened(q, t)
  BY <1>5, TwoEnds
<1>7. PICK peer, N, secret : /\ peer = session[p][s].ratchet /\ N = SentIn(p, s)
                             /\ secret = Secret(session[p][s])
  OBVIOUS
<1>8. /\ session'[q][t].ratchet = w
      /\ Secret(session'[p][s]) = secret
      /\ session'[p][s].ratchet = peer
      /\ SentIn(p, s)' = N
      /\ DeliveredIn(p, s)' = DeliveredIn(p, s)
      /\ DeliveredIn(q, t)' = DeliveredIn(q, t)
  <2>1. Stores(q, t, S) /\ (p # q \/ s # t)
    BY <1>4, <1>6 DEF GoesOn
  <2>2. session'[q][t] = S /\ session'[p][s] = session[p][s]
    BY <2>1, OneEndChanges
  <2>. QED
    BY <1>3, <1>4, <1>7, <2>1, <2>2 DEF DeliveredIn
<1>9. /\ s \in Nat /\ t \in Nat /\ secret \in Secrets
      /\ M \in SUBSET Messages(Key, Place) /\ <<q, t>> \in Place
      /\ r \in Ratchets(Key) /\ WithinBounds(r)
  BY <1>1, <1>6, <1>7, EndTypes
<1>10. CASE TogetherAt(p, s, q, t)
  <2>1. PICK T : T = TurnsFrom(secret, p, s, q, t)
    OBVIOUS
  <2>2. Together(T, Key, peer, "alice", N, r, "bob", M)
    BY <1>1, <1>7, <1>10, <2>1 DEF TogetherAt
  <2>3. NextPair(T, r, fresh)
    BY <1>4, <1>6, <1>9, <2>1, <2>2, FreshIsNext
  <2>4. Together(T, Key, r, "bob", M, peer, "alice", N)
    BY <2>2, TogetherSwaps
  <2>5. Together(T, Key, w, "bob", M \cup {m}, peer, "alice", N)
    BY <1>2, <1>4, <1>9, <2>3, <2>4, TogetherEncrypts
  <2>6. Together(T, Key, peer, "alice", N, w, "bob", M \cup {m})
    BY <2>5, TogetherSwaps
  <2>7. TogetherAt(p, s, q, t)'
    BY <1>4, <1>8, <2>1, <2>6 DEF TogetherAt
  <2>. QED
    BY <2>7
<1>11. CASE AstrayAt(p, s, q, t)
  <2>1. PICK own : own = OwnKeys(q, t)
    OBVIOUS
  <2>2. Astray(Key, r, secret, FirstKey(p, s), own, M)
    BY <1>1, <1>7, <1>11, <2>1 DEF AstrayAt
  <2>3. Astray(Key, w, secret, FirstKey(p, s), own, M \cup {m})
    BY <1>2, <1>4, <1>9, <2>1, <2>2, AstrayEncrypts
  <2>4. AstrayAt(p, s, q, t)'
    BY <1>4, <1>8, <1>11, <2>1, <2>3 DEF AstrayAt
  <2>. QED
    BY <2>4
<1>. QED
  BY <1>5, <1>10, <1>11 DEF PairAt

LEMMA EncryptTalks ==
  ASSUME StateType, SessionsInv, StateType', UNCHANGED bounds, ConversationsInv,
         NEW p \in Party, NEW s \in Slots[p], Encrypt(p, s)
  PROVE  ConversationsInv'
<1>1. PICK r, fresh : r = session[p][s].ratchet /\ fresh = FreshKey(p, s)
  OBVIOUS
<1>2. PICK m, S : /\ m = EncryptedMessage(r, fresh, <<p, s>>)
                  /\ S = SessionEncrypted(session[p][s], fresh)
  OBVIOUS
<1>3. /\ GoesOn(p, s, S)
      /\ \A q, t : q # p \/ t # s => SentIn(q, t)' = SentIn(q, t)
      /\ UNCHANGED delivered
  BY <1>1, <1>2, EncryptChanges
<1>4. AloneAt(p, s)'
  BY EncryptAlone DEF ConversationsInv
<1>5. ASSUME NEW q \in Party, NEW t \in Slots[q]
      PROVE  /\ PairAt(p, s, q, t)' /\ PairAt(q, t, p, s)'
             /\ BaseInv(p, s, q, t)' /\ BaseInv(q, t, p, s)'
  <2>1. /\ PairAt(p, s, q, t) /\ PairAt(q, t, p, s)
        /\ BaseInv(p, s, q, t) /\ BaseInv(q, t, p, s)
    BY DEF ConversationsInv
  <2>2. PairAt(p, s, q, t)'
    BY <2>1, AliceEncrypts
  <2>3. PairAt(q, t, p, s)'
    BY <2>1, BobEncrypts
  <2>4. BaseInv(p, s, q, t)' /\ BaseInv(q, t, p, s)'
    BY <1>3, <2>1, EndsStay
  <2>. QED
    BY <2>2, <2>3, <2>4
<1>6. EndInv(p, s)'
  BY <1>4, <1>5 DEF EndInv, Slots
<1>7. ASSUME NEW q \in Party, NEW t \in Slots[q], q # p \/ t # s
      PROVE  Rests(q, t)
  <2>1. session'[q][t] = session[q][t] /\ UNCHANGED role
    BY <1>3, <1>7, OneEndChanges DEF GoesOn
  <2>2. SentIn(q, t)' = SentIn(q, t) /\ DeliveredIn(q, t)' = DeliveredIn(q, t)
    BY <1>3, <1>7 DEF DeliveredIn
  <2>. QED
    BY <2>1, <2>2 DEF Rests, SameButError
<1>. QED
  BY <1>6, <1>7, OneActs


(***************************************************************************)
(* decrypt.                                                                *)
(***************************************************************************)
LEMMA OneOtherEnd ==
  ASSUME StateType, SessionsInv, NEW p \in Party, NEW s \in Slots[p],
         NEW q \in Party, NEW t \in Slots[q], NEW u \in Party, NEW v \in Slots[u],
         OtherEnd(p, s, q, t), OtherEnd(p, s, u, v)
  PROVE  q = u /\ t = v
<1>1. /\ Opened(p, s) /\ Opened(q, t) /\ Opened(u, v)
      /\ role[p][s] # role[q][t] /\ role[p][s] # role[u][v]
      /\ session_id(session[q][t]) = session_id(session[u][v])
  BY DEF OtherEnd
<1>2. /\ role[p][s] \in {"alice", "bob"}
      /\ role[q][t] \in {"alice", "bob"}
      /\ role[u][v] \in {"alice", "bob"}
  BY <1>1, OpenSession
<1>3. role[q][t] = role[u][v]
  BY <1>1, <1>2
<1>4. ~ OtherEnd(q, t, u, v)
  BY <1>3 DEF OtherEnd
<1>. QED
  BY <1>1, <1>4, SameKeys

LEMMA DecryptChanges ==
  ASSUME StateType, SessionsInv, NEW p \in Party, NEW s \in Slots[p],
         NEW m \in Arriving, Decrypt(p, s, m),
         NEW r, r = session[p][s].ratchet,
         NEW body, body = m.message,
         NEW S, S = SessionDecrypted(session[p][s], m)
  PROVE  /\ Opened(p, s)
         /\ GoesOn(p, s, S)
         /\ CanDecrypt(r, body) /\ DecryptedInto(r, body, S.ratchet)
         /\ UNCHANGED sent
         /\ DeliveredIn(p, s)' # {}
         /\ \A q \in Party : \A t : q # p \/ t # s => DeliveredIn(q, t)' = DeliveredIn(q, t)
         /\ \A q \in Party : \A t \in Slots[q] : OtherEnd(p, s, q, t) => body \in SentIn(q, t)
<1>1. PICK d : d = [slot |-> s, message |-> body]
  OBVIOUS
<1>2. /\ Opened(p, s)
      /\ CanDecrypt(r, body)
      /\ Stores(p, s, S)
      /\ delivered' = [delivered EXCEPT ![p] = @ \cup {d}]
      /\ UNCHANGED <<role, sent>>
  BY <1>1 DEF Decrypt, Live, Stores
<1>3. session[p][s] \in SessionType
  BY <1>2, EndTypes
<1>4. S.ratchet = DecryptedBy(r, body) /\ session_id(S) = session_id(session[p][s])
  BY <1>3 DEF SessionDecrypted, SessionType, session_id
<1>5. DecryptedInto(r, body, S.ratchet)
  BY <1>2, <1>4 DEF CanDecrypt, DecryptedBy, DecryptedInto
<1>6. /\ delivered'[p] = delivered[p] \cup {d}
      /\ \A q \in Party : q # p => delivered'[q] = delivered[q]
  BY <1>2 DEF StateType
<1>7. DeliveredIn(p, s)' # {}
  <2>1. d \in delivered'[p] /\ d.slot = s
    BY <1>1, <1>6
  <2>. QED
    BY <2>1 DEF DeliveredIn
<1>8. ASSUME NEW q \in Party, NEW t, q # p \/ t # s
      PROVE  DeliveredIn(q, t)' = DeliveredIn(q, t)
  <2>1. CASE q # p
    BY <1>6, <2>1 DEF DeliveredIn
  <2>2. CASE q = p
    <3>1. d.slot # t
      BY <1>1, <1>8, <2>2
    <3>2. { x \in delivered'[p] : x.slot = t } = { x \in delivered[p] : x.slot = t }
      BY <1>6, <3>1
    <3>. QED
      BY <2>2, <3>2 DEF DeliveredIn
  <2>. QED
    BY <2>1, <2>2
<1>9. body \in Body /\ ((\E x \in sent : x.message = body) \/ body.key.key = << {} >>)
  BY Arrived DEF ArrivingInv
<1>10. PICK u, v : u = body.plaintext[1] /\ v = body.plaintext[2]
  OBVIOUS
<1>11. OtherEnd(p, s, u, v) /\ \E x \in sent : x.message = body
  BY <1>2, <1>9, <1>10, Reads, SMTT(30)
<1>12. PICK x \in sent : x.message = body
  BY <1>11
<1>13. u \in Party /\ v \in Slots[u]
  BY <1>10, <1>12, Origin DEF SessionsInv
<1>14. body.plaintext = <<u, v>>
  <2>1. body.plaintext \in Place
    BY <1>9 DEF Body, Messages
  <2>. QED
    BY <1>10, <2>1 DEF Place
<1>15. body \in SentIn(u, v)
  BY <1>12, <1>14 DEF SentIn
<1>16. ASSUME NEW q \in Party, NEW t \in Slots[q], OtherEnd(p, s, q, t)
       PROVE  body \in SentIn(q, t)
  BY <1>11, <1>13, <1>15, <1>16, OneOtherEnd
<1>. QED
  BY <1>2, <1>4, <1>5, <1>7, <1>8, <1>16 DEF GoesOn

LEMMA AliceDecrypts ==
  ASSUME StateType, SessionsInv, NEW p \in Party, NEW s \in Slots[p],
         NEW d \in Arriving, Decrypt(p, s, d),
         NEW q \in Party, NEW t \in Slots[q], AloneAt(p, s), PairAt(p, s, q, t)
  PROVE  PairAt(p, s, q, t)'
<1>. SUFFICES ASSUME role'[p][s] = "alice", OtherEnd(p, s, q, t)'
              PROVE  TogetherAt(p, s, q, t)' \/ AstrayAt(p, s, q, t)'
  BY DEF PairAt
<1>1. PICK r, m, S : /\ r = session[p][s].ratchet
                     /\ m = d.message
                     /\ S = SessionDecrypted(session[p][s], d)
  OBVIOUS
<1>2. PICK w, M, secret : w = S.ratchet /\ M = SentIn(p, s) /\ secret = Secret(session[p][s])
  OBVIOUS
<1>3. GoesOn(p, s, S) /\ CanDecrypt(r, m) /\ DecryptedInto(r, m, w) /\ UNCHANGED sent
  BY <1>1, <1>2, DecryptChanges
<1>4. OtherEnd(p, s, q, t) /\ role[p][s] = "alice"
  BY <1>3, EndsStay DEF GoesOn
<1>5. p # q /\ Opened(p, s) /\ Opened(q, t)
  BY <1>4, TwoEnds
<1>6. PICK peer, N : peer = session[q][t].ratchet /\ N = SentIn(q, t)
  OBVIOUS
<1>7. m \in N
  BY <1>1, <1>4, <1>6, DecryptChanges
<1>8. /\ s \in Nat /\ t \in Nat
      /\ M \in SUBSET Messages(Key, Place) /\ N \in SUBSET Messages(Key, Place)
      /\ r \in Ratchets(Key) /\ WithinBounds(r)
      /\ secret \in Secrets
      /\ OwnKeys(q, t) \in SUBSET Key
      /\ FirstKey(p, s) \in Key
  BY <1>1, <1>2, <1>5, <1>6, EndTypes
<1>9. /\ session'[p][s].ratchet = w
      /\ Secret(session'[p][s]) = secret
      /\ session'[q][t].ratchet = peer
      /\ SentIn(p, s)' = M
      /\ SentIn(q, t)' = N
  <2>1. Stores(p, s, S) /\ (q # p \/ t # s)
    BY <1>3, <1>5 DEF GoesOn
  <2>2. session'[p][s] = S /\ session'[q][t] = session[q][t]
    BY <2>1, OneEndChanges
  <2>3. Secret(session'[p][s]) = secret
    BY <1>2, <1>3, IdsStay
  <2>4. SentIn(p, s)' = M /\ SentIn(q, t)' = N
    BY <1>2, <1>3, <1>6 DEF SentIn
  <2>. QED
    BY <1>2, <1>6, <2>2, <2>3, <2>4
<1>10. CASE TogetherAt(p, s, q, t)
  <2>1. PICK T : T = TurnsFrom(secret, p, s, q, t)
    OBVIOUS
  <2>2. Together(T, Key, r, "alice", M, peer, "bob", N)
    BY <1>1, <1>2, <1>6, <1>10, <2>1 DEF TogetherAt
  <2>3. Together(T, Key, w, "alice", M, peer, "bob", N)
    BY <1>3, <1>7, <1>8, <2>2, TogetherDecrypts
  <2>4. TogetherAt(p, s, q, t)'
    BY <1>9, <2>1, <2>3 DEF TogetherAt
  <2>. QED
    BY <2>4
<1>11. CASE AstrayAt(p, s, q, t)
  <2>1. PICK own, first : own = OwnKeys(q, t) /\ first = FirstKey(p, s)
    OBVIOUS
  <2>2. Astray(Key, peer, secret, first, own, N) /\ DeliveredIn(p, s) = {}
    BY <1>2, <1>6, <1>11, <2>1 DEF AstrayAt
  <2>3. Alone(r, secret, first, M)
    BY <1>1, <1>2, <1>4, <2>1, <2>2 DEF AloneAt
  <2>4. first \notin own
    BY <1>5, <2>1, KeyNames DEF FirstKey, OwnKeys
  <2>5. secret \in Histories(Key) /\ first \in Key /\ own \in SUBSET Key
        /\ m \in Messages(Key, Place)
    BY <1>7, <1>8, <2>1 DEF Secrets
  <2>6. ~ CanDecrypt(r, m)
    BY <1>7, <1>8, <2>2, <2>3, <2>4, <2>5, AloneReadsNothing
  <2>. QED
    BY <1>3, <2>6
<1>. QED
  BY <1>4, <1>10, <1>11 DEF PairAt

LEMMA BobDecrypts ==
  ASSUME StateType, SessionsInv, NEW p \in Party, NEW s \in Slots[p],
         NEW q \in Party, NEW t \in Slots[q], NEW d \in Arriving, Decrypt(q, t, d),
         AloneAt(p, s), PairAt(p, s, q, t)
  PROVE  PairAt(p, s, q, t)'
<1>. SUFFICES ASSUME role'[p][s] = "alice", OtherEnd(p, s, q, t)'
              PROVE  TogetherAt(p, s, q, t)' \/ AstrayAt(p, s, q, t)'
  BY DEF PairAt
<1>1. PICK r, m, S : /\ r = session[q][t].ratchet
                     /\ m = d.message
                     /\ S = SessionDecrypted(session[q][t], d)
  OBVIOUS
<1>2. PICK w, M : w = S.ratchet /\ M = SentIn(q, t)
  OBVIOUS
<1>3. GoesOn(q, t, S) /\ CanDecrypt(r, m) /\ DecryptedInto(r, m, w) /\ UNCHANGED sent
  BY <1>1, <1>2, DecryptChanges
<1>4. OtherEnd(p, s, q, t) /\ role[p][s] = "alice"
  BY <1>3, EndsStay DEF GoesOn
<1>5. p # q /\ Opened(p, s) /\ Opened(q, t) /\ OtherEnd(q, t, p, s)
  BY <1>4, TwoEnds
<1>6. PICK peer, N, secret : /\ peer = session[p][s].ratchet /\ N = SentIn(p, s)
                             /\ secret = Secret(session[p][s])
  OBVIOUS
<1>7. m \in N
  BY <1>1, <1>5, <1>6, DecryptChanges
<1>8. /\ s \in Nat /\ t \in Nat
      /\ M \in SUBSET Messages(Key, Place) /\ N \in SUBSET Messages(Key, Place)
      /\ r \in Ratchets(Key) /\ WithinBounds(r)
      /\ secret \in Secrets
      /\ OwnKeys(q, t) \in SUBSET Key
  BY <1>1, <1>2, <1>5, <1>6, EndTypes
<1>9. /\ session'[q][t].ratchet = w
      /\ Secret(session'[p][s]) = secret
      /\ session'[p][s].ratchet = peer
      /\ SentIn(q, t)' = M
      /\ SentIn(p, s)' = N
  <2>1. Stores(q, t, S) /\ (p # q \/ s # t)
    BY <1>3, <1>5 DEF GoesOn
  <2>2. session'[q][t] = S /\ session'[p][s] = session[p][s]
    BY <2>1, OneEndChanges
  <2>3. SentIn(p, s)' = N /\ SentIn(q, t)' = M
    BY <1>2, <1>3, <1>6 DEF SentIn
  <2>. QED
    BY <1>2, <1>6, <2>2, <2>3
<1>10. CASE TogetherAt(p, s, q, t)
  <2>1. PICK T : T = TurnsFrom(secret, p, s, q, t)
    OBVIOUS
  <2>2. Together(T, Key, peer, "alice", N, r, "bob", M)
    BY <1>1, <1>2, <1>6, <1>10, <2>1 DEF TogetherAt
  <2>3. Together(T, Key, r, "bob", M, peer, "alice", N)
    BY <2>2, TogetherSwaps
  <2>4. Together(T, Key, w, "bob", M, peer, "alice", N)
    BY <1>3, <1>7, <1>8, <2>3, TogetherDecrypts
  <2>5. Together(T, Key, peer, "alice", N, w, "bob", M)
    BY <2>4, TogetherSwaps
  <2>6. TogetherAt(p, s, q, t)'
    BY <1>9, <2>1, <2>5 DEF TogetherAt
  <2>. QED
    BY <2>6
<1>11. CASE AstrayAt(p, s, q, t)
  <2>1. PICK own, first : own = OwnKeys(q, t) /\ first = FirstKey(p, s)
    OBVIOUS
  <2>2. Astray(Key, r, secret, first, own, M) /\ DeliveredIn(p, s) = {}
    BY <1>1, <1>2, <1>6, <1>11, <2>1 DEF AstrayAt
  <2>3. Alone(peer, secret, first, N)
    BY <1>4, <1>6, <2>1, <2>2 DEF AloneAt
  <2>4. m.ratchet_key = first /\ m.key.key = secret
    <3>1. \A x \in N : x.ratchet_key = first /\ x.key = [key |-> secret, index |-> x.counter]
      BY <2>3 DEF Alone
    <3>2. m.ratchet_key = first /\ m.key = [key |-> secret, index |-> m.counter]
      BY <1>7, <3>1
    <3>. QED
      BY <3>2
  <2>5. secret \in Histories(Key) /\ own \in SUBSET Key /\ m \in Messages(Key, Place)
    BY <1>7, <1>8, <2>1 DEF Secrets
  <2>6. ~ CanDecrypt(r, m)
    BY <1>8, <2>2, <2>4, <2>5, AstrayReadsNothing
  <2>. QED
    BY <1>3, <2>6
<1>. QED
  BY <1>4, <1>10, <1>11 DEF PairAt

LEMMA DecryptTalks ==
  ASSUME StateType, SessionsInv, StateType', UNCHANGED bounds, ConversationsInv,
         NEW p \in Party, NEW s \in Slots[p], NEW m \in Arriving, Decrypt(p, s, m)
  PROVE  ConversationsInv'
<1>1. PICK r, body, S : /\ r = session[p][s].ratchet /\ body = m.message
                        /\ S = SessionDecrypted(session[p][s], m)
  OBVIOUS
<1>2. /\ GoesOn(p, s, S)
      /\ DeliveredIn(p, s)' # {}
      /\ \A q \in Party : \A t : q # p \/ t # s => DeliveredIn(q, t)' = DeliveredIn(q, t)
      /\ UNCHANGED sent
  BY <1>1, DecryptChanges
<1>3. AloneAt(p, s)'
  BY <1>2 DEF AloneAt
<1>4. ASSUME NEW q \in Party, NEW t \in Slots[q]
      PROVE  /\ PairAt(p, s, q, t)' /\ PairAt(q, t, p, s)'
             /\ BaseInv(p, s, q, t)' /\ BaseInv(q, t, p, s)'
  <2>1. /\ PairAt(p, s, q, t) /\ PairAt(q, t, p, s)
        /\ BaseInv(p, s, q, t) /\ BaseInv(q, t, p, s)
        /\ AloneAt(p, s) /\ AloneAt(q, t)
    BY DEF ConversationsInv
  <2>2. PairAt(p, s, q, t)'
    BY <2>1, AliceDecrypts
  <2>3. PairAt(q, t, p, s)'
    BY <2>1, BobDecrypts
  <2>4. BaseInv(p, s, q, t)' /\ BaseInv(q, t, p, s)'
    BY <1>2, <2>1, EndsStay
  <2>. QED
    BY <2>2, <2>3, <2>4
<1>5. EndInv(p, s)'
  BY <1>3, <1>4 DEF EndInv, Slots
<1>6. ASSUME NEW q \in Party, NEW t \in Slots[q], q # p \/ t # s
      PROVE  Rests(q, t)
  <2>1. session'[q][t] = session[q][t] /\ UNCHANGED role
    BY <1>2, <1>6, OneEndChanges DEF GoesOn
  <2>2. SentIn(q, t)' = SentIn(q, t) /\ DeliveredIn(q, t)' = DeliveredIn(q, t)
    BY <1>2, <1>6 DEF SentIn
  <2>. QED
    BY <2>1, <2>2 DEF Rests, SameButError
<1>. QED
  BY <1>5, <1>6, OneActs


(***************************************************************************)
(* The sessions that open.                                                 *)
(***************************************************************************)
Takes(p, s, end) == role' = [role EXCEPT ![p][s] = end]

Opens(p, s, Z, end) ==
  /\ ~ Opened(p, s)
  /\ Stores(p, s, Z)
  /\ Takes(p, s, end)
  /\ UNCHANGED <<sent, delivered>>

LEMMA OneRoleChanges ==
  ASSUME StateType, NEW p \in Party, NEW s \in Slots[p], NEW end, Takes(p, s, end)
  PROVE  /\ role'[p][s] = end
         /\ \A q \in Party : \A t \in Slots[q] : q # p \/ t # s => role'[q][t] = role[q][t]
<1>1. /\ role = [q \in Party |-> role[q]]
      /\ role[p] = [t \in Slots[p] |-> role[p][t]]
  BY DEF StateType
<1>2. role' = [q \in Party |-> IF q = p THEN [role[p] EXCEPT ![s] = end] ELSE role[q]]
  BY <1>1 DEF Takes
<1>3. role'[p] = [role[p] EXCEPT ![s] = end] /\ \A q \in Party \ {p} : role'[q] = role[q]
  BY <1>2
<1>. QED
  BY <1>1, <1>3

LEMMA OpeningRests ==
  ASSUME StateType, SessionsInv, NEW p \in Party, NEW s \in Slots[p], NEW Z, NEW end,
         Opens(p, s, Z, end)
  PROVE  /\ session'[p][s] = Z /\ role'[p][s] = end
         /\ SentIn(p, s)' = {} /\ DeliveredIn(p, s)' = {}
         /\ \A q \in Party : \A t \in Slots[q] : q # p \/ t # s =>
              /\ Rests(q, t)
              /\ session'[q][t] = session[q][t] /\ role'[q][t] = role[q][t]
<1>1. /\ ~ Opened(p, s)
      /\ Stores(p, s, Z)
      /\ Takes(p, s, end)
      /\ UNCHANGED <<sent, delivered>>
  BY DEF Opens
<1>2. session'[p][s] = Z /\ role'[p][s] = end
  <2>1. session'[p][s] = Z
    BY <1>1, OneEndChanges
  <2>2. role'[p][s] = end
    BY <1>1, OneRoleChanges
  <2>. QED
    BY <2>1, <2>2
<1>3. SentIn(p, s) = {} /\ DeliveredIn(p, s) = {}
  BY <1>1, NothingSent, NothingDelivered
<1>4. SentIn(p, s)' = {} /\ DeliveredIn(p, s)' = {}
  BY <1>1, <1>3 DEF SentIn, DeliveredIn
<1>5. ASSUME NEW q \in Party, NEW t \in Slots[q], q # p \/ t # s
      PROVE  /\ Rests(q, t)
             /\ session'[q][t] = session[q][t] /\ role'[q][t] = role[q][t]
  <2>1. session'[q][t] = session[q][t]
    BY <1>1, <1>5, OneEndChanges
  <2>2. role'[q][t] = role[q][t]
    BY <1>1, <1>5, OneRoleChanges
  <2>3. SentIn(q, t)' = SentIn(q, t) /\ DeliveredIn(q, t)' = DeliveredIn(q, t)
    BY <1>1 DEF SentIn, DeliveredIn
  <2>. QED
    BY <2>1, <2>2, <2>3 DEF Rests, SameButError
<1>. QED
  BY <1>2, <1>4, <1>5

LEMMA OutboundSession ==
  ASSUME StateType, SessionsInv, NEW p \in Party, NEW s \in Slots[p],
         NEW q \in Party \ {p}, NEW k \in uploaded[q], CreateOutbound(p, s, q, k),
         NEW Z, Z = new_outbound_session(session[p][s], account[p].identity_key, BaseKey(p, s),
                                         RatchetKeyOf(p, s, 0), account[q].identity_key, k.key)
  PROVE  /\ Opens(p, s, Z, "alice")
         /\ Z.alice_base_key = BaseKey(p, s)
         /\ Z.ratchet = initialise_as_alice(Secret(Z), FirstKey(p, s))
<1>1. Opens(p, s, Z, "alice")
  BY DEF CreateOutbound, NextSlot, messageVars, Opens, Stores, Takes
<1>2. session[p][s] \in SessionType
  BY DEF StateType
<1>3. /\ account[p].identity_key = IdentityKey(p)
      /\ account[q].identity_key = IdentityKey(q)
      /\ k.key = OneTimeKey(q, k.id)
  BY DEF SessionsInv, AccountInv
<1>4. PICK base, own, r, secret :
        /\ base = BaseKey(p, s) /\ own = FirstKey(p, s)
        /\ secret = << {IdentityKey(p), k.key}, {base, IdentityKey(q)}, {base, k.key} >>
        /\ r = initialise_as_alice(secret, own)
  OBVIOUS
<1>5. Z = [session[p][s] EXCEPT
             !.received_message = FALSE, !.alice_identity_key = IdentityKey(p),
             !.alice_base_key = base, !.bob_one_time_key = k.key, !.ratchet = r]
  BY <1>3, <1>4 DEF new_outbound_session, SharedSecret, FirstKey
<1>6. /\ Z.ratchet = r
      /\ Z.alice_identity_key = IdentityKey(p)
      /\ Z.alice_base_key = base
      /\ Z.bob_one_time_key = k.key
  BY <1>2, <1>5 DEF SessionType
<1>7. Secret(Z) = secret
  BY <1>3, <1>4, <1>6, KeyOwners DEF Secret
<1>. QED
  BY <1>1, <1>4, <1>6, <1>7

LEMMA CreateOutboundTalks ==
  ASSUME StateType, SessionsInv, StateType', UNCHANGED bounds, ConversationsInv,
         NEW p \in Party, NEW s \in Slots[p],
         NEW q \in Party \ {p}, NEW k \in uploaded[q], CreateOutbound(p, s, q, k)
  PROVE  ConversationsInv'
<1>1. PICK Z : Z = new_outbound_session(session[p][s], account[p].identity_key, BaseKey(p, s),
                                        RatchetKeyOf(p, s, 0), account[q].identity_key, k.key)
  OBVIOUS
<1>2. /\ Opens(p, s, Z, "alice")
      /\ Z.alice_base_key = BaseKey(p, s)
      /\ Z.ratchet = initialise_as_alice(Secret(Z), FirstKey(p, s))
  BY <1>1, OutboundSession
<1>3. /\ session'[p][s] = Z /\ role'[p][s] = "alice"
      /\ SentIn(p, s)' = {}
      /\ \A u \in Party : \A v \in Slots[u] : u # p \/ v # s =>
           /\ Rests(u, v)
           /\ session'[u][v] = session[u][v] /\ role'[u][v] = role[u][v]
  BY <1>2, OpeningRests
<1>4. AloneAt(p, s)'
  <2>1. PICK w, secret, first : w = Z.ratchet /\ secret = Secret(Z) /\ first = FirstKey(p, s)
    OBVIOUS
  <2>2. Fresh(w, secret, first)
    BY <1>2, <2>1 DEF initialise_as_alice, Fresh
  <2>3. Alone(w, secret, first, {})
    BY <2>2 DEF Alone
  <2>4. Alone(w, secret, first, {}) =
          Alone(session[p][s].ratchet, Secret(session[p][s]), FirstKey(p, s), SentIn(p, s))'
    BY <1>3, <2>1 DEF Alone, Fresh, NextCounter, FirstKey, RatchetKeyOf
  <2>. QED
    BY <2>3, <2>4 DEF AloneAt
<1>5. ASSUME NEW u \in Party, NEW v \in Slots[u]
      PROVE  /\ PairAt(p, s, u, v)' /\ PairAt(u, v, p, s)'
             /\ BaseInv(p, s, u, v)' /\ BaseInv(u, v, p, s)'
  <2>1. ~ OtherEnd(p, s, u, v)'
    <3>. SUFFICES ASSUME OtherEnd(p, s, u, v)'
                  PROVE  FALSE
      OBVIOUS
    <3>1. u # p /\ role'[u][v] # "none" /\ session_id(session'[u][v]) = session_id(Z)
      BY <1>3 DEF OtherEnd, Opened
    <3>2. session'[u][v] = session[u][v] /\ role'[u][v] = role[u][v]
      BY <1>3, <3>1
    <3>3. Opened(u, v) /\ session[u][v].alice_base_key = BaseKey(p, s)
      BY <1>2, <3>1, <3>2 DEF session_id, Opened
    <3>4. BaseInv(u, v, p, s)
      BY DEF ConversationsInv
    <3>5. role[p][s] = "alice"
      BY <3>3, <3>4 DEF BaseInv
    <3>. QED
      BY <1>2, <3>5 DEF Opens, Opened
  <2>2. PairAt(p, s, u, v)'
    BY <2>1 DEF PairAt
  <2>3. PairAt(u, v, p, s)'
    BY <1>3 DEF PairAt, OtherEnd
  <2>4. BaseInv(p, s, u, v)'
    <3>1. BaseKey(p, s) = BaseKey(u, v) => p = u /\ s = v
      BY KeyNames
    <3>. QED
      BY <1>2, <1>3, <3>1 DEF BaseInv, BaseKey
  <2>5. BaseInv(u, v, p, s)'
    BY <1>3 DEF BaseInv
  <2>. QED
    BY <2>2, <2>3, <2>4, <2>5
<1>6. EndInv(p, s)'
  BY <1>4, <1>5 DEF EndInv, Slots
<1>. QED
  BY <1>3, <1>6, OneActs


(* The base key of a pre-key message that arrives was in one that was sent, *)
(* or is no base key.                                                      *)
LEMMA ArrivingBase ==
  ASSUME StateType, SessionsInv, NEW m \in Arriving, m.type = "PRE_KEY",
         NEW q, NEW t, m.base_key = BaseKey(q, t)
  PROVE  \E x \in sent : x.type = "PRE_KEY" /\ x.base_key = BaseKey(q, t)
<1>1. CASE m \in sent
  BY <1>1
<1>2. CASE m \notin sent
  <2>1. PICK x \in sent : x.type = "PRE_KEY" /\ m \in Damaged(x)
    BY <1>2 DEF Arriving
  <2>2. x \in PreKeyMessage /\ SetUpInv(x)
    BY <2>1, SentArrives DEF ArrivingInv
  <2>3. x.one_time_key # BaseKey(q, t)
    <3>1. \E u \in Party, n \in Nat : x.one_time_key = OneTimeKey(u, n)
      BY <2>2, KnownKeys DEF SetUpInv
    <3>. QED
      BY <3>1, KeyNames
  <2>4. m.base_key = x.base_key \/ m.base_key = x.one_time_key
    <3>1. \A key : WithRatchetKey(x, key).base_key = x.base_key
      BY <2>2 DEF WithRatchetKey, PreKeyMessage
    <3>2. /\ [x EXCEPT !.version = 4].base_key = x.base_key
          /\ [x EXCEPT !.base_key = x.one_time_key].base_key = x.one_time_key
          /\ \A v : [x EXCEPT !.identity_key = v].base_key = x.base_key
          /\ \A v : [x EXCEPT !.one_time_key = v].base_key = x.base_key
      BY <2>2 DEF PreKeyMessage
    <3>3. \/ m = [x EXCEPT !.version = 4]
          \/ \E u \in Party : m = [x EXCEPT !.identity_key = IdentityKey(u)]
          \/ m = [x EXCEPT !.base_key = x.one_time_key]
          \/ \E k \in UNION { uploaded[u] : u \in Party } : m = [x EXCEPT !.one_time_key = k.key]
          \/ m = WithRatchetKey(x, x.base_key)
          \/ m = WithRatchetKey(x, NoKey)
      BY <2>1, DamagedForms, Zenon
    <3>. QED
      BY <3>1, <3>2, <3>3
  <2>. QED
    BY <2>1, <2>3, <2>4
<1>. QED
  BY <1>1, <1>2

LEMMA BegunBefore ==
  ASSUME StateType, SessionsInv, ConversationsInv, NEW m \in Arriving, m.type = "PRE_KEY",
         NEW q \in Party, NEW t \in Slots[q], m.base_key = BaseKey(q, t)
  PROVE  role[q][t] = "alice"
<1>1. PICK x \in sent : x.type = "PRE_KEY" /\ x.base_key = BaseKey(q, t)
  BY ArrivingBase
<1>2. PICK u, v : u = x.message.plaintext[1] /\ v = x.message.plaintext[2]
  OBVIOUS
<1>3. SentInv(x)
  BY DEF SessionsInv
<1>4. u \in Party /\ v \in Slots[u]
  BY <1>2, <1>3, Origin
<1>5. Opened(u, v) /\ x.base_key = session[u][v].alice_base_key
  BY <1>1, <1>2, <1>3 DEF SentInv
<1>6. BaseInv(u, v, q, t)
  BY <1>4 DEF ConversationsInv
<1>. QED
  BY <1>1, <1>5, <1>6 DEF BaseInv

LEMMA InboundSession ==
  ASSUME StateType, SessionsInv, NEW p \in Party, NEW s \in Slots[p],
         NEW from, NEW m \in Arriving, CreateInbound(p, s, from, m),
         NEW Z, Z = new_inbound_session(session[p][s], m, account[p].identity_key)
  PROVE  /\ Opens(p, s, Z, "bob")
         /\ m.type = "PRE_KEY"
         /\ Z.alice_base_key = m.base_key
         /\ Owner(Z.bob_one_time_key) = p
         /\ m.message.ratchet_key \in Key
         /\ Z.ratchet = initialise_as_bob(Secret(Z), m.message.ratchet_key)
<1>1. Opens(p, s, Z, "bob") /\ m.type = "PRE_KEY"
  BY DEF CreateInbound, NextSlot, Unmatched, messageVars, Opens, Stores, Takes
<1>2. PICK S : S = session[p][s]
  OBVIOUS
<1>3. S \in SessionType /\ account[p].identity_key = IdentityKey(p)
  BY <1>2 DEF StateType, SessionsInv, AccountInv
<1>4. PICK aid, base, otk, their : /\ aid = m.identity_key /\ base = m.base_key
                                   /\ otk = m.one_time_key /\ their = m.message.ratchet_key
  OBVIOUS
<1>5. otk \in UploadedKeys /\ their \in Key
  BY <1>1, <1>4, Arrived, TheirRatchetKey DEF ArrivingInv, SetUpInv, Opens
<1>6. Owner(otk) = p
  BY <1>4, <1>5, HeldKey DEF CreateInbound
<1>7. PICK secret, r : /\ secret = << {otk, aid}, {IdentityKey(p), base}, {otk, base} >>
                       /\ r = initialise_as_bob(secret, their)
  OBVIOUS
<1>8. Z = [S EXCEPT !.alice_identity_key = aid, !.alice_base_key = base,
                    !.bob_one_time_key = otk, !.ratchet = r]
  <2>1. PICK W : W = WithMessageKeys(S, m)
    OBVIOUS
  <2>2. W = [S EXCEPT !.alice_identity_key = aid, !.alice_base_key = base,
                      !.bob_one_time_key = otk]
    BY <1>4, <2>1 DEF WithMessageKeys
  <2>3. Z = [W EXCEPT !.ratchet = r]
    BY <1>2, <1>3, <1>4, <1>7, <2>1 DEF new_inbound_session, SharedSecret
  <2>. QED
    BY <1>3, <2>2, <2>3 DEF SessionType
<1>9. /\ Z.ratchet = r
      /\ Z.alice_identity_key = aid
      /\ Z.alice_base_key = base
      /\ Z.bob_one_time_key = otk
  BY <1>3, <1>8 DEF SessionType
<1>10. Secret(Z) = secret
  <2>1. Secret(Z) = << {aid, otk}, {base, IdentityKey(p)}, {base, otk} >>
    BY <1>6, <1>9 DEF Secret
  <2>2. /\ {aid, otk} = {otk, aid} /\ {base, IdentityKey(p)} = {IdentityKey(p), base}
        /\ {base, otk} = {otk, base}
    OBVIOUS
  <2>. QED
    BY <1>7, <2>1, <2>2
<1>. QED
  BY <1>1, <1>4, <1>5, <1>6, <1>7, <1>9, <1>10


(* No end but the new one is the other end of (u, v), and it has read      *)
(* nothing.                                                                *)
LEMMA NewEnd ==
  ASSUME StateType, SessionsInv, StateType', SessionsInv', UNCHANGED bounds,
         NEW p \in Party, NEW s \in Slots[p], NEW Z, Opens(p, s, Z, "bob"),
         Owner(Z.bob_one_time_key) = p,
         NEW u \in Party, NEW v \in Slots[u],
         role[u][v] = "alice", session_id(session[u][v]) = session_id(Z)
  PROVE  DeliveredIn(u, v) = {}
<1>. SUFFICES ASSUME NEW d \in delivered[u], d.slot = v
              PROVE  FALSE
  BY DEF DeliveredIn
<1>1. DeliveredInv(u)
  BY DEF SessionsInv
<1>2. PICK x \in sent : x.message = d.message
  BY <1>1 DEF DeliveredInv
<1>3. PICK a, b : a = d.message.plaintext[1] /\ b = d.message.plaintext[2]
  OBVIOUS
<1>4. OtherEnd(u, v, a, b)
  BY <1>1, <1>3 DEF DeliveredInv
<1>5. a \in Party /\ b \in Slots[a]
  BY <1>2, <1>3, Origin DEF SessionsInv
<1>6. /\ Opened(a, b) /\ role[a][b] = "bob"
      /\ session_id(session[a][b]) = session_id(session[u][v])
  BY <1>4, <1>5, TwoEnds DEF OtherEnd
<1>7. IdsInv(a, b, session[a][b], role[a][b])
  BY <1>5, <1>6, OpenSession
<1>8. /\ session[a][b].alice_identity_key = Z.alice_identity_key
      /\ session[a][b].alice_base_key = Z.alice_base_key
      /\ session[a][b].bob_one_time_key = Z.bob_one_time_key
  BY <1>6 DEF session_id
<1>9. a = p
  BY <1>6, <1>7, <1>8 DEF IdsInv
<1>10. b # s
  BY <1>6, <1>9 DEF Opens
<1>11. session'[p][b] = session[p][b] /\ role'[p][b] = "bob"
  BY <1>5, <1>6, <1>9, <1>10, OpeningRests
<1>12. session'[p][s] = Z /\ role'[p][s] = "bob"
  BY OpeningRests
<1>13. OneSession(p)' /\ Slots' = Slots
  BY DEF SessionsInv, Slots
<1>. QED
  BY <1>5, <1>8, <1>9, <1>10, <1>11, <1>12, <1>13 DEF OneSession

LEMMA PairBegins ==
  ASSUME StateType, SessionsInv, StateType', SessionsInv', UNCHANGED bounds, ConversationsInv,
         NEW p \in Party, NEW s \in Slots[p], NEW Z, Opens(p, s, Z, "bob"),
         Owner(Z.bob_one_time_key) = p,
         NEW their \in Key, Z.ratchet = initialise_as_bob(Secret(Z), their),
         NEW u \in Party, NEW v \in Slots[u]
  PROVE  PairAt(u, v, p, s)'
<1>. SUFFICES ASSUME role'[u][v] = "alice", OtherEnd(u, v, p, s)'
              PROVE  TogetherAt(u, v, p, s)' \/ AstrayAt(u, v, p, s)'
  BY DEF PairAt
<1>1. session'[p][s] = Z /\ SentIn(p, s)' = {} /\ DeliveredIn(p, s)' = {}
  BY OpeningRests
<1>2. u # p /\ session_id(session'[u][v]) = session_id(Z)
  BY <1>1 DEF OtherEnd
<1>3. /\ Rests(u, v)
      /\ session'[u][v] = session[u][v] /\ role[u][v] = "alice"
  BY <1>2, OpeningRests
<1>4. Opened(u, v) /\ session_id(session[u][v]) = session_id(Z)
  BY <1>2, <1>3 DEF Opened
<1>5. DeliveredIn(u, v) = {}
  BY <1>3, <1>4, NewEnd
<1>6. PICK r, M, secret : /\ r = session[u][v].ratchet /\ M = SentIn(u, v)
                          /\ secret = Secret(session[u][v])
  OBVIOUS
<1>7. PICK peer : peer = Z.ratchet
  OBVIOUS
<1>8. Alone(r, secret, FirstKey(u, v), M)
  BY <1>3, <1>5, <1>6 DEF ConversationsInv, AloneAt
<1>9. /\ v \in Nat /\ secret \in Secrets
      /\ r \in Ratchets(Key) /\ WithinBounds(r)
  BY <1>4, <1>6, EndTypes
<1>10. s \in Nat
  BY BoundsTypes DEF StateType
<1>11. secret = Secret(Z)
  BY <1>4, <1>6, SameSecret
<1>12. PICK T : T = TurnsFrom(secret, u, v, p, s)
  OBVIOUS
<1>13. /\ IsTurns(T, Key)
       /\ T.base = 3 /\ T.ends = {"alice", "bob"}
       /\ T.turn[3] = "alice" /\ T.key[3] = FirstKey(u, v) /\ T.root[3] = secret
  BY <1>2, <1>9, <1>10, <1>12, TurnsAre
<1>14. PICK own, first : own = OwnKeys(p, s) /\ first = FirstKey(u, v)
  OBVIOUS
<1>15. \/ Together(T, Key, r, "alice", M, peer, "bob", {})
       \/ Astray(Key, peer, secret, first, own, {})
  <2>1. /\ "alice" \in T.ends /\ "bob" \in T.ends /\ "alice" # "bob"
        /\ \A end \in T.ends : end = "alice" \/ end = "bob"
    BY <1>13
  <2>2. /\ T.turn[T.base] = "alice"
        /\ secret = T.root[T.base] /\ first = T.key[T.base]
    BY <1>13, <1>14
  <2>3. peer = initialise_as_bob(secret, their)
    BY <1>7, <1>11
  <2>4. Alone(r, secret, first, M)
    BY <1>8, <1>14
  <2>. QED
    BY <1>9, <1>13, <2>1, <2>2, <2>3, <2>4, Begins
<1>16. /\ session'[u][v].ratchet = r /\ session'[p][s].ratchet = peer
       /\ Secret(session'[u][v]) = secret
       /\ SentIn(u, v)' = M
       /\ DeliveredIn(u, v)' = {}
  BY <1>1, <1>3, <1>4, <1>5, <1>6, <1>7 DEF Rests
<1>17. CASE Together(T, Key, r, "alice", M, peer, "bob", {})
  <2>1. TogetherAt(u, v, p, s)'
    BY <1>1, <1>12, <1>16, <1>17 DEF TogetherAt
  <2>. QED
    BY <2>1
<1>18. CASE Astray(Key, peer, secret, first, own, {})
  <2>1. AstrayAt(u, v, p, s)'
    BY <1>1, <1>14, <1>16, <1>18 DEF AstrayAt
  <2>. QED
    BY <2>1
<1>. QED
  BY <1>15, <1>17, <1>18

LEMMA CreateInboundTalks ==
  ASSUME StateType, SessionsInv, StateType', SessionsInv', UNCHANGED bounds, ConversationsInv,
         NEW p \in Party, NEW s \in Slots[p], NEW from, NEW m \in Arriving,
         CreateInbound(p, s, from, m)
  PROVE  ConversationsInv'
<1>1. PICK Z : Z = new_inbound_session(session[p][s], m, account[p].identity_key)
  OBVIOUS
<1>2. /\ Opens(p, s, Z, "bob")
      /\ m.type = "PRE_KEY"
      /\ Z.alice_base_key = m.base_key
      /\ Owner(Z.bob_one_time_key) = p
      /\ m.message.ratchet_key \in Key
      /\ Z.ratchet = initialise_as_bob(Secret(Z), m.message.ratchet_key)
  BY <1>1, InboundSession
<1>3. session'[p][s] = Z /\ role'[p][s] = "bob"
  BY <1>2, OpeningRests
<1>4. \A u \in Party : \A v \in Slots[u] : u # p \/ v # s =>
        /\ Rests(u, v)
        /\ session'[u][v] = session[u][v] /\ role'[u][v] = role[u][v]
  BY <1>2, OpeningRests
<1>5. role[p][s] # "alice"
  BY <1>2 DEF Opens, Opened
<1>6. AloneAt(p, s)'
  BY <1>3 DEF AloneAt
<1>7. ASSUME NEW u \in Party, NEW v \in Slots[u]
      PROVE  BaseInv(p, s, u, v)' /\ BaseInv(u, v, p, s)'
  <2>1. ASSUME m.base_key = BaseKey(u, v)
        PROVE  role'[u][v] = "alice" /\ (u # p \/ v # s)
    <3>1. role[u][v] = "alice"
      BY <1>2, <2>1, BegunBefore
    <3>2. u # p \/ v # s
      BY <1>5, <3>1
    <3>. QED
      BY <1>4, <3>1, <3>2
  <2>2. BaseInv(p, s, u, v)'
    BY <1>2, <1>3, <2>1 DEF BaseInv, BaseKey
  <2>3. ASSUME Opened(u, v)', session'[u][v].alice_base_key = BaseKey(p, s)
        PROVE  FALSE
    <3>1. CASE u = p /\ v = s
      BY <1>2, <1>3, <2>1, <2>3, <3>1
    <3>2. CASE u # p \/ v # s
      <4>1. Opened(u, v) /\ session[u][v].alice_base_key = BaseKey(p, s)
        BY <1>4, <2>3, <3>2 DEF Opened
      <4>2. BaseInv(u, v, p, s)
        BY DEF ConversationsInv
      <4>. QED
        BY <1>5, <4>1, <4>2 DEF BaseInv
    <3>. QED
      BY <3>1, <3>2
  <2>4. BaseInv(u, v, p, s)'
    BY <2>3 DEF BaseInv, BaseKey
  <2>. QED
    BY <2>2, <2>4
<1>8. ASSUME NEW u \in Party, NEW v \in Slots[u]
      PROVE  PairAt(p, s, u, v)' /\ PairAt(u, v, p, s)'
  <2>1. PairAt(p, s, u, v)'
    BY <1>3 DEF PairAt
  <2>2. PairAt(u, v, p, s)'
    BY <1>2, PairBegins
  <2>. QED
    BY <2>1, <2>2
<1>9. EndInv(p, s)'
  BY <1>6, <1>7, <1>8 DEF EndInv, Slots
<1>. QED
  BY <1>4, <1>9, OneActs


LEMMA InitConversations == Init => ConversationsInv
<1>. SUFFICES ASSUME Init
              PROVE  ConversationsInv
  OBVIOUS
<1>1. \A p \in Party : \A s \in Slots[p] : role[p][s] = "none"
  BY DEF Init
<1>. QED
  BY <1>1 DEF ConversationsInv, AloneAt, PairAt, BaseInv, Opened

LEMMA NextKeepsConversations ==
  ASSUME StateType, SessionsInv, StateType', SessionsInv', ConversationsInv, [Next]_vars
  PROVE  ConversationsInv'
<1>1. CASE UNCHANGED vars
  BY <1>1, QuietStep DEF vars
<1>2. CASE Next
  <2>0. UNCHANGED bounds
    BY <1>2 DEF Next
  <2>1. PICK p \in Party :
          \/ \E n \in 1..2 : GenerateOneTimeKeys(p, n)
          \/ GenerateOneTimeKeysFails(p)
          \/ Upload(p)
          \/ MarkKeysAsPublished(p)
          \/ \E s \in Slots[p] :
               \/ \E q \in Party \ {p} : \E k \in uploaded[q] : CreateOutbound(p, s, q, k)
               \/ \E m \in Arriving, from \in Senders :
                    \/ CreateInbound(p, s, from, m)
                    \/ CreateInboundRefused(p, s, from, m)
                    \/ CreateInboundFails(p, s, from, m)
               \/ RemoveOneTimeKeys(p, s)
               \/ RemoveOneTimeKeysFails(p, s)
               \/ Forget(p, s)
               \/ Encrypt(p, s)
               \/ \E m \in Arriving : Decrypt(p, s, m)
               \/ \E error : CreateUnready(p, s, error) \/ SessionCallFails(p, s, error)
    BY <1>2 DEF Next, PartyActs
  <2>2. ASSUME \/ \E n \in 1..2 : GenerateOneTimeKeys(p, n)
               \/ GenerateOneTimeKeysFails(p)
               \/ Upload(p)
               \/ MarkKeysAsPublished(p)
        PROVE  ConversationsInv'
    <3>1. UNCHANGED <<session, role, sent, delivered>>
      BY <2>2 DEF GenerateOneTimeKeys, GenerateOneTimeKeysFails, Upload, MarkKeysAsPublished,
                  messageVars
    <3>. QED
      BY <2>0, <3>1, QuietStep
  <2>3. ASSUME NEW s \in Slots[p],
               RemoveOneTimeKeys(p, s) \/ RemoveOneTimeKeysFails(p, s) \/ Forget(p, s)
        PROVE  ConversationsInv'
    <3>1. UNCHANGED <<session, role, sent, delivered>>
      BY <2>3 DEF RemoveOneTimeKeys, RemoveOneTimeKeysFails, Forget, messageVars
    <3>. QED
      BY <2>0, <3>1, QuietStep
  <2>4. ASSUME NEW s \in Slots[p], NEW q \in Party \ {p}, NEW k \in uploaded[q],
               CreateOutbound(p, s, q, k)
        PROVE  ConversationsInv'
    BY <2>0, <2>4, CreateOutboundTalks
  <2>5. ASSUME NEW s \in Slots[p], NEW m \in Arriving, NEW from, CreateInbound(p, s, from, m)
        PROVE  ConversationsInv'
    BY <2>0, <2>5, CreateInboundTalks
  <2>6. ASSUME NEW s \in Slots[p], NEW m, NEW from, NEW error,
               \/ CreateUnready(p, s, error)
               \/ CreateInboundRefused(p, s, from, m)
               \/ CreateInboundFails(p, s, from, m)
        PROVE  ConversationsInv'
    BY <2>0, <2>6, UnopenedQuiet
  <2>7. ASSUME NEW s \in Slots[p], NEW error, SessionCallFails(p, s, error)
        PROVE  ConversationsInv'
    BY <2>0, <2>7, FailedCallQuiet
  <2>8. ASSUME NEW s \in Slots[p], Encrypt(p, s)
        PROVE  ConversationsInv'
    BY <2>0, <2>8, EncryptTalks
  <2>9. ASSUME NEW s \in Slots[p], NEW m \in Arriving, Decrypt(p, s, m)
        PROVE  ConversationsInv'
    BY <2>0, <2>9, DecryptTalks
  <2>. QED
    BY <2>1, <2>2, <2>3, <2>4, <2>5, <2>6, <2>7, <2>8, <2>9
<1>. QED
  BY <1>1, <1>2

(* Whatever is lost, repeated, reordered, damaged or refused, the two ends *)
(* of a session take turns: each chain that one has was started by the     *)
(* other, or by itself, in an order that both know, and nothing that one   *)
(* sends is ahead of what the other can derive.  Before Alice has read     *)
(* anything she is as she began, and Bob's end, if what made it named      *)
(* another ratchet key than hers, reads nothing and is never read.         *)
THEOREM ConversationsInvariant == Spec => [](StateType /\ SessionsInv /\ ConversationsInv)
<1>1. Init => StateType /\ SessionsInv /\ ConversationsInv
  BY InitHolds, InitConversations
<1>2. (StateType /\ SessionsInv /\ ConversationsInv) /\ [Next]_vars
        => (StateType /\ SessionsInv /\ ConversationsInv)'
  BY NextKeeps, NextKeepsConversations
<1>. QED
  BY <1>1, <1>2, PTL DEF Spec

(* What the end that is together with another says next, it can read. *)
LEMMA NextIsRead ==
  ASSUME StateType, SessionsInv,
         NEW p \in Party, NEW s \in Slots[p], NEW q \in Party, NEW t \in Slots[q],
         OtherEnd(p, s, q, t), TogetherAt(p, s, q, t)
  PROVE  /\ NextMessage(p, s).message.counter <= MAX_MESSAGE_GAP =>
              CanDecrypt(session[q][t].ratchet, NextMessage(p, s).message)
         /\ NextMessage(q, t).message.counter <= MAX_MESSAGE_GAP =>
              CanDecrypt(session[p][s].ratchet, NextMessage(q, t).message)
<1>1. p # q /\ Opened(p, s) /\ Opened(q, t)
  BY TwoEnds
<1>2. PICK r, peer, secret, M, N :
        /\ r = session[p][s].ratchet /\ peer = session[q][t].ratchet
        /\ secret = Secret(session[p][s]) /\ M = SentIn(p, s) /\ N = SentIn(q, t)
  OBVIOUS
<1>3. /\ s \in Nat /\ t \in Nat /\ secret \in Secrets
      /\ <<p, s>> \in Place /\ <<q, t>> \in Place
      /\ r \in Ratchets(Key) /\ WithinBounds(r)
      /\ peer \in Ratchets(Key) /\ WithinBounds(peer)
  BY <1>1, <1>2, EndTypes
<1>4. PICK T : T = TurnsFrom(secret, p, s, q, t)
  OBVIOUS
<1>5. Together(T, Key, r, "alice", M, peer, "bob", N)
  BY <1>2, <1>4 DEF TogetherAt
<1>6. TurnPair(T, Key, r, "alice", peer, "bob") /\ TurnPair(T, Key, peer, "bob", r, "alice")
  BY <1>5, TogetherSwaps DEF Together
<1>7. PICK fresh, next : fresh = FreshKey(p, s) /\ next = FreshKey(q, t)
  OBVIOUS
<1>8. /\ fresh = RatchetKeyOf(p, s, Len(r.root_key))
      /\ next = RatchetKeyOf(q, t, Len(peer.root_key))
  BY <1>2, <1>7 DEF FreshKey
<1>9. NextPair(T, r, fresh) /\ NextPair(T, peer, next)
  BY <1>1, <1>3, <1>4, <1>5, <1>8, FreshIsNext
<1>10. fresh \in Key /\ next \in Key
  <2>1. Len(r.root_key) \in Nat /\ Len(peer.root_key) \in Nat
    BY <1>3, LenProperties DEF Ratchets, Histories
  <2>. QED
    BY <1>3, <1>8, <2>1, KeyTypes
<1>11. PICK m, d : /\ m = EncryptedMessage(r, fresh, <<p, s>>)
                   /\ d = EncryptedMessage(peer, next, <<q, t>>)
  OBVIOUS
<1>12. NextMessage(p, s).message = m /\ NextMessage(q, t).message = d
  BY <1>2, <1>7, <1>11 DEF NextMessage, SessionMessage
<1>13. m \in Messages(Key, Place) /\ d \in Messages(Key, Place)
  BY <1>3, <1>10, <1>11, EncryptedMessageProperties
<1>14. ASSUME m.counter <= MAX_MESSAGE_GAP
       PROVE  CanDecrypt(peer, m)
  <2>1. WithinGap(peer, m)
    BY <1>3, <1>13, <1>14, LowCounterWithinGap
  <2>. QED
    BY <1>3, <1>6, <1>9, <1>10, <1>11, <2>1, NextReadable
<1>15. ASSUME d.counter <= MAX_MESSAGE_GAP
       PROVE  CanDecrypt(r, d)
  <2>1. WithinGap(r, d)
    BY <1>3, <1>13, <1>15, LowCounterWithinGap
  <2>. QED
    BY <1>3, <1>6, <1>9, <1>10, <1>11, <2>1, NextReadable
<1>. QED
  BY <1>2, <1>12, <1>14, <1>15

(* Once Bob has decrypted something in a session, each end decrypts what   *)
(* the other encrypts next, if no more messages of its chain than the gap  *)
(* were lost: no loss, repetition, reordering, refused call or damaged     *)
(* header makes the two ratchets drift apart.                              *)
THEOREM SessionsWorkHolds == Spec => []SessionsWork
<1>1. ASSUME StateType, SessionsInv, ConversationsInv
      PROVE  SessionsWork
  <2>1. ASSUME NEW p \in Party, NEW s \in Slots[p], NEW q \in Party, NEW t \in Slots[q],
               OtherEnd(p, s, q, t), role[p][s] = "alice", session[q][t].received_message
        PROVE  TogetherAt(p, s, q, t)
    <3>1. PairAt(p, s, q, t)
      BY <1>1 DEF ConversationsInv
    <3>2. DeliveredIn(q, t) # {}
      <4>1. Opened(q, t)
        BY <1>1, <2>1, TwoEnds
      <4>2. RatchetInv(q, t, session[q][t], role[q][t], DeliveredIn(q, t))
        BY <1>1, <4>1, OpenSession
      <4>. QED
        BY <2>1, <4>2 DEF RatchetInv
    <3>. QED
      BY <2>1, <3>1, <3>2 DEF PairAt, AstrayAt
  <2>2. ASSUME NEW d \in Ends, NEW e \in Ends,
               OtherEnd(d[1], d[2], e[1], e[2]),
               \E x \in {d, e} : role[x[1]][x[2]] = "bob" /\ session[x[1]][x[2]].received_message,
               NextMessage(d[1], d[2]).message.counter <= MAX_MESSAGE_GAP
        PROVE  CanDecrypt(session[e[1]][e[2]].ratchet, NextMessage(d[1], d[2]).message)
    <3>1. PICK p, s, q, t : p = d[1] /\ s = d[2] /\ q = e[1] /\ t = e[2]
      OBVIOUS
    <3>2. p \in Party /\ s \in Slots[p] /\ q \in Party /\ t \in Slots[q]
      BY <3>1 DEF Ends
    <3>3. OtherEnd(p, s, q, t) /\ OtherEnd(q, t, p, s)
      BY <1>1, <2>2, <3>1, <3>2, TwoEnds
    <3>4. \/ role[p][s] = "bob" /\ session[p][s].received_message
          \/ role[q][t] = "bob" /\ session[q][t].received_message
      BY <2>2, <3>1
    <3>5. CASE role[q][t] = "bob" /\ session[q][t].received_message
      <4>1. role[p][s] = "alice"
        <5>1. role[p][s] \in {"alice", "bob"} /\ role[p][s] # role[q][t]
          BY <1>1, <3>2, <3>3, OpenSession DEF OtherEnd
        <5>. QED
          BY <3>5, <5>1
      <4>2. TogetherAt(p, s, q, t)
        BY <2>1, <3>2, <3>3, <3>5, <4>1
      <4>3. NextMessage(p, s).message.counter <= MAX_MESSAGE_GAP =>
              CanDecrypt(session[q][t].ratchet, NextMessage(p, s).message)
        BY <1>1, <3>2, <3>3, <4>2, NextIsRead
      <4>. QED
        BY <2>2, <3>1, <4>3
    <3>6. CASE role[p][s] = "bob" /\ session[p][s].received_message
      <4>1. role[q][t] = "alice"
        <5>1. role[q][t] \in {"alice", "bob"} /\ role[p][s] # role[q][t]
          BY <1>1, <3>2, <3>3, OpenSession DEF OtherEnd
        <5>. QED
          BY <3>6, <5>1
      <4>2. TogetherAt(q, t, p, s)
        BY <2>1, <3>2, <3>3, <3>6, <4>1
      <4>3. NextMessage(p, s).message.counter <= MAX_MESSAGE_GAP =>
              CanDecrypt(session[q][t].ratchet, NextMessage(p, s).message)
        BY <1>1, <3>2, <3>3, <4>2, NextIsRead
      <4>. QED
        BY <2>2, <3>1, <4>3
    <3>. QED
      BY <3>4, <3>5, <3>6
  <2>. QED
    BY <2>2, Zenon DEF SessionsWork
<1>. QED
  BY <1>1, ConversationsInvariant, PTL

=============================================================================
