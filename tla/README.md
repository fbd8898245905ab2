# TLA+ models of self-olm

self-olm is an implementation of the Olm and Megolm ratchets in C and C++: a
library that applications call to hold end-to-end encrypted conversations. This
directory models what the library keeps between calls and what each call does
to it, checks the models with TLC on small instances, and proves some of the
results for every instance with TLAPS.

Paths below are relative to `src/`, the root of the repository.

## The system

The library is passive. It has no threads, no timers and no input or output of
its own: an application calls a function on one object, the object changes and
the call returns a result or an error code that is also stored in the object.
Concurrency and failure come from outside: two ends call their libraries
independently, the network between them loses, repeats, delays, reorders and
damages what they send, and an application may stop and later continue from what
it saved.

| Component | State | Operations | Depends on |
|---|---|---|---|
| List (`include/self_olm/list.hh`) | elements in place, `_end` | insert, erase; a full list discards instead of refusing | - |
| Ratchet (`src/ratchet.cpp`) | root key, sender chain (at most 1), receiver chains (5), skipped message keys (40) | initialise_as_alice/bob, encrypt, decrypt, pickle, unpickle | List, cryptography, message format |
| Session (`src/session.cpp`) | ratchet, received_message, the three keys of the set-up | new_outbound/inbound_session, matches_inbound_session, session_id, encrypt, decrypt | Ratchet, Account, message format |
| Account (`src/account.cpp`) | identity keys, list of one-time keys, next id | create (from random bytes, or all keys from one seed), sign, generate, publish, look up and remove one-time keys | List |
| Megolm ratchet (`src/megolm.c`) | four parts of 32 bytes, 32-bit counter | init, advance, advance_to | cryptography |
| Group sessions (`src/outbound_group_session.c`, `src/inbound_group_session.c`) | outbound: ratchet and signing key; inbound: initial and latest ratchet, signing key, signing_key_verified | session key, encrypt, decrypt, export, import, pickle, unpickle | Megolm, base64 |
| Pickling (`src/pickle.cpp`, `include/self_olm/pickle.hh`, `src/pickle_encoding.c`) | none: bytes of objects | pickle, unpickle, pickle_length, encryption with the application's key | base64, cipher |
| Base64 (`src/base64.cpp`) | none: buffers | encode, decode, often in place | - |
| Message format (`src/message.cpp`) | none: buffers | encode and decode of messages, pre-key messages and group messages | - |
| C API (`src/olm.cpp`) | none of its own | checks buffers, decodes base64, calls the object | all |
| SAS (`src/sas.c`) | key pair, shared secret | create, set their key, generate bytes, calculate MAC | base64 |
| Pk (`src/pk.cpp`) | a recipient key, a decryption key pair or a signing key pair | set or make the key, encrypt, decrypt, sign | base64, pickling |
| Utility (`src/utility.cpp`) | none | verify a signature, SHA-256 | cryptography |
| Cryptography (`src/crypto.cpp`, `src/cipher.cpp`, `src/ed25519.c`, `lib/`) | none | hashes, key agreement, AES and MACs | vendored code |
| Bindings (`android/`, `javascript/`, `python/`, `xcode/`) | a handle to a native object; buffers during a call | one method for each call of the C API: copy arguments in, call, copy the result out, release, report | C API |

### What is hard, and what correctness means

* **Ratchet.** The two ends mix a new secret into the root at different times,
  and messages of several chains are under way at once. Correct means: a message
  is accepted at most once and only if the other end encrypted it; no two
  messages share a key; the keys of past messages cannot be had from what is
  stored; whatever was lost or rejected, the next message can be read; and a
  message that could be read stays so until a full list has to discard its key or its chain. The hard places
  are the lists that silently discard, the off-by-one of every advance of a
  chain, state that changes before a MAC is checked, and the guard that refuses
  a new chain.
* **Session and Account.** The set-up is repeated in every message until an
  answer arrives, so the receiver may see it many times, late, or damaged; both
  ends may open sessions at once; a one-time key must be used once and yet be
  there as long as a message that uses it may arrive. `new_inbound_session` can
  fail half-way and leaves its object half set.
* **Megolm and group sessions.** A counter in base 256 whose digits reseed the
  digits below it, and a jump (`advance_to`) that must give what single steps
  give, also across the wrap of the counter. Receivers keep two ratchets, one of
  them advanced by every message and every export, and compare indexes by their
  distance. Correct means: every message from the first on can be read, in any
  order, and none before.
* **Pickling.** An object is restored exactly or the load is refused; lists are
  read into lists.
* **Message format.** Bytes from anyone: fields in any order, unknown fields,
  lengths and counters without a bound that wrap around, a message cut anywhere.
  Correct means that reading ends, stays before the trailer, returns what was
  written, and refuses what was cut.
* **Base64.** Text is longer than its bytes, and the two often share a buffer.
* **Objects that hold a key.** Keys are made again, handed out before they exist,
  garbled on their way, replaced while something made with them is under way, and
  left half-made by a call that failed. Two libraries make and use Ed25519 keys, and each
  gives 64 bytes of private key a meaning of its own. Correct means: two ends have
  the same secret iff they met each other's keys, a signature verifies for its
  signer and message only, and a ciphertext is read by the key it was made for only.
* **Bindings.** A call holds several buffers and any step of it may fail. Correct
  means that on every path what was allocated is released, secrets are cleared,
  the caller is told of the failure, and a message whose key is gone is handed
  over.

## The modules

| Module | Models | Kind |
|---|---|---|
| `OlmList` | List | operators |
| `Ratchet` | the ratchet object: chains, keys, encrypt, decrypt | operators |
| `RatchetChannel` | two ratchets and the network between them | state machine |
| `SecureChannel` | what the two promise together | abstract state machine |
| `Ratchet_proofs` | lemmas about one ratchet object, for any keys | proofs |
| `RatchetChannel_proofs` | theorems about `RatchetChannel`, and that it implements `SecureChannel` | proofs |
| `Account`, `Session` | the account and the session object | operators |
| `OlmSessions` | accounts, sessions, the key server and the network | state machine |
| `OlmSessions_proofs` | theorems about `OlmSessions` | proofs |
| `Megolm` | the Megolm ratchet | operators |
| `MegolmCatchUp` | one step at a time against jumps | state machine |
| `Megolm_proofs` | lemmas about induction, division, digits, jumps and one-wayness; theorems about `MegolmCatchUp` | proofs |
| `GroupSession` | outbound and inbound group sessions | operators |
| `GroupChat` | one sender, receivers, exports and imports | state machine |
| `GroupChat_proofs` | theorems about `GroupChat` | proofs |
| `Pickle` | how values, lists and objects become bytes and come back | operators |
| `PickledObjects` | saving, restarting and loading with retries | state machine |
| `MessageFormat` | varints, fields, encoders and decoders of the three kinds of message | state machine |
| `MessageFormat_proofs` | theorems about `MessageFormat` | proofs |
| `Base64` | encoding and decoding group by group in one memory | state machine |
| `Base64_proofs` | theorems about `Base64` | proofs |
| `Keys` | Curve25519 and Ed25519 keys, agreement and signatures, by either library | operators |
| `KeyObjects` | accounts' identity keys, SAS, Pk encryption and signing, verification | state machine |
| `KeyObjects_proofs` | theorems about `KeyObjects` | proofs |
| `BindingScripts` | the steps that methods of the bindings are made of | operators |
| `AndroidSessions`, `AndroidGroups`, `AndroidOthers` | the methods of the Java classes with their JNI functions | operators |
| `JavaScript`, `Python`, `ObjectiveC` | the methods of these bindings | operators |
| `BindingCalls` | an object of a class, and calls of its methods that fail at any step | state machine |
| `MC...` | constants of the instances | instances |

Composition: `OlmList` <- `Ratchet` <- `RatchetChannel`, and `Session` uses
`Ratchet` and `Account` under `OlmSessions`; `Megolm` <- `GroupSession` <-
`GroupChat`; `OlmList` <- `Pickle` <- `PickledObjects`; `Keys` <- `KeyObjects`; `BindingScripts` <- the
modules of the languages, which `MCBindingCalls` gives to `BindingCalls` as a
constant. `RatchetChannel` instantiates `SecureChannel` with a refinement mapping.

### How state and actions correspond to the code

An object is a record with the fields of its struct, and a function of the code
is an operator of the same name from object to object. An action is one call of
the C API, from its checks of buffers to its last assignment; since the library
has no threads, a call is a step. Failed calls are actions as well: they keep
what the code keeps, and only that. For example `DecryptedOnChain` in `Ratchet`
is the end of `Ratchet::decrypt` with every skipped key that is stored and the
advance of the chain, `WithGroupKeys` in `GroupSession` is the part of
`_init_group_session_keys` that is done before the signature is checked, and
`SessionCallFails` in `OlmSessions` changes `last_error` alone.

`last_error` is part of the objects. Except in `PickledObjects`, where a load
reads it, the code never reads it, and the runs leave it out of the view.

**A decoder is a loop.** In `MessageFormat` a step is one call of `decode`, for the
field that is next in the round, or the end of a round with its call of
`skip_unknown`. The three decoders differ in their fields only, which are the
constant function `Fields`. The types of counters and lengths are constants
(`UINT32`, `SIZE_T`): what wraps is their number of values. What a decoder leaves
unset when it returns early is any value.

**A binding is a script.** The methods of the bindings are straight lines: checks,
allocations, a call of the library, a result, and a cleanup that runs on every
way out (the "free alloc" part of a JNI function, a `finally` block, nothing where a
garbage collector owns the memory). `BindingScripts` has one operator for each kind of step,
each method of each class is one definition made of them, in the order of the code, and
`BindingCalls` runs them: each step passes, or fails in the way the code treats
its failure (reports it, leaves with an empty answer, goes on, or crashes). The
Java method around a JNI function is wrapped around its script with `Around`.
What the library does inside a call is not repeated there: a call passes or
fails, and `Advance` marks those that use up a message key.

**Cryptography is symbolic.** A key is the history of what it was derived from
(the secrets mixed into the root, then the number of hashes), so two keys are
equal iff they were derived alike; a MAC verifies iff the key and the content
are those it was made with; a signature is the name of its signer. A hash cannot
be inverted: `Derivable` in `Megolm` and the stored keys in `RatchetChannel`
define what can be had from a value by hashing forward. Collisions, guesses and
the algorithms themselves are outside the models.

**The environment.** The network is the set of all messages ever sent, any of
which may arrive at any time at either end, as it is or changed: that covers loss,
repetition, delay, reordering and reflection. In `OlmSessions` the application
and the key server are assumed to do what `USAGE.md` and `olm.h` ask for: a
one-time key is given to one session; a pre-key message goes to the session it
matches, if there is one; a session that was opened by a message is not
forgotten before its one-time key is removed. In `GroupChat` nothing arrives that
is older by half of the counters or more than what was seen, 2^31 messages in the
code.

## The runs

| Run | Instance | Shows |
|---|---|---|
| `channel` | 3 ratchet keys and chains of 2 messages, or 1 ratchet key and chains of 5 messages; lists of 2 receiver chains and 2 skipped keys, gap 3 | `NoReplay`, `Authentic`, `UniqueKeys`, `UsedKeysAreGone`, `RootsInStep`, `NeverWedged`, the action property `KeptUntilDiscarded`, that the two ratchets implement `SecureChannel`, `TypeOK`, and `ReplayInv`, the invariant of the proof |
| `sessions` | Alice opens and Bob answers, with every field of the pre-key message damaged; or Alice opens two sessions, and Bob makes 3 one-time keys and can hold 2; or both open one at once | `DeliveredInItsSession`, `NoReplayInAnySession`, `MessagesFindTheirSession`, `FirstContactWorks`, `SessionsWork`; `PublishedKeysWork` until newer keys push a key out; `TypeOK` |
| `megolm_catchup` | digits in base 3, 81 counters, starts next to the turns of the digits | `JumpsAgree`: every jump gives what single steps give; `OneWay`: no earlier value can be derived from a later one |
| `group_history` | digits in base 2, 16 counters, start 11 so that the counter wraps, 10 messages | `ReadsFromFirst`, `NoHistory`, `TypeOK` |
| `group_verified` | the same, over a session that is re-imported | violates `VerifiedHasEvidence` (finding) |
| `pickled_objects` | all five kinds of object, lists from empty to full, every cut, two lengths of addition, all versions | `Restored`, `OnlyWholePickles`, `FailuresAreReported`, `LengthIsExact` |
| `message_format` | the three kinds with short and empty strings and varints of 1 and 2 bytes, fields in every order, unknown fields at every place, cuts at every byte, and short strings of bytes that no encoder writes; counters of 512 and lengths of 1024 values | `StringsLieInside`, `EncodedIsDecoded`, `CutIsRefused`, and that the decoder returns: `DecodingEnds` |
| `base64_buffers` | all inputs of up to 5 bytes out of 3 values, one input of each length to 34, four layouts | `UnreadIntact`, `ResultIsBase64` |
| `base64_sas` | a MAC of 32 bytes, encoded where it lies | violates `ResultIsBase64` (finding) |
| `binding_calls` | all 36 classes of the four bindings, all their methods, every step passing or failing | `NothingKept`, `SuccessIsReal`, `SecretsWiped`, `NothingLost`, but for the deviations below |
| `key_objects` | both ends with objects of each kind, 4 random strings (3 for accounts), 2 texts (1 for accounts), 2 messages | `ExchangeAgrees`, `SignaturesTellTheSigner`, `CiphertextsFindTheirKey` |
| `account_signatures` | the same | violates `AccountSignaturesVerify` (finding) |

Every property of a passing run has a mutant of the code's definition (named
`..._Something`, next to the definition) under which TLC finds it violated.

### The bounds, and why they are enough

* `MAX_RECEIVER_CHAINS`, `MAX_SKIPPED_MESSAGE_KEYS`, `MAX_MESSAGE_GAP` and
  `MAX_ONE_TIME_KEYS` are 5, 40, 2000 and 100000 in the code. They are constants
  here, given values that the bounds on messages exceed: every list overflows,
  within one message and over several, and the gap, larger than the list as in
  the code, is reached and exceeded.
* `Bounds` and `MaxMessages` bound the length of a behaviour. `Bounds` is a set, so
  that one run covers scenarios that are long in different directions:
  a behaviour of `RatchetChannel` stays within one of its elements, and
  one of `OlmSessions` picks one at the start (`bounds`). Three ratchet keys give each end a
  chain that was replaced while its messages were under way, an old chain that
  was discarded, and the first message of a chain after a gap. The chain that is
  discarded, read late, is the case `NoReplay` is about.
* `Radix` is 256 in the code. What Megolm does depends on which digit turns and
  on whether a digit goes by nothing, by some or by all of its values; radix 3
  has all three for every digit, radix 2 reaches the wrap of the counter within
  few messages.
* `IntLength` and `KeyLength` are 4 and 32 bytes in the code. The pickles of the
  run are cut at each of their bytes, so that every field is cut at its start,
  inside and at its end.
* Base64 handles three bytes at a time and the groups are alike, so two groups
  with every kind of last group are the general case; longer inputs are there
  for the distance of input and output, which grows with the length and is the
  subject of the first theorem.
* Counters and lengths have 9 and 10 bits in the run, so that a varint of two bytes
  overflows them as five and ten bytes do the 32 and 64 bits of the code. The
  trailers have one byte for the MAC and one for the signature, so that
  reading one byte too far shows.
* `MaxRandom` and `MaxTexts` bound how often keys are made and used in `KeyObjects`.
  Four keys are enough for either end to make its key a second time after the first
  was handed out; two texts for one that was made before and one after that. The
  theorems hold for any numbers. Random strings are a symmetry set: they are only
  compared.
* Scripts are as long as the code, and at any time one method runs on one object,
  so `binding_calls` has no bound but the set of steps that are told apart.

### Fairness

`MessageFormat` has weak fairness of its next-state relation: a decoder is a loop in
a function call, and a processor that has entered it runs on until it returns.
`DecodingEnds` says that it does return, whatever the bytes are.

None is assumed elsewhere. Nothing in the library runs by itself, so there is
nothing the code would have to schedule: that a message is ever sent or delivered,
or that a method is ever called, is up to the application. What would be liveness
elsewhere is stated as safety of the next call: `NeverWedged`, `SessionsWork` and
`FirstContactWorks` say of every reachable state that the next message would be
decrypted, `ReadsFromFirst` that any message could be read now. The bounds end
a behaviour; runs whose machines stop by themselves (`Base64`, `MessageFormat`) say so in
their configuration.

## What is proved

Every safety property of `RatchetChannel`, `OlmSessions`, `MegolmCatchUp`, `GroupChat`,
`MessageFormat`, `Base64` and `KeyObjects` that a passing run checks is a theorem.

### The ratchet and its channel

`RatchetChannel_proofs`, for all values of the constants that `RatchetConstants` and
`ChannelConstants` allow (in particular all sizes of the lists, all gaps, any
number of messages and ratchet keys), over the lemmas of `Ratchet_proofs` about what
each operator does to one ratchet:

* `TypeCorrect`: `Spec => []TypeOK`. Besides types this says that every list
  fits its storage and that `encrypt` always has a chain to use or to answer.
* `ReplayInvariant`, `NoReplayHolds`: `decrypt` never accepts a message twice.
* `AuthenticHolds`, `UniqueKeysHolds`, `UsedKeysAreGoneHolds`, `RootsInStepHolds`,
  `NeverWedgedHolds`: what the two ends promise each other.
* `KeptUntilDiscardedHolds`: the action property. A message that can be decrypted stays so
  until it is decrypted, or until the message that is decrypted pushes this one's own
  key or chain out of a full list: the last chain of five when a sixth begins, or a key
  that has 40 newer ones before it. What else is in the lists must survive the
  same step (`InsertFirstKeeps`, `DecryptKeepsReadable`).
* `SecureChannelImplemented`: `Spec => ImplementsSecureChannel`: initial states map to
  initial states of `SecureChannel`, and every step to one of its steps or a stutter.
  Deliveries are counted on both levels (`decrypted`, `returned`), so that a `decrypt`
  that returns a message a second time is no stutter: the refinement needs both
  `Authentic` and `NoReplay`.

*No replay.* `NoReplay` by itself is not inductive: it speaks of what would
verify now, and a step that discards a chain makes an old message look like the
first of a new one. `ReplayInv` says of each end alone, with the network and the
other end doing anything:

1. *OldKeys*: the length of the root key dates every key derived from it. All
   that the ratchet has used or stores is at most as long as its root, and a new
   chain is one secret longer, so that an old message can never verify as the
   start of a new chain.
2. *DistinctKeys*: chains and skipped keys that are stored are distinct in what
   they could verify.
3. *ChainsArePast*: if the chain of a used key is still stored, it is past the
   key's index.
4. *UsedNotSkipped*: no stored skipped key is one that was used.

A step decrypts with a skipped key (which is erased: 4), on an existing chain
(which moves past the message; the keys it skips were never used: 3 and 4), or
on a new chain (1). Encryption and failures change nothing that matters, or make
the root longer. There is a lemma for each case and one for each operator on
lists. The run `channel` checks `ReplayInv` as an invariant as well.

*The two ends.* `PairInv` numbers the chains. The ends take turns: chain `n` is
Alice's if `n` is even and Bob's if it is odd, and its ratchet key (`KeyOf`) and its
root (`RootOf`, the agreements of all neighbours up to it) follow from `n` alone. The
invariant says that all that is stored by either end or was sent is of the chain that
the length of its history names, that the end whose turn it was last has the newest
chain, and that nobody is more than one chain ahead. A key then names its message,
which gives `UniqueKeys` and `Authentic`; the keys before those that are stored are
gone, because hashing only goes on (`UsedKeysAreGone`); and the next message of either
end is on a chain that the other has or is about to start, which gives `NeverWedged`.
`CountInv` counts: an end has sent no more messages on the chains below a counter
than these have places for. The refinement needs it, as `SecureChannel`
has a bounded set of messages. Which keys one message pushes out of a list depends on places only
(`InsertFirstAllLength`, `InsertFirstKeeps`), and `KeptUntilDiscarded` says which they are.

### Accounts and sessions

`OlmSessions_proofs`, for any number of parties, slots, one-time keys and messages and
any limits of the lists: `TypeCorrect`, `PublishedKeysWorkHolds`,
`DeliveredInItsSessionHolds`, `NoReplayInAnySessionHolds`,
`MessagesFindTheirSessionHolds`, `FirstContactWorksHolds`, from `SessionsInvariant`, and
`SessionsWorkHolds`, from `ConversationsInvariant`. The first invariant has three parts.

1. *Lists.* Entry `i` of an account's list is at least `i - 1` keys old, the ids fall, and
   every key that was ever made is in the list, was removed, or is as many keys old
   as the list holds. `PublishedKeysWork` is read off.
2. *Secrets.* All that a ratchet stores or sends starts with the secret of its session
   (`From`), and a secret names the two identities, the base key and the one-time key, hence
   the session. Two sessions of a party with the same secret would have used one
   one-time key twice (`OneSession`). So a message verifies in its own session only.
3. *What was seen.* `received_message` is set only if something was decrypted, so the other
   end has the session; before that, Alice has nothing but her first chain, and every message of
   hers carries the set-up from which Bob's session is made.

`SessionsWork` needs what is true of the two ends of a session together, for each of any
number of sessions that go on at once, and of a session whose other end does not exist
yet. `ConversationsInv` says for each end that is Alice's:

* `AloneAt`: until she has decrypted something, her ratchet is as `initialise_as_alice`
  made it, but for the counter, and all she sent is on that first chain.
* `PairAt`: with the other end she is *together* or the two are *astray*.
  `Together` (`Ratchet_proofs`) is the numbering of chains of `PairInv` for any two
  ratchets: the chains from the secret on are numbered (`TurnsFrom`, for a secret of three, begins
  with 3), odd ones are Alice's and even ones Bob's, and all that either end stores or sent is
  of the chain that the length of its history names. `Astray` is what a pre-key
  message can cause whose inner header was changed on its way: `new_inbound_session` takes
  the ratchet key of the message before anything is verified, so Bob's ratchet
  waits for a chain that Alice does not have. Then neither end reads anything of the other, ever
  (`AstrayReadsNothing`, `AloneReadsNothing`), and `received_message` of Bob's
  end, which `SessionsWork` asks for, is never set.
* `BaseInv`: a base key that is named anywhere is of an end that has begun, so that no Bob
  can be made for an Alice who is not there.

`Begins` shows that the session that `new_inbound_session` makes is one or the other;
`TogetherEncrypts` and `TogetherDecrypts` that they stay together; and with `NextReadable` the next
message is on a chain that the other end has or is about to start. Calls that fail, other sessions and
the accounts change nothing of a pair (`Rests`, `OneActs`).

### Megolm and groups

`Megolm_proofs` is about the operators, for every radix. Let `n` be the number of a
message without its wrap, `Up(n, j)` how often the digit of part `j` has turned since
0. `JumpIs`: `megolm_advance_to` from `c` to `n` rehashes part `j` exactly `Turns(c, n, j)`
times, through the masks, the wrap and the whole turn of the first digit in the code's loop.
`NextTurns`: from `n` to `n + 1` one digit goes up by one, those before it stay, and
those after it become 0. So `JumpThenStep`: a jump and then a step of
`megolm_advance` is the jump that is longer by one; and `JumpsCompose`, by induction. `PrefixFree`: no
part's history is a prefix of another's. A step hashes on the value of one part and
overwrites all after it, so the old value is not left, nor anything it could be hashed
from (`NoWayBack`), after any number of further steps (`PastAndOn`).

The theorems about `MegolmCatchUp` follow in the same module, for any counter to start from and
any number of steps: `RatchetsAreTyped`, `JumpsAgreeHolds` and `OneWayHolds`. The property `JumpsAgree` speaks of the
moments when the ratchets are at the same message; inductive is that, at every moment,
the ratchet ahead is one jump of the lag from the ratchet behind (`AlwaysTheLagAhead`).

`GroupChat_proofs`, for any number of receivers and any start: `TypeCorrect`,
`ReadsFromFirstHolds`, `NoHistoryHolds`. The invariant (`RatchetsOfTheGroup`) says that every
ratchet, of the sender, of a session, of an export, is the one after a number of
messages, and that `first`, `reach` and the export's `number` are these numbers. What is
known or not is then arithmetic of distances (`DistanceIs`). The hypothesis
`FewerThanATurn` limits the messages to less than a turn of the counter, 2^32 in the code.
It is needed: beyond it, two messages have the same index, and `_get_megolm` takes a
message for one a turn earlier (TLC finds `ReadsFromFirst` violated for radix 2 with
more than 16 messages). It limits neither the start nor turns of the counter on the way.

Induction over numbers, and that the function `RatchetAt`, which is defined by recursion, exists
(`Recursion`), are proved from the well-foundedness of the numbers: a set of them that is
not empty has a least element (`LeastNumber`).

### The message format

`MessageFormat_proofs`, for all contents, all bytes from elsewhere, and all widths of types and
lengths of keys and trailers:

* `StringsLieInsideHolds`: whatever the bytes are. `ReadingInv` says where a decoder may be,
  and that each string it has found ends before the trailer.
* `EncodedIsDecodedHolds`: the encoders write as many bytes as their length functions
  promise, and the decoders read back what was written, with the fields in any order or with an
  unknown field between.
* `CutIsRefusedHolds`: what is left of a message that was cut is refused, or its last
  string is taken to be empty.

The assumptions (`FormatConstants`) are what the types of the code say: counters fit in 32 bits, lengths in
`size_t`, keys have the length of keys, and an unknown field is of one of the two wire types that
`skip_unknown` can skip (fields of others end the reading in the code as well), with a tag
that no known field has. A known tag inside an unknown field does no harm: fields are skipped
whole.

*Varints.* `varint_length`, `varint_encode` and `varint_decode` are recursive functions. That they
exist and obey their rules is `Recursion`: what they are asked for gets smaller each time, so up to each
number there is just one function that does. `EncodedVarint`: the bytes are at or above 128, but for the
last; so `varint_skip` finds the end of a varint (`SkipAt`), and only of a whole one
(`SkipCut`). `DecodeEncoded`: the value comes back if it is less than the number of values of the type.

*Parts.* A message is the version, parts and a trailer. `PartsJoined` gives each byte of the
message by its part and its place there, `EncodedIs` the sum of the lengths, and `RearrangedIs` the parts
of a message whose fields were rearranged: `which[j]` is the field of part `j`, or 0 for an unknown one.

*Reading.* `WholeInv` says of a message that is whole that the decoder is always at the beginning of
a part or at the end, that the fields of all parts before are read and right, and that
the fields it was called for since the round began are not that of the part it is at. The last is needed: the
decoder asks for fields in their order, and skips a part as unknown if a round finds nothing; without it,
a round could end before a known part, having moved nowhere. `CutInv` says the same of places for a
message that was cut, whose parts are in order. The part with the cut ends the reading: a string in it
is not set, or is empty, as a length of which nothing is left reads as zero. If it is the last part, that
is the claim; if it is an earlier one, the last string was never met.

### Base64 and objects that hold a key

`Base64_proofs`, for inputs of any length:

* `UnreadIntactHolds`: in every layout but that of the SAS MAC, no group is
  written over input that is still to be read. The invariant `Gap` says how far the
  output is behind the input; where text and input end together, by exactly what
  the rest of the text is longer than the rest of the input (`TextGrows`), which
  is why encoding from the end of the buffer is safe and encoding in place is
  not.
* `ResultIsBase64Holds`: in the same layouts, what encoding writes is `Base64Of` its
  input, bit by bit, and decoding a text gives back its bytes, with the lengths that
  `encode_base64_length` and `decode_base64_length` told the caller. `WrittenSoFar` is
  inductive beside `Gap`: the output has the text of the whole groups so far, or the
  bytes of the whole groups of characters. It rests on what one group becomes:
  `SextetOfGroup` (the four sextets, out of the bits of three bytes), `EncodedGroup` (the
  shifts and masks of the loop and of the last group give those), and `DecodedGroup` with
  `SextetOfCharacter` (the tables and the shifts of decoding undo it). The only
  assumption is that inputs are sequences of bytes.

`KeyObjects_proofs`, for any number of random strings, messages and texts:

* `ExchangeAgreesHolds`, `SignaturesTellTheSignerHolds`, `CiphertextsFindTheirKeyHolds`:
  the three properties of `key_objects`.
* `KeysBelong`: their inductive invariant. The properties speak of the last call and
  the last exchange; whether they hold was decided when the keys were made. The
  invariant says that a pair that was made completely is in the format of the library
  that will use it (`SigningPairs`, `CurvePairs`), that signatures and ciphertexts
  that are about were made from such pairs (`Signatures`, `Ciphertexts`), and that
  the keys either end has or had in its last exchange are never keys of the other
  (`Exchanges`), without which equal secrets would not mean that the ends met. The
  only assumption is that no key is all zeros (`ZerosAssumption`).

### What only TLC checks

* `DecodingEnds`: liveness under fairness, which the prover cannot state facts about.
* What the folds of `Pickle` compute: induction over data. The way it was done for Megolm and the
  varints is open to them where a fold can be replaced by a function over the numbers.
* `PickledObjects` and `BindingCalls`, whose scripts and layouts are data that the runs give.
* The properties that the violated runs refute (see the findings).

## Findings

* **The MAC of SAS is not the base64 of the MAC** (`base64_sas`).
  `olm_sas_calculate_mac` (`src/sas.c:139`) encodes the MAC from and to one
  buffer. `base64.h:38` says that the raw input is encoded, but from the second
  group on, characters of the first are encoded in place of bytes: the text
  depends on 6 of the 32 bytes. Both ends agree on it, which is all that
  `tests/test_sas.cpp` compares. A MAC by another implementation differs.
* **A re-imported group session stays verified** (`group_verified`).
  `signing_key_verified` is set and never reset, so that an import into a session in
  use is reported as verified with no evidence for the new keys.
* **Accounts of `olm_create_account` make signatures that do not verify**
  (`account_signatures`). The key is made by `lib/ed25519`, which stores the private
  key expanded: the hash of the seed, whose first half is the scalar. `Account::sign`
  (`src/account.cpp:189`) gives it to `crypto_sign` of libsodium, which takes it for a seed
  and a public key, hashes the first half again, and binds the signature to the second.
  `olm.h:199` says that the message is signed with the key for this account, and
  `tests/test_olm_signature.cpp:75` asserts it of such an account. Accounts of
  `olm_create_account_derrived_keys` have keys of libsodium, and their signatures verify, as
  those of `OlmPkSigning` do, which stays with `lib/ed25519` (`SignaturesTellTheSigner`).

### Deviations of the bindings

The properties of `binding_calls` are those the bindings follow nearly
everywhere: in the JNI functions by their "free alloc" part, in JavaScript by `finally`
blocks, in Python and Objective-C by clearing and error checks after each call. Where they do not, the class, the method
and the buffer or call are listed in `MCBindingCalls` as `MCKnownKept`, `MCKnownUnsaid`,
`MCKnownUnwiped` and `MCKnownLost`; a deviation that is not listed is a violation. So the properties hold of the many
methods that follow the rule, one of which each hazard names; the places where it is broken
are these:

* *Kept after the call.* Android: `olm_pk.cpp` releases only on success in `generateKey`,
  `setPrivateKey`, `privateKey`, `initWithSeed` and `sign`, and its `decrypt` takes the string of
  the ciphertext twice into one pointer and never releases the first; the SAS object when
  `olm_create_sas` fails (`olm_sas.cpp:67`); the random buffer that could not be filled
  in `olm_session.cpp:121` and its like. JavaScript: the constructor of `SAS` takes stack and never
  restores it (`olm_sas.js:4`).
* *Success though a step failed.* Android: `verifyEd25519SignatureJni`
  (`olm_utility.cpp:97`) answers null for a good signature, and also where it cannot get at the native
  object or at an argument, though `OlmUtility.java:77` promises an exception if the operation fails; the
  result of `olm_sas_generate_bytes` (`olm_sas.cpp:207`), `OlmPkEncryption` with a null object or
  key, `messageIndex` of a null session, `removeOneTimeKeys` with a null session. JavaScript:
  `olm_create_sas`. Python: `olm_pk_encryption_set_recipient_key`. Objective-C: `encodeWithCoder`
  archives nil when pickling fails, `initWithCoder` of another version returns an object
  without a native one (`OLMAccount.m:240`), `generateOneTimeKeys` only logs, `OLMSAS` and
  `OLMPkEncryption` ignore results.
* *Secrets not cleared.* JavaScript: the random bytes of accounts and outbound group sessions.
  Android: a second copy of the session key and of clear messages. Python: random bytes, always.
  Objective-C: random bytes and seeds on the paths that fail (`OLMSession.m:215`,
  `OLMPkDecryption.m:84`, `OLMPkSigning.m:57`).
* *A message lost.* `OLMSession.m:289` and `session.py:321` turn the plaintext into text after
  the ratchet has moved: if it is not valid text, it is gone.

### Smaller things

Things that the models show and no run is spent on: `olm.h:284` promises
`BAD_MESSAGE_VERSION` of `olm_create_inbound_session`, while `new_inbound_session`
reads the version of the pre-key message and never compares it (`session.cpp:128`; in
`sessions` a message of another version arrives and opens a session like any other);
`crypto_sign` writes the message after the signature, so that `olm_account_sign` needs more room than the 64 bytes it
checks (`account.cpp:181`); an exchange of SAS with a key that is all zeros, as
`olm_sas_get_pubkey` gives out before `olm_create_sas`, succeeds with a secret that anybody
knows; the MAC of `olm_pk_encrypt` depends on the secret only, so that a damaged ciphertext
is decrypted to something else or fails by its padding; `docs/megolm.md` counts
at most 1020 hashes for a jump, the code does a few more; a group message
more than 2^31 ahead of, or behind, what was seen is answered with
`UNKNOWN_MESSAGE_INDEX` although it came after the session key; a pickle of a
group session that was written short is accepted, as it is read up to the real
end (`OnlyWholePickles` is stated accordingly); a load into an object in use adds to
its lists, and the error of an earlier call hides `CORRUPTED_PICKLE` (`FailuresAreReported`
asks for an error, not for the right one); a cut message
may be accepted with an empty last string, as a tag at the very end is read with
a length of zero (`CutIsRefused` is stated accordingly, and the callers refuse an empty ciphertext);
`new_inbound_session` copies the identity key of a message that may have none when the caller
gives one (`session.cpp:146`), which `Accepted` leaves out: it is the check without
a key from the caller.

## Not modelled, and why

* `message.cpp` inside the other models: there, messages are records that decode or do
  not, which `EncodedIsDecoded` and `CutIsRefused` justify.
* `crypto.cpp`, `cipher.cpp`, `ed25519.c` and `lib/` beyond the symbolic rules
  above: out of a model checker's reach bit by bit.
* SHA-256 of `utility.cpp`, `memory.cpp`, `error.c`: pure functions and clearing of memory;
  the functions that clear a whole object (`olm_clear_...`).
* In the bindings: getters of plain values, `OlmManager`, `OLMMessage`, build scripts,
  assertions that release builds leave out, and the bytes of arguments and results. JNI methods are
  called by one thread at a time: the Java and Objective-C classes do not lock, and the documentation
  promises nothing to callers that share an object.
* Lengths of output buffers and amounts of random bytes appear as failing calls,
  without numbers.

## Plan

Done, in this order: the ratchet and its channel with the abstract
`SecureChannel`; accounts and sessions; Megolm and group sessions; pickles;
base64; the bindings; the message format; the objects that hold a key; the theorems above.

Next are theorems:

1. `NothingLost` and `NothingKept` of `BindingCalls` for every script of a shape that the
   scripts of the bindings have.
2. `OnlyWholePickles` and `Restored` for objects of any layout.

Models that could follow: an application that saves, crashes and comes back with an older
pickle, over `RatchetChannel`.
