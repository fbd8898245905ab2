--------------------------- MODULE PickledObjects ---------------------------
(***************************************************************************)
(* An application that saves an object of the library, restarts, and loads *)
(* what it saved (the olm_pickle and olm_unpickle functions).              *)
(*                                                                         *)
(* Between the two the stored pickle may be cut or continued, or be one    *)
(* that another release wrote; the application may try a wrong key first,  *)
(* may retry after a failure, and may load into an object that is in use.  *)
(* Encryption is the identity here except for its padding, whose last byte *)
(* follows the pickle in memory, and for its verdict on the key.           *)
(***************************************************************************)
EXTENDS Pickle

CONSTANTS
  Objects,      \* the objects that are saved: Objects[kind] is a set
  Cuts,         \* how many bytes a stored pickle may lack
  Additions,    \* how many bytes may follow it
  BlockLength   \* of the cipher

Kind == {"account", "session", "inbound", "outbound", "pk_decryption"}

VARIABLES
  kind,        \* which of the five kinds of object the application saves
  object,      \* the object in memory, without its last_error
  last_error,
  pickled,     \* what is stored, decrypted
  saved,       \* history: the object that was saved
  damage,      \* history: bytes cut from it (negative) or added to it
  version,     \* history: the version it is marked with
  untouched,   \* history: no pickle was read into the object yet
  outcome      \* history: of the last call

vars == << kind, object, last_error, pickled, saved, damage, version, untouched, outcome >>

(***************************************************************************)
(* The fields, in the order in which they are written and read.            *)
(***************************************************************************)
(* Versions are small but for the one of the logging_enabled branch.       *)
LoggingVersion == 128 * 256^(IntLength - 1) + 1

CurrentVersion == [account |-> 2, session |-> 1, inbound |-> 2, outbound |-> 1, pk_decryption |-> 1]

Written == [
  account |-> << Field("ed25519_key", "pair"), Field("curve25519_key", "pair"),
                 ListField("one_time_keys"), Field("next_one_time_key_id", "uint32") >>,
  session |-> << Field("received_message", "bool"), Field("alice_identity_key", "public"),
                 Field("alice_base_key", "public"), Field("bob_one_time_key", "public"),
                 Field("root_key", "secret"), ListField("sender_chain"),
                 ListField("receiver_chains"), ListField("skipped_message_keys") >>,
  inbound |-> << Field("initial_data", "secret"), Field("initial_counter", "uint32"),
                 Field("latest_data", "secret"), Field("latest_counter", "uint32"),
                 Field("signing_key", "public"), Field("signing_key_verified", "bool") >>,
  outbound |-> << Field("data", "secret"), Field("counter", "uint32"),
                  Field("signing_key", "pair") >>,
  pk_decryption |-> << Field("key_pair", "pair") >>]

(* The functions that read have their own list of fields, in this order.   *)
Read == Written

(* An object whose memory holds nothing yet. *)
BlankObject(k) ==
  [ name \in Names(Written[k]) |->
      IF IsList(TypeIn(Written[k], name)) THEN << >> ELSE Blank(TypeIn(Written[k], name)) ]

(* What each release writes: this one its own version, others those that   *)
(* this one still reads, or a later one that it does not know.             *)
LaterVersion == 3
VersionsOf == [account |-> {1, 2, LaterVersion},
               session |-> {1, LoggingVersion, LaterVersion},
               inbound |-> {1, 2, LaterVersion}, outbound |-> {1, LaterVersion},
               pk_decryption |-> {1, LaterVersion}]

PickleOf(k, v, o) ==
  pickle_value("uint32", v) \o
    CASE k = "inbound" /\ v = 1 -> pickle_fields(Front(Written.inbound), o)
      [] v = LoggingVersion     -> pickle_fields(Written[k], o) \o pickle_value("uint32", 0)
      [] OTHER                  -> pickle_fields(Written[k], o)

PickleLength(k, o) == SizeOf["uint32"] + pickle_length(Written[k], o)

(***************************************************************************)
(* Reading.  Accounts, sessions and decryption keys are read up to one     *)
(* byte past the end, into the padding, so that running out of bytes and   *)
(* reading the last one leave different positions; group sessions are read *)
(* up to the end.                                                          *)
(***************************************************************************)
IsGroup(k) == k \in {"inbound", "outbound"}

Padding(bytes) == BlockLength - (Len(bytes) % BlockLength)

(* Mutant: nothing is read past the end. *)
Limit_AtTheEnd(k, bytes) == Len(bytes)

Limit(k, bytes) == IF IsGroup(k) THEN Len(bytes) ELSE Len(bytes) + 1

VersionError(k, v) ==
  CASE k = "account"  /\ v = 1                       -> "BAD_LEGACY_ACCOUNT_PICKLE"
    [] k = "account"  /\ v \notin {1, 2}             -> "UNKNOWN_PICKLE_VERSION"
    [] k = "session"  /\ v \notin {1, LoggingVersion} -> "UNKNOWN_PICKLE_VERSION"
    [] k = "inbound"  /\ v \notin 1..2               -> "UNKNOWN_PICKLE_VERSION"
    [] k \in {"outbound", "pk_decryption"} /\ v # 1  -> "UNKNOWN_PICKLE_VERSION"
    [] OTHER -> "SUCCESS"

(* The fields of version v into o: the position reached and the object. *)
unpickle_version(k, v, bytes, pos, end, o) ==
  IF k = "inbound" /\ v = 1
  THEN LET r == unpickle_fields(bytes, pos, end, Front(Read.inbound), o)
       IN [r EXCEPT !.object.signing_key_verified = TRUE]
  ELSE LET r == unpickle_fields(bytes, pos, end, Read[k], o)
       IN IF v = LoggingVersion
          THEN [r EXCEPT !.pos = unpickle_value(bytes, @, end, "uint32", 0).pos]
          ELSE r

unpickle(k, bytes, end, o) ==
  LET v     == unpickle_value(bytes, 0, end, "uint32", 0)
      error == VersionError(k, v.value)
  IN [error |-> error] @@
     IF error = "SUCCESS" THEN unpickle_version(k, v.value, bytes, v.pos, end, o)
     ELSE [pos |-> end, object |-> o]

Accepted(k, bytes, r) ==
  /\ r.pos = Len(bytes)
  /\ IsGroup(k) => r.error = "SUCCESS"

(* Mutant: a pickle that is not one of a group session and ends too soon   *)
(* leaves no error.                                                        *)
ErrorAfter_NotCorrupted(k, bytes, r) ==
  CASE r.error # "SUCCESS"                  -> r.error
    [] Accepted(k, bytes, r) \/ ~IsGroup(k) -> last_error
    [] OTHER                                -> "CORRUPTED_PICKLE"

(* All but group sessions keep an error that an earlier call left. *)
ErrorAfter(k, bytes, r) ==
  CASE r.error # "SUCCESS"     -> r.error
    [] Accepted(k, bytes, r)   -> last_error
    [] OTHER ->
         IF IsGroup(k) \/ last_error = "SUCCESS" THEN "CORRUPTED_PICKLE" ELSE last_error

-----------------------------------------------------------------------------
Init ==
  /\ kind \in Kind
  /\ object \in Objects[kind]
  /\ last_error = "SUCCESS"
  /\ pickled = << >> /\ saved = object /\ damage = 0 /\ version = 0
  /\ untouched = FALSE
  /\ outcome = "new"

(* A call that does not read the object: a failed load stays one. *)
Unread == IF outcome = "failed" THEN "failed" ELSE "none"

(* olm_pickle_*, or another release, stores the object in use. *)
Save(v) ==
  /\ ~untouched /\ outcome # "failed"
  /\ pickled' = PickleOf(kind, v, object)
  /\ saved' = object /\ damage' = 0 /\ version' = v
  /\ outcome' = Unread
  /\ UNCHANGED << kind, object, last_error, untouched >>

(* The buffer the application provides is too small. *)
SaveRefused ==
  /\ last_error' = "OUTPUT_BUFFER_TOO_SMALL"
  /\ outcome' = IF outcome = "failed" THEN "failed" ELSE "refused"
  /\ UNCHANGED << kind, object, pickled, saved, damage, version, untouched >>

(* The stored bytes are not those that Save wrote. *)
Damage ==
  /\ pickled # << >> /\ damage = 0
  /\ \/ \E n \in Cuts :
          /\ n <= Len(pickled)
          /\ pickled' = SubSeq(pickled, 1, Len(pickled) - n)
          /\ damage' = -n
     \/ \E n \in Additions :
          /\ pickled' = pickled \o [i \in 1..n |-> 0]
          /\ damage' = n
  /\ outcome' = Unread
  /\ UNCHANGED << kind, object, last_error, saved, version, untouched >>

(* The application restarts, or takes new memory for the object. *)
Restart ==
  /\ object' = BlankObject(kind)
  /\ last_error' = "SUCCESS"
  /\ untouched' = TRUE
  /\ outcome' = "none"
  /\ UNCHANGED << kind, pickled, saved, damage, version >>

(* olm_unpickle_* with a wrong key, of bytes that are not base64, or, for  *)
(* a decryption key, with too little room for its public key.              *)
LoadRefused(error) ==
  /\ pickled # << >>
  /\ error = "OUTPUT_BUFFER_TOO_SMALL" => kind = "pk_decryption"
  /\ last_error' = error
  /\ outcome' = IF outcome = "failed" THEN "failed" ELSE "refused"
  /\ UNCHANGED << kind, object, pickled, saved, damage, version, untouched >>

(* olm_unpickle_* with the right key. *)
Load ==
  /\ version # 0
  /\ \E r \in {unpickle(kind, Append(pickled, Padding(pickled)), Limit(kind, pickled), object)} :
        /\ object' = r.object
        /\ last_error' = ErrorAfter(kind, pickled, r)
        /\ untouched' = (untouched /\ r.error # "SUCCESS")
        /\ outcome' = CASE Accepted(kind, pickled, r) /\ untouched  -> "restored"
                        [] Accepted(kind, pickled, r) /\ ~untouched -> "replaced"
                        [] OTHER -> "failed"
  /\ UNCHANGED << kind, pickled, saved, damage, version >>

Next ==
  \/ \E v \in VersionsOf[kind] : Save(v)
  \/ SaveRefused
  \/ Damage
  \/ Restart
  \/ \E error \in {"BAD_ACCOUNT_KEY", "INVALID_BASE64", "OUTPUT_BUFFER_TOO_SMALL"} : LoadRefused(error)
  \/ Load

Spec == Init /\ [][Next]_vars

-----------------------------------------------------------------------------
HasLists(k) == \E i \in DOMAIN Written[k] : IsList(Written[k][i].type)

(* What a whole pickle holds: version 1 of an inbound group session has no *)
(* flag, and its keys were all verified.                                   *)
Expected ==
  IF kind = "inbound" /\ version = 1 THEN [saved EXCEPT !.signing_key_verified = TRUE]
  ELSE saved

(* Loading a whole pickle gives back the object that was saved, list by    *)
(* list and key by key, in new memory and after any number of attempts     *)
(* with a wrong key or of an unknown version (olm_unpickle_session and its *)
(* like); objects without lists also over an object in use.                *)
Restored ==
  damage = 0 => /\ outcome = "restored" => object = Expected
                /\ outcome = "replaced" /\ ~HasLists(kind) => object = Expected

(* Whatever the object held before, a pickle that is too short or too long *)
(* is never accepted for an account, a session or a decryption key         *)
(* (olm.cpp, "If unpickling terminates too soon"); a group session refuses *)
(* what is too long.                                                       *)
OnlyWholePickles ==
  outcome \in {"restored", "replaced"} =>
    IF IsGroup(kind) THEN damage <= 0 ELSE damage = 0

(* A load that fails leaves an error for the application to read, though   *)
(* it may be that of an earlier call.                                      *)
FailuresAreReported == outcome \in {"failed", "refused"} => last_error # "SUCCESS"

(* The buffer that the application is told to provide is filled exactly:   *)
(* pickle_length counts what pickle writes, whatever the lists hold.       *)
LengthIsExact ==
  PickleLength(kind, object) = Len(PickleOf(kind, CurrentVersion[kind], object))

=============================================================================
