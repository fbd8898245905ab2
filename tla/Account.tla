------------------------------ MODULE Account ------------------------------
(***************************************************************************)
(* olm::Account (src/account.cpp): an identity key, and the one-time keys  *)
(* that others need to open a session with this account.                   *)
(*                                                                         *)
(* A one-time key is an entry of a List, newest first.  Its key pair is a  *)
(* name, which is the name of its public key too.                          *)
(***************************************************************************)
EXTENDS OlmList

CONSTANT MAX_ONE_TIME_KEYS  \* 100000 in the code

ASSUME AccountConstants == MAX_ONE_TIME_KEYS \in Nat \ {0}

new_account(identity_key) ==
  [identity_key         |-> identity_key,
   one_time_keys        |-> << >>,
   next_one_time_key_id |-> 0,
   last_error           |-> "SUCCESS"]

AccountFailed(account, error) == [account EXCEPT !.last_error = error]

(* The positions of the entries for a public key.                          *)
EntriesFor(account, key) ==
  { i \in DOMAIN account.one_time_keys : account.one_time_keys[i].key = key }

lookup_key(account, key) == EntriesFor(account, key) # {}

(* remove_key of a key that lookup_key finds. *)
remove_key(account, key) ==
  [account EXCEPT !.one_time_keys = Erase(@, Min(EntriesFor(account, key)))]

(* Mutant: new keys go to the end, where a full list overwrites the last.  *)
generate_one_time_keys_AtEnd(account, pairs) ==
  LET first == account.next_one_time_key_id
      new   == [i \in DOMAIN pairs |-> [id |-> first + i, published |-> FALSE, key |-> pairs[i]]]
  IN  [account EXCEPT
         !.one_time_keys        = IF Len(@ \o new) <= MAX_ONE_TIME_KEYS THEN @ \o new
                                  ELSE Truncate(@ \o new, MAX_ONE_TIME_KEYS - 1) \o << Last(new) >>,
         !.next_one_time_key_id = first + Len(pairs)]

(* The random bytes make these pairs, one for each key. *)
generate_one_time_keys(account, pairs) ==
  LET first == account.next_one_time_key_id
      new   == [i \in DOMAIN pairs |-> [id |-> first + i, published |-> FALSE, key |-> pairs[i]]]
  IN  [account EXCEPT
         !.one_time_keys        = InsertFirstAll(@, MAX_ONE_TIME_KEYS, new),
         !.next_one_time_key_id = first + Len(pairs)]

mark_keys_as_published(account) ==
  [account EXCEPT !.one_time_keys =
     [i \in DOMAIN @ |-> [@[i] EXCEPT !.published = TRUE]]]

(* What get_one_time_keys_json writes: the keys not yet published, by id.  *)
get_one_time_keys_json(account) ==
  { [id |-> entry.id, key |-> entry.key] :
      entry \in { e \in Range(account.one_time_keys) : ~ e.published } }

============================================================================
