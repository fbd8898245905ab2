------------------------------ MODULE OlmList ------------------------------
(***************************************************************************)
(* olm::List<T, max> (include/self_olm/list.hh): a list of at most max     *)
(* elements stored in place.  A list is a sequence; position 1 is begin()  *)
(* and position Len(list) + 1 is end().                                    *)
(*                                                                         *)
(* The list never refuses an insertion: when it is full the last element   *)
(* is discarded.  Everything the ratchet and the account forget, they      *)
(* forget through this rule.                                               *)
(***************************************************************************)
EXTENDS Integers, SequencesExt

(* What is left of a sequence in a buffer of max elements. *)
Truncate(s, max) == SubSeq(s, 1, IF Len(s) < max THEN Len(s) ELSE max)

(* insert(): at the beginning. *)
InsertFirst(list, max, value) == Truncate(<<value>> \o list, max)

(* Mutant: nothing is discarded. *)
InsertFirstAll_Unbounded(list, max, values) == Reverse(values) \o list

(* Mutant: a full list gives up its first elements instead of its last. *)
InsertFirstAll_FirstDiscarded(list, max, values) == Reverse(Truncate(Reverse(list) \o values, max))

(* insert(end()) makes a place after the last element, holding blank; when *)
(* the list is full, the place is the last element's.                      *)
WithPlaceLast(list, max, blank) ==
  IF Len(list) < max THEN Append(list, blank) ELSE list

(* n calls of insert(), of value[1], value[2], ... in this order. *)
InsertFirstAll(list, max, values) ==
  Truncate(Reverse(values) \o list, max)

(* erase(pos) *)
Erase(list, pos) == RemoveAt(list, pos)

============================================================================
