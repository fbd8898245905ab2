------------------------------- MODULE Megolm -------------------------------
(***************************************************************************)
(* The Megolm ratchet (src/megolm.c): a counter and four hash values that  *)
(* are renewed at different rates, so that the ratchet can be advanced by  *)
(* any distance at a small cost.                                           *)
(*                                                                         *)
(* A hash value is the history of its hashing: the names of the parts it   *)
(* was rehashed to, after the random value that it started from.  The      *)
(* counter has four digits, one for each part; a digit has Radix values    *)
(* (a byte in the code), and the counter wraps around after the last.      *)
(***************************************************************************)
EXTENDS Integers, SequencesExt

CONSTANT Radix  \* 256 in the code

ASSUME MegolmConstants == Radix \in Nat \ {0, 1}

Part == 0..3

(* The values that one turn of the digit of part j is worth. *)
Weight(j) == << Radix * (Radix * Radix), Radix * Radix, Radix, 1 >>[j + 1]

(* The number of counters: 2^32 in the code, and half of it. *)
Counters == Radix * Weight(0)
Half == Counters \div 2

(* Distance from one counter to another, in unsigned arithmetic. *)
Distance(from, to) == (to - from) % Counters

megolm_init(random_data, counter) == [data |-> random_data, counter |-> counter]

(* Values that are random, and different for each name. *)
RandomData(name) == [j \in Part |-> <<name, j>>]

(* Mutant: the loop ends one part early. *)
RehashFrom_ButFirst(data, h) ==
  [i \in Part |-> IF i > h THEN Append(data[h], i) ELSE data[i]]

(* rehash_part(data, h, i) for every i from the last down to h. *)
RehashFrom(data, h) == [i \in Part |-> IF i >= h THEN Append(data[h], i) ELSE data[i]]

(* A counter without its digits after that of part j. *)
Masked(counter, j) == counter - (counter % Weight(j))

(* Mutant: the counter goes on after its last value. *)
megolm_advance_NoWrap(m) ==
  [data    |-> RehashFrom(m.data, Min({ j \in Part : (m.counter + 1) % Weight(j) = 0 })),
   counter |-> m.counter + 1]

megolm_advance(m) ==
  LET counter == (m.counter + 1) % Counters
      h == Min({ j \in Part : counter % Weight(j) = 0 })
  IN  [data |-> RehashFrom(m.data, h), counter |-> counter]

(* Mutant: the counter that wrapped around is not noticed. *)
Steps_NoWrap(m, j, to) ==
  (to \div Weight(j) - m.counter \div Weight(j)) % Radix

(* How often megolm_advance_to rehashes part j. *)
Steps(m, j, to) ==
  LET steps == (to \div Weight(j) - m.counter \div Weight(j)) % Radix
  IN  IF steps = 0 /\ to < m.counter THEN Radix ELSE steps

(* One turn of the loop of megolm_advance_to. *)
AdvancePart(m, j, to) ==
  LET steps  == Steps(m, j, to)
      bumped == [m.data EXCEPT ![j] = @ \o [n \in 1..(steps - 1) |-> j]]
  IN  IF steps = 0 THEN m
      ELSE [data |-> RehashFrom(bumped, j), counter |-> Masked(to, j)]

megolm_advance_to(m, to) ==
  AdvancePart(AdvancePart(AdvancePart(AdvancePart(m, 0, to), 1, to), 2, to), 3, to)

(* Whoever has these hash values can hash them on to those of a ratchet:   *)
(* values can be hashed forward, and never back.                           *)
Derivable(values, data) ==
  \A j \in Part : \E value \in values : IsPrefix(value, data[j])

=============================================================================
