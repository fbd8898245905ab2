---------------------------- MODULE MCKeyObjects ----------------------------
(* Instances of KeyObjects for TLC: random strings are alike. *)
EXTENDS KeyObjects, TLC

Few == [k \in Kind |-> IF k = "account" THEN 3 ELSE 4]
FewTexts == [k \in Kind |-> IF k = "account" THEN 1 ELSE 2]

Alike == Permutations(Random)
=============================================================================
