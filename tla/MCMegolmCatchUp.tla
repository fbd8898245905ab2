-------------------------- MODULE MCMegolmCatchUp --------------------------
(* Instances of MegolmCatchUp for TLC. *)
EXTENDS MegolmCatchUp

(* One step before one of the first two digits turns. *)
NearTurns == { c \in 0..(Counters - 1) : (c + 1) % Weight(1) = 0 }

============================================================================
