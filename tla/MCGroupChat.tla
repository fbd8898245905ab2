---------------------------- MODULE MCGroupChat ----------------------------
(* Instances of GroupChat for TLC. *)
EXTENDS GroupChat

(* last_error is written and never read. *)
IgnoringLastError ==
  << [out EXCEPT !.last_error = "SUCCESS"], made,
     [r \in Receiver |-> [inbound[r] EXCEPT !.last_error = "SUCCESS"]],
     first, reach, evidence, exported >>

============================================================================
