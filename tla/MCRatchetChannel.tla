-------------------------- MODULE MCRatchetChannel --------------------------
(* Instances of RatchetChannel for TLC. *)
EXTENDS RatchetChannel

(* Many chains of few messages, or one chain of many. *)
ChainsOrMessages == { [keys |-> 3, counter |-> 2], [keys |-> 1, counter |-> 5] }

(* last_error is written and never read: states that differ in nothing     *)
(* else have the same successors.                                          *)
IgnoringLastError ==
  << [p \in Party |-> [ratchet[p] EXCEPT !.last_error = "SUCCESS"]],
     generated, encrypted, sent, delivered, decrypted >>

=============================================================================
