--------------------------- MODULE SecureChannel ---------------------------
(***************************************************************************)
(* What an Olm session is for, without keys: each party's messages reach   *)
(* the other party or are lost, never twice, never altered, in any order.  *)
(* A message is its sender and what it says.                               *)
(***************************************************************************)
EXTENDS Naturals

CONSTANTS
  Party,
  Plaintext

VARIABLES
  sent,      \* the messages of all parties
  delivered, \* the messages each party has been given
  returned   \* how often each party has been given a message: a repetition counts

vars == << sent, delivered, returned >>

Init ==
  /\ sent = {}
  /\ delivered = [p \in Party |-> {}]
  /\ returned = [p \in Party |-> 0]

(* A message is new, whoever sends it. *)
Send(p, text) ==
  /\ <<p, text>> \notin sent
  /\ sent' = sent \cup {<<p, text>>}
  /\ UNCHANGED << delivered, returned >>

(* p is given a message of another party that it was not given before;     *)
(* nothing else that p is given is allowed.                                *)
Deliver(p, m) ==
  /\ m[1] # p
  /\ m \notin delivered[p]
  /\ delivered' = [delivered EXCEPT ![p] = @ \cup {m}]
  /\ returned' = [returned EXCEPT ![p] = @ + 1]
  /\ UNCHANGED sent

Next ==
  \E p \in Party :
    \/ \E text \in Plaintext : Send(p, text)
    \/ \E m \in sent : Deliver(p, m)

Spec == Init /\ [][Next]_vars

=============================================================================
