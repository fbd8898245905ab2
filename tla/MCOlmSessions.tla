--------------------------- MODULE MCOlmSessions ---------------------------
(* Instances of OlmSessions for TLC. *)
EXTENDS OlmSessions

CONSTANTS alice, bob

Both == {alice, bob}

Each(a, b) == [p \in Both |-> IF p = alice THEN a ELSE b]

(* Alice opens a session; Bob has one key and memory for two sessions.     *)
(* Any field of a pre-key message may arrive changed.                      *)
OneWay ==
  [slots |-> Each({1}, {1, 2}), keys |-> Each(0, 1), counter |-> 2, ratchets |-> 1,
   damage |-> Field]

(* Each opens a session with the other, at the same time. *)
BothWays ==
  [slots |-> Each({1, 2}, {1, 2}), keys |-> Each(1, 1), counter |-> 1, ratchets |-> 1,
   damage |-> {"identity_key"}]

(* Alice opens two sessions with Bob, who makes one key more than he can hold. *)
Two ==
  [slots |-> Each({1, 2}, {1, 2}), keys |-> Each(0, 3), counter |-> 1, ratchets |-> 0,
   damage |-> {"identity_key"}]

AllBounds == {OneWay, BothWays, Two}

(* The last_error fields are written and never read. *)
IgnoringLastError ==
  << bounds, [p \in Party |-> [account[p] EXCEPT !.last_error = "SUCCESS"]],
     [p \in Party |-> [s \in Slots[p] |-> [session[p][s] EXCEPT !.last_error = "SUCCESS"]]],
     role, forgotten, keyVars, messageVars >>

=============================================================================
