-------------------------- MODULE MCPickledObjects --------------------------
(* Instances of PickledObjects for TLC: every key has bytes of its own. *)
EXTENDS PickledObjects

Key(n) == [i \in 1..KeyLength |-> 20 + KeyLength * n + i]
Pair(n) == Key(n) \o Key(n + 1)

Chain(n) == [ratchet_key |-> Key(n), key |-> Key(n + 1), index |-> n]
SenderChain(n) == [ratchet_key |-> Pair(n), key |-> Key(n + 2), index |-> n]
OneTimeKey(n) == [id |-> n, published |-> n % 2 = 0, key |-> Pair(n)]

Lists(Element(_), first, max) ==
  { [i \in 1..n |-> Element(first + 3 * i)] : n \in 0..max }

Accounts ==
  [ed25519_key : {Pair(1)}, curve25519_key : {Pair(3)},
   one_time_keys : Lists(OneTimeKey, 10, MaxOneTimeKeys),
   next_one_time_key_id : {300}]

(* A session has a sender chain or has received one. *)
Sessions ==
  { s \in [received_message : BOOLEAN, alice_identity_key : {Key(1)},
           alice_base_key : {Key(2)}, bob_one_time_key : {Key(3)}, root_key : {Key(4)},
           sender_chain : Lists(SenderChain, 10, MaxSenderChains),
           receiver_chains : Lists(Chain, 20, MaxReceiverChains),
           skipped_message_keys : Lists(Chain, 40, MaxSkippedKeys)] :
      s.sender_chain # << >> \/ s.receiver_chains # << >> }

InboundSessions ==
  [initial_data : {Key(1)}, initial_counter : {1}, latest_data : {Key(2)},
   latest_counter : {1, 258}, signing_key : {Key(3)}, signing_key_verified : BOOLEAN]

OutboundSessions == [data : {Key(1)}, counter : {0, 258}, signing_key : {Pair(2)}]

AllObjects == [account |-> Accounts, session |-> Sessions,
               inbound |-> InboundSessions, outbound |-> OutboundSessions,
               pk_decryption |-> [key_pair : {Pair(1)}]]
CutSizes == 1..46

=============================================================================
