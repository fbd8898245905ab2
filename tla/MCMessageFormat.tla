-------------------------- MODULE MCMessageFormat --------------------------
(* Instances of MessageFormat for TLC.  Types have 9 and 10 bits, so that  *)
(* two bytes of a varint overflow them as five and ten do 32 and 64 bits;  *)
(* a key has 2 bytes.                                                      *)
EXTENDS MessageFormat

(* Keys and texts whose bytes are tags; counters at the edges of a varint. *)
Key1 == << 10, 34 >>
Key2 == << 18, 128 >>
Texts == { << 16 >>, << 34, 255, 26 >>, [i \in 1..130 |-> 18] }
Numbers == {0, 127, 128, UINT32 - 1}

MCContents ==
  [message |-> [ratchet_key : {Key1, Key2}, counter : Numbers, ciphertext : Texts],
   pre_key |-> [one_time_key : {Key1}, base_key : {Key2}, identity_key : {Key1}, message : Texts],
   group   |-> [message_index : Numbers, ciphertext : Texts]]

(* A varint, with one byte of value, or two, or two of tag; strings with   *)
(* tags inside, and an empty one.                                          *)
MCUnknown == { << 40, 1 >>, << 40, 144, 10 >>, << 168, 1, 34 >>,
               << 50, 2, 10, 34 >>, << 178, 1, 1, 16 >>, << 50, 0 >> }

(* All short strings of a version, tags of each kind, small lengths and    *)
(* bytes that continue.                                                    *)
MCStrange == { << PROTOCOL_VERSION >> \o s : s \in SeqOf({8, 10, 34, 2, 136, 13}, 4) }
             \cup { << 10, 128, 8, 34, 1, 7 >>, << 3, 10, 129, 8, 7, 34, 130, 136, 8, 1, 1 >> }
=============================================================================
