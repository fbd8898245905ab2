------------------------------ MODULE MCBase64 ------------------------------
(* Instances of Base64 for TLC. *)
EXTENDS Base64

(* One and two groups, whole and not, of bytes with different bits. *)
ShortInputs == UNION { [1..n -> {0, 105, 255}] : n \in 1..5 }

(* 32 bytes, as a SHA-256 is, and what is around it. *)
LongInputs == { [i \in 1..n |-> (37 * i) % 256] : n \in 6..34 }

AllInputs == ShortInputs \cup LongInputs
Overlapping == Layouts \ {"sas_mac"}

(* The MAC of SAS is a SHA-256. *)
Macs == { [i \in 1..32 |-> (37 * i) % 256] }

=============================================================================
