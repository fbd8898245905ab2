------------------------------- MODULE Base64 -------------------------------
(***************************************************************************)
(* Unpadded base64 (src/base64.cpp), encoded and decoded group by group in *)
(* one memory, where the callers place input and output so that they may   *)
(* overlap: a group is read from what the groups before it have left.      *)
(*                                                                         *)
(* A memory is a sequence of bytes, and a position the number of bytes     *)
(* before it.  Only characters that base64 uses are decoded.               *)
(***************************************************************************)
EXTENDS Integers, Sequences

CONSTANTS
  Uses,    \* the layouts, of Layouts below
  Inputs   \* the sequences of bytes to encode; their texts are decoded

Smaller(a, b) == IF a < b THEN a ELSE b
Larger(a, b) == IF a > b THEN a ELSE b

(***************************************************************************)
(* The characters, in ASCII.                                               *)
(***************************************************************************)
Character(sextet) ==
  CASE sextet < 26         -> 65 + sextet
    [] sextet \in 26..51   -> 71 + sextet
    [] sextet \in 52..61   -> sextet - 4
    [] sextet = 62         -> 43
    [] OTHER               -> 47
Sextet(character) == CHOOSE s \in 0..63 : Character(s) = character

encode_base64_length(n) == 4 * ((n + 2) \div 3) + ((n + 2) % 3) - 2
decode_base64_length(n) ==
  IF n % 4 = 1 THEN -1 ELSE 3 * ((n + 2) \div 4) + ((n + 2) % 4) - 2

(* The text of bytes, bit by bit: what encoding is for. *)
BitWeights == << 128, 64, 32, 16, 8, 4, 2, 1 >>
Bit(bytes, i) ==
  IF i < 8 * Len(bytes) THEN (bytes[(i \div 8) + 1] \div BitWeights[(i % 8) + 1]) % 2 ELSE 0
SextetAt(bytes, c) ==
  LET bit(k) == Bit(bytes, 6 * (c - 1) + k)
  IN 32 * bit(0) + 16 * bit(1) + 8 * bit(2) + 4 * bit(3) + 2 * bit(4) + bit(5)
CharacterAt(bytes, c) == Character(SextetAt(bytes, c))
Base64Of(bytes) ==
  [c \in 1..encode_base64_length(Len(bytes)) |-> CharacterAt(bytes, c)]

(***************************************************************************)
(* Where the callers have input and output.                                *)
(***************************************************************************)
(* At the end of the output's room: what _olm_enc_output and b64_output do *)
(* for pickles, messages and signatures.  In place: messages, pickles and  *)
(* keys that are decoded.  Apart: the keys of sessions.  sas_mac: the MAC  *)
(* that olm_sas_calculate_mac encodes where it lies.                       *)
Layouts == {"encode_at_end", "encode_apart", "decode_in_place", "decode_apart", "sas_mac"}

ASSUME Base64Constants == Uses \subseteq Layouts /\ Inputs \subseteq Seq(0..255)

IsDecoding(u) == u \in {"decode_in_place", "decode_apart"}

(* Mutant: no room is left before the input. *)
Room_None(length) == 0

(* What is left before the bytes to encode, for the output to grow into.   *)
Room(length) == encode_base64_length(length) - length

InputPosition(u, length) == IF u = "encode_at_end" THEN Room(length) ELSE 0

OutputPosition(u, length) ==
  IF u \in {"encode_apart", "decode_apart"} THEN length ELSE 0

OutputLength(u, length) ==
  IF IsDecoding(u) THEN decode_base64_length(length) ELSE encode_base64_length(length)

(* A memory that holds the input, and has room for the output.             *)
Memory(u, d) ==
  LET from == InputPosition(u, Len(d))
      size == Larger(from + Len(d), OutputPosition(u, Len(d)) + OutputLength(u, Len(d)))
  IN [p \in 1..size |-> IF p \in (from + 1)..(from + Len(d)) THEN d[p - from] ELSE 0]

VARIABLES
  use,       \* the layout
  data,      \* the input of the call; a text when decoding
  memory,
  input,     \* position of the next group to read
  output,    \* position of the next group to write
  left       \* bytes or characters still to be read

vars == << use, data, memory, input, output, left >>

-----------------------------------------------------------------------------
(* A group has four digits at most, and is never shifted by more. *)
Power(base, i) ==
  CASE i = 0 -> 1
    [] i = 1 -> base
    [] i = 2 -> base * base
    [] OTHER -> base * base * base
Number(digits, base) ==
  LET digit(i) == digits[Len(digits) - i] * Power(base, i)
  IN CASE Len(digits) = 1 -> digit(0)
       [] Len(digits) = 2 -> digit(1) + digit(0)
       [] Len(digits) = 3 -> digit(2) + digit(1) + digit(0)
       [] OTHER           -> digit(3) + digit(2) + digit(1) + digit(0)
Digit(value, base, i) == (value \div Power(base, i)) % base

(* mem with n values from a position on: the i-th is f[i]. *)
Overwritten(mem, pos, n, f) ==
  [i \in DOMAIN mem |-> IF i \in (pos + 1)..(pos + n) THEN f[i - pos] ELSE mem[i]]

(* Mutant: the last group of one or two bytes is not shifted to the left. *)
Characters_NotShifted(bytes) ==
  LET n == Len(bytes)
  IN [i \in 1..(n + 1) |-> Character(Digit(Number(bytes, 256), 64, n + 1 - i))]

(* n bytes, three or in the last group fewer, become n + 1 characters. *)
Characters(bytes) ==
  LET n     == Len(bytes)
      value == Number(bytes, 256) * Power(4, 3 - n)
  IN [i \in 1..(n + 1) |-> Character(Digit(value, 64, n + 1 - i))]

(* n characters, four or in the last group fewer, become n - 1 bytes. *)
Bytes(characters) ==
  LET n     == Len(characters)
      value == Number([c \in 1..n |-> Sextet(characters[c])], 64) \div Power(4, 4 - n)
  IN [i \in 1..(n - 1) |-> Digit(value, 256, n - 1 - i)]

NextInput(size) == SubSeq(memory, input + 1, input + Smaller(size, left))

Init ==
  /\ use \in Uses
  /\ \E bytes \in Inputs : data = IF IsDecoding(use) THEN Base64Of(bytes) ELSE bytes
  /\ memory = Memory(use, data)
  /\ input = InputPosition(use, Len(data))
  /\ output = OutputPosition(use, Len(data))
  /\ left = Len(data)

EncodeGroup ==
  LET n == Smaller(3, left)
  IN /\ ~IsDecoding(use) /\ left > 0
     /\ memory' = Overwritten(memory, output, n + 1, Characters(NextInput(3)))
     /\ input' = input + n /\ output' = output + n + 1 /\ left' = left - n
     /\ UNCHANGED << use, data >>

DecodeGroup ==
  LET n == Smaller(4, left)
  IN /\ IsDecoding(use) /\ left > 0
     /\ memory' = Overwritten(memory, output, n - 1, Bytes(NextInput(4)))
     /\ input' = input + n /\ output' = output + n - 1 /\ left' = left - n
     /\ UNCHANGED << use, data >>

Next == EncodeGroup \/ DecodeGroup

Spec == Init /\ [][Next]_vars

-----------------------------------------------------------------------------
(* However the caller lets input and output overlap, no group is written   *)
(* over input that is still to be read (encode_base64 and decode_base64).  *)
UnreadIntact ==
  \A i \in 1..left : memory[input + i] = data[Len(data) - left + i]

Result == SubSeq(memory, OutputPosition(use, Len(data)) + 1, output)

(* When the last group is written, the output is the base64 of the input,  *)
(* or the bytes whose base64 the input is, and has the length that the     *)
(* caller was told (_olm_encode_base64, _olm_decode_base64).               *)
ResultIsBase64 ==
  left = 0 => IF IsDecoding(use)
              THEN /\ Base64Of(Result) = data
                   /\ Len(Result) = decode_base64_length(Len(data))
              ELSE Result = Base64Of(data)

=============================================================================
