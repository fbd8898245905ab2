--------------------------- MODULE Base64_proofs ---------------------------
(***************************************************************************)
(* Base64 for inputs of any length, wherever the input lies at the end of  *)
(* the room for its text, in place for decoding, or apart from the output: *)
(* no group is written over input that is still to be read, and what is    *)
(* written in the end is the text of the bytes, or the bytes of the text.  *)
(*                                                                         *)
(* The first invariant, Gap, says how far the output is behind the input:  *)
(* where they end together, by exactly what the rest of the text is longer *)
(* than the rest of the input; where decoding is in place, by what the     *)
(* input so far was longer than its bytes.  With it every group is read as *)
(* the caller wrote it, and the second, WrittenSoFar, that the output has  *)
(* the text of the whole groups so far, is inductive.                      *)
(***************************************************************************)
EXTENDS Base64, SequenceTheorems, TLAPS

Gap ==
  /\ use = "encode_at_end"   => output + encode_base64_length(left) = input + left
  /\ use = "encode_apart"    => input + left <= output
  /\ use = "decode_in_place" => output <= input
  /\ use = "decode_apart"    => input + left <= output

Positions ==
  /\ use \in Layouts \ {"sas_mac"}
  /\ Len(data) \in Nat
  /\ input \in Nat /\ output \in Nat /\ left \in 0..Len(data)
  /\ DOMAIN memory = 1..Len(memory)
  /\ Len(memory) \in Nat
  /\ input + left <= Len(memory)

GapInv == Positions /\ Gap /\ UnreadIntact

-----------------------------------------------------------------------------
(* The text of three more bytes, or of the last one or two. *)
LEMMA TextGrows ==
  ASSUME NEW l \in Nat, l > 0
  PROVE  /\ encode_base64_length(l) \in Nat
         /\ encode_base64_length(l) >= l + 1
         /\ encode_base64_length(l) =
              Smaller(3, l) + 1 + encode_base64_length(l - Smaller(3, l))
BY DEF encode_base64_length, Smaller

LEMMA TextOfNothing == encode_base64_length(0) = 0
BY DEF encode_base64_length

LEMMA TextIsNat == \A l \in Nat : encode_base64_length(l) \in Nat /\ encode_base64_length(l) >= l
BY TextGrows, TextOfNothing

LEMMA BytesAreNat == \A l \in Nat : decode_base64_length(l) \in Int
BY DEF decode_base64_length

(* The caller's memory holds the input where it is read, and the output    *)
(* starts as far from it as Gap says.                                      *)
LEMMA GapInit ==
  ASSUME Init, "sas_mac" \notin Uses
  PROVE  GapInv
<1>1. use \in Layouts \ {"sas_mac"}
  BY Base64Constants DEF Init
<1>2. PICK bytes \in Inputs : data = IF IsDecoding(use) THEN Base64Of(bytes) ELSE bytes
  BY DEF Init
<1>3. Len(bytes) \in Nat
  BY Base64Constants
<1>4. Len(data) \in Nat
  <2>1. CASE IsDecoding(use)
    <3>1. encode_base64_length(Len(bytes)) \in Nat
      BY <1>3, TextIsNat
    <3>2. Len(Base64Of(bytes)) = encode_base64_length(Len(bytes))
      BY <3>1 DEF Base64Of
    <3>. QED
      BY <1>2, <2>1, <3>1, <3>2
  <2>2. CASE ~IsDecoding(use)
    BY <1>2, <1>3, <2>2
  <2>. QED
    BY <2>1, <2>2
<1> DEFINE n    == Len(data)
           from == InputPosition(use, n)
           size == Larger(from + n, OutputPosition(use, n) + OutputLength(use, n))
<1>5. /\ encode_base64_length(n) \in Nat /\ encode_base64_length(n) >= n
      /\ decode_base64_length(n) \in Int
  BY <1>4, TextIsNat, BytesAreNat
<1>6. /\ from \in Nat /\ OutputPosition(use, n) \in Nat
      /\ OutputLength(use, n) \in Int
  BY <1>4, <1>5 DEF InputPosition, OutputPosition, OutputLength, Room
<1>7. size \in Nat /\ from + n <= size
  BY <1>4, <1>6 DEF Larger
<1>8. /\ memory = [p \in 1..size |-> IF p \in (from + 1)..(from + n) THEN data[p - from] ELSE 0]
      /\ input = from /\ output = OutputPosition(use, n) /\ left = n
  BY DEF Init, Memory
<1>. HIDE DEF size
<1>9. DOMAIN memory = 1..size /\ Len(memory) = size
  BY <1>7, <1>8
<1>10. Positions
  BY <1>1, <1>4, <1>6, <1>7, <1>8, <1>9 DEF Positions
<1>11. Gap
  BY <1>4, <1>5, <1>8 DEF Gap, InputPosition, OutputPosition, Room
<1>12. UnreadIntact
  <2> SUFFICES ASSUME NEW i \in 1..left
               PROVE  memory[input + i] = data[n - left + i]
    BY DEF UnreadIntact
  <2>1. from + i \in 1..size /\ from + i \in (from + 1)..(from + n)
    BY <1>4, <1>6, <1>7, <1>8, SMTT(30)
  <2>2. memory[from + i] = data[(from + i) - from]
    BY <1>8, <2>1
  <2>3. (from + i) - from = i /\ n - left + i = i
    BY <1>4, <1>6, <1>8
  <2>. QED
    BY <1>8, <2>2, <2>3
<1>. QED
  BY <1>10, <1>11, <1>12 DEF GapInv

(* A group that is written ends before the input that is still unread. *)
LEMMA OverwrittenBefore ==
  ASSUME NEW mem, NEW pos \in Nat, NEW k \in Int, NEW f, NEW p \in DOMAIN mem,
         p \in Int, p > pos + k \/ p <= pos
  PROVE  Overwritten(mem, pos, k, f)[p] = mem[p]
BY DEF Overwritten

(* One group: whatever it writes, the unread input and the distance stay. *)
LEMMA GapStep ==
  ASSUME GapInv, Next
  PROVE  GapInv'
<1>. USE DEF GapInv
<1>1. CASE EncodeGroup
  <2> DEFINE n == Smaller(3, left)
             chars == Characters(NextInput(3))
  <2>1. /\ use' = use /\ data' = data /\ left > 0
        /\ memory' = Overwritten(memory, output, n + 1, chars)
        /\ input' = input + n /\ output' = output + n + 1 /\ left' = left - n
        /\ use \in {"encode_at_end", "encode_apart"}
    BY <1>1 DEF EncodeGroup, Positions, Layouts, IsDecoding
  <2>2. n \in 1..left
    BY <2>1 DEF Positions, Smaller
  <2>3. left > 0 => encode_base64_length(left) >= left + 1
                    /\ encode_base64_length(left) = n + 1 + encode_base64_length(left - n)
                    /\ encode_base64_length(left) \in Nat
    BY <2>1, TextGrows DEF Positions
  <2>. HIDE DEF n, chars
  <2>4. encode_base64_length(left - n) \in Nat
    <3>1. left - n \in Nat
      BY <2>2 DEF Positions
    <3>. QED
      BY <3>1, TextIsNat
  <2>5. DOMAIN memory' = DOMAIN memory /\ Len(memory') = Len(memory)
    BY <2>1 DEF Overwritten, Positions
  <2>6. Positions'
    BY <2>1, <2>2, <2>5 DEF Positions
  <2>7. Gap'
    BY <2>1, <2>2, <2>3, <2>4 DEF Gap, Positions
  <2>8. output + n + 1 <= input + n \/ input + left <= output
    BY <2>1, <2>2, <2>3 DEF Gap, Positions
  <2>9. UnreadIntact'
    <3> SUFFICES ASSUME NEW i \in 1..(left - n)
                 PROVE  memory'[input + n + i] = data[Len(data) - (left - n) + i]
      BY <2>1 DEF UnreadIntact
    <3>1. n + i \in 1..left
      BY <2>2 DEF Positions
    <3>2. memory[input + (n + i)] = data[Len(data) - left + (n + i)]
      BY <3>1 DEF UnreadIntact
    <3>3. /\ input + n + i \in DOMAIN memory /\ input + n + i \in Int
          /\ input + n + i > output + (n + 1) \/ input + n + i <= output
      BY <2>2, <2>8, <3>1 DEF Positions
    <3>4. output \in Nat /\ n + 1 \in Int
      BY <2>2 DEF Positions
    <3>5. Overwritten(memory, output, n + 1, chars)[input + n + i] = memory[input + n + i]
      BY <3>3, <3>4, OverwrittenBefore
    <3>6. /\ input + (n + i) = input + n + i
          /\ Len(data) - left + (n + i) = Len(data) - (left - n) + i
      BY <2>2 DEF Positions
    <3>. QED
      BY <2>1, <3>2, <3>5, <3>6
  <2>. QED
    BY <2>6, <2>7, <2>9
<1>2. CASE DecodeGroup
  <2> DEFINE n == Smaller(4, left)
             bytes == Bytes(NextInput(4))
  <2>1. /\ use' = use /\ data' = data /\ left > 0
        /\ memory' = Overwritten(memory, output, n - 1, bytes)
        /\ input' = input + n /\ output' = output + n - 1 /\ left' = left - n
        /\ use \in {"decode_in_place", "decode_apart"}
    BY <1>2 DEF DecodeGroup, Positions, Layouts, IsDecoding
  <2>2. n \in 1..left
    BY <2>1 DEF Positions, Smaller
  <2>. HIDE DEF n, bytes
  <2>5. DOMAIN memory' = DOMAIN memory /\ Len(memory') = Len(memory)
    BY <2>1 DEF Overwritten, Positions
  <2>6. Positions'
    BY <2>1, <2>2, <2>5 DEF Positions
  <2>7. Gap'
    BY <2>1, <2>2 DEF Gap, Positions
  <2>8. output + n - 1 <= input + n \/ input + left <= output
    BY <2>1, <2>2 DEF Gap, Positions
  <2>9. UnreadIntact'
    <3> SUFFICES ASSUME NEW i \in 1..(left - n)
                 PROVE  memory'[input + n + i] = data[Len(data) - (left - n) + i]
      BY <2>1 DEF UnreadIntact
    <3>1. n + i \in 1..left
      BY <2>2 DEF Positions
    <3>2. memory[input + (n + i)] = data[Len(data) - left + (n + i)]
      BY <3>1 DEF UnreadIntact
    <3>3. /\ input + n + i \in DOMAIN memory /\ input + n + i \in Int
          /\ input + n + i > output + (n - 1) \/ input + n + i <= output
      BY <2>2, <2>8, <3>1 DEF Positions
    <3>4. output \in Nat /\ n - 1 \in Int
      BY <2>2 DEF Positions
    <3>5. Overwritten(memory, output, n - 1, bytes)[input + n + i] = memory[input + n + i]
      BY <3>3, <3>4, OverwrittenBefore
    <3>6. /\ input + (n + i) = input + n + i
          /\ Len(data) - left + (n + i) = Len(data) - (left - n) + i
      BY <2>2 DEF Positions
    <3>. QED
      BY <2>1, <3>2, <3>5, <3>6
  <2>. QED
    BY <2>6, <2>7, <2>9
<1>. QED
  BY <1>1, <1>2 DEF Next

(* encode_base64 and decode_base64 never write over input they have still  *)
(* to read, whatever its length, in every layout but that of the SAS MAC.  *)
THEOREM UnreadIntactHolds ==
  ASSUME "sas_mac" \notin Uses
  PROVE  Spec => []UnreadIntact
<1>1. Init => GapInv
  BY GapInit
<1>2. GapInv /\ [Next]_vars => GapInv'
  <2>1. CASE Next
    BY <2>1, GapStep
  <2>2. CASE UNCHANGED vars
    BY <2>2 DEF vars, GapInv, Positions, Gap, UnreadIntact
  <2>. QED
    BY <2>1, <2>2
<1>3. GapInv => UnreadIntact
  BY DEF GapInv
<1>. QED
  BY <1>1, <1>2, <1>3, PTL DEF Spec

-----------------------------------------------------------------------------
(* What is in a group: the sextets of up to three bytes, where a byte that *)
(* is missing counts as zero.                                              *)
Octets == 0..255
ByteAt(bytes, i) == IF i <= Len(bytes) THEN bytes[i] ELSE 0

First(x) == x \div 4
Second(x, y) == 16 * (x % 4) + y \div 16
Third(y, z) == 4 * (y % 16) + z \div 64
Fourth(z) == z % 64
SextetOf(x, y, z, k) ==
  CASE k = 1 -> First(x) [] k = 2 -> Second(x, y) [] k = 3 -> Third(y, z) [] OTHER -> Fourth(z)

LEMMA BytesOfGroup ==
  ASSUME NEW bytes \in Seq(Octets), NEW i \in Nat \ {0}
  PROVE  ByteAt(bytes, i) \in Octets
<1>1. CASE i <= Len(bytes)
  <2>1. i \in 1..Len(bytes)
    BY <1>1
  <2>. QED
    BY <1>1, <2>1 DEF ByteAt
<1>2. CASE ~(i <= Len(bytes))
  BY <1>2 DEF ByteAt, Octets
<1>. QED
  BY <1>1, <1>2

(* The bits of a byte that has the others of its group around it. *)
LEMMA BitOfByte ==
  ASSUME NEW bytes \in Seq(Octets), NEW i \in Nat, NEW s \in 0..7
  PROVE  Bit(bytes, 8 * i + s) = (ByteAt(bytes, i + 1) \div BitWeights[s + 1]) % 2
<1>1. /\ (8 * i + s) \div 8 = i /\ (8 * i + s) % 8 = s
      /\ (8 * i + s < 8 * Len(bytes)) <=> (i + 1 <= Len(bytes))
  <2>1. Len(bytes) \in Nat
    OBVIOUS
  <2>. QED
    BY <2>1
<1>2. CASE i + 1 <= Len(bytes)
  BY <1>1, <1>2 DEF Bit, ByteAt
<1>3. CASE ~(i + 1 <= Len(bytes))
  <2>1. (0 \div BitWeights[s + 1]) % 2 = 0
    BY DEF BitWeights
  <2>. QED
    BY <1>1, <1>3, <2>1 DEF Bit, ByteAt
<1>. QED
  BY <1>2, <1>3

LEMMA Halves ==
  \A v \in Nat : v \div 2 \in Nat /\ v % 2 \in 0..1 /\ v = 2 * (v \div 2) + (v % 2)
OBVIOUS

LEMMA HalfOfShare ==
  ASSUME NEW x \in Nat
  PROVE  /\ x \div 4 = (x \div 2) \div 2 /\ x \div 8 = (x \div 4) \div 2
         /\ x \div 16 = (x \div 8) \div 2 /\ x \div 32 = (x \div 16) \div 2
         /\ x \div 64 = (x \div 32) \div 2 /\ x \div 128 = (x \div 64) \div 2
<1>1. x \div 4 = (x \div 2) \div 2
  OBVIOUS
<1>2. x \div 8 = (x \div 4) \div 2
  OBVIOUS
<1>3. x \div 16 = (x \div 8) \div 2
  OBVIOUS
<1>4. x \div 32 = (x \div 16) \div 2
  OBVIOUS
<1>5. x \div 64 = (x \div 32) \div 2
  OBVIOUS
<1>6. x \div 128 = (x \div 64) \div 2
  OBVIOUS
<1>. QED
  BY <1>1, <1>2, <1>3, <1>4, <1>5, <1>6

LEMMA Shares ==
  ASSUME NEW x \in Nat
  PROVE  /\ x \div 4 \in Nat /\ x \div 8 \in Nat /\ x \div 16 \in Nat
         /\ x \div 32 \in Nat /\ x \div 64 \in Nat /\ x \div 128 \in Nat
         /\ x % 4 = x - 4 * (x \div 4) /\ x % 16 = x - 16 * (x \div 16)
         /\ x % 64 = x - 64 * (x \div 64)
OBVIOUS

(* The bits of a byte, from the first, are its value. *)
LEMMA HighBits ==
  ASSUME NEW x \in Octets
  PROVE  /\ 32 * ((x \div 128) % 2) + 16 * ((x \div 64) % 2) + 8 * ((x \div 32) % 2)
              + 4 * ((x \div 16) % 2) + 2 * ((x \div 8) % 2) + ((x \div 4) % 2) = x \div 4
         /\ 32 * ((x \div 2) % 2) + 16 * (x % 2) = 16 * (x % 4)
         /\ 8 * ((x \div 128) % 2) + 4 * ((x \div 64) % 2) + 2 * ((x \div 32) % 2)
              + ((x \div 16) % 2) = x \div 16
         /\ 32 * ((x \div 8) % 2) + 16 * ((x \div 4) % 2) + 8 * ((x \div 2) % 2)
              + 4 * (x % 2) = 4 * (x % 16)
         /\ 2 * ((x \div 128) % 2) + ((x \div 64) % 2) = x \div 64
         /\ 32 * ((x \div 32) % 2) + 16 * ((x \div 16) % 2) + 8 * ((x \div 8) % 2)
              + 4 * ((x \div 4) % 2) + 2 * ((x \div 2) % 2) + (x % 2) = x % 64
<1> DEFINE a2 == x \div 2
           a4 == x \div 4
           a8 == x \div 8
           a16 == x \div 16
           a32 == x \div 32
           a64 == x \div 64
           a128 == x \div 128
<1>1. x \in Nat /\ x < 256
  BY DEF Octets
<1>2. /\ a4 = a2 \div 2 /\ a8 = a4 \div 2 /\ a16 = a8 \div 2 /\ a32 = a16 \div 2
      /\ a64 = a32 \div 2 /\ a128 = a64 \div 2 /\ a2 = x \div 2
      /\ a4 \in Nat /\ a8 \in Nat /\ a16 \in Nat /\ a32 \in Nat /\ a64 \in Nat /\ a128 \in Nat
      /\ x % 4 = x - 4 * a4 /\ x % 16 = x - 16 * a16 /\ x % 64 = x - 64 * a64
  BY <1>1, HalfOfShare, Shares, SMTT(30)
<1>3. a2 \in Nat
  BY <1>1, Halves
<1>. HIDE DEF a2, a4, a8, a16, a32, a64, a128
<1> DEFINE b0 == x % 2
           b1 == a2 % 2
           b2 == a4 % 2
           b3 == a8 % 2
           b4 == a16 % 2
           b5 == a32 % 2
           b6 == a64 % 2
           b7 == a128 % 2
<1>4. /\ x = 2 * a2 + b0 /\ a2 = 2 * a4 + b1 /\ a4 = 2 * a8 + b2 /\ a8 = 2 * a16 + b3
      /\ a16 = 2 * a32 + b4 /\ a32 = 2 * a64 + b5 /\ a64 = 2 * a128 + b6
      /\ b0 \in 0..1 /\ b1 \in 0..1 /\ b2 \in 0..1 /\ b3 \in 0..1
      /\ b4 \in 0..1 /\ b5 \in 0..1 /\ b6 \in 0..1
  <2>1. /\ x \in Nat /\ a2 \in Nat /\ a4 \in Nat /\ a8 \in Nat /\ a16 \in Nat
        /\ a32 \in Nat /\ a64 \in Nat
    BY <1>1, <1>2, <1>3, Zenon
  <2>2. /\ x = 2 * (x \div 2) + b0 /\ a2 = 2 * (a2 \div 2) + b1 /\ a4 = 2 * (a4 \div 2) + b2
        /\ a8 = 2 * (a8 \div 2) + b3 /\ a16 = 2 * (a16 \div 2) + b4
        /\ a32 = 2 * (a32 \div 2) + b5 /\ a64 = 2 * (a64 \div 2) + b6
    BY <2>1, Halves, Zenon
  <2>3. /\ b0 \in 0..1 /\ b1 \in 0..1 /\ b2 \in 0..1 /\ b3 \in 0..1
        /\ b4 \in 0..1 /\ b5 \in 0..1 /\ b6 \in 0..1
    BY <2>1, Halves, Zenon
  <2>. HIDE DEF b0, b1, b2, b3, b4, b5, b6
  <2>. QED
    BY <1>2, <2>2, <2>3, Zenon
<1>. HIDE DEF b0, b1, b2, b3, b4, b5, b6
<1>5. a128 \in 0..1
  <2>1. /\ a4 \in Nat /\ a8 \in Nat /\ a16 \in Nat /\ a32 \in Nat
        /\ a64 \in Nat /\ a128 \in Nat
    BY <1>2, Zenon
  <2>2. /\ x = 2 * a2 + b0 /\ a2 = 2 * a4 + b1 /\ a4 = 2 * a8 + b2 /\ a8 = 2 * a16 + b3
        /\ a16 = 2 * a32 + b4 /\ a32 = 2 * a64 + b5 /\ a64 = 2 * a128 + b6
    BY <1>4, Zenon
  <2>3. b0 >= 0 /\ b1 >= 0 /\ b2 >= 0 /\ b3 >= 0 /\ b4 >= 0 /\ b5 >= 0 /\ b6 >= 0
    <3>1. \A b \in 0..1 : b >= 0
      OBVIOUS
    <3>. QED
      BY <1>4, <3>1, Zenon
  <2>4. /\ b0 \in Int /\ b1 \in Int /\ b2 \in Int /\ b3 \in Int
        /\ b4 \in Int /\ b5 \in Int /\ b6 \in Int
    <3>1. \A b \in 0..1 : b \in Int
      OBVIOUS
    <3>. QED
      BY <1>4, <3>1, Zenon
  <2>5. a128 < 2
    BY <1>1, <1>3, <2>1, <2>2, <2>3, <2>4, SMT
  <2>. QED
    BY <2>1, <2>5
<1>6. b7 = a128
  BY <1>5
<1>. HIDE DEF b7
<1>7. /\ x \in Int /\ a2 \in Int /\ a4 \in Int /\ a8 \in Int /\ a16 \in Int /\ a32 \in Int
      /\ a64 \in Int /\ a128 \in Int
      /\ b0 \in Int /\ b1 \in Int /\ b2 \in Int /\ b3 \in Int /\ b4 \in Int /\ b5 \in Int /\ b6 \in Int
  <2>1. /\ x \in Int /\ a2 \in Int /\ a4 \in Int /\ a8 \in Int /\ a16 \in Int /\ a32 \in Int
        /\ a64 \in Int /\ a128 \in Int
    BY <1>1, <1>3, <1>2
  <2>2. \A b \in 0..1 : b \in Int
    OBVIOUS
  <2>3. b0 \in Int /\ b1 \in Int /\ b2 \in Int /\ b3 \in Int /\ b4 \in Int /\ b5 \in Int /\ b6 \in Int
    BY <1>4, <2>2, Zenon
  <2>. QED
    BY <2>1, <2>3, ZenonT(30)
<1>8. 32 * b7 + 16 * b6 + 8 * b5 + 4 * b4 + 2 * b3 + b2 = a4
  BY <1>4, <1>6, <1>7
<1>9. 32 * b1 + 16 * b0 = 16 * (x - 4 * a4)
  BY <1>4, <1>6, <1>7
<1>10. 8 * b7 + 4 * b6 + 2 * b5 + b4 = a16
  BY <1>4, <1>6, <1>7
<1>11. 32 * b3 + 16 * b2 + 8 * b1 + 4 * b0 = 4 * (x - 16 * a16)
  BY <1>4, <1>6, <1>7
<1>12. 2 * b7 + b6 = a64
  BY <1>4, <1>6, <1>7
<1>13. 32 * b5 + 16 * b4 + 8 * b3 + 4 * b2 + 2 * b1 + b0 = x - 64 * a64
  BY <1>4, <1>6, <1>7, SMTT(30)
<1>14. x % 4 = x - 4 * a4 /\ x % 16 = x - 16 * a16 /\ x % 64 = x - 64 * a64
  BY <1>2
<1>. QED
  BY <1>8, <1>9, <1>10, <1>11, <1>12, <1>13, <1>14
  DEF a2, a4, a8, a16, a32, a64, a128, b0, b1, b2, b3, b4, b5, b6, b7

(* The characters of the g-th group, counted from 0, stand for its bytes.  *)
LEMMA SextetOfGroup ==
  ASSUME NEW bytes \in Seq(Octets), NEW g \in Nat, NEW k \in 1..4
  PROVE  SextetAt(bytes, 4 * g + k) =
           SextetOf(ByteAt(bytes, 3 * g + 1), ByteAt(bytes, 3 * g + 2),
                    ByteAt(bytes, 3 * g + 3), k)
<1> DEFINE x == ByteAt(bytes, 3 * g + 1)
           y == ByteAt(bytes, 3 * g + 2)
           z == ByteAt(bytes, 3 * g + 3)
           bit(t) == Bit(bytes, 24 * g + t)
<1>1. x \in Octets /\ y \in Octets /\ z \in Octets
  BY BytesOfGroup
<1>2. /\ \A t \in 0..7 : bit(t) = (x \div BitWeights[t + 1]) % 2
      /\ \A t \in 8..15 : bit(t) = (y \div BitWeights[t - 7]) % 2
      /\ \A t \in 16..23 : bit(t) = (z \div BitWeights[t - 15]) % 2
  <2>1. 3 * g \in Nat /\ 3 * g + 1 \in Nat /\ 3 * g + 2 \in Nat
    OBVIOUS
  <2>2. ASSUME NEW t \in 0..7
        PROVE  bit(t) = (x \div BitWeights[t + 1]) % 2
    <3>1. Bit(bytes, 8 * (3 * g) + t) = (ByteAt(bytes, 3 * g + 1) \div BitWeights[t + 1]) % 2
      BY <2>1, BitOfByte
    <3>2. 8 * (3 * g) + t = 24 * g + t
      OBVIOUS
    <3>. QED
      BY <3>1, <3>2
  <2>3. ASSUME NEW t \in 8..15
        PROVE  bit(t) = (y \div BitWeights[t - 7]) % 2
    <3>1. PICK s \in 0..7 : s = t - 8
      OBVIOUS
    <3>2. Bit(bytes, 8 * (3 * g + 1) + s) =
            (ByteAt(bytes, (3 * g + 1) + 1) \div BitWeights[s + 1]) % 2
      BY <2>1, BitOfByte
    <3>3. 8 * (3 * g + 1) + s = 24 * g + t /\ (3 * g + 1) + 1 = 3 * g + 2 /\ s + 1 = t - 7
      BY <3>1
    <3>. QED
      BY <3>2, <3>3
  <2>4. ASSUME NEW t \in 16..23
        PROVE  bit(t) = (z \div BitWeights[t - 15]) % 2
    <3>1. PICK s \in 0..7 : s = t - 16
      OBVIOUS
    <3>2. Bit(bytes, 8 * (3 * g + 2) + s) =
            (ByteAt(bytes, (3 * g + 2) + 1) \div BitWeights[s + 1]) % 2
      BY <2>1, BitOfByte
    <3>3. 8 * (3 * g + 2) + s = 24 * g + t /\ (3 * g + 2) + 1 = 3 * g + 3 /\ s + 1 = t - 15
      BY <3>1
    <3>. QED
      BY <3>2, <3>3
  <2>. QED
    BY <2>2, <2>3, <2>4
<1>3. x \div 1 = x /\ y \div 1 = y /\ z \div 1 = z
  <2>. HIDE DEF x, y, z
  <2>. QED
    BY <1>1 DEF Octets
<1>. HIDE DEF x, y, z, bit
<1>4. /\ bit(0) = (x \div 128) % 2 /\ bit(1) = (x \div 64) % 2 /\ bit(2) = (x \div 32) % 2
      /\ bit(3) = (x \div 16) % 2
      /\ bit(4) = (x \div 8) % 2 /\ bit(5) = (x \div 4) % 2 /\ bit(6) = (x \div 2) % 2 /\ bit(7) = x % 2
  BY <1>2, <1>3 DEF BitWeights
<1>5. /\ bit(8) = (y \div 128) % 2 /\ bit(9) = (y \div 64) % 2 /\ bit(10) = (y \div 32) % 2
      /\ bit(11) = (y \div 16) % 2
      /\ bit(12) = (y \div 8) % 2 /\ bit(13) = (y \div 4) % 2 /\ bit(14) = (y \div 2) % 2 /\ bit(15) = y % 2
  BY <1>2, <1>3 DEF BitWeights
<1>6. /\ bit(16) = (z \div 128) % 2 /\ bit(17) = (z \div 64) % 2 /\ bit(18) = (z \div 32) % 2
      /\ bit(19) = (z \div 16) % 2
      /\ bit(20) = (z \div 8) % 2 /\ bit(21) = (z \div 4) % 2 /\ bit(22) = (z \div 2) % 2 /\ bit(23) = z % 2
  BY <1>2, <1>3 DEF BitWeights
<1>7. SextetAt(bytes, 4 * g + k) =
        32 * bit(6 * (k - 1)) + 16 * bit(6 * (k - 1) + 1) + 8 * bit(6 * (k - 1) + 2)
          + 4 * bit(6 * (k - 1) + 3) + 2 * bit(6 * (k - 1) + 4) + bit(6 * (k - 1) + 5)
  <2>1. \A j \in Nat : 6 * ((4 * g + k) - 1) + j = 24 * g + (6 * (k - 1) + j)
    OBVIOUS
  <2>2. 6 * ((4 * g + k) - 1) + 0 = 24 * g + (6 * (k - 1))
    OBVIOUS
  <2>. QED
    BY <2>1, <2>2 DEF SextetAt, bit
<1>8. /\ bit(6) \in Int /\ bit(7) \in Int /\ bit(8) \in Int /\ bit(9) \in Int
      /\ bit(10) \in Int /\ bit(11) \in Int /\ bit(12) \in Int /\ bit(13) \in Int
      /\ bit(14) \in Int /\ bit(15) \in Int /\ bit(16) \in Int /\ bit(17) \in Int
  <2>1. \A v \in Nat : /\ v % 2 \in Int /\ v \div 2 \in Nat /\ v \div 4 \in Nat /\ v \div 8 \in Nat
                       /\ v \div 16 \in Nat /\ v \div 32 \in Nat /\ v \div 64 \in Nat /\ v \div 128 \in Nat
    OBVIOUS
  <2>2. x \in Nat /\ y \in Nat /\ z \in Nat
    BY <1>1 DEF Octets
  <2>3. bit(6) \in Int /\ bit(7) \in Int
    BY <1>4, <2>1, <2>2, SMTT(30)
  <2>4. /\ bit(8) \in Int /\ bit(9) \in Int /\ bit(10) \in Int /\ bit(11) \in Int
        /\ bit(12) \in Int /\ bit(13) \in Int /\ bit(14) \in Int /\ bit(15) \in Int
    BY <1>5, <2>1, <2>2, SMTT(30)
  <2>5. bit(16) \in Int /\ bit(17) \in Int
    BY <1>6, <2>1, <2>2, SMTT(30)
  <2>. QED
    BY <2>3, <2>4, <2>5
<1>9. CASE k = 1
  <2>1. SextetAt(bytes, 4 * g + k) =
          32 * bit(0) + 16 * bit(1) + 8 * bit(2) + 4 * bit(3) + 2 * bit(4) + bit(5)
    BY <1>7, <1>9
  <2>2. SextetAt(bytes, 4 * g + k) = x \div 4
    BY <2>1, <1>1, <1>4, HighBits
  <2>. QED
    BY <1>9, <2>2 DEF SextetOf, First, x
<1>10. CASE k = 2
  <2>1. SextetAt(bytes, 4 * g + k) =
          32 * bit(6) + 16 * bit(7) + 8 * bit(8) + 4 * bit(9) + 2 * bit(10) + bit(11)
    BY <1>7, <1>10
  <2>2. SextetAt(bytes, 4 * g + k) = 16 * (x % 4) + y \div 16
    <3>1. 32 * bit(6) + 16 * bit(7) = 16 * (x % 4)
      BY <1>1, <1>4, HighBits
    <3>2. 8 * bit(8) + 4 * bit(9) + 2 * bit(10) + bit(11) = y \div 16
      BY <1>1, <1>5, HighBits
    <3> DEFINE p1 == 32 * bit(6)
               p2 == 16 * bit(7)
               p3 == 8 * bit(8)
               p4 == 4 * bit(9)
               p5 == 2 * bit(10)
               p6 == bit(11)
               v == 16 * (x % 4)
               w == y \div 16
    <3>3. p1 \in Int /\ p2 \in Int /\ p3 \in Int /\ p4 \in Int /\ p5 \in Int /\ p6 \in Int
      <4>1. \A n \in Int : /\ 32 * n \in Int /\ 16 * n \in Int /\ 8 * n \in Int /\ 4 * n \in Int
                           /\ 2 * n \in Int
        OBVIOUS
      <4>. QED
        BY <1>8, <4>1, Zenon
    <3>4. v = p1 + p2 /\ w = p3 + p4 + p5 + p6 /\ SextetAt(bytes, 4 * g + k) = p1 + p2 + p3 + p4 + p5 + p6
      BY <2>1, <3>1, <3>2
    <3>. HIDE DEF p1, p2, p3, p4, p5, p6, v, w
    <3>5. SextetAt(bytes, 4 * g + k) = v + w
      BY <3>3, <3>4
    <3>. QED
      BY <3>5 DEF v, w
  <2>. QED
    BY <1>10, <2>2 DEF SextetOf, Second, x, y
<1>11. CASE k = 3
  <2>1. SextetAt(bytes, 4 * g + k) =
          32 * bit(12) + 16 * bit(13) + 8 * bit(14) + 4 * bit(15) + 2 * bit(16) + bit(17)
    BY <1>7, <1>11
  <2>2. SextetAt(bytes, 4 * g + k) = 4 * (y % 16) + z \div 64
    <3>1. 32 * bit(12) + 16 * bit(13) + 8 * bit(14) + 4 * bit(15) = 4 * (y % 16)
      BY <1>1, <1>5, HighBits
    <3>2. 2 * bit(16) + bit(17) = z \div 64
      BY <1>1, <1>6, HighBits
    <3> DEFINE p1 == 32 * bit(12)
               p2 == 16 * bit(13)
               p3 == 8 * bit(14)
               p4 == 4 * bit(15)
               p5 == 2 * bit(16)
               p6 == bit(17)
               v == 4 * (y % 16)
               w == z \div 64
    <3>3. p1 \in Int /\ p2 \in Int /\ p3 \in Int /\ p4 \in Int /\ p5 \in Int /\ p6 \in Int
      <4>1. \A n \in Int : /\ 32 * n \in Int /\ 16 * n \in Int /\ 8 * n \in Int /\ 4 * n \in Int
                           /\ 2 * n \in Int
        OBVIOUS
      <4>. QED
        BY <1>8, <4>1, Zenon
    <3>4. v = p1 + p2 + p3 + p4 /\ w = p5 + p6 /\ SextetAt(bytes, 4 * g + k) = p1 + p2 + p3 + p4 + p5 + p6
      BY <2>1, <3>1, <3>2
    <3>. HIDE DEF p1, p2, p3, p4, p5, p6, v, w
    <3>5. SextetAt(bytes, 4 * g + k) = v + w
      BY <3>3, <3>4
    <3>. QED
      BY <3>5 DEF v, w
  <2>. QED
    BY <1>11, <2>2 DEF SextetOf, Third, y, z
<1>12. CASE k = 4
  <2>1. SextetAt(bytes, 4 * g + k) =
          32 * bit(18) + 16 * bit(19) + 8 * bit(20) + 4 * bit(21) + 2 * bit(22) + bit(23)
    BY <1>7, <1>12
  <2>2. SextetAt(bytes, 4 * g + k) = z % 64
    BY <2>1, <1>1, <1>6, HighBits
  <2>. QED
    BY <1>12, <2>2 DEF SextetOf, Fourth, z
<1>. QED
  BY <1>9, <1>10, <1>11, <1>12

-----------------------------------------------------------------------------
(* What shifting and masking a group amounts to. *)
LEMMA PowersOfGroup ==
  /\ Power(64, 0) = 1 /\ Power(64, 1) = 64 /\ Power(64, 2) = 4096 /\ Power(64, 3) = 262144
  /\ Power(256, 0) = 1 /\ Power(256, 1) = 256 /\ Power(256, 2) = 65536
  /\ Power(4, 0) = 1 /\ Power(4, 1) = 4 /\ Power(4, 2) = 16
BY SMT DEF Power

LEMMA PartsOfByte ==
  ASSUME NEW x \in Octets
  PROVE  /\ x \div 4 \in 0..63 /\ x % 4 \in 0..3 /\ x = 4 * (x \div 4) + (x % 4)
         /\ x \div 16 \in 0..15 /\ x % 16 \in 0..15 /\ x = 16 * (x \div 16) + (x % 16)
         /\ x \div 64 \in 0..3 /\ x % 64 \in 0..63 /\ x = 64 * (x \div 64) + (x % 64)
BY SMT DEF Octets

(* A group of three bytes to characters. *)
LEMMA DigitsOfThree ==
  ASSUME NEW x \in Octets, NEW y \in Octets, NEW z \in Octets,
         NEW v, v = 65536 * x + 256 * y + z
  PROVE  /\ Digit(v, 64, 3) = First(x) /\ Digit(v, 64, 2) = Second(x, y)
         /\ Digit(v, 64, 1) = Third(y, z) /\ Digit(v, 64, 0) = Fourth(z)
<1> DEFINE a == x \div 4
           b == x % 4
           c == y \div 16
           d == y % 16
           e == z \div 64
           f == z % 64
<1>1. /\ a \in 0..63 /\ b \in 0..3 /\ x = 4 * a + b
      /\ c \in 0..15 /\ d \in 0..15 /\ y = 16 * c + d
      /\ e \in 0..3 /\ f \in 0..63 /\ z = 64 * e + f
  BY PartsOfByte, SMT
<1>2. First(x) = a /\ Second(x, y) = 16 * b + c /\ Third(y, z) = 4 * d + e /\ Fourth(z) = f
  BY SMT DEF First, Second, Third, Fourth
<1>. HIDE DEF a, b, c, d, e, f
<1>3. v = 262144 * a + 65536 * b + 4096 * c + 256 * d + 64 * e + f /\ v \in Nat
  BY <1>1, SMT
<1>4. Digit(v, 64, 3) = a
  <2>1. v \div 262144 = a
    BY <1>1, <1>3, SMT
  <2>. QED
    BY <1>1, <2>1, PowersOfGroup, SMT DEF Digit
<1>5. Digit(v, 64, 2) = 16 * b + c
  <2>1. v \div 4096 = 64 * a + (16 * b + c)
    BY <1>1, <1>3, SMT
  <2>2. (64 * a + (16 * b + c)) % 64 = 16 * b + c
    BY <1>1, SMT
  <2>. QED
    BY <2>1, <2>2, PowersOfGroup, SMT DEF Digit
<1>6. Digit(v, 64, 1) = 4 * d + e
  <2>1. v \div 64 = 64 * (64 * a + 16 * b + c) + (4 * d + e)
    BY <1>1, <1>3, SMT
  <2>2. (64 * (64 * a + 16 * b + c) + (4 * d + e)) % 64 = 4 * d + e
    BY <1>1, SMT
  <2>. QED
    BY <2>1, <2>2, PowersOfGroup, SMT DEF Digit
<1>7. Digit(v, 64, 0) = f
  <2>1. v \div 1 = v /\ v % 64 = f
    BY <1>1, <1>3, SMT
  <2>. QED
    BY <2>1, PowersOfGroup, SMT DEF Digit
<1>. QED
  BY <1>2, <1>4, <1>5, <1>6, <1>7, SMT

(* The last group, of two bytes or of one. *)
LEMMA DigitsOfTwo ==
  ASSUME NEW x \in Octets, NEW y \in Octets, NEW v, v = (256 * x + y) * 4
  PROVE  /\ Digit(v, 64, 2) = First(x) /\ Digit(v, 64, 1) = Second(x, y)
         /\ Digit(v, 64, 0) = Third(y, 0)
<1> DEFINE a == x \div 4
           b == x % 4
           c == y \div 16
           d == y % 16
<1>1. /\ a \in 0..63 /\ b \in 0..3 /\ x = 4 * a + b
      /\ c \in 0..15 /\ d \in 0..15 /\ y = 16 * c + d
  BY PartsOfByte, SMT
<1>2. First(x) = a /\ Second(x, y) = 16 * b + c /\ Third(y, 0) = 4 * d
  <2>1. d \in Int /\ 0 \div 64 = 0
    BY <1>1, SMT
  <2>. QED
    BY <2>1, SMT DEF First, Second, Third
<1>. HIDE DEF a, b, c, d
<1>3. v = 4096 * a + 1024 * b + 64 * c + 4 * d /\ v \in Nat
  BY <1>1, SMT
<1>4. Digit(v, 64, 2) = a
  <2>1. v \div 4096 = a
    BY <1>1, <1>3, SMT
  <2>. QED
    BY <1>1, <2>1, PowersOfGroup, SMT DEF Digit
<1>5. Digit(v, 64, 1) = 16 * b + c
  <2>1. v \div 64 = 64 * a + (16 * b + c)
    BY <1>1, <1>3, SMT
  <2>2. (64 * a + (16 * b + c)) % 64 = 16 * b + c
    BY <1>1, SMT
  <2>. QED
    BY <2>1, <2>2, PowersOfGroup, SMT DEF Digit
<1>6. Digit(v, 64, 0) = 4 * d
  <2>1. v \div 1 = v /\ v % 64 = 4 * d
    BY <1>1, <1>3, SMT
  <2>. QED
    BY <2>1, PowersOfGroup, SMT DEF Digit
<1>. QED
  BY <1>2, <1>4, <1>5, <1>6, SMT

LEMMA DigitsOfOne ==
  ASSUME NEW x \in Octets, NEW v, v = x * 16
  PROVE  Digit(v, 64, 1) = First(x) /\ Digit(v, 64, 0) = Second(x, 0)
<1> DEFINE a == x \div 4
           b == x % 4
<1>1. a \in 0..63 /\ b \in 0..3 /\ x = 4 * a + b
  BY PartsOfByte, SMT
<1>2. First(x) = a /\ Second(x, 0) = 16 * b
  <2>1. b \in Int /\ 0 \div 16 = 0
    BY <1>1, SMT
  <2>. QED
    BY <2>1, SMT DEF First, Second
<1>. HIDE DEF a, b
<1>3. v = 64 * a + 16 * b /\ v \in Nat
  BY <1>1, SMT
<1>4. Digit(v, 64, 1) = a
  <2>1. v \div 64 = a
    BY <1>1, <1>3, SMT
  <2>. QED
    BY <1>1, <2>1, PowersOfGroup, SMT DEF Digit
<1>5. Digit(v, 64, 0) = 16 * b
  <2>1. v \div 1 = v /\ v % 64 = 16 * b
    BY <1>1, <1>3, SMT
  <2>. QED
    BY <2>1, PowersOfGroup, SMT DEF Digit
<1>. QED
  BY <1>2, <1>4, <1>5, SMT

(* And back. *)
LEMMA BytesOfFour ==
  ASSUME NEW x \in Octets, NEW y \in Octets, NEW z \in Octets,
         NEW v, v = 262144 * First(x) + 4096 * Second(x, y) + 64 * Third(y, z) + Fourth(z)
  PROVE  Digit(v, 256, 2) = x /\ Digit(v, 256, 1) = y /\ Digit(v, 256, 0) = z
<1>1. v = 65536 * x + 256 * y + z
  BY SMT DEF First, Second, Third, Fourth, Octets
<1>2. v \div 65536 = x /\ v \div 256 = 256 * x + y /\ v \div 1 = v /\ v % 256 = z
  BY <1>1, SMT DEF Octets
<1>3. x % 256 = x /\ (256 * x + y) % 256 = y
  BY SMT DEF Octets
<1>. QED
  BY <1>2, <1>3, PowersOfGroup, SMT DEF Digit

LEMMA BytesOfThree ==
  ASSUME NEW x \in Octets, NEW y \in Octets,
         NEW v, v = (4096 * First(x) + 64 * Second(x, y) + Third(y, 0)) \div 4
  PROVE  Digit(v, 256, 1) = x /\ Digit(v, 256, 0) = y
<1>1. v = 256 * x + y
  BY SMT DEF First, Second, Third, Octets
<1>2. v \div 256 = x /\ v \div 1 = v /\ v % 256 = y
  BY <1>1, SMT DEF Octets
<1>3. x % 256 = x
  BY SMT DEF Octets
<1>. QED
  BY <1>2, <1>3, PowersOfGroup, SMT DEF Digit

LEMMA BytesOfTwo ==
  ASSUME NEW x \in Octets, NEW v, v = (64 * First(x) + Second(x, 0)) \div 16
  PROVE  Digit(v, 256, 0) = x
<1>1. v = x
  BY SMT DEF First, Second, Octets
<1>2. v \div 1 = v /\ v % 256 = x
  BY <1>1, SMT DEF Octets
<1>. QED
  BY <1>2, PowersOfGroup, SMT DEF Digit

(* The two tables are inverse. *)
LEMMA CharactersDiffer ==
  ASSUME NEW s \in 0..63, NEW t \in 0..63, Character(s) = Character(t)
  PROVE  s = t
BY DEF Character

LEMMA SextetOfCharacter ==
  ASSUME NEW s \in 0..63
  PROVE  Sextet(Character(s)) = s
BY CharactersDiffer DEF Sextet

LEMMA SextetsByPlace ==
  ASSUME NEW x, NEW y, NEW z
  PROVE  /\ SextetOf(x, y, z, 1) = First(x) /\ SextetOf(x, y, z, 2) = Second(x, y)
         /\ SextetOf(x, y, z, 3) = Third(y, z) /\ SextetOf(x, y, z, 4) = Fourth(z)
BY DEF SextetOf

LEMMA SextetsAreSmall ==
  ASSUME NEW x \in Octets, NEW y \in Octets, NEW z \in Octets
  PROVE  /\ First(x) \in 0..63 /\ Second(x, y) \in 0..63
         /\ Third(y, z) \in 0..63 /\ Fourth(z) \in 0..63
<1>1. First(x) \in 0..63 /\ Fourth(z) \in 0..63
  BY SMT DEF First, Fourth, Octets
<1>2. Second(x, y) \in 0..63
  BY SMT DEF Second, Octets
<1>3. Third(y, z) \in 0..63
  BY SMT DEF Third, Octets
<1>. QED
  BY <1>1, <1>2, <1>3

LEMMA SextetIsSmall ==
  ASSUME NEW x \in Octets, NEW y \in Octets, NEW z \in Octets, NEW k \in 1..4
  PROVE  SextetOf(x, y, z, k) \in 0..63
<1>1. /\ First(x) \in 0..63 /\ Second(x, y) \in 0..63
      /\ Third(y, z) \in 0..63 /\ Fourth(z) \in 0..63
  BY SextetsAreSmall
<1>. QED
  BY <1>1 DEF SextetOf

(* The loop and the last group of encode_base64. *)
LEMMA CharactersOfGroup ==
  ASSUME NEW group \in Seq(Octets), NEW n \in 1..3, Len(group) = n, NEW k \in 1..(n + 1)
  PROVE  Characters(group)[k] =
           Character(SextetOf(ByteAt(group, 1), ByteAt(group, 2), ByteAt(group, 3), k))
<1> DEFINE x == ByteAt(group, 1)
           y == ByteAt(group, 2)
           z == ByteAt(group, 3)
           value == Number(group, 256) * Power(4, 3 - n)
<1>1. x \in Octets /\ y \in Octets /\ z \in Octets
  BY BytesOfGroup
<1>2. Characters(group)[k] = Character(Digit(value, 64, n + 1 - k))
  BY DEF Characters
<1>3. Digit(value, 64, n + 1 - k) = SextetOf(x, y, z, k)
  <2>1. CASE n = 3
    <3>1. group[1] = x /\ group[2] = y /\ group[3] = z
      BY <2>1 DEF ByteAt
    <3>2. Number(group, 256) = group[3 - 2] * Power(256, 2) + group[3 - 1] * Power(256, 1)
                                 + group[3 - 0] * Power(256, 0)
      BY <2>1 DEF Number
    <3>. HIDE DEF x, y, z
    <3>3. value = 65536 * x + 256 * y + z
      BY <1>1, <2>1, <3>1, <3>2, PowersOfGroup, SMTT(30) DEF Octets
    <3>. HIDE DEF value
    <3>4. /\ Digit(value, 64, 3) = First(x) /\ Digit(value, 64, 2) = Second(x, y)
          /\ Digit(value, 64, 1) = Third(y, z) /\ Digit(value, 64, 0) = Fourth(z)
      BY <1>1, <3>3, DigitsOfThree, SMT
    <3>. QED
      BY <2>1, <3>4, SextetsByPlace, SMT
  <2>2. CASE n = 2
    <3>1. group[1] = x /\ group[2] = y /\ z = 0
      BY <2>2 DEF ByteAt
    <3>2. Number(group, 256) = group[2 - 1] * Power(256, 1) + group[2 - 0] * Power(256, 0)
      BY <2>2 DEF Number
    <3>. HIDE DEF x, y, z
    <3>3. value = (256 * x + y) * 4
      BY <1>1, <2>2, <3>1, <3>2, PowersOfGroup, SMT DEF Octets
    <3>. HIDE DEF value
    <3>4. /\ Digit(value, 64, 2) = First(x) /\ Digit(value, 64, 1) = Second(x, y)
          /\ Digit(value, 64, 0) = Third(y, z)
      BY <1>1, <3>1, <3>3, DigitsOfTwo, SMT
    <3>. QED
      BY <2>2, <3>4, SextetsByPlace, SMT
  <2>3. CASE n = 1
    <3>1. group[1] = x /\ y = 0
      BY <2>3 DEF ByteAt
    <3>2. Number(group, 256) = group[1 - 0] * Power(256, 0)
      BY <2>3 DEF Number
    <3>. HIDE DEF x, y, z
    <3>3. value = x * 16
      BY <1>1, <2>3, <3>1, <3>2, PowersOfGroup, SMT DEF Octets
    <3>. HIDE DEF value
    <3>4. Digit(value, 64, 1) = First(x) /\ Digit(value, 64, 0) = Second(x, y)
      BY <1>1, <3>1, <3>3, DigitsOfOne, SMT
    <3>. QED
      BY <2>3, <3>4, SextetsByPlace, SMT
  <2>. QED
    BY <2>1, <2>2, <2>3
<1>. QED
  BY <1>2, <1>3

(* The loop and the last group of decode_base64: the characters of a group *)
(* become the bytes they were made of.                                     *)
IsTextOf(text, n, x, y, z) ==
  /\ n \in 2..4 /\ Len(text) = n
  /\ (n = 2 => y = 0) /\ (n <= 3 => z = 0)
  /\ \A k \in 1..n : text[k] = Character(SextetOf(x, y, z, k))
OctetOf(x, y, z, i) == << x, y, z >>[i]

LEMMA BytesOfCharacters ==
  ASSUME NEW x \in Octets, NEW y \in Octets, NEW z \in Octets,
         NEW n, NEW text, IsTextOf(text, n, x, y, z), NEW i \in 1..(n - 1)
  PROVE  Bytes(text)[i] = OctetOf(x, y, z, i)
<1>. USE DEF IsTextOf
<1>0. n = 2 \/ n = 3 \/ n = 4
  OBVIOUS
<1> DEFINE sextets == [c \in 1..n |-> Sextet(text[c])]
           value == Number(sextets, 64) \div Power(4, 4 - n)
<1>1. /\ sextets \in Seq(0..63) /\ Len(sextets) = n
      /\ \A k \in 1..n : sextets[k] = SextetOf(x, y, z, k) /\ sextets[k] \in 0..63
  <2>1. ASSUME NEW k \in 1..n
        PROVE  SextetOf(x, y, z, k) \in 0..63
    <3>1. k \in 1..4
      OBVIOUS
    <3>. QED
      BY <3>1, SextetIsSmall, Zenon
  <2>2. ASSUME NEW k \in 1..n
        PROVE  sextets[k] = SextetOf(x, y, z, k)
    BY <2>1, SextetOfCharacter, Zenon
  <2>3. sextets \in [1..n -> 0..63]
    BY <2>1, <2>2, Zenon
  <2>4. \A f \in [1..n -> 0..63] : f \in Seq(0..63) /\ Len(f) = n
    OBVIOUS
  <2>5. \A k \in 1..n : sextets[k] = SextetOf(x, y, z, k) /\ sextets[k] \in 0..63
    BY <2>1, <2>2, ZenonT(30)
  <2>. HIDE DEF sextets
  <2>. QED
    BY <2>3, <2>4, <2>5, Zenon
<1>2. Bytes(text)[i] = Digit(value, 256, n - 1 - i)
  BY DEF Bytes
<1>. HIDE DEF sextets
<1>3. /\ First(x) \in Nat /\ Second(x, y) \in Nat /\ Third(y, z) \in Nat /\ Fourth(z) \in Nat
  <2>1. \A s \in 0..63 : s \in Nat
    OBVIOUS
  <2>. QED
    BY <2>1, SextetsAreSmall, ZenonT(30)
<1>4. CASE n = 4
  <2>1. /\ sextets[1] = First(x) /\ sextets[2] = Second(x, y)
        /\ sextets[3] = Third(y, z) /\ sextets[4] = Fourth(z)
    BY <1>1, <1>4, SextetsByPlace, SMT
  <2>2. Number(sextets, 64) = sextets[4 - 3] * Power(64, 3) + sextets[4 - 2] * Power(64, 2)
                                + sextets[4 - 1] * Power(64, 1) + sextets[4 - 0] * Power(64, 0)
    BY <1>1, <1>4 DEF Number
  <2>3. value = 262144 * First(x) + 4096 * Second(x, y) + 64 * Third(y, z) + Fourth(z)
    BY <1>3, <1>4, <2>1, <2>2, PowersOfGroup, SMT
  <2>. HIDE DEF value
  <2>4. Digit(value, 256, 2) = x /\ Digit(value, 256, 1) = y /\ Digit(value, 256, 0) = z
    BY <2>3, BytesOfFour, SMT
  <2>. QED
    BY <1>2, <1>4, <2>4, SMT DEF OctetOf
<1>5. CASE n = 3
  <2>1. sextets[1] = First(x) /\ sextets[2] = Second(x, y) /\ sextets[3] = Third(y, 0)
    BY <1>1, <1>5, SextetsByPlace, SMT
  <2>2. Number(sextets, 64) = sextets[3 - 2] * Power(64, 2) + sextets[3 - 1] * Power(64, 1)
                                + sextets[3 - 0] * Power(64, 0)
    BY <1>1, <1>5 DEF Number
  <2>3. value = (4096 * First(x) + 64 * Second(x, y) + Third(y, 0)) \div 4
    BY <1>3, <1>5, <2>1, <2>2, PowersOfGroup, SMT
  <2>. HIDE DEF value
  <2>4. Digit(value, 256, 1) = x /\ Digit(value, 256, 0) = y
    BY <2>3, BytesOfThree, SMT
  <2>. QED
    BY <1>2, <1>5, <2>4, SMT DEF OctetOf
<1>6. CASE n = 2
  <2>1. sextets[1] = First(x) /\ sextets[2] = Second(x, 0)
    BY <1>1, <1>6, SextetsByPlace, SMT
  <2>2. Number(sextets, 64) = sextets[2 - 1] * Power(64, 1) + sextets[2 - 0] * Power(64, 0)
    BY <1>1, <1>6 DEF Number
  <2>3. value = (64 * First(x) + Second(x, 0)) \div 16
    BY <1>3, <1>6, <2>1, <2>2, PowersOfGroup, SMT
  <2>. HIDE DEF value
  <2>4. Digit(value, 256, 0) = x
    BY <2>3, BytesOfTwo, SMT
  <2>. QED
    BY <1>2, <1>6, <2>4, SMT DEF OctetOf
<1>. QED
  BY <1>4, <1>5, <1>6, <1>0
-----------------------------------------------------------------------------
(* The n bytes after the first g groups of d: a whole group or the last. *)
IsGroup(d, g, n) ==
  /\ d \in Seq(Octets) /\ g \in Nat /\ n \in 1..3
  /\ 3 * g + n <= Len(d) /\ (n = 3 \/ 3 * g + n = Len(d))
HasBytes(group, d, g, n) ==
  /\ group \in Seq(Octets) /\ Len(group) = n
  /\ \A j \in 1..n : group[j] = d[3 * g + j]
HasText(text, d, g, n) ==
  /\ Len(text) = n + 1
  /\ \A k \in 1..(n + 1) : text[k] = CharacterAt(d, 4 * g + k)

LEMMA EncodedGroup ==
  ASSUME NEW d, NEW g, NEW n, NEW group, IsGroup(d, g, n), HasBytes(group, d, g, n)
  PROVE  \A k \in 1..(n + 1) : Characters(group)[k] = CharacterAt(d, 4 * g + k)
<1>. USE DEF IsGroup, HasBytes
<1> SUFFICES ASSUME NEW k \in 1..(n + 1)
             PROVE  Characters(group)[k] = CharacterAt(d, 4 * g + k)
  OBVIOUS
<1>1. /\ ByteAt(group, 1) = ByteAt(d, 3 * g + 1)
      /\ ByteAt(group, 2) = ByteAt(d, 3 * g + 2)
      /\ ByteAt(group, 3) = ByteAt(d, 3 * g + 3)
  <2> SUFFICES ASSUME NEW j \in 1..3
               PROVE  ByteAt(group, j) = ByteAt(d, 3 * g + j)
    OBVIOUS
  <2>1. Len(d) \in Nat
    OBVIOUS
  <2>2. CASE j <= n
    BY <2>1, <2>2, SMT DEF ByteAt
  <2>3. CASE ~(j <= n)
    BY <2>1, <2>3, SMT DEF ByteAt
  <2>. QED
    BY <2>2, <2>3
<1>2. k \in 1..4
  OBVIOUS
<1>3. Characters(group)[k] =
        Character(SextetOf(ByteAt(group, 1), ByteAt(group, 2), ByteAt(group, 3), k))
  BY CharactersOfGroup, Zenon
<1>4. SextetAt(d, 4 * g + k) =
        SextetOf(ByteAt(d, 3 * g + 1), ByteAt(d, 3 * g + 2), ByteAt(d, 3 * g + 3), k)
  BY <1>2, SextetOfGroup, Zenon
<1>. QED
  BY <1>1, <1>3, <1>4, Zenon DEF CharacterAt

LEMMA DecodedGroup ==
  ASSUME NEW d, NEW g, NEW n, NEW text, IsGroup(d, g, n), HasText(text, d, g, n)
  PROVE  \A i \in 1..n : Bytes(text)[i] = d[3 * g + i]
<1>. USE DEF IsGroup, HasText
<1> SUFFICES ASSUME NEW i \in 1..n
             PROVE  Bytes(text)[i] = d[3 * g + i]
  OBVIOUS
<1> DEFINE x == ByteAt(d, 3 * g + 1)
           y == ByteAt(d, 3 * g + 2)
           z == ByteAt(d, 3 * g + 3)
           m == n + 1
<1>1. x \in Octets /\ y \in Octets /\ z \in Octets
  BY BytesOfGroup
<1>2. (m = 2 => y = 0) /\ (m <= 3 => z = 0)
  <2>1. Len(d) \in Nat
    OBVIOUS
  <2>. QED
    BY <2>1, SMT DEF ByteAt
<1>3. << x, y, z >>[i] = d[3 * g + i]
  <2>1. Len(d) \in Nat
    OBVIOUS
  <2>2. ByteAt(d, 3 * g + i) = d[3 * g + i]
    BY <2>1, SMT DEF ByteAt
  <2>3. i = 1 \/ i = 2 \/ i = 3
    OBVIOUS
  <2>. HIDE DEF x, y, z
  <2>4. /\ i = 1 => << x, y, z >>[i] = x
        /\ i = 2 => << x, y, z >>[i] = y
        /\ i = 3 => << x, y, z >>[i] = z
    OBVIOUS
  <2>. QED
    BY <2>2, <2>3, <2>4, Zenon DEF x, y, z
<1>4. \A k \in 1..m : text[k] = Character(SextetOf(x, y, z, k))
  <2> SUFFICES ASSUME NEW k \in 1..m
               PROVE  text[k] = Character(SextetOf(x, y, z, k))
    OBVIOUS
  <2>1. k \in 1..4 /\ k \in 1..(n + 1)
    OBVIOUS
  <2>2. SextetAt(d, 4 * g + k) = SextetOf(x, y, z, k)
    BY <2>1, SextetOfGroup, Zenon
  <2>3. text[k] = CharacterAt(d, 4 * g + k)
    BY <2>1, Zenon
  <2>. QED
    BY <2>2, <2>3, Zenon DEF CharacterAt
<1>5. m \in 2..4 /\ Len(text) = m /\ i \in 1..(m - 1)
  OBVIOUS
<1>. HIDE DEF x, y, z, m
<1>7. IsTextOf(text, m, x, y, z)
  BY <1>2, <1>4, <1>5 DEF IsTextOf
<1>8. i \in 1..(m - 1)
  BY <1>5
<1>6. Bytes(text)[i] = OctetOf(x, y, z, i)
  BY <1>1, <1>7, <1>8, BytesOfCharacters
<1>. QED
  BY <1>3, <1>6, Zenon DEF OctetOf

(* How long a text is, group by group. *)
LEMMA TextOfGroups ==
  ASSUME NEW N \in Nat, NEW g \in Nat, 3 * g < N,
         NEW n, n = Smaller(3, N - 3 * g)
  PROVE  /\ n \in 1..3 /\ 3 * g + n <= N
         /\ n = 3 \/ 3 * g + n = N
         /\ n # 3 => 4 * g + n + 1 = encode_base64_length(N)
         /\ 4 * g + n + 1 <= encode_base64_length(N)
BY SMT DEF Smaller, encode_base64_length

LEMMA BytesOfGroups ==
  ASSUME NEW N \in Nat, NEW g \in Nat, 4 * g < encode_base64_length(N),
         NEW m, m = Smaller(4, encode_base64_length(N) - 4 * g)
  PROVE  /\ m \in 2..4 /\ 3 * g + (m - 1) <= N
         /\ m = 4 \/ 3 * g + (m - 1) = N
         /\ m # 4 => 4 * g + m = encode_base64_length(N)
BY SMT DEF Smaller, encode_base64_length

LEMMA WholeText ==
  ASSUME NEW N \in Nat
  PROVE  /\ \A g \in Nat : N = 3 * g => encode_base64_length(N) = 4 * g
         /\ \A g \in Nat : encode_base64_length(N) = 4 * g => N = 3 * g
         /\ decode_base64_length(encode_base64_length(N)) = N
BY SMT DEF encode_base64_length, decode_base64_length
-----------------------------------------------------------------------------
(* A part of the memory, value by value. *)
LEMMA PartOfMemory ==
  ASSUME NEW S, NEW mem, NEW a \in Nat, NEW n \in Nat,
         \A j \in 1..n : mem[a + j] \in S
  PROVE  /\ SubSeq(mem, a + 1, a + n) \in Seq(S)
         /\ Len(SubSeq(mem, a + 1, a + n)) = n
         /\ \A j \in 1..n : SubSeq(mem, a + 1, a + n)[j] = mem[a + j]
<1> DEFINE from == a + 1
           to == a + n
           part == SubSeq(mem, from, to)
<1>1. from \in Int /\ to \in Int /\ to - from + 1 = n
  OBVIOUS
<1>2. \A i \in from..to : mem[i] \in S
  <2> SUFFICES ASSUME NEW i \in from..to
               PROVE  mem[i] \in S
    OBVIOUS
  <2>1. i - a \in 1..n /\ a + (i - a) = i
    OBVIOUS
  <2>. QED
    BY <2>1
<1>. HIDE DEF from, to
<1>6. from \in Int /\ to \in Int
  BY <1>1
<1>3. /\ part \in Seq(S)
      /\ Len(part) = IF from <= to THEN to - from + 1 ELSE 0
      /\ \A i \in 1..(to - from + 1) : part[i] = mem[from + i - 1]
  BY <1>6, <1>2, SubSeqProperties
<1>. HIDE DEF part
<1>4. Len(part) = n
  BY <1>1, <1>3, SMTT(30) DEF from, to
<1>5. \A j \in 1..n : part[j] = mem[a + j]
  <2> SUFFICES ASSUME NEW j \in 1..n
               PROVE  part[j] = mem[a + j]
    OBVIOUS
  <2>1. from + j - 1 = a + j
    BY DEF from
  <2>. QED
    BY <1>1, <1>3, <2>1, Zenon
<1>. QED
  BY <1>3, <1>4, <1>5 DEF part, from, to

-----------------------------------------------------------------------------
(* What is written so far: whole groups, or everything. *)
InGroups(read, in, written, out) ==
  \E g \in Nat : read = in * g /\ written = out * g

Holds(mem, from, n, expected) == \A c \in 1..n : mem[from + c] = expected[c]

Encoded ==
  LET N    == Len(data)
      from == OutputPosition(use, N)
  IN /\ data \in Seq(Octets)
     /\ from + encode_base64_length(N) <= Len(memory)
     /\ \/ InGroups(N - left, 3, output - from, 4)
        \/ left = 0 /\ output - from = encode_base64_length(N)
     /\ Holds(memory, from, output - from, Base64Of(data))

Decoded(bytes) ==
  LET N    == Len(bytes)
      from == OutputPosition(use, Len(data))
  IN /\ bytes \in Seq(Octets) /\ data = Base64Of(bytes)
     /\ from + N <= Len(memory)
     /\ \/ InGroups(Len(data) - left, 4, output - from, 3)
        \/ left = 0 /\ output - from = N
     /\ Holds(memory, from, output - from, bytes)

WrittenSoFar ==
  IF IsDecoding(use) THEN \E bytes \in Seq(Octets) : Decoded(bytes) ELSE Encoded

LEMMA OutputPositionIsNat ==
  ASSUME NEW u, NEW n \in Nat
  PROVE  OutputPosition(u, n) \in Nat
BY DEF OutputPosition

(* What was written stays, and the group follows it. *)
Fits(mem, from, made, k) ==
  /\ from \in Nat /\ made \in Nat /\ k \in Nat
  /\ DOMAIN mem = 1..Len(mem) /\ Len(mem) \in Nat /\ from + made + k <= Len(mem)

LEMMA OneGroupMore ==
  ASSUME NEW mem, NEW from, NEW made, NEW k, NEW f, NEW expected,
         Fits(mem, from, made, k), Holds(mem, from, made, expected),
         \A i \in 1..k : f[i] = expected[made + i]
  PROVE  Holds(Overwritten(mem, from + made, k, f), from, made + k, expected)
<1> DEFINE pos == from + made
           new == Overwritten(mem, pos, k, f)
<1>1. /\ from \in Nat /\ made \in Nat /\ k \in Nat /\ pos \in Nat /\ k \in Int
      /\ \A c \in 1..(made + k) : from + c \in DOMAIN mem /\ from + c \in Int
  BY DEF Fits
<1>2. ASSUME NEW c \in 1..(made + k)
      PROVE  new[from + c] = expected[c]
  <2>1. CASE c <= made
    <3>1. c \in 1..made /\ (from + c > pos + k \/ from + c <= pos)
      BY <1>1, <2>1
    <3>2. mem[from + c] = expected[c]
      BY <3>1, Zenon DEF Holds
    <3>. HIDE DEF pos
    <3>3. new[from + c] = mem[from + c]
      BY <1>1, <3>1, OverwrittenBefore
    <3>. QED
      BY <3>2, <3>3, Zenon
  <2>2. CASE ~(c <= made)
    <3> DEFINE p == from + c
               j == p - pos
    <3>1. j \in 1..k /\ made + j = c /\ p \in (pos + 1)..(pos + k)
      BY <1>1, <2>2
    <3>2. p \in DOMAIN mem
      BY <1>1
    <3>. HIDE DEF p, pos
    <3>3. new[p] = f[p - pos]
      BY <3>1, <3>2, Zenon DEF Overwritten
    <3>. HIDE DEF j
    <3>4. f[j] = expected[made + j]
      BY <3>1, Zenon
    <3>. QED
      BY <3>1, <3>3, <3>4, Zenon DEF p, j
  <2>. QED
    BY <2>1, <2>2
<1>. QED
  BY <1>2, Zenon DEF Holds

(* The caller's memory before the first group. *)
LEMMA WrittenInit ==
  ASSUME Init, GapInv
  PROVE  WrittenSoFar
<1> DEFINE n    == Len(data)
           from == OutputPosition(use, n)
           place == InputPosition(use, n)
           size == Larger(place + n, from + OutputLength(use, n))
<1>1. PICK bytes \in Inputs : data = IF IsDecoding(use) THEN Base64Of(bytes) ELSE bytes
  BY DEF Init
<1>2. bytes \in Seq(Octets) /\ Len(bytes) \in Nat
  BY Base64Constants DEF Octets
<1>3. n \in Nat /\ from \in Nat /\ place \in Nat
  <2>1. n \in Nat
    BY DEF GapInv, Positions
  <2>2. place \in Nat
    BY <2>1, TextIsNat DEF InputPosition, Room
  <2>. QED
    BY <2>1, <2>2, OutputPositionIsNat
<1>4. input = place /\ output = from /\ left = n
  BY DEF Init
<1>5. OutputLength(use, n) \in Nat => from + OutputLength(use, n) <= Len(memory)
  <2>1. memory = [p \in 1..size |-> IF p \in (place + 1)..(place + n) THEN data[p - place] ELSE 0]
    BY DEF Init, Memory
  <2>2. ASSUME OutputLength(use, n) \in Nat
        PROVE  from + OutputLength(use, n) <= Len(memory)
    <3>1. size \in Nat /\ size >= from + OutputLength(use, n)
      BY <1>3, <2>2 DEF Larger
    <3>. HIDE DEF size
    <3>2. Len(memory) = size
      BY <2>1, <3>1
    <3>. QED
      BY <3>1, <3>2
  <2>. QED
    BY <2>2
<1>6. n - left = 0 /\ output - from = 0
  BY <1>3, <1>4
<1>7. InGroups(n - left, 3, output - from, 4) /\ InGroups(n - left, 4, output - from, 3)
  <2>1. 0 \in Nat /\ 0 = 3 * 0 /\ 0 = 4 * 0
    OBVIOUS
  <2>. QED
    BY <1>6, <2>1, Zenon DEF InGroups
<1>8. CASE IsDecoding(use)
  <2>1. data = Base64Of(bytes) /\ n = encode_base64_length(Len(bytes))
    <3>1. data = Base64Of(bytes)
      BY <1>1, <1>8
    <3>2. encode_base64_length(Len(bytes)) \in Nat
      BY <1>2, TextIsNat
    <3>. QED
      BY <3>1, <3>2 DEF Base64Of
  <2>2. OutputLength(use, n) = Len(bytes)
    BY <1>2, <1>8, <2>1, WholeText DEF OutputLength
  <2>3. Decoded(bytes)
    BY <1>2, <1>5, <1>6, <1>7, <2>1, <2>2 DEF Decoded, Holds
  <2>. QED
    BY <1>2, <1>8, <2>3 DEF WrittenSoFar
<1>9. CASE ~IsDecoding(use)
  <2>1. data \in Seq(Octets)
    BY <1>1, <1>2, <1>9
  <2>2. OutputLength(use, n) = encode_base64_length(n) /\ encode_base64_length(n) \in Nat
    BY <1>3, <1>9, TextIsNat DEF OutputLength
  <2>3. Encoded
    BY <1>5, <1>6, <1>7, <2>1, <2>2 DEF Encoded, Holds
  <2>. QED
    BY <1>9, <2>3 DEF WrittenSoFar
<1>. QED
  BY <1>8, <1>9

(* A text is a sequence of the characters CharacterAt gives. *)
LEMMA TextByCharacter ==
  ASSUME NEW d \in Seq(Octets)
  PROVE  /\ encode_base64_length(Len(d)) \in Nat
         /\ Len(Base64Of(d)) = encode_base64_length(Len(d))
         /\ \A c \in 1..encode_base64_length(Len(d)) : Base64Of(d)[c] = CharacterAt(d, c)
<1>1. encode_base64_length(Len(d)) \in Nat
  BY TextIsNat
<1>. QED
  BY <1>1 DEF Base64Of

LEMMA TextIsCharacters ==
  ASSUME NEW d \in Seq(Octets)
  PROVE  Base64Of(d) \in Seq({CharacterAt(d, c) : c \in Nat})
<1> DEFINE S == {CharacterAt(d, c) : c \in Nat}
           n == encode_base64_length(Len(d))
<1>1. n \in Nat
  BY TextByCharacter
<1>2. ASSUME NEW c \in 1..n
      PROVE  CharacterAt(d, c) \in S
  <2>1. c \in Nat
    BY <1>1
  <2>. QED
    BY <2>1, Zenon
<1>3. Base64Of(d) \in [1..n -> S]
  <2>. HIDE DEF S, n
  <2>. QED
    BY <1>2, Zenon DEF Base64Of, n
<1>. HIDE DEF S, n
<1>4. \A f \in [1..n -> S] : f \in Seq(S)
  BY <1>1
<1>. QED
  BY <1>3, <1>4, Zenon DEF S

(* One group encoded, and one decoded, at its place. *)
LEMMA EncodeStep ==
  ASSUME GapInv, Encoded, ~IsDecoding(use), EncodeGroup
  PROVE  Encoded' /\ ~IsDecoding(use)'
<1> DEFINE N     == Len(data)
           from  == OutputPosition(use, N)
           n     == Smaller(3, left)
           group == NextInput(3)
           chars == Characters(group)
           made  == output - from
<1>1. /\ use' = use /\ data' = data /\ left > 0
      /\ memory' = Overwritten(memory, output, n + 1, chars)
      /\ input' = input + n /\ output' = output + n + 1 /\ left' = left - n
  BY DEF EncodeGroup
<1>2. /\ N \in Nat /\ input \in Nat /\ output \in Nat /\ left \in 0..N
      /\ DOMAIN memory = 1..Len(memory) /\ Len(memory) \in Nat
      /\ from \in Nat
      /\ UnreadIntact
  BY OutputPositionIsNat DEF GapInv, Positions
<1>3. /\ data \in Seq(Octets)
      /\ from + encode_base64_length(N) <= Len(memory)
      /\ Holds(memory, from, made, Base64Of(data))
      /\ InGroups(N - left, 3, made, 4)
  BY <1>1 DEF Encoded
<1>4. PICK g \in Nat : N - left = 3 * g /\ made = 4 * g
  BY <1>3 DEF InGroups
<1>5. 3 * g < N /\ left = N - 3 * g
  BY <1>1, <1>2, <1>4
<1>6. /\ n \in 1..3 /\ 3 * g + n <= N
      /\ n = 3 \/ 3 * g + n = N
      /\ n # 3 => 4 * g + n + 1 = encode_base64_length(N)
      /\ 4 * g + n + 1 <= encode_base64_length(N)
  BY <1>2, <1>5, TextOfGroups, Zenon
<1>7. \A j \in 1..n : memory[input + j] = data[3 * g + j] /\ data[3 * g + j] \in Octets
  <2> SUFFICES ASSUME NEW j \in 1..n
               PROVE  memory[input + j] = data[3 * g + j] /\ data[3 * g + j] \in Octets
    OBVIOUS
  <2>1. j \in 1..left /\ N - left + j = 3 * g + j /\ 3 * g + j \in 1..N
    BY <1>2, <1>5, <1>6, SMTT(30)
  <2>2. memory[input + j] = data[N - left + j]
    BY <1>2, <2>1, Zenon DEF UnreadIntact
  <2>3. data[3 * g + j] \in Octets
    BY <1>3, <2>1
  <2>. QED
    BY <2>1, <2>2, <2>3, Zenon
<1>8. /\ group \in Seq(Octets) /\ Len(group) = n
      /\ \A j \in 1..n : group[j] = data[3 * g + j]
  <2>1. group = SubSeq(memory, input + 1, input + n)
    BY DEF NextInput
  <2>2. n \in Nat /\ \A j \in 1..n : memory[input + j] \in Octets
    BY <1>6, <1>7
  <2>. HIDE DEF group, n
  <2>3. /\ group \in Seq(Octets) /\ Len(group) = n
        /\ \A j \in 1..n : group[j] = memory[input + j]
    BY <1>2, <2>1, <2>2, PartOfMemory
  <2>. QED
    BY <1>7, <2>3, Zenon
<1>. HIDE DEF n, group, made, from, N
<1>8a. IsGroup(data, g, n)
  BY <1>3, <1>6 DEF IsGroup, N
<1>8b. HasBytes(group, data, g, n)
  BY <1>8 DEF HasBytes
<1>9. \A i \in 1..(n + 1) : chars[i] = Base64Of(data)[made + i]
  <2> SUFFICES ASSUME NEW i \in 1..(n + 1)
               PROVE  chars[i] = Base64Of(data)[made + i]
    OBVIOUS
  <2>1. chars[i] = CharacterAt(data, 4 * g + i)
    BY <1>8a, <1>8b, EncodedGroup
  <2>2. 4 * g + i \in 1..encode_base64_length(N)
    BY <1>3, <1>6, TextByCharacter DEF N
  <2>3. Base64Of(data)[4 * g + i] = CharacterAt(data, 4 * g + i)
    BY <1>3, <2>2, TextByCharacter, Zenon DEF N
  <2>. QED
    BY <1>4, <2>1, <2>3, Zenon
<1>. HIDE DEF chars
<1>10. /\ made \in Nat /\ n + 1 \in Nat /\ output = from + made
       /\ from + made + (n + 1) <= Len(memory)
       /\ output' - from = made + (n + 1)
  <2>1. output = from + made
    BY <1>2 DEF made
  <2>2. encode_base64_length(N) \in Nat
    BY <1>2, TextIsNat
  <2>. QED
    BY <1>1, <1>2, <1>3, <1>4, <1>6, <2>1, <2>2, SMTT(30)
<1>11. Holds(memory', from, made + (n + 1), Base64Of(data))
  <2>1. memory' = Overwritten(memory, from + made, n + 1, chars)
    BY <1>1, <1>10
  <2>2. Fits(memory, from, made, n + 1)
    BY <1>2, <1>10 DEF Fits
  <2> DEFINE k == n + 1
             text == Base64Of(data)
  <2>3. \A i \in 1..k : chars[i] = text[made + i]
    BY <1>9
  <2>4. Fits(memory, from, made, k) /\ Holds(memory, from, made, text)
    BY <1>3, <2>2
  <2>. HIDE DEF k, text
  <2>5. Holds(Overwritten(memory, from + made, k, chars), from, made + k, text)
    BY <2>3, <2>4, OneGroupMore, Zenon
  <2>. QED
    BY <2>1, <2>5, Zenon DEF k, text
<1>12. \/ InGroups(N - left', 3, output' - from, 4)
       \/ left' = 0 /\ output' - from = encode_base64_length(N)
  <2>1. CASE n = 3
    <3>1. N - left' = 3 * (g + 1) /\ output' - from = 4 * (g + 1) /\ g + 1 \in Nat
      BY <1>1, <1>2, <1>4, <1>5, <1>10, <2>1
    <3>. QED
      BY <3>1, Zenon DEF InGroups
  <2>2. CASE n # 3
    BY <1>1, <1>2, <1>4, <1>5, <1>6, <1>10, <2>2
  <2>. QED
    BY <2>1, <2>2
<1>13. Len(memory') = Len(memory)
  BY <1>1, <1>2 DEF Overwritten
<1>14. Encoded'
  BY <1>1, <1>3, <1>10, <1>11, <1>12, <1>13 DEF Encoded, N, from
<1>. QED
  BY <1>1, <1>14 DEF IsDecoding

LEMMA DecodeStep ==
  ASSUME NEW bytes, GapInv, Decoded(bytes), IsDecoding(use), DecodeGroup
  PROVE  Decoded(bytes)' /\ IsDecoding(use)'
<1> DEFINE N    == Len(bytes)
           L    == Len(data)
           from == OutputPosition(use, L)
           n    == Smaller(4, left)
           k    == n - 1
           text == NextInput(4)
           octets == Bytes(text)
           made == output - from
<1>1. /\ use' = use /\ data' = data /\ left > 0
      /\ memory' = Overwritten(memory, output, n - 1, octets)
      /\ input' = input + n /\ output' = output + n - 1 /\ left' = left - n
  BY DEF DecodeGroup
<1>2. /\ L \in Nat /\ input \in Nat /\ output \in Nat /\ left \in 0..L
      /\ DOMAIN memory = 1..Len(memory) /\ Len(memory) \in Nat
      /\ from \in Nat
      /\ UnreadIntact
  BY OutputPositionIsNat DEF GapInv, Positions
<1>3. /\ bytes \in Seq(Octets) /\ data = Base64Of(bytes) /\ N \in Nat
      /\ from + N <= Len(memory)
      /\ Holds(memory, from, made, bytes)
      /\ InGroups(L - left, 4, made, 3)
  BY <1>1 DEF Decoded
<1>4. /\ L = encode_base64_length(N)
      /\ \A c \in 1..L : data[c] = CharacterAt(bytes, c)
  BY <1>3, TextByCharacter
<1>5. PICK g \in Nat : L - left = 4 * g /\ made = 3 * g
  BY <1>3 DEF InGroups
<1>6. 4 * g < L /\ left = L - 4 * g
  BY <1>1, <1>2, <1>5
<1>7. /\ n \in 2..4 /\ 3 * g + (n - 1) <= N
      /\ n = 4 \/ 3 * g + (n - 1) = N
      /\ n # 4 => 4 * g + n = L
  <2>1. n = Smaller(4, encode_base64_length(N) - 4 * g)
    BY <1>4, <1>6
  <2>. HIDE DEF n, N, L
  <2>. QED
    BY <1>3, <1>4, <1>6, <2>1, BytesOfGroups
<1>8. n <= left
  BY <1>2 DEF Smaller
<1>. HIDE DEF n, made, from, N, L, octets
<1>9. HasText(text, bytes, g, k)
  <2> DEFINE S == {CharacterAt(bytes, c) : c \in Nat}
  <2>1. ASSUME NEW j \in 1..n
        PROVE  memory[input + j] = CharacterAt(bytes, 4 * g + j) /\ memory[input + j] \in S
    <3>1. j \in 1..left /\ L - left + j = 4 * g + j /\ 4 * g + j \in 1..L /\ 4 * g + j \in Nat
      BY <1>2, <1>6, <1>7, <1>8
    <3>2. memory[input + j] = data[L - left + j]
      BY <1>2, <3>1, Zenon DEF UnreadIntact, L
    <3>3. memory[input + j] = CharacterAt(bytes, 4 * g + j)
      BY <1>4, <3>1, <3>2, Zenon
    <3>. QED
      BY <3>1, <3>3, Zenon
  <2>. HIDE DEF S
  <2>2. n \in Nat /\ \A j \in 1..n : memory[input + j] \in S
    BY <1>7, <2>1
  <2>3. text = SubSeq(memory, input + 1, input + n)
    BY DEF NextInput, n
  <2>. HIDE DEF text
  <2>4. Len(text) = n /\ \A j \in 1..n : text[j] = memory[input + j]
    BY <1>2, <2>2, <2>3, PartOfMemory
  <2>5. \A j \in 1..n : text[j] = CharacterAt(bytes, 4 * g + j)
    BY <2>1, <2>4, Zenon
  <2>6. k + 1 = n
    BY <1>7
  <2>. QED
    BY <2>4, <2>5, <2>6, Zenon DEF HasText
<1>10. IsGroup(bytes, g, k)
  BY <1>3, <1>7 DEF IsGroup, N
<1>11. \A i \in 1..k : octets[i] = bytes[made + i]
  <2>. HIDE DEF k, text
  <2>1. \A i \in 1..k : octets[i] = bytes[3 * g + i]
    BY <1>9, <1>10, DecodedGroup DEF octets
  <2>. QED
    BY <1>5, <2>1, Zenon
<1>12. /\ made \in Nat /\ k \in Nat /\ output = from + made
       /\ from + made + k <= Len(memory)
       /\ output' - from = made + k
  <2>1. output = from + made
    BY <1>2 DEF made
  <2>. QED
    BY <1>1, <1>2, <1>3, <1>5, <1>7, <2>1
<1>13. Holds(memory', from, made + k, bytes)
  <2>1. memory' = Overwritten(memory, from + made, k, octets)
    BY <1>1, <1>12
  <2>2. Fits(memory, from, made, k)
    BY <1>2, <1>12 DEF Fits
  <2>. HIDE DEF k
  <2>3. Holds(Overwritten(memory, from + made, k, octets), from, made + k, bytes)
    BY <1>3, <1>11, <2>2, OneGroupMore, Zenon
  <2>. QED
    BY <2>1, <2>3, Zenon
<1>14. \/ InGroups(L - left', 4, output' - from, 3)
       \/ left' = 0 /\ output' - from = N
  <2>1. CASE n = 4
    <3>1. L - left' = 4 * (g + 1) /\ output' - from = 3 * (g + 1) /\ g + 1 \in Nat
      BY <1>1, <1>2, <1>5, <1>6, <1>12, <2>1
    <3>. QED
      BY <3>1, Zenon DEF InGroups
  <2>2. CASE n # 4
    BY <1>1, <1>2, <1>5, <1>6, <1>7, <1>12, <2>2
  <2>. QED
    BY <2>1, <2>2
<1>15. Len(memory') = Len(memory)
  BY <1>1, <1>2 DEF Overwritten
<1>16. Decoded(bytes)'
  BY <1>1, <1>3, <1>12, <1>13, <1>14, <1>15 DEF Decoded, N, L, from
<1>. QED
  BY <1>1, <1>16 DEF IsDecoding

(* When nothing is left, everything is written. *)
LEMMA WrittenIsResult ==
  ASSUME GapInv, WrittenSoFar
  PROVE  ResultIsBase64
<1> SUFFICES ASSUME left = 0
             PROVE  IF IsDecoding(use)
                    THEN /\ Base64Of(Result) = data
                         /\ Len(Result) = decode_base64_length(Len(data))
                    ELSE Result = Base64Of(data)
  BY DEF ResultIsBase64
<1> DEFINE from == OutputPosition(use, Len(data))
           made == output - from
<1>1. Len(data) \in Nat /\ output \in Nat /\ from \in Nat
  BY OutputPositionIsNat DEF GapInv, Positions
<1>2. output = from + made
  BY <1>1
<1>. HIDE DEF from, made
<1>3. Result = SubSeq(memory, from + 1, from + made)
  BY <1>2, Zenon DEF Result, from
<1>4. ASSUME NEW n \in Nat, made = n, NEW S, NEW s \in Seq(S), Len(s) = n, Holds(memory, from, n, s)
      PROVE  Result = s
  <2>1. \A j \in 1..n : memory[from + j] = s[j] /\ memory[from + j] \in S
    BY <1>4 DEF Holds
  <2>2. /\ Result \in Seq(S) /\ Len(Result) = n
        /\ \A j \in 1..n : Result[j] = memory[from + j]
    BY <1>1, <1>3, <1>4, <2>1, PartOfMemory
  <2>3. \A j \in 1..n : Result[j] = s[j]
    BY <2>1, <2>2, Zenon
  <2>. QED
    BY <1>4, <2>2, <2>3, SeqEqual
<1>5. CASE IsDecoding(use)
  <2>1. PICK bytes \in Seq(Octets) : Decoded(bytes)
    BY <1>5 DEF WrittenSoFar
  <2> DEFINE N == Len(bytes)
  <2>2. /\ data = Base64Of(bytes) /\ N \in Nat
        /\ Holds(memory, from, made, bytes)
        /\ InGroups(Len(data) - left, 4, made, 3) \/ made = N
    BY <2>1 DEF Decoded, from, made
  <2>3. Len(data) = encode_base64_length(N)
    BY <2>2, TextByCharacter
  <2>4. made = N
    <3>1. ASSUME InGroups(Len(data) - left, 4, made, 3)
          PROVE  made = N
      <4>1. PICK g \in Nat : Len(data) - left = 4 * g /\ made = 3 * g
        BY <3>1 DEF InGroups
      <4>2. encode_base64_length(N) = 4 * g
        BY <1>1, <2>3, <4>1
      <4>. HIDE DEF N
      <4>. QED
        BY <2>2, <4>1, <4>2, WholeText, Zenon
    <3>. QED
      BY <2>2, <3>1
  <2>6. Result = bytes
    BY <1>4, <2>2, <2>4
  <2>7. N = decode_base64_length(Len(data))
    BY <2>2, <2>3, WholeText
  <2>. QED
    BY <1>5, <2>2, <2>6, <2>7
<1>6. CASE ~IsDecoding(use)
  <2> DEFINE N == Len(data)
             text == Base64Of(data)
  <2>1. /\ data \in Seq(Octets)
        /\ Holds(memory, from, made, text)
        /\ InGroups(N - left, 3, made, 4) \/ made = encode_base64_length(N)
    BY <1>6 DEF WrittenSoFar, Encoded, from, made
  <2>2. made = encode_base64_length(N)
    <3>1. ASSUME InGroups(N - left, 3, made, 4)
          PROVE  made = encode_base64_length(N)
      <4>1. PICK g \in Nat : N - left = 3 * g /\ made = 4 * g
        BY <3>1 DEF InGroups
      <4>2. N = 3 * g
        BY <1>1, <4>1
      <4>. HIDE DEF N
      <4>. QED
        BY <1>1, <4>1, <4>2, WholeText, Zenon DEF N
    <3>. QED
      BY <2>1, <3>1
  <2>3. /\ encode_base64_length(N) \in Nat /\ Len(text) = encode_base64_length(N)
        /\ text \in Seq({CharacterAt(data, c) : c \in Nat})
    BY <2>1, TextIsCharacters, TextByCharacter
  <2>4. Result = text
    BY <1>4, <2>1, <2>2, <2>3
  <2>. QED
    BY <1>6, <2>4
<1>. QED
  BY <1>5, <1>6

(* Encoding gives the base64 of its input, and decoding the bytes whose    *)
(* base64 the input is, whatever their length, in every layout but that of *)
(* the SAS MAC (encode_base64 and decode_base64 with the lengths that      *)
(* their callers reckon with).                                             *)
THEOREM ResultIsBase64Holds ==
  ASSUME "sas_mac" \notin Uses
  PROVE  Spec => []ResultIsBase64
<1>1. Init => GapInv /\ WrittenSoFar
  BY GapInit, WrittenInit
<1>2. GapInv /\ WrittenSoFar /\ [Next]_vars => (GapInv /\ WrittenSoFar)'
  <2> SUFFICES ASSUME GapInv, WrittenSoFar, [Next]_vars
               PROVE  (GapInv /\ WrittenSoFar)'
    OBVIOUS
  <2>1. CASE EncodeGroup
    <3>1. ~IsDecoding(use)
      BY <2>1 DEF EncodeGroup
    <3>2. Encoded
      BY <3>1 DEF WrittenSoFar
    <3>. QED
      BY <2>1, <3>1, <3>2, EncodeStep, GapStep DEF Next, WrittenSoFar
  <2>2. CASE DecodeGroup
    <3>1. IsDecoding(use)
      BY <2>2 DEF DecodeGroup
    <3>2. PICK bytes \in Seq(Octets) : Decoded(bytes)
      BY <3>1 DEF WrittenSoFar
    <3>3. Decoded(bytes)' /\ IsDecoding(use)'
      BY <2>2, <3>1, <3>2, DecodeStep
    <3>. QED
      BY <2>2, <3>3, GapStep DEF Next, WrittenSoFar
  <2>3. CASE UNCHANGED vars
    BY <2>3 DEF vars, GapInv, Positions, Gap, UnreadIntact, WrittenSoFar, Encoded, Decoded
  <2>. QED
    BY <2>1, <2>2, <2>3 DEF Next
<1>3. GapInv /\ WrittenSoFar => ResultIsBase64
  BY WrittenIsResult
<1>. QED
  BY <1>1, <1>2, <1>3, PTL DEF Spec

=============================================================================
