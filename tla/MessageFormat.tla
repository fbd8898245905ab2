--------------------------- MODULE MessageFormat ---------------------------
(***************************************************************************)
(* How messages are written and read back (message.cpp).  A message is a   *)
(* version byte, fields, and a trailer for a MAC and a signature.  A field *)
(* is a tag and a varint, or a tag, a length and as many bytes.  Decoders  *)
(* take fields in any order and skip those they do not know.               *)
(*                                                                         *)
(* The three decoders are one loop over different fields.  A step is a     *)
(* call of decode, for the next field of the round, or the end of a round, *)
(* with its call of skip_unknown.  Bytes are numbered from 1, and `end' is *)
(* the number of the first byte of the trailer.                            *)
(***************************************************************************)
EXTENDS Integers, Sequences, SequencesExt, FiniteSetsExt

CONSTANTS
  UINT32, SIZE_T,                            \* how many values the types have
  KEY_LENGTH, MAC_LENGTH, SIGNATURE_LENGTH,
  Contents,       \* bound: what is written in messages of each kind
  Unknown,        \* bound: the unknown fields between others
  Strange         \* bound: the bytes that arrive from elsewhere

PROTOCOL_VERSION == 3

String(name, tag) == [name |-> name, tag |-> tag, type |-> "string"]
Varint(name, tag) == [name |-> name, tag |-> tag, type |-> "varint"]

Fields ==
  [message |-> << String("ratchet_key", 10), Varint("counter", 16), String("ciphertext", 34) >>,
   pre_key |-> << String("one_time_key", 10), String("base_key", 18),
                  String("identity_key", 26), String("message", 34) >>,
   group   |-> << Varint("message_index", 8), String("ciphertext", 18) >>]

Trailer == [message |-> MAC_LENGTH, pre_key |-> 0, group |-> MAC_LENGTH + SIGNATURE_LENGTH]

(***************************************************************************)
(* Varints: seven bits a byte, the lowest first, and the high bit set in   *)
(* all bytes but the last.                                                 *)
(***************************************************************************)
varint_length[n \in Nat] == IF n < 128 THEN 1 ELSE 1 + varint_length[n \div 128]

varint_encode[n \in Nat] ==
  IF n < 128 THEN << n >> ELSE << (n % 128) + 128 >> \o varint_encode[n \div 128]

(* Mutant: the first byte is taken for the highest. *)
varint_decode_HighFirst(bytes, values) ==
  LET value[n \in 0..Len(bytes)] ==
        IF n = 0 THEN 0 ELSE (value[n - 1] * 128 + (bytes[n] % 128)) % values
  IN  value[Len(bytes)]

(* The value after n bytes, from the last one on.  Bits that the type does *)
(* not have are shifted out.                                               *)
varint_decode(bytes, values) ==
  LET value[n \in 0..Len(bytes)] ==
        IF n = 0 THEN 0
        ELSE (value[n - 1] * 128 + (bytes[Len(bytes) + 1 - n] % 128)) % values
  IN  value[Len(bytes)]

(***************************************************************************)
(* Writing.                                                                *)
(***************************************************************************)
encode(field, value) ==
  IF field.type = "varint" THEN << field.tag >> \o varint_encode[value]
  ELSE << field.tag >> \o varint_encode[Len(value)] \o value

varstring_length(length) == varint_length[length] + length

encode_length(kind, content) ==
  LET Length(field) == 1 + (IF field.type = "varint" THEN varint_length[content[field.name]]
                            ELSE varstring_length(Len(content[field.name])))
      length[i \in 0..Len(Fields[kind])] ==
        IF i = 0 THEN 1 ELSE length[i - 1] + Length(Fields[kind][i])
  IN  length[Len(Fields[kind])] + Trailer[kind]

Parts(kind, content) == [i \in DOMAIN Fields[kind] |-> encode(Fields[kind][i], content[Fields[kind][i].name])]

Message(kind, parts) ==
  << PROTOCOL_VERSION >> \o FlattenSeq(parts) \o [i \in 1..Trailer[kind] |-> 0]

Encoded(kind, content) == Message(kind, Parts(kind, content))

(***************************************************************************)
(* What the constants are: contents that the types can hold, and unknown   *)
(* fields with tags of one of the two known types.                         *)
(***************************************************************************)
Byte == 0..255

KeyFields == {"ratchet_key", "one_time_key", "base_key", "identity_key"}

CanBeWritten(field, value) ==
  IF field.type = "varint" THEN value \in 0..(UINT32 - 1)
  ELSE /\ value \in Seq(Byte) /\ Len(value) < SIZE_T
       /\ field.name \in KeyFields => Len(value) = KEY_LENGTH

IsVarint(bytes) ==
  /\ bytes \in Seq(Byte) /\ bytes # << >>
  /\ \A i \in 1..Len(bytes) : bytes[i] < 128 <=> i = Len(bytes)

IsUnknown(bytes) ==
  /\ bytes \in Seq(Byte)
  /\ \E i, j \in 1..Len(bytes) :
       /\ i < j /\ IsVarint(SubSeq(bytes, 1, i)) /\ IsVarint(SubSeq(bytes, i + 1, j))
       /\ \/ bytes[1] % 8 = 0 /\ Len(bytes) = j
          \/ bytes[1] % 8 = 2 /\ Len(bytes) = j + varint_decode(SubSeq(bytes, i + 1, j), SIZE_T)
  /\ \A k \in DOMAIN Fields : \A i \in DOMAIN Fields[k] : bytes[1] # Fields[k][i].tag

ASSUME FormatConstants ==
  /\ UINT32 \in Nat \ {0} /\ SIZE_T \in Nat \ {0}
  /\ KEY_LENGTH \in Nat /\ MAC_LENGTH \in Nat /\ SIGNATURE_LENGTH \in Nat
  /\ \A k \in DOMAIN Fields : \A c \in Contents[k] : \A i \in DOMAIN Fields[k] :
       CanBeWritten(Fields[k][i], c[Fields[k][i].name])
  /\ \A u \in Unknown : IsUnknown(u)
  /\ Strange \subseteq Seq(Byte)

-----------------------------------------------------------------------------
VARIABLES
  kind,      \* what the bytes are read as
  origin,    \* "whole", "cut" or "strange"
  content,   \* what was written, if anything was
  input,     \* the bytes
  pos,       \* the next of them
  field,     \* the field that decode is called for next
  unknown,   \* where the round began
  version,   \* what was read: the version,
  reader,    \* and the fields
  done

vars == << kind, origin, content, input, pos, field, unknown, version, reader, done >>

end == Len(input) - Trailer[kind] + 1

(* A null pointer, and a has_counter that is false. *)
Absent == [at |-> 0, length |-> 0]

Nothing == [f \in { Fields[kind][i].name : i \in DOMAIN Fields[kind] } |-> Absent]

(* The same fields in another order, and others between them. *)
Rearranged(k, c) ==
  LET parts == Parts(k, c)
  IN  { Message(k, [i \in DOMAIN parts |-> parts[f[i]]]) : f \in Bijection(DOMAIN parts, DOMAIN parts) }
      \cup { Message(k, InsertAt(parts, i, u)) : i \in 1..(Len(parts) + 1), u \in Unknown }

Init ==
  /\ kind \in DOMAIN Fields
  /\ \/ /\ origin = "whole"
        /\ content \in Contents[kind]
        /\ input \in Rearranged(kind, content)
     \/ /\ origin = "cut"
        /\ content \in Contents[kind]
        /\ \E n \in 0..(encode_length(kind, content) - 1) :
             input = SubSeq(Encoded(kind, content), 1, n)
     \/ /\ origin = "strange"
        /\ content = << >>
        /\ input \in Strange
  /\ pos = 1 /\ field = 1 /\ unknown = 1
  /\ version = 0
  /\ reader = Nothing
  /\ done = FALSE

(* The decoder returns at once when there are no bytes before the trailer. *)
(* What it does not set is whatever was in memory: the version, and for a  *)
(* group message whether it has an index.                                  *)
TooShort ==
  /\ ~done /\ pos = 1
  /\ Len(input) <= Trailer[kind]
  /\ version' \in {0, PROTOCOL_VERSION}
  /\ IF kind = "group"
     THEN reader' \in { [Nothing EXCEPT !.message_index = has] : has \in {Absent, [value |-> 0]} }
     ELSE reader' = Nothing
  /\ done' = TRUE
  /\ UNCHANGED << kind, origin, content, input, pos, field, unknown >>

ReadVersion ==
  /\ ~done /\ pos = 1
  /\ Len(input) > Trailer[kind]
  /\ version' = input[1]
  /\ pos' = 2 /\ unknown' = 2
  /\ done' = (end = 2)
  /\ UNCHANGED << kind, origin, content, input, field, reader >>

(***************************************************************************)
(* Reading fields.                                                         *)
(***************************************************************************)
(* The byte after the varint at p. *)
varint_skip(p) ==
  LET last == { i \in p..(end - 1) : input[i] < 128 }
  IN  IF last = {} THEN end ELSE Min(last) + 1

ValueAt(p, values) == varint_decode(SubSeq(input, p, varint_skip(p) - 1), values)

(* Mutant: the trailer counts as part of the string. *)
Fits_InTrailer(length, p) == length <= Len(input) + 1 - p

Fits(length, p) == length <= end - p

InRound == ~done /\ pos > 1 /\ field <= Len(Fields[kind])
This == Fields[kind][field]
HasTag == pos # end /\ input[pos] = This.tag

Decoded(f, value, p) ==
  /\ reader' = [reader EXCEPT ![f] = value]
  /\ pos' = p
  /\ field' = field + 1
  /\ UNCHANGED << kind, origin, content, input, unknown, version, done >>

NotHere == InRound /\ ~HasTag /\ Decoded(This.name, reader[This.name], pos)

ReadVarint ==
  /\ InRound /\ HasTag /\ This.type = "varint"
  /\ Decoded(This.name, [value |-> ValueAt(pos + 1, UINT32)], varint_skip(pos + 1))

ReadString ==
  /\ InRound /\ HasTag /\ This.type = "string"
  /\ LET length == ValueAt(pos + 1, SIZE_T)
         at == varint_skip(pos + 1)
     IN  /\ Fits(length, at)
         /\ Decoded(This.name, [at |-> at, length |-> length], at + length)

(* Mutant: what there is of the string is taken for the whole. *)
StringTooLong_Clamped ==
  /\ InRound /\ HasTag /\ This.type = "string"
  /\ ~Fits(ValueAt(pos + 1, SIZE_T), varint_skip(pos + 1))
  /\ LET at == varint_skip(pos + 1)
     IN  Decoded(This.name, [at |-> at, length |-> end - at], end)

(* The rest of the message is ignored. *)
StringTooLong ==
  /\ InRound /\ HasTag /\ This.type = "string"
  /\ ~Fits(ValueAt(pos + 1, SIZE_T), varint_skip(pos + 1))
  /\ Decoded(This.name, reader[This.name], end)

(* Mutant: a field of another type is left where it is. *)
skip_unknown_Stuck(p) ==
  LET second == varint_skip(p)
      third == varint_skip(second)
      length == ValueAt(second, SIZE_T)
  IN  CASE input[p] % 8 = 0 -> third
        [] input[p] % 8 = 2 -> IF Fits(length, third) THEN third + length ELSE end
        [] OTHER -> p

skip_unknown(p) ==
  LET second == varint_skip(p)
      third == varint_skip(second)
      length == ValueAt(second, SIZE_T)
  IN  CASE input[p] % 8 = 0 -> third
        [] input[p] % 8 = 2 -> IF Fits(length, third) THEN third + length ELSE end
        [] OTHER -> end

EndOfRound ==
  /\ ~done /\ field > Len(Fields[kind])
  /\ pos' = IF unknown = pos THEN skip_unknown(pos) ELSE pos
  /\ field' = 1
  /\ unknown' = pos'
  /\ done' = (pos' = end)
  /\ UNCHANGED << kind, origin, content, input, version, reader >>

Next == TooShort \/ ReadVersion \/ NotHere \/ ReadVarint \/ ReadString \/ StringTooLong \/ EndOfRound

(* The decoder runs on until it returns. *)
Spec == Init /\ [][Next]_vars /\ WF_vars(Next)

-----------------------------------------------------------------------------
Has(f) == reader[f] # Absent
HasKey(f) == Has(f) /\ reader[f].length = KEY_LENGTH

(* The checks of the callers. *)
check_message_fields == HasKey("identity_key") /\ Has("message") /\ HasKey("base_key") /\ HasKey("one_time_key")

Accepted ==
  /\ done
  /\ CASE kind = "message" -> /\ version = PROTOCOL_VERSION
                              /\ Has("counter") /\ Has("ciphertext") /\ HasKey("ratchet_key")
       [] kind = "pre_key" -> check_message_fields
       [] kind = "group" -> version = PROTOCOL_VERSION /\ Has("message_index") /\ Has("ciphertext")

(* Whatever arrives, the loop of a decoder ends: every round moves on. *)
DecodingEnds == <>done

(* Whatever arrives, a decoder stays before the trailer, and so does every *)
(* string it returns: a length is compared with what is left, also one     *)
(* that wrapped around.                                                    *)
StringsLieInside ==
  /\ pos = 1 \/ pos \in 2..end
  /\ \A i \in DOMAIN Fields[kind] :
       LET f == Fields[kind][i]
       IN  f.type = "string" /\ Has(f.name) =>
             reader[f.name].at > 1 /\ reader[f.name].at + reader[f.name].length <= end

Bytes(string) == SubSeq(input, string.at, string.at + string.length - 1)

(* encode_message and the others write as many bytes as their _length      *)
(* functions promise, and the decoders read from them what was written,    *)
(* in any order, with unknown fields between, and whatever the bytes are.  *)
EncodedIsDecoded ==
  origin = "whole" =>
    /\ Len(Encoded(kind, content)) = encode_length(kind, content)
    /\ done => /\ Accepted
               /\ \A i \in DOMAIN Fields[kind] :
                    LET f == Fields[kind][i]
                    IN  content[f.name] = IF f.type = "varint" THEN reader[f.name].value
                                          ELSE Bytes(reader[f.name])

(* A message that was cut is refused, though the decoder may have set      *)
(* nothing; at most its last string is taken to be empty, and an empty     *)
(* ciphertext or message is refused later.                                 *)
CutIsRefused ==
  origin = "cut" /\ Accepted => reader[Last(Fields[kind]).name].length = 0
=============================================================================
