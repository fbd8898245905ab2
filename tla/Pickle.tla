------------------------------- MODULE Pickle -------------------------------
(***************************************************************************)
(* How the objects are written to bytes and read back (src/pickle.cpp,     *)
(* include/self_olm/pickle.hh and the pickle functions of each object).    *)
(*                                                                         *)
(* A byte is a number and a pickle a sequence of bytes, but integers and   *)
(* keys may be given fewer bytes than the 4 and 32 of the code: what       *)
(* matters is where one item ends and the next begins.  The fields of an   *)
(* object are listed in the order of the code, once for the functions that *)
(* write and once for those that read.                                     *)
(***************************************************************************)
EXTENDS OlmList

CONSTANTS IntLength, KeyLength, MaxSenderChains, MaxReceiverChains,
          MaxSkippedKeys, MaxOneTimeKeys

ASSUME PickleConstants ==
  /\ IntLength \in Nat \ {0} /\ KeyLength \in Nat \ {0}
  /\ MaxSenderChains \in Nat \ {0} /\ MaxReceiverChains \in Nat \ {0}
  /\ MaxSkippedKeys \in Nat \ {0} /\ MaxOneTimeKeys \in Nat \ {0}

(***************************************************************************)
(* Values that are not lists.                                              *)
(***************************************************************************)
SizeOf == [uint32 |-> IntLength, bool |-> 1, public |-> KeyLength,
           pair |-> 2 * KeyLength, secret |-> KeyLength]

Blank(type) ==
  CASE type = "uint32" -> 0
    [] type = "bool"   -> FALSE
    [] OTHER           -> [i \in 1..SizeOf[type] |-> 0]

IntBytes(n) == [i \in 1..IntLength |-> (n \div 256^(IntLength - i)) % 256]
IntOf(bytes) == FoldLeft(LAMBDA n, byte : 256 * n + byte, 0, bytes)

pickle_value(type, value) ==
  CASE type = "uint32" -> IntBytes(value)
    [] type = "bool"   -> IF value THEN <<1>> ELSE <<0>>
    [] OTHER           -> value

(* Reads one value at pos (bytes read so far): a value that does not fit   *)
(* before end takes all that is left and keeps what it was, but for an     *)
(* integer, which is zero by then.                                         *)
unpickle_value(bytes, pos, end, type, old) ==
  LET next == pos + SizeOf[type]
      read == SubSeq(bytes, pos + 1, next)
  IN CASE end < next /\ type = "uint32" -> [pos |-> end, value |-> 0]
       [] end < next /\ type # "uint32" -> [pos |-> end, value |-> old]
       [] end >= next -> [pos |-> next,
                          value |-> CASE type = "uint32" -> IntOf(read)
                                      [] type = "bool"   -> read[1] # 0
                                      [] OTHER           -> read]

(***************************************************************************)
(* Elements of lists, and the lists.                                       *)
(***************************************************************************)
Field(name, type) == [name |-> name, type |-> type]

ChainFields == << Field("ratchet_key", "public"), Field("key", "secret"),
                  Field("index", "uint32") >>

ElementFields ==
  [sender_chain         |-> << Field("ratchet_key", "pair"), Field("key", "secret"),
                               Field("index", "uint32") >>,
   receiver_chains      |-> ChainFields,
   skipped_message_keys |-> ChainFields,
   one_time_keys        |-> << Field("id", "uint32"), Field("published", "bool"),
                               Field("key", "pair") >>]

Capacity == [sender_chain         |-> MaxSenderChains,
             receiver_chains      |-> MaxReceiverChains,
             skipped_message_keys |-> MaxSkippedKeys,
             one_time_keys        |-> MaxOneTimeKeys]

Names(fields) == { fields[i].name : i \in DOMAIN fields }
TypeIn(fields, name) == fields[CHOOSE i \in DOMAIN fields : fields[i].name = name].type
BlankElement(list) ==
  [ name \in Names(ElementFields[list]) |-> Blank(TypeIn(ElementFields[list], name)) ]

pickle_element(list, element) ==
  FoldLeft(LAMBDA bytes, f : bytes \o pickle_value(f.type, element[f.name]),
           << >>, ElementFields[list])

unpickle_element(bytes, pos, end, list, old) ==
  FoldLeft(LAMBDA r, f :
             LET u == unpickle_value(bytes, r.pos, end, f.type, r.element[f.name])
             IN [pos |-> u.pos, element |-> [r.element EXCEPT ![f.name] = u.value]],
           [pos |-> pos, element |-> old], ElementFields[list])

pickle_list(list, elements) ==
  FoldLeft(LAMBDA bytes, e : bytes \o pickle_element(list, e),
           pickle_value("uint32", Len(elements)), elements)

(* Mutant: new elements go to the beginning of the list. *)
unpickle_list_Reversed(bytes, pos, end, list, old) ==
  LET size == unpickle_value(bytes, pos, end, "uint32", 0)
      ReadOne(r, i) ==
        IF r.pos = end THEN r
        ELSE LET u == unpickle_element(bytes, r.pos, end, list, BlankElement(list))
             IN [pos |-> u.pos, elements |-> InsertFirst(r.elements, Capacity[list], u.element)]
  IN FoldLeft(ReadOne, [pos |-> size.pos, elements |-> old],
              [i \in 1..size.value |-> i])

(* Adds to the elements the list has; when it is full, the last element is *)
(* overwritten.                                                            *)
unpickle_list(bytes, pos, end, list, old) ==
  LET size == unpickle_value(bytes, pos, end, "uint32", 0)
      ReadOne(r, i) ==
        IF r.pos = end THEN r
        ELSE LET places == WithPlaceLast(r.elements, Capacity[list], BlankElement(list))
                 last   == Len(places)
                 u      == unpickle_element(bytes, r.pos, end, list, places[last])
             IN [pos |-> u.pos, elements |-> [places EXCEPT ![last] = u.element]]
  IN FoldLeft(ReadOne, [pos |-> size.pos, elements |-> old],
              [i \in 1..size.value |-> i])

(***************************************************************************)
(* Objects: a field is a value or a list, of the same name as its type.    *)
(***************************************************************************)
IsList(type) == type \in DOMAIN Capacity
ListField(name) == Field(name, name)

pickle_fields(fields, object) ==
  FoldLeft(LAMBDA bytes, f :
             bytes \o IF IsList(f.type) THEN pickle_list(f.type, object[f.name])
                                        ELSE pickle_value(f.type, object[f.name]),
           << >>, fields)

unpickle_fields(bytes, pos, end, fields, object) ==
  FoldLeft(LAMBDA r, f :
             IF IsList(f.type)
             THEN LET u == unpickle_list(bytes, r.pos, end, f.type, r.object[f.name])
                  IN [pos |-> u.pos, object |-> [r.object EXCEPT ![f.name] = u.elements]]
             ELSE LET u == unpickle_value(bytes, r.pos, end, f.type, r.object[f.name])
                  IN [pos |-> u.pos, object |-> [r.object EXCEPT ![f.name] = u.value]],
           [pos |-> pos, object |-> object], fields)

(* Mutant: the count of a list is forgotten. *)
pickle_length_NoCount(fields, object) ==
  FoldLeft(LAMBDA length, f :
             length + IF IsList(f.type)
                      THEN Len(pickle_list(f.type, object[f.name])) - SizeOf["uint32"]
                      ELSE SizeOf[f.type],
           0, fields)

pickle_length(fields, object) ==
  FoldLeft(LAMBDA length, f :
             length + IF IsList(f.type)
                      THEN SizeOf["uint32"] +
                             Len(object[f.name]) *
                               FoldLeft(LAMBDA n, g : n + SizeOf[g.type], 0, ElementFields[f.type])
                      ELSE SizeOf[f.type],
           0, fields)

=============================================================================
