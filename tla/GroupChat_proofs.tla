-------------------------- MODULE GroupChat_proofs --------------------------
(***************************************************************************)
(* Theorems about group sessions, for a radix of any size, any number of   *)
(* receivers and of messages, up to a whole turn of the counter (2^32      *)
(* messages in the code).                                                  *)
(*                                                                         *)
(* The inductive invariant says where every ratchet is: each one that was  *)
(* made by single steps, each first and each latest one of a session, and  *)
(* the exported one, is the ratchet after some number of messages, and     *)
(* that number is the one the auxiliary variables have.  What a session    *)
(* answers, and what can be had from what it holds, follow from that.      *)
(***************************************************************************)
EXTENDS GroupChat, Megolm_proofs

Names == {"R", Sender, Stranger} \cup Part

(* Less than a turn of the counter: after that, a message can have the     *)
(* index of another one, which no session can tell from it.                *)
FewerThanATurn == MaxMessages < Counters

(* The ratchet that message i is encrypted with. *)
At(i) == RatchetAt[Start + (i - 1)]

LEMMA NamesOfParts == Part \subseteq Names /\ "R" \in Names /\ Stranger \in Names
  BY DEF Names

(***************************************************************************)
(* The ratchet after n messages.                                           *)
(***************************************************************************)
LEMMA FirstRatchet ==
  /\ init_outbound(RandomData("R"), Sender).ratchet \in Ratchets(Names)
  /\ PrefixFree(init_outbound(RandomData("R"), Sender).ratchet.data)
  /\ init_outbound(RandomData("R"), Sender).ratchet.counter = 0
<1>1. 0 \in 0..(Counters - 1)
  BY Weights
<1>2. RandomData("R") \in [Part -> Seq(Names)] /\ PrefixFree(RandomData("R"))
  BY NamesOfParts, RandomApart
<1>3. init_outbound(RandomData("R"), Sender).ratchet = [data |-> RandomData("R"), counter |-> 0]
  BY DEF init_outbound, megolm_init
<1>. QED
  BY <1>1, <1>2, <1>3 DEF Ratchets

LEMMA RatchetAtIs ==
  /\ RatchetAt \in [Nat -> Ratchets(Names)]
  /\ RatchetAt[0] = init_outbound(RandomData("R"), Sender).ratchet
  /\ \A n \in Nat : RatchetAt[n + 1] = megolm_advance(RatchetAt[n])
<1>. DEFINE S == Ratchets(Names)
<1>. DEFINE x0 == init_outbound(RandomData("R"), Sender).ratchet
<1>. DEFINE g == [m \in S |-> megolm_advance(m)]
<1>1. x0 \in S
  BY FirstRatchet
<1>2. \A m \in S : megolm_advance(m) \in S
  BY NamesOfParts, StepOn
<1>3. g \in [S -> S]
  BY <1>2
<1>4. PICK f \in [Nat -> S] : Recurs(f, x0, g)
  <2>. HIDE DEF S, x0, g
  <2>. QED
    BY <1>1, <1>3, Recursion
<1>5. \A n \in Nat : n # 0 => f[n - 1] \in S
  <2>1. \A n \in Nat : n # 0 => n - 1 \in Nat
    OBVIOUS
  <2>. QED
    BY <1>4, <2>1
<1>6. f = [n \in Nat |-> IF n = 0 THEN x0 ELSE megolm_advance(f[n - 1])]
  <2>1. \A n \in Nat : n # 0 => g[f[n - 1]] = megolm_advance(f[n - 1])
    BY <1>5
  <2>. HIDE DEF g, S, x0
  <2>. QED
    BY <1>4, <2>1 DEF Recurs
<1>7. RatchetAt = [n \in Nat |-> IF n = 0 THEN x0 ELSE megolm_advance(RatchetAt[n - 1])]
  <2>. HIDE DEF x0
  <2>. QED
    BY <1>6 DEF RatchetAt, x0
<1>. HIDE DEF x0
<1>8. RatchetAt[0] = x0
  BY <1>7
<1>9. \A n \in Nat : RatchetAt[n + 1] = megolm_advance(RatchetAt[n])
  <2>. TAKE n \in Nat
  <2>1. n + 1 \in Nat /\ n + 1 # 0 /\ (n + 1) - 1 = n
    OBVIOUS
  <2>. QED
    BY <1>7, <2>1
<1>10. RatchetAt \in [Nat -> S]
  <2>. DEFINE T == { n \in Nat : RatchetAt[n] \in S }
  <2>1. 0 \in T
    BY <1>1, <1>8
  <2>2. \A n \in T : n + 1 \in T
    BY <1>2, <1>9
  <2>3. T = Nat
    <3>1. T \subseteq Nat
      OBVIOUS
    <3>. HIDE DEF T
    <3>. QED
      BY <2>1, <2>2, <3>1, Numbers
  <2>4. \A n \in Nat : RatchetAt[n] \in S
    BY <2>3
  <2>. QED
    BY <1>7, <2>4
<1>. QED
  BY <1>8, <1>9, <1>10 DEF x0

(* Its counter, and its values: they are apart. *)
LEMMA RatchetCounters ==
  \A n \in Nat : RatchetAt[n].counter = n % Counters /\ PrefixFree(RatchetAt[n].data)
<1>. DEFINE T == { n \in Nat : RatchetAt[n].counter = n % Counters /\ PrefixFree(RatchetAt[n].data) }
<1>1. Counters \in Nat \ {0}
  BY Weights
<1>2. 0 \in T
  BY <1>1, RatchetAtIs, FirstRatchet
<1>3. ASSUME NEW n \in T PROVE n + 1 \in T
  <2>1. n \in Nat /\ n + 1 \in Nat /\ RatchetAt[n] \in Ratchets(Names)
        /\ RatchetAt[n].counter = n % Counters /\ PrefixFree(RatchetAt[n].data)
        /\ RatchetAt[n + 1] = megolm_advance(RatchetAt[n])
    BY RatchetAtIs
  <2>2. PrefixFree(megolm_advance(RatchetAt[n]).data)
    BY <2>1, NamesOfParts, StepLater
  <2>3. megolm_advance(RatchetAt[n]).counter = (RatchetAt[n].counter + 1) % Counters
    BY <2>1, NamesOfParts, StepOn
  <2>4. ((n % Counters) + 1) % Counters = (n + 1) % Counters
    BY <1>1, <2>1, LaterRemainder
  <2>. QED
    BY <2>1, <2>2, <2>3, <2>4
<1>4. T = Nat
  <2>1. T \subseteq Nat
    OBVIOUS
  <2>. HIDE DEF T
  <2>. QED
    BY <1>2, <1>3, <2>1, Numbers
<1>. QED
  BY <1>4

(* From an earlier one, a later one is past its values. *)
LEMMA RatchetsGoOn ==
  ASSUME NEW n \in Nat
  PROVE  \A e \in Nat : e # 0 => Later(RatchetAt[n].data, RatchetAt[n + e].data)
<1>. DEFINE T == { e \in Nat : e # 0 => Later(RatchetAt[n].data, RatchetAt[n + e].data) }
<1>1. 0 \in T
  OBVIOUS
<1>2. ASSUME NEW e \in T PROVE e + 1 \in T
  <2>1. e \in Nat /\ e + 1 \in Nat /\ n + e \in Nat /\ n + (e + 1) = (n + e) + 1
    OBVIOUS
  <2>2. RatchetAt[n] \in Ratchets(Names) /\ RatchetAt[n + e] \in Ratchets(Names)
        /\ RatchetAt[(n + e) + 1] = megolm_advance(RatchetAt[n + e])
        /\ PrefixFree(RatchetAt[n].data)
    BY <2>1, RatchetAtIs, RatchetCounters
  <2>3. RatchetAt[n].data \in [Part -> Seq(Names)]
    BY <2>2 DEF Ratchets
  <2>4. Later(RatchetAt[n].data, megolm_advance(RatchetAt[n + e]).data)
    <3>1. CASE e = 0
      <4>1. n + e = n
        BY <3>1
      <4>. QED
        BY <2>2, <4>1, NamesOfParts, StepLater
    <3>2. CASE e # 0
      <4>1. Later(RatchetAt[n].data, RatchetAt[n + e].data)
        BY <3>2
      <4>. QED
        BY <2>2, <2>3, <4>1, NamesOfParts, StepLaterStill
    <3>. QED
      BY <3>1, <3>2
  <2>. QED
    BY <2>1, <2>2, <2>4
<1>3. T = Nat
  <2>1. T \subseteq Nat
    OBVIOUS
  <2>. HIDE DEF T
  <2>. QED
    BY <1>1, <1>2, <2>1, Numbers
<1>. QED
  BY <1>3

(* A jump gets to the ratchet that single steps get to. *)
LEMMA JumpsToRatchets ==
  ASSUME NEW n \in Nat
  PROVE  \A e \in Nat : e < Counters => Jump(RatchetAt[n], e) = RatchetAt[n + e]
<1>. DEFINE T == { e \in Nat : e < Counters => Jump(RatchetAt[n], e) = RatchetAt[n + e] }
<1>1. 0 \in T
  <2>1. RatchetAt[n] \in Ratchets(Names) /\ n + 0 = n
    BY RatchetAtIs
  <2>. QED
    BY <2>1, NamesOfParts, NoJump
<1>2. ASSUME NEW e \in T PROVE e + 1 \in T
  <2>1. e \in Nat /\ e + 1 \in Nat /\ n + e \in Nat /\ n + (e + 1) = (n + e) + 1
    OBVIOUS
  <2>2. SUFFICES ASSUME e + 1 < Counters PROVE Jump(RatchetAt[n], e + 1) = RatchetAt[n + (e + 1)]
    BY <2>1
  <2>3. Jump(RatchetAt[n], e) = RatchetAt[n + e]
    BY <2>1, <2>2, Weights
  <2>4. RatchetAt[n] \in Ratchets(Names) /\ RatchetAt[(n + e) + 1] = megolm_advance(RatchetAt[n + e])
    BY <2>1, RatchetAtIs
  <2>5. megolm_advance(Jump(RatchetAt[n], e)) = Jump(RatchetAt[n], e + 1)
    BY <2>1, <2>2, <2>4, NamesOfParts, JumpOneMore
  <2>. QED
    BY <2>1, <2>3, <2>4, <2>5
<1>3. T = Nat
  <2>1. T \subseteq Nat
    OBVIOUS
  <2>. HIDE DEF T
  <2>. QED
    BY <1>1, <1>2, <2>1, Numbers
<1>. QED
  BY <1>3


(***************************************************************************)
(* Which ratchet of a session is asked.                                    *)
(***************************************************************************)
LEMMA HalfIs ==
  Counters \in Nat \ {0} /\ Half \in Nat \ {0} /\ Half < Counters /\ Half <= Counters - Half
<1>1. Counters \in Nat \ {0} /\ Radix \in Nat \ {0, 1} /\ Weight(0) \in Nat \ {0}
      /\ Counters = Radix * Weight(0)
  BY Weights, Parts
<1>2. Counters >= 2
  <2>1. \A r \in Nat \ {0, 1}, w \in Nat \ {0} : r * w >= 2
    OBVIOUS
  <2>. QED
    BY <1>1, <2>1
<1>3. \A c \in Nat : c >= 2 => /\ c \div 2 \in Nat \ {0} /\ c \div 2 < c
                               /\ c \div 2 <= c - (c \div 2)
  OBVIOUS
<1>. QED
  BY <1>1, <1>2, <1>3 DEF Half

(* The distance between the indices of two messages that are not a turn    *)
(* apart: it is small iff the second is not before the first, nor too far  *)
(* after it.                                                               *)
LEMMA DistanceIs ==
  ASSUME NEW a \in Nat, NEW b \in Nat, b - a < Counters, a - b <= Half
  PROVE  Distance(a % Counters, b % Counters) < Half <=> b - a \in 0..(Half - 1)
<1>. DEFINE C == Counters
<1>. DEFINE x == b - a
<1>. DEFINE y == (b % C) - (a % C)
<1>. DEFINE k == (b \div C) - (a \div C)
<1>1. C \in Nat \ {0} /\ Half \in Nat \ {0} /\ Half < C /\ Half <= C - Half
  BY HalfIs
<1>2. x \in Int /\ y \in Int /\ k \in Int /\ y = x - C * k
  <2>1. /\ b \div C \in Int /\ b % C \in Int /\ b = C * (b \div C) + (b % C)
        /\ a \div C \in Int /\ a % C \in Int /\ a = C * (a \div C) + (a % C)
    BY <1>1, Division
  <2>. DEFINE q == b \div C
  <2>. DEFINE p == a \div C
  <2>. DEFINE s == b % C
  <2>. DEFINE r == a % C
  <2>2. q \in Int /\ p \in Int /\ s \in Int /\ r \in Int /\ b = C * q + s /\ a = C * p + r
    BY <2>1
  <2>. HIDE DEF q, p, s, r
  <2>3. C * (q - p) = C * q - C * p
    BY <1>1, <2>2
  <2>4. s - r = (b - a) - C * (q - p)
    BY <1>1, <2>2, <2>3
  <2>. QED
    BY <2>2, <2>4 DEF q, p, s, r
<1>3. Distance(a % C, b % C) = y % C
  BY DEF Distance
<1>4. x < C /\ 0 - x <= Half /\ (x \in 0..(Half - 1) <=> b - a \in 0..(Half - 1))
  BY <1>1
<1>. HIDE DEF C, x, y, k
<1>5. y % C = x % C
  <2>1. Mod(y, C) = Mod(x, C)
    BY <1>1, <1>2, LessTurns, ZenonT(30)
  <2>. QED
    BY <2>1 DEF Mod
<1>6. CASE x >= 0
  <2>1. \A w \in Nat \ {0}, d \in Nat : d < w => d % w = d
    OBVIOUS
  <2>2. x % C = x
    BY <1>1, <1>2, <1>4, <1>6, <2>1
  <2>. QED
    BY <1>1, <1>2, <1>3, <1>4, <1>5, <1>6, <2>2 DEF C
<1>7. CASE x < 0
  <2>1. \A w \in Nat \ {0}, d \in Nat : d < w => (d - w) % w = d
    <3>1. \A w \in Nat \ {0}, d \in Nat : d < w => (w * (-1) + d) % w = d
      <4>1. -1 \in Int
        OBVIOUS
      <4>. QED
        BY <4>1, Quotient
    <3>2. \A w \in Nat \ {0}, d \in Nat : w * (-1) + d = d - w
      OBVIOUS
    <3>. QED
      BY <3>1, <3>2
  <2>. DEFINE d == x + C
  <2>2. d \in Nat /\ d < C /\ x = d - C /\ d >= Half
    BY <1>1, <1>2, <1>4, <1>7
  <2>. HIDE DEF d
  <2>3. x % C = d
    BY <1>1, <2>1, <2>2
  <2>. QED
    BY <1>1, <1>2, <1>3, <1>4, <1>5, <1>7, <2>2, <2>3 DEF C
<1>. QED
  BY <1>2, <1>6, <1>7

Number == 1..(MaxMessages + 1)

(* The index of a message is the counter of the ratchet it is made with.   *)
LEMMA IndexIs ==
  ASSUME NEW i \in Nat \ {0}
  PROVE  /\ IndexOf(i) = (Start + (i - 1)) % Counters
         /\ At(i).counter = IndexOf(i)
         /\ At(i) \in Ratchets(Names)
         /\ PrefixFree(At(i).data)
         /\ At(i).data \in [Part -> Seq(Names)]
         /\ At(i) = [data |-> At(i).data, counter |-> IndexOf(i)]
         /\ IndexOf(i) \in 0..(Counters - 1)
<1>. DEFINE n == Start + (i - 1)
<1>1. n \in Nat /\ Start + i - 1 = n
  BY GroupChatConstants
<1>2. IndexOf(i) = n % Counters
  BY <1>1 DEF IndexOf
<1>. HIDE DEF n
<1>3. RatchetAt[n] \in Ratchets(Names) /\ RatchetAt[n].counter = n % Counters
      /\ PrefixFree(RatchetAt[n].data)
  BY <1>1, RatchetAtIs, RatchetCounters
<1>4. At(i) = RatchetAt[n]
  BY DEF At, n
<1>5. RatchetAt[n].data \in [Part -> Seq(Names)] /\ RatchetAt[n].counter \in 0..(Counters - 1)
      /\ RatchetAt[n] = [data |-> RatchetAt[n].data, counter |-> RatchetAt[n].counter]
  BY <1>3 DEF Ratchets
<1>. QED
  BY <1>2, <1>3, <1>4, <1>5 DEF n

(* The ratchet that is asked jumps to the one the message was made with.   *)
LEMMA JumpTo ==
  ASSUME NEW i \in Nat \ {0}, NEW h \in Nat \ {0}, h <= i, i - h < Counters
  PROVE  megolm_advance_to(At(h), IndexOf(i)) = At(i)
<1>. DEFINE n == Start + (h - 1)
<1>. DEFINE e == i - h
<1>1. n \in Nat /\ e \in Nat /\ e < Counters /\ Start + (i - 1) = n + e /\ Counters \in Nat \ {0}
  BY GroupChatConstants, Weights
<1>2. IndexOf(i) = (n + e) % Counters /\ At(h) = RatchetAt[n] /\ At(i) = RatchetAt[n + e]
      /\ At(h).counter = n % Counters
  BY <1>1, IndexIs DEF At
<1>. HIDE DEF n, e
<1>3. ((n % Counters) + e) % Counters = (n + e) % Counters
  BY <1>1, LaterRemainder
<1>4. Jump(RatchetAt[n], e) = RatchetAt[n + e]
  BY <1>1, JumpsToRatchets
<1>. QED
  BY <1>2, <1>3, <1>4 DEF Jump

(* A session that starts with message f and has seen up to g.              *)
SessionIs(s, f, g) ==
  s.initial_ratchet = At(f) /\ s.latest_ratchet = At(g) /\ s.signing_key = Sender

Near(h, i) == i - h \in 0..(Half - 1)

LEMMA NearIs ==
  ASSUME FewerThanATurn, NEW h \in Number, NEW i \in Number, h - i <= Half
  PROVE  Distance(IndexOf(h), IndexOf(i)) < Half <=> Near(h, i)
<1>. DEFINE a == Start + (h - 1)
<1>. DEFINE b == Start + (i - 1)
<1>1. h \in Nat \ {0} /\ i \in Nat \ {0} /\ a \in Nat /\ b \in Nat /\ b - a = i - h
      /\ a - b = h - i
  BY GroupChatConstants DEF Number
<1>2. b - a < Counters /\ a - b <= Half
  <2>1. i - h < Counters
    BY GroupChatConstants, Weights DEF Number, FewerThanATurn
  <2>. QED
    BY <1>1, <2>1
<1>3. IndexOf(h) = a % Counters /\ IndexOf(i) = b % Counters
  BY <1>1, IndexIs
<1>4. Near(h, i) <=> b - a \in 0..(Half - 1)
  BY <1>1 DEF Near
<1>. HIDE DEF a, b
<1>5. Distance(a % Counters, b % Counters) < Half <=> b - a \in 0..(Half - 1)
  BY <1>1, <1>2, DistanceIs
<1>. QED
  BY <1>3, <1>4, <1>5

LEMMA Asked ==
  ASSUME FewerThanATurn, NEW s, NEW f \in Number, NEW g \in Number, f <= g, SessionIs(s, f, g),
         NEW i \in Number, g - i <= Half
  PROVE  /\ UsesLatest(s, IndexOf(i)) <=> Near(g, i)
         /\ IsKnown(s, IndexOf(i)) <=> Near(g, i) \/ Near(f, i)
         /\ IsKnown(s, IndexOf(i)) => get_megolm(s, IndexOf(i)) = At(i)
<1>1. f \in Nat \ {0} /\ g \in Nat \ {0} /\ i \in Nat \ {0} /\ Half \in Nat \ {0}
      /\ Half < Counters /\ Counters \in Nat
  BY GroupChatConstants, HalfIs DEF Number
<1>2. f - i <= Half
  BY <1>1
<1>3. s.initial_ratchet = At(f) /\ s.latest_ratchet = At(g)
      /\ s.initial_ratchet.counter = IndexOf(f) /\ s.latest_ratchet.counter = IndexOf(g)
  BY <1>1, IndexIs DEF SessionIs
<1>4. Distance(IndexOf(g), IndexOf(i)) < Half <=> Near(g, i)
  BY NearIs
<1>5. Distance(IndexOf(f), IndexOf(i)) < Half <=> Near(f, i)
  BY <1>2, NearIs
<1>6. UsesLatest(s, IndexOf(i)) <=> Near(g, i)
  BY <1>3, <1>4 DEF UsesLatest
<1>7. IsKnown(s, IndexOf(i)) <=> Near(g, i) \/ Near(f, i)
  BY <1>3, <1>5, <1>6 DEF IsKnown
<1>8. ASSUME NEW h \in Nat \ {0}, Near(h, i) PROVE megolm_advance_to(At(h), IndexOf(i)) = At(i)
  <2>1. h <= i /\ i - h < Counters
    BY <1>1, <1>8 DEF Near
  <2>. QED
    BY <1>1, <2>1, JumpTo
<1>9. get_megolm(s, IndexOf(i)) = megolm_advance_to(IF Near(g, i) THEN At(g) ELSE At(f), IndexOf(i))
  BY <1>3, <1>6 DEF get_megolm
<1>10. IsKnown(s, IndexOf(i)) => get_megolm(s, IndexOf(i)) = At(i)
  BY <1>1, <1>7, <1>8, <1>9
<1>. QED
  BY <1>6, <1>7, <1>10


(***************************************************************************)
(* The inductive invariant.                                                *)
(***************************************************************************)
Errors ==
  {"SUCCESS", "BAD_SESSION_KEY", "BAD_SIGNATURE", "BAD_MESSAGE_VERSION", "UNKNOWN_MESSAGE_INDEX",
   "INVALID_BASE64", "BAD_MESSAGE_FORMAT", "OUTPUT_BUFFER_TOO_SMALL"}

InboundSessions ==
  [initial_ratchet : Ratchets(Names), latest_ratchet : Ratchets(Names),
   signing_key : {NoSigningKey, Sender}, signing_key_verified : BOOLEAN, last_error : Errors]

ExportOf(n) == [version |-> SESSION_EXPORT_VERSION, counter |-> IndexOf(n),
                data |-> At(n).data, signing_key |-> Sender]

SenderInvariant ==
  /\ out \in [ratchet : Ratchets(Names), signing_key : {Sender}, last_error : Errors]
  /\ made \in Seq(Ratchets(Names))
  /\ Len(made) \in Number
  /\ out.ratchet = At(Len(made))
  /\ \A i \in 1..Len(made) : made[i] = At(i)

ReceiversInvariant ==
  /\ inbound \in [Receiver -> InboundSessions]
  /\ first \in [Receiver -> Number \cup {0}]
  /\ reach \in [Receiver -> Number \cup {0}]
  /\ \A r \in Receiver : HasSession(r) =>
       /\ reach[r] \in Number
       /\ first[r] <= reach[r]
       /\ SessionIs(inbound[r], first[r], reach[r])

ExportInvariant ==
  exported = NoExport \/ \E n \in Number : exported = [number |-> n, key |-> ExportOf(n)]

GroupInvariant == SenderInvariant /\ ReceiversInvariant /\ ExportInvariant

LEMMA NumbersOfMessages ==
  /\ \A i \in Number : i \in Nat \ {0} /\ i # 0
  /\ 1 \in Number /\ 0 \notin Number
  BY GroupChatConstants DEF Number

LEMMA GroupInit == Init => GroupInvariant
<1>. SUFFICES ASSUME Init PROVE GroupInvariant
  OBVIOUS
<1>1. At(1) = RatchetAt[Start] /\ At(1) \in Ratchets(Names)
  <2>1. Start + (1 - 1) = Start /\ 1 \in Nat \ {0}
    BY GroupChatConstants
  <2>. QED
    BY <2>1, IndexIs DEF At
<1>2. SenderInvariant
  <2>1. out = [ratchet |-> At(1), signing_key |-> Sender, last_error |-> "SUCCESS"]
    BY <1>1 DEF Init, init_outbound
  <2>2. made = << At(1) >> /\ Len(made) = 1
    BY <2>1 DEF Init
  <2>. QED
    <3>1. out \in [ratchet : Ratchets(Names), signing_key : {Sender}, last_error : Errors]
      <4>1. "SUCCESS" \in Errors
        BY DEF Errors
      <4>. QED
        BY <1>1, <2>1, <4>1
    <3>2. made \in Seq(Ratchets(Names)) /\ \A i \in 1..Len(made) : made[i] = At(i)
      BY <1>1, <2>2
    <3>. QED
      BY <2>1, <2>2, <3>1, <3>2, NumbersOfMessages DEF SenderInvariant
<1>3. ReceiversInvariant
  <2>1. cleared_inbound \in InboundSessions
    <3>1. NoData \in [Part -> Seq(Names)] /\ 0 \in 0..(Counters - 1)
      BY Weights DEF NoData
    <3>2. [data |-> NoData, counter |-> 0] \in Ratchets(Names)
      BY <3>1 DEF Ratchets
    <3>. QED
      <4>. DEFINE x == [data |-> NoData, counter |-> 0]
      <4>1. cleared_inbound = [initial_ratchet |-> x, latest_ratchet |-> x, signing_key |-> NoSigningKey,
                               signing_key_verified |-> FALSE, last_error |-> "SUCCESS"]
        BY DEF cleared_inbound, megolm_init
      <4>2. x \in Ratchets(Names) /\ NoSigningKey \in {NoSigningKey, Sender} /\ FALSE \in BOOLEAN
            /\ "SUCCESS" \in Errors
        BY <3>2 DEF Errors
      <4>. HIDE DEF x
      <4>. QED
        BY <4>1, <4>2 DEF InboundSessions
  <2>. QED
    BY <2>1 DEF Init, ReceiversInvariant, HasSession
<1>4. ExportInvariant
  BY DEF Init, ExportInvariant
<1>. QED
  BY <1>2, <1>3, <1>4 DEF GroupInvariant

(***************************************************************************)
(* What an operation does to one session.                                  *)
(***************************************************************************)
(* The sender's keys and messages. *)
LEMMA SenderKeys ==
  ASSUME SenderInvariant, NEW i \in 1..Len(made)
  PROVE  /\ i \in Number
         /\ SessionKeyAt(i) = [version |-> SESSION_KEY_VERSION, counter |-> IndexOf(i),
                               data |-> At(i).data, signing_key |-> Sender, signed_by |-> Sender]
         /\ MessageAt(i) = [version |-> OLM_PROTOCOL_VERSION, message_index |-> IndexOf(i),
                            key |-> At(i).data, signed_by |-> Sender]
<1>1. i \in Number /\ made[i] = At(i) /\ i \in Nat \ {0}
  BY GroupChatConstants DEF SenderInvariant, Number
<1>2. At(i).counter = IndexOf(i)
  BY <1>1, IndexIs
<1>3. out \in [ratchet : Ratchets(Names), signing_key : {Sender}, last_error : Errors]
  BY DEF SenderInvariant
<1>. DEFINE o == [out EXCEPT !.ratchet = made[i]]
<1>4. o.ratchet = At(i) /\ o.signing_key = Sender
  BY <1>1, <1>3
<1>. HIDE DEF o
<1>5. outbound_group_session_key(o) =
        [version |-> SESSION_KEY_VERSION, counter |-> IndexOf(i),
         data |-> At(i).data, signing_key |-> Sender, signed_by |-> Sender]
  BY <1>2, <1>4 DEF outbound_group_session_key
<1>6. GroupMessage(o) = [version |-> OLM_PROTOCOL_VERSION, message_index |-> IndexOf(i),
                         key |-> At(i).data, signed_by |-> Sender]
  BY <1>2, <1>4 DEF GroupMessage
<1>. QED
  BY <1>1, <1>5, <1>6 DEF SessionKeyAt, MessageAt, o

(* A session that only notes an error. *)
LEMMA FailedSession ==
  ASSUME NEW s \in InboundSessions, NEW error \in Errors
  PROVE  /\ InboundFailed(s, error) \in InboundSessions
         /\ \A f, g : SessionIs(s, f, g) => SessionIs(InboundFailed(s, error), f, g)
  BY DEF InboundFailed, InboundSessions, SessionIs

(* A session that is filled from a key. *)
LEMMA FilledSession ==
  ASSUME NEW s \in InboundSessions, NEW key, key.data \in [Part -> Seq(Names)],
         key.counter \in 0..(Counters - 1), key.signing_key = Sender
  PROVE  /\ WithGroupKeys(s, key) \in InboundSessions
         /\ \A n : At(n) = [data |-> key.data, counter |-> key.counter] =>
              SessionIs(WithGroupKeys(s, key), n, n)
<1>. DEFINE m == [data |-> key.data, counter |-> key.counter]
<1>1. m \in Ratchets(Names)
  BY DEF Ratchets
<1>2. WithGroupKeys(s, key) = [s EXCEPT !.initial_ratchet = m, !.latest_ratchet = m, !.signing_key = Sender]
  BY DEF WithGroupKeys, megolm_init
<1>. HIDE DEF m
<1>3. WithGroupKeys(s, key) \in InboundSessions
  BY <1>1, <1>2 DEF InboundSessions
<1>4. \A n : At(n) = m => SessionIs(WithGroupKeys(s, key), n, n)
  BY <1>2 DEF InboundSessions, SessionIs
<1>. QED
  BY <1>3, <1>4 DEF m

(* A session that decrypted a message, or exported a ratchet: it has seen  *)
(* what it was asked for, if that was ahead of it.                         *)
LEMMA AdvancedSession ==
  ASSUME FewerThanATurn, NEW s \in InboundSessions, NEW f \in Number, NEW g \in Number, f <= g,
         SessionIs(s, f, g), NEW i \in Number, g - i <= Half
  PROVE  LET h == IF i - g \in 0..(Half - 1) THEN i ELSE g
         IN  /\ WithMegolm(s, IndexOf(i)) \in InboundSessions
             /\ SessionIs(WithMegolm(s, IndexOf(i)), f, h)
             /\ h \in Number /\ f <= h
<1>1. /\ UsesLatest(s, IndexOf(i)) <=> Near(g, i)
      /\ IsKnown(s, IndexOf(i)) => get_megolm(s, IndexOf(i)) = At(i)
  BY Asked
<1>2. Near(g, i) <=> i - g \in 0..(Half - 1)
  BY DEF Near
<1>3. At(i) \in Ratchets(Names)
  BY NumbersOfMessages, IndexIs
<1>4. CASE Near(g, i)
  <2>1. WithMegolm(s, IndexOf(i)) = [s EXCEPT !.latest_ratchet = At(i)]
    BY <1>1, <1>4 DEF WithMegolm, IsKnown
  <2>2. f <= i
    BY <1>4, NumbersOfMessages, HalfIs DEF Near
  <2>. QED
    BY <1>2, <1>3, <1>4, <2>1, <2>2 DEF InboundSessions, SessionIs
<1>5. CASE ~ Near(g, i)
  BY <1>1, <1>2, <1>5 DEF WithMegolm
<1>. QED
  BY <1>4, <1>5

(* The result of decrypting message i, and what it does.                   *)
LEMMA DecryptedSession ==
  ASSUME FewerThanATurn, SenderInvariant, NEW s \in InboundSessions, NEW f \in Number,
         NEW g \in Number, f <= g, SessionIs(s, f, g), NEW i \in 1..Len(made), g - i <= Half
  PROVE  LET h == IF i - g \in 0..(Half - 1) THEN i ELSE g
         IN  /\ DecryptResult(s, MessageAt(i)) =
                  IF Near(g, i) \/ Near(f, i) THEN "SUCCESS" ELSE "UNKNOWN_MESSAGE_INDEX"
             /\ GroupDecrypted(s, MessageAt(i)) \in InboundSessions
             /\ SessionIs(GroupDecrypted(s, MessageAt(i)), f, h)
<1>. DEFINE m == MessageAt(i)
<1>. DEFINE x == IndexOf(i)
<1>. DEFINE h == IF i - g \in 0..(Half - 1) THEN i ELSE g
<1>1. i \in Number
  BY SenderKeys
<1>2. m.version = OLM_PROTOCOL_VERSION /\ m.message_index = x /\ m.key = At(i).data
      /\ m.signed_by = s.signing_key
  BY SenderKeys DEF SessionIs
<1>3. /\ IsKnown(s, x) <=> Near(g, i) \/ Near(f, i)
      /\ IsKnown(s, x) => get_megolm(s, x) = At(i)
  BY <1>1, Asked
<1>4. WithMegolm(s, x) \in InboundSessions /\ SessionIs(WithMegolm(s, x), f, h)
  BY <1>1, AdvancedSession
<1>. HIDE DEF m, x
<1>5. DecryptResult(s, m) = IF Near(g, i) \/ Near(f, i) THEN "SUCCESS" ELSE "UNKNOWN_MESSAGE_INDEX"
  BY <1>2, <1>3 DEF DecryptResult
<1>6. CASE Near(g, i) \/ Near(f, i)
  <2>1. GroupDecrypted(s, m) = [WithMegolm(s, x) EXCEPT !.signing_key_verified = TRUE]
    BY <1>2, <1>5, <1>6 DEF GroupDecrypted
  <2>. DEFINE w == WithMegolm(s, x)
  <2>2. w \in InboundSessions /\ SessionIs(w, f, h)
    BY <1>4
  <2>. HIDE DEF w, h
  <2>3. [w EXCEPT !.signing_key_verified = TRUE] \in InboundSessions
        /\ SessionIs([w EXCEPT !.signing_key_verified = TRUE], f, h)
    BY <2>2 DEF InboundSessions, SessionIs
  <2>. QED
    BY <1>5, <2>1, <2>3 DEF m, w, h
<1>7. CASE ~ (Near(g, i) \/ Near(f, i))
  <2>1. GroupDecrypted(s, m) = InboundFailed(s, "UNKNOWN_MESSAGE_INDEX")
    BY <1>5, <1>7 DEF GroupDecrypted
  <2>2. h = g
    BY <1>7 DEF Near
  <2>. HIDE DEF h
  <2>3. GroupDecrypted(s, m) \in InboundSessions /\ SessionIs(GroupDecrypted(s, m), f, h)
    <3>1. "UNKNOWN_MESSAGE_INDEX" \in Errors
      BY DEF Errors
    <3>2. InboundFailed(s, "UNKNOWN_MESSAGE_INDEX") \in InboundSessions
      BY <3>1, FailedSession
    <3>3. SessionIs(InboundFailed(s, "UNKNOWN_MESSAGE_INDEX"), f, g)
      BY <3>1, FailedSession
    <3>. QED
      BY <2>1, <2>2, <3>2, <3>3
  <2>. QED
    BY <1>5, <2>3 DEF m, h
<1>. QED
  BY <1>6, <1>7

(* A message that was changed is refused, and only that is noted.          *)
LEMMA AlteredSession ==
  ASSUME SenderInvariant, NEW s \in InboundSessions, s.signing_key = Sender,
         NEW i \in 1..Len(made), NEW m \in Altered(MessageAt(i))
  PROVE  \E error \in Errors : GroupDecrypted(s, m) = InboundFailed(s, error)
<1>1. m.version = 4 \/ m.signed_by = Stranger
  BY SenderKeys DEF Altered
<1>2. DecryptResult(s, m) \in {"BAD_MESSAGE_VERSION", "BAD_SIGNATURE"}
  BY <1>1 DEF DecryptResult, OLM_PROTOCOL_VERSION, Sender, Stranger
<1>3. DecryptResult(s, m) \in Errors /\ DecryptResult(s, m) # "SUCCESS"
      /\ DecryptResult(s, m) # "BAD_MESSAGE_MAC"
  BY <1>2 DEF Errors
<1>4. GroupDecrypted(s, m) = InboundFailed(s, DecryptResult(s, m))
  BY <1>3 DEF GroupDecrypted
<1>. QED
  BY <1>3, <1>4


(***************************************************************************)
(* Every step keeps the invariant.                                         *)
(***************************************************************************)
(* One receiver's session is replaced. *)
LEMMA ReplacedSession ==
  ASSUME ReceiversInvariant, NEW r \in Receiver, NEW s \in InboundSessions,
         NEW f \in Number \cup {0}, NEW g \in Number \cup {0},
         f # 0 => g \in Number /\ f <= g /\ SessionIs(s, f, g),
         inbound' = [inbound EXCEPT ![r] = s],
         first' = [first EXCEPT ![r] = f],
         reach' = [reach EXCEPT ![r] = g]
  PROVE  ReceiversInvariant'
<1>1. inbound' \in [Receiver -> InboundSessions] /\ first' \in [Receiver -> Number \cup {0}]
      /\ reach' \in [Receiver -> Number \cup {0}]
  BY DEF ReceiversInvariant
<1>2. ASSUME NEW q \in Receiver, HasSession(q)'
      PROVE  reach'[q] \in Number /\ first'[q] <= reach'[q]
             /\ SessionIs(inbound'[q], first'[q], reach'[q])
  <2>1. CASE q = r
    <3>1. inbound'[q] = s /\ first'[q] = f /\ reach'[q] = g
      BY <2>1 DEF ReceiversInvariant
    <3>. QED
      BY <1>2, <3>1 DEF HasSession
  <2>2. CASE q # r
    <3>1. inbound'[q] = inbound[q] /\ first'[q] = first[q] /\ reach'[q] = reach[q]
      BY <2>2 DEF ReceiversInvariant
    <3>. QED
      BY <1>2, <3>1 DEF HasSession, ReceiversInvariant
  <2>. QED
    BY <2>1, <2>2
<1>. QED
  BY <1>1, <1>2 DEF ReceiversInvariant

(* One receiver's session only notes an error. *)
LEMMA FailedReceiver ==
  ASSUME ReceiversInvariant, NEW r \in Receiver, NEW error \in Errors,
         inbound' = [inbound EXCEPT ![r] = InboundFailed(@, error)],
         first' = first, reach' = reach
  PROVE  ReceiversInvariant'
<1>. DEFINE s == InboundFailed(inbound[r], error)
<1>1. /\ inbound[r] \in InboundSessions /\ first[r] \in Number \cup {0} /\ reach[r] \in Number \cup {0}
      /\ first[r] # 0 => reach[r] \in Number /\ first[r] <= reach[r]
                         /\ SessionIs(inbound[r], first[r], reach[r])
      /\ first = [first EXCEPT ![r] = first[r]] /\ reach = [reach EXCEPT ![r] = reach[r]]
  BY DEF ReceiversInvariant, HasSession
<1>2. /\ s \in InboundSessions
      /\ SessionIs(inbound[r], first[r], reach[r]) => SessionIs(s, first[r], reach[r])
  BY <1>1, FailedSession
<1>3. inbound' = [inbound EXCEPT ![r] = s]
  OBVIOUS
<1>. DEFINE f == first[r]
<1>. DEFINE g == reach[r]
<1>4. /\ s \in InboundSessions /\ f \in Number \cup {0} /\ g \in Number \cup {0}
      /\ f # 0 => g \in Number /\ f <= g /\ SessionIs(s, f, g)
      /\ first' = [first EXCEPT ![r] = f] /\ reach' = [reach EXCEPT ![r] = g]
  BY <1>1, <1>2
<1>. HIDE DEF s, f, g
<1>. QED
  BY <1>3, <1>4, ReplacedSession

LEMMA SenderUnchanged ==
  ASSUME SenderInvariant, UNCHANGED << out, made >>
  PROVE  SenderInvariant'
  BY DEF SenderInvariant

LEMMA ExportUnchanged ==
  ASSUME ExportInvariant, UNCHANGED exported
  PROVE  ExportInvariant'
  BY DEF ExportInvariant

LEMMA GroupEncryptKeeps ==
  ASSUME GroupInvariant, GroupEncrypt
  PROVE  GroupInvariant'
<1>. DEFINE n == Len(made)
<1>1. /\ out \in [ratchet : Ratchets(Names), signing_key : {Sender}, last_error : Errors]
      /\ made \in Seq(Ratchets(Names)) /\ n \in Number /\ n \in Nat \ {0} /\ out.ratchet = At(n)
      /\ \A i \in 1..n : made[i] = At(i)
  BY NumbersOfMessages DEF GroupInvariant, SenderInvariant
<1>2. n + 1 \in Number /\ n + 1 \in Nat \ {0}
  BY <1>1, GroupChatConstants DEF GroupEncrypt, Number
<1>3. megolm_advance(At(n)) = At(n + 1)
  <2>1. Start + (n - 1) \in Nat /\ Start + ((n + 1) - 1) = (Start + (n - 1)) + 1
    BY <1>1, GroupChatConstants
  <2>. DEFINE k == Start + (n - 1)
  <2>2. At(n) = RatchetAt[k] /\ At(n + 1) = RatchetAt[k + 1] /\ k \in Nat
    BY <2>1 DEF At
  <2>. HIDE DEF k, n
  <2>. QED
    BY <2>2, RatchetAtIs
<1>4. At(n + 1) \in Ratchets(Names)
  BY <1>2, IndexIs
<1>5. out' = [out EXCEPT !.ratchet = At(n + 1)] /\ made' = Append(made, out'.ratchet)
  BY <1>1, <1>3 DEF GroupEncrypt, GroupEncrypted
<1>6. SenderInvariant'
  <2>1. out' \in [ratchet : Ratchets(Names), signing_key : {Sender}, last_error : Errors]
        /\ out'.ratchet = At(n + 1)
    BY <1>1, <1>4, <1>5
  <2>2. made' = Append(made, At(n + 1))
    BY <1>5, <2>1
  <2>3. made' \in Seq(Ratchets(Names)) /\ Len(made') = n + 1
        /\ \A i \in 1..(n + 1) : made'[i] = IF i = n + 1 THEN At(n + 1) ELSE made[i]
    BY <1>1, <1>4, <2>2
  <2>4. \A i \in 1..(n + 1) : made'[i] = At(i)
    BY <1>1, <2>3
  <2>. HIDE DEF n
  <2>. QED
    BY <1>2, <2>1, <2>3, <2>4 DEF SenderInvariant
<1>7. ReceiversInvariant'
  BY DEF GroupInvariant, ReceiversInvariant, HasSession, GroupEncrypt
<1>8. ExportInvariant'
  BY ExportUnchanged DEF GroupInvariant, GroupEncrypt
<1>. QED
  BY <1>6, <1>7, <1>8 DEF GroupInvariant

LEMMA GroupEncryptFailsKeeps ==
  ASSUME GroupInvariant, GroupEncryptFails
  PROVE  GroupInvariant'
<1>1. SenderInvariant'
  <2>1. "OUTPUT_BUFFER_TOO_SMALL" \in Errors
    BY DEF Errors
  <2>2. out \in [ratchet : Ratchets(Names), signing_key : {Sender}, last_error : Errors]
    BY DEF GroupInvariant, SenderInvariant
  <2>3. out' \in [ratchet : Ratchets(Names), signing_key : {Sender}, last_error : Errors]
        /\ out'.ratchet = out.ratchet /\ made' = made
    BY <2>1, <2>2 DEF GroupEncryptFails
  <2>. QED
    BY <2>3 DEF GroupInvariant, SenderInvariant
<1>2. ReceiversInvariant'
  BY DEF GroupInvariant, ReceiversInvariant, HasSession, GroupEncryptFails
<1>3. ExportInvariant'
  BY ExportUnchanged DEF GroupInvariant, GroupEncryptFails
<1>. QED
  BY <1>1, <1>2, <1>3 DEF GroupInvariant

(* A session from the sender's key: the ratchet of the next message.       *)
LEMMA InitInboundKeeps ==
  ASSUME GroupInvariant, NEW r \in Receiver, NEW i \in DOMAIN made, InitInbound(r, i)
  PROVE  GroupInvariant'
<1>1. SenderInvariant /\ ReceiversInvariant /\ ExportInvariant /\ inbound[r] \in InboundSessions
  BY DEF GroupInvariant, ReceiversInvariant
<1>2. i \in 1..Len(made)
  BY <1>1 DEF SenderInvariant
<1>. DEFINE key == SessionKeyAt(i)
<1>3. i \in Number /\ key.version = SESSION_KEY_VERSION /\ key.counter = IndexOf(i)
      /\ key.data = At(i).data /\ key.signing_key = Sender /\ key.signed_by = Sender
  BY <1>1, <1>2, SenderKeys
<1>4. i \in Nat \ {0}
  BY <1>3, NumbersOfMessages
<1>5. At(i).data \in [Part -> Seq(Names)] /\ IndexOf(i) \in 0..(Counters - 1)
      /\ At(i) = [data |-> At(i).data, counter |-> IndexOf(i)]
  BY <1>4, IndexIs
<1>. HIDE DEF key
<1>. DEFINE w == WithGroupKeys(inbound[r], key)
<1>6. w \in InboundSessions /\ SessionIs(w, i, i)
  BY <1>1, <1>3, <1>5, FilledSession
<1>. DEFINE s == [w EXCEPT !.signing_key_verified = TRUE]
<1>7. init_inbound(inbound[r], key) = s
  BY <1>3 DEF init_inbound
<1>8. s \in InboundSessions /\ SessionIs(s, i, i)
  <2>. HIDE DEF w
  <2>. QED
    BY <1>6 DEF InboundSessions, SessionIs
<1>9. inbound' = [inbound EXCEPT ![r] = s]
  BY <1>7 DEF InitInbound, key
<1>. HIDE DEF s, w
<1>10. ReceiversInvariant'
  <2>1. first' = [first EXCEPT ![r] = i] /\ reach' = [reach EXCEPT ![r] = i]
        /\ i \in Number \cup {0} /\ i <= i
    BY <1>3, <1>4 DEF InitInbound
  <2>. QED
    BY <1>1, <1>3, <1>8, <1>9, <2>1, ReplacedSession
<1>. QED
  BY <1>1, <1>10, SenderUnchanged, ExportUnchanged DEF GroupInvariant, InitInbound

(* A key that someone changed fills the session, but it is not started.    *)
LEMMA InitInboundForgedKeeps ==
  ASSUME GroupInvariant, NEW r \in Receiver, InitInboundForged(r)
  PROVE  GroupInvariant'
<1>1. SenderInvariant /\ ReceiversInvariant /\ ExportInvariant /\ inbound[r] \in InboundSessions
      /\ Len(made) \in Nat \ {0}
  BY NumbersOfMessages DEF GroupInvariant, ReceiversInvariant, SenderInvariant
<1>2. 1 \in 1..Len(made) /\ 1 \in Nat \ {0}
  BY <1>1
<1>. DEFINE key == ForgedKey
<1>3. key.version = SESSION_KEY_VERSION /\ key.counter = IndexOf(1)
      /\ key.data = RandomData(Stranger) /\ key.signing_key = Sender /\ key.signed_by = Stranger
  BY <1>1, <1>2, SenderKeys DEF ForgedKey
<1>4. RandomData(Stranger) \in [Part -> Seq(Names)] /\ IndexOf(1) \in 0..(Counters - 1)
  BY <1>2, IndexIs, NamesOfParts, RandomApart
<1>. HIDE DEF key
<1>. DEFINE w == WithGroupKeys(inbound[r], key)
<1>5. w \in InboundSessions
  BY <1>1, <1>3, <1>4, FilledSession
<1>. DEFINE s == InboundFailed(w, "BAD_SIGNATURE")
<1>6. init_inbound(inbound[r], key) = s
  BY <1>3 DEF init_inbound, Sender, Stranger
<1>7. s \in InboundSessions
  <2>1. "BAD_SIGNATURE" \in Errors
    BY DEF Errors
  <2>. HIDE DEF w
  <2>. QED
    BY <1>5, <2>1, FailedSession
<1>8. inbound' = [inbound EXCEPT ![r] = s]
  BY <1>6 DEF InitInboundForged, key
<1>. HIDE DEF s, w
<1>9. ReceiversInvariant'
  <2>1. first' = [first EXCEPT ![r] = 0] /\ reach' = [reach EXCEPT ![r] = 0]
        /\ 0 \in Number \cup {0}
    BY DEF InitInboundForged
  <2>. QED
    BY <1>1, <1>7, <1>8, <2>1, ReplacedSession
<1>. QED
  BY <1>1, <1>9, SenderUnchanged, ExportUnchanged DEF GroupInvariant, InitInboundForged

(* The version tells a session key from an export.                         *)
LEMMA InitInboundFailsKeeps ==
  ASSUME GroupInvariant, NEW r \in Receiver, InitInboundFails(r)
  PROVE  GroupInvariant'
<1>1. SenderInvariant /\ ReceiversInvariant /\ ExportInvariant /\ Len(made) \in Nat \ {0}
  BY NumbersOfMessages DEF GroupInvariant, SenderInvariant
<1>2. SESSION_KEY_VERSION # SESSION_EXPORT_VERSION
  BY DEF SESSION_KEY_VERSION, SESSION_EXPORT_VERSION
<1>3. inbound' = [inbound EXCEPT ![r] = InboundFailed(@, "BAD_SESSION_KEY")]
  <2>1. CASE exported # NoExport /\ inbound' = [inbound EXCEPT ![r] = init_inbound(@, exported.key)]
    <3>1. exported.key.version = SESSION_EXPORT_VERSION
      BY <1>1, <2>1 DEF ExportInvariant, ExportOf
    <3>2. init_inbound(inbound[r], exported.key) = InboundFailed(inbound[r], "BAD_SESSION_KEY")
      BY <1>2, <3>1 DEF init_inbound
    <3>. QED
      BY <2>1, <3>2
  <2>2. CASE inbound' = [inbound EXCEPT ![r] = import_inbound(@, SessionKeyAt(1))]
    <3>1. 1 \in 1..Len(made)
      BY <1>1
    <3>2. SessionKeyAt(1).version = SESSION_KEY_VERSION
      BY <1>1, <3>1, SenderKeys
    <3>3. import_inbound(inbound[r], SessionKeyAt(1)) = InboundFailed(inbound[r], "BAD_SESSION_KEY")
      BY <1>2, <3>2 DEF import_inbound
    <3>. QED
      BY <2>2, <3>3
  <2>. QED
    BY <2>1, <2>2 DEF InitInboundFails
<1>4. ReceiversInvariant'
  <2>1. "BAD_SESSION_KEY" \in Errors
    BY DEF Errors
  <2>2. first' = first /\ reach' = reach
    BY DEF InitInboundFails
  <2>. QED
    BY <1>1, <1>3, <2>1, <2>2, FailedReceiver
<1>. QED
  BY <1>1, <1>4, SenderUnchanged, ExportUnchanged DEF GroupInvariant, InitInboundFails

(* A session from an export starts with the message it was exported for.   *)
LEMMA ImportInboundKeeps ==
  ASSUME GroupInvariant, NEW r \in Receiver, ImportInbound(r)
  PROVE  GroupInvariant'
<1>1. SenderInvariant /\ ReceiversInvariant /\ ExportInvariant /\ inbound[r] \in InboundSessions
  BY DEF GroupInvariant, ReceiversInvariant
<1>2. PICK n \in Number : exported = [number |-> n, key |-> ExportOf(n)]
  BY <1>1 DEF ImportInbound, ExportInvariant
<1>. DEFINE key == ExportOf(n)
<1>3. n \in Nat \ {0} /\ exported.number = n /\ exported.key = key
      /\ key.version = SESSION_EXPORT_VERSION /\ key.counter = IndexOf(n)
      /\ key.data = At(n).data /\ key.signing_key = Sender
  BY <1>2, NumbersOfMessages DEF ExportOf
<1>4. At(n).data \in [Part -> Seq(Names)] /\ IndexOf(n) \in 0..(Counters - 1)
      /\ At(n) = [data |-> At(n).data, counter |-> IndexOf(n)]
  BY <1>3, IndexIs
<1>. HIDE DEF key
<1>. DEFINE s == WithGroupKeys(inbound[r], key)
<1>5. s \in InboundSessions /\ SessionIs(s, n, n)
  BY <1>1, <1>3, <1>4, FilledSession
<1>6. import_inbound(inbound[r], key) = s
  BY <1>3 DEF import_inbound
<1>7. inbound' = [inbound EXCEPT ![r] = s]
  BY <1>3, <1>6 DEF ImportInbound
<1>. HIDE DEF s
<1>8. ReceiversInvariant'
  <2>1. first' = [first EXCEPT ![r] = n] /\ reach' = [reach EXCEPT ![r] = n]
        /\ n \in Number \cup {0} /\ n <= n
    BY <1>3 DEF ImportInbound
  <2>. QED
    BY <1>1, <1>5, <1>7, <2>1, ReplacedSession
<1>. QED
  BY <1>1, <1>8, SenderUnchanged, ExportUnchanged DEF GroupInvariant, ImportInbound


(* A message: the ratchet that is asked is the one of that message, and it *)
(* is kept if it is ahead.                                                 *)
LEMMA GroupDecryptKeeps ==
  ASSUME FewerThanATurn, GroupInvariant, NEW r \in Receiver, NEW i \in Sent, GroupDecrypt(r, i)
  PROVE  GroupInvariant'
<1>. DEFINE f == first[r]
<1>. DEFINE g == reach[r]
<1>. DEFINE h == IF i - g \in 0..(Half - 1) THEN i ELSE g
<1>. DEFINE s == GroupDecrypted(inbound[r], MessageAt(i))
<1>1. /\ SenderInvariant /\ ReceiversInvariant /\ ExportInvariant /\ inbound[r] \in InboundSessions
      /\ f \in Number /\ g \in Number /\ f <= g /\ SessionIs(inbound[r], f, g) /\ g - i <= Half
  BY DEF GroupInvariant, ReceiversInvariant, GroupDecrypt, InWindow, HasSession
<1>2. i \in 1..Len(made) /\ i \in Number
  <2>1. Len(made) \in Nat
    BY <1>1, NumbersOfMessages DEF SenderInvariant
  <2>2. i \in 1..Len(made)
    BY <2>1 DEF Sent
  <2>. QED
    BY <1>1, <2>2, SenderKeys
<1>3. s \in InboundSessions /\ SessionIs(s, f, h)
  BY <1>1, <1>2, DecryptedSession
<1>4. h \in Number /\ f <= h
  BY <1>1, <1>2, AdvancedSession
<1>5. inbound' = [inbound EXCEPT ![r] = s] /\ reach' = [reach EXCEPT ![r] = h]
      /\ first' = [first EXCEPT ![r] = f]
  BY <1>1 DEF GroupDecrypt, Reached, ReceiversInvariant
<1>. HIDE DEF f, g, h, s
<1>6. ReceiversInvariant'
  BY <1>1, <1>3, <1>4, <1>5, ReplacedSession
<1>. QED
  BY <1>1, <1>6, SenderUnchanged, ExportUnchanged DEF GroupInvariant, GroupDecrypt

LEMMA GroupDecryptAlteredKeeps ==
  ASSUME GroupInvariant, NEW r \in Receiver, NEW i \in Sent, NEW m \in Altered(MessageAt(i)),
         GroupDecryptAltered(r, m)
  PROVE  GroupInvariant'
<1>1. /\ SenderInvariant /\ ReceiversInvariant /\ ExportInvariant /\ inbound[r] \in InboundSessions
      /\ inbound[r].signing_key = Sender
  BY DEF GroupInvariant, ReceiversInvariant, GroupDecryptAltered, HasSession, SessionIs
<1>2. i \in 1..Len(made)
  BY <1>1, NumbersOfMessages DEF Sent, SenderInvariant
<1>3. PICK error \in Errors : GroupDecrypted(inbound[r], m) = InboundFailed(inbound[r], error)
  BY <1>1, <1>2, AlteredSession
<1>4. inbound' = [inbound EXCEPT ![r] = InboundFailed(@, error)] /\ first' = first /\ reach' = reach
  BY <1>3 DEF GroupDecryptAltered
<1>5. ReceiversInvariant'
  BY <1>1, <1>4, FailedReceiver
<1>. QED
  BY <1>1, <1>5, SenderUnchanged, ExportUnchanged DEF GroupInvariant, GroupDecryptAltered

LEMMA InboundUnreadableKeeps ==
  ASSUME GroupInvariant, NEW r \in Receiver, NEW error, InboundUnreadable(r, error)
  PROVE  GroupInvariant'
<1>1. SenderInvariant /\ ReceiversInvariant /\ ExportInvariant
  BY DEF GroupInvariant
<1>2. error \in Errors
  BY DEF InboundUnreadable, Errors
<1>3. inbound' = [inbound EXCEPT ![r] = InboundFailed(@, error)] /\ first' = first /\ reach' = reach
  BY DEF InboundUnreadable
<1>4. ReceiversInvariant'
  BY <1>1, <1>2, <1>3, FailedReceiver
<1>. QED
  BY <1>1, <1>4, SenderUnchanged, ExportUnchanged DEF GroupInvariant, InboundUnreadable

(* An export: the ratchet of the message that it is for.                   *)
LEMMA ExportKeeps ==
  ASSUME FewerThanATurn, GroupInvariant, NEW r \in Receiver, NEW i \in Number, Export(r, i)
  PROVE  GroupInvariant'
<1>. DEFINE f == first[r]
<1>. DEFINE g == reach[r]
<1>. DEFINE h == IF i - g \in 0..(Half - 1) THEN i ELSE g
<1>. DEFINE x == IndexOf(i)
<1>. DEFINE s == Exported(inbound[r], x)
<1>1. /\ SenderInvariant /\ ReceiversInvariant /\ ExportInvariant /\ inbound[r] \in InboundSessions
      /\ f \in Number /\ g \in Number /\ f <= g /\ SessionIs(inbound[r], f, g) /\ g - i <= Half
  BY DEF GroupInvariant, ReceiversInvariant, Export, InWindow, HasSession
<1>2. WithMegolm(inbound[r], x) \in InboundSessions /\ SessionIs(WithMegolm(inbound[r], x), f, h)
      /\ h \in Number /\ f <= h
  BY <1>1, AdvancedSession
<1>3. /\ IsKnown(inbound[r], x) <=> Near(g, i) \/ Near(f, i)
      /\ IsKnown(inbound[r], x) => get_megolm(inbound[r], x) = At(i)
  BY <1>1, Asked
<1>4. s \in InboundSessions /\ SessionIs(s, f, h)
  <2>1. CASE IsKnown(inbound[r], x)
    BY <1>2, <2>1 DEF Exported
  <2>2. CASE ~ IsKnown(inbound[r], x)
    <3>1. h = g /\ s = InboundFailed(inbound[r], "UNKNOWN_MESSAGE_INDEX")
      BY <1>3, <2>2 DEF Exported, Near
    <3>2. "UNKNOWN_MESSAGE_INDEX" \in Errors
      BY DEF Errors
    <3>. HIDE DEF h, s, f, g
    <3>3. InboundFailed(inbound[r], "UNKNOWN_MESSAGE_INDEX") \in InboundSessions
      BY <1>1, <3>2, FailedSession
    <3>4. SessionIs(InboundFailed(inbound[r], "UNKNOWN_MESSAGE_INDEX"), f, g)
      BY <1>1, <3>2, FailedSession
    <3>. QED
      BY <3>1, <3>3, <3>4
  <2>. QED
    BY <2>1, <2>2
<1>5. inbound' = [inbound EXCEPT ![r] = s] /\ reach' = [reach EXCEPT ![r] = h]
      /\ first' = [first EXCEPT ![r] = f]
  BY <1>1 DEF Export, Reached, ReceiversInvariant
<1>6. ExportInvariant'
  <2>1. CASE IsKnown(inbound[r], x)
    <3>1. export_inbound(inbound[r], x) = ExportOf(i)
      BY <1>1, <1>3, <2>1 DEF export_inbound, ExportOf, SessionIs
    <3>2. exported' = [number |-> i, key |-> ExportOf(i)]
      BY <2>1, <3>1 DEF Export
    <3>. QED
      BY <3>2 DEF ExportInvariant
  <2>2. CASE ~ IsKnown(inbound[r], x)
    <3>1. exported' = exported
      BY <2>2 DEF Export
    <3>. QED
      BY <1>1, <3>1 DEF ExportInvariant
  <2>. QED
    BY <2>1, <2>2
<1>. HIDE DEF f, g, h, s
<1>7. ReceiversInvariant'
  BY <1>1, <1>2, <1>4, <1>5, ReplacedSession
<1>. QED
  BY <1>1, <1>6, <1>7, SenderUnchanged DEF GroupInvariant, Export

LEMMA GroupNext == FewerThanATurn /\ GroupInvariant /\ [Next]_vars => GroupInvariant'
<1>. SUFFICES ASSUME FewerThanATurn, GroupInvariant, [Next]_vars PROVE GroupInvariant'
  OBVIOUS
<1>1. CASE GroupEncrypt
  BY <1>1, GroupEncryptKeeps
<1>2. CASE GroupEncryptFails
  BY <1>2, GroupEncryptFailsKeeps
<1>3. ASSUME NEW r \in Receiver, NEW i \in DOMAIN made, InitInbound(r, i) PROVE GroupInvariant'
  BY <1>3, InitInboundKeeps
<1>4. ASSUME NEW r \in Receiver, InitInboundForged(r) PROVE GroupInvariant'
  BY <1>4, InitInboundForgedKeeps
<1>5. ASSUME NEW r \in Receiver, InitInboundFails(r) PROVE GroupInvariant'
  BY <1>5, InitInboundFailsKeeps
<1>6. ASSUME NEW r \in Receiver, ImportInbound(r) PROVE GroupInvariant'
  BY <1>6, ImportInboundKeeps
<1>7. ASSUME NEW r \in Receiver, NEW i \in Sent, GroupDecrypt(r, i) PROVE GroupInvariant'
  BY <1>7, GroupDecryptKeeps
<1>8. ASSUME NEW r \in Receiver, NEW i \in Sent, NEW m \in Altered(MessageAt(i)),
             GroupDecryptAltered(r, m)
      PROVE  GroupInvariant'
  BY <1>8, GroupDecryptAlteredKeeps
<1>9. ASSUME NEW r \in Receiver, NEW i \in Number, Export(r, i) PROVE GroupInvariant'
  BY <1>9, ExportKeeps
<1>10. ASSUME NEW r \in Receiver, NEW error, InboundUnreadable(r, error) PROVE GroupInvariant'
  BY <1>10, InboundUnreadableKeeps
<1>11. CASE UNCHANGED vars
  BY <1>11, SenderUnchanged, ExportUnchanged
     DEF vars, GroupInvariant, ReceiversInvariant, HasSession
<1>. QED
  BY <1>1, <1>2, <1>3, <1>4, <1>5, <1>6, <1>7, <1>8, <1>9, <1>10, <1>11 DEF Next, Number

(***************************************************************************)
(* The theorems.                                                           *)
(***************************************************************************)
(* Every ratchet of a group is the one after some number of messages.      *)
THEOREM RatchetsOfTheGroup ==
  ASSUME FewerThanATurn
  PROVE  Spec => []GroupInvariant
<1>1. GroupInvariant /\ [Next]_vars => GroupInvariant'
  BY GroupNext
<1>. QED
  BY <1>1, GroupInit, PTL DEF Spec

(* A session that is started is the sender's, it starts where it was       *)
(* started, and its latest ratchet is the furthest it was asked for.       *)
THEOREM TypeCorrect ==
  ASSUME FewerThanATurn
  PROVE  Spec => []TypeOK
<1>1. GroupInvariant => TypeOK
  <2>. SUFFICES ASSUME GroupInvariant, NEW r \in Receiver
                PROVE  /\ inbound[r].initial_ratchet.counter \in 0..(Counters - 1)
                       /\ inbound[r].signing_key_verified \in BOOLEAN
                       /\ HasSession(r) =>
                            /\ inbound[r].signing_key = Sender
                            /\ inbound[r].initial_ratchet.counter = IndexOf(first[r])
                            /\ inbound[r].latest_ratchet.counter = IndexOf(reach[r])
                            /\ first[r] <= reach[r]
    BY DEF TypeOK
  <2>1. inbound[r] \in InboundSessions
    BY DEF GroupInvariant, ReceiversInvariant
  <2>2. inbound[r].initial_ratchet.counter \in 0..(Counters - 1)
        /\ inbound[r].signing_key_verified \in BOOLEAN
    BY <2>1 DEF InboundSessions, Ratchets
  <2>3. ASSUME HasSession(r)
        PROVE  /\ first[r] \in Number /\ reach[r] \in Number /\ first[r] <= reach[r]
               /\ SessionIs(inbound[r], first[r], reach[r])
    BY <2>3 DEF GroupInvariant, ReceiversInvariant, HasSession
  <2>4. ASSUME HasSession(r)
        PROVE  At(first[r]).counter = IndexOf(first[r]) /\ At(reach[r]).counter = IndexOf(reach[r])
    <3>1. first[r] \in Nat \ {0} /\ reach[r] \in Nat \ {0}
      BY <2>3, <2>4, NumbersOfMessages
    <3>. QED
      BY <3>1, IndexIs
  <2>. QED
    BY <2>2, <2>3, <2>4 DEF SessionIs
<1>. QED
  BY <1>1, RatchetsOfTheGroup, PTL

(* A receiver reads every message from the one its session starts with, in *)
(* any order and any number of times, across any turn of the counter, and  *)
(* says UNKNOWN_MESSAGE_INDEX of the others.                               *)
THEOREM ReadsFromFirstHolds ==
  ASSUME FewerThanATurn
  PROVE  Spec => []ReadsFromFirst
<1>1. GroupInvariant => ReadsFromFirst
  <2>. SUFFICES ASSUME GroupInvariant, NEW r \in Receiver, HasSession(r), NEW i \in Sent, InWindow(r, i)
                PROVE  DecryptResult(inbound[r], MessageAt(i)) =
                         IF IsReadable(r, i) THEN "SUCCESS" ELSE "UNKNOWN_MESSAGE_INDEX"
    BY DEF ReadsFromFirst
  <2>. DEFINE f == first[r]
  <2>. DEFINE g == reach[r]
  <2>1. /\ SenderInvariant /\ inbound[r] \in InboundSessions
        /\ f \in Number /\ g \in Number /\ f <= g /\ SessionIs(inbound[r], f, g) /\ g - i <= Half
    BY DEF GroupInvariant, ReceiversInvariant, InWindow, HasSession
  <2>2. i \in 1..Len(made)
    BY <2>1, NumbersOfMessages DEF Sent, SenderInvariant
  <2>3. DecryptResult(inbound[r], MessageAt(i)) =
          IF Near(g, i) \/ Near(f, i) THEN "SUCCESS" ELSE "UNKNOWN_MESSAGE_INDEX"
    BY <2>1, <2>2, DecryptedSession
  <2>4. IsReadable(r, i) <=> Near(g, i) \/ Near(f, i)
    <3>1. IsReadable(r, i) <=> i >= f /\ (i < g => i - f < Half) /\ i - g < Half
      BY DEF IsReadable
    <3>2. f \in Nat /\ g \in Nat /\ i \in Nat /\ Half \in Nat
      BY <2>1, <2>2, NumbersOfMessages, HalfIs
    <3>. HIDE DEF f, g
    <3>. QED
      BY <2>1, <3>1, <3>2 DEF Near
  <2>. QED
    BY <2>3, <2>4
<1>. QED
  BY <1>1, RatchetsOfTheGroup, PTL

(* From what a receiver holds, both ratchets together, and from an export, *)
(* no message before the first one can be read.                            *)
THEOREM NoHistoryHolds ==
  ASSUME FewerThanATurn
  PROVE  Spec => []NoHistory
<1>1. ASSUME NEW i \in Nat \ {0}, NEW f \in Nat \ {0}, NEW g \in Nat \ {0}, i < f, i < g
      PROVE  ~ Derivable(Range(At(f).data) \cup Range(At(g).data), At(i).data)
  <2>. DEFINE n == Start + (i - 1)
  <2>1. n \in Nat /\ f - i \in Nat /\ f - i # 0 /\ g - i \in Nat /\ g - i # 0
        /\ Start + (f - 1) = n + (f - i) /\ Start + (g - 1) = n + (g - i)
    BY <1>1, GroupChatConstants
  <2>2. Later(RatchetAt[n].data, RatchetAt[n + (f - i)].data)
        /\ Later(RatchetAt[n].data, RatchetAt[n + (g - i)].data)
    <3>. HIDE DEF n
    <3>. QED
      BY <2>1, RatchetsGoOn
  <2>3. Later(At(i).data, At(f).data) /\ Later(At(i).data, At(g).data)
    BY <2>1, <2>2 DEF At
  <2>4. PICK a \in Part : Past(At(i).data, At(f).data, a)
    BY <2>3 DEF Later
  <2>5. PICK b \in Part : Past(At(i).data, At(g).data, b)
    BY <2>3 DEF Later
  <2>6. At(i).data \in [Part -> Seq(Names)] /\ PrefixFree(At(i).data)
        /\ At(f).data \in [Part -> Seq(Names)] /\ At(g).data \in [Part -> Seq(Names)]
    BY IndexIs
  <2>. QED
    BY <2>4, <2>5, <2>6, NotDerivable
<1>2. GroupInvariant => NoHistory
  <2>. SUFFICES ASSUME GroupInvariant PROVE NoHistory
    OBVIOUS
  <2>1. /\ made \in Seq(Ratchets(Names)) /\ Len(made) \in Nat
        /\ \A i \in DOMAIN made : i \in Nat \ {0} /\ made[i] = At(i)
    BY NumbersOfMessages DEF GroupInvariant, SenderInvariant
  <2>2. ASSUME NEW r \in Receiver, HasSession(r), NEW i \in DOMAIN made, i < first[r]
        PROVE  ~ Derivable(Range(inbound[r].initial_ratchet.data)
                             \cup Range(inbound[r].latest_ratchet.data), made[i].data)
    <3>1. /\ first[r] \in Number /\ reach[r] \in Number /\ first[r] <= reach[r]
          /\ inbound[r].initial_ratchet = At(first[r]) /\ inbound[r].latest_ratchet = At(reach[r])
      BY <2>2 DEF GroupInvariant, ReceiversInvariant, HasSession, SessionIs
    <3>2. first[r] \in Nat \ {0} /\ reach[r] \in Nat \ {0} /\ i \in Nat \ {0} /\ i < reach[r]
      BY <2>1, <2>2, <3>1, NumbersOfMessages
    <3>. QED
      BY <1>1, <2>1, <2>2, <3>1, <3>2, ZenonT(30)
  <2>3. ASSUME NEW i \in DOMAIN made, i < exported.number
        PROVE  ~ Derivable(Range(exported.key.data), made[i].data)
    <3>1. i \in Nat \ {0} /\ made[i] = At(i)
      BY <2>1
    <3>2. exported # NoExport
      BY <2>3, <3>1 DEF NoExport
    <3>3. PICK n \in Number : exported = [number |-> n, key |-> ExportOf(n)]
      BY <3>2 DEF GroupInvariant, ExportInvariant
    <3>4. exported.number = n /\ exported.key.data = At(n).data /\ n \in Nat \ {0}
      BY <3>3, NumbersOfMessages DEF ExportOf
    <3>5. ~ Derivable(Range(At(n).data) \cup Range(At(n).data), At(i).data)
      BY <1>1, <2>3, <3>1, <3>4
    <3>6. Range(At(n).data) \cup Range(At(n).data) = Range(At(n).data)
      OBVIOUS
    <3>. QED
      BY <3>1, <3>4, <3>5, <3>6
  <2>. QED
    BY <2>2, <2>3 DEF NoHistory
<1>. QED
  BY <1>2, RatchetsOfTheGroup, PTL

=============================================================================
