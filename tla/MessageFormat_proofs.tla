------------------------ MODULE MessageFormat_proofs ------------------------
(***************************************************************************)
(* Theorems about the message format, for all contents that the types can  *)
(* hold, all bytes from elsewhere, and all widths and lengths.             *)
(*                                                                         *)
(* The argument.  Recursive functions exist and obey their rule because    *)
(* what they are asked for gets smaller (Recursion): so a varint ends in   *)
(* its only byte below 128, and is decoded to what was encoded             *)
(* (DecodeEncoded).  A message is its parts one after another, and a part  *)
(* begins where the one before it ends (Joined, PartsJoined, Places).      *)
(* ReadingInv says of any bytes where a decoder is and where its strings   *)
(* lie.  If the bytes were written, the decoder is always at the beginning *)
(* of a part or at the end, and what comes before it has been read         *)
(* (WholeInv); if they were cut, it is at the beginning of a part or at    *)
(* the end, and the last part, which is not all there, has given nothing   *)
(* or an empty string (CutInv).                                            *)
(***************************************************************************)
EXTENDS MessageFormat, SequenceTheorems, WellFoundedInduction, TLAPS

(***************************************************************************)
(* Induction and recursion.                                                *)
(***************************************************************************)
(* A set of numbers that is not empty has a least element. *)
LEMMA LeastNumber ==
  ASSUME NEW T, T \subseteq Nat, T # {}
  PROVE  \E x \in T : \A y \in T : ~ (y < x)
<1>. DEFINE R == { ss \in Nat \X Nat : ss[1] < ss[2] }
<1>1. IsWellFoundedOn(R, Nat)
  BY NatLessThanWellFounded DEF OpToRel
<1>. HIDE DEF R
<1>2. \E x \in T : \A y \in T : ~ (<< y, x >> \in R)
  BY <1>1, WFMin
<1>. QED
  BY <1>2 DEF R

(* A set of numbers with each n whose smaller numbers it has is all of     *)
(* them.                                                                   *)
LEMMA AllNumbers ==
  ASSUME NEW T, T \subseteq Nat,
         \A n \in Nat : (\A k \in Nat : k < n => k \in T) => n \in T
  PROVE  T = Nat
<1>. SUFFICES ASSUME T # Nat PROVE FALSE
  OBVIOUS
<1>1. PICK x \in Nat \ T : \A y \in Nat \ T : ~ (y < x)
  BY LeastNumber
<1>. QED
  BY <1>1

(* What a function is at n, by the rule that the recursion follows: b at   *)
(* the numbers of B, and g of n and of what it is at p[n] elsewhere.       *)
Follows(f, n, B, b, p, g) == f[n] = IF n \in B THEN b[n] ELSE g[<< n, f[p[n]] >>]

(* There is a function that follows the rule, when p[n] is less than n: up *)
(* to each number there is just one, and what each of these has at its end *)
(* makes up the whole.                                                     *)
LEMMA Recursion ==
  ASSUME NEW D, D \subseteq Nat, NEW S, NEW B, NEW b \in [D -> S], NEW p \in [D -> D],
         NEW g \in [D \X S -> S], \A n \in D \ B : p[n] < n
  PROVE  \E f \in [D -> S] : \A n \in D : Follows(f, n, B, b, p, g)
<1>. DEFINE Upto(n) == { f \in [{ i \in D : i <= n } -> S] :
                           \A i \in D : i <= n => Follows(f, i, B, b, p, g) }
<1>1. ASSUME NEW m \in Nat, NEW n \in Nat, NEW f \in Upto(m), NEW h \in Upto(n),
             NEW i \in D, i <= m, i <= n
      PROVE  f[i] = h[i]
  <2>. DEFINE C == { j \in D : j <= m /\ j <= n /\ f[j] # h[j] }
  <2>. SUFFICES ASSUME C # {} PROVE FALSE
    BY <1>1
  <2>1. PICK x \in C : \A y \in C : ~ (y < x)
    BY LeastNumber
  <2>2. x \in D /\ x \in Nat /\ x <= m /\ x <= n /\ f[x] # h[x]
    BY <2>1
  <2>3. Follows(f, x, B, b, p, g) /\ Follows(h, x, B, b, p, g)
    BY <2>2
  <2>4. x \notin B
    BY <2>2, <2>3 DEF Follows
  <2>5. p[x] \in D /\ p[x] \in Nat /\ p[x] < x
    BY <2>2, <2>4
  <2>6. f[p[x]] = h[p[x]]
    BY <2>1, <2>2, <2>5
  <2>. QED
    BY <2>2, <2>3, <2>4, <2>6 DEF Follows
<1>. DEFINE T == { n \in Nat : Upto(n) # {} }
<1>2. ASSUME NEW n \in Nat, \A k \in Nat : k < n => k \in T PROVE n \in T
  <2>. DEFINE Before == { i \in D : i < n }
  <2>1. \E f \in [Before -> S] : \A i \in Before : Follows(f, i, B, b, p, g)
    <3>1. CASE n = 0
      <4>1. Before = {}
        <5>1. \A i \in D : ~ (i < 0)
          OBVIOUS
        <5>. QED
          BY <3>1, <5>1
      <4>2. [i \in Before |-> b[i]] \in [Before -> S]
        OBVIOUS
      <4>. HIDE DEF Before
      <4>. QED
        BY <4>1, <4>2
    <3>2. CASE n # 0
      <4>1. n - 1 \in Nat /\ n - 1 < n
        BY <3>2
      <4>2. PICK f : f \in Upto(n - 1)
        BY <1>2, <4>1
      <4>3. { i \in D : i <= n - 1 } = Before
        <5>1. \A i \in D : i <= n - 1 <=> i < n
          OBVIOUS
        <5>. QED
          BY <5>1
      <4>4. f \in [Before -> S]
        BY <4>2, <4>3
      <4>5. \A i \in Before : Follows(f, i, B, b, p, g)
        BY <4>2
      <4>. QED
        BY <4>4, <4>5
    <3>. QED
      BY <3>1, <3>2
  <2>2. PICK f \in [Before -> S] : \A i \in Before : Follows(f, i, B, b, p, g)
    BY <2>1
  <2>. DEFINE h == [i \in { j \in D : j <= n } |->
                      IF i < n THEN f[i] ELSE IF i \in B THEN b[i] ELSE g[<< i, f[p[i]] >>]]
  <2>3. ASSUME NEW i \in D, i \notin B, i <= n
        PROVE  p[i] \in Before /\ p[i] < i /\ p[i] <= n /\ h[p[i]] = f[p[i]] /\ f[p[i]] \in S
    <3>1. p[i] \in D /\ p[i] < i /\ p[i] \in Nat /\ i \in Nat
      BY <2>3
    <3>. QED
      BY <2>3, <3>1
  <2>4. ASSUME NEW i \in D, i <= n PROVE h[i] \in S /\ Follows(h, i, B, b, p, g)
    <3>1. CASE i < n
      <4>1. i \in Before /\ h[i] = f[i] /\ f[i] \in S
        BY <2>4, <3>1
      <4>2. Follows(f, i, B, b, p, g)
        BY <2>2, <4>1
      <4>. QED
        BY <2>3, <2>4, <4>1, <4>2 DEF Follows
    <3>2. CASE ~ (i < n)
      <4>1. h[i] = IF i \in B THEN b[i] ELSE g[<< i, f[p[i]] >>]
        BY <2>4, <3>2
      <4>2. CASE i \in B
        BY <4>1, <4>2 DEF Follows
      <4>3. CASE i \notin B
        BY <2>3, <2>4, <4>1, <4>3 DEF Follows
      <4>. QED
        BY <4>2, <4>3
    <3>. QED
      BY <3>1, <3>2
  <2>. HIDE DEF h
  <2>5. h \in [{ i \in D : i <= n } -> S]
    <3>1. \A i \in { j \in D : j <= n } : h[i] \in S
      BY <2>4
    <3>. QED
      BY <3>1 DEF h
  <2>. QED
    BY <2>4, <2>5
<1>3. T = Nat
  <2>. HIDE DEF Upto
  <2>1. T \subseteq Nat
    OBVIOUS
  <2>. HIDE DEF T
  <2>. QED
    BY <1>2, <2>1, AllNumbers
<1>. DEFINE F == [n \in Nat |-> CHOOSE f : f \in Upto(n)]
<1>4. \A n \in Nat : F[n] \in Upto(n)
  <2>1. \A n \in Nat : \E f : f \in Upto(n)
    BY <1>3
  <2>. HIDE DEF Upto
  <2>. QED
    BY <2>1
<1>. HIDE DEF F, T
<1>. DEFINE U(n) == { i \in D : i <= n }
<1>5. ASSUME NEW n \in Nat
      PROVE  F[n] \in [U(n) -> S] /\ \A i \in D : i <= n => Follows(F[n], i, B, b, p, g)
  BY <1>4
<1>. DEFINE w == [n \in D |-> F[n][n]]
<1>6. w \in [D -> S]
  <2>1. \A n \in D : n \in Nat /\ n \in U(n)
    OBVIOUS
  <2>. HIDE DEF U
  <2>2. \A n \in D : F[n][n] \in S
    BY <1>5, <2>1
  <2>. QED
    BY <2>2
<1>7. ASSUME NEW n \in D PROVE Follows(w, n, B, b, p, g)
  <2>1. n \in Nat /\ n <= n
    OBVIOUS
  <2>2. F[n] \in Upto(n) /\ Follows(F[n], n, B, b, p, g)
    BY <1>4, <1>5, <2>1
  <2>3. CASE n \in B
    BY <2>2, <2>3 DEF Follows
  <2>4. CASE n \notin B
    <3>1. p[n] \in D /\ p[n] \in Nat /\ p[n] < n
      BY <2>4
    <3>2. p[n] <= n /\ p[n] <= p[n]
      BY <2>1, <3>1
    <3>4. F[p[n]] \in Upto(p[n])
      BY <1>4, <3>1
    <3>. HIDE DEF Upto
    <3>3. F[n][p[n]] = F[p[n]][p[n]]
      BY <1>1, <2>1, <2>2, <3>1, <3>2, <3>4
    <3>. QED
      BY <2>2, <2>4, <3>1, <3>3 DEF Follows
  <2>. QED
    BY <2>3, <2>4
<1>. QED
  BY <1>6, <1>7

(***************************************************************************)
(* Varints.                                                                *)
(***************************************************************************)
LEMMA Divided ==
  ASSUME NEW n \in Nat, n >= 128
  PROVE  /\ n \div 128 \in Nat /\ n \div 128 < n
         /\ n % 128 \in 0..127 /\ (n \div 128) * 128 + (n % 128) = n
  OBVIOUS

(* Where the numbers go that take more than a byte. *)
Shorter == [n \in Nat |-> IF n < 128 THEN n ELSE n \div 128]

OneByte == 0..127

LEMMA ShorterIs ==
  /\ Shorter \in [Nat -> Nat]
  /\ \A n \in Nat \ OneByte : Shorter[n] < n
  /\ \A n \in Nat : n < 128 <=> n \in OneByte
  /\ \A n \in Nat : n \notin OneByte => Shorter[n] = n \div 128 /\ n \div 128 \in Nat
<1>1. \A n \in Nat : n >= 128 => n \div 128 \in Nat /\ n \div 128 < n
  BY Divided
<1>2. \A n \in Nat : n \notin OneByte => n >= 128
  BY DEF OneByte
<1>. QED
  BY <1>1, <1>2 DEF Shorter, OneByte

LEMMA LengthRule ==
  \A n \in Nat : varint_length[n] = IF n < 128 THEN 1 ELSE 1 + varint_length[n \div 128]
<1>. DEFINE b == [n \in Nat |-> 1]
<1>. DEFINE g == [x \in Nat \X Nat |-> 1 + x[2]]
<1>1. b \in [Nat -> Nat] /\ g \in [Nat \X Nat -> Nat]
  OBVIOUS
<1>. HIDE DEF b, g
<1>2. PICK f \in [Nat -> Nat] : \A n \in Nat : Follows(f, n, OneByte, b, Shorter, g)
  BY <1>1, ShorterIs, Recursion
<1>3. \A n \in Nat : f[n] = IF n < 128 THEN 1 ELSE 1 + f[n \div 128]
  <2>. TAKE n \in Nat
  <2>1. CASE n < 128
    BY <1>2, <2>1, ShorterIs DEF Follows, b
  <2>2. CASE n >= 128
    <3>1. n \notin OneByte /\ n \div 128 \in Nat /\ Shorter[n] = n \div 128
      BY <2>2, ShorterIs
    <3>2. f[n] = g[<< n, f[n \div 128] >>]
      BY <1>2, <3>1 DEF Follows
    <3>. QED
      BY <2>2, <3>1, <3>2 DEF g
  <2>. QED
    BY <2>1, <2>2
<1>4. f = [n \in Nat |-> IF n < 128 THEN 1 ELSE 1 + f[n \div 128]]
  BY <1>3
<1>5. varint_length = [n \in Nat |-> IF n < 128 THEN 1 ELSE 1 + varint_length[n \div 128]]
  BY <1>4 DEF varint_length
<1>. QED
  BY <1>5

LEMMA EncodeRule ==
  \A n \in Nat : varint_encode[n] =
    IF n < 128 THEN << n >> ELSE << (n % 128) + 128 >> \o varint_encode[n \div 128]
<1>. DEFINE S == Seq(Nat)
<1>. DEFINE b == [n \in Nat |-> << n >>]
<1>. DEFINE g == [x \in Nat \X S |-> << (x[1] % 128) + 128 >> \o x[2]]
<1>1. b \in [Nat -> S]
  OBVIOUS
<1>2. g \in [Nat \X S -> S]
  <2>. SUFFICES ASSUME NEW n \in Nat, NEW s \in S PROVE << (n % 128) + 128 >> \o s \in S
    OBVIOUS
  <2>1. << (n % 128) + 128 >> \in S
    OBVIOUS
  <2>. QED
    BY <2>1, ConcatProperties
<1>. HIDE DEF b, g, S
<1>3. PICK f \in [Nat -> S] : \A n \in Nat : Follows(f, n, OneByte, b, Shorter, g)
  BY <1>1, <1>2, ShorterIs, Recursion
<1>4. \A n \in Nat : f[n] = IF n < 128 THEN << n >> ELSE << (n % 128) + 128 >> \o f[n \div 128]
  <2>. TAKE n \in Nat
  <2>1. CASE n < 128
    BY <1>3, <2>1, ShorterIs DEF Follows, b
  <2>2. CASE n >= 128
    <3>1. n \notin OneByte /\ n \div 128 \in Nat /\ Shorter[n] = n \div 128
      BY <2>2, ShorterIs
    <3>2. f[n] = g[<< n, f[n \div 128] >>]
      BY <1>3, <3>1 DEF Follows
    <3>3. f[n \div 128] \in S
      BY <1>3, <3>1
    <3>. QED
      BY <2>2, <3>1, <3>2, <3>3 DEF g
  <2>. QED
    BY <2>1, <2>2
<1>5. f = [n \in Nat |-> IF n < 128 THEN << n >> ELSE << (n % 128) + 128 >> \o f[n \div 128]]
  BY <1>4, Zenon
<1>6. varint_encode = [n \in Nat |-> IF n < 128 THEN << n >>
                                     ELSE << (n % 128) + 128 >> \o varint_encode[n \div 128]]
  BY <1>5, ZenonT(60) DEF varint_encode
<1>. QED
  BY <1>6

(* What varint_encode writes is a varint, as long as varint_length says. *)
LEMMA EncodedVarint ==
  \A n \in Nat : IsVarint(varint_encode[n]) /\ Len(varint_encode[n]) = varint_length[n]
<1>. DEFINE P(n) == IsVarint(varint_encode[n]) /\ Len(varint_encode[n]) = varint_length[n]
<1>. DEFINE T == { n \in Nat : P(n) }
<1>1. ASSUME NEW n \in Nat, \A k \in Nat : k < n => k \in T PROVE P(n)
  <2>1. CASE n < 128
    <3>1. varint_encode[n] = << n >> /\ varint_length[n] = 1
      BY <2>1, EncodeRule, LengthRule, Zenon
    <3>. QED
      BY <2>1, <3>1 DEF IsVarint, Byte
  <2>2. CASE n >= 128
    <3>. DEFINE s == << (n % 128) + 128 >>
    <3>. DEFINE t == varint_encode[n \div 128]
    <3>1. P(n \div 128)
      BY <1>1, <2>2, Divided
    <3>2. varint_encode[n] = s \o t /\ varint_length[n] = 1 + varint_length[n \div 128]
      <4>1. ~ (n < 128)
        BY <2>2
      <4>. HIDE DEF P, T
      <4>. QED
        BY <4>1, EncodeRule, LengthRule, Zenon
    <3>3. s \in Seq(Byte) /\ Len(s) = 1 /\ s[1] \in Nat /\ s[1] >= 128
      BY <2>2, Divided DEF Byte
    <3>4. t \in Seq(Byte) /\ t # << >> /\ Len(t) \in Nat /\ Len(t) > 0
          /\ \A i \in 1..Len(t) : t[i] < 128 <=> i = Len(t)
      BY <3>1 DEF IsVarint
    <3>. HIDE DEF s, t
    <3>5. s \o t \in Seq(Byte) /\ Len(s \o t) = 1 + Len(t)
          /\ \A i \in 1..(1 + Len(t)) : (s \o t)[i] = IF i <= 1 THEN s[i] ELSE t[i - 1]
      <4>. HIDE DEF P, T
      <4>1. s \o t \in Seq(Byte) /\ Len(s \o t) = Len(s) + Len(t)
            /\ \A i \in 1..(Len(s) + Len(t)) : (s \o t)[i] = IF i <= Len(s) THEN s[i] ELSE t[i - Len(s)]
        BY <3>3, <3>4, ConcatProperties, Zenon
      <4>. QED
        BY <3>3, <3>4, <4>1
    <3>6. s \o t # << >>
      BY <3>4, <3>5
    <3>7. ASSUME NEW i \in 1..(1 + Len(t)) PROVE (s \o t)[i] < 128 <=> i = 1 + Len(t)
      <4>1. CASE i = 1
        BY <3>3, <3>4, <3>5, <4>1
      <4>2. CASE i # 1
        <5>1. i - 1 \in 1..Len(t)
          BY <3>4, <4>2
        <5>. QED
          BY <3>4, <3>5, <4>2, <5>1
      <4>. QED
        BY <4>1, <4>2
    <3>8. Len(t) = varint_length[n \div 128]
      BY <3>1 DEF t
    <3>. QED
      BY <3>2, <3>5, <3>6, <3>7, <3>8 DEF IsVarint
  <2>. QED
    BY <2>1, <2>2
<1>2. T = Nat
  <2>1. T \subseteq Nat
    OBVIOUS
  <2>. HIDE DEF P
  <2>2. \A n \in Nat : (\A k \in Nat : k < n => k \in T) => n \in T
    BY <1>1
  <2>. HIDE DEF T
  <2>. QED
    BY <2>1, <2>2, AllNumbers
<1>. QED
  BY <1>2

LEMMA BytesAre ==
  ASSUME NEW bytes \in Seq(Byte), NEW i \in 1..Len(bytes)
  PROVE  bytes[i] \in Nat /\ bytes[i] % 128 \in 0..127 /\ bytes[i] % 8 \in 0..7
<1>1. bytes[i] \in 0..255
  BY ElementOfSeq DEF Byte
<1>2. \A x \in 0..255 : x \in Nat /\ x % 128 \in 0..127 /\ x % 8 \in 0..7
  OBVIOUS
<1>. QED
  BY <1>1, <1>2

LEMMA Modulo ==
  ASSUME NEW x \in Nat, NEW v \in Nat \ {0}
  PROVE  x % v \in Nat /\ x % v \in 0..(v - 1) /\ (x < v => x % v = x)
  OBVIOUS

(* The values of varint_decode after each of the bytes, from the last on.  *)
Decodes(f, bytes, values) ==
  /\ f \in [0..Len(bytes) -> Nat]
  /\ f[0] = 0
  /\ \A n \in 1..Len(bytes) :
       f[n] = (f[n - 1] * 128 + (bytes[Len(bytes) + 1 - n] % 128)) % values

LEMMA DecodeRule ==
  ASSUME NEW bytes \in Seq(Byte), NEW values \in Nat \ {0}
  PROVE  \E f : Decodes(f, bytes, values) /\ varint_decode(bytes, values) = f[Len(bytes)]
<1>. DEFINE D == 0..Len(bytes)
<1>. DEFINE b == [n \in D |-> 0]
<1>. DEFINE p == [n \in D |-> IF n = 0 THEN 0 ELSE n - 1]
<1>. DEFINE g == [x \in D \X Nat |-> IF x[1] = 0 THEN 0
                    ELSE (x[2] * 128 + (bytes[Len(bytes) + 1 - x[1]] % 128)) % values]
<1>1. Len(bytes) \in Nat /\ D \subseteq Nat /\ b \in [D -> Nat] /\ p \in [D -> D]
      /\ \A n \in D \ {0} : p[n] < n
  OBVIOUS
<1>2. g \in [D \X Nat -> Nat]
  <2>. SUFFICES ASSUME NEW n \in D, NEW m \in Nat, n # 0
                PROVE  (m * 128 + (bytes[Len(bytes) + 1 - n] % 128)) % values \in Nat
    OBVIOUS
  <2>1. Len(bytes) + 1 - n \in 1..Len(bytes)
    BY <1>1
  <2>. HIDE DEF D, g, b, p
  <2>2. bytes[Len(bytes) + 1 - n] % 128 \in Nat
    BY <2>1, BytesAre
  <2>3. m * 128 + (bytes[Len(bytes) + 1 - n] % 128) \in Nat
    BY <2>2
  <2>4. \A x \in Nat : x % values \in Nat
    BY Modulo
  <2>. QED
    BY <2>3, <2>4
<1>. HIDE DEF g, b, p
<1>3. PICK f \in [D -> Nat] : \A n \in D : Follows(f, n, {0}, b, p, g)
  <2>. HIDE DEF D
  <2>. QED
    BY <1>1, <1>2, Recursion
<1>4. \A n \in D : f[n] = IF n = 0 THEN 0
                          ELSE (f[n - 1] * 128 + (bytes[Len(bytes) + 1 - n] % 128)) % values
  <2>. TAKE n \in D
  <2>1. CASE n = 0
    BY <1>3, <2>1 DEF Follows, b
  <2>2. CASE n # 0
    <3>1. p[n] = n - 1 /\ n - 1 \in D
      BY <2>2 DEF p
    <3>2. f[n] = g[<< n, f[n - 1] >>] /\ f[n - 1] \in Nat
      BY <1>3, <2>2, <3>1 DEF Follows
    <3>. HIDE DEF D
    <3>. QED
      BY <2>2, <3>2 DEF g
  <2>. QED
    BY <2>1, <2>2
<1>5. f = [n \in D |-> IF n = 0 THEN 0
                       ELSE (f[n - 1] * 128 + (bytes[Len(bytes) + 1 - n] % 128)) % values]
  BY <1>4
<1>. DEFINE h == CHOOSE v : v = [n \in D |-> IF n = 0 THEN 0
                        ELSE (v[n - 1] * 128 + (bytes[Len(bytes) + 1 - n] % 128)) % values]
<1>6. /\ varint_decode(bytes, values) = h[Len(bytes)]
      /\ h = [n \in D |-> IF n = 0 THEN 0
                ELSE (h[n - 1] * 128 + (bytes[Len(bytes) + 1 - n] % 128)) % values]
  <2>1. varint_decode(bytes, values) = h[Len(bytes)]
    BY DEF varint_decode
  <2>. QED
    BY <1>5, <2>1, ZenonT(60)
<1>. HIDE DEF h
<1>7. h[0] = 0
  BY <1>1, <1>6
<1>8. \A n \in 1..Len(bytes) :
        h[n] = (h[n - 1] * 128 + (bytes[Len(bytes) + 1 - n] % 128)) % values
  <2>1. \A n \in 1..Len(bytes) : n \in D /\ n # 0
    BY <1>1
  <2>. HIDE DEF D
  <2>. QED
    BY <1>6, <2>1, Zenon
<1>. DEFINE T == { n \in Nat : n <= Len(bytes) => h[n] \in Nat }
<1>9. ASSUME NEW n \in Nat, \A k \in Nat : k < n => k \in T, n <= Len(bytes)
      PROVE  h[n] \in Nat
  <2>1. CASE n = 0
    BY <1>7, <2>1
  <2>2. CASE n # 0
    <3>1. n - 1 \in Nat /\ n - 1 < n /\ n - 1 <= Len(bytes) /\ n \in 1..Len(bytes)
          /\ Len(bytes) + 1 - n \in 1..Len(bytes)
      BY <1>1, <1>9, <2>2
    <3>2. h[n - 1] \in Nat
      BY <1>9, <3>1
    <3>. HIDE DEF T, D
    <3>3. bytes[Len(bytes) + 1 - n] % 128 \in Nat
      BY <3>1, BytesAre
    <3>4. h[n - 1] * 128 + (bytes[Len(bytes) + 1 - n] % 128) \in Nat
      BY <3>2, <3>3
    <3>5. \A x \in Nat : x % values \in Nat
      BY Modulo
    <3>. QED
      BY <1>8, <3>1, <3>4, <3>5, SMTT(30)
  <2>. QED
    BY <2>1, <2>2
<1>10. T = Nat
  <2>1. T \subseteq Nat
    OBVIOUS
  <2>2. \A n \in Nat : (\A k \in Nat : k < n => k \in T) => n \in T
    BY <1>9
  <2>. HIDE DEF T
  <2>. QED
    BY <2>1, <2>2, AllNumbers
<1>11. h \in [0..Len(bytes) -> Nat]
  <2>1. \A n \in D : h[n] \in Nat
    BY <1>1, <1>10
  <2>. HIDE DEF T
  <2>2. h = [n \in D |-> h[n]]
    BY <1>6
  <2>. QED
    BY <2>1, <2>2
<1>. QED
  BY <1>6, <1>7, <1>8, <1>11 DEF Decodes

(* One more byte in front. *)
LEMMA DecodeOneMore ==
  ASSUME NEW byte \in Byte, NEW bytes \in Seq(Byte), NEW values \in Nat \ {0}
  PROVE  /\ varint_decode(bytes, values) \in Nat
         /\ varint_decode(<< byte >> \o bytes, values) =
              (varint_decode(bytes, values) * 128 + (byte % 128)) % values
<1>. DEFINE more == << byte >> \o bytes
<1>. DEFINE l == Len(bytes)
<1>1. l \in Nat
  OBVIOUS
<1>2. more \in Seq(Byte) /\ Len(more) = l + 1 /\ more[1] = byte
      /\ \A i \in 1..l : more[i + 1] = bytes[i]
  <2>1. << byte >> \in Seq(Byte) /\ Len(<< byte >>) = 1 /\ << byte >>[1] = byte
    OBVIOUS
  <2>. DEFINE one == << byte >>
  <2>. HIDE DEF one
  <2>2. one \o bytes \in Seq(Byte) /\ Len(one \o bytes) = Len(one) + Len(bytes)
        /\ \A i \in 1..(Len(one) + Len(bytes)) : (one \o bytes)[i] =
             IF i <= Len(one) THEN one[i] ELSE bytes[i - Len(one)]
    BY <2>1, ConcatProperties DEF one
  <2>3. \A i \in 1..l : i + 1 \in 1..(1 + l) /\ ~ (i + 1 <= 1) /\ (i + 1) - 1 = i
    BY <1>1
  <2>. QED
    BY <1>1, <2>1, <2>2, <2>3 DEF one
<1>. HIDE DEF more
<1>3. PICK f : Decodes(f, bytes, values) /\ varint_decode(bytes, values) = f[l]
  BY DecodeRule
<1>4. PICK h : Decodes(h, more, values) /\ varint_decode(more, values) = h[l + 1]
  BY <1>2, DecodeRule
<1>. DEFINE T == { n \in Nat : n <= l => h[n] = f[n] }
<1>. HIDE DEF l
<1>5. /\ f \in [0..l -> Nat] /\ f[0] = 0
      /\ \A n \in 1..l : f[n] = (f[n - 1] * 128 + (bytes[l + 1 - n] % 128)) % values
  BY <1>3 DEF Decodes, l
<1>6. /\ h[0] = 0
      /\ \A n \in 1..(l + 1) : h[n] = (h[n - 1] * 128 + (more[(l + 1) + 1 - n] % 128)) % values
  BY <1>2, <1>4 DEF Decodes
<1>7. ASSUME NEW n \in Nat, \A k \in Nat : k < n => k \in T, n <= l PROVE h[n] = f[n]
  <2>1. CASE n = 0
    BY <1>5, <1>6, <2>1
  <2>2. CASE n # 0
    <3>1. n - 1 \in Nat /\ n - 1 < n /\ n - 1 <= l /\ n \in 1..l /\ n \in 1..(l + 1)
          /\ l + 1 - n \in 1..l /\ (l + 1) + 1 - n = (l + 1 - n) + 1
      BY <1>1, <1>7, <2>2
    <3>2. h[n - 1] = f[n - 1]
      BY <1>7, <3>1
    <3>3. more[(l + 1) + 1 - n] = bytes[l + 1 - n]
      BY <1>2, <3>1
    <3>. QED
      BY <1>5, <1>6, <3>1, <3>2, <3>3
  <2>. QED
    BY <2>1, <2>2
<1>8. T = Nat
  <2>1. T \subseteq Nat
    OBVIOUS
  <2>2. \A n \in Nat : (\A k \in Nat : k < n => k \in T) => n \in T
    BY <1>7
  <2>. HIDE DEF T
  <2>. QED
    BY <2>1, <2>2, AllNumbers
<1>9. h[l] = f[l] /\ f[l] \in Nat
  BY <1>1, <1>5, <1>8
<1>10. l + 1 \in 1..(l + 1) /\ (l + 1) - 1 = l /\ (l + 1) + 1 - (l + 1) = 1
  BY <1>1
<1>11. h[l + 1] = (h[l] * 128 + (more[1] % 128)) % values
  BY <1>6, <1>10
<1>. QED
  BY <1>2, <1>3, <1>4, <1>9, <1>11 DEF more

LEMMA DecodeNothing ==
  ASSUME NEW values \in Nat \ {0}
  PROVE  varint_decode(<< >>, values) = 0
<1>1. << >> \in Seq(Byte) /\ Len(<< >>) = 0
  OBVIOUS
<1>2. PICK f : Decodes(f, << >>, values) /\ varint_decode(<< >>, values) = f[0]
  BY <1>1, DecodeRule
<1>. QED
  BY <1>2 DEF Decodes

(* What varint_encode writes is read back, by a type that has the number.  *)
LEMMA DecodeEncoded ==
  ASSUME NEW values \in Nat \ {0}
  PROVE  \A n \in Nat : n < values => varint_decode(varint_encode[n], values) = n
<1>. DEFINE T == { n \in Nat : n < values => varint_decode(varint_encode[n], values) = n }
<1>1. ASSUME NEW n \in Nat, \A k \in Nat : k < n => k \in T, n < values
      PROVE  varint_decode(varint_encode[n], values) = n
  <2>1. CASE n < 128
    <3>1. n \in Byte /\ n % 128 = n /\ n % values = n
      BY <1>1, <2>1, Modulo DEF Byte
    <3>2. varint_encode[n] = << n >> \o << >>
      <4>1. << n >> \in Seq(Byte)
        BY <3>1
      <4>2. varint_encode[n] = << n >>
        BY <2>1, EncodeRule
      <4>. QED
        BY <4>1, <4>2, ConcatEmptySeq
    <3>3. varint_decode(<< n >> \o << >>, values) =
            (varint_decode(<< >>, values) * 128 + (n % 128)) % values
      <4>. DEFINE e == << >>
      <4>1. e \in Seq(Byte)
        OBVIOUS
      <4>. HIDE DEF e
      <4>2. varint_decode(<< n >> \o e, values) = (varint_decode(e, values) * 128 + (n % 128)) % values
        BY <3>1, <4>1, DecodeOneMore
      <4>. QED
        BY <4>2 DEF e
    <3>. QED
      BY <3>1, <3>2, <3>3, DecodeNothing
  <2>2. CASE n >= 128
    <3>. DEFINE m == n \div 128
    <3>. DEFINE byte == (n % 128) + 128
    <3>1. m \in Nat /\ m < n /\ m < values /\ byte \in Byte /\ m * 128 + (byte % 128) = n
      <4>1. m \in Nat /\ m < n /\ n % 128 \in 0..127 /\ m * 128 + (n % 128) = n
        BY <2>2, Divided
      <4>2. \A x \in 0..127 : x + 128 \in Byte /\ (x + 128) % 128 = x
        BY DEF Byte
      <4>3. byte \in Byte /\ byte % 128 = n % 128
        BY <4>1, <4>2
      <4>. HIDE DEF m, byte
      <4>. QED
        BY <1>1, <4>1, <4>3
    <3>2. varint_encode[n] = << byte >> \o varint_encode[m]
      <4>1. ~ (n < 128)
        BY <2>2
      <4>. HIDE DEF T
      <4>. QED
        BY <4>1, EncodeRule
    <3>. HIDE DEF m, byte
    <3>3. varint_decode(varint_encode[m], values) = m
      BY <1>1, <3>1
    <3>4. varint_encode[m] \in Seq(Byte)
      BY <3>1, EncodedVarint DEF IsVarint
    <3>5. varint_decode(varint_encode[n], values) = (m * 128 + (byte % 128)) % values
      BY <3>1, <3>2, <3>3, <3>4, DecodeOneMore
    <3>6. n % values = n
      BY <1>1, Modulo
    <3>. QED
      BY <3>1, <3>5, <3>6
  <2>. QED
    BY <2>1, <2>2
<1>2. T = Nat
  <2>1. T \subseteq Nat
    OBVIOUS
  <2>2. \A n \in Nat : (\A k \in Nat : k < n => k \in T) => n \in T
    BY <1>1
  <2>. HIDE DEF T
  <2>. QED
    BY <2>1, <2>2, AllNumbers
<1>. QED
  BY <1>2

(***************************************************************************)
(* Messages, part by part.                                                 *)
(***************************************************************************)
(* Part j starts at byte number at[j]; the version comes before the first. *)
Places(parts, at) ==
  /\ at \in [1..(Len(parts) + 1) -> Nat]
  /\ at[1] = 2
  /\ \A j \in 1..Len(parts) : at[j + 1] = at[j] + Len(parts[j])

(* The bytes of the parts are at these places, as far as limit. *)
Holds(bytes, parts, at, limit) ==
  \A j \in 1..Len(parts) : \A i \in 1..Len(parts[j]) :
    at[j] + i - 1 < limit => bytes[at[j] + i - 1] = parts[j][i]

LEMMA Flattened ==
  ASSUME NEW parts \in Seq(Seq(Byte)), parts # << >>
  PROVE  \E f \in [1..Len(parts) -> Seq(Byte)] :
           /\ FlattenSeq(parts) = f[Len(parts)]
           /\ f[1] = parts[1]
           /\ \A i \in 2..Len(parts) : f[i] = f[i - 1] \o parts[i]
<1>. DEFINE S == Seq(Byte)
<1>. DEFINE m == Len(parts)
<1>. DEFINE D == 1..m
<1>. DEFINE p == [i \in D |-> IF i = 1 THEN 1 ELSE i - 1]
<1>. DEFINE g == [x \in D \X S |-> x[2] \o parts[x[1]]]
<1>1. m \in Nat /\ m > 0
  BY EmptySeq
<1>2. parts \in [D -> S]
  BY LenProperties
<1>3. D \subseteq Nat /\ p \in [D -> D] /\ \A i \in D \ {1} : p[i] < i
  BY <1>1
<1>4. g \in [D \X S -> S]
  <2>. SUFFICES ASSUME NEW i \in D, NEW s \in S PROVE s \o parts[i] \in S
    OBVIOUS
  <2>1. parts[i] \in S
    BY <1>2
  <2>. QED
    BY <2>1, ConcatProperties
<1>. HIDE DEF g, p, S
<1>5. PICK f \in [D -> S] : \A i \in D : Follows(f, i, {1}, parts, p, g)
  <2>. HIDE DEF D
  <2>. QED
    BY <1>2, <1>3, <1>4, Recursion
<1>6. \A i \in D : f[i] = IF i = 1 THEN parts[i] ELSE f[i - 1] \o parts[i]
  <2>. TAKE i \in D
  <2>1. CASE i = 1
    BY <1>5, <2>1 DEF Follows
  <2>2. CASE i # 1
    <3>1. p[i] = i - 1 /\ i - 1 \in D
      BY <1>1, <2>2 DEF p
    <3>. HIDE DEF D
    <3>2. f[i] = g[<< i, f[i - 1] >>] /\ f[i - 1] \in S
      BY <1>5, <2>2, <3>1 DEF Follows
    <3>. QED
      BY <2>2, <3>2 DEF g
  <2>. QED
    BY <2>1, <2>2
<1>7. f = [i \in D |-> IF i = 1 THEN parts[i] ELSE f[i - 1] \o parts[i]]
  <2>. HIDE DEF D
  <2>. QED
    BY <1>5, <1>6, Zenon
<1>. DEFINE h == CHOOSE v : v = [i \in D |-> IF i = 1 THEN parts[i] ELSE v[i - 1] \o parts[i]]
<1>8. FlattenSeq(parts) = h[m]
  BY <1>1 DEF FlattenSeq
<1>9. h = [i \in D |-> IF i = 1 THEN parts[i] ELSE h[i - 1] \o parts[i]]
  BY <1>7, Zenon
<1>. HIDE DEF h
<1>10. \A i \in D : h[i] = IF i = 1 THEN parts[i] ELSE h[i - 1] \o parts[i]
  <2>. HIDE DEF D
  <2>. QED
    BY <1>9
<1>. DEFINE T == { i \in Nat : i \in D => h[i] \in S }
<1>11. ASSUME NEW i \in Nat, \A k \in Nat : k < i => k \in T, i \in D PROVE h[i] \in S
  <2>1. CASE i = 1
    BY <1>2, <1>10, <1>11, <2>1
  <2>2. CASE i # 1
    <3>1. i - 1 \in Nat /\ i - 1 < i /\ i - 1 \in D
      BY <1>1, <1>11, <2>2
    <3>2. h[i - 1] \in S /\ parts[i] \in S
      BY <1>2, <1>11, <3>1
    <3>3. h[i] = h[i - 1] \o parts[i]
      BY <1>10, <1>11, <2>2
    <3>. QED
      BY <3>2, <3>3, ConcatProperties DEF S
  <2>. QED
    BY <2>1, <2>2
<1>12. T = Nat
  <2>1. T \subseteq Nat
    OBVIOUS
  <2>2. \A n \in Nat : (\A k \in Nat : k < n => k \in T) => n \in T
    BY <1>11
  <2>. HIDE DEF T
  <2>. QED
    BY <2>1, <2>2, AllNumbers
<1>13. h \in [D -> S]
  <2>1. \A i \in D : h[i] \in S
    BY <1>3, <1>12
  <2>. HIDE DEF T, D
  <2>2. h = [i \in D |-> h[i]]
    BY <1>9
  <2>. QED
    BY <2>1, <2>2
<1>14. h[1] = parts[1] /\ \A i \in 2..m : h[i] = h[i - 1] \o parts[i]
  <2>1. 1 \in D /\ \A i \in 2..m : i \in D /\ i # 1
    BY <1>1
  <2>. HIDE DEF D
  <2>. QED
    BY <1>10, <2>1
<1>. QED
  BY <1>8, <1>13, <1>14 DEF S

LEMMA TrailerIs == \A k \in DOMAIN Fields : Trailer[k] \in Nat
<1>1. DOMAIN Fields = {"message", "pre_key", "group"}
  BY DEF Fields
<1>. QED
  BY <1>1, FormatConstants DEF Trailer

LEMMA Joined ==
  ASSUME NEW s \in Seq(Byte), NEW t \in Seq(Byte)
  PROVE  /\ s \o t \in Seq(Byte)
         /\ Len(s) \in Nat /\ Len(t) \in Nat /\ Len(s \o t) = Len(s) + Len(t)
         /\ \A x \in 1..Len(s) : (s \o t)[x] = s[x]
         /\ \A x \in 1..Len(t) : (s \o t)[Len(s) + x] = t[x]
<1>1. Len(s) \in Nat /\ Len(t) \in Nat
  OBVIOUS
<1>2. s \o t \in Seq(Byte) /\ Len(s \o t) = Len(s) + Len(t)
      /\ \A x \in 1..(Len(s) + Len(t)) : (s \o t)[x] = IF x <= Len(s) THEN s[x] ELSE t[x - Len(s)]
  BY ConcatProperties
<1>3. \A x \in 1..Len(s) : x \in 1..(Len(s) + Len(t)) /\ x <= Len(s)
  BY <1>1
<1>4. \A x \in 1..Len(t) :
        Len(s) + x \in 1..(Len(s) + Len(t)) /\ ~ (Len(s) + x <= Len(s)) /\ (Len(s) + x) - Len(s) = x
  BY <1>1
<1>. QED
  BY <1>1, <1>2, <1>3, <1>4

(* f[i] is what the first i of m parts are joined to. *)
Joins(f, parts, m) ==
  /\ \A i \in 1..m : parts[i] \in Seq(Byte) /\ f[i] \in Seq(Byte)
  /\ f[1] = parts[1]
  /\ \A i \in 2..m : f[i] = f[i - 1] \o parts[i]

LEMMA WithinSum ==
  ASSUME NEW a \in Nat, NEW b \in Nat, NEW c, c = a + b
  PROVE  /\ \A x \in 1..b : a + x \in 1..c
         /\ \A x \in 1..a : x \in 1..c
  OBVIOUS

(* Where m parts are: at[j] is the number that the first byte of part j    *)
(* has in a message that starts with the version.                          *)
Placed(at, parts, m, bytes) ==
  /\ at[1] = 2
  /\ \A j \in 1..m : at[j + 1] = at[j] + Len(parts[j])
  /\ at[m + 1] = 2 + Len(bytes)
  /\ \A j \in 1..m : \A x \in 1..Len(parts[j]) :
       at[j] - 2 + x \in 1..Len(bytes) /\ bytes[at[j] - 2 + x] = parts[j][x]

(* Where the parts are in what they are joined to.                         *)
LEMMA PartsJoined ==
  ASSUME NEW m \in Nat \ {0}, NEW parts, NEW f, Joins(f, parts, m)
  PROVE  \E at \in [1..(m + 1) -> Nat] : Placed(at, parts, m, f[m])
<1>1. \A i \in 1..m : Len(f[i]) \in Nat /\ Len(parts[i]) \in Nat
  BY LenProperties DEF Joins
<1>2. ASSUME NEW i \in 2..m
      PROVE  /\ i - 1 \in 1..m /\ i \in 1..m
             /\ Len(f[i]) = Len(f[i - 1]) + Len(parts[i])
             /\ \A x \in 1..Len(f[i - 1]) : f[i][x] = f[i - 1][x]
             /\ \A x \in 1..Len(parts[i]) : f[i][Len(f[i - 1]) + x] = parts[i][x]
  <2>1. i - 1 \in 1..m /\ i \in 1..m
    OBVIOUS
  <2>2. f[i] = f[i - 1] \o parts[i] /\ f[i - 1] \in Seq(Byte) /\ parts[i] \in Seq(Byte)
    BY <2>1 DEF Joins
  <2>. DEFINE before == f[i - 1]
  <2>. DEFINE part == parts[i]
  <2>3. f[i] = before \o part /\ before \in Seq(Byte) /\ part \in Seq(Byte)
    BY <2>2
  <2>. HIDE DEF before, part
  <2>4. /\ Len(f[i]) = Len(before) + Len(part)
        /\ \A x \in 1..Len(before) : f[i][x] = before[x]
        /\ \A x \in 1..Len(part) : f[i][Len(before) + x] = part[x]
    BY <2>3, Joined
  <2>. QED
    BY <2>1, <2>4 DEF before, part
<1>. DEFINE at == [j \in 1..(m + 1) |-> IF j = 1 THEN 2 ELSE 2 + Len(f[j - 1])]
<1>3. \A j \in 1..(m + 1) : j # 1 => j - 1 \in 1..m
  OBVIOUS
<1>4. at \in [1..(m + 1) -> Nat]
  <2>1. \A j \in 1..(m + 1) : j # 1 => 2 + Len(f[j - 1]) \in Nat
    BY <1>1, <1>3
  <2>. QED
    BY <2>1
<1>5. \A j \in 1..(m + 1) : at[j] = IF j = 1 THEN 2 ELSE 2 + Len(f[j - 1])
  OBVIOUS
<1>6. at[1] = 2
  OBVIOUS
<1>. HIDE DEF at
<1>7. ASSUME NEW j \in 1..m
      PROVE  at[j + 1] = 2 + Len(f[j]) /\ at[j + 1] = at[j] + Len(parts[j])
  <2>1. j + 1 \in 1..(m + 1) /\ j \in 1..(m + 1) /\ j + 1 # 1 /\ (j + 1) - 1 = j
    OBVIOUS
  <2>2. at[j + 1] = 2 + Len(f[j])
    BY <1>5, <2>1
  <2>3. CASE j = 1
    BY <1>6, <2>2, <2>3 DEF Joins
  <2>4. CASE j # 1
    <3>1. j \in 2..m
      BY <2>4
    <3>2. at[j] = 2 + Len(f[j - 1]) /\ Len(f[j]) = Len(f[j - 1]) + Len(parts[j])
      BY <1>2, <1>5, <2>1, <2>4, <3>1
    <3>3. Len(f[j - 1]) \in Nat /\ Len(parts[j]) \in Nat /\ Len(f[j]) \in Nat
      BY <1>1, <1>2, <3>1
    <3>. DEFINE a == at[j]
    <3>. DEFINE b == Len(f[j - 1])
    <3>. DEFINE c == Len(parts[j])
    <3>. DEFINE d == Len(f[j])
    <3>4. a = 2 + b /\ d = b + c /\ b \in Nat /\ c \in Nat
      BY <3>2, <3>3
    <3>. HIDE DEF a, b, c, d
    <3>5. a + c = 2 + d
      BY <3>4
    <3>. QED
      BY <2>2, <3>5 DEF a, c, d
  <2>. QED
    BY <2>3, <2>4
<1>. DEFINE P(i) == i \in 1..m => \A j \in 1..i : \A x \in 1..Len(parts[j]) :
              at[j] - 2 + x \in 1..Len(f[i]) /\ f[i][at[j] - 2 + x] = parts[j][x]
<1>. DEFINE T == { i \in Nat : P(i) }
<1>8. ASSUME NEW i \in Nat, \A n \in Nat : n < i => n \in T PROVE P(i)
  <2>. SUFFICES ASSUME i \in 1..m, NEW j \in 1..i, NEW x \in 1..Len(parts[j])
                PROVE  at[j] - 2 + x \in 1..Len(f[i]) /\ f[i][at[j] - 2 + x] = parts[j][x]
    OBVIOUS
  <2>1. CASE i = 1
    <3>1. j = 1 /\ at[j] - 2 + x = x /\ f[1] = parts[1]
      BY <1>6, <2>1 DEF Joins
    <3>. QED
      BY <2>1, <3>1
  <2>2. CASE i # 1 /\ j = i
    <3>1. i \in 2..m
      BY <2>2
    <3>2. at[i] = 2 + Len(f[i - 1]) /\ Len(f[i - 1]) \in Nat /\ Len(parts[i]) \in Nat
      BY <1>1, <1>2, <1>5, <2>2, <3>1
    <3>3. Len(f[i]) = Len(f[i - 1]) + Len(parts[i])
      BY <1>2, <3>1
    <3>4. at[i] - 2 + x = Len(f[i - 1]) + x /\ x \in 1..Len(parts[i])
      BY <2>2, <3>2
    <3>5. Len(f[i - 1]) + x \in 1..Len(f[i])
      BY <3>2, <3>3, <3>4, WithinSum
    <3>6. f[i][Len(f[i - 1]) + x] = parts[i][x]
      BY <1>2, <3>1, <3>4
    <3>. QED
      BY <2>2, <3>4, <3>5, <3>6
  <2>3. CASE i # 1 /\ j # i
    <3>1. i \in 2..m /\ i - 1 \in Nat /\ i - 1 < i /\ i - 1 \in 1..m /\ j \in 1..(i - 1)
      BY <2>3
    <3>2. P(i - 1)
      BY <1>8, <3>1
    <3>3. at[j] - 2 + x \in 1..Len(f[i - 1]) /\ f[i - 1][at[j] - 2 + x] = parts[j][x]
      BY <3>1, <3>2
    <3>4. Len(f[i]) = Len(f[i - 1]) + Len(parts[i]) /\ Len(f[i - 1]) \in Nat /\ Len(parts[i]) \in Nat
          /\ \A y \in 1..Len(f[i - 1]) : f[i][y] = f[i - 1][y]
      BY <1>1, <1>2, <3>1
    <3>5. at[j] - 2 + x \in 1..Len(f[i])
      <4>. DEFINE y == at[j] - 2 + x
      <4>. DEFINE a == Len(f[i - 1])
      <4>1. y \in 1..a /\ a \in Nat
        BY <3>3, <3>4
      <4>. HIDE DEF y
      <4>2. \A z \in 1..a : z \in 1..Len(f[i])
        BY <3>4, WithinSum
      <4>3. y \in 1..Len(f[i])
        BY <4>1, <4>2
      <4>. QED
        BY <4>3 DEF y
    <3>. QED
      BY <3>3, <3>4, <3>5
  <2>. QED
    BY <2>1, <2>2, <2>3
<1>9. T = Nat
  <2>1. T \subseteq Nat
    OBVIOUS
  <2>. HIDE DEF P
  <2>2. \A n \in Nat : (\A i \in Nat : i < n => i \in T) => n \in T
    BY <1>8
  <2>. HIDE DEF T
  <2>. QED
    BY <2>1, <2>2, AllNumbers
<1>10. P(m)
  BY <1>9
<1>11. m \in 1..m
  OBVIOUS
<1>12. at[m + 1] = 2 + Len(f[m])
  BY <1>7, <1>11
<1>13. Placed(at, parts, m, f[m])
  BY <1>6, <1>7, <1>10, <1>11, <1>12 DEF Placed
<1>. QED
  BY <1>4, <1>13

(* A message with these parts has its version first, the parts at their    *)
(* places, and as many bytes after the last one as the trailer has.        *)
LEMMA MessageIs ==
  ASSUME NEW k \in DOMAIN Fields, NEW parts \in Seq(Seq(Byte)), parts # << >>
  PROVE  /\ Message(k, parts) \in Seq(Byte)
         /\ Message(k, parts)[1] = PROTOCOL_VERSION
         /\ \E at : /\ Places(parts, at)
                    /\ Len(Message(k, parts)) = at[Len(parts) + 1] - 1 + Trailer[k]
                    /\ \A limit \in Int : Holds(Message(k, parts), parts, at, limit)
<1>. DEFINE m == Len(parts)
<1>1. m \in Nat \ {0}
  BY EmptySeq
<1>2. \A j \in 1..m : parts[j] \in Seq(Byte) /\ Len(parts[j]) \in Nat
  BY LenProperties, ElementOfSeq
<1>3. PICK f \in [1..m -> Seq(Byte)] :
        /\ FlattenSeq(parts) = f[m] /\ f[1] = parts[1]
        /\ \A i \in 2..m : f[i] = f[i - 1] \o parts[i]
  BY Flattened
<1>. DEFINE flat == f[m]
<1>4. PICK at \in [1..(m + 1) -> Nat] : Placed(at, parts, m, f[m])
  <2>1. Joins(f, parts, m)
    BY <1>2, <1>3 DEF Joins
  <2>. HIDE DEF m
  <2>. QED
    BY <1>1, <2>1, PartsJoined
<1>5. Places(parts, at)
  BY <1>4 DEF Places, Placed
<1>. DEFINE head == << PROTOCOL_VERSION >>
<1>. DEFINE tail == [i \in 1..Trailer[k] |-> 0]
<1>. DEFINE front == head \o flat
<1>6. flat \in Seq(Byte)
  <2>1. m \in 1..m
    BY <1>1
  <2>. HIDE DEF m
  <2>. QED
    BY <1>3, <2>1
<1>7. head \in Seq(Byte) /\ Len(head) = 1 /\ head[1] = PROTOCOL_VERSION
  BY DEF PROTOCOL_VERSION, Byte
<1>8. tail \in Seq(Byte) /\ Len(tail) = Trailer[k] /\ Trailer[k] \in Nat
  BY TrailerIs, SMTT(30) DEF Byte
<1>9. Message(k, parts) = front \o tail
  BY <1>3 DEF Message
<1>. HIDE DEF m, flat, head, tail
<1>10. front \in Seq(Byte) /\ Len(front) = 1 + Len(flat) /\ Len(flat) \in Nat
       /\ front[1] = PROTOCOL_VERSION /\ \A x \in 1..Len(flat) : front[1 + x] = flat[x]
  <2>1. /\ front \in Seq(Byte)
        /\ Len(head) \in Nat /\ Len(flat) \in Nat /\ Len(front) = Len(head) + Len(flat)
        /\ \A x \in 1..Len(head) : front[x] = head[x]
        /\ \A x \in 1..Len(flat) : front[Len(head) + x] = flat[x]
    BY <1>6, <1>7, Joined
  <2>. HIDE DEF front
  <2>. QED
    BY <1>7, <2>1
<1>. HIDE DEF front
<1>11. /\ front \o tail \in Seq(Byte) /\ Len(front \o tail) = Len(front) + Trailer[k]
       /\ \A x \in 1..Len(front) : (front \o tail)[x] = front[x]
  <2>1. /\ front \o tail \in Seq(Byte)
        /\ Len(front) \in Nat /\ Len(tail) \in Nat /\ Len(front \o tail) = Len(front) + Len(tail)
        /\ \A x \in 1..Len(front) : (front \o tail)[x] = front[x]
        /\ \A x \in 1..Len(tail) : (front \o tail)[Len(front) + x] = tail[x]
    BY <1>8, <1>10, Joined
  <2>. QED
    BY <1>8, <2>1
<1>12. 1 \in 1..Len(front)
  BY <1>10
<1>13. Message(k, parts) \in Seq(Byte) /\ Message(k, parts)[1] = PROTOCOL_VERSION
  BY <1>9, <1>10, <1>11, <1>12
<1>14. Len(Message(k, parts)) = at[m + 1] - 1 + Trailer[k]
  <2>1. at[m + 1] = 2 + Len(flat)
    BY <1>4 DEF flat, Placed
  <2>2. Len(Message(k, parts)) = (1 + Len(flat)) + Trailer[k]
    BY <1>9, <1>10, <1>11
  <2>3. Len(flat) \in Nat /\ Trailer[k] \in Nat
    BY <1>8, <1>10
  <2>. HIDE DEF m
  <2>. QED
    BY <2>1, <2>2, <2>3
<1>15. ASSUME NEW j \in 1..m, NEW i \in 1..Len(parts[j])
       PROVE  Message(k, parts)[at[j] + i - 1] = parts[j][i]
  <2>1. at[j] - 2 + i \in 1..Len(flat) /\ flat[at[j] - 2 + i] = parts[j][i]
    BY <1>4 DEF flat, Placed
  <2>2. at[j] \in Nat /\ i \in Nat
    BY <1>1, <1>2, <1>4
  <2>. HIDE DEF m
  <2>3. at[j] + i - 1 = 1 + (at[j] - 2 + i)
    BY <2>2
  <2>4. front[at[j] + i - 1] = parts[j][i] /\ at[j] + i - 1 \in 1..Len(front)
    BY <1>10, <2>1, <2>3, SMTT(30)
  <2>. QED
    BY <1>9, <1>11, <2>4
<1>16. \A limit \in Int : Holds(Message(k, parts), parts, at, limit)
  BY <1>15 DEF Holds, m
<1>. QED
  BY <1>5, <1>13, <1>14, <1>16 DEF m

(***************************************************************************)
(* Reading, whatever the bytes are.                                        *)
(***************************************************************************)
LEMMA FieldsAre ==
  ASSUME NEW k \in DOMAIN Fields
  PROVE  /\ Len(Fields[k]) \in 2..4 /\ DOMAIN Fields[k] = 1..Len(Fields[k])
         /\ \A i \in DOMAIN Fields[k] :
              /\ Fields[k][i].tag \in 1..127
              /\ Fields[k][i].type \in {"varint", "string"}
              /\ Fields[k][i].type = "varint" => Fields[k][i].tag % 8 = 0
              /\ Fields[k][i].type = "string" => Fields[k][i].tag % 8 = 2
         /\ \A i, j \in DOMAIN Fields[k] :
              i # j => Fields[k][i].tag # Fields[k][j].tag /\ Fields[k][i].name # Fields[k][j].name
         /\ Fields[k][Len(Fields[k])].type = "string"
<1>1. k \in {"message", "pre_key", "group"}
  BY DEF Fields
<1>2. CASE k = "message"
  <2>1. Fields[k] = << String("ratchet_key", 10), Varint("counter", 16), String("ciphertext", 34) >>
    BY <1>2 DEF Fields
  <2>. QED
    BY <2>1 DEF String, Varint
<1>3. CASE k = "pre_key"
  <2>1. Fields[k] = << String("one_time_key", 10), String("base_key", 18),
                       String("identity_key", 26), String("message", 34) >>
    BY <1>3 DEF Fields
  <2>. QED
    BY <2>1 DEF String, Varint
<1>4. CASE k = "group"
  <2>1. Fields[k] = << Varint("message_index", 8), String("ciphertext", 18) >>
    BY <1>4 DEF Fields
  <2>. QED
    BY <2>1 DEF String, Varint
<1>. QED
  BY <1>1, <1>2, <1>3, <1>4

LEMMA LastIsField ==
  ASSUME NEW k \in DOMAIN Fields
  PROVE  Len(Fields[k]) \in DOMAIN Fields[k]
<1>. DEFINE m == Len(Fields[k])
            D == DOMAIN Fields[k]
<1>1. m \in 2..4 /\ D = 1..m
  BY FieldsAre
<1>. HIDE DEF m, D
<1>2. m \in D
  BY <1>1
<1>. QED
  BY <1>2 DEF m, D

LEMMA DecodeType ==
  ASSUME NEW bytes \in Seq(Byte), NEW values \in Nat \ {0}
  PROVE  varint_decode(bytes, values) \in Nat
<1>1. PICK f : Decodes(f, bytes, values) /\ varint_decode(bytes, values) = f[Len(bytes)]
  BY DecodeRule
<1>2. Len(bytes) \in 0..Len(bytes)
  OBVIOUS
<1>. QED
  BY <1>1, <1>2 DEF Decodes

(* The decoders are given bytes of one of the kinds.                       *)
Given == kind \in DOMAIN Fields /\ input \in Seq(Byte)

LEMMA EndIs ==
  ASSUME Given
  PROVE  end \in Int /\ end <= Len(input) + 1 /\ Len(input) \in Nat
BY TrailerIs DEF Given, end

(* A varint ends before the trailer, and takes a byte if there is one.     *)
LEMMA SkipWithin ==
  ASSUME Given, NEW p \in Nat \ {0}, p <= end
  PROVE  /\ varint_skip(p) \in p..end
         /\ p < end => varint_skip(p) > p
         /\ \A values \in Nat \ {0} : ValueAt(p, values) \in Nat
<1>. DEFINE last == { i \in p..(end - 1) : input[i] < 128 }
<1>1. end \in Int /\ end <= Len(input) + 1 /\ Len(input) \in Nat
  BY EndIs
<1>2. varint_skip(p) = IF last = {} THEN end ELSE Min(last) + 1
  BY DEF varint_skip
<1>3. varint_skip(p) \in p..end /\ (p < end => varint_skip(p) > p)
  <2>1. CASE last = {}
    BY <1>1, <1>2, <2>1
  <2>2. CASE last # {}
    <3>1. last \subseteq Nat /\ \A i \in last : i \in p..(end - 1)
      BY <1>1
    <3>. HIDE DEF last
    <3>2. \E x \in last : \A y \in last : ~ (y < x)
      BY <2>2, <3>1, LeastNumber
    <3>3. \E x \in last : \A y \in last : x <= y
      BY <3>1, <3>2
    <3>4. Min(last) \in last
      BY <3>3 DEF Min
    <3>. DEFINE low == Min(last)
    <3>5. low \in p..(end - 1) /\ varint_skip(p) = low + 1
      BY <1>2, <2>2, <3>1, <3>4
    <3>. HIDE DEF low
    <3>. QED
      BY <1>1, <3>5
  <2>. QED
    BY <2>1, <2>2
<1>4. SubSeq(input, p, varint_skip(p) - 1) \in Seq(Byte)
  <2>. DEFINE n == varint_skip(p) - 1
  <2>1. n \in (p - 1)..Len(input) /\ n \in Int
    BY <1>1, <1>3
  <2>2. \A i \in p..n : input[i] \in Byte
    <3>1. \A i \in p..n : i \in 1..Len(input)
      BY <1>1, <2>1
    <3>. QED
      BY <3>1, ElementOfSeq DEF Given
  <2>. HIDE DEF n
  <2>3. SubSeq(input, p, n) \in Seq(Byte)
    BY <2>1, <2>2, SubSeqProperties DEF Given
  <2>. QED
    BY <2>3 DEF n
<1>. QED
  BY <1>3, <1>4, DecodeType DEF ValueAt

LEMMA SkipUnknownWithin ==
  ASSUME Given, NEW p \in Nat \ {0}, p <= end
  PROVE  skip_unknown(p) \in p..end /\ (p < end => skip_unknown(p) > p)
<1>. DEFINE second == varint_skip(p)
<1>. DEFINE third == varint_skip(second)
<1>. DEFINE length == ValueAt(second, SIZE_T)
<1>1. end \in Int /\ SIZE_T \in Nat \ {0}
  BY EndIs, FormatConstants
<1>2. second \in p..end /\ (p < end => second > p) /\ second \in Nat \ {0} /\ second <= end
  BY <1>1, SkipWithin
<1>. HIDE DEF second
<1>3. third \in second..end /\ length \in Nat
  BY <1>1, <1>2, SkipWithin
<1>. HIDE DEF third, length
<1>4. skip_unknown(p) \in {third, end} \/ (length <= end - third /\ skip_unknown(p) = third + length)
  BY DEF skip_unknown, second, third, length, Fits
<1>. QED
  BY <1>1, <1>2, <1>3, <1>4

(***************************************************************************)
(* The parts that fields are written as.                                   *)
(***************************************************************************)
(* The number after the tag: the value, or how long it is.                 *)
Number(f, value) == IF f.type = "varint" THEN value ELSE Len(value)

Values(f) == IF f.type = "varint" THEN UINT32 ELSE SIZE_T

(* What follows the number. *)
Rest(f, value) == IF f.type = "varint" THEN << >> ELSE value

PartOf(part, f, value) ==
  LET e    == varint_encode[Number(f, value)]
      rest == Rest(f, value)
  IN  /\ Number(f, value) \in Nat /\ Number(f, value) < Values(f)
      /\ e \in Seq(Byte) /\ IsVarint(e) /\ rest \in Seq(Byte)
      /\ part \in Seq(Byte) /\ Len(part) = 1 + Len(e) + Len(rest)
      /\ part[1] = f.tag
      /\ \A x \in 1..Len(e) : part[1 + x] = e[x]
      /\ \A x \in 1..Len(rest) : part[1 + Len(e) + x] = rest[x]

LEMMA Encodes ==
  ASSUME NEW f, f.tag \in 1..127, NEW value, CanBeWritten(f, value)
  PROVE  PartOf(encode(f, value), f, value)
<1>. DEFINE e == varint_encode[Number(f, value)]
<1>. DEFINE rest == Rest(f, value)
<1>. DEFINE head == << f.tag >>
<1>. DEFINE front == head \o e
<1>. DEFINE n == Number(f, value)
<1>1. n \in Nat /\ n < Values(f) /\ rest \in Seq(Byte)
  <2>1. UINT32 \in Nat /\ SIZE_T \in Nat
    BY FormatConstants
  <2>2. CASE f.type = "varint"
    BY <2>1, <2>2 DEF CanBeWritten, Number, Values, Rest
  <2>3. CASE f.type # "varint"
    BY <2>1, <2>3 DEF CanBeWritten, Number, Values, Rest
  <2>. QED
    BY <2>2, <2>3
<1>2. IsVarint(e) /\ e \in Seq(Byte)
  BY <1>1, EncodedVarint DEF IsVarint
<1>3. head \in Seq(Byte) /\ Len(head) = 1 /\ head[1] = f.tag
  BY DEF Byte
<1>4. encode(f, value) = front \o rest
  <2>1. CASE f.type = "varint"
    <3>1. encode(f, value) = front /\ rest = << >>
      BY <2>1 DEF encode, Number, Rest
    <3>2. front \in Seq(Byte)
      <4>. HIDE DEF head, e
      <4>. QED
        BY <1>2, <1>3, ConcatProperties
    <3>. HIDE DEF front, rest
    <3>. QED
      BY <3>1, <3>2, ConcatEmptySeq
  <2>2. CASE f.type # "varint"
    BY <2>2 DEF encode, Number, Rest
  <2>. QED
    BY <2>1, <2>2
<1>. HIDE DEF n, e, rest, head
<1>5. /\ front \in Seq(Byte) /\ Len(e) \in Nat /\ Len(front) = Len(head) + Len(e)
      /\ \A x \in 1..Len(head) : front[x] = head[x]
      /\ \A x \in 1..Len(e) : front[Len(head) + x] = e[x]
  BY <1>2, <1>3, Joined
<1>. HIDE DEF front
<1>6. /\ front \o rest \in Seq(Byte) /\ Len(rest) \in Nat /\ Len(front \o rest) = Len(front) + Len(rest)
      /\ \A x \in 1..Len(front) : (front \o rest)[x] = front[x]
      /\ \A x \in 1..Len(rest) : (front \o rest)[Len(front) + x] = rest[x]
  BY <1>1, <1>5, Joined
<1>. DEFINE part == encode(f, value)
<1>7. part \in Seq(Byte) /\ Len(part) = 1 + Len(e) + Len(rest)
      /\ \A x \in 1..Len(rest) : part[1 + Len(e) + x] = rest[x]
  BY <1>3, <1>4, <1>5, <1>6
<1>8. part[1] = f.tag
  <2>1. 1 \in 1..Len(front) /\ 1 \in 1..Len(head)
    BY <1>3, <1>5
  <2>. QED
    BY <1>3, <1>4, <1>5, <1>6, <2>1
<1>9. \A x \in 1..Len(e) : part[1 + x] = e[x]
  <2>1. \A x \in 1..Len(e) : 1 + x \in 1..Len(front)
    BY <1>3, <1>5
  <2>2. \A x \in 1..Len(e) : front[1 + x] = e[x]
    BY <1>3, <1>5
  <2>. QED
    BY <1>4, <1>6, <2>1, <2>2
<1>. HIDE DEF part
<1>10. PartOf(part, f, value)
  BY <1>1, <1>2, <1>7, <1>8, <1>9 DEF PartOf, n, e, rest
<1>. QED
  BY <1>10 DEF part

LEMMA PartsAre ==
  ASSUME NEW k \in DOMAIN Fields, NEW c \in Contents[k]
  PROVE  /\ Parts(k, c) \in Seq(Seq(Byte)) /\ Len(Parts(k, c)) = Len(Fields[k])
         /\ \A i \in 1..Len(Fields[k]) : PartOf(Parts(k, c)[i], Fields[k][i], c[Fields[k][i].name])
<1>. DEFINE m == Len(Fields[k])
<1>. DEFINE p == Parts(k, c)
<1>1. m \in 2..4 /\ DOMAIN Fields[k] = 1..m /\ \A i \in 1..m : Fields[k][i].tag \in 1..127
  BY FieldsAre
<1>2. \A i \in 1..m : CanBeWritten(Fields[k][i], c[Fields[k][i].name])
  BY <1>1, FormatConstants
<1>. HIDE DEF m
<1>3. p = [i \in 1..m |-> encode(Fields[k][i], c[Fields[k][i].name])]
  BY <1>1 DEF Parts
<1>4. \A i \in 1..m : PartOf(p[i], Fields[k][i], c[Fields[k][i].name])
  <2>. SUFFICES ASSUME NEW i \in 1..m
                PROVE  PartOf(encode(Fields[k][i], c[Fields[k][i].name]), Fields[k][i], c[Fields[k][i].name])
    BY <1>3
  <2>. QED
    BY <1>1, <1>2, Encodes
<1>5. \A i \in 1..m : p[i] \in Seq(Byte)
  BY <1>4 DEF PartOf
<1>6. p \in Seq(Seq(Byte)) /\ Len(p) = m
  <2>1. p \in [1..m -> Seq(Byte)]
    BY <1>3, <1>5
  <2>. HIDE DEF p
  <2>. QED
    BY <1>1, <2>1
<1>. QED
  BY <1>4, <1>6 DEF m

(***************************************************************************)
(* A message whose parts q are those of content c of kind k in some order, *)
(* with unknown fields between: part x is the one of field which[x], or an *)
(* unknown one when which[x] is 0.                                         *)
(***************************************************************************)
Arranged(k, c, q, which) ==
  /\ q \in Seq(Seq(Byte)) /\ q # << >>
  /\ which \in [1..Len(q) -> 0..Len(Fields[k])]
  /\ \A x \in 1..Len(q) : IF which[x] = 0 THEN IsUnknown(q[x]) ELSE q[x] = Parts(k, c)[which[x]]
  /\ \A i \in 1..Len(Fields[k]) : \E x \in 1..Len(q) : which[x] = i
  /\ \A x, y \in 1..Len(q) : which[x] = which[y] /\ which[x] # 0 => x = y

LEMMA PermutedArranged ==
  ASSUME NEW k \in DOMAIN Fields, NEW c \in Contents[k],
         NEW f \in Bijection(DOMAIN Parts(k, c), DOMAIN Parts(k, c))
  PROVE  Arranged(k, c, [i \in DOMAIN Parts(k, c) |-> Parts(k, c)[f[i]]], f)
<1>. DEFINE p == Parts(k, c)
<1>. DEFINE m == Len(Fields[k])
<1>1. m \in 2..4
  BY FieldsAre
<1>2. p \in Seq(Seq(Byte)) /\ Len(p) = m
  BY PartsAre
<1>. DEFINE q == [i \in 1..m |-> p[f[i]]]
<1>. HIDE DEF p, m
<1>3. DOMAIN p = 1..m /\ \A i \in 1..m : p[i] \in Seq(Byte)
  BY <1>2
<1>4. /\ f \in [1..m -> 1..m]
      /\ \A x, y \in 1..m : f[x] = f[y] => x = y
      /\ \A i \in 1..m : \E x \in 1..m : f[x] = i
  <2>1. f \in Bijection(1..m, 1..m)
    BY <1>3 DEF p
  <2>. QED
    BY <2>1 DEF Bijection, Injection, Surjection, IsInjective
<1>5. q \in Seq(Seq(Byte)) /\ Len(q) = m /\ q # << >> /\ \A x \in 1..m : q[x] = p[f[x]]
  <2>1. q \in [1..m -> Seq(Byte)] /\ \A x \in 1..m : q[x] = p[f[x]]
    BY <1>3, <1>4
  <2>. HIDE DEF q
  <2>2. q \in Seq(Seq(Byte)) /\ Len(q) = m
    BY <1>1, <2>1
  <2>. QED
    BY <1>1, <2>1, <2>2
<1>6. [i \in DOMAIN p |-> p[f[i]]] = q
  BY <1>3
<1>. HIDE DEF q
<1>7. Arranged(k, c, q, f)
  <2>1. f \in [1..m -> 0..m] /\ \A x \in 1..m : f[x] # 0
    <3>1. 1..m \subseteq 0..m /\ \A i \in 1..m : i # 0
      BY <1>1
    <3>. QED
      BY <1>4, <3>1
  <2>. QED
    BY <1>4, <1>5, <2>1 DEF Arranged, p, m
<1>. QED
  BY <1>6, <1>7 DEF p

LEMMA InsertedIs ==
  ASSUME NEW S, NEW s \in Seq(S), NEW i \in 1..(Len(s) + 1), NEW u \in S
  PROVE  /\ InsertAt(s, i, u) \in Seq(S) /\ Len(InsertAt(s, i, u)) = Len(s) + 1
         /\ \A x \in 1..(Len(s) + 1) :
              InsertAt(s, i, u)[x] = IF x < i THEN s[x] ELSE IF x = i THEN u ELSE s[x - 1]
<1>. DEFINE n == Len(s)
<1>. DEFINE a == SubSeq(s, 1, i - 1)
<1>. DEFINE b == SubSeq(s, i, n)
<1>1. n \in Nat /\ i \in Nat /\ 1 <= i /\ i <= n + 1
  BY LenProperties
<1>2. \A x \in 1..n : s[x] \in S
  BY ElementOfSeq
<1>3. a \in Seq(S) /\ Len(a) = i - 1 /\ \A x \in 1..(i - 1) : a[x] = s[x]
  <2>1. \A x \in 1..(i - 1) : s[x] \in S
    BY <1>1, <1>2
  <2>2. /\ SubSeq(s, 1, i - 1) \in Seq(S)
        /\ Len(SubSeq(s, 1, i - 1)) = IF 1 <= i - 1 THEN (i - 1) - 1 + 1 ELSE 0
        /\ \A x \in 1..((i - 1) - 1 + 1) : SubSeq(s, 1, i - 1)[x] = s[1 + x - 1]
    BY <1>1, <2>1, SubSeqProperties
  <2>3. (i - 1) - 1 + 1 = i - 1 /\ \A x \in 1..(i - 1) : 1 + x - 1 = x
    BY <1>1
  <2>. HIDE DEF n
  <2>. QED
    BY <1>1, <2>2, <2>3
<1>4. b \in Seq(S) /\ Len(b) = n + 1 - i /\ \A x \in 1..(n + 1 - i) : b[x] = s[i + x - 1]
  <2>1. \A x \in i..n : s[x] \in S
    BY <1>1, <1>2
  <2>. HIDE DEF n
  <2>2. /\ SubSeq(s, i, n) \in Seq(S)
        /\ Len(SubSeq(s, i, n)) = IF i <= n THEN n - i + 1 ELSE 0
        /\ \A x \in 1..(n - i + 1) : SubSeq(s, i, n)[x] = s[i + x - 1]
    BY <1>1, <2>1, SubSeqProperties
  <2>3. n - i + 1 = n + 1 - i
    BY <1>1
  <2>. QED
    BY <1>1, <2>2, <2>3
<1>. DEFINE one == << u >>
<1>5. one \in Seq(S) /\ Len(one) = 1 /\ one[1] = u
  OBVIOUS
<1>6. InsertAt(s, i, u) = (a \o one) \o b
  BY DEF InsertAt
<1>. HIDE DEF n, a, b, one
<1>. DEFINE front == a \o one
<1>7. /\ front \in Seq(S) /\ Len(front) = i
      /\ \A x \in 1..i : front[x] = IF x < i THEN s[x] ELSE u
  <2>1. front \in Seq(S) /\ Len(front) = Len(a) + Len(one)
        /\ \A x \in 1..(Len(a) + Len(one)) : front[x] = IF x <= Len(a) THEN a[x] ELSE one[x - Len(a)]
    BY <1>3, <1>5, ConcatProperties
  <2>. HIDE DEF front
  <2>2. \A x \in 1..i : front[x] = IF x <= i - 1 THEN a[x] ELSE one[x - (i - 1)]
    BY <1>1, <1>3, <1>5, <2>1
  <2>3. \A x \in 1..i : IF x < i THEN x <= i - 1 /\ x \in 1..(i - 1) ELSE ~ (x <= i - 1) /\ x - (i - 1) = 1
    BY <1>1
  <2>4. Len(front) = i
    BY <1>1, <1>3, <1>5, <2>1
  <2>. QED
    BY <1>3, <1>5, <2>1, <2>2, <2>3, <2>4
<1>. HIDE DEF front
<1>8. /\ front \o b \in Seq(S) /\ Len(front \o b) = n + 1
      /\ \A x \in 1..(n + 1) : (front \o b)[x] = IF x <= i THEN front[x] ELSE b[x - i]
  <2>1. front \o b \in Seq(S) /\ Len(front \o b) = Len(front) + Len(b)
        /\ \A x \in 1..(Len(front) + Len(b)) :
             (front \o b)[x] = IF x <= Len(front) THEN front[x] ELSE b[x - Len(front)]
    BY <1>4, <1>7, ConcatProperties
  <2>2. Len(front) + Len(b) = n + 1
    BY <1>1, <1>4, <1>7
  <2>. QED
    BY <1>7, <2>1, <2>2
<1>9. ASSUME NEW x \in 1..(n + 1)
      PROVE  (front \o b)[x] = IF x < i THEN s[x] ELSE IF x = i THEN u ELSE s[x - 1]
  <2>1. CASE x <= i
    <3>1. x \in 1..i
      BY <1>1, <2>1
    <3>. QED
      BY <1>1, <1>7, <1>8, <2>1, <3>1
  <2>2. CASE ~ (x <= i)
    <3>1. x - i \in 1..(n + 1 - i) /\ i + (x - i) - 1 = x - 1 /\ ~ (x < i) /\ x # i
      BY <1>1, <2>2
    <3>. QED
      BY <1>4, <1>8, <2>2, <3>1
  <2>. QED
    BY <2>1, <2>2
<1>. QED
  BY <1>6, <1>8, <1>9 DEF front, n

LEMMA InsertedArranged ==
  ASSUME NEW k \in DOMAIN Fields, NEW c \in Contents[k],
         NEW i \in 1..(Len(Parts(k, c)) + 1), NEW u \in Unknown
  PROVE  \E which : Arranged(k, c, InsertAt(Parts(k, c), i, u), which)
<1>. DEFINE p == Parts(k, c)
<1>. DEFINE m == Len(Fields[k])
<1>. DEFINE q == InsertAt(p, i, u)
<1>1. m \in 2..4
  BY FieldsAre
<1>2. p \in Seq(Seq(Byte)) /\ Len(p) = m
  BY PartsAre
<1>3. u \in Seq(Byte) /\ IsUnknown(u)
  BY FormatConstants DEF IsUnknown
<1>4. i \in 1..(m + 1)
  BY <1>2
<1>. DEFINE which == [x \in 1..(m + 1) |-> IF x < i THEN x ELSE IF x = i THEN 0 ELSE x - 1]
<1>. HIDE DEF p, m
<1>5. q \in Seq(Seq(Byte)) /\ Len(q) = m + 1
      /\ \A x \in 1..(m + 1) : q[x] = IF x < i THEN p[x] ELSE IF x = i THEN u ELSE p[x - 1]
  <2>. DEFINE S == Seq(Byte)
  <2>1. p \in Seq(S) /\ u \in S /\ i \in 1..(Len(p) + 1)
    BY <1>2, <1>3, <1>4
  <2>. HIDE DEF S
  <2>2. q \in Seq(S) /\ Len(q) = Len(p) + 1
        /\ \A x \in 1..(Len(p) + 1) : q[x] = IF x < i THEN p[x] ELSE IF x = i THEN u ELSE p[x - 1]
    BY <2>1, InsertedIs
  <2>. HIDE DEF q
  <2>. QED
    BY <1>2, <2>2 DEF S
<1>. HIDE DEF q
<1>6. q # << >>
  BY <1>1, <1>5
<1>7. which \in [1..(m + 1) -> 0..m]
  BY <1>1, <1>4
<1>8. \A x \in 1..(m + 1) : which[x] = IF x < i THEN x ELSE IF x = i THEN 0 ELSE x - 1
  OBVIOUS
<1>. HIDE DEF which
<1>9. ASSUME NEW x \in 1..(m + 1)
      PROVE  IF which[x] = 0 THEN IsUnknown(q[x]) ELSE q[x] = p[which[x]]
  <2>1. which[x] = 0 <=> x = i
    BY <1>1, <1>4, <1>8
  <2>. QED
    BY <1>3, <1>5, <1>8, <2>1, SMTT(30)
<1>10. ASSUME NEW j \in 1..m PROVE \E x \in 1..(m + 1) : which[x] = j
  <2>1. CASE j < i
    <3>1. j \in 1..(m + 1)
      BY <1>1
    <3>. QED
      BY <1>8, <2>1, <3>1
  <2>2. CASE ~ (j < i)
    <3>1. j + 1 \in 1..(m + 1) /\ ~ (j + 1 < i) /\ j + 1 # i /\ (j + 1) - 1 = j
      BY <1>1, <1>4, <2>2
    <3>. QED
      BY <1>8, <3>1
  <2>. QED
    BY <2>1, <2>2
<1>11. \A x, y \in 1..(m + 1) : which[x] = which[y] /\ which[x] # 0 => x = y
  BY <1>1, <1>4, <1>8
<1>12. Arranged(k, c, q, which)
  BY <1>5, <1>6, <1>7, <1>9, <1>10, <1>11 DEF Arranged, p, m
<1>. QED
  BY <1>12 DEF q, p

LEMMA RearrangedIs ==
  ASSUME NEW k \in DOMAIN Fields, NEW c \in Contents[k], NEW bytes \in Rearranged(k, c)
  PROVE  \E q, which : Arranged(k, c, q, which) /\ bytes = Message(k, q)
<1>. DEFINE p == Parts(k, c)
<1>1. \/ \E f \in Bijection(DOMAIN p, DOMAIN p) : bytes = Message(k, [i \in DOMAIN p |-> p[f[i]]])
      \/ \E i \in 1..(Len(p) + 1), u \in Unknown : bytes = Message(k, InsertAt(p, i, u))
  BY DEF Rearranged
<1>2. CASE \E f \in Bijection(DOMAIN p, DOMAIN p) : bytes = Message(k, [i \in DOMAIN p |-> p[f[i]]])
  <2>1. PICK f \in Bijection(DOMAIN p, DOMAIN p) : bytes = Message(k, [i \in DOMAIN p |-> p[f[i]]])
    BY <1>2
  <2>2. Arranged(k, c, [i \in DOMAIN p |-> p[f[i]]], f)
    BY PermutedArranged
  <2>. QED
    BY <2>1, <2>2
<1>3. CASE \E i \in 1..(Len(p) + 1), u \in Unknown : bytes = Message(k, InsertAt(p, i, u))
  <2>1. PICK i \in 1..(Len(p) + 1), u \in Unknown : bytes = Message(k, InsertAt(p, i, u))
    BY <1>3
  <2>2. PICK which : Arranged(k, c, InsertAt(p, i, u), which)
    BY InsertedArranged
  <2>. QED
    BY <2>1, <2>2
<1>. QED
  BY <1>1, <1>2, <1>3

(* As many bytes are written as encode_length promises.                    *)
LEMMA LengthIs ==
  ASSUME NEW k \in DOMAIN Fields, NEW c \in Contents[k]
  PROVE  Len(Encoded(k, c)) = encode_length(k, c)
<1>. DEFINE m == Len(Fields[k])
<1>. DEFINE p == Parts(k, c)
<1>. DEFINE part(i) == 1 + (IF Fields[k][i].type = "varint" THEN varint_length[c[Fields[k][i].name]]
                            ELSE varstring_length(Len(c[Fields[k][i].name])))
<1>1. m \in 2..4 /\ m \in Nat
  BY FieldsAre
<1>2. /\ p \in Seq(Seq(Byte)) /\ Len(p) = m
      /\ \A i \in 1..m : PartOf(p[i], Fields[k][i], c[Fields[k][i].name])
  BY PartsAre
<1>3. ASSUME NEW i \in 1..m PROVE part(i) = Len(p[i]) /\ Len(p[i]) \in Nat
  <2>. DEFINE f == Fields[k][i]
  <2>. DEFINE value == c[f.name]
  <2>. DEFINE n == Number(f, value)
  <2>. DEFINE e == varint_encode[n]
  <2>. DEFINE rest == Rest(f, value)
  <2>1. n \in Nat /\ e \in Seq(Byte) /\ rest \in Seq(Byte) /\ p[i] \in Seq(Byte)
        /\ Len(p[i]) = 1 + Len(e) + Len(rest)
    BY <1>2 DEF PartOf
  <2>2. Len(e) = varint_length[n] /\ Len(e) \in Nat /\ Len(rest) \in Nat
    BY <2>1, EncodedVarint
  <2>3. part(i) = 1 + varint_length[n] + Len(rest)
    <3>1. CASE f.type = "varint"
      <4>1. n = value /\ rest = << >>
        BY <3>1 DEF Number, Rest
      <4>2. part(i) = 1 + varint_length[n] /\ Len(rest) = 0
        BY <3>1, <4>1
      <4>. HIDE DEF n, e, rest, part
      <4>. QED
        BY <2>2, <4>2
    <3>2. CASE f.type # "varint"
      <4>1. n = Len(value) /\ rest = value
        BY <3>2 DEF Number, Rest
      <4>2. part(i) = 1 + (varint_length[n] + Len(rest))
        BY <3>2, <4>1 DEF varstring_length
      <4>. HIDE DEF n, e, rest, part
      <4>. QED
        BY <2>2, <4>2
    <3>. QED
      BY <3>1, <3>2
  <2>. HIDE DEF f, n, e, rest, part
  <2>. QED
    BY <2>1, <2>2, <2>3
<1>. DEFINE h == CHOOSE v : v = [i \in 0..m |-> IF i = 0 THEN 1 ELSE v[i - 1] + part(i)]
<1>4. encode_length(k, c) = h[m] + Trailer[k]
  BY DEF encode_length
<1>. HIDE DEF m, p, part
<1>5. PICK at : Places(p, at) /\ Len(Message(k, p)) = at[m + 1] - 1 + Trailer[k]
  <2>1. p # << >>
    BY <1>1, <1>2
  <2>. QED
    BY <1>2, <2>1, MessageIs
<1>6. at \in [1..(m + 1) -> Nat] /\ at[1] = 2 /\ \A i \in 1..m : at[i + 1] = at[i] + Len(p[i])
  BY <1>2, <1>5 DEF Places
<1>. DEFINE w == [i \in 0..m |-> at[i + 1] - 1]
<1>7. \A i \in 0..m : w[i] = at[i + 1] - 1
  OBVIOUS
<1>8. \A i \in 0..m : w[i] = IF i = 0 THEN 1 ELSE w[i - 1] + part(i)
  <2>. TAKE i \in 0..m
  <2>1. CASE i = 0
    BY <1>1, <1>6, <1>7, <2>1
  <2>2. CASE i # 0
    <3>1. i \in 1..m /\ i - 1 \in 0..m /\ (i - 1) + 1 = i /\ i \in 1..(m + 1)
      BY <1>1, <2>2
    <3>2. w[i - 1] = at[i] - 1 /\ w[i] = at[i + 1] - 1
      <4>1. w[i - 1] = at[(i - 1) + 1] - 1 /\ w[i] = at[i + 1] - 1
        BY <1>7, <3>1
      <4>. HIDE DEF w
      <4>. QED
        BY <3>1, <4>1
    <3>3. at[i + 1] = at[i] + part(i) /\ at[i] \in Nat /\ part(i) \in Nat
      BY <1>3, <1>6, <3>1
    <3>. HIDE DEF w
    <3>4. w[i] = w[i - 1] + part(i)
      BY <3>2, <3>3
    <3>. QED
      BY <2>2, <3>4
  <2>. QED
    BY <2>1, <2>2
<1>9. w = [i \in 0..m |-> IF i = 0 THEN 1 ELSE w[i - 1] + part(i)]
  <2>1. w = [i \in 0..m |-> w[i]]
    OBVIOUS
  <2>. HIDE DEF w
  <2>. QED
    BY <1>8, <2>1
<1>10. h = [i \in 0..m |-> IF i = 0 THEN 1 ELSE h[i - 1] + part(i)]
  BY <1>9
<1>. HIDE DEF h, w
<1>11. \A i \in 0..m : h[i] = IF i = 0 THEN 1 ELSE h[i - 1] + part(i)
  BY <1>10
<1>. DEFINE T == { i \in Nat : i \in 0..m => h[i] = w[i] }
<1>12. ASSUME NEW i \in Nat, \A j \in Nat : j < i => j \in T, i \in 0..m PROVE h[i] = w[i]
  <2>1. CASE i = 0
    BY <1>8, <1>11, <1>12, <2>1
  <2>2. CASE i # 0
    <3>1. i - 1 \in Nat /\ i - 1 < i /\ i - 1 \in 0..m
      BY <1>1, <1>12, <2>2
    <3>2. h[i - 1] = w[i - 1]
      BY <1>12, <3>1
    <3>. HIDE DEF T
    <3>. QED
      BY <1>8, <1>11, <1>12, <2>2, <3>2
  <2>. QED
    BY <2>1, <2>2
<1>13. T = Nat
  <2>1. T \subseteq Nat
    OBVIOUS
  <2>2. \A i \in Nat : (\A j \in Nat : j < i => j \in T) => i \in T
    BY <1>12
  <2>. HIDE DEF T
  <2>. QED
    BY <2>1, <2>2, AllNumbers
<1>14. h[m] = at[m + 1] - 1
  <2>1. m \in 0..m
    BY <1>1
  <2>. QED
    BY <1>1, <1>7, <1>13, <2>1
<1>. QED
  BY <1>4, <1>5, <1>14 DEF Encoded, p

LEMMA EncodedIs ==
  ASSUME NEW k \in DOMAIN Fields, NEW c \in Contents[k]
  PROVE  Encoded(k, c) \in Seq(Byte) /\ encode_length(k, c) = Len(Encoded(k, c))
<1>1. Parts(k, c) \in Seq(Seq(Byte)) /\ Len(Parts(k, c)) = Len(Fields[k]) /\ Len(Fields[k]) \in 2..4
  BY PartsAre, FieldsAre
<1>2. Parts(k, c) # << >>
  BY <1>1
<1>3. Message(k, Parts(k, c)) \in Seq(Byte)
  BY <1>1, <1>2, MessageIs
<1>. QED
  BY <1>3, LengthIs DEF Encoded

LEMMA InitGiven == Init => Given
<1>. SUFFICES ASSUME Init PROVE input \in Seq(Byte)
  BY DEF Init, Given
<1>1. kind \in DOMAIN Fields
  BY DEF Init
<1>2. CASE content \in Contents[kind] /\ input \in Rearranged(kind, content)
  <2>1. PICK q, which : Arranged(kind, content, q, which) /\ input = Message(kind, q)
    BY <1>1, <1>2, RearrangedIs
  <2>2. q \in Seq(Seq(Byte)) /\ q # << >>
    BY <2>1 DEF Arranged
  <2>. QED
    BY <1>1, <2>1, <2>2, MessageIs
<1>3. CASE /\ content \in Contents[kind]
           /\ \E n \in 0..(encode_length(kind, content) - 1) : input = SubSeq(Encoded(kind, content), 1, n)
  <2>. DEFINE bytes == Encoded(kind, content)
  <2>1. bytes \in Seq(Byte) /\ encode_length(kind, content) = Len(bytes)
    BY <1>1, <1>3, EncodedIs
  <2>2. PICK n \in 0..(encode_length(kind, content) - 1) : input = SubSeq(bytes, 1, n)
    BY <1>3
  <2>. HIDE DEF bytes
  <2>3. n \in Int /\ \A i \in 1..n : bytes[i] \in Byte
    <3>1. \A i \in 1..n : i \in 1..Len(bytes)
      BY <2>1, <2>2
    <3>. QED
      BY <2>1, <3>1, ElementOfSeq
  <2>4. SubSeq(bytes, 1, n) \in Seq(Byte)
    BY <2>3, SubSeqProperties
  <2>. QED
    BY <2>2, <2>4
<1>4. CASE input \in Strange
  BY <1>4, FormatConstants
<1>. QED
  BY <1>2, <1>3, <1>4 DEF Init

(***************************************************************************)
(* The place a decoder is at, and the strings it has found.                *)
(***************************************************************************)
FieldNames == { Fields[kind][i].name : i \in DOMAIN Fields[kind] }

IsInside(string) ==
  \/ string = Absent
  \/ string \in [at : Nat, length : Nat] /\ string.at > 1 /\ string.at + string.length <= end

ReadingInv ==
  /\ Given
  /\ field \in 1..(Len(Fields[kind]) + 1)
  /\ IF pos = 1 THEN field = 1 ELSE pos \in 2..end
  /\ DOMAIN reader = FieldNames
  /\ \A i \in DOMAIN Fields[kind] :
       Fields[kind][i].type = "string" => IsInside(reader[Fields[kind][i].name])

LEMMA ReadingInit == Init => ReadingInv
<1>. SUFFICES ASSUME Init PROVE ReadingInv
  OBVIOUS
<1>1. Given /\ field = 1 /\ pos = 1 /\ reader = [f \in FieldNames |-> Absent]
  BY InitGiven DEF Init, Nothing, FieldNames
<1>2. field \in 1..(Len(Fields[kind]) + 1)
  BY <1>1, FieldsAre DEF Given
<1>3. \A i \in DOMAIN Fields[kind] : reader[Fields[kind][i].name] = Absent
  BY <1>1 DEF FieldNames
<1>. QED
  BY <1>1, <1>2, <1>3 DEF ReadingInv, IsInside

(* What decode does when it is called for a field.                         *)
LEMMA DecodedInside ==
  ASSUME ReadingInv, InRound, NEW value, NEW p \in 2..end, Decoded(This.name, value, p),
         This.type = "string" => IsInside(value)
  PROVE  ReadingInv'
<1>. DEFINE m == Len(Fields[kind])
<1>1. m \in 2..4 /\ DOMAIN Fields[kind] = 1..m
      /\ \A i, j \in 1..m : i # j => Fields[kind][i].name # Fields[kind][j].name
  BY FieldsAre DEF ReadingInv, Given
<1>2. field \in 1..m /\ field' = field + 1 /\ field + 1 \in 1..(m + 1)
  BY <1>1 DEF ReadingInv, InRound, Decoded
<1>3. UNCHANGED << kind, input >> /\ pos' = p /\ end' = end
  BY DEF Decoded, end
<1>4. Given' /\ FieldNames' = FieldNames /\ p # 1
  BY <1>3 DEF ReadingInv, Given, FieldNames
<1>5. reader' = [reader EXCEPT ![Fields[kind][field].name] = value]
  BY DEF Decoded, This
<1>6. DOMAIN reader' = FieldNames
  BY <1>5 DEF ReadingInv
<1>7. ASSUME NEW i \in 1..m, Fields[kind][i].type = "string"
      PROVE  IsInside(reader'[Fields[kind][i].name])
  <2>1. Fields[kind][i].name \in DOMAIN reader
    BY <1>1 DEF ReadingInv, FieldNames
  <2>2. CASE i = field
    BY <1>5, <1>7, <2>1, <2>2 DEF This
  <2>3. CASE i # field
    <3>1. reader'[Fields[kind][i].name] = reader[Fields[kind][i].name]
      BY <1>1, <1>2, <1>5, <2>1, <2>3
    <3>. QED
      BY <1>1, <1>7, <3>1 DEF ReadingInv
  <2>. QED
    BY <2>2, <2>3
<1>8. ASSUME NEW i \in DOMAIN Fields'[kind'], Fields'[kind'][i].type = "string"
      PROVE  IsInside(reader[Fields[kind][i].name])'
  <2>1. Fields' = Fields
    BY DEF Fields, String, Varint
  <2>. QED
    BY <1>1, <1>3, <1>7, <1>8, <2>1 DEF IsInside, Absent
<1>. QED
  BY <1>1, <1>2, <1>3, <1>4, <1>6, <1>8 DEF ReadingInv

LEMMA ReadingNext == ReadingInv /\ [Next]_vars => ReadingInv'
<1>. SUFFICES ASSUME ReadingInv, [Next]_vars PROVE ReadingInv'
  OBVIOUS
<1>. DEFINE m == Len(Fields[kind])
<1>1. m \in 2..4 /\ DOMAIN Fields[kind] = 1..m
  BY FieldsAre DEF ReadingInv, Given
<1>2. Given /\ end \in Int /\ end <= Len(input) + 1 /\ Trailer[kind] \in Nat /\ Len(input) \in Nat
  BY EndIs, TrailerIs DEF ReadingInv, Given
<1>3. InRound => pos \in 2..end /\ pos \in Nat \ {0}
  BY <1>2 DEF ReadingInv, InRound
<1>4. InRound /\ HasTag => /\ varint_skip(pos + 1) \in 2..end
                           /\ \A values \in Nat \ {0} : ValueAt(pos + 1, values) \in Nat
  <2>. SUFFICES ASSUME InRound, HasTag
                PROVE  /\ varint_skip(pos + 1) \in 2..end
                       /\ \A values \in Nat \ {0} : ValueAt(pos + 1, values) \in Nat
    OBVIOUS
  <2>1. pos + 1 \in Nat \ {0} /\ pos + 1 <= end /\ pos + 1 \in 2..end
    BY <1>2, <1>3 DEF HasTag
  <2>2. varint_skip(pos + 1) \in (pos + 1)..end
        /\ \A values \in Nat \ {0} : ValueAt(pos + 1, values) \in Nat
    BY <1>2, <2>1, SkipWithin
  <2>. QED
    BY <1>2, <2>1, <2>2
<1>5. CASE UNCHANGED vars
  BY <1>5 DEF ReadingInv, vars, Given, FieldNames, IsInside, end
<1>6. CASE TooShort
  <2>1. UNCHANGED << kind, input, field, pos >> /\ end' = end /\ pos = 1
    BY <1>6 DEF TooShort, end
  <2>2. DOMAIN reader' = FieldNames
        /\ \A i \in 1..m : Fields[kind][i].type = "string" => reader'[Fields[kind][i].name] = Absent
    <3>0. Nothing = [f \in FieldNames |-> Absent]
      BY DEF Nothing, FieldNames
    <3>1. CASE kind # "group"
      <4>1. reader' = Nothing
        BY <1>6, <3>1 DEF TooShort
      <4>. QED
        BY <1>1, <3>0, <4>1 DEF FieldNames
    <3>2. CASE kind = "group"
      <4>1. PICK has : reader' = [Nothing EXCEPT !.message_index = has]
        BY <1>6, <3>2 DEF TooShort
      <4>2. \A i \in 1..m : Fields[kind][i].type = "string" => Fields[kind][i].name = "ciphertext"
        BY <3>2 DEF Fields, String, Varint
      <4>3. \A i \in 1..m : Fields[kind][i].name \in FieldNames
        BY <1>1 DEF FieldNames
      <4>. QED
        BY <3>0, <4>1, <4>2, <4>3
    <3>. QED
      BY <3>1, <3>2
  <2>. QED
    BY <1>1, <2>1, <2>2 DEF ReadingInv, Given, FieldNames, IsInside
<1>7. CASE ReadVersion
  <2>1. UNCHANGED << kind, input, field, reader >> /\ end' = end /\ pos' = 2
    BY <1>7 DEF ReadVersion, end
  <2>2. 2 \in 2..end
    BY <1>2, <1>7 DEF ReadVersion, end
  <2>. QED
    BY <2>1, <2>2 DEF ReadingInv, Given, FieldNames, IsInside
<1>8. CASE NotHere
  <2>1. InRound /\ Decoded(This.name, reader[This.name], pos)
    BY <1>8 DEF NotHere
  <2>2. This.type = "string" => IsInside(reader[This.name])
    BY <1>1, <2>1 DEF ReadingInv, InRound, This
  <2>. QED
    BY <1>3, <2>1, <2>2, DecodedInside
<1>9. CASE ReadVarint
  <2>1. InRound /\ HasTag /\ This.type = "varint"
        /\ Decoded(This.name, [value |-> ValueAt(pos + 1, UINT32)], varint_skip(pos + 1))
    BY <1>9 DEF ReadVarint
  <2>2. This.type # "string"
    BY <2>1
  <2>. QED
    BY <1>4, <2>1, <2>2, DecodedInside
<1>10. CASE ReadString
  <2>. DEFINE length == ValueAt(pos + 1, SIZE_T)
  <2>. DEFINE at == varint_skip(pos + 1)
  <2>. DEFINE string == [at |-> at, length |-> length]
  <2>1. InRound /\ HasTag /\ Fits(length, at) /\ Decoded(This.name, string, at + length)
    BY <1>10 DEF ReadString
  <2>2. at \in 2..end /\ length \in Nat
    BY <1>4, <2>1, FormatConstants
  <2>. HIDE DEF at, length
  <2>3. at + length \in 2..end /\ at \in Nat /\ at > 1 /\ at + length <= end
    BY <1>2, <2>1, <2>2 DEF Fits
  <2>4. IsInside(string)
    BY <2>2, <2>3 DEF IsInside
  <2>. HIDE DEF string
  <2>. QED
    BY <2>1, <2>3, <2>4, DecodedInside
<1>11. CASE StringTooLong
  <2>1. InRound /\ Decoded(This.name, reader[This.name], end)
    BY <1>11 DEF StringTooLong
  <2>2. This.type = "string" => IsInside(reader[This.name])
    BY <1>1, <2>1 DEF ReadingInv, InRound, This
  <2>3. end \in 2..end
    BY <1>2, <1>3, <2>1
  <2>. QED
    BY <2>1, <2>2, <2>3, DecodedInside
<1>12. CASE EndOfRound
  <2>1. UNCHANGED << kind, input, reader >> /\ end' = end /\ field' = 1
    BY <1>12 DEF EndOfRound, end
  <2>2. pos \in 2..end /\ pos \in Nat \ {0}
    <3>1. field > m
      BY <1>12 DEF EndOfRound
    <3>2. field # 1
      BY <1>1, <3>1, SMTT(30)
    <3>. QED
      BY <1>2, <3>2 DEF ReadingInv
  <2>3. pos' \in 2..end
    <3>1. skip_unknown(pos) \in pos..end
      BY <1>2, <2>2, SkipUnknownWithin
    <3>2. pos' \in {pos, skip_unknown(pos)}
      BY <1>12 DEF EndOfRound
    <3>. QED
      BY <1>2, <2>2, <3>1, <3>2
  <2>4. pos' # 1 /\ field' \in 1..(m + 1)
    BY <1>1, <2>1, <2>3
  <2>. QED
    BY <2>1, <2>3, <2>4 DEF ReadingInv, Given, FieldNames, IsInside
<1>. QED
  BY <1>5, <1>6, <1>7, <1>8, <1>9, <1>10, <1>11, <1>12 DEF Next

(* For all bytes, of any length, and whatever widths the types have: a     *)
(* decoder stays before the trailer, and so do the strings it returns.     *)
THEOREM StringsLieInsideHolds == Spec => []StringsLieInside
<1>1. ReadingInv => StringsLieInside
  <2>. SUFFICES ASSUME ReadingInv, NEW i \in DOMAIN Fields[kind],
                       Fields[kind][i].type = "string", Has(Fields[kind][i].name)
                PROVE  /\ reader[Fields[kind][i].name].at > 1
                       /\ reader[Fields[kind][i].name].at + reader[Fields[kind][i].name].length <= end
    BY DEF ReadingInv, StringsLieInside
  <2>. QED
    BY DEF ReadingInv, IsInside, Has
<1>. QED
  BY <1>1, ReadingInit, ReadingNext, PTL DEF Spec

(***************************************************************************)
(* Reading what was written.                                               *)
(***************************************************************************)
(* The bytes from p on are those of s, as far as the trailer.              *)
Here(s, p) == \A x \in 1..Len(s) : p + x - 1 < end => input[p + x - 1] = s[x]

LEMMA SkipAt ==
  ASSUME Given, NEW v, IsVarint(v), NEW p \in Nat \ {0}, p + Len(v) <= end, Here(v, p)
  PROVE  /\ varint_skip(p) = p + Len(v)
         /\ \A values \in Nat \ {0} : ValueAt(p, values) = varint_decode(v, values)
<1>. DEFINE n == Len(v)
<1>1. n \in Nat /\ n > 0 /\ v \in Seq(Byte) /\ \A x \in 1..n : v[x] < 128 <=> x = n
  BY EmptySeq, LenProperties DEF IsVarint
<1>2. end \in Int /\ end <= Len(input) + 1 /\ Len(input) \in Nat
  BY EndIs
<1>3. \A x \in 1..n : input[p + x - 1] = v[x]
  BY <1>1, <1>2 DEF Here
<1>. HIDE DEF n
<1>. DEFINE last == { i \in p..(end - 1) : input[i] < 128 }
<1>4. \A i \in p..(p + n - 1) : input[i] = v[i - p + 1] /\ i - p + 1 \in 1..n
  <2>1. \A i \in p..(p + n - 1) : i - p + 1 \in 1..n /\ p + (i - p + 1) - 1 = i
    BY <1>1
  <2>. QED
    BY <1>3, <2>1
<1>5. p + n - 1 \in last
  <2>1. p + n - 1 \in p..(p + n - 1) /\ p + n - 1 \in p..(end - 1) /\ (p + n - 1) - p + 1 = n
    BY <1>1, <1>2 DEF n
  <2>2. n \in 1..n
    BY <1>1
  <2>. QED
    BY <1>1, <1>4, <2>1, <2>2
<1>6. \A i \in last : p + n - 1 <= i
  <2>. SUFFICES ASSUME NEW i \in p..(end - 1), input[i] < 128, i < p + n - 1 PROVE FALSE
    BY <1>1, <1>2
  <2>1. i \in p..(p + n - 1) /\ i - p + 1 # n
    BY <1>1, <1>2
  <2>. QED
    BY <1>1, <1>4, <2>1
<1>7. Min(last) = p + n - 1
  <2>. DEFINE low == p + n - 1
  <2>1. low \in last /\ low \in Int /\ \A i \in last : low <= i /\ i \in Int
    BY <1>1, <1>2, <1>5, <1>6
  <2>. HIDE DEF low, last
  <2>2. Min(last) = low
    <3>. DEFINE min == Min(last)
    <3>1. min \in last /\ \A y \in last : min <= y
      BY <2>1 DEF Min
    <3>. HIDE DEF min
    <3>2. min = low
      BY <2>1, <3>1
    <3>. QED
      BY <3>2 DEF min
  <2>. QED
    BY <2>2 DEF low
<1>8. varint_skip(p) = p + n
  <2>1. varint_skip(p) = Min(last) + 1
    BY <1>5 DEF varint_skip
  <2>. HIDE DEF last
  <2>. QED
    BY <1>1, <1>7, <2>1
<1>9. SubSeq(input, p, p + n - 1) = v
  <2>1. \A i \in p..(p + n - 1) : input[i] \in Byte
    BY <1>1, <1>4, ElementOfSeq DEF n
  <2>2. p + n - 1 \in Int /\ p <= p + n - 1 /\ (p + n - 1) - p + 1 = n
    BY <1>1
  <2>. DEFINE to == p + n - 1
  <2>3. to \in Int /\ p \in Int /\ \A i \in p..to : input[i] \in Byte
    BY <2>1, <2>2
  <2>. HIDE DEF to
  <2>4. /\ SubSeq(input, p, to) \in Seq(Byte)
        /\ Len(SubSeq(input, p, to)) = IF p <= to THEN to - p + 1 ELSE 0
        /\ \A x \in 1..(to - p + 1) : SubSeq(input, p, to)[x] = input[p + x - 1]
    BY <2>3, SubSeqProperties
  <2>. DEFINE s == SubSeq(input, p, to)
  <2>5. s \in Seq(Byte) /\ Len(s) = n /\ \A x \in 1..n : s[x] = v[x]
    BY <1>3, <2>2, <2>4 DEF to
  <2>. HIDE DEF s
  <2>6. s = v
    BY <1>1, <2>5, SeqEqual DEF n
  <2>. QED
    BY <2>6 DEF s, to
<1>10. \A values \in Nat \ {0} : ValueAt(p, values) = varint_decode(v, values)
  <2>1. varint_skip(p) - 1 = p + n - 1
    BY <1>1, <1>8
  <2>. QED
    BY <1>9, <2>1 DEF ValueAt
<1>. QED
  BY <1>8, <1>10 DEF n

LEMMA SkipCut ==
  ASSUME Given, NEW v, IsVarint(v), NEW p \in Nat \ {0}, p <= end, end < p + Len(v), Here(v, p)
  PROVE  varint_skip(p) = end
<1>. DEFINE n == Len(v)
<1>1. n \in Nat /\ n > 0 /\ v \in Seq(Byte) /\ \A x \in 1..n : v[x] < 128 <=> x = n
  BY EmptySeq, LenProperties DEF IsVarint
<1>2. end \in Int
  BY EndIs
<1>3. ASSUME NEW i \in p..(end - 1) PROVE ~ (input[i] < 128)
  <2>1. i - p + 1 \in 1..n /\ i - p + 1 # n /\ p + (i - p + 1) - 1 = i /\ i < end
    BY <1>1, <1>2
  <2>. HIDE DEF n
  <2>2. input[i] = v[i - p + 1]
    BY <2>1 DEF Here, n
  <2>. QED
    BY <1>1, <2>1, <2>2
<1>4. { i \in p..(end - 1) : input[i] < 128 } = {}
  BY <1>3
<1>. QED
  BY <1>4 DEF varint_skip

(* A part of a field that lies before the trailer: the number after the    *)
(* tag is read back, and the string is where it is looked for.             *)
LEMMA ReadWhole ==
  ASSUME Given, NEW part, NEW f, NEW value, PartOf(part, f, value), f.tag \in 1..127,
         NEW p \in Nat \ {0}, p + Len(part) <= end, Here(part, p)
  PROVE  LET at == varint_skip(p + 1) IN
         /\ p < end /\ at \in Nat /\ p < at /\ p < p + Len(part)
         /\ ValueAt(p + 1, Values(f)) = Number(f, value)
         /\ p + Len(part) = at + Len(Rest(f, value)) /\ Len(Rest(f, value)) \in Nat
         /\ SubSeq(input, at, at + Len(Rest(f, value)) - 1) = Rest(f, value)
<1>. DEFINE e == varint_encode[Number(f, value)]
<1>. DEFINE rest == Rest(f, value)
<1>. DEFINE n == Len(part)
<1>1. /\ Number(f, value) \in Nat /\ Number(f, value) < Values(f)
      /\ e \in Seq(Byte) /\ IsVarint(e) /\ rest \in Seq(Byte)
      /\ part \in Seq(Byte) /\ n = 1 + Len(e) + Len(rest)
      /\ \A x \in 1..Len(e) : part[1 + x] = e[x]
      /\ \A x \in 1..Len(rest) : part[1 + Len(e) + x] = rest[x]
  BY DEF PartOf
<1>2. Len(e) \in Nat /\ Len(rest) \in Nat /\ n \in Nat /\ Len(e) > 0
  BY <1>1, EmptySeq, LenProperties DEF IsVarint
<1>3. end \in Int /\ end <= Len(input) + 1 /\ Len(input) \in Nat
  BY EndIs
<1>. DEFINE a == Len(e)
<1>. DEFINE b == Len(rest)
<1>4. a \in Nat /\ b \in Nat /\ a > 0 /\ n = 1 + a + b /\ p + n <= end
  BY <1>1, <1>2
<1>. HIDE DEF e, rest, n, a, b
<1>5. \A x \in 1..n : input[p + x - 1] = part[x]
  <2>1. \A x \in 1..n : p + x - 1 < end
    BY <1>3, <1>4
  <2>. QED
    BY <2>1 DEF Here, n
<1>6. Here(e, p + 1)
  <2>. SUFFICES ASSUME NEW x \in 1..a PROVE input[(p + 1) + x - 1] = e[x]
    BY DEF Here, a
  <2>1. 1 + x \in 1..n /\ (p + 1) + x - 1 = p + (1 + x) - 1
    BY <1>4
  <2>2. input[p + (1 + x) - 1] = part[1 + x] /\ part[1 + x] = e[x]
    BY <1>1, <1>5, <2>1 DEF a
  <2>. QED
    BY <2>1, <2>2
<1>7. varint_skip(p + 1) = p + 1 + a /\ ValueAt(p + 1, Values(f)) = Number(f, value)
  <2>1. p + 1 \in Nat \ {0} /\ (p + 1) + Len(e) <= end
    BY <1>3, <1>4 DEF a
  <2>2. Values(f) \in Nat \ {0}
    BY FormatConstants DEF Values
  <2>3. varint_decode(e, Values(f)) = Number(f, value)
    BY <1>1, <2>2, DecodeEncoded DEF e
  <2>4. varint_skip(p + 1) = (p + 1) + Len(e) /\ ValueAt(p + 1, Values(f)) = varint_decode(e, Values(f))
    BY <1>1, <1>6, <2>1, <2>2, SkipAt
  <2>. QED
    BY <1>4, <2>3, <2>4 DEF a
<1>. DEFINE at == p + 1 + a
<1>8. at \in Nat \ {0} /\ p < end /\ p < at /\ p < p + n /\ p + n = at + b
  BY <1>3, <1>4
<1>9. SubSeq(input, at, at + b - 1) = rest
  <2>. DEFINE to == at + b - 1
  <2>1. to \in Int /\ at \in Int /\ to - at + 1 = b /\ (at <= to <=> b # 0)
        /\ \A x \in at..to : x \in 1..Len(input)
    BY <1>3, <1>4, <1>8
  <2>2. \A x \in at..to : input[x] \in Byte
    BY <2>1, ElementOfSeq DEF Given
  <2>3. \A x \in 1..b : input[at + x - 1] = rest[x]
    <3>. SUFFICES ASSUME NEW x \in 1..b PROVE input[at + x - 1] = rest[x]
      OBVIOUS
    <3>1. 1 + a + x \in 1..n /\ at + x - 1 = p + (1 + a + x) - 1
      BY <1>4
    <3>2. input[p + (1 + a + x) - 1] = part[1 + a + x] /\ part[1 + a + x] = rest[x]
      BY <1>1, <1>5, <3>1 DEF a, b
    <3>. QED
      BY <3>1, <3>2
  <2>. HIDE DEF to, at
  <2>4. /\ SubSeq(input, at, to) \in Seq(Byte)
        /\ Len(SubSeq(input, at, to)) = IF at <= to THEN to - at + 1 ELSE 0
        /\ \A x \in 1..(to - at + 1) : SubSeq(input, at, to)[x] = input[at + x - 1]
    BY <2>1, <2>2, SubSeqProperties
  <2>. DEFINE s == SubSeq(input, at, to)
  <2>5. s \in Seq(Byte) /\ Len(s) = b /\ \A x \in 1..b : s[x] = rest[x]
    BY <1>4, <2>1, <2>3, <2>4
  <2>. HIDE DEF s
  <2>6. s = rest
    BY <1>1, <2>5, SeqEqual DEF b
  <2>. QED
    BY <2>6 DEF s, to
<1>. HIDE DEF at
<1>10. varint_skip(p + 1) = at
  BY <1>7 DEF at
<1>. QED
  BY <1>4, <1>7, <1>8, <1>9, <1>10 DEF n, b, rest

(* One that the end of the bytes cuts: either its number goes on up to the *)
(* end, or it is a string that does not fit.                               *)
LEMMA ReadCut ==
  ASSUME Given, NEW part, NEW f, NEW value, PartOf(part, f, value), f.tag \in 1..127,
         NEW p \in Nat \ {0}, p < end, end < p + Len(part), Here(part, p)
  PROVE  \/ varint_skip(p + 1) = end
         \/ f.type # "varint" /\ ~ Fits(ValueAt(p + 1, SIZE_T), varint_skip(p + 1))
<1>. DEFINE e == varint_encode[Number(f, value)]
<1>. DEFINE rest == Rest(f, value)
<1>. DEFINE n == Len(part)
<1>1. /\ Number(f, value) \in Nat /\ Number(f, value) < Values(f)
      /\ e \in Seq(Byte) /\ IsVarint(e) /\ rest \in Seq(Byte)
      /\ part \in Seq(Byte) /\ n = 1 + Len(e) + Len(rest)
      /\ \A x \in 1..Len(e) : part[1 + x] = e[x]
  BY DEF PartOf
<1>2. Len(e) \in Nat /\ Len(rest) \in Nat /\ n \in Nat /\ Len(e) > 0
  BY <1>1, EmptySeq, LenProperties DEF IsVarint
<1>3. end \in Int
  BY EndIs
<1>. DEFINE a == Len(e)
<1>. DEFINE b == Len(rest)
<1>4. a \in Nat /\ b \in Nat /\ a > 0 /\ n = 1 + a + b /\ end < p + n /\ p + 1 <= end
  BY <1>1, <1>2, <1>3
<1>. HIDE DEF e, rest, n, a, b
<1>5. Here(e, p + 1)
  <2>. SUFFICES ASSUME NEW x \in 1..a, (p + 1) + x - 1 < end PROVE input[(p + 1) + x - 1] = e[x]
    BY DEF Here, a
  <2>1. 1 + x \in 1..n /\ (p + 1) + x - 1 = p + (1 + x) - 1
    BY <1>4
  <2>2. input[p + (1 + x) - 1] = part[1 + x] /\ part[1 + x] = e[x]
    BY <1>1, <2>1 DEF a, n, Here
  <2>. QED
    BY <2>1, <2>2
<1>6. CASE end < (p + 1) + a
  <2>1. p + 1 \in Nat \ {0} /\ p + 1 <= end /\ end < (p + 1) + Len(e)
    BY <1>4, <1>6 DEF a
  <2>. QED
    BY <1>1, <1>5, <2>1, SkipCut
<1>7. CASE ~ (end < (p + 1) + a)
  <2>1. p + 1 \in Nat \ {0} /\ (p + 1) + Len(e) <= end /\ b # 0
    BY <1>3, <1>4, <1>7 DEF a
  <2>2. f.type # "varint"
    <3>1. f.type = "varint" => Len(Rest(f, value)) = 0
      BY DEF Rest
    <3>. QED
      BY <2>1, <3>1 DEF b, rest
  <2>3. Values(f) = SIZE_T /\ SIZE_T \in Nat \ {0} /\ Number(f, value) = b
    BY <2>2, FormatConstants DEF Values, Number, Rest, rest, b
  <2>4. varint_decode(e, SIZE_T) = b
    BY <1>1, <2>3, DecodeEncoded DEF e
  <2>5. varint_skip(p + 1) = (p + 1) + Len(e) /\ ValueAt(p + 1, SIZE_T) = varint_decode(e, SIZE_T)
    BY <1>1, <1>5, <2>1, <2>3, SkipAt
  <2>6. ~ (b <= end - ((p + 1) + a))
    BY <1>3, <1>4, <1>7
  <2>. QED
    BY <2>2, <2>4, <2>5, <2>6 DEF Fits, a
<1>. QED
  BY <1>6, <1>7

(* A part that no decoder knows is skipped.                                *)
LEMMA SkipUnknownAt ==
  ASSUME Given, NEW u, IsUnknown(u), NEW p \in Nat \ {0}, p + Len(u) <= end, Here(u, p)
  PROVE  skip_unknown(p) = p + Len(u) /\ p < p + Len(u)
<1>1. PICK i, j \in 1..Len(u) :
        /\ i < j /\ IsVarint(SubSeq(u, 1, i)) /\ IsVarint(SubSeq(u, i + 1, j))
        /\ \/ u[1] % 8 = 0 /\ Len(u) = j
           \/ u[1] % 8 = 2 /\ Len(u) = j + varint_decode(SubSeq(u, i + 1, j), SIZE_T)
  BY DEF IsUnknown
<1>. DEFINE n == Len(u)
<1>2. u \in Seq(Byte) /\ n \in Nat /\ i \in Nat /\ j \in Nat /\ 0 < i /\ i < j /\ j <= n
  BY <1>1, LenProperties DEF IsUnknown
<1>3. end \in Int /\ SIZE_T \in Nat \ {0}
  BY EndIs, FormatConstants
<1>4. \A x \in 1..n : input[p + x - 1] = u[x] /\ u[x] \in Byte
  <2>1. \A x \in 1..n : p + x - 1 < end
    BY <1>2, <1>3
  <2>. QED
    BY <1>2, <2>1, ElementOfSeq DEF Here
<1>. HIDE DEF n
<1>. DEFINE s == SubSeq(u, 1, i)
<1>. DEFINE t == SubSeq(u, i + 1, j)
<1>5. Len(s) = i /\ \A x \in 1..i : s[x] = u[x]
  <2>1. \A x \in 1..i : u[x] \in Byte
    BY <1>2, <1>4
  <2>2. /\ Len(SubSeq(u, 1, i)) = IF 1 <= i THEN i - 1 + 1 ELSE 0
        /\ \A x \in 1..(i - 1 + 1) : SubSeq(u, 1, i)[x] = u[1 + x - 1]
    BY <1>2, <2>1, SubSeqProperties
  <2>3. 1 <= i /\ i - 1 + 1 = i /\ \A x \in 1..i : 1 + x - 1 = x
    BY <1>2
  <2>. QED
    BY <2>2, <2>3
<1>6. Len(t) = j - i /\ \A x \in 1..(j - i) : t[x] = u[i + x]
  <2>1. \A x \in (i + 1)..j : u[x] \in Byte
    BY <1>2, <1>4
  <2>2. i + 1 \in Int
    BY <1>2
  <2>3. /\ Len(SubSeq(u, i + 1, j)) = IF i + 1 <= j THEN j - (i + 1) + 1 ELSE 0
        /\ \A x \in 1..(j - (i + 1) + 1) : SubSeq(u, i + 1, j)[x] = u[(i + 1) + x - 1]
    BY <1>2, <2>1, <2>2, SubSeqProperties
  <2>4. i + 1 <= j /\ j - (i + 1) + 1 = j - i /\ \A x \in 1..(j - i) : (i + 1) + x - 1 = i + x
    BY <1>2
  <2>. QED
    BY <2>3, <2>4
<1>7. IsVarint(s) /\ IsVarint(t)
  BY <1>1
<1>. HIDE DEF s, t
<1>8. varint_skip(p) = p + i
  <2>1. Here(s, p)
    <3>1. \A x \in 1..i : x \in 1..n
      BY <1>2
    <3>. QED
      BY <1>4, <1>5, <3>1 DEF Here
  <2>2. p + Len(s) <= end
    BY <1>2, <1>3, <1>5 DEF n
  <2>. QED
    BY <1>5, <1>7, <2>1, <2>2, SkipAt
<1>9. varint_skip(p + i) = p + j /\ ValueAt(p + i, SIZE_T) = varint_decode(t, SIZE_T)
  <2>1. Here(t, p + i)
    <3>. SUFFICES ASSUME NEW x \in 1..(j - i) PROVE input[(p + i) + x - 1] = t[x]
      BY <1>6 DEF Here
    <3>1. i + x \in 1..n /\ (p + i) + x - 1 = p + (i + x) - 1
      BY <1>2
    <3>2. input[p + (i + x) - 1] = u[i + x] /\ t[x] = u[i + x]
      BY <1>4, <1>6, <3>1
    <3>. QED
      BY <3>1, <3>2
  <2>2. p + i \in Nat \ {0} /\ (p + i) + Len(t) = p + j /\ p + j <= end
    BY <1>2, <1>3, <1>6 DEF n
  <2>3. varint_skip(p + i) = (p + i) + Len(t) /\ ValueAt(p + i, SIZE_T) = varint_decode(t, SIZE_T)
    BY <1>3, <1>7, <2>1, <2>2, SkipAt
  <2>. QED
    BY <2>2, <2>3
<1>10. input[p] = u[1]
  <2>1. 1 \in 1..n /\ p + 1 - 1 = p
    BY <1>2
  <2>2. input[p + 1 - 1] = u[1]
    BY <1>4, <2>1
  <2>. QED
    BY <2>1, <2>2
<1>11. CASE u[1] % 8 = 0 /\ n = j
  BY <1>2, <1>8, <1>9, <1>10, <1>11 DEF skip_unknown, n
<1>12. CASE u[1] % 8 = 2 /\ n = j + varint_decode(t, SIZE_T)
  <2>. DEFINE length == varint_decode(t, SIZE_T)
  <2>1. length \in Nat
    BY <1>3, <1>7, DecodeType DEF IsVarint
  <2>. HIDE DEF length
  <2>2. length <= end - (p + j) /\ (p + j) + length = p + n
    BY <1>2, <1>3, <1>12, <2>1 DEF length, n
  <2>3. skip_unknown(p) = (p + j) + length
    BY <1>8, <1>9, <1>10, <1>12, <2>2 DEF skip_unknown, Fits, length
  <2>. QED
    BY <1>2, <2>2, <2>3 DEF n
<1>. QED
  BY <1>1, <1>11, <1>12 DEF n, t

(***************************************************************************)
(* Messages that were written, whole or cut.                               *)
(***************************************************************************)
(* The bytes are the parts q at the places at, as far as they go.          *)
Layout(q, which, at) ==
  /\ content \in Contents[kind]
  /\ Arranged(kind, content, q, which)
  /\ Places(q, at)
  /\ Holds(input, q, at, end)

(* What a field was written from. *)
Content(i) == content[Fields[kind][i].name]

(* No part comes before the version.                                       *)
LEMMA PlacesFrom ==
  ASSUME NEW q \in Seq(Seq(Byte)), NEW at, Places(q, at)
  PROVE  \A x \in 1..(Len(q) + 1) : at[x] \in Nat \ {0} /\ at[x] >= 2
<1>. DEFINE n == Len(q)
<1>1. n \in Nat /\ \A x \in 1..n : q[x] \in Seq(Byte)
  BY ElementOfSeq, LenProperties
<1>2. at \in [1..(n + 1) -> Nat] /\ at[1] = 2 /\ \A x \in 1..n : at[x + 1] = at[x] + Len(q[x])
  BY DEF Places
<1>4. \A x \in 1..n : Len(q[x]) \in Nat
  BY <1>1, LenProperties
<1>. DEFINE T == { x \in Nat : x \in 1..(n + 1) => at[x] >= 2 }
<1>6. ASSUME NEW x \in Nat, \A y \in Nat : y < x => y \in T, x \in 1..(n + 1) PROVE at[x] >= 2
  <2>1. CASE x = 1
    BY <1>2, <2>1
  <2>2. CASE x # 1
    <3>1. x - 1 \in Nat /\ x - 1 < x /\ x - 1 \in 1..n /\ x - 1 \in 1..(n + 1) /\ (x - 1) + 1 = x
      BY <1>1, <1>6, <2>2
    <3>2. at[x - 1] >= 2 /\ at[x - 1] \in Nat
      BY <1>2, <1>6, <3>1
    <3>3. at[x] = at[x - 1] + Len(q[x - 1]) /\ Len(q[x - 1]) \in Nat
      BY <1>2, <1>4, <3>1
    <3>. HIDE DEF T
    <3>. QED
      BY <3>2, <3>3
  <2>. QED
    BY <2>1, <2>2
<1>7. T = Nat
  <2>1. T \subseteq Nat
    OBVIOUS
  <2>2. \A x \in Nat : (\A y \in Nat : y < x => y \in T) => x \in T
    BY <1>6
  <2>. HIDE DEF T
  <2>. QED
    BY <2>1, <2>2, AllNumbers
<1>8. \A x \in 1..(n + 1) : at[x] \in Nat /\ at[x] >= 2
  BY <1>2, <1>7
<1>. HIDE DEF T
<1>. QED
  BY <1>8

(* Every part has bytes, so that the places are in order.                  *)
LEMMA LayoutParts ==
  ASSUME Given, NEW q, NEW which, NEW at, Layout(q, which, at)
  PROVE  /\ Len(q) \in Nat \ {0}
         /\ \A x \in 1..(Len(q) + 1) : at[x] \in Nat \ {0} /\ at[x] >= 2
         /\ \A x \in 1..Len(q) :
              /\ Here(q[x], at[x]) /\ Len(q[x]) \in Nat /\ Len(q[x]) > 0
              /\ at[x + 1] = at[x] + Len(q[x])
              /\ which[x] \in 0..Len(Fields[kind])
              /\ IF which[x] = 0 THEN IsUnknown(q[x])
                 ELSE PartOf(q[x], Fields[kind][which[x]], Content(which[x]))
<1>. DEFINE n == Len(q)
<1>. DEFINE m == Len(Fields[kind])
<1>1. q \in Seq(Seq(Byte)) /\ n \in Nat \ {0} /\ which \in [1..n -> 0..m]
      /\ \A x \in 1..n : q[x] \in Seq(Byte)
  <2>1. q \in Seq(Seq(Byte)) /\ q # << >> /\ which \in [1..n -> 0..m]
    BY DEF Layout, Arranged
  <2>. QED
    BY <2>1, EmptySeq, ElementOfSeq
<1>2. at \in [1..(n + 1) -> Nat] /\ at[1] = 2 /\ \A x \in 1..n : at[x + 1] = at[x] + Len(q[x])
  BY DEF Layout, Places
<1>3. m \in 2..4
  BY FieldsAre DEF Given
<1>. HIDE DEF m
<1>4. ASSUME NEW x \in 1..n
      PROVE  /\ which[x] \in 0..m
             /\ IF which[x] = 0 THEN IsUnknown(q[x])
                ELSE PartOf(q[x], Fields[kind][which[x]], Content(which[x]))
             /\ Len(q[x]) \in Nat /\ Len(q[x]) > 0
  <2>1. which[x] \in 0..m /\ Len(q[x]) \in Nat
    BY <1>1, LenProperties
  <2>2. CASE which[x] = 0
    <3>1. IsUnknown(q[x])
      BY <2>2 DEF Layout, Arranged
    <3>2. PICK i, j \in 1..Len(q[x]) : i < j
      BY <3>1 DEF IsUnknown
    <3>3. Len(q[x]) > 0
      BY <2>1, <3>2
    <3>. QED
      BY <2>1, <2>2, <3>1, <3>3
  <2>3. CASE which[x] # 0
    <3>1. which[x] \in 1..m
      BY <1>3, <2>1, <2>3
    <3>2. q[x] = Parts(kind, content)[which[x]]
      BY <2>3 DEF Layout, Arranged
    <3>3. PartOf(q[x], Fields[kind][which[x]], Content(which[x]))
      BY <3>1, <3>2, PartsAre DEF Layout, Given, Content, m
    <3>. DEFINE e == varint_encode[Number(Fields[kind][which[x]], Content(which[x]))]
    <3>. DEFINE rest == Rest(Fields[kind][which[x]], Content(which[x]))
    <3>4. e \in Seq(Byte) /\ rest \in Seq(Byte) /\ Len(q[x]) = 1 + Len(e) + Len(rest)
      BY <3>3 DEF PartOf
    <3>. HIDE DEF e, rest
    <3>5. Len(e) \in Nat /\ Len(rest) \in Nat
      BY <3>4, LenProperties
    <3>6. Len(q[x]) > 0
      BY <2>1, <3>4, <3>5
    <3>. QED
      BY <2>1, <2>3, <3>3, <3>6
  <2>. QED
    BY <2>2, <2>3
<1>5. \A x \in 1..n : Here(q[x], at[x])
  BY DEF Layout, Holds, Here
<1>8. \A x \in 1..(n + 1) : at[x] \in Nat \ {0} /\ at[x] >= 2
  BY <1>1, PlacesFrom DEF Layout
<1>. QED
  BY <1>1, <1>2, <1>4, <1>5, <1>8 DEF m

LEMMA PlacesInOrder ==
  ASSUME Given, NEW q, NEW which, NEW at, Layout(q, which, at),
         NEW x \in 1..(Len(q) + 1), NEW y \in 1..(Len(q) + 1), x < y
  PROVE  at[x] < at[y]
<1>. DEFINE n == Len(q)
<1>1. n \in Nat \ {0}
  BY LayoutParts
<1>2. \A z \in 1..n : at[z + 1] = at[z] + Len(q[z]) /\ Len(q[z]) \in Nat /\ Len(q[z]) > 0
  BY LayoutParts
<1>3. \A z \in 1..(n + 1) : at[z] \in Nat
  BY LayoutParts
<1>. HIDE DEF n
<1>. DEFINE T == { z \in Nat : z \in 1..(n + 1) /\ x < z => at[x] < at[z] }
<1>4. ASSUME NEW z \in Nat, \A w \in Nat : w < z => w \in T, z \in 1..(n + 1), x < z
      PROVE  at[x] < at[z]
  <2>0. x \in 1..(n + 1) /\ x \in Nat
    BY <1>1 DEF n
  <2>1. z - 1 \in Nat /\ z - 1 < z /\ z - 1 \in 1..n /\ z - 1 \in 1..(n + 1) /\ (z - 1) + 1 = z
        /\ (x < z - 1 \/ x = z - 1)
    BY <1>1, <1>4, <2>0
  <2>2. at[z] = at[z - 1] + Len(q[z - 1]) /\ Len(q[z - 1]) \in Nat /\ Len(q[z - 1]) > 0
        /\ at[z - 1] \in Nat /\ at[x] \in Nat
    BY <1>2, <1>3, <2>0, <2>1
  <2>3. at[x] <= at[z - 1]
    BY <1>4, <2>1, <2>2
  <2>. HIDE DEF T
  <2>. QED
    BY <2>2, <2>3
<1>5. T = Nat
  <2>1. T \subseteq Nat
    OBVIOUS
  <2>2. \A z \in Nat : (\A w \in Nat : w < z => w \in T) => z \in T
    BY <1>4
  <2>. HIDE DEF T
  <2>. QED
    BY <2>1, <2>2, AllNumbers
<1>6. y \in Nat /\ y \in 1..(n + 1)
  BY <1>1 DEF n
<1>. QED
  BY <1>5, <1>6

(* The first byte of a part tells which field it is.                       *)
LEMMA TagAt ==
  ASSUME Given, NEW q, NEW which, NEW at, Layout(q, which, at),
         NEW x \in 1..Len(q), at[x] < end, NEW i \in 1..Len(Fields[kind])
  PROVE  input[at[x]] = Fields[kind][i].tag <=> which[x] = i
<1>. DEFINE m == Len(Fields[kind])
<1>1. m \in 2..4 /\ DOMAIN Fields[kind] = 1..m
      /\ \A j \in 1..m : i # j => Fields[kind][i].tag # Fields[kind][j].tag
  BY FieldsAre DEF Given
<1>2. Len(q) \in Nat \ {0} /\ at[x] \in Nat
  <2>1. Len(q) \in Nat \ {0}
    BY LayoutParts
  <2>2. x \in 1..(Len(q) + 1)
    BY <2>1
  <2>. QED
    BY <2>1, <2>2, LayoutParts
<1>3. /\ Here(q[x], at[x]) /\ Len(q[x]) \in Nat /\ Len(q[x]) > 0 /\ which[x] \in 0..m
      /\ IF which[x] = 0 THEN IsUnknown(q[x])
         ELSE PartOf(q[x], Fields[kind][which[x]], Content(which[x]))
  BY LayoutParts
<1>4. input[at[x]] = q[x][1]
  <2>1. 1 \in 1..Len(q[x]) /\ at[x] + 1 - 1 = at[x]
    BY <1>2, <1>3
  <2>2. input[at[x] + 1 - 1] = q[x][1]
    BY <1>3, <2>1 DEF Here
  <2>. QED
    BY <2>1, <2>2
<1>. HIDE DEF m
<1>5. i \in 1..m /\ i # 0
  BY <1>1 DEF m
<1>6. CASE which[x] = 0
  <2>1. q[x][1] # Fields[kind][i].tag
    BY <1>1, <1>3, <1>5, <1>6 DEF IsUnknown, Given
  <2>. QED
    BY <1>4, <1>5, <1>6, <2>1
<1>7. CASE which[x] # 0
  <2>1. which[x] \in 1..m
    BY <1>1, <1>3, <1>7
  <2>2. q[x][1] = Fields[kind][which[x]].tag
    BY <1>3, <1>7 DEF PartOf
  <2>. QED
    BY <1>1, <1>4, <2>1, <2>2
<1>. QED
  BY <1>6, <1>7

(* A message that is whole has all its parts, and one that is cut has the  *)
(* parts in the order in which they are written, but not all of the last.  *)
LEMMA WholeLayout ==
  ASSUME Init, origin = "whole"
  PROVE  \E q, which, at : /\ Layout(q, which, at) /\ end = at[Len(q) + 1]
                           /\ input[1] = PROTOCOL_VERSION
<1>1. kind \in DOMAIN Fields /\ content \in Contents[kind] /\ input \in Rearranged(kind, content)
  BY DEF Init
<1>2. PICK q, which : Arranged(kind, content, q, which) /\ input = Message(kind, q)
  BY <1>1, RearrangedIs
<1>3. q \in Seq(Seq(Byte)) /\ q # << >> /\ Len(q) \in Nat
  BY <1>2, LenProperties DEF Arranged
<1>4. /\ Message(kind, q)[1] = PROTOCOL_VERSION
      /\ \E at : /\ Places(q, at) /\ Len(Message(kind, q)) = at[Len(q) + 1] - 1 + Trailer[kind]
                 /\ \A limit \in Int : Holds(Message(kind, q), q, at, limit)
  BY <1>1, <1>3, MessageIs
<1>5. PICK at : /\ Places(q, at) /\ Len(input) = at[Len(q) + 1] - 1 + Trailer[kind]
                /\ \A limit \in Int : Holds(input, q, at, limit)
  BY <1>2, <1>4
<1>6. end = at[Len(q) + 1] /\ end \in Int
  <2>1. at[Len(q) + 1] \in Nat
    <3>1. Len(q) + 1 \in 1..(Len(q) + 1)
      BY <1>3
    <3>. QED
      BY <1>5, <3>1 DEF Places
  <2>2. Trailer[kind] \in Nat
    BY <1>1, TrailerIs
  <2>. QED
    BY <1>5, <2>1, <2>2 DEF end
<1>7. Layout(q, which, at)
  BY <1>1, <1>2, <1>5, <1>6 DEF Layout
<1>. QED
  BY <1>2, <1>4, <1>6, <1>7

LEMMA CutLayout ==
  ASSUME Init, origin = "cut"
  PROVE  \E q, which, at : /\ Layout(q, which, at) /\ end < at[Len(q) + 1]
                           /\ Len(q) = Len(Fields[kind])
                           /\ \A x \in 1..Len(q) : which[x] = x
<1>. DEFINE m == Len(Fields[kind])
<1>. DEFINE q == Parts(kind, content)
<1>. DEFINE bytes == Encoded(kind, content)
<1>1. kind \in DOMAIN Fields /\ content \in Contents[kind] /\ Trailer[kind] \in Nat /\ m \in 2..4
  BY TrailerIs, FieldsAre DEF Init
<1>2. PICK n \in 0..(encode_length(kind, content) - 1) : input = SubSeq(bytes, 1, n)
  BY DEF Init
<1>3. bytes \in Seq(Byte) /\ encode_length(kind, content) = Len(bytes) /\ Len(bytes) \in Nat
  BY <1>1, EncodedIs, LenProperties
<1>4. q \in Seq(Seq(Byte)) /\ Len(q) = m
  BY <1>1, PartsAre
<1>. HIDE DEF m, q
<1>5. q # << >>
  BY <1>1, <1>4
<1>6. PICK at : /\ Places(q, at) /\ Len(bytes) = at[m + 1] - 1 + Trailer[kind]
                /\ \A limit \in Int : Holds(bytes, q, at, limit)
  <2>1. \E at : /\ Places(q, at) /\ Len(Message(kind, q)) = at[Len(q) + 1] - 1 + Trailer[kind]
                /\ \A limit \in Int : Holds(Message(kind, q), q, at, limit)
    BY <1>1, <1>4, <1>5, MessageIs
  <2>. QED
    BY <1>4, <2>1 DEF Encoded, q
<1>. HIDE DEF bytes
<1>7. n \in Nat /\ n < Len(bytes) /\ Len(input) = n /\ \A x \in 1..n : input[x] = bytes[x]
  <2>1. n \in Nat /\ n < Len(bytes)
    BY <1>2, <1>3
  <2>2. \A x \in 1..n : bytes[x] \in Byte
    <3>1. \A x \in 1..n : x \in 1..Len(bytes)
      BY <1>3, <2>1
    <3>. QED
      BY <1>3, <3>1, ElementOfSeq
  <2>3. /\ Len(SubSeq(bytes, 1, n)) = IF 1 <= n THEN n - 1 + 1 ELSE 0
        /\ \A x \in 1..(n - 1 + 1) : SubSeq(bytes, 1, n)[x] = bytes[1 + x - 1]
    BY <2>1, <2>2, SubSeqProperties
  <2>4. n - 1 + 1 = n /\ (1 <= n \/ n = 0) /\ \A x \in 1..n : 1 + x - 1 = x
    BY <2>1
  <2>. QED
    BY <1>2, <2>1, <2>3, <2>4
<1>8. at \in [1..(m + 1) -> Nat] /\ at[1] = 2
  BY <1>4, <1>6 DEF Places
<1>9. end \in Int /\ end <= n + 1 /\ end < at[m + 1]
  <2>1. at[m + 1] \in Nat
    BY <1>1, <1>8
  <2>. QED
    BY <1>1, <1>6, <1>7, <2>1 DEF end
<1>. DEFINE which == [x \in 1..m |-> x]
<1>10. which \in [1..m -> 0..m] /\ \A x \in 1..m : which[x] = x /\ which[x] # 0
  <2>1. \A x \in 1..m : x \in 0..m /\ x # 0
    BY <1>1
  <2>. QED
    BY <2>1
<1>. HIDE DEF which
<1>11. Arranged(kind, content, q, which)
  BY <1>4, <1>5, <1>10 DEF Arranged, q, m
<1>12. Holds(input, q, at, end)
  <2>1. Holds(bytes, q, at, end)
    BY <1>6, <1>9
  <2>. SUFFICES ASSUME NEW j \in 1..m, NEW i \in 1..Len(q[j]), at[j] + i - 1 < end
                PROVE  input[at[j] + i - 1] = q[j][i]
    BY <1>4 DEF Holds
  <2>2. bytes[at[j] + i - 1] = q[j][i]
    BY <1>4, <2>1 DEF Holds
  <2>3. at[j] \in Nat /\ at[j] > 0 /\ i \in Nat /\ i > 0
    <3>1. at[j] \in Nat /\ i \in Nat /\ i > 0
      <4>1. j \in 1..(m + 1) /\ q[j] \in Seq(Byte)
        BY <1>1, <1>4, ElementOfSeq
      <4>2. Len(q[j]) \in Nat
        BY <4>1, LenProperties
      <4>. QED
        BY <1>8, <4>1, <4>2
    <3>2. at[j] # 0
      <4>1. j \in 1..(Len(q) + 1)
        BY <1>1, <1>4
      <4>2. at[j] \in Nat \ {0}
        BY <1>4, <1>6, <4>1, PlacesFrom
      <4>. QED
        BY <4>2
    <3>. QED
      BY <3>1, <3>2
  <2>4. at[j] + i - 1 \in 1..n
    BY <1>7, <1>9, <2>3
  <2>. QED
    BY <1>7, <2>2, <2>4
<1>13. Layout(q, which, at)
  BY <1>1, <1>6, <1>11, <1>12 DEF Layout
<1>. QED
  BY <1>4, <1>9, <1>10, <1>13 DEF m

LEMMA LayoutKept ==
  ASSUME NEW q, NEW which, NEW at, Layout(q, which, at), UNCHANGED << kind, content, input >>
  PROVE  Layout(q, which, at)' /\ end' = end
<1>1. end' = end
  BY DEF end
<1>2. Holds(input, q, at, end)' = Holds(input, q, at, end)
  BY <1>1, SMTT(30) DEF Holds
<1>. QED
  BY <1>1, <1>2 DEF Layout

(* The field was read, and as it was written. *)
Right(i) ==
  LET f == Fields[kind][i]
      r == reader[f.name]
  IN  IF f.type = "varint" THEN r = [value |-> Content(i)]
      ELSE /\ r \in [at : Nat, length : Nat] /\ r.at > 1
           /\ Bytes(r) = Content(i)

(* The parts before part j were read.  When the round began there, the     *)
(* fields that decode was called for since are not the field of part j.    *)
ReadUpto(q, which, at, j) ==
  /\ pos = at[j]
  /\ \A x \in 1..(j - 1) : which[x] # 0 => Right(which[x])
  /\ j <= Len(q) /\ unknown = pos /\ which[j] # 0 => which[j] >= field

WholeInv(q, which, at) ==
  /\ Layout(q, which, at) /\ end = at[Len(q) + 1] /\ input[1] = PROTOCOL_VERSION
  /\ pos = 1 => ~ done
  /\ pos # 1 => /\ version = PROTOCOL_VERSION
                /\ \E j \in 1..(Len(q) + 1) : ReadUpto(q, which, at, j)
                /\ unknown \in Nat /\ unknown <= pos
                /\ IF done THEN pos = end ELSE unknown # end

LEMMA RightKept ==
  ASSUME ReadingInv, InRound, NEW value, NEW p, Decoded(This.name, value, p),
         NEW i \in 1..Len(Fields[kind]), Right(i), i # field \/ value = reader[This.name]
  PROVE  Right(i)'
<1>. DEFINE m == Len(Fields[kind])
<1>1. DOMAIN Fields[kind] = 1..m
      /\ \A j \in 1..m : i # j => Fields[kind][i].name # Fields[kind][j].name
  BY FieldsAre DEF ReadingInv, Given
<1>2. field \in 1..m
  BY FieldsAre DEF ReadingInv, Given, InRound
<1>3. UNCHANGED << kind, content, input >> /\ Fields' = Fields
      /\ reader' = [reader EXCEPT ![Fields[kind][field].name] = value]
  BY DEF Decoded, This, Fields, String, Varint
<1>4. reader'[Fields[kind][i].name] = reader[Fields[kind][i].name]
  <2>1. Fields[kind][i].name \in DOMAIN reader
    BY <1>1 DEF ReadingInv, FieldNames
  <2>. QED
    BY <1>1, <1>2, <1>3, <2>1 DEF This
<1>5. Content(i)' = Content(i)
  BY <1>3 DEF Content
<1>. QED
  BY <1>3, <1>4, <1>5 DEF Right, Bytes

(* What is read next is a field that decode is called for.                 *)
LEMMA WholeTag ==
  ASSUME ReadingInv, InRound, NEW q, NEW which, NEW at, WholeInv(q, which, at),
         NEW j \in 1..(Len(q) + 1), ReadUpto(q, which, at, j)
  PROVE  /\ HasTag <=> j <= Len(q) /\ which[j] = field
         /\ pos # end <=> j <= Len(q)
         /\ field \in 1..Len(Fields[kind])
<1>. DEFINE n == Len(q)
<1>1. Given /\ Layout(q, which, at) /\ end = at[n + 1] /\ pos = at[j]
  BY DEF ReadingInv, WholeInv, ReadUpto
<1>2. n \in Nat \ {0} /\ \A x \in 1..(n + 1) : at[x] \in Nat \ {0}
  BY <1>1, LayoutParts
<1>3. field \in 1..Len(Fields[kind])
  BY FieldsAre DEF ReadingInv, Given, InRound
<1>4. CASE j <= n
  <2>1. j \in 1..n /\ n + 1 \in 1..(n + 1) /\ j < n + 1
    BY <1>2, <1>4
  <2>2. at[j] < end
    BY <1>1, <2>1, PlacesInOrder
  <2>3. input[at[j]] = Fields[kind][field].tag <=> which[j] = field
    BY <1>1, <1>3, <2>1, <2>2, TagAt
  <2>4. pos # end
    BY <1>1, <1>2, <2>1, <2>2
  <2>. QED
    BY <1>1, <1>3, <1>4, <2>3, <2>4 DEF HasTag, This
<1>5. CASE ~ (j <= n)
  <2>1. j = n + 1
    BY <1>2, <1>5
  <2>2. pos = end
    BY <1>1, <2>1
  <2>. QED
    BY <1>3, <1>5, <2>2 DEF HasTag
<1>. QED
  BY <1>4, <1>5

(* The step of a decode that reads the part of a field.                    *)
LEMMA WholeRead ==
  ASSUME ReadingInv, InRound, NEW q, NEW which, NEW at, WholeInv(q, which, at),
         NEW j \in 1..Len(q), ReadUpto(q, which, at, j), which[j] = field,
         NEW value, Decoded(This.name, value, at[j + 1]), Right(which[j])'
  PROVE  WholeInv(q, which, at)'
<1>. DEFINE n == Len(q)
<1>. DEFINE m == Len(Fields[kind])
<1>1. Given /\ Layout(q, which, at) /\ end = at[n + 1] /\ pos = at[j]
  BY DEF ReadingInv, WholeInv, ReadUpto
<1>2. n \in Nat \ {0} /\ m \in 2..4 /\ field \in 1..m
      /\ \A x \in 1..(n + 1) : at[x] \in Nat \ {0} /\ at[x] >= 2
  BY <1>1, LayoutParts, FieldsAre DEF Given, ReadingInv, InRound
<1>3. UNCHANGED << kind, origin, content, input, unknown, version, done >>
      /\ pos' = at[j + 1] /\ field' = field + 1
  BY DEF Decoded
<1>4. Layout(q, which, at)' /\ end' = end
  BY <1>1, <1>3, LayoutKept
<1>5. j + 1 \in 1..(n + 1) /\ j \in 1..(n + 1) /\ j < j + 1
  BY <1>2
<1>6. at[j] < at[j + 1] /\ at[j] \in Nat /\ at[j + 1] \in Nat /\ at[j + 1] >= 2
  BY <1>1, <1>2, <1>5, PlacesInOrder
<1>7. ~ done /\ pos # 1 /\ version = PROTOCOL_VERSION /\ unknown \in Nat /\ unknown <= pos /\ unknown # end
  BY <1>1, <1>6, <1>5, <1>2 DEF InRound, WholeInv
<1>8. unknown < at[j + 1]
  BY <1>1, <1>6, <1>7
<1>9. ASSUME NEW x \in 1..((j + 1) - 1), which[x] # 0 PROVE Right(which[x])'
  <2>1. CASE x = j
    BY <2>1
  <2>2. CASE x # j
    <3>1. x \in 1..(j - 1) /\ x \in 1..n
      BY <1>2, <1>5, <2>2
    <3>2. Right(which[x]) /\ which[x] # field
      <4>1. \A y, z \in 1..n : which[y] = which[z] /\ which[y] # 0 => y = z
        BY <1>1 DEF Layout, Arranged
      <4>. QED
        BY <1>9, <2>2, <3>1, <4>1 DEF ReadUpto
    <3>3. which[x] \in 0..m
      BY <1>1, <3>1, LayoutParts
    <3>4. which[x] \in 1..m
      BY <1>2, <1>9, <3>3
    <3>. QED
      BY <3>2, <3>4, RightKept
  <2>. QED
    BY <2>1, <2>2
<1>10. ReadUpto(q, which, at, j + 1)'
  <2>1. unknown' # pos'
    BY <1>3, <1>6, <1>7, <1>8
  <2>. QED
    BY <1>3, <1>9, <2>1 DEF ReadUpto
<1>11. pos' # 1 /\ unknown' <= pos'
  BY <1>3, <1>6, <1>7, <1>8
<1>. QED
  BY <1>1, <1>3, <1>4, <1>5, <1>7, <1>10, <1>11 DEF WholeInv

(* What decode finds after the tag. *)
LEMMA WholePart ==
  ASSUME ReadingInv, InRound, HasTag, NEW q, NEW which, NEW at, WholeInv(q, which, at)
  PROVE  \E j \in 1..Len(q) :
           LET start == varint_skip(pos + 1)
               rest  == Rest(This, Content(field))
           IN  /\ ReadUpto(q, which, at, j) /\ which[j] = field
               /\ start \in Nat /\ start > 1 /\ Len(rest) \in Nat
               /\ at[j + 1] = start + Len(rest) /\ at[j + 1] <= end
               /\ ValueAt(pos + 1, Values(This)) = Number(This, Content(field))
               /\ SubSeq(input, start, start + Len(rest) - 1) = rest
<1>. DEFINE n == Len(q)
<1>1. Given /\ Layout(q, which, at) /\ end = at[n + 1]
  BY DEF ReadingInv, WholeInv
<1>2. n \in Nat \ {0} /\ \A x \in 1..(n + 1) : at[x] \in Nat \ {0} /\ at[x] >= 2
  BY <1>1, LayoutParts
<1>3. PICK j \in 1..(n + 1) : ReadUpto(q, which, at, j)
  BY DEF WholeInv, InRound
<1>4. j <= n /\ which[j] = field /\ field \in 1..Len(Fields[kind])
  BY <1>3, WholeTag
<1>5. j \in 1..n /\ j + 1 \in 1..(n + 1) /\ n + 1 \in 1..(n + 1)
  BY <1>2, <1>4
<1>6. Here(q[j], at[j]) /\ Len(q[j]) \in Nat /\ at[j + 1] = at[j] + Len(q[j])
      /\ PartOf(q[j], This, Content(field))
  <2>1. field # 0
    BY <1>4
  <2>. QED
    BY <1>1, <1>4, <1>5, <2>1, LayoutParts, Zenon DEF This
<1>7. at[j] \in Nat \ {0} /\ at[j] >= 2 /\ pos = at[j]
  BY <1>2, <1>3 DEF ReadUpto
<1>8. at[j + 1] <= end
  <2>1. CASE j + 1 = n + 1
    BY <1>1, <1>2, <1>5, <2>1
  <2>2. CASE j + 1 # n + 1
    <3>1. j + 1 < n + 1
      BY <1>2, <1>5, <2>2
    <3>2. at[j + 1] < at[n + 1]
      BY <1>1, <1>5, <3>1, PlacesInOrder
    <3>. QED
      BY <1>1, <1>2, <1>5, <3>2
  <2>. QED
    BY <2>1, <2>2
<1>9. This.tag \in 1..127
  BY <1>1, <1>4, FieldsAre DEF This, Given
<1>. DEFINE start == varint_skip(pos + 1)
<1>. DEFINE rest == Rest(This, Content(field))
<1>10. /\ start \in Nat /\ at[j] < start
       /\ ValueAt(pos + 1, Values(This)) = Number(This, Content(field))
       /\ at[j] + Len(q[j]) = start + Len(rest) /\ Len(rest) \in Nat
       /\ SubSeq(input, start, start + Len(rest) - 1) = rest
  <2>1. at[j] + Len(q[j]) <= end
    BY <1>6, <1>8
  <2>2. LET a == varint_skip(at[j] + 1) IN
        /\ a \in Nat /\ at[j] < a
        /\ ValueAt(at[j] + 1, Values(This)) = Number(This, Content(field))
        /\ at[j] + Len(q[j]) = a + Len(rest) /\ Len(rest) \in Nat
        /\ SubSeq(input, a, a + Len(rest) - 1) = rest
    <3>. DEFINE p == at[j]
    <3>. DEFINE part == q[j]
    <3>. DEFINE f == This
    <3>. DEFINE value == Content(field)
    <3>1. Here(part, p) /\ PartOf(part, f, value) /\ p \in Nat \ {0} /\ p + Len(part) <= end
          /\ f.tag \in 1..127
      BY <1>6, <1>7, <1>9, <2>1
    <3>. HIDE DEF p, part, f, value
    <3>2. LET a == varint_skip(p + 1) IN
          /\ p < end /\ a \in Nat /\ p < a /\ p < p + Len(part)
          /\ ValueAt(p + 1, Values(f)) = Number(f, value)
          /\ p + Len(part) = a + Len(Rest(f, value)) /\ Len(Rest(f, value)) \in Nat
          /\ SubSeq(input, a, a + Len(Rest(f, value)) - 1) = Rest(f, value)
      BY <1>1, <3>1, ReadWhole
    <3>. QED
      BY <3>2 DEF p, part, f, value
  <2>. QED
    BY <1>7, <2>2
<1>. HIDE DEF start, rest
<1>11. start > 1
  BY <1>7, <1>10
<1>. QED
  BY <1>3, <1>4, <1>5, <1>6, <1>8, <1>10, <1>11 DEF start, rest

LEMMA WholeInit ==
  ASSUME Init, origin = "whole"
  PROVE  \E q, which, at : WholeInv(q, which, at)
<1>1. pos = 1 /\ ~ done
  BY DEF Init
<1>. QED
  BY <1>1, WholeLayout DEF WholeInv

(* Nothing was read, and the place stays the same. *)
LEMMA WholeNotHere ==
  ASSUME ReadingInv, NotHere, NEW q, NEW which, NEW at, WholeInv(q, which, at)
  PROVE  WholeInv(q, which, at)'
<1>. DEFINE n == Len(q)
<1>. DEFINE m == Len(Fields[kind])
<1>1. InRound /\ ~ HasTag /\ Decoded(This.name, reader[This.name], pos)
  BY DEF NotHere
<1>2. Given /\ Layout(q, which, at) /\ end = at[n + 1]
  BY DEF ReadingInv, WholeInv
<1>3. n \in Nat \ {0} /\ \A x \in 1..n : which[x] \in 0..m
  BY <1>2, LayoutParts
<1>4. UNCHANGED << kind, origin, content, input, unknown, version, done, pos >>
      /\ field' = field + 1
  BY <1>1 DEF Decoded
<1>5. Layout(q, which, at)' /\ end' = end
  BY <1>2, <1>4, LayoutKept
<1>6. ~ done /\ pos # 1
  BY <1>1 DEF InRound
<1>7. PICK j \in 1..(n + 1) : ReadUpto(q, which, at, j)
  BY <1>6 DEF WholeInv
<1>8. ~ (j <= n /\ which[j] = field) /\ field \in 1..m
  BY <1>1, <1>7, WholeTag
<1>9. ASSUME NEW x \in 1..(j - 1), which[x] # 0 PROVE Right(which[x])'
  <2>1. x \in 1..n
    BY <1>3
  <2>2. which[x] \in 1..m /\ Right(which[x])
    BY <1>3, <1>7, <1>9, <2>1 DEF ReadUpto
  <2>. QED
    BY <1>1, <2>2, RightKept
<1>10. j <= n /\ unknown = pos /\ which[j] # 0 => which[j] >= field + 1
  <2>. SUFFICES ASSUME j <= n, unknown = pos, which[j] # 0 PROVE which[j] >= field + 1
    OBVIOUS
  <2>1. which[j] >= field /\ which[j] # field /\ j \in 1..n
    BY <1>3, <1>7, <1>8 DEF ReadUpto
  <2>2. which[j] \in 0..m /\ which[j] \in Int /\ field \in Int
    BY <1>3, <1>8, <2>1
  <2>. QED
    BY <2>1, <2>2
<1>11. ReadUpto(q, which, at, j)'
  BY <1>4, <1>7, <1>9, <1>10 DEF ReadUpto
<1>. QED
  BY <1>4, <1>5, <1>11 DEF WholeInv

(* A round ends, and the part that it began at is skipped if nothing was   *)
(* read: no decoder knows it.                                              *)
LEMMA WholeEndOfRound ==
  ASSUME ReadingInv, EndOfRound, NEW q, NEW which, NEW at, WholeInv(q, which, at)
  PROVE  WholeInv(q, which, at)'
<1>. DEFINE n == Len(q)
<1>. DEFINE m == Len(Fields[kind])
<1>1. Given /\ Layout(q, which, at) /\ end = at[n + 1]
  BY DEF ReadingInv, WholeInv
<1>2. n \in Nat \ {0} /\ m \in 2..4 /\ \A x \in 1..(n + 1) : at[x] \in Nat \ {0} /\ at[x] >= 2
  BY <1>1, LayoutParts, FieldsAre DEF Given
<1>3. UNCHANGED << kind, origin, content, input, version, reader >> /\ field' = 1
      /\ unknown' = pos' /\ ~ done /\ field > m
      /\ pos' = IF unknown = pos THEN skip_unknown(pos) ELSE pos
  BY DEF EndOfRound
<1>3a. IF done' THEN pos' = end ELSE pos' # end
  BY DEF EndOfRound
<1>. HIDE DEF m
<1>4. Layout(q, which, at)' /\ end' = end
  BY <1>1, <1>3, LayoutKept
<1>5. pos # 1
  <2>1. field # 1
    <3>1. m \in 2..4 /\ field > m
      BY <1>2, <1>3
    <3>. QED
      BY <3>1
  <2>. QED
    BY <2>1 DEF ReadingInv
<1>6. PICK j \in 1..(n + 1) : ReadUpto(q, which, at, j)
  BY <1>5 DEF WholeInv
<1>7. unknown # end /\ version = PROTOCOL_VERSION
  BY <1>3, <1>5 DEF WholeInv
<1>8. \A i : Right(i)' = Right(i)
  <2>1. Fields' = Fields
    BY DEF Fields, String, Varint
  <2>. QED
    BY <1>3, <2>1 DEF Right, Content, Bytes
<1>9. \E i \in 1..(n + 1) : pos' = at[i] /\ \A x \in 1..(i - 1) : which[x] # 0 => Right(which[x])
  <2>1. CASE unknown # pos
    BY <1>3, <1>6, <2>1 DEF ReadUpto
  <2>2. CASE unknown = pos
    <3>1. j \in 1..n
      <4>1. j # n + 1
        BY <1>1, <1>6, <1>7, <2>2 DEF ReadUpto
      <4>. QED
        BY <1>2, <4>1
    <3>2. j <= n
      BY <1>2, <3>1
    <3>3. which[j] \in 0..m /\ (which[j] # 0 => which[j] >= field)
      BY <1>1, <1>6, <2>2, <3>1, <3>2, LayoutParts DEF ReadUpto, m
    <3>4. which[j] = 0
      <4>1. field \in 1..(m + 1)
        BY DEF ReadingInv, m
      <4>. QED
        BY <1>2, <1>3, <3>3, <4>1
    <3>5. IsUnknown(q[j]) /\ Here(q[j], at[j]) /\ at[j + 1] = at[j] + Len(q[j])
      BY <1>1, <3>1, <3>4, LayoutParts
    <3>6. j + 1 \in 1..(n + 1) /\ n + 1 \in 1..(n + 1) /\ (j + 1 < n + 1 \/ j + 1 = n + 1) /\ (j + 1) - 1 = j
      BY <1>2, <3>1
    <3>7. at[j + 1] <= end
      <4>1. CASE j + 1 = n + 1
        BY <1>1, <1>2, <3>6, <4>1
      <4>2. CASE j + 1 < n + 1
        <5>1. at[j + 1] < at[n + 1]
          BY <1>1, <3>6, <4>2, PlacesInOrder
        <5>. QED
          BY <1>1, <1>2, <3>6, <5>1
      <4>. QED
        BY <3>6, <4>1, <4>2
    <3>8. pos = at[j] /\ at[j] \in Nat \ {0} /\ at[j] + Len(q[j]) <= end
      BY <1>2, <1>6, <3>5, <3>7 DEF ReadUpto
    <3>9. pos' = at[j + 1]
      <4>1. skip_unknown(at[j]) = at[j] + Len(q[j])
        BY <1>1, <3>5, <3>8, SkipUnknownAt
      <4>. QED
        BY <1>3, <2>2, <3>5, <3>8, <4>1
    <3>10. \A x \in 1..j : which[x] # 0 => Right(which[x])
      <4>. SUFFICES ASSUME NEW x \in 1..j, which[x] # 0 PROVE Right(which[x])
        OBVIOUS
      <4>1. x \in 1..(j - 1)
        <5>1. x # j
          BY <3>4
        <5>. QED
          BY <3>1, <5>1
      <4>. QED
        BY <1>6, <4>1 DEF ReadUpto
    <3>. QED
      BY <3>6, <3>9, <3>10
  <2>. QED
    BY <2>1, <2>2
<1>10. PICK i \in 1..(n + 1) : pos' = at[i] /\ \A x \in 1..(i - 1) : which[x] # 0 => Right(which[x])
  BY <1>9
<1>11. ReadUpto(q, which, at, i)'
  <2>1. i <= n /\ which[i] # 0 => which[i] >= 1
    <3>. SUFFICES ASSUME i <= n, which[i] # 0 PROVE which[i] >= 1
      OBVIOUS
    <3>1. i \in 1..n
      BY <1>2
    <3>2. which[i] \in 0..m
      BY <1>1, <3>1, LayoutParts DEF m
    <3>. QED
      BY <1>2, <3>2
  <2>. QED
    BY <1>3, <1>8, <1>10, <2>1 DEF ReadUpto
<1>12. pos' \in Nat /\ pos' # 1
  BY <1>2, <1>10
<1>13. unknown' \in Nat /\ unknown' <= pos' /\ (IF done' THEN pos' = end' ELSE unknown' # end')
  <2>1. unknown' = pos' /\ end' = end /\ pos' \in Nat
    BY <1>3, <1>4, <1>12
  <2>. QED
    BY <1>3a, <2>1
<1>. QED
  BY <1>1, <1>3, <1>4, <1>7, <1>11, <1>12, <1>13 DEF WholeInv

LEMMA WholeReadVersion ==
  ASSUME ReadingInv, ReadVersion, NEW q, NEW which, NEW at, WholeInv(q, which, at)
  PROVE  WholeInv(q, which, at)'
<1>. DEFINE n == Len(q)
<1>1. Given /\ Layout(q, which, at) /\ end = at[n + 1] /\ input[1] = PROTOCOL_VERSION
  BY DEF ReadingInv, WholeInv
<1>2. n \in Nat \ {0} /\ at[1] = 2 /\ \A x \in 1..n : which[x] \in 0..Len(Fields[kind])
  BY <1>1, LayoutParts DEF Layout, Places
<1>3. UNCHANGED << kind, origin, content, input, field, reader >> /\ field = 1
      /\ version' = PROTOCOL_VERSION /\ pos' = 2 /\ unknown' = 2
  BY <1>1 DEF ReadVersion, ReadingInv
<1>4. IF done' THEN end = 2 ELSE end # 2
  BY DEF ReadVersion
<1>5. Layout(q, which, at)' /\ end' = end
  BY <1>1, <1>3, LayoutKept
<1>6. ReadUpto(q, which, at, 1)'
  <2>1. which[1] # 0 => which[1] >= 1
    <3>1. 1 \in 1..n
      BY <1>2
    <3>2. which[1] \in 0..Len(Fields[kind]) /\ Len(Fields[kind]) \in Nat
      BY <1>1, <1>2, <3>1, FieldsAre DEF Given
    <3>. QED
      BY <3>2
  <2>2. 1..(1 - 1) = {}
    OBVIOUS
  <2>. QED
    BY <1>2, <1>3, <2>1, <2>2 DEF ReadUpto
<1>7. 1 \in 1..(n + 1)
  BY <1>2
<1>. QED
  BY <1>1, <1>3, <1>4, <1>5, <1>6, <1>7 DEF WholeInv

LEMMA WholeReadVarint ==
  ASSUME ReadingInv, ReadVarint, NEW q, NEW which, NEW at, WholeInv(q, which, at)
  PROVE  WholeInv(q, which, at)'
<1>. DEFINE start == varint_skip(pos + 1)
<1>. DEFINE rest == Rest(This, Content(field))
<1>. DEFINE read == ValueAt(pos + 1, UINT32)
<1>. DEFINE value == [value |-> read]
<1>1. InRound /\ HasTag /\ This.type = "varint" /\ Decoded(This.name, value, start)
  BY DEF ReadVarint
<1>2. PICK j \in 1..Len(q) :
        /\ ReadUpto(q, which, at, j) /\ which[j] = field /\ start \in Nat
        /\ at[j + 1] = start + Len(rest)
        /\ ValueAt(pos + 1, Values(This)) = Number(This, Content(field))
  BY <1>1, WholePart
<1>3. read = Content(field) /\ at[j + 1] = start
  <2>1. Values(This) = UINT32 /\ Number(This, Content(field)) = Content(field) /\ Len(rest) = 0
    BY <1>1 DEF Values, Number, Rest
  <2>. HIDE DEF start, rest
  <2>. QED
    BY <1>2, <2>1
<1>. HIDE DEF start, rest, read
<1>4. Right(which[j])'
  <2>1. UNCHANGED << kind, content, input >> /\ Fields' = Fields
        /\ reader' = [reader EXCEPT ![This.name] = value]
    BY <1>1 DEF Decoded, Fields, String, Varint
  <2>2. This.name \in DOMAIN reader
    BY <1>1, FieldsAre DEF ReadingInv, FieldNames, This, InRound, Given
  <2>3. reader'[This.name] = [value |-> Content(field)]
    BY <1>3, <2>1, <2>2
  <2>4. Content(which[j])' = Content(field)
    BY <1>2, <2>1 DEF Content
  <2>. QED
    BY <1>1, <1>2, <2>1, <2>3, <2>4 DEF Right, This
<1>. HIDE DEF value
<1>. QED
  BY <1>1, <1>2, <1>3, <1>4, WholeRead

LEMMA WholeReadString ==
  ASSUME ReadingInv, ReadString, NEW q, NEW which, NEW at, WholeInv(q, which, at)
  PROVE  WholeInv(q, which, at)'
<1>. DEFINE start == varint_skip(pos + 1)
<1>. DEFINE rest == Rest(This, Content(field))
<1>. DEFINE length == ValueAt(pos + 1, SIZE_T)
<1>. DEFINE string == [at |-> start, length |-> length]
<1>1. InRound /\ HasTag /\ This.type = "string" /\ Decoded(This.name, string, start + length)
  BY DEF ReadString
<1>2. PICK j \in 1..Len(q) :
        /\ ReadUpto(q, which, at, j) /\ which[j] = field
        /\ start \in Nat /\ start > 1 /\ Len(rest) \in Nat /\ at[j + 1] = start + Len(rest)
        /\ ValueAt(pos + 1, Values(This)) = Number(This, Content(field))
        /\ SubSeq(input, start, start + Len(rest) - 1) = rest
  BY <1>1, WholePart
<1>3. Values(This) = SIZE_T /\ rest = Content(field) /\ Number(This, Content(field)) = Len(rest)
  BY <1>1 DEF Values, Number, Rest
<1>4. length = Len(rest) /\ at[j + 1] = start + length
  BY <1>2, <1>3
<1>. HIDE DEF start, rest, length
<1>5. Right(which[j])'
  <2>1. UNCHANGED << kind, content, input >> /\ Fields' = Fields
        /\ reader' = [reader EXCEPT ![This.name] = string]
    BY <1>1 DEF Decoded, Fields, String, Varint
  <2>2. This.name \in DOMAIN reader
    BY <1>1, FieldsAre DEF ReadingInv, FieldNames, This, InRound, Given
  <2>3. reader'[This.name] = string /\ string.at = start /\ string.length = length
        /\ string \in [at : Nat, length : Nat]
    BY <1>2, <1>4, <2>1, <2>2
  <2>4. Content(which[j])' = Content(field)
    BY <1>2, <2>1 DEF Content
  <2>5. SubSeq(input, start, start + length - 1) = Content(field)
    BY <1>2, <1>3, <1>4
  <2>6. This.type # "varint" /\ This = Fields[kind][field]
    BY <1>1 DEF This
  <2>. HIDE DEF string
  <2>. QED
    BY <1>2, <2>1, <2>3, <2>4, <2>5, <2>6 DEF Right, Bytes
<1>. HIDE DEF string
<1>. QED
  BY <1>1, <1>2, <1>4, <1>5, WholeRead

(* The other steps are not those of a message that is whole.               *)
LEMMA WholeNever ==
  ASSUME ReadingInv, NEW q, NEW which, NEW at, WholeInv(q, which, at)
  PROVE  ~ TooShort /\ ~ StringTooLong
<1>1. Given /\ Layout(q, which, at) /\ end = at[Len(q) + 1]
  BY DEF ReadingInv, WholeInv
<1>2. ~ TooShort
  <2>1. Len(q) + 1 \in 1..(Len(q) + 1)
    <3>1. Len(q) \in Nat \ {0}
      BY <1>1, LayoutParts
    <3>. QED
      BY <3>1
  <2>2. end >= 2
    BY <1>1, <2>1, LayoutParts
  <2>3. Trailer[kind] \in Nat /\ Len(input) \in Nat /\ end = Len(input) - Trailer[kind] + 1
    BY <1>1, EndIs, TrailerIs DEF Given, end
  <2>4. ~ (Len(input) <= Trailer[kind])
    BY <2>2, <2>3
  <2>. QED
    BY <2>4 DEF TooShort
<1>3. ASSUME StringTooLong PROVE FALSE
  <2>. DEFINE start == varint_skip(pos + 1)
  <2>. DEFINE rest == Rest(This, Content(field))
  <2>1. InRound /\ HasTag /\ This.type = "string" /\ ~ Fits(ValueAt(pos + 1, SIZE_T), start)
    BY <1>3 DEF StringTooLong
  <2>2. PICK j \in 1..Len(q) :
          /\ start \in Nat /\ Len(rest) \in Nat /\ at[j + 1] = start + Len(rest) /\ at[j + 1] <= end
          /\ ValueAt(pos + 1, Values(This)) = Number(This, Content(field))
    BY <2>1, WholePart
  <2>3. ValueAt(pos + 1, SIZE_T) = Len(rest)
    BY <2>1, <2>2 DEF Values, Number, Rest
  <2>4. end \in Int
    BY <1>1, EndIs
  <2>. HIDE DEF start, rest
  <2>5. Len(rest) <= end - start
    BY <2>2, <2>4
  <2>. QED
    BY <2>1, <2>3, <2>5 DEF Fits
<1>. QED
  BY <1>2, <1>3

LEMMA WholeNext ==
  ASSUME ReadingInv, [Next]_vars, NEW q, NEW which, NEW at, WholeInv(q, which, at)
  PROVE  WholeInv(q, which, at)'
<1>1. CASE UNCHANGED vars
  <2>1. UNCHANGED << kind, content, input, pos, field, unknown, version, reader, done >>
    BY <1>1 DEF vars
  <2>2. Layout(q, which, at)' /\ end' = end
    BY <2>1, LayoutKept DEF WholeInv
  <2>3. \A j : ReadUpto(q, which, at, j)' = ReadUpto(q, which, at, j)
    BY <2>1 DEF ReadUpto, Right, Content, Bytes
  <2>. QED
    BY <2>1, <2>2, <2>3 DEF WholeInv
<1>. QED
  BY <1>1, WholeReadVersion, WholeNotHere, WholeReadVarint, WholeReadString, WholeEndOfRound,
     WholeNever DEF Next

LEMMA OriginKept == [Next]_vars => origin' = origin
BY DEF Next, vars, TooShort, ReadVersion, NotHere, ReadVarint, ReadString, StringTooLong,
       EndOfRound, Decoded

(* At the end all fields were read. *)
LEMMA WholeDone ==
  ASSUME Given, done, NEW q, NEW which, NEW at, WholeInv(q, which, at)
  PROVE  version = PROTOCOL_VERSION /\ \A i \in 1..Len(Fields[kind]) : Right(i)
<1>. DEFINE n == Len(q)
<1>1. Layout(q, which, at) /\ end = at[n + 1] /\ version = PROTOCOL_VERSION /\ pos = end
  BY DEF WholeInv
<1>2. n \in Nat \ {0} /\ \A x \in 1..(n + 1) : at[x] \in Nat
  BY <1>1, LayoutParts
<1>3. PICK j \in 1..(n + 1) : ReadUpto(q, which, at, j)
  BY DEF WholeInv
<1>4. j = n + 1
  <2>. SUFFICES ASSUME j # n + 1 PROVE FALSE
    OBVIOUS
  <2>1. n + 1 \in 1..(n + 1) /\ j < n + 1
    BY <1>2
  <2>2. at[j] < at[n + 1]
    BY <1>1, <2>1, PlacesInOrder
  <2>3. at[j] = at[n + 1] /\ at[j] \in Nat
    BY <1>1, <1>2, <1>3 DEF ReadUpto
  <2>. QED
    BY <2>2, <2>3
<1>5. ASSUME NEW i \in 1..Len(Fields[kind]) PROVE Right(i)
  <2>1. PICK x \in 1..n : which[x] = i
    BY <1>1 DEF Layout, Arranged
  <2>2. x \in 1..(j - 1) /\ which[x] # 0
    BY <1>2, <1>4, <2>1
  <2>. QED
    BY <1>3, <2>1, <2>2 DEF ReadUpto
<1>. QED
  BY <1>1, <1>5

LEMMA RightIs ==
  ASSUME ReadingInv, content \in Contents[kind], NEW i \in 1..Len(Fields[kind]), Right(i)
  PROVE  LET f == Fields[kind][i] IN
         /\ Has(f.name)
         /\ f.name \in KeyFields => HasKey(f.name)
         /\ content[f.name] = IF f.type = "varint" THEN reader[f.name].value ELSE Bytes(reader[f.name])
<1>. DEFINE f == Fields[kind][i]
<1>. DEFINE r == reader[f.name]
<1>1. Given /\ i \in DOMAIN Fields[kind] /\ f.type \in {"varint", "string"}
      /\ (f.name \in KeyFields => f.type = "string")
  <2>1. Given /\ kind \in {"message", "pre_key", "group"}
    BY DEF ReadingInv, Given, Fields
  <2>2. i \in DOMAIN Fields[kind] /\ f.type \in {"varint", "string"}
    BY <2>1, FieldsAre DEF Given
  <2>3. f.name \in KeyFields => f.type = "string"
    <3>1. CASE kind = "message"
      <4>1. Fields[kind] = << String("ratchet_key", 10), Varint("counter", 16), String("ciphertext", 34) >>
        BY <3>1 DEF Fields
      <4>. QED
        BY <2>2, <4>1 DEF String, Varint, KeyFields
    <3>2. CASE kind = "pre_key"
      <4>1. Fields[kind] = << String("one_time_key", 10), String("base_key", 18),
                              String("identity_key", 26), String("message", 34) >>
        BY <3>2 DEF Fields
      <4>. QED
        BY <2>2, <4>1 DEF String, Varint, KeyFields
    <3>3. CASE kind = "group"
      <4>1. Fields[kind] = << Varint("message_index", 8), String("ciphertext", 18) >>
        BY <3>3 DEF Fields
      <4>. QED
        BY <2>2, <4>1 DEF String, Varint, KeyFields
    <3>. QED
      BY <2>1, <3>1, <3>2, <3>3
  <2>. QED
    BY <2>1, <2>2, <2>3
<1>2. CASE f.type = "varint"
  <2>1. r = [value |-> content[f.name]]
    BY <1>2 DEF Right, Content
  <2>2. r.value = content[f.name] /\ DOMAIN r = {"value"}
    BY <2>1
  <2>3. r # Absent
    BY <2>2 DEF Absent
  <2>. HIDE DEF r
  <2>. QED
    BY <1>1, <1>2, <2>2, <2>3 DEF Has, r
<1>3. CASE f.type = "string"
  <2>1. r \in [at : Nat, length : Nat] /\ r.at > 1 /\ Bytes(r) = content[f.name]
    BY <1>3 DEF Right, Content
  <2>2. r # Absent
    BY <2>1 DEF Absent
  <2>3. r.at + r.length <= end
    BY <1>1, <1>3, <2>2 DEF ReadingInv, IsInside
  <2>4. end \in Int /\ end <= Len(input) + 1 /\ Len(input) \in Nat
    BY <1>1, EndIs
  <2>. DEFINE a == r.at
  <2>. DEFINE b == r.length
  <2>5. a \in Nat /\ b \in Nat /\ a > 1 /\ a + b <= end
    BY <2>1, <2>3
  <2>6. Len(Bytes(r)) = b
    <3>. HIDE DEF a, b
    <3>. DEFINE to == a + b - 1
    <3>1. to \in Int /\ to - a + 1 = b /\ (a <= to <=> b # 0) /\ \A x \in a..to : x \in 1..Len(input)
      BY <2>4, <2>5
    <3>2. \A x \in a..to : input[x] \in Byte
      BY <1>1, <3>1, ElementOfSeq DEF Given
    <3>. HIDE DEF to
    <3>3. Len(SubSeq(input, a, to)) = IF a <= to THEN to - a + 1 ELSE 0
      BY <2>5, <3>1, <3>2, SubSeqProperties
    <3>4. Len(SubSeq(input, a, to)) = b
      BY <2>5, <3>1, <3>3
    <3>. QED
      BY <3>4 DEF Bytes, a, b, to
  <2>7. f.name \in KeyFields => Len(content[f.name]) = KEY_LENGTH
    <3>1. CanBeWritten(f, content[f.name])
      BY <1>1, FormatConstants DEF Given
    <3>. QED
      BY <1>3, <3>1 DEF CanBeWritten
  <2>8. f.name \in KeyFields => b = KEY_LENGTH
    BY <2>1, <2>6, <2>7
  <2>. QED
    BY <1>3, <2>1, <2>2, <2>8 DEF Has, HasKey
<1>. QED
  BY <1>1, <1>2, <1>3

LEMMA WholeIsDecoded ==
  ASSUME ReadingInv, NEW q, NEW which, NEW at, WholeInv(q, which, at)
  PROVE  /\ Len(Encoded(kind, content)) = encode_length(kind, content)
         /\ done => /\ Accepted
                    /\ \A i \in DOMAIN Fields[kind] :
                         LET f == Fields[kind][i]
                         IN  content[f.name] = IF f.type = "varint" THEN reader[f.name].value
                                               ELSE Bytes(reader[f.name])
<1>1. Given /\ kind \in DOMAIN Fields /\ content \in Contents[kind]
  BY DEF ReadingInv, Given, WholeInv, Layout
<1>2. Len(Encoded(kind, content)) = encode_length(kind, content)
  BY <1>1, LengthIs
<1>. SUFFICES ASSUME done
              PROVE  /\ Accepted
                     /\ \A i \in DOMAIN Fields[kind] :
                          LET f == Fields[kind][i]
                          IN  content[f.name] = IF f.type = "varint" THEN reader[f.name].value
                                                ELSE Bytes(reader[f.name])
  BY <1>2
<1>3. version = PROTOCOL_VERSION /\ \A i \in 1..Len(Fields[kind]) : Right(i)
  BY <1>1, WholeDone
<1>4. DOMAIN Fields[kind] = 1..Len(Fields[kind])
  BY <1>1, FieldsAre
<1>5. ASSUME NEW i \in 1..Len(Fields[kind])
      PROVE  /\ Has(Fields[kind][i].name)
             /\ Fields[kind][i].name \in KeyFields => HasKey(Fields[kind][i].name)
             /\ content[Fields[kind][i].name] =
                  IF Fields[kind][i].type = "varint" THEN reader[Fields[kind][i].name].value
                  ELSE Bytes(reader[Fields[kind][i].name])
  BY <1>1, <1>3, RightIs
<1>. DEFINE AllHas == \A i \in 1..Len(Fields[kind]) : Has(Fields[kind][i].name)
<1>. DEFINE AllKeys == \A i \in 1..Len(Fields[kind]) :
                         Fields[kind][i].name \in KeyFields => HasKey(Fields[kind][i].name)
<1>6. AllHas /\ AllKeys
  BY <1>5
<1>7. Accepted
  <2>1. CASE kind = "message"
    <3>1. Fields[kind] = << String("ratchet_key", 10), Varint("counter", 16), String("ciphertext", 34) >>
      BY <2>1 DEF Fields
    <3>2. Len(Fields[kind]) = 3 /\ Fields[kind][1].name = "ratchet_key" /\ Fields[kind][2].name = "counter"
          /\ Fields[kind][3].name = "ciphertext"
      BY <3>1 DEF String, Varint
    <3>3. Has("counter") /\ Has("ciphertext") /\ HasKey("ratchet_key")
      <4>1. 1 \in 1..3 /\ 2 \in 1..3 /\ 3 \in 1..3 /\ "ratchet_key" \in KeyFields
        BY DEF KeyFields
      <4>. QED
        BY <1>6, <3>2, <4>1
    <3>. QED
      BY <1>3, <2>1, <3>3 DEF Accepted
  <2>2. CASE kind = "pre_key"
    <3>1. Fields[kind] = << String("one_time_key", 10), String("base_key", 18),
                            String("identity_key", 26), String("message", 34) >>
      BY <2>2 DEF Fields
    <3>2. Len(Fields[kind]) = 4 /\ Fields[kind][1].name = "one_time_key" /\ Fields[kind][2].name = "base_key"
          /\ Fields[kind][3].name = "identity_key" /\ Fields[kind][4].name = "message"
      BY <3>1 DEF String
    <3>3. Has("message") /\ HasKey("one_time_key") /\ HasKey("base_key") /\ HasKey("identity_key")
      <4>1. 1 \in 1..4 /\ 2 \in 1..4 /\ 3 \in 1..4 /\ 4 \in 1..4
            /\ "one_time_key" \in KeyFields /\ "base_key" \in KeyFields /\ "identity_key" \in KeyFields
        BY DEF KeyFields
      <4>. QED
        BY <1>6, <3>2, <4>1
    <3>. QED
      BY <2>2, <3>3 DEF Accepted, check_message_fields
  <2>3. CASE kind = "group"
    <3>1. Fields[kind] = << Varint("message_index", 8), String("ciphertext", 18) >>
      BY <2>3 DEF Fields
    <3>2. Len(Fields[kind]) = 2 /\ Fields[kind][1].name = "message_index"
          /\ Fields[kind][2].name = "ciphertext"
      BY <3>1 DEF String, Varint
    <3>3. Has("message_index") /\ Has("ciphertext")
      <4>1. 1 \in 1..2 /\ 2 \in 1..2
        OBVIOUS
      <4>. QED
        BY <1>6, <3>2, <4>1
    <3>. QED
      BY <1>3, <2>3, <3>3 DEF Accepted
  <2>4. kind \in {"message", "pre_key", "group"}
    BY <1>1 DEF Fields
  <2>. QED
    BY <2>1, <2>2, <2>3, <2>4
<1>. QED
  BY <1>4, <1>5, <1>7

Whole == origin = "whole" => \E q, which, at : WholeInv(q, which, at)

(* For all contents that the types can hold, and whatever the widths of    *)
(* the types and the lengths of the keys and the trailer: as many bytes    *)
(* are written as promised, and what is written is read back, in any order *)
(* and with an unknown field between.                                      *)
THEOREM EncodedIsDecodedHolds == Spec => []EncodedIsDecoded
<1>1. Init => ReadingInv /\ Whole
  BY ReadingInit, WholeInit DEF Whole
<1>2. ReadingInv /\ Whole /\ [Next]_vars => ReadingInv' /\ Whole'
  <2>. SUFFICES ASSUME ReadingInv, Whole, [Next]_vars PROVE ReadingInv' /\ Whole'
    OBVIOUS
  <2>1. ReadingInv'
    BY ReadingNext
  <2>2. ASSUME origin' = "whole" PROVE \E q, which, at : WholeInv(q, which, at)'
    <3>1. origin = "whole"
      BY <2>2, OriginKept
    <3>2. PICK q, which, at : WholeInv(q, which, at)
      BY <3>1 DEF Whole
    <3>. QED
      BY <3>2, WholeNext
  <2>. QED
    BY <2>1, <2>2 DEF Whole
<1>3. ReadingInv /\ Whole => EncodedIsDecoded
  <2>. SUFFICES ASSUME ReadingInv, Whole, origin = "whole"
                PROVE  /\ Len(Encoded(kind, content)) = encode_length(kind, content)
                       /\ done => /\ Accepted
                                  /\ \A i \in DOMAIN Fields[kind] :
                                       LET f == Fields[kind][i]
                                       IN  content[f.name] = IF f.type = "varint" THEN reader[f.name].value
                                                             ELSE Bytes(reader[f.name])
    BY DEF EncodedIsDecoded
  <2>1. PICK q, which, at : WholeInv(q, which, at)
    BY DEF Whole
  <2>. QED
    BY <2>1, WholeIsDecoded
<1>. QED
  BY <1>1, <1>2, <1>3, PTL DEF Spec

(***************************************************************************)
(* A message that was cut.  All the parts are those of fields; the decoder *)
(* is at one of them, or at the end, where nothing is left to be read.     *)
(***************************************************************************)
LastField == Fields[kind][Len(Fields[kind])]

LastEmpty == reader[LastField.name] = Absent \/ reader[LastField.name].length = 0

(* When the round began at part j, the fields that decode was called for   *)
(* since are before it.                                                    *)
AtPart(at, j) == pos = at[j] /\ at[j] < end /\ (unknown = pos => j >= field)

CutInv(q, which, at) ==
  /\ Layout(q, which, at) /\ end < at[Len(q) + 1]
  /\ Len(q) = Len(Fields[kind]) /\ \A x \in 1..Len(q) : which[x] = x
  /\ LastEmpty
  /\ pos # 1 => /\ pos = end \/ \E j \in 1..Len(q) : AtPart(at, j)
                /\ unknown \in Nat /\ unknown <= pos
                /\ ~ done => unknown # end

LEMMA CutInit ==
  ASSUME Init, origin = "cut"
  PROVE  \E q, which, at : CutInv(q, which, at)
<1>1. PICK q, which, at : /\ Layout(q, which, at) /\ end < at[Len(q) + 1]
                          /\ Len(q) = Len(Fields[kind])
                          /\ \A x \in 1..Len(q) : which[x] = x
  BY CutLayout
<1>2. pos = 1 /\ LastEmpty
  <2>1. pos = 1 /\ kind \in DOMAIN Fields /\ reader = [f \in FieldNames |-> Absent]
    BY DEF Init, Nothing, FieldNames
  <2>2. Len(Fields[kind]) \in DOMAIN Fields[kind]
    BY <2>1, LastIsField
  <2>3. LastField.name \in FieldNames
    BY <2>2 DEF LastField, FieldNames
  <2>. QED
    BY <2>1, <2>3 DEF LastEmpty
<1>. QED
  BY <1>1, <1>2 DEF CutInv

(* What decode is called for next, and what there is of it.                *)
LEMMA CutTag ==
  ASSUME ReadingInv, InRound, NEW q, NEW which, NEW at, CutInv(q, which, at),
         NEW j \in 1..Len(q), AtPart(at, j)
  PROVE  HasTag <=> j = field
<1>1. Given /\ Layout(q, which, at) /\ which[j] = j /\ pos = at[j] /\ at[j] < end
  BY DEF ReadingInv, CutInv, AtPart
<1>2. field \in 1..Len(Fields[kind])
  BY FieldsAre DEF ReadingInv, Given, InRound
<1>3. input[at[j]] = Fields[kind][field].tag <=> which[j] = field
  BY <1>1, <1>2, TagAt
<1>4. pos # end
  <2>1. end \in Int
    BY <1>1, EndIs
  <2>. QED
    BY <1>1, <2>1
<1>. QED
  BY <1>1, <1>3, <1>4 DEF HasTag, This

LEMMA CutPart ==
  ASSUME ReadingInv, InRound, HasTag, NEW q, NEW which, NEW at, CutInv(q, which, at)
  PROVE  LET start  == varint_skip(pos + 1)
             rest   == Rest(This, Content(field))
             number == ValueAt(pos + 1, Values(This))
         IN  \/ \E j \in 1..Len(q) :
                  /\ start \in Nat /\ Len(rest) \in Nat /\ number = Number(This, Content(field))
                  /\ at[j + 1] = start + Len(rest) /\ at[j + 1] <= end
                  /\ pos < at[j + 1] /\ j + 1 \in 1..Len(q) /\ field # Len(Fields[kind])
             \/ pos < end /\ start = end
             \/ pos < end /\ This.type # "varint" /\ ~ Fits(number, start)
<1>. DEFINE n == Len(q)
<1>1. Given /\ Layout(q, which, at) /\ end < at[n + 1] /\ n = Len(Fields[kind])
      /\ \A x \in 1..n : which[x] = x
  BY DEF ReadingInv, CutInv
<1>2. n \in Nat \ {0} /\ \A x \in 1..(n + 1) : at[x] \in Nat \ {0} /\ at[x] >= 2
  BY <1>1, LayoutParts
<1>3. PICK j \in 1..n : AtPart(at, j)
  <2>1. pos # 1 /\ pos # end
    BY DEF InRound, HasTag
  <2>. QED
    BY <2>1 DEF CutInv
<1>4. j = field /\ field # 0 /\ field \in 1..Len(Fields[kind])
  <2>1. j = field
    BY <1>3, CutTag
  <2>. QED
    BY <1>1, <2>1
<1>5. Here(q[j], at[j]) /\ Len(q[j]) \in Nat /\ at[j + 1] = at[j] + Len(q[j])
      /\ PartOf(q[j], This, Content(field))
  <2>1. which[j] = field /\ which[j] # 0
    BY <1>1, <1>4
  <2>2. /\ Here(q[j], at[j]) /\ Len(q[j]) \in Nat /\ at[j + 1] = at[j] + Len(q[j])
        /\ IF which[j] = 0 THEN IsUnknown(q[j])
           ELSE PartOf(q[j], Fields[kind][which[j]], Content(which[j]))
    BY <1>1, LayoutParts
  <2>. QED
    BY <2>1, <2>2 DEF This
<1>6. at[j] \in Nat \ {0} /\ pos = at[j] /\ at[j] < end /\ end \in Int
  <2>1. j \in 1..(n + 1)
    BY <1>2
  <2>. QED
    BY <1>1, <1>2, <1>3, <2>1, EndIs DEF AtPart
<1>7. This.tag \in 1..127
  BY <1>1, <1>4, FieldsAre DEF This, Given
<1>. DEFINE p == at[j]
<1>. DEFINE part == q[j]
<1>. DEFINE f == This
<1>. DEFINE value == Content(field)
<1>8. Here(part, p) /\ PartOf(part, f, value) /\ p \in Nat \ {0} /\ f.tag \in 1..127
      /\ pos = p /\ p < end /\ Len(part) \in Nat /\ at[j + 1] = p + Len(part)
  BY <1>5, <1>6, <1>7
<1>. HIDE DEF p, part, f, value
<1>9. CASE p + Len(part) <= end
  <2>1. LET a == varint_skip(p + 1) IN
        /\ p < end /\ a \in Nat /\ p < a /\ p < p + Len(part)
        /\ ValueAt(p + 1, Values(f)) = Number(f, value)
        /\ p + Len(part) = a + Len(Rest(f, value)) /\ Len(Rest(f, value)) \in Nat
        /\ SubSeq(input, a, a + Len(Rest(f, value)) - 1) = Rest(f, value)
    BY <1>1, <1>8, <1>9, ReadWhole
  <2>2. j # n /\ j + 1 \in 1..n
    <3>1. at[j + 1] <= end
      BY <1>8, <1>9
    <3>2. j # n
      <4>1. n + 1 \in 1..(n + 1)
        BY <1>2
      <4>2. at[n + 1] \in Nat
        BY <1>2, <4>1
      <4>. QED
        BY <1>1, <1>6, <3>1, <4>2
    <3>. QED
      BY <1>2, <3>2
  <2>3. at[j + 1] <= end /\ pos < at[j + 1]
    BY <1>8, <1>9, <2>1
  <2>4. field # Len(Fields[kind])
    BY <1>1, <1>4, <2>2
  <2>. QED
    BY <1>8, <2>1, <2>2, <2>3, <2>4 DEF f, value
<1>10. CASE ~ (p + Len(part) <= end)
  <2>1. end < p + Len(part)
    BY <1>6, <1>8, <1>10
  <2>2. \/ varint_skip(p + 1) = end
        \/ f.type # "varint" /\ ~ Fits(ValueAt(p + 1, SIZE_T), varint_skip(p + 1))
    BY <1>1, <1>8, <2>1, ReadCut
  <2>. QED
    BY <1>8, <2>2 DEF f, Values
<1>. QED
  BY <1>9, <1>10

(* A decode that reads something goes on to the next part or to the end.   *)
LEMMA CutRead ==
  ASSUME ReadingInv, InRound, NEW q, NEW which, NEW at, CutInv(q, which, at),
         NEW value, NEW p, Decoded(This.name, value, p), pos < p, p \in Nat,
         p = end \/ (p < end /\ \E j \in 1..Len(q) : p = at[j]),
         field = Len(Fields[kind]) => value = reader[This.name] \/ value.length = 0
  PROVE  CutInv(q, which, at)'
<1>. DEFINE m == Len(Fields[kind])
<1>1. Given /\ Layout(q, which, at)
  BY DEF ReadingInv, CutInv
<1>2. UNCHANGED << kind, origin, content, input, unknown, version, done >> /\ pos' = p
      /\ reader' = [reader EXCEPT ![This.name] = value] /\ Fields' = Fields
  BY DEF Decoded, Fields, String, Varint
<1>3. Layout(q, which, at)' /\ end' = end
  BY <1>1, <1>2, LayoutKept
<1>4. field \in 1..m /\ m \in 1..m /\ DOMAIN Fields[kind] = 1..m
      /\ (field # m => Fields[kind][field].name # Fields[kind][m].name)
  BY FieldsAre DEF ReadingInv, Given, InRound
<1>5. LastEmpty'
  <2>1. This.name \in DOMAIN reader /\ LastField.name \in DOMAIN reader
    BY <1>4 DEF ReadingInv, FieldNames, This, LastField
  <2>2. LastField' = LastField /\ LastEmpty
    BY <1>2 DEF LastField, CutInv
  <2>3. CASE field = m
    <3>1. reader'[LastField.name] = value /\ (value = reader[LastField.name] \/ value.length = 0)
      BY <1>2, <2>1, <2>3 DEF This, LastField
    <3>. QED
      BY <2>2, <3>1 DEF LastEmpty, Absent
  <2>4. CASE field # m
    <3>1. reader'[LastField.name] = reader[LastField.name]
      BY <1>2, <1>4, <2>1, <2>4 DEF This, LastField
    <3>. QED
      BY <2>2, <3>1 DEF LastEmpty, Absent
  <2>. QED
    BY <2>3, <2>4
<1>6. ~ done /\ pos # 1 /\ unknown \in Nat /\ unknown <= pos /\ unknown # end /\ pos \in Nat
  <2>1. end \in Int
    BY <1>1, EndIs
  <2>. QED
    BY <2>1 DEF InRound, CutInv, ReadingInv
<1>7. unknown < p
  BY <1>6
<1>8. unknown' # pos' /\ unknown' <= pos'
  BY <1>2, <1>6, <1>7
<1>9. pos' = end' \/ \E j \in 1..Len(q) : AtPart(at, j)'
  BY <1>2, <1>3, <1>8 DEF AtPart
<1>. QED
  BY <1>2, <1>3, <1>5, <1>6, <1>8, <1>9 DEF CutInv

LEMMA CutReads ==
  ASSUME ReadingInv, ReadVarint \/ ReadString \/ StringTooLong,
         NEW q, NEW which, NEW at, CutInv(q, which, at)
  PROVE  CutInv(q, which, at)'
<1>. DEFINE m == Len(Fields[kind])
<1>. DEFINE start == varint_skip(pos + 1)
<1>. DEFINE rest == Rest(This, Content(field))
<1>. DEFINE number == ValueAt(pos + 1, Values(This))
<1>. DEFINE Next1 == \E j \in 1..Len(q) :
                       /\ start \in Nat /\ Len(rest) \in Nat /\ number = Number(This, Content(field))
                       /\ at[j + 1] = start + Len(rest) /\ at[j + 1] <= end
                       /\ pos < at[j + 1] /\ j + 1 \in 1..Len(q) /\ field # m
<1>1. InRound /\ HasTag
  BY DEF ReadVarint, ReadString, StringTooLong
<1>2. Given /\ end \in Int
  BY EndIs DEF ReadingInv
<1>3. \/ Next1
      \/ pos < end /\ start = end
      \/ pos < end /\ This.type # "varint" /\ ~ Fits(number, start)
  BY <1>1, CutPart
<1>4. pos < end /\ pos \in Nat /\ end \in Nat
  <2>1. pos \in 2..end
    BY <1>1 DEF InRound, ReadingInv
  <2>2. pos # end
    BY <1>1 DEF HasTag
  <2>. QED
    BY <1>2, <2>1, <2>2
<1>5. LastField.type = "string" /\ (field = m => This.type = "string")
  <2>1. LastField.type = "string"
    BY <1>2, FieldsAre DEF Given, LastField
  <2>. QED
    BY <2>1 DEF This, LastField
<1>. HIDE DEF start, rest, number, m
<1>6. CASE ReadVarint
  <2>1. This.type = "varint" /\ Decoded(This.name, [value |-> ValueAt(pos + 1, UINT32)], start)
    BY <1>6 DEF ReadVarint, start
  <2>2. field # m
    BY <1>5, <2>1
  <2>3. CASE Next1
    <3>1. PICK j \in 1..Len(q) : /\ start \in Nat /\ at[j + 1] = start + Len(rest) /\ at[j + 1] <= end
                                 /\ pos < at[j + 1] /\ j + 1 \in 1..Len(q)
      BY <2>3
    <3>2. Len(rest) = 0
      BY <2>1 DEF rest, Rest
    <3>3. at[j + 1] = start
      BY <3>1, <3>2
    <3>4. pos < start /\ (start = end \/ (start < end /\ \E i \in 1..Len(q) : start = at[i]))
      BY <1>2, <3>1, <3>3
    <3>. QED
      BY <1>1, <2>1, <2>2, <3>1, <3>4, CutRead DEF m
  <2>4. CASE start = end
    BY <1>1, <1>4, <2>1, <2>2, <2>4, CutRead DEF m
  <2>. QED
    BY <1>3, <2>1, <2>3, <2>4
<1>7. CASE ReadString
  <2>. DEFINE length == ValueAt(pos + 1, SIZE_T)
  <2>. DEFINE string == [at |-> start, length |-> length]
  <2>1. This.type = "string" /\ Fits(length, start) /\ Decoded(This.name, string, start + length)
    BY <1>7 DEF ReadString, start
  <2>2. number = length
    BY <2>1 DEF number, Values
  <2>3. length \in Nat
    <3>1. pos + 1 \in Nat \ {0} /\ pos + 1 <= end /\ SIZE_T \in Nat \ {0}
      BY <1>2, <1>4, FormatConstants
    <3>. QED
      BY <1>2, <3>1, SkipWithin
  <2>. HIDE DEF length
  <2>4. CASE Next1
    <3>1. PICK j \in 1..Len(q) :
            /\ start \in Nat /\ number = Number(This, Content(field))
            /\ at[j + 1] = start + Len(rest) /\ at[j + 1] <= end
            /\ pos < at[j + 1] /\ j + 1 \in 1..Len(q) /\ field # m
      BY <2>4
    <3>2. Number(This, Content(field)) = Len(rest)
      BY <2>1 DEF rest, Rest, Number
    <3>3. at[j + 1] = start + length
      BY <2>2, <3>1, <3>2
    <3>. DEFINE p == start + length
    <3>4. pos < p /\ p \in Nat /\ (p = end \/ (p < end /\ \E i \in 1..Len(q) : p = at[i]))
      BY <1>2, <2>3, <3>1, <3>3
    <3>5. Decoded(This.name, string, p)
      BY <2>1
    <3>. HIDE DEF p, string
    <3>. QED
      BY <1>1, <3>1, <3>4, <3>5, CutRead DEF m
  <2>5. CASE start = end
    <3>1. length = 0
      BY <1>2, <2>1, <2>3, <2>5 DEF Fits
    <3>2. start + length = end /\ string.length = 0
      BY <1>2, <2>5, <3>1
    <3>3. Decoded(This.name, string, end)
      BY <2>1, <3>2
    <3>. HIDE DEF string
    <3>. QED
      BY <1>1, <1>4, <3>2, <3>3, CutRead
  <2>. QED
    BY <1>3, <2>1, <2>2, <2>4, <2>5
<1>8. CASE StringTooLong
  <2>1. Decoded(This.name, reader[This.name], end)
    BY <1>8 DEF StringTooLong
  <2>. QED
    BY <1>1, <1>4, <2>1, CutRead
<1>. QED
  BY <1>6, <1>7, <1>8

LEMMA CutNotHere ==
  ASSUME ReadingInv, NotHere, NEW q, NEW which, NEW at, CutInv(q, which, at)
  PROVE  CutInv(q, which, at)'
<1>1. InRound /\ ~ HasTag /\ Decoded(This.name, reader[This.name], pos)
  BY DEF NotHere
<1>2. Given /\ Layout(q, which, at) /\ Len(q) \in Nat \ {0}
  BY LayoutParts DEF ReadingInv, CutInv
<1>3. UNCHANGED << kind, origin, content, input, unknown, version, done, pos >>
      /\ field' = field + 1 /\ reader' = [reader EXCEPT ![This.name] = reader[This.name]]
      /\ Fields' = Fields
  BY <1>1 DEF Decoded, Fields, String, Varint
<1>4. Layout(q, which, at)' /\ end' = end
  BY <1>2, <1>3, LayoutKept
<1>5. LastEmpty'
  <2>1. LastField' = LastField /\ LastEmpty
    BY <1>3 DEF LastField, CutInv
  <2>2. LastField.name \in DOMAIN reader
    <3>1. Len(Fields[kind]) \in DOMAIN Fields[kind]
      BY <1>2, LastIsField DEF Given
    <3>. QED
      BY <3>1 DEF ReadingInv, FieldNames, LastField
  <2>3. reader'[LastField.name] = reader[LastField.name]
    BY <1>3, <2>2
  <2>. QED
    BY <2>1, <2>3 DEF LastEmpty, Absent
<1>6. pos # 1 => pos' = end' \/ \E j \in 1..Len(q) : AtPart(at, j)'
  <2>. SUFFICES ASSUME NEW j \in 1..Len(q), AtPart(at, j) PROVE AtPart(at, j)'
    BY <1>3, <1>4 DEF CutInv
  <2>1. j # field
    BY <1>1, CutTag
  <2>2. j \in Int /\ field \in Int
    BY <1>2 DEF ReadingInv
  <2>3. unknown = pos => j >= field + 1
    BY <2>1, <2>2 DEF AtPart
  <2>. QED
    BY <1>3, <1>4, <2>3 DEF AtPart
<1>. QED
  BY <1>3, <1>4, <1>5, <1>6 DEF CutInv

LEMMA CutEndOfRound ==
  ASSUME ReadingInv, EndOfRound, NEW q, NEW which, NEW at, CutInv(q, which, at)
  PROVE  CutInv(q, which, at)'
<1>. DEFINE m == Len(Fields[kind])
<1>1. Given /\ Layout(q, which, at) /\ Len(q) = m /\ m \in 2..4 /\ field \in 1..(m + 1)
  BY FieldsAre DEF ReadingInv, CutInv, Given
<1>2. UNCHANGED << kind, origin, content, input, version, reader >> /\ field' = 1
      /\ unknown' = pos' /\ ~ done /\ field > m
      /\ pos' = IF unknown = pos THEN skip_unknown(pos) ELSE pos
  BY DEF EndOfRound
<1>3. IF done' THEN pos' = end ELSE pos' # end
  BY DEF EndOfRound
<1>4. Layout(q, which, at)' /\ end' = end
  BY <1>1, <1>2, LayoutKept
<1>5. LastEmpty'
  <2>1. Fields' = Fields /\ LastEmpty
    BY DEF Fields, String, Varint, CutInv
  <2>. QED
    BY <1>2, <2>1 DEF LastEmpty, LastField, Absent
<1>. HIDE DEF m
<1>6. pos # 1 /\ pos \in Nat
  <2>1. field # 1
    BY <1>1, <1>2
  <2>2. pos \in 2..end /\ end \in Int
    BY <1>1, <2>1, EndIs DEF ReadingInv
  <2>. QED
    BY <2>2
<1>7. unknown # end /\ (pos = end \/ \E j \in 1..Len(q) : AtPart(at, j))
  BY <1>2, <1>6 DEF CutInv
<1>8. unknown # pos
  <2>. SUFFICES ASSUME unknown = pos PROVE FALSE
    OBVIOUS
  <2>1. PICK j \in 1..Len(q) : AtPart(at, j)
    BY <1>7
  <2>2. j >= field
    BY <2>1 DEF AtPart
  <2>. QED
    BY <1>1, <1>2, <2>2
<1>9. pos' = pos
  BY <1>2, <1>8
<1>10. pos' = end' \/ \E j \in 1..Len(q) : AtPart(at, j)'
  <2>1. ASSUME NEW j \in 1..Len(q), AtPart(at, j) PROVE AtPart(at, j)'
    <3>1. j >= 1
      BY <1>1
    <3>. QED
      BY <1>2, <1>4, <1>9, <2>1, <3>1 DEF AtPart
  <2>. QED
    BY <1>4, <1>7, <1>9, <2>1
<1>11. unknown' \in Nat /\ unknown' <= pos' /\ (~ done' => unknown' # end')
  <2>1. unknown' = pos' /\ end' = end /\ pos' \in Nat
    BY <1>2, <1>4, <1>6, <1>9
  <2>. QED
    BY <1>3, <2>1
<1>. QED
  BY <1>2, <1>4, <1>5, <1>10, <1>11 DEF CutInv

LEMMA CutBegins ==
  ASSUME ReadingInv, TooShort \/ ReadVersion, NEW q, NEW which, NEW at, CutInv(q, which, at)
  PROVE  CutInv(q, which, at)'
<1>. DEFINE m == Len(Fields[kind])
<1>1. Given /\ Layout(q, which, at) /\ Len(q) = m /\ m \in 2..4 /\ field = 1
  BY FieldsAre DEF ReadingInv, CutInv, Given, TooShort, ReadVersion
<1>2. UNCHANGED << kind, origin, content, input, field >> /\ Fields' = Fields
  BY DEF TooShort, ReadVersion, Fields, String, Varint
<1>3. Layout(q, which, at)' /\ end' = end /\ end \in Int
  BY <1>1, <1>2, LayoutKept, EndIs
<1>4. LastField' = LastField /\ LastEmpty /\ LastField.name \in FieldNames
  <2>1. m \in DOMAIN Fields[kind]
    BY <1>1, FieldsAre DEF Given
  <2>. QED
    BY <1>2, <2>1 DEF LastField, CutInv, FieldNames
<1>5. CASE TooShort
  <2>0. Nothing = [f \in FieldNames |-> Absent]
    BY DEF Nothing, FieldNames
  <2>1. reader'[LastField.name] = Absent
    <3>1. CASE kind # "group"
      BY <1>4, <1>5, <2>0, <3>1 DEF TooShort
    <3>2. CASE kind = "group"
      <4>1. PICK has : reader' = [Nothing EXCEPT !.message_index = has]
        BY <1>5, <3>2 DEF TooShort
      <4>2. LastField.name # "message_index"
        BY <3>2 DEF LastField, Fields, String, Varint
      <4>. QED
        BY <1>4, <2>0, <4>1, <4>2
    <3>. QED
      BY <3>1, <3>2
  <2>2. LastEmpty'
    BY <1>4, <2>1 DEF LastEmpty, Absent
  <2>3. pos' = 1
    BY <1>5 DEF TooShort
  <2>. QED
    BY <1>2, <1>3, <2>2, <2>3 DEF CutInv
<1>6. CASE ReadVersion
  <2>1. pos' = 2 /\ unknown' = 2 /\ reader' = reader /\ Len(input) > Trailer[kind]
    BY <1>6 DEF ReadVersion
  <2>2. IF done' THEN end = 2 ELSE end # 2
    BY <1>6 DEF ReadVersion
  <2>3. LastEmpty'
    BY <1>4, <2>1 DEF LastEmpty, Absent
  <2>4. end >= 2
    <3>1. Trailer[kind] \in Nat /\ Len(input) \in Nat
      BY <1>1, TrailerIs, EndIs DEF Given
    <3>. QED
      BY <2>1, <3>1 DEF end
  <2>5. at[1] = 2 /\ 1 \in 1..Len(q)
    <3>1. at[1] = 2
      BY <1>1 DEF Layout, Places
    <3>2. Len(q) \in Nat \ {0}
      BY <1>1, LayoutParts
    <3>. QED
      BY <3>1, <3>2
  <2>6. pos' = end' \/ AtPart(at, 1)'
    BY <1>1, <1>2, <1>3, <2>1, <2>4, <2>5 DEF AtPart
  <2>. QED
    BY <1>2, <1>3, <2>1, <2>2, <2>3, <2>5, <2>6 DEF CutInv
<1>. QED
  BY <1>5, <1>6

LEMMA CutNext ==
  ASSUME ReadingInv, [Next]_vars, NEW q, NEW which, NEW at, CutInv(q, which, at)
  PROVE  CutInv(q, which, at)'
<1>1. CASE UNCHANGED vars
  <2>1. UNCHANGED << kind, content, input, pos, field, unknown, version, reader, done >>
        /\ Fields' = Fields
    BY <1>1 DEF vars, Fields, String, Varint
  <2>2. Layout(q, which, at)' /\ end' = end
    BY <2>1, LayoutKept DEF CutInv
  <2>3. LastEmpty' = LastEmpty
    BY <2>1 DEF LastEmpty, LastField, Absent
  <2>4. \A j : AtPart(at, j)' = AtPart(at, j)
    BY <2>1, <2>2 DEF AtPart
  <2>. QED
    BY <2>1, <2>2, <2>3, <2>4 DEF CutInv
<1>. QED
  BY <1>1, CutBegins, CutNotHere, CutReads, CutEndOfRound DEF Next

Cut == origin = "cut" => \E q, which, at : CutInv(q, which, at)

(* For all contents and widths, and wherever a message is cut: what is     *)
(* left of it is refused, or its last string is taken to be empty.         *)
THEOREM CutIsRefusedHolds == Spec => []CutIsRefused
<1>1. Init => ReadingInv /\ Cut
  BY ReadingInit, CutInit DEF Cut
<1>2. ReadingInv /\ Cut /\ [Next]_vars => ReadingInv' /\ Cut'
  <2>. SUFFICES ASSUME ReadingInv, Cut, [Next]_vars PROVE ReadingInv' /\ Cut'
    OBVIOUS
  <2>1. ReadingInv'
    BY ReadingNext
  <2>2. ASSUME origin' = "cut" PROVE \E q, which, at : CutInv(q, which, at)'
    <3>1. origin = "cut"
      BY <2>2, OriginKept
    <3>2. PICK q, which, at : CutInv(q, which, at)
      BY <3>1 DEF Cut
    <3>. QED
      BY <3>2, CutNext
  <2>. QED
    BY <2>1, <2>2 DEF Cut
<1>3. ReadingInv /\ Cut => CutIsRefused
  <2>. SUFFICES ASSUME ReadingInv, Cut, origin = "cut", Accepted
                PROVE  reader[Last(Fields[kind]).name].length = 0
    BY DEF CutIsRefused
  <2>1. LastEmpty
    <3>1. PICK q, which, at : CutInv(q, which, at)
      BY DEF Cut
    <3>. QED
      BY <3>1 DEF CutInv
  <2>2. Last(Fields[kind]) = LastField
    BY DEF Last, LastField
  <2>3. Has(LastField.name)
    <3>1. CASE kind = "message"
      BY <3>1 DEF Accepted, LastField, Fields, String, Varint
    <3>2. CASE kind = "pre_key"
      BY <3>2 DEF Accepted, check_message_fields, LastField, Fields, String, Varint
    <3>3. CASE kind = "group"
      BY <3>3 DEF Accepted, LastField, Fields, String, Varint
    <3>4. kind \in {"message", "pre_key", "group"}
      BY DEF ReadingInv, Given, Fields
    <3>. QED
      BY <3>1, <3>2, <3>3, <3>4
  <2>. QED
    BY <2>1, <2>2, <2>3 DEF LastEmpty, Has
<1>. QED
  BY <1>1, <1>2, <1>3, PTL DEF Spec

=============================================================================
