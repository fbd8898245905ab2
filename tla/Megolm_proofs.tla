---------------------------- MODULE Megolm_proofs ----------------------------
(***************************************************************************)
(* Theorems about the Megolm ratchet and the two ways to advance it, for a *)
(* radix of any size.                                                      *)
(*                                                                         *)
(* The argument.  Let n be the number of a message without its wrap, and   *)
(* Up(n, j) how often the digit of part j has turned since 0.  A jump from *)
(* c to n rehashes part j by Turns(c, n, j): by the turns in between, or,  *)
(* if a part before it was rehashed and j was reseeded by that, by the     *)
(* digit of n (JumpIs).  From n to n + 1 the digit of one part, h, goes up *)
(* by one, those before it stay, and those after it become 0: so a jump    *)
(* that is one longer rehashes h once more and nothing after it, which is  *)
(* what a single step does to its result (JumpThenStep).  Jumps that end   *)
(* where the next starts are one jump (JumpsCompose), by induction.        *)
(***************************************************************************)
EXTENDS MegolmCatchUp, SequenceTheorems, WellFoundedInduction, TLAPS

(***************************************************************************)
(* Induction.                                                              *)
(***************************************************************************)
(* A set of numbers that is not empty has a least element. *)
LEMMA LeastNumber ==
  ASSUME NEW T, T \subseteq Nat, T # {}
  PROVE  \E x \in T : \A y \in T : ~ (y < x)
<1>. DEFINE R == { ss \in Nat \X Nat : ss[1] < ss[2] }
<1>1. IsWellFoundedOn(R, Nat)
  BY NatLessThanWellFounded DEF OpToRel
<1>. HIDE DEF R
<1>2. \E x \in T : \A y \in T : ~ (<< y, x >> \in R)
  BY <1>1, WFMin
<1>. QED
  BY <1>2 DEF R

(* A set of numbers with 0, and with n + 1 for each n in it, has them all. *)
LEMMA Numbers ==
  ASSUME NEW T, T \subseteq Nat, 0 \in T, \A n \in T : n + 1 \in T
  PROVE  T = Nat
<1>. SUFFICES ASSUME T # Nat PROVE FALSE
  OBVIOUS
<1>1. PICK x \in Nat \ T : \A y \in Nat \ T : ~ (y < x)
  BY LeastNumber
<1>2. x - 1 \in Nat
  BY <1>1
<1>. QED
  BY <1>1, <1>2

(* A function that is defined by recursion over the numbers exists: for    *)
(* each n there is just one that follows the rule up to n, and what each   *)
(* of them has at its end makes up the whole.                              *)
Recurs(f, x0, g) == \A n \in Nat : f[n] = IF n = 0 THEN x0 ELSE g[f[n - 1]]

LEMMA Recursion ==
  ASSUME NEW S, NEW x0 \in S, NEW g \in [S -> S]
  PROVE  \E f \in [Nat -> S] : Recurs(f, x0, g)
<1>. DEFINE Upto(n) == { f \in [0..n -> S] : f[0] = x0 /\ \A i \in 1..n : f[i] = g[f[i - 1]] }
<1>. DEFINE T == { n \in Nat : \E f \in Upto(n) : \A h \in Upto(n) : h = f }
<1>1. 0 \in T
  <2>1. [i \in 0..0 |-> x0] \in Upto(0)
    OBVIOUS
  <2>2. \A h \in Upto(0) : h = [i \in 0..0 |-> x0]
    OBVIOUS
  <2>. QED
    BY <2>1, <2>2
<1>2. ASSUME NEW n \in Nat, NEW h \in Upto(n + 1)
      PROVE  [i \in 0..n |-> h[i]] \in Upto(n)
  <2>. DEFINE k == [i \in 0..n |-> h[i]]
  <2>1. k \in [0..n -> S]
    OBVIOUS
  <2>2. k[0] = x0
    OBVIOUS
  <2>3. \A i \in 1..n : k[i] = g[k[i - 1]]
    OBVIOUS
  <2>. QED
    BY <2>1, <2>2, <2>3
<1>3. ASSUME NEW n \in T PROVE n + 1 \in T
  <2>1. PICK f \in Upto(n) : \A h \in Upto(n) : h = f
    OBVIOUS
  <2>. DEFINE k == [i \in 0..(n + 1) |-> IF i = n + 1 THEN g[f[n]] ELSE f[i]]
  <2>2. n \in Nat
    OBVIOUS
  <2>3. k \in Upto(n + 1)
    <3>1. k \in [0..(n + 1) -> S]
      BY <2>2
    <3>2. k[0] = x0
      BY <2>2
    <3>3. \A i \in 1..(n + 1) : k[i] = g[k[i - 1]]
      BY <2>2
    <3>. QED
      BY <3>1, <3>2, <3>3
  <2>4. ASSUME NEW h \in Upto(n + 1) PROVE h = k
    <3>1. [i \in 0..n |-> h[i]] = f
      BY <1>2, <2>1, <2>2
    <3>2. \A i \in 0..n : h[i] = f[i]
      BY <3>1
    <3>3. h[n + 1] = g[h[n]]
      BY <2>2
    <3>. QED
      BY <2>2, <3>2, <3>3
  <2>5. n + 1 \in Nat /\ \A h \in Upto(n + 1) : h = k
    BY <2>2, <2>4
  <2>. HIDE DEF k, Upto
  <2>. QED
    BY <2>3, <2>5
<1>4. T = Nat
  <2>1. T \subseteq Nat
    OBVIOUS
  <2>. HIDE DEF T
  <2>. QED
    BY <1>1, <1>3, <2>1, Numbers
<1>. DEFINE F == [n \in Nat |-> CHOOSE f \in Upto(n) : TRUE]
<1>5. \A n \in Nat : F[n] \in Upto(n) /\ \A h \in Upto(n) : h = F[n]
  BY <1>4
<1>. DEFINE w == [n \in Nat |-> F[n][n]]
<1>. HIDE DEF F, T
<1>6. w \in [Nat -> S]
  BY <1>5
<1>7. w[0] = x0
  BY <1>5
<1>8. ASSUME NEW n \in Nat \ {0} PROVE w[n] = g[w[n - 1]]
  <2>1. n - 1 \in Nat /\ (n - 1) + 1 = n /\ n \in 1..n /\ n - 1 \in 0..(n - 1)
    OBVIOUS
  <2>2. F[n] \in Upto(n)
    BY <1>5
  <2>3. F[n][n] = g[F[n][n - 1]]
    BY <2>1, <2>2
  <2>4. [i \in 0..(n - 1) |-> F[n][i]] \in Upto(n - 1)
    <3>. DEFINE k == n - 1
    <3>1. k \in Nat /\ F[n] \in Upto(k + 1)
      BY <2>1, <2>2
    <3>. HIDE DEF k
    <3>2. [i \in 0..k |-> F[n][i]] \in Upto(k)
      BY <1>2, <3>1
    <3>. QED
      BY <3>2 DEF k
  <2>5. [i \in 0..(n - 1) |-> F[n][i]] = F[n - 1]
    BY <1>5, <2>1, <2>4
  <2>6. F[n][n - 1] = F[n - 1][n - 1]
    BY <2>1, <2>5
  <2>. QED
    BY <2>1, <2>3, <2>6
<1>9. \A n \in Nat : w[n] = IF n = 0 THEN x0 ELSE g[w[n - 1]]
  BY <1>7, <1>8
<1>. HIDE DEF w
<1>. QED
  BY <1>6, <1>9 DEF Recurs

(***************************************************************************)
(* Division.                                                               *)
(***************************************************************************)
(* Quotient and remainder of a number. *)
LEMMA Division ==
  ASSUME NEW n \in Int, NEW w \in Nat \ {0}
  PROVE  /\ n \div w \in Int /\ n % w \in 0..(w - 1)
         /\ n = w * (n \div w) + (n % w)
  OBVIOUS

(* They are what multiplies to the number. *)
LEMMA Quotient ==
  ASSUME NEW w \in Nat \ {0}, NEW q \in Int, NEW r \in 0..(w - 1)
  PROVE  (w * q + r) \div w = q /\ (w * q + r) % w = r
<1>. DEFINE n == w * q + r
<1>. DEFINE p == n \div w
<1>. DEFINE s == n % w
<1>1. n \in Int /\ p \in Int /\ s \in 0..(w - 1) /\ n = w * p + s
  BY Division
<1>. HIDE DEF p, s
<1>2. w * (q - p) = s - r
  BY <1>1
<1>. DEFINE d == q - p
<1>3. d \in Int /\ w * d = s - r
  BY <1>1, <1>2
<1>. HIDE DEF d
<1>4. ~ (d >= 1)
  <2>. SUFFICES ASSUME d >= 1 PROVE FALSE
    OBVIOUS
  <2>1. w * d >= w
    BY <1>3
  <2>. QED
    BY <2>1, <1>1, <1>3
<1>5. ~ (d <= -1)
  <2>. SUFFICES ASSUME d <= -1 PROVE FALSE
    OBVIOUS
  <2>1. w * d <= -w
    BY <1>3
  <2>. QED
    BY <2>1, <1>1, <1>3
<1>6. d = 0
  BY <1>3, <1>4, <1>5
<1>7. q = p /\ r = s
  BY <1>6, <1>3, <1>1 DEF d
<1>. QED
  BY <1>7 DEF p, s


(* A step moves the quotient on where nothing remains. *)
LEMMA NextQuotient ==
  ASSUME NEW n \in Nat, NEW w \in Nat \ {0}
  PROVE  (n + 1) \div w = IF (n + 1) % w = 0 THEN n \div w + 1 ELSE n \div w
<1>. DEFINE q == n \div w
<1>. DEFINE r == n % w
<1>1. q \in Int /\ r \in 0..(w - 1) /\ n = w * q + r
  BY Division
<1>. HIDE DEF q, r
<1>2. CASE r = w - 1
  <2>1. w * (q + 1) = w * q + w
    BY <1>1
  <2>2. n + 1 = w * (q + 1) + 0 /\ q + 1 \in Int /\ 0 \in 0..(w - 1)
    BY <1>1, <1>2, <2>1
  <2>3. (n + 1) \div w = q + 1 /\ (n + 1) % w = 0
    BY <2>2, Quotient
  <2>. QED
    BY <2>3 DEF q
<1>3. CASE r # w - 1
  <2>1. n + 1 = w * q + (r + 1) /\ r + 1 \in 0..(w - 1)
    BY <1>1, <1>3
  <2>2. (n + 1) \div w = q /\ (n + 1) % w = r + 1
    BY <2>1, <1>1, Quotient
  <2>3. r + 1 # 0
    BY <1>1
  <2>. QED
    BY <2>2, <2>3 DEF q
<1>. QED
  BY <1>2, <1>3

(* Names for quotient and remainder, for the steps that only need the      *)
(* lemmas about them.                                                      *)
Div(n, w) == n \div w
Mod(n, w) == n % w

(* Whole turns less. *)
LEMMA LessTurns ==
  ASSUME NEW n \in Int, NEW w \in Nat \ {0}, NEW k \in Int, NEW m \in Int, m = n - w * k
  PROVE  Div(m, w) = Div(n, w) - k /\ Mod(m, w) = Mod(n, w)
<1>. DEFINE q == n \div w
<1>. DEFINE r == n % w
<1>1. q \in Int /\ r \in 0..(w - 1) /\ n = w * q + r
  BY Division
<1>. HIDE DEF q, r
<1>2. w * (q - k) = w * q - w * k
  BY <1>1
<1>3. m = w * (q - k) + r /\ q - k \in Int
  BY <1>1, <1>2
<1>4. m \div w = q - k /\ m % w = r
  BY <1>1, <1>3, Quotient
<1>. QED
  BY <1>4 DEF q, r, Div, Mod

LEMMA LaterRemainder ==
  ASSUME NEW n \in Nat, NEW w \in Nat \ {0}, NEW e \in Nat
  PROVE  ((n % w) + e) % w = (n + e) % w
<1>. DEFINE q == n \div w
<1>. DEFINE r == n % w
<1>1. q \in Int /\ r \in 0..(w - 1) /\ n = w * q + r
  BY Division
<1>. HIDE DEF q, r
<1>2. r + e = (n + e) - w * q /\ n + e \in Int /\ r + e \in Int
  BY <1>1
<1>. DEFINE x == n + e
<1>. DEFINE y == r + e
<1>3. x \in Int /\ y \in Int /\ q \in Int /\ y = x - w * q
  BY <1>1, <1>2
<1>4. Mod(y, w) = Mod(x, w)
  <2>. HIDE DEF x, y
  <2>. QED
    BY <1>3, LessTurns, ZenonT(60)
<1>. QED
  BY <1>4 DEF Mod, r

(* A quotient of a quotient. *)
LEMMA QuotientTwice ==
  ASSUME NEW n \in Nat, NEW w \in Nat \ {0}, NEW v \in Nat \ {0}
  PROVE  n \div (v * w) = (n \div w) \div v
<1>. DEFINE q == n \div w
<1>. DEFINE r == n % w
<1>. DEFINE p == q \div v
<1>. DEFINE s == q % v
<1>1. q \in Int /\ r \in 0..(w - 1) /\ n = w * q + r
  BY Division
<1>2. p \in Int /\ s \in 0..(v - 1) /\ q = v * p + s
  BY <1>1, Division
<1>. HIDE DEF q, r, p, s
<1>3. w * (v * p + s) = (v * w) * p + w * s
  BY <1>1, <1>2
<1>4. n = (v * w) * p + (w * s + r)
  BY <1>1, <1>2, <1>3
<1>5. w * s + r \in 0..(v * w - 1)
  <2>1. 0 <= w * s
    BY <1>2
  <2>2. w * s <= w * (v - 1)
    BY <1>2
  <2>3. w * (v - 1) = v * w - w
    OBVIOUS
  <2>. QED
    BY <1>1, <1>2, <2>1, <2>2, <2>3
<1>6. v * w \in Nat \ {0}
  OBVIOUS
<1>7. n \div (v * w) = p
  BY <1>2, <1>4, <1>5, <1>6, Quotient
<1>. QED
  BY <1>7 DEF p, q


(***************************************************************************)
(* The digits of a counter.                                                *)
(***************************************************************************)
(* How often the digit of part j has turned when the counter, that does    *)
(* not wrap here, is n.                                                    *)
Up(n, j) == n \div Weight(j)

(* How often the jump from c to n rehashes part j. *)
Turns(c, n, j) ==
  IF j = 0 THEN Up(n, 0) - Up(c, 0)
  ELSE IF Up(n, j - 1) = Up(c, j - 1) THEN Up(n, j) - Up(c, j)
  ELSE Up(n, j) % Radix

(* The counter of the ratchet after part j of the jump. *)
After(c, n, j) == IF Up(n, j) = Up(c, j) THEN c ELSE Masked(n % Counters, j)

(* A counter, and a number that is ahead of it by less than a whole turn. *)
Ahead(c, n) == c \in 0..(Counters - 1) /\ n \in Nat /\ c <= n /\ n < c + Counters

(* Every digit has the same number of values. *)
LEMMA Weights ==
  /\ Weight(3) = 1
  /\ \A j \in 1..3 : Weight(j - 1) = Radix * Weight(j)
  /\ Counters = Radix * Weight(0)
  /\ \A j \in Part : Weight(j) \in Nat \ {0}
  /\ Counters \in Nat \ {0} /\ Radix \in Nat \ {0, 1}
<1>1. Radix \in Nat \ {0, 1}
  BY MegolmConstants
<1>2. Radix * Radix \in Nat \ {0} /\ Radix * (Radix * Radix) \in Nat \ {0}
  BY <1>1
<1>3. Weight(0) = Radix * (Radix * Radix) /\ Weight(1) = Radix * Radix
      /\ Weight(2) = Radix /\ Weight(3) = 1
  BY DEF Weight
<1>4. \A j \in 1..3 : Weight(j - 1) = Radix * Weight(j)
  <2>1. \A j \in 1..3 : j = 1 \/ j = 2 \/ j = 3
    OBVIOUS
  <2>2. Weight(1 - 1) = Radix * Weight(1)
    BY <1>3
  <2>3. Weight(2 - 1) = Radix * Weight(2)
    BY <1>3
  <2>4. Weight(3 - 1) = Radix * Weight(3)
    BY <1>1, <1>3
  <2>. QED
    BY <2>1, <2>2, <2>3, <2>4
<1>5. \A j \in Part : Weight(j) \in Nat \ {0}
  BY <1>1, <1>2, <1>3 DEF Part
<1>6. Counters = Radix * Weight(0) /\ Counters \in Nat \ {0}
  BY <1>1, <1>2, <1>3 DEF Counters
<1>. QED
  BY <1>1, <1>3, <1>4, <1>5, <1>6

(* The digit before turns when this one has gone by all of its values. *)
LEMMA UpTwice ==
  ASSUME NEW n \in Nat, NEW j \in 1..3
  PROVE  Up(n, j - 1) = Up(n, j) \div Radix
<1>1. Weight(j) \in Nat \ {0} /\ Weight(j - 1) = Radix * Weight(j) /\ Radix \in Nat \ {0}
  BY Weights DEF Part
<1>. QED
  BY <1>1, QuotientTwice DEF Up

(* Up and the digits are numbers, and grow with n. *)
LEMMA UpType ==
  ASSUME NEW n \in Nat, NEW j \in Part
  PROVE  Up(n, j) \in Nat /\ Up(n, j) % Radix \in 0..(Radix - 1)
<1>1. Weight(j) \in Nat \ {0} /\ Radix \in Nat \ {0}
  BY Weights
<1>2. \A w, r \in Nat \ {0} : n \div w \in Nat /\ (n \div w) % r \in 0..(r - 1)
  OBVIOUS
<1>. QED
  BY <1>1, <1>2 DEF Up

(* A digit, and what was before it. *)
LEMMA UpDigit ==
  ASSUME NEW n \in Nat, NEW j \in 1..3
  PROVE  Up(n, j) = Radix * Up(n, j - 1) + (Up(n, j) % Radix)
<1>1. j \in Part
  BY DEF Part
<1>2. Up(n, j) \in Nat /\ Radix \in Nat \ {0}
  BY <1>1, UpType, Weights
<1>3. \A u \in Nat, r \in Nat \ {0} : u = r * (u \div r) + (u % r)
  OBVIOUS
<1>4. Up(n, j) = Radix * (Up(n, j) \div Radix) + (Up(n, j) % Radix)
  BY <1>2, <1>3
<1>. QED
  BY <1>4, UpTwice

(* The wrap of the counter changes no digit. *)
LEMMA Wrapped ==
  ASSUME NEW n \in Nat, NEW j \in Part
  PROVE  /\ n % Counters \in 0..(Counters - 1)
         /\ Up(n % Counters, j) % Radix = Up(n, j) % Radix
         /\ (n % Counters) % Weight(j) = n % Weight(j)
         /\ Up(n % Counters, 0) = Up(n, 0) - Radix * (n \div Counters)
         /\ n \div Counters \in Nat
<1>1. Counters \in Nat \ {0} /\ Radix \in Nat \ {0} /\ Weight(j) \in Nat \ {0}
  BY Weights
<1>0. n \in Int
  OBVIOUS
<1>. DEFINE q == n \div Counters
<1>. DEFINE t == n % Counters
<1>2. q \in Nat /\ t \in 0..(Counters - 1) /\ t = n - Counters * q
  <2>1. \A w \in Nat \ {0} : n \div w \in Nat /\ n % w \in 0..(w - 1)
                              /\ n % w = n - w * (n \div w)
    OBVIOUS
  <2>. QED
    BY <1>1, <2>1
<1>. HIDE DEF q, t
<1>3. \A i \in Part : \E k \in Nat : Counters = Weight(i) * (Radix * k)
  <2>1. Counters = Weight(0) * (Radix * 1)
    BY Weights DEF Part
  <2>2. Counters = Weight(1) * (Radix * Radix)
    <3>1. Weight(0) = Radix * Weight(1) /\ Weight(1) \in Nat
      BY Weights DEF Part
    <3>2. Radix * (Radix * Weight(1)) = Weight(1) * (Radix * Radix)
      BY <1>1, <3>1
    <3>. QED
      BY <3>1, <3>2, Weights
  <2>3. Counters = Weight(2) * (Radix * (Radix * Radix))
    <3>1. Weight(0) = Radix * Weight(1) /\ Weight(1) = Radix * Weight(2) /\ Weight(2) \in Nat
      BY Weights DEF Part
    <3>2. Radix * (Radix * (Radix * Weight(2))) = Weight(2) * (Radix * (Radix * Radix))
      BY <1>1, <3>1
    <3>. QED
      BY <3>1, <3>2, Weights
  <2>4. Counters = Weight(3) * (Radix * Weight(0))
    <3>1. Radix * Weight(0) \in Nat /\ Weight(3) = 1
      BY Weights DEF Part
    <3>. QED
      BY <3>1, Weights
  <2>5. 1 \in Nat /\ Radix \in Nat /\ Weight(0) \in Nat /\ Radix * Radix \in Nat
    BY <1>1, Weights DEF Part
  <2>6. Radix * (Radix * Radix) \in Nat
    BY <1>1
  <2>7. /\ \E k \in Nat : Counters = Weight(0) * (Radix * k)
        /\ \E k \in Nat : Counters = Weight(1) * (Radix * k)
        /\ \E k \in Nat : Counters = Weight(2) * (Radix * k)
        /\ \E k \in Nat : Counters = Weight(3) * (Radix * k)
    BY <1>1, <2>1, <2>2, <2>3, <2>4, <2>5, <2>6, Zenon
  <2>8. \A i \in Part : i = 0 \/ i = 1 \/ i = 2 \/ i = 3
    BY DEF Part
  <2>. QED
    BY <2>7, <2>8, Zenon
<1>4. PICK k \in Nat : Counters = Weight(j) * (Radix * k)
  BY <1>3
<1>5. Counters * q = Weight(j) * (Radix * (k * q))
  BY <1>1, <1>2, <1>4
<1>. DEFINE l == k * q
<1>6. l \in Nat /\ Radix * l \in Int
  BY <1>1, <1>2
<1>. HIDE DEF l
<1>7. t = n - Weight(j) * (Radix * l) /\ t \in Int
  BY <1>2, <1>5 DEF l
<1>8. Up(t, j) = Up(n, j) - Radix * l /\ t % Weight(j) = n % Weight(j)
  <2>. DEFINE w == Weight(j)
  <2>. DEFINE k1 == Radix * l
  <2>1. w \in Nat \ {0} /\ k1 \in Int /\ t = n - w * k1 /\ t \in Int
    BY <1>1, <1>6, <1>7
  <2>. HIDE DEF w, k1
  <2>2. Div(t, w) = Div(n, w) - k1
    BY <1>0, <2>1, LessTurns, ZenonT(30)
  <2>3. Mod(t, w) = Mod(n, w)
    BY <1>0, <2>1, LessTurns, ZenonT(30)
  <2>. QED
    BY <2>2, <2>3 DEF w, k1, Up, Div, Mod
<1>9. Up(t, j) % Radix = Up(n, j) % Radix
  <2>. DEFINE u == Up(t, j)
  <2>1. Up(n, j) \in Nat
    BY UpType
  <2>. HIDE DEF u
  <2>2. u = Up(n, j) - Radix * l /\ u \in Int
    BY <1>8, <2>1, <1>6 DEF u
  <2>3. Mod(u, Radix) = Mod(Up(n, j), Radix)
    <3>1. \A x \in Nat : x \in Int
      OBVIOUS
    <3>2. Up(n, j) \in Int /\ l \in Int
      BY <1>6, <2>1, <3>1
    <3>. QED
      BY <1>1, <2>2, <3>2, LessTurns, ZenonT(30)
  <2>. QED
    BY <2>3 DEF u, Mod
<1>10. Up(t, 0) = Up(n, 0) - Radix * q
  <2>. DEFINE w == Weight(0)
  <2>1. Counters = w * Radix /\ w \in Nat \ {0}
    BY Weights DEF Part
  <2>. HIDE DEF w
  <2>. DEFINE k1 == Radix * q
  <2>2. Counters * q = w * k1 /\ k1 \in Int
    BY <1>1, <1>2, <2>1
  <2>. HIDE DEF k1
  <2>3. t = n - w * k1 /\ t \in Int
    BY <1>2, <2>2
  <2>4. Div(t, w) = Div(n, w) - k1
    BY <1>0, <2>1, <2>2, <2>3, LessTurns
  <2>. QED
    BY <2>4 DEF w, k1, Up, Div
<1>. QED
  BY <1>2, <1>8, <1>9, <1>10 DEF q, t


(* A larger number has gone by no fewer turns. *)
LEMMA UpGrows ==
  ASSUME NEW c \in Nat, NEW n \in Nat, c <= n, NEW j \in Part
  PROVE  Up(c, j) <= Up(n, j)
<1>. DEFINE w == Weight(j)
<1>. DEFINE a == c \div w
<1>. DEFINE b == n \div w
<1>1. w \in Nat \ {0}
  BY Weights
<1>. HIDE DEF w
<1>2. a \in Int /\ b \in Int /\ w * a <= c /\ n < w * b + w
  BY <1>1
<1>. HIDE DEF a, b
<1>3. w * a < w * b + w
  BY <1>1, <1>2
<1>4. a <= b
  <2>. SUFFICES ASSUME b + 1 <= a PROVE FALSE
    BY <1>2
  <2>1. w * (b + 1) <= w * a
    BY <1>1, <1>2
  <2>2. w * (b + 1) = w * b + w
    BY <1>1, <1>2
  <2>. QED
    BY <1>1, <1>2, <1>3, <2>1, <2>2
<1>. QED
  BY <1>4 DEF a, b, w, Up

(* What is a multiple, and what a multiple is cut down to. *)
LEMMA MaskedIs ==
  ASSUME NEW t \in Nat, NEW j \in Part
  PROVE  /\ Masked(t, j) = Weight(j) * Up(t, j)
         /\ Masked(t, j) \in Nat /\ Masked(t, j) <= t
<1>. DEFINE w == Weight(j)
<1>1. w \in Nat \ {0}
  BY Weights
<1>. HIDE DEF w
<1>2. t - (t % w) = w * (t \div w) /\ t - (t % w) \in Nat /\ t - (t % w) <= t
  <2>1. t \div w \in Nat /\ t % w \in 0..(w - 1) /\ t = w * (t \div w) + (t % w)
    BY <1>1
  <2>2. w * (t \div w) >= 0
    BY <1>1, <2>1
  <2>. QED
    BY <1>1, <2>1, <2>2
<1>. QED
  BY <1>2 DEF w, Masked, Up

(* The turns of a part since the last turn of the part before. *)
LEMMA UpMasked ==
  ASSUME NEW t \in Nat, NEW j \in 1..3
  PROVE  Up(Masked(t, j - 1), j) = Radix * Up(t, j - 1)
<1>. DEFINE w == Weight(j)
<1>. DEFINE k == Radix * Up(t, j - 1)
<1>1. j \in Part /\ j - 1 \in Part
  BY DEF Part
<1>2. w \in Nat \ {0} /\ Weight(j - 1) = Radix * w /\ Radix \in Nat \ {0}
  BY <1>1, Weights
<1>3. Up(t, j - 1) \in Nat
  BY <1>1, UpType
<1>4. Masked(t, j - 1) = (Radix * w) * Up(t, j - 1)
  BY <1>1, <1>2, MaskedIs
<1>. HIDE DEF w
<1>5. k \in Int /\ (Radix * w) * Up(t, j - 1) = w * k + 0
  BY <1>2, <1>3
<1>. HIDE DEF k
<1>6. (w * k + 0) \div w = k
  BY <1>2, <1>5, Quotient
<1>. QED
  BY <1>4, <1>5, <1>6 DEF w, k, Up

(* No turn of a part without one of the parts after it. *)
LEMMA SameBefore ==
  ASSUME NEW c \in Nat, NEW n \in Nat, NEW j \in 1..3, Up(n, j) = Up(c, j)
  PROVE  Up(n, j - 1) = Up(c, j - 1) /\ Up(n, 0) = Up(c, 0)
<1>1. \A i \in 1..3 : Up(n, i) = Up(c, i) => Up(n, i - 1) = Up(c, i - 1)
  BY UpTwice
<1>2. Up(n, 3) = Up(c, 3) => Up(n, 2) = Up(c, 2)
  <2>1. 3 - 1 = 2 /\ 3 \in 1..3
    OBVIOUS
  <2>. QED
    BY <1>1, <2>1
<1>3. Up(n, 2) = Up(c, 2) => Up(n, 1) = Up(c, 1)
  <2>1. 2 - 1 = 1 /\ 2 \in 1..3
    OBVIOUS
  <2>. QED
    BY <1>1, <2>1
<1>4. Up(n, 1) = Up(c, 1) => Up(n, 0) = Up(c, 0)
  <2>1. 1 - 1 = 0 /\ 1 \in 1..3
    OBVIOUS
  <2>. QED
    BY <1>1, <2>1
<1>5. j = 1 \/ j = 2 \/ j = 3
  OBVIOUS
<1>. QED
  BY <1>1, <1>2, <1>3, <1>4, <1>5

(* A counter that has not wrapped around. *)
LEMMA NotWrapped ==
  ASSUME NEW n \in Nat
  PROVE  /\ n < Counters <=> Up(n, 0) < Radix
         /\ n < Counters => n % Counters = n
<1>. DEFINE w == Weight(0)
<1>. DEFINE u == n \div w
<1>1. w \in Nat \ {0} /\ Counters = Radix * w /\ Radix \in Nat \ {0} /\ Counters \in Nat \ {0}
  BY Weights DEF Part
<1>. HIDE DEF w
<1>2. u \in Nat /\ w * u <= n /\ n < w * u + w
  BY <1>1
<1>. HIDE DEF u
<1>3. ASSUME u < Radix PROVE n < Counters
  <2>1. w * (u + 1) <= w * Radix
    BY <1>1, <1>2, <1>3
  <2>2. w * (u + 1) = w * u + w /\ w * Radix = Radix * w
    BY <1>1, <1>2
  <2>. QED
    BY <1>1, <1>2, <2>1, <2>2
<1>4. ASSUME u >= Radix PROVE n >= Counters
  <2>1. w * Radix <= w * u /\ w * Radix = Radix * w
    BY <1>1, <1>2, <1>4
  <2>. QED
    BY <1>1, <1>2, <2>1
<1>5. \A C \in Nat \ {0} : n < C => n % C = n
  OBVIOUS
<1>6. Up(n, 0) = u
  BY DEF Up, u, w
<1>. QED
  BY <1>1, <1>2, <1>3, <1>4, <1>5, <1>6


(***************************************************************************)
(* The loop of a jump.                                                     *)
(***************************************************************************)
(* The first part: the only one that may turn by all of its values. *)
LEMMA FirstTurn ==
  ASSUME NEW c, NEW n, Ahead(c, n), NEW data
  PROVE  LET m == [data |-> data, counter |-> c]
         IN  /\ Steps(m, 0, n % Counters) = Turns(c, n, 0)
             /\ Turns(c, n, 0) \in Nat
             /\ After(c, n, 0) = IF Turns(c, n, 0) = 0 THEN c ELSE Masked(n % Counters, 0)
<1>. DEFINE t == n % Counters
<1>. DEFINE u == Up(n, 0)
<1>. DEFINE v == Up(c, 0)
<1>. DEFINE x == Up(t, 0)
<1>. DEFINE q == n \div Counters
<1>1. Radix \in Nat \ {0} /\ Counters \in Nat \ {0} /\ c \in Nat /\ n \in Nat /\ c <= n
      /\ c < Counters /\ n < c + Counters /\ 0 \in Part
  BY Weights DEF Ahead, Part
<1>2. t \in 0..(Counters - 1) /\ x = u - Radix * q /\ q \in Nat
  BY <1>1, Wrapped
<1>3. u \in Nat /\ v \in Nat /\ x \in Nat /\ v <= u
  <2>1. t \in Nat
    BY <1>1, <1>2
  <2>2. \A i \in Nat : Up(i, 0) \in Nat
    BY <1>1, UpType
  <2>3. v <= u
    BY <1>1, UpGrows
  <2>. QED
    BY <1>1, <2>1, <2>2, <2>3
<1>4. v < Radix
  BY <1>1, NotWrapped
<1>5. t = n - Counters * q
  <2>1. \A C \in Nat \ {0} : n % C = n - C * (n \div C)
    BY <1>1
  <2>. QED
    BY <1>1, <2>1
<1>6. Steps([data |-> data, counter |-> c], 0, t) =
        IF (x - v) % Radix = 0 /\ t < c THEN Radix ELSE (x - v) % Radix
  BY DEF Steps, Up
<1>7. Turns(c, n, 0) = u - v
  BY DEF Turns
<1>a. After(c, n, 0) = IF u = v THEN c ELSE Masked(t, 0)
  BY DEF After
<1>b. SUFFICES /\ Steps([data |-> data, counter |-> c], 0, t) = u - v
               /\ u - v \in Nat
  BY <1>3, <1>7, <1>a
<1>. HIDE DEF t, u, v, x, q
<1>8. q = 0 \/ q = 1
  <2>. SUFFICES ASSUME q >= 2 PROVE FALSE
    BY <1>2
  <2>1. Counters * q >= Counters * 2
    BY <1>1, <1>2
  <2>. QED
    BY <1>1, <1>2, <1>5, <2>1
<1>9. CASE q = 0
  <2>1. x = u /\ t = n
    BY <1>1, <1>2, <1>3, <1>5, <1>9
  <2>2. u < Radix
    <3>1. n < Counters
      BY <1>1, <1>2, <2>1
    <3>. QED
      BY <1>1, <3>1, NotWrapped DEF u
  <2>3. \A r \in Nat \ {0}, d \in Nat : d < r => d % r = d
    OBVIOUS
  <2>4. u - v \in Nat /\ u - v < Radix
    BY <1>1, <1>3, <2>2
  <2>5. (u - v) % Radix = u - v
    BY <1>1, <2>3, <2>4
  <2>6. ~ (t < c)
    BY <1>1, <2>1
  <2>. QED
    BY <1>6, <2>1, <2>4, <2>5, <2>6
<1>10. CASE q = 1
  <2>1. x = u - Radix /\ t = n - Counters
    BY <1>1, <1>2, <1>3, <1>5, <1>10
  <2>2. t < c
    BY <1>1, <2>1
  <2>3. x <= v
    <3>1. t \in Nat /\ t <= c
      BY <1>1, <1>2, <2>2
    <3>. QED
      BY <1>1, <3>1, UpGrows DEF x, v
  <2>4. \A r \in Nat \ {0}, d \in Nat : d < r => (d - r) % r = d
    <3>1. \A r \in Nat \ {0}, d \in Nat : d < r => (r * (-1) + d) % r = d
      <4>1. -1 \in Int
        OBVIOUS
      <4>. QED
        BY <4>1, Quotient
    <3>2. \A r \in Nat \ {0}, d \in Nat : r * (-1) + d = d - r
      OBVIOUS
    <3>. QED
      BY <3>1, <3>2
  <2>5. \A r \in Nat \ {0} : 0 % r = 0
    OBVIOUS
  <2>6. u - v \in Nat /\ u - v <= Radix /\ x - v = (u - v) - Radix /\ u - v # 0
    BY <1>1, <1>3, <1>4, <2>1, <2>3
  <2>7. CASE u - v = Radix
    <3>1. x - v = 0
      BY <1>1, <1>3, <2>1, <2>6, <2>7
    <3>2. (x - v) % Radix = 0
      BY <1>1, <2>5, <3>1
    <3>. QED
      BY <1>6, <2>2, <2>6, <2>7, <3>2
  <2>8. CASE u - v < Radix
    <3>1. (x - v) % Radix = u - v
      BY <1>1, <2>4, <2>6, <2>8
    <3>. QED
      BY <1>6, <2>2, <2>6, <3>1
  <2>. QED
    BY <1>1, <2>6, <2>7, <2>8
<1>. QED
  BY <1>8, <1>9, <1>10


(* The parts after it: they turn from where the ratchet started, or, once  *)
(* a part before them has turned, from 0.                                  *)
LEMMA LaterTurn ==
  ASSUME NEW c, NEW n, Ahead(c, n), NEW data, NEW j \in 1..3
  PROVE  LET m == [data |-> data, counter |-> After(c, n, j - 1)]
         IN  /\ Steps(m, j, n % Counters) = Turns(c, n, j)
             /\ Turns(c, n, j) \in Nat
             /\ After(c, n, j) = IF Turns(c, n, j) = 0 THEN After(c, n, j - 1)
                                 ELSE Masked(n % Counters, j)
<1>. DEFINE t == n % Counters
<1>. DEFINE u == Up(n, j)
<1>. DEFINE v == Up(c, j)
<1>. DEFINE u1 == Up(n, j - 1)
<1>. DEFINE v1 == Up(c, j - 1)
<1>. DEFINE y == After(c, n, j - 1)
<1>1. Radix \in Nat \ {0} /\ c \in Nat /\ n \in Nat /\ c <= n /\ c < Counters
      /\ j \in Part /\ j - 1 \in Part /\ j # 0
  BY Weights DEF Ahead, Part
<1>2. t \in Nat
  BY <1>1, Wrapped, Weights
<1>3. /\ u \in Nat /\ v \in Nat /\ u1 \in Nat /\ v1 \in Nat /\ v <= u
      /\ u = Radix * u1 + (u % Radix) /\ v = Radix * v1 + (v % Radix)
      /\ u % Radix \in 0..(Radix - 1) /\ v % Radix \in 0..(Radix - 1)
  <2>1. \A i \in Nat : /\ Up(i, j) \in Nat /\ Up(i, j - 1) \in Nat
                       /\ Up(i, j) % Radix \in 0..(Radix - 1)
    BY <1>1, UpType
  <2>2. v <= u
    BY <1>1, UpGrows
  <2>. QED
    BY <1>1, <2>1, <2>2, UpDigit
<1>4. Steps([data |-> data, counter |-> y], j, t) =
        IF (Up(t, j) - Up(y, j)) % Radix = 0 /\ t < y THEN Radix
        ELSE (Up(t, j) - Up(y, j)) % Radix
  BY DEF Steps, Up
<1>5. Turns(c, n, j) = IF u1 = v1 THEN u - v ELSE u % Radix
  BY <1>1 DEF Turns
<1>6. After(c, n, j) = IF u = v THEN c ELSE Masked(t, j)
  BY DEF After
<1>7. y = IF u1 = v1 THEN c ELSE Masked(t, j - 1)
  BY DEF After
<1>8. CASE u1 = v1
  <2>1. n < Counters /\ t = n
    <3>1. Up(n, 0) = Up(c, 0)
      <4>1. CASE j = 1
        BY <1>8, <4>1
      <4>2. CASE j # 1
        <5>1. j - 1 \in 1..3
          BY <4>2
        <5>. QED
          BY <1>1, <1>8, <5>1, SameBefore
      <4>. QED
        BY <4>1, <4>2
    <3>. QED
      BY <1>1, <3>1, NotWrapped
  <2>. HIDE DEF t, u, v, u1, v1, y
  <2>2. u - v = (u % Radix) - (v % Radix) /\ u - v \in 0..(Radix - 1)
    BY <1>1, <1>3, <1>8
  <2>3. (u - v) % Radix = u - v
    <3>1. \A r \in Nat \ {0}, d \in Nat : d < r => d % r = d
      OBVIOUS
    <3>. QED
      BY <1>1, <2>2, <3>1
  <2>4. Up(t, j) - Up(y, j) = u - v /\ ~ (t < y) /\ y = c
    BY <1>1, <1>7, <1>8, <2>1 DEF u, v
  <2>5. Steps([data |-> data, counter |-> y], j, t) = u - v
    BY <1>4, <2>3, <2>4
  <2>6. Turns(c, n, j) = u - v /\ u - v \in Nat /\ (u - v = 0 <=> u = v)
    BY <1>3, <1>5, <1>8, <2>2
  <2>. QED
    BY <1>6, <2>4, <2>5, <2>6 DEF t, y
<1>9. CASE u1 # v1
  <2>1. u # v
    BY <1>1, <1>9, SameBefore
  <2>2. y = Masked(t, j - 1) /\ y <= t /\ y \in Nat /\ Up(y, j) = Radix * Up(t, j - 1)
        /\ y = Weight(j - 1) * Up(t, j - 1) /\ Masked(t, j) = Weight(j) * Up(t, j)
    <3>1. y = Masked(t, j - 1)
      BY <1>7, <1>9
    <3>2. \A i \in Part : Masked(t, i) = Weight(i) * Up(t, i)
                          /\ Masked(t, i) \in Nat /\ Masked(t, i) <= t
      BY <1>2, MaskedIs
    <3>3. Up(Masked(t, j - 1), j) = Radix * Up(t, j - 1)
      BY <1>2, UpMasked
    <3>. QED
      BY <1>1, <3>1, <3>2, <3>3
  <2>3. Up(t, j) % Radix = u % Radix
    BY <1>1, Wrapped
  <2>4. Up(t, j) = Radix * Up(t, j - 1) + (Up(t, j) % Radix) /\ Up(t, j) \in Nat
        /\ Up(t, j - 1) \in Nat
    BY <1>1, <1>2, UpDigit, UpType
  <2>. DEFINE d == u % Radix
  <2>5. d \in Nat /\ d < Radix /\ Up(t, j) - Up(y, j) = d
    BY <1>1, <1>3, <2>2, <2>3, <2>4
  <2>6. d % Radix = d
    <3>1. \A r \in Nat \ {0}, k \in Nat : k < r => k % r = k
      OBVIOUS
    <3>. HIDE DEF d
    <3>. QED
      BY <1>1, <2>5, <3>1
  <2>7. Steps([data |-> data, counter |-> y], j, t) = d /\ Turns(c, n, j) = d
    BY <1>2, <1>4, <1>5, <1>9, <2>2, <2>5, <2>6
  <2>8. After(c, n, j) = IF d = 0 THEN y ELSE Masked(t, j)
    <3>1. CASE d # 0
      BY <1>6, <2>1, <3>1
    <3>2. CASE d = 0
      <4>1. Up(t, j) = Radix * Up(t, j - 1)
        BY <1>1, <2>3, <2>4, <3>2
      <4>2. Weight(j - 1) = Radix * Weight(j) /\ Weight(j) \in Nat
        BY <1>1, Weights
      <4>3. Weight(j) * (Radix * Up(t, j - 1)) = (Radix * Weight(j)) * Up(t, j - 1)
        BY <1>1, <2>4, <4>2
      <4>. QED
        BY <1>6, <2>1, <2>2, <3>2, <4>1, <4>2, <4>3
    <3>. QED
      BY <3>1, <3>2
  <2>. HIDE DEF d
  <2>. QED
    BY <2>5, <2>7, <2>8
<1>. QED
  BY <1>8, <1>9

(* After the last part the counter is where the jump was to go. *)
LEMMA AfterLast ==
  ASSUME NEW c, NEW n, Ahead(c, n)
  PROVE  After(c, n, 3) = n % Counters
<1>1. c \in Nat /\ n \in Nat /\ c < Counters /\ Weight(3) = 1 /\ n % Counters \in Nat
  BY Weights, Wrapped DEF Ahead, Part
<1>2. \A x \in Nat : x \div 1 = x /\ x % 1 = 0 /\ x - 0 = x
  OBVIOUS
<1>3. Up(n, 3) = n /\ Up(c, 3) = c /\ Masked(n % Counters, 3) = n % Counters
  BY <1>1, <1>2 DEF Up, Masked
<1>4. c % Counters = c
  BY <1>1, NotWrapped
<1>. QED
  BY <1>3, <1>4 DEF After


(***************************************************************************)
(* One message further.                                                    *)
(***************************************************************************)
(* Where a digit has just turned, those after it have as well, and are 0.  *)
LEMMA TurnsBelow ==
  ASSUME NEW n \in Nat, NEW j \in 1..3, n % Weight(j - 1) = 0
  PROVE  n % Weight(j) = 0 /\ Up(n, j) % Radix = 0
<1>. DEFINE w == Weight(j)
<1>. DEFINE u == Up(n, j - 1)
<1>1. j \in Part /\ j - 1 \in Part
  BY DEF Part
<1>2. w \in Nat \ {0} /\ Weight(j - 1) = Radix * w /\ Radix \in Nat \ {0} /\ u \in Nat
  BY <1>1, Weights, UpType
<1>3. n = (Radix * w) * u
  <2>1. \A a \in Nat \ {0} : n % a = 0 => n = a * (n \div a)
    OBVIOUS
  <2>. QED
    BY <1>1, <2>1, Weights DEF Up
<1>. HIDE DEF w, u
<1>4. n = w * (Radix * u) + 0 /\ Radix * u \in Int
  BY <1>2, <1>3
<1>5. n \div w = Radix * u /\ n % w = 0
  <2>. DEFINE k == Radix * u
  <2>1. k \in Int /\ n = w * k + 0 /\ 0 \in 0..(w - 1)
    BY <1>2, <1>4
  <2>. HIDE DEF k
  <2>2. (w * k + 0) \div w = k /\ (w * k + 0) % w = 0
    BY <1>2, <2>1, Quotient
  <2>. QED
    BY <2>1, <2>2 DEF k
<1>6. Up(n, j) = Radix * u + 0
  BY <1>2, <1>5 DEF Up, w
<1>7. (Radix * u + 0) % Radix = 0
  BY <1>2, Quotient
<1>. QED
  BY <1>5, <1>6, <1>7 DEF w

(* The digit of one part, h, goes up; those before it stay, and those      *)
(* after it become 0.                                                      *)
LEMMA NextTurns ==
  ASSUME NEW c, NEW n, Ahead(c, n), Ahead(c, n + 1), NEW h \in Part,
         (n + 1) % Weight(h) = 0, \A j \in Part : j < h => (n + 1) % Weight(j) # 0
  PROVE  /\ \A j \in Part : j < h => Turns(c, n + 1, j) = Turns(c, n, j)
         /\ Turns(c, n + 1, h) = Turns(c, n, h) + 1
         /\ \A j \in Part : j > h => Turns(c, n + 1, j) = 0
<1>1. c \in Nat /\ n \in Nat /\ n + 1 \in Nat /\ c <= n /\ Radix \in Nat \ {0}
  BY Weights DEF Ahead
<1>2. \A j \in Part : Up(n + 1, j) = IF (n + 1) % Weight(j) = 0 THEN Up(n, j) + 1 ELSE Up(n, j)
  BY <1>1, NextQuotient, Weights DEF Up
<1>3. \A j \in Part : /\ Up(n, j) \in Nat /\ Up(c, j) \in Nat /\ Up(n + 1, j) \in Nat
                      /\ Up(c, j) <= Up(n, j)
  BY <1>1, UpType, UpGrows
<1>4. \A j \in Part : j < h => Up(n + 1, j) = Up(n, j)
  BY <1>2
<1>5. Up(n + 1, h) = Up(n, h) + 1
  BY <1>2
<1>6. ASSUME NEW j \in Part, j < h PROVE Turns(c, n + 1, j) = Turns(c, n, j)
  <2>1. j # 0 => j - 1 \in Part /\ j - 1 < h
    BY <1>6 DEF Part
  <2>2. Up(n + 1, j) = Up(n, j) /\ (j # 0 => Up(n + 1, j - 1) = Up(n, j - 1))
    BY <1>4, <1>6, <2>1
  <2>. QED
    BY <2>2 DEF Turns
<1>7. Turns(c, n + 1, h) = Turns(c, n, h) + 1
  <2>1. CASE h = 0
    BY <1>3, <1>5, <2>1 DEF Turns
  <2>2. CASE h # 0
    <3>1. h \in 1..3 /\ h - 1 \in Part /\ h - 1 < h
      BY <2>2 DEF Part
    <3>2. Up(n + 1, h - 1) = Up(n, h - 1)
      BY <1>4, <3>1
    <3>3. CASE Up(n, h - 1) = Up(c, h - 1)
      BY <1>3, <1>5, <2>2, <3>2, <3>3 DEF Turns
    <3>4. CASE Up(n, h - 1) # Up(c, h - 1)
      <4>. DEFINE d == Up(n, h) % Radix
      <4>. DEFINE e == Up(n + 1, h) % Radix
      <4>. DEFINE k == Radix * Up(n, h - 1)
      <4>1. Up(n, h) = k + d
        BY <1>1, <3>1, UpDigit
      <4>2. Up(n + 1, h) = k + e
        <5>1. Up(n + 1, h) = Radix * Up(n + 1, h - 1) + e
          BY <1>1, <3>1, UpDigit
        <5>. QED
          BY <3>2, <5>1
      <4>3. k \in Int /\ d \in Int /\ e \in Int
        <5>1. Up(n, h - 1) \in Nat /\ Up(n, h) \in Nat /\ Up(n + 1, h) \in Nat
          BY <1>3, <3>1
        <5>2. \A x \in Nat, r \in Nat \ {0} : x % r \in Int /\ r * x \in Int
          OBVIOUS
        <5>. QED
          BY <1>1, <5>1, <5>2
      <4>4. Turns(c, n, h) = d /\ Turns(c, n + 1, h) = e
        BY <2>2, <3>2, <3>4 DEF Turns
      <4>. HIDE DEF d, e, k
      <4>. QED
        BY <1>5, <4>1, <4>2, <4>3, <4>4
    <3>. QED
      BY <3>3, <3>4
  <2>. QED
    BY <2>1, <2>2
<1>8. \A i \in 1..3 : (n + 1) % Weight(i - 1) = 0 /\ Up(n + 1, i - 1) # Up(c, i - 1) =>
        (n + 1) % Weight(i) = 0 /\ Up(n + 1, i) # Up(c, i) /\ Turns(c, n + 1, i) = 0
  <2>. TAKE i \in 1..3
  <2>. HAVE (n + 1) % Weight(i - 1) = 0 /\ Up(n + 1, i - 1) # Up(c, i - 1)
  <2>1. (n + 1) % Weight(i) = 0 /\ Up(n + 1, i) % Radix = 0
    BY <1>1, TurnsBelow
  <2>2. Up(n + 1, i) # Up(c, i)
    BY <1>1, SameBefore
  <2>3. i # 0
    OBVIOUS
  <2>. QED
    BY <2>1, <2>2, <2>3 DEF Turns
<1>9. Up(n + 1, h) # Up(c, h)
  BY <1>3, <1>5
<1>10. ASSUME NEW j \in Part, j > h PROVE Turns(c, n + 1, j) = 0
  <2>. DEFINE T(i) == (n + 1) % Weight(i) = 0 /\ Up(n + 1, i) # Up(c, i)
  <2>1. T(0) => T(1) /\ Turns(c, n + 1, 1) = 0
    <3>1. 1 \in 1..3 /\ 1 - 1 = 0
      OBVIOUS
    <3>. QED
      BY <1>8, <3>1
  <2>2. T(1) => T(2) /\ Turns(c, n + 1, 2) = 0
    <3>1. 2 \in 1..3 /\ 2 - 1 = 1
      OBVIOUS
    <3>. QED
      BY <1>8, <3>1
  <2>3. T(2) => Turns(c, n + 1, 3) = 0
    <3>1. 3 \in 1..3 /\ 3 - 1 = 2
      OBVIOUS
    <3>. QED
      BY <1>8, <3>1
  <2>4. T(h)
    BY <1>9
  <2>. HIDE DEF T
  <2>5. h \in 0..3 /\ j \in 0..3
    BY DEF Part
  <2>. QED
    BY <1>10, <2>1, <2>2, <2>3, <2>4, <2>5
<1>. QED
  BY <1>6, <1>7, <1>10


(***************************************************************************)
(* What is hashed.                                                         *)
(***************************************************************************)
(* A value that is rehashed s times as part j. *)
Repeated(x, j, s) == x \o [n \in 1..s |-> j]

(* The values when the digit of part j has turned s times, when each digit *)
(* has turned as often as s says, and when the counter went from c to n.   *)
Turned(data, j, s) ==
  IF s = 0 THEN data
  ELSE [i \in Part |-> IF i >= j THEN Append(Repeated(data[j], j, s - 1), i) ELSE data[i]]

AllTurned(data, s) == Turned(Turned(Turned(Turned(data, 0, s[0]), 1, s[1]), 2, s[2]), 3, s[3])

Jumped(data, c, n) == AllTurned(data, [j \in Part |-> Turns(c, n, j)])

(* Rehashing once more. *)
LEMMA RepeatedType ==
  ASSUME NEW S, NEW x \in Seq(S), NEW j \in S, NEW s \in Nat
  PROVE  Repeated(x, j, s) \in Seq(S)
<1>1. [n \in 1..s |-> j] \in Seq(S)
  OBVIOUS
<1>. QED
  BY <1>1 DEF Repeated

LEMMA RepeatedLength ==
  ASSUME NEW S, NEW x \in Seq(S), NEW j \in S, NEW s \in Nat
  PROVE  Len(Repeated(x, j, s)) = Len(x) + s
<1>. DEFINE t == [n \in 1..s |-> j]
<1>1. t \in Seq(S) /\ Len(t) = s
  OBVIOUS
<1>. HIDE DEF t
<1>2. Len(x \o t) = Len(x) + s
  BY <1>1
<1>. QED
  BY <1>2 DEF Repeated, t

LEMMA RepeatedElements ==
  ASSUME NEW S, NEW x \in Seq(S), NEW j \in S, NEW s \in Nat
  PROVE  \A i \in 1..(Len(x) + s) : Repeated(x, j, s)[i] = IF i <= Len(x) THEN x[i] ELSE j
<1>. DEFINE t == [n \in 1..s |-> j]
<1>1. t \in Seq(S) /\ Len(t) = s /\ \A n \in 1..s : t[n] = j
  OBVIOUS
<1>. HIDE DEF t
<1>2. \A i \in 1..(Len(x) + s) : (x \o t)[i] = IF i <= Len(x) THEN x[i] ELSE j
  BY <1>1
<1>. QED
  BY <1>2 DEF Repeated, t

LEMMA RepeatedNever ==
  ASSUME NEW S, NEW x \in Seq(S), NEW j
  PROVE  Repeated(x, j, 0) = x
  BY DEF Repeated

LEMMA RepeatedOnce ==
  ASSUME NEW S, NEW x \in Seq(S), NEW j \in S, NEW s \in Nat \ {0}
  PROVE  Append(Repeated(x, j, s - 1), j) = Repeated(x, j, s)
<1>. DEFINE p == Repeated(x, j, s - 1)
<1>. DEFINE r == Repeated(x, j, s)
<1>. DEFINE k == Len(x) + (s - 1)
<1>1. s - 1 \in Nat /\ k \in Nat /\ k + 1 = Len(x) + s /\ ~ (k + 1 <= Len(x))
  OBVIOUS
<1>2. /\ p \in Seq(S)
      /\ Len(p) = k
      /\ \A i \in 1..k : p[i] = IF i <= Len(x) THEN x[i] ELSE j
  <2>1. p \in Seq(S)
    BY <1>1, RepeatedType
  <2>2. Len(p) = k
    BY <1>1, RepeatedLength
  <2>3. \A i \in 1..k : p[i] = IF i <= Len(x) THEN x[i] ELSE j
    BY <1>1, RepeatedElements
  <2>. QED
    BY <2>1, <2>2, <2>3
<1>3. /\ r \in Seq(S)
      /\ Len(r) = k + 1
      /\ \A i \in 1..(k + 1) : r[i] = IF i <= Len(x) THEN x[i] ELSE j
  <2>1. r \in Seq(S)
    BY <1>1, RepeatedType
  <2>2. Len(r) = Len(x) + s
    BY <1>1, RepeatedLength
  <2>3. \A i \in 1..(Len(x) + s) : r[i] = IF i <= Len(x) THEN x[i] ELSE j
    BY <1>1, RepeatedElements
  <2>. QED
    BY <1>1, <2>1, <2>2, <2>3
<1>. HIDE DEF p, r, k
<1>4. Append(p, j) \in Seq(S) /\ Len(Append(p, j)) = k + 1
      /\ \A i \in 1..(k + 1) : Append(p, j)[i] = IF i = k + 1 THEN j ELSE p[i]
  BY <1>1, <1>2
<1>. DEFINE a == Append(p, j)
<1>5. a \in Seq(S) /\ Len(a) = Len(r) /\ \A i \in 1..Len(a) : a[i] = r[i]
  BY <1>1, <1>2, <1>3, <1>4
<1>. HIDE DEF a
<1>6. a = r
  BY <1>3, <1>5, SeqEqual
<1>. QED
  BY <1>6 DEF a, p, r

(* The values stay values, the part itself is rehashed s times, and those  *)
(* before it stay.                                                         *)
LEMMA TurnedType ==
  ASSUME NEW S, Part \subseteq S, NEW data \in [Part -> Seq(S)], NEW j \in Part, NEW s \in Nat
  PROVE  Turned(data, j, s) \in [Part -> Seq(S)]
<1>1. data[j] \in Seq(S) /\ j \in S
  OBVIOUS
<1>2. CASE s = 0
  BY <1>2 DEF Turned
<1>3. CASE s # 0
  <2>. DEFINE v == Repeated(data[j], j, s - 1)
  <2>1. v \in Seq(S)
    <3>1. s - 1 \in Nat
      BY <1>3
    <3>. QED
      BY <1>1, <3>1, RepeatedType
  <2>2. Turned(data, j, s) = [i \in Part |-> IF i >= j THEN Append(v, i) ELSE data[i]]
    BY <1>3 DEF Turned
  <2>. HIDE DEF v
  <2>3. \A i \in Part : Append(v, i) \in Seq(S) /\ data[i] \in Seq(S)
    BY <2>1
  <2>. QED
    BY <2>2, <2>3
<1>. QED
  BY <1>2, <1>3

LEMMA TurnedItself ==
  ASSUME NEW S, NEW data, NEW j \in Part, j \in S, data[j] \in Seq(S), NEW s \in Nat
  PROVE  Turned(data, j, s)[j] = Repeated(data[j], j, s)
<1>1. CASE s = 0
  BY <1>1, RepeatedNever DEF Turned
<1>2. CASE s # 0
  <2>1. Turned(data, j, s)[j] = Append(Repeated(data[j], j, s - 1), j)
    <3>1. j >= j
      BY DEF Part
    <3>. QED
      BY <1>2, <3>1 DEF Turned
  <2>2. s \in Nat \ {0}
    BY <1>2
  <2>. QED
    BY <2>1, <2>2, RepeatedOnce
<1>. QED
  BY <1>1, <1>2

LEMMA TurnedBefore ==
  ASSUME NEW data, NEW j \in Part, NEW s, NEW i \in Part, i < j
  PROVE  Turned(data, j, s)[i] = data[i]
<1>1. ~ (i >= j)
  BY DEF Part
<1>. QED
  BY <1>1 DEF Turned

(* One turn more. *)
LEMMA TurnedOnce ==
  ASSUME NEW data, NEW j \in Part, NEW r, r # 0,
         NEW next, next[j] = Repeated(data[j], j, r - 1),
         \A i \in Part : i < j => next[i] = data[i]
  PROVE  RehashFrom(next, j) = Turned(data, j, r)
<1>2. Turned(data, j, r) =
        [i \in Part |-> IF i >= j THEN Append(Repeated(data[j], j, r - 1), i) ELSE data[i]]
  BY DEF Turned
<1>3. RehashFrom(next, j) = [i \in Part |-> IF i >= j THEN Append(next[j], i) ELSE next[i]]
  BY DEF RehashFrom
<1>4. \A i \in Part : ~ (i >= j) => i < j
  BY DEF Part
<1>. QED
  BY <1>2, <1>3, <1>4

(* One turn of the loop. *)
LEMMA AdvancePartIs ==
  ASSUME NEW m, DOMAIN m.data = Part, m = [data |-> m.data, counter |-> m.counter],
         NEW j \in Part, NEW to
  PROVE  AdvancePart(m, j, to) =
           [data    |-> Turned(m.data, j, Steps(m, j, to)),
            counter |-> IF Steps(m, j, to) = 0 THEN m.counter ELSE Masked(to, j)]
<1>. DEFINE s == Steps(m, j, to)
<1>. DEFINE data == m.data
<1>. DEFINE bumped == [data EXCEPT ![j] = @ \o [n \in 1..(s - 1) |-> j]]
<1>1. AdvancePart(m, j, to) = IF s = 0 THEN m
                              ELSE [data |-> RehashFrom(bumped, j), counter |-> Masked(to, j)]
  BY DEF AdvancePart
<1>2. bumped = [i \in Part |-> IF i = j THEN Repeated(data[j], j, s - 1) ELSE data[i]]
  BY DEF Repeated
<1>. HIDE DEF bumped, s
<1>3. CASE s = 0
  BY <1>1, <1>3 DEF Turned, s
<1>4. CASE s # 0
  <2>1. \A i \in Part : i < j => i # j
    BY DEF Part
  <2>2. bumped[j] = Repeated(data[j], j, s - 1) /\ \A i \in Part : i < j => bumped[i] = data[i]
    BY <1>2, <2>1
  <2>. HIDE DEF data
  <2>3. RehashFrom(bumped, j) = Turned(data, j, s)
    BY <1>4, <2>2, TurnedOnce
  <2>. QED
    BY <1>1, <1>4, <2>3 DEF data, s
<1>. QED
  BY <1>3, <1>4


(***************************************************************************)
(* A jump.                                                                 *)
(***************************************************************************)


(* A part that does not turn changes nothing. *)
LEMMA NotTurned ==
  ASSUME NEW data, NEW j
  PROVE  Turned(data, j, 0) = data
  BY DEF Turned

LEMMA Parts ==
  /\ 0 \in Part /\ 1 \in Part /\ 2 \in Part /\ 3 \in Part
  /\ \A i \in Part : i = 0 \/ i = 1 \/ i = 2 \/ i = 3
  BY DEF Part

(* The values stay values when all digits turn.                            *)
LEMMA AllTurnedType ==
  ASSUME NEW S, Part \subseteq S, NEW data \in [Part -> Seq(S)], NEW s \in [Part -> Nat]
  PROVE  AllTurned(data, s) \in [Part -> Seq(S)]
<1>1. \A d \in [Part -> Seq(S)], j \in Part : Turned(d, j, s[j]) \in [Part -> Seq(S)]
  BY TurnedType
<1>2. Turned(data, 0, s[0]) \in [Part -> Seq(S)]
  BY <1>1, Parts
<1>3. Turned(Turned(data, 0, s[0]), 1, s[1]) \in [Part -> Seq(S)]
  BY <1>1, <1>2, Parts
<1>4. Turned(Turned(Turned(data, 0, s[0]), 1, s[1]), 2, s[2]) \in [Part -> Seq(S)]
  BY <1>1, <1>3, Parts
<1>. QED
  BY <1>1, <1>4, Parts DEF AllTurned

(* One digit turns once more, and those after it start again.              *)
LEMMA AllTurnedOnce ==
  ASSUME NEW S, Part \subseteq S, NEW data \in [Part -> Seq(S)], NEW s \in [Part -> Nat],
         NEW r \in [Part -> Nat], NEW h \in Part, r[h] = s[h] + 1,
         \A j \in Part : j < h => r[j] = s[j], \A j \in Part : j > h => r[j] = 0
  PROVE  RehashFrom(AllTurned(data, s), h) = AllTurned(data, r)
<1>. DEFINE d0 == Turned(data, 0, s[0])
<1>. DEFINE d1 == Turned(d0, 1, s[1])
<1>. DEFINE d2 == Turned(d1, 2, s[2])
<1>. DEFINE d3 == Turned(d2, 3, s[3])
<1>1. \A d \in [Part -> Seq(S)], j \in Part : Turned(d, j, s[j]) \in [Part -> Seq(S)]
  BY TurnedType
<1>a. ASSUME NEW d \in [Part -> Seq(S)], NEW j \in Part
      PROVE  Turned(d, j, s[j])[j] = Repeated(d[j], j, s[j])
  <2>1. d[j] \in Seq(S) /\ j \in S /\ s[j] \in Nat
    OBVIOUS
  <2>. QED
    BY <2>1, TurnedItself
<1>c. /\ \A d : Turned(d, 1, s[1])[0] = d[0]
      /\ \A d : Turned(d, 2, s[2])[0] = d[0]
      /\ \A d : Turned(d, 2, s[2])[1] = d[1]
      /\ \A d : Turned(d, 3, s[3])[0] = d[0]
      /\ \A d : Turned(d, 3, s[3])[1] = d[1]
      /\ \A d : Turned(d, 3, s[3])[2] = d[2]
  <2>1. \A d : Turned(d, 1, s[1])[0] = d[0]
    BY 0 < 1, TurnedBefore, Parts
  <2>2. \A d : Turned(d, 2, s[2])[0] = d[0]
    BY 0 < 2, TurnedBefore, Parts
  <2>3. \A d : Turned(d, 2, s[2])[1] = d[1]
    BY 1 < 2, TurnedBefore, Parts
  <2>4. \A d : Turned(d, 3, s[3])[0] = d[0]
    BY 0 < 3, TurnedBefore, Parts
  <2>5. \A d : Turned(d, 3, s[3])[1] = d[1]
    BY 1 < 3, TurnedBefore, Parts
  <2>6. \A d : Turned(d, 3, s[3])[2] = d[2]
    BY 2 < 3, TurnedBefore, Parts
  <2>. QED
    BY <2>1, <2>2, <2>3, <2>4, <2>5, <2>6
<1>2. d0 \in [Part -> Seq(S)] /\ d0[0] = Repeated(data[0], 0, s[0])
  BY <1>1, <1>a, Parts
<1>. HIDE DEF d0
<1>3. d1 \in [Part -> Seq(S)] /\ d1[1] = Repeated(d0[1], 1, s[1]) /\ d1[0] = d0[0]
  BY <1>1, <1>a, <1>c, <1>2, Parts
<1>. HIDE DEF d1
<1>4. d2 \in [Part -> Seq(S)] /\ d2[2] = Repeated(d1[2], 2, s[2])
      /\ d2[0] = d1[0] /\ d2[1] = d1[1]
  BY <1>1, <1>a, <1>c, <1>3, Parts
<1>. HIDE DEF d2
<1>5. d3 \in [Part -> Seq(S)] /\ d3[3] = Repeated(d2[3], 3, s[3])
      /\ d3[0] = d2[0] /\ d3[1] = d2[1] /\ d3[2] = d2[2]
  BY <1>1, <1>a, <1>c, <1>4, Parts
<1>. HIDE DEF d3
<1>6. AllTurned(data, s) = d3
  BY DEF AllTurned, d0, d1, d2, d3
<1>7. ASSUME NEW d \in [Part -> Seq(S)], d3[h] = Repeated(d[h], h, s[h]),
             \A i \in Part : i < h => d3[i] = d[i]
      PROVE  RehashFrom(d3, h) = Turned(d, h, r[h])
  <2>1. s[h] = r[h] - 1 /\ r[h] # 0
    <3>1. s[h] \in Nat /\ r[h] = s[h] + 1
      OBVIOUS
    <3>. QED
      BY <3>1
  <2>2. d3[h] = Repeated(d[h], h, r[h] - 1)
    BY <1>7, <2>1
  <2>. QED
    BY <1>7, <2>1, <2>2, TurnedOnce
<1>8. CASE h = 0
  <2>1. \A i \in Part : ~ (i < 0)
    BY DEF Part
  <2>2. RehashFrom(d3, 0) = Turned(data, 0, r[0])
    BY <1>2, <1>3, <1>4, <1>5, <1>7, <1>8, <2>1
  <2>3. r[1] = 0 /\ r[2] = 0 /\ r[3] = 0
    BY <1>8, Parts
  <2>. QED
    BY <1>6, <1>8, <2>2, <2>3, NotTurned DEF AllTurned
<1>9. CASE h = 1
  <2>1. \A i \in Part : i < 1 => i = 0
    BY SMTT(30) DEF Part
  <2>2. RehashFrom(d3, 1) = Turned(d0, 1, r[1])
    BY <1>2, <1>3, <1>4, <1>5, <1>7, <1>9, <2>1
  <2>3. r[0] = s[0] /\ r[2] = 0 /\ r[3] = 0
    BY <1>9, Parts
  <2>. QED
    BY <1>6, <1>9, <2>2, <2>3, NotTurned DEF AllTurned, d0
<1>10. CASE h = 2
  <2>1. \A i \in Part : i < 2 => i = 0 \/ i = 1
    BY DEF Part
  <2>2. RehashFrom(d3, 2) = Turned(d1, 2, r[2])
    BY <1>3, <1>4, <1>5, <1>7, <1>10, <2>1
  <2>3. r[0] = s[0] /\ r[1] = s[1] /\ r[3] = 0
    BY <1>10, Parts
  <2>. QED
    BY <1>6, <1>10, <2>2, <2>3, NotTurned DEF AllTurned, d0, d1
<1>11. CASE h = 3
  <2>1. \A i \in Part : i < 3 => i = 0 \/ i = 1 \/ i = 2
    BY DEF Part
  <2>2. RehashFrom(d3, 3) = Turned(d2, 3, r[3])
    BY <1>4, <1>5, <1>7, <1>11, <2>1
  <2>3. r[0] = s[0] /\ r[1] = s[1] /\ r[2] = s[2]
    BY <1>11, Parts
  <2>. QED
    BY <1>6, <1>11, <2>2, <2>3 DEF AllTurned, d0, d1, d2
<1>. QED
  BY <1>8, <1>9, <1>10, <1>11, Parts

(* A jump from c to n rehashes every part by its turns. *)
LEMMA JumpIs ==
  ASSUME NEW S, Part \subseteq S, NEW data \in [Part -> Seq(S)], NEW c, NEW n, Ahead(c, n)
  PROVE  /\ megolm_advance_to([data |-> data, counter |-> c], n % Counters) =
              [data |-> Jumped(data, c, n), counter |-> n % Counters]
         /\ Jumped(data, c, n) \in [Part -> Seq(S)]
<1>. DEFINE t == n % Counters
<1>. DEFINE s == [j \in Part |-> Turns(c, n, j)]
<1>. DEFINE d0 == Turned(data, 0, s[0])
<1>. DEFINE d1 == Turned(d0, 1, s[1])
<1>. DEFINE d2 == Turned(d1, 2, s[2])
<1>. DEFINE d3 == Turned(d2, 3, s[3])
<1>1. /\ s[0] = Turns(c, n, 0) /\ s[1] = Turns(c, n, 1)
      /\ s[2] = Turns(c, n, 2) /\ s[3] = Turns(c, n, 3)
  BY Parts
<1>2. /\ Steps([data |-> data, counter |-> c], 0, t) = s[0] /\ s[0] \in Nat
      /\ After(c, n, 0) = IF s[0] = 0 THEN c ELSE Masked(t, 0)
  BY <1>1, FirstTurn
<1>3. ASSUME NEW d, NEW j \in 1..3
      PROVE  /\ Steps([data |-> d, counter |-> After(c, n, j - 1)], j, t) = Turns(c, n, j)
             /\ Turns(c, n, j) \in Nat
             /\ After(c, n, j) = IF Turns(c, n, j) = 0 THEN After(c, n, j - 1) ELSE Masked(t, j)
  BY LaterTurn
<1>4. /\ \A d : Steps([data |-> d, counter |-> After(c, n, 0)], 1, t) = s[1]
      /\ s[1] \in Nat
      /\ After(c, n, 1) = IF s[1] = 0 THEN After(c, n, 0) ELSE Masked(t, 1)
  <2>1. 1 \in 1..3 /\ 1 - 1 = 0
    OBVIOUS
  <2>. QED
    BY <1>1, <1>3, <2>1
<1>5. /\ \A d : Steps([data |-> d, counter |-> After(c, n, 1)], 2, t) = s[2]
      /\ s[2] \in Nat
      /\ After(c, n, 2) = IF s[2] = 0 THEN After(c, n, 1) ELSE Masked(t, 2)
  <2>1. 2 \in 1..3 /\ 2 - 1 = 1
    OBVIOUS
  <2>. QED
    BY <1>1, <1>3, <2>1
<1>6. /\ \A d : Steps([data |-> d, counter |-> After(c, n, 2)], 3, t) = s[3]
      /\ s[3] \in Nat
      /\ After(c, n, 3) = IF s[3] = 0 THEN After(c, n, 2) ELSE Masked(t, 3)
  <2>1. 3 \in 1..3 /\ 3 - 1 = 2
    OBVIOUS
  <2>. QED
    BY <1>1, <1>3, <2>1
<1>7. After(c, n, 3) = t
  BY AfterLast
<1>8. s \in [Part -> Nat]
  BY <1>1, <1>2, <1>4, <1>5, <1>6, Parts
<1>9. Jumped(data, c, n) = AllTurned(data, s)
  BY DEF Jumped
<1>. HIDE DEF s, t
<1>10. AllTurned(data, s) \in [Part -> Seq(S)]
  BY <1>8, AllTurnedType
<1>11. \A d \in [Part -> Seq(S)], j \in Part : Turned(d, j, s[j]) \in [Part -> Seq(S)]
  BY <1>8, TurnedType
<1>12. d0 \in [Part -> Seq(S)]
  BY <1>11, Parts
<1>13. AdvancePart([data |-> data, counter |-> c], 0, t) =
         [data |-> d0, counter |-> After(c, n, 0)]
  <2>. DEFINE m == [data |-> data, counter |-> c]
  <2>1. Steps(m, 0, t) = s[0] /\ m.data = data /\ m.counter = c
        /\ DOMAIN m.data = Part /\ m = [data |-> m.data, counter |-> m.counter]
    BY <1>2, <1>8
  <2>. HIDE DEF m
  <2>2. AdvancePart(m, 0, t) =
          [data    |-> Turned(m.data, 0, Steps(m, 0, t)),
           counter |-> IF Steps(m, 0, t) = 0 THEN m.counter ELSE Masked(t, 0)]
    BY <2>1, AdvancePartIs, Parts
  <2>3. AdvancePart(m, 0, t) = [data |-> d0, counter |-> After(c, n, 0)]
    BY <1>2, <2>1, <2>2
  <2>. QED
    BY <2>3 DEF m
<1>. HIDE DEF d0
<1>14. d1 \in [Part -> Seq(S)]
  BY <1>11, <1>12, Parts
<1>15. AdvancePart([data |-> d0, counter |-> After(c, n, 0)], 1, t) =
         [data |-> d1, counter |-> After(c, n, 1)]
  <2>. DEFINE m == [data |-> d0, counter |-> After(c, n, 0)]
  <2>1. Steps(m, 1, t) = s[1] /\ m.data = d0 /\ m.counter = After(c, n, 0)
        /\ DOMAIN m.data = Part /\ m = [data |-> m.data, counter |-> m.counter]
    BY <1>4, <1>12
  <2>. HIDE DEF m
  <2>2. AdvancePart(m, 1, t) =
          [data    |-> Turned(m.data, 1, Steps(m, 1, t)),
           counter |-> IF Steps(m, 1, t) = 0 THEN m.counter ELSE Masked(t, 1)]
    BY <2>1, AdvancePartIs, Parts
  <2>3. AdvancePart(m, 1, t) = [data |-> d1, counter |-> After(c, n, 1)]
    BY <1>4, <2>1, <2>2
  <2>. QED
    BY <2>3 DEF m
<1>. HIDE DEF d1
<1>16. d2 \in [Part -> Seq(S)]
  BY <1>11, <1>14, Parts
<1>17. AdvancePart([data |-> d1, counter |-> After(c, n, 1)], 2, t) =
         [data |-> d2, counter |-> After(c, n, 2)]
  <2>. DEFINE m == [data |-> d1, counter |-> After(c, n, 1)]
  <2>1. Steps(m, 2, t) = s[2] /\ m.data = d1 /\ m.counter = After(c, n, 1)
        /\ DOMAIN m.data = Part /\ m = [data |-> m.data, counter |-> m.counter]
    BY <1>5, <1>14
  <2>. HIDE DEF m
  <2>2. AdvancePart(m, 2, t) =
          [data    |-> Turned(m.data, 2, Steps(m, 2, t)),
           counter |-> IF Steps(m, 2, t) = 0 THEN m.counter ELSE Masked(t, 2)]
    BY <2>1, AdvancePartIs, Parts
  <2>3. AdvancePart(m, 2, t) = [data |-> d2, counter |-> After(c, n, 2)]
    BY <1>5, <2>1, <2>2
  <2>. QED
    BY <2>3 DEF m
<1>. HIDE DEF d2
<1>18. AdvancePart([data |-> d2, counter |-> After(c, n, 2)], 3, t) =
         [data |-> d3, counter |-> After(c, n, 3)]
  <2>. DEFINE m == [data |-> d2, counter |-> After(c, n, 2)]
  <2>1. Steps(m, 3, t) = s[3] /\ m.data = d2 /\ m.counter = After(c, n, 2)
        /\ DOMAIN m.data = Part /\ m = [data |-> m.data, counter |-> m.counter]
    BY <1>6, <1>16
  <2>. HIDE DEF m
  <2>2. AdvancePart(m, 3, t) =
          [data    |-> Turned(m.data, 3, Steps(m, 3, t)),
           counter |-> IF Steps(m, 3, t) = 0 THEN m.counter ELSE Masked(t, 3)]
    BY <2>1, AdvancePartIs, Parts
  <2>3. AdvancePart(m, 3, t) = [data |-> d3, counter |-> After(c, n, 3)]
    BY <1>6, <2>1, <2>2
  <2>. QED
    BY <2>3 DEF m
<1>. HIDE DEF d3
<1>19. megolm_advance_to([data |-> data, counter |-> c], t) = [data |-> d3, counter |-> t]
  BY <1>7, <1>13, <1>15, <1>17, <1>18 DEF megolm_advance_to
<1>20. AllTurned(data, s) = d3
  BY DEF AllTurned, d0, d1, d2, d3
<1>. QED
  BY <1>9, <1>10, <1>19, <1>20 DEF t

(* The turns of a jump are numbers. *)
LEMMA TurnsType ==
  ASSUME NEW c, NEW n, Ahead(c, n)
  PROVE  [j \in Part |-> Turns(c, n, j)] \in [Part -> Nat]
<1>1. Turns(c, n, 0) \in Nat
  BY FirstTurn
<1>2. \A j \in 1..3 : Turns(c, n, j) \in Nat
  BY LaterTurn
<1>3. \A j \in Part : j = 0 \/ j \in 1..3
  BY DEF Part
<1>. QED
  BY <1>1, <1>2, <1>3

(* A step from a multiple of some weight: the part that is rehashed first. *)
LEMMA StepIs ==
  ASSUME NEW data, NEW n \in Nat
  PROVE  \E h \in Part :
           /\ (n + 1) % Weight(h) = 0
           /\ \A j \in Part : j < h => (n + 1) % Weight(j) # 0
           /\ megolm_advance([data |-> data, counter |-> n % Counters]) =
                [data |-> RehashFrom(data, h), counter |-> (n + 1) % Counters]
<1>. DEFINE t == (n + 1) % Counters
<1>. DEFINE H == { j \in Part : t % Weight(j) = 0 }
<1>1. Counters \in Nat \ {0} /\ Radix \in Nat \ {0}
  BY Weights
<1>2. ((n % Counters) + 1) % Counters = t
  BY <1>1, LaterRemainder
<1>3. \A j \in Part : t % Weight(j) = (n + 1) % Weight(j)
  BY <1>1, Wrapped
<1>4. PICK h \in H : \A j \in H : h <= j
  <2>1. 3 \in H
    BY <1>1, <1>3, Weights, Parts
  <2>2. H \subseteq Nat
    BY DEF Part
  <2>. HIDE DEF H
  <2>3. PICK x \in H : \A y \in H : ~ (y < x)
    BY <2>1, <2>2, LeastNumber
  <2>. QED
    BY <2>2, <2>3
<1>5. Min(H) = h
  <2>1. H \subseteq Int
    BY DEF Part
  <2>2. \A j \in H : (\A i \in H : j <= i) => j = h
    <3>. HIDE DEF H
    <3>. QED
      BY <1>4, <2>1
  <2>. HIDE DEF H
  <2>. QED
    BY <1>4, <2>2, Zenon DEF Min
<1>6. (n + 1) % Weight(h) = 0
  BY <1>3, <1>4
<1>7. \A j \in Part : j < h => (n + 1) % Weight(j) # 0
  <2>. SUFFICES ASSUME NEW j \in Part, j < h, (n + 1) % Weight(j) = 0 PROVE FALSE
    OBVIOUS
  <2>1. h <= j
    BY <1>3, <1>4
  <2>. QED
    BY <2>1 DEF Part
<1>8. megolm_advance([data |-> data, counter |-> n % Counters]) =
        [data |-> RehashFrom(data, Min(H)), counter |-> t]
  BY <1>2 DEF megolm_advance
<1>. QED
  BY <1>4, <1>5, <1>6, <1>7, <1>8

(* A single step goes on where a jump ends.                                *)
LEMMA JumpThenStep ==
  ASSUME NEW S, Part \subseteq S, NEW data \in [Part -> Seq(S)], NEW c, NEW n,
         Ahead(c, n), Ahead(c, n + 1)
  PROVE  megolm_advance([data |-> Jumped(data, c, n), counter |-> n % Counters]) =
           [data |-> Jumped(data, c, n + 1), counter |-> (n + 1) % Counters]
<1>. DEFINE s == [j \in Part |-> Turns(c, n, j)]
<1>. DEFINE r == [j \in Part |-> Turns(c, n + 1, j)]
<1>1. n \in Nat
  BY DEF Ahead
<1>2. PICK h \in Part :
        /\ (n + 1) % Weight(h) = 0
        /\ \A j \in Part : j < h => (n + 1) % Weight(j) # 0
        /\ megolm_advance([data |-> Jumped(data, c, n), counter |-> n % Counters]) =
             [data |-> RehashFrom(Jumped(data, c, n), h), counter |-> (n + 1) % Counters]
  BY <1>1, StepIs
<1>3. s \in [Part -> Nat] /\ r \in [Part -> Nat]
  BY TurnsType
<1>4. /\ \A j \in Part : j < h => r[j] = s[j]
      /\ r[h] = s[h] + 1
      /\ \A j \in Part : j > h => r[j] = 0
  <2>1. /\ \A j \in Part : j < h => Turns(c, n + 1, j) = Turns(c, n, j)
        /\ Turns(c, n + 1, h) = Turns(c, n, h) + 1
        /\ \A j \in Part : j > h => Turns(c, n + 1, j) = 0
    BY <1>2, NextTurns
  <2>. QED
    BY <2>1
<1>5. Jumped(data, c, n) = AllTurned(data, s) /\ Jumped(data, c, n + 1) = AllTurned(data, r)
  BY DEF Jumped
<1>. HIDE DEF s, r
<1>6. RehashFrom(AllTurned(data, s), h) = AllTurned(data, r)
  BY <1>3, <1>4, AllTurnedOnce
<1>. QED
  BY <1>2, <1>5, <1>6


(***************************************************************************)
(* Jumps of any distance.                                                  *)
(***************************************************************************)
(* A ratchet whose values are made of names in S, and the jump of d.       *)
Ratchets(S) == [data : [Part -> Seq(S)], counter : 0..(Counters - 1)]

Jump(m, d) == megolm_advance_to(m, (m.counter + d) % Counters)

LEMMA JumpFrom ==
  ASSUME NEW S, Part \subseteq S, NEW m \in Ratchets(S), NEW d \in 0..(Counters - 1)
  PROVE  /\ Ahead(m.counter, m.counter + d)
         /\ Jump(m, d) = [data    |-> Jumped(m.data, m.counter, m.counter + d),
                          counter |-> (m.counter + d) % Counters]
         /\ Jump(m, d) \in Ratchets(S)
<1>. DEFINE c == m.counter
<1>. DEFINE n == c + d
<1>. DEFINE data == m.data
<1>1. Counters \in Nat \ {0}
  BY Weights
<1>2. c \in 0..(Counters - 1) /\ data \in [Part -> Seq(S)] /\ m = [data |-> data, counter |-> c]
  BY DEF Ratchets
<1>3. c \in Nat /\ n \in Nat /\ c <= n /\ n < c + Counters
  BY <1>1, <1>2
<1>4. Ahead(c, n)
  BY <1>2, <1>3 DEF Ahead
<1>. HIDE DEF c, n, data
<1>5. /\ megolm_advance_to([data |-> data, counter |-> c], n % Counters) =
           [data |-> Jumped(data, c, n), counter |-> n % Counters]
      /\ Jumped(data, c, n) \in [Part -> Seq(S)]
  BY <1>2, <1>4, JumpIs
<1>6. n % Counters \in 0..(Counters - 1)
  BY <1>1, <1>3
<1>7. Jump(m, d) = [data |-> Jumped(data, c, n), counter |-> n % Counters]
  BY <1>2, <1>5 DEF Jump, c, n, data
<1>8. Jump(m, d) \in Ratchets(S)
  BY <1>5, <1>6, <1>7 DEF Ratchets
<1>. QED
  BY <1>4, <1>7, <1>8 DEF c, n, data

(* A jump to where the ratchet is changes nothing. *)
LEMMA NoJump ==
  ASSUME NEW S, Part \subseteq S, NEW m \in Ratchets(S)
  PROVE  Jump(m, 0) = m
<1>. DEFINE c == m.counter
<1>. DEFINE s == [j \in Part |-> Turns(c, c, j)]
<1>1. Counters \in Nat \ {0}
  BY Weights
<1>2. c \in 0..(Counters - 1) /\ m = [data |-> m.data, counter |-> c]
  BY DEF Ratchets
<1>3. c + 0 = c /\ c % Counters = c /\ c \in Nat /\ 0 \in 0..(Counters - 1)
  <2>1. \A k \in Nat \ {0} : \A x \in 0..(k - 1) : x % k = x
    OBVIOUS
  <2>. QED
    BY <1>1, <1>2, <2>1
<1>4. \A j \in Part : Up(c, j) \in Nat
  BY <1>3, UpType
<1>5. \A j \in Part : Turns(c, c, j) = 0
  <2>1. \A x \in Nat : x - x = 0
    OBVIOUS
  <2>2. \A j \in Part : Turns(c, c, j) = Up(c, j) - Up(c, j)
    BY DEF Turns
  <2>. QED
    BY <1>4, <2>1, <2>2
<1>6. s[0] = 0 /\ s[1] = 0 /\ s[2] = 0 /\ s[3] = 0
  BY <1>5, Parts
<1>. HIDE DEF s
<1>7. AllTurned(m.data, s) = m.data
  BY <1>6, NotTurned DEF AllTurned
<1>8. Jumped(m.data, c, c) = m.data
  BY <1>7 DEF Jumped, s
<1>9. Jump(m, 0) = [data |-> Jumped(m.data, c, c + 0), counter |-> (c + 0) % Counters]
  BY <1>3, JumpFrom
<1>. QED
  BY <1>2, <1>3, <1>8, <1>9

(* A single step after a jump: the jump that is longer by one. *)
LEMMA JumpOneMore ==
  ASSUME NEW S, Part \subseteq S, NEW m \in Ratchets(S), NEW d \in Nat, d + 1 < Counters
  PROVE  megolm_advance(Jump(m, d)) = Jump(m, d + 1)
<1>. DEFINE c == m.counter
<1>. DEFINE n == c + d
<1>. DEFINE data == m.data
<1>1. Counters \in Nat \ {0}
  BY Weights
<1>2. c \in 0..(Counters - 1) /\ data \in [Part -> Seq(S)]
  BY DEF Ratchets
<1>3. d \in 0..(Counters - 1) /\ d + 1 \in 0..(Counters - 1) /\ c + (d + 1) = n + 1
  BY <1>1, <1>2
<1>4. Ahead(c, n) /\ Jump(m, d) = [data |-> Jumped(data, c, n), counter |-> n % Counters]
  BY <1>3, JumpFrom
<1>5. /\ Ahead(c, n + 1)
      /\ Jump(m, d + 1) = [data |-> Jumped(data, c, n + 1), counter |-> (n + 1) % Counters]
  <2>1. /\ Ahead(c, c + (d + 1))
        /\ Jump(m, d + 1) = [data    |-> Jumped(data, c, c + (d + 1)),
                             counter |-> (c + (d + 1)) % Counters]
    BY <1>3, JumpFrom
  <2>. HIDE DEF n
  <2>. QED
    BY <1>3, <2>1
<1>. HIDE DEF c, n, data
<1>. QED
  BY <1>2, <1>4, <1>5, JumpThenStep

(* Two jumps, less than a turn of the counter together, are one.           *)
LEMMA JumpsCompose ==
  ASSUME NEW S, Part \subseteq S, NEW m \in Ratchets(S), NEW d \in Nat
  PROVE  \A e \in Nat : d + e < Counters => Jump(Jump(m, d), e) = Jump(m, d + e)
<1>. DEFINE T == { e \in Nat : d + e < Counters => Jump(Jump(m, d), e) = Jump(m, d + e) }
<1>0. Counters \in Nat \ {0}
  BY Weights
<1>1. 0 \in T
  <2>. SUFFICES ASSUME d + 0 < Counters PROVE Jump(Jump(m, d), 0) = Jump(m, d + 0)
    OBVIOUS
  <2>1. d \in 0..(Counters - 1) /\ d + 0 = d
    BY <1>0
  <2>2. Jump(m, d) \in Ratchets(S)
    BY <2>1, JumpFrom
  <2>. QED
    BY <2>1, <2>2, NoJump
<1>2. ASSUME NEW e \in T PROVE e + 1 \in T
  <2>1. e \in Nat /\ e + 1 \in Nat
    OBVIOUS
  <2>2. SUFFICES ASSUME d + (e + 1) < Counters
                 PROVE  Jump(Jump(m, d), e + 1) = Jump(m, d + (e + 1))
    BY <2>1
  <2>3. d \in 0..(Counters - 1) /\ d + e \in Nat /\ d + e < Counters
        /\ (d + e) + 1 < Counters /\ e + 1 < Counters /\ d + (e + 1) = (d + e) + 1
    BY <1>0, <2>1, <2>2
  <2>4. Jump(Jump(m, d), e) = Jump(m, d + e)
    BY <2>3
  <2>5. Jump(m, d) \in Ratchets(S)
    BY <2>3, JumpFrom
  <2>6. megolm_advance(Jump(Jump(m, d), e)) = Jump(Jump(m, d), e + 1)
    BY <2>1, <2>3, <2>5, JumpOneMore
  <2>7. megolm_advance(Jump(m, d + e)) = Jump(m, (d + e) + 1)
    BY <2>3, JumpOneMore
  <2>. QED
    BY <2>3, <2>4, <2>6, <2>7
<1>3. T = Nat
  <2>1. T \subseteq Nat
    OBVIOUS
  <2>. HIDE DEF T
  <2>. QED
    BY <1>1, <1>2, <2>1, Numbers
<1>. QED
  BY <1>3


(***************************************************************************)
(* One way.  No value is a prefix of another, so that the value of part h, *)
(* which a step hashes on and copies into all the parts after it, is not   *)
(* among those that are left, nor can be hashed from one of them.          *)
(***************************************************************************)
Prefix(x, y) == Len(x) <= Len(y) /\ \A i \in 1..Len(x) : x[i] = y[i]

PrefixFree(data) == \A i \in Part, j \in Part : Prefix(data[i], data[j]) => i = j

(* The values after part h was rehashed, and no part before it. *)
Past(data, next, h) ==
  /\ \A i \in Part : i < h => next[i] = data[i]
  /\ \A i \in Part : i >= h => Prefix(data[h], next[i]) /\ Len(data[h]) < Len(next[i])

LEMMA PrefixIs ==
  ASSUME NEW S, NEW x \in Seq(S), NEW y \in Seq(S), IsPrefix(x, y)
  PROVE  Prefix(x, y)
<1>1. Len(x) <= Len(y) /\ SubSeq(x, 1, Len(x)) = SubSeq(y, 1, Len(x)) /\ Len(x) \in Nat
  BY DEF IsPrefix
<1>2. \A i \in 1..Len(x) : SubSeq(x, 1, Len(x))[i] = x[i]
  BY <1>1
<1>3. \A i \in 1..Len(x) : SubSeq(y, 1, Len(x))[i] = y[i]
  BY <1>1
<1>. QED
  BY <1>1, <1>2, <1>3 DEF Prefix

(* A value that is hashed once more, and what is or has a prefix of it.    *)
LEMMA Hashed ==
  ASSUME NEW S, NEW x \in Seq(S), NEW j \in S
  PROVE  /\ Append(x, j) \in Seq(S) /\ Len(Append(x, j)) = Len(x) + 1
         /\ \A i \in 1..Len(x) : Append(x, j)[i] = x[i]
         /\ Append(x, j)[Len(x) + 1] = j
  OBVIOUS

LEMMA HashedLater ==
  ASSUME NEW S, NEW x \in Seq(S), NEW j \in S, NEW y \in Seq(S), Prefix(y, x)
  PROVE  Prefix(y, Append(x, j)) /\ Len(y) < Len(Append(x, j))
<1>1. Len(y) <= Len(x) /\ Len(x) \in Nat /\ Len(y) \in Nat
      /\ \A i \in 1..Len(y) : y[i] = x[i] /\ i \in 1..Len(x)
  BY DEF Prefix
<1>. QED
  BY <1>1, Hashed DEF Prefix

LEMMA HashedBefore ==
  ASSUME NEW S, NEW x \in Seq(S), NEW j \in S, NEW y \in Seq(S), Prefix(Append(x, j), y)
  PROVE  Prefix(x, y)
<1>1. Len(x) \in Nat /\ Len(y) \in Nat /\ Len(x) + 1 <= Len(y)
      /\ \A i \in 1..(Len(x) + 1) : Append(x, j)[i] = y[i]
  BY Hashed DEF Prefix
<1>. QED
  BY <1>1, Hashed DEF Prefix

LEMMA PrefixOfHashed ==
  ASSUME NEW S, NEW x \in Seq(S), NEW j \in S, NEW y \in Seq(S), Prefix(y, Append(x, j))
  PROVE  Prefix(y, x) \/ Prefix(x, y)
<1>1. Len(x) \in Nat /\ Len(y) \in Nat /\ Len(y) <= Len(x) + 1
      /\ \A i \in 1..Len(y) : y[i] = Append(x, j)[i]
  BY Hashed DEF Prefix
<1>2. CASE Len(y) <= Len(x)
  BY <1>1, <1>2, Hashed DEF Prefix
<1>3. CASE Len(y) = Len(x) + 1
  BY <1>1, <1>3, Hashed DEF Prefix
<1>. QED
  BY <1>1, <1>2, <1>3

LEMMA PrefixOfPrefix ==
  ASSUME NEW S, NEW x \in Seq(S), NEW y \in Seq(S), NEW z \in Seq(S), Prefix(x, y), Prefix(y, z)
  PROVE  Prefix(x, z)
<1>1. Len(x) \in Nat /\ Len(y) \in Nat /\ Len(z) \in Nat /\ Len(x) <= Len(y) /\ Len(y) <= Len(z)
  BY DEF Prefix
<1>. QED
  BY <1>1 DEF Prefix

LEMMA HashedApart ==
  ASSUME NEW S, NEW x \in Seq(S), NEW i \in S, NEW j \in S, Prefix(Append(x, i), Append(x, j))
  PROVE  i = j
<1>1. Len(x) \in Nat /\ Len(x) + 1 \in 1..(Len(x) + 1)
  OBVIOUS
<1>. QED
  BY <1>1, Hashed DEF Prefix

(* A step keeps the values apart.                                          *)
LEMMA RehashedApart ==
  ASSUME NEW S, Part \subseteq S, NEW data \in [Part -> Seq(S)], NEW h \in Part,
         PrefixFree(data)
  PROVE  PrefixFree(RehashFrom(data, h)) /\ RehashFrom(data, h) \in [Part -> Seq(S)]
<1>. DEFINE next == RehashFrom(data, h)
<1>. DEFINE x == data[h]
<1>1. x \in Seq(S) /\ \A i \in Part : i \in S /\ data[i] \in Seq(S)
  OBVIOUS
<1>2. \A i \in Part : next[i] = IF i >= h THEN Append(x, i) ELSE data[i]
  BY DEF RehashFrom
<1>3. \A i \in Part : Append(x, i) \in Seq(S)
  BY <1>1
<1>4. next \in [Part -> Seq(S)]
  BY <1>1, <1>3 DEF RehashFrom
<1>5. ASSUME NEW i \in Part, NEW j \in Part, Prefix(next[i], next[j])
      PROVE  i = j
  <2>. HIDE DEF next, x
  <2>1. CASE i >= h /\ j >= h
    BY <1>1, <1>2, <1>5, <2>1, HashedApart
  <2>2. CASE i >= h /\ ~ (j >= h)
    <3>1. Prefix(Append(x, i), data[j])
      BY <1>2, <1>5, <2>2
    <3>2. Prefix(x, data[j])
      BY <1>1, <3>1, HashedBefore
    <3>3. h = j
      BY <3>2 DEF PrefixFree, x
    <3>. QED
      BY <2>2, <3>3 DEF Part
  <2>3. CASE ~ (i >= h) /\ j >= h
    <3>1. Prefix(data[i], Append(x, j))
      BY <1>2, <1>5, <2>3
    <3>2. Prefix(data[i], x) \/ Prefix(x, data[i])
      BY <1>1, <3>1, PrefixOfHashed
    <3>3. h = i
      BY <3>2 DEF PrefixFree, x
    <3>. QED
      BY <2>3, <3>3 DEF Part
  <2>4. CASE ~ (i >= h) /\ ~ (j >= h)
    BY <1>2, <1>5, <2>4 DEF PrefixFree
  <2>. QED
    BY <2>1, <2>2, <2>3, <2>4
<1>6. PrefixFree(next)
  BY <1>5 DEF PrefixFree
<1>. QED
  BY <1>4, <1>6

(* A step after any others is past the part that the first of all hashed,  *)
(* or past one before it.                                                  *)
LEMMA RehashedPast ==
  ASSUME NEW S, Part \subseteq S, NEW data \in [Part -> Seq(S)], NEW h \in Part
  PROVE  Past(data, RehashFrom(data, h), h)
<1>. DEFINE next == RehashFrom(data, h)
<1>. DEFINE x == data[h]
<1>1. x \in Seq(S) /\ \A i \in Part : i \in S
  OBVIOUS
<1>2. \A i \in Part : next[i] = IF i >= h THEN Append(x, i) ELSE data[i]
  BY DEF RehashFrom
<1>3. \A i \in Part : i < h => ~ (i >= h)
  BY DEF Part
<1>4. Prefix(x, x)
  BY <1>1 DEF Prefix
<1>5. \A i \in Part : Prefix(x, Append(x, i)) /\ Len(x) < Len(Append(x, i))
  <2>. HIDE DEF x
  <2>. QED
    BY <1>1, <1>4, HashedLater
<1>. QED
  BY <1>2, <1>3, <1>5 DEF Past

LEMMA PastAndOn ==
  ASSUME NEW S, Part \subseteq S, NEW data \in [Part -> Seq(S)], NEW next \in [Part -> Seq(S)],
         NEW h \in Part, Past(data, next, h), NEW g \in Part
  PROVE  \E k \in Part : Past(data, RehashFrom(next, g), k)
<1>. DEFINE new == RehashFrom(next, g)
<1>1. \A i \in Part : new[i] = IF i >= g THEN Append(next[g], i) ELSE next[i]
  BY DEF RehashFrom
<1>2. \A i \in Part : i \in S /\ data[i] \in Seq(S) /\ next[i] \in Seq(S)
  OBVIOUS
<1>3. \A y \in Seq(S) : Prefix(y, next[g]) =>
        \A i \in Part : Prefix(y, Append(next[g], i)) /\ Len(y) < Len(Append(next[g], i))
  BY <1>2, HashedLater
<1>4. CASE g < h
  <2>1. next[g] = data[g] /\ \A i \in Part : i < g => i < h /\ ~ (i >= g)
    BY <1>4, SMTT(30) DEF Past, Part
  <2>2. Prefix(data[g], next[g])
    BY <1>2, <2>1 DEF Prefix
  <2>3. \A i \in Part : Prefix(data[g], Append(next[g], i)) /\ Len(data[g]) < Len(Append(next[g], i))
    BY <1>2, <1>3, <2>2
  <2>4. Past(data, new, g)
    BY <1>1, <2>1, <2>3 DEF Past
  <2>. QED
    BY <2>4
<1>5. CASE ~ (g < h)
  <2>1. g >= h /\ \A i \in Part : i < h => ~ (i >= g)
    BY <1>5, SMTT(30) DEF Part
  <2>2. Prefix(data[h], next[g])
    BY <2>1 DEF Past
  <2>3. \A i \in Part : Prefix(data[h], Append(next[g], i)) /\ Len(data[h]) < Len(Append(next[g], i))
    BY <1>2, <1>3, <2>2
  <2>4. Past(data, new, h)
    BY <1>1, <2>1, <2>3 DEF Past
  <2>. QED
    BY <2>4
<1>. QED
  BY <1>4, <1>5

(* None of the new values can be hashed into the old one of part h, or of  *)
(* a part after it.                                                        *)
LEMMA NoWayBack ==
  ASSUME NEW S, NEW data \in [Part -> Seq(S)], NEW next \in [Part -> Seq(S)], PrefixFree(data),
         NEW h \in Part, Past(data, next, h), NEW j \in Part, h <= j, NEW i \in Part
  PROVE  ~ IsPrefix(next[i], data[j])
<1>. SUFFICES ASSUME IsPrefix(next[i], data[j]) PROVE FALSE
  OBVIOUS
<1>1. data[h] \in Seq(S) /\ data[j] \in Seq(S) /\ next[i] \in Seq(S)
  OBVIOUS
<1>2. Prefix(next[i], data[j])
  BY <1>1, PrefixIs
<1>3. CASE i < h
  <2>1. Prefix(data[i], data[j])
    BY <1>2, <1>3 DEF Past
  <2>2. i = j
    BY <2>1 DEF PrefixFree
  <2>. QED
    BY <1>3, <2>2 DEF Part
<1>4. CASE ~ (i < h)
  <2>1. i >= h
    BY <1>4 DEF Part
  <2>2. Prefix(data[h], next[i]) /\ Len(data[h]) < Len(next[i])
    BY <2>1 DEF Past
  <2>3. Prefix(data[h], data[j])
    BY <1>1, <1>2, <2>2, PrefixOfPrefix
  <2>4. h = j
    BY <2>3 DEF PrefixFree
  <2>. QED
    BY <1>1, <1>2, <2>2, <2>4 DEF Prefix
<1>. QED
  BY <1>3, <1>4

(* So neither from one ratchet, nor from two, can an earlier one be had.   *)
LEMMA NotDerivable ==
  ASSUME NEW S, NEW data \in [Part -> Seq(S)], PrefixFree(data),
         NEW x \in [Part -> Seq(S)], NEW g \in Part, Past(data, x, g),
         NEW y \in [Part -> Seq(S)], NEW h \in Part, Past(data, y, h)
  PROVE  ~ Derivable(Range(x) \cup Range(y), data)
<1>1. PICK j \in Part : g <= j /\ h <= j
  <2>1. g <= h \/ h <= g
    BY DEF Part
  <2>2. g <= g /\ h <= h
    BY DEF Part
  <2>. QED
    BY <2>1, <2>2
<1>2. \A i \in Part : ~ IsPrefix(x[i], data[j])
  BY <1>1, NoWayBack
<1>3. \A i \in Part : ~ IsPrefix(y[i], data[j])
  BY <1>1, NoWayBack
<1>4. \A value \in Range(x) \cup Range(y) : ~ IsPrefix(value, data[j])
  BY <1>2, <1>3 DEF Range
<1>. QED
  BY <1>4 DEF Derivable

(* Values that are random start apart.                                     *)
LEMMA RandomApart ==
  ASSUME NEW S, NEW name \in S, Part \subseteq S
  PROVE  RandomData(name) \in [Part -> Seq(S)] /\ PrefixFree(RandomData(name))
<1>. DEFINE d == RandomData(name)
<1>1. \A j \in Part : d[j] = << name, j >> /\ d[j] \in Seq(S)
  BY DEF RandomData
<1>2. d \in [Part -> Seq(S)]
  BY DEF RandomData
<1>3. \A i \in Part, j \in Part : Prefix(<< name, i >>, << name, j >>) => i = j
  <2>. SUFFICES ASSUME NEW i \in Part, NEW j \in Part, Prefix(<< name, i >>, << name, j >>)
                PROVE  i = j
    OBVIOUS
  <2>1. Len(<< name, i >>) = 2 /\ << name, i >>[2] = i /\ << name, j >>[2] = j
    OBVIOUS
  <2>2. 2 \in 1..2
    OBVIOUS
  <2>. QED
    BY <2>1, <2>2 DEF Prefix
<1>. QED
  BY <1>1, <1>2, <1>3 DEF PrefixFree

(* Values from which the others cannot be had: the new ones after a step.  *)
Later(data, next) == \E h \in Part : Past(data, next, h)

(* One step: what it hashes, and that it keeps all this. *)
LEMMA StepOn ==
  ASSUME NEW S, Part \subseteq S, NEW m \in Ratchets(S)
  PROVE  \E h \in Part : /\ megolm_advance(m).data = RehashFrom(m.data, h)
                         /\ megolm_advance(m).counter = (m.counter + 1) % Counters
                         /\ megolm_advance(m) \in Ratchets(S)
<1>. DEFINE c == m.counter
<1>. DEFINE data == m.data
<1>1. Counters \in Nat \ {0}
  BY Weights
<1>2. c \in 0..(Counters - 1) /\ data \in [Part -> Seq(S)] /\ m = [data |-> data, counter |-> c]
  BY DEF Ratchets
<1>3. c % Counters = c /\ c \in Nat /\ (c + 1) % Counters \in 0..(Counters - 1)
  <2>1. \A k \in Nat \ {0} : \A x \in 0..(k - 1) : x % k = x /\ (x + 1) % k \in 0..(k - 1)
    OBVIOUS
  <2>. QED
    BY <1>1, <1>2, <2>1
<1>4. PICK h \in Part : megolm_advance([data |-> data, counter |-> c % Counters]) =
                          [data |-> RehashFrom(data, h), counter |-> (c + 1) % Counters]
  BY <1>3, StepIs
<1>5. \A i \in Part : data[i] \in Seq(S) /\ i \in S
  BY <1>2
<1>6. RehashFrom(data, h) \in [Part -> Seq(S)]
  <2>1. \A i \in Part : Append(data[h], i) \in Seq(S)
    BY <1>5
  <2>. QED
    BY <1>5, <2>1 DEF RehashFrom
<1>. HIDE DEF c, data
<1>7. megolm_advance(m) = [data |-> RehashFrom(data, h), counter |-> (c + 1) % Counters]
  BY <1>2, <1>3, <1>4
<1>8. megolm_advance(m) \in Ratchets(S)
  BY <1>3, <1>6, <1>7 DEF Ratchets
<1>. QED
  BY <1>7, <1>8 DEF c, data

LEMMA StepLater ==
  ASSUME NEW S, Part \subseteq S, NEW m \in Ratchets(S), PrefixFree(m.data)
  PROVE  /\ megolm_advance(m) \in Ratchets(S) /\ PrefixFree(megolm_advance(m).data)
         /\ Later(m.data, megolm_advance(m).data)
<1>1. PICK h \in Part : megolm_advance(m).data = RehashFrom(m.data, h)
                        /\ megolm_advance(m) \in Ratchets(S)
  BY StepOn
<1>2. m.data \in [Part -> Seq(S)]
  BY DEF Ratchets
<1>3. PrefixFree(RehashFrom(m.data, h))
  BY <1>2, RehashedApart
<1>4. Past(m.data, RehashFrom(m.data, h), h)
  BY <1>2, RehashedPast
<1>. QED
  BY <1>1, <1>3, <1>4 DEF Later

LEMMA StepLaterStill ==
  ASSUME NEW S, Part \subseteq S, NEW data \in [Part -> Seq(S)], NEW m \in Ratchets(S),
         Later(data, m.data)
  PROVE  Later(data, megolm_advance(m).data)
<1>1. PICK g \in Part : megolm_advance(m).data = RehashFrom(m.data, g)
  BY StepOn
<1>2. m.data \in [Part -> Seq(S)]
  BY DEF Ratchets
<1>3. PICK h \in Part : Past(data, m.data, h)
  BY DEF Later
<1>4. \E k \in Part : Past(data, RehashFrom(m.data, g), k)
  BY <1>2, <1>3, PastAndOn
<1>. QED
  BY <1>1, <1>4 DEF Later

(* A jump is so many steps.                                                *)
LEMMA JumpLater ==
  ASSUME NEW S, Part \subseteq S, NEW m \in Ratchets(S), PrefixFree(m.data)
  PROVE  \A d \in Nat : d < Counters =>
           PrefixFree(Jump(m, d).data) /\ (d # 0 => Later(m.data, Jump(m, d).data))
<1>. DEFINE P(d) == PrefixFree(Jump(m, d).data) /\ (d # 0 => Later(m.data, Jump(m, d).data))
<1>. DEFINE T == { d \in Nat : d < Counters => P(d) }
<1>1. 0 \in T
  <2>1. Jump(m, 0) = m
    BY NoJump
  <2>. QED
    BY <2>1
<1>2. ASSUME NEW d \in T PROVE d + 1 \in T
  <2>1. d \in Nat /\ d + 1 \in Nat
    OBVIOUS
  <2>2. SUFFICES ASSUME d + 1 < Counters PROVE P(d + 1)
    BY <2>1
  <2>3. d < Counters /\ d \in 0..(Counters - 1) /\ d + 1 # 0
    BY <2>1, <2>2, Weights
  <2>4. PrefixFree(Jump(m, d).data) /\ (d # 0 => Later(m.data, Jump(m, d).data))
    BY <2>3
  <2>5. Jump(m, d) \in Ratchets(S)
    BY <2>3, JumpFrom
  <2>6. megolm_advance(Jump(m, d)) = Jump(m, d + 1)
    BY <2>1, <2>2, JumpOneMore
  <2>7. PrefixFree(Jump(m, d + 1).data) /\ Later(Jump(m, d).data, Jump(m, d + 1).data)
    BY <2>4, <2>5, <2>6, StepLater
  <2>8. m.data \in [Part -> Seq(S)]
    BY DEF Ratchets
  <2>9. CASE d = 0
    <3>1. Jump(m, d) = m
      BY <2>9, NoJump
    <3>. QED
      BY <2>7, <3>1
  <2>10. CASE d # 0
    <3>1. Later(m.data, Jump(m, d + 1).data)
      BY <2>4, <2>5, <2>6, <2>8, <2>10, StepLaterStill
    <3>. QED
      BY <2>7, <3>1
  <2>. QED
    BY <2>9, <2>10
<1>3. T = Nat
  <2>1. T \subseteq Nat
    OBVIOUS
  <2>. HIDE DEF T
  <2>. QED
    BY <1>1, <1>2, <2>1, Numbers
<1>. QED
  BY <1>3

(***************************************************************************)
(* The two ways to advance (MegolmCatchUp), for any counter to start from  *)
(* and any number of steps.                                                *)
(*                                                                         *)
(* The inductive invariant says where the ratchet that goes by single      *)
(* steps is at every moment, and not only when the other has caught up: it *)
(* is the jump of the lag from the ratchet behind.  A single step makes    *)
(* that jump longer by one (JumpOneMore), and a jump of the ratchet behind *)
(* cuts it in two (JumpsCompose).                                          *)
(***************************************************************************)
StepNames == {"R"} \cup Part

CatchUpInvariant ==
  /\ lag \in 0..(Counters - 1)
  /\ behind \in Ratchets(StepNames)
  /\ PrefixFree(behind.data)
  /\ ahead = Jump(behind, lag)

LEMMA NamesOfSteps == Part \subseteq StepNames /\ "R" \in StepNames
  BY DEF StepNames

(* The ratchet ahead is one like the ratchet behind. *)
LEMMA AheadToo ==
  ASSUME CatchUpInvariant
  PROVE  ahead \in Ratchets(StepNames) /\ PrefixFree(ahead.data)
<1>1. lag \in Nat /\ lag < Counters /\ Counters \in Nat
  BY Weights DEF CatchUpInvariant
<1>2. Jump(behind, lag) \in Ratchets(StepNames)
  BY NamesOfSteps, JumpFrom DEF CatchUpInvariant
<1>3. PrefixFree(Jump(behind, lag).data)
  BY <1>1, NamesOfSteps, JumpLater DEF CatchUpInvariant
<1>. QED
  BY <1>2, <1>3 DEF CatchUpInvariant

LEMMA CatchUpStarts == CatchUpInit => CatchUpInvariant
<1>. SUFFICES ASSUME CatchUpInit PROVE CatchUpInvariant
  OBVIOUS
<1>1. Counters \in Nat \ {0}
  BY Weights
<1>2. PICK counter \in Starts : behind = megolm_init(RandomData("R"), counter)
  BY DEF CatchUpInit
<1>3. RandomData("R") \in [Part -> Seq(StepNames)] /\ PrefixFree(RandomData("R"))
  BY NamesOfSteps, RandomApart
<1>4. counter \in 0..(Counters - 1)
  BY CatchUpConstants
<1>5. behind \in Ratchets(StepNames) /\ behind.data = RandomData("R")
  BY <1>2, <1>3, <1>4 DEF megolm_init, Ratchets
<1>6. Jump(behind, 0) = behind
  BY <1>5, NamesOfSteps, NoJump
<1>. QED
  BY <1>1, <1>3, <1>5, <1>6 DEF CatchUpInit, CatchUpInvariant

LEMMA CatchUpSteps == CatchUpInvariant /\ [CatchUpNext]_CatchUpVars => CatchUpInvariant'
<1>. SUFFICES ASSUME CatchUpInvariant, [CatchUpNext]_CatchUpVars PROVE CatchUpInvariant'
  OBVIOUS
<1>1. Counters \in Nat \ {0} /\ lag \in 0..(Counters - 1) /\ behind \in Ratchets(StepNames)
      /\ PrefixFree(behind.data) /\ ahead = Jump(behind, lag)
  BY Weights DEF CatchUpInvariant
<1>2. CASE Advance
  <2>1. lag \in Nat /\ lag + 1 < Counters /\ lag + 1 \in 0..(Counters - 1)
    BY <1>1, <1>2 DEF Advance
  <2>2. megolm_advance(Jump(behind, lag)) = Jump(behind, lag + 1)
    BY <1>1, <2>1, NamesOfSteps, JumpOneMore
  <2>. QED
    BY <1>1, <1>2, <2>1, <2>2 DEF Advance, CatchUpInvariant
<1>3. CASE \E distance \in 0..lag : CatchUp(distance)
  <2>1. PICK d \in 0..lag : CatchUp(d)
    BY <1>3
  <2>2. behind' = Jump(behind, d) /\ lag' = lag - d /\ ahead' = ahead
    BY <2>1 DEF CatchUp, Jump
  <2>3. d \in Nat /\ d < Counters /\ d \in 0..(Counters - 1)
        /\ lag - d \in 0..(Counters - 1) /\ lag - d \in Nat /\ d + (lag - d) = lag
        /\ lag < Counters
    BY <1>1
  <2>4. Jump(behind, d) \in Ratchets(StepNames)
    BY <1>1, <2>3, NamesOfSteps, JumpFrom
  <2>5. PrefixFree(Jump(behind, d).data)
    BY <1>1, <2>3, NamesOfSteps, JumpLater
  <2>6. Jump(Jump(behind, d), lag - d) = Jump(behind, lag)
    <3>1. \A e \in Nat : d + e < Counters => Jump(Jump(behind, d), e) = Jump(behind, d + e)
      BY <1>1, <2>3, NamesOfSteps, JumpsCompose
    <3>2. Jump(Jump(behind, d), lag - d) = Jump(behind, d + (lag - d))
      BY <2>3, <3>1
    <3>. QED
      BY <2>3, <3>2
  <2>. QED
    BY <1>1, <2>2, <2>3, <2>4, <2>5, <2>6 DEF CatchUpInvariant
<1>4. CASE UNCHANGED CatchUpVars
  BY <1>4 DEF CatchUpVars, CatchUpInvariant
<1>. QED
  BY <1>2, <1>3, <1>4 DEF CatchUpNext

(* The ratchet that goes by single steps is always where one jump of the   *)
(* lag takes the ratchet that jumps (megolm_advance, megolm_advance_to).   *)
THEOREM AlwaysTheLagAhead == CatchUpSpec => []CatchUpInvariant
  BY CatchUpStarts, CatchUpSteps, PTL DEF CatchUpSpec

(* Both ratchets always have four values and a counter that wraps around   *)
(* (struct Megolm).                                                        *)
THEOREM RatchetsAreTyped == CatchUpSpec => []CatchUpTypeOK
<1>1. CatchUpInvariant => CatchUpTypeOK
  BY AheadToo DEF CatchUpInvariant, CatchUpTypeOK, Ratchets
<1>. QED
  BY <1>1, AlwaysTheLagAhead, PTL

(* By however many jumps of megolm_advance_to, across whatever turns of    *)
(* the counter: at the same message both ratchets have the same values,    *)
(* so that sender and receiver use the same key.                           *)
THEOREM JumpsAgreeHolds == CatchUpSpec => []JumpsAgree
<1>1. CatchUpInvariant => JumpsAgree
  BY NamesOfSteps, NoJump DEF CatchUpInvariant, JumpsAgree
<1>. QED
  BY <1>1, AlwaysTheLagAhead, PTL

(* What is past the first values cannot be hashed into them. *)
LEMMA LaterNotDerivable ==
  ASSUME NEW data \in [Part -> Seq(StepNames)], PrefixFree(data),
         NEW next \in [Part -> Seq(StepNames)], Later(data, next)
  PROVE  ~ Derivable(Range(next), data)
<1>1. PICK h \in Part : Past(data, next, h)
  BY DEF Later
<1>2. ~ Derivable(Range(next) \cup Range(next), data)
  BY <1>1, NotDerivable
<1>3. Range(next) \cup Range(next) = Range(next)
  OBVIOUS
<1>. QED
  BY <1>2, <1>3

(* No step and no jump leaves values from which those before it could be   *)
(* had: who gets hold of a ratchet reads no message that was sent before.  *)
THEOREM OneWayHolds == CatchUpSpec => OneWay
<1>. DEFINE A == /\ ahead' # ahead => ~ Derivable(Range(ahead'.data), ahead.data)
                 /\ behind' # behind => ~ Derivable(Range(behind'.data), behind.data)
<1>1. CatchUpInvariant /\ [CatchUpNext]_CatchUpVars => [A]_CatchUpVars
  <2>. SUFFICES ASSUME CatchUpInvariant, [CatchUpNext]_CatchUpVars PROVE A \/ UNCHANGED CatchUpVars
    OBVIOUS
  <2>1. Counters \in Nat \ {0} /\ lag \in 0..(Counters - 1) /\ behind \in Ratchets(StepNames)
        /\ PrefixFree(behind.data) /\ ahead \in Ratchets(StepNames) /\ PrefixFree(ahead.data)
    BY Weights, AheadToo DEF CatchUpInvariant
  <2>2. \A m \in Ratchets(StepNames) : m.data \in [Part -> Seq(StepNames)]
    BY DEF Ratchets
  <2>3. CASE Advance
    <3>1. ahead' = megolm_advance(ahead) /\ behind' = behind
      BY <2>3 DEF Advance
    <3>2. ahead' \in Ratchets(StepNames) /\ Later(ahead.data, ahead'.data)
      BY <2>1, <3>1, NamesOfSteps, StepLater
    <3>3. ~ Derivable(Range(ahead'.data), ahead.data)
      BY <2>1, <2>2, <3>2, LaterNotDerivable
    <3>. QED
      BY <3>1, <3>3
  <2>4. CASE \E distance \in 0..lag : CatchUp(distance)
    <3>1. PICK d \in 0..lag : CatchUp(d)
      BY <2>4
    <3>2. behind' = Jump(behind, d) /\ ahead' = ahead
      BY <3>1 DEF CatchUp, Jump
    <3>3. d \in Nat /\ d < Counters /\ d \in 0..(Counters - 1)
      BY <2>1
    <3>4. CASE d = 0
      BY <2>1, <3>2, <3>4, NamesOfSteps, NoJump
    <3>5. CASE d # 0
      <4>1. Later(behind.data, Jump(behind, d).data)
        BY <2>1, <3>3, <3>5, NamesOfSteps, JumpLater
      <4>2. Jump(behind, d) \in Ratchets(StepNames)
        BY <2>1, <3>3, NamesOfSteps, JumpFrom
      <4>3. ~ Derivable(Range(Jump(behind, d).data), behind.data)
        BY <2>1, <2>2, <4>1, <4>2, LaterNotDerivable
      <4>. QED
        BY <3>2, <4>3
    <3>. QED
      BY <3>4, <3>5
  <2>5. CASE UNCHANGED CatchUpVars
    BY <2>5
  <2>. QED
    BY <2>3, <2>4, <2>5 DEF CatchUpNext
<1>2. CatchUpInvariant /\ [CatchUpNext]_CatchUpVars =>
        [/\ ahead' # ahead => ~ Derivable(Range(ahead'.data), ahead.data)
         /\ behind' # behind => ~ Derivable(Range(behind'.data), behind.data)]_CatchUpVars
  BY <1>1
<1>. QED
  BY <1>2, AlwaysTheLagAhead, PTL DEF CatchUpSpec, OneWay

=============================================================================
