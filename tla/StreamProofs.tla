---------------------------- MODULE StreamProofs ----------------------------
(***************************************************************************)
(* Proofs about Stream and the encodings of Wire: for all requests and     *)
(* answers, any number of requests and all ways of cutting the bytes, what *)
(* one side reads is what the other side sent, up to the first field that  *)
(* is zero or empty.  The first sections follow a message through the      *)
(* serialiser, the header, the C string and the parser; the last ones show *)
(* that the packets keep their places in the stream.                       *)
(***************************************************************************)
EXTENDS Stream, TLAPS, FiniteSetTheorems

-----------------------------------------------------------------------------
(* Induction, and how numbers are written.                                 *)

(***************************************************************************)
(* A set of numbers without a least one is empty: induction, for formulas  *)
(* that a set can hold.                                                    *)
(***************************************************************************)
LEMMA Descent ==
  ASSUME NEW S, S \subseteq Nat, \A n \in S : \E m \in S : m < n
  PROVE  S = {}
<1> DEFINE R == OpToRel(<, Nat)
<1>1. IsWellFoundedOn(R, Nat)
  BY NatLessThanWellFounded
<1> HIDE DEF R
<1>2. SUFFICES ASSUME S # {} PROVE FALSE
  OBVIOUS
<1>3. PICK x \in S : \A y \in S : ~(<<y, x>> \in R)
  BY <1>1, <1>2, WFMin
<1>4. \A y \in S : <<y, x>> \in R <=> y < x
  BY DEF R, OpToRel
<1> QED BY <1>3, <1>4

-----------------------------------------------------------------------------
\* Varint, as a step of a function on numbers.
Coded(k, f) == IF k < 128 THEN <<k>> ELSE <<128 + (k % 128)>> \o f[k \div 128]

LEMMA VarintFunction ==
  ASSUME NEW n \in Nat
  PROVE  \E f : f = [k \in 0 .. n |->
                       IF k < 128 THEN <<k>> ELSE <<128 + (k % 128)>> \o f[k \div 128]]
<1> DEFINE Solves(f, m) == f = [k \in 0 .. m |-> Coded(k, f)]
           No == {m \in Nat : ~\E f : Solves(f, m)}
<1>1. ASSUME NEW m \in No PROVE \E l \in No : l < m
  <2>1. CASE m = 0
    <3> DEFINE f == [k \in 0 .. 0 |-> <<k>>]
    <3>1. Solves(f, 0)
      BY DEF Coded
    <3> QED BY <2>1, <3>1
  <2>2. CASE m > 0 /\ m - 1 \notin No
    <3>1. m - 1 \in Nat
      BY <2>2
    <3>2. PICK g : Solves(g, m - 1)
      BY <2>2, <3>1
    <3> DEFINE f == [k \in 0 .. m |-> IF k < m THEN g[k] ELSE Coded(k, g)]
    <3>3. \A k \in 0 .. m : k >= 128 => k \div 128 \in 0 .. m - 1
      OBVIOUS
    <3>4. \A k \in 0 .. m : Coded(k, f) = Coded(k, g)
      BY <3>3 DEF Coded
    <3>5. \A k \in 0 .. m - 1 : g[k] = Coded(k, g)
      BY <3>2
    <3>6. Solves(f, m)
      BY <2>2, <3>4, <3>5
    <3> QED BY <3>6
  <2> QED BY <2>1, <2>2
<1>2. No = {}
  <2> HIDE DEF No
  <2>1. No \subseteq Nat
    BY DEF No
  <2> QED BY <1>1, <2>1, Descent
<1>3. PICK f : Solves(f, n)
  BY <1>2
<1> QED BY <1>3 DEF Coded

\* The encodings of 0 to n.
VarintOf(n) == CHOOSE f : f = [k \in 0 .. n |->
                 IF k < 128 THEN <<k>> ELSE <<128 + (k % 128)>> \o f[k \div 128]]
LEMMA VarintGroups ==
  ASSUME NEW n \in Nat
  PROVE  \E f : /\ Varint(n) = f[n]
                /\ \A k \in 0 .. n : f[k] = Coded(k, f)
<1>1. Varint(n) = VarintOf(n)[n]
  BY DEF Varint, VarintOf
<1>2. VarintOf(n) = [k \in 0 .. n |->
        IF k < 128 THEN <<k>> ELSE <<128 + (k % 128)>> \o VarintOf(n)[k \div 128]]
  BY VarintFunction DEF VarintOf
<1>3. \A k \in 0 .. n : VarintOf(n)[k] = Coded(k, VarintOf(n))
  BY <1>2 DEF Coded
<1> QED BY <1>1, <1>3

Byte == 0 .. 255

LEMMA ConsFacts ==
  ASSUME NEW x \in Byte, NEW s \in Seq(Byte)
  PROVE  /\ <<x>> \o s \in Seq(Byte)
         /\ Len(<<x>> \o s) = Len(s) + 1 /\ Len(s) \in Nat
         /\ (<<x>> \o s)[1] = x
         /\ \A i \in 1 .. Len(s) : (<<x>> \o s)[i + 1] = s[i]
BY DEF Byte

(***************************************************************************)
(* The groups of seven bits of a number, the lowest first: all but the last*)
(* have the high bit set.                                                  *)
(***************************************************************************)
Part(n, i) == n \div Unit[i]

\* The bytes s are k groups of n.
Digits(s, k, n) ==
  /\ s \in Seq(Byte) /\ Len(s) = k
  /\ \A i \in 1 .. k : s[i] = IF i = k THEN Part(n, i) ELSE 128 + (Part(n, i) % 128)

LEMMA PartFacts ==
  ASSUME NEW n \in Nat
  PROVE  /\ Part(n, 1) = n
         /\ \A i \in 1 .. 4 : Part(n, i + 1) = Part(n \div 128, i)
         /\ \A i \in 1 .. 5 : Part(n, i) \in Nat
<1>1. Part(n, 1) = n
  BY SMT DEF Part, Unit
<1>2. Part(n, 2) = Part(n \div 128, 1)
  BY SMT DEF Part, Unit
<1>3. Part(n, 3) = Part(n \div 128, 2)
  BY SMT DEF Part, Unit
<1>4. Part(n, 4) = Part(n \div 128, 3)
  BY SMT DEF Part, Unit
<1>5. Part(n, 5) = Part(n \div 128, 4)
  BY SMT DEF Part, Unit
<1>6. \A i \in 1 .. 5 : Part(n, i) \in Nat
  BY SMT DEF Part, Unit
<1>7. \A i \in 1 .. 4 : i = 1 \/ i = 2 \/ i = 3 \/ i = 4
  OBVIOUS
<1> QED BY SMT, <1>1, <1>2, <1>3, <1>4, <1>5, <1>6, <1>7

LEMMA MoreGroups ==
  ASSUME NEW n \in Nat, NEW s \in Seq(Byte)
  PROVE  /\ <<128 + (n % 128)>> \o s \in Seq(Byte)
         /\ Len(<<128 + (n % 128)>> \o s) = Len(s) + 1 /\ Len(s) \in Nat
         /\ (<<128 + (n % 128)>> \o s)[1] = 128 + (n % 128)
         /\ \A i \in 1 .. Len(s) : (<<128 + (n % 128)>> \o s)[i + 1] = s[i]
<1>1. 128 + (n % 128) \in Byte
  BY DEF Byte
<1> HIDE DEF Byte
<1> QED BY <1>1, ConsFacts

LEMMA LastGroup ==
  ASSUME NEW n \in Nat, n < 128
  PROVE  Digits(<<n>>, 1, n)
<1>1. n \in Byte
  BY DEF Byte
<1>2. <<n>> \in Seq(Byte) /\ Len(<<n>>) = 1 /\ <<n>>[1] = n
  BY <1>1
<1>3. Part(n, 1) = n
  BY PartFacts
<1>4. \A i \in 1 .. 1 : i = 1
  OBVIOUS
<1> QED BY <1>2, <1>3, <1>4 DEF Digits

LEMMA GroupBefore ==
  ASSUME NEW n \in Nat, NEW k \in 1 .. 4, NEW s, Digits(s, k, n \div 128)
  PROVE  Digits(<<128 + (n % 128)>> \o s, k + 1, n)
<1> DEFINE t == <<128 + (n % 128)>> \o s
<1>1. s \in Seq(Byte) /\ Len(s) = k
  BY DEF Digits
<1>2. /\ t \in Seq(Byte) /\ Len(t) = k + 1 /\ t[1] = 128 + (n % 128)
      /\ \A i \in 1 .. k : t[i + 1] = s[i]
  BY <1>1, MoreGroups
<1> HIDE DEF t
<1>3. \A i \in 1 .. k : s[i] = IF i = k THEN Part(n \div 128, i) ELSE 128 + (Part(n \div 128, i) % 128)
  BY DEF Digits
<1>4. ASSUME NEW i \in 1 .. k + 1
      PROVE  t[i] = IF i = k + 1 THEN Part(n, i) ELSE 128 + (Part(n, i) % 128)
  <2>1. CASE i = 1
    <3>1. Part(n, 1) = n
      BY PartFacts
    <3> QED BY <2>1, <3>1, <1>2, k # 0
  <2>2. CASE i # 1
    <3> DEFINE j == i - 1
    <3>1. j \in 1 .. k /\ j \in 1 .. 4 /\ i = j + 1 /\ (i = k + 1 <=> j = k)
      BY <2>2
    <3> HIDE DEF j
    <3>2. Part(n, j + 1) = Part(n \div 128, j)
      BY <3>1, PartFacts
    <3>3. t[j + 1] = s[j]
      BY <1>2, <3>1
    <3> QED BY <3>1, <3>2, <3>3, <1>3
  <2> QED BY <2>1, <2>2
<1>5. Digits(t, k + 1, n)
  BY <1>2, <1>4 DEF Digits
<1> QED BY <1>5 DEF t

(***************************************************************************)
(* How a number that is not negative is written, and how long that is.     *)
(***************************************************************************)
LEMMA VarintSizes ==
  ASSUME NEW n \in Nat
  PROVE  /\ n < 128 => VarintSize(n) = 1
         /\ n >= 128 /\ n < 16384 => VarintSize(n) = 2
         /\ n >= 16384 /\ n < 2097152 => VarintSize(n) = 3
         /\ n >= 2097152 /\ n < 268435456 => VarintSize(n) = 4
         /\ n >= 268435456 => VarintSize(n) = 5
<1> DEFINE S == {k \in 1 .. 5 : k = 5 \/ n < Unit[k + 1]}
<1>1. VarintSize(n) = Min(S)
  BY SMT DEF VarintSize
<1>2. ASSUME NEW k \in S, \A j \in S : k <= j
      PROVE  Min(S) = k
  <2>1. \A j \in S : j \in 1 .. 5
    OBVIOUS
  <2> HIDE DEF S
  <2> QED BY <1>2, <2>1 DEF Min
<1>3. S \subseteq 1 .. 5 /\ 5 \in S /\ (1 \in S <=> n < 128) /\ (2 \in S <=> n < 16384)
      /\ (3 \in S <=> n < 2097152) /\ (4 \in S <=> n < 268435456)
  <2>1. Unit[2] = 128 /\ Unit[3] = 16384 /\ Unit[4] = 2097152 /\ Unit[5] = 268435456
    BY SMT DEF Unit
  <2> HIDE DEF Unit
  <2> QED BY SMT, <2>1
<1> HIDE DEF S
<1>4. n < 128 => 1 \in S /\ \A j \in S : 1 <= j
  BY SMT, <1>3
<1>5. n >= 128 /\ n < 16384 => 2 \in S /\ \A j \in S : 2 <= j
  BY SMT, <1>3
<1>6. n >= 16384 /\ n < 2097152 => 3 \in S /\ \A j \in S : 3 <= j
  BY SMT, <1>3
<1>7. n >= 2097152 /\ n < 268435456 => 4 \in S /\ \A j \in S : 4 <= j
  BY SMT, <1>3
<1>8. n >= 268435456 => 5 \in S /\ \A j \in S : 5 <= j
  BY SMT, <1>3
<1>9. n < 128 => Min(S) = 1
  BY SMT, <1>2, <1>4
<1>10. n >= 128 /\ n < 16384 => Min(S) = 2
  BY SMT, <1>2, <1>5
<1>11. n >= 16384 /\ n < 2097152 => Min(S) = 3
  BY SMT, <1>2, <1>6
<1>12. n >= 2097152 /\ n < 268435456 => Min(S) = 4
  BY SMT, <1>2, <1>7
<1>13. n >= 268435456 => Min(S) = 5
  BY SMT, <1>2, <1>8
<1> QED BY SMT, <1>1, <1>9, <1>10, <1>11, <1>12, <1>13

LEMMA CodedLast ==
  ASSUME NEW m \in Nat, NEW f, f[m] = Coded(m, f), m < 128
  PROVE  Digits(f[m], 1, m)
<1>1. f[m] = <<m>>
  BY DEF Coded
<1> QED BY <1>1, LastGroup

LEMMA CodedMore ==
  ASSUME NEW m \in Nat, NEW f, f[m] = Coded(m, f), m >= 128, NEW k \in 1 .. 4,
         Digits(f[m \div 128], k, m \div 128)
  PROVE  Digits(f[m], k + 1, m)
<1>1. f[m] = <<128 + (m % 128)>> \o f[m \div 128]
  BY DEF Coded
<1> QED BY <1>1, GroupBefore

LEMMA VarintDigits ==
  ASSUME NEW n \in Nat, n < 2147483648
  PROVE  Digits(Varint(n), VarintSize(n), n)
<1>1. PICK f : Varint(n) = f[n] /\ \A m \in 0 .. n : f[m] = Coded(m, f)
  BY SMT, VarintGroups
<1>2. \A m \in 0 .. n : m < 128 => Digits(f[m], 1, m)
  <2> SUFFICES ASSUME NEW m \in 0 .. n, m < 128 PROVE Digits(f[m], 1, m)
    BY SMT
  <2>1. m \in Nat /\ f[m] = Coded(m, f)
    BY SMT, <1>1
  <2> QED BY SMT, <2>1, CodedLast
<1>3. ASSUME NEW m \in 0 .. n, m >= 128, NEW k \in 1 .. 4, Digits(f[m \div 128], k, m \div 128)
      PROVE  Digits(f[m], k + 1, m)
  <2>1. m \in Nat /\ f[m] = Coded(m, f)
    BY SMT, <1>1
  <2> QED BY SMT, <2>1, <1>3, CodedMore
<1>4. \A m \in 0 .. n : m >= 128 /\ m < 16384 => Digits(f[m], 2, m)
  <2> SUFFICES ASSUME NEW m \in 0 .. n, m >= 128, m < 16384 PROVE Digits(f[m], 1 + 1, m)
    BY SMT
  <2>1. m \div 128 \in 0 .. n /\ m \div 128 < 128
    BY SMT
  <2>2. Digits(f[m \div 128], 1, m \div 128)
    BY SMT, <2>1, <1>2
  <2> QED BY SMT, <2>2, <1>3
<1>5. \A m \in 0 .. n : m >= 16384 /\ m < 2097152 => Digits(f[m], 3, m)
  <2> SUFFICES ASSUME NEW m \in 0 .. n, m >= 16384, m < 2097152 PROVE Digits(f[m], 2 + 1, m)
    BY SMT
  <2>1. m \div 128 \in 0 .. n /\ m \div 128 < 16384 /\ m \div 128 >= 128
    BY SMT
  <2>2. Digits(f[m \div 128], 2, m \div 128)
    BY SMT, <2>1, <1>4
  <2> QED BY SMT, <2>2, <1>3
<1>6. \A m \in 0 .. n : m >= 2097152 /\ m < 268435456 => Digits(f[m], 4, m)
  <2> SUFFICES ASSUME NEW m \in 0 .. n, m >= 2097152, m < 268435456 PROVE Digits(f[m], 3 + 1, m)
    BY SMT
  <2>1. m \div 128 \in 0 .. n /\ m \div 128 < 2097152 /\ m \div 128 >= 16384
    BY SMT
  <2>2. Digits(f[m \div 128], 3, m \div 128)
    BY SMT, <2>1, <1>5
  <2> QED BY SMT, <2>2, <1>3
<1>7. \A m \in 0 .. n : m >= 268435456 => Digits(f[m], 5, m)
  <2> SUFFICES ASSUME NEW m \in 0 .. n, m >= 268435456 PROVE Digits(f[m], 4 + 1, m)
    BY SMT
  <2>1. m \div 128 \in 0 .. n /\ m \div 128 < 268435456 /\ m \div 128 >= 2097152
    BY SMT
  <2>2. Digits(f[m \div 128], 4, m \div 128)
    BY SMT, <2>1, <1>6
  <2> QED BY SMT, <2>2, <1>3
<1>8. n \in 0 .. n
  BY SMT
<1>9. CASE n < 128
  BY SMT, <1>9, <1>8, <1>1, <1>2, VarintSizes
<1>10. CASE n >= 128 /\ n < 16384
  BY SMT, <1>10, <1>8, <1>1, <1>4, VarintSizes
<1>11. CASE n >= 16384 /\ n < 2097152
  BY SMT, <1>11, <1>8, <1>1, <1>5, VarintSizes
<1>12. CASE n >= 2097152 /\ n < 268435456
  BY SMT, <1>12, <1>8, <1>1, <1>6, VarintSizes
<1>13. CASE n >= 268435456
  BY SMT, <1>13, <1>8, <1>1, <1>7, VarintSizes
<1> QED BY SMT, <1>9, <1>10, <1>11, <1>12, <1>13

-----------------------------------------------------------------------------
(* How numbers are read back.                                              *)

LEMMA SizeBounds ==
  ASSUME NEW n \in Nat, n < 2147483648
  PROVE  /\ VarintSize(n) \in 1 .. 5
         /\ Part(n, VarintSize(n)) \in 0 .. 127
         /\ n # 0 => Part(n, VarintSize(n)) # 0
         /\ \A i \in 1 .. 5 : i > VarintSize(n) => Part(n, i) = 0
<1>1. CASE n < 128
  <2>1. /\ Part(n, 1) \in 0 .. 127 /\ (n # 0 => Part(n, 1) # 0)
        /\ Part(n, 2) = 0 /\ Part(n, 3) = 0 /\ Part(n, 4) = 0 /\ Part(n, 5) = 0
    BY SMT, <1>1 DEF Part, Unit
  <2>2. VarintSize(n) = 1
    BY SMT, <1>1, VarintSizes
  <2> QED BY SMT, <2>1, <2>2
<1>2. CASE n >= 128 /\ n < 16384
  <2>1. /\ Part(n, 2) \in 1 .. 127
        /\ Part(n, 3) = 0 /\ Part(n, 4) = 0 /\ Part(n, 5) = 0
    BY SMT, <1>2 DEF Part, Unit
  <2>2. VarintSize(n) = 2
    BY SMT, <1>2, VarintSizes
  <2> QED BY SMT, <2>1, <2>2
<1>3. CASE n >= 16384 /\ n < 2097152
  <2>1. Part(n, 3) \in 1 .. 127 /\ Part(n, 4) = 0 /\ Part(n, 5) = 0
    BY SMT, <1>3 DEF Part, Unit
  <2>2. VarintSize(n) = 3
    BY SMT, <1>3, VarintSizes
  <2> QED BY SMT, <2>1, <2>2
<1>4. CASE n >= 2097152 /\ n < 268435456
  <2>1. Part(n, 4) \in 1 .. 127 /\ Part(n, 5) = 0
    BY SMT, <1>4 DEF Part, Unit
  <2>2. VarintSize(n) = 4
    BY SMT, <1>4, VarintSizes
  <2> QED BY SMT, <2>1, <2>2
<1>5. CASE n >= 268435456
  <2>1. Part(n, 5) \in 1 .. 127
    BY SMT, <1>5 DEF Part, Unit
  <2>2. VarintSize(n) = 5
    BY SMT, <1>5, VarintSizes
  <2> QED BY SMT, <2>1, <2>2
<1> QED BY SMT, <1>1, <1>2, <1>3, <1>4, <1>5

(***************************************************************************)
(* The value of the groups in s, as _InternalParse computes it.            *)
(***************************************************************************)
Seven(s, i) == IF i <= Len(s) THEN s[i] % 128 ELSE 0

\* The fifth group ends with the sign.
Signed(t) == IF t >= 8 THEN t - 16 ELSE t

Value(g1, g2, g3, g4, g5) ==
  g1 + 128 * g2 + 16384 * g3 + 2097152 * g4 + 268435456 * Signed(g5 % 16)

(***************************************************************************)
(* An encoded number ends with its first byte below 128, has no zero byte  *)
(* unless it is zero, and has the value n.                                 *)
(***************************************************************************)
Number(s, n) ==
  /\ s \in Seq(Byte) /\ Len(s) \in 1 .. 10
  /\ \A i \in 1 .. Len(s) : s[i] < 128 <=> i = Len(s)
  /\ n # 0 => \A i \in 1 .. Len(s) : s[i] # 0
  /\ n = 0 => Len(s) = 1 /\ s[1] = 0
  /\ Value(Seven(s, 1), Seven(s, 2), Seven(s, 3), Seven(s, 4), Seven(s, 5)) = n

LEMMA PartsAddUp ==
  ASSUME NEW n \in Int32Range
  PROVE  Value(Part(n, 1) % 128, Part(n, 2) % 128, Part(n, 3) % 128,
               Part(n, 4) % 128, Part(n, 5) % 128) = n
<1>1. /\ n \in Int /\ Part(n, 1) = n
      /\ Part(n, 2) = n \div 128 /\ Part(n, 3) = Part(n, 2) \div 128
      /\ Part(n, 4) = Part(n, 3) \div 128 /\ Part(n, 5) = Part(n, 4) \div 128
      /\ Part(n, 5) \in -8 .. 7
  BY SMT DEF Int32Range, Part, Unit
<1>2. Signed((Part(n, 5) % 128) % 16) = Part(n, 5)
  BY SMT, <1>1 DEF Signed
<1> QED BY SMT, <1>1, <1>2 DEF Value

LEMMA SevenGivesValue ==
  ASSUME NEW n \in Int32Range, NEW s, \A i \in 1 .. 5 : Seven(s, i) = Part(n, i) % 128
  PROVE  Value(Seven(s, 1), Seven(s, 2), Seven(s, 3), Seven(s, 4), Seven(s, 5)) = n
<1>1. /\ Seven(s, 1) = Part(n, 1) % 128 /\ Seven(s, 2) = Part(n, 2) % 128
      /\ Seven(s, 3) = Part(n, 3) % 128 /\ Seven(s, 4) = Part(n, 4) % 128
      /\ Seven(s, 5) = Part(n, 5) % 128
  OBVIOUS
<1> QED BY <1>1, PartsAddUp

LEMMA DigitsAreNumber ==
  ASSUME NEW n \in Nat, n \in Int32Range, NEW k \in 1 .. 5, NEW s, Digits(s, k, n),
         Part(n, k) \in 0 .. 127, n # 0 => Part(n, k) # 0,
         n = 0 => k = 1,
         \A i \in 1 .. 5 : i > k => Part(n, i) = 0
  PROVE  Number(s, n)
<1>1. s \in Seq(Byte) /\ Len(s) = k
  BY DEF Digits
<1>2. \A i \in 1 .. k : s[i] = IF i = k THEN Part(n, i) ELSE 128 + (Part(n, i) % 128)
  BY DEF Digits
<1>3. \A i \in 1 .. 5 : Part(n, i) \in Nat
  BY PartFacts
<1>4. \A i \in 1 .. k : s[i] < 128 <=> i = k
  BY <1>2, <1>3
<1>5. n # 0 => \A i \in 1 .. k : s[i] # 0
  BY <1>2, <1>3
<1>6. n = 0 => s[1] = 0
  BY <1>2, PartFacts
<1>7. \A i \in 1 .. 5 : Seven(s, i) = Part(n, i) % 128
  <2> SUFFICES ASSUME NEW i \in 1 .. 5 PROVE Seven(s, i) = Part(n, i) % 128
    OBVIOUS
  <2>1. CASE i > k
    BY <2>1, <1>1 DEF Seven
  <2>2. CASE i = k
    BY <2>2, <1>1, <1>2 DEF Seven
  <2>3. CASE i < k
    <3>1. i \in 1 .. k /\ s[i] = 128 + (Part(n, i) % 128) /\ Part(n, i) \in Nat
      BY <2>3, <1>2, <1>3
    <3>2. s[i] % 128 = Part(n, i) % 128
      BY <3>1
    <3> QED BY <2>3, <1>1, <3>2 DEF Seven
  <2> QED BY <2>1, <2>2, <2>3
<1>8. Value(Seven(s, 1), Seven(s, 2), Seven(s, 3), Seven(s, 4), Seven(s, 5)) = n
  BY <1>7, SevenGivesValue
<1> QED BY <1>1, <1>4, <1>5, <1>6, <1>8 DEF Number

LEMMA ConcatFacts ==
  ASSUME NEW S, NEW s \in Seq(S), NEW t \in Seq(S)
  PROVE  /\ s \o t \in Seq(S) /\ Len(s \o t) = Len(s) + Len(t)
         /\ Len(s) \in Nat /\ Len(t) \in Nat
         /\ \A i \in 1 .. Len(s) : (s \o t)[i] = s[i]
         /\ \A i \in 1 .. Len(t) : (s \o t)[Len(s) + i] = t[i]
OBVIOUS

LEMMA BytesConcat ==
  ASSUME NEW s \in Seq(Byte), NEW t \in Seq(Byte)
  PROVE  /\ s \o t \in Seq(Byte) /\ Len(s \o t) = Len(s) + Len(t)
         /\ Len(s) \in Nat /\ Len(t) \in Nat
         /\ \A i \in 1 .. Len(s) : (s \o t)[i] = s[i]
         /\ \A i \in 1 .. Len(t) : (s \o t)[Len(s) + i] = t[i]
BY ConcatFacts

LEMMA ByteFacts ==
  ASSUME NEW x \in Byte
  PROVE  x \in Nat /\ x <= 255
BY DEF Byte

LEMMA ElementOf ==
  ASSUME NEW S, NEW s \in Seq(S), NEW i \in 1 .. Len(s)
  PROVE  s[i] \in S
OBVIOUS

LEMMA TenGroups ==
  ASSUME NEW t \in Seq(Byte), Len(t) = 9, \A i \in 1 .. 9 : t[i] >= 128
  PROVE  /\ t \o <<1>> \in Seq(Byte) /\ Len(t \o <<1>>) = 10
         /\ \A i \in 1 .. 9 : (t \o <<1>>)[i] = t[i]
         /\ \A i \in 1 .. 10 : /\ (t \o <<1>>)[i] < 128 <=> i = 10
                             /\ (t \o <<1>>)[i] # 0
<1> DEFINE u == <<1>>
           s == t \o u
<1>1. u \in Seq(Byte) /\ Len(u) = 1 /\ u[1] = 1
  BY DEF Byte
<1>2. \A i \in 1 .. 9 : t[i] \in Byte
  BY ElementOf
<1> HIDE DEF u
<1>3. /\ s \in Seq(Byte) /\ Len(s) = Len(t) + Len(u)
      /\ \A i \in 1 .. Len(t) : s[i] = t[i]
      /\ \A i \in 1 .. Len(u) : s[Len(t) + i] = u[i]
  BY <1>1, BytesConcat
<1> HIDE DEF s
<1>4. s[10] = 1 /\ \A i \in 1 .. 9 : s[i] = t[i]
  BY <1>1, <1>3
<1>5. ASSUME NEW i \in 1 .. 10 PROVE (s[i] < 128 <=> i = 10) /\ s[i] # 0
  <2>1. CASE i = 10
    BY <2>1, <1>4
  <2>2. CASE i # 10
    <3>1. i \in 1 .. 9 /\ s[i] = t[i] /\ t[i] >= 128 /\ t[i] \in Byte
      BY <2>2, <1>4, <1>2
    <3>2. t[i] \in Nat
      BY <3>1, ByteFacts
    <3> QED BY <3>1, <3>2, <2>2
  <2> QED BY <2>1, <2>2
<1>6. Len(s) = 10
  BY <1>1, <1>3
<1> QED BY <1>3, <1>4, <1>5, <1>6 DEF s, u

LEMMA NegativeIsNumber ==
  ASSUME NEW n \in Int32Range, n < 0
  PROVE  Number(Int32(n), n) /\ Len(Int32(n)) = 10
<1> DEFINE t == [i \in 1 .. 9 |-> IF i <= 5 THEN 128 + (Part(n, i) % 128) ELSE 255]
           s == t \o <<1>>
<1>0. n \in Int /\ \A i \in 1 .. 5 : Part(n, i) \in Int
  BY SMT DEF Int32Range, Part, Unit
<1>1. Int32(n) = s
  BY <1>0 DEF Int32, Part
<1> HIDE DEF Int32Range
<1>2. /\ t \in Seq(Byte) /\ Len(t) = 9 /\ \A i \in 1 .. 9 : t[i] >= 128
      /\ \A i \in 1 .. 5 : t[i] = 128 + (Part(n, i) % 128)
  BY <1>0 DEF Byte
<1> HIDE DEF t
<1>4. /\ s \in Seq(Byte) /\ Len(s) = 10
      /\ \A i \in 1 .. 9 : s[i] = t[i]
      /\ \A i \in 1 .. 10 : (s[i] < 128 <=> i = 10) /\ s[i] # 0
  BY <1>2, TenGroups
<1> HIDE DEF s
<1>7. ASSUME NEW i \in 1 .. 5 PROVE Seven(s, i) = Part(n, i) % 128
  <2>0. s[i] = t[i] /\ t[i] = 128 + (Part(n, i) % 128) /\ Part(n, i) \in Int
    BY <1>0, <1>2, <1>4, i \in 1 .. 9
  <2>1. s[i] = 128 + (Part(n, i) % 128) /\ Part(n, i) \in Int
    BY <2>0
  <2>2. ASSUME NEW x \in Int PROVE (128 + (x % 128)) % 128 = x % 128
    OBVIOUS
  <2>3. s[i] % 128 = Part(n, i) % 128
    BY <2>1, <2>2
  <2> QED BY <2>3, <1>4 DEF Seven
<1>8. Value(Seven(s, 1), Seven(s, 2), Seven(s, 3), Seven(s, 4), Seven(s, 5)) = n
  BY <1>7, SevenGivesValue
<1> QED BY <1>1, <1>4, <1>8 DEF Number

LEMMA EncodedNumber ==
  ASSUME NEW n \in Int32Range
  PROVE  Number(Int32(n), n) /\ Len(Int32(n)) = VarintSize(n)
<1>1. CASE n < 0
  BY <1>1, NegativeIsNumber DEF VarintSize
<1>2. CASE n >= 0
  <2>1. n \in Nat /\ n < 2147483648
    BY SMT, <1>2 DEF Int32Range
  <2>2. Int32(n) = Varint(n)
    BY SMT, <1>2 DEF Int32
  <2>3. Digits(Varint(n), VarintSize(n), n)
    BY SMT, <2>1, VarintDigits
  <2>4. n = 0 => VarintSize(n) = 1
    BY SMT, <2>1, VarintSizes
  <2>5. Number(Varint(n), n)
    BY SMT, <2>1, <2>3, <2>4, SizeBounds, DigitsAreNumber
  <2> QED BY SMT, <2>2, <2>3, <2>5 DEF Digits
<1>3. n \in Int
  BY SMT DEF Int32Range
<1> QED BY SMT, <1>1, <1>2, <1>3

-----------------------------------------------------------------------------
(* What Fields makes of a body.                                            *)

At(b, p) == IF p <= Len(b) THEN b[p] ELSE 0
\* Group i of the number that begins behind position p, if it has so many.
Group(b, p, i) == IF p + i <= Ends(b)[p] /\ p + i <= Len(b) THEN b[p + i] % 128 ELSE 0

LEMMA MinIs ==
  ASSUME NEW S, S \subseteq Int, NEW k \in S, \A j \in S : k <= j
  PROVE  Min(S) = k
<1>1. Min(S) \in S /\ \A j \in S : Min(S) <= j
  BY DEF Min
<1>2. \A x, y \in Int : x <= y /\ y <= x => x = y
  OBVIOUS
<1> QED BY <1>1, <1>2

LEMMA MinOne ==
  ASSUME NEW x \in Int
  PROVE  Min({x}) = x
BY MinIs

LEMMA EndIs ==
  ASSUME NEW b \in Seq(Byte), NEW p \in 1 .. Len(b) + 1
  PROVE  Ends(b)[p] = Min({q \in p .. Len(b) + 1 : At(b, q) < 128})
BY DEF Ends, At

LEMMA Int32Is ==
  ASSUME NEW b \in Seq(Byte), NEW p \in 1 .. Len(b) + 1
  PROVE  Int32s(b)[p] = Value(Group(b, p, 0), Group(b, p, 1), Group(b, p, 2),
                              Group(b, p, 3), Group(b, p, 4))
BY SMT DEF Int32s, Group, Value, Signed, Unit

LEMMA NumberIsRead ==
  ASSUME NEW b \in Seq(Byte), NEW p \in Nat \ {0}, NEW s, NEW n, Number(s, n),
         p - 1 + Len(s) <= Len(b),
         \A i \in 1 .. Len(s) : b[p - 1 + i] = s[i]
  PROVE  Ends(b)[p] = p - 1 + Len(s) /\ Int32s(b)[p] = n
<1> DEFINE l == Len(s)
<1>1. /\ s \in Seq(Byte) /\ l \in 1 .. 10
      /\ \A i \in 1 .. l : s[i] < 128 <=> i = l
      /\ Value(Seven(s, 1), Seven(s, 2), Seven(s, 3), Seven(s, 4), Seven(s, 5)) = n
  BY DEF Number
<1>2. Len(b) \in Nat
  OBVIOUS
<1> HIDE DEF l
<1>3. ASSUME NEW q \in p .. p - 1 + l
      PROVE  At(b, q) = s[q - p + 1] /\ q - p + 1 \in 1 .. l
  <2> DEFINE i == q - p + 1
  <2>1. i \in 1 .. l /\ q = p - 1 + i /\ q <= Len(b)
    BY <1>1, <1>2 DEF l
  <2> HIDE DEF i
  <2>2. b[q] = s[i]
    BY <2>1 DEF l
  <2> QED BY <2>1, <2>2 DEF At, i
<1>4. Ends(b)[p] = p - 1 + l
  <2> DEFINE S == {q \in p .. Len(b) + 1 : At(b, q) < 128}
  <2>1. p - 1 + l \in S
    <3>1. At(b, p - 1 + l) = s[(p - 1 + l) - p + 1] /\ (p - 1 + l) - p + 1 = l
      BY <1>1, <1>3
    <3>2. s[l] < 128
      BY <1>1
    <3>3. p - 1 + l <= Len(b)
      BY DEF l
    <3>4. p - 1 + l \in p .. Len(b) + 1
      BY <1>1, <1>2, <3>3
    <3>5. At(b, p - 1 + l) < 128
      BY <3>1, <3>2
    <3> QED BY <3>4, <3>5
  <2>2. ASSUME NEW q \in S PROVE p - 1 + l <= q
    <3> SUFFICES ASSUME q < p - 1 + l PROVE FALSE
      BY <1>1
    <3>1. q \in p .. p - 1 + l /\ q - p + 1 # l
      BY <1>1
    <3> QED BY <3>1, <1>1, <1>3
  <2>3. S \subseteq Int
    OBVIOUS
  <2> HIDE DEF S
  <2>4. Min(S) = p - 1 + l
    BY <2>1, <2>2, <2>3, MinIs
  <2> QED BY <2>4, EndIs DEF S
<1>5. ASSUME NEW i \in 0 .. 4 PROVE Group(b, p, i) = Seven(s, i + 1)
  <2>1. CASE i + 1 <= l
    <3>1. At(b, p + i) = s[i + 1]
      <4>1. p + i \in p .. p - 1 + l /\ (p + i) - p + 1 = i + 1
        BY <2>1, <1>1
      <4> QED BY <4>1, <1>3
    <3>2. p + i <= Ends(b)[p]
      BY <2>1, <1>1, <1>4
    <3> QED BY <3>1, <3>2, <2>1 DEF Group, Seven, l
  <2>2. CASE ~(i + 1 <= l)
    BY <2>2, <1>1, <1>4 DEF Group, Seven, l
  <2> QED BY <2>1, <2>2
<1>6. /\ Group(b, p, 0) = Seven(s, 1) /\ Group(b, p, 1) = Seven(s, 2)
      /\ Group(b, p, 2) = Seven(s, 3) /\ Group(b, p, 3) = Seven(s, 4)
      /\ Group(b, p, 4) = Seven(s, 5)
  BY <1>5
<1> QED BY <1>1, <1>4, <1>6, Int32Is DEF l

(***************************************************************************)
(* Past the end of a body that was cut off there is a zero.                *)
(***************************************************************************)
LEMMA ZeroIsRead ==
  ASSUME NEW b \in Seq(Byte)
  PROVE  Ends(b)[Len(b) + 1] = Len(b) + 1 /\ Int32s(b)[Len(b) + 1] = 0
<1> DEFINE p == Len(b) + 1
           S == {q \in p .. Len(b) + 1 : At(b, q) < 128}
<1>1. Len(b) \in Nat /\ p \in Nat /\ p \in 1 .. Len(b) + 1 /\ p > Len(b)
  OBVIOUS
<1>2. At(b, p) = 0
  BY <1>1 DEF At
<1>3. S = {p}
  BY <1>1, <1>2
<1>4. Min({p}) = p
  BY <1>1, MinOne
<1>5. Ends(b)[p] = p
  BY <1>3, <1>4, EndIs
<1> HIDE DEF p
<1>6. /\ Group(b, p, 0) = 0 /\ Group(b, p, 1) = 0 /\ Group(b, p, 2) = 0
      /\ Group(b, p, 3) = 0 /\ Group(b, p, 4) = 0
  BY <1>1, <1>2, <1>5 DEF Group
<1>7. Int32s(b)[p] = 0
  BY SMT, <1>1, <1>6, Int32Is DEF Value, Signed
<1> QED BY <1>5, <1>7 DEF p

\* The field at p has a length and a text.
IsString(b, p) == b[p] % 8 = 2

\* The value of the field whose tag is at p.
ValueAt(b, p) ==
  IF IsString(b, p) THEN SubSeq(b, Ends(b)[p + 1] + 1, Ends(b)[p + 1] + Int32s(b)[p + 1])
                    ELSE Int32s(b)[p + 1]

\* Where the next field begins.
After(b, p) == Ends(b)[p + 1] + 1 + (IF IsString(b, p) THEN Int32s(b)[p + 1] ELSE 0)

\* _InternalParse reads no field at p.
Stops(tags, b, p) ==
  \/ p > Len(b)
  \/ \A f \in DOMAIN tags : tags[f] # b[p]
  \/ IsString(b, p) /\ Int32s(b)[p + 1] < 0

\* f[p] is the set of the positions of the fields from p on.
AreStarts(tags, b, f) ==
  f = [p \in Nat |-> IF Stops(tags, b, p) THEN {} ELSE {p} \cup f[After(b, p)]]

StartsOf(tags, b) == CHOOSE f : AreStarts(tags, b, f)

\* What is read of the fields that begin at S.
ReadAt(tags, b, S) ==
  [f \in {g \in DOMAIN tags : {p \in S : b[p] = tags[g]} # {}} |->
     ValueAt(b, Max({p \in S : b[p] = tags[f]}))]

LEMMA FieldsIs ==
  ASSUME NEW tags, NEW b, StartsOf(tags, b)[1] \in SUBSET Nat,
         \A f \in DOMAIN tags : LET P == {p \in StartsOf(tags, b)[1] : b[p] = tags[f]}
                                IN  P # {} => Max(P) \in 1 .. Len(b)
  PROVE  Fields(tags, b) = ReadAt(tags, b, StartsOf(tags, b)[1])
<1> DEFINE V == [p \in 1 .. Len(b) |-> ValueAt(b, p)]
           R == [S \in SUBSET Nat |->
                  [f \in {g \in DOMAIN tags : {p \in S : b[p] = tags[g]} # {}} |->
                     V[Max({p \in S : b[p] = tags[f]})]]]
           T == StartsOf(tags, b)[1]
<1>1. Fields(tags, b) = R[T]
  BY DEF Fields, StartsOf, AreStarts, Stops, After, ValueAt, IsString
<1>2. R[T] = [f \in {g \in DOMAIN tags : {p \in T : b[p] = tags[g]} # {}} |->
                     V[Max({p \in T : b[p] = tags[f]})]]
  OBVIOUS
<1>3. \A f \in {g \in DOMAIN tags : {p \in T : b[p] = tags[g]} # {}} :
         V[Max({p \in T : b[p] = tags[f]})] = ValueAt(b, Max({p \in T : b[p] = tags[f]}))
  OBVIOUS
<1> HIDE DEF V, T, R
<1>4. R[T] = ReadAt(tags, b, T)
  BY <1>2, <1>3 DEF ReadAt
<1> QED BY <1>1, <1>4 DEF T

LEMMA MinIn ==
  ASSUME NEW S, S \subseteq Nat, S # {}
  PROVE  Min(S) \in S /\ \A y \in S : Min(S) <= y
<1>1. PICK x \in S : \A y \in S : ~(y < x)
  BY Descent
<1>2. \A y \in S : x <= y
  BY <1>1
<1> QED BY <1>2 DEF Min

LEMMA EndsRange ==
  ASSUME NEW b \in Seq(Byte), NEW p \in 1 .. Len(b) + 1
  PROVE  Ends(b)[p] \in p .. Len(b) + 1
<1> DEFINE S == {q \in p .. Len(b) + 1 : At(b, q) < 128}
<1>1. Len(b) \in Nat
  OBVIOUS
<1>2. Len(b) + 1 \in S /\ S \subseteq Nat /\ S \subseteq p .. Len(b) + 1
  BY <1>1 DEF At
<1>3. Ends(b)[p] = Min(S)
  BY EndIs
<1> HIDE DEF S
<1>4. Min(S) \in S
  BY <1>2, MinIn
<1> QED BY <1>2, <1>3, <1>4

LEMMA ValueIsInt ==
  ASSUME NEW g1 \in Int, NEW g2 \in Int, NEW g3 \in Int, NEW g4 \in Int, NEW g5 \in Int
  PROVE  Value(g1, g2, g3, g4, g5) \in Int
<1>1. Signed(g5 % 16) \in Int
  BY DEF Signed
<1> QED BY SMT, <1>1 DEF Value

LEMMA Int32sRange ==
  ASSUME NEW b \in Seq(Byte), NEW p \in 1 .. Len(b) + 1
  PROVE  Int32s(b)[p] \in Int
<1>1. \A i \in 0 .. 4 : Group(b, p, i) \in Int
  <2> SUFFICES ASSUME NEW i \in 0 .. 4 PROVE Group(b, p, i) \in Int
    OBVIOUS
  <2>1. CASE p + i <= Ends(b)[p] /\ p + i <= Len(b)
    <3>1. p + i \in 1 .. Len(b)
      BY <2>1
    <3>2. b[p + i] \in Byte
      BY <3>1, ElementOf
    <3>3. b[p + i] \in Nat
      BY <3>2, ByteFacts
    <3> QED BY <2>1, <3>3 DEF Group
  <2>2. CASE ~(p + i <= Ends(b)[p] /\ p + i <= Len(b))
    BY <2>2 DEF Group
  <2> QED BY <2>1, <2>2
<1>2. /\ Group(b, p, 0) \in Int /\ Group(b, p, 1) \in Int /\ Group(b, p, 2) \in Int
      /\ Group(b, p, 3) \in Int /\ Group(b, p, 4) \in Int
  BY <1>1
<1>3. Value(Group(b, p, 0), Group(b, p, 1), Group(b, p, 2), Group(b, p, 3), Group(b, p, 4)) \in Int
  BY <1>2, ValueIsInt
<1> QED BY <1>3, Int32Is

LEMMA AfterIsLater ==
  ASSUME NEW tags, NEW b \in Seq(Byte), NEW p \in Nat, ~Stops(tags, b, p)
  PROVE  After(b, p) \in Nat /\ After(b, p) > p
<1>1. Len(b) \in Nat /\ p <= Len(b) /\ p + 1 \in 1 .. Len(b) + 1
  BY DEF Stops
<1>2. Ends(b)[p + 1] \in p + 1 .. Len(b) + 1 /\ Int32s(b)[p + 1] \in Int
  BY <1>1, EndsRange, Int32sRange
<1>3. ~(IsString(b, p) /\ Int32s(b)[p + 1] < 0)
  BY DEF Stops
<1> QED BY <1>1, <1>2, <1>3 DEF After

StartStep(tags, b, p, f) == IF Stops(tags, b, p) THEN {} ELSE {p} \cup f[After(b, p)]

LEMMA StartsExist ==
  ASSUME NEW tags, NEW b \in Seq(Byte)
  PROVE  \E f : AreStarts(tags, b, f)
<1> DEFINE Solves(f, k) == \A p \in Nat : p + k > Len(b) => f[p] = StartStep(tags, b, p, f)
           No == {k \in Nat : ~\E f : Solves(f, k)}
<1>0. Len(b) \in Nat
  OBVIOUS
<1>1. ASSUME NEW k \in No PROVE \E l \in No : l < k
  <2>1. CASE k = 0
    <3> DEFINE f == [p \in Nat |-> {}]
    <3>1. ASSUME NEW p \in Nat, p + 0 > Len(b) PROVE f[p] = StartStep(tags, b, p, f)
      BY <3>1, <1>0 DEF StartStep, Stops
    <3>2. Solves(f, 0)
      BY <3>1
    <3> QED BY <2>1, <3>2
  <2>2. CASE k # 0 /\ k - 1 \notin No
    <3>1. k - 1 \in Nat /\ k \in Nat
      BY <2>2
    <3>2. PICK g : Solves(g, k - 1)
      BY <2>2, <3>1
    <3> DEFINE f == [p \in Nat |-> IF p + (k - 1) > Len(b) THEN g[p] ELSE StartStep(tags, b, p, g)]
    <3>3. ASSUME NEW p \in Nat, p + k > Len(b) PROVE f[p] = StartStep(tags, b, p, f)
      <4>1. f[p] = StartStep(tags, b, p, g)
        BY <3>2
      <4>2. CASE Stops(tags, b, p)
        BY <4>1, <4>2 DEF StartStep
      <4>3. CASE ~Stops(tags, b, p)
        <5> DEFINE a == After(b, p)
        <5>1. a \in Nat /\ a > p
          BY <4>3, AfterIsLater
        <5> HIDE DEF a
        <5>2. a + (k - 1) > Len(b)
          BY <5>1, <3>1, <3>3, <1>0
        <5>3. f[a] = g[a]
          BY <5>1, <5>2
        <5> HIDE DEF f
        <5> QED BY <4>1, <5>3 DEF StartStep, a
      <4> QED BY <4>2, <4>3
    <3> HIDE DEF f
    <3>4. Solves(f, k)
      BY <3>3
    <3> QED BY <3>4
  <2>3. CASE k # 0 /\ k - 1 \in No
    <3>1. k \in Nat /\ k - 1 \in No
      BY <2>3
    <3> HIDE DEF No
    <3> QED BY <3>1, k - 1 < k
  <2> QED BY <2>1, <2>2, <2>3
<1>2. No = {}
  <2>1. No \subseteq Nat
    OBVIOUS
  <2> HIDE DEF No
  <2> QED BY <1>1, <2>1, Descent
<1>3. PICK g : Solves(g, Len(b) + 1)
  <2>1. Len(b) + 1 \in Nat
    BY <1>0
  <2> HIDE DEF Solves
  <2> QED BY <1>2, <2>1
<1> DEFINE f == [p \in Nat |-> g[p]]
<1>4. \A p \in Nat : g[p] = StartStep(tags, b, p, g)
  BY <1>0, <1>3
<1>5. ASSUME NEW p \in Nat PROVE StartStep(tags, b, p, f) = StartStep(tags, b, p, g)
  <2>1. CASE Stops(tags, b, p)
    BY <2>1 DEF StartStep
  <2>2. CASE ~Stops(tags, b, p)
    <3>1. After(b, p) \in Nat
      BY <2>2, AfterIsLater
    <3> QED BY <3>1, <2>2 DEF StartStep
  <2> QED BY <2>1, <2>2
<1>6. f = [p \in Nat |-> StartStep(tags, b, p, f)]
  <2>1. f = [p \in Nat |-> StartStep(tags, b, p, g)]
    BY <1>4
  <2> HIDE DEF f
  <2> QED BY <2>1, <1>5
<1> HIDE DEF f
<1> QED BY <1>6 DEF StartStep, AreStarts

LEMMA StartsStep ==
  ASSUME NEW tags, NEW b \in Seq(Byte), NEW r \in Nat
  PROVE  /\ Stops(tags, b, r) => StartsOf(tags, b)[r] = {}
         /\ ~Stops(tags, b, r) =>
              StartsOf(tags, b)[r] = {r} \cup StartsOf(tags, b)[After(b, r)]
<1>1. AreStarts(tags, b, StartsOf(tags, b))
  BY StartsExist DEF StartsOf
<1> HIDE DEF StartsOf
<1> QED BY <1>1 DEF AreStarts

-----------------------------------------------------------------------------
(* Fields read one after the other.                                        *)

\* The fields begin at P[1] to P[n] and end where b does.
Walking(tags, b, n, P) ==
  /\ n \in Nat /\ P \in [1 .. n + 1 -> Nat]
  /\ \A j \in 1 .. n : ~Stops(tags, b, P[j]) /\ After(b, P[j]) = P[j + 1]
  /\ P[n + 1] > Len(b)

\* The positions from the j-th on.
Rest(P, j, n) == {P[i] : i \in j .. n}

LEMMA Interval ==
  ASSUME NEW j \in Int, NEW n \in Int, j <= n
  PROVE  j .. n = {j} \cup (j + 1 .. n)
OBVIOUS

LEMMA Walk ==
  ASSUME NEW tags, NEW b \in Seq(Byte), NEW n, NEW P, Walking(tags, b, n, P)
  PROVE  \A j \in 1 .. n + 1 : StartsOf(tags, b)[P[j]] = Rest(P, j, n)
<1> DEFINE F == StartsOf(tags, b)
           Good(d) == F[P[n + 1 - d]] = {P[i] : i \in n + 1 - d .. n}
           No == {d \in 0 .. n : ~Good(d)}
<1>0. ASSUME NEW p \in Nat
      PROVE  /\ Stops(tags, b, p) => F[p] = {}
             /\ ~Stops(tags, b, p) => F[p] = {p} \cup F[After(b, p)]
  BY Zenon, StartsStep
<1>a. /\ n \in Nat /\ P \in [1 .. n + 1 -> Nat]
      /\ \A j \in 1 .. n : ~Stops(tags, b, P[j]) /\ After(b, P[j]) = P[j + 1]
      /\ P[n + 1] > Len(b)
  BY DEF Walking
<1> HIDE DEF F
<1>1. ASSUME NEW d \in No PROVE \E l \in No : l < d
  <2>1. CASE d = 0
    <3>1. P[n + 1] \in Nat /\ Stops(tags, b, P[n + 1])
      BY <1>a DEF Stops
    <3>2. F[P[n + 1]] = {}
      BY <3>1, <1>0
    <3>3. n + 1 .. n = {} /\ n + 1 - 0 = n + 1
      BY <1>a
    <3>4. Good(0)
      BY <3>2, <3>3
    <3> QED BY <2>1, <3>4
  <2>2. CASE d # 0
    <3> DEFINE j == n + 1 - d
    <3>0. n \in Nat /\ d \in 1 .. n
      BY <2>2, <1>a
    <3>1. j \in 1 .. n /\ d - 1 \in 0 .. n /\ n + 1 - (d - 1) = j + 1 /\ j + 1 \in 1 .. n + 1 /\ d - 1 < d
      <4> HIDE DEF No
      <4> QED BY <3>0
    <3>2. CASE ~Good(d - 1)
      <4> HIDE DEF Good
      <4>1. d - 1 \in No
        BY <3>1, <3>2
      <4> HIDE DEF No
      <4> QED BY <3>1, <4>1
    <3>3. CASE Good(d - 1)
      <4>1. F[P[j + 1]] = {P[i] : i \in j + 1 .. n}
        BY <3>1, <3>3
      <4>2. F[P[j]] = {P[j]} \cup F[P[j + 1]]
        <5>1. P[j] \in Nat /\ ~Stops(tags, b, P[j]) /\ After(b, P[j]) = P[j + 1]
          BY <3>1, <1>a
        <5> QED BY <5>1, <1>0
      <4>0. j \in Int /\ n \in Int /\ j <= n
        BY <3>1, <1>a
      <4> HIDE DEF j
      <4>3. j .. n = {j} \cup (j + 1 .. n)
        BY <4>0, Interval
      <4>4. F[P[j]] = {P[i] : i \in j .. n}
        BY <4>1, <4>2, <4>3
      <4>5. Good(d)
        BY <4>4 DEF j
      <4> QED BY <4>5
    <3> QED BY <3>2, <3>3
  <2> QED BY <2>1, <2>2
<1>2. No = {}
  <2>1. No \subseteq Nat
    BY <1>a
  <2> HIDE DEF No
  <2> QED BY <1>1, <2>1, Descent
<1>3. ASSUME NEW j \in 1 .. n + 1 PROVE F[P[j]] = {P[i] : i \in j .. n}
  <2>1. n + 1 - j \in 0 .. n /\ n + 1 - (n + 1 - j) = j
    BY <1>a
  <2>2. Good(n + 1 - j)
    BY <2>1, <1>2
  <2> QED BY <2>1, <2>2
<1> QED BY <1>3 DEF F, Rest

LEMMA MaxOne ==
  ASSUME NEW x \in Int
  PROVE  Max({x}) = x
BY DEF Max

\* o names n of the fields, each once, and no two have one tag.
Ordered(tags, o, n) ==
  /\ o \in [1 .. n -> DOMAIN tags]
  /\ \A i, j \in 1 .. n : i # j => o[i] # o[j]
  /\ \A f, g \in DOMAIN tags : f # g => tags[f] # tags[g]

\* The field at P[j] is o[j], with its tag.
Tagged(tags, b, n, P, o) ==
  \A j \in 1 .. n : P[j] \in 1 .. Len(b) /\ b[P[j]] = tags[o[j]]

\* The first n fields of o.
Names(o, n) == {o[j] : j \in 1 .. n}

LEMMA ReadWalk ==
  ASSUME NEW tags, NEW b, NEW n, NEW P, NEW o, b \in Seq(Byte), n # 0, P[1] = 1,
         Walking(tags, b, n, P), Ordered(tags, o, n), Tagged(tags, b, n, P, o)
  PROVE  /\ DOMAIN Fields(tags, b) = Names(o, n)
         /\ \A j \in 1 .. n : Fields(tags, b)[o[j]] = ValueAt(b, P[j])
<1> DEFINE S == {P[i] : i \in 1 .. n}
           Places(f) == {p \in S : b[p] = tags[f]}
<1>0. n \in Nat
  BY DEF Walking
<1>t. \A j \in 1 .. n : P[j] \in 1 .. Len(b) /\ b[P[j]] = tags[o[j]]
  BY DEF Tagged
<1>o. /\ o \in [1 .. n -> DOMAIN tags]
      /\ \A i, j \in 1 .. n : i # j => o[i] # o[j]
      /\ \A f, g \in DOMAIN tags : f # g => tags[f] # tags[g]
  BY DEF Ordered
<1>1. StartsOf(tags, b)[1] = S
  <2>1. 1 \in 1 .. n + 1
    BY <1>0
  <2>2. StartsOf(tags, b)[P[1]] = Rest(P, 1, n)
    BY <2>1, Walk
  <2> QED BY <2>2 DEF Rest
<1>2. S \subseteq 1 .. Len(b)
  BY <1>t
<1>3. ASSUME NEW j \in 1 .. n
      PROVE  Places(o[j]) = {P[j]}
  <2>1. \A i \in 1 .. n : b[P[i]] = tags[o[j]] => i = j
    BY <1>o, <1>t
  <2> QED BY <1>t, <1>o, <2>1
<1>4. ASSUME NEW f \in DOMAIN tags, Places(f) # {}
      PROVE  \E j \in 1 .. n : f = o[j]
  <2>1. PICK i \in 1 .. n : b[P[i]] = tags[f]
    BY <1>4, <1>t
  <2> QED BY <2>1, <1>o, <1>t
<1>5. \A j \in 1 .. n : P[j] \in Int
  BY <1>t
<1>6. StartsOf(tags, b)[1] \in SUBSET Nat
  BY <1>1, <1>2
<1>7. \A f : Places(f) = {p \in StartsOf(tags, b)[1] : b[p] = tags[f]}
  BY <1>1
<1>8. ReadAt(tags, b, StartsOf(tags, b)[1]) =
        [f \in {g \in DOMAIN tags : Places(g) # {}} |-> ValueAt(b, Max(Places(f)))]
  BY <1>1 DEF ReadAt
<1> HIDE DEF S, Places
<1>9. \A j \in 1 .. n : Max(Places(o[j])) = P[j]
  BY <1>3, <1>5, MaxOne
<1>10. ASSUME NEW f \in DOMAIN tags, Places(f) # {}
       PROVE  Max(Places(f)) \in 1 .. Len(b)
  <2>1. PICK j \in 1 .. n : f = o[j]
    BY <1>10, <1>4
  <2> QED BY <1>t, <2>1, <1>9
<1>11. Fields(tags, b) = ReadAt(tags, b, StartsOf(tags, b)[1])
  <2>1. \A f \in DOMAIN tags : LET P1 == {p \in StartsOf(tags, b)[1] : b[p] = tags[f]}
                               IN  P1 # {} => Max(P1) \in 1 .. Len(b)
    BY <1>7, <1>10
  <2> QED BY <2>1, <1>6, FieldsIs
<1>12. {g \in DOMAIN tags : Places(g) # {}} = {o[j] : j \in 1 .. n}
  <2>1. \A j \in 1 .. n : o[j] \in DOMAIN tags /\ Places(o[j]) # {}
    BY <1>3, <1>o
  <2> QED BY <2>1, <1>4
<1>13. Fields(tags, b) = [f \in {o[j] : j \in 1 .. n} |-> ValueAt(b, Max(Places(f)))]
  BY <1>8, <1>11, <1>12
<1>14. ASSUME NEW j \in 1 .. n PROVE Fields(tags, b)[o[j]] = ValueAt(b, P[j])
  BY <1>9, <1>13
<1> QED BY <1>13, <1>14 DEF Names

-----------------------------------------------------------------------------
(* One field on the wire.                                                  *)

\* The wire type of a tag: 2 is a text, 0 a number.
IsText(t) == t % 8 = 2

(***************************************************************************)
(* A value of the field with tag t, as it is written behind the tag: a     *)
(* number and, unless the value is one itself, a text.                     *)
(***************************************************************************)
Proper(t, v) ==
  IF IsText(t) THEN v \in Seq(1 .. 255) /\ Len(v) < 1048576 ELSE v \in Int32Range

\* Zero or empty: such a value cuts off what is behind it.
Blanked(t, v) == IF IsText(t) THEN v = <<>> ELSE v = 0

NumberOf(t, v) == IF IsText(t) THEN Len(v) ELSE v

TextOf(t, v) == IF IsText(t) THEN v ELSE <<>>

\* A field on the wire: tag, number or length, text.
Code(t, v) ==
  IF IsText(t) THEN <<t>> \o Varint(Len(v)) \o v ELSE <<t>> \o Int32(v)

\* c is the tag t, the number s and the text x.
CodeLayout(c, t, s, x) ==
  /\ c \in Seq(Byte) /\ Len(c) = 1 + Len(s) + Len(x) /\ c[1] = t
  /\ Len(s) \in Nat /\ Len(x) \in Nat
  /\ \A i \in 1 .. Len(s) : c[1 + i] = s[i]
  /\ \A i \in 1 .. Len(x) : c[1 + Len(s) + i] = x[i]

LEMMA SeqEqual ==
  ASSUME NEW S, NEW s \in Seq(S), NEW t \in Seq(S), Len(s) = Len(t),
         \A i \in 1 .. Len(s) : s[i] = t[i]
  PROVE  s = t
OBVIOUS

LEMMA OneByte ==
  ASSUME NEW t \in Byte
  PROVE  <<t>> \in Seq(Byte) /\ Len(<<t>>) = 1 /\ <<t>>[1] = t
OBVIOUS

LEMMA TextBytes ==
  ASSUME NEW v \in Seq(1 .. 255)
  PROVE  v \in Seq(Byte) /\ Len(v) \in Nat
         /\ \A i \in 1 .. Len(v) : v[i] \in 1 .. 255
<1>0. Len(v) \in Nat
  OBVIOUS
<1>1. Len(v) \in Nat /\ \A i \in 1 .. Len(v) : v[i] \in 1 .. 255
  BY <1>0, ElementOf
<1>2. \A i \in 1 .. Len(v) : v[i] \in Byte
  BY <1>1 DEF Byte
<1> QED BY <1>1, <1>2

LEMMA NoBytes == <<>> \in Seq(Byte) /\ Len(<<>>) = 0
OBVIOUS

LEMMA Layout ==
  ASSUME NEW t \in Byte, NEW s \in Seq(Byte), NEW x \in Seq(Byte)
  PROVE  CodeLayout(<<t>> \o s \o x, t, s, x)
<1> DEFINE h == <<t>>
           g == h \o s
           c == g \o x
<1>1. h \in Seq(Byte) /\ Len(h) = 1 /\ h[1] = t
  BY OneByte
<1> HIDE DEF h
<1>2. /\ g \in Seq(Byte) /\ Len(g) = Len(h) + Len(s)
      /\ Len(s) \in Nat
      /\ \A i \in 1 .. Len(h) : g[i] = h[i]
      /\ \A i \in 1 .. Len(s) : g[Len(h) + i] = s[i]
  BY <1>1, BytesConcat
<1> HIDE DEF g
<1>3. /\ c \in Seq(Byte) /\ Len(c) = Len(g) + Len(x)
      /\ Len(x) \in Nat
      /\ \A i \in 1 .. Len(g) : c[i] = g[i]
      /\ \A i \in 1 .. Len(x) : c[Len(g) + i] = x[i]
  BY <1>2, BytesConcat
<1> HIDE DEF c
<1>4. Len(g) = 1 + Len(s) /\ Len(c) = 1 + Len(s) + Len(x)
  BY <1>1, <1>2, <1>3
<1>5. c[1] = t
  BY <1>1, <1>2, <1>3, <1>4, 1 \in 1 .. Len(g), 1 \in 1 .. Len(h)
<1>6. \A i \in 1 .. Len(s) : c[1 + i] = s[i]
  <2> SUFFICES ASSUME NEW i \in 1 .. Len(s) PROVE c[1 + i] = s[i]
    OBVIOUS
  <2>1. 1 + i \in 1 .. Len(g)
    BY <1>2, <1>4
  <2> QED BY <2>1, <1>1, <1>2, <1>3
<1>7. \A i \in 1 .. Len(x) : c[1 + Len(s) + i] = x[i]
  BY <1>3, <1>4
<1>8. CodeLayout(c, t, s, x)
  BY <1>2, <1>3, <1>4, <1>5, <1>6, <1>7 DEF CodeLayout
<1> QED BY <1>8 DEF c, g, h

LEMMA ConcatNothing ==
  ASSUME NEW s \in Seq(Byte)
  PROVE  s \o <<>> = s
OBVIOUS

LEMMA ProperNumber ==
  ASSUME NEW t \in Byte, NEW v, Proper(t, v)
  PROVE  /\ NumberOf(t, v) \in Int32Range
         /\ TextOf(t, v) \in Seq(1 .. 255) /\ TextOf(t, v) \in Seq(Byte)
         /\ IsText(t) => NumberOf(t, v) \in Nat /\ NumberOf(t, v) = Len(v) /\ TextOf(t, v) = v
         /\ ~IsText(t) => NumberOf(t, v) = v /\ TextOf(t, v) = <<>>
         /\ Blanked(t, v) <=> NumberOf(t, v) = 0
         /\ Blanked(t, v) => TextOf(t, v) = <<>>
<1>1. CASE IsText(t)
  <2>1. v \in Seq(1 .. 255) /\ Len(v) < 1048576
    BY SMT, <1>1 DEF Proper
  <2>2. NumberOf(t, v) = Len(v) /\ TextOf(t, v) = v
    BY <1>1 DEF NumberOf, TextOf
  <2>3. Len(v) \in Nat
    BY <2>1
  <2>4. Len(v) \in Int32Range
    BY SMT, <2>1, <2>3 DEF Int32Range
  <2>5. v = <<>> <=> Len(v) = 0
    BY <2>1
  <2> QED BY <1>1, <2>1, <2>2, <2>3, <2>4, <2>5, TextBytes DEF Blanked
<1>2. CASE ~IsText(t)
  <2>1. v \in Int32Range
    BY <1>2 DEF Proper
  <2>2. NumberOf(t, v) = v /\ TextOf(t, v) = <<>>
    BY <1>2 DEF NumberOf, TextOf
  <2>3. <<>> \in Seq(1 .. 255)
    OBVIOUS
  <2> QED BY <1>2, <2>1, <2>2, <2>3, NoBytes DEF Blanked
<1> QED BY <1>1, <1>2

LEMMA CodeFacts ==
  ASSUME NEW t \in Byte, NEW v, Proper(t, v)
  PROVE  /\ CodeLayout(Code(t, v), t, Int32(NumberOf(t, v)), TextOf(t, v))
         /\ Number(Int32(NumberOf(t, v)), NumberOf(t, v))
         /\ Len(Code(t, v)) = 1 + VarintSize(NumberOf(t, v)) + Len(TextOf(t, v))
<1> DEFINE s == Int32(NumberOf(t, v))
           x == TextOf(t, v)
<1>1. Number(s, NumberOf(t, v)) /\ Len(s) = VarintSize(NumberOf(t, v))
  BY ProperNumber, EncodedNumber
<1>2. s \in Seq(Byte)
  BY <1>1 DEF Number
<1>3. x \in Seq(Byte)
  BY ProperNumber
<1>4. Code(t, v) = <<t>> \o s \o x
  <2>1. CASE IsText(t)
    <3>1. s = Varint(Len(v)) /\ x = v
      BY <2>1, ProperNumber DEF Int32
    <3> QED BY <2>1, <3>1 DEF Code
  <2>2. CASE ~IsText(t)
    <3>1. s = Int32(v) /\ x = <<>>
      BY <2>2, ProperNumber
    <3> HIDE DEF s
    <3>2. <<t>> \o s \in Seq(Byte)
      BY <1>2, OneByte, BytesConcat
    <3> QED BY <2>2, <3>1, <3>2, ConcatNothing DEF Code
  <2> QED BY <2>1, <2>2
<1>5. CodeLayout(Code(t, v), t, s, x)
  BY <1>2, <1>3, <1>4, Layout
<1> QED BY <1>1, <1>5 DEF CodeLayout

LEMMA NotZero ==
  ASSUME NEW x \in 1 .. 255
  PROVE  x # 0
OBVIOUS

LEMMA CodeBytes ==
  ASSUME NEW t \in 1 .. 127, NEW v, Proper(t, v)
  PROVE  /\ Code(t, v) \in Seq(Byte) /\ Len(Code(t, v)) \in Nat /\ Len(Code(t, v)) >= 2
         /\ Code(t, v)[1] = t
         /\ ~Blanked(t, v) => \A i \in 1 .. Len(Code(t, v)) : Code(t, v)[i] # 0
         /\ Blanked(t, v) => Len(Code(t, v)) = 2 /\ Code(t, v)[2] = 0
<1> DEFINE c == Code(t, v)
           s == Int32(NumberOf(t, v))
           x == TextOf(t, v)
<1>0. t \in Byte
  BY DEF Byte
<1>1. CodeLayout(c, t, s, x) /\ Number(s, NumberOf(t, v))
  BY <1>0, CodeFacts
<1>2. x \in Seq(1 .. 255) /\ (Blanked(t, v) <=> NumberOf(t, v) = 0)
      /\ (Blanked(t, v) => x = <<>>)
  BY <1>0, ProperNumber
<1> HIDE DEF c, s, x
<1>3. /\ c \in Seq(Byte) /\ Len(c) = 1 + Len(s) + Len(x) /\ c[1] = t
      /\ Len(s) \in 1 .. 10 /\ Len(x) \in Nat
      /\ \A i \in 1 .. Len(s) : c[1 + i] = s[i]
      /\ \A i \in 1 .. Len(x) : c[1 + Len(s) + i] = x[i]
      /\ NumberOf(t, v) # 0 => \A i \in 1 .. Len(s) : s[i] # 0
      /\ NumberOf(t, v) = 0 => Len(s) = 1 /\ s[1] = 0
  BY <1>1 DEF CodeLayout, Number
<1>4. ASSUME ~Blanked(t, v), NEW i \in 1 .. Len(c) PROVE c[i] # 0
  <2>1. CASE i = 1
    BY <2>1, <1>3
  <2>2. CASE i # 1 /\ i <= 1 + Len(s)
    <3> DEFINE j == i - 1
    <3>1. j \in 1 .. Len(s) /\ i = 1 + j
      BY <2>2, <1>3
    <3> HIDE DEF j
    <3> QED BY <3>1, <1>2, <1>3, <1>4
  <2>3. CASE i > 1 + Len(s)
    <3> DEFINE j == i - (1 + Len(s))
    <3>1. j \in 1 .. Len(x) /\ i = 1 + Len(s) + j
      BY <2>3, <1>3
    <3> HIDE DEF j
    <3>2. x[j] \in 1 .. 255
      BY <3>1, <1>2, ElementOf
    <3>3. c[i] = x[j]
      BY <3>1, <1>3
    <3>4. x[j] # 0
      BY <3>2, NotZero
    <3> QED BY <3>3, <3>4
  <2> QED BY <2>1, <2>2, <2>3, <1>3
<1>5. Blanked(t, v) => Len(c) = 2 /\ c[2] = 0
  <2> SUFFICES ASSUME Blanked(t, v) PROVE Len(c) = 2 /\ c[1 + 1] = 0
    OBVIOUS
  <2>1. Len(x) = 0 /\ Len(s) = 1 /\ s[1] = 0
    BY <1>2, <1>3, NoBytes
  <2> QED BY <2>1, <1>3
<1>6. Len(c) \in Nat /\ Len(c) >= 2
  BY <1>3
<1> QED BY <1>3, <1>4, <1>5, <1>6 DEF c

LEMMA NoZeroBefore ==
  ASSUME NEW t \in 1 .. 127, NEW v, Proper(t, v), ~Blanked(t, v), NEW i \in 1 .. Len(Code(t, v))
  PROVE  Code(t, v)[i] # 0
<1>1. \A j \in 1 .. Len(Code(t, v)) : Code(t, v)[j] # 0
  BY CodeBytes
<1> QED BY <1>1

\* A field is written at p.
Written(b, p, t, v) ==
  /\ b \in Seq(Byte) /\ p \in Nat \ {0} /\ t \in 1 .. 127 /\ Proper(t, v)
  /\ p - 1 + Len(Code(t, v)) <= Len(b)
  /\ \A i \in 1 .. Len(Code(t, v)) : b[p - 1 + i] = Code(t, v)[i]

LEMMA WholeField ==
  ASSUME NEW b, NEW p, NEW t, NEW v, Written(b, p, t, v)
  PROVE  /\ p <= Len(b) /\ b[p] = t
         /\ ~(IsString(b, p) /\ Int32s(b)[p + 1] < 0)
         /\ ValueAt(b, p) = v
         /\ After(b, p) = p + Len(Code(t, v))
<1> DEFINE c == Code(t, v)
           n == NumberOf(t, v)
           s == Int32(n)
           x == TextOf(t, v)
<1>w. /\ b \in Seq(Byte) /\ p \in Nat \ {0} /\ t \in 1 .. 127 /\ Proper(t, v)
      /\ p - 1 + Len(Code(t, v)) <= Len(b)
      /\ \A i \in 1 .. Len(Code(t, v)) : b[p - 1 + i] = Code(t, v)[i]
  BY DEF Written
<1>0. t \in Byte
  BY <1>w DEF Byte
<1>1. CodeLayout(c, t, s, x) /\ Number(s, n)
  BY <1>0, <1>w, CodeFacts
<1>2. /\ x \in Seq(Byte)
      /\ IsText(t) => n \in Nat /\ n = Len(v) /\ x = v
      /\ ~IsText(t) => n = v /\ x = <<>>
  BY <1>0, <1>w, ProperNumber
<1>a. \A i \in 1 .. Len(c) : b[p - 1 + i] = c[i]
  BY <1>w
<1>b. p - 1 + Len(c) <= Len(b) /\ Len(b) \in Nat /\ b \in Seq(Byte) /\ p \in Nat \ {0}
  BY <1>w
<1> HIDE DEF c, s, x, n
<1>3. /\ c \in Seq(Byte) /\ Len(c) = 1 + Len(s) + Len(x) /\ c[1] = t
      /\ Len(s) \in 1 .. 10 /\ Len(x) \in Nat
      /\ \A i \in 1 .. Len(s) : c[1 + i] = s[i]
      /\ \A i \in 1 .. Len(x) : c[1 + Len(s) + i] = x[i]
  BY <1>1 DEF CodeLayout, Number
<1>4. p <= Len(b) /\ b[p] = t
  <2>1. b[p - 1 + 1] = c[1]
    BY <1>a, <1>3
  <2> QED BY <2>1, <1>b, <1>3
<1>5. Ends(b)[p + 1] = p + Len(s) /\ Int32s(b)[p + 1] = n
  <2>1. \A i \in 1 .. Len(s) : b[(p + 1) - 1 + i] = s[i]
    <3> SUFFICES ASSUME NEW i \in 1 .. Len(s) PROVE b[(p + 1) - 1 + i] = s[i]
      OBVIOUS
    <3>1. 1 + i \in 1 .. Len(c) /\ (p + 1) - 1 + i = p - 1 + (1 + i)
      BY <1>b, <1>3
    <3> QED BY <3>1, <1>3, <1>a
  <2>2. (p + 1) - 1 + Len(s) <= Len(b) /\ p + 1 \in Nat \ {0}
    BY <1>b, <1>3
  <2>3. Ends(b)[p + 1] = (p + 1) - 1 + Len(s) /\ Int32s(b)[p + 1] = n
    <3> DEFINE q == p + 1
    <3>1. q \in Nat \ {0} /\ q - 1 + Len(s) <= Len(b) /\ \A i \in 1 .. Len(s) : b[q - 1 + i] = s[i]
      BY <2>1, <2>2
    <3> HIDE DEF q
    <3>2. Ends(b)[q] = q - 1 + Len(s) /\ Int32s(b)[q] = n
      BY <3>1, <1>1, <1>b, NumberIsRead
    <3> QED BY <3>2 DEF q
  <2> QED BY <1>b, <2>3, <1>3
<1>6. IsString(b, p) <=> IsText(t)
  BY <1>4 DEF IsString, IsText
<1>7. CASE IsText(t)
  <2>1. n \in Nat /\ n = Len(x) /\ x = v
    BY <1>7, <1>2
  <2>2. After(b, p) = p + Len(c)
    <3>1. IsString(b, p)
      BY <1>6, <1>7
    <3>2. After(b, p) = Ends(b)[p + 1] + 1 + Int32s(b)[p + 1]
      BY <3>1 DEF After
    <3>3. Len(c) = 1 + Len(s) + Len(x) /\ Len(s) \in Nat /\ Len(x) \in Nat
      BY <1>3
    <3>4. Ends(b)[p + 1] = p + Len(s) /\ Int32s(b)[p + 1] = Len(x) /\ p \in Nat
      BY <1>5, <2>1, <1>b
    <3> QED BY <3>2, <3>3, <3>4
  <2>3. ValueAt(b, p) = SubSeq(b, p + Len(s) + 1, p + Len(s) + n)
    BY <1>5, <1>6, <1>7 DEF ValueAt
  <2> DEFINE y == SubSeq(b, p + Len(s) + 1, p + Len(s) + n)
  <2>4. y \in Seq(Byte) /\ Len(y) = n /\ \A i \in 1 .. n : y[i] = b[p + Len(s) + i]
    <3>1. p + Len(s) \in Nat /\ p + Len(s) + n <= Len(b)
      BY <1>b, <1>3, <2>1
    <3> DEFINE k == p + Len(s)
    <3> HIDE DEF k
    <3>2. SubSeq(b, k + 1, k + n) \in Seq(Byte) /\ Len(SubSeq(b, k + 1, k + n)) = n
          /\ \A i \in 1 .. n : SubSeq(b, k + 1, k + n)[i] = b[k + i]
      BY <3>1, <2>1, <1>b DEF k
    <3> QED BY <3>2 DEF k
  <2> HIDE DEF y
  <2>5. ASSUME NEW i \in 1 .. n PROVE y[i] = x[i]
    <3>1. 1 + Len(s) + i \in 1 .. Len(c) /\ p + Len(s) + i = p - 1 + (1 + Len(s) + i)
      BY <1>b, <1>3, <2>1
    <3> QED BY <3>1, <2>1, <2>4, <1>3, <1>a
  <2>6. y = x
    BY <1>2, <2>1, <2>4, <2>5, SeqEqual
  <2>7. ValueAt(b, p) = v
    BY <2>1, <2>3, <2>6 DEF y
  <2>8. ~(Int32s(b)[p + 1] < 0)
    BY <1>5, <2>1
  <2> QED BY <1>4, <2>2, <2>7, <2>8 DEF c
<1>8. CASE ~IsText(t)
  <2>1. n = v /\ Len(x) = 0
    BY <1>8, <1>2, NoBytes
  <2>2. After(b, p) = p + Len(c)
    BY <1>b, <1>3, <1>5, <1>6, <1>8, <2>1 DEF After
  <2>3. ValueAt(b, p) = v
    BY <1>5, <1>6, <1>8, <2>1 DEF ValueAt
  <2> QED BY <1>4, <1>6, <1>8, <2>2, <2>3 DEF c
<1> QED BY <1>7, <1>8

LEMMA CutField ==
  ASSUME NEW b \in Seq(Byte), Len(b) > 0, NEW t \in 1 .. 127, NEW v, Blanked(t, v),
         b[Len(b)] = t
  PROVE  /\ ~(IsString(b, Len(b)) /\ Int32s(b)[Len(b) + 1] < 0)
         /\ ValueAt(b, Len(b)) = v
         /\ After(b, Len(b)) = Len(b) + 2
<1> DEFINE p == Len(b)
<1>0. p \in Nat /\ p > 0 /\ b[p] = t
  OBVIOUS
<1>1. Ends(b)[p + 1] = p + 1 /\ Int32s(b)[p + 1] = 0
  BY ZeroIsRead
<1> HIDE DEF p
<1>2. IsString(b, p) <=> IsText(t)
  BY <1>0 DEF IsString, IsText
<1>3. After(b, p) = p + 2
  BY <1>0, <1>1 DEF After
<1>4. ValueAt(b, p) = v
  <2>1. CASE IsText(t)
    <3>1. ValueAt(b, p) = SubSeq(b, (p + 1) + 1, (p + 1) + 0)
      BY <1>1, <1>2, <2>1 DEF ValueAt
    <3>2. SubSeq(b, (p + 1) + 1, (p + 1) + 0) = <<>>
      BY <1>0
    <3> QED BY <3>1, <3>2, <2>1 DEF Blanked
  <2>2. CASE ~IsText(t)
    BY <1>1, <1>2, <2>2 DEF ValueAt, Blanked
  <2> QED BY <2>1, <2>2
<1> QED BY <1>1, <1>3, <1>4 DEF p

-----------------------------------------------------------------------------
(* A body of several fields, and what is left of it as a C string.         *)

(***************************************************************************)
(* A body of n fields, one code after the other: field j has the tag T[j]  *)
(* and the value V[j] and begins at P[j].                                  *)
(***************************************************************************)
Laid(body, n, T, V, P) ==
  /\ body \in Seq(Byte) /\ n \in Nat /\ P \in [1 .. n + 1 -> Nat]
  /\ P[1] = 1 /\ P[n + 1] = Len(body) + 1
  /\ \A j \in 1 .. n :
       /\ Len(Code(T[j], V[j])) \in Nat
       /\ P[j + 1] = P[j] + Len(Code(T[j], V[j])) /\ P[j] >= 1 /\ P[j + 1] <= Len(body) + 1
       /\ \A i \in 1 .. Len(Code(T[j], V[j])) : body[P[j] - 1 + i] = Code(T[j], V[j])[i]
  /\ \A i, j \in 1 .. n + 1 : i < j => P[i + 1] <= P[j]
  /\ \A q \in 1 .. Len(body) : \E j \in 1 .. n : P[j] <= q /\ q < P[j + 1]

\* body is n fields, one after the other.
IsLaid(body, n, T, V) == \E P : Laid(body, n, T, V, P)

LEMMA NothingLaid ==
  ASSUME NEW T, NEW V
  PROVE  IsLaid(<<>>, 0, T, V)
<1> DEFINE P == [i \in 1 .. 1 |-> 1]
<1>1. P \in [1 .. 0 + 1 -> Nat] /\ P[1] = 1 /\ P[0 + 1] = 1
  OBVIOUS
<1> HIDE DEF P
<1>2. Laid(<<>>, 0, T, V, P)
  BY <1>1, NoBytes DEF Laid
<1> QED BY <1>2 DEF IsLaid

LEMMA OneMoreLaid ==
  ASSUME NEW body, NEW n, NEW T, NEW V, IsLaid(body, n, T, V),
         T[n + 1] \in 1 .. 127, Proper(T[n + 1], V[n + 1])
  PROVE  IsLaid(body \o Code(T[n + 1], V[n + 1]), n + 1, T, V)
<1> DEFINE c == Code(T[n + 1], V[n + 1])
           d == body \o c
<1>0. PICK P : Laid(body, n, T, V, P)
  BY DEF IsLaid
<1> DEFINE L == Len(body)
           Q == [i \in 1 .. (n + 1) + 1 |-> IF i <= n + 1 THEN P[i] ELSE L + 1 + Len(c)]
           m == n + 1
<1>1. /\ body \in Seq(Byte) /\ n \in Nat /\ P \in [1 .. n + 1 -> Nat]
      /\ P[1] = 1 /\ P[n + 1] = L + 1
      /\ \A j \in 1 .. n :
           /\ Len(Code(T[j], V[j])) \in Nat /\ P[j + 1] = P[j] + Len(Code(T[j], V[j]))
           /\ P[j] >= 1 /\ P[j + 1] <= L + 1
           /\ \A i \in 1 .. Len(Code(T[j], V[j])) : body[P[j] - 1 + i] = Code(T[j], V[j])[i]
  BY <1>0 DEF Laid
<1>1a. /\ \A i, j \in 1 .. n + 1 : i < j => P[i + 1] <= P[j]
       /\ \A q \in 1 .. L : \E j \in 1 .. n : P[j] <= q /\ q < P[j + 1]
  BY <1>0 DEF Laid
<1>2. c \in Seq(Byte) /\ Len(c) \in Nat
  BY CodeBytes
<1> HIDE DEF c
<1>3. /\ d \in Seq(Byte) /\ Len(d) = L + Len(c) /\ L \in Nat
      /\ \A i \in 1 .. L : d[i] = body[i]
      /\ \A i \in 1 .. Len(c) : d[L + i] = c[i]
  BY <1>1, <1>2, BytesConcat
<1> HIDE DEF d, L
<1>4. /\ Q \in [1 .. m + 1 -> Nat] /\ Q[m + 1] = L + 1 + Len(c)
      /\ \A i \in 1 .. m : Q[i] = P[i]
  <2>0. n \in Nat /\ P \in [1 .. n + 1 -> Nat]
    BY <1>1
  <2>1. m \in Nat /\ m + 1 \in 1 .. m + 1 /\ ~(m + 1 <= n + 1) /\ L + 1 + Len(c) \in Nat
    BY <2>0, <1>2, <1>3
  <2>2. ASSUME NEW i \in 1 .. m PROVE i \in 1 .. m + 1 /\ i <= n + 1 /\ P[i] \in Nat
    BY <2>0
  <2>3. ASSUME NEW i \in 1 .. m + 1
        PROVE  (IF i <= n + 1 THEN P[i] ELSE L + 1 + Len(c)) \in Nat
    <3>1. i <= n + 1 => P[i] \in Nat
      BY <2>0
    <3> QED BY <2>1, <3>1
  <2> QED BY <2>1, <2>2, <2>3
<1> HIDE DEF Q
<1>5. ASSUME NEW j \in 1 .. n
      PROVE  /\ Len(Code(T[j], V[j])) \in Nat /\ Q[j + 1] = Q[j] + Len(Code(T[j], V[j])) /\ Q[j] >= 1 /\ Q[j + 1] <= Len(d) + 1
             /\ \A i \in 1 .. Len(Code(T[j], V[j])) : d[Q[j] - 1 + i] = Code(T[j], V[j])[i]
  <2>0. n \in Nat /\ P \in [1 .. n + 1 -> Nat] /\ j \in 1 .. m /\ j + 1 \in 1 .. m
    BY <1>1
  <2>1. Q[j] = P[j] /\ Q[j + 1] = P[j + 1] /\ P[j] \in Nat /\ P[j + 1] \in Nat
    BY <2>0, <1>4
  <2> DEFINE l == Len(Code(T[j], V[j]))
  <2>2. l \in Nat /\ P[j + 1] = P[j] + l /\ P[j] >= 1 /\ P[j + 1] <= L + 1
        /\ \A i \in 1 .. l : body[P[j] - 1 + i] = Code(T[j], V[j])[i]
    BY <1>1
  <2> HIDE DEF l
  <2>3. ASSUME NEW i \in 1 .. l PROVE d[P[j] - 1 + i] = Code(T[j], V[j])[i]
    <3>1. P[j] - 1 + i \in 1 .. L
      BY <2>1, <2>2, <1>3
    <3> QED BY <3>1, <1>3, <2>2
  <2>4. Q[j + 1] <= Len(d) + 1
    BY <2>1, <2>2, <1>2, <1>3
  <2> QED BY <2>1, <2>2, <2>3, <2>4 DEF l
<1>6. /\ Q[m + 1] = Q[m] + Len(c) /\ Q[m] >= 1 /\ Q[m + 1] <= Len(d) + 1
      /\ \A i \in 1 .. Len(c) : d[Q[m] - 1 + i] = c[i]
  <2>1. Q[m] = L + 1 /\ m \in Nat
    BY <1>1, <1>4
  <2>2. \A i \in 1 .. Len(c) : Q[m] - 1 + i = L + i
    BY <2>1, <1>2, <1>3
  <2> QED BY <2>1, <2>2, <1>2, <1>3, <1>4
<1>7. \A j \in 1 .. m :
           /\ Len(Code(T[j], V[j])) \in Nat /\ Q[j + 1] = Q[j] + Len(Code(T[j], V[j])) /\ Q[j] >= 1 /\ Q[j + 1] <= Len(d) + 1
           /\ \A i \in 1 .. Len(Code(T[j], V[j])) : d[Q[j] - 1 + i] = Code(T[j], V[j])[i]
  <2> SUFFICES ASSUME NEW j \in 1 .. m
               PROVE /\ Len(Code(T[j], V[j])) \in Nat /\ Q[j + 1] = Q[j] + Len(Code(T[j], V[j])) /\ Q[j] >= 1 /\ Q[j + 1] <= Len(d) + 1
                     /\ \A i \in 1 .. Len(Code(T[j], V[j])) : d[Q[j] - 1 + i] = Code(T[j], V[j])[i]
    OBVIOUS
  <2>1. CASE j = m
    BY <2>1, <1>2, <1>6 DEF c
  <2>2. CASE j # m
    <3>1. j \in 1 .. n
      BY <2>2, <1>1
    <3> QED BY <3>1, <1>5
  <2> QED BY <2>1, <2>2
<1>8. Q[1] = 1 /\ Q[m + 1] = Len(d) + 1 /\ m \in Nat
  BY <1>1, <1>2, <1>3, <1>4
<1>8a. ASSUME NEW i \in 1 .. m + 1, NEW j \in 1 .. m + 1, i < j PROVE Q[i + 1] <= Q[j]
  <2>1. CASE j \in 1 .. m
    <3>1. i \in 1 .. m /\ i + 1 \in 1 .. m
      BY <2>1, <1>1, <1>8a
    <3> QED BY <3>1, <2>1, <1>8a, <1>1a, <1>4
  <2>2. CASE j = m + 1 /\ i = m
    BY <2>2, <1>2, <1>3, <1>4, <1>8
  <2>3. CASE j = m + 1 /\ i # m
    <3>1. i \in 1 .. m /\ m \in 1 .. m /\ i < m /\ i + 1 \in 1 .. m
      BY <2>3, <1>1, <1>8a
    <3>2. P[i + 1] <= P[m]
      BY <3>1, <1>1a
    <3>3. Q[i + 1] = P[i + 1] /\ Q[m] = P[m] /\ P[m] \in Nat /\ P[i + 1] \in Nat
      BY <3>1, <1>1, <1>4
    <3>4. P[m] <= Q[m + 1]
      BY <1>1, <1>2, <1>3, <1>4
    <3>5. Q[m + 1] \in Nat
      BY <1>2, <1>3, <1>4
    <3> QED BY <2>3, <3>2, <3>3, <3>4, <3>5
  <2> QED BY <2>1, <2>2, <2>3, <1>8, <1>8a
<1>8b. ASSUME NEW q \in 1 .. Len(d) PROVE \E j \in 1 .. m : Q[j] <= q /\ q < Q[j + 1]
  <2>1. CASE q <= L
    <3>1. PICK j \in 1 .. n : P[j] <= q /\ q < P[j + 1]
      BY <2>1, <1>1a, <1>3
    <3>2. j \in 1 .. m /\ j + 1 \in 1 .. m
      BY <1>1
    <3> QED BY <3>1, <3>2, <1>4
  <2>2. CASE q > L
    <3>1. m \in 1 .. m /\ Q[m] = L + 1
      BY <1>1, <1>4
    <3> QED BY <2>2, <3>1, <1>2, <1>3, <1>4
  <2> QED BY <2>1, <2>2, <1>3
<1>9. Laid(d, m, T, V, Q)
  BY <1>3, <1>4, <1>7, <1>8, <1>8a, <1>8b DEF Laid
<1> QED BY <1>9 DEF IsLaid, d, c

(***************************************************************************)
(* The first c of n fields are read: none before c is zero or empty, and c *)
(* is, unless it is the last.                                              *)
(***************************************************************************)
ReadTo(T, V, n, c) ==
  /\ n \in Nat /\ c \in 1 .. n
  /\ \A j \in 1 .. n : T[j] \in 1 .. 127 /\ Proper(T[j], V[j])
  /\ \A j \in 1 .. n : j < c => ~Blanked(T[j], V[j])
  /\ c = n \/ Blanked(T[c], V[c])

LEMMA FieldBytes ==
  ASSUME NEW body, NEW n, NEW T, NEW V, NEW P, Laid(body, n, T, V, P), NEW c, ReadTo(T, V, n, c),
         NEW j \in 1 .. n
  PROVE  /\ P[j] \in Nat /\ P[j] >= 1 /\ P[j + 1] \in Nat
         /\ P[j + 1] = P[j] + Len(Code(T[j], V[j])) /\ P[j + 1] <= Len(body) + 1
         /\ Len(Code(T[j], V[j])) \in Nat /\ Len(Code(T[j], V[j])) >= 2
         /\ Code(T[j], V[j])[1] = T[j]
         /\ \A i \in 1 .. Len(Code(T[j], V[j])) : body[P[j] - 1 + i] = Code(T[j], V[j])[i]
         /\ ~Blanked(T[j], V[j]) => \A i \in 1 .. Len(Code(T[j], V[j])) : Code(T[j], V[j])[i] # 0
         /\ Blanked(T[j], V[j]) => Len(Code(T[j], V[j])) = 2 /\ Code(T[j], V[j])[2] = 0
<1>1. T[j] \in 1 .. 127 /\ Proper(T[j], V[j])
  BY DEF ReadTo
<1>2. P[j] \in Nat /\ P[j + 1] \in Nat
  <2>1. n \in Nat /\ P \in [1 .. n + 1 -> Nat]
    BY DEF Laid
  <2> QED BY <2>1
<1>3. /\ P[j] >= 1 /\ P[j + 1] = P[j] + Len(Code(T[j], V[j])) /\ P[j + 1] <= Len(body) + 1
      /\ \A i \in 1 .. Len(Code(T[j], V[j])) : body[P[j] - 1 + i] = Code(T[j], V[j])[i]
  BY DEF Laid
<1>4. /\ Len(Code(T[j], V[j])) \in Nat /\ Len(Code(T[j], V[j])) >= 2
      /\ Code(T[j], V[j])[1] = T[j]
  BY <1>1, CodeBytes
<1>5. ~Blanked(T[j], V[j]) => \A i \in 1 .. Len(Code(T[j], V[j])) : Code(T[j], V[j])[i] # 0
  <2> DEFINE t == T[j]
             v == V[j]
  <2>1. t \in 1 .. 127 /\ Proper(t, v)
    BY <1>1
  <2> HIDE DEF t, v
  <2>2. ASSUME ~Blanked(t, v), NEW i \in 1 .. Len(Code(t, v)) PROVE Code(t, v)[i] # 0
    BY <2>1, <2>2, NoZeroBefore
  <2> QED BY <2>2 DEF t, v
<1>6. Blanked(T[j], V[j]) => Len(Code(T[j], V[j])) = 2 /\ Code(T[j], V[j])[2] = 0
  <2> DEFINE t == T[j]
             v == V[j]
  <2>1. t \in 1 .. 127 /\ Proper(t, v)
    BY <1>1
  <2> HIDE DEF t, v
  <2>2. Blanked(t, v) => Len(Code(t, v)) = 2 /\ Code(t, v)[2] = 0
    BY <2>1, CodeBytes
  <2> QED BY <2>2 DEF t, v
<1> QED BY <1>2, <1>3, <1>4, <1>5, <1>6

LEMMA NotZeroBefore ==
  ASSUME NEW body, NEW n, NEW T, NEW V, NEW P, Laid(body, n, T, V, P), NEW c, ReadTo(T, V, n, c),
         NEW q \in 1 .. Len(body), q < P[c] \/ ~Blanked(T[c], V[c])
  PROVE  body[q] # 0
<1>1. PICK j \in 1 .. n : P[j] <= q /\ q < P[j + 1]
  BY DEF Laid
<1>2. n \in Nat /\ c \in 1 .. n /\ \A k \in 1 .. n : k < c => ~Blanked(T[k], V[k])
  BY DEF ReadTo
<1>3. ~Blanked(T[j], V[j])
  <2>1. CASE j < c
    BY <2>1, <1>2
  <2>2. CASE j = c
    <3>1. ~(q < P[c])
      BY <2>2, <1>1, FieldBytes
    <3> QED BY <3>1, <2>2
  <2>3. CASE j > c
    <3>1. P[c + 1] <= P[j]
      <4>1. c \in 1 .. n + 1 /\ j \in 1 .. n + 1
        BY <1>2
      <4> QED BY <2>3, <4>1 DEF Laid
    <3>2. P[c] <= P[c + 1] /\ P[c] \in Nat /\ P[c + 1] \in Nat
      BY <1>2, FieldBytes
    <3>3. P[j] \in Nat
      BY FieldBytes
    <3>4. ~(q < P[c])
      BY <3>1, <3>2, <3>3, <1>1
    <3>5. c # n
      BY <2>3, <1>2
    <3> QED BY <3>4, <3>5 DEF ReadTo
  <2> QED BY <2>1, <2>2, <2>3, <1>2
<1> DEFINE i == q - P[j] + 1
<1>4. i \in 1 .. Len(Code(T[j], V[j])) /\ q = P[j] - 1 + i
  <2>1. P[j] \in Nat /\ P[j + 1] = P[j] + Len(Code(T[j], V[j])) /\ Len(Code(T[j], V[j])) \in Nat
    BY FieldBytes
  <2> QED BY <1>1, <2>1
<1> HIDE DEF i
<1>5. body[P[j] - 1 + i] = Code(T[j], V[j])[i] /\ Code(T[j], V[j])[i] # 0
  BY <1>3, <1>4, FieldBytes
<1> QED BY <1>4, <1>5

LEMMA NotCut ==
  ASSUME NEW body, NEW n, NEW T, NEW V, NEW P, Laid(body, n, T, V, P), NEW c, ReadTo(T, V, n, c),
         ~Blanked(T[c], V[c])
  PROVE  CString(body) = body
<1>1. body \in Seq(Byte)
  BY DEF Laid
<1>2. DOMAIN body = 1 .. Len(body)
  BY <1>1
<1>3. {i \in DOMAIN body : body[i] = 0} = {}
  BY <1>2, NotZeroBefore
<1> QED BY <1>3 DEF CString

LEMMA CutBehind ==
  ASSUME NEW body, NEW n, NEW T, NEW V, NEW P, Laid(body, n, T, V, P), NEW c, ReadTo(T, V, n, c),
         Blanked(T[c], V[c])
  PROVE  CString(body) = SubSeq(body, 1, P[c]) /\ P[c] \in 1 .. Len(body)
<1> DEFINE zeros == {i \in DOMAIN body : body[i] = 0}
           z == P[c] + 1
<1>1. body \in Seq(Byte) /\ Len(body) \in Nat /\ DOMAIN body = 1 .. Len(body)
  BY DEF Laid
<1>2. c \in 1 .. n
  BY DEF ReadTo
<1>3. /\ P[c] \in Nat /\ P[c] >= 1 /\ P[c] + 2 <= Len(body) + 1
      /\ \A i \in 1 .. 2 : body[P[c] - 1 + i] = Code(T[c], V[c])[i]
      /\ Code(T[c], V[c])[2] = 0
  <2>1. Len(Code(T[c], V[c])) = 2
    BY <1>2, FieldBytes
  <2> QED BY <1>2, <2>1, FieldBytes
<1>4. z \in zeros
  <2>1. body[P[c] - 1 + 2] = 0
    BY <1>3
  <2>2. P[c] - 1 + 2 = z /\ z \in 1 .. Len(body)
    BY <1>1, <1>3
  <2> QED BY <2>1, <2>2, <1>1
<1>5. ASSUME NEW q \in zeros PROVE z <= q
  <2>1. q \in 1 .. Len(body) /\ body[q] = 0
    BY <1>1
  <2>2. ~(q < P[c])
    BY <2>1, NotZeroBefore
  <2>3. q # P[c]
    <3>1. body[P[c] - 1 + 1] = T[c] /\ P[c] - 1 + 1 = P[c]
      BY <1>2, <1>3, FieldBytes
    <3>2. T[c] # 0
      BY <1>2 DEF ReadTo
    <3> QED BY <2>1, <3>1, <3>2
  <2> QED BY <2>1, <2>2, <2>3, <1>3
<1>6. zeros \subseteq Int
  BY <1>1
<1> HIDE DEF zeros
<1>7. Min(zeros) = z
  BY <1>4, <1>5, <1>6, MinIs
<1>8. CString(body) = SubSeq(body, 1, Min(zeros) - 1)
  BY <1>4 DEF CString, zeros
<1>9. z - 1 = P[c]
  BY <1>3
<1> QED BY <1>1, <1>3, <1>7, <1>8, <1>9

(***************************************************************************)
(* b holds the fields before c whole, and of field c at least the tag.     *)
(***************************************************************************)
Holds(b, T, V, P, c) ==
  /\ b \in Seq(Byte) /\ P \in [1 .. c + 1 -> Nat] /\ P[1] = 1 /\ P[c + 1] > Len(b)
  /\ \A j \in 1 .. c : /\ P[j] \in 1 .. Len(b) /\ b[P[j]] = T[j] /\ ValueAt(b, P[j]) = V[j]
                       /\ After(b, P[j]) = P[j + 1]
                       /\ ~(IsString(b, P[j]) /\ Int32s(b)[P[j] + 1] < 0)

\* b is body, or its beginning.
Begins(b, body) ==
  b \in Seq(Byte) /\ Len(b) <= Len(body) /\ \A i \in 1 .. Len(b) : b[i] = body[i]

LEMMA FieldHeld ==
  ASSUME NEW body, NEW n, NEW T, NEW V, NEW P, Laid(body, n, T, V, P), NEW c, ReadTo(T, V, n, c),
         NEW b, Begins(b, body), NEW j \in 1 .. n, P[j + 1] <= Len(b) + 1
  PROVE  /\ P[j] \in 1 .. Len(b) /\ b[P[j]] = T[j] /\ ValueAt(b, P[j]) = V[j]
         /\ After(b, P[j]) = P[j + 1]
         /\ ~(IsString(b, P[j]) /\ Int32s(b)[P[j] + 1] < 0)
<1> DEFINE t == T[j]
           v == V[j]
           p == P[j]
<1>1. t \in 1 .. 127 /\ Proper(t, v)
  BY DEF ReadTo
<1>2. /\ p \in Nat /\ p >= 1 /\ P[j + 1] \in Nat /\ P[j + 1] = p + Len(Code(t, v))
      /\ Len(Code(t, v)) \in Nat /\ Len(Code(t, v)) >= 2
      /\ \A i \in 1 .. Len(Code(t, v)) : body[p - 1 + i] = Code(t, v)[i]
  BY FieldBytes
<1>3. /\ P[j + 1] <= Len(b) + 1 /\ Len(b) \in Nat /\ b \in Seq(Byte)
      /\ Len(b) <= Len(body) /\ \A i \in 1 .. Len(b) : b[i] = body[i]
  BY DEF Begins
<1> HIDE DEF t, v, p
<1>4. p \in Nat \ {0} /\ p - 1 + Len(Code(t, v)) <= Len(b)
  BY <1>2, <1>3
<1>5. ASSUME NEW i \in 1 .. Len(Code(t, v)) PROVE b[p - 1 + i] = Code(t, v)[i]
  <2>1. p - 1 + i \in 1 .. Len(b)
    BY <1>2, <1>4, <1>3
  <2> QED BY <2>1, <1>2, <1>3
<1>6. /\ p <= Len(b) /\ b[p] = t
      /\ ~(IsString(b, p) /\ Int32s(b)[p + 1] < 0)
      /\ ValueAt(b, p) = v
      /\ After(b, p) = p + Len(Code(t, v))
  <2>1. \A i \in 1 .. Len(Code(t, v)) : b[p - 1 + i] = Code(t, v)[i]
    BY <1>5
  <2>2. Written(b, p, t, v)
    BY <1>1, <1>3, <1>4, <2>1 DEF Written
  <2> QED BY <2>2, WholeField
<1> QED BY <1>2, <1>6 DEF t, v, p

LEMMA BodyHolds ==
  ASSUME NEW body, NEW n, NEW T, NEW V, NEW P, Laid(body, n, T, V, P), NEW c, ReadTo(T, V, n, c)
  PROVE  Holds(CString(body), T, V, [j \in 1 .. c + 1 |-> P[j]], c)
<1> DEFINE b == CString(body)
           Q == [j \in 1 .. c + 1 |-> P[j]]
<1>1. /\ n \in Nat /\ c \in 1 .. n /\ T[c] \in 1 .. 127 /\ Proper(T[c], V[c])
      /\ (c = n \/ Blanked(T[c], V[c]))
  BY DEF ReadTo
<1>2. /\ body \in Seq(Byte) /\ P \in [1 .. n + 1 -> Nat] /\ P[1] = 1 /\ P[n + 1] = Len(body) + 1
      /\ \A i, j \in 1 .. n + 1 : i < j => P[i + 1] <= P[j]
  BY DEF Laid
<1>3. /\ Q \in [1 .. c + 1 -> Nat] /\ Q[1] = 1 /\ \A j \in 1 .. c + 1 : Q[j] = P[j]
  BY <1>1, <1>2
<1>4. c + 1 \in 1 .. c + 1 /\ \A j \in 1 .. c : j \in 1 .. c + 1 /\ j + 1 \in 1 .. c + 1 /\ j \in 1 .. n
  BY <1>1
<1> HIDE DEF b, Q
<1>5. CASE ~Blanked(T[c], V[c])
  <2>1. b = body /\ c = n
    BY <1>1, <1>5, NotCut DEF b
  <2>2. ASSUME NEW j \in 1 .. n
        PROVE  /\ P[j] \in 1 .. Len(b) /\ b[P[j]] = T[j] /\ ValueAt(b, P[j]) = V[j]
               /\ After(b, P[j]) = P[j + 1]
               /\ ~(IsString(b, P[j]) /\ Int32s(b)[P[j] + 1] < 0)
    <3>1. P[j + 1] <= Len(body) + 1
      BY FieldBytes
    <3>2. Len(body) \in Nat
      BY <1>2
    <3>3. Begins(body, body)
      BY <3>2, <1>2 DEF Begins
    <3> QED BY <2>1, <3>1, <3>3, FieldHeld
  <2>3. Len(b) \in Nat /\ Q[c + 1] = Len(b) + 1
    BY <2>1, <1>2, <1>3, <1>4
  <2>4. Q[c + 1] > Len(b)
    BY <2>3
  <2>5. b \in Seq(Byte)
    BY <2>1, <1>2
  <2>6. \A j \in 1 .. c : Q[j] = P[j] /\ Q[j + 1] = P[j + 1]
    BY <1>3, <1>4
  <2>7. Holds(b, T, V, Q, c)
    BY <2>1, <2>2, <2>4, <2>5, <2>6, <1>3 DEF Holds
  <2> QED BY <2>7 DEF b, Q
<1>6. CASE Blanked(T[c], V[c])
  <2>1. b = SubSeq(body, 1, P[c]) /\ P[c] \in 1 .. Len(body)
    BY <1>6, CutBehind DEF b
  <2>2. /\ b \in Seq(Byte) /\ Len(b) = P[c] /\ Len(b) <= Len(body)
        /\ \A i \in 1 .. Len(b) : b[i] = body[i]
    BY <2>1, <1>2
  <2>3. ASSUME NEW j \in 1 .. c, j # c
        PROVE  /\ P[j] \in 1 .. Len(b) /\ b[P[j]] = T[j] /\ ValueAt(b, P[j]) = V[j]
               /\ After(b, P[j]) = P[j + 1]
               /\ ~(IsString(b, P[j]) /\ Int32s(b)[P[j] + 1] < 0)
    <3>1. j \in 1 .. n /\ j \in 1 .. n + 1 /\ c \in 1 .. n + 1 /\ j < c
      BY <2>3, <1>1
    <3>2. P[j + 1] <= P[c] /\ P[j + 1] \in Nat
      <4>1. P[j + 1] <= P[c]
        BY <3>1, <1>2
      <4>2. j + 1 \in 1 .. n + 1
        BY <3>1, <1>1
      <4> QED BY <4>1, <4>2, <1>2
    <3>3. P[j + 1] <= Len(b) + 1
      BY <2>1, <2>2, <3>2
    <3>4. Begins(b, body)
      BY <2>2 DEF Begins
    <3> QED BY <3>1, <3>3, <3>4, FieldHeld
  <2>4. /\ P[c] \in 1 .. Len(b) /\ b[P[c]] = T[c] /\ ValueAt(b, P[c]) = V[c]
        /\ After(b, P[c]) = P[c + 1] /\ P[c + 1] > Len(b)
        /\ ~(IsString(b, P[c]) /\ Int32s(b)[P[c] + 1] < 0)
    <3>1. P[c] \in Nat /\ P[c] >= 1 /\ P[c + 1] = P[c] + 2
      <4>1. Len(Code(T[c], V[c])) = 2
        BY <1>1, <1>6, CodeBytes
      <4>2. P[c] \in Nat /\ P[c] >= 1
        BY <1>1, FieldBytes
      <4>3. P[c + 1] = P[c] + Len(Code(T[c], V[c]))
        BY <1>1, FieldBytes
      <4> QED BY <4>1, <4>2, <4>3
    <3>2. b[P[c]] = T[c]
      <4>1. body[P[c] - 1 + 1] = Code(T[c], V[c])[1]
        <5>1. 1 \in 1 .. Len(Code(T[c], V[c]))
          BY <1>1, FieldBytes
        <5> QED BY <5>1, <1>1, FieldBytes
      <4>2. Code(T[c], V[c])[1] = T[c]
        BY <1>1, CodeBytes
      <4>3. b[P[c]] = body[P[c]] /\ P[c] - 1 + 1 = P[c]
        BY <2>2, <3>1
      <4> QED BY <4>1, <4>2, <4>3
    <3> DEFINE t == T[c]
               v == V[c]
    <3>3. t \in 1 .. 127 /\ Blanked(t, v) /\ b[Len(b)] = t /\ Len(b) > 0
      BY <1>1, <1>6, <2>2, <3>1, <3>2
    <3> HIDE DEF t, v
    <3>4. /\ ~(IsString(b, Len(b)) /\ Int32s(b)[Len(b) + 1] < 0)
          /\ ValueAt(b, Len(b)) = v
          /\ After(b, Len(b)) = Len(b) + 2
      BY <3>3, <2>2, CutField
    <3> QED BY <3>1, <3>2, <3>4, <2>2 DEF t, v
  <2>5. \A j \in 1 .. c : Q[j] = P[j] /\ Q[j + 1] = P[j + 1]
    BY <1>3, <1>4
  <2>6. Q[c + 1] > Len(b)
    BY <2>4, <1>3, <1>4
  <2>7. \A j \in 1 .. c :
          /\ P[j] \in 1 .. Len(b) /\ b[P[j]] = T[j] /\ ValueAt(b, P[j]) = V[j]
          /\ After(b, P[j]) = P[j + 1]
          /\ ~(IsString(b, P[j]) /\ Int32s(b)[P[j] + 1] < 0)
    BY <2>3, <2>4
  <2>8. Holds(b, T, V, Q, c)
    BY <2>2, <2>5, <2>6, <2>7, <1>3 DEF Holds
  <2> QED BY <2>8 DEF b, Q
<1> QED BY <1>5, <1>6

LEMMA HeldIsRead ==
  ASSUME NEW tags, NEW b, NEW T, NEW V, NEW P, NEW c \in Nat \ {0}, Holds(b, T, V, P, c),
         NEW o, Ordered(tags, o, c), \A j \in 1 .. c : tags[o[j]] = T[j]
  PROVE  /\ DOMAIN Fields(tags, b) = Names(o, c)
         /\ \A j \in 1 .. c : Fields(tags, b)[o[j]] = V[j]
<1>1. /\ b \in Seq(Byte) /\ P \in [1 .. c + 1 -> Nat] /\ P[1] = 1 /\ P[c + 1] > Len(b)
      /\ \A j \in 1 .. c : /\ P[j] \in 1 .. Len(b) /\ b[P[j]] = T[j] /\ ValueAt(b, P[j]) = V[j]
                           /\ After(b, P[j]) = P[j + 1]
                           /\ ~(IsString(b, P[j]) /\ Int32s(b)[P[j] + 1] < 0)
  BY DEF Holds
<1>o. o \in [1 .. c -> DOMAIN tags]
  BY DEF Ordered
<1>2. ASSUME NEW j \in 1 .. c PROVE ~Stops(tags, b, P[j])
  <2>1. P[j] \in 1 .. Len(b) /\ b[P[j]] = tags[o[j]] /\ o[j] \in DOMAIN tags
    BY <1>1, <1>o
  <2>2. ~(P[j] > Len(b))
    BY <2>1, <1>1
  <2> QED BY <1>1, <2>1, <2>2 DEF Stops
<1>3. Walking(tags, b, c, P)
  BY <1>1, <1>2 DEF Walking
<1>4. \A j \in 1 .. c : P[j] \in 1 .. Len(b) /\ b[P[j]] = tags[o[j]]
  BY <1>1
<1>5. /\ DOMAIN Fields(tags, b) = Names(o, c)
      /\ \A j \in 1 .. c : Fields(tags, b)[o[j]] = ValueAt(b, P[j])
  <2>1. c # 0
    OBVIOUS
  <2>2. b \in Seq(Byte) /\ P[1] = 1
    BY <1>1
  <2>3. Tagged(tags, b, c, P, o)
    BY <1>4 DEF Tagged
  <2> QED BY <1>3, <2>1, <2>2, <2>3, ReadWalk
<1> QED BY <1>1, <1>5

LEMMA BodyIsRead ==
  ASSUME NEW tags, NEW body, NEW n, NEW T, NEW V, NEW c, NEW o,
         IsLaid(body, n, T, V), ReadTo(T, V, n, c), Ordered(tags, o, n),
         \A j \in 1 .. n : tags[o[j]] = T[j]
  PROVE  /\ DOMAIN Fields(tags, CString(body)) = Names(o, c)
         /\ \A j \in 1 .. c : Fields(tags, CString(body))[o[j]] = V[j]
<1>1. PICK P : Laid(body, n, T, V, P)
  BY DEF IsLaid
<1> DEFINE Q == [j \in 1 .. c + 1 |-> P[j]]
           q == [j \in 1 .. c |-> o[j]]
           b == CString(body)
<1>2. n \in Nat /\ c \in 1 .. n /\ c \in Nat \ {0} /\ \A j \in 1 .. c : j \in 1 .. n
  BY DEF ReadTo
<1>3. Holds(b, T, V, Q, c)
  BY <1>1, BodyHolds
<1>4. Ordered(tags, q, c)
  BY <1>2 DEF Ordered
<1>5. \A j \in 1 .. c : q[j] = o[j]
  OBVIOUS
<1>6. \A j \in 1 .. c : tags[q[j]] = T[j]
  BY <1>2, <1>5
<1>7. Names(q, c) = Names(o, c)
  BY <1>5 DEF Names
<1> HIDE DEF Q, q, b
<1>8. /\ DOMAIN Fields(tags, b) = Names(q, c)
      /\ \A j \in 1 .. c : Fields(tags, b)[q[j]] = V[j]
  BY <1>2, <1>3, <1>4, <1>6, HeldIsRead
<1> QED BY <1>5, <1>7, <1>8 DEF b

-----------------------------------------------------------------------------
(***************************************************************************)
(* The message m is of the kind with the fields o, the tags and the        *)
(* defaults.                                                               *)
(***************************************************************************)
OfKind(tags, default, o, n, m) ==
  /\ n \in Nat \ {0} /\ Ordered(tags, o, n)
  /\ DOMAIN default = Names(o, n)
  /\ \A f \in Names(o, n) : /\ tags[f] \in 1 .. 127 /\ Proper(tags[f], m[f])
                            /\ default[f] = Blank(f)
                            /\ Blanked(tags[f], m[f]) <=> m[f] = Blank(f)

\* Tags and values of the fields o.
TagsOf(tags, o, n) == [j \in 1 .. n |-> tags[o[j]]]

ValuesOf(o, n, m) == [j \in 1 .. n |-> m[o[j]]]

\* The fields that are zero or empty.
Cuts(o, n, m) == {i \in 1 .. n : m[o[i]] = Blank(o[i])}

\* Field f comes before the first that is zero or empty.
Kept(o, n, m, f) == \E i \in 1 .. n : o[i] = f /\ \A j \in Cuts(o, n, m) : i < j

\* What is read of the message m: the fields before the first such one.
ReadOf(o, n, m) == [f \in Names(o, n) |-> IF Kept(o, n, m, f) THEN m[f] ELSE Blank(f)]

LEMMA FirstCut ==
  ASSUME NEW tags, NEW default, NEW o, NEW n, NEW m, OfKind(tags, default, o, n, m)
  PROVE  \E c : /\ ReadTo(TagsOf(tags, o, n), ValuesOf(o, n, m), n, c)
                /\ \A j \in 1 .. n : j < c => Kept(o, n, m, o[j])
                /\ \A j \in 1 .. n : j > c => ~Kept(o, n, m, o[j])
                /\ Kept(o, n, m, o[c]) \/ m[o[c]] = Blank(o[c])
<1> DEFINE C == Cuts(o, n, m)
           T == TagsOf(tags, o, n)
           V == ValuesOf(o, n, m)
<1>1. /\ n \in Nat \ {0}
      /\ o \in [1 .. n -> DOMAIN tags]
      /\ \A i, j \in 1 .. n : i # j => o[i] # o[j]
  BY DEF OfKind, Ordered
<1>2. \A f \in Names(o, n) : /\ tags[f] \in 1 .. 127 /\ Proper(tags[f], m[f])
                             /\ Blanked(tags[f], m[f]) <=> m[f] = Blank(f)
  BY DEF OfKind
<1>3. ASSUME NEW j \in 1 .. n
      PROVE  /\ T[j] = tags[o[j]] /\ V[j] = m[o[j]] /\ T[j] \in 1 .. 127 /\ Proper(T[j], V[j])
             /\ Blanked(T[j], V[j]) <=> j \in C
  <2>1. T[j] = tags[o[j]] /\ V[j] = m[o[j]]
    BY DEF TagsOf, ValuesOf
  <2>2. o[j] \in Names(o, n)
    BY DEF Names
  <2>3. j \in C <=> m[o[j]] = Blank(o[j])
    BY DEF Cuts
  <2> QED BY <2>1, <2>2, <2>3, <1>2
<1>4. C \subseteq 1 .. n
  BY DEF Cuts
<1>5. ASSUME NEW j \in 1 .. n PROVE Kept(o, n, m, o[j]) <=> \A k \in C : j < k
  BY <1>1 DEF Kept
<1> HIDE DEF C, T, V
<1>6. CASE C = {}
  <2>1. ReadTo(T, V, n, n)
    BY <1>1, <1>3, <1>6 DEF ReadTo
  <2>2. \A j \in 1 .. n : Kept(o, n, m, o[j])
    BY <1>5, <1>6
  <2>3. n \in 1 .. n /\ \A j \in 1 .. n : ~(j > n)
    BY <1>1
  <2> QED BY <2>1, <2>2, <2>3 DEF T, V
<1>7. CASE C # {}
  <2> DEFINE c == Min(C)
  <2>1. c \in C /\ \A k \in C : c <= k
    <3>1. C \subseteq Nat
      BY <1>4
    <3> QED BY <3>1, <1>7, MinIn
  <2> HIDE DEF c
  <2>2. c \in 1 .. n
    BY <2>1, <1>4
  <2>3. \A j \in 1 .. n : j < c => j \notin C
    BY <2>1, <2>2
  <2>4. ReadTo(T, V, n, c)
    BY <1>1, <1>3, <2>1, <2>2, <2>3 DEF ReadTo
  <2>5. ASSUME NEW j \in 1 .. n, j < c PROVE Kept(o, n, m, o[j])
    <3>1. \A k \in C : j < k
      BY <2>1, <2>5, <2>2, <1>4
    <3> QED BY <3>1, <1>5
  <2>6. ASSUME NEW j \in 1 .. n, j > c PROVE ~Kept(o, n, m, o[j])
    <3>1. ~(j < c)
      BY <2>2, <2>6
    <3> QED BY <2>1, <3>1, <1>5
  <2>7. m[o[c]] = Blank(o[c])
    BY <2>1 DEF C, Cuts
  <2> QED BY <2>4, <2>5, <2>6, <2>7 DEF T, V
<1> QED BY <1>6, <1>7

LEMMA KindIsRead ==
  ASSUME NEW tags, NEW default, NEW o, NEW n, NEW m, OfKind(tags, default, o, n, m),
         NEW body, IsLaid(body, n, TagsOf(tags, o, n), ValuesOf(o, n, m))
  PROVE  Get(Fields(tags, CString(body)), default) = ReadOf(o, n, m)
<1> DEFINE T == TagsOf(tags, o, n)
           V == ValuesOf(o, n, m)
           F == Fields(tags, CString(body))
<1>1. PICK c : /\ ReadTo(T, V, n, c)
               /\ \A j \in 1 .. n : j < c => Kept(o, n, m, o[j])
               /\ \A j \in 1 .. n : j > c => ~Kept(o, n, m, o[j])
               /\ Kept(o, n, m, o[c]) \/ m[o[c]] = Blank(o[c])
  BY FirstCut
<1>2. Ordered(tags, o, n) /\ n \in Nat \ {0}
  BY DEF OfKind
<1>3. \A j \in 1 .. n : tags[o[j]] = T[j] /\ V[j] = m[o[j]]
  BY DEF TagsOf, ValuesOf
<1>4. /\ DOMAIN F = Names(o, c)
      /\ \A j \in 1 .. c : F[o[j]] = V[j]
  <2> HIDE DEF T, V
  <2>1. IsLaid(body, n, T, V)
    BY DEF T, V
  <2>2. \A j \in 1 .. n : tags[o[j]] = T[j]
    BY <1>3
  <2> QED BY <1>1, <1>2, <2>1, <2>2, BodyIsRead
<1>5. c \in 1 .. n
  BY <1>1 DEF ReadTo
<1>6. DOMAIN default = Names(o, n) /\ \A f \in Names(o, n) : default[f] = Blank(f)
  BY DEF OfKind
<1>7. \A i, j \in 1 .. n : i # j => o[i] # o[j]
  BY <1>2 DEF Ordered
<1> HIDE DEF F, T, V
<1>8. ASSUME NEW f \in Names(o, n)
      PROVE  (IF f \in DOMAIN F THEN F[f] ELSE default[f])
             = (IF Kept(o, n, m, f) THEN m[f] ELSE Blank(f))
  <2>1. PICK j \in 1 .. n : f = o[j]
    BY DEF Names
  <2>2. CASE j <= c
    <3>1. j \in 1 .. c
      BY <2>2, <1>5
    <3>2. f \in DOMAIN F /\ F[f] = m[f]
      BY <3>1, <2>1, <1>3, <1>4 DEF Names
    <3>3. Kept(o, n, m, f) \/ m[f] = Blank(f)
      <4>1. CASE j < c
        BY <4>1, <2>1, <1>1
      <4>2. CASE j = c
        <5>1. Kept(o, n, m, o[c]) \/ m[o[c]] = Blank(o[c])
          BY <1>1
        <5>2. f = o[c]
          BY <4>2, <2>1
        <5> QED BY <5>1, <5>2
      <4> QED BY <4>1, <4>2, <2>2, <1>5
    <3> QED BY <3>2, <3>3
  <2>3. CASE ~(j <= c)
    <3>1. f \notin DOMAIN F
      <4> SUFFICES ASSUME f \in DOMAIN F PROVE FALSE
        OBVIOUS
      <4>1. PICK i \in 1 .. c : f = o[i]
        BY <1>4 DEF Names
      <4>2. i \in 1 .. n /\ i # j
        BY <4>1, <2>3, <1>5, <1>2
      <4> QED BY <4>1, <4>2, <2>1, <1>7
    <3>2. ~Kept(o, n, m, f)
      <4>1. j > c
        BY <2>3, <1>5
      <4>2. ~Kept(o, n, m, o[j])
        BY <4>1, <1>1
      <4> QED BY <4>2, <2>1
    <3> QED BY <3>1, <3>2, <1>6
  <2> QED BY <2>2, <2>3
<1> QED BY <1>6, <1>8 DEF Get, ReadOf, F

-----------------------------------------------------------------------------
(* The serialisers write such bodies.                                      *)

LEMMA StringWritten ==
  ASSUME NEW m, NEW f \in DOMAIN m, NEW number \in 1 .. 15, Proper(8 * number + 2, m[f])
  PROVE  /\ WriteString(number, m, f) = Code(8 * number + 2, m[f])
         /\ StringSize(m, f) = Len(Code(8 * number + 2, m[f]))
<1> DEFINE t == 8 * number + 2
           v == m[f]
<1>1. t \in Byte /\ IsText(t)
  BY DEF Byte, IsText
<1>2. WriteString(number, m, f) = <<t>> \o Varint(Len(v)) \o v
  BY DEF WriteString
<1>3. StringSize(m, f) = 1 + VarintSize(Len(v)) + Len(v)
  BY DEF StringSize
<1>4. Proper(t, v)
  OBVIOUS
<1> HIDE DEF t, v
<1>5. Code(t, v) = <<t>> \o Varint(Len(v)) \o v
  BY <1>1 DEF Code
<1>6. NumberOf(t, v) = Len(v) /\ TextOf(t, v) = v
  BY <1>1 DEF NumberOf, TextOf
<1>7. Len(Code(t, v)) = 1 + VarintSize(NumberOf(t, v)) + Len(TextOf(t, v))
  BY <1>1, <1>4, CodeFacts
<1> QED BY <1>2, <1>3, <1>5, <1>6, <1>7 DEF t, v

LEMMA NumberWritten ==
  ASSUME NEW m, NEW f \in DOMAIN m, NEW number \in 1 .. 15, Proper(8 * number, m[f])
  PROVE  /\ WriteInt32(number, m, f) = Code(8 * number, m[f])
         /\ Int32Size(m, f) = Len(Code(8 * number, m[f]))
<1> DEFINE t == 8 * number
           v == m[f]
<1>1. t \in Byte /\ ~IsText(t)
  BY DEF Byte, IsText
<1>2. WriteInt32(number, m, f) = <<t>> \o Int32(v)
  BY DEF WriteInt32
<1>3. Int32Size(m, f) = 1 + VarintSize(v)
  BY DEF Int32Size
<1>4. Proper(t, v)
  OBVIOUS
<1> HIDE DEF t, v
<1>5. Code(t, v) = <<t>> \o Int32(v)
  BY <1>1 DEF Code
<1>6. NumberOf(t, v) = v /\ TextOf(t, v) = <<>>
  BY <1>1 DEF NumberOf, TextOf
<1>7. Len(Code(t, v)) = 1 + VarintSize(NumberOf(t, v)) + Len(TextOf(t, v))
  BY <1>1, <1>4, CodeFacts
<1>8. VarintSize(v) \in Int
  <2>1. Number(Int32(v), v) /\ Len(Int32(v)) = VarintSize(v)
    BY <1>1, <1>4, EncodedNumber DEF Proper
  <2> QED BY <2>1 DEF Number
<1> QED BY <1>2, <1>3, <1>5, <1>6, <1>7, <1>8, NoBytes DEF t, v

LEMMA NothingBefore ==
  ASSUME NEW s \in Seq(Byte)
  PROVE  <<>> \o s = s
OBVIOUS

\* Tags and values that can be written.
Properly(T, V, n) == \A j \in 1 .. n : T[j] \in 1 .. 127 /\ Proper(T[j], V[j])

LEMMA TwoLaid ==
  ASSUME NEW T, NEW V, Properly(T, V, 2)
  PROVE  /\ IsLaid(Code(T[1], V[1]) \o Code(T[2], V[2]), 2, T, V)
         /\ Len(Code(T[1], V[1]) \o Code(T[2], V[2])) = Len(Code(T[1], V[1])) + Len(Code(T[2], V[2]))
         /\ Code(T[1], V[1]) \o Code(T[2], V[2]) \in Seq(Byte)
<1>1. /\ T[0 + 1] \in 1 .. 127 /\ Proper(T[0 + 1], V[0 + 1]) /\ T[1] \in 1 .. 127 /\ Proper(T[1], V[1])
      /\ T[1 + 1] \in 1 .. 127 /\ Proper(T[1 + 1], V[1 + 1]) /\ T[2] \in 1 .. 127 /\ Proper(T[2], V[2])
  BY DEF Properly
<1>2. Code(T[1], V[1]) \in Seq(Byte) /\ Code(T[2], V[2]) \in Seq(Byte)
  BY <1>1, CodeBytes
<1>3. IsLaid(<<>> \o Code(T[0 + 1], V[0 + 1]), 0 + 1, T, V)
  BY <1>1, NothingLaid, OneMoreLaid
<1>4. IsLaid(Code(T[1], V[1]), 1, T, V)
  <2>1. <<>> \o Code(T[1], V[1]) = Code(T[1], V[1])
    BY <1>2, NothingBefore
  <2> QED BY <1>3, <2>1
<1>5. IsLaid(Code(T[1], V[1]) \o Code(T[1 + 1], V[1 + 1]), 1 + 1, T, V)
  BY <1>1, <1>4, OneMoreLaid
<1> QED BY <1>2, <1>5, BytesConcat

LEMMA ThreeLaid ==
  ASSUME NEW T, NEW V, Properly(T, V, 3)
  PROVE  /\ IsLaid(Code(T[1], V[1]) \o Code(T[2], V[2]) \o Code(T[3], V[3]), 3, T, V)
         /\ Len(Code(T[1], V[1]) \o Code(T[2], V[2]) \o Code(T[3], V[3]))
              = Len(Code(T[1], V[1])) + Len(Code(T[2], V[2])) + Len(Code(T[3], V[3]))
         /\ Code(T[1], V[1]) \o Code(T[2], V[2]) \o Code(T[3], V[3]) \in Seq(Byte)
<1> DEFINE d == Code(T[1], V[1]) \o Code(T[2], V[2])
<1>1. Properly(T, V, 2) /\ T[2 + 1] \in 1 .. 127 /\ Proper(T[2 + 1], V[2 + 1])
      /\ T[3] \in 1 .. 127 /\ Proper(T[3], V[3])
  BY DEF Properly
<1>2. Code(T[3], V[3]) \in Seq(Byte)
  BY <1>1, CodeBytes
<1>3. /\ IsLaid(d, 2, T, V) /\ d \in Seq(Byte)
      /\ Len(d) = Len(Code(T[1], V[1])) + Len(Code(T[2], V[2]))
  BY <1>1, TwoLaid
<1> HIDE DEF d
<1>4. IsLaid(d \o Code(T[2 + 1], V[2 + 1]), 2 + 1, T, V)
  BY <1>1, <1>3, OneMoreLaid
<1>5. d \o Code(T[3], V[3]) \in Seq(Byte) /\ Len(d \o Code(T[3], V[3])) = Len(d) + Len(Code(T[3], V[3]))
  BY <1>2, <1>3, BytesConcat
<1> QED BY <1>3, <1>4, <1>5 DEF d

LEMMA FourLaid ==
  ASSUME NEW T, NEW V, Properly(T, V, 4)
  PROVE  /\ IsLaid(Code(T[1], V[1]) \o Code(T[2], V[2]) \o Code(T[3], V[3]) \o Code(T[4], V[4]), 4, T, V)
         /\ Len(Code(T[1], V[1]) \o Code(T[2], V[2]) \o Code(T[3], V[3]) \o Code(T[4], V[4]))
              = Len(Code(T[1], V[1])) + Len(Code(T[2], V[2])) + Len(Code(T[3], V[3]))
                  + Len(Code(T[4], V[4]))
         /\ Code(T[1], V[1]) \o Code(T[2], V[2]) \o Code(T[3], V[3]) \o Code(T[4], V[4]) \in Seq(Byte)
<1> DEFINE d == Code(T[1], V[1]) \o Code(T[2], V[2]) \o Code(T[3], V[3])
<1>1. Properly(T, V, 3) /\ T[3 + 1] \in 1 .. 127 /\ Proper(T[3 + 1], V[3 + 1])
      /\ T[4] \in 1 .. 127 /\ Proper(T[4], V[4])
  BY DEF Properly
<1>2. Code(T[4], V[4]) \in Seq(Byte)
  BY <1>1, CodeBytes
<1>3. /\ IsLaid(d, 3, T, V) /\ d \in Seq(Byte)
      /\ Len(d) = Len(Code(T[1], V[1])) + Len(Code(T[2], V[2])) + Len(Code(T[3], V[3]))
  BY <1>1, ThreeLaid
<1> HIDE DEF d
<1>4. IsLaid(d \o Code(T[3 + 1], V[3 + 1]), 3 + 1, T, V)
  BY <1>1, <1>3, OneMoreLaid
<1>5. d \o Code(T[4], V[4]) \in Seq(Byte) /\ Len(d \o Code(T[4], V[4])) = Len(d) + Len(Code(T[4], V[4]))
  BY <1>2, <1>3, BytesConcat
<1> QED BY <1>3, <1>4, <1>5 DEF d

-----------------------------------------------------------------------------
(* The four messages.                                                      *)

(***************************************************************************)
(* A length that k fields do not exceed.                                   *)
(***************************************************************************)
Short(n, k) == n \in Nat /\ n <= k * 1100000

LEMMA CodeShort ==
  ASSUME NEW t \in 1 .. 127, NEW v, Proper(t, v)
  PROVE  Short(Len(Code(t, v)), 1)
<1> DEFINE s == Int32(NumberOf(t, v))
           x == TextOf(t, v)
<1>0. t \in Byte
  BY DEF Byte
<1>1. CodeLayout(Code(t, v), t, s, x) /\ Number(s, NumberOf(t, v))
  BY <1>0, CodeFacts
<1>2. Len(x) \in Nat /\ Len(x) < 1048576
  <2>1. CASE IsText(t)
    <3>1. v \in Seq(1 .. 255) /\ Len(v) < 1048576
      BY SMT, <2>1 DEF Proper
    <3> QED BY SMT, <2>1, <3>1 DEF TextOf
  <2>2. CASE ~IsText(t)
    <3>1. x = <<>>
      BY <2>2 DEF TextOf
    <3> QED BY SMT, <3>1, NoBytes
  <2> QED BY SMT, <2>1, <2>2
<1> HIDE DEF s, x
<1>3. Len(Code(t, v)) = 1 + Len(s) + Len(x) /\ Len(s) \in 1 .. 10
  BY SMT, <1>1 DEF CodeLayout, Number
<1> DEFINE a == Len(s)
           c == Len(x)
           n == Len(Code(t, v))
<1>4. a \in 1 .. 10 /\ c \in Nat /\ c < 1048576 /\ n = 1 + a + c
  BY SMT, <1>2, <1>3
<1> HIDE DEF a, c, n
<1>5. Short(n, 1)
  BY SMT, <1>4 DEF Short
<1> QED BY SMT, <1>5 DEF n

LEMMA ShortSums ==
  ASSUME NEW k, NEW l, NEW m, NEW n, Short(k, 1), Short(l, 1), Short(m, 1), Short(n, 1)
  PROVE  Short(k + l, 4) /\ Short(k + l + m, 4) /\ Short(k + l + m + n, 4)
BY SMT DEF Short

LEMMA ShortOnes ==
  ASSUME NEW k, Short(k, 1)
  PROVE  k \in Nat
BY SMT DEF Short

\* The fields of all messages.
Texts == {"name", "passwd", "msg"}
Numbers == {"id", "type", "degree", "ret"}

LEMMA TextIsProper ==
  ASSUME NEW v \in Text
  PROVE  \A t \in {10, 18, 26} : /\ t \in 1 .. 127 /\ Proper(t, v)
                                 /\ \A f \in Texts : Blanked(t, v) <=> v = Blank(f)
<1>1. v \in Seq(1 .. 255) /\ Len(v) < 1048576
  BY SMT DEF Text
<1>2. \A t \in {10, 18, 26} : t \in 1 .. 127 /\ IsText(t)
  BY DEF IsText
<1>3. \A t \in {10, 18, 26} : Proper(t, v)
  BY SMT, <1>1, <1>2 DEF Proper
<1>4. \A f \in Texts : Blank(f) = <<>>
  BY DEF Texts, Blank
<1> QED BY <1>2, <1>3, <1>4 DEF Blanked

LEMMA NumberIsProper ==
  ASSUME NEW v \in Int32Range
  PROVE  \A t \in {8, 16, 32} : /\ t \in 1 .. 127 /\ Proper(t, v)
                                /\ \A f \in Numbers : Blanked(t, v) <=> v = Blank(f)
<1>1. \A t \in {8, 16, 32} : t \in 1 .. 127 /\ ~IsText(t)
  BY DEF IsText
<1>2. \A f \in Numbers : Blank(f) = 0
  BY DEF Numbers, Blank
<1> QED BY <1>1, <1>2 DEF Blanked, Proper

-----------------------------------------------------------------------------
\* Fields of a registration, as _InternalSerialize orders them.
RegisterTags == [name |-> 10, id |-> 16, passwd |-> 26, type |-> 32]
RegisterOrder == <<"name", "id", "passwd", "type">>

LEMMA RegisterValues ==
  ASSUME NEW m \in MessagesOf(REGISTER)
  PROVE  /\ DOMAIN m = {"name", "id", "passwd", "type"}
         /\ m["name"] \in Text
         /\ m["id"] \in Int32Range
         /\ m["passwd"] \in Text
         /\ m["type"] \in Int32Range
BY DEF MessagesOf, REGISTER, LOGIN, INSERT, DELETE, GETALL

LEMMA RegisterProper ==
  ASSUME NEW m \in MessagesOf(REGISTER)
  PROVE  /\ 10 \in 1 .. 127 /\ Proper(10, m["name"]) /\ (Blanked(10, m["name"]) <=> m["name"] = Blank("name"))
         /\ 16 \in 1 .. 127 /\ Proper(16, m["id"]) /\ (Blanked(16, m["id"]) <=> m["id"] = Blank("id"))
         /\ 26 \in 1 .. 127 /\ Proper(26, m["passwd"]) /\ (Blanked(26, m["passwd"]) <=> m["passwd"] = Blank("passwd"))
         /\ 32 \in 1 .. 127 /\ Proper(32, m["type"]) /\ (Blanked(32, m["type"]) <=> m["type"] = Blank("type"))
<1>1. /\ 10 \in 1 .. 127 /\ Proper(10, m["name"])
      /\ Blanked(10, m["name"]) <=> m["name"] = Blank("name")
  <2>1. m["name"] \in Text
    BY RegisterValues
  <2> QED BY <2>1, TextIsProper DEF Texts
<1>2. /\ 16 \in 1 .. 127 /\ Proper(16, m["id"])
      /\ Blanked(16, m["id"]) <=> m["id"] = Blank("id")
  <2>1. m["id"] \in Int32Range
    BY RegisterValues
  <2> QED BY <2>1, NumberIsProper DEF Numbers
<1>3. /\ 26 \in 1 .. 127 /\ Proper(26, m["passwd"])
      /\ Blanked(26, m["passwd"]) <=> m["passwd"] = Blank("passwd")
  <2>1. m["passwd"] \in Text
    BY RegisterValues
  <2> QED BY <2>1, TextIsProper DEF Texts
<1>4. /\ 32 \in 1 .. 127 /\ Proper(32, m["type"])
      /\ Blanked(32, m["type"]) <=> m["type"] = Blank("type")
  <2>1. m["type"] \in Int32Range
    BY RegisterValues
  <2> QED BY <2>1, NumberIsProper DEF Numbers
<1> QED BY <1>1, <1>2, <1>3, <1>4

LEMMA RegisterNames ==
  /\ Ordered(RegisterTags, RegisterOrder, 4) /\ Names(RegisterOrder, 4) = {"name", "id", "passwd", "type"}
  /\ DOMAIN NoRegister = {"name", "id", "passwd", "type"}
  /\ DOMAIN RegisterOrder = 1 .. 4
  /\ RegisterOrder[1] = "name" /\ RegisterTags["name"] = 10 /\ NoRegister["name"] = Blank("name")
  /\ RegisterOrder[2] = "id" /\ RegisterTags["id"] = 16 /\ NoRegister["id"] = Blank("id")
  /\ RegisterOrder[3] = "passwd" /\ RegisterTags["passwd"] = 26 /\ NoRegister["passwd"] = Blank("passwd")
  /\ RegisterOrder[4] = "type" /\ RegisterTags["type"] = 32 /\ NoRegister["type"] = Blank("type")
<1>1. DOMAIN RegisterTags = {"name", "id", "passwd", "type"} /\ DOMAIN NoRegister = {"name", "id", "passwd", "type"}
  BY DEF RegisterTags, NoRegister
<1>2. /\ DOMAIN RegisterOrder = 1 .. 4
      /\ RegisterOrder[1] = "name"
      /\ RegisterOrder[2] = "id"
      /\ RegisterOrder[3] = "passwd"
      /\ RegisterOrder[4] = "type"
  BY DEF RegisterOrder
<1>3. /\ RegisterTags["name"] = 10 /\ NoRegister["name"] = Blank("name")
      /\ RegisterTags["id"] = 16 /\ NoRegister["id"] = Blank("id")
      /\ RegisterTags["passwd"] = 26 /\ NoRegister["passwd"] = Blank("passwd")
      /\ RegisterTags["type"] = 32 /\ NoRegister["type"] = Blank("type")
  BY DEF RegisterTags, NoRegister, Blank
<1>4. 1 .. 4 = {1, 2, 3, 4}
  OBVIOUS
<1>5. Names(RegisterOrder, 4) = {"name", "id", "passwd", "type"}
  BY <1>2, <1>4 DEF Names
<1>6. RegisterOrder \in [1 .. 4 -> DOMAIN RegisterTags]
  BY <1>1, <1>2, <1>4 DEF RegisterOrder
<1>7. \A i, j \in 1 .. 4 : i # j => RegisterOrder[i] # RegisterOrder[j]
  BY <1>2, <1>4
<1>8. \A f, g \in DOMAIN RegisterTags : f # g => RegisterTags[f] # RegisterTags[g]
  BY <1>1, <1>3
<1>9. Ordered(RegisterTags, RegisterOrder, 4)
  BY <1>6, <1>7, <1>8 DEF Ordered
<1> QED BY <1>1, <1>2, <1>3, <1>5, <1>9

LEMMA RegisterCarried ==
  ASSUME NEW m \in MessagesOf(REGISTER)
  PROVE  /\ SerializeRegister(m) \in Seq(Byte) /\ Short(Len(SerializeRegister(m)), 4)
         /\ RegisterSize(m) = Len(SerializeRegister(m))
         /\ RegisterOf(ParseRegister(CString(SerializeRegister(m)))) = ReadOf(RegisterOrder, 4, m)
<1> DEFINE T == TagsOf(RegisterTags, RegisterOrder, 4)
           V == ValuesOf(RegisterOrder, 4, m)
<1>1. /\ T[1] = 10 /\ V[1] = m["name"]
      /\ T[2] = 16 /\ V[2] = m["id"]
      /\ T[3] = 26 /\ V[3] = m["passwd"]
      /\ T[4] = 32 /\ V[4] = m["type"]
  BY RegisterNames DEF TagsOf, ValuesOf
<1>2. /\ T[1] \in 1 .. 127 /\ Proper(T[1], V[1])
      /\ T[2] \in 1 .. 127 /\ Proper(T[2], V[2])
      /\ T[3] \in 1 .. 127 /\ Proper(T[3], V[3])
      /\ T[4] \in 1 .. 127 /\ Proper(T[4], V[4])
  BY <1>1, RegisterProper
<1>3. OfKind(RegisterTags, NoRegister, RegisterOrder, 4, m)
  <2>1. \A f \in {"name", "id", "passwd", "type"} :
          /\ RegisterTags[f] \in 1 .. 127 /\ Proper(RegisterTags[f], m[f])
          /\ NoRegister[f] = Blank(f)
          /\ Blanked(RegisterTags[f], m[f]) <=> m[f] = Blank(f)
    BY RegisterNames, RegisterProper
  <2>2. 4 \in Nat \ {0}
    OBVIOUS
  <2> QED BY <2>1, <2>2, RegisterNames DEF OfKind
<1>4. WriteString(1, m, "name") = Code(T[1], V[1]) /\ StringSize(m, "name") = Len(Code(T[1], V[1]))
  <2>1. "name" \in DOMAIN m /\ 1 \in 1 .. 15 /\ 8 * 1 + 2 = 10
    BY RegisterValues
  <2>2. Proper(8 * 1 + 2, m["name"])
    BY <2>1, RegisterProper
  <2>3. WriteString(1, m, "name") = Code(8 * 1 + 2, m["name"]) /\ StringSize(m, "name") = Len(Code(8 * 1 + 2, m["name"]))
    BY <2>1, <2>2, StringWritten
  <2> QED BY <1>1, <2>1, <2>3
<1>5. WriteInt32(2, m, "id") = Code(T[2], V[2]) /\ Int32Size(m, "id") = Len(Code(T[2], V[2]))
  <2>1. "id" \in DOMAIN m /\ 2 \in 1 .. 15 /\ 8 * 2 = 16
    BY RegisterValues
  <2>2. Proper(8 * 2, m["id"])
    BY <2>1, RegisterProper
  <2>3. WriteInt32(2, m, "id") = Code(8 * 2, m["id"]) /\ Int32Size(m, "id") = Len(Code(8 * 2, m["id"]))
    BY <2>1, <2>2, NumberWritten
  <2> QED BY <1>1, <2>1, <2>3
<1>6. WriteString(3, m, "passwd") = Code(T[3], V[3]) /\ StringSize(m, "passwd") = Len(Code(T[3], V[3]))
  <2>1. "passwd" \in DOMAIN m /\ 3 \in 1 .. 15 /\ 8 * 3 + 2 = 26
    BY RegisterValues
  <2>2. Proper(8 * 3 + 2, m["passwd"])
    BY <2>1, RegisterProper
  <2>3. WriteString(3, m, "passwd") = Code(8 * 3 + 2, m["passwd"]) /\ StringSize(m, "passwd") = Len(Code(8 * 3 + 2, m["passwd"]))
    BY <2>1, <2>2, StringWritten
  <2> QED BY <1>1, <2>1, <2>3
<1>7. WriteInt32(4, m, "type") = Code(T[4], V[4]) /\ Int32Size(m, "type") = Len(Code(T[4], V[4]))
  <2>1. "type" \in DOMAIN m /\ 4 \in 1 .. 15 /\ 8 * 4 = 32
    BY RegisterValues
  <2>2. Proper(8 * 4, m["type"])
    BY <2>1, RegisterProper
  <2>3. WriteInt32(4, m, "type") = Code(8 * 4, m["type"]) /\ Int32Size(m, "type") = Len(Code(8 * 4, m["type"]))
    BY <2>1, <2>2, NumberWritten
  <2> QED BY <1>1, <2>1, <2>3
<1>8. Properly(T, V, 4)
  <2>1. 1 .. 4 = {1, 2, 3, 4}
    OBVIOUS
  <2> QED BY <1>2, <2>1 DEF Properly
<1> DEFINE d == Code(T[1], V[1]) \o Code(T[2], V[2]) \o Code(T[3], V[3]) \o Code(T[4], V[4])
<1>9. SerializeRegister(m) = d
  BY <1>4, <1>5, <1>6, <1>7 DEF SerializeRegister
<1>10. IsLaid(d, 4, T, V) /\ d \in Seq(Byte)
      /\ Len(d) = Len(Code(T[1], V[1])) + Len(Code(T[2], V[2])) + Len(Code(T[3], V[3])) + Len(Code(T[4], V[4]))
  BY <1>8, FourLaid
<1>11. Short(Len(Code(T[1], V[1])), 1) /\ Short(Len(Code(T[2], V[2])), 1) /\ Short(Len(Code(T[3], V[3])), 1) /\ Short(Len(Code(T[4], V[4])), 1)
  BY <1>2, CodeShort
<1>12. Short(Len(d), 4)
  <2> HIDE DEF d
  <2> QED BY <1>10, <1>11, ShortSums
<1>13. RegisterSize(m) = Len(d)
  <2>1. Len(Code(T[1], V[1])) \in Nat /\ Len(Code(T[2], V[2])) \in Nat /\ Len(Code(T[3], V[3])) \in Nat /\ Len(Code(T[4], V[4])) \in Nat
    BY <1>11, ShortOnes
  <2> QED BY <2>1, <1>10, <1>4, <1>5, <1>6, <1>7 DEF RegisterSize
<1> HIDE DEF d, T, V
<1>14. Get(Fields(RegisterTags, CString(d)), NoRegister) = ReadOf(RegisterOrder, 4, m)
  <2>1. IsLaid(d, 4, TagsOf(RegisterTags, RegisterOrder, 4), ValuesOf(RegisterOrder, 4, m))
    BY <1>10 DEF T, V
  <2> QED BY <2>1, <1>3, KindIsRead
<1> QED BY <1>9, <1>10, <1>12, <1>13, <1>14 DEF ParseRegister, RegisterOf, RegisterTags

-----------------------------------------------------------------------------
\* Fields of a login.
LoginTags == [id |-> 8, passwd |-> 18, type |-> 32]
LoginOrder == <<"id", "passwd", "type">>

LEMMA LoginValues ==
  ASSUME NEW m \in MessagesOf(LOGIN)
  PROVE  /\ DOMAIN m = {"id", "passwd", "type"}
         /\ m["id"] \in Int32Range
         /\ m["passwd"] \in Text
         /\ m["type"] \in Int32Range
BY DEF MessagesOf, REGISTER, LOGIN, INSERT, DELETE, GETALL

LEMMA LoginProper ==
  ASSUME NEW m \in MessagesOf(LOGIN)
  PROVE  /\ 8 \in 1 .. 127 /\ Proper(8, m["id"]) /\ (Blanked(8, m["id"]) <=> m["id"] = Blank("id"))
         /\ 18 \in 1 .. 127 /\ Proper(18, m["passwd"]) /\ (Blanked(18, m["passwd"]) <=> m["passwd"] = Blank("passwd"))
         /\ 32 \in 1 .. 127 /\ Proper(32, m["type"]) /\ (Blanked(32, m["type"]) <=> m["type"] = Blank("type"))
<1>1. /\ 8 \in 1 .. 127 /\ Proper(8, m["id"])
      /\ Blanked(8, m["id"]) <=> m["id"] = Blank("id")
  <2>1. m["id"] \in Int32Range
    BY LoginValues
  <2> QED BY <2>1, NumberIsProper DEF Numbers
<1>2. /\ 18 \in 1 .. 127 /\ Proper(18, m["passwd"])
      /\ Blanked(18, m["passwd"]) <=> m["passwd"] = Blank("passwd")
  <2>1. m["passwd"] \in Text
    BY LoginValues
  <2> QED BY <2>1, TextIsProper DEF Texts
<1>3. /\ 32 \in 1 .. 127 /\ Proper(32, m["type"])
      /\ Blanked(32, m["type"]) <=> m["type"] = Blank("type")
  <2>1. m["type"] \in Int32Range
    BY LoginValues
  <2> QED BY <2>1, NumberIsProper DEF Numbers
<1> QED BY <1>1, <1>2, <1>3

LEMMA LoginNames ==
  /\ Ordered(LoginTags, LoginOrder, 3) /\ Names(LoginOrder, 3) = {"id", "passwd", "type"}
  /\ DOMAIN NoLogin = {"id", "passwd", "type"}
  /\ DOMAIN LoginOrder = 1 .. 3
  /\ LoginOrder[1] = "id" /\ LoginTags["id"] = 8 /\ NoLogin["id"] = Blank("id")
  /\ LoginOrder[2] = "passwd" /\ LoginTags["passwd"] = 18 /\ NoLogin["passwd"] = Blank("passwd")
  /\ LoginOrder[3] = "type" /\ LoginTags["type"] = 32 /\ NoLogin["type"] = Blank("type")
<1>1. DOMAIN LoginTags = {"id", "passwd", "type"} /\ DOMAIN NoLogin = {"id", "passwd", "type"}
  BY DEF LoginTags, NoLogin
<1>2. /\ DOMAIN LoginOrder = 1 .. 3
      /\ LoginOrder[1] = "id"
      /\ LoginOrder[2] = "passwd"
      /\ LoginOrder[3] = "type"
  BY DEF LoginOrder
<1>3. /\ LoginTags["id"] = 8 /\ NoLogin["id"] = Blank("id")
      /\ LoginTags["passwd"] = 18 /\ NoLogin["passwd"] = Blank("passwd")
      /\ LoginTags["type"] = 32 /\ NoLogin["type"] = Blank("type")
  BY DEF LoginTags, NoLogin, Blank
<1>4. 1 .. 3 = {1, 2, 3}
  OBVIOUS
<1>5. Names(LoginOrder, 3) = {"id", "passwd", "type"}
  BY <1>2, <1>4 DEF Names
<1>6. LoginOrder \in [1 .. 3 -> DOMAIN LoginTags]
  BY <1>1, <1>2, <1>4 DEF LoginOrder
<1>7. \A i, j \in 1 .. 3 : i # j => LoginOrder[i] # LoginOrder[j]
  BY <1>2, <1>4
<1>8. \A f, g \in DOMAIN LoginTags : f # g => LoginTags[f] # LoginTags[g]
  BY <1>1, <1>3
<1>9. Ordered(LoginTags, LoginOrder, 3)
  BY <1>6, <1>7, <1>8 DEF Ordered
<1> QED BY <1>1, <1>2, <1>3, <1>5, <1>9

LEMMA LoginCarried ==
  ASSUME NEW m \in MessagesOf(LOGIN)
  PROVE  /\ SerializeLogin(m) \in Seq(Byte) /\ Short(Len(SerializeLogin(m)), 4)
         /\ LoginSize(m) = Len(SerializeLogin(m))
         /\ LoginOf(ParseLogin(CString(SerializeLogin(m)))) = ReadOf(LoginOrder, 3, m)
<1> DEFINE T == TagsOf(LoginTags, LoginOrder, 3)
           V == ValuesOf(LoginOrder, 3, m)
<1>1. /\ T[1] = 8 /\ V[1] = m["id"]
      /\ T[2] = 18 /\ V[2] = m["passwd"]
      /\ T[3] = 32 /\ V[3] = m["type"]
  BY LoginNames DEF TagsOf, ValuesOf
<1>2. /\ T[1] \in 1 .. 127 /\ Proper(T[1], V[1])
      /\ T[2] \in 1 .. 127 /\ Proper(T[2], V[2])
      /\ T[3] \in 1 .. 127 /\ Proper(T[3], V[3])
  BY <1>1, LoginProper
<1>3. OfKind(LoginTags, NoLogin, LoginOrder, 3, m)
  <2>1. \A f \in {"id", "passwd", "type"} :
          /\ LoginTags[f] \in 1 .. 127 /\ Proper(LoginTags[f], m[f])
          /\ NoLogin[f] = Blank(f)
          /\ Blanked(LoginTags[f], m[f]) <=> m[f] = Blank(f)
    BY LoginNames, LoginProper
  <2>2. 3 \in Nat \ {0}
    OBVIOUS
  <2> QED BY <2>1, <2>2, LoginNames DEF OfKind
<1>4. WriteInt32(1, m, "id") = Code(T[1], V[1]) /\ Int32Size(m, "id") = Len(Code(T[1], V[1]))
  <2>1. "id" \in DOMAIN m /\ 1 \in 1 .. 15 /\ 8 * 1 = 8
    BY LoginValues
  <2>2. Proper(8 * 1, m["id"])
    BY <2>1, LoginProper
  <2>3. WriteInt32(1, m, "id") = Code(8 * 1, m["id"]) /\ Int32Size(m, "id") = Len(Code(8 * 1, m["id"]))
    BY <2>1, <2>2, NumberWritten
  <2> QED BY <1>1, <2>1, <2>3
<1>5. WriteString(2, m, "passwd") = Code(T[2], V[2]) /\ StringSize(m, "passwd") = Len(Code(T[2], V[2]))
  <2>1. "passwd" \in DOMAIN m /\ 2 \in 1 .. 15 /\ 8 * 2 + 2 = 18
    BY LoginValues
  <2>2. Proper(8 * 2 + 2, m["passwd"])
    BY <2>1, LoginProper
  <2>3. WriteString(2, m, "passwd") = Code(8 * 2 + 2, m["passwd"]) /\ StringSize(m, "passwd") = Len(Code(8 * 2 + 2, m["passwd"]))
    BY <2>1, <2>2, StringWritten
  <2> QED BY <1>1, <2>1, <2>3
<1>6. WriteInt32(4, m, "type") = Code(T[3], V[3]) /\ Int32Size(m, "type") = Len(Code(T[3], V[3]))
  <2>1. "type" \in DOMAIN m /\ 4 \in 1 .. 15 /\ 8 * 4 = 32
    BY LoginValues
  <2>2. Proper(8 * 4, m["type"])
    BY <2>1, LoginProper
  <2>3. WriteInt32(4, m, "type") = Code(8 * 4, m["type"]) /\ Int32Size(m, "type") = Len(Code(8 * 4, m["type"]))
    BY <2>1, <2>2, NumberWritten
  <2> QED BY <1>1, <2>1, <2>3
<1>7. Properly(T, V, 3)
  <2>1. 1 .. 3 = {1, 2, 3}
    OBVIOUS
  <2> QED BY <1>2, <2>1 DEF Properly
<1> DEFINE d == Code(T[1], V[1]) \o Code(T[2], V[2]) \o Code(T[3], V[3])
<1>8. SerializeLogin(m) = d
  BY <1>4, <1>5, <1>6 DEF SerializeLogin
<1>9. IsLaid(d, 3, T, V) /\ d \in Seq(Byte)
      /\ Len(d) = Len(Code(T[1], V[1])) + Len(Code(T[2], V[2])) + Len(Code(T[3], V[3]))
  BY <1>7, ThreeLaid
<1>10. Short(Len(Code(T[1], V[1])), 1) /\ Short(Len(Code(T[2], V[2])), 1) /\ Short(Len(Code(T[3], V[3])), 1)
  BY <1>2, CodeShort
<1>11. Short(Len(d), 4)
  <2> HIDE DEF d
  <2> QED BY <1>9, <1>10, ShortSums
<1>12. LoginSize(m) = Len(d)
  <2>1. Len(Code(T[1], V[1])) \in Nat /\ Len(Code(T[2], V[2])) \in Nat /\ Len(Code(T[3], V[3])) \in Nat
    BY <1>10, ShortOnes
  <2> QED BY <2>1, <1>9, <1>4, <1>5, <1>6 DEF LoginSize
<1> HIDE DEF d, T, V
<1>13. Get(Fields(LoginTags, CString(d)), NoLogin) = ReadOf(LoginOrder, 3, m)
  <2>1. IsLaid(d, 3, TagsOf(LoginTags, LoginOrder, 3), ValuesOf(LoginOrder, 3, m))
    BY <1>9 DEF T, V
  <2> QED BY <2>1, <1>3, KindIsRead
<1> QED BY <1>8, <1>9, <1>11, <1>12, <1>13 DEF ParseLogin, LoginOf, LoginTags

-----------------------------------------------------------------------------
\* Fields of a question.
InsertTags == [degree |-> 8, type |-> 16, msg |-> 26]
InsertOrder == <<"degree", "type", "msg">>

LEMMA InsertValues ==
  ASSUME NEW m \in MessagesOf(INSERT)
  PROVE  /\ DOMAIN m = {"degree", "type", "msg"}
         /\ m["degree"] \in Int32Range
         /\ m["type"] \in Int32Range
         /\ m["msg"] \in Text
BY DEF MessagesOf, REGISTER, LOGIN, INSERT, DELETE, GETALL

LEMMA InsertProper ==
  ASSUME NEW m \in MessagesOf(INSERT)
  PROVE  /\ 8 \in 1 .. 127 /\ Proper(8, m["degree"]) /\ (Blanked(8, m["degree"]) <=> m["degree"] = Blank("degree"))
         /\ 16 \in 1 .. 127 /\ Proper(16, m["type"]) /\ (Blanked(16, m["type"]) <=> m["type"] = Blank("type"))
         /\ 26 \in 1 .. 127 /\ Proper(26, m["msg"]) /\ (Blanked(26, m["msg"]) <=> m["msg"] = Blank("msg"))
<1>1. /\ 8 \in 1 .. 127 /\ Proper(8, m["degree"])
      /\ Blanked(8, m["degree"]) <=> m["degree"] = Blank("degree")
  <2>1. m["degree"] \in Int32Range
    BY InsertValues
  <2> QED BY <2>1, NumberIsProper DEF Numbers
<1>2. /\ 16 \in 1 .. 127 /\ Proper(16, m["type"])
      /\ Blanked(16, m["type"]) <=> m["type"] = Blank("type")
  <2>1. m["type"] \in Int32Range
    BY InsertValues
  <2> QED BY <2>1, NumberIsProper DEF Numbers
<1>3. /\ 26 \in 1 .. 127 /\ Proper(26, m["msg"])
      /\ Blanked(26, m["msg"]) <=> m["msg"] = Blank("msg")
  <2>1. m["msg"] \in Text
    BY InsertValues
  <2> QED BY <2>1, TextIsProper DEF Texts
<1> QED BY <1>1, <1>2, <1>3

LEMMA InsertNames ==
  /\ Ordered(InsertTags, InsertOrder, 3) /\ Names(InsertOrder, 3) = {"degree", "type", "msg"}
  /\ DOMAIN NoInsert = {"degree", "type", "msg"}
  /\ DOMAIN InsertOrder = 1 .. 3
  /\ InsertOrder[1] = "degree" /\ InsertTags["degree"] = 8 /\ NoInsert["degree"] = Blank("degree")
  /\ InsertOrder[2] = "type" /\ InsertTags["type"] = 16 /\ NoInsert["type"] = Blank("type")
  /\ InsertOrder[3] = "msg" /\ InsertTags["msg"] = 26 /\ NoInsert["msg"] = Blank("msg")
<1>1. DOMAIN InsertTags = {"degree", "type", "msg"} /\ DOMAIN NoInsert = {"degree", "type", "msg"}
  BY DEF InsertTags, NoInsert
<1>2. /\ DOMAIN InsertOrder = 1 .. 3
      /\ InsertOrder[1] = "degree"
      /\ InsertOrder[2] = "type"
      /\ InsertOrder[3] = "msg"
  BY DEF InsertOrder
<1>3. /\ InsertTags["degree"] = 8 /\ NoInsert["degree"] = Blank("degree")
      /\ InsertTags["type"] = 16 /\ NoInsert["type"] = Blank("type")
      /\ InsertTags["msg"] = 26 /\ NoInsert["msg"] = Blank("msg")
  BY DEF InsertTags, NoInsert, Blank
<1>4. 1 .. 3 = {1, 2, 3}
  OBVIOUS
<1>5. Names(InsertOrder, 3) = {"degree", "type", "msg"}
  BY <1>2, <1>4 DEF Names
<1>6. InsertOrder \in [1 .. 3 -> DOMAIN InsertTags]
  BY <1>1, <1>2, <1>4 DEF InsertOrder
<1>7. \A i, j \in 1 .. 3 : i # j => InsertOrder[i] # InsertOrder[j]
  BY <1>2, <1>4
<1>8. \A f, g \in DOMAIN InsertTags : f # g => InsertTags[f] # InsertTags[g]
  BY <1>1, <1>3
<1>9. Ordered(InsertTags, InsertOrder, 3)
  BY <1>6, <1>7, <1>8 DEF Ordered
<1> QED BY <1>1, <1>2, <1>3, <1>5, <1>9

LEMMA InsertCarried ==
  ASSUME NEW m \in MessagesOf(INSERT)
  PROVE  /\ SerializeInsert(m) \in Seq(Byte) /\ Short(Len(SerializeInsert(m)), 4)
         /\ InsertSize(m) = Len(SerializeInsert(m))
         /\ InsertOf(ParseInsert(CString(SerializeInsert(m)))) = ReadOf(InsertOrder, 3, m)
<1> DEFINE T == TagsOf(InsertTags, InsertOrder, 3)
           V == ValuesOf(InsertOrder, 3, m)
<1>1. /\ T[1] = 8 /\ V[1] = m["degree"]
      /\ T[2] = 16 /\ V[2] = m["type"]
      /\ T[3] = 26 /\ V[3] = m["msg"]
  BY InsertNames DEF TagsOf, ValuesOf
<1>2. /\ T[1] \in 1 .. 127 /\ Proper(T[1], V[1])
      /\ T[2] \in 1 .. 127 /\ Proper(T[2], V[2])
      /\ T[3] \in 1 .. 127 /\ Proper(T[3], V[3])
  BY <1>1, InsertProper
<1>3. OfKind(InsertTags, NoInsert, InsertOrder, 3, m)
  <2>1. \A f \in {"degree", "type", "msg"} :
          /\ InsertTags[f] \in 1 .. 127 /\ Proper(InsertTags[f], m[f])
          /\ NoInsert[f] = Blank(f)
          /\ Blanked(InsertTags[f], m[f]) <=> m[f] = Blank(f)
    BY InsertNames, InsertProper
  <2>2. 3 \in Nat \ {0}
    OBVIOUS
  <2> QED BY <2>1, <2>2, InsertNames DEF OfKind
<1>4. WriteInt32(1, m, "degree") = Code(T[1], V[1]) /\ Int32Size(m, "degree") = Len(Code(T[1], V[1]))
  <2>1. "degree" \in DOMAIN m /\ 1 \in 1 .. 15 /\ 8 * 1 = 8
    BY InsertValues
  <2>2. Proper(8 * 1, m["degree"])
    BY <2>1, InsertProper
  <2>3. WriteInt32(1, m, "degree") = Code(8 * 1, m["degree"]) /\ Int32Size(m, "degree") = Len(Code(8 * 1, m["degree"]))
    BY <2>1, <2>2, NumberWritten
  <2> QED BY <1>1, <2>1, <2>3
<1>5. WriteInt32(2, m, "type") = Code(T[2], V[2]) /\ Int32Size(m, "type") = Len(Code(T[2], V[2]))
  <2>1. "type" \in DOMAIN m /\ 2 \in 1 .. 15 /\ 8 * 2 = 16
    BY InsertValues
  <2>2. Proper(8 * 2, m["type"])
    BY <2>1, InsertProper
  <2>3. WriteInt32(2, m, "type") = Code(8 * 2, m["type"]) /\ Int32Size(m, "type") = Len(Code(8 * 2, m["type"]))
    BY <2>1, <2>2, NumberWritten
  <2> QED BY <1>1, <2>1, <2>3
<1>6. WriteString(3, m, "msg") = Code(T[3], V[3]) /\ StringSize(m, "msg") = Len(Code(T[3], V[3]))
  <2>1. "msg" \in DOMAIN m /\ 3 \in 1 .. 15 /\ 8 * 3 + 2 = 26
    BY InsertValues
  <2>2. Proper(8 * 3 + 2, m["msg"])
    BY <2>1, InsertProper
  <2>3. WriteString(3, m, "msg") = Code(8 * 3 + 2, m["msg"]) /\ StringSize(m, "msg") = Len(Code(8 * 3 + 2, m["msg"]))
    BY <2>1, <2>2, StringWritten
  <2> QED BY <1>1, <2>1, <2>3
<1>7. Properly(T, V, 3)
  <2>1. 1 .. 3 = {1, 2, 3}
    OBVIOUS
  <2> QED BY <1>2, <2>1 DEF Properly
<1> DEFINE d == Code(T[1], V[1]) \o Code(T[2], V[2]) \o Code(T[3], V[3])
<1>8. SerializeInsert(m) = d
  BY <1>4, <1>5, <1>6 DEF SerializeInsert
<1>9. IsLaid(d, 3, T, V) /\ d \in Seq(Byte)
      /\ Len(d) = Len(Code(T[1], V[1])) + Len(Code(T[2], V[2])) + Len(Code(T[3], V[3]))
  BY <1>7, ThreeLaid
<1>10. Short(Len(Code(T[1], V[1])), 1) /\ Short(Len(Code(T[2], V[2])), 1) /\ Short(Len(Code(T[3], V[3])), 1)
  BY <1>2, CodeShort
<1>11. Short(Len(d), 4)
  <2> HIDE DEF d
  <2> QED BY <1>9, <1>10, ShortSums
<1>12. InsertSize(m) = Len(d)
  <2>1. Len(Code(T[1], V[1])) \in Nat /\ Len(Code(T[2], V[2])) \in Nat /\ Len(Code(T[3], V[3])) \in Nat
    BY <1>10, ShortOnes
  <2> QED BY <2>1, <1>9, <1>4, <1>5, <1>6 DEF InsertSize
<1> HIDE DEF d, T, V
<1>13. Get(Fields(InsertTags, CString(d)), NoInsert) = ReadOf(InsertOrder, 3, m)
  <2>1. IsLaid(d, 3, TagsOf(InsertTags, InsertOrder, 3), ValuesOf(InsertOrder, 3, m))
    BY <1>9 DEF T, V
  <2> QED BY <2>1, <1>3, KindIsRead
<1> QED BY <1>8, <1>9, <1>11, <1>12, <1>13 DEF ParseInsert, InsertOf, InsertTags

-----------------------------------------------------------------------------
\* Fields of an answer, which a deletion is sent as, too.
RspTags == [ret |-> 8, msg |-> 18]
RspOrder == <<"ret", "msg">>

LEMMA RspValues ==
  ASSUME NEW m \in MessagesOf(DELETE)
  PROVE  /\ DOMAIN m = {"ret", "msg"}
         /\ m["ret"] \in Int32Range
         /\ m["msg"] \in Text
BY DEF MessagesOf, REGISTER, LOGIN, INSERT, DELETE, GETALL

LEMMA RspProper ==
  ASSUME NEW m \in MessagesOf(DELETE)
  PROVE  /\ 8 \in 1 .. 127 /\ Proper(8, m["ret"]) /\ (Blanked(8, m["ret"]) <=> m["ret"] = Blank("ret"))
         /\ 18 \in 1 .. 127 /\ Proper(18, m["msg"]) /\ (Blanked(18, m["msg"]) <=> m["msg"] = Blank("msg"))
<1>1. /\ 8 \in 1 .. 127 /\ Proper(8, m["ret"])
      /\ Blanked(8, m["ret"]) <=> m["ret"] = Blank("ret")
  <2>1. m["ret"] \in Int32Range
    BY RspValues
  <2> QED BY <2>1, NumberIsProper DEF Numbers
<1>2. /\ 18 \in 1 .. 127 /\ Proper(18, m["msg"])
      /\ Blanked(18, m["msg"]) <=> m["msg"] = Blank("msg")
  <2>1. m["msg"] \in Text
    BY RspValues
  <2> QED BY <2>1, TextIsProper DEF Texts
<1> QED BY <1>1, <1>2

LEMMA RspNames ==
  /\ Ordered(RspTags, RspOrder, 2) /\ Names(RspOrder, 2) = {"ret", "msg"}
  /\ DOMAIN NoRsp = {"ret", "msg"}
  /\ DOMAIN RspOrder = 1 .. 2
  /\ RspOrder[1] = "ret" /\ RspTags["ret"] = 8 /\ NoRsp["ret"] = Blank("ret")
  /\ RspOrder[2] = "msg" /\ RspTags["msg"] = 18 /\ NoRsp["msg"] = Blank("msg")
<1>1. DOMAIN RspTags = {"ret", "msg"} /\ DOMAIN NoRsp = {"ret", "msg"}
  BY DEF RspTags, NoRsp
<1>2. /\ DOMAIN RspOrder = 1 .. 2
      /\ RspOrder[1] = "ret"
      /\ RspOrder[2] = "msg"
  BY DEF RspOrder
<1>3. /\ RspTags["ret"] = 8 /\ NoRsp["ret"] = Blank("ret")
      /\ RspTags["msg"] = 18 /\ NoRsp["msg"] = Blank("msg")
  BY DEF RspTags, NoRsp, Blank
<1>4. 1 .. 2 = {1, 2}
  OBVIOUS
<1>5. Names(RspOrder, 2) = {"ret", "msg"}
  BY <1>2, <1>4 DEF Names
<1>6. RspOrder \in [1 .. 2 -> DOMAIN RspTags]
  BY <1>1, <1>2, <1>4 DEF RspOrder
<1>7. \A i, j \in 1 .. 2 : i # j => RspOrder[i] # RspOrder[j]
  BY <1>2, <1>4
<1>8. \A f, g \in DOMAIN RspTags : f # g => RspTags[f] # RspTags[g]
  BY <1>1, <1>3
<1>9. Ordered(RspTags, RspOrder, 2)
  BY <1>6, <1>7, <1>8 DEF Ordered
<1> QED BY <1>1, <1>2, <1>3, <1>5, <1>9

LEMMA RspCarried ==
  ASSUME NEW m \in MessagesOf(DELETE)
  PROVE  /\ SerializeRsp(m) \in Seq(Byte) /\ Short(Len(SerializeRsp(m)), 4)
         /\ RspSize(m) = Len(SerializeRsp(m))
         /\ RspOf(ParseRsp(CString(SerializeRsp(m)))) = ReadOf(RspOrder, 2, m)
<1> DEFINE T == TagsOf(RspTags, RspOrder, 2)
           V == ValuesOf(RspOrder, 2, m)
<1>1. /\ T[1] = 8 /\ V[1] = m["ret"]
      /\ T[2] = 18 /\ V[2] = m["msg"]
  BY RspNames DEF TagsOf, ValuesOf
<1>2. /\ T[1] \in 1 .. 127 /\ Proper(T[1], V[1])
      /\ T[2] \in 1 .. 127 /\ Proper(T[2], V[2])
  BY <1>1, RspProper
<1>3. OfKind(RspTags, NoRsp, RspOrder, 2, m)
  <2>1. \A f \in {"ret", "msg"} :
          /\ RspTags[f] \in 1 .. 127 /\ Proper(RspTags[f], m[f])
          /\ NoRsp[f] = Blank(f)
          /\ Blanked(RspTags[f], m[f]) <=> m[f] = Blank(f)
    BY RspNames, RspProper
  <2>2. 2 \in Nat \ {0}
    OBVIOUS
  <2> QED BY <2>1, <2>2, RspNames DEF OfKind
<1>4. WriteInt32(1, m, "ret") = Code(T[1], V[1]) /\ Int32Size(m, "ret") = Len(Code(T[1], V[1]))
  <2>1. "ret" \in DOMAIN m /\ 1 \in 1 .. 15 /\ 8 * 1 = 8
    BY RspValues
  <2>2. Proper(8 * 1, m["ret"])
    BY <2>1, RspProper
  <2>3. WriteInt32(1, m, "ret") = Code(8 * 1, m["ret"]) /\ Int32Size(m, "ret") = Len(Code(8 * 1, m["ret"]))
    BY <2>1, <2>2, NumberWritten
  <2> QED BY <1>1, <2>1, <2>3
<1>5. WriteString(2, m, "msg") = Code(T[2], V[2]) /\ StringSize(m, "msg") = Len(Code(T[2], V[2]))
  <2>1. "msg" \in DOMAIN m /\ 2 \in 1 .. 15 /\ 8 * 2 + 2 = 18
    BY RspValues
  <2>2. Proper(8 * 2 + 2, m["msg"])
    BY <2>1, RspProper
  <2>3. WriteString(2, m, "msg") = Code(8 * 2 + 2, m["msg"]) /\ StringSize(m, "msg") = Len(Code(8 * 2 + 2, m["msg"]))
    BY <2>1, <2>2, StringWritten
  <2> QED BY <1>1, <2>1, <2>3
<1>6. Properly(T, V, 2)
  <2>1. 1 .. 2 = {1, 2}
    OBVIOUS
  <2> QED BY <1>2, <2>1 DEF Properly
<1> DEFINE d == Code(T[1], V[1]) \o Code(T[2], V[2])
<1>7. SerializeRsp(m) = d
  BY <1>4, <1>5 DEF SerializeRsp
<1>8. IsLaid(d, 2, T, V) /\ d \in Seq(Byte)
      /\ Len(d) = Len(Code(T[1], V[1])) + Len(Code(T[2], V[2]))
  BY <1>6, TwoLaid
<1>9. Short(Len(Code(T[1], V[1])), 1) /\ Short(Len(Code(T[2], V[2])), 1)
  BY <1>2, CodeShort
<1>10. Short(Len(d), 4)
  <2> HIDE DEF d
  <2> QED BY <1>8, <1>9, ShortSums
<1>11. RspSize(m) = Len(d)
  <2>1. Len(Code(T[1], V[1])) \in Nat /\ Len(Code(T[2], V[2])) \in Nat
    BY <1>9, ShortOnes
  <2> QED BY <2>1, <1>8, <1>4, <1>5 DEF RspSize
<1> HIDE DEF d, T, V
<1>12. Get(Fields(RspTags, CString(d)), NoRsp) = ReadOf(RspOrder, 2, m)
  <2>1. IsLaid(d, 2, TagsOf(RspTags, RspOrder, 2), ValuesOf(RspOrder, 2, m))
    BY <1>8 DEF T, V
  <2> QED BY <2>1, <1>3, KindIsRead
<1> QED BY <1>7, <1>8, <1>10, <1>11, <1>12 DEF ParseRsp, RspOf, RspTags

-----------------------------------------------------------------------------
(* The header.                                                             *)

LEMMA TwoBytes ==
  ASSUME NEW x \in Byte, NEW y \in Byte
  PROVE  <<x, y>> \in Seq(Byte) /\ Len(<<x, y>>) = 2 /\ <<x, y>>[1] = x /\ <<x, y>>[2] = y
OBVIOUS

\* t is s and two bytes more.
Longer(t, s, x, y) ==
  /\ t \in Seq(Byte) /\ Len(t) = Len(s) + 2
  /\ \A i \in 1 .. Len(s) : t[i] = s[i]
  /\ t[Len(s) + 1] = x /\ t[Len(s) + 2] = y

LEMMA TwoMore ==
  ASSUME NEW s, NEW x, NEW y, s \in Seq(Byte), x \in Byte, y \in Byte
  PROVE  Longer(s \o <<x, y>>, s, x, y)
<1> DEFINE t == <<x, y>>
<1>1. t \in Seq(Byte) /\ Len(t) = 2 /\ t[1] = x /\ t[2] = y
  BY TwoBytes
<1> HIDE DEF t
<1>2. /\ s \o t \in Seq(Byte) /\ Len(s \o t) = Len(s) + Len(t)
      /\ Len(s) \in Nat
      /\ \A i \in 1 .. Len(s) : (s \o t)[i] = s[i]
      /\ \A i \in 1 .. Len(t) : (s \o t)[Len(s) + i] = t[i]
  BY <1>1, BytesConcat
<1>3. (s \o t)[Len(s) + 1] = t[1] /\ (s \o t)[Len(s) + 2] = t[2]
  BY <1>1, <1>2
<1>4. Longer(s \o t, s, x, y)
  BY <1>1, <1>2, <1>3 DEF Longer
<1> QED BY <1>4 DEF t

LEMMA ZeroIsByte == 0 \in Byte
BY DEF Byte

\* A header: two bytes each for the low half of the length, the command and
\* the high half.
IsHeader(h, a, b, c, d, e, f) ==
  /\ h \in Seq(Byte) /\ Len(h) = 16
  /\ h[1] = a /\ h[2] = b /\ h[5] = c /\ h[6] = d /\ h[13] = e /\ h[14] = f

LEMMA HeaderBytes ==
  ASSUME NEW a \in Byte, NEW b \in Byte, NEW c \in Byte, NEW d \in Byte, NEW e \in Byte, NEW f \in Byte
  PROVE  IsHeader(<<a, b>> \o <<0, 0>> \o <<c, d>> \o <<0, 0>> \o <<0, 0, 0, 0>> \o <<e, f>> \o <<0, 0>>,
                  a, b, c, d, e, f)
<1> DEFINE h1 == <<a, b>>
           h2 == h1 \o <<0, 0>>
           h3 == h2 \o <<c, d>>
           h4 == h3 \o <<0, 0>>
           z == <<0, 0, 0, 0>>
           h5 == h4 \o z
           h6 == h5 \o <<e, f>>
           h7 == h6 \o <<0, 0>>
<1>1. h1 \in Seq(Byte) /\ Len(h1) = 2 /\ h1[1] = a /\ h1[2] = b
  BY TwoBytes
<1> HIDE DEF h1
<1>2. h2 \in Seq(Byte) /\ Len(h2) = 4 /\ \A i \in 1 .. 2 : h2[i] = h1[i]
  <2>1. Longer(h2, h1, 0, 0)
    BY <1>1, ZeroIsByte, TwoMore
  <2> HIDE DEF h2
  <2> QED BY <1>1, <2>1 DEF Longer
<1> HIDE DEF h2
<1>3. h3 \in Seq(Byte) /\ Len(h3) = 6 /\ h3[5] = c /\ h3[6] = d /\ \A i \in 1 .. 4 : h3[i] = h2[i]
  <2>1. Longer(h3, h2, c, d)
    BY <1>2, ZeroIsByte, TwoMore
  <2> HIDE DEF h3
  <2> QED BY <1>2, <2>1 DEF Longer
<1> HIDE DEF h3
<1>4. h4 \in Seq(Byte) /\ Len(h4) = 8 /\ \A i \in 1 .. 6 : h4[i] = h3[i]
  <2>1. Longer(h4, h3, 0, 0)
    BY <1>3, ZeroIsByte, TwoMore
  <2> HIDE DEF h4
  <2> QED BY <1>3, <2>1 DEF Longer
<1>z. z \in Seq(Byte) /\ Len(z) = 4
  BY ZeroIsByte
<1> HIDE DEF h4, z
<1>5. h5 \in Seq(Byte) /\ Len(h5) = 12 /\ \A i \in 1 .. 8 : h5[i] = h4[i]
  <2>1. /\ h5 \in Seq(Byte) /\ Len(h5) = Len(h4) + Len(z)
        /\ \A i \in 1 .. Len(h4) : h5[i] = h4[i]
    BY <1>4, <1>z, BytesConcat
  <2> HIDE DEF h5
  <2> QED BY <1>4, <1>z, <2>1
<1> HIDE DEF h5
<1>6. h6 \in Seq(Byte) /\ Len(h6) = 14 /\ h6[13] = e /\ h6[14] = f /\ \A i \in 1 .. 12 : h6[i] = h5[i]
  <2>1. Longer(h6, h5, e, f)
    BY <1>5, ZeroIsByte, TwoMore
  <2> HIDE DEF h6
  <2> QED BY <1>5, <2>1 DEF Longer
<1> HIDE DEF h6
<1>7. h7 \in Seq(Byte) /\ Len(h7) = 16 /\ \A i \in 1 .. 14 : h7[i] = h6[i]
  <2>1. Longer(h7, h6, 0, 0)
    BY <1>6, ZeroIsByte, TwoMore
  <2> HIDE DEF h7
  <2> QED BY <1>6, <2>1 DEF Longer
<1> HIDE DEF h7
<1>8. h7[1] = a /\ h7[2] = b
  BY <1>1, <1>2, <1>3, <1>4, <1>5, <1>6, <1>7
<1>9. h7[5] = c /\ h7[6] = d
  BY <1>3, <1>4, <1>5, <1>6, <1>7
<1>10. h7[13] = e /\ h7[14] = f
  BY <1>6, <1>7
<1>11. IsHeader(h7, a, b, c, d, e, f)
  BY <1>7, <1>8, <1>9, <1>10 DEF IsHeader
<1> QED BY <1>11 DEF h7, h6, h5, z, h4, h3, h2, h1

\* A length that the header can hold.
Long(n) == n \in Nat /\ n < 4294967296

LEMMA Half ==
  ASSUME NEW n \in Nat, n < 65536
  PROVE  /\ (n \div 256) % 256 \in Byte /\ n % 256 \in Byte
         /\ (((n \div 256) % 256) * 256) + (n % 256) = n
<1>1. n \div 256 \in Nat /\ n \div 256 < 256
  BY SMT
<1>2. (n \div 256) % 256 = n \div 256
  BY SMT, <1>1
<1>3. n % 256 \in 0 .. 255
  BY SMT
<1>4. ((n \div 256) * 256) + (n % 256) = n
  BY SMT
<1> QED BY SMT, <1>1, <1>2, <1>3, <1>4 DEF Byte

LEMMA Halves ==
  ASSUME NEW n, Long(n)
  PROVE  /\ n % 65536 \in Nat /\ n % 65536 < 65536
         /\ n \div 65536 \in Nat /\ n \div 65536 < 65536
         /\ (n % 65536) + (65536 * (n \div 65536)) = n
<1>1. n \in Nat /\ n < 4294967296
  BY SMT DEF Long
<1>2. n % 65536 \in Nat /\ n % 65536 < 65536
  BY SMT, <1>1
<1>3. n \div 65536 \in Nat /\ n \div 65536 < 65536
  BY SMT, <1>1
<1>4. (n % 65536) + (65536 * (n \div 65536)) = n
  BY SMT, <1>1
<1> QED BY SMT, <1>2, <1>3, <1>4

\* The requests that are sent.
Commands == {REGISTER, LOGIN, GETALL, INSERT, DELETE}

LEMMA HeaderIs ==
  ASSUME NEW cmd \in Commands, NEW len, Long(len)
  PROVE  /\ Header(cmd, len) \in Seq(Byte) /\ Len(Header(cmd, len)) = 16
         /\ PackLen(Header(cmd, len)) = len
         /\ Cmd(Header(cmd, len)) = cmd
<1> DEFINE h == Header(cmd, len)
           a == ((len % 65536) \div 256) % 256
           b == (len % 65536) % 256
           c == (cmd \div 256) % 256
           d == cmd % 256
           e == ((len \div 65536) \div 256) % 256
           f == (len \div 65536) % 256
<1>1. /\ a \in Byte /\ b \in Byte /\ e \in Byte /\ f \in Byte
      /\ (a * 256 + b) + 65536 * (e * 256 + f) = len
  <2> DEFINE l == len % 65536
             k == len \div 65536
  <2>1. l \in Nat /\ l < 65536 /\ k \in Nat /\ k < 65536 /\ l + (65536 * k) = len
    BY SMT, Halves
  <2> HIDE DEF l, k
  <2>2. a \in Byte /\ b \in Byte /\ a * 256 + b = l
    BY SMT, <2>1, Half DEF l
  <2>3. e \in Byte /\ f \in Byte /\ e * 256 + f = k
    BY SMT, <2>1, Half DEF k
  <2> HIDE DEF a, b, e, f
  <2> QED BY SMT, <2>1, <2>2, <2>3
<1>2. c \in Byte /\ d \in Byte /\ c * 256 + d = cmd
  BY SMT DEF Commands, REGISTER, LOGIN, GETALL, INSERT, DELETE, Byte
<1>3. h = <<a, b>> \o <<0, 0>> \o <<c, d>> \o <<0, 0>> \o <<0, 0, 0, 0>> \o <<e, f>> \o <<0, 0>>
  BY SMT DEF Header, Net16
<1> HIDE DEF a, b, c, d, e, f, h
<1>4. IsHeader(h, a, b, c, d, e, f)
  BY SMT, <1>1, <1>2, <1>3, HeaderBytes
<1>5. PackLen(h) = (a * 256 + b) + 65536 * (e * 256 + f) /\ Cmd(h) = c * 256 + d
  BY SMT, <1>4, <1>1, <1>2 DEF IsHeader, PackLen, Cmd, Byte
<1> QED BY SMT, <1>1, <1>2, <1>4, <1>5 DEF h, IsHeader

-----------------------------------------------------------------------------
(* Packets: what is sent is what is read.                                  *)

\* A header that tells the length, and the command.
IsPacket(p, cmd) ==
  p \in Seq(Byte) /\ Len(p) >= 16 /\ PackLen(p) = Len(p) /\ Cmd(p) = cmd

LEMMA LongEnough ==
  ASSUME NEW n, Short(n, 4)
  PROVE  Long(HeadLen + n)
BY SMT DEF Short, Long, HeadLen

LEMMA SameHeader ==
  ASSUME NEW p, NEW b, \A i \in 1 .. 16 : b[i] = p[i]
  PROVE  PackLen(b) = PackLen(p) /\ Cmd(b) = Cmd(p)
<1>1. b[1] = p[1] /\ b[2] = p[2] /\ b[5] = p[5] /\ b[6] = p[6] /\ b[13] = p[13] /\ b[14] = p[14]
  OBVIOUS
<1> QED BY SMT, <1>1 DEF PackLen, Cmd

LEMMA PacketIs ==
  ASSUME NEW cmd \in Commands, NEW body \in Seq(Byte), NEW size, size = Len(body), Short(size, 4)
  PROVE  /\ IsPacket(Packet(cmd, body, size), cmd)
         /\ Body(Packet(cmd, body, size)) = CString(body)
<1> DEFINE h == Header(cmd, HeadLen + size)
           p == h \o body
<1>1. Len(body) \in Nat /\ SubSeq(body, 1, Len(body)) = body
  OBVIOUS
<1>2. h \in Seq(Byte) /\ Len(h) = 16 /\ PackLen(h) = HeadLen + size /\ Cmd(h) = cmd
  BY LongEnough, HeaderIs
<1>3. Packet(cmd, body, size) = p
  BY <1>1 DEF Packet
<1> HIDE DEF h
<1>4. /\ p \in Seq(Byte) /\ Len(p) = Len(h) + Len(body)
      /\ \A i \in 1 .. Len(h) : p[i] = h[i]
      /\ \A i \in 1 .. Len(body) : p[Len(h) + i] = body[i]
  BY <1>2, BytesConcat
<1> HIDE DEF p
<1>5. Len(p) = 16 + size /\ HeadLen + size = 16 + size
  BY <1>2, <1>4 DEF HeadLen
<1>6. PackLen(p) = PackLen(h) /\ Cmd(p) = Cmd(h)
  <2>1. \A i \in 1 .. 16 : p[i] = h[i]
    BY <1>2, <1>4
  <2> QED BY <2>1, SameHeader
<1>7. IsPacket(p, cmd)
  BY <1>1, <1>2, <1>4, <1>5, <1>6 DEF IsPacket
<1>8. SubSeq(p, HeadLen + 1, Len(p)) = body
  <2> DEFINE s == SubSeq(p, 17, 16 + size)
  <2>1. s \in Seq(Byte) /\ Len(s) = size /\ \A i \in 1 .. size : s[i] = p[16 + i]
    BY <1>1, <1>4, <1>5
  <2> HIDE DEF s
  <2>2. \A i \in 1 .. size : s[i] = body[i]
    BY <2>1, <1>2, <1>4
  <2>3. s = body
    BY <2>1, <2>2, SeqEqual
  <2>4. HeadLen + 1 = 17
    BY DEF HeadLen
  <2> QED BY <2>3, <2>4, <1>5 DEF s
<1> QED BY <1>3, <1>7, <1>8 DEF Body

-----------------------------------------------------------------------------
\* A request with what a dialog may put into it.
IsRequest(r) == r.cmd \in Commands /\ r \in [cmd : {r.cmd}, msg : MessagesOf(r.cmd)]

LEMMA AsSentIs ==
  ASSUME NEW r, IsRequest(r), NEW o, NEW n, o = Order(r.cmd), o # <<>>, DOMAIN o = 1 .. n
  PROVE  AsSent(r) = [cmd |-> r.cmd, msg |-> ReadOf(o, n, r.msg)]
<1> DEFINE cut == {i \in DOMAIN o : r.msg[o[i]] = Blank(o[i])}
           kept(f) == \E i \in DOMAIN o : o[i] = f /\ \A j \in cut : i < j
           x == [f \in ToSet(o) |-> IF kept(f) THEN r.msg[f] ELSE Blank(f)]
<1>1. AsSent(r) = [r EXCEPT !.msg = x]
  BY DEF AsSent
<1>2. r = [cmd |-> r.cmd, msg |-> r.msg]
  BY DEF IsRequest
<1>3. cut = Cuts(o, n, r.msg)
  BY DEF Cuts
<1>4. \A f : kept(f) <=> Kept(o, n, r.msg, f)
  BY <1>3 DEF Kept
<1>5. ToSet(o) = Names(o, n)
  BY DEF ToSet, Names
<1>6. x = ReadOf(o, n, r.msg)
  BY <1>4, <1>5 DEF ReadOf
<1> HIDE DEF x
<1>7. AsSent(r) = [cmd |-> r.cmd, msg |-> x]
  BY <1>1, <1>2
<1> QED BY <1>6, <1>7

LEMMA CommandsDiffer ==
  /\ REGISTER # LOGIN /\ REGISTER # INSERT /\ REGISTER # DELETE /\ REGISTER # GETALL
  /\ LOGIN # INSERT /\ LOGIN # DELETE /\ LOGIN # GETALL
  /\ INSERT # DELETE /\ INSERT # GETALL /\ DELETE # GETALL
BY DEF REGISTER, LOGIN, INSERT, DELETE, GETALL

LEMMA OrderIs ==
  /\ Order(REGISTER) = RegisterOrder /\ RegisterOrder # <<>>
  /\ Order(LOGIN) = LoginOrder /\ LoginOrder # <<>>
  /\ Order(INSERT) = InsertOrder /\ InsertOrder # <<>>
  /\ Order(DELETE) = RspOrder /\ RspOrder # <<>>
BY CommandsDiffer DEF Order, RegisterOrder, LoginOrder, InsertOrder, RspOrder

LEMMA NothingShort == Short(Len(<<>>), 4) /\ Len(<<>>) = 0 /\ CString(<<>>) = <<>>
<1>1. Len(<<>>) = 0
  OBVIOUS
<1>2. Short(Len(<<>>), 4)
  BY SMT, <1>1 DEF Short
<1>3. CString(<<>>) = <<>>
  BY DEF CString
<1> QED BY <1>1, <1>2, <1>3

\* Whatever a dialog, test.cpp or tress.cpp puts into a request, the handler
\* reads it from the packet, up to the first field that is zero or empty, and
\* the packet tells its own length (_InternalSerialize, ByteSizeLong,
\* PDUHEADtag, GetBody, _InternalParse).
THEOREM RequestCarried ==
  ASSUME NEW r, IsRequest(r)
  PROVE  IsPacket(PacketOf(r), r.cmd) /\ RequestOf(PacketOf(r)) = AsSent(r)
<1>0. r.cmd \in Commands /\ r.msg \in MessagesOf(r.cmd) /\ r = [cmd |-> r.cmd, msg |-> r.msg]
  BY DEF IsRequest
<1> DEFINE m == r.msg
           p == PacketOf(r)
<1>1. CASE r.cmd = REGISTER
  <2>1. m \in MessagesOf(REGISTER) /\ REGISTER \in Commands
    BY <1>0, <1>1
  <2>2. p = Packet(REGISTER, SerializeRegister(m), RegisterSize(m))
    BY <1>1, CommandsDiffer DEF PacketOf, RegisterPacket
  <2> HIDE DEF m, p
  <2>3. /\ SerializeRegister(m) \in Seq(Byte) /\ RegisterSize(m) = Len(SerializeRegister(m))
        /\ Short(Len(SerializeRegister(m)), 4)
        /\ RegisterOf(ParseRegister(CString(SerializeRegister(m)))) = ReadOf(RegisterOrder, 4, m)
    BY <2>1, RegisterCarried
  <2>4. IsPacket(p, REGISTER) /\ Body(p) = CString(SerializeRegister(m))
    BY <2>1, <2>2, <2>3, PacketIs
  <2>5. RequestOf(p) = [cmd |-> REGISTER, msg |-> ReadOf(RegisterOrder, 4, m)]
    <3>1. Cmd(p) = REGISTER
      BY <2>4 DEF IsPacket
    <3> QED BY <2>3, <2>4, <3>1, CommandsDiffer DEF RequestOf
  <2>6. AsSent(r) = [cmd |-> REGISTER, msg |-> ReadOf(RegisterOrder, 4, m)]
    <3>1. Order(r.cmd) = RegisterOrder /\ RegisterOrder # <<>> /\ DOMAIN RegisterOrder = 1 .. 4
      BY <1>1, OrderIs, RegisterNames
    <3> QED BY <1>1, <3>1, AsSentIs DEF m
  <2> QED BY <1>1, <2>4, <2>5, <2>6 DEF p
<1>2. CASE r.cmd = LOGIN
  <2>1. m \in MessagesOf(LOGIN) /\ LOGIN \in Commands
    BY <1>0, <1>2
  <2>2. p = Packet(LOGIN, SerializeLogin(m), LoginSize(m))
    BY <1>2, CommandsDiffer DEF PacketOf, LoginPacket
  <2> HIDE DEF m, p
  <2>3. /\ SerializeLogin(m) \in Seq(Byte) /\ LoginSize(m) = Len(SerializeLogin(m))
        /\ Short(Len(SerializeLogin(m)), 4)
        /\ LoginOf(ParseLogin(CString(SerializeLogin(m)))) = ReadOf(LoginOrder, 3, m)
    BY <2>1, LoginCarried
  <2>4. IsPacket(p, LOGIN) /\ Body(p) = CString(SerializeLogin(m))
    BY <2>1, <2>2, <2>3, PacketIs
  <2>5. RequestOf(p) = [cmd |-> LOGIN, msg |-> ReadOf(LoginOrder, 3, m)]
    <3>1. Cmd(p) = LOGIN
      BY <2>4 DEF IsPacket
    <3> QED BY <2>3, <2>4, <3>1, CommandsDiffer DEF RequestOf
  <2>6. AsSent(r) = [cmd |-> LOGIN, msg |-> ReadOf(LoginOrder, 3, m)]
    <3>1. Order(r.cmd) = LoginOrder /\ LoginOrder # <<>> /\ DOMAIN LoginOrder = 1 .. 3
      BY <1>2, OrderIs, LoginNames
    <3> QED BY <1>2, <3>1, AsSentIs DEF m
  <2> QED BY <1>2, <2>4, <2>5, <2>6 DEF p
<1>3. CASE r.cmd = INSERT
  <2>1. m \in MessagesOf(INSERT) /\ INSERT \in Commands
    BY <1>0, <1>3
  <2>2. p = Packet(INSERT, SerializeInsert(m), InsertSize(m))
    BY <1>3, CommandsDiffer DEF PacketOf, InsertPacket
  <2> HIDE DEF m, p
  <2>3. /\ SerializeInsert(m) \in Seq(Byte) /\ InsertSize(m) = Len(SerializeInsert(m))
        /\ Short(Len(SerializeInsert(m)), 4)
        /\ InsertOf(ParseInsert(CString(SerializeInsert(m)))) = ReadOf(InsertOrder, 3, m)
    BY <2>1, InsertCarried
  <2>4. IsPacket(p, INSERT) /\ Body(p) = CString(SerializeInsert(m))
    BY <2>1, <2>2, <2>3, PacketIs
  <2>5. RequestOf(p) = [cmd |-> INSERT, msg |-> ReadOf(InsertOrder, 3, m)]
    <3>1. Cmd(p) = INSERT
      BY <2>4 DEF IsPacket
    <3> QED BY <2>3, <2>4, <3>1, CommandsDiffer DEF RequestOf
  <2>6. AsSent(r) = [cmd |-> INSERT, msg |-> ReadOf(InsertOrder, 3, m)]
    <3>1. Order(r.cmd) = InsertOrder /\ InsertOrder # <<>> /\ DOMAIN InsertOrder = 1 .. 3
      BY <1>3, OrderIs, InsertNames
    <3> QED BY <1>3, <3>1, AsSentIs DEF m
  <2> QED BY <1>3, <2>4, <2>5, <2>6 DEF p
<1>4. CASE r.cmd = DELETE
  <2>1. m \in MessagesOf(DELETE) /\ DELETE \in Commands
    BY <1>0, <1>4
  <2>2. p = Packet(DELETE, SerializeRsp(m), RspSize(m))
    BY <1>4, CommandsDiffer DEF PacketOf, DeletePacket
  <2> HIDE DEF m, p
  <2>3. /\ SerializeRsp(m) \in Seq(Byte) /\ RspSize(m) = Len(SerializeRsp(m))
        /\ Short(Len(SerializeRsp(m)), 4)
        /\ RspOf(ParseRsp(CString(SerializeRsp(m)))) = ReadOf(RspOrder, 2, m)
    BY <2>1, RspCarried
  <2>4. IsPacket(p, DELETE) /\ Body(p) = CString(SerializeRsp(m))
    BY <2>1, <2>2, <2>3, PacketIs
  <2>5. RequestOf(p) = [cmd |-> DELETE, msg |-> ReadOf(RspOrder, 2, m)]
    <3>1. Cmd(p) = DELETE
      BY <2>4 DEF IsPacket
    <3> QED BY <2>3, <2>4, <3>1, CommandsDiffer DEF RequestOf
  <2>6. AsSent(r) = [cmd |-> DELETE, msg |-> ReadOf(RspOrder, 2, m)]
    <3>1. Order(r.cmd) = RspOrder /\ RspOrder # <<>> /\ DOMAIN RspOrder = 1 .. 2
      BY <1>4, OrderIs, RspNames
    <3> QED BY <1>4, <3>1, AsSentIs DEF m
  <2> QED BY <1>4, <2>4, <2>5, <2>6 DEF p
<1>5. CASE r.cmd = GETALL
  <2>1. p = Packet(GETALL, <<>>, 0) /\ GETALL \in Commands
    BY <1>0, <1>5, CommandsDiffer DEF PacketOf, GetAllPacket
  <2>2. m = <<>>
    BY <1>0, <1>5, CommandsDiffer DEF MessagesOf
  <2> HIDE DEF m, p
  <2>3. IsPacket(p, GETALL)
    BY <2>1, NothingShort, NoBytes, PacketIs
  <2>4. RequestOf(p) = [cmd |-> GETALL, msg |-> <<>>]
    <3>1. Cmd(p) = GETALL
      BY <2>3 DEF IsPacket
    <3> QED BY <3>1, CommandsDiffer DEF RequestOf
  <2>5. AsSent(r) = [cmd |-> GETALL, msg |-> <<>>]
    <3>1. Order(r.cmd) = <<>>
      BY <1>5, CommandsDiffer DEF Order
    <3>2. AsSent(r) = [r EXCEPT !.msg = <<>>]
      BY <3>1 DEF AsSent
    <3> QED BY <1>0, <1>5, <3>2
  <2> QED BY <1>5, <2>3, <2>4, <2>5 DEF p
<1> QED BY <1>0, <1>1, <1>2, <1>3, <1>4, <1>5 DEF Commands

LEMMA WholeAnswer ==
  ASSUME NEW a \in [ret : Int32Range \ {0}, msg : Text]
  PROVE  a \in MessagesOf(DELETE) /\ ReadOf(RspOrder, 2, a) = a
<1>1. a \in MessagesOf(DELETE)
  BY CommandsDiffer DEF MessagesOf
<1>2. a = [f \in {"ret", "msg"} |-> a[f]]
  OBVIOUS
<1>3. Blank("ret") = 0 /\ a["ret"] # 0
  BY DEF Blank
<1>4. /\ RspOrder[1] = "ret" /\ RspOrder[2] = "msg" /\ Names(RspOrder, 2) = {"ret", "msg"}
  BY RspNames
<1>5. Cuts(RspOrder, 2, a) \subseteq {2}
  <2>1. \A i \in 1 .. 2 : i = 1 \/ i = 2
    OBVIOUS
  <2>2. 1 \notin Cuts(RspOrder, 2, a)
    BY <1>3, <1>4 DEF Cuts
  <2> QED BY <2>1, <2>2 DEF Cuts
<1>6. Kept(RspOrder, 2, a, "ret")
  <2>1. 1 \in 1 .. 2 /\ \A j \in Cuts(RspOrder, 2, a) : 1 < j
    BY <1>5
  <2> QED BY <2>1, <1>4 DEF Kept
<1>7. Kept(RspOrder, 2, a, "msg") \/ a["msg"] = Blank("msg")
  <2>1. CASE Cuts(RspOrder, 2, a) = {}
    <3>1. 2 \in 1 .. 2
      OBVIOUS
    <3> QED BY <2>1, <3>1, <1>4 DEF Kept
  <2>2. CASE Cuts(RspOrder, 2, a) # {}
    <3>1. 2 \in Cuts(RspOrder, 2, a)
      BY <2>2, <1>5
    <3> QED BY <3>1, <1>4 DEF Cuts
  <2> QED BY <2>1, <2>2
<1>8. ReadOf(RspOrder, 2, a) = [f \in {"ret", "msg"} |-> a[f]]
  BY <1>4, <1>6, <1>7 DEF ReadOf
<1> QED BY <1>1, <1>2, <1>8

\* The client reads every answer as SendResult (control.cpp:9-22) wrote it: ret
\* is never zero, so nothing of it is cut off.
THEOREM AnswerCarried ==
  ASSUME NEW a \in Answers, NEW cmd \in Commands
  PROVE  IsPacket(SendResult(cmd, a), cmd) /\ Answer(SendResult(cmd, a)) = a
<1>1. a \in [ret : Int32Range \ {0}, msg : Text]
  BY StreamAssumption
<1>2. /\ SerializeRsp(a) \in Seq(Byte) /\ RspSize(a) = Len(SerializeRsp(a))
      /\ Short(Len(SerializeRsp(a)), 4)
      /\ RspOf(ParseRsp(CString(SerializeRsp(a)))) = ReadOf(RspOrder, 2, a)
  BY <1>1, WholeAnswer, RspCarried
<1> DEFINE p == SendResult(cmd, a)
<1>3. IsPacket(p, cmd) /\ Body(p) = CString(SerializeRsp(a))
  BY <1>2, PacketIs DEF SendResult
<1>4. Answer(p) = a
  BY <1>1, <1>2, <1>3, WholeAnswer DEF Answer
<1> QED BY <1>3, <1>4

-----------------------------------------------------------------------------
(* Packets behind each other.                                              *)

Joins(f, s, n) == f = [i \in 1 .. n |-> IF i = 1 THEN s[i] ELSE f[i - 1] \o s[i]]

\* The function by which FlattenSeq is defined.
JoinOf(s) == CHOOSE f : Joins(f, s, Len(s))

LEMMA FlattenIs ==
  ASSUME NEW s
  PROVE  /\ Len(s) = 0 => FlattenSeq(s) = s
         /\ Len(s) # 0 => FlattenSeq(s) = JoinOf(s)[Len(s)]
BY DEF FlattenSeq, JoinOf, Joins

LEMMA JoinExists ==
  ASSUME NEW s, NEW n \in Nat
  PROVE  \E f : Joins(f, s, n)
<1> DEFINE No == {m \in Nat : ~\E f : Joins(f, s, m)}
<1>1. ASSUME NEW m \in No PROVE \E l \in No : l < m
  <2>1. CASE m = 0
    <3> DEFINE f == [i \in 1 .. 0 |-> s[i]]
    <3>1. Joins(f, s, 0)
      BY DEF Joins
    <3> QED BY <2>1, <3>1
  <2>2. CASE m > 0 /\ m - 1 \notin No
    <3>1. m - 1 \in Nat
      BY <2>2
    <3>2. PICK g : Joins(g, s, m - 1)
      BY <2>2, <3>1
    <3> DEFINE f == [i \in 1 .. m |-> IF i = 1 THEN s[i] ELSE g[i - 1] \o s[i]]
    <3>3. \A i \in 1 .. m - 1 : g[i] = IF i = 1 THEN s[i] ELSE g[i - 1] \o s[i]
      BY <3>2 DEF Joins
    <3>4. \A i \in 1 .. m - 1 : f[i] = g[i]
      BY <3>1, <3>3
    <3>5. \A i \in 1 .. m : i # 1 => i - 1 \in 1 .. m - 1
      BY <3>1
    <3>6. \A i \in 1 .. m : i # 1 => f[i - 1] = g[i - 1]
      BY <3>4, <3>5
    <3>7. Joins(f, s, m)
      BY <3>6 DEF Joins
    <3> QED BY <3>7
  <2> QED BY <2>1, <2>2
<1>2. No = {}
  <2>1. No \subseteq Nat
    OBVIOUS
  <2> HIDE DEF No
  <2> QED BY <1>1, <2>1, Descent
<1> QED BY <1>2

LEMMA JoinsAgree ==
  ASSUME NEW s, NEW t, NEW m \in Nat, NEW n \in Nat, m <= n, NEW f, NEW g,
         Joins(f, s, m), Joins(g, t, n), \A i \in 1 .. m : s[i] = t[i]
  PROVE  \A i \in 1 .. m : f[i] = g[i]
<1> DEFINE No == {i \in 1 .. m : f[i] # g[i]}
<1>1. \A i \in 1 .. m : f[i] = IF i = 1 THEN s[i] ELSE f[i - 1] \o s[i]
  BY DEF Joins
<1>2. \A i \in 1 .. m : g[i] = IF i = 1 THEN s[i] ELSE g[i - 1] \o s[i]
  <2>1. \A i \in 1 .. n : g[i] = IF i = 1 THEN t[i] ELSE g[i - 1] \o t[i]
    BY DEF Joins
  <2> QED BY <2>1
<1>3. ASSUME NEW i \in No PROVE \E l \in No : l < i
  <2>1. i # 1
    BY <1>1, <1>2
  <2>2. i - 1 \in 1 .. m /\ i - 1 < i
    BY <2>1
  <2>3. f[i - 1] # g[i - 1]
    BY <2>1, <1>1, <1>2
  <2> QED BY <2>2, <2>3
<1>4. No \subseteq Nat
  OBVIOUS
<1>5. No = {}
  <2> HIDE DEF No
  <2> QED BY <1>3, <1>4, Descent
<1> QED BY <1>5

LEMMA FlattenMore ==
  ASSUME NEW s, NEW t, NEW n \in Nat, Len(s) = n, Len(t) = n + 1, \A i \in 1 .. n : s[i] = t[i]
  PROVE  /\ n = 0 => FlattenSeq(t) = t[1]
         /\ n # 0 => FlattenSeq(t) = FlattenSeq(s) \o t[n + 1]
<1>1. Joins(JoinOf(s), s, n)
  BY JoinExists DEF JoinOf
<1>2. Joins(JoinOf(t), t, n + 1)
  BY JoinExists DEF JoinOf
<1>3. FlattenSeq(t) = JoinOf(t)[n + 1]
  BY FlattenIs
<1>4. n # 0 => FlattenSeq(s) = JoinOf(s)[n]
  BY FlattenIs
<1>5. \A i \in 1 .. n + 1 : JoinOf(t)[i] = IF i = 1 THEN t[i] ELSE JoinOf(t)[i - 1] \o t[i]
  BY <1>2 DEF Joins
<1>6. CASE n = 0
  BY <1>3, <1>5, <1>6
<1>7. CASE n # 0
  <2>1. JoinOf(t)[n + 1] = JoinOf(t)[(n + 1) - 1] \o t[n + 1] /\ (n + 1) - 1 = n
    <3> DEFINE m == n + 1
    <3>1. m \in 1 .. n + 1 /\ m # 1 /\ m - 1 = n
      BY <1>7
    <3> HIDE DEF m
    <3>2. JoinOf(t)[m] = JoinOf(t)[m - 1] \o t[m]
      BY <3>1, <1>5
    <3> QED BY <3>1, <3>2 DEF m
  <2>2. JoinOf(s)[n] = JoinOf(t)[n]
    <3>1. n \in 1 .. n /\ n <= n + 1 /\ n + 1 \in Nat
      BY <1>7
    <3> QED BY <1>1, <1>2, <3>1, JoinsAgree
  <2> QED BY <1>3, <1>4, <1>7, <2>1, <2>2
<1> QED BY <1>6, <1>7

(***************************************************************************)
(* The requests k + 1 to n of s, one packet after the other.               *)
(***************************************************************************)
Joined(s, k, n) == FlattenSeq([i \in 1 .. n - k |-> PacketOf(s[k + i])])

\* The first n of s are requests.
Asked(s, n) == \A i \in 1 .. n : IsRequest(s[i])

LEMMA PacketBytes ==
  ASSUME NEW s, NEW n, Asked(s, n), NEW i \in 1 .. n
  PROVE  /\ PacketOf(s[i]) \in Seq(Byte) /\ Len(PacketOf(s[i])) \in Nat
         /\ Len(PacketOf(s[i])) >= 16 /\ PackLen(PacketOf(s[i])) = Len(PacketOf(s[i]))
<1> DEFINE p == PacketOf(s[i])
<1>1. IsPacket(p, s[i].cmd)
  BY RequestCarried DEF Asked
<1> HIDE DEF p
<1>2. p \in Seq(Byte) /\ Len(p) >= 16 /\ PackLen(p) = Len(p)
  BY <1>1 DEF IsPacket
<1>3. Len(p) \in Nat
  BY <1>2
<1> QED BY <1>2, <1>3 DEF p

LEMMA JoinedNone ==
  ASSUME NEW s, NEW n \in Nat
  PROVE  Joined(s, n, n) = <<>>
<1> DEFINE t == [i \in 1 .. n - n |-> PacketOf(s[n + i])]
<1>1. t = <<>>
  OBVIOUS
<1>2. Len(<<>>) = 0
  OBVIOUS
<1> HIDE DEF t
<1> QED BY <1>1, <1>2, FlattenIs DEF Joined, t

LEMMA JoinedMore ==
  ASSUME NEW s, NEW n \in Nat, NEW k \in 0 .. n, Asked(s, n + 1), k < n => Joined(s, k, n) \in Seq(Byte)
  PROVE  Joined(s, k, n + 1) = Joined(s, k, n) \o PacketOf(s[n + 1])
<1> DEFINE P(i) == PacketOf(s[k + i])
           t == [i \in 1 .. n - k |-> P(i)]
           u == [i \in 1 .. (n + 1) - k |-> P(i)]
           l == n - k
<1>1. l \in Nat /\ (n + 1) - k = l + 1 /\ k + (l + 1) = n + 1 /\ (l = 0 <=> k = n)
  OBVIOUS
<1>2. Len(t) = l
  BY <1>1
<1>3. Len(u) = l + 1 /\ u[l + 1] = PacketOf(s[n + 1])
  <2>1. Len(u) = (n + 1) - k /\ (n + 1) - k \in Nat
    OBVIOUS
  <2>2. l + 1 \in 1 .. (n + 1) - k
    BY <1>1
  <2> QED BY <1>1, <2>1, <2>2
<1>4. \A i \in 1 .. l : t[i] = u[i]
  BY <1>1
<1>5. Joined(s, k, n) = FlattenSeq(t) /\ Joined(s, k, n + 1) = FlattenSeq(u)
  BY DEF Joined
<1> HIDE DEF t, u, l
<1>6. /\ l = 0 => FlattenSeq(u) = u[1]
      /\ l # 0 => FlattenSeq(u) = FlattenSeq(t) \o u[l + 1]
  BY <1>1, <1>2, <1>3, <1>4, FlattenMore
<1>7. CASE l = 0
  <2>1. Joined(s, k, n) = <<>>
    BY <1>1, <1>7, JoinedNone
  <2>2. PacketOf(s[n + 1]) \in Seq(Byte)
    BY PacketBytes
  <2>3. u[1] = PacketOf(s[n + 1])
    BY <1>3, <1>7
  <2> QED BY <1>5, <1>6, <1>7, <2>1, <2>2, <2>3, NothingBefore
<1>8. CASE l # 0
  BY <1>3, <1>5, <1>6, <1>8
<1> QED BY <1>7, <1>8

LEMMA AskedFewer ==
  ASSUME NEW s, NEW n \in Nat, Asked(s, n), NEW m \in 0 .. n
  PROVE  Asked(s, m)
BY DEF Asked

LEMMA JoinedBytes ==
  ASSUME NEW s, NEW n \in Nat, Asked(s, n), NEW k \in 0 .. n
  PROVE  Joined(s, k, n) \in Seq(Byte)
<1> DEFINE No == {m \in k .. n : Joined(s, k, m) \notin Seq(Byte)}
<1>1. ASSUME NEW m \in No PROVE \E l \in No : l < m
  <2>1. m # k
    <3>1. Joined(s, k, k) = <<>>
      BY JoinedNone
    <3>2. Joined(s, k, k) \in Seq(Byte)
      BY <3>1, NoBytes
    <3> QED BY <3>2
  <2> DEFINE l == m - 1
  <2>2. l \in k .. n /\ l < m /\ l + 1 = m /\ l \in Nat /\ k \in 0 .. l /\ m \in 0 .. n
    BY <2>1
  <2>3. CASE l \in No
    BY <2>2, <2>3
  <2>4. CASE l \notin No
    <3>1. Joined(s, k, l) \in Seq(Byte)
      BY <2>2, <2>4
    <3> HIDE DEF l
    <3>2. Asked(s, l + 1) /\ m \in 1 .. m
      BY <2>2, AskedFewer
    <3>3. Joined(s, k, m) = Joined(s, k, l) \o PacketOf(s[m])
      BY <2>2, <3>1, <3>2, JoinedMore
    <3>4. PacketOf(s[m]) \in Seq(Byte)
      BY <2>2, <3>2, PacketBytes
    <3>5. Joined(s, k, m) \in Seq(Byte)
      BY <3>1, <3>3, <3>4, BytesConcat
    <3> QED BY <3>5
  <2> QED BY <2>3, <2>4
<1>2. No \subseteq Nat
  OBVIOUS
<1>3. No = {}
  <2> HIDE DEF No
  <2> QED BY <1>1, <1>2, Descent
<1>4. n \in k .. n
  OBVIOUS
<1> QED BY <1>3, <1>4

\* One more request.
LEMMA JoinedStep ==
  ASSUME NEW s, NEW n \in Nat, Asked(s, n + 1), NEW k \in 0 .. n
  PROVE  /\ Joined(s, k, n + 1) = Joined(s, k, n) \o PacketOf(s[n + 1])
         /\ Joined(s, k, n) \in Seq(Byte) /\ PacketOf(s[n + 1]) \in Seq(Byte)
         /\ Joined(s, k, n + 1) \in Seq(Byte)
<1>1. Asked(s, n) /\ n + 1 \in 1 .. n + 1
  BY AskedFewer, n \in 0 .. n + 1, n + 1 \in Nat
<1>2. Joined(s, k, n) \in Seq(Byte)
  BY <1>1, JoinedBytes
<1>3. PacketOf(s[n + 1]) \in Seq(Byte)
  BY <1>1, PacketBytes
<1>4. Joined(s, k, n + 1) = Joined(s, k, n) \o PacketOf(s[n + 1])
  BY <1>2, JoinedMore
<1> QED BY <1>2, <1>3, <1>4, BytesConcat

LEMMA JoinedShrinks ==
  ASSUME NEW s, NEW n \in Nat, Asked(s, n), NEW k \in 0 .. n, NEW j \in 0 .. k
  PROVE  Len(Joined(s, k, n)) <= Len(Joined(s, j, n))
<1> DEFINE No == {m \in k .. n : ~(Len(Joined(s, k, m)) <= Len(Joined(s, j, m)))}
<1>1. ASSUME NEW m \in No PROVE \E l \in No : l < m
  <2>1. CASE m = k
    <3>1. Len(Joined(s, k, k)) = 0
      BY JoinedNone, NoBytes
    <3>2. Asked(s, k)
      BY AskedFewer
    <3>3. Joined(s, j, k) \in Seq(Byte)
      BY <3>2, JoinedBytes
    <3>4. Len(Joined(s, j, k)) \in Nat
      BY <3>3
    <3>5. Len(Joined(s, k, k)) <= Len(Joined(s, j, k))
      BY <3>1, <3>4
    <3> QED BY <2>1, <3>5
  <2>2. CASE m # k
    <3> DEFINE l == m - 1
    <3>1. l \in k .. n /\ l < m /\ l + 1 = m /\ l \in Nat /\ k \in 0 .. l /\ j \in 0 .. l /\ m \in 0 .. n
      BY <2>2
    <3>2. CASE l \in No
      BY <3>1, <3>2
    <3>3. CASE l \notin No
      <4>1. Len(Joined(s, k, l)) <= Len(Joined(s, j, l))
        BY <3>1, <3>3
      <4> HIDE DEF l
      <4>2. Asked(s, l + 1)
        BY <3>1, AskedFewer
      <4>3. /\ Joined(s, k, m) = Joined(s, k, l) \o PacketOf(s[m])
            /\ Joined(s, k, l) \in Seq(Byte) /\ PacketOf(s[m]) \in Seq(Byte)
        BY <3>1, <4>2, JoinedStep
      <4>4. Joined(s, j, m) = Joined(s, j, l) \o PacketOf(s[m]) /\ Joined(s, j, l) \in Seq(Byte)
        BY <3>1, <4>2, JoinedStep
      <4>5. /\ Len(Joined(s, k, m)) = Len(Joined(s, k, l)) + Len(PacketOf(s[m]))
            /\ Len(Joined(s, j, m)) = Len(Joined(s, j, l)) + Len(PacketOf(s[m]))
            /\ Len(Joined(s, k, l)) \in Nat /\ Len(Joined(s, j, l)) \in Nat /\ Len(PacketOf(s[m])) \in Nat
        BY <4>3, <4>4, BytesConcat
      <4>6. Len(Joined(s, k, m)) <= Len(Joined(s, j, m))
        BY <4>1, <4>5
      <4> QED BY <4>6
    <3> QED BY <3>2, <3>3
  <2> QED BY <2>1, <2>2
<1>2. No \subseteq Nat
  OBVIOUS
<1>3. No = {}
  <2> HIDE DEF No
  <2> QED BY <1>1, <1>2, Descent
<1>4. n \in k .. n
  OBVIOUS
<1> QED BY <1>3, <1>4

\* b begins with p.
StartsWith(b, p) == Len(p) <= Len(b) /\ \A i \in 1 .. Len(p) : b[i] = p[i]

LEMMA JoinedStarts ==
  ASSUME NEW s, NEW n \in Nat, Asked(s, n), NEW k \in 0 .. n - 1
  PROVE  StartsWith(Joined(s, k, n), PacketOf(s[k + 1]))
<1> DEFINE p == PacketOf(s[k + 1])
           No == {m \in k + 1 .. n : ~StartsWith(Joined(s, k, m), p)}
<1>0. p \in Seq(Byte) /\ Len(p) \in Nat
  BY PacketBytes
<1>1. ASSUME NEW m \in No PROVE \E l \in No : l < m
  <2>1. CASE m = k + 1
    <3>1. Asked(s, k + 1) /\ k \in Nat /\ k \in 0 .. k
      BY AskedFewer
    <3>2. Joined(s, k, k + 1) = Joined(s, k, k) \o p
      BY <3>1, JoinedStep
    <3>3. Joined(s, k, k + 1) = p
      BY <1>0, <3>1, <3>2, JoinedNone, NothingBefore
    <3>4. StartsWith(p, p)
      BY <1>0 DEF StartsWith
    <3> QED BY <2>1, <3>3, <3>4
  <2>2. CASE m # k + 1
    <3> DEFINE l == m - 1
    <3>1. l \in k + 1 .. n /\ l < m /\ l + 1 = m /\ l \in Nat /\ k \in 0 .. l /\ m \in 0 .. n
      BY <2>2
    <3>2. CASE l \in No
      BY <3>1, <3>2
    <3>3. CASE l \notin No
      <4>1. StartsWith(Joined(s, k, l), p)
        BY <3>1, <3>3
      <4> HIDE DEF l, p
      <4>2. Asked(s, l + 1)
        BY <3>1, AskedFewer
      <4>3. /\ Joined(s, k, m) = Joined(s, k, l) \o PacketOf(s[m])
            /\ Joined(s, k, l) \in Seq(Byte) /\ PacketOf(s[m]) \in Seq(Byte)
        BY <3>1, <4>2, JoinedStep
      <4>4. /\ Len(Joined(s, k, m)) = Len(Joined(s, k, l)) + Len(PacketOf(s[m]))
            /\ Len(Joined(s, k, l)) \in Nat /\ Len(PacketOf(s[m])) \in Nat
            /\ \A i \in 1 .. Len(Joined(s, k, l)) : Joined(s, k, m)[i] = Joined(s, k, l)[i]
        BY <4>3, BytesConcat
      <4>5. StartsWith(Joined(s, k, m), p)
        BY <1>0, <4>1, <4>4 DEF StartsWith
      <4> QED BY <4>5
    <3> QED BY <3>2, <3>3
  <2> QED BY <2>1, <2>2
<1>2. No \subseteq Nat
  OBVIOUS
<1>3. No = {}
  <2> HIDE DEF No
  <2> QED BY <1>1, <1>2, Descent
<1>4. n \in k + 1 .. n
  OBVIOUS
<1> QED BY <1>3, <1>4

-----------------------------------------------------------------------------
(* Bytes under way.                                                        *)

LEMMA Assoc ==
  ASSUME NEW x \in Seq(Byte), NEW y \in Seq(Byte), NEW z \in Seq(Byte)
  PROVE  (x \o y) \o z = x \o (y \o z)
<1> DEFINE a == x \o y
           b == y \o z
           l == a \o z
           r == x \o b
<1>1. /\ a \in Seq(Byte) /\ Len(a) = Len(x) + Len(y)
      /\ Len(x) \in Nat /\ Len(y) \in Nat
      /\ \A i \in 1 .. Len(x) : a[i] = x[i]
      /\ \A i \in 1 .. Len(y) : a[Len(x) + i] = y[i]
  BY BytesConcat
<1>2. /\ b \in Seq(Byte) /\ Len(b) = Len(y) + Len(z)
      /\ Len(z) \in Nat
      /\ \A i \in 1 .. Len(y) : b[i] = y[i]
      /\ \A i \in 1 .. Len(z) : b[Len(y) + i] = z[i]
  BY BytesConcat
<1> HIDE DEF a, b
<1>3. /\ l \in Seq(Byte) /\ Len(l) = Len(a) + Len(z)
      /\ \A i \in 1 .. Len(a) : l[i] = a[i]
      /\ \A i \in 1 .. Len(z) : l[Len(a) + i] = z[i]
  BY <1>1, BytesConcat
<1>4. /\ r \in Seq(Byte) /\ Len(r) = Len(x) + Len(b)
      /\ \A i \in 1 .. Len(x) : r[i] = x[i]
      /\ \A i \in 1 .. Len(b) : r[Len(x) + i] = b[i]
  BY <1>2, BytesConcat
<1> HIDE DEF l, r
<1>5. Len(l) = Len(r)
  BY <1>1, <1>2, <1>3, <1>4
<1>6. ASSUME NEW i \in 1 .. Len(l) PROVE l[i] = r[i]
  <2>1. CASE i <= Len(x)
    <3>1. i \in 1 .. Len(x) /\ i \in 1 .. Len(a)
      BY <2>1, <1>1
    <3> QED BY <3>1, <1>1, <1>3, <1>4
  <2>2. CASE i > Len(x) /\ i <= Len(x) + Len(y)
    <3> DEFINE j == i - Len(x)
    <3>1. j \in 1 .. Len(y) /\ i = Len(x) + j /\ j \in 1 .. Len(b) /\ i \in 1 .. Len(a)
      BY <2>2, <1>1, <1>2
    <3> HIDE DEF j
    <3>2. l[i] = a[i] /\ a[Len(x) + j] = y[j] /\ r[Len(x) + j] = b[j] /\ b[j] = y[j]
      BY <3>1, <1>1, <1>2, <1>3, <1>4
    <3> QED BY <3>1, <3>2
  <2>3. CASE i > Len(x) + Len(y)
    <3> DEFINE j == i - (Len(x) + Len(y))
    <3>1. /\ j \in 1 .. Len(z) /\ i = Len(a) + j /\ Len(y) + j \in 1 .. Len(b)
          /\ i = Len(x) + (Len(y) + j)
      BY <2>3, <1>1, <1>2, <1>3
    <3> HIDE DEF j
    <3>2. l[Len(a) + j] = z[j] /\ r[Len(x) + (Len(y) + j)] = b[Len(y) + j] /\ b[Len(y) + j] = z[j]
      BY <3>1, <1>2, <1>3, <1>4
    <3> QED BY <3>1, <3>2
  <2> QED BY <2>1, <2>2, <2>3, <1>1
<1>7. l = r
  BY <1>3, <1>4, <1>5, <1>6, SeqEqual
<1> QED BY <1>7 DEF l, r, a, b

LEMMA HeadAndTail ==
  ASSUME NEW u \in Seq(Byte), u # <<>>
  PROVE  /\ Head(u) \in Byte /\ Tail(u) \in Seq(Byte) /\ <<Head(u)>> \in Seq(Byte)
         /\ <<Head(u)>> \o Tail(u) = u
<1>1. Head(u) \in Byte /\ Tail(u) \in Seq(Byte) /\ Len(u) = Len(Tail(u)) + 1 /\ Head(u) = u[1]
      /\ \A i \in 1 .. Len(Tail(u)) : Tail(u)[i] = u[i + 1]
  OBVIOUS
<1> DEFINE h == Head(u)
           t == Tail(u)
           s == <<h>> \o t
<1> HIDE DEF h, t
<1>2. /\ s \in Seq(Byte) /\ Len(s) = Len(t) + 1 /\ Len(t) \in Nat
      /\ s[1] = h
      /\ \A i \in 1 .. Len(t) : s[i + 1] = t[i]
  BY <1>1, ConsFacts DEF h, t
<1> HIDE DEF s
<1>3. ASSUME NEW i \in 1 .. Len(s) PROVE s[i] = u[i]
  <2>1. CASE i = 1
    BY <2>1, <1>1, <1>2 DEF h
  <2>2. CASE i # 1
    <3> DEFINE j == i - 1
    <3>1. j \in 1 .. Len(t) /\ i = j + 1
      BY <2>2, <1>2
    <3> HIDE DEF j
    <3> QED BY <3>1, <1>1, <1>2 DEF t
  <2> QED BY <2>1, <2>2
<1>4. s = u
  BY <1>1, <1>2, <1>3, SeqEqual DEF t
<1> QED BY <1>1, <1>4, OneByte DEF h, t, s

LEMMA AppendIs ==
  ASSUME NEW S, NEW s \in Seq(S), NEW x \in S
  PROVE  /\ Append(s, x) \in Seq(S) /\ Len(Append(s, x)) = Len(s) + 1 /\ Len(s) \in Nat
         /\ \A i \in 1 .. Len(s) : Append(s, x)[i] = s[i]
         /\ Append(s, x)[Len(s) + 1] = x
OBVIOUS

LEMMA AppendByte ==
  ASSUME NEW s \in Seq(Byte), NEW x \in Byte
  PROVE  Append(s, x) = s \o <<x>>
<1> DEFINE a == Append(s, x)
           b == s \o <<x>>
           t == <<x>>
<1>1. /\ a \in Seq(Byte) /\ Len(a) = Len(s) + 1 /\ Len(s) \in Nat
      /\ \A i \in 1 .. Len(s) : a[i] = s[i]
      /\ a[Len(s) + 1] = x
  BY AppendIs
<1>2. t \in Seq(Byte) /\ Len(t) = 1 /\ t[1] = x
  BY OneByte
<1> HIDE DEF a, t
<1>3. /\ s \o t \in Seq(Byte) /\ Len(s \o t) = Len(s) + Len(t)
      /\ \A i \in 1 .. Len(s) : (s \o t)[i] = s[i]
      /\ \A i \in 1 .. Len(t) : (s \o t)[Len(s) + i] = t[i]
  BY <1>2, BytesConcat
<1>4. (s \o t)[Len(s) + 1] = x
  BY <1>2, <1>3
<1>5. \A i \in 1 .. Len(a) : a[i] = (s \o t)[i]
  BY <1>1, <1>2, <1>3, <1>4
<1>6. a = s \o t
  BY <1>1, <1>2, <1>3, <1>5, SeqEqual
<1> QED BY <1>6 DEF a, t

\* TCP hands one more byte over.
Moved(x, a, u) ==
  /\ Append(a, Head(u)) \in Seq(Byte) /\ Tail(u) \in Seq(Byte)
  /\ (x \o Append(a, Head(u))) \o Tail(u) = (x \o a) \o u

LEMMA MoveByte ==
  ASSUME NEW x \in Seq(Byte), NEW a \in Seq(Byte), NEW u \in Seq(Byte), u # <<>>
  PROVE  Moved(x, a, u)
<1> DEFINE h == <<Head(u)>>
           t == Tail(u)
<1>1. h \in Seq(Byte) /\ t \in Seq(Byte) /\ h \o t = u /\ Head(u) \in Byte
  BY HeadAndTail
<1>2. Append(a, Head(u)) = a \o h /\ Append(a, Head(u)) \in Seq(Byte)
  BY <1>1, AppendByte, AppendIs
<1> HIDE DEF h, t
<1>3. x \o (a \o h) = (x \o a) \o h
  <2>1. h \in Seq(Byte)
    BY <1>1
  <2>2. (x \o a) \o h = x \o (a \o h)
    BY <2>1, Assoc
  <2> QED BY <2>2
<1>4. ((x \o a) \o h) \o t = (x \o a) \o (h \o t)
  <2>1. x \o a \in Seq(Byte)
    BY BytesConcat
  <2> QED BY <1>1, <2>1, Assoc
<1> QED BY <1>1, <1>2, <1>3, <1>4 DEF t, Moved

-----------------------------------------------------------------------------
\* A packet whose header tells its length.
Whole(p) == p \in Seq(Byte) /\ Len(p) >= 16 /\ PackLen(p) = Len(p)

LEMMA FirstPacket ==
  ASSUME NEW b \in Seq(Byte), NEW u \in Seq(Byte), NEW p, Whole(p), StartsWith(b \o u, p),
         PduProtocol(b) > 0
  PROVE  /\ PduProtocol(b) = Len(p) /\ Len(p) <= Len(b) /\ Len(p) \in Nat
         /\ SubSeq(b, 1, PduProtocol(b)) = p
<1> DEFINE a == b \o u
<1>1. p \in Seq(Byte) /\ Len(p) >= 16 /\ PackLen(p) = Len(p)
  BY DEF Whole
<1>2. /\ Len(b) \in Nat /\ \A i \in 1 .. Len(b) : a[i] = b[i]
  BY BytesConcat
<1>3. Len(p) \in Nat /\ \A i \in 1 .. Len(p) : a[i] = p[i]
  BY <1>1 DEF StartsWith
<1> HIDE DEF a
<1>4. Len(b) >= 16 /\ PduProtocol(b) = PackLen(b) /\ ~(Len(b) < PackLen(b))
  BY <1>2 DEF PduProtocol, HeadLen
<1>5. PackLen(b) = PackLen(p)
  <2>1. \A i \in 1 .. 16 : b[i] = p[i]
    BY <1>1, <1>2, <1>3, <1>4
  <2> QED BY <2>1, SameHeader
<1>6. Len(p) <= Len(b) /\ PduProtocol(b) = Len(p)
  BY <1>1, <1>2, <1>3, <1>4, <1>5
<1>7. SubSeq(b, 1, Len(p)) = p
  <2> DEFINE s == SubSeq(b, 1, Len(p))
  <2>1. s \in Seq(Byte) /\ Len(s) = Len(p) /\ \A i \in 1 .. Len(p) : s[i] = b[i]
    BY <1>2, <1>3, <1>6
  <2> HIDE DEF s
  <2>2. \A i \in 1 .. Len(p) : s[i] = p[i]
    BY <2>1, <1>2, <1>3, <1>6
  <2>3. s = p
    BY <1>1, <2>1, <2>2, SeqEqual
  <2> QED BY <2>3 DEF s
<1> QED BY <1>3, <1>6, <1>7

\* A whole packet is taken at once if nothing is missing of it.
LEMMA NotEmpty ==
  ASSUME NEW b \in Seq(Byte), PduProtocol(b) > 0
  PROVE  Len(b) >= 16
BY DEF PduProtocol, HeadLen

-----------------------------------------------------------------------------
(* The lists of a connection.                                              *)

\* What may be sent, and what handlers may read of it.
Requests == UNION {[cmd : {c}, msg : MessagesOf(c)] : c \in Commands}
Readable == {AsSent(r) : r \in Requests}

\* The sequences of the connection have their types; each handled request has its answer.
Lists(S, T, H, A, G) ==
  /\ S \in Seq(Requests) /\ Len(S) <= MaxCalls
  /\ T \in Seq(Seq(Byte)) /\ H \in Seq(Readable)
  /\ A \in Seq(Answers) /\ G \in Seq(Answers)
  /\ Len(A) = Len(H)

\* Tasks and handled requests are among the first k requests of S.
Among(S, T, H, k) ==
  /\ \A i \in 1 .. Len(T) : \E j \in 1 .. k : T[i] = PacketOf(S[j])
  /\ \A i \in 1 .. Len(H) : \E j \in 1 .. k : H[i] = AsSent(S[j])

\* What is not read yet is the other requests, one packet after the other.
Split(S, T, H, U, o) ==
  \E k \in 0 .. Len(S) : Among(S, T, H, k) /\ (o => U = Joined(S, k, Len(S)))

\* No request is taken twice.
Once(T, H) ==
  /\ \A i, j \in 1 .. Len(T) : i # j => RequestOf(T[i]) # RequestOf(T[j])
  /\ \A i \in 1 .. Len(T), j \in 1 .. Len(H) : RequestOf(T[i]) # H[j]
  /\ \A i, j \in 1 .. Len(H) : i # j => H[i] # H[j]

\* The requests of test.cpp.
TestRequest(i) == [cmd |-> REGISTER, msg |-> RegisterReq(Name(i - 1), i, Passwd, 1)]
\* Everything was sent by test.cpp.
ByTest(S) == \A i \in 1 .. Len(S) : S[i] = TestRequest(i)

\* At most the last request is not read, all of it or nothing.
LastOnly(S, n, U) ==
  \/ n = Len(S) /\ U = << >>
  \/ n = Len(S) - 1 /\ U = PacketOf(S[Len(S)])

\* One request after the other.
OneByOne(S, T, H) ==
  /\ Len(T) + Len(H) <= Len(S) /\ Len(S) <= Len(H) + 1
  /\ \A i \in 1 .. Len(H) : H[i] = AsSent(S[i])
  /\ \A i \in 1 .. Len(T) : T[i] = PacketOf(S[Len(S)])

\* The view has read all the answers, or all but the last.
Replied(S, A, G) ==
  /\ Len(G) <= Len(A) /\ Len(A) <= Len(S) /\ Len(S) <= Len(G) + 1
  /\ \A i \in 1 .. Len(G) : G[i] = A[i]

\* and what it has not read is the last, all of it or nothing.
OneAnswer(S, A, G, C) ==
  \/ Len(G) = Len(A) /\ C = << >>
  \/ Len(G) = Len(A) - 1 /\ C = SendResult(S[Len(A)].cmd, A[Len(A)])

LEMMA RequestsAre ==
  ASSUME NEW r
  PROVE  r \in Requests <=> IsRequest(r)
<1>1. ASSUME r \in Requests PROVE IsRequest(r)
  <2>1. PICK c \in Commands : r \in [cmd : {c}, msg : MessagesOf(c)]
    BY <1>1 DEF Requests
  <2>2. r.cmd = c
    BY <2>1
  <2> QED BY <2>1, <2>2 DEF IsRequest
<1>2. ASSUME IsRequest(r) PROVE r \in Requests
  BY <1>2 DEF IsRequest, Requests
<1> QED BY <1>1, <1>2

LEMMA ListFacts ==
  ASSUME NEW S, NEW T, NEW H, NEW A, NEW G, Lists(S, T, H, A, G)
  PROVE  /\ Len(S) \in Nat /\ Len(T) \in Nat /\ Len(H) \in Nat /\ Len(A) \in Nat /\ Len(G) \in Nat
         /\ Len(A) = Len(H) /\ Len(S) <= MaxCalls
         /\ Asked(S, Len(S))
         /\ \A i \in 1 .. Len(S) : S[i] \in Requests /\ IsRequest(S[i])
         /\ \A i \in 1 .. Len(T) : T[i] \in Seq(Byte)
         /\ \A i \in 1 .. Len(A) : A[i] \in Answers
         /\ S \in Seq(Requests) /\ T \in Seq(Seq(Byte)) /\ H \in Seq(Readable)
         /\ A \in Seq(Answers) /\ G \in Seq(Answers)
<1>1. /\ S \in Seq(Requests) /\ T \in Seq(Seq(Byte)) /\ H \in Seq(Readable)
      /\ A \in Seq(Answers) /\ G \in Seq(Answers)
      /\ Len(A) = Len(H) /\ Len(S) <= MaxCalls
  BY DEF Lists
<1>2. Len(S) \in Nat /\ Len(T) \in Nat /\ Len(H) \in Nat /\ Len(A) \in Nat /\ Len(G) \in Nat
  BY <1>1
<1>3. \A i \in 1 .. Len(S) : S[i] \in Requests
  BY <1>1, ElementOf
<1>4. \A i \in 1 .. Len(S) : IsRequest(S[i])
  BY <1>3, RequestsAre
<1>5. \A i \in 1 .. Len(T) : T[i] \in Seq(Byte)
  BY <1>1, ElementOf
<1>6. \A i \in 1 .. Len(A) : A[i] \in Answers
  BY <1>1, ElementOf
<1>7. Asked(S, Len(S))
  BY <1>4 DEF Asked
<1> QED BY <1>1, <1>2, <1>3, <1>4, <1>5, <1>6, <1>7

LEMMA PacketFacts ==
  ASSUME NEW r, IsRequest(r)
  PROVE  /\ PacketOf(r) \in Seq(Byte) /\ Len(PacketOf(r)) \in Nat /\ Len(PacketOf(r)) >= 16
         /\ Whole(PacketOf(r)) /\ Cmd(PacketOf(r)) = r.cmd /\ r.cmd \in Commands
         /\ RequestOf(PacketOf(r)) = AsSent(r)
         /\ PacketOf(r) # <<>>
<1> DEFINE p == PacketOf(r)
<1>1. IsPacket(p, r.cmd) /\ RequestOf(p) = AsSent(r)
  BY RequestCarried
<1> HIDE DEF p
<1>2. p \in Seq(Byte) /\ Len(p) >= 16 /\ PackLen(p) = Len(p) /\ Cmd(p) = r.cmd
  BY <1>1 DEF IsPacket
<1>3. Len(p) \in Nat /\ p # <<>>
  BY <1>2
<1>4. Whole(p)
  BY <1>2 DEF Whole
<1>5. r.cmd \in Commands
  BY DEF IsRequest
<1> QED BY <1>1, <1>2, <1>3, <1>4, <1>5 DEF p

LEMMA AnswerFacts ==
  ASSUME NEW a \in Answers, NEW cmd \in Commands
  PROVE  /\ SendResult(cmd, a) \in Seq(Byte) /\ Len(SendResult(cmd, a)) \in Nat
         /\ Len(SendResult(cmd, a)) >= 16
         /\ Whole(SendResult(cmd, a)) /\ Answer(SendResult(cmd, a)) = a
         /\ SendResult(cmd, a) # <<>>
<1> DEFINE p == SendResult(cmd, a)
<1>1. IsPacket(p, cmd) /\ Answer(p) = a
  BY AnswerCarried
<1> HIDE DEF p
<1>2. p \in Seq(Byte) /\ Len(p) >= 16 /\ PackLen(p) = Len(p)
  BY <1>1 DEF IsPacket
<1>3. Len(p) \in Nat /\ p # <<>>
  BY <1>2
<1>4. Whole(p)
  BY <1>2 DEF Whole
<1> QED BY <1>1, <1>2, <1>3, <1>4 DEF p

\* A sequence without its i-th element.
Without(t, s, i) ==
  /\ Len(t) = Len(s) - 1
  /\ \A j \in 1 .. Len(t) : t[j] = IF j < i THEN s[j] ELSE s[j + 1]

LEMMA RemoveIs ==
  ASSUME NEW E, NEW s \in Seq(E), NEW i \in 1 .. Len(s)
  PROVE  RemoveAt(s, i) \in Seq(E) /\ Without(RemoveAt(s, i), s, i)
<1> DEFINE a == SubSeq(s, 1, i - 1)
           b == SubSeq(s, i + 1, Len(s))
           n == Len(s)
<1>1. n \in Nat /\ n = Len(s)
  OBVIOUS
<1>2. a \in Seq(E) /\ Len(a) = i - 1 /\ \A j \in 1 .. i - 1 : a[j] = s[j]
  OBVIOUS
<1>3. b \in Seq(E) /\ Len(b) = n - i /\ \A j \in 1 .. n - i : b[j] = s[i + j]
  OBVIOUS
<1>4. RemoveAt(s, i) = a \o b
  BY DEF RemoveAt
<1> HIDE DEF a, b, n
<1> DEFINE t == a \o b
<1>0. a \in Seq(E) /\ b \in Seq(E)
  BY <1>2, <1>3
<1>5. /\ t \in Seq(E) /\ Len(t) = Len(a) + Len(b)
      /\ \A j \in 1 .. Len(a) : t[j] = a[j]
      /\ \A j \in 1 .. Len(b) : t[Len(a) + j] = b[j]
  BY <1>0, ConcatFacts
<1> HIDE DEF t
<1>6. Len(t) = Len(s) - 1
  BY <1>1, <1>2, <1>3, <1>5
<1>7. ASSUME NEW j \in 1 .. Len(t), j < i PROVE t[j] = s[j]
  <2>1. j \in 1 .. Len(a) /\ j \in 1 .. i - 1
    BY <1>2, <1>7
  <2> QED BY <2>1, <1>2, <1>5
<1>8. ASSUME NEW j \in 1 .. Len(t), ~(j < i) PROVE t[j] = s[j + 1]
  <2> DEFINE l == j - (i - 1)
  <2>1. l \in 1 .. Len(b) /\ l \in 1 .. n - i /\ j = Len(a) + l /\ i + l = j + 1
    BY <1>1, <1>2, <1>3, <1>5, <1>8
  <2> HIDE DEF l
  <2> QED BY <2>1, <1>3, <1>5
<1>9. Without(t, s, i)
  BY <1>6, <1>7, <1>8 DEF Without
<1> QED BY <1>4, <1>5, <1>9 DEF t

LEMMA WithoutFacts ==
  ASSUME NEW t, NEW s, NEW i \in 1 .. Len(s), Without(t, s, i), Len(s) \in Nat
  PROVE  /\ Len(t) = Len(s) - 1 /\ Len(t) \in Nat
         /\ \A j \in 1 .. Len(t) : \E l \in 1 .. Len(s) : l # i /\ t[j] = s[l]
<1> DEFINE Old(j) == IF j < i THEN j ELSE j + 1
<1>1. Len(t) = Len(s) - 1 /\ Len(t) \in Nat
  BY DEF Without
<1>2. \A j \in 1 .. Len(t) : t[j] = s[Old(j)] /\ Old(j) \in 1 .. Len(s) /\ Old(j) # i
  BY <1>1 DEF Without
<1> HIDE DEF Old
<1> QED BY <1>1, <1>2

LEMMA WithoutOne ==
  ASSUME NEW t, NEW s, NEW i \in 1 .. Len(s), Without(t, s, i), Len(s) \in Nat, NEW j \in 1 .. Len(t)
  PROVE  \E l \in 1 .. Len(s) : l # i /\ t[j] = s[l]
BY WithoutFacts

LEMMA WithoutTwo ==
  ASSUME NEW t, NEW s, NEW i \in 1 .. Len(s), Without(t, s, i), Len(s) \in Nat,
         NEW j \in 1 .. Len(t), NEW k \in 1 .. Len(t), j # k
  PROVE  \E l, m \in 1 .. Len(s) : l # m /\ t[j] = s[l] /\ t[k] = s[m]
<1> DEFINE l == IF j < i THEN j ELSE j + 1
           m == IF k < i THEN k ELSE k + 1
<1>1. Len(t) = Len(s) - 1 /\ t[j] = s[l] /\ t[k] = s[m]
  BY DEF Without
<1>2. l \in 1 .. Len(s) /\ m \in 1 .. Len(s) /\ l # m
  BY <1>1
<1> HIDE DEF l, m
<1> QED BY <1>1, <1>2

-----------------------------------------------------------------------------
(* A request is sent.                                                      *)

\* S2 is S and r.
Extends(S2, S, r) ==
  /\ Len(S) \in Nat /\ Len(S2) = Len(S) + 1
  /\ \A i \in 1 .. Len(S) : S2[i] = S[i]
  /\ S2[Len(S) + 1] = r

LEMMA ListsSent ==
  ASSUME NEW S, NEW T, NEW H, NEW A, NEW G, Lists(S, T, H, A, G), Len(S) < MaxCalls,
         NEW r, IsRequest(r)
  PROVE  /\ Lists(Append(S, r), T, H, A, G) /\ Extends(Append(S, r), S, r)
         /\ Asked(Append(S, r), Len(Append(S, r)))
<1> DEFINE S2 == Append(S, r)
<1>1. r \in Requests /\ S \in Seq(Requests)
  BY RequestsAre, ListFacts
<1>2. /\ S2 \in Seq(Requests) /\ Len(S2) = Len(S) + 1 /\ Len(S) \in Nat
      /\ \A i \in 1 .. Len(S) : S2[i] = S[i]
      /\ S2[Len(S) + 1] = r
  BY <1>1, AppendIs
<1> HIDE DEF S2
<1>3. MaxCalls \in Nat
  BY StreamAssumption
<1>4. Len(S2) <= MaxCalls
  BY <1>2, <1>3
<1>5. Lists(S2, T, H, A, G)
  BY <1>2, <1>4 DEF Lists
<1>6. Asked(S2, Len(S2))
  BY <1>5, ListFacts
<1> QED BY <1>2, <1>5, <1>6 DEF Extends, S2

LEMMA JoinedSame ==
  ASSUME NEW S, NEW S2, NEW n \in Nat, \A i \in 1 .. n : S2[i] = S[i], NEW k \in 0 .. n
  PROVE  Joined(S2, k, n) = Joined(S, k, n)
<1>1. \A i \in 1 .. n - k : S2[k + i] = S[k + i]
  OBVIOUS
<1>2. [i \in 1 .. n - k |-> PacketOf(S2[k + i])] = [i \in 1 .. n - k |-> PacketOf(S[k + i])]
  BY <1>1
<1> QED BY <1>2 DEF Joined

LEMMA AmongMore ==
  ASSUME NEW S, NEW T, NEW H, NEW k \in Nat, Among(S, T, H, k),
         NEW S2, \A i \in 1 .. k : S2[i] = S[i], NEW l \in Nat, k <= l
  PROVE  Among(S2, T, H, l)
<1>1. \A j \in 1 .. k : j \in 1 .. l /\ S2[j] = S[j]
  OBVIOUS
<1>2. ASSUME NEW i \in 1 .. Len(T) PROVE \E j \in 1 .. l : T[i] = PacketOf(S2[j])
  BY <1>1 DEF Among
<1>3. ASSUME NEW i \in 1 .. Len(H) PROVE \E j \in 1 .. l : H[i] = AsSent(S2[j])
  BY <1>1 DEF Among
<1> QED BY <1>2, <1>3 DEF Among

LEMMA SplitSent ==
  ASSUME NEW S, NEW T, NEW H, NEW U, NEW o, Split(S, T, H, U, o),
         NEW S2, NEW r, Extends(S2, S, r), Asked(S2, Len(S2))
  PROVE  Split(S2, T, H, U \o PacketOf(r), o)
<1> DEFINE n == Len(S)
<1>1. /\ n \in Nat /\ Len(S2) = n + 1 /\ S2[n + 1] = r
      /\ \A i \in 1 .. n : S2[i] = S[i]
  BY DEF Extends
<1>2. PICK k \in 0 .. n : Among(S, T, H, k) /\ (o => U = Joined(S, k, n))
  BY DEF Split
<1> HIDE DEF n
<1>3. k \in Nat /\ k \in 0 .. n + 1 /\ \A i \in 1 .. k : S2[i] = S[i]
  BY <1>1
<1>4. Among(S2, T, H, k)
  BY <1>2, <1>3, k <= k, AmongMore
<1>5. Joined(S2, k, n + 1) = Joined(S2, k, n) \o PacketOf(S2[n + 1])
  BY <1>1, JoinedStep
<1>6. Joined(S2, k, n) = Joined(S, k, n)
  BY <1>1, JoinedSame
<1>7. o => U \o PacketOf(r) = Joined(S2, k, Len(S2))
  BY <1>1, <1>2, <1>5, <1>6
<1>8. k \in 0 .. Len(S2)
  BY <1>1, <1>3
<1> QED BY <1>4, <1>7, <1>8 DEF Split

LEMMA LastSent ==
  ASSUME NEW S, NEW n, LastOnly(S, n, <<>>), Asked(S, Len(S)),
         NEW S2, NEW r, Extends(S2, S, r), IsRequest(r), n \in Nat
  PROVE  n = Len(S) /\ LastOnly(S2, n, PacketOf(r))
<1>1. Len(S) \in Nat /\ Len(S2) = Len(S) + 1 /\ S2[Len(S) + 1] = r
  BY DEF Extends
<1>2. n = Len(S)
  <2>1. CASE n = Len(S) - 1 /\ <<>> = PacketOf(S[Len(S)])
    <3>1. Len(S) \in 1 .. Len(S)
      BY <1>1, <2>1
    <3>2. PacketOf(S[Len(S)]) # <<>>
      BY <3>1, PacketFacts DEF Asked
    <3> QED BY <2>1, <3>2
  <2> QED BY <2>1 DEF LastOnly
<1>3. n = Len(S2) - 1 /\ S2[Len(S2)] = r
  BY <1>1, <1>2
<1> QED BY <1>2, <1>3 DEF LastOnly

LEMMA OneSent ==
  ASSUME NEW S, NEW T, NEW H, OneByOne(S, T, H), Len(T) \in Nat, Len(H) \in Nat,
         NEW S2, NEW r, Extends(S2, S, r), Len(H) = Len(S)
  PROVE  OneByOne(S2, T, H)
<1>1. /\ Len(S) \in Nat /\ Len(S2) = Len(S) + 1
      /\ \A i \in 1 .. Len(S) : S2[i] = S[i]
  BY DEF Extends
<1>2. /\ Len(T) + Len(H) <= Len(S)
      /\ \A i \in 1 .. Len(H) : H[i] = AsSent(S[i])
  BY DEF OneByOne
<1>3. Len(T) = 0
  BY <1>1, <1>2
<1>4. \A i \in 1 .. Len(H) : H[i] = AsSent(S2[i])
  BY <1>1, <1>2
<1>5. \A i \in 1 .. Len(T) : FALSE
  BY <1>3
<1>6. Len(T) + Len(H) <= Len(S2) /\ Len(S2) <= Len(H) + 1
  BY <1>1, <1>3
<1> QED BY <1>4, <1>5, <1>6 DEF OneByOne

LEMMA RepliedSent ==
  ASSUME NEW S, NEW A, NEW G, NEW C, Replied(S, A, G), OneAnswer(S, A, G, C),
         Len(A) \in Nat, Len(G) \in Nat, ~(Len(G) < Len(S)),
         NEW S2, NEW r, Extends(S2, S, r)
  PROVE  /\ Len(A) = Len(S) /\ Replied(S2, A, G) /\ OneAnswer(S2, A, G, C)
<1>1. /\ Len(S) \in Nat /\ Len(S2) = Len(S) + 1
      /\ \A i \in 1 .. Len(S) : S2[i] = S[i]
  BY DEF Extends
<1>2. /\ Len(G) <= Len(A) /\ Len(A) <= Len(S) /\ \A i \in 1 .. Len(G) : G[i] = A[i]
  BY DEF Replied
<1>3. Len(G) = Len(S) /\ Len(A) = Len(S)
  BY <1>1, <1>2
<1>4. C = <<>>
  BY <1>3 DEF OneAnswer
<1>5. Len(A) <= Len(S2) /\ Len(S2) <= Len(G) + 1
  BY <1>1, <1>3
<1> QED BY <1>2, <1>3, <1>4, <1>5 DEF Replied, OneAnswer

\* What test.cpp and tress.cpp send.
LEMMA SmallNumber ==
  ASSUME NEW n \in Nat, n <= MaxNumber + 1
  PROVE  n \in Int32Range
BY SMT DEF MaxNumber, Int32Range

LEMMA SmallTypes == 0 \in Int32Range /\ 1 \in Int32Range
BY SMT DEF Int32Range

LEMMA NameIsText ==
  ASSUME NEW n \in Nat, n <= MaxNumber
  PROVE  Name(n) \in Text /\ Name(n) # <<>>
<1>1. n + 1 \in Nat /\ n + 1 < 1048576
  BY SMT DEF MaxNumber
<1> DEFINE t == [k \in 1 .. n + 1 |-> 106]
<1>2. t \in Seq(1 .. 255) /\ Len(t) = n + 1
  BY <1>1
<1>3. t # <<>>
  BY <1>2
<1> HIDE DEF t
<1>4. Len(t) < 1048576
  BY <1>1, <1>2
<1> QED BY <1>2, <1>3, <1>4 DEF Name, Text, t

LEMMA PasswdIsText == Passwd \in Text /\ Passwd # <<>>
<1>1. <<49>> \in Seq(1 .. 255) /\ Len(<<49>>) = 1 /\ <<49>> # <<>>
  OBVIOUS
<1>2. 1 < 1048576
  BY SMT
<1> QED BY <1>1, <1>2 DEF Passwd, Text

LEMMA RegisterIsRequest ==
  ASSUME NEW n \in Nat, n <= MaxNumber, NEW m \in Nat, m <= MaxNumber + 1, NEW t \in {0, 1}
  PROVE  IsRequest([cmd |-> REGISTER, msg |-> RegisterReq(Name(n), m, Passwd, t)])
<1> DEFINE x == RegisterReq(Name(n), m, Passwd, t)
<1>1. Name(n) \in Text /\ m \in Int32Range /\ Passwd \in Text /\ t \in Int32Range
  BY NameIsText, SmallNumber, PasswdIsText, SmallTypes
<1>2. x \in [name : Text, id : Int32Range, passwd : Text, type : Int32Range]
  BY <1>1 DEF RegisterReq
<1> HIDE DEF x
<1>3. x \in MessagesOf(REGISTER)
  BY <1>2, CommandsDiffer DEF MessagesOf
<1>4. REGISTER \in Commands
  BY DEF Commands
<1> QED BY <1>3, <1>4 DEF IsRequest, x

LEMMA LoginIsRequest ==
  ASSUME NEW n \in Nat, n <= MaxNumber
  PROVE  IsRequest([cmd |-> LOGIN, msg |-> LoginReq(n, Passwd, 0)])
<1> DEFINE x == LoginReq(n, Passwd, 0)
<1>1. n <= MaxNumber + 1
  BY SMT DEF MaxNumber
<1>2. n \in Int32Range /\ Passwd \in Text /\ 0 \in Int32Range
  BY <1>1, SmallNumber, PasswdIsText, SmallTypes
<1>3. x \in [id : Int32Range, passwd : Text, type : Int32Range]
  BY <1>2 DEF LoginReq
<1>4. x \in MessagesOf(LOGIN)
  BY <1>3, CommandsDiffer DEF MessagesOf
<1> HIDE DEF x
<1>5. LOGIN \in Commands
  BY DEF Commands
<1> QED BY <1>4, <1>5 DEF IsRequest, x

\* The requests of test.cpp are told apart by their id.
LEMMA TestIs ==
  ASSUME NEW i \in Nat, i # 0, IsRequest(TestRequest(i))
  PROVE  AsSent(TestRequest(i)).msg["id"] = i
<1> DEFINE r == TestRequest(i)
           m == RegisterReq(Name(i - 1), i, Passwd, 1)
           o == RegisterOrder
<1>1. r = [cmd |-> REGISTER, msg |-> m] /\ r.cmd = REGISTER /\ r.msg = m
  BY DEF TestRequest
<1>2. Name(i - 1) # <<>>
  <2>1. Len([k \in 1 .. (i - 1) + 1 |-> 106]) = i
    OBVIOUS
  <2> QED BY <2>1 DEF Name
<1>3. m["name"] = Name(i - 1) /\ m["id"] = i
  BY DEF RegisterReq
<1> HIDE DEF m, r
<1>4. AsSent(r) = [cmd |-> REGISTER, msg |-> ReadOf(o, 4, m)]
  <2>1. Order(r.cmd) = o /\ o # <<>> /\ DOMAIN o = 1 .. 4
    BY <1>1, OrderIs, RegisterNames
  <2>2. IsRequest(r)
    BY DEF r
  <2> HIDE DEF o
  <2> QED BY <1>1, <2>1, <2>2, AsSentIs
<1>5. o[1] = "name" /\ o[2] = "id" /\ Names(o, 4) = {"name", "id", "passwd", "type"}
  BY RegisterNames
<1> HIDE DEF o
<1>6. 1 \notin Cuts(o, 4, m) /\ 2 \notin Cuts(o, 4, m)
  BY <1>2, <1>3, <1>5 DEF Cuts, Blank
<1>7. \A j \in Cuts(o, 4, m) : 2 < j
  <2>1. \A j \in Cuts(o, 4, m) : j \in 1 .. 4
    BY DEF Cuts
  <2> QED BY <2>1, <1>6
<1>8. Kept(o, 4, m, "id")
  <2>1. 2 \in 1 .. 4
    OBVIOUS
  <2> QED BY <2>1, <1>5, <1>7 DEF Kept
<1>9. ReadOf(o, 4, m)["id"] = i
  BY <1>3, <1>5, <1>8 DEF ReadOf
<1> QED BY <1>4, <1>9 DEF r

LEMMA TestDiffer ==
  ASSUME NEW S, Asked(S, Len(S)), Len(S) \in Nat, ByTest(S),
         NEW i \in 1 .. Len(S), NEW j \in 1 .. Len(S), i # j
  PROVE  AsSent(S[i]) # AsSent(S[j])
<1>1. S[i] = TestRequest(i) /\ S[j] = TestRequest(j) /\ IsRequest(S[i]) /\ IsRequest(S[j])
  BY DEF ByTest, Asked
<1>2. i \in Nat /\ i # 0 /\ j \in Nat /\ j # 0
  OBVIOUS
<1>3. AsSent(S[i]).msg["id"] = i
  BY <1>1, <1>2, TestIs
<1>4. AsSent(S[j]).msg["id"] = j
  BY <1>1, <1>2, TestIs
<1> QED BY <1>3, <1>4

-----------------------------------------------------------------------------
(* RecvBuf takes a packet: it is the first that is not read.               *)

LEMMA Taken ==
  ASSUME NEW S, NEW n, n = Len(S), n \in Nat, Asked(S, n), NEW T, NEW H,
         NEW b \in Seq(Byte), NEW u \in Seq(Byte), Split(S, T, H, b \o u, TRUE), PduProtocol(b) > 0
  PROVE  \E k \in 0 .. n - 1 :
           /\ Among(S, T, H, k)
           /\ SubSeq(b, 1, PduProtocol(b)) = PacketOf(S[k + 1])
           /\ \A l \in 0 .. n : u = Joined(S, l, n) => k + 1 <= l
<1>1. PICK k \in 0 .. n : Among(S, T, H, k) /\ b \o u = Joined(S, k, n)
  BY DEF Split
<1>2. Len(b) >= 16 /\ Len(b) \in Nat /\ Len(u) \in Nat /\ Len(b \o u) = Len(b) + Len(u)
  BY NotEmpty, BytesConcat
<1>3. k # n
  <2>1. Joined(S, n, n) = <<>> /\ Len(<<>>) = 0
    BY JoinedNone, NoBytes
  <2> QED BY <1>1, <1>2, <2>1
<1>4. k \in 0 .. n - 1 /\ k + 1 \in 1 .. n /\ k + 1 \in 0 .. n /\ k \in 0 .. k + 1 /\ k \in Nat
  BY <1>3
<1> DEFINE p == PacketOf(S[k + 1])
<1>5. StartsWith(b \o u, p)
  BY <1>1, <1>4, JoinedStarts
<1>6. IsRequest(S[k + 1])
  BY <1>4 DEF Asked
<1>7. Whole(p) /\ Len(p) \in Nat /\ Len(p) >= 16
  BY <1>6, PacketFacts
<1> HIDE DEF p
<1>8. Len(p) <= Len(b) /\ SubSeq(b, 1, PduProtocol(b)) = p
  BY <1>5, <1>7, FirstPacket
<1>9. ASSUME NEW l \in 0 .. n, u = Joined(S, l, n) PROVE k + 1 <= l
  <2>1. CASE l <= k
    <3>1. l \in 0 .. k
      BY <2>1, <1>4
    <3>2. Len(Joined(S, k, n)) <= Len(Joined(S, l, n))
      BY <3>1, JoinedShrinks
    <3> QED BY <3>2, <1>1, <1>2, <1>9
  <2> QED BY <2>1, <1>4
<1> QED BY <1>1, <1>4, <1>8, <1>9 DEF p

LEMMA SplitTaken ==
  ASSUME NEW S, NEW n, n = Len(S), n \in Nat, NEW T \in Seq(Seq(Byte)), NEW H, NEW p \in Seq(Byte),
         NEW k \in 0 .. n - 1, Among(S, T, H, k), p = PacketOf(S[k + 1]),
         NEW u, NEW o, NEW l \in 0 .. n, k + 1 <= l, o => u = Joined(S, l, n)
  PROVE  Split(S, Append(T, p), H, u, o)
<1> DEFINE T2 == Append(T, p)
<1>1. /\ Len(T2) = Len(T) + 1 /\ Len(T) \in Nat
      /\ \A i \in 1 .. Len(T) : T2[i] = T[i]
      /\ T2[Len(T) + 1] = p
  BY AppendIs
<1> HIDE DEF T2
<1>2. k + 1 \in 1 .. l /\ \A j \in 1 .. k : j \in 1 .. l
  OBVIOUS
<1>3. ASSUME NEW i \in 1 .. Len(T2) PROVE \E j \in 1 .. l : T2[i] = PacketOf(S[j])
  <2>1. CASE i = Len(T) + 1
    BY <2>1, <1>1, <1>2
  <2>2. CASE i # Len(T) + 1
    <3>1. i \in 1 .. Len(T)
      BY <2>2, <1>1
    <3>2. \E j \in 1 .. k : T[i] = PacketOf(S[j])
      BY <3>1 DEF Among
    <3> QED BY <3>1, <3>2, <1>1, <1>2
  <2> QED BY <2>1, <2>2
<1>4. ASSUME NEW i \in 1 .. Len(H) PROVE \E j \in 1 .. l : H[i] = AsSent(S[j])
  BY <1>2 DEF Among
<1>5. Among(S, T2, H, l)
  BY <1>3, <1>4 DEF Among
<1> QED BY <1>5 DEF Split, T2

LEMMA OnceTaken ==
  ASSUME NEW S, NEW n, n = Len(S), n \in Nat, Asked(S, n), ByTest(S),
         NEW T \in Seq(Seq(Byte)), NEW H, NEW p \in Seq(Byte),
         NEW k \in 0 .. n - 1, Among(S, T, H, k), p = PacketOf(S[k + 1]), Once(T, H)
  PROVE  Once(Append(T, p), H)
<1> DEFINE T2 == Append(T, p)
<1>1. /\ Len(T2) = Len(T) + 1 /\ Len(T) \in Nat
      /\ \A i \in 1 .. Len(T) : T2[i] = T[i]
      /\ T2[Len(T) + 1] = p
  BY AppendIs
<1> HIDE DEF T2
<1>2. \A i \in 1 .. Len(T2) : i = Len(T) + 1 \/ i \in 1 .. Len(T)
  BY <1>1
<1>3. \A j \in 1 .. k : j \in 1 .. n /\ j # k + 1
  OBVIOUS
<1>4. \A j \in 1 .. n : RequestOf(PacketOf(S[j])) = AsSent(S[j])
  BY PacketFacts DEF Asked
<1>5. k + 1 \in 1 .. n
  OBVIOUS
<1>6. \A j \in 1 .. k : AsSent(S[j]) # AsSent(S[k + 1])
  BY <1>3, <1>5, TestDiffer
<1>7. RequestOf(p) = AsSent(S[k + 1])
  BY <1>4, <1>5
<1>8. \A i \in 1 .. Len(T) : RequestOf(T[i]) # RequestOf(p)
  <2> TAKE i \in 1 .. Len(T)
  <2>1. PICK j \in 1 .. k : T[i] = PacketOf(S[j])
    BY DEF Among
  <2> QED BY <2>1, <1>3, <1>4, <1>6, <1>7
<1>9. \A i \in 1 .. Len(H) : H[i] # RequestOf(p)
  <2> TAKE i \in 1 .. Len(H)
  <2>1. PICK j \in 1 .. k : H[i] = AsSent(S[j])
    BY DEF Among
  <2> QED BY <2>1, <1>6, <1>7
<1>10. \A i, j \in 1 .. Len(T2) : i # j => RequestOf(T2[i]) # RequestOf(T2[j])
  BY <1>1, <1>2, <1>8 DEF Once
<1>11. \A i \in 1 .. Len(T2), j \in 1 .. Len(H) : RequestOf(T2[i]) # H[j]
  BY <1>1, <1>2, <1>9 DEF Once
<1> QED BY <1>10, <1>11 DEF Once, T2

LEMMA LastTaken ==
  ASSUME NEW S, Asked(S, Len(S)), Len(S) \in Nat, NEW n \in Nat,
         NEW b \in Seq(Byte), NEW u \in Seq(Byte), LastOnly(S, n, b \o u), PduProtocol(b) > 0
  PROVE  /\ n + 1 = Len(S) /\ u = <<>> /\ LastOnly(S, n + 1, <<>>)
         /\ SubSeq(b, 1, PduProtocol(b)) = PacketOf(S[Len(S)])
<1>1. Len(b) >= 16 /\ Len(b) \in Nat /\ Len(u) \in Nat /\ Len(b \o u) = Len(b) + Len(u)
  BY NotEmpty, BytesConcat
<1>2. b \o u # <<>>
  BY <1>1, NoBytes
<1>3. n = Len(S) - 1 /\ b \o u = PacketOf(S[Len(S)])
  BY <1>2 DEF LastOnly
<1>4. Len(S) \in 1 .. Len(S) /\ n + 1 = Len(S)
  BY <1>3
<1> DEFINE p == PacketOf(S[Len(S)])
<1>5. Whole(p) /\ p \in Seq(Byte) /\ Len(p) \in Nat
  BY <1>4, PacketFacts DEF Asked
<1> HIDE DEF p
<1>6. b \o u = p
  BY <1>3 DEF p
<1>7. StartsWith(b \o u, p)
  BY <1>5, <1>6 DEF StartsWith
<1>8. Len(p) <= Len(b) /\ SubSeq(b, 1, PduProtocol(b)) = p
  BY <1>5, <1>7, FirstPacket
<1>9. Len(u) = 0
  BY <1>1, <1>6, <1>8
<1>10. u = <<>>
  BY <1>9
<1> QED BY <1>4, <1>8, <1>10 DEF LastOnly, p

LEMMA OneTaken ==
  ASSUME NEW S, Len(S) \in Nat, NEW T \in Seq(Seq(Byte)), NEW H, Len(H) \in Nat, NEW p \in Seq(Byte),
         OneByOne(S, T, H), Len(T) + Len(H) + 1 = Len(S), p = PacketOf(S[Len(S)])
  PROVE  OneByOne(S, Append(T, p), H)
<1> DEFINE T2 == Append(T, p)
<1>1. /\ Len(T2) = Len(T) + 1 /\ Len(T) \in Nat
      /\ \A i \in 1 .. Len(T) : T2[i] = T[i]
      /\ T2[Len(T) + 1] = p
  BY AppendIs
<1> HIDE DEF T2
<1>2. /\ Len(S) <= Len(H) + 1
      /\ \A i \in 1 .. Len(H) : H[i] = AsSent(S[i])
  BY DEF OneByOne
<1>3. Len(T) = 0
  BY <1>1, <1>2
<1>4. \A i \in 1 .. Len(T2) : T2[i] = p
  BY <1>1, <1>3
<1>5. Len(T2) + Len(H) <= Len(S)
  BY <1>1
<1> QED BY <1>2, <1>4, <1>5 DEF OneByOne, T2

-----------------------------------------------------------------------------
(* A handler reads a request and answers it.                               *)

LEMMA HandledIs ==
  ASSUME NEW S, Asked(S, Len(S)), Len(S) \in Nat, NEW T \in Seq(Seq(Byte)), NEW H \in Seq(Readable),
         NEW k \in 0 .. Len(S), Among(S, T, H, k), NEW i \in 1 .. Len(T)
  PROVE  \E j \in 1 .. k : /\ T[i] = PacketOf(S[j]) /\ RequestOf(T[i]) = AsSent(S[j])
                           /\ RequestOf(T[i]) \in Readable /\ Cmd(T[i]) = S[j].cmd
<1>1. PICK j \in 1 .. k : T[i] = PacketOf(S[j])
  BY DEF Among
<1>2. IsRequest(S[j])
  BY DEF Asked
<1>3. RequestOf(T[i]) = AsSent(S[j]) /\ Cmd(T[i]) = S[j].cmd
  BY <1>1, <1>2, PacketFacts
<1>4. AsSent(S[j]) \in Readable
  BY <1>2, RequestsAre DEF Readable
<1> QED BY <1>1, <1>3, <1>4

LEMMA SameCount ==
  ASSUME NEW T \in Seq(Seq(Byte)), NEW H \in Seq(Readable), NEW i \in 1 .. Len(T), NEW r \in Readable
  PROVE  Len(RemoveAt(T, i)) + Len(Append(H, r)) = Len(T) + Len(H)
<1>1. Len(RemoveAt(T, i)) = Len(T) - 1
  BY RemoveIs DEF Without
<1>2. Len(Append(H, r)) = Len(H) + 1
  BY AppendIs
<1>3. Len(T) \in Nat /\ Len(H) \in Nat
  OBVIOUS
<1> QED BY <1>1, <1>2, <1>3

LEMMA ListsHandled ==
  ASSUME NEW S, NEW T, NEW H, NEW A, NEW G, Lists(S, T, H, A, G), NEW i \in 1 .. Len(T),
         NEW r \in Readable, NEW a \in Answers
  PROVE  Lists(S, RemoveAt(T, i), Append(H, r), Append(A, a), G)
<1>1. /\ T \in Seq(Seq(Byte)) /\ H \in Seq(Readable) /\ A \in Seq(Answers)
      /\ Len(A) = Len(H) /\ Len(T) \in Nat /\ Len(H) \in Nat
  BY ListFacts
<1>2. RemoveAt(T, i) \in Seq(Seq(Byte)) /\ Len(RemoveAt(T, i)) = Len(T) - 1
  BY <1>1, RemoveIs DEF Without
<1>3. Append(H, r) \in Seq(Readable) /\ Len(Append(H, r)) = Len(H) + 1
  BY <1>1, AppendIs
<1>4. Append(A, a) \in Seq(Answers) /\ Len(Append(A, a)) = Len(A) + 1
  BY <1>1, AppendIs
<1>5. Len(Append(A, a)) = Len(Append(H, r))
  BY <1>1, <1>3, <1>4
<1> QED BY <1>2, <1>3, <1>4, <1>5 DEF Lists

LEMMA AmongHandled ==
  ASSUME NEW S, NEW k \in Nat, NEW T \in Seq(Seq(Byte)), NEW H \in Seq(Readable),
         Among(S, T, H, k), NEW i \in 1 .. Len(T), NEW r \in Readable,
         NEW j \in 1 .. k, r = AsSent(S[j])
  PROVE  Among(S, RemoveAt(T, i), Append(H, r), k)
<1> DEFINE T2 == RemoveAt(T, i)
           H2 == Append(H, r)
<1>0. Without(T2, T, i) /\ Len(T) \in Nat
  <2>1. Without(RemoveAt(T, i), T, i)
    BY RemoveIs
  <2> QED BY <2>1
<1> HIDE DEF T2
<1>1. \A l \in 1 .. Len(T2) : \E m \in 1 .. Len(T) : m # i /\ T2[l] = T[m]
  <2> SUFFICES ASSUME NEW l \in 1 .. Len(T2) PROVE \E m \in 1 .. Len(T) : m # i /\ T2[l] = T[m]
    OBVIOUS
  <2> DEFINE m == IF l < i THEN l ELSE l + 1
  <2>1. m \in 1 .. Len(T) /\ m # i /\ T2[l] = T[m]
    BY <1>0 DEF Without
  <2> HIDE DEF m
  <2> QED BY <2>1
<1>2. /\ Len(H2) = Len(H) + 1 /\ Len(H) \in Nat
      /\ \A l \in 1 .. Len(H) : H2[l] = H[l]
      /\ H2[Len(H) + 1] = r
  BY AppendIs
<1> HIDE DEF H2
<1>3. \A l \in 1 .. Len(T2) : \E m \in 1 .. k : T2[l] = PacketOf(S[m])
  BY <1>1 DEF Among
<1>4. ASSUME NEW l \in 1 .. Len(H2) PROVE \E m \in 1 .. k : H2[l] = AsSent(S[m])
  <2>1. CASE l = Len(H) + 1
    BY <2>1, <1>2
  <2>2. CASE l # Len(H) + 1
    <3>1. l \in 1 .. Len(H)
      BY <2>2, <1>2
    <3> QED BY <3>1, <1>2 DEF Among
  <2> QED BY <2>1, <2>2
<1> QED BY <1>3, <1>4 DEF Among, T2, H2

LEMMA OnceHandled ==
  ASSUME NEW T \in Seq(Seq(Byte)), NEW H \in Seq(Readable), Once(T, H), NEW i \in 1 .. Len(T),
         RequestOf(T[i]) \in Readable
  PROVE  Once(RemoveAt(T, i), Append(H, RequestOf(T[i])))
<1> DEFINE T2 == RemoveAt(T, i)
           r == RequestOf(T[i])
           H2 == Append(H, r)
<1>0. Without(T2, T, i) /\ Len(T) \in Nat
  <2>1. Without(RemoveAt(T, i), T, i)
    BY RemoveIs
  <2> QED BY <2>1
<1> HIDE DEF T2
<1>1. /\ \A l \in 1 .. Len(T2) : \E m \in 1 .. Len(T) : m # i /\ T2[l] = T[m]
      /\ \A l, k \in 1 .. Len(T2) : l # k =>
           \E m, o \in 1 .. Len(T) : m # o /\ T2[l] = T[m] /\ T2[k] = T[o]
  <2>1. ASSUME NEW l \in 1 .. Len(T2) PROVE \E m \in 1 .. Len(T) : m # i /\ T2[l] = T[m]
    BY <1>0, WithoutOne
  <2>2. ASSUME NEW l \in 1 .. Len(T2), NEW k \in 1 .. Len(T2), l # k
        PROVE  \E m, o \in 1 .. Len(T) : m # o /\ T2[l] = T[m] /\ T2[k] = T[o]
    BY <1>0, <2>2, WithoutTwo
  <2> QED BY <2>1, <2>2
<1> HIDE DEF r
<1>2. /\ Len(H2) = Len(H) + 1 /\ Len(H) \in Nat
      /\ \A l \in 1 .. Len(H) : H2[l] = H[l]
      /\ H2[Len(H) + 1] = r
  BY AppendIs DEF r
<1> HIDE DEF T2, H2
<1>3. \A l \in 1 .. Len(H2) : l = Len(H) + 1 \/ l \in 1 .. Len(H)
  BY <1>2
<1>4. /\ \A l, m \in 1 .. Len(T) : l # m => RequestOf(T[l]) # RequestOf(T[m])
      /\ \A l \in 1 .. Len(T), m \in 1 .. Len(H) : RequestOf(T[l]) # H[m]
      /\ \A l, m \in 1 .. Len(H) : l # m => H[l] # H[m]
  BY DEF Once
<1>5. ASSUME NEW l \in 1 .. Len(T2), NEW k \in 1 .. Len(T2), l # k
      PROVE  RequestOf(T2[l]) # RequestOf(T2[k])
  <2>1. PICK m \in 1 .. Len(T), o \in 1 .. Len(T) : m # o /\ T2[l] = T[m] /\ T2[k] = T[o]
    BY <1>1, <1>5
  <2> QED BY <2>1, <1>4
<1>6. ASSUME NEW l \in 1 .. Len(T2), NEW k \in 1 .. Len(H2)
      PROVE  RequestOf(T2[l]) # H2[k]
  <2>1. PICK m \in 1 .. Len(T) : m # i /\ T2[l] = T[m]
    BY <1>1
  <2>2. RequestOf(T[m]) # r /\ \A x \in 1 .. Len(H) : RequestOf(T[m]) # H[x]
    BY <2>1, <1>4 DEF r
  <2> QED BY <2>1, <2>2, <1>2, <1>3
<1>7. ASSUME NEW l \in 1 .. Len(H2), NEW k \in 1 .. Len(H2), l # k
      PROVE  H2[l] # H2[k]
  <2>1. \A x \in 1 .. Len(H) : H[x] # r
    BY <1>4 DEF r
  <2> QED BY <2>1, <1>2, <1>3, <1>4, <1>7
<1> QED BY <1>5, <1>6, <1>7 DEF Once, T2, H2, r

LEMMA OneHandled ==
  ASSUME NEW S, Asked(S, Len(S)), Len(S) \in Nat, NEW T \in Seq(Seq(Byte)), NEW H \in Seq(Readable),
         OneByOne(S, T, H), NEW i \in 1 .. Len(T), RequestOf(T[i]) \in Readable
  PROVE  /\ OneByOne(S, RemoveAt(T, i), Append(H, RequestOf(T[i])))
         /\ Cmd(T[i]) = S[Len(S)].cmd /\ Len(H) + 1 = Len(S)
<1> DEFINE T2 == RemoveAt(T, i)
           r == RequestOf(T[i])
           H2 == Append(H, r)
<1>1. Len(T) \in Nat /\ Len(T2) = Len(T) - 1
  BY RemoveIs DEF Without
<1>2. /\ Len(H2) = Len(H) + 1 /\ Len(H) \in Nat
      /\ \A l \in 1 .. Len(H) : H2[l] = H[l]
      /\ H2[Len(H) + 1] = r
  BY AppendIs
<1>3. /\ Len(T) + Len(H) <= Len(S) /\ Len(S) <= Len(H) + 1
      /\ \A l \in 1 .. Len(H) : H[l] = AsSent(S[l])
      /\ T[i] = PacketOf(S[Len(S)])
  BY DEF OneByOne
<1>4. Len(T) = 1 /\ Len(H) + 1 = Len(S) /\ Len(S) \in 1 .. Len(S)
  BY <1>1, <1>2, <1>3
<1>5. r = AsSent(S[Len(S)]) /\ Cmd(T[i]) = S[Len(S)].cmd
  BY <1>3, <1>4, PacketFacts DEF Asked
<1> HIDE DEF T2, H2, r
<1>6. Len(T2) = 0 /\ Len(T2) + Len(H2) <= Len(S) /\ Len(S) <= Len(H2) + 1
  BY <1>1, <1>2, <1>4
<1>7. \A l \in 1 .. Len(H2) : H2[l] = AsSent(S[l])
  <2> TAKE l \in 1 .. Len(H2)
  <2>1. l = Len(S) \/ l \in 1 .. Len(H)
    BY <1>2, <1>4
  <2> QED BY <2>1, <1>2, <1>3, <1>4, <1>5
<1>8. \A l \in 1 .. Len(T2) : FALSE
  BY <1>6
<1> QED BY <1>4, <1>5, <1>6, <1>7, <1>8 DEF OneByOne, T2, H2, r

LEMMA RepliedHandled ==
  ASSUME NEW S, NEW A \in Seq(Answers), NEW G \in Seq(Answers), Replied(S, A, G),
         Len(A) + 1 = Len(S), NEW a \in Answers
  PROVE  Replied(S, Append(A, a), G)
<1> DEFINE A2 == Append(A, a)
<1>1. /\ Len(A2) = Len(A) + 1 /\ Len(A) \in Nat /\ Len(G) \in Nat
      /\ \A l \in 1 .. Len(A) : A2[l] = A[l]
  BY AppendIs
<1> HIDE DEF A2
<1>2. /\ Len(G) <= Len(A) /\ Len(S) <= Len(G) + 1 /\ \A l \in 1 .. Len(G) : G[l] = A[l]
  BY DEF Replied
<1>3. \A l \in 1 .. Len(G) : G[l] = A2[l]
  BY <1>1, <1>2
<1>4. Len(G) <= Len(A2) /\ Len(A2) <= Len(S)
  BY <1>1, <1>2
<1> QED BY <1>2, <1>3, <1>4 DEF Replied, A2

LEMMA OneAnswerHandled ==
  ASSUME NEW S, NEW A \in Seq(Answers), NEW G \in Seq(Answers), Replied(S, A, G),
         Len(A) + 1 = Len(S), NEW a \in Answers,
         NEW C, OneAnswer(S, A, G, C), S[Len(S)].cmd \in Commands
  PROVE  OneAnswer(S, Append(A, a), G, C \o SendResult(S[Len(S)].cmd, a))
<1> DEFINE A2 == Append(A, a)
           p == SendResult(S[Len(S)].cmd, a)
<1>1. /\ Len(A2) = Len(A) + 1 /\ Len(A) \in Nat /\ Len(G) \in Nat
      /\ A2[Len(A) + 1] = a
  BY AppendIs
<1> HIDE DEF A2
<1>2. Len(G) <= Len(A) /\ Len(S) <= Len(G) + 1
  BY DEF Replied
<1>3. Len(G) = Len(A) /\ C = <<>>
  BY <1>1, <1>2 DEF OneAnswer
<1>4. p \in Seq(Byte)
  BY AnswerFacts
<1>5. p = SendResult(S[Len(A2)].cmd, A2[Len(A2)])
  BY <1>1
<1> HIDE DEF p
<1>6. C \o p = p
  BY <1>3, <1>4, NothingBefore
<1>7. Len(G) = Len(A2) - 1
  BY <1>1, <1>3
<1> QED BY <1>5, <1>6, <1>7 DEF OneAnswer, A2, p

-----------------------------------------------------------------------------
(* The view reads an answer.                                               *)

LEMMA AnswerTaken ==
  ASSUME NEW S, Asked(S, Len(S)), Len(S) \in Nat, NEW A \in Seq(Answers), NEW G \in Seq(Answers),
         Replied(S, A, G), NEW b \in Seq(Byte), NEW d \in Seq(Byte), OneAnswer(S, A, G, b \o d),
         PduProtocol(b) > 0
  PROVE  /\ Answer(b) = A[Len(A)] /\ Answer(b) \in Answers /\ d = <<>>
         /\ Replied(S, A, Append(G, Answer(b))) /\ OneAnswer(S, A, Append(G, Answer(b)), <<>>)
<1>1. Len(b) >= 16 /\ Len(b) \in Nat /\ Len(d) \in Nat /\ Len(b \o d) = Len(b) + Len(d)
  BY NotEmpty, BytesConcat
<1>2. b \o d # <<>>
  BY <1>1, NoBytes
<1>3. Len(A) \in Nat /\ Len(G) \in Nat
  OBVIOUS
<1>4. /\ Len(A) <= Len(S) /\ Len(S) <= Len(G) + 1 /\ \A l \in 1 .. Len(G) : G[l] = A[l]
  BY DEF Replied
<1> DEFINE c == S[Len(A)].cmd
           a == A[Len(A)]
           p == SendResult(c, a)
<1>5. Len(G) = Len(A) - 1 /\ b \o d = p
  BY <1>2 DEF OneAnswer
<1>6. Len(A) \in 1 .. Len(S) /\ Len(A) \in 1 .. Len(A)
  BY <1>3, <1>4, <1>5
<1>7. a \in Answers
  BY <1>6, ElementOf
<1>8. c \in Commands
  BY <1>6 DEF Asked, IsRequest
<1> HIDE DEF c, a
<1>9. p \in Seq(Byte) /\ Len(p) \in Nat /\ Whole(p) /\ Answer(p) = a
  BY <1>7, <1>8, AnswerFacts
<1> HIDE DEF p
<1>10. StartsWith(b \o d, p)
  BY <1>5, <1>9 DEF StartsWith
<1>11. Len(p) <= Len(b)
  BY <1>9, <1>10, FirstPacket
<1>12. Len(d) = 0
  BY <1>1, <1>5, <1>9, <1>11
<1>13. d = <<>>
  BY <1>12
<1>14. b = p
  BY <1>5, <1>13, ConcatNothing
<1>15. Answer(b) = a
  BY <1>9, <1>14
<1> DEFINE G2 == Append(G, a)
<1>16. /\ Len(G2) = Len(G) + 1
       /\ \A l \in 1 .. Len(G) : G2[l] = G[l]
       /\ G2[Len(G) + 1] = a
  BY <1>7, AppendIs
<1> HIDE DEF G2
<1>17. Len(G2) = Len(A)
  BY <1>3, <1>5, <1>16
<1>18. \A l \in 1 .. Len(G2) : G2[l] = A[l]
  <2> TAKE l \in 1 .. Len(G2)
  <2>1. l = Len(A) \/ l \in 1 .. Len(G)
    BY <1>3, <1>5, <1>17
  <2> QED BY <2>1, <1>3, <1>4, <1>5, <1>16 DEF a
<1>19. Replied(S, A, G2)
  BY <1>3, <1>4, <1>17, <1>18 DEF Replied
<1>20. OneAnswer(S, A, G2, <<>>)
  BY <1>17 DEF OneAnswer
<1> QED BY <1>7, <1>13, <1>15, <1>19, <1>20 DEF G2, a

-----------------------------------------------------------------------------
(* The invariant.                                                          *)

\* What the server and what the client has not read; what the server has.
Unread == (buf \o arrived) \o up
Unseen == (cbuf \o here) \o down
Requested == Len(tasks) + Len(handled)

\* The types.
Scalars ==
  /\ client \in {"view", "test", "tress"}
  /\ first \in 0 .. MaxNumber
  /\ overlap \in BOOLEAN
  /\ conn \in {"open", "closed", "refused", "astray", "lost"}

UpBytes == up \in Seq(Byte) /\ arrived \in Seq(Byte) /\ buf \in Seq(Byte)
DownBytes == down \in Seq(Byte) /\ here \in Seq(Byte) /\ cbuf \in Seq(Byte)

TypeOK == Scalars /\ UpBytes /\ DownBytes /\ Lists(sent, tasks, handled, answered, got)

\* Every task and every handled request is a request that was sent, and as
\* long as the connection is followed the rest of them is still to be read.
Carried == Split(sent, tasks, handled, Unread, conn = "open")

\* Without overlap, what the server has not read is the last request or nothing.
WithoutOverlap == conn = "open" /\ ~overlap => LastOnly(sent, Requested, Unread)

\* test.cpp numbers its requests, and none becomes two tasks.
Test == client = "test" => first = 0 /\ ByTest(sent) /\ Once(tasks, handled)

\* A view or tress.cpp has one request under way.
InTurn == client # "test" => ~overlap /\ OneByOne(sent, tasks, handled)

\* What a view has read and has not read of its answers.
View ==
  client = "view" =>
    Replied(sent, answered, got) /\ (conn = "open" => OneAnswer(sent, answered, got, Unseen))

IInv == TypeOK /\ Carried /\ WithoutOverlap /\ Test /\ InTurn /\ View

-----------------------------------------------------------------------------
LEMMA MaxNumberIs == MaxNumber \in Nat
BY SMT DEF MaxNumber

LEMMA Nothing == <<>> \o <<>> = <<>> /\ Len(<<>>) = 0
OBVIOUS

LEMMA EmptyLists ==
  /\ Lists(<<>>, <<>>, <<>>, <<>>, <<>>) /\ Split(<<>>, <<>>, <<>>, <<>>, TRUE)
  /\ LastOnly(<<>>, 0, <<>>) /\ ByTest(<<>>) /\ Once(<<>>, <<>>)
  /\ OneByOne(<<>>, <<>>, <<>>) /\ Replied(<<>>, <<>>, <<>>) /\ OneAnswer(<<>>, <<>>, <<>>, <<>>)
<1>1. Len(<<>>) = 0 /\ MaxCalls >= 0
  BY StreamAssumption
<1>2. Lists(<<>>, <<>>, <<>>, <<>>, <<>>)
  <2>1. \A E : <<>> \in Seq(E)
    OBVIOUS
  <2>2. Len(<<>>) <= MaxCalls
    BY <1>1
  <2> QED BY <2>1, <2>2 DEF Lists
<1>3. Split(<<>>, <<>>, <<>>, <<>>, TRUE)
  <2>1. 0 \in 0 .. Len(<<>>)
    BY <1>1
  <2>2. Among(<<>>, <<>>, <<>>, 0)
    BY <1>1 DEF Among
  <2>3. Joined(<<>>, 0, Len(<<>>)) = <<>>
    BY <1>1, JoinedNone
  <2> QED BY <2>1, <2>2, <2>3 DEF Split
<1>4. LastOnly(<<>>, 0, <<>>) /\ ByTest(<<>>) /\ Once(<<>>, <<>>)
  BY <1>1 DEF LastOnly, ByTest, Once
<1>5. OneByOne(<<>>, <<>>, <<>>) /\ Replied(<<>>, <<>>, <<>>) /\ OneAnswer(<<>>, <<>>, <<>>, <<>>)
  BY <1>1 DEF OneByOne, Replied, OneAnswer
<1> QED BY <1>2, <1>3, <1>4, <1>5

LEMMA InitInv == Init => IInv
<1> SUFFICES ASSUME Init PROVE IInv
  OBVIOUS
<1>1. /\ client \in Clients /\ first \in (IF client = "tress" THEN Starts ELSE {0})
      /\ conn = "open" /\ sent = << >> /\ overlap = FALSE
      /\ up = << >> /\ arrived = << >> /\ buf = << >>
      /\ tasks = << >> /\ handled = << >> /\ answered = << >>
      /\ down = << >> /\ here = << >> /\ cbuf = << >> /\ got = << >>
  BY DEF Init
<1>2. Scalars /\ (client = "test" => first = 0)
  <2>1. client \in {"view", "test", "tress"}
    BY <1>1, StreamAssumption
  <2>2. 0 \in 0 .. MaxNumber
    BY MaxNumberIs
  <2>3. first \in 0 .. MaxNumber /\ (client = "test" => first = 0)
    BY <1>1, <2>2, StreamAssumption
  <2> QED BY <1>1, <2>1, <2>3 DEF Scalars
<1>3. UpBytes /\ DownBytes
  BY <1>1, NoBytes DEF UpBytes, DownBytes
<1>4. Unread = <<>> /\ Unseen = <<>> /\ Requested = 0
  <2>1. Unread = <<>> /\ Unseen = <<>>
    BY <1>1, Nothing DEF Unread, Unseen
  <2>2. Requested = Len(<<>>) + Len(<<>>)
    BY <1>1 DEF Requested
  <2>3. Requested = 0
    BY <2>2, Nothing
  <2> QED BY <2>1, <2>3
<1>5. TypeOK
  BY <1>1, <1>2, <1>3, EmptyLists DEF TypeOK
<1>6. Carried
  <2>1. (conn = "open") = TRUE
    BY <1>1
  <2>2. Split(<<>>, <<>>, <<>>, <<>>, conn = "open")
    BY <2>1, EmptyLists
  <2> QED BY <1>1, <1>4, <2>2 DEF Carried
<1>7. WithoutOverlap
  BY <1>1, <1>4, EmptyLists DEF WithoutOverlap
<1>8. Test /\ InTurn
  BY <1>1, <1>2, EmptyLists DEF Test, InTurn
<1>9. View
  BY <1>1, <1>4, EmptyLists DEF View
<1> QED BY <1>5, <1>6, <1>7, <1>8, <1>9 DEF IInv

-----------------------------------------------------------------------------
(* Concatenations of bytes.                                                *)

LEMMA ThreeParts ==
  ASSUME NEW x \in Seq(Byte), NEW y \in Seq(Byte), NEW z \in Seq(Byte)
  PROVE  x \o y \in Seq(Byte) /\ (x \o y) \o z \in Seq(Byte)
<1>1. x \o y \in Seq(Byte)
  BY BytesConcat
<1> QED BY <1>1, BytesConcat

\* (x, y), then z and w: the parts may be grouped in any way.
Grouped(x, y, z, w) == (x \o y) \o (z \o w) = ((x \o y) \o z) \o w

LEMMA Regroup ==
  ASSUME NEW x \in Seq(Byte), NEW y \in Seq(Byte), NEW z \in Seq(Byte), NEW w \in Seq(Byte)
  PROVE  Grouped(x, y, z, w)
<1>1. x \o y \in Seq(Byte)
  BY BytesConcat
<1>2. ((x \o y) \o z) \o w = (x \o y) \o (z \o w)
  BY <1>1, Assoc
<1> QED BY <1>2 DEF Grouped

LEMMA OnlyTheRest ==
  ASSUME NEW z \in Seq(Byte)
  PROVE  (<<>> \o <<>>) \o z = z
BY Nothing, NothingBefore

-----------------------------------------------------------------------------
(* Every step keeps the invariant.                                         *)

LEMMA StateFacts ==
  ASSUME IInv
  PROVE  /\ Scalars /\ UpBytes /\ DownBytes /\ Lists(sent, tasks, handled, answered, got)
         /\ Len(sent) \in Nat /\ Len(tasks) \in Nat /\ Len(handled) \in Nat
         /\ Len(answered) \in Nat /\ Len(got) \in Nat /\ Requested \in Nat
         /\ Requested = Len(tasks) + Len(handled) /\ Len(answered) = Len(handled)
         /\ Asked(sent, Len(sent)) /\ tasks \in Seq(Seq(Byte)) /\ handled \in Seq(Readable)
         /\ answered \in Seq(Answers) /\ got \in Seq(Answers)
         /\ Unread \in Seq(Byte) /\ Unseen \in Seq(Byte)
<1>1. Scalars /\ UpBytes /\ DownBytes /\ Lists(sent, tasks, handled, answered, got)
  BY DEF IInv, TypeOK
<1>2. /\ Len(sent) \in Nat /\ Len(tasks) \in Nat /\ Len(handled) \in Nat
      /\ Len(answered) \in Nat /\ Len(got) \in Nat /\ Len(answered) = Len(handled)
      /\ Asked(sent, Len(sent)) /\ tasks \in Seq(Seq(Byte)) /\ handled \in Seq(Readable)
      /\ answered \in Seq(Answers) /\ got \in Seq(Answers)
  BY <1>1, ListFacts
<1>3. Requested \in Nat /\ Requested = Len(tasks) + Len(handled)
  BY <1>2 DEF Requested
<1>4. Unread \in Seq(Byte)
  BY <1>1, ThreeParts DEF UpBytes, Unread
<1>5. Unseen \in Seq(Byte)
  BY <1>1, ThreeParts DEF DownBytes, Unseen
<1> QED BY <1>1, <1>2, <1>3, <1>4, <1>5

\* A client sends a request.  It may, if it is test.cpp or if all requests
\* have been handled.
LEMMA SendStep ==
  ASSUME IInv, NEW r, IsRequest(r), Send(r), conn = "open",
         UNCHANGED << client, first, conn, arrived, buf, tasks, handled >>,
         client = "test" => r = TestRequest(Len(sent) + 1),
         client # "test" => Len(handled) = Len(sent)
  PROVE  /\ Scalars' /\ UpBytes' /\ Lists(sent', tasks', handled', answered, got)
         /\ Carried' /\ WithoutOverlap' /\ Test' /\ InTurn'
         /\ Extends(sent', sent, r)
<1> DEFINE p == PacketOf(r)
           n == Len(sent)
<1>1. /\ Len(sent) < MaxCalls /\ sent' = Append(sent, r) /\ up' = up \o p
      /\ overlap' = (overlap \/ Unread # <<>>)
  BY DEF Send, Unread
<1>2. p \in Seq(Byte) /\ Len(p) \in Nat
  BY PacketFacts
<1> HIDE DEF p
<1>3. /\ Lists(sent', tasks, handled, answered, got) /\ Extends(sent', sent, r)
      /\ Asked(sent', Len(sent'))
  BY <1>1, StateFacts, ListsSent
<1>4. Len(sent') = Len(sent) + 1 /\ sent'[Len(sent) + 1] = r /\ \A i \in 1 .. Len(sent) : sent'[i] = sent[i]
  BY <1>3 DEF Extends
<1>5. Scalars' /\ overlap' \in BOOLEAN
  <2>1. overlap' \in BOOLEAN
    BY <1>1
  <2> QED BY <2>1, StateFacts DEF Scalars
<1>6. UpBytes'
  <2>1. up' \in Seq(Byte)
    BY <1>1, <1>2, StateFacts, BytesConcat DEF UpBytes
  <2> QED BY <2>1, StateFacts DEF UpBytes
<1>7. Unread' = Unread \o p
  <2>1. (buf \o arrived) \o (up \o p) = ((buf \o arrived) \o up) \o p
    <3>1. buf \in Seq(Byte) /\ arrived \in Seq(Byte) /\ up \in Seq(Byte)
      BY StateFacts DEF UpBytes
    <3>2. Grouped(buf, arrived, up, p)
      BY <1>2, <3>1, Regroup
    <3> QED BY <3>2 DEF Grouped
  <2> QED BY <1>1, <2>1 DEF Unread
<1>8. Carried'
  <2>1. Split(sent, tasks, handled, Unread, conn = "open")
    BY DEF IInv, Carried
  <2>2. Split(sent', tasks, handled, Unread \o p, conn = "open")
    BY <2>1, <1>3, SplitSent DEF p
  <2> QED BY <2>2, <1>7 DEF Carried
<1>9. Requested' = Requested
  BY DEF Requested
<1>10. ASSUME ~overlap' PROVE LastOnly(sent', Requested, Unread \o p)
  <2>1. ~overlap /\ Unread = <<>>
    BY <1>1, <1>10
  <2>2. LastOnly(sent, Requested, <<>>)
    BY <2>1 DEF IInv, WithoutOverlap
  <2>3. LastOnly(sent', Requested, p)
    BY <2>2, <1>3, StateFacts, LastSent DEF p
  <2>4. Unread \o p = p
    BY <2>1, <1>2, NothingBefore
  <2> QED BY <2>3, <2>4
<1>11. WithoutOverlap'
  BY <1>7, <1>9, <1>10 DEF WithoutOverlap
<1>12. Test'
  <2> SUFFICES ASSUME client = "test" PROVE first = 0 /\ ByTest(sent') /\ Once(tasks, handled)
    BY DEF Test
  <2>1. first = 0 /\ ByTest(sent) /\ Once(tasks, handled)
    BY DEF IInv, Test
  <2>2. \A i \in 1 .. Len(sent') : i \in 1 .. Len(sent) \/ i = Len(sent) + 1
    BY <1>4, StateFacts
  <2>3. ByTest(sent')
    BY <2>1, <2>2, <1>4 DEF ByTest
  <2> QED BY <2>1, <2>3
<1>13. InTurn'
  <2> SUFFICES ASSUME client # "test" PROVE ~overlap' /\ OneByOne(sent', tasks, handled)
    BY DEF InTurn
  <2>1. ~overlap /\ OneByOne(sent, tasks, handled) /\ Len(handled) = Len(sent)
    BY DEF IInv, InTurn
  <2>2. OneByOne(sent', tasks, handled)
    BY <2>1, <1>3, StateFacts, OneSent
  <2>3. LastOnly(sent, Requested, Unread)
    BY <2>1 DEF IInv, WithoutOverlap
  <2>4. Requested # Len(sent) - 1
    BY <2>1, StateFacts
  <2>5. Unread = <<>>
    BY <2>3, <2>4 DEF LastOnly
  <2> QED BY <1>1, <2>1, <2>2, <2>5
<1>14. Lists(sent', tasks', handled', answered, got)
  BY <1>3
<1> QED BY <1>3, <1>5, <1>6, <1>8, <1>11, <1>12, <1>13, <1>14

LEMMA ViewCallStep ==
  ASSUME IInv, NEW r \in Calls, ViewCall(r)
  PROVE  IInv'
<1>1. /\ client = "view" /\ conn = "open" /\ ~(Len(got) < Len(sent)) /\ Send(r)
      /\ UNCHANGED << client, first, conn, arrived, buf, tasks, handled, answered, down, here, cbuf, got >>
  BY DEF ViewCall, Waiting, downward
<1>2. IsRequest(r)
  BY StreamAssumption DEF IsRequest, Commands
<1>3. Replied(sent, answered, got) /\ OneAnswer(sent, answered, got, Unseen)
  BY <1>1 DEF IInv, View
<1>4. Len(handled) = Len(sent)
  <2>1. Len(got) <= Len(answered) /\ Len(answered) <= Len(sent)
    BY <1>3 DEF Replied
  <2> QED BY <1>1, <2>1, StateFacts
<1>5. /\ Scalars' /\ UpBytes' /\ Lists(sent', tasks', handled', answered, got)
      /\ Carried' /\ WithoutOverlap' /\ Test' /\ InTurn'
      /\ Extends(sent', sent, r)
  BY <1>1, <1>2, <1>4, SendStep
<1>6. DownBytes'
  BY <1>1, StateFacts DEF DownBytes
<1>7. TypeOK'
  BY <1>1, <1>5, <1>6 DEF TypeOK
<1>8. Unseen' = Unseen
  BY <1>1 DEF Unseen
<1>9. Replied(sent', answered, got) /\ OneAnswer(sent', answered, got, Unseen)
  BY <1>1, <1>3, <1>5, StateFacts, RepliedSent
<1>10. View'
  BY <1>1, <1>8, <1>9 DEF View
<1> QED BY <1>5, <1>7, <1>10 DEF IInv

LEMMA TestRoundStep ==
  ASSUME IInv, TestRound
  PROVE  IInv'
<1> DEFINE n == Len(sent)
           r == [cmd |-> REGISTER, msg |-> RegisterReq(Name(first + n), first + n + 1, Passwd, 1)]
<1>1. /\ client = "test" /\ conn = "open" /\ Send(r) /\ here' = <<>>
      /\ UNCHANGED << client, first, conn, arrived, buf, tasks, handled, answered, down, cbuf, got >>
  BY DEF TestRound
<1>2. first = 0
  BY <1>1 DEF IInv, Test
<1>3. n \in Nat
  BY StateFacts
<1>4. r = TestRequest(n + 1)
  <2>1. first + n = n /\ (n + 1) - 1 = n
    BY <1>2, <1>3
  <2> QED BY <2>1 DEF TestRequest
<1>5. IsRequest(r)
  <2>1. n < MaxCalls
    BY <1>1 DEF Send
  <2>2. MaxCalls \in 0 .. MaxNumber
    BY StreamAssumption
  <2>3. n <= MaxNumber /\ n + 1 \in Nat /\ n + 1 <= MaxNumber + 1
    BY <1>3, <2>1, <2>2, MaxNumberIs
  <2>4. (n + 1) - 1 = n
    BY <1>3
  <2>5. TestRequest(n + 1) = [cmd |-> REGISTER, msg |-> RegisterReq(Name(n), n + 1, Passwd, 1)]
    BY <2>4 DEF TestRequest
  <2> HIDE DEF r
  <2> DEFINE m == n + 1
  <2> HIDE DEF m
  <2>6. m \in Nat /\ m <= MaxNumber + 1
    BY <2>3 DEF m
  <2>7. IsRequest([cmd |-> REGISTER, msg |-> RegisterReq(Name(n), m, Passwd, 1)])
    BY <1>3, <2>3, <2>6, RegisterIsRequest
  <2> QED BY <1>4, <2>5, <2>7 DEF m
<1> HIDE DEF r
<1>6. /\ Scalars' /\ UpBytes' /\ Lists(sent', tasks', handled', answered, got)
      /\ Carried' /\ WithoutOverlap' /\ Test' /\ InTurn'
  BY <1>1, <1>4, <1>5, SendStep
<1>7. DownBytes'
  BY <1>1, StateFacts, NoBytes DEF DownBytes
<1>8. TypeOK'
  BY <1>1, <1>6, <1>7 DEF TypeOK
<1>9. View'
  BY <1>1 DEF View
<1> QED BY <1>6, <1>8, <1>9 DEF IInv

\* tress.cpp makes one request.
LEMMA TressStep ==
  ASSUME IInv, NEW r, IsRequest(r), client = "tress", conn = "open", sent = <<>>, Send(r),
         UNCHANGED << client, first, conn, arrived, buf, tasks, handled, answered, down, here, cbuf, got >>
  PROVE  IInv'
<1>1. Len(handled) = Len(sent)
  <2>1. Len(sent) = 0
    BY Nothing
  <2>2. Len(tasks) + Len(handled) <= Len(sent)
    BY DEF IInv, InTurn, OneByOne
  <2> QED BY <2>1, <2>2, StateFacts
<1>2. /\ Scalars' /\ UpBytes' /\ Lists(sent', tasks', handled', answered, got)
      /\ Carried' /\ WithoutOverlap' /\ Test' /\ InTurn'
  BY <1>1, SendStep
<1>3. DownBytes'
  BY StateFacts DEF DownBytes
<1>4. TypeOK'
  BY <1>2, <1>3 DEF TypeOK
<1>5. View'
  BY DEF View
<1> QED BY <1>2, <1>4, <1>5 DEF IInv

LEMMA TressLoginStep ==
  ASSUME IInv, TressLogin
  PROVE  IInv'
<1> DEFINE r == [cmd |-> LOGIN, msg |-> LoginReq(first, Passwd, 0)]
<1>1. first \in Nat /\ first <= MaxNumber
  BY StateFacts, MaxNumberIs DEF Scalars
<1>2. IsRequest(r)
  BY <1>1, LoginIsRequest
<1>3. /\ client = "tress" /\ conn = "open" /\ sent = <<>> /\ Send(r)
      /\ UNCHANGED << client, first, conn, arrived, buf, tasks, handled, answered, down, here, cbuf, got >>
  BY DEF TressLogin, downward
<1> HIDE DEF r
<1> QED BY <1>2, <1>3, TressStep

LEMMA TressRegisterStep ==
  ASSUME IInv, TressRegister
  PROVE  IInv'
<1> DEFINE r == [cmd |-> REGISTER, msg |-> RegisterReq(Name(first), first, Passwd, 0)]
<1>1. first \in Nat /\ first <= MaxNumber /\ first <= MaxNumber + 1
  BY StateFacts, MaxNumberIs DEF Scalars
<1>2. IsRequest(r)
  BY <1>1, RegisterIsRequest
<1>3. /\ client = "tress" /\ conn = "open" /\ sent = <<>> /\ Send(r)
      /\ UNCHANGED << client, first, conn, arrived, buf, tasks, handled, answered, down, here, cbuf, got >>
  BY DEF TressRegister, downward
<1> HIDE DEF r
<1> QED BY <1>2, <1>3, TressStep

\* A step that leaves the lists and what is not read as they are.
LEMMA SameLists ==
  ASSUME IInv, Scalars', UpBytes', DownBytes',
         UNCHANGED << client, first, sent, overlap, tasks, handled, answered, got >>,
         conn' = conn, Unread' = Unread, client = "view" => Unseen' = Unseen
  PROVE  IInv'
<1>1. TypeOK'
  BY StateFacts DEF TypeOK
<1>2. Carried'
  BY DEF IInv, Carried
<1>3. WithoutOverlap'
  BY DEF IInv, WithoutOverlap, Requested
<1>4. Test' /\ InTurn' /\ View'
  BY DEF IInv, Test, InTurn, View
<1> QED BY <1>1, <1>2, <1>3, <1>4 DEF IInv

\* The connection ends or is not followed any further.
LEMMA EndStep ==
  ASSUME IInv, Scalars', UpBytes', DownBytes',
         UNCHANGED << client, first, sent, overlap, tasks, handled, answered, got >>,
         conn' # "open"
  PROVE  IInv'
<1>1. TypeOK'
  BY StateFacts DEF TypeOK
<1>2. Carried'
  <2>1. PICK k \in 0 .. Len(sent) : Among(sent, tasks, handled, k)
    BY DEF IInv, Carried, Split
  <2> QED BY <2>1 DEF Carried, Split
<1>3. WithoutOverlap'
  BY DEF WithoutOverlap
<1>4. Test' /\ InTurn' /\ View'
  BY DEF IInv, Test, InTurn, View
<1> QED BY <1>1, <1>2, <1>3, <1>4 DEF IInv

LEMMA TressReadStep ==
  ASSUME IInv, TressRead
  PROVE  IInv'
<1>1. /\ conn' = "closed" /\ here' = <<>>
      /\ UNCHANGED << client, first, sent, overlap, up, arrived, buf, tasks, handled, answered,
                      down, cbuf, got >>
  BY DEF TressRead, upward
<1>2. Scalars' /\ UpBytes' /\ DownBytes'
  BY <1>1, StateFacts, NoBytes DEF Scalars, UpBytes, DownBytes
<1> QED BY <1>1, <1>2, EndStep

LEMMA DeliverUpStep ==
  ASSUME IInv, DeliverUp
  PROVE  IInv'
<1>1. /\ up # <<>> /\ arrived' = Append(arrived, Head(up)) /\ up' = Tail(up)
      /\ UNCHANGED << client, first, conn, sent, overlap, buf, tasks, handled, answered,
                      down, here, cbuf, got >>
  BY DEF DeliverUp, downward
<1>2. buf \in Seq(Byte) /\ arrived \in Seq(Byte) /\ up \in Seq(Byte)
  BY StateFacts DEF UpBytes
<1>0. Moved(buf, arrived, up)
  BY <1>1, <1>2, MoveByte
<1>3. /\ Append(arrived, Head(up)) \in Seq(Byte) /\ Tail(up) \in Seq(Byte)
      /\ (buf \o Append(arrived, Head(up))) \o Tail(up) = (buf \o arrived) \o up
  BY <1>0 DEF Moved
<1>4. Unread' = Unread
  BY <1>1, <1>3 DEF Unread
<1>5. Unseen' = Unseen
  BY <1>1 DEF Unseen
<1>6. Scalars' /\ UpBytes' /\ DownBytes'
  BY <1>1, <1>2, <1>3, StateFacts DEF Scalars, UpBytes, DownBytes
<1> QED BY <1>1, <1>4, <1>5, <1>6, SameLists

LEMMA DeliverDownStep ==
  ASSUME IInv, DeliverDown
  PROVE  IInv'
<1>1. /\ down # <<>> /\ here' = Append(here, Head(down)) /\ down' = Tail(down)
      /\ UNCHANGED << client, first, conn, sent, overlap, up, arrived, buf, tasks, handled, answered,
                      cbuf, got >>
  BY DEF DeliverDown, upward
<1>2. cbuf \in Seq(Byte) /\ here \in Seq(Byte) /\ down \in Seq(Byte)
  BY StateFacts DEF DownBytes
<1>0. Moved(cbuf, here, down)
  BY <1>1, <1>2, MoveByte
<1>3. /\ Append(here, Head(down)) \in Seq(Byte) /\ Tail(down) \in Seq(Byte)
      /\ (cbuf \o Append(here, Head(down))) \o Tail(down) = (cbuf \o here) \o down
  BY <1>0 DEF Moved
<1>4. Unseen' = Unseen
  BY <1>1, <1>3 DEF Unseen
<1>5. Unread' = Unread
  BY <1>1 DEF Unread
<1>6. Scalars' /\ UpBytes' /\ DownBytes'
  BY <1>1, <1>2, <1>3, StateFacts DEF Scalars, UpBytes, DownBytes
<1> QED BY <1>1, <1>4, <1>5, <1>6, SameLists

LEMMA RecvBufStep ==
  ASSUME IInv, RecvBuf
  PROVE  IInv'
<1> DEFINE b == buf \o arrived
           len == PduProtocol(b)
           p == SubSeq(b, 1, len)
           n == Len(sent)
<1>1. /\ conn = "open" /\ arrived' = <<>>
      /\ \/ /\ len < 0
            /\ conn' = "refused" /\ buf' = << >> /\ tasks' = tasks
         \/ /\ len = 0
            /\ conn' = conn /\ buf' = b /\ tasks' = tasks
         \/ /\ len > 0
            /\ conn' = IF AtBoundary(up) THEN conn ELSE "astray"
            /\ buf' = << >>
            /\ tasks' = Append(tasks, p)
      /\ UNCHANGED << client, first, sent, overlap, up, handled, answered, down, here, cbuf, got >>
  BY DEF RecvBuf, downward
<1>2. /\ buf \in Seq(Byte) /\ arrived \in Seq(Byte) /\ up \in Seq(Byte) /\ b \in Seq(Byte)
      /\ Unread = b \o up
  <2>1. buf \in Seq(Byte) /\ arrived \in Seq(Byte) /\ up \in Seq(Byte)
    BY StateFacts DEF UpBytes
  <2> QED BY <2>1, BytesConcat DEF Unread
<1>3. DownBytes' /\ Unseen' = Unseen
  BY <1>1, StateFacts DEF DownBytes, Unseen
<1> HIDE DEF b, p
<1>4. CASE conn' = "refused" /\ buf' = << >> /\ tasks' = tasks
  <2>1. conn' = "refused" /\ buf' = <<>> /\ tasks' = tasks
    BY <1>4
  <2>2. Scalars' /\ UpBytes'
    BY <1>1, <1>2, <2>1, StateFacts, NoBytes DEF Scalars, UpBytes
  <2> QED BY <1>1, <1>3, <2>1, <2>2, EndStep
<1>5. CASE conn' = conn /\ buf' = b /\ tasks' = tasks
  <2>1. conn' = conn /\ buf' = b /\ tasks' = tasks
    BY <1>5
  <2>2. Scalars' /\ UpBytes'
    BY <1>1, <1>2, <2>1, StateFacts, NoBytes DEF Scalars, UpBytes
  <2>3. b \o <<>> = b
    BY <1>2, ConcatNothing
  <2>4. Unread' = Unread
    BY <1>1, <1>2, <2>1, <2>3 DEF Unread
  <2> QED BY <1>1, <1>3, <2>1, <2>2, <2>4, SameLists
<1>6. CASE /\ len > 0
           /\ conn' = IF AtBoundary(up) THEN conn ELSE "astray"
           /\ buf' = << >> /\ tasks' = Append(tasks, p)
  <2>1. /\ conn' = IF AtBoundary(up) THEN conn ELSE "astray"
        /\ buf' = << >> /\ tasks' = Append(tasks, p)
    BY <1>6
  <2>2. n \in Nat /\ Asked(sent, n) /\ tasks \in Seq(Seq(Byte))
    BY StateFacts
  <2>3. PICK k \in 0 .. n - 1 :
          /\ Among(sent, tasks, handled, k)
          /\ p = PacketOf(sent[k + 1])
          /\ \A l \in 0 .. n : up = Joined(sent, l, n) => k + 1 <= l
    <3>1. Split(sent, tasks, handled, b \o up, TRUE)
      BY <1>1, <1>2 DEF IInv, Carried, Split
    <3> QED BY <1>2, <1>6, <2>2, <3>1, Taken DEF p
  <2>4. p \in Seq(Byte)
    <3>1. k + 1 \in 1 .. n
      BY <2>2
    <3> QED BY <2>2, <2>3, <3>1, PacketBytes
  <2>5. Unread' = up
    BY <1>1, <1>2, <2>1, OnlyTheRest DEF Unread
  <2>6. Scalars'
    BY <1>1, <2>1, StateFacts DEF Scalars
  <2>7. UpBytes'
    BY <1>1, <1>2, <2>1, NoBytes DEF UpBytes
  <2>8. Append(tasks, p) \in Seq(Seq(Byte)) /\ Len(Append(tasks, p)) = Len(tasks) + 1
    BY <2>2, <2>4, AppendIs
  <2>9. TypeOK'
    <3>1. Lists(sent, Append(tasks, p), handled, answered, got)
      BY <2>8, StateFacts DEF Lists
    <3> QED BY <1>1, <1>3, <2>1, <2>6, <2>7, <3>1 DEF TypeOK
  <2>10. Carried'
    <3>1. PICK l \in 0 .. n : k + 1 <= l /\ (conn' = "open" => up = Joined(sent, l, n))
      <4>1. CASE AtBoundary(up)
        <5>1. PICK l \in 0 .. n : up = Joined(sent, l, n)
          BY <4>1 DEF AtBoundary, Joined
        <5> QED BY <5>1, <2>3
      <4>2. CASE ~AtBoundary(up)
        <5>1. conn' # "open" /\ n \in 0 .. n /\ k + 1 <= n
          BY <2>1, <2>2, <4>2
        <5> QED BY <5>1
      <4> QED BY <4>1, <4>2
    <3>2. Split(sent, Append(tasks, p), handled, up, conn' = "open")
      BY <2>2, <2>3, <2>4, <3>1, SplitTaken
    <3> QED BY <1>1, <2>1, <2>5, <3>2 DEF Carried
  <2>11. ASSUME ~overlap
         PROVE  /\ Requested + 1 = n /\ up = <<>> /\ LastOnly(sent, Requested + 1, <<>>)
                /\ p = PacketOf(sent[n])
    <3>1. LastOnly(sent, Requested, b \o up)
      BY <1>1, <1>2, <2>11 DEF IInv, WithoutOverlap
    <3> QED BY <1>2, <1>6, <2>2, <3>1, StateFacts, LastTaken DEF p
  <2>12. Requested' = Requested + 1
    BY <1>1, <2>1, <2>8, StateFacts DEF Requested
  <2>13. WithoutOverlap'
    BY <1>1, <2>5, <2>11, <2>12 DEF WithoutOverlap
  <2>14. Test'
    <3> SUFFICES ASSUME client = "test" PROVE first = 0 /\ ByTest(sent) /\ Once(Append(tasks, p), handled)
      BY <1>1, <2>1 DEF Test
    <3>1. first = 0 /\ ByTest(sent) /\ Once(tasks, handled)
      BY DEF IInv, Test
    <3> QED BY <2>2, <2>3, <2>4, <3>1, OnceTaken
  <2>15. InTurn'
    <3> SUFFICES ASSUME client # "test" PROVE ~overlap /\ OneByOne(sent, Append(tasks, p), handled)
      BY <1>1, <2>1 DEF InTurn
    <3>1. ~overlap /\ OneByOne(sent, tasks, handled)
      BY DEF IInv, InTurn
    <3>2. Len(tasks) + Len(handled) + 1 = Len(sent) /\ p = PacketOf(sent[Len(sent)])
      BY <2>11, <3>1, StateFacts
    <3> QED BY <2>2, <2>4, <3>1, <3>2, StateFacts, OneTaken
  <2>16. View'
    <3>1. conn' = "open" => conn = "open"
      BY <1>1
    <3> QED BY <1>1, <1>3, <3>1 DEF IInv, View
  <2> QED BY <2>9, <2>10, <2>13, <2>14, <2>15, <2>16 DEF IInv
<1> QED BY <1>1, <1>4, <1>5, <1>6

LEMMA HandleStep ==
  ASSUME IInv, Handle
  PROVE  IInv'
<1>1. PICK i \in DOMAIN tasks, a \in Answers :
        /\ handled' = Append(handled, RequestOf(tasks[i]))
        /\ answered' = Append(answered, a)
        /\ down' = IF conn = "open" THEN down \o SendResult(Cmd(tasks[i]), a) ELSE down
        /\ tasks' = RemoveAt(tasks, i)
  BY DEF Handle
<1>2. UNCHANGED << client, first, conn, sent, overlap, up, arrived, buf, here, cbuf, got >>
  BY DEF Handle
<1>3. i \in 1 .. Len(tasks)
  BY StateFacts
<1> DEFINE r == RequestOf(tasks[i])
           c == Cmd(tasks[i])
           T2 == RemoveAt(tasks, i)
           H2 == Append(handled, r)
<1>4. PICK k \in 0 .. Len(sent) :
        Among(sent, tasks, handled, k) /\ (conn = "open" => Unread = Joined(sent, k, Len(sent)))
  BY DEF IInv, Carried, Split
<1>5. PICK j \in 1 .. k : r = AsSent(sent[j]) /\ r \in Readable /\ c = sent[j].cmd
  BY <1>3, <1>4, StateFacts, HandledIs
<1>6. c \in Commands
  <2>1. j \in 1 .. Len(sent)
    BY <1>4, <1>5, StateFacts
  <2>2. IsRequest(sent[j])
    BY <2>1, StateFacts DEF Asked
  <2> QED BY <1>5, <2>2 DEF IsRequest
<1> DEFINE p == SendResult(c, a)
<1>7. p \in Seq(Byte)
  BY <1>6, AnswerFacts
<1>8. Lists(sent, T2, H2, Append(answered, a), got) /\ Len(T2) + Len(H2) = Len(tasks) + Len(handled)
  <2> HIDE DEF r
  <2>1. Lists(sent, tasks, handled, answered, got) /\ r \in Readable
    BY <1>5, StateFacts
  <2>2. a \in Answers
    OBVIOUS
  <2> HIDE DEF T2, H2
  <2>3. Lists(sent, T2, H2, Append(answered, a), got)
    BY <1>3, <2>1, <2>2, ListsHandled DEF T2, H2
  <2>4. Len(T2) + Len(H2) = Len(tasks) + Len(handled)
    BY <1>3, <2>1, StateFacts, SameCount DEF T2, H2
  <2> QED BY <2>3, <2>4
<1>9. tasks' = T2 /\ handled' = H2 /\ down' = IF conn = "open" THEN down \o p ELSE down
  BY <1>1
<1>10. Unread' = Unread /\ UpBytes' /\ Scalars'
  BY <1>2, StateFacts DEF Unread, UpBytes, Scalars
<1>11. Among(sent, T2, H2, k)
  BY <1>3, <1>4, <1>5, StateFacts, AmongHandled
<1>12. Once(tasks, handled) => Once(T2, H2)
  BY <1>3, <1>5, StateFacts, OnceHandled
<1>13. OneByOne(sent, tasks, handled) =>
         OneByOne(sent, T2, H2) /\ c = sent[Len(sent)].cmd /\ Len(handled) + 1 = Len(sent)
  BY <1>3, <1>5, StateFacts, OneHandled
<1> HIDE DEF r, c, T2, H2, p
<1>14. DownBytes'
  <2>1. down \in Seq(Byte) /\ down \o p \in Seq(Byte)
    BY <1>7, StateFacts, BytesConcat DEF DownBytes
  <2>2. down' \in Seq(Byte)
    BY <1>9, <2>1
  <2> QED BY <1>2, <2>2, StateFacts DEF DownBytes
<1>15. TypeOK'
  BY <1>1, <1>2, <1>8, <1>9, <1>10, <1>14 DEF TypeOK
<1>16. Carried'
  BY <1>2, <1>4, <1>9, <1>10, <1>11 DEF Carried, Split
<1>17. WithoutOverlap'
  <2>1. Requested' = Requested
    BY <1>8, <1>9 DEF Requested
  <2> QED BY <1>2, <1>10, <2>1 DEF IInv, WithoutOverlap
<1>18. Test'
  BY <1>2, <1>9, <1>12 DEF IInv, Test
<1>19. InTurn'
  BY <1>2, <1>9, <1>13 DEF IInv, InTurn
<1>20. View'
  <2> SUFFICES ASSUME client = "view"
               PROVE  /\ Replied(sent, Append(answered, a), got)
                      /\ conn = "open" => OneAnswer(sent, Append(answered, a), got, Unseen')
    BY <1>1, <1>2 DEF View
  <2>1. Replied(sent, answered, got) /\ (conn = "open" => OneAnswer(sent, answered, got, Unseen))
    BY DEF IInv, View
  <2>2. c = sent[Len(sent)].cmd /\ Len(answered) + 1 = Len(sent)
    BY <1>13, StateFacts DEF IInv, InTurn
  <2>3. Replied(sent, Append(answered, a), got)
    BY <2>1, <2>2, StateFacts, RepliedHandled
  <2>4. ASSUME conn = "open" PROVE OneAnswer(sent, Append(answered, a), got, Unseen')
    <3>1. down' = down \o p
      BY <1>9, <2>4
    <3>2. cbuf \in Seq(Byte) /\ here \in Seq(Byte) /\ down \in Seq(Byte)
      BY StateFacts DEF DownBytes
    <3>3. Grouped(cbuf, here, down, p)
      BY <1>7, <3>2, Regroup
    <3>4. (cbuf \o here) \o (down \o p) = ((cbuf \o here) \o down) \o p
      BY <3>3 DEF Grouped
    <3>5. Unseen' = Unseen \o p
      BY <1>2, <3>1, <3>4 DEF Unseen
    <3>6. OneAnswer(sent, Append(answered, a), got, Unseen \o p)
      BY <1>6, <2>1, <2>2, <2>4, StateFacts, OneAnswerHandled DEF p
    <3> QED BY <3>5, <3>6
  <2> QED BY <2>3, <2>4
<1> QED BY <1>15, <1>16, <1>17, <1>18, <1>19, <1>20 DEF IInv

LEMMA ViewRecvStep ==
  ASSUME IInv, ViewRecv
  PROVE  IInv'
<1> DEFINE b == cbuf \o here
           len == PduProtocol(b)
           x == Answer(b)
<1>1. /\ client = "view" /\ conn = "open" /\ here' = <<>>
      /\ \/ /\ len < 0
            /\ conn' = "lost" /\ cbuf' = << >> /\ got' = got
         \/ /\ len = 0
            /\ conn' = conn /\ cbuf' = b /\ got' = got
         \/ /\ len > 0
            /\ conn' = conn /\ cbuf' = << >> /\ got' = Append(got, x)
      /\ UNCHANGED << client, first, sent, overlap, up, arrived, buf, tasks, handled, answered, down >>
  BY DEF ViewRecv, Waiting, upward
<1>2. /\ cbuf \in Seq(Byte) /\ here \in Seq(Byte) /\ down \in Seq(Byte) /\ b \in Seq(Byte)
      /\ Unseen = b \o down
  <2>1. cbuf \in Seq(Byte) /\ here \in Seq(Byte) /\ down \in Seq(Byte)
    BY StateFacts DEF DownBytes
  <2> QED BY <2>1, BytesConcat DEF Unseen
<1>3. UpBytes' /\ Unread' = Unread
  BY <1>1, StateFacts DEF UpBytes, Unread
<1> HIDE DEF b, x
<1>4. CASE conn' = "lost" /\ cbuf' = << >> /\ got' = got
  <2>1. Scalars' /\ DownBytes'
    BY <1>1, <1>2, <1>4, StateFacts, NoBytes DEF Scalars, DownBytes
  <2> QED BY <1>1, <1>3, <1>4, <2>1, EndStep
<1>5. CASE conn' = conn /\ cbuf' = b /\ got' = got
  <2>1. Scalars' /\ DownBytes'
    BY <1>1, <1>2, <1>5, StateFacts, NoBytes DEF Scalars, DownBytes
  <2>2. b \o <<>> = b
    BY <1>2, ConcatNothing
  <2>3. Unseen' = Unseen
    BY <1>1, <1>2, <1>5, <2>2 DEF Unseen
  <2> QED BY <1>1, <1>3, <1>5, <2>1, <2>3, SameLists
<1>6. CASE len > 0 /\ conn' = conn /\ cbuf' = << >> /\ got' = Append(got, x)
  <2>1. Scalars' /\ DownBytes'
    BY <1>1, <1>2, <1>6, StateFacts, NoBytes DEF Scalars, DownBytes
  <2>2. Replied(sent, answered, got) /\ OneAnswer(sent, answered, got, b \o down)
    BY <1>1, <1>2 DEF IInv, View
  <2>3. /\ x \in Answers /\ down = <<>>
        /\ Replied(sent, answered, Append(got, x)) /\ OneAnswer(sent, answered, Append(got, x), <<>>)
    BY <1>2, <1>6, <2>2, StateFacts, AnswerTaken DEF x
  <2>4. Unseen' = <<>>
    BY <1>1, <1>6, <2>3, Nothing DEF Unseen
  <2>5. TypeOK'
    <3>1. Append(got, x) \in Seq(Answers)
      BY <2>3, StateFacts, AppendIs
    <3>2. Lists(sent, tasks, handled, answered, Append(got, x))
      BY <3>1, StateFacts DEF Lists
    <3> QED BY <1>1, <1>3, <1>6, <2>1, <3>2 DEF TypeOK
  <2>6. Carried'
    BY <1>1, <1>3, <1>6 DEF IInv, Carried
  <2>7. WithoutOverlap'
    BY <1>1, <1>3, <1>6 DEF IInv, WithoutOverlap, Requested
  <2>8. Test' /\ InTurn'
    BY <1>1, <1>6 DEF IInv, Test, InTurn
  <2>9. View'
    BY <1>1, <1>6, <2>3, <2>4 DEF View
  <2> QED BY <2>5, <2>6, <2>7, <2>8, <2>9 DEF IInv
<1> QED BY <1>1, <1>4, <1>5, <1>6

LEMMA Idle ==
  ASSUME IInv, UNCHANGED vars
  PROVE  IInv'
<1>1. /\ UNCHANGED << client, first, sent, overlap, tasks, handled, answered, got >>
      /\ conn' = conn /\ Unread' = Unread /\ Unseen' = Unseen
      /\ Scalars' /\ UpBytes' /\ DownBytes'
  BY StateFacts DEF vars, Unread, Unseen, Scalars, UpBytes, DownBytes
<1> QED BY <1>1, SameLists

LEMMA NextInv == IInv /\ [Next]_vars => IInv'
<1> SUFFICES ASSUME IInv, [Next]_vars PROVE IInv'
  OBVIOUS
<1>1. ASSUME NEW r \in Calls, ViewCall(r) PROVE IInv'
  BY <1>1, ViewCallStep
<1>2. CASE TestRound
  BY <1>2, TestRoundStep
<1>3. CASE TressLogin
  BY <1>3, TressLoginStep
<1>4. CASE TressRegister
  BY <1>4, TressRegisterStep
<1>5. CASE TressRead
  BY <1>5, TressReadStep
<1>6. CASE DeliverUp
  BY <1>6, DeliverUpStep
<1>7. CASE DeliverDown
  BY <1>7, DeliverDownStep
<1>8. CASE RecvBuf
  BY <1>8, RecvBufStep
<1>9. CASE Handle
  BY <1>9, HandleStep
<1>10. CASE ViewRecv
  BY <1>10, ViewRecvStep
<1>11. CASE UNCHANGED vars
  BY <1>11, Idle
<1> QED BY <1>1, <1>2, <1>3, <1>4, <1>5, <1>6, <1>7, <1>8, <1>9, <1>10, <1>11 DEF Next, Work

-----------------------------------------------------------------------------
(* The properties.                                                         *)

LEMMA PrefixIs ==
  ASSUME NEW E, NEW s \in Seq(E), NEW F, NEW t \in Seq(F), Len(s) <= Len(t),
         \A i \in 1 .. Len(s) : s[i] = t[i]
  PROVE  IsPrefix(s, t)
<1> DEFINE a == SubSeq(s, 1, Len(s))
           b == SubSeq(t, 1, Len(s))
<1>1. Len(s) \in Nat /\ Len(t) \in Nat
  OBVIOUS
<1>2. a \in Seq(E) /\ Len(a) = Len(s) /\ \A i \in 1 .. Len(s) : a[i] = s[i]
  OBVIOUS
<1>3. b \in Seq(F) /\ Len(b) = Len(s) /\ \A i \in 1 .. Len(s) : b[i] = t[i]
  BY <1>1
<1> HIDE DEF a, b
<1>4. a = [i \in 1 .. Len(s) |-> a[i]] /\ b = [i \in 1 .. Len(s) |-> b[i]]
  BY <1>2, <1>3
<1>5. a = b
  BY <1>2, <1>3, <1>4
<1> QED BY <1>5 DEF IsPrefix, a, b

LEMMA Counted ==
  ASSUME NEW E, NEW s \in Seq(E), \A i, j \in 1 .. Len(s) : i # j => s[i] # s[j]
  PROVE  Cardinality(ToSet(s)) = Len(s)
<1>1. Len(s) \in Nat /\ DOMAIN s = 1 .. Len(s)
  OBVIOUS
<1>2. ToSet(s) = {s[i] : i \in 1 .. Len(s)}
  BY <1>1 DEF ToSet
<1>3. s \in [1 .. Len(s) -> ToSet(s)]
  <2>1. s = [i \in 1 .. Len(s) |-> s[i]]
    BY <1>1
  <2>2. \A i \in 1 .. Len(s) : s[i] \in ToSet(s)
    BY <1>2
  <2> QED BY <2>1, <2>2
<1>4. s \in Injection(1 .. Len(s), ToSet(s))
  BY <1>1, <1>3 DEF Injection, IsInjective
<1>5. s \in Surjection(1 .. Len(s), ToSet(s))
  BY <1>2, <1>3 DEF Surjection
<1>6. ExistsBijection(1 .. Len(s), ToSet(s))
  BY <1>4, <1>5 DEF ExistsBijection, Bijection
<1> QED BY <1>1, <1>6, FS_CountingElements

-----------------------------------------------------------------------------
LEMMA ImpliesInStep == IInv => InStep
<1> SUFFICES ASSUME IInv, conn = "open", ~overlap
             PROVE  /\ \/ Unread = << >> /\ Requested = Len(sent)
                       \/ Requested = Len(sent) - 1 /\ Unread = PacketOf(sent[Len(sent)])
                    /\ client = "view" =>
                         \/ Unseen = << >> /\ Len(got) = Len(answered)
                         \/ /\ Len(got) = Len(answered) - 1
                            /\ Unseen = SendResult(sent[Len(answered)].cmd, answered[Len(answered)])
  BY DEF InStep, Unread, Unseen, Requested
<1>1. LastOnly(sent, Requested, Unread)
  BY DEF IInv, WithoutOverlap
<1>2. client = "view" => OneAnswer(sent, answered, got, Unseen)
  BY DEF IInv, View
<1> QED BY <1>1, <1>2 DEF LastOnly, OneAnswer

LEMMA ImpliesRequestsArrive == IInv => RequestsArrive
<1> SUFFICES ASSUME IInv PROVE RequestsArrive
  OBVIOUS
<1>1. /\ handled \in Seq(Readable) /\ sent \in Seq(Requests) /\ Len(sent) \in Nat /\ Len(tasks) \in Nat
      /\ DOMAIN handled = 1 .. Len(handled) /\ DOMAIN sent = 1 .. Len(sent) /\ Len(handled) \in Nat
  BY StateFacts DEF Lists
<1>2. ToSet(handled) \subseteq {AsSent(sent[i]) : i \in DOMAIN sent}
  <2>1. PICK k \in 0 .. Len(sent) : Among(sent, tasks, handled, k)
    BY DEF IInv, Carried, Split
  <2>2. ASSUME NEW i \in 1 .. Len(handled) PROVE handled[i] \in {AsSent(sent[j]) : j \in DOMAIN sent}
    <3>1. PICK j \in 1 .. k : handled[i] = AsSent(sent[j])
      BY <2>1 DEF Among
    <3>2. j \in DOMAIN sent
      BY <1>1
    <3> QED BY <3>1, <3>2
  <2> QED BY <1>1, <2>2 DEF ToSet
<1>3. ASSUME client = "test" PROVE Cardinality(ToSet(handled)) = Len(handled)
  <2>1. \A i, j \in 1 .. Len(handled) : i # j => handled[i] # handled[j]
    BY <1>3 DEF IInv, Test, Once
  <2> QED BY <1>1, <2>1, Counted
<1>4. ASSUME client # "test" PROVE IsPrefix(handled, [i \in DOMAIN sent |-> AsSent(sent[i])])
  <2> DEFINE t == [i \in 1 .. Len(sent) |-> AsSent(sent[i])]
  <2>1. \A i \in 1 .. Len(sent) : AsSent(sent[i]) \in Readable
    BY <1>1, ElementOf DEF Readable
  <2>2. t \in Seq(Readable) /\ Len(t) = Len(sent)
    BY <1>1, <2>1
  <2>3. Len(handled) <= Len(sent) /\ \A i \in 1 .. Len(handled) : handled[i] = AsSent(sent[i])
    BY <1>1, <1>4 DEF IInv, InTurn, OneByOne
  <2>4. \A i \in 1 .. Len(handled) : handled[i] = t[i]
    BY <1>1, <2>3
  <2>5. t = [i \in DOMAIN sent |-> AsSent(sent[i])]
    BY <1>1
  <2> HIDE DEF t
  <2>6. IsPrefix(handled, t)
    BY <1>1, <2>2, <2>3, <2>4, PrefixIs
  <2> QED BY <2>5, <2>6
<1> QED BY <1>2, <1>3, <1>4 DEF RequestsArrive

LEMMA ImpliesAnswersArrive == IInv => AnswersArrive
<1> SUFFICES ASSUME IInv, client = "view"
             PROVE  IsPrefix(got, answered) /\ Len(answered) \in {Len(sent), Len(sent) - 1}
  BY DEF AnswersArrive
<1>1. Replied(sent, answered, got)
  BY DEF IInv, View
<1>2. IsPrefix(got, answered)
  <2>1. Len(got) <= Len(answered) /\ \A i \in 1 .. Len(got) : got[i] = answered[i]
    BY <1>1 DEF Replied
  <2> QED BY <2>1, StateFacts, PrefixIs
<1>3. Len(answered) \in {Len(sent), Len(sent) - 1}
  BY <1>1, StateFacts DEF Replied
<1> QED BY <1>2, <1>3

LEMMA Invariance == Spec => []IInv
BY InitInv, NextInv, PTL DEF Spec

\* What is under way and in the buffers are bytes, what is queued are packets,
\* what is handled are requests and each has one answer.
THEOREM StreamTypeCorrect == Spec => []TypeOK
<1>1. IInv => TypeOK
  BY DEF IInv
<1> QED BY <1>1, Invariance, PTL

\* For every set of requests that the dialogs can make, all answers, all
\* numbers of requests and all ways of cutting the bytes: a connection without
\* overlapping requests stays in step (RecvBuf and PduProtocol,
\* ser_socket.cpp:166-330; RecvBuf of cli_socket.cpp).
THEOREM ConnectionStaysInStep == Spec => []InStep
<1>1. IInv => InStep
  BY ImpliesInStep
<1> QED BY <1>1, Invariance, PTL

\* Handlers read the requests that were sent, each at most once, and those of
\* the view and of tress.cpp in order (serialisers, RecvBuf, GetBody).
THEOREM EveryRequestAsSent == Spec => []RequestsArrive
<1>1. IInv => RequestsArrive
  BY ImpliesRequestsArrive
<1> QED BY <1>1, Invariance, PTL

\* A view reads the answer that was given to its own call (SendResult,
\* RecvBuf of cli_socket.cpp).
THEOREM EveryAnswerAsGiven == Spec => []AnswersArrive
<1>1. IInv => AnswersArrive
  BY ImpliesAnswersArrive
<1> QED BY <1>1, Invariance, PTL
=============================================================================
