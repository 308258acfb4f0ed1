---------------------------- MODULE ClientProofs ----------------------------
(***************************************************************************)
(* What the operators of Codec and Client return for every device: a       *)
(* property map is read as the device wrote it, of a frame that was cut    *)
(* what is whole is read, the instance that is found is one the device     *)
(* has, a batch is answered in full, and a value is read back as it was    *)
(* set.  Induction is by the least counterexample, which WFMin gives for a *)
(* set of natural numbers.                                                 *)
(***************************************************************************)
EXTENDS Client, FiniteSetTheorems, WellFoundedInduction, TLAPS

-----------------------------------------------------------------------------
(* Natural numbers                                                         *)

\* A set of natural numbers has a least element.
LEMMA LeastElement ==
  \A S \in SUBSET Nat : S # {} => \E m \in S : \A n \in S : m <= n
<1> SUFFICES ASSUME NEW S \in SUBSET Nat, S # {}
             PROVE  \E m \in S : \A n \in S : m <= n
  OBVIOUS
<1> DEFINE R == {p \in Nat \X Nat : p[1] < p[2]}
<1>1. R = OpToRel(<, Nat)
  BY DEF OpToRel
<1>2. IsWellFoundedOn(R, Nat)
  BY <1>1, NatLessThanWellFounded
<1>3. \E m \in S : \A n \in S : ~(<<n, m>> \in R)
  <2> HIDE DEF R
  <2> QED BY <1>2, WFMin
<1>4. PICK m \in S : \A n \in S : ~(<<n, m>> \in R)
  BY <1>3
<1>5. ASSUME NEW n \in S, n < m PROVE FALSE
  <2>1. <<n, m>> \in Nat \X Nat /\ <<n, m>>[1] = n /\ <<n, m>>[2] = m
    OBVIOUS
  <2>2. <<n, m>> \in R
    BY <1>5, <2>1
  <2> QED BY <1>4, <2>2
<1> QED BY <1>5

\* Induction up to n.
LEMMA InductionUpTo ==
  ASSUME NEW n \in Nat, NEW S, 0 \in S, \A i \in 1..n : i - 1 \in S => i \in S
  PROVE  0..n \subseteq S
<1> SUFFICES ASSUME NEW k \in 0..n, k \notin S PROVE FALSE
  OBVIOUS
<1> DEFINE C == {i \in 0..n : i \notin S}
<1>1. C \in SUBSET Nat /\ k \in C
  OBVIOUS
<1>2. PICK m \in C : \A i \in C : m <= i
  <2> HIDE DEF C
  <2> QED BY <1>1, LeastElement
<1>3. m \in 1..n
  BY <1>2
<1>4. m - 1 \in 0..n /\ ~(m <= m - 1)
  BY <1>3
<1>5. m - 1 \in S
  BY <1>2, <1>4
<1> QED BY <1>2, <1>3, <1>5

\* The functions defined by recursion up to n: f[0] = v0, f[i] = step[i][f[i - 1]].
Recursion(n, V, v0, step) ==
  {f \in [0..n -> V] : f[0] = v0 /\ \A i \in 1..n : f[i] = step[i][f[i - 1]]}

\* There is one.
LEMMA FiniteRecursion ==
  ASSUME NEW n \in Nat, NEW V, NEW v0 \in V, NEW step \in [1..n -> [V -> V]]
  PROVE  \E f : f \in Recursion(n, V, v0, step)
<1> DEFINE Good(d, f) == f[0] = v0 /\ \A i \in 1..d : f[i] = step[i][f[i - 1]]
           S == {d \in 0..n : \E f \in [0..d -> V] : Good(d, f)}
<1>1. 0 \in S
  <2> DEFINE f == [i \in 0..0 |-> v0]
  <2>1. f \in [0..0 -> V] /\ Good(0, f)
    OBVIOUS
  <2> HIDE DEF f, Good
  <2> QED BY <2>1
<1>2. ASSUME NEW d \in 1..n, d - 1 \in S PROVE d \in S
  <2>1. PICK f \in [0..(d - 1) -> V] : Good(d - 1, f)
    BY <1>2
  <2> DEFINE g == [i \in 0..d |-> IF i = d THEN step[d][f[d - 1]] ELSE f[i]]
  <2>2. \A i \in 0..(d - 1) : i \in 0..d /\ i # d /\ g[i] = f[i]
    OBVIOUS
  <2>3. d - 1 \in 0..(d - 1) /\ g[d] = step[d][f[d - 1]] /\ f[d - 1] \in V
    OBVIOUS
  <2>4. g \in [0..d -> V]
    BY <2>3
  <2> HIDE DEF g
  <2>5. g[0] = v0
    BY <2>1, <2>2
  <2>6. ASSUME NEW i \in 1..d PROVE g[i] = step[i][g[i - 1]]
    <3>1. CASE i = d
      BY <2>2, <2>3, <3>1
    <3>2. CASE i # d
      <4>1. i \in 1..(d - 1) /\ i \in 0..(d - 1) /\ i - 1 \in 0..(d - 1)
        BY <3>2
      <4> QED BY <2>1, <2>2, <4>1
    <3> QED BY <3>1, <3>2
  <2>7. Good(d, g) /\ d \in 0..n
    BY <2>5, <2>6
  <2> HIDE DEF Good
  <2> QED BY <2>4, <2>7
<1>3. n \in S
  <2>1. 0..n \subseteq S
    <3> HIDE DEF S
    <3> QED BY <1>1, <1>2, InductionUpTo
  <2> QED BY <2>1
<1> QED BY <1>3 DEF Recursion

-----------------------------------------------------------------------------
(* Sequences and bytes                                                     *)

\* A function on 1..n is a sequence.
LEMMA FunctionIsSeq ==
  ASSUME NEW n \in Nat, NEW T, NEW a \in [1..n -> T]
  PROVE  a \in Seq(T) /\ Len(a) = n
<1>1. a \in Seq(T)
  OBVIOUS
<1> QED BY <1>1

\* Two sequences with the same elements are one.
LEMMA SameSeq ==
  ASSUME NEW T, NEW s \in Seq(T), NEW t \in Seq(T), Len(s) = Len(t),
         \A i \in 1..Len(t) : s[i] = t[i]
  PROVE  s = t
<1>1. s = [i \in 1..Len(s) |-> s[i]] /\ t = [i \in 1..Len(t) |-> t[i]]
  OBVIOUS
<1> QED BY <1>1

\* The elements from a to b.
LEMMA PartOfSeq ==
  ASSUME NEW T, NEW s \in Seq(T), NEW a \in 1..(Len(s) + 1), NEW b \in (a - 1)..Len(s)
  PROVE  /\ SubSeq(s, a, b) \in Seq(T) /\ Len(SubSeq(s, a, b)) = b - a + 1
         /\ \A i \in 1..(b - a + 1) : SubSeq(s, a, b)[i] = s[a + i - 1]
OBVIOUS

\* Bytes are numbers.
LEMMA ByteType == \A b \in Bytes : b \in Nat /\ b <= 255
BY DEF Bytes

\* Bytes are numbers, and a sequence of them is one of numbers.
LEMMA BytesAreNumbers ==
  ASSUME NEW e \in Seq(Bytes)
  PROVE  e \in Seq(Nat) /\ Len(e) \in Nat
<1>1. Len(e) \in Nat /\ e \in [1..Len(e) -> Bytes]
  OBVIOUS
<1>2. Bytes \subseteq Nat
  BY DEF Bytes
<1>3. e \in [1..Len(e) -> Nat]
  BY <1>1, <1>2
<1> QED BY <1>1, <1>3, FunctionIsSeq

-----------------------------------------------------------------------------
(* Property maps                                                           *)

\* decodePropertyMap returns the properties of a map, in both formats.
THEOREM PropertyMapIsRead ==
  ASSUME NEW edt, NEW epcs, IsPropertyMap(edt, epcs)
  PROVE  DecodePropertyMap(edt) = epcs
<1>1. CASE Len(edt) \in 1..16 /\ epcs = {edt[i] : i \in 2..Len(edt)}
  <2>1. Len(edt) < 17
    <3>1. Len(edt) \in 1..16
      BY <1>1
    <3>2. \A x \in 1..16 : x < 17
      OBVIOUS
    <3> QED BY <3>1, <3>2
  <2>2. DecodePropertyMap(edt) = {edt[i] : i \in 2..Len(edt)}
    BY <2>1, Zenon DEF DecodePropertyMap
  <2> QED BY <1>1, <2>2
<1>2. CASE /\ Len(edt) = 17 /\ epcs \subseteq 128..255
           /\ \A e \in 128..255 : e \in epcs <=> Bit(edt[2 + (e % 16)], (e \div 16) - 8) = 1
  <2> DEFINE E(k, i) == (k + 8) * 16 + (i - 2)
  <2>1. DecodePropertyMap(edt) =
          UNION {{E(k, i) : k \in {b \in 0..7 : Bit(edt[i], b) = 1}} : i \in 2..17}
    BY <1>2 DEF DecodePropertyMap
  <2>2. ASSUME NEW k \in 0..7, NEW i \in 2..17
        PROVE  /\ E(k, i) \in 128..255
               /\ 2 + (E(k, i) % 16) = i
               /\ (E(k, i) \div 16) - 8 = k
    OBVIOUS
  <2>3. ASSUME NEW e \in 128..255
        PROVE  /\ (e \div 16) - 8 \in 0..7 /\ 2 + (e % 16) \in 2..17
               /\ e = E((e \div 16) - 8, 2 + (e % 16))
    OBVIOUS
  <2> HIDE DEF E
  <2>4. ASSUME NEW k \in 0..7, NEW i \in 2..17, Bit(edt[i], k) = 1
        PROVE  E(k, i) \in epcs
    BY <1>2, <2>2, <2>4
  <2>5. ASSUME NEW e \in epcs
        PROVE  \E i \in 2..17 : \E k \in {b \in 0..7 : Bit(edt[i], b) = 1} : e = E(k, i)
    <3>1. e \in 128..255
      BY <1>2
    <3> DEFINE k == (e \div 16) - 8
               i == 2 + (e % 16)
    <3>2. k \in 0..7 /\ i \in 2..17 /\ e = E(k, i) /\ Bit(edt[i], k) = 1
      BY <1>2, <2>3, <3>1
    <3> QED BY <3>2
  <2> QED BY <2>1, <2>4, <2>5
<1> QED BY <1>1, <1>2 DEF IsPropertyMap

\* Ascending lists every number of a finite set once.
LEMMA AscendingFacts ==
  ASSUME NEW S, S \subseteq Int, IsFiniteSet(S)
  PROVE  /\ Cardinality(S) \in Nat
         /\ Ascending(S) \in [1..Cardinality(S) -> S]
         /\ \A v \in S : \E i \in 1..Cardinality(S) : Ascending(S)[i] = v
         /\ \A i, j \in 1..Cardinality(S) : Ascending(S)[i] = Ascending(S)[j] => i = j
<1> DEFINE n == Cardinality(S)
           upTo(v) == {w \in S : w <= v}
           rank(v) == Cardinality(upTo(v))
           f == [v \in S |-> rank(v)]
<1>1. n \in Nat
  BY FS_CardinalityType
<1>2. ASSUME NEW v \in S PROVE IsFiniteSet(upTo(v)) /\ rank(v) \in 1..n
  <2>1. upTo(v) \in SUBSET S /\ v \in upTo(v)
    OBVIOUS
  <2> HIDE DEF upTo
  <2>2. IsFiniteSet(upTo(v)) /\ rank(v) <= n
    BY <2>1, FS_Subset
  <2>3. rank(v) \in Nat /\ rank(v) # 0
    BY <2>1, <2>2, FS_CardinalityType, FS_EmptySet
  <2> HIDE DEF rank, n
  <2> QED BY <1>1, <2>2, <2>3
<1>3. ASSUME NEW u \in S, NEW v \in S, u < v PROVE rank(u) # rank(v)
  <2>1. upTo(u) \in SUBSET upTo(v) /\ v \in upTo(v) /\ v \notin upTo(u)
    <3>1. u \in Int /\ v \in Int /\ \A w \in S : w \in Int
      OBVIOUS
    <3>2. \A w \in S : w <= u => w <= v
      BY <1>3, <3>1
    <3>3. v <= v /\ ~(v <= u)
      BY <1>3, <3>1
    <3> QED BY <3>2, <3>3
  <2>2. IsFiniteSet(upTo(v))
    BY <1>2
  <2> HIDE DEF upTo
  <2> QED BY <2>1, <2>2, FS_Subset
<1>4. ASSUME NEW u \in S, NEW v \in S, rank(u) = rank(v) PROVE u = v
  <2>1. u \in Int /\ v \in Int
    OBVIOUS
  <2>2. ~(u < v) /\ ~(v < u)
    <3> HIDE DEF rank
    <3> QED BY <1>3, <1>4
  <2> QED BY <2>1, <2>2
<1>5. f \in [S -> 1..n]
  <2> HIDE DEF rank, n
  <2> QED BY <1>2
<1>6. f \in Injection(S, 1..n)
  <2>1. \A u, v \in S : f[u] = f[v] => u = v
    <3> HIDE DEF rank
    <3> QED BY <1>4
  <2> HIDE DEF f, n
  <2> QED BY <1>5, <2>1 DEF Injection, IsInjective
<1>7. IsFiniteSet(1..n) /\ Cardinality(1..n) = n
  <2> HIDE DEF n
  <2>1. 1 \in Int /\ n \in Int
    BY <1>1
  <2>2. IsFiniteSet(1..n) /\ Cardinality(1..n) = IF 1 > n THEN 0 ELSE n - 1 + 1
    BY <2>1, FS_Interval
  <2> QED BY <1>1, <2>2
<1>8. f \in Surjection(S, 1..n)
  <2> HIDE DEF f
  <2> QED BY <1>6, <1>7, FS_Injection
<1>9. \A i \in 1..n : \E v \in S : rank(v) = i
  <2>1. \A i \in 1..n : \E v \in S : f[v] = i
    <3> HIDE DEF f, n
    <3> QED BY <1>8 DEF Surjection
  <2> HIDE DEF rank, n
  <2> QED BY <2>1
<1>10. Ascending(S) = [i \in 1..n |-> CHOOSE v \in S : rank(v) = i]
  BY DEF Ascending
<1> HIDE DEF n, rank
<1>11. \A i \in 1..n : Ascending(S)[i] \in S /\ rank(Ascending(S)[i]) = i
  BY <1>9, <1>10
<1>12. Ascending(S) \in [1..n -> S]
  BY <1>10, <1>11
<1>13. \A v \in S : \E i \in 1..n : Ascending(S)[i] = v
  BY <1>2, <1>4, <1>11
<1>14. \A i, j \in 1..n : Ascending(S)[i] = Ascending(S)[j] => i = j
  BY <1>11
<1> QED BY <1>1, <1>12, <1>13, <1>14 DEF n

\* How many numbers an interval has.
LEMMA IntervalIsFinite ==
  ASSUME NEW a \in Int, NEW b \in Int, a <= b
  PROVE  IsFiniteSet(a..b) /\ Cardinality(a..b) = b - a + 1
BY FS_Interval

\* The powers of 2 that occur.
LEMMA PowersOfTwo ==
  /\ 2^0 = 1 /\ 2^1 = 2 /\ 2^2 = 4 /\ 2^3 = 8 /\ 2^4 = 16 /\ 2^5 = 32 /\ 2^6 = 64 /\ 2^7 = 128
BY SMT

\* Every choice of eight bits is a byte.
LEMMA ByteOfBits ==
  ASSUME NEW K
  PROVE  \E b \in Bytes : \A k \in 0..7 : Bit(b, k) = 1 <=> k \in K
<1> DEFINE c(k) == IF k \in K THEN 1 ELSE 0
           b == c(0) + 2 * c(1) + 4 * c(2) + 8 * c(3) + 16 * c(4) + 32 * c(5) + 64 * c(6) + 128 * c(7)
<1>1. \A k \in 0..7 : c(k) \in {0, 1} /\ (c(k) = 1 <=> k \in K)
  OBVIOUS
<1> HIDE DEF c
<1>2. b \in Bytes
  BY <1>1 DEF Bytes
<1>3. /\ (b \div 1) % 2 = c(0) /\ (b \div 2) % 2 = c(1)
      /\ (b \div 4) % 2 = c(2) /\ (b \div 8) % 2 = c(3)
  BY <1>1
<1>4. /\ (b \div 16) % 2 = c(4) /\ (b \div 32) % 2 = c(5)
      /\ (b \div 64) % 2 = c(6) /\ (b \div 128) % 2 = c(7)
  BY <1>1
<1> HIDE DEF b
<1>5. ASSUME NEW k \in 0..7 PROVE Bit(b, k) = c(k)
  <2>1. k \in {0, 1, 2, 3, 4, 5, 6, 7}
    OBVIOUS
  <2>2. /\ Bit(b, 0) = c(0) /\ Bit(b, 1) = c(1) /\ Bit(b, 2) = c(2) /\ Bit(b, 3) = c(3)
        /\ Bit(b, 4) = c(4) /\ Bit(b, 5) = c(5) /\ Bit(b, 6) = c(6) /\ Bit(b, 7) = c(7)
    BY <1>3, <1>4, PowersOfTwo, SMTT(60) DEF Bit
  <2> QED BY <2>1, <2>2, SMT
<1> QED BY <1>1, <1>2, <1>5

\* What EncodePropertyMap makes of a set of properties is a map of them, in both formats.
THEOREM MapIsWritten ==
  ASSUME NEW epcs, epcs \subseteq 128..255
  PROVE  IsPropertyMap(EncodePropertyMap(epcs), epcs)
<1> DEFINE n == Cardinality(epcs)
           edt == EncodePropertyMap(epcs)
<1>1. n \in Nat /\ n <= 128 /\ IsFiniteSet(epcs)
  <2>1. IsFiniteSet(128..255) /\ Cardinality(128..255) = 128
    <3> DEFINE low  == 128
               high == 255
    <3>1. low \in Int /\ high \in Int /\ low <= high /\ high - low + 1 = 128
      OBVIOUS
    <3> HIDE DEF low, high
    <3>2. IsFiniteSet(low..high) /\ Cardinality(low..high) = 128
      BY <3>1, IntervalIsFinite
    <3> QED BY <3>2 DEF low, high
  <2>2. IsFiniteSet(epcs) /\ Cardinality(epcs) <= Cardinality(128..255)
    <3>1. \A A : IsFiniteSet(A) =>
             \A B \in SUBSET A : IsFiniteSet(B) /\ Cardinality(B) <= Cardinality(A)
      BY FS_Subset, Zenon
    <3> QED BY <2>1, <3>1
  <2>3. Cardinality(epcs) \in Nat
    BY <2>2, FS_CardinalityType
  <2> QED BY <2>1, <2>2, <2>3, SMT
<1>2. epcs \subseteq Int /\ epcs \subseteq Bytes /\ n \in Bytes
  BY <1>1 DEF Bytes
<1>3. CASE n < 16
  <2> DEFINE a == Ascending(epcs)
  <2>1. a \in [1..n -> epcs] /\ \A v \in epcs : \E i \in 1..n : a[i] = v
    BY <1>1, <1>2, AscendingFacts
  <2>2. edt = <<n>> \o a
    BY <1>3 DEF EncodePropertyMap
  <2> HIDE DEF a, n, edt
  <2>3. a \in Seq(Bytes) /\ Len(a) = n /\ \A i \in 1..n : a[i] \in epcs
    <3>1. a \in [1..n -> Bytes]
      BY <1>2, <2>1
    <3>2. a \in Seq(Bytes)
      BY <1>1, <3>1
    <3> QED BY <1>1, <2>1, <3>2
  <2>4. edt \in Seq(Bytes) /\ Len(edt) = n + 1 /\ \A i \in 2..(n + 1) : edt[i] = a[i - 1]
    BY <1>1, <1>2, <2>2, <2>3
  <2>5. Len(edt) \in 1..16
    BY <1>1, <1>3, <2>4
  <2>6. ASSUME NEW i \in 2..Len(edt) PROVE edt[i] \in epcs
    <3>1. i - 1 \in 1..n /\ i \in 2..(n + 1)
      BY <1>1, <2>4
    <3> QED BY <2>3, <2>4, <3>1
  <2>7. ASSUME NEW v \in epcs PROVE \E i \in 2..Len(edt) : edt[i] = v
    <3>1. PICK i \in 1..n : a[i] = v
      BY <2>1
    <3>2. i + 1 \in 2..(n + 1) /\ (i + 1) - 1 = i
      BY <1>1
    <3> QED BY <2>4, <3>1, <3>2
  <2>8. epcs = {edt[i] : i \in 2..Len(edt)}
    BY <2>6, <2>7
  <2> QED BY <2>4, <2>5, <2>8 DEF IsPropertyMap, edt
<1>4. CASE ~(n < 16)
  <2> DEFINE Of(i, b) == \A k \in 0..7 : Bit(b, k) = 1 <=> (k + 8) * 16 + (i - 1) \in epcs
             a == [i \in 1..16 |-> CHOOSE b \in Bytes : Of(i, b)]
  <2>1. ASSUME NEW i \in 1..16 PROVE \E b \in Bytes : Of(i, b)
    <3> DEFINE K == {k \in 0..7 : (k + 8) * 16 + (i - 1) \in epcs}
    <3>1. PICK b \in Bytes : \A k \in 0..7 : Bit(b, k) = 1 <=> k \in K
      BY ByteOfBits
    <3> QED BY <3>1
  <2>2. edt = <<n>> \o a
    BY <1>4 DEF EncodePropertyMap
  <2> HIDE DEF Of
  <2>3. ASSUME NEW i \in 1..16 PROVE a[i] \in Bytes /\ Of(i, a[i])
    <3>1. a[i] = CHOOSE b \in Bytes : Of(i, b)
      OBVIOUS
    <3> HIDE DEF a
    <3>2. (CHOOSE b \in Bytes : Of(i, b)) \in Bytes /\ Of(i, CHOOSE b \in Bytes : Of(i, b))
      BY <2>1, Zenon
    <3> QED BY <3>1, <3>2, Zenon
  <2>4. a \in [1..16 -> Bytes]
    <3>1. a = [i \in 1..16 |-> a[i]]
      OBVIOUS
    <3> HIDE DEF a
    <3> QED BY <2>3, <3>1
  <2> HIDE DEF a, n, edt
  <2>5. a \in Seq(Bytes) /\ Len(a) = 16
    <3>1. 16 \in Nat
      OBVIOUS
    <3> QED BY <2>4, <3>1, FunctionIsSeq, Zenon
  <2>6. edt \in Seq(Bytes) /\ Len(edt) = 17 /\ \A i \in 2..17 : edt[i] = a[i - 1]
    <3>1. a \in Seq(Bytes) /\ n \in Bytes
      BY <1>2, <2>5
    <3>2. /\ edt \in Seq(Bytes) /\ Len(edt) = Len(a) + 1
          /\ \A i \in 2..(Len(a) + 1) : edt[i] = a[i - 1]
      BY <2>2, <3>1, SMT
    <3>3. Len(a) + 1 = 17
      BY <2>5, SMT
    <3> QED BY <3>2, <3>3, Zenon
  <2>7. ASSUME NEW e \in 128..255
        PROVE  e \in epcs <=> Bit(edt[2 + (e % 16)], (e \div 16) - 8) = 1
    <3> DEFINE i == 1 + (e % 16)
               k == (e \div 16) - 8
    <3>1. i \in 1..16 /\ k \in 0..7 /\ (k + 8) * 16 + (i - 1) = e
          /\ 2 + (e % 16) \in 2..17 /\ (2 + (e % 16)) - 1 = i
      OBVIOUS
    <3>2. edt[2 + (e % 16)] = a[i]
      BY <2>6, <3>1
    <3> HIDE DEF i, k
    <3>3. Bit(a[i], k) = 1 <=> (k + 8) * 16 + (i - 1) \in epcs
      BY <2>3, <3>1 DEF Of
    <3> QED BY <3>1, <3>2, <3>3 DEF k
  <2> QED BY <2>6, <2>7 DEF IsPropertyMap, edt
<1> QED BY <1>3, <1>4

-----------------------------------------------------------------------------
(* Frames                                                                  *)

\* The recursion of FlattenSeq, without the choice of a function.
LEMMA FlattenUnfolds ==
  ASSUME NEW s \in Seq(Seq(Nat)), Len(s) # 0
  PROVE  \E f : /\ FlattenSeq(s) = f[Len(s)] /\ f[1] = s[1]
                /\ \A i \in 2..Len(s) : f[i] = f[i - 1] \o s[i]
<1> DEFINE n == Len(s)
           V == Seq(Nat)
           F(i, x) == x \o s[i]
           Is(g) == g = [i \in 1..n |-> IF i = 1 THEN s[i] ELSE g[i - 1] \o s[i]]
           step == [i \in 1..n |-> [x \in V |-> F(i, x)]]
<1>0. n \in Nat /\ n # 0 /\ \A i \in 1..n : s[i] \in Seq(Nat)
  OBVIOUS
<1>1. \E g : Is(g)
  <2> HIDE DEF n
  <2>1. ASSUME NEW i \in 1..n, NEW x \in V PROVE F(i, x) \in V
    BY <1>0
  <2>2. <<>> \in V /\ \A x \in V : <<>> \o x = x
    OBVIOUS
  <2> HIDE DEF F, V
  <2>3. step \in [1..n -> [V -> V]]
    BY <2>1
  <2>4. PICK h : h \in Recursion(n, V, <<>>, step)
    <3> HIDE DEF step
    <3> QED BY <1>0, <2>2, <2>3, FiniteRecursion
  <2>5. h \in [0..n -> V] /\ h[0] = <<>> /\ \A i \in 1..n : h[i] = step[i][h[i - 1]]
    <3> HIDE DEF step
    <3> QED BY <2>4 DEF Recursion
  <2>6. ASSUME NEW i \in 1..n PROVE h[i] = h[i - 1] \o s[i]
    <3>1. i - 1 \in 0..n
      BY <1>0
    <3>2. h[i - 1] \in V
      BY <2>5, <3>1
    <3> QED BY <2>5, <3>2 DEF F
  <2> DEFINE g == [i \in 1..n |-> h[i]]
  <2>7. ASSUME NEW i \in 1..n PROVE g[i] = IF i = 1 THEN s[i] ELSE g[i - 1] \o s[i]
    <3>1. CASE i = 1
      <4>1. h[1] = h[0] \o s[1]
        <5>1. 1 \in 1..n /\ 1 - 1 = 0
          BY <1>0
        <5> QED BY <2>6, <5>1
      <4> QED BY <1>0, <2>2, <2>5, <3>1, <4>1 DEF V
    <3>2. CASE i # 1
      <4>1. i - 1 \in 1..n
        BY <1>0, <3>2
      <4> QED BY <2>6, <3>2, <4>1
    <3> QED BY <3>1, <3>2
  <2>8. g = [i \in 1..n |-> IF i = 1 THEN s[i] ELSE g[i - 1] \o s[i]]
    <3>1. DOMAIN g = 1..n /\ g = [i \in 1..n |-> g[i]]
      OBVIOUS
    <3> HIDE DEF g
    <3> QED BY <2>7, <3>1
  <2> QED BY <2>8
<1> DEFINE f == CHOOSE g : Is(g)
<1>2. FlattenSeq(s) = f[n]
  BY Zenon DEF FlattenSeq
<1>3. Is(f)
  <2> HIDE DEF Is
  <2> QED BY <1>1
<1>4. f = [i \in 1..n |-> IF i = 1 THEN s[i] ELSE f[i - 1] \o s[i]]
  BY <1>3
<1> HIDE DEF f
<1>5. f[1] = s[1]
  <2> HIDE DEF n
  <2>1. 1 \in 1..n
    BY <1>0
  <2> QED BY <1>4, <2>1, Zenon
<1>6. ASSUME NEW i \in 2..n PROVE f[i] = f[i - 1] \o s[i]
  <2>1. i \in 1..n /\ i # 1
    BY <1>0
  <2> HIDE DEF n
  <2> QED BY <1>4, <2>1, Zenon
<1> WITNESS f
<1> HIDE DEF Is, step
<1> QED BY <1>2, <1>5, <1>6, Zenon

\* One more sequence behind the others.
LEMMA FlattenAppend ==
  ASSUME NEW s \in Seq(Seq(Nat)), NEW x \in Seq(Nat)
  PROVE  FlattenSeq(Append(s, x)) = FlattenSeq(s) \o x
<1> DEFINE n == Len(s)
           t == Append(s, x)
<1>1. /\ n \in Nat /\ t \in Seq(Seq(Nat)) /\ Len(t) = n + 1 /\ t[n + 1] = x
      /\ \A i \in 1..n : t[i] = s[i]
  OBVIOUS
<1> HIDE DEF t
<1>2. PICK g : /\ FlattenSeq(t) = g[n + 1] /\ g[1] = t[1]
               /\ \A i \in 2..(n + 1) : g[i] = g[i - 1] \o t[i]
  <2>1. Len(t) # 0
    BY <1>1
  <2>2. PICK g : /\ FlattenSeq(t) = g[Len(t)] /\ g[1] = t[1]
                 /\ \A i \in 2..Len(t) : g[i] = g[i - 1] \o t[i]
    BY <1>1, <2>1, FlattenUnfolds
  <2> HIDE DEF n
  <2> QED BY <1>1, <2>2
<1>3. CASE n = 0
  <2>1. FlattenSeq(t) = x
    BY <1>1, <1>2, <1>3
  <2>2. s = <<>> /\ FlattenSeq(s) = s
    BY <1>3 DEF FlattenSeq
  <2> QED BY <2>1, <2>2 DEF t
<1>4. CASE n # 0
  <2>1. PICK f : /\ FlattenSeq(s) = f[n] /\ f[1] = s[1]
                 /\ \A i \in 2..n : f[i] = f[i - 1] \o s[i]
    BY <1>4, FlattenUnfolds
  <2> HIDE DEF n
  <2> DEFINE S == {i \in Nat : i \in 1..n => g[i] = f[i]}
  <2>2. 0 \in S
    OBVIOUS
  <2>3. ASSUME NEW i \in 1..n, i - 1 \in S PROVE i \in S
    <3>1. CASE i = 1
      <4>1. g[1] = f[1]
        BY <1>1, <1>2, <2>1, <3>1
      <4> QED BY <3>1, <4>1
    <3>2. CASE i # 1
      <4>1. i - 1 \in 1..n /\ i \in 2..n /\ i \in 2..(n + 1)
        BY <1>1, <3>2
      <4>2. g[i] = g[i - 1] \o s[i] /\ f[i] = f[i - 1] \o s[i]
        BY <1>1, <1>2, <2>1, <4>1
      <4>3. g[i - 1] = f[i - 1]
        BY <2>3, <4>1
      <4>4. g[i] = f[i] /\ i \in Nat
        BY <4>2, <4>3
      <4> QED BY <4>4
    <3> QED BY <3>1, <3>2
  <2>4. 0..n \subseteq S
    <3> HIDE DEF S
    <3> QED BY <1>1, <2>2, <2>3, InductionUpTo
  <2>5. g[n] = f[n]
    <3>1. n \in 0..n /\ n \in 1..n
      BY <1>1, <1>4
    <3> QED BY <2>4, <3>1
  <2>6. n + 1 \in 2..(n + 1) /\ (n + 1) - 1 = n
    BY <1>1, <1>4
  <2>7. g[n + 1] = g[n] \o x
    BY <1>1, <1>2, <2>6
  <2> QED BY <1>2, <2>1, <2>5, <2>7 DEF t
<1> QED BY <1>3, <1>4

\* Properties as a frame has them.
Properties == [epc : Bytes, edt : Seq(Bytes)]

\* One property as bytes, and the first k of several.
Written(p) == <<p.epc, Len(p.edt)>> \o p.edt
WrittenUpTo(props, k) == EncodeProps(SubSeq(props, 1, k))

\* A property takes two bytes and its data.
LEMMA WrittenFacts ==
  ASSUME NEW p \in Properties
  PROVE  /\ Written(p) \in Seq(Nat) /\ Len(Written(p)) = Len(p.edt) + 2
         /\ Written(p)[1] = p.epc /\ Written(p)[2] = Len(p.edt)
         /\ \A i \in 1..Len(p.edt) : Written(p)[i + 2] = p.edt[i]
<1> DEFINE e == p.edt
<1>1. p.epc \in Nat /\ e \in Seq(Nat) /\ Len(e) \in Nat
  <2>1. p.epc \in Bytes /\ e \in Seq(Bytes)
    BY DEF Properties
  <2>2. Bytes \subseteq Nat
    BY DEF Bytes
  <2>3. e \in Seq(Nat) /\ Len(e) \in Nat
    <3> HIDE DEF e
    <3> QED BY <2>1, BytesAreNumbers
  <2>4. p.epc \in Nat
    BY <2>1, <2>2, Zenon
  <2> HIDE DEF e
  <2> QED BY <2>3, <2>4
<1> HIDE DEF e
<1>2. <<p.epc, Len(e)>> \in Seq(Nat) /\ Len(<<p.epc, Len(e)>>) = 2
  BY <1>1
<1> QED BY <1>1, <1>2 DEF Written, e

\* EncodeProps writes one property after the other.
LEMMA WrittenInTurn ==
  ASSUME NEW props \in Seq(Properties)
  PROVE  /\ WrittenUpTo(props, 0) = <<>>
         /\ WrittenUpTo(props, Len(props)) = EncodeProps(props)
         /\ \A k \in 0..Len(props) : WrittenUpTo(props, k) \in Seq(Nat)
         /\ \A k \in 1..Len(props) :
              WrittenUpTo(props, k) = WrittenUpTo(props, k - 1) \o Written(props[k])
<1> DEFINE n == Len(props)
           w(k) == [i \in 1..k |-> Written(props[i])]
<1>1. n \in Nat /\ \A i \in 1..n : props[i] \in Properties
  OBVIOUS
<1>2. ASSUME NEW k \in 0..n
      PROVE  WrittenUpTo(props, k) = FlattenSeq(w(k)) /\ w(k) \in Seq(Seq(Nat)) /\ Len(w(k)) = k
  <2>1. DOMAIN SubSeq(props, 1, k) = 1..k /\ \A i \in 1..k : SubSeq(props, 1, k)[i] = props[i]
    OBVIOUS
  <2>2. WrittenUpTo(props, k)
          = FlattenSeq([i \in DOMAIN SubSeq(props, 1, k) |-> Written(SubSeq(props, 1, k)[i])])
    BY Zenon DEF WrittenUpTo, EncodeProps, Written
  <2>3. [i \in DOMAIN SubSeq(props, 1, k) |-> Written(SubSeq(props, 1, k)[i])] = w(k)
    BY <2>1
  <2>4. w(k) \in [1..k -> Seq(Nat)] /\ k \in Nat
    <3>1. \A i \in 1..k : Written(props[i]) \in Seq(Nat)
      BY <1>1, WrittenFacts
    <3> QED BY <3>1
  <2>5. w(k) \in Seq(Seq(Nat)) /\ Len(w(k)) = k
    <3> HIDE DEF w
    <3> QED BY <2>4, FunctionIsSeq
  <2> QED BY <2>2, <2>3, <2>5
<1>3. WrittenUpTo(props, 0) = <<>>
  <2>1. w(0) = <<>>
    OBVIOUS
  <2>2. FlattenSeq(<<>>) = <<>>
    BY DEF FlattenSeq
  <2>3. 0 \in 0..n
    BY <1>1
  <2> QED BY <1>2, <2>1, <2>2, <2>3
<1>4. WrittenUpTo(props, n) = EncodeProps(props)
  <2>1. SubSeq(props, 1, n) = props
    OBVIOUS
  <2> QED BY <2>1 DEF WrittenUpTo
<1>5. ASSUME NEW k \in 1..n
      PROVE  WrittenUpTo(props, k) = WrittenUpTo(props, k - 1) \o Written(props[k])
  <2>1. k \in 0..n /\ k - 1 \in 0..n
    BY <1>1
  <2>2. Written(props[k]) \in Seq(Nat)
    BY <1>1, WrittenFacts
  <2>3. w(k) = Append(w(k - 1), Written(props[k]))
    <3>1. w(k - 1) \in Seq(Seq(Nat)) /\ Len(w(k - 1)) = k - 1
      BY <1>2, <2>1
    <3>2. DOMAIN w(k) = 1..k
      OBVIOUS
    <3> DEFINE v == w(k - 1)
    <3>3. \A i \in 1..(k - 1) : v[i] = Written(props[i]) /\ w(k)[i] = Written(props[i])
      OBVIOUS
    <3>4. w(k)[k] = Written(props[k])
      OBVIOUS
    <3>5. w(k) \in Seq(Seq(Nat)) /\ Len(w(k)) = k
      BY <1>2, <2>1
    <3> DEFINE u == w(k)
    <3> HIDE DEF w, v, u
    <3> QED BY <2>2, <3>1, <3>3, <3>4, <3>5 DEF v, u
  <2>4. w(k - 1) \in Seq(Seq(Nat))
    BY <1>2, <2>1
  <2> HIDE DEF w
  <2> QED BY <1>2, <2>1, <2>2, <2>3, <2>4, FlattenAppend
<1>6. \A k \in 0..n : WrittenUpTo(props, k) \in Seq(Nat)
  <2> DEFINE S == {k \in Nat : k <= n => WrittenUpTo(props, k) \in Seq(Nat)}
  <2>1. 0 \in S
    <3>1. <<>> \in Seq(Nat)
      OBVIOUS
    <3> QED BY <1>3, <3>1
  <2>2. ASSUME NEW k \in 1..n, k - 1 \in S PROVE k \in S
    <3>1. WrittenUpTo(props, k - 1) \in Seq(Nat)
      BY <1>1, <2>2
    <3>2. Written(props[k]) \in Seq(Nat)
      BY <1>1, WrittenFacts
    <3>3. WrittenUpTo(props, k) \in Seq(Nat)
      <4>1. \A x, y \in Seq(Nat) : x \o y \in Seq(Nat)
        OBVIOUS
      <4>2. WrittenUpTo(props, k) = WrittenUpTo(props, k - 1) \o Written(props[k])
        BY <1>5
      <4> QED BY <3>1, <3>2, <4>1, <4>2, Zenon
    <3> QED BY <3>3
  <2>3. 0..n \subseteq S
    <3> HIDE DEF S
    <3> QED BY <1>1, <2>1, <2>2, InductionUpTo
  <2> QED BY <1>1, <2>3
<1> QED BY <1>3, <1>4, <1>5, <1>6

\* The first k properties are a prefix of any number of them.
LEMMA WrittenIsPrefix ==
  ASSUME NEW props \in Seq(Properties), NEW k \in 0..Len(props), NEW m \in k..Len(props)
  PROVE  LET a == WrittenUpTo(props, k)
             b == WrittenUpTo(props, m)
         IN Len(a) <= Len(b) /\ \A j \in 1..Len(a) : b[j] = a[j]
<1> DEFINE n == Len(props)
           w(i) == WrittenUpTo(props, i)
           Prefix(i) == Len(w(k)) <= Len(w(i)) /\ \A j \in 1..Len(w(k)) : w(i)[j] = w(k)[j]
           S == {d \in Nat : k + d <= n => Prefix(k + d)}
<1>1. n \in Nat /\ k \in Nat /\ m \in Nat /\ m - k \in 0..n /\ k + (m - k) = m /\ m <= n
  OBVIOUS
<1>2. \A i \in 0..n : w(i) \in Seq(Nat)
  BY WrittenInTurn
<1>3. \A i \in 1..n : w(i) = w(i - 1) \o Written(props[i]) /\ Written(props[i]) \in Seq(Nat)
  <2>1. ASSUME NEW i \in 1..n PROVE Written(props[i]) \in Seq(Nat)
    <3>1. props[i] \in Properties
      OBVIOUS
    <3> QED BY <3>1, WrittenFacts, Zenon
  <2>2. \A i \in 1..n : w(i) = w(i - 1) \o Written(props[i])
    BY WrittenInTurn, Zenon
  <2> QED BY <2>1, <2>2, Zenon
<1> HIDE DEF n, w
<1>4. 0 \in S
  <2>1. k + 0 = k /\ k \in 0..n
    BY <1>1
  <2> QED BY <1>2, <2>1
<1>5. ASSUME NEW d \in 1..n, d - 1 \in S PROVE d \in S
  <2>1. CASE k + d <= n
    <3>1. k + d \in 1..n /\ (k + d) - 1 = k + (d - 1) /\ k + (d - 1) <= n /\ k + (d - 1) \in 0..n
      BY <1>1, <2>1
    <3> DEFINE x == w(k + (d - 1))
               y == Written(props[k + d])
    <3>2. w(k + d) = x \o y /\ x \in Seq(Nat) /\ y \in Seq(Nat)
      BY <1>2, <1>3, <3>1
    <3>3. Prefix(k + (d - 1))
      BY <1>5, <3>1
    <3>4. w(k) \in Seq(Nat)
      BY <1>1, <1>2
    <3>5. Len(w(k)) <= Len(x) /\ \A j \in 1..Len(w(k)) : x[j] = w(k)[j]
      BY <3>3
    <3> HIDE DEF x, y
    <3>6. Len(w(k + d)) = Len(x) + Len(y) /\ \A j \in 1..Len(x) : w(k + d)[j] = x[j]
      BY <3>2
    <3>7. Prefix(k + d)
      <4>1. Len(w(k)) \in Nat /\ Len(x) \in Nat /\ Len(y) \in Nat
        BY <3>2, <3>4
      <4>2. Len(w(k)) <= Len(w(k + d))
        BY <3>5, <3>6, <4>1
      <4>3. \A j \in 1..Len(w(k)) : j \in 1..Len(x)
        BY <3>5, <4>1
      <4>4. \A j \in 1..Len(w(k)) : w(k + d)[j] = w(k)[j]
        BY <3>5, <3>6, <4>3, Zenon
      <4> QED BY <4>2, <4>4, Zenon
    <3> QED BY <3>7
  <2>2. CASE ~(k + d <= n)
    BY <2>2
  <2> QED BY <2>1, <2>2
<1>6. 0..n \subseteq S
  <2> HIDE DEF S
  <2> QED BY <1>1, <1>4, <1>5, InductionUpTo
<1>7. Prefix(m)
  <2>1. m - k \in S
    BY <1>1, <1>6
  <2> QED BY <1>1, <2>1
<1> QED BY <1>7 DEF w

\* How many bytes the first k properties take.
Offset(props, k) == Len(WrittenUpTo(props, k))

\* Where the k-th property begins and what is there.
LEMMA PropertyIsThere ==
  ASSUME NEW props \in Seq(Properties), NEW k \in 1..Len(props)
  PROVE  LET bytes == EncodeProps(props)
             at == Offset(props, k - 1)
             edt == props[k].edt
         IN /\ at \in Nat /\ Offset(props, k) = at + 2 + Len(edt)
            /\ Offset(props, k) <= Len(bytes)
            /\ bytes[at + 1] = props[k].epc /\ bytes[at + 2] = Len(edt)
            /\ \A i \in 1..Len(edt) : bytes[at + 2 + i] = edt[i]
<1> DEFINE bytes == EncodeProps(props)
           at == Offset(props, k - 1)
           edt == props[k].edt
           a == WrittenUpTo(props, k - 1)
           b == WrittenUpTo(props, k)
           c == Written(props[k])
<1>1. Len(props) \in Nat /\ k - 1 \in 0..Len(props) /\ k \in 0..Len(props) /\ Len(props) \in k..Len(props)
  OBVIOUS
<1>0. props[k] \in Properties
  OBVIOUS
<1>2. /\ b = a \o c /\ a \in Seq(Nat) /\ c \in Seq(Nat)
      /\ bytes = WrittenUpTo(props, Len(props))
  BY <1>0, <1>1, WrittenInTurn, WrittenFacts, Zenon
<1>3. /\ Len(c) = Len(edt) + 2 /\ c[1] = props[k].epc /\ c[2] = Len(edt)
      /\ \A i \in 1..Len(edt) : c[i + 2] = edt[i]
  BY <1>0, WrittenFacts, Zenon
<1>4. Len(b) <= Len(bytes) /\ \A j \in 1..Len(b) : bytes[j] = b[j]
  BY <1>1, <1>2, WrittenIsPrefix
<1>5. at = Len(a) /\ Offset(props, k) = Len(b) /\ edt \in Seq(Bytes) /\ Len(edt) \in Nat
  <2>1. edt \in Seq(Bytes)
    BY <1>0 DEF Properties
  <2>2. Len(edt) \in Nat
    <3> HIDE DEF edt
    <3> QED BY <2>1
  <2> QED BY <2>1, <2>2, Zenon DEF Offset
<1> HIDE DEF bytes, at, edt, a, b, c
<1>6. Len(a) \in Nat /\ Len(edt) \in Nat /\ Len(b) = Len(a) + 2 + Len(edt)
  <2>1. Len(a) \in Nat /\ Len(a \o c) = Len(a) + Len(c)
    BY <1>2
  <2> QED BY <1>2, <1>3, <1>5, <2>1
<1>7. \A j \in 1..Len(c) : b[Len(a) + j] = c[j] /\ Len(a) + j \in 1..Len(b)
  BY <1>2
<1>8. \A j \in 1..Len(c) : bytes[Len(a) + j] = c[j]
  BY <1>4, <1>7
<1>9. bytes[at + 1] = props[k].epc /\ bytes[at + 2] = Len(edt)
  <2>1. 1 \in 1..Len(c) /\ 2 \in 1..Len(c)
    BY <1>3, <1>6
  <2> QED BY <1>3, <1>5, <1>8, <2>1
<1>10. \A i \in 1..Len(edt) : bytes[at + 2 + i] = edt[i]
  <2> TAKE i \in 1..Len(edt)
  <2>1. i + 2 \in 1..Len(c) /\ Len(a) + (i + 2) = at + 2 + i
    BY <1>3, <1>5, <1>6
  <2> QED BY <1>3, <1>8, <2>1
<1> QED BY <1>4, <1>5, <1>6, <1>9, <1>10 DEF bytes, at, edt

\* A property that arrived whole is read.
LEMMA WholePropertyIsRead ==
  ASSUME NEW props \in Seq(Properties), NEW k \in 1..Len(props),
         NEW n \in 0..Len(EncodeProps(props)), Offset(props, k) <= n
  PROVE  PropAt(SubSeq(EncodeProps(props), 1, n), Offset(props, k - 1) + 1) = props[k]
<1> DEFINE bytes == EncodeProps(props)
           at == Offset(props, k - 1)
           edt == props[k].edt
           data == SubSeq(bytes, 1, n)
<1>1. /\ at \in Nat /\ Offset(props, k) = at + 2 + Len(edt) /\ Offset(props, k) <= Len(bytes)
      /\ bytes[at + 1] = props[k].epc /\ bytes[at + 2] = Len(edt)
      /\ \A i \in 1..Len(edt) : bytes[at + 2 + i] = edt[i]
  BY PropertyIsThere, Zenon
<1>2. bytes \in Seq(Nat)
  <2>1. Len(props) \in 0..Len(props)
    OBVIOUS
  <2> QED BY <2>1, WrittenInTurn, Zenon
<1>3. props[k] = [epc |-> props[k].epc, edt |-> edt] /\ edt \in Seq(Bytes)
  <2>1. props[k] \in Properties
    OBVIOUS
  <2> QED BY <2>1 DEF Properties
<1>4. data \in Seq(Nat) /\ Len(data) = n /\ \A j \in 1..n : data[j] = bytes[j]
  <2>1. n \in 0..Len(bytes)
    OBVIOUS
  <2> HIDE DEF bytes
  <2> QED BY <1>2, <2>1
<1> HIDE DEF bytes, at, edt, data
<1>5. Len(edt) \in Nat /\ at + 2 + Len(edt) <= n
  <2>1. Len(edt) \in Nat
    BY <1>3, BytesAreNumbers
  <2>2. Offset(props, k) = at + 2 + Len(edt) /\ Offset(props, k) <= n
    BY <1>1, Zenon
  <2> QED BY <2>1, <2>2, Zenon
<1>6. data[at + 1] = props[k].epc /\ data[at + 2] = Len(edt)
      /\ \A i \in 1..Len(edt) : data[at + 2 + i] = edt[i]
  <2>1. n \in Nat /\ at \in Nat
    BY <1>1
  <2>2. /\ at + 1 \in 1..n /\ at + 2 \in 1..n
        /\ \A i \in 1..Len(edt) : at + 2 + i \in 1..n
    BY <1>5, <2>1
  <2> QED BY <1>1, <1>4, <2>2, Zenon
<1>7. SubSeq(data, at + 3, at + 2 + Len(edt)) = edt
  <2> DEFINE s == SubSeq(data, at + 3, at + 2 + Len(edt))
  <2>1. /\ at + 3 \in 1..(n + 1) /\ at + 2 + Len(edt) \in ((at + 3) - 1)..n
        /\ (at + 2 + Len(edt)) - (at + 3) + 1 = Len(edt)
    <3>1. at \in Nat /\ n \in Nat
      BY <1>1
    <3> QED BY <1>5, <3>1
  <2>2. /\ s \in Seq(Nat) /\ Len(s) = Len(edt)
        /\ \A i \in 1..Len(edt) : s[i] = data[(at + 3) + i - 1]
    <3>1. /\ s \in Seq(Nat) /\ Len(s) = (at + 2 + Len(edt)) - (at + 3) + 1
          /\ \A i \in 1..((at + 2 + Len(edt)) - (at + 3) + 1) : s[i] = data[(at + 3) + i - 1]
      BY <1>4, <2>1, PartOfSeq, Zenon
    <3> HIDE DEF s
    <3> QED BY <2>1, <3>1, Zenon
  <2>3. \A i \in 1..Len(edt) : s[i] = data[at + 2 + i]
    <3>1. \A i \in 1..Len(edt) : (at + 3) + i - 1 = at + 2 + i
      BY <1>1, <1>5
    <3> HIDE DEF s
    <3> QED BY <2>2, <3>1, Zenon
  <2> HIDE DEF s
  <2>4. \A i \in 1..Len(edt) : s[i] = edt[i]
    BY <1>6, <2>3
  <2>5. edt \in Seq(Nat)
    BY <1>3, BytesAreNumbers
  <2>6. s = edt
    BY <2>2, <2>4, <2>5, SameSeq
  <2> QED BY <2>6 DEF s
<1>8. PropAt(data, at + 1) = [epc |-> data[at + 1], edt |-> SubSeq(data, at + 3, at + 2 + data[at + 2])]
  <2>1. (at + 1) + 2 = at + 3 /\ (at + 1) + 1 = at + 2
    BY <1>1
  <2> QED BY <2>1, Zenon DEF PropAt
<1>9. PropAt(data, at + 1) = props[k]
  BY <1>3, <1>6, <1>7, <1>8, Zenon
<1> QED BY <1>9 DEF data, bytes, at

\* The recursion of ParseProps, without the choice of a function.
LEMMA ParsePropsUnfolds ==
  ASSUME NEW data \in Seq(Nat), NEW opc \in Nat
  PROVE  \E from :
           /\ ParseProps(data, opc) = from[opc][1]
           /\ \A pos \in 1..(Len(data) + 1) : from[0][pos] = <<>>
           /\ \A m \in 1..opc : \A pos \in 1..(Len(data) + 1) :
                from[m][pos] =
                  IF pos + 1 > Len(data) \/ pos + 1 + data[pos + 1] > Len(data) THEN <<>>
                  ELSE <<PropAt(data, pos)>> \o from[m - 1][pos + 2 + data[pos + 1]]
<1> DEFINE Pos == 1..(Len(data) + 1)
           Ends(pos) == pos + 1 > Len(data) \/ pos + 1 + data[pos + 1] > Len(data)
           Next(pos) == pos + 2 + data[pos + 1]
           T == {PropAt(data, pos) : pos \in Pos}
           V == [Pos -> Seq(T)]
           F(x) == [pos \in Pos |-> IF Ends(pos) THEN <<>> ELSE <<PropAt(data, pos)>> \o x[Next(pos)]]
           G(m, x) == [pos \in Pos |-> IF m = 0 \/ Ends(pos) THEN <<>>
                                       ELSE <<PropAt(data, pos)>> \o x[Next(pos)]]
           Is(g) == g = [m \in 0..opc |->
                           [pos \in 1..(Len(data) + 1) |->
                              IF m = 0 \/ pos + 1 > Len(data) \/ pos + 1 + data[pos + 1] > Len(data) THEN <<>>
                              ELSE <<PropAt(data, pos)>> \o g[m - 1][pos + 2 + data[pos + 1]]]]
           none0 == [pos \in Pos |-> <<>>]
           step == [m \in 1..opc |-> [x \in V |-> F(x)]]
<1>1. ASSUME NEW pos \in Pos, ~Ends(pos) PROVE Next(pos) \in Pos
  <2>1. pos + 1 \in 1..Len(data) /\ data[pos + 1] \in Nat
    BY <1>1
  <2> QED BY <1>1, <2>1
<1>2. ASSUME NEW x \in V PROVE F(x) \in V
  <2>1. ASSUME NEW pos \in Pos
        PROVE  (IF Ends(pos) THEN <<>> ELSE <<PropAt(data, pos)>> \o x[Next(pos)]) \in Seq(T)
    <3>1. <<>> \in Seq(T) /\ PropAt(data, pos) \in T
      <4>1. PropAt(data, pos) \in T
        BY Zenon
      <4> HIDE DEF T
      <4> QED BY <4>1
    <3>2. ASSUME ~Ends(pos) PROVE <<PropAt(data, pos)>> \o x[Next(pos)] \in Seq(T)
      <4>1. x[Next(pos)] \in Seq(T)
        BY <1>1, <3>2, Zenon
      <4> HIDE DEF T, Next
      <4> QED BY <3>1, <4>1
    <3> QED BY <3>1, <3>2, Zenon
  <2> HIDE DEF Ends, Next, T, Pos
  <2> QED BY <2>1, Zenon
<1>3. none0 \in V
  <2> HIDE DEF T, Pos
  <2>1. <<>> \in Seq(T)
    OBVIOUS
  <2> QED BY <2>1, Zenon
<1>4. \A x : F(x) = [pos \in Pos |-> IF Ends(pos) THEN <<>> ELSE <<PropAt(data, pos)>> \o x[Next(pos)]]
  BY Zenon
<1>5. \E g : Is(g)
  <2> HIDE DEF F, V, none0, Is
  <2>1. step \in [1..opc -> [V -> V]]
    BY <1>2
  <2>2. PICK g : g \in Recursion(opc, V, none0, step)
    <3> HIDE DEF step
    <3> QED BY <1>3, <2>1, FiniteRecursion
  <2>3. g \in [0..opc -> V] /\ g[0] = none0 /\ \A m \in 1..opc : g[m] = step[m][g[m - 1]]
    <3> HIDE DEF step
    <3> QED BY <2>2 DEF Recursion
  <2>4. ASSUME NEW m \in 1..opc PROVE g[m] = F(g[m - 1])
    <3>1. m - 1 \in 0..opc
      OBVIOUS
    <3>2. g[m - 1] \in V
      BY <2>3, <3>1
    <3> QED BY <2>3, <3>2
  <2>5. ASSUME NEW m \in 0..opc PROVE g[m] = G(m, g[m - 1])
    <3>1. CASE m = 0
      BY <2>3, <3>1, Zenon DEF none0
    <3>2. CASE m # 0
      <4>1. m \in 1..opc
        BY <3>2
      <4> QED BY <1>4, <2>4, <3>2, <4>1, Zenon
    <3> QED BY <3>1, <3>2
  <2>6. g = [m \in 0..opc |-> G(m, g[m - 1])]
    <3> HIDE DEF G
    <3> QED BY <2>3, <2>5
  <2>7. Is(g)
    BY <2>6, Zenon DEF Is
  <2> QED BY <2>7
<1> DEFINE from == CHOOSE g : Is(g)
<1>6. ParseProps(data, opc) = from[opc][1]
  BY Zenon DEF ParseProps
<1>7. Is(from)
  <2> HIDE DEF Is
  <2> QED BY <1>5
<1>8. from = [m \in 0..opc |-> G(m, from[m - 1])]
  BY <1>7, Zenon
<1> HIDE DEF from, Is
<1>9. ASSUME NEW m \in 0..opc, NEW pos \in Pos
      PROVE  from[m][pos] = IF m = 0 \/ Ends(pos) THEN <<>>
                            ELSE <<PropAt(data, pos)>> \o from[m - 1][Next(pos)]
  <2>1. from[m] = G(m, from[m - 1])
    <3> HIDE DEF G
    <3> QED BY <1>8, Zenon
  <2> HIDE DEF Ends, Next, Pos
  <2> QED BY <2>1, Zenon
<1>10. \A pos \in 1..(Len(data) + 1) : from[0][pos] = <<>>
  <2>1. 0 \in 0..opc
    OBVIOUS
  <2> QED BY <1>9, <2>1, Zenon
<1>11. \A m \in 1..opc : m \in 0..opc /\ m # 0
  OBVIOUS
<1>12. \A m \in 1..opc : \A pos \in Pos :
         from[m][pos] = IF Ends(pos) THEN <<>>
                        ELSE <<PropAt(data, pos)>> \o from[m - 1][Next(pos)]
  <2> HIDE DEF Ends, Next, Pos
  <2> QED BY <1>9, <1>11, Zenon
<1> WITNESS from
<1> QED BY <1>6, <1>10, <1>12, Zenon

\* Of properties that were cut after n bytes parseFrame reads those that are whole.
THEOREM CutFrameIsRead ==
  ASSUME NEW props \in Seq(Properties), NEW n \in 0..Len(EncodeProps(props))
  PROVE  CutFrameIsSafe(props, n)
<1> DEFINE N == Len(props)
           bytes == EncodeProps(props)
           data == SubSeq(bytes, 1, n)
           off(k) == Offset(props, k)
           whole == {k \in 0..N : off(k) <= n}
<1>1. N \in Nat /\ bytes \in Seq(Nat) /\ n \in Nat /\ n <= Len(bytes)
  <2>1. N \in 0..N /\ N \in Nat
    OBVIOUS
  <2>2. bytes \in Seq(Nat)
    BY <2>1, WrittenInTurn, Zenon
  <2>3. n \in 0..Len(bytes)
    OBVIOUS
  <2> HIDE DEF bytes
  <2> QED BY <2>1, <2>2, <2>3
<1>2. data \in Seq(Nat) /\ Len(data) = n /\ \A j \in 1..n : data[j] = bytes[j]
  <2> HIDE DEF bytes
  <2> QED BY <1>1
<1>3. ASSUME NEW k \in 1..N
      PROVE  /\ off(k - 1) \in Nat /\ off(k) = off(k - 1) + 2 + Len(props[k].edt)
             /\ Len(props[k].edt) \in Nat /\ off(k) <= Len(bytes)
             /\ bytes[off(k - 1) + 2] = Len(props[k].edt)
  <2>1. props[k] \in Properties
    OBVIOUS
  <2>2. props[k].edt \in Seq(Bytes)
    BY <2>1 DEF Properties
  <2>3. Len(props[k].edt) \in Nat
    BY <2>2, BytesAreNumbers
  <2> QED BY <2>3, PropertyIsThere, Zenon
<1>4. ASSUME NEW k \in 1..N, off(k) <= n
      PROVE  PropAt(data, off(k - 1) + 1) = props[k]
  BY <1>4, WholePropertyIsRead, Zenon
<1>5. off(0) = 0 /\ \A k \in 0..N : off(k) \in Nat
  BY WrittenInTurn DEF Offset
<1>6. ASSUME NEW k \in 0..N, NEW j \in k..N PROVE off(k) <= off(j)
  BY WrittenIsPrefix, Zenon DEF Offset
<1>7. PICK K \in whole : \A j \in whole : j <= K
  <2> HIDE DEF N, off
  <2> DEFINE R == {N - k : k \in whole}
  <2>1. R \in SUBSET Nat
    BY <1>1
  <2>2. 0 \in whole
    BY <1>1, <1>5
  <2>3. PICK r \in R : \A q \in R : r <= q
    <3>1. R # {}
      BY <2>2
    <3> HIDE DEF R
    <3> QED BY <2>1, <3>1, LeastElement
  <2>4. PICK k \in whole : r = N - k
    BY <2>3
  <2>5. ASSUME NEW j \in whole PROVE j <= k
    <3>1. r <= N - j /\ j \in 0..N /\ k \in 0..N
      BY <2>3
    <3> QED BY <1>1, <2>4, <3>1
  <2> QED BY <2>5
<1>8. PICK from :
        /\ ParseProps(data, N) = from[N][1]
        /\ \A pos \in 1..(Len(data) + 1) : from[0][pos] = <<>>
        /\ \A m \in 1..N : \A pos \in 1..(Len(data) + 1) :
             from[m][pos] =
               IF pos + 1 > Len(data) \/ pos + 1 + data[pos + 1] > Len(data) THEN <<>>
               ELSE <<PropAt(data, pos)>> \o from[m - 1][pos + 2 + data[pos + 1]]
  <2> HIDE DEF data, N
  <2> QED BY <1>1, <1>2, ParsePropsUnfolds, Zenon
<1> HIDE DEF N, bytes, data, off
<1>9. K \in 0..N /\ off(K) <= n /\ \A j \in 0..N : off(j) <= n => j <= K
  BY <1>7
<1> HIDE DEF whole
<1> DEFINE S == {m \in Nat : m <= N /\ N - m <= K =>
                   from[m][off(N - m) + 1] = SubSeq(props, (N - m) + 1, K)}
<1>10. 0 \in S
  <2>1. CASE N <= K
    <3>1. N = K /\ N - 0 = N /\ off(N) \in Nat
      <4>1. K \in Nat /\ N = K
        BY <1>1, <1>9, <2>1
      <4>2. off(N) \in Nat
        <5>1. N \in 0..N
          BY <1>1
        <5> QED BY <1>5, <5>1, Zenon
      <4> QED BY <1>1, <4>1, <4>2
    <3>2. off(N) + 1 \in 1..(n + 1)
      BY <1>1, <1>9, <3>1
    <3>3. SubSeq(props, N + 1, N) = <<>>
      BY <1>1 DEF N
    <3>4. from[0][off(N - 0) + 1] = SubSeq(props, (N - 0) + 1, K)
      BY <1>2, <1>8, <3>1, <3>2, <3>3
    <3> QED BY <3>4
  <2>2. CASE ~(N <= K)
    BY <1>1, <2>2
  <2> QED BY <2>1, <2>2
<1>11. ASSUME NEW m \in 1..N, m - 1 \in S PROVE m \in S
  <2> DEFINE k == N - m
             pos == off(k) + 1
             edt == props[k + 1].edt
  <2>1. CASE k <= K
    <3>1. /\ k \in Nat /\ k \in 0..N /\ k + 1 \in 1..N /\ (k + 1) - 1 = k
          /\ m - 1 \in Nat /\ m - 1 <= N /\ N - (m - 1) = k + 1 /\ K \in Nat /\ K <= N
      BY <1>1, <1>9
    <3> HIDE DEF k
    <3>2. /\ off(k) \in Nat /\ off(k + 1) = off(k) + 2 + Len(edt) /\ Len(edt) \in Nat
          /\ off(k + 1) <= Len(bytes) /\ bytes[off(k) + 2] = Len(edt)
      BY <1>3, <3>1, Zenon
    <3>3. off(k) <= n
      <4>1. K \in k..N
        BY <2>1, <3>1
      <4>2. off(k) <= off(K)
        BY <1>6, <3>1, <4>1
      <4>3. off(K) \in Nat
        BY <1>5, <1>9, Zenon
      <4> QED BY <1>1, <1>9, <3>2, <4>2, <4>3
    <3>4. pos \in 1..(n + 1) /\ pos + 1 = off(k) + 2 /\ pos = off(k) + 1
      <4> DEFINE o == off(k)
      <4>1. o \in Nat /\ n \in Nat /\ o <= n /\ pos = o + 1
        BY <1>1, <3>2, <3>3
      <4> HIDE DEF o, pos
      <4>2. pos \in 1..(n + 1) /\ pos + 1 = o + 2
        BY <4>1
      <4> QED BY <4>1, <4>2 DEF o
    <3>5. from[m][pos] = IF pos + 1 > n \/ pos + 1 + data[pos + 1] > n THEN <<>>
                         ELSE <<PropAt(data, pos)>> \o from[m - 1][pos + 2 + data[pos + 1]]
      <4>1. pos \in 1..(Len(data) + 1)
        BY <1>2, <3>4
      <4>2. from[m][pos] =
              IF pos + 1 > Len(data) \/ pos + 1 + data[pos + 1] > Len(data) THEN <<>>
              ELSE <<PropAt(data, pos)>> \o from[m - 1][pos + 2 + data[pos + 1]]
        BY <1>8, <4>1, Zenon
      <4> QED BY <1>2, <4>2, Zenon
    <3>6. pos + 1 <= n => data[pos + 1] = Len(edt)
      <4>1. pos + 1 <= n => pos + 1 \in 1..n
        BY <1>1, <3>4
      <4> QED BY <1>2, <3>2, <3>4, <4>1, Zenon
    <3> HIDE DEF edt
    <3>7. CASE k = K
      <4>1. ~(off(k + 1) <= n)
        <5>1. k + 1 \in 0..N /\ ~(k + 1 <= K)
          BY <3>1, <3>7
        <5> QED BY <1>9, <5>1
      <4>2. pos + 1 > n \/ pos + 1 + data[pos + 1] > n
        <5>1. pos + 1 <= n => data[pos + 1] = Len(edt)
          BY <3>6
        <5>2. off(k) \in Nat /\ Len(edt) \in Nat /\ off(k + 1) = off(k) + 2 + Len(edt)
              /\ n \in Nat /\ pos = off(k) + 1
          BY <1>1, <3>2, <3>4
        <5> HIDE DEF pos
        <5> QED BY <4>1, <5>1, <5>2
      <4>3. SubSeq(props, k + 1, K) = <<>>
        BY <3>1, <3>7 DEF N
      <4>4. from[m][off(k) + 1] = SubSeq(props, k + 1, K)
        BY <3>4, <3>5, <4>2, <4>3, Zenon
      <4> QED BY <3>1, <4>4 DEF k
    <3>8. CASE k # K
      <4>1. k + 1 <= K
        BY <2>1, <3>1, <3>8
      <4>2. off(k + 1) <= n
        <5>1. k + 1 \in 0..N /\ K \in (k + 1)..N
          BY <3>1, <4>1
        <5>2. off(k + 1) <= off(K)
          BY <1>6, <5>1
        <5>3. off(K) \in Nat
          BY <1>5, <1>9, Zenon
        <5> QED BY <1>1, <1>9, <3>2, <5>2, <5>3
      <4>3. pos + 1 <= n /\ data[pos + 1] = Len(edt)
        <5>1. pos + 1 <= n
          BY <1>1, <3>2, <3>4, <4>2
        <5> QED BY <3>6, <5>1
      <4>4. /\ ~(pos + 1 > n) /\ ~(pos + 1 + data[pos + 1] > n)
            /\ pos + 2 + data[pos + 1] = off(k + 1) + 1
        <5>1. off(k) \in Nat /\ Len(edt) \in Nat /\ off(k + 1) = off(k) + 2 + Len(edt)
              /\ n \in Nat /\ pos = off(k) + 1
          BY <1>1, <3>2, <3>4
        <5> HIDE DEF pos
        <5>2. ~(pos + 1 > n) /\ ~(pos + 1 + Len(edt) > n)
              /\ pos + 2 + Len(edt) = off(k + 1) + 1
          BY <4>2, <5>1
        <5> QED BY <4>3, <5>2, Zenon
      <4>5. PropAt(data, pos) = props[k + 1]
        BY <1>4, <3>1, <3>4, <4>2, Zenon
      <4>6. from[m - 1][off(k + 1) + 1] = SubSeq(props, (k + 1) + 1, K)
        BY <1>11, <3>1, <4>1, Zenon
      <4>7. SubSeq(props, k + 1, K) = <<props[k + 1]>> \o SubSeq(props, (k + 1) + 1, K)
        BY <3>1, <4>1 DEF N
      <4>8. from[m][off(k) + 1] = SubSeq(props, k + 1, K)
        BY <3>4, <3>5, <4>4, <4>5, <4>6, <4>7, Zenon
      <4> QED BY <3>1, <4>8 DEF k
    <3> QED BY <3>7, <3>8
  <2>2. CASE ~(k <= K)
    BY <2>2
  <2> QED BY <2>1, <2>2
<1>12. ParseProps(data, N) = SubSeq(props, 1, K)
  <2>1. N \in S
    <3>1. 0..N \subseteq S
      <4> HIDE DEF S
      <4> QED BY <1>1, <1>10, <1>11, InductionUpTo
    <3> QED BY <1>1, <3>1
  <2>2. N <= N /\ N - N = 0 /\ 0 <= K /\ off(0) + 1 = 1 /\ 0 + 1 = 1
    BY <1>1, <1>5, <1>9
  <2>3. from[N][1] = SubSeq(props, 1, K)
    BY <2>1, <2>2, Zenon
  <2> QED BY <1>8, <2>3, Zenon
<1>13. {k \in 0..Len(props) : Len(EncodeProps(SubSeq(props, 1, k))) <= n} = whole
  BY Zenon DEF whole, N, off, Offset, WrittenUpTo
<1> QED BY <1>7, <1>12, <1>13, Zenon DEF CutFrameIsSafe, data, bytes, N

-----------------------------------------------------------------------------
(* Instances                                                               *)

\* Every object decodeInstanceList returns is one that is listed.
LEMMA InstancesAreListed ==
  ASSUME NEW list \in Seq(Bytes)
  PROVE  LET eojs == DecodeInstanceList(list)
         IN \A i \in DOMAIN eojs : /\ i \in 1..Len(list) /\ 3 * i + 1 <= Len(list)
                                   /\ eojs[i] = Listed(list, i) /\ eojs[i] \in EOJs
<1>1. CASE list = <<>>
  BY <1>1 DEF DecodeInstanceList
<1>2. CASE list # <<>>
  <2> DEFINE fit == (Len(list) - 1) \div 3
             n == IF list[1] > fit THEN fit ELSE list[1]
  <2>1. DecodeInstanceList(list) = [i \in 1..n |-> Listed(list, i)]
    BY <1>2 DEF DecodeInstanceList
  <2>2. Len(list) \in Nat /\ Len(list) >= 1 /\ fit \in Nat /\ 3 * fit + 1 <= Len(list)
    BY <1>2
  <2>3. list[1] \in Nat
    <3>1. 1 \in 1..Len(list)
      BY <2>2
    <3>2. list[1] \in Bytes
      BY <3>1
    <3> QED BY <3>2, ByteType
  <2>4. n \in Nat /\ n <= fit
    BY <2>2, <2>3
  <2>5. ASSUME NEW i \in 1..n
        PROVE  i \in 1..Len(list) /\ 3 * i + 1 <= Len(list)
    <3> HIDE DEF n, fit
    <3> QED BY <2>2, <2>4
  <2>6. ASSUME NEW i \in 1..n
        PROVE  Listed(list, i) \in EOJs
    <3>1. 3 * i - 1 \in 1..Len(list) /\ 3 * i \in 1..Len(list) /\ 3 * i + 1 \in 1..Len(list)
      BY <2>2, <2>4, <2>5
    <3> QED BY <3>1 DEF Listed, EOJs
  <2> HIDE DEF n
  <2> QED BY <2>1, <2>5, <2>6
<1> QED BY <1>1, <1>2

\* decodeInstanceList returns a list, and no list counts as an empty one.
LEMMA InstanceCount ==
  ASSUME NEW list \in Seq(Bytes)
  PROVE  /\ \E n \in Nat : DOMAIN DecodeInstanceList(list) = 1..n
         /\ \E n \in Nat : DOMAIN <<>> = 1..n
<1>1. DOMAIN <<>> = 1..0
  OBVIOUS
<1>2. CASE list = <<>>
  BY <1>1, <1>2 DEF DecodeInstanceList
<1>3. CASE list # <<>>
  <2> DEFINE fit == (Len(list) - 1) \div 3
             n == IF list[1] > fit THEN fit ELSE list[1]
  <2>1. 1 \in 1..Len(list) /\ fit \in Nat
    BY <1>3
  <2>2. n \in Nat
    BY <2>1, ByteType
  <2>3. DOMAIN DecodeInstanceList(list) = 1..n
    BY <1>3 DEF DecodeInstanceList
  <2> QED BY <1>1, <2>2, <2>3
<1> QED BY <1>2, <1>3, <1>1

\* selectEOJFromInstances takes an object of the class if there is one.
LEMMA SelectEOJTakesClass ==
  ASSUME NEW eojs, NEW configured, NEW n \in Nat, DOMAIN eojs = 1..n,
         \E i \in DOMAIN eojs : SameClass(eojs[i], configured)
  PROVE  \E i \in DOMAIN eojs : /\ SelectEOJ(eojs, configured) = eojs[i]
                                /\ SameClass(eojs[i], configured)
<1> DEFINE S == {i \in 1..n : SameClass(eojs[i], configured)}
           First(i) == /\ SameClass(eojs[i], configured)
                       /\ \A j \in 1..(i - 1) : ~SameClass(eojs[j], configured)
<1>1. S \in SUBSET Nat /\ S # {}
  OBVIOUS
<1>2. PICK m \in S : \A j \in S : m <= j
  BY <1>1, LeastElement
<1>3. First(m)
  BY <1>2
<1>4. (CHOOSE i \in DOMAIN eojs : First(i)) \in DOMAIN eojs
      /\ First(CHOOSE i \in DOMAIN eojs : First(i))
  <2> HIDE DEF First
  <2> QED BY <1>3
<1> QED BY <1>4 DEF SelectEOJ

\* The sweep asks for every instance from 1 to 15, each once.
SweepOrder(c) == <<c>> \o [i \in 1..14 |-> IF i < c THEN i ELSE i + 1]

\* The sweep, with the configured instance first, passes every instance from 1 to 15.
LEMMA SweepCovers ==
  ASSUME NEW c \in 1..15
  PROVE  /\ \A i \in 1..15 : SweepOrder(c)[i] \in 1..15
         /\ \A v \in 1..15 : \E i \in 1..15 : SweepOrder(c)[i] = v
<1> DEFINE rest == [i \in 1..14 |-> IF i < c THEN i ELSE i + 1]
<1>1. rest \in Seq(Nat) /\ Len(rest) = 14
  OBVIOUS
<1>2. SweepOrder(c)[1] = c /\ \A i \in 2..15 : SweepOrder(c)[i] = rest[i - 1]
  BY <1>1 DEF SweepOrder
<1>3. \A i \in 2..15 : SweepOrder(c)[i] = IF i - 1 < c THEN i - 1 ELSE i
  BY <1>2
<1>4. \A i \in 1..15 : SweepOrder(c)[i] \in 1..15
  BY <1>2, <1>3
<1>5. ASSUME NEW v \in 1..15
      PROVE  \E i \in 1..15 : SweepOrder(c)[i] = v
  <2>1. CASE v = c
    BY <1>2, <2>1
  <2>2. CASE v < c
    <3>1. v + 1 \in 2..15 /\ SweepOrder(c)[v + 1] = v
      BY <1>3, <2>2
    <3> QED BY <3>1
  <2>3. CASE v > c
    <3>1. v \in 2..15 /\ SweepOrder(c)[v] = v
      BY <1>3, <2>3
    <3> QED BY <3>1
  <2> QED BY <2>1, <2>2, <2>3
<1> QED BY <1>4, <1>5
\* The sweep ends at the configured instance or at one of 1 to 15 that the
\* device has; if nothing is lost and the device refuses what it does not
\* have, it finds one if there is one.
LEMMA SweepFacts ==
  ASSUME NEW node, NEW configured \in EOJs, configured[3] \in 1..15, NEW silent
  PROVE  /\ \/ SweepInstances(node, configured, silent) = configured
            \/ \E i \in 1..15 : SweepInstances(node, configured, silent)
                                 = <<configured[1], configured[2], i>>
         /\ /\ silent = {} /\ node.refuses
            /\ \E i \in 1..15 : <<configured[1], configured[2], i>> \in node.eojs
            => SweepInstances(node, configured, silent) \in node.eojs
<1> DEFINE at(i) == <<configured[1], configured[2], i>>
           order == SweepOrder(configured[3])
           stop(i) == \/ order[i] \in silent \/ at(order[i]) \in node.eojs \/ ~node.refuses
           first == {i \in 1..15 : stop(i) /\ \A j \in 1..(i - 1) : ~stop(j)}
           i0 == CHOOSE k \in first : TRUE
           r == SweepInstances(node, configured, silent)
<1>1. r = IF first = {} THEN configured
          ELSE IF order[i0] \notin silent /\ at(order[i0]) \in node.eojs
               THEN at(order[i0]) ELSE configured
  BY DEF SweepInstances, SweepOrder
<1>2. first # {} => i0 \in first
  <2> HIDE DEF first
  <2> QED OBVIOUS
<1>3. i0 \in first => i0 \in 1..15 /\ order[i0] \in 1..15 /\ stop(i0)
  BY SweepCovers
<1>4. r = configured \/ \E i \in 1..15 : r = at(i)
  <2> HIDE DEF first, order, i0, r, at
  <2> QED BY <1>1, <1>2, <1>3
<1>5. ASSUME silent = {}, node.refuses, NEW i \in 1..15, at(i) \in node.eojs
      PROVE  r \in node.eojs
  <2> DEFINE S == {k \in 1..15 : stop(k)}
  <2>1. PICK k \in 1..15 : order[k] = i
    BY SweepCovers
  <2>2. k \in S
    BY <1>5, <2>1
  <2>3. PICK m \in S : \A n \in S : m <= n
    <3>1. S \in SUBSET Nat /\ S # {}
      BY <2>2
    <3> HIDE DEF S
    <3> QED BY <3>1, LeastElement
  <2>4. m \in first
    <3>1. m \in 1..15 /\ stop(m)
      BY <2>3
    <3>2. \A j \in 1..(m - 1) : j \in 1..15 /\ ~(m <= j)
      BY <3>1
    <3>3. \A j \in 1..(m - 1) : j \notin S
      BY <2>3, <3>2
    <3> HIDE DEF stop
    <3> QED BY <3>1, <3>2, <3>3
  <2>5. order[i0] \notin silent /\ at(order[i0]) \in node.eojs
    <3>1. stop(i0)
      <4> HIDE DEF first, i0, stop
      <4> QED BY <1>2, <1>3, <2>4
    <3> HIDE DEF order, i0, at
    <3> QED BY <1>5, <3>1
  <2> HIDE DEF first, order, i0, r, at
  <2> QED BY <1>1, <2>4, <2>5
<1> QED BY <1>4, <1>5

\* resolveEOJInstance never leaves the configured class, whatever is lost.
THEOREM ResolveKeepsClass ==
  ASSUME NEW node, node.list \in Seq(Bytes), NEW configured \in EOJs,
         configured[3] \in 1..15, NEW silent
  PROVE  /\ ResolveEOJ(node, configured, silent) \in EOJs
         /\ SameClass(ResolveEOJ(node, configured, silent), configured)
<1> DEFINE eojs == IF 0 \in silent THEN <<>> ELSE DecodeInstanceList(node.list)
           known == \E i \in DOMAIN eojs : SameClass(eojs[i], configured)
           r == ResolveEOJ(node, configured, silent)
<1> SUFFICES r \in EOJs /\ SameClass(r, configured)
  OBVIOUS
<1>1. r = IF known THEN SelectEOJ(eojs, configured)
          ELSE SweepInstances(node, configured, silent)
  BY DEF ResolveEOJ
<1>2. CASE known
  <2>1. \A i \in DOMAIN eojs : eojs[i] \in EOJs
    BY InstancesAreListed
  <2>2. PICK n \in Nat : DOMAIN eojs = 1..n
    BY InstanceCount
  <2>3. \E i \in DOMAIN eojs : r = eojs[i] /\ SameClass(eojs[i], configured)
    <3> HIDE DEF eojs
    <3> QED BY <1>1, <1>2, <2>2, SelectEOJTakesClass
  <2> HIDE DEF eojs, r
  <2> QED BY <2>1, <2>3
<1>3. CASE ~known
  <2> DEFINE at(i) == <<configured[1], configured[2], i>>
  <2>1. r = configured \/ \E i \in 1..15 : r = at(i)
    <3>1. r = SweepInstances(node, configured, silent)
      BY <1>1, <1>3
    <3> HIDE DEF r
    <3> QED BY <3>1, SweepFacts
  <2>2. \A i \in 1..15 : at(i) \in EOJs /\ SameClass(at(i), configured)
    <3> SUFFICES ASSUME NEW i \in 1..15 PROVE at(i) \in EOJs /\ SameClass(at(i), configured)
      OBVIOUS
    <3>1. i \in Bytes
      BY DEF Bytes
    <3>2. configured[1] \in Bytes /\ configured[2] \in Bytes
      BY DEF EOJs
    <3> QED BY <3>1, <3>2 DEF EOJs, SameClass
  <2>3. SameClass(configured, configured)
    BY DEF SameClass
  <2> HIDE DEF r, at
  <2> QED BY <2>1, <2>2, <2>3
<1> QED BY <1>2, <1>3

\* If nothing is lost and the device refuses what it does not have, the instance
\* that is found is one it has, as soon as it has one among 1 to 15, and however
\* long its list of instances is and whatever it says of its length.
THEOREM ResolveFindsInstance ==
  ASSUME NEW node, node.list \in Seq(Bytes), ListsItsOwn(node), node.refuses,
         node.eojs \subseteq EOJs, NEW configured \in EOJs, configured[3] \in 1..15,
         \E o \in node.eojs : SameClass(o, configured) /\ o[3] \in 1..15
  PROVE  ResolveEOJ(node, configured, {}) \in node.eojs
<1> DEFINE eojs == DecodeInstanceList(node.list)
           known == \E i \in DOMAIN eojs : SameClass(eojs[i], configured)
           r == ResolveEOJ(node, configured, {})
<1> SUFFICES r \in node.eojs
  OBVIOUS
<1>1. r = IF known THEN SelectEOJ(eojs, configured)
          ELSE SweepInstances(node, configured, {})
  BY DEF ResolveEOJ
<1>2. CASE known
  <2>1. \A i \in DOMAIN eojs : eojs[i] \in node.eojs
    BY InstancesAreListed DEF ListsItsOwn
  <2>2. PICK n \in Nat : DOMAIN eojs = 1..n
    BY InstanceCount
  <2>3. \E i \in DOMAIN eojs : r = eojs[i] /\ SameClass(eojs[i], configured)
    <3>1. r = SelectEOJ(eojs, configured)
      BY <1>1, <1>2
    <3> HIDE DEF eojs, r
    <3> QED BY <1>2, <2>2, <3>1, SelectEOJTakesClass
  <2> HIDE DEF eojs, r
  <2> QED BY <2>1, <2>3
<1>3. CASE ~known
  <2>1. PICK o \in node.eojs : SameClass(o, configured) /\ o[3] \in 1..15
    OBVIOUS
  <2>2. o = <<configured[1], configured[2], o[3]>>
    <3>1. o \in EOJs
      BY <2>1
    <3> QED BY <2>1, <3>1 DEF EOJs, SameClass
  <2>3. \E i \in 1..15 : <<configured[1], configured[2], i>> \in node.eojs
    BY <2>1, <2>2
  <2>4. r = SweepInstances(node, configured, {})
    BY <1>1, <1>3
  <2>5. SweepInstances(node, configured, {}) \in node.eojs
    BY Zenon, <2>3, SweepFacts
  <2> HIDE DEF r
  <2> QED BY <2>4, <2>5
<1> QED BY <1>2, <1>3
-----------------------------------------------------------------------------
(* getPropsAdaptive                                                        *)

Pairs(q) == (1..Len(q)) \X (1..Len(q))

\* What a call for the interval lo..hi may return: all that the device has of it,
\* but for EPCs in unread, and nothing else.
Right(res, unread, node, q, lo, hi) ==
  /\ res \ Err \subseteq EPCsOf(q, lo, hi) \cap DOMAIN node.data
  /\ (EPCsOf(q, lo, hi) \cap DOMAIN node.data) \ (res \ Err) \subseteq unread

\* The answer to a request has only what the device has, and all of it if one EPC
\* is asked for.
LEMMA ReceivedFacts ==
  ASSUME NEW node, node.limit \in Nat \ {0}, NEW q \in Seq(Bytes),
         NEW lo \in 1..Len(q), NEW hi \in 1..Len(q), lo <= hi
  PROVE  LET has == EPCsOf(q, lo, hi) \cap DOMAIN node.data
             got == Received(node, SubSeq(q, lo, hi))
         IN got \subseteq has /\ (lo = hi => got = has)
<1> DEFINE sub == SubSeq(q, lo, hi)
           has == EPCsOf(q, lo, hi) \cap DOMAIN node.data
<1>1. /\ sub \in Seq(Bytes) /\ Len(sub) = hi - lo + 1 /\ DOMAIN sub = 1..(hi - lo + 1)
      /\ \A i \in 1..(hi - lo + 1) : sub[i] = q[lo + i - 1]
  OBVIOUS
<1>2. ToSet(sub) = EPCsOf(q, lo, hi)
  <2>1. ASSUME NEW i \in 1..(hi - lo + 1) PROVE sub[i] \in EPCsOf(q, lo, hi)
    <3>1. lo + i - 1 \in lo..hi
      OBVIOUS
    <3> QED BY <1>1, <3>1 DEF EPCsOf
  <2>2. ASSUME NEW j \in lo..hi PROVE \E i \in 1..(hi - lo + 1) : sub[i] = q[j]
    <3>1. j - lo + 1 \in 1..(hi - lo + 1) /\ lo + (j - lo + 1) - 1 = j
      OBVIOUS
    <3>2. sub[j - lo + 1] = q[j]
      BY <1>1, <3>1
    <3> QED BY <3>1, <3>2
  <2>3. ToSet(sub) = {sub[i] : i \in 1..(hi - lo + 1)}
    <3> HIDE DEF sub
    <3> QED BY <1>1, Zenon DEF ToSet
  <2> HIDE DEF sub
  <2> QED BY <2>1, <2>2, <2>3 DEF EPCsOf
<1>3. Answer(node, sub) \subseteq ToSet(sub)
  BY DEF Answer, ToSet
<1>4. \A e : Edt(node, e) # <<>> => e \in DOMAIN node.data
  BY DEF Edt
<1>5. Received(node, sub) \subseteq has
  <2> HIDE DEF sub
  <2> QED BY <1>2, <1>3, <1>4 DEF Received
<1>6. ASSUME lo = hi PROVE has \subseteq Received(node, sub)
  <2>1. DOMAIN sub = {1} /\ sub[1] = q[lo]
    <3>1. hi - lo + 1 = 1 /\ lo + 1 - 1 = lo /\ 1..1 = {1}
      BY <1>6
    <3> HIDE DEF sub
    <3> QED BY <1>1, <3>1
  <2>2. Answer(node, sub) = {q[lo]}
    <3>1. {j \in DOMAIN sub : j <= node.limit} = {1}
      BY <2>1
    <3> HIDE DEF sub
    <3> QED BY <2>1, <3>1 DEF Answer
  <2>3. EPCsOf(q, lo, hi) = {q[lo]}
    <3>1. lo..hi = {lo}
      BY <1>6
    <3> QED BY <3>1 DEF EPCsOf
  <2> HIDE DEF sub
  <2> QED BY <1>2, <2>2, <2>3 DEF Received
<1> QED BY <1>5, <1>6

\* If the halves are right, so is the whole; at the last level there is nothing
\* to halve.
LEMMA IntervalIsRight ==
  ASSUME NEW node, node.limit \in Nat \ {0}, NEW q \in Seq(Bytes), NEW dropped,
         NEW levels \in Nat, NEW unread, NEW left, NEW right,
         NEW r \in Pairs(q), r[1] <= r[2],
         levels = 0 => r[1] = r[2],
         r = dropped => EPCsOf(q, r[1], r[2]) \subseteq unread,
         r[1] < r[2] => /\ Right(left, unread, node, q, r[1], SplitAt(r[1], r[2]) - 1)
                        /\ Right(right, unread, node, q, SplitAt(r[1], r[2]), r[2])
  PROVE  Right(GetInterval(node, q, dropped, levels, r, left, right),
               unread, node, q, r[1], r[2])
<1> DEFINE lo == r[1]
           hi == r[2]
           mid == SplitAt(lo, hi)
           got == Received(node, SubSeq(q, lo, hi))
           more(l, h, half) == IF Missing(EPCsOf(q, l, h), got) = {} THEN {} ELSE half \ Err
           both == got \cup more(lo, mid - 1, left) \cup more(mid, hi, right)
           has == EPCsOf(q, lo, hi) \cap DOMAIN node.data
           res == GetInterval(node, q, dropped, levels, r, left, right)
<1>0. lo \in 1..Len(q) /\ hi \in 1..Len(q) /\ lo <= hi /\ Len(q) \in Nat
  BY DEF Pairs
<1>1. res = IF r = dropped THEN Err
            ELSE IF Missing(EPCsOf(q, lo, hi), got) = {} \/ lo = hi \/ levels = 0 THEN got
            ELSE IF both = {} THEN Err ELSE both
  <2> DEFINE moreOf(l, h, g, half) ==
               IF Missing(EPCsOf(q, l, h), g) = {} THEN {} ELSE half \ Err
             bothOf(g) == g \cup moreOf(lo, mid - 1, g, left) \cup moreOf(mid, hi, g, right)
             body(g) == IF Missing(EPCsOf(q, lo, hi), g) = {} \/ lo = hi \/ levels = 0 THEN g
                        ELSE OrErr(bothOf(g))
  <2>1. res = IF r = dropped THEN Err ELSE UNION {body(g) : g \in {got}}
    BY Zenon DEF GetInterval
  <2>2. UNION {body(g) : g \in {got}} = body(got)
    <3> HIDE DEF body, got
    <3> QED OBVIOUS
  <2>3. OrErr(both) = IF both = {} THEN Err ELSE both
    <3> HIDE DEF both
    <3> QED BY DEF OrErr
  <2>4. bothOf(got) = both
    OBVIOUS
  <2> HIDE DEF both, bothOf, got, res
  <2> QED BY <2>1, <2>2, <2>3, <2>4
<1>2. got \subseteq has /\ (lo = hi => got = has)
  <2> HIDE DEF lo, hi
  <2> QED BY <1>0, ReceivedFacts
<1> SUFFICES Right(res, unread, node, q, lo, hi)
  OBVIOUS
<1> HIDE DEF got, res
<1>6. -1 \notin has
  <2>1. EPCsOf(q, lo, hi) \subseteq Bytes
    <3> HIDE DEF lo, hi
    <3> QED BY <1>0 DEF EPCsOf
  <2> QED BY <2>1, ByteType
<1>3. CASE r = dropped
  BY <1>1, <1>3 DEF Right
<1>4. CASE r # dropped /\ (Missing(EPCsOf(q, lo, hi), got) = {} \/ lo = hi \/ levels = 0)
  <2>1. res = got
    BY <1>1, <1>4
  <2>2. got = has
    BY <1>2, <1>4 DEF Missing
  <2> HIDE DEF lo, hi
  <2> QED BY <1>6, <2>1, <2>2 DEF Right, Err
<1>5. CASE r # dropped /\ ~(Missing(EPCsOf(q, lo, hi), got) = {} \/ lo = hi \/ levels = 0)
  <2>1. res = IF both = {} THEN Err ELSE both
    BY <1>1, <1>5
  <2>2. lo < hi
    <3> HIDE DEF lo, hi
    <3> QED BY <1>0, <1>5
  <2>3. EPCsOf(q, lo, hi) = EPCsOf(q, lo, mid - 1) \cup EPCsOf(q, mid, hi)
    <3>1. mid \in Int /\ lo <= mid /\ mid <= hi
      <4> HIDE DEF lo, hi
      <4> QED BY <1>0, <2>2 DEF SplitAt
    <3> HIDE DEF mid, lo, hi
    <3>2. lo..hi = (lo..(mid - 1)) \cup (mid..hi)
      BY <1>0, <3>1
    <3> QED BY <3>2 DEF EPCsOf
  <2>4. ASSUME NEW l, NEW h, NEW half, EPCsOf(q, l, h) \subseteq EPCsOf(q, lo, hi),
               Right(half, unread, node, q, l, h)
        PROVE  /\ more(l, h, half) \subseteq has
               /\ (EPCsOf(q, l, h) \cap DOMAIN node.data) \ (got \cup more(l, h, half)) \subseteq unread
    <3>1. CASE Missing(EPCsOf(q, l, h), got) = {}
      BY <3>1 DEF Missing
    <3>2. CASE Missing(EPCsOf(q, l, h), got) # {}
      BY <2>4, <3>2 DEF Right
    <3> QED BY <3>1, <3>2
  <2>5. /\ more(lo, mid - 1, left) \subseteq has /\ more(mid, hi, right) \subseteq has
        /\ (EPCsOf(q, lo, mid - 1) \cap DOMAIN node.data) \ both \subseteq unread
        /\ (EPCsOf(q, mid, hi) \cap DOMAIN node.data) \ both \subseteq unread
    <3> HIDE DEF mid, more
    <3> QED BY <2>2, <2>3, <2>4 DEF mid
  <2>6. both \subseteq has /\ has \ both \subseteq unread
    <3> HIDE DEF mid, more
    <3> QED BY <1>2, <2>3, <2>5
  <2> HIDE DEF both
  <2> QED BY <1>6, <2>1, <2>6 DEF Right, Err
<1> QED BY <1>3, <1>4, <1>5
\* One call of getPropsAdaptive returns EPCs or an error, if its two halves do.
LEMMA IntervalType ==
  ASSUME NEW node, NEW q \in Seq(Bytes), NEW dropped, NEW levels, NEW r \in Pairs(q),
         NEW left, NEW right,
         r[1] < r[2] => left \subseteq Bytes \cup Err /\ right \subseteq Bytes \cup Err
  PROVE  GetInterval(node, q, dropped, levels, r, left, right) \in SUBSET (Bytes \cup Err)
<1>1. SubSeq(q, r[1], r[2]) \in Seq(Bytes)
  <2>1. r[1] \in 1..Len(q) /\ r[2] \in 1..Len(q)
    BY DEF Pairs
  <2> QED BY <2>1
<1>2. Received(node, SubSeq(q, r[1], r[2])) \subseteq Bytes
  <2> DEFINE sub == SubSeq(q, r[1], r[2])
  <2>1. sub \in Seq(Bytes)
    BY <1>1
  <2> HIDE DEF sub
  <2>2. Answer(node, sub) \subseteq Bytes
    BY <2>1 DEF Answer
  <2> QED BY <2>2 DEF Received, sub
<1>3. \A g, x : x \in OrErr(g) => x \in g \/ x \in Err
  BY DEF OrErr
<1>4. CASE r[1] < r[2]
  BY <1>2, <1>3, <1>4 DEF GetInterval
<1>5. CASE ~(r[1] < r[2])
  <2>1. r[1] = r[2] \/ r[1]..r[2] = {}
    BY <1>5 DEF Pairs
  <2>2. r[1] = r[2] \/ EPCsOf(q, r[1], r[2]) = {}
    BY <2>1 DEF EPCsOf
  <2>3. \A got : r[1] = r[2] \/ Missing(EPCsOf(q, r[1], r[2]), got) = {}
    BY <2>2 DEF Missing
  <2> QED BY <1>2, <2>3 DEF GetInterval
<1> QED BY <1>4, <1>5

\* get[levels][r] is what a call for the interval r returns, with so many levels left.
Gets(get, node, q, dropped) ==
  \A levels \in 0..maxAdaptiveSplitDepth, r \in Pairs(q) :
    get[levels][r] = GetInterval(node, q, dropped, levels, r,
                                 get[levels - 1][<<r[1], SplitAt(r[1], r[2]) - 1>>],
                                 get[levels - 1][<<SplitAt(r[1], r[2]), r[2]>>])

\* The recursion of getPropsAdaptive, without the choice of a function.
LEMMA GetPropsUnfolds ==
  ASSUME NEW node, NEW q \in Seq(Bytes), NEW dropped
  PROVE  \E get : /\ GetProps(node, q, dropped) = get[maxAdaptiveSplitDepth][<<1, Len(q)>>]
                  /\ Gets(get, node, q, dropped)
<1> DEFINE N == maxAdaptiveSplitDepth
           W == SUBSET (Bytes \cup Err)
           P == Pairs(q)
           V == [P -> W]
           I(levels, v, r) == GetInterval(node, q, dropped, levels, r,
                                v[<<r[1], SplitAt(r[1], r[2]) - 1>>],
                                v[<<SplitAt(r[1], r[2]), r[2]>>])
           Is(g) == g = [levels \in 0..N |-> [r \in P |-> I(levels, g[levels - 1], r)]]
<1>1. \E g : Is(g)
  <2> DEFINE v0 == [r \in P |-> I(0, <<>>, r)]
             step == [levels \in 1..N |-> [v \in V |-> [r \in P |-> I(levels, v, r)]]]
  <2>1. \A v, r : I(0, v, r) = I(0, <<>>, r)
    BY DEF GetInterval
  <2>2. ASSUME NEW v \in V, NEW levels, NEW r \in P PROVE I(levels, v, r) \in W
    <3> DEFINE a == r[1]
               b == r[2]
               mid == SplitAt(a, b)
    <3>1. a \in 1..Len(q) /\ b \in 1..Len(q) /\ Len(q) \in Nat
      BY DEF Pairs
    <3>2. a < b => mid - 1 \in 1..Len(q) /\ mid \in 1..Len(q)
      <4> HIDE DEF a, b
      <4> QED BY <3>1 DEF SplitAt
    <3>3. a < b => v[<<a, mid - 1>>] \in W /\ v[<<mid, b>>] \in W
      <4> HIDE DEF a, b, mid, W
      <4>1. a < b => <<a, mid - 1>> \in P /\ <<mid, b>> \in P
        BY <3>1, <3>2 DEF Pairs
      <4> HIDE DEF P
      <4> QED BY <4>1
    <3> HIDE DEF mid
    <3> QED BY <3>3, IntervalType DEF mid
  <2> HIDE DEF I, W, P
  <2>3. v0 \in V
    <3>1. \A r \in P : I(0, <<>>, r) \in W
      <4>1. SUFFICES ASSUME NEW r \in P PROVE I(0, <<>>, r) \in W
        OBVIOUS
      <4>2. [x \in P |-> {}] \in V
        BY DEF W
      <4> HIDE DEF V
      <4>3. I(0, [x \in P |-> {}], r) \in W
        BY <2>2, <4>2
      <4> QED BY <2>1, <4>3
    <3> QED BY <3>1
  <2>4. step \in [1..N -> [V -> V]] /\ N \in Nat
    <3>1. N \in Nat
      BY DEF maxAdaptiveSplitDepth
    <3>2. ASSUME NEW levels \in 1..N, NEW v \in V PROVE [r \in P |-> I(levels, v, r)] \in V
      BY <2>2
    <3> HIDE DEF V, N
    <3> QED BY <3>1, <3>2
  <2>7. PICK g : g \in Recursion(N, V, v0, step)
    <3> HIDE DEF N, V, v0, step
    <3> QED BY <2>3, <2>4, FiniteRecursion
  <2>5. g \in [0..N -> V] /\ g[0] = v0 /\ \A i \in 1..N : g[i] = step[i][g[i - 1]]
    <3> HIDE DEF N, V, v0, step
    <3> QED BY <2>7 DEF Recursion
  <2>6. ASSUME NEW levels \in 0..N
        PROVE  g[levels] = [r \in P |-> I(levels, g[levels - 1], r)]
    <3>1. CASE levels = 0
      <4> QED BY <2>1, <2>5, <3>1
    <3>2. CASE levels # 0
      <4>1. levels \in 1..N /\ levels - 1 \in 0..N
        BY <3>2 DEF maxAdaptiveSplitDepth
      <4> HIDE DEF N, V
      <4>2. g[levels - 1] \in V
        BY <4>1, <2>5
      <4>3. g[levels] = step[levels][g[levels - 1]]
        BY <4>1, <2>5
      <4>4. step[levels] = [v \in V |-> [r \in P |-> I(levels, v, r)]]
        BY <4>1
      <4> HIDE DEF step
      <4> QED BY <4>2, <4>3, <4>4
    <3> QED BY <3>1, <3>2
  <2> HIDE DEF N, V
  <2>8. g = [levels \in 0..N |-> [r \in P |-> I(levels, g[levels - 1], r)]]
    BY <2>5, <2>6
  <2> QED BY <2>8
<1>2. GetProps(node, q, dropped) = (CHOOSE g : Is(g))[N][<<1, Len(q)>>]
  BY Zenon DEF GetProps, Pairs
<1>3. Is(CHOOSE g : Is(g))
  <2> HIDE DEF Is
  <2> QED BY <1>1
<1> DEFINE get == CHOOSE g : Is(g)
<1>4. get = [levels \in 0..N |-> [r \in P |-> I(levels, get[levels - 1], r)]]
  BY <1>3
<1> HIDE DEF get
<1>5. \A levels \in 0..N, r \in P : get[levels][r] = I(levels, get[levels - 1], r)
  <2> HIDE DEF I, N, P
  <2>1. ASSUME NEW levels \in 0..N
        PROVE  get[levels] = [r \in P |-> I(levels, get[levels - 1], r)]
    BY Zenon, <1>4
  <2>2. ASSUME NEW levels \in 0..N, NEW r \in P
        PROVE  get[levels][r] = I(levels, get[levels - 1], r)
    BY Zenon, <2>1
  <2> QED BY <2>2
<1>6. GetProps(node, q, dropped) = get[N][<<1, Len(q)>>]
  BY <1>2 DEF get
<1> WITNESS get
<1> HIDE DEF Is, V, W
<1> QED BY Zenon, <1>5, <1>6 DEF Gets

\* How many EPCs may be split into single ones, by the levels there are.
Span(levels) == <<1, 2, 4, 8, 16, 32, 64, 128, 256>>[levels + 1]

\* The EPCs that a level of splitting is enough for: 256 for all of them.
LEMMA SpanDoubles ==
  /\ Span(0) = 1 /\ Span(maxAdaptiveSplitDepth) = 256
  /\ \A i \in 1..maxAdaptiveSplitDepth :
       Span(i) \in Nat /\ Span(i - 1) \in Nat /\ Span(i) = 2 * Span(i - 1)
BY DEF Span, maxAdaptiveSplitDepth

\* A frame holds no more EPCs than that.
LEMMA WholeBatchFits ==
  ASSUME NEW n \in 1..256
  PROVE  /\ 1 \in 1..n /\ n \in 1..n /\ <<1, n>>[1] <= <<1, n>>[2]
         /\ <<1, n>>[2] - <<1, n>>[1] + 1 <= Span(maxAdaptiveSplitDepth)
BY SpanDoubles, SMT

\* getPropsAdaptive returns what the device has of a batch, though it may answer
\* but one property at once: the levels of splitting are enough for every batch that
\* a frame holds.  If one of its requests is lost, it lacks nothing that was not in
\* that request; it never returns what the device does not have.
THEOREM AdaptiveGetIsRight ==
  ASSUME NEW node, node.limit \in Nat \ {0}, NEW q \in Seq(Bytes), Len(q) \in 1..256,
         NEW dropped
  PROVE  GetsAllBut(IF dropped \in Requests(q) THEN EPCsOf(q, dropped[1], dropped[2]) ELSE {},
                    node, q, dropped)
<1> DEFINE unread == IF dropped \in Requests(q) THEN EPCsOf(q, dropped[1], dropped[2]) ELSE {}
           N == maxAdaptiveSplitDepth
<1>1. PICK get : /\ GetProps(node, q, dropped) = get[N][<<1, Len(q)>>]
                 /\ Gets(get, node, q, dropped)
  BY Zenon, GetPropsUnfolds
<1> DEFINE Good(levels, r) == Right(get[levels][r], unread, node, q, r[1], r[2])
           Fits(levels, r) == r[1] <= r[2] /\ r[2] - r[1] + 1 <= Span(levels)
           S == {levels \in 0..N : \A r \in Pairs(q) : Fits(levels, r) => Good(levels, r)}
<1>2. ASSUME NEW r \in Pairs(q), r[1] <= r[2], r = dropped
      PROVE  EPCsOf(q, r[1], r[2]) \subseteq unread
  <2>1. dropped \in Requests(q)
    BY <1>2 DEF Pairs, Requests
  <2> QED BY <1>2, <2>1
<1> HIDE DEF unread
<1>3. 0 \in S
  <2>1. ASSUME NEW r \in Pairs(q), Fits(0, r) PROVE r[1] = r[2]
    <3>1. r[1] \in Int /\ r[2] \in Int
      BY DEF Pairs
    <3>2. Span(0) = 1
      BY SpanDoubles, Zenon
    <3>3. r[1] <= r[2] /\ r[2] - r[1] + 1 <= Span(0)
      BY <2>1, Zenon
    <3> HIDE DEF Fits, Good
    <3> QED BY <3>1, <3>2, <3>3, SMTT(30)
  <2>2. ASSUME NEW r \in Pairs(q), Fits(0, r) PROVE Good(0, r)
    <3> DEFINE left  == get[0 - 1][<<r[1], SplitAt(r[1], r[2]) - 1>>]
               right == get[0 - 1][<<SplitAt(r[1], r[2]), r[2]>>]
    <3>1. 0 \in 0..N /\ 0 \in Nat
      BY SMTT(30) DEF maxAdaptiveSplitDepth
    <3>2. get[0][r] = GetInterval(node, q, dropped, 0, r, left, right)
      BY Zenon, <1>1, <3>1 DEF Gets
    <3>3. ~(r[1] < r[2]) /\ r[1] <= r[2]
      <4> HIDE DEF Good, Fits
      <4>1. r[1] \in Int
        BY SMTT(30) DEF Pairs
      <4>2. r[1] = r[2]
        BY <2>1, <2>2, Zenon
      <4> QED BY <4>1, <4>2, SMTT(30)
    <3> HIDE DEF left, right
    <3>4. Right(GetInterval(node, q, dropped, 0, r, left, right), unread, node, q, r[1], r[2])
      BY <1>2, <2>1, <2>2, <3>1, <3>3, IntervalIsRight
    <3> QED BY <3>2, <3>4
  <2> HIDE DEF Good, Fits
  <2> QED BY <2>2 DEF maxAdaptiveSplitDepth
<1>4. ASSUME NEW levels \in 1..N, levels - 1 \in S PROVE levels \in S
  <2>1. ASSUME NEW r \in Pairs(q), Fits(levels, r) PROVE Good(levels, r)
    <3> DEFINE mid == SplitAt(r[1], r[2])
               left  == get[levels - 1][<<r[1], mid - 1>>]
               right == get[levels - 1][<<mid, r[2]>>]
    <3>1. levels \in 0..N /\ levels \in Nat /\ levels # 0
      BY DEF maxAdaptiveSplitDepth
    <3>2. get[levels][r] = GetInterval(node, q, dropped, levels, r, left, right)
      BY Zenon, <1>1, <3>1 DEF Gets
    <3>3. r[1] <= r[2]
      BY <2>1
    <3>4. ASSUME r[1] < r[2]
          PROVE  /\ Right(left, unread, node, q, r[1], mid - 1)
                 /\ Right(right, unread, node, q, mid, r[2])
      <4> DEFINE a == <<r[1], mid - 1>>
                 b == <<mid, r[2]>>
      <4>1. r[1] \in 1..Len(q) /\ r[2] \in 1..Len(q) /\ Len(q) \in Nat
        BY DEF Pairs
      <4>2. Span(levels) \in Nat /\ Span(levels - 1) \in Nat /\ Span(levels) = 2 * Span(levels - 1)
        BY SpanDoubles
      <4>3. /\ mid \in 1..Len(q) /\ mid - 1 \in 1..Len(q) /\ r[1] <= mid - 1 /\ mid <= r[2]
            /\ mid - 1 - r[1] + 1 <= Span(levels - 1) /\ r[2] - mid + 1 <= Span(levels - 1)
        <5> DEFINE lo == r[1]
                   hi == r[2]
                   s == Span(levels - 1)
        <5>1. lo < hi /\ hi - lo + 1 <= 2 * s /\ s \in Nat /\ mid = lo + (hi - lo + 1) \div 2
          BY <2>1, <3>4, <4>2 DEF SplitAt
        <5> HIDE DEF mid, lo, hi, s
        <5>2. lo \in 1..Len(q) /\ hi \in 1..Len(q) /\ Len(q) \in Nat
          BY <4>1 DEF lo, hi
        <5>3. /\ mid \in 1..Len(q) /\ mid - 1 \in 1..Len(q) /\ lo <= mid - 1 /\ mid <= hi
              /\ mid - 1 - lo + 1 <= s /\ hi - mid + 1 <= s
          BY <5>1, <5>2, SMTT(30)
        <5> QED BY <5>3 DEF lo, hi, s
      <4>4. a \in Pairs(q) /\ b \in Pairs(q) /\ Fits(levels - 1, a) /\ Fits(levels - 1, b)
        <5> HIDE DEF mid
        <5> QED BY <4>1, <4>3 DEF Pairs
      <4>5. Good(levels - 1, a) /\ Good(levels - 1, b)
        <5> HIDE DEF Good, Fits, a, b
        <5> QED BY <1>4, <4>4
      <4> HIDE DEF mid
      <4> QED BY <4>5
    <3> HIDE DEF left, right
    <3>5. Right(GetInterval(node, q, dropped, levels, r, left, right), unread, node, q, r[1], r[2])
      BY <1>2, <3>1, <3>3, <3>4, IntervalIsRight
    <3> QED BY <3>2, <3>5
  <2> HIDE DEF Good, Fits
  <2> QED BY <2>1 DEF maxAdaptiveSplitDepth
<1>5. N \in S
  <2>1. N \in Nat
    BY DEF maxAdaptiveSplitDepth
  <2>2. 0..N \subseteq S
    <3> HIDE DEF S, N
    <3> QED BY <1>3, <1>4, <2>1, InductionUpTo
  <2> HIDE DEF S, N
  <2> QED BY <2>1, <2>2
<1>6. <<1, Len(q)>> \in Pairs(q) /\ Fits(N, <<1, Len(q)>>)
  <2>1. <<1, Len(q)>> \in Pairs(q)
    BY WholeBatchFits, Zenon DEF Pairs
  <2>2. Fits(N, <<1, Len(q)>>)
    BY WholeBatchFits, Zenon
  <2> QED BY <2>1, <2>2
<1>7. Right(GetProps(node, q, dropped), unread, node, q, 1, Len(q))
  <2>1. Good(N, <<1, Len(q)>>)
    <3> HIDE DEF Good, Fits, N
    <3> QED BY <1>5, <1>6
  <2> QED BY <1>1, <2>1
<1>8. ToSet(q) = EPCsOf(q, 1, Len(q))
  BY SMTT(30) DEF ToSet, EPCsOf
<1> QED BY Zenon, <1>7, <1>8 DEF GetsAllBut, Right, unread

-----------------------------------------------------------------------------
(* The bytes of a value                                                    *)

\* The powers of 256 that occur.
LEMMA Powers ==
  /\ 256^0 = 1 /\ 256^1 = 256 /\ 256^2 = 65536 /\ 256^3 = 16777216 /\ 256^4 = 4294967296
BY SMT

\* The recursion of parseInteger, without the choice of a function.
LEMMA ParseUnfolds ==
  ASSUME NEW raw \in Seq(Int), NEW signed
  PROVE  \E u : /\ ParseInteger(raw, signed) =
                     IF signed /\ raw[1] >= 128 THEN u[Len(raw)] - 256^Len(raw) ELSE u[Len(raw)]
                /\ u[0] = 0 /\ \A i \in 1..Len(raw) : u[i] = u[i - 1] * 256 + raw[i]
<1> DEFINE N == Len(raw)
           F(i, x) == x * 256 + raw[i]
           Is(g) == g = [i \in 0..N |-> IF i = 0 THEN 0 ELSE F(i, g[i - 1])]
           step == [i \in 1..N |-> [x \in Int |-> F(i, x)]]
<1>0. N \in Nat
  OBVIOUS
<1>1. \E g : Is(g)
  <2>1. ASSUME NEW i \in 1..N, NEW x \in Int PROVE F(i, x) \in Int
    <3>1. raw[i] \in Int
      OBVIOUS
    <3> QED BY <3>1
  <2> HIDE DEF F, N
  <2>2. step \in [1..N -> [Int -> Int]]
    BY <2>1
  <2>3. PICK g : g \in Recursion(N, Int, 0, step)
    <3> HIDE DEF step
    <3>1. 0 \in Int
      OBVIOUS
    <3> QED BY <1>0, <2>2, <3>1, FiniteRecursion
  <2>4. g \in [0..N -> Int] /\ g[0] = 0 /\ \A i \in 1..N : g[i] = step[i][g[i - 1]]
    <3> HIDE DEF step
    <3> QED BY <2>3 DEF Recursion
  <2>5. ASSUME NEW i \in 0..N PROVE g[i] = IF i = 0 THEN 0 ELSE F(i, g[i - 1])
    <3>1. CASE i = 0
      BY <2>4, <3>1
    <3>2. CASE i # 0
      <4>1. i \in 1..N /\ i - 1 \in 0..N
        BY <1>0, <3>2
      <4>2. g[i - 1] \in Int
        BY <2>4, <4>1
      <4> QED BY <2>4, <3>2, <4>1, <4>2
    <3> QED BY <3>1, <3>2
  <2>6. g = [i \in 0..N |-> IF i = 0 THEN 0 ELSE F(i, g[i - 1])]
    BY <2>4, <2>5
  <2> QED BY <2>6
<1> DEFINE u == CHOOSE g : Is(g)
<1>2. ParseInteger(raw, signed) =
        IF signed /\ raw[1] >= 128 THEN u[N] - 256^N ELSE u[N]
  BY Zenon DEF ParseInteger
<1>3. Is(u)
  <2> HIDE DEF Is
  <2> QED BY <1>1
<1>4. u = [i \in 0..N |-> IF i = 0 THEN 0 ELSE F(i, u[i - 1])]
  BY <1>3
<1> HIDE DEF u
<1>5. ASSUME NEW i \in 0..N PROVE u[i] = IF i = 0 THEN 0 ELSE F(i, u[i - 1])
  <2> HIDE DEF N, F
  <2> QED BY Zenon, <1>4
<1>6. u[0] = 0 /\ \A i \in 1..N : u[i] = u[i - 1] * 256 + raw[i]
  <2>1. 0 \in 0..N /\ \A i \in 1..N : i \in 0..N /\ i # 0
    BY <1>0
  <2> QED BY <1>5, <2>1
<1> WITNESS u
<1> HIDE DEF Is, step
<1> QED BY Zenon, <1>2, <1>6

\* The bytes of U, most significant first.
BytesOf(U, size) == [i \in 1..size |-> (U \div 256^(size - i)) % 256]

\* How many numbers size bytes can tell apart.
Capacity(size) == 256^size

\* The first number whose sign bit is set.
Half(size) == IF size = 1 THEN 128 ELSE IF size = 2 THEN 32768 ELSE 2147483648

\* A number is split into bytes and put together again.
LEMMA OneByte ==
  ASSUME NEW U \in Nat, U < 256
  PROVE  (U \div 1) % 256 = U
BY SMT

\* The same for two bytes; the first has the sign bit.
LEMMA TwoBytes ==
  ASSUME NEW U \in Nat, U < 65536
  PROVE  /\ (((U \div 256) % 256) * 256) + ((U \div 1) % 256) = U
         /\ ((U \div 256) % 256 >= 128) <=> (U >= 32768)
BY SMT

\* The same for four.
LEMMA FourBytes ==
  ASSUME NEW U \in Nat, U < 4294967296
  PROVE  /\ (((((U \div 16777216) % 256) * 256 + ((U \div 65536) % 256)) * 256)
               + ((U \div 256) % 256)) * 256 + ((U \div 1) % 256) = U
         /\ ((U \div 16777216) % 256 >= 128) <=> (U >= 2147483648)
BY SMT

\* The limits of Clamp and parseInteger in terms of Half.
LEMMA HalfOfCapacity ==
  ASSUME NEW size \in {1, 2, 4}
  PROVE  /\ Capacity(size) = 2 * Half(size) /\ Capacity(size) \div 2 = Half(size)
         /\ Half(size) \in Nat /\ Half(size) > 0
<1>1. CASE size = 1
  BY <1>1, Powers, SMT DEF Half, Capacity
<1>2. CASE size = 2
  BY <1>2, Powers, SMT DEF Half, Capacity
<1>3. CASE size = 4
  BY <1>3, Powers, SMT DEF Half, Capacity
<1> QED BY <1>1, <1>2, <1>3

\* The bytes of u, most significant first, are read as u, or as u - Capacity(size) if the
\* first bit counts as a sign.
LEMMA BytesAreRead ==
  ASSUME NEW size \in {1, 2, 4}, NEW signed \in BOOLEAN, NEW U \in Nat, U < Capacity(size)
  PROVE  ParseInteger(BytesOf(U, size), signed)
           = IF signed /\ U >= Half(size) THEN U - Capacity(size) ELSE U
<1> DEFINE raw == BytesOf(U, size)
<1>1. raw \in Seq(Int) /\ Len(raw) = size
  <2>1. ASSUME NEW i \in 1..size PROVE (U \div 256^(size - i)) % 256 \in Int
    <3>1. size - i \in {0, 1, 2, 3}
      OBVIOUS
    <3>2. 256^(size - i) \in {256^0, 256^1, 256^2, 256^3}
      BY <3>1, Zenon
    <3>3. 256^(size - i) \in Nat \ {0}
      BY <3>2, Powers, SMT
    <3> QED BY <3>3, SMT
  <2>2. raw \in [1..size -> Int] /\ size \in Nat
    BY <2>1 DEF BytesOf
  <2> HIDE DEF raw
  <2> QED BY <2>2
<1>2. \A i \in 1..size : raw[i] = (U \div 256^(size - i)) % 256
  BY DEF BytesOf
<1> HIDE DEF raw
<1>3. PICK u : /\ ParseInteger(raw, signed) =
                    IF signed /\ raw[1] >= 128 THEN u[size] - Capacity(size) ELSE u[size]
               /\ u[0] = 0 /\ \A i \in 1..size : u[i] = u[i - 1] * 256 + raw[i]
  BY <1>1, ParseUnfolds, SMTT(30) DEF Capacity
<1>4. u[size] = U /\ (raw[1] >= 128 <=> U >= Half(size))
  <2>1. CASE size = 1
    <3>1. raw[1] = (U \div 1) % 256
      BY <1>2, <2>1, Powers
    <3>2. raw[1] = U
      BY <2>1, <3>1, Powers, OneByte DEF Capacity
    <3>3. u[1] = 0 * 256 + raw[1]
      BY <1>3, <2>1
    <3> QED BY <2>1, <3>2, <3>3 DEF Half
  <2>2. CASE size = 2
    <3>1. raw[1] = (U \div 256) % 256 /\ raw[2] = (U \div 1) % 256
      BY <1>2, <2>2, Powers
    <3>2. u[1] = 0 * 256 + raw[1] /\ u[2] = u[1] * 256 + raw[2]
      BY <1>3, <2>2
    <3>3. u[2] = raw[1] * 256 + raw[2]
      BY <3>1, <3>2
    <3>4. raw[1] * 256 + raw[2] = U /\ (raw[1] >= 128 <=> U >= 32768)
      BY <2>2, <3>1, Powers, TwoBytes DEF Capacity
    <3> QED BY <2>2, <3>3, <3>4 DEF Half
  <2>3. CASE size = 4
    <3>1. /\ raw[1] = (U \div 16777216) % 256 /\ raw[2] = (U \div 65536) % 256
          /\ raw[3] = (U \div 256) % 256 /\ raw[4] = (U \div 1) % 256
      BY <1>2, <2>3, Powers
    <3>2. /\ u[1] = 0 * 256 + raw[1] /\ u[2] = u[1] * 256 + raw[2]
          /\ u[3] = u[2] * 256 + raw[3] /\ u[4] = u[3] * 256 + raw[4]
      BY <1>3, <2>3
    <3>3. u[4] = ((raw[1] * 256 + raw[2]) * 256 + raw[3]) * 256 + raw[4]
      BY <3>1, <3>2
    <3>4. /\ ((raw[1] * 256 + raw[2]) * 256 + raw[3]) * 256 + raw[4] = U
          /\ raw[1] >= 128 <=> U >= 2147483648
      BY <2>3, <3>1, Powers, FourBytes DEF Capacity
    <3> QED BY <2>3, <3>3, <3>4 DEF Half
  <2> QED BY <2>1, <2>2, <2>3
<1>5. ParseInteger(raw, signed) = IF signed /\ U >= Half(size) THEN U - Capacity(size) ELSE U
  BY Zenon, <1>3, <1>4
<1> QED BY <1>5 DEF raw

\* A value that is set is read back as EncodeValueToEDT has clamped it: sign, width and
\* byte order of the encoder and of parseInteger agree, for one, two and four bytes.
THEOREM SetIsReadBack ==
  ASSUME NEW size \in {1, 2, 4}, NEW signed \in BOOLEAN, NEW v \in Int
  PROVE  ParseInteger(EncodeValueToEDT(v, size, signed), signed) = Clamp(v, size, signed)
<1> DEFINE h == Half(size)
           c == Clamp(v, size, signed)
           U == c % Capacity(size)
<1>1. Capacity(size) = 2 * h /\ h \in Nat /\ h > 0 /\ Capacity(size) \div 2 = h
  BY Zenon, HalfOfCapacity
<1>2. c \in Int /\ (signed => -h <= c /\ c < h) /\ (~signed => 0 <= c /\ c < 2 * h)
  <2> HIDE DEF h
  <2>1. CASE signed
    BY <1>1, <2>1 DEF Clamp, Capacity
  <2>2. CASE ~signed
    BY <1>1, <2>2 DEF Clamp, Capacity
  <2> QED BY <2>1, <2>2
<1> HIDE DEF c, h
<1>3. U \in Int /\ 0 <= U /\ U < 2 * h /\ U = IF c < 0 THEN c + 2 * h ELSE c
  <2>1. -h <= c /\ c < 2 * h
    BY <1>1, <1>2
  <2>2. c % (2 * h) = IF c < 0 THEN c + 2 * h ELSE c
    BY <1>1, <1>2, <2>1
  <2> QED BY <1>1, <1>2, <2>1, <2>2
<1>4. EncodeValueToEDT(v, size, signed) = BytesOf(U, size)
  BY Zenon DEF EncodeValueToEDT, BytesOf, Capacity, c
<1> HIDE DEF U
<1>5. ParseInteger(EncodeValueToEDT(v, size, signed), signed)
        = IF signed /\ U >= h THEN U - Capacity(size) ELSE U
  <2>1. U \in Nat /\ U < Capacity(size)
    BY <1>1, <1>3
  <2>2. ParseInteger(BytesOf(U, size), signed)
          = IF signed /\ U >= h THEN U - Capacity(size) ELSE U
    BY Zenon, <2>1, BytesAreRead DEF h
  <2> QED BY Zenon, <1>4, <2>2
<1>6. CASE signed
  <2>1. U >= h <=> c < 0
    BY <1>1, <1>2, <1>3, <1>6
  <2>2. (IF U >= h THEN U - Capacity(size) ELSE U) = c
    BY <1>1, <1>2, <1>3, <2>1
  <2> QED BY <1>5, <1>6, <2>2 DEF c
<1>7. CASE ~signed
  <2>1. U = c
    BY <1>2, <1>3, <1>7
  <2> QED BY <1>5, <1>7, <2>1 DEF c
<1> QED BY <1>6, <1>7
=============================================================================
