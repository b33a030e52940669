--------------------------- MODULE ProtocolProofs ---------------------------
(***************************************************************************)
(* The wire format for every size of its fields, every input and every     *)
(* number: the two programs read what the other one has written.           *)
(*                                                                         *)
(* The loops of the code are recursive functions on 0 .. n.  What they     *)
(* compute is shown by looking at the first place where it would differ    *)
(* (LeastNumber).                                                          *)
(***************************************************************************)
EXTENDS Protocol, SequenceTheorems, WellFoundedInduction, NaturalsInduction, TLAPS

-----------------------------------------------------------------------------
\* Recursive functions

\* A set of numbers has a least one: what induction comes to here.
LEMMA LeastNumber ==
    ASSUME NEW T \in SUBSET Nat, T # {}
    PROVE  \E n \in T : \A m \in T : n <= m
<1>1. PICK n \in T : \A m \in T : ~(<<m, n>> \in OpToRel(<, Nat))
  BY NatLessThanWellFounded, WFMin
<1>2. ASSUME NEW m \in T PROVE n <= m
  <2>1. ~(<<m, n>> \in {ss \in Nat \X Nat : ss[1] < ss[2]})
    BY <1>1, Zenon DEF OpToRel
  <2>2. m \in Nat /\ n \in Nat /\ <<m, n>> \in Nat \X Nat
    OBVIOUS
  <2> QED
    BY <2>1, <2>2
<1> QED
  BY <1>2

\* f takes the steps g from b on.
Iterates(f, b, g, N) ==
    /\ f[0] = b
    /\ \A n \in 1 .. N : f[n] = g[n][f[n - 1]]

LEMMA IterationExists ==
    ASSUME NEW S, NEW N \in Nat, NEW b \in S, NEW g \in [1 .. N -> [S -> S]]
    PROVE  \E f \in [0 .. N -> S] : Iterates(f, b, g, N)
<1> DEFINE T == {n \in 0 .. N : ~(\E f \in [0 .. n -> S] : Iterates(f, b, g, n))}
<1> SUFFICES ASSUME T # {} PROVE FALSE
  OBVIOUS
<1>0. T \in SUBSET Nat
  OBVIOUS
<1>1. PICK m \in T : \A k \in T : m <= k
  BY <1>0, LeastNumber
<1>2. CASE m = 0
  <2>1. Iterates([n \in 0 .. 0 |-> b], b, g, 0)
    BY DEF Iterates
  <2>2. [n \in 0 .. 0 |-> b] \in [0 .. 0 -> S]
    OBVIOUS
  <2> QED
    BY <1>1, <1>2, <2>1, <2>2
<1>3. CASE m # 0
  <2>1. m - 1 \in 0 .. N /\ m - 1 \notin T /\ m \in 1 .. N
    BY <1>1, <1>3
  <2>2. PICK f \in [0 .. m - 1 -> S] : Iterates(f, b, g, m - 1)
    BY <2>1
  <2> DEFINE h == [n \in 0 .. m |-> IF n = m THEN g[m][f[m - 1]] ELSE f[n]]
  <2>3. g[m] \in [S -> S] /\ f[m - 1] \in S
    BY <2>1
  <2>4. h \in [0 .. m -> S]
    BY <2>1, <2>3
  <2>5. Iterates(h, b, g, m)
    BY <2>1, <2>2 DEF Iterates
  <2> QED
    BY <1>1, <2>4, <2>5
<1> QED
  BY <1>2, <1>3

\* A function that is defined by recursion on 0 .. N, with values in S.
LEMMA RecursiveFunction ==
    ASSUME NEW S, NEW N \in Nat, NEW b \in S, NEW g \in [1 .. N -> [S -> S]], NEW h,
           DOMAIN h = 0 .. N, h[0] = b,
           \A n \in 1 .. N : h[n - 1] \in S => h[n] = g[n][h[n - 1]]
    PROVE  \A n \in 0 .. N : h[n] \in S
<1> DEFINE T == {n \in 0 .. N : h[n] \notin S}
<1> SUFFICES ASSUME T # {} PROVE FALSE
  OBVIOUS
<1>0. T \in SUBSET Nat
  OBVIOUS
<1>1. PICK m \in T : \A k \in T : m <= k
  BY <1>0, LeastNumber
<1>2. m # 0
  BY <1>1
<1>3. m - 1 \in 0 .. N /\ m - 1 \notin T /\ m \in 1 .. N
  BY <1>1, <1>2
<1>4. h[m - 1] \in S /\ g[m] \in [S -> S]
  BY <1>3
<1> QED
  BY <1>1, <1>3, <1>4

\* What Shifted computes: h[n] is the value without its last n digits.
IsShift(h, value, base, k) ==
    /\ h \in [0 .. k -> Nat]
    /\ h[0] = value
    /\ \A n \in 1 .. k : h[n] = h[n - 1] \div base
    /\ Shifted(value, base, k) = h[k]

LEMMA ShiftedType ==
    ASSUME NEW value \in Nat, NEW base \in Nat \ {0}, NEW k \in Nat
    PROVE  \E h : IsShift(h, value, base, k)
<1> DEFINE F(f) == [i \in 0 .. k |-> IF i = 0 THEN value ELSE f[i - 1] \div base]
           g == [n \in 1 .. k |-> [x \in Nat |-> x \div base]]
           h == CHOOSE f : f = F(f)
<1>1. g \in [1 .. k -> [Nat -> Nat]]
  OBVIOUS
<1>2. PICK f \in [0 .. k -> Nat] : Iterates(f, value, g, k)
  BY <1>1, IterationExists
<1>3. f = F(f)
  <2>1. \A n \in 1 .. k : n - 1 \in 0 .. k /\ f[n - 1] \in Nat
    OBVIOUS
  <2>2. f[0] = value /\ \A n \in 1 .. k : f[n] = f[n - 1] \div base
    BY <1>2, <2>1 DEF Iterates
  <2> QED
    BY <2>2
<1>4. h = F(h)
  BY <1>3
<1>5. Shifted(value, base, k) = h[k]
  BY DEF Shifted
<1> HIDE DEF h
<1>6. DOMAIN h = 0 .. k /\ h[0] = value /\ \A n \in 1 .. k : h[n] = h[n - 1] \div base
  BY <1>4
<1>7. \A n \in 1 .. k : h[n - 1] \in Nat => h[n] = g[n][h[n - 1]]
  BY <1>6
<1> HIDE DEF g
<1>8. \A n \in 0 .. k : h[n] \in Nat
  BY <1>1, <1>6, <1>7, RecursiveFunction, ZenonT(60)
<1>9. h \in [0 .. k -> Nat]
  BY <1>4, <1>8
<1> QED
  BY <1>5, <1>6, <1>9 DEF IsShift

LEMMA ShiftedNat ==
    ASSUME NEW value \in Nat, NEW base \in Nat \ {0}, NEW k \in Nat
    PROVE  Shifted(value, base, k) \in Nat
<1>1. PICK h : IsShift(h, value, base, k)
  BY ShiftedType
<1> QED
  BY <1>1 DEF IsShift

\* What FromBigEndian computes: h[n] is the value of the first n bytes.
IsValue(h, bytes) ==
    /\ h \in [0 .. Len(bytes) -> Nat]
    /\ h[0] = 0
    /\ \A n \in 1 .. Len(bytes) : h[n] = h[n - 1] * ByteValues + bytes[n]
    /\ FromBigEndian(bytes) = h[Len(bytes)]

LEMMA FromBigEndianType ==
    ASSUME NEW bytes \in Seq(Byte)
    PROVE  \E h : IsValue(h, bytes)
<1> DEFINE k == Len(bytes)
           F(f) == [n \in 0 .. k |-> IF n = 0 THEN 0 ELSE f[n - 1] * ByteValues + bytes[n]]
           g == [n \in 1 .. k |-> [x \in Nat |-> x * ByteValues + bytes[n]]]
           h == CHOOSE f : f = F(f)
<1>0. k \in Nat /\ ByteValues \in Nat /\ \A n \in 1 .. k : bytes[n] \in Nat
  BY ProtocolAssumption DEF Byte
<1>1. g \in [1 .. k -> [Nat -> Nat]]
  BY <1>0
<1>2. PICK f \in [0 .. k -> Nat] : Iterates(f, 0, g, k)
  BY <1>0, <1>1, IterationExists
<1>3. f = F(f)
  <2>1. \A n \in 1 .. k : n - 1 \in 0 .. k /\ f[n - 1] \in Nat
    BY <1>0, SMTT(30)
  <2>2. f[0] = 0 /\ \A n \in 1 .. k : f[n] = f[n - 1] * ByteValues + bytes[n]
    BY <1>2, <2>1 DEF Iterates
  <2> QED
    BY <2>2
<1>4. h = F(h)
  BY <1>3
<1>5. FromBigEndian(bytes) = h[k]
  BY DEF FromBigEndian
<1> HIDE DEF h
<1>6. /\ DOMAIN h = 0 .. k /\ h[0] = 0
      /\ \A n \in 1 .. k : h[n] = h[n - 1] * ByteValues + bytes[n]
  BY <1>0, <1>4
<1>7. \A n \in 1 .. k : h[n - 1] \in Nat => h[n] = g[n][h[n - 1]]
  BY <1>6
<1> HIDE DEF g
<1>8. \A n \in 0 .. k : h[n] \in Nat
  <2>1. 0 \in Nat /\ k \in Nat /\ DOMAIN h = 0 .. k /\ h[0] = 0
    BY <1>0, <1>6
  <2> HIDE DEF k
  <2> QED
    BY <1>1, <1>7, <2>1, RecursiveFunction, ZenonT(30)
<1>9. h \in [0 .. k -> Nat]
  BY <1>4, <1>8
<1> QED
  BY <1>0, <1>5, <1>6, <1>9 DEF IsValue

LEMMA BigEndianType ==
    ASSUME NEW value \in Nat, NEW size \in Nat
    PROVE  BigEndian(value, size) \in Seq(Byte) /\ Len(BigEndian(value, size)) = size
<1>1. ByteValues \in Nat \ {0}
  BY ProtocolAssumption
<1>2. ASSUME NEW i \in 1 .. size PROVE Shifted(value, ByteValues, size - i) \in Nat
  <2>1. size - i \in Nat
    OBVIOUS
  <2> QED
    BY <1>1, <2>1, ShiftedNat
<1>3. \A i \in 1 .. size : Shifted(value, ByteValues, size - i) % ByteValues \in Byte
  BY <1>1, <1>2 DEF Byte
<1> QED
  BY <1>3 DEF BigEndian

\* A number is written with as many digits as it takes to leave nothing of it.
LEMMA ToDecimalIs ==
    ASSUME NEW n \in Nat
    PROVE  \E size \in Nat \ {0} :
              /\ Shifted(n, 10, size) = 0
              /\ ToDecimal(n) = [i \in 1 .. size |-> Digit(Shifted(n, 10, size - i) % 10)]
<1> DEFINE T == {k \in 1 .. n + 1 : Shifted(n, 10, k) = 0}
           P(k) == /\ Shifted(n, 10, k) = 0
                   /\ \A i \in 1 .. k - 1 : Shifted(n, 10, i) # 0
           size == CHOOSE k \in 1 .. n + 1 : P(k)
<1>1. Shifted(n, 10, n + 1) = 0
  <2>0. n + 1 \in Nat /\ 10 \in Nat \ {0}
    OBVIOUS
  <2>1. PICK h : IsShift(h, n, 10, n + 1)
    BY <2>0, ShiftedType
  <2> USE DEF IsShift
  <2> DEFINE U == {i \in 0 .. n + 1 : ~(h[i] = 0 \/ h[i] + i <= n)}
  <2>2. U \in SUBSET Nat
    OBVIOUS
  <2>3. ASSUME U # {} PROVE FALSE
    <3>1. PICK m \in U : \A i \in U : m <= i
      BY <2>2, <2>3, LeastNumber
    <3>2. m # 0 /\ m \in 1 .. n + 1
      BY <2>1, <3>1
    <3>3. m - 1 \in 0 .. n + 1 /\ m - 1 \notin U
      BY <3>1, <3>2
    <3>4. h[m - 1] = 0 \/ h[m - 1] + (m - 1) <= n
      BY <3>3
    <3>5. h[m] = h[m - 1] \div 10 /\ h[m - 1] \in Nat /\ h[m] \in Nat
      BY <2>1, <3>2, <3>3
    <3>6. h[m] = 0 \/ h[m] + m <= n
      BY <3>2, <3>4, <3>5
    <3> QED
      BY <3>1, <3>6
  <2>4. h[n + 1] = 0 \/ h[n + 1] + (n + 1) <= n
    BY <2>3
  <2> QED
    BY <2>1, <2>4
<1>2. T \in SUBSET Nat /\ n + 1 \in T
  BY <1>1
<1>3. PICK k \in T : \A i \in T : k <= i
  BY <1>2, LeastNumber
<1>4. P(k) /\ k \in 1 .. n + 1
  BY <1>3
<1>5. size \in 1 .. n + 1 /\ P(size)
  BY <1>4
<1> HIDE DEF size
<1>6. ToDecimal(n) = [i \in 1 .. size |-> Digit(Shifted(n, 10, size - i) % 10)]
  BY DEF ToDecimal, size
<1> QED
  BY <1>5, <1>6

LEMMA ToDecimalType ==
    ASSUME NEW n \in Nat
    PROVE  ToDecimal(n) \in Seq(Byte)
<1>1. PICK size \in Nat \ {0} :
          ToDecimal(n) = [i \in 1 .. size |-> Digit(Shifted(n, 10, size - i) % 10)]
  BY ToDecimalIs
<1>2. ASSUME NEW i \in 1 .. size PROVE Digit(Shifted(n, 10, size - i) % 10) \in Byte
  <2>1. Shifted(n, 10, size - i) \in Nat
    BY size - i \in Nat, 10 \in Nat \ {0}, ShiftedNat
  <2> QED
    BY <2>1, ProtocolAssumption DEF Digit, Byte
<1> QED
  BY <1>1, <1>2

\* Dropping the last digit.
LEMMA DropDigit ==
    ASSUME NEW x \in Nat, NEW base \in Nat \ {0}, NEW d \in 0 .. base - 1
    PROVE  (x * base + d) \div base = x /\ (x * base + d) % base = d
<1> DEFINE v == x * base + d
           q == v \div base
           r == v % base
<1>1. v \in Nat /\ q \in Nat /\ r \in 0 .. base - 1 /\ v = base * q + r
  OBVIOUS
<1>2. base * q + r = base * x + d
  BY <1>1
<1> HIDE DEF q, r
<1>3. q = x
  <2>1. ASSUME q < x PROVE FALSE
    <3>1. base * q + base <= base * x
      BY <1>1, <2>1
    <3> QED
      BY <1>1, <1>2, <3>1
  <2>2. ASSUME x < q PROVE FALSE
    <3>1. base * x + base <= base * q
      BY <1>1, <2>2
    <3> QED
      BY <1>1, <1>2, <3>1
  <2> QED
    BY <1>1, <2>1, <2>2
<1>4. r = d
  BY <1>1, <1>2, <1>3
<1> QED
  BY <1>3, <1>4 DEF q, r

\* A field that is read is the field that writes the same value.
LEMMA BigEndianOfValue ==
    ASSUME NEW bytes \in Seq(Byte)
    PROVE  FromBigEndian(bytes) \in Nat
           /\ BigEndian(FromBigEndian(bytes), Len(bytes)) = bytes
<1> DEFINE k == Len(bytes)
<1>0. k \in Nat /\ ByteValues \in Nat \ {0} /\ \A n \in 1 .. k : bytes[n] \in 0 .. ByteValues - 1
  BY ProtocolAssumption DEF Byte
<1>1. PICK v : IsValue(v, bytes)
  BY FromBigEndianType
<1>2. /\ v \in [0 .. k -> Nat]
      /\ \A n \in 1 .. k : v[n] = v[n - 1] * ByteValues + bytes[n]
      /\ FromBigEndian(bytes) = v[k]
  BY <1>1 DEF IsValue
<1>9. Len(bytes) = k
  OBVIOUS
<1> HIDE DEF k
<1>3. ASSUME NEW n \in 1 .. k
      PROVE  /\ v[n] \div ByteValues = v[n - 1] /\ v[n] % ByteValues = bytes[n]
             /\ v[n] \in Nat
  <2>1. n - 1 \in 0 .. k /\ n \in 0 .. k
    BY <1>0
  <2>2. v[n - 1] \in Nat /\ v[n] \in Nat
    BY <1>2, <2>1
  <2>3. v[n] = v[n - 1] * ByteValues + bytes[n] /\ bytes[n] \in 0 .. ByteValues - 1
    BY <1>0, <1>2
  <2>4. /\ (v[n - 1] * ByteValues + bytes[n]) \div ByteValues = v[n - 1]
        /\ (v[n - 1] * ByteValues + bytes[n]) % ByteValues = bytes[n]
    BY <1>0, <2>2, <2>3, DropDigit
  <2> QED
    BY <2>2, <2>3, <2>4
<1>4. ASSUME NEW i \in 1 .. k PROVE Shifted(v[k], ByteValues, k - i) = v[i]
  <2>0. k - i \in Nat
    BY <1>0
  <2>1. PICK h : IsShift(h, v[k], ByteValues, k - i)
    BY <1>0, <1>2, <2>0, v[k] \in Nat, ShiftedType
  <2> DEFINE T == {n \in 0 .. k - i : h[n] # v[k - n]}
  <2>2. T \in SUBSET Nat
    OBVIOUS
  <2>3. ASSUME T # {} PROVE FALSE
    <3>1. PICK m \in T : \A n \in T : m <= n
      BY <2>2, <2>3, LeastNumber
    <3>2. h[0] = v[k - 0] /\ m \in 0 .. k - i /\ h[m] # v[k - m]
      BY <1>0, <2>1, <3>1 DEF IsShift
    <3>3. m \in 1 .. k - i /\ m - 1 \in 0 .. k - i
      BY <2>0, <3>2
    <3>7. m - 1 \notin T
      BY <3>1, <3>3
    <3>4. h[m - 1] = v[k - (m - 1)] /\ h[m] = h[m - 1] \div ByteValues
      BY <2>1, <3>7, <3>3 DEF IsShift
    <3>5. k - (m - 1) \in 1 .. k /\ (k - (m - 1)) - 1 = k - m
      BY <1>0, <3>3
    <3>6. v[k - (m - 1)] \div ByteValues = v[k - m]
      BY <1>3, <3>5
    <3> QED
      BY <3>2, <3>4, <3>6
  <2>4. h[k - i] = v[k - (k - i)] /\ k - (k - i) = i
    BY <1>0, <2>0, <2>3
  <2> QED
    BY <2>1, <2>4 DEF IsShift
<1>5. BigEndian(v[k], k) \in Seq(Byte) /\ Len(BigEndian(v[k], k)) = k
  BY <1>0, <1>2, v[k] \in Nat, BigEndianType
<1>6. \A i \in 1 .. k : BigEndian(v[k], k)[i] = bytes[i]
  BY <1>3, <1>4 DEF BigEndian
<1>7. BigEndian(v[k], k) = bytes
  BY <1>5, <1>6, <1>9, SeqEqual
<1> QED
  BY <1>0, <1>2, <1>7, <1>9

-----------------------------------------------------------------------------
\* Sequences and frames

\* The facts about concatenation, in the form in which they are needed most.
LEMMA Joined ==
    /\ \A s, t \in Seq(Byte) : s \o t \in Seq(Byte) /\ Len(s \o t) = Len(s) + Len(t)
    /\ \A s, t, u \in Seq(Byte) : (s \o t) \o u = s \o (t \o u)
<1>1. ASSUME NEW s \in Seq(Byte), NEW t \in Seq(Byte)
      PROVE  s \o t \in Seq(Byte) /\ Len(s \o t) = Len(s) + Len(t)
  BY ConcatProperties
<1>2. ASSUME NEW s \in Seq(Byte), NEW t \in Seq(Byte), NEW u \in Seq(Byte)
      PROVE  (s \o t) \o u = s \o (t \o u)
  BY ConcatAssociative
<1> QED
  BY <1>1, <1>2, Zenon

\* The second of them alone.
LEMMA Regrouped ==
    ASSUME NEW s \in Seq(Byte), NEW t \in Seq(Byte), NEW u \in Seq(Byte)
    PROVE  (s \o t) \o u = s \o (t \o u)
BY ConcatAssociative

\* A sequence cut in two.
LEMMA Cut ==
    ASSUME NEW S, NEW s \in Seq(S), NEW n \in 0 .. Len(s)
    PROVE  /\ SubSeq(s, 1, n) \in Seq(S) /\ Len(SubSeq(s, 1, n)) = n
           /\ SubSeq(s, n + 1, Len(s)) \in Seq(S)
           /\ Len(SubSeq(s, n + 1, Len(s))) = Len(s) - n
           /\ SubSeq(s, 1, n) \o SubSeq(s, n + 1, Len(s)) = s
<1>1. Len(s) \in Nat /\ \A i \in 1 .. Len(s) : s[i] \in S
  OBVIOUS
<1>2. SubSeq(s, 1, n) \in Seq(S) /\ Len(SubSeq(s, 1, n)) = n
  BY <1>1, SubSeqProperties
<1>3. SubSeq(s, n + 1, Len(s)) \in Seq(S) /\ Len(SubSeq(s, n + 1, Len(s))) = Len(s) - n
  BY <1>1, SubSeqProperties
<1>4. SubSeq(s, 1, n) \o SubSeq(s, n + 1, Len(s)) = SubSeq(s, 1, Len(s))
  <2>1. 1 \in 1 .. Len(s) + 1 /\ n \in 1 - 1 .. Len(s) /\ Len(s) \in n .. Len(s)
    BY <1>1
  <2> QED
    BY <2>1, ConcatAdjacentSubSeq
<1> QED
  BY <1>2, <1>3, <1>4, SubSeqFull

\* Two ways to cut the same sequence at the same place.
LEMMA CutUnique ==
    ASSUME NEW S, NEW s \in Seq(S), NEW t \in Seq(S)
    PROVE  /\ SubSeq(s \o t, 1, Len(s)) = s
           /\ SubSeq(s \o t, Len(s) + 1, Len(s \o t)) = t
<1>1. s \o t \in Seq(S) /\ Len(s \o t) = Len(s) + Len(t) /\ Len(s) \in Nat /\ Len(t) \in Nat
  BY ConcatProperties
<1>2. \A i \in 1 .. Len(s) : (s \o t)[i] = s[i]
  BY <1>1, ConcatProperties
<1>3. \A i \in 1 .. Len(t) : (s \o t)[Len(s) + i] = t[i]
  BY <1>1, ConcatProperties
<1>4. /\ SubSeq(s \o t, 1, Len(s)) \in Seq(S) /\ Len(SubSeq(s \o t, 1, Len(s))) = Len(s)
      /\ \A i \in 1 .. Len(s) : SubSeq(s \o t, 1, Len(s))[i] = (s \o t)[i]
  BY <1>1
<1>5. SubSeq(s \o t, 1, Len(s)) = s
  BY <1>2, <1>4, SeqEqual
<1> DEFINE u == SubSeq(s \o t, Len(s) + 1, Len(s \o t))
<1>6. /\ u \in Seq(S) /\ Len(u) = Len(t)
      /\ \A i \in 1 .. Len(t) : u[i] = (s \o t)[Len(s) + i]
  BY <1>1
<1>7. u = t
  BY <1>3, <1>6, SeqEqual
<1> QED
  BY <1>5, <1>7

LEMMA PrefixOfConcat ==
    ASSUME NEW S, NEW s \in Seq(S), NEW t \in Seq(S)
    PROVE  IsPrefix(s, s \o t)
<1>1. Len(s \o t) = Len(s) + Len(t) /\ Len(s) \in Nat /\ Len(t) \in Nat
  BY ConcatProperties
<1>2. SubSeq(s \o t, 1, Len(s)) = s /\ SubSeq(s, 1, Len(s)) = s
  BY CutUnique, SubSeqFull
<1> QED
  BY <1>1, <1>2 DEF IsPrefix

LEMMA PrefixHasRest ==
    ASSUME NEW S, NEW s \in Seq(S), NEW t \in Seq(S), IsPrefix(s, t)
    PROVE  \E u \in Seq(S) : t = s \o u
<1>1. Len(s) \in 0 .. Len(t) /\ SubSeq(t, 1, Len(s)) = s
  <2>1. Len(s) <= Len(t) /\ SubSeq(s, 1, Len(s)) = SubSeq(t, 1, Len(s))
    BY DEF IsPrefix
  <2>2. SubSeq(s, 1, Len(s)) = s
    BY SubSeqFull
  <2> QED
    BY <2>1, <2>2
<1>2. /\ SubSeq(t, Len(s) + 1, Len(t)) \in Seq(S)
      /\ t = SubSeq(t, 1, Len(s)) \o SubSeq(t, Len(s) + 1, Len(t))
  BY <1>1, Cut
<1> QED
  BY <1>1, <1>2

LEMMA EncodeFrameType ==
    ASSUME NEW payload \in Seq(Byte)
    PROVE  /\ encodeFrame(payload) \in Seq(Byte)
           /\ Len(encodeFrame(payload)) = UintSize + Len(payload)
<1>1. /\ BigEndian(Len(payload), UintSize) \in Seq(Byte)
      /\ Len(BigEndian(Len(payload), UintSize)) = UintSize
  BY ProtocolAssumption, UintSize \in Nat, Len(payload) \in Nat, BigEndianType
<1> QED
  BY <1>1, ConcatProperties DEF encodeFrame

\* What EncodeAll computes: h[n] is the stream of the first n frames.
IsEncoding(h, payloads) ==
    /\ h \in [0 .. Len(payloads) -> Seq(Byte)]
    /\ h[0] = <<>>
    /\ \A n \in 1 .. Len(payloads) : h[n] = h[n - 1] \o encodeFrame(payloads[n])
    /\ EncodeAll(payloads) = h[Len(payloads)]

LEMMA EncodeAllType ==
    ASSUME NEW payloads \in Seq(Seq(Byte))
    PROVE  \E h : IsEncoding(h, payloads)
<1> DEFINE k == Len(payloads)
           F(f) == [n \in 0 .. k |->
                       IF n = 0 THEN <<>> ELSE f[n - 1] \o encodeFrame(payloads[n])]
           g == [n \in 1 .. k |-> [x \in Seq(Byte) |-> x \o encodeFrame(payloads[n])]]
           h == CHOOSE f : f = F(f)
<1>0. /\ k \in Nat /\ <<>> \in Seq(Byte)
      /\ \A n \in 1 .. k : encodeFrame(payloads[n]) \in Seq(Byte)
  BY EncodeFrameType, EmptySeq
<1>1. g \in [1 .. k -> [Seq(Byte) -> Seq(Byte)]]
  BY <1>0, ConcatProperties
<1>2. PICK f \in [0 .. k -> Seq(Byte)] : Iterates(f, <<>>, g, k)
  <2> HIDE DEF g, k
  <2> QED
    BY <1>0, <1>1, IterationExists
<1>3. f = F(f)
  <2> HIDE DEF k
  <2>1. \A n \in 1 .. k : n - 1 \in 0 .. k /\ f[n - 1] \in Seq(Byte)
    BY <1>0
  <2>2. f[0] = <<>> /\ \A n \in 1 .. k : f[n] = f[n - 1] \o encodeFrame(payloads[n])
    BY <1>2, <2>1 DEF Iterates
  <2>3. \A n \in 0 .. k : n = 0 \/ n \in 1 .. k
    BY <1>0
  <2>4. \A n \in 0 .. k : f[n] = IF n = 0 THEN <<>> ELSE f[n - 1] \o encodeFrame(payloads[n])
    BY <2>2, <2>3, Zenon
  <2>5. f = [n \in 0 .. k |-> f[n]]
    OBVIOUS
  <2> QED
    BY <2>4, <2>5, Zenon
<1>4. h = F(h)
  BY <1>3
<1>5. EncodeAll(payloads) = h[k]
  BY DEF EncodeAll
<1> HIDE DEF h
<1>6. /\ DOMAIN h = 0 .. k /\ h[0] = <<>>
      /\ \A n \in 1 .. k : h[n] = h[n - 1] \o encodeFrame(payloads[n])
  <2> HIDE DEF k
  <2>1. /\ DOMAIN h = 0 .. k
        /\ \A n \in 0 .. k :
              h[n] = IF n = 0 THEN <<>> ELSE h[n - 1] \o encodeFrame(payloads[n])
    BY <1>4, Zenon
  <2>2. 0 \in 0 .. k /\ \A n \in 1 .. k : n \in 0 .. k /\ n # 0
    BY <1>0
  <2> QED
    BY <2>1, <2>2, Zenon
<1>7. \A n \in 1 .. k : h[n - 1] \in Seq(Byte) => h[n] = g[n][h[n - 1]]
  BY <1>6
<1>8. \A n \in 0 .. k : h[n] \in Seq(Byte)
  <2> HIDE DEF g, k
  <2> QED
    BY <1>0, <1>1, <1>6, <1>7, RecursiveFunction
<1>9. h \in [0 .. k -> Seq(Byte)]
  BY <1>4, <1>8
<1> QED
  BY <1>0, <1>5, <1>6, <1>9 DEF IsEncoding

LEMMA EncodeAllEmpty ==
    EncodeAll(<<>>) = <<>>
<1>1. <<>> \in Seq(Seq(Byte)) /\ Len(<<>>) = 0
  BY EmptySeq
<1>2. PICK h : IsEncoding(h, <<>>)
  BY <1>1, EncodeAllType
<1> QED
  BY <1>1, <1>2 DEF IsEncoding

\* One more frame.
LEMMA EncodeAllAppend ==
    ASSUME NEW payloads \in Seq(Seq(Byte)), NEW payload \in Seq(Byte)
    PROVE  /\ EncodeAll(payloads) \in Seq(Byte)
           /\ EncodeAll(Append(payloads, payload)) =
                  EncodeAll(payloads) \o encodeFrame(payload)
<1> DEFINE more == Append(payloads, payload)
           k == Len(payloads)
<1>1. /\ more \in Seq(Seq(Byte)) /\ k \in Nat /\ Len(more) = k + 1
      /\ \A n \in 1 .. k : more[n] = payloads[n]
      /\ more[k + 1] = payload
  BY AppendProperties
<1>2. PICK h : IsEncoding(h, payloads)
  BY EncodeAllType
<1>3. PICK f : IsEncoding(f, more)
  BY <1>1, EncodeAllType
<1> HIDE DEF more
<1>4. /\ h \in [0 .. k -> Seq(Byte)] /\ h[0] = <<>> /\ EncodeAll(payloads) = h[k]
      /\ \A n \in 1 .. k : h[n] = h[n - 1] \o encodeFrame(payloads[n])
  BY <1>2 DEF IsEncoding
<1>5. /\ f[0] = <<>> /\ EncodeAll(more) = f[k + 1]
      /\ \A n \in 1 .. k + 1 : f[n] = f[n - 1] \o encodeFrame(more[n])
  BY <1>1, <1>3 DEF IsEncoding
<1> HIDE DEF k
<1> DEFINE T == {n \in 0 .. k : f[n] # h[n]}
<1>6. T \in SUBSET Nat
  OBVIOUS
<1>7. ASSUME T # {} PROVE FALSE
  <2>1. PICK m \in T : \A n \in T : m <= n
    BY <1>6, <1>7, LeastNumber
  <2>2. m \in 0 .. k /\ m # 0 /\ f[m] # h[m]
    BY <1>4, <1>5, <2>1
  <2>3. m \in 1 .. k /\ m \in 1 .. k + 1 /\ m - 1 \in 0 .. k
    BY <1>1, <2>2
  <2>4. f[m - 1] = h[m - 1]
    BY <2>1, <2>3
  <2>5. /\ f[m] = f[m - 1] \o encodeFrame(more[m])
        /\ h[m] = h[m - 1] \o encodeFrame(payloads[m])
        /\ more[m] = payloads[m]
    BY <1>1, <1>4, <1>5, <2>3
  <2> QED
    BY <2>2, <2>4, <2>5
<1>8. f[k] = h[k] /\ h[k] \in Seq(Byte)
  <2>1. k \in 0 .. k
    BY <1>1
  <2>2. k \notin T
    BY <1>7, Zenon
  <2> QED
    BY <1>4, <2>1, <2>2, Zenon
<1>9. f[k + 1] = f[k] \o encodeFrame(more[k + 1])
  <2>1. k + 1 \in 1 .. k + 1 /\ (k + 1) - 1 = k
    BY <1>1
  <2> QED
    BY <1>5, <2>1
<1> QED
  BY <1>1, <1>4, <1>5, <1>8, <1>9, SMTT(30) DEF more

\* A decoder's buffer with a complete frame at its head.
LEMMA FrameAtHead ==
    ASSUME NEW buffer \in Seq(Byte), hasFrame(buffer)
    PROVE  /\ FirstFrame(buffer) \in Seq(Byte)
           /\ popFrame(buffer) \in Seq(Byte)
           /\ encodeFrame(FirstFrame(buffer)) \o popFrame(buffer) = buffer
<1> DEFINE k == UintSize
           header == SubSeq(buffer, 1, k)
           rest == SubSeq(buffer, k + 1, Len(buffer))
           n == payloadSize(buffer)
<1>1. k \in Nat /\ k <= Len(buffer) /\ k \in 0 .. Len(buffer) /\ Len(buffer) \in Nat
  BY ProtocolAssumption DEF hasFrame, HasHeader, kFrameHeaderSize
<1>2. /\ header \in Seq(Byte) /\ Len(header) = k
      /\ rest \in Seq(Byte) /\ Len(rest) = Len(buffer) - k
      /\ header \o rest = buffer
  BY <1>1, Cut
<1>3. n = FromBigEndian(header) /\ n \in Nat /\ BigEndian(n, k) = header
  BY <1>2, BigEndianOfValue DEF payloadSize, kFrameHeaderSize
<1>4. n \in 0 .. Len(rest) /\ k + n \in 0 .. Len(buffer)
  <2>1. Len(buffer) - k >= n
    BY DEF hasFrame, kFrameHeaderSize
  <2> HIDE DEF n
  <2> QED
    BY <1>1, <1>2, <1>3, <2>1
<1>5. /\ FirstFrame(buffer) = SubSeq(buffer, k + 1, k + n)
      /\ popFrame(buffer) = SubSeq(buffer, (k + n) + 1, Len(buffer))
  BY DEF FirstFrame, popFrame, kFrameHeaderSize
<1> HIDE DEF n
<1>6. FirstFrame(buffer) \in Seq(Byte) /\ Len(FirstFrame(buffer)) = n
  <2>1. \A i \in k + 1 .. k + n : buffer[i] \in Byte
    BY <1>1, <1>3, <1>4
  <2> QED
    BY <1>1, <1>3, <1>5, <2>1, SubSeqProperties, SMTT(30)
<1>7. popFrame(buffer) \in Seq(Byte)
  BY <1>4, <1>5, Cut
<1>8. FirstFrame(buffer) \o popFrame(buffer) = rest
  <2>1. k + 1 \in 1 .. Len(buffer) + 1 /\ k + n \in (k + 1) - 1 .. Len(buffer)
        /\ Len(buffer) \in k + n .. Len(buffer)
    BY <1>1, <1>3, <1>4
  <2> QED
    BY <1>5, <2>1, ConcatAdjacentSubSeq
<1>9. encodeFrame(FirstFrame(buffer)) = header \o FirstFrame(buffer)
  BY <1>3, <1>6 DEF encodeFrame
<1> HIDE DEF header, rest
<1>10. (header \o FirstFrame(buffer)) \o popFrame(buffer) =
           header \o (FirstFrame(buffer) \o popFrame(buffer))
  <2>1. header \in Seq(Byte) /\ FirstFrame(buffer) \in Seq(Byte) /\ popFrame(buffer) \in Seq(Byte)
    BY <1>2, <1>6, <1>7
  <2> QED
    BY ONLY <2>1, ConcatAssociative, SMTT(30)
<1> QED
  BY <1>2, <1>6, <1>7, <1>8, <1>9, <1>10, Zenon

-----------------------------------------------------------------------------
\* Fields and numbers

\* What FieldValues computes: h[n] is the number of values of n bytes.
IsPower(h, size) ==
    /\ h \in [0 .. size -> Nat]
    /\ h[0] = 1
    /\ \A n \in 1 .. size : h[n] = h[n - 1] * ByteValues
    /\ FieldValues(size) = h[size]

LEMMA FieldValuesType ==
    ASSUME NEW size \in Nat
    PROVE  \E h : IsPower(h, size)
<1> DEFINE F(f) == [n \in 0 .. size |-> IF n = 0 THEN 1 ELSE f[n - 1] * ByteValues]
           g == [n \in 1 .. size |-> [x \in Nat |-> x * ByteValues]]
           h == CHOOSE f : f = F(f)
<1>0. ByteValues \in Nat
  BY ProtocolAssumption
<1>1. g \in [1 .. size -> [Nat -> Nat]]
  BY <1>0
<1>2. PICK f \in [0 .. size -> Nat] : Iterates(f, 1, g, size)
  BY <1>1, IterationExists
<1>3. f = F(f)
  <2>1. \A n \in 1 .. size : n - 1 \in 0 .. size /\ f[n - 1] \in Nat
    OBVIOUS
  <2>2. f[0] = 1 /\ \A n \in 1 .. size : f[n] = f[n - 1] * ByteValues
    BY <1>2, <2>1 DEF Iterates
  <2> QED
    BY <2>2
<1>4. h = F(h)
  BY <1>3
<1>5. FieldValues(size) = h[size]
  BY DEF FieldValues
<1> HIDE DEF h
<1>6. /\ DOMAIN h = 0 .. size /\ h[0] = 1
      /\ \A n \in 1 .. size : h[n] = h[n - 1] * ByteValues
  BY <1>4
<1>7. \A n \in 1 .. size : h[n - 1] \in Nat => h[n] = g[n][h[n - 1]]
  BY <1>6
<1> HIDE DEF g
<1>8. \A n \in 0 .. size : h[n] \in Nat
  <2>1. 1 \in Nat
    OBVIOUS
  <2> QED
    BY <1>1, <1>6, <1>7, <2>1, RecursiveFunction, ZenonT(60)
<1>9. h \in [0 .. size -> Nat]
  BY <1>4, <1>8
<1> QED
  BY <1>5, <1>6, <1>9 DEF IsPower

LEMMA FieldValuesNat ==
    ASSUME NEW size \in Nat
    PROVE  FieldValues(size) \in Nat
<1>1. PICK h : IsPower(h, size)
  BY FieldValuesType
<1> QED
  BY <1>1 DEF IsPower

LEMMA FieldSizes ==
    /\ UintSize \in Nat \ {0} /\ FieldValues(UintSize) \in Nat
    /\ JobIdSize \in Nat \ {0} /\ FieldValues(JobIdSize) \in Nat
    /\ kMaxFrameSize \in 0 .. FieldValues(UintSize) - 1
<1>1. UintSize \in Nat \ {0} /\ JobIdSize \in Nat \ {0}
  BY ProtocolAssumption
<1>2. FieldValues(UintSize) \in Nat /\ FieldValues(JobIdSize) \in Nat
  BY <1>1, FieldValuesNat
<1> QED
  BY <1>1, <1>2, ProtocolAssumption

\* All the digits of a value come from one function.
LEMMA ShiftedIs ==
    ASSUME NEW value \in Nat, NEW base \in Nat \ {0}, NEW k \in Nat, NEW h,
           IsShift(h, value, base, k), NEW i \in 0 .. k
    PROVE  Shifted(value, base, i) = h[i]
<1>1. PICK f : IsShift(f, value, base, i)
  BY i \in Nat, ShiftedType
<1> DEFINE T == {n \in 0 .. i : f[n] # h[n]}
<1>2. T \in SUBSET Nat
  OBVIOUS
<1>3. ASSUME T # {} PROVE FALSE
  <2>1. PICK m \in T : \A n \in T : m <= n
    BY <1>2, <1>3, LeastNumber
  <2>2. m \in 1 .. i /\ m \in 1 .. k /\ m - 1 \in 0 .. i
    BY <1>1, <2>1 DEF IsShift
  <2>3. f[m - 1] = h[m - 1]
    BY <2>1, <2>2
  <2>4. f[m] = f[m - 1] \div base /\ h[m] = h[m - 1] \div base
    BY <1>1, <2>2 DEF IsShift
  <2> QED
    BY <2>1, <2>3, <2>4
<1>4. f[i] = h[i]
  BY <1>3
<1> QED
  BY <1>1, <1>4 DEF IsShift

\* Nothing is left of a value that fits.
LEMMA FittingValue ==
    ASSUME NEW size \in Nat, NEW value \in 0 .. FieldValues(size) - 1
    PROVE  Shifted(value, ByteValues, size) = 0
<1>0. ByteValues \in Nat \ {0} /\ FieldValues(size) \in Nat /\ value \in Nat
  BY ProtocolAssumption, FieldValuesNat
<1>1. PICK p : IsPower(p, size)
  BY FieldValuesType
<1>2. PICK h : IsShift(h, value, ByteValues, size)
  BY <1>0, ShiftedType
<1> DEFINE T == {n \in 0 .. size : ~(h[n] < p[size - n])}
<1>3. T \in SUBSET Nat
  OBVIOUS
<1>4. ASSUME T # {} PROVE FALSE
  <2>1. PICK m \in T : \A n \in T : m <= n
    BY <1>3, <1>4, LeastNumber
  <2>2. h[0] < p[size - 0]
    BY <1>0, <1>1, <1>2 DEF IsShift, IsPower
  <2>3. m \in 1 .. size /\ m - 1 \in 0 .. size
    BY <2>1, <2>2
  <2>4. h[m - 1] < p[size - (m - 1)]
    BY <2>1, <2>3
  <2>5. /\ size - (m - 1) \in 1 .. size /\ (size - (m - 1)) - 1 = size - m
        /\ size - m \in 0 .. size
    BY <2>3
  <2>6. p[size - (m - 1)] = p[size - m] * ByteValues /\ p[size - m] \in Nat
    BY <1>1, <2>5 DEF IsPower
  <2>7. h[m] = h[m - 1] \div ByteValues /\ h[m - 1] \in Nat
    BY <1>2, <2>3 DEF IsShift
  <2>8. h[m] < p[size - m]
    <3> DEFINE x == h[m - 1]
               q == p[size - m]
               d == x \div ByteValues
    <3>1. x \in Nat /\ q \in Nat /\ x < q * ByteValues /\ h[m] = d
      BY <2>4, <2>6, <2>7
    <3> HIDE DEF x, q
    <3>2. d \in Nat /\ x >= ByteValues * d
      BY <1>0, <3>1
    <3> HIDE DEF d
    <3>3. ASSUME q <= d PROVE FALSE
      <4>1. ByteValues * q <= ByteValues * d
        BY <1>0, <3>1, <3>2, <3>3
      <4> QED
        BY <1>0, <3>1, <3>2, <4>1
    <3> QED
      BY <3>1, <3>2, <3>3 DEF q
  <2> QED
    BY <2>1, <2>8
<1>5. h[size] < p[0] /\ p[0] = 1
  <2>1. size \in 0 .. size /\ size - size = 0
    OBVIOUS
  <2> QED
    BY <1>1, <1>4, <2>1 DEF IsPower
<1> QED
  BY <1>2, <1>5 DEF IsShift

LEMMA DivisionWithRest ==
    ASSUME NEW x \in Nat, NEW base \in Nat \ {0}
    PROVE  (x \div base) * base + (x % base) = x
<1> DEFINE q == x \div base
           r == x % base
<1>1. q \in Nat /\ r \in Nat /\ x = base * q + r
  OBVIOUS
<1>2. q * base + r = x
  <2> HIDE DEF q, r
  <2> QED
    BY <1>1
<1> QED
  BY <1>2

\* A field that is written is read back, if the value fits.
LEMMA ValueOfBigEndian ==
    ASSUME NEW size \in Nat, NEW value \in 0 .. FieldValues(size) - 1
    PROVE  FromBigEndian(BigEndian(value, size)) = value
<1> DEFINE bytes == BigEndian(value, size)
<1>0. ByteValues \in Nat \ {0} /\ FieldValues(size) \in Nat /\ value \in Nat
  BY ProtocolAssumption, FieldValuesNat
<1>1. bytes \in Seq(Byte) /\ Len(bytes) = size
  BY <1>0, BigEndianType
<1>2. PICK v : IsValue(v, bytes)
  BY <1>1, FromBigEndianType
<1>3. PICK h : IsShift(h, value, ByteValues, size)
  BY <1>0, ShiftedType
<1>4. \A i \in 1 .. size : bytes[i] = h[size - i] % ByteValues
  <2>1. ASSUME NEW i \in 1 .. size PROVE Shifted(value, ByteValues, size - i) = h[size - i]
    BY <1>0, <1>3, size - i \in 0 .. size, ShiftedIs
  <2> QED
    BY <2>1 DEF BigEndian
<1>5. h[size] = 0
  BY <1>3, FittingValue DEF IsShift
<1> HIDE DEF bytes
<1>6. /\ v[0] = 0 /\ FromBigEndian(bytes) = v[size]
      /\ \A n \in 1 .. size : v[n] = v[n - 1] * ByteValues + bytes[n]
  BY <1>1, <1>2 DEF IsValue
<1> DEFINE T == {n \in 0 .. size : v[n] # h[size - n]}
<1>7. T \in SUBSET Nat
  OBVIOUS
<1>8. ASSUME T # {} PROVE FALSE
  <2>1. PICK m \in T : \A n \in T : m <= n
    BY <1>7, <1>8, LeastNumber
  <2>2. m \in 1 .. size /\ m - 1 \in 0 .. size
    BY <1>5, <1>6, <2>1
  <2>3. v[m - 1] = h[size - (m - 1)]
    BY <2>1, <2>2
  <2>4. size - (m - 1) \in 1 .. size /\ (size - (m - 1)) - 1 = size - m /\ size - m \in 0 .. size
    BY <2>2
  <2>5. h[size - (m - 1)] = h[size - m] \div ByteValues /\ h[size - m] \in Nat
    BY <1>3, <2>4 DEF IsShift
  <2>6. v[m] = v[m - 1] * ByteValues + (h[size - m] % ByteValues)
    <3>1. bytes[m] = h[size - m] % ByteValues
      BY <1>4, <2>2
    <3>2. v[m] = v[m - 1] * ByteValues + bytes[m]
      BY <1>6, <2>2
    <3> QED
      BY <3>1, <3>2, Zenon
  <2>7. v[m] = h[size - m]
    <3> DEFINE x == h[size - m]
    <3>1. x \in Nat /\ v[m] = (x \div ByteValues) * ByteValues + (x % ByteValues)
      BY <2>3, <2>5, <2>6
    <3> HIDE DEF x
    <3>2. (x \div ByteValues) * ByteValues + (x % ByteValues) = x
      BY <1>0, <3>1, DivisionWithRest
    <3> QED
      BY <3>1, <3>2 DEF x
  <2> QED
    BY <2>1, <2>7
<1>9. v[size] = h[size - size] /\ h[0] = value /\ size - size = 0
  BY <1>3, <1>8 DEF IsShift
<1> QED
  BY <1>6, <1>9 DEF bytes

-----------------------------------------------------------------------------
\* Decimal numbers

\* What ValueOf computes: h[n] is the number that the first n digits spell.
IsNumber(h, text) ==
    /\ h \in [0 .. Len(text) -> Int]
    /\ h[0] = 0
    /\ \A n \in 1 .. Len(text) : h[n] = h[n - 1] * 10 + (text[n] - Digit(0))
    /\ ValueOf(text) = h[Len(text)]

LEMMA ValueOfType ==
    ASSUME NEW text \in Seq(Byte)
    PROVE  \E h : IsNumber(h, text)
<1> DEFINE k == Len(text)
           F(f) == [n \in 0 .. k |->
                       IF n = 0 THEN 0 ELSE f[n - 1] * 10 + (text[n] - Digit(0))]
           g == [n \in 1 .. k |-> [x \in Int |-> x * 10 + (text[n] - Digit(0))]]
           h == CHOOSE f : f = F(f)
<1>0. /\ k \in Nat /\ Digit(0) \in Int /\ 0 \in Int
      /\ \A n \in 1 .. k : text[n] \in Int
  BY ProtocolAssumption DEF Byte, Digit
<1>1. g \in [1 .. k -> [Int -> Int]]
  BY <1>0
<1>2. PICK f \in [0 .. k -> Int] : Iterates(f, 0, g, k)
  BY <1>0, <1>1, IterationExists
<1>3. f = F(f)
  <2>1. \A n \in 1 .. k : n - 1 \in 0 .. k /\ f[n - 1] \in Int
    BY <1>0
  <2>2. f[0] = 0 /\ \A n \in 1 .. k : f[n] = f[n - 1] * 10 + (text[n] - Digit(0))
    BY <1>2, <2>1 DEF Iterates
  <2> QED
    BY <2>2
<1>4. h = F(h)
  BY <1>3
<1>5. ValueOf(text) = h[k]
  BY DEF ValueOf
<1> HIDE DEF h
<1>6. /\ DOMAIN h = 0 .. k /\ h[0] = 0
      /\ \A n \in 1 .. k : h[n] = h[n - 1] * 10 + (text[n] - Digit(0))
  BY <1>0, <1>4
<1>7. \A n \in 1 .. k : h[n - 1] \in Int => h[n] = g[n][h[n - 1]]
  BY <1>6
<1> HIDE DEF g
<1>8. \A n \in 0 .. k : h[n] \in Int
  <2> HIDE DEF k
  <2> QED
    BY <1>0, <1>1, <1>6, <1>7, RecursiveFunction, ZenonT(30)
<1>9. h \in [0 .. k -> Int]
  BY <1>4, <1>8
<1> QED
  BY <1>0, <1>5, <1>6, <1>9 DEF IsNumber

\* The loop of the parsers, given what its variable is after each turn.
LEMMA ParserIs ==
    ASSUME NEW text \in Seq(Byte), NEW maximum \in Nat, NEW w,
           w = [n \in 0 .. Len(text) |-> w[n]], w[0] = 0,
           \A n \in 1 .. Len(text) : w[n] = AppendDigit(w[n - 1], text[n], maximum)
    PROVE  parseDecimal(text, maximum) =
               IF text = <<>> \/ w[Len(text)] \in {-1, 0}
                 THEN Reject ELSE Accept(w[Len(text)])
<1> DEFINE k == Len(text)
           F(f) == [n \in 0 .. k |->
                       IF n = 0 THEN 0 ELSE AppendDigit(f[n - 1], text[n], maximum)]
           h == CHOOSE f : f = F(f)
<1>0. k \in Nat /\ k \in 0 .. k
  OBVIOUS
<1>1. \A n \in 0 .. k : n = 0 \/ n \in 1 .. k
  BY <1>0
<1>2. w = F(w)
  <2>1. \A n \in 0 .. k : w[n] = IF n = 0 THEN 0 ELSE AppendDigit(w[n - 1], text[n], maximum)
    BY <1>1, Zenon
  <2> QED
    BY <2>1, Zenon
<1>3. h = F(h)
  BY <1>2
<1>4. parseDecimal(text, maximum) =
          IF text = <<>> \/ h[k] \in {-1, 0} THEN Reject ELSE Accept(h[k])
  BY DEF parseDecimal
<1> HIDE DEF h
<1>5. \A n \in 0 .. k : h[n] = IF n = 0 THEN 0 ELSE AppendDigit(h[n - 1], text[n], maximum)
  <2> HIDE DEF k
  <2> QED
    BY <1>3, Zenon
<1> DEFINE T == {n \in 0 .. k : h[n] # w[n]}
<1>6. T \in SUBSET Nat
  OBVIOUS
<1>7. ASSUME T # {} PROVE FALSE
  <2>1. PICK m \in T : \A n \in T : m <= n
    BY <1>6, <1>7, LeastNumber
  <2>2. m \in 0 .. k /\ h[m] # w[m] /\ 0 \in 0 .. k
    BY <1>0, <2>1
  <2>3. m # 0
    BY <1>5, <2>2, Zenon
  <2>4. m \in 1 .. k /\ m - 1 \in 0 .. k /\ m - 1 \notin T
    BY <1>0, <2>1, <2>2, <2>3
  <2>5. h[m - 1] = w[m - 1]
    BY <2>4
  <2>6. h[m] = AppendDigit(h[m - 1], text[m], maximum)
    BY <1>5, <2>2, <2>3, Zenon
  <2> QED
    BY <2>2, <2>4, <2>5, <2>6, Zenon
<1>8. h[k] = w[k]
  BY <1>0, <1>7
<1> QED
  BY <1>4, <1>8, Zenon

\* One turn of the loop, on a number that has not overflowed.
LEMMA AppendDigitIs ==
    ASSUME NEW maximum \in Nat, NEW x \in 0 .. maximum, NEW digit \in 0 .. 9
    PROVE  AppendDigit(x, Digit(digit), maximum) =
               IF x * 10 + digit <= maximum THEN x * 10 + digit ELSE -1
<1>1. Digit(digit) - Digit(0) = digit
  BY DEF Digit
<1> DEFINE q == (maximum - digit) \div 10
<1>2. q \in Int /\ 10 * q <= maximum - digit /\ maximum - digit < 10 * q + 10
  OBVIOUS
<1>3. x > q <=> x * 10 + digit > maximum
  <2> HIDE DEF q
  <2> QED
    BY <1>2
<1>4. ASSUME x * 10 + digit <= maximum
      PROVE  (x * 10 + digit) % (maximum + 1) = x * 10 + digit
  <2> DEFINE y == x * 10 + digit
  <2>1. y \in Nat /\ y < maximum + 1
    BY <1>4
  <2> HIDE DEF y
  <2>2. y % (maximum + 1) = y
    BY <2>1
  <2> QED
    BY <2>2 DEF y
<1> QED
  BY <1>1, <1>3, <1>4 DEF AppendDigit

(***************************************************************************)
(* parsePositiveTimeout, parseJobId, parsePositiveMaxRunning and the       *)
(* parser of a SUBMIT's answer, for a type of any width: a text is         *)
(* accepted if and only if it consists of digits and spells a number from  *)
(* 1 to the type's greatest, and then as that number.                      *)
(***************************************************************************)
THEOREM ParsersAreExact ==
    ASSUME NEW text \in Seq(Byte), NEW maximum \in Nat
    PROVE  parseDecimal(text, maximum) = Spelled(text, maximum)
<1> DEFINE k == Len(text)
           good(n) == \A i \in 1 .. n : text[i] \in Digits
<1>0. k \in Nat /\ k \in 0 .. k /\ \A i \in 1 .. k : text[i] \in Int
  BY ProtocolAssumption DEF Byte
<1>1. PICK v : IsNumber(v, text)
  BY ValueOfType
<1>2. /\ v \in [0 .. k -> Int] /\ v[0] = 0 /\ ValueOf(text) = v[k]
      /\ \A n \in 1 .. k : v[n] = v[n - 1] * 10 + (text[n] - Digit(0))
  BY <1>1 DEF IsNumber
<1>3. ToSet(text) \subseteq Digits <=> good(k)
  BY DEF ToSet
<1>20. text = <<>> => k = 0
  OBVIOUS
<1>21. Len(text) = k
  OBVIOUS
<1> HIDE DEF k
<1>4. ASSUME NEW n \in 1 .. k, good(n)
      PROVE  /\ good(n - 1) /\ n - 1 \in 0 .. k
             /\ \E digit \in 0 .. 9 : text[n] = Digit(digit) /\ v[n] = v[n - 1] * 10 + digit
  <2>1. n \in 1 .. n /\ n - 1 \in 0 .. k /\ \A i \in 1 .. n - 1 : i \in 1 .. n
    BY <1>0
  <2>2. PICK digit \in 0 .. 9 : text[n] = Digit(digit)
    BY <1>4, <2>1 DEF Digits
  <2>3. v[n] = v[n - 1] * 10 + digit
    BY <1>2, <2>2 DEF Digit
  <2> QED
    BY <1>4, <2>1, <2>2, <2>3
<1>5. \A n \in 0 .. k : good(n) => v[n] \in Nat
  <2> DEFINE T == {n \in 0 .. k : good(n) /\ v[n] \notin Nat}
  <2> HIDE DEF good
  <2>1. T \in SUBSET Nat
    OBVIOUS
  <2>2. ASSUME T # {} PROVE FALSE
    <3>1. PICK m \in T : \A n \in T : m <= n
      BY <2>1, <2>2, LeastNumber
    <3>2. m \in 0 .. k /\ good(m) /\ v[m] \notin Nat
      BY <3>1
    <3>3. m \in 1 .. k
      BY <1>0, <1>2, <3>2
    <3>4. PICK digit \in 0 .. 9 : v[m] = v[m - 1] * 10 + digit
      BY <1>4, <3>2, <3>3
    <3>5. good(m - 1) /\ m - 1 \in 0 .. k /\ m - 1 \notin T
      BY <1>4, <3>1, <3>2, <3>3
    <3>6. v[m - 1] \in Nat
      BY <3>5
    <3> QED
      BY <3>2, <3>4, <3>6
  <2> QED
    BY <2>2
<1> DEFINE w == [n \in 0 .. k |-> IF good(n) /\ v[n] <= maximum THEN v[n] ELSE -1]
<1>6. w = [n \in 0 .. k |-> w[n]] /\ w[0] = 0
  BY <1>0, <1>2
<1>7. ASSUME NEW n \in 1 .. k PROVE w[n] = AppendDigit(w[n - 1], text[n], maximum)
  <2>0. n \in 0 .. k /\ n - 1 \in 0 .. k /\ v[n - 1] \in Int /\ v[n] \in Int
    BY <1>0, <1>2
  <2>1. /\ w[n] = IF good(n) /\ v[n] <= maximum THEN v[n] ELSE -1
        /\ w[n - 1] = IF good(n - 1) /\ v[n - 1] <= maximum THEN v[n - 1] ELSE -1
    BY <2>0
  <2>2. CASE good(n)
    <3>1. PICK digit \in 0 .. 9 : text[n] = Digit(digit) /\ v[n] = v[n - 1] * 10 + digit
      BY <1>4, <2>2
    <3>2. good(n - 1) /\ v[n - 1] \in Nat
      BY <1>4, <1>5, <2>0, <2>2
    <3> HIDE DEF good, w
    <3>3. CASE v[n - 1] <= maximum
      <4>1. w[n - 1] = v[n - 1] /\ v[n - 1] \in 0 .. maximum
        BY <2>1, <3>2, <3>3
      <4>2. AppendDigit(w[n - 1], text[n], maximum) =
                IF v[n - 1] * 10 + digit <= maximum THEN v[n - 1] * 10 + digit ELSE -1
        BY <3>1, <4>1, AppendDigitIs
      <4> QED
        BY <2>1, <2>2, <3>1, <4>2
    <3>4. CASE ~(v[n - 1] <= maximum)
      <4>1. ~(v[n] <= maximum)
        BY <3>1, <3>2, <3>4
      <4>2. w[n] = -1 /\ w[n - 1] = -1
        BY <2>1, <3>4, <4>1
      <4> QED
        BY <4>2 DEF AppendDigit
    <3> QED
      BY <3>3, <3>4
  <2>3. CASE ~good(n)
    <3>1. good(n - 1) => text[n] \notin Digits
      BY <1>0, <2>3
    <3>2. text[n] \notin Digits => text[n] - Digit(0) \notin 0 .. 9
      <4>1. ASSUME text[n] - Digit(0) \in 0 .. 9 PROVE text[n] \in Digits
        <5>1. text[n] = Digit(text[n] - Digit(0))
          BY <1>0 DEF Digit
        <5> QED
          BY <4>1, <5>1 DEF Digits
      <4> QED
        BY <4>1
    <3>3. w[n] = -1
      BY <2>1, <2>3
    <3>4. ~good(n - 1) => w[n - 1] = -1
      BY <2>1
    <3> HIDE DEF w, good
    <3> QED
      BY <3>1, <3>2, <3>3, <3>4 DEF AppendDigit
  <2> QED
    BY <2>2, <2>3
<1>8. w[k] = IF good(k) /\ v[k] <= maximum THEN v[k] ELSE -1
  BY <1>0
<1>9. v[k] \in Int /\ (good(k) => v[k] \in Nat)
  BY <1>0, <1>2, <1>5
<1> HIDE DEF w, good
<1>10. parseDecimal(text, maximum) =
           IF text = <<>> \/ w[k] \in {-1, 0} THEN Reject ELSE Accept(w[k])
  BY <1>6, <1>7, <1>21, ParserIs
<1>11. CASE good(k) /\ v[k] \in 1 .. maximum
  <2>1. w[k] = v[k] /\ w[k] \notin {-1, 0} /\ k # 0
    BY <1>2, <1>8, <1>11
  <2> QED
    BY <1>2, <1>3, <1>10, <1>11, <1>20, <2>1 DEF Spelled
<1>12. CASE ~(good(k) /\ v[k] \in 1 .. maximum)
  <2>1. w[k] \in {-1, 0}
    BY <1>8, <1>9, <1>12
  <2> QED
    BY <1>2, <1>3, <1>10, <1>12, <2>1 DEF Spelled
<1> QED
  BY <1>11, <1>12

(***************************************************************************)
(* std::to_string of a job id, read as a number: it is the id again.       *)
(***************************************************************************)
THEOREM DecimalsComeBack ==
    ASSUME NEW n \in Nat
    PROVE  /\ ToDecimal(n) \in Seq(Byte) /\ ToSet(ToDecimal(n)) \subseteq Digits
           /\ ValueOf(ToDecimal(n)) = n
<1> DEFINE text == ToDecimal(n)
<1>1. text \in Seq(Byte)
  BY ToDecimalType
<1>2. PICK size \in Nat \ {0} :
          /\ Shifted(n, 10, size) = 0
          /\ text = [i \in 1 .. size |-> Digit(Shifted(n, 10, size - i) % 10)]
  BY ToDecimalIs
<1> HIDE DEF text
<1>3. Len(text) = size
  BY <1>2
<1>4. PICK h : IsShift(h, n, 10, size)
  BY 10 \in Nat \ {0}, ShiftedType
<1>5. \A i \in 1 .. size : text[i] = Digit(h[size - i] % 10) /\ h[size - i] \in Nat
  <2>1. ASSUME NEW i \in 1 .. size
        PROVE  Shifted(n, 10, size - i) = h[size - i] /\ h[size - i] \in Nat
    <3>1. size - i \in 0 .. size /\ 10 \in Nat \ {0} /\ size \in Nat
      OBVIOUS
    <3>2. Shifted(n, 10, size - i) = h[size - i]
      BY <1>4, <3>1, ShiftedIs
    <3> QED
      BY <1>4, <3>1, <3>2 DEF IsShift
  <2> QED
    BY <1>2, <2>1
<1>6. ToSet(text) \subseteq Digits
  <2>1. \A x \in Nat : x % 10 \in 0 .. 9
    OBVIOUS
  <2>2. \A i \in 1 .. size : text[i] \in Digits
    BY <1>5, <2>1, Zenon DEF Digits
  <2> QED
    BY <1>1, <1>3, <2>2 DEF ToSet
<1>7. PICK v : IsNumber(v, text)
  BY <1>1, ValueOfType
<1>8. /\ v[0] = 0 /\ ValueOf(text) = v[size]
      /\ \A i \in 1 .. size : v[i] = v[i - 1] * 10 + (text[i] - Digit(0))
  BY <1>3, <1>7 DEF IsNumber
<1> DEFINE T == {i \in 0 .. size : v[i] # h[size - i]}
<1>9. T \in SUBSET Nat
  OBVIOUS
<1>10. ASSUME T # {} PROVE FALSE
  <2>1. PICK m \in T : \A i \in T : m <= i
    BY <1>9, <1>10, LeastNumber
  <2>2. h[size] = 0
    BY <1>2, <1>4 DEF IsShift
  <2>3. m \in 1 .. size /\ m - 1 \in 0 .. size
    BY <1>8, <2>1, <2>2
  <2>4. v[m - 1] = h[size - (m - 1)]
    BY <2>1, <2>3
  <2>5. size - (m - 1) \in 1 .. size /\ (size - (m - 1)) - 1 = size - m
    BY <2>3
  <2>6. h[size - (m - 1)] = h[size - m] \div 10
    BY <1>4, <2>5 DEF IsShift
  <2>7. h[size - m] \in Nat /\ text[m] = Digit(h[size - m] % 10)
    BY <1>5, <2>3
  <2>8. v[m] = v[m - 1] * 10 + (text[m] - Digit(0))
    BY <1>8, <2>3
  <2>9. v[m] = h[size - m]
    <3> DEFINE x == h[size - m]
    <3>1. x \in Nat /\ v[m] = (x \div 10) * 10 + (Digit(x % 10) - Digit(0))
      BY <2>4, <2>6, <2>7, <2>8
    <3> HIDE DEF x
    <3>2. v[m] = x
      BY <3>1 DEF Digit
    <3> QED
      BY <3>2 DEF x
  <2> QED
    BY <2>1, <2>9
<1>11. v[size] = h[size - size] /\ h[0] = n /\ size - size = 0
  <2>1. size \in 0 .. size /\ size - size = 0
    OBVIOUS
  <2>2. size \notin T
    BY <1>10, Zenon
  <2>3. v[size] = h[size - size]
    BY <2>1, <2>2, Zenon
  <2> QED
    BY <1>4, <2>1, <2>3 DEF IsShift
<1> QED
  BY <1>1, <1>6, <1>8, <1>11 DEF text

-----------------------------------------------------------------------------
\* Requests about a job

\* A word and the bytes that follow it.
LEMMA WordFirst ==
    ASSUME NEW word \in Byte, NEW bytes \in Seq(Byte)
    PROVE  /\ <<word>> \o bytes \in Seq(Byte) /\ <<word>> \o bytes # <<>>
           /\ Len(<<word>> \o bytes) = 1 + Len(bytes)
           /\ (<<word>> \o bytes)[1] = word
           /\ Tail(<<word>> \o bytes) = bytes
<1>1. <<word>> \in Seq(Byte) /\ Len(<<word>>) = 1 /\ <<word>>[1] = word
  OBVIOUS
<1>2. /\ <<word>> \o bytes \in Seq(Byte) /\ Len(<<word>> \o bytes) = 1 + Len(bytes)
      /\ \A i \in 1 .. 1 + Len(bytes) :
            (<<word>> \o bytes)[i] = IF i <= 1 THEN <<word>>[i] ELSE bytes[i - 1]
  BY <1>1, ConcatProperties
<1>3. <<word>> \o bytes # <<>> /\ (<<word>> \o bytes)[1] = word
  BY <1>1, <1>2
<1>4. Tail(<<word>> \o bytes) = bytes
  <2> DEFINE s == <<word>> \o bytes
  <2>1. s \in Seq(Byte) /\ s # <<>> /\ Len(s) = 1 + Len(bytes)
    BY <1>2, <1>3
  <2>2. \A i \in 1 .. Len(bytes) : s[i + 1] = bytes[i]
    BY <1>2
  <2> HIDE DEF s
  <2>3. /\ Tail(s) \in Seq(Byte) /\ Len(Tail(s)) = Len(bytes)
        /\ \A i \in 1 .. Len(Tail(s)) : Tail(s)[i] = s[i + 1]
    BY <2>1, HeadTailProperties
  <2>4. Tail(s) = bytes
    BY <2>2, <2>3, SeqEqual
  <2> QED
    BY <2>4 DEF s
<1> QED
  BY <1>2, <1>3, <1>4

\* A payload is its first word and the rest.
LEMMA FirstWord ==
    ASSUME NEW payload \in Seq(Byte), payload # <<>>
    PROVE  /\ payload[1] \in Byte /\ Tail(payload) \in Seq(Byte)
           /\ Len(Tail(payload)) = Len(payload) - 1
           /\ <<payload[1]>> \o Tail(payload) = payload
<1>1. /\ payload[1] \in Byte /\ Tail(payload) \in Seq(Byte)
      /\ Len(Tail(payload)) = Len(payload) - 1 /\ Len(payload) \in Nat \ {0}
      /\ \A i \in 1 .. Len(Tail(payload)) : Tail(payload)[i] = payload[i + 1]
  BY HeadTailProperties
<1> DEFINE s == <<payload[1]>> \o Tail(payload)
<1>2. s \in Seq(Byte) /\ Len(s) = Len(payload)
  BY <1>1, WordFirst
<1>3. \A i \in 1 .. Len(payload) : s[i] = payload[i]
  <2>1. <<payload[1]>> \in Seq(Byte) /\ Len(<<payload[1]>>) = 1
    BY <1>1
  <2>2. \A i \in 1 .. 1 + Len(Tail(payload)) :
            s[i] = IF i <= 1 THEN <<payload[1]>>[i] ELSE Tail(payload)[i - 1]
    BY <1>1, <2>1, ConcatProperties
  <2>3. ASSUME NEW i \in 1 .. Len(payload), i # 1
        PROVE  Tail(payload)[i - 1] = payload[i] /\ i \in 1 .. 1 + Len(Tail(payload)) /\ ~(i <= 1)
    <3>1. i - 1 \in 1 .. Len(Tail(payload)) /\ (i - 1) + 1 = i
      BY <1>1, <2>3
    <3> QED
      BY <1>1, <2>3, <3>1
  <2>4. s[1] = payload[1]
    BY <1>1, WordFirst
  <2> QED
    BY <2>2, <2>3, <2>4
<1>4. s = payload
  BY <1>2, <1>3, SeqEqual
<1> QED
  BY <1>1, <1>4

LEMMA AppendJobIdType ==
    ASSUME NEW word \in Byte, NEW job_id \in Nat
    PROVE  /\ appendJobId(<<word>>, job_id) \in Seq(Byte)
           /\ Len(appendJobId(<<word>>, job_id)) = 1 + JobIdSize
           /\ StartsWith(appendJobId(<<word>>, job_id), word)
<1>1. JobIdSize \in Nat
  BY ProtocolAssumption
<1>2. BigEndian(job_id, JobIdSize) \in Seq(Byte) /\ Len(BigEndian(job_id, JobIdSize)) = JobIdSize
  BY <1>1, BigEndianType
<1> QED
  BY <1>2, WordFirst DEF appendJobId, StartsWith

(***************************************************************************)
(* Every job id comes through a STATUS or CANCEL request, and 0 is no id.  *)
(***************************************************************************)
THEOREM JobIdsComeThrough ==
    ASSUME NEW word \in Byte, NEW job_id \in 0 .. FieldValues(JobIdSize) - 1
    PROVE  decodeJobId(appendJobId(<<word>>, job_id)) =
               IF job_id = 0 THEN Reject ELSE Accept(job_id)
<1>1. JobIdSize \in Nat /\ FieldValues(JobIdSize) \in Nat /\ job_id \in Nat
  BY ProtocolAssumption, JobIdSize \in Nat, FieldValuesNat
<1>2. BigEndian(job_id, JobIdSize) \in Seq(Byte)
  BY <1>1, BigEndianType
<1>3. Tail(appendJobId(<<word>>, job_id)) = BigEndian(job_id, JobIdSize)
  BY <1>2, WordFirst DEF appendJobId
<1>4. FromBigEndian(BigEndian(job_id, JobIdSize)) = job_id
  BY <1>1, ValueOfBigEndian
<1>5. Len(appendJobId(<<word>>, job_id)) = 1 + JobIdSize
  BY <1>1, AppendJobIdType
<1> QED
  BY <1>3, <1>4, <1>5 DEF decodeJobId

(***************************************************************************)
(* A STATUS or CANCEL request is accepted only if it is the encoding of    *)
(* the id that it is decoded to.                                           *)
(***************************************************************************)
THEOREM JobIdsAreExact ==
    ASSUME NEW payload \in Seq(Byte), decodeJobId(payload).ok
    PROVE  /\ decodeJobId(payload).value \in Nat
           /\ appendJobId(<<payload[1]>>, decodeJobId(payload).value) = payload
<1>1. Len(payload) = 1 + JobIdSize /\ JobIdSize \in Nat
  BY ProtocolAssumption DEF decodeJobId, Reject
<1>2. decodeJobId(payload).value = FromBigEndian(Tail(payload))
  BY DEF decodeJobId, Accept, Reject
<1>3. payload # <<>>
  BY <1>1
<1>4. /\ Tail(payload) \in Seq(Byte) /\ Len(Tail(payload)) = JobIdSize
      /\ <<payload[1]>> \o Tail(payload) = payload
  BY <1>1, <1>3, FirstWord
<1>5. /\ FromBigEndian(Tail(payload)) \in Nat
      /\ BigEndian(FromBigEndian(Tail(payload)), JobIdSize) = Tail(payload)
  BY <1>4, BigEndianOfValue
<1> QED
  BY <1>2, <1>4, <1>5 DEF appendJobId

-----------------------------------------------------------------------------
\* SUBMIT requests

\* What stands between two other pieces.
LEMMA Middle ==
    ASSUME NEW S, NEW a \in Seq(S), NEW m \in Seq(S), NEW b \in Seq(S)
    PROVE  /\ (a \o m) \o b \in Seq(S)
           /\ Len((a \o m) \o b) = Len(a) + Len(m) + Len(b)
           /\ SubSeq((a \o m) \o b, Len(a) + 1, Len(a) + Len(m)) = m
<1> DEFINE t == (a \o m) \o b
<1>1. /\ Len(a) \in Nat /\ Len(m) \in Nat /\ Len(b) \in Nat
      /\ a \o m \in Seq(S) /\ Len(a \o m) = Len(a) + Len(m)
      /\ \A i \in 1 .. Len(a) + Len(m) :
            (a \o m)[i] = IF i <= Len(a) THEN a[i] ELSE m[i - Len(a)]
  BY ConcatProperties
<1>2. /\ t \in Seq(S) /\ Len(t) = (Len(a) + Len(m)) + Len(b)
      /\ \A i \in 1 .. (Len(a) + Len(m)) + Len(b) :
            t[i] = IF i <= Len(a) + Len(m) THEN (a \o m)[i] ELSE b[i - (Len(a) + Len(m))]
  BY <1>1, ConcatProperties
<1> HIDE DEF t
<1>3. ASSUME NEW i \in 1 .. Len(m) PROVE t[Len(a) + i] = m[i]
  <2>1. /\ Len(a) + i \in 1 .. Len(a) + Len(m)
        /\ Len(a) + i \in 1 .. (Len(a) + Len(m)) + Len(b)
        /\ ~(Len(a) + i <= Len(a)) /\ Len(a) + i <= Len(a) + Len(m)
        /\ (Len(a) + i) - Len(a) = i
    BY <1>1
  <2> QED
    BY <1>1, <1>2, <2>1
<1> DEFINE u == SubSeq(t, Len(a) + 1, Len(a) + Len(m))
<1>4. u \in Seq(S) /\ Len(u) = Len(m) /\ \A i \in 1 .. Len(m) : u[i] = t[Len(a) + i]
  BY <1>1, <1>2
<1>5. u = m
  BY <1>3, <1>4, SeqEqual
<1> QED
  BY <1>1, <1>2, <1>5 DEF t

\* A field that was written between two other pieces.
LEMMA FieldIsRead ==
    ASSUME NEW a \in Seq(Byte), NEW b \in Seq(Byte), NEW value \in 0 .. FieldValues(UintSize) - 1
    PROVE  readUint32((a \o BigEndian(value, UintSize)) \o b, Len(a)) = value
<1>1. UintSize \in Nat /\ FieldValues(UintSize) \in Nat /\ value \in Nat
  BY ProtocolAssumption, UintSize \in Nat, FieldValuesNat
<1>2. BigEndian(value, UintSize) \in Seq(Byte) /\ Len(BigEndian(value, UintSize)) = UintSize
  BY <1>1, BigEndianType
<1>3. SubSeq((a \o BigEndian(value, UintSize)) \o b, Len(a) + 1, Len(a) + UintSize) =
          BigEndian(value, UintSize)
  BY <1>2, Middle
<1> QED
  BY <1>1, <1>3, ValueOfBigEndian DEF readUint32

\* The state of decodeSubmitRequest's loop.
LoopState(at, args) == [offset |-> at, argv |-> args]

\* w[n] is the state after n turns.
IsLoop(w, payload, head, count) ==
    w = [n \in 0 .. count |-> IF n = 0 THEN LoopState(head, <<>>)
                                      ELSE DecodeArgument(payload, w[n - 1])]

LEMMA DecodeArgumentsIs ==
    ASSUME NEW payload, NEW head, NEW count \in Nat, NEW w, IsLoop(w, payload, head, count)
    PROVE  DecodeArguments(payload, head, count) = w[count]
<1> DEFINE F(f) == [n \in 0 .. count |->
                       IF n = 0 THEN [offset |-> head, argv |-> <<>>]
                                ELSE DecodeArgument(payload, f[n - 1])]
           h == CHOOSE f : f = F(f)
<1>0. count \in 0 .. count
  OBVIOUS
<1>2. w = F(w)
  BY Zenon DEF IsLoop, LoopState
<1>1. \A n \in 0 .. count : w[n] = IF n = 0 THEN [offset |-> head, argv |-> <<>>]
                                            ELSE DecodeArgument(payload, w[n - 1])
  BY <1>2, Zenon
<1>3. h = F(h)
  BY <1>2
<1>4. DecodeArguments(payload, head, count) = h[count]
  BY DEF DecodeArguments
<1> HIDE DEF h
<1>5. \A n \in 0 .. count : h[n] = IF n = 0 THEN [offset |-> head, argv |-> <<>>]
                                            ELSE DecodeArgument(payload, h[n - 1])
  BY <1>3, Zenon
<1> DEFINE T == {n \in 0 .. count : h[n] # w[n]}
<1>6. T \in SUBSET Nat
  OBVIOUS
<1>7. ASSUME T # {} PROVE FALSE
  <2>1. PICK m \in T : \A n \in T : m <= n
    BY <1>6, <1>7, LeastNumber
  <2>2. m \in 0 .. count /\ h[m] # w[m]
    BY <2>1
  <2>3. m # 0
    BY <1>1, <1>5, <2>2, Zenon
  <2>4. m \in 1 .. count /\ m - 1 \in 0 .. count /\ m - 1 \notin T
    BY <2>1, <2>2, <2>3
  <2>5. h[m - 1] = w[m - 1]
    BY <2>4
  <2>6. h[m] = DecodeArgument(payload, h[m - 1])
    BY <1>5, <2>2, <2>3, Zenon
  <2> QED
    BY <1>1, <2>2, <2>3, <2>5, <2>6, Zenon
<1>8. h[count] = w[count]
  BY <1>0, <1>7
<1> QED
  BY <1>4, <1>8, Zenon

\* Every frame takes at least its header, and the first frames are a prefix.
LEMMA EncodingGrows ==
    ASSUME NEW payloads \in Seq(Seq(Byte)), NEW h, IsEncoding(h, payloads),
           NEW n \in 0 .. Len(payloads)
    PROVE  /\ Len(h[n]) >= n
           /\ Len(h[n]) >= UintSize * n
           /\ \E rest \in Seq(Byte) : h[Len(payloads)] = h[n] \o rest
<1> DEFINE k == Len(payloads)
<1>0. k \in Nat /\ UintSize \in Nat \ {0}
  BY ProtocolAssumption
<1>1. /\ h \in [0 .. k -> Seq(Byte)] /\ h[0] = <<>>
      /\ \A i \in 1 .. k : h[i] = h[i - 1] \o encodeFrame(payloads[i])
      /\ \A i \in 1 .. k : payloads[i] \in Seq(Byte)
  <2>1. \A i \in 1 .. k : payloads[i] \in Seq(Byte)
    OBVIOUS
  <2> QED
    BY <2>1, Zenon DEF IsEncoding
<1>9. Len(payloads) = k
  OBVIOUS
<1> HIDE DEF k
<1>2. ASSUME NEW i \in 1 .. k
      PROVE  /\ i - 1 \in 0 .. k /\ h[i - 1] \in Seq(Byte) /\ h[i] \in Seq(Byte)
             /\ encodeFrame(payloads[i]) \in Seq(Byte)
             /\ h[i] = h[i - 1] \o encodeFrame(payloads[i])
             /\ Len(h[i]) >= Len(h[i - 1]) + UintSize
  <2>1. i - 1 \in 0 .. k /\ i \in 0 .. k
    BY <1>0
  <2>2. h[i - 1] \in Seq(Byte) /\ h[i] \in Seq(Byte) /\ payloads[i] \in Seq(Byte)
    BY <1>1, <2>1
  <2>4. /\ encodeFrame(payloads[i]) \in Seq(Byte)
        /\ Len(encodeFrame(payloads[i])) = UintSize + Len(payloads[i])
    BY <2>2, EncodeFrameType
  <2>5. h[i] = h[i - 1] \o encodeFrame(payloads[i])
    BY <1>1
  <2>6. Len(h[i]) = Len(h[i - 1]) + Len(encodeFrame(payloads[i]))
    <3>1. Len(h[i - 1] \o encodeFrame(payloads[i])) = Len(h[i - 1]) + Len(encodeFrame(payloads[i]))
      BY <2>2, <2>4, Joined, Zenon
    <3> QED
      BY <2>5, <3>1, Zenon
  <2>7. Len(payloads[i]) \in Nat /\ Len(h[i - 1]) \in Nat
    BY <2>2
  <2> QED
    BY <1>0, <2>1, <2>2, <2>4, <2>5, <2>6, <2>7
<1>3. Len(h[n]) >= UintSize * n
  <2> DEFINE T == {i \in 0 .. k : ~(Len(h[i]) >= UintSize * i)}
  <2>1. T \in SUBSET Nat
    OBVIOUS
  <2>2. ASSUME T # {} PROVE FALSE
    <3>1. PICK m \in T : \A i \in T : m <= i
      BY <2>1, <2>2, LeastNumber
    <3>2. Len(h[0]) >= UintSize * 0
      BY <1>0, <1>1
    <3>3. m \in 1 .. k /\ m - 1 \notin T /\ m - 1 \in 0 .. k
      BY <1>0, <3>1, <3>2
    <3>4. Len(h[m - 1]) >= UintSize * (m - 1) /\ Len(h[m]) >= Len(h[m - 1]) + UintSize
      BY <1>2, <3>3
    <3>5. UintSize * m = UintSize * (m - 1) + UintSize
      BY <1>0, <3>3
    <3>6. Len(h[m]) \in Nat /\ Len(h[m - 1]) \in Nat /\ UintSize * (m - 1) \in Nat
      BY <1>0, <1>2, <3>3
    <3> QED
      BY <1>0, <3>1, <3>4, <3>5, <3>6
  <2> QED
    BY <1>9, <2>2
<1>4. UintSize * n >= n
  <2>1. UintSize >= 1 /\ n \in Nat
    BY <1>0
  <2> QED
    BY <1>0, <2>1
<1>5. Len(h[n]) >= n
  <2>1. h[n] \in Seq(Byte) /\ UintSize * n \in Nat /\ n \in Nat
    BY <1>0, <1>1, <1>9
  <2>2. Len(h[n]) \in Nat
    BY <2>1
  <2> QED
    BY <1>3, <1>4, <2>1, <2>2
<1>6. \E rest \in Seq(Byte) : h[k] = h[n] \o rest
  <2> DEFINE T == {i \in 0 .. k : ~(\E rest \in Seq(Byte) : h[k] = h[k - i] \o rest)}
  <2>1. T \in SUBSET Nat
    OBVIOUS
  <2>2. ASSUME T # {} PROVE FALSE
    <3>1. PICK m \in T : \A i \in T : m <= i
      BY <2>1, <2>2, LeastNumber
    <3>2. \E rest \in Seq(Byte) : h[k] = h[k - 0] \o rest
      <4>1. k - 0 = k /\ h[k] \in Seq(Byte)
        BY <1>0, <1>1
      <4> QED
        BY <4>1, ConcatEmptySeq, EmptySeq
    <3>3. m \in 1 .. k /\ m - 1 \notin T /\ m - 1 \in 0 .. k
      <4>1. m # 0 /\ m \in 0 .. k
        BY <3>1, <3>2, Zenon
      <4>2. m \in 1 .. k /\ m - 1 \in 0 .. k /\ ~(m <= m - 1)
        BY <1>0, <4>1
      <4> QED
        BY <3>1, <4>2, Zenon
    <3>4. PICK rest \in Seq(Byte) : h[k] = h[k - (m - 1)] \o rest
      BY <3>3
    <3> DEFINE i == k - (m - 1)
    <3>5. i \in 1 .. k /\ i - 1 = k - m
      BY <1>0, <3>3
    <3>10. h[k] = h[i] \o rest
      BY <3>4
    <3> HIDE DEF i
    <3>6. /\ h[i] = h[i - 1] \o encodeFrame(payloads[i])
          /\ h[i - 1] \in Seq(Byte) /\ encodeFrame(payloads[i]) \in Seq(Byte)
      BY <1>2, <3>5
    <3>7. (h[i - 1] \o encodeFrame(payloads[i])) \o rest =
              h[i - 1] \o (encodeFrame(payloads[i]) \o rest)
      BY <3>6, Joined, Zenon
    <3>8. encodeFrame(payloads[i]) \o rest \in Seq(Byte)
      BY <3>6, ConcatProperties
    <3>9. h[k] = h[k - m] \o (encodeFrame(payloads[i]) \o rest)
      BY <3>5, <3>6, <3>7, <3>10
    <3> QED
      BY <3>1, <3>8, <3>9
  <2>3. k - n \in 0 .. k /\ k - (k - n) = n
    BY <1>0, <1>9
  <2> QED
    BY <2>2, <2>3
<1> QED
  BY <1>3, <1>5, <1>6, <1>9

\* One turn of the loop on an argument that was written.
LEMMA ArgumentIsRead ==
    ASSUME NEW a \in Seq(Byte), NEW arg \in Seq(Byte), NEW rest \in Seq(Byte), NEW args,
           Len(arg) < FieldValues(UintSize)
    PROVE  DecodeArgument((a \o encodeFrame(arg)) \o rest, LoopState(Len(a), args)) =
               LoopState(Len(a) + (UintSize + Len(arg)), Append(args, arg))
<1> DEFINE size == BigEndian(Len(arg), UintSize)
           b == a \o size
           payload == (a \o encodeFrame(arg)) \o rest
           state == LoopState(Len(a), args)
<1>0. /\ UintSize \in Nat /\ Len(a) \in Nat /\ Len(arg) \in Nat /\ Len(rest) \in Nat
      /\ FieldValues(UintSize) \in Nat /\ Len(arg) \in 0 .. FieldValues(UintSize) - 1
  BY FieldSizes
<1>1. size \in Seq(Byte) /\ Len(size) = UintSize
  BY <1>0, BigEndianType
<1>9. encodeFrame(arg) = size \o arg
  BY DEF encodeFrame
<1> HIDE DEF size
<1>2. b \in Seq(Byte) /\ Len(b) = Len(a) + UintSize
  BY <1>1, ConcatProperties
<1>3. payload = (b \o arg) \o rest
  <2>1. a \o (size \o arg) = (a \o size) \o arg
    BY <1>1, Joined, Zenon
  <2> QED
    BY <1>9, <2>1, Zenon
<1>4. payload = b \o (arg \o rest) /\ arg \o rest \in Seq(Byte)
  <2> HIDE DEF b, payload
  <2>1. (b \o arg) \o rest = b \o (arg \o rest)
    BY <1>2, Regrouped, ZenonT(60)
  <2>2. arg \o rest \in Seq(Byte)
    BY <1>2, Joined, Zenon
  <2> QED
    BY <1>3, <2>1, <2>2, Zenon
<1>5. readUint32(payload, Len(a)) = Len(arg)
  <2>1. readUint32(b \o (arg \o rest), Len(a)) = Len(arg)
    BY <1>0, <1>4, FieldIsRead DEF size
  <2> QED
    BY <1>4, <2>1, Zenon
<1>10. state.offset = Len(a) /\ state.argv = args
  BY DEF LoopState
<1> HIDE DEF b, payload, state
<1>6. /\ payload \in Seq(Byte) /\ Len(payload) = Len(b) + Len(arg) + Len(rest)
      /\ SubSeq(payload, Len(b) + 1, Len(b) + Len(arg)) = arg
  <2>1. /\ (b \o arg) \o rest \in Seq(Byte)
        /\ Len((b \o arg) \o rest) = Len(b) + Len(arg) + Len(rest)
        /\ SubSeq((b \o arg) \o rest, Len(b) + 1, Len(b) + Len(arg)) = arg
    <3>1. ASSUME NEW x \in Seq(Byte)
          PROVE  /\ (x \o arg) \o rest \in Seq(Byte)
                 /\ Len((x \o arg) \o rest) = Len(x) + Len(arg) + Len(rest)
                 /\ SubSeq((x \o arg) \o rest, Len(x) + 1, Len(x) + Len(arg)) = arg
      BY Middle
    <3> QED
      BY <1>2, <3>1, Zenon
  <2> QED
    BY <1>3, <2>1, Zenon
<1>7. ~IsTruncated(payload, Len(a))
  BY <1>0, <1>2, <1>6 DEF IsTruncated
<1>8. ~(Len(arg) > Len(payload) - (Len(a) + UintSize)) /\ Len(a) # -1
  BY <1>0, <1>2, <1>6
<1>11. DecodeArgument(payload, state) =
           [offset |-> (Len(a) + UintSize) + Len(arg),
            argv |-> Append(args, SubSeq(payload, Len(b) + 1, Len(b) + Len(arg)))]
  BY <1>2, <1>5, <1>7, <1>8, <1>10, Zenon DEF DecodeArgument
<1>12. (Len(a) + UintSize) + Len(arg) = Len(a) + (UintSize + Len(arg))
  BY <1>0
<1> QED
  BY <1>6, <1>11, <1>12, Zenon DEF LoopState, payload, state

LEMMA OneMore ==
    ASSUME NEW S, NEW s \in Seq(S), NEW n \in 1 .. Len(s)
    PROVE  Append(SubSeq(s, 1, n - 1), s[n]) = SubSeq(s, 1, n)
<1> DEFINE t == SubSeq(s, 1, n - 1)
           u == SubSeq(s, 1, n)
<1>1. Len(s) \in Nat /\ n - 1 \in 0 .. Len(s) /\ n \in 0 .. Len(s) /\ s[n] \in S
  OBVIOUS
<1>2. t \in Seq(S) /\ Len(t) = n - 1 /\ \A i \in 1 .. n - 1 : t[i] = s[i]
  BY <1>1
<1>3. u \in Seq(S) /\ Len(u) = n /\ \A i \in 1 .. n : u[i] = s[i]
  BY <1>1
<1> HIDE DEF t, u
<1>4. /\ Append(t, s[n]) \in Seq(S) /\ Len(Append(t, s[n])) = n
      /\ \A i \in 1 .. n - 1 : Append(t, s[n])[i] = t[i]
      /\ Append(t, s[n])[n] = s[n]
  BY <1>1, <1>2, AppendProperties
<1>5. \A i \in 1 .. n : Append(t, s[n])[i] = u[i]
  BY <1>1, <1>2, <1>3, <1>4
<1>6. Append(t, s[n]) = u
  BY <1>3, <1>4, <1>5, SeqEqual
<1> QED
  BY <1>6 DEF t, u

\* The whole loop on arguments that were written.
LEMMA ArgumentsAreRead ==
    ASSUME NEW front \in Seq(Byte), NEW argv \in Seq(Seq(Byte)),
           Len(EncodeAll(argv)) < FieldValues(UintSize)
    PROVE  DecodeArguments(front \o EncodeAll(argv), Len(front), Len(argv)) =
               LoopState(Len(front) + Len(EncodeAll(argv)), argv)
<1> DEFINE k == Len(argv)
           payload == front \o EncodeAll(argv)
<1>1. PICK h : IsEncoding(h, argv)
  BY EncodeAllType
<1>2. /\ h \in [0 .. k -> Seq(Byte)] /\ h[0] = <<>> /\ EncodeAll(argv) = h[k]
      /\ \A i \in 1 .. k : h[i] = h[i - 1] \o encodeFrame(argv[i])
  BY <1>1, Zenon DEF IsEncoding
<1>3. /\ k \in Nat /\ UintSize \in Nat /\ FieldValues(UintSize) \in Nat /\ Len(front) \in Nat
      /\ \A i \in 1 .. k : argv[i] \in Seq(Byte)
  BY FieldSizes
<1>4. \A i \in 0 .. k : \E rest \in Seq(Byte) : h[k] = h[i] \o rest
  BY <1>1, EncodingGrows
<1>9. SubSeq(argv, 1, 0) = <<>> /\ SubSeq(argv, 1, k) = argv
  BY SubSeqFull, SubSeqEmpty
<1>10. \A i \in 1 .. k : Append(SubSeq(argv, 1, i - 1), argv[i]) = SubSeq(argv, 1, i)
  BY OneMore
<1> HIDE DEF k
<1> DEFINE w == [i \in 0 .. k |-> LoopState(Len(front) + Len(h[i]), SubSeq(argv, 1, i))]
<1>5. w[0] = LoopState(Len(front), <<>>)
  <2>1. Len(h[0]) = 0 /\ 0 \in 0 .. k
    BY <1>2, <1>3
  <2>2. Len(front) + 0 = Len(front)
    BY <1>3
  <2> QED
    BY <1>9, <2>1, <2>2
<1>6. ASSUME NEW i \in 1 .. k PROVE w[i] = DecodeArgument(payload, w[i - 1])
  <2>1. i \in 0 .. k /\ i - 1 \in 0 .. k
    BY <1>3
  <2>2. PICK rest \in Seq(Byte) : h[k] = h[i] \o rest
    BY <1>4, <2>1
  <2> DEFINE before == h[i - 1]
             arg == argv[i]
             a == front \o before
  <2>3. before \in Seq(Byte) /\ arg \in Seq(Byte) /\ h[i] = before \o encodeFrame(arg)
    BY <1>2, <1>3, <2>1
  <2>11. h[k] = EncodeAll(argv) /\ Len(h[k]) < FieldValues(UintSize)
    BY <1>2
  <2> HIDE DEF before, arg
  <2>4. encodeFrame(arg) \in Seq(Byte) /\ Len(encodeFrame(arg)) = UintSize + Len(arg)
    BY <2>3, EncodeFrameType
  <2>5. /\ Len(before) \in Nat /\ Len(arg) \in Nat /\ Len(rest) \in Nat
        /\ Len(before \o encodeFrame(arg)) = Len(before) + (UintSize + Len(arg))
        /\ before \o encodeFrame(arg) \in Seq(Byte)
    <3>1. /\ Len(before \o encodeFrame(arg)) = Len(before) + Len(encodeFrame(arg))
          /\ before \o encodeFrame(arg) \in Seq(Byte)
      BY <2>3, <2>4, Joined, Zenon
    <3> QED
      BY <2>3, <2>4, <3>1
  <2>6. Len(arg) < FieldValues(UintSize)
    <3>1. Len((before \o encodeFrame(arg)) \o rest) =
              Len(before) + (UintSize + Len(arg)) + Len(rest)
      BY <2>5, ConcatProperties
    <3>2. h[k] = (before \o encodeFrame(arg)) \o rest
      BY <2>2, <2>3, Zenon
    <3> QED
      BY <1>3, <2>5, <2>11, <3>1, <3>2
  <2>7. a \in Seq(Byte) /\ Len(a) = Len(front) + Len(before)
    BY <2>3, ConcatProperties
  <2>8. payload = (a \o encodeFrame(arg)) \o rest
    <3>1. payload = front \o ((before \o encodeFrame(arg)) \o rest)
      BY <2>2, <2>3, <2>11, Zenon
    <3>2. front \o ((before \o encodeFrame(arg)) \o rest) =
              (front \o (before \o encodeFrame(arg))) \o rest
      BY <2>5, Joined, Zenon
    <3>3. front \o (before \o encodeFrame(arg)) = (front \o before) \o encodeFrame(arg)
      BY <2>3, <2>4, Joined, Zenon
    <3> QED
      BY <3>1, <3>2, <3>3, Zenon
  <2>9. /\ w[i - 1] = LoopState(Len(a), SubSeq(argv, 1, i - 1))
        /\ w[i] = LoopState(Len(front) + Len(h[i]), SubSeq(argv, 1, i))
    BY <2>1, <2>7, Zenon DEF before
  <2> HIDE DEF payload, a, w
  <2>10. DecodeArgument(payload, LoopState(Len(a), SubSeq(argv, 1, i - 1))) =
             LoopState(Len(a) + (UintSize + Len(arg)), Append(SubSeq(argv, 1, i - 1), arg))
    <3>1. ASSUME NEW args
          PROVE  DecodeArgument((a \o encodeFrame(arg)) \o rest, LoopState(Len(a), args)) =
                     LoopState(Len(a) + (UintSize + Len(arg)), Append(args, arg))
      <4>1. a \in Seq(Byte) /\ arg \in Seq(Byte)
        BY <2>3, <2>7
      <4> QED
        BY <2>6, <4>1, ArgumentIsRead
    <3> QED
      BY <2>8, <3>1, Zenon
  <2>12. /\ Append(SubSeq(argv, 1, i - 1), arg) = SubSeq(argv, 1, i)
         /\ Len(front) + Len(h[i]) = Len(a) + (UintSize + Len(arg))
    <3>1. Append(SubSeq(argv, 1, i - 1), arg) = SubSeq(argv, 1, i)
      BY <1>10, Zenon DEF arg
    <3>2. Len(h[i]) = Len(before) + (UintSize + Len(arg))
      BY <2>3, <2>5, Zenon
    <3>3. Len(front) + Len(h[i]) = Len(a) + (UintSize + Len(arg))
      BY <1>3, <2>5, <2>7, <3>2
    <3> QED
      BY <3>1, <3>3
  <2> QED
    BY <2>9, <2>10, <2>12, Zenon
<1>7. w = [i \in 0 .. k |-> w[i]]
  OBVIOUS
<1>8. w[k] = LoopState(Len(front) + Len(EncodeAll(argv)), argv)
  BY <1>2, <1>3, <1>9, k \in 0 .. k, Zenon
<1> HIDE DEF w, payload
<1>11. IsLoop(w, payload, Len(front), k)
  <2>1. \A i \in 0 .. k : i = 0 \/ i \in 1 .. k
    BY <1>3
  <2>2. \A i \in 0 .. k : w[i] = IF i = 0 THEN LoopState(Len(front), <<>>)
                                          ELSE DecodeArgument(payload, w[i - 1])
    BY <1>5, <1>6, <2>1, Zenon
  <2> QED
    BY <1>7, <2>2, Zenon DEF IsLoop
<1>12. DecodeArguments(payload, Len(front), k) = w[k]
  BY <1>3, <1>11, DecodeArgumentsIs
<1> QED
  BY <1>8, <1>12 DEF payload, k

\* The fixed part of a SUBMIT payload, with the fields that are read from it.
SubmitFront(timeout_ms, count) ==
    (<<kSubmitCommand>> \o BigEndian(timeout_ms, UintSize)) \o BigEndian(count, UintSize)

LEMMA FrontType ==
    ASSUME NEW timeout_ms \in Nat, NEW count \in Nat
    PROVE  /\ SubmitFront(timeout_ms, count) \in Seq(Byte)
           /\ Len(SubmitFront(timeout_ms, count)) = 1 + 2 * UintSize
<1> DEFINE word == <<kSubmitCommand>>
           t == BigEndian(timeout_ms, UintSize)
           k == BigEndian(count, UintSize)
<1>1. /\ word \in Seq(Byte) /\ Len(word) = 1 /\ UintSize \in Nat
  BY ProtocolAssumption DEF kSubmitCommand, Byte
<1>2. t \in Seq(Byte) /\ Len(t) = UintSize /\ k \in Seq(Byte) /\ Len(k) = UintSize
  BY <1>1, BigEndianType
<1> HIDE DEF word, t, k
<1>3. /\ word \o t \in Seq(Byte) /\ Len(word \o t) = 1 + UintSize
      /\ (word \o t) \o k \in Seq(Byte) /\ Len((word \o t) \o k) = 1 + UintSize + UintSize
  <2>1. word \o t \in Seq(Byte) /\ Len(word \o t) = Len(word) + Len(t)
    BY <1>1, <1>2, Joined, Zenon
  <2>2. (word \o t) \o k \in Seq(Byte) /\ Len((word \o t) \o k) = Len(word \o t) + Len(k)
    BY <1>2, <2>1, Joined, Zenon
  <2> QED
    BY <1>1, <1>2, <2>1, <2>2
<1>4. 1 + UintSize + UintSize = 1 + 2 * UintSize
  BY <1>1
<1> QED
  BY <1>3, <1>4 DEF SubmitFront, word, t, k

LEMMA FrontIsRead ==
    ASSUME NEW timeout_ms \in 0 .. FieldValues(UintSize) - 1,
           NEW count \in 0 .. FieldValues(UintSize) - 1, NEW body \in Seq(Byte)
    PROVE  LET payload == SubmitFront(timeout_ms, count) \o body IN
           /\ payload \in Seq(Byte)
           /\ Len(payload) = 1 + 2 * UintSize + Len(body)
           /\ isSubmitRequest(payload)
           /\ readUint32(payload, 1) = timeout_ms
           /\ readUint32(payload, 1 + UintSize) = count
<1> DEFINE word == <<kSubmitCommand>>
           t == BigEndian(timeout_ms, UintSize)
           k == BigEndian(count, UintSize)
           payload == SubmitFront(timeout_ms, count) \o body
<1>0. /\ UintSize \in Nat /\ FieldValues(UintSize) \in Nat
      /\ timeout_ms \in Nat /\ count \in Nat
  BY FieldSizes
<1>1. word \in Seq(Byte) /\ Len(word) = 1 /\ kSubmitCommand \in Byte
  BY ProtocolAssumption DEF kSubmitCommand, Byte
<1>2. t \in Seq(Byte) /\ Len(t) = UintSize /\ k \in Seq(Byte) /\ Len(k) = UintSize
  BY <1>0, BigEndianType
<1>3. payload \in Seq(Byte) /\ Len(payload) = 1 + 2 * UintSize + Len(body)
  <2>1. /\ SubmitFront(timeout_ms, count) \in Seq(Byte)
        /\ Len(SubmitFront(timeout_ms, count)) = 1 + 2 * UintSize
    BY <1>0, FrontType
  <2> QED
    BY <2>1, ConcatProperties
<1>4. payload = ((word \o t) \o k) \o body
  BY DEF SubmitFront
<1> HIDE DEF payload, t, k, word
<1>5. /\ word \o t \in Seq(Byte) /\ k \o body \in Seq(Byte) /\ t \o (k \o body) \in Seq(Byte)
      /\ Len(word \o t) = 1 + UintSize
  <2>1. /\ word \o t \in Seq(Byte) /\ k \o body \in Seq(Byte)
        /\ Len(word \o t) = Len(word) + Len(t)
    BY <1>1, <1>2, Joined, Zenon
  <2>2. t \o (k \o body) \in Seq(Byte)
    BY <1>2, <2>1, Joined, Zenon
  <2> QED
    BY <1>1, <1>2, <2>1, <2>2
<1>6. payload = (word \o t) \o (k \o body)
  <2>1. ((word \o t) \o k) \o body = (word \o t) \o (k \o body)
    BY <1>2, <1>5, Regrouped, ZenonT(60)
  <2> QED
    BY <1>4, <2>1, Zenon
<1>7. payload = word \o (t \o (k \o body))
  <2>1. ASSUME NEW x \in Seq(Byte) PROVE (word \o t) \o x = word \o (t \o x)
    <3>1. word \in Seq(Byte) /\ t \in Seq(Byte)
      BY <1>1, <1>2
    <3> QED
      BY <3>1, Joined, Zenon
  <2>2. (word \o t) \o (k \o body) = word \o (t \o (k \o body))
    BY <1>5, <2>1, Zenon
  <2> QED
    BY <1>6, <2>2, Zenon
<1>8. isSubmitRequest(payload)
  <2>1. /\ <<kSubmitCommand>> \o (t \o (k \o body)) # <<>>
        /\ (<<kSubmitCommand>> \o (t \o (k \o body)))[1] = kSubmitCommand
    BY <1>1, <1>5, WordFirst
  <2> QED
    BY <1>7, <2>1, Zenon DEF isSubmitRequest, StartsWith, word
<1>9. readUint32(payload, 1) = timeout_ms
  <2>1. readUint32((word \o t) \o (k \o body), Len(word)) = timeout_ms
    BY <1>1, <1>5, FieldIsRead DEF t
  <2> QED
    BY <1>1, <1>6, <2>1, Zenon
<1>10. readUint32(payload, 1 + UintSize) = count
  <2>1. ASSUME NEW a \in Seq(Byte) PROVE readUint32((a \o k) \o body, Len(a)) = count
    BY FieldIsRead DEF k
  <2>2. readUint32(((word \o t) \o k) \o body, Len(word \o t)) = count
    BY <1>5, <2>1, Zenon
  <2> QED
    BY <1>4, <1>5, <2>2, Zenon
<1> QED
  BY <1>3, <1>8, <1>9, <1>10 DEF payload

\* The timeout field of a specification.
TimeoutField(spec) == IF spec.timeout = NoTimeout THEN 0 ELSE spec.timeout

LEMMA SubmitPayloadIs ==
    ASSUME NEW spec
    PROVE  SubmitPayload(spec) =
               SubmitFront(TimeoutField(spec), Len(spec.argv)) \o EncodeAll(spec.argv)
  BY Zenon DEF SubmitPayload, SubmitFront, TimeoutField, appendUint32

LEMMA SubmitPayloadType ==
    ASSUME NEW spec \in JobSpec
    PROVE  /\ SubmitPayload(spec) \in Seq(Byte)
           /\ Len(SubmitPayload(spec)) = 1 + 2 * UintSize + Len(EncodeAll(spec.argv))
           /\ Len(EncodeAll(spec.argv)) >= UintSize * Len(spec.argv)
           /\ Len(EncodeAll(spec.argv)) >= Len(spec.argv)
           /\ EncodeAll(spec.argv) \in Seq(Byte)
           /\ TimeoutField(spec) \in Nat
<1> DEFINE argv == spec.argv
<1>1. argv \in Seq(Seq(Byte)) /\ spec.timeout \in Nat \cup {NoTimeout}
  BY DEF JobSpec
<1>2. TimeoutField(spec) \in Nat
  BY <1>1 DEF TimeoutField
<1> HIDE DEF argv
<1>3. PICK h : IsEncoding(h, argv)
  BY <1>1, EncodeAllType
<1>4. Len(argv) \in Nat /\ Len(argv) \in 0 .. Len(argv)
  BY <1>1
<1>5. EncodeAll(argv) \in Seq(Byte) /\ EncodeAll(argv) = h[Len(argv)]
  BY <1>3, <1>4, Zenon DEF IsEncoding
<1>6. Len(EncodeAll(argv)) >= UintSize * Len(argv) /\ Len(EncodeAll(argv)) >= Len(argv)
  <2>1. Len(h[Len(argv)]) >= UintSize * Len(argv) /\ Len(h[Len(argv)]) >= Len(argv)
    BY <1>1, <1>3, <1>4, EncodingGrows
  <2> QED
    BY <1>5, <2>1, Zenon
<1> DEFINE front == SubmitFront(TimeoutField(spec), Len(argv))
<1>7. front \in Seq(Byte) /\ Len(front) = 1 + 2 * UintSize
  BY <1>2, <1>4, FrontType
<1>8. /\ front \o EncodeAll(argv) \in Seq(Byte)
      /\ Len(front \o EncodeAll(argv)) = Len(front) + Len(EncodeAll(argv))
  BY <1>5, <1>7, Joined, Zenon
<1>9. SubmitPayload(spec) = front \o EncodeAll(argv)
  BY SubmitPayloadIs DEF argv
<1> HIDE DEF front
<1> QED
  BY <1>2, <1>5, <1>6, <1>7, <1>8, <1>9, Zenon DEF argv

(***************************************************************************)
(* A job specification that can be sent at all arrives as it was, with     *)
(* its timeout, or none, and every one of its arguments.                   *)
(***************************************************************************)
THEOREM SubmitsComeThrough ==
    ASSUME NEW spec \in JobSpec, encodeSubmitRequest(spec).ok
    PROVE  decodeSubmitRequest(encodeSubmitRequest(spec).value) = Accept(spec)
<1> DEFINE argv == spec.argv
           k == Len(argv)
           t == TimeoutField(spec)
           body == EncodeAll(argv)
           payload == SubmitPayload(spec)
           head == 1 + 2 * UintSize
           front == SubmitFront(t, k)
<1>1. /\ validateJobSpec(spec) /\ spec.timeout < FieldValues(UintSize)
      /\ Len(payload) <= kMaxFrameSize
      /\ encodeSubmitRequest(spec).value = payload
  BY Zenon DEF encodeSubmitRequest, Accept, Reject
<1>2. /\ UintSize \in Nat \ {0} /\ FieldValues(UintSize) \in Nat
      /\ kMaxFrameSize \in Nat /\ kMaxFrameSize < FieldValues(UintSize)
  BY FieldSizes
<1>3. argv \in Seq(Seq(Byte)) /\ k \in Nat /\ spec.timeout \in Nat \cup {NoTimeout}
  BY DEF JobSpec
<1>4. /\ payload \in Seq(Byte) /\ Len(payload) = head + Len(body)
      /\ Len(body) >= UintSize * k /\ Len(body) >= k
      /\ body \in Seq(Byte) /\ t \in Nat
  BY SubmitPayloadType
<1>5. payload = front \o body
  BY SubmitPayloadIs
<1>6. spec.timeout # NoTimeout => spec.timeout > 0
  BY <1>1, Zenon DEF validateJobSpec
<1>7. /\ t < FieldValues(UintSize)
      /\ (IF t = 0 THEN NoTimeout ELSE t) = spec.timeout
  BY <1>1, <1>2, <1>3, <1>6, FieldValues(UintSize) > 0 DEF TimeoutField, NoTimeout
<1>8. spec = [argv |-> argv, timeout |-> spec.timeout]
  BY DEF JobSpec
<1> HIDE DEF argv, k, t, body, payload, front
<1>9. Len(body) \in Nat /\ Len(payload) \in Nat /\ UintSize * k \in Nat
  BY <1>2, <1>3, <1>4
<1>10. Len(body) < FieldValues(UintSize) /\ k < FieldValues(UintSize)
  BY <1>1, <1>2, <1>3, <1>4, <1>9
<1>11. /\ isSubmitRequest(payload) /\ readUint32(payload, 1) = t
       /\ readUint32(payload, 1 + UintSize) = k
  <2>1. t \in 0 .. FieldValues(UintSize) - 1 /\ k \in 0 .. FieldValues(UintSize) - 1
    BY <1>2, <1>3, <1>4, <1>7, <1>10
  <2>2. LET p == SubmitFront(t, k) \o body IN
        isSubmitRequest(p) /\ readUint32(p, 1) = t /\ readUint32(p, 1 + UintSize) = k
    BY <1>4, <2>1, FrontIsRead
  <2> QED
    BY <1>5, <2>2, Zenon DEF front
<1>12. DecodeArguments(payload, head, k) = [offset |-> Len(payload), argv |-> argv]
  <2>1. front \in Seq(Byte) /\ Len(front) = head
    BY <1>3, <1>4, FrontType DEF front
  <2>2. DecodeArguments(front \o body, Len(front), k) = LoopState(Len(front) + Len(body), argv)
    BY <1>3, <1>10, <2>1, ArgumentsAreRead DEF k, body
  <2> QED
    BY <1>4, <1>5, <2>1, <2>2, Zenon DEF LoopState
<1>13. ~(k > (Len(payload) - head) \div UintSize) /\ ~(Len(payload) < head)
  <2>1. Len(payload) - head = Len(body)
    BY <1>2, <1>4, <1>9
  <2> DEFINE q == Len(body) \div UintSize
  <2>2. q \in Nat /\ UintSize * q + UintSize > Len(body)
    BY <1>2, <1>9
  <2> HIDE DEF q
  <2>3. ASSUME k > q PROVE FALSE
    <3>1. k >= q + 1
      BY <1>3, <2>2, <2>3
    <3>2. UintSize * k >= UintSize * (q + 1)
      BY <1>2, <1>3, <2>2, <3>1
    <3>3. UintSize * (q + 1) = UintSize * q + UintSize
      BY <1>2, <2>2
    <3>4. UintSize * q \in Nat
      BY <1>2, <2>2
    <3> QED
      BY <1>2, <1>4, <1>9, <2>2, <3>2, <3>3, <3>4
  <2>4. ~(k > q)
    BY <2>3
  <2>5. ~(Len(payload) < head)
    BY <1>2, <1>4, <1>9
  <2> QED
    BY <2>1, <2>4, <2>5, Zenon DEF q
<1>14. ~(Len(payload) > kMaxFrameSize)
  BY <1>1, <1>2, <1>9
<1> DEFINE end == DecodeArguments(payload, head, k)
<1>15. end.offset = Len(payload) /\ end.argv = argv
  BY <1>12
<1> HIDE DEF end
<1>16. decodeSubmitRequest(payload) =
           Accept([argv |-> end.argv, timeout |-> IF t = 0 THEN NoTimeout ELSE t])
  BY <1>11, <1>13, <1>14, <1>15, Zenon DEF decodeSubmitRequest, end
<1>17. [argv |-> end.argv, timeout |-> IF t = 0 THEN NoTimeout ELSE t] = spec
  BY <1>7, <1>8, <1>15, Zenon
<1> QED
  BY <1>1, <1>16, <1>17, Zenon

LoopStates == [offset : Nat \cup {-1}, argv : Seq(Seq(Byte))]

\* A field that is read is the field that writes the same value.
LEMMA FieldIsExact ==
    ASSUME NEW payload \in Seq(Byte), NEW at \in Nat, at + UintSize <= Len(payload)
    PROVE  /\ readUint32(payload, at) \in Nat
           /\ BigEndian(readUint32(payload, at), UintSize) =
                  SubSeq(payload, at + 1, at + UintSize)
           /\ SubSeq(payload, at + 1, at + UintSize) \in Seq(Byte)
<1> DEFINE field == SubSeq(payload, at + 1, at + UintSize)
<1>1. UintSize \in Nat /\ Len(payload) \in Nat
  BY FieldSizes
<1>2. field \in Seq(Byte) /\ Len(field) = UintSize
  <2>1. \A i \in at + 1 .. at + UintSize : payload[i] \in Byte
    BY <1>1
  <2> QED
    BY <1>1, <2>1, SubSeqProperties, SMTT(60)
<1>3. readUint32(payload, at) = FromBigEndian(field)
  BY DEF readUint32
<1> HIDE DEF field
<1>4. FromBigEndian(field) \in Nat /\ BigEndian(FromBigEndian(field), Len(field)) = field
  BY <1>2, BigEndianOfValue
<1> QED
  BY <1>2, <1>3, <1>4 DEF field

\* One turn of the loop that does not throw has read one more argument.
ReadsOne(payload, state, next, arg) ==
    /\ state.offset # -1
    /\ next.argv = Append(state.argv, arg)
    /\ next.offset \in state.offset .. Len(payload)
    /\ SubSeq(payload, 1, next.offset) = SubSeq(payload, 1, state.offset) \o encodeFrame(arg)

LEMMA TurnIsExact ==
    ASSUME NEW payload \in Seq(Byte), NEW state \in LoopStates
    PROVE  LET next == DecodeArgument(payload, state) IN
           /\ next \in LoopStates
           /\ next.offset # -1 => \E arg \in Seq(Byte) : ReadsOne(payload, state, next, arg)
<1> DEFINE next == DecodeArgument(payload, state)
           offset == state.offset
           start == offset + UintSize
           size == readUint32(payload, offset)
           refused == offset = -1 \/ IsTruncated(payload, offset) \/ size > Len(payload) - start
           arg == SubSeq(payload, start + 1, start + size)
<1>1. /\ offset \in Nat \cup {-1} /\ state.argv \in Seq(Seq(Byte))
      /\ UintSize \in Nat /\ Len(payload) \in Nat
  BY FieldSizes DEF LoopStates
<1>2. CASE refused
  <2>1. next = [state EXCEPT !.offset = -1]
    BY <1>2, Zenon DEF DecodeArgument
  <2>2. next \in LoopStates /\ next.offset = -1
    <3> HIDE DEF next
    <3> QED
      BY <2>1 DEF LoopStates
  <2> QED
    BY <2>2
<1>3. CASE ~refused
  <2>1. next = [offset |-> start + size, argv |-> Append(state.argv, arg)]
    BY <1>3, Zenon DEF DecodeArgument
  <2>2. offset \in Nat /\ start <= Len(payload) /\ start \in Nat /\ offset + UintSize = start
    BY <1>1, <1>3 DEF IsTruncated
  <2>3. /\ size \in Nat /\ BigEndian(size, UintSize) = SubSeq(payload, offset + 1, start)
        /\ SubSeq(payload, offset + 1, start) \in Seq(Byte)
    BY <2>2, FieldIsExact
  <2>13. ~(size > Len(payload) - start)
    BY <1>3
  <2>15. size \in Nat /\ Len(payload) \in Nat /\ UintSize \in Nat
    BY <1>1, <2>3
  <2> HIDE DEF size, start, offset
  <2>4. start + size \in Nat /\ start + size <= Len(payload)
    BY <2>2, <2>13, <2>15
  <2>5. arg \in Seq(Byte) /\ Len(arg) = size
    <3>1. \A i \in start + 1 .. start + size : payload[i] \in Byte
      BY <2>2, <2>4, <2>15
    <3> QED
      BY <2>2, <2>4, <2>15, <3>1, SubSeqProperties
  <2>6. encodeFrame(arg) = SubSeq(payload, offset + 1, start) \o arg
    BY <2>3, <2>5, Zenon DEF encodeFrame
  <2>7. SubSeq(payload, offset + 1, start) \o arg = SubSeq(payload, offset + 1, start + size)
    <3>1. /\ offset + 1 \in 1 .. Len(payload) + 1 /\ start \in (offset + 1) - 1 .. Len(payload)
          /\ start + size \in start .. Len(payload)
      BY <2>2, <2>4, <2>15
    <3> QED
      BY <3>1, ConcatAdjacentSubSeq
  <2>8. SubSeq(payload, 1, offset) \o SubSeq(payload, offset + 1, start + size) =
            SubSeq(payload, 1, start + size)
    <3>1. /\ 1 \in 1 .. Len(payload) + 1 /\ offset \in 1 - 1 .. Len(payload)
          /\ start + size \in offset .. Len(payload)
      BY <2>2, <2>4, <2>15
    <3> QED
      BY <3>1, ConcatAdjacentSubSeq
  <2>9. SubSeq(payload, 1, start + size) = SubSeq(payload, 1, offset) \o encodeFrame(arg)
    BY <2>6, <2>7, <2>8, Zenon
  <2>10. Append(state.argv, arg) \in Seq(Seq(Byte))
    BY <1>1, <2>5, AppendProperties
  <2> HIDE DEF next, arg
  <2>11. next.offset = start + size /\ next.argv = Append(state.argv, arg) /\ next \in LoopStates
    BY <2>1, <2>4, <2>10 DEF LoopStates
  <2>12. start + size \in offset .. Len(payload) /\ offset # -1
    BY <2>2, <2>4, <2>15
  <2>14. ReadsOne(payload, state, next, arg)
    BY <2>9, <2>11, <2>12, Zenon DEF ReadsOne, offset
  <2> QED
    BY <2>5, <2>11, <2>14, Zenon DEF next
<1> QED
  BY <1>2, <1>3

\* The loop has states of this form.
LEMMA LoopExists ==
    ASSUME NEW payload \in Seq(Byte), NEW head \in Nat, NEW count \in Nat
    PROVE  \E w \in [0 .. count -> LoopStates] : IsLoop(w, payload, head, count)
<1> DEFINE g == [n \in 1 .. count |-> [x \in LoopStates |-> DecodeArgument(payload, x)]]
<1>1. LoopState(head, <<>>) \in LoopStates
  BY EmptySeq DEF LoopState, LoopStates
<1>2. \A x \in LoopStates : DecodeArgument(payload, x) \in LoopStates
  BY TurnIsExact
<1>3. g \in [1 .. count -> [LoopStates -> LoopStates]]
  BY <1>2, Zenon
<1> HIDE DEF g
<1>4. PICK w \in [0 .. count -> LoopStates] : Iterates(w, LoopState(head, <<>>), g, count)
  BY <1>1, <1>3, IterationExists, Zenon
<1>5. \A n \in 0 .. count : n = 0 \/ (n \in 1 .. count /\ n - 1 \in 0 .. count)
  OBVIOUS
<1>6. \A n \in 0 .. count :
          w[n] = IF n = 0 THEN LoopState(head, <<>>) ELSE DecodeArgument(payload, w[n - 1])
  <2>1. ASSUME NEW n \in 1 .. count, n - 1 \in 0 .. count
        PROVE  w[n] = DecodeArgument(payload, w[n - 1])
    <3>1. w[n] = g[n][w[n - 1]]
      BY <1>4, Zenon DEF Iterates
    <3>2. w[n - 1] \in LoopStates
      BY <2>1, Zenon
    <3> QED
      BY <3>1, <3>2, Zenon DEF g
  <2>2. w[0] = LoopState(head, <<>>)
    BY <1>4, Zenon DEF Iterates
  <2> QED
    BY <1>5, <2>1, <2>2, Zenon
<1>7. w = [n \in 0 .. count |-> w[n]]
  BY Zenon
<1>8. IsLoop(w, payload, head, count)
  BY <1>6, <1>7, Zenon DEF IsLoop
<1> QED
  BY <1>8

\* The loop takes exactly what it has read apart.
LEMMA LoopIsExact ==
    ASSUME NEW payload \in Seq(Byte), NEW head \in 0 .. Len(payload), NEW count \in Nat
    PROVE  LET end == DecodeArguments(payload, head, count) IN
           /\ end \in LoopStates
           /\ end.offset # -1 =>
                 /\ Len(end.argv) = count
                 /\ SubSeq(payload, 1, end.offset) =
                        SubSeq(payload, 1, head) \o EncodeAll(end.argv)
<1> DEFINE front == SubSeq(payload, 1, head)
<1>0. head \in Nat /\ Len(payload) \in Nat /\ front \in Seq(Byte)
  <2>1. head \in Nat /\ Len(payload) \in Nat
    OBVIOUS
  <2> QED
    BY <2>1, Cut
<1>1. PICK w \in [0 .. count -> LoopStates] : IsLoop(w, payload, head, count)
  BY <1>0, LoopExists
<1>2. \A n \in 0 .. count :
          w[n] = IF n = 0 THEN LoopState(head, <<>>) ELSE DecodeArgument(payload, w[n - 1])
  BY <1>1, Zenon DEF IsLoop
<1>3. DecodeArguments(payload, head, count) = w[count]
  BY <1>1, DecodeArgumentsIs
<1> HIDE DEF front
<1> DEFINE good(n) == w[n].offset # -1 =>
                          /\ Len(w[n].argv) = n
                          /\ SubSeq(payload, 1, w[n].offset) = front \o EncodeAll(w[n].argv)
           T == {n \in 0 .. count : ~good(n)}
<1>4. T \in SUBSET Nat
  OBVIOUS
<1>5. good(0)
  <2>1. w[0] = LoopState(head, <<>>)
    BY <1>2, 0 \in 0 .. count, Zenon
  <2>2. w[0].offset = head /\ w[0].argv = <<>>
    BY <2>1 DEF LoopState
  <2>3. SubSeq(payload, 1, head) = front \o <<>>
    BY <1>0, ConcatEmptySeq DEF front
  <2>4. Len(<<>>) = 0
    OBVIOUS
  <2> QED
    BY <2>2, <2>3, <2>4, EncodeAllEmpty, Zenon
<1>6. ASSUME NEW n \in 1 .. count, good(n - 1) PROVE good(n)
  <2>1. n \in 0 .. count /\ n - 1 \in 0 .. count /\ n # 0
    OBVIOUS
  <2>2. w[n] = DecodeArgument(payload, w[n - 1]) /\ w[n - 1] \in LoopStates
    BY <1>2, <2>1, Zenon
  <2>3. CASE w[n].offset = -1
    BY <2>3, Zenon
  <2>4. CASE w[n].offset # -1
    <3>1. PICK arg \in Seq(Byte) : ReadsOne(payload, w[n - 1], w[n], arg)
      <4>1. LET next == DecodeArgument(payload, w[n - 1]) IN
            next.offset # -1 => \E arg \in Seq(Byte) : ReadsOne(payload, w[n - 1], next, arg)
        BY <2>2, TurnIsExact
      <4> QED
        BY <2>2, <2>4, <4>1, Zenon
    <3> DEFINE before == w[n - 1].argv
    <3>2. /\ w[n].argv = Append(before, arg)
          /\ SubSeq(payload, 1, w[n].offset) =
                 SubSeq(payload, 1, w[n - 1].offset) \o encodeFrame(arg)
          /\ w[n - 1].offset # -1
      BY <3>1, Zenon DEF ReadsOne
    <3>3. /\ Len(before) = n - 1
          /\ SubSeq(payload, 1, w[n - 1].offset) = front \o EncodeAll(before)
      BY <1>6, <3>2, Zenon
    <3>4. before \in Seq(Seq(Byte))
      BY <2>2 DEF LoopStates
    <3> HIDE DEF before
    <3>5. Len(Append(before, arg)) = n
      <4>1. Len(Append(before, arg)) = Len(before) + 1
        BY <3>4, AppendProperties
      <4> QED
        BY <3>3, <4>1
    <3>6. /\ EncodeAll(before) \in Seq(Byte) /\ encodeFrame(arg) \in Seq(Byte)
          /\ EncodeAll(Append(before, arg)) = EncodeAll(before) \o encodeFrame(arg)
      BY <3>4, EncodeAllAppend, EncodeFrameType
    <3>7. (front \o EncodeAll(before)) \o encodeFrame(arg) =
              front \o (EncodeAll(before) \o encodeFrame(arg))
      BY <1>0, <3>6, Joined, Zenon
    <3> QED
      BY <3>2, <3>3, <3>5, <3>6, <3>7, Zenon
  <2> QED
    BY <2>3, <2>4
<1>7. ASSUME T # {} PROVE FALSE
  <2>1. PICK m \in T : \A n \in T : m <= n
    BY <1>4, <1>7, LeastNumber, Zenon
  <2>2. m \in 0 .. count /\ ~good(m)
    BY <2>1
  <2> HIDE DEF good
  <2>3. m \in 1 .. count /\ m - 1 \in 0 .. count
    BY <1>5, <2>2
  <2>4. m - 1 \notin T
    BY <2>1, <2>3
  <2> QED
    BY <1>6, <2>2, <2>3, <2>4
<1>8. count \in 0 .. count /\ w[count] \in LoopStates
  OBVIOUS
<1>9. good(count)
  BY <1>7, <1>8, Zenon
<1> QED
  BY <1>3, <1>8, <1>9, Zenon DEF front

(***************************************************************************)
(* A SUBMIT payload is accepted only if it is the encoding of what it is   *)
(* decoded to: no argument is torn, nothing hides behind the last one.     *)
(***************************************************************************)
THEOREM SubmitsAreExact ==
    ASSUME NEW payload \in Seq(Byte), decodeSubmitRequest(payload).ok
    PROVE  /\ decodeSubmitRequest(payload).value \in JobSpec
           /\ SubmitPayload(decodeSubmitRequest(payload).value) = payload
<1> DEFINE head == 1 + 2 * UintSize
           t == readUint32(payload, 1)
           k == readUint32(payload, 1 + UintSize)
           end == DecodeArguments(payload, head, k)
           spec == [argv |-> end.argv, timeout |-> IF t = 0 THEN NoTimeout ELSE t]
           front == SubSeq(payload, 1, head)
<1>1. /\ isSubmitRequest(payload) /\ ~(Len(payload) < head) /\ end.offset = Len(payload)
      /\ decodeSubmitRequest(payload).value = spec
  BY Zenon DEF decodeSubmitRequest, Accept, Reject
<1>2. UintSize \in Nat /\ Len(payload) \in Nat
  BY FieldSizes
<1>3. /\ head \in 0 .. Len(payload) /\ head \in Nat
      /\ 1 + UintSize <= Len(payload) /\ (1 + UintSize) + UintSize = head
      /\ (1 + UintSize) + UintSize <= Len(payload) /\ 1 + UintSize \in Nat
  BY <1>1, <1>2
<1>4. t \in Nat /\ BigEndian(t, UintSize) = SubSeq(payload, 1 + 1, 1 + UintSize)
  BY <1>3, FieldIsExact
<1>5. /\ k \in Nat
      /\ BigEndian(k, UintSize) = SubSeq(payload, (1 + UintSize) + 1, (1 + UintSize) + UintSize)
  BY <1>3, FieldIsExact
<1> HIDE DEF t, k, head
<1>6. /\ end \in LoopStates
      /\ end.offset # -1 => /\ Len(end.argv) = k
                            /\ SubSeq(payload, 1, end.offset) = front \o EncodeAll(end.argv)
  BY <1>3, <1>5, LoopIsExact
<1> HIDE DEF end
<1>7. end.argv \in Seq(Seq(Byte)) /\ Len(end.argv) = k /\ payload = front \o EncodeAll(end.argv)
  <2>1. end.offset # -1 /\ SubSeq(payload, 1, Len(payload)) = payload
    BY <1>1, <1>2, SubSeqFull
  <2>2. end.argv \in Seq(Seq(Byte))
    BY <1>6 DEF LoopStates
  <2> QED
    BY <1>1, <1>6, <2>1, <2>2, Zenon
<1>8. front = SubmitFront(t, k)
  <2>1. payload # <<>> /\ payload[1] = kSubmitCommand
    BY <1>1, Zenon DEF isSubmitRequest, StartsWith
  <2>2. SubSeq(payload, 1, 1) = <<kSubmitCommand>>
    <3>1. Len(payload) >= 1
      BY <1>2, <2>1
    <3>2. SubSeq(payload, 1, 1) = <<payload[1]>>
      <4> DEFINE u == SubSeq(payload, 1, 1)
      <4>1. /\ u \in Seq(Byte) /\ Len(u) = 1 /\ u[1] = payload[1]
        BY <3>1
      <4>2. /\ <<payload[1]>> \in Seq(Byte) /\ Len(<<payload[1]>>) = 1
            /\ <<payload[1]>>[1] = payload[1]
        BY <3>1
      <4> HIDE DEF u
      <4>3. u = <<payload[1]>>
        BY <4>1, <4>2, SeqEqual
      <4> QED
        BY <4>3 DEF u
    <3> QED
      BY <2>1, <3>2
  <2>3. SubSeq(payload, 1, 1) \o SubSeq(payload, 1 + 1, 1 + UintSize) =
            SubSeq(payload, 1, 1 + UintSize)
    <3>1. 1 \in 1 .. Len(payload) + 1 /\ 1 \in 1 - 1 .. Len(payload)
          /\ 1 + UintSize \in 1 .. Len(payload)
      BY <1>2, <1>3
    <3> QED
      BY <3>1, ConcatAdjacentSubSeq
  <2>4. SubSeq(payload, 1, 1 + UintSize) \o SubSeq(payload, (1 + UintSize) + 1, head) = front
    <3>1. 1 \in 1 .. Len(payload) + 1 /\ 1 + UintSize \in 1 - 1 .. Len(payload)
          /\ head \in 1 + UintSize .. Len(payload)
      BY <1>2, <1>3
    <3> QED
      BY <3>1, ConcatAdjacentSubSeq
  <2> QED
    BY <1>3, <1>4, <1>5, <2>2, <2>3, <2>4, Zenon DEF SubmitFront
<1>9. spec \in JobSpec
  BY <1>4, <1>7 DEF JobSpec
<1>10. spec.argv = end.argv /\ TimeoutField(spec) = t
  BY <1>4 DEF TimeoutField, NoTimeout
<1> HIDE DEF spec, front
<1>11. SubmitPayload(spec) = SubmitFront(t, k) \o EncodeAll(end.argv)
  BY <1>7, <1>10, SubmitPayloadIs, Zenon
<1> QED
  BY <1>1, <1>7, <1>8, <1>9, <1>11, Zenon
=============================================================================
