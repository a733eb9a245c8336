--------------------------- MODULE Ingress_proofs ---------------------------
(***************************************************************************)
(* Theorems about the codec, for every sequence of bytes, and about one    *)
(* connection, for every configuration file and every stream of bytes.     *)
(***************************************************************************)
EXTENDS Ingress, SequenceTheorems, WellFoundedInduction, TLAPS

\* The units by value.
LEMMA UnitValues ==
    Unit[1] = 1 /\ Unit[2] = 128 /\ Unit[3] = 16384 /\ Unit[4] = 2097152 /\ Unit[5] = 268435456
BY DEF Unit

\* A byte is an integer of 0 to 255.
LEMMA BytesAreInts ==
    ASSUME NEW b \in Byte
    PROVE  b \in Nat /\ b < 256
BY SMT DEF Byte

\* A number is what it counts in units of 128, of 128 * 128, and so on.
LEMMA Digits ==
    ASSUME NEW v \in Int
    PROVE  /\ v = (v % 128) + 128 * (v \div 128)
           /\ v \div 128 = ((v \div 128) % 128) + 128 * (v \div 16384)
           /\ v \div 16384 = ((v \div 16384) % 128) + 128 * (v \div 2097152)
           /\ v \div 2097152 = ((v \div 2097152) % 128) + 128 * (v \div 268435456)
           /\ v % 128 \in 0..127 /\ (v \div 128) % 128 \in 0..127
           /\ (v \div 16384) % 128 \in 0..127 /\ (v \div 2097152) % 128 \in 0..127
           /\ v \div 128 \in Int /\ v \div 16384 \in Int
           /\ v \div 2097152 \in Int /\ v \div 268435456 \in Int
BY SMT

\* The fifth byte holds the sign.
LEMMA TopDigit ==
    ASSUME NEW v \in Int32
    PROVE  /\ (v \div 268435456) % 16 \in 0..15
           /\ Top((v \div 268435456) % 16) = v \div 268435456
<1>1. v \in Int /\ -2147483648 <= v /\ v <= 2147483647
  BY SMT DEF Int32
<1> DEFINE q == v \div 268435456
<1>2. q \in Int /\ -8 <= q /\ q <= 7
  BY <1>1, SMT
<1> HIDE DEF q
<1>3. /\ q % 16 \in 0..15
      /\ q < 0 => q % 16 = q + 16
      /\ q >= 0 => q % 16 = q
  BY <1>2
<1>4. Top(q % 16) = q
  BY <1>2, <1>3, SMT DEF Top
<1> QED BY <1>3, <1>4, SMT DEF q

\* Where the first byte without the continuation bit stands, a read ends.
LEMMA ReadsAt ==
    ASSUME NEW s \in Seq(Byte), NEW n \in 1..5, EndsAt(s, n)
    PROVE  ReadVarInt(s) = [err |-> "none", value |-> VarIntValue(s, n), size |-> n]
<1>1. ASSUME NEW k \in 1..5, EndsAt(s, k)
      PROVE  k = n
  <2>1. s[n] < 128 /\ s[k] < 128
    BY <1>1 DEF EndsAt
  <2>2. CASE k < n
    <3>1. k \in 1..(n - 1) BY <2>2
    <3>2. s[k] >= 128 BY <3>1 DEF EndsAt
    <3>3. s[k] \in Int BY <1>1, BytesAreInts DEF EndsAt
    <3> QED BY <2>1, <3>2, <3>3
  <2>3. CASE n < k
    <3>1. n \in 1..(k - 1) BY <2>3
    <3>2. s[n] >= 128 BY <3>1, <1>1 DEF EndsAt
    <3>3. s[n] \in Int BY BytesAreInts DEF EndsAt
    <3> QED BY <2>1, <3>2, <3>3
  <2> QED BY <2>2, <2>3
<1>2. n = CHOOSE k \in 1..MaxVarIntBytes : EndsAt(s, k)
  BY <1>1 DEF MaxVarIntBytes
<1> QED BY <1>2 DEF ReadVarInt, MaxVarIntBytes

-----------------------------------------------------------------------------
\* How many bytes a number takes bounds the number.
LEMMA Sizes ==
    ASSUME NEW v \in Int32
    PROVE  /\ VarIntSize(v) \in 1..5
           /\ VarIntSize(v) = 1 => v >= 0 /\ v < 128
           /\ VarIntSize(v) = 2 => v >= 0 /\ v < 16384
           /\ VarIntSize(v) = 3 => v >= 0 /\ v < 2097152
           /\ VarIntSize(v) = 4 => v >= 0 /\ v < 268435456
BY UnitValues, SMT DEF VarIntSize, Int32

\* A digit is a seven-bit group, the top one with what sign the number has.
LEMMA DigitRange ==
    ASSUME NEW v \in Int32, NEW i \in 1..5
    PROVE  Digit(v, i) \in Nat /\ Digit(v, i) < 128
<1>1. v \in Int BY SMT DEF Int32
<1>2. CASE i = 5
  <2>1. Digit(v, i) = (v \div 268435456) % 16 BY <1>2, UnitValues, SMT DEF Digit
  <2> QED BY <2>1, TopDigit, SMT
<1>3. CASE i = 1
  <2>1. Digit(v, i) = v % 128 BY <1>1, <1>3, UnitValues, SMT DEF Digit
  <2> QED BY <1>1, <2>1, Digits, SMT
<1>4. CASE i = 2
  <2>1. Digit(v, i) = (v \div 128) % 128 BY <1>4, UnitValues, SMT DEF Digit
  <2> QED BY <1>1, <2>1, Digits, SMT
<1>5. CASE i = 3
  <2>1. Digit(v, i) = (v \div 16384) % 128 BY <1>5, UnitValues, SMT DEF Digit
  <2> QED BY <1>1, <2>1, Digits, SMT
<1>6. CASE i = 4
  <2>1. Digit(v, i) = (v \div 2097152) % 128 BY <1>6, UnitValues, SMT DEF Digit
  <2> QED BY <1>1, <2>1, Digits, SMT
<1> QED BY <1>2, <1>3, <1>4, <1>5, <1>6, SMT

\* What EncodeVarInt writes are bytes, one for each group, with continuation bits.
LEMMA EncodedBytes ==
    ASSUME NEW v \in Int32
    PROVE  /\ EncodeVarInt(v) \in Seq(Byte)
           /\ Len(EncodeVarInt(v)) = VarIntSize(v)
           /\ \A i \in 1..VarIntSize(v) :
                 EncodeVarInt(v)[i] = Digit(v, i) + (IF i < VarIntSize(v) THEN 128 ELSE 0)
<1> DEFINE n == VarIntSize(v)
           f(i) == Digit(v, i) + (IF i < n THEN 128 ELSE 0)
<1>1. n \in 1..5 BY Sizes, SMT
<1>2. ASSUME NEW i \in 1..n PROVE f(i) \in Byte
  <2>1. i \in 1..5 BY <1>1, SMT
  <2>2. Digit(v, i) \in Nat /\ Digit(v, i) < 128 BY <2>1, DigitRange
  <2>3. f(i) \in Nat /\ f(i) < 256 BY <2>2, SMT
  <2> QED BY <2>3, SMT DEF Byte
<1>3. EncodeVarInt(v) = [i \in 1..n |-> f(i)] BY DEF EncodeVarInt
<1> HIDE DEF n, f
<1>4. EncodeVarInt(v) \in Seq(Byte) /\ Len(EncodeVarInt(v)) = n
  BY <1>1, <1>2, <1>3, SMT
<1>5. \A i \in 1..n : EncodeVarInt(v)[i] = f(i)
  BY <1>3
<1> QED BY <1>4, <1>5 DEF n, f

\* Units of 128, put together one after another, are a sum.
LEMMA Compose ==
    ASSUME NEW v \in Int, NEW a \in Int, NEW b \in Int, NEW c \in Int, NEW d \in Int,
           NEW p \in Int, NEW q \in Int, NEW r \in Int, NEW e \in Int,
           v = a + 128 * p, p = b + 128 * q, q = c + 128 * r, r = d + 128 * e
    PROVE  v = a + 128 * b + 16384 * c + 2097152 * d + 268435456 * e
BY SMTT(30)

LEMMA LastDigit ==
    ASSUME NEW v \in Int
    PROVE  v % 128 \in Int /\ v \div 128 \in Int
BY SMTT(30)

Weigh(a, b, c, d, e) == a + 128 * b + 16384 * c + 2097152 * d + 268435456 * e

\* What is left of a number above four groups.
Upper(v) == v \div 268435456

\* A number is the sum of its groups.
LEMMA SumOfDigits ==
    ASSUME NEW v \in Int
    PROVE  v = Weigh(Digit(v, 1), Digit(v, 2), Digit(v, 3), Digit(v, 4), Upper(v))
<1> DEFINE p == v \div 128
           q == v \div 16384
           r == v \div 2097152
           e == Upper(v)
           a == v % 128
           b == p % 128
           c == q % 128
           d == r % 128
<1>1. p \in Int /\ q \in Int /\ r \in Int /\ e \in Int
  BY Digits, SMTT(30) DEF Upper
<1>2. v = a + 128 * p /\ p = b + 128 * q /\ q = c + 128 * r /\ r = d + 128 * e
  BY Digits, SMTT(30) DEF Upper
<1>3. Digit(v, 1) = a /\ Digit(v, 2) = b /\ Digit(v, 3) = c /\ Digit(v, 4) = d
  BY UnitValues, SMTT(30) DEF Digit
<1> HIDE DEF p, q, r, e
<1>4. a \in Int /\ b \in Int /\ c \in Int /\ d \in Int
  BY <1>1, LastDigit, SMTT(30)
<1> HIDE DEF a, b, c, d
<1>5. v = a + 128 * b + 16384 * c + 2097152 * d + 268435456 * e
  BY <1>1, <1>2, <1>4, Compose, SMTT(30)
<1>6. v = Weigh(a, b, c, d, e)
  BY <1>5, SMTT(30) DEF Weigh
<1> QED BY <1>3, <1>6 DEF e

\* What is decoded where an encoding stands.
LEMMA GroupValues ==
    ASSUME NEW v \in Int32, NEW s \in Seq(Byte),
           \A i \in 1..VarIntSize(v) : s[i] = EncodeVarInt(v)[i]
    PROVE  VarIntValue(s, VarIntSize(v)) = v
<1> DEFINE n == VarIntSize(v)
<1>1. n \in 1..5 BY Sizes, SMT
<1>2. v \in Int BY SMT DEF Int32
<1>3. ASSUME NEW i \in 1..n
      PROVE  s[i] = Digit(v, i) + (IF i < n THEN 128 ELSE 0)
  BY <1>3, EncodedBytes
<1>4. ASSUME NEW i \in 1..4, i <= n
      PROVE  Group(s, n, i) = Digit(v, i)
  <2>1. Digit(v, i) \in Nat /\ Digit(v, i) < 128 BY <1>4, DigitRange, SMT
  <2>2. s[i] = Digit(v, i) + (IF i < n THEN 128 ELSE 0) BY <1>1, <1>3, <1>4, SMT
  <2>3. s[i] % 128 = Digit(v, i) BY <2>1, <2>2, SMT
  <2> QED BY <1>1, <1>4, <2>3, SMT DEF Group
<1>5. ASSUME n = 5
      PROVE  Group(s, n, 5) = v \div 268435456
  <2>1. s[5] = Digit(v, 5) BY <1>3, <1>5, DigitRange, SMT
  <2>2. Digit(v, 5) = (v \div 268435456) % 16 BY UnitValues, SMT DEF Digit
  <2>3. Group(s, n, 5) = Top(s[5]) BY <1>5, SMT DEF Group
  <2> QED BY <2>1, <2>2, <2>3, TopDigit
<1>6. \A i \in 1..5 : i > n => Group(s, n, i) = 0
  BY <1>1, SMT DEF Group
<1>7. /\ Digit(v, 1) = v % 128
      /\ Digit(v, 2) = (v \div 128) % 128
      /\ Digit(v, 3) = (v \div 16384) % 128
      /\ Digit(v, 4) = (v \div 2097152) % 128
  BY <1>2, UnitValues, SMT DEF Digit
<1> DEFINE g(i) == Group(s, n, i)
<1>8. VarIntValue(s, n)
        = g(1) + 128 * g(2) + 16384 * g(3) + 2097152 * g(4) + 268435456 * g(5)
  <2>1. \A i \in 1..5 : g(i) \in Int
    <3>1. \A i \in 1..4 : i <= n => g(i) \in Int
      BY <1>4, DigitRange, SMT
    <3>2. n = 5 => g(5) \in Int BY <1>2, <1>5, Digits, SMT
    <3> QED BY <1>1, <1>6, <3>1, <3>2, SMT
  <2> HIDE DEF g
  <2>2. VarIntValue(s, n) = g(1) * Unit[1] + g(2) * Unit[2] + g(3) * Unit[3]
                              + g(4) * Unit[4] + g(5) * Unit[5]
    BY DEF VarIntValue, g
  <2> QED BY <2>1, <2>2, UnitValues, SMT
<1> HIDE DEF n
<1>0. /\ v = (v % 128) + 128 * (v \div 128)
      /\ v \div 128 = ((v \div 128) % 128) + 128 * (v \div 16384)
      /\ v \div 16384 = ((v \div 16384) % 128) + 128 * (v \div 2097152)
      /\ v \div 2097152 = ((v \div 2097152) % 128) + 128 * (v \div 268435456)
  BY <1>2, Digits, SMT
<1>9. CASE n = 1
  <2>1. v >= 0 /\ v < 128 BY <1>9, Sizes DEF n
  <2>2. g(1) = v % 128 /\ g(2) = 0 /\ g(3) = 0 /\ g(4) = 0 /\ g(5) = 0
    BY <1>4, <1>6, <1>7, <1>9, SMT
  <2> QED BY <1>2, <1>8, <2>1, <2>2, SMT DEF n
<1>10. CASE n = 2
  <2>1. v >= 0 /\ v < 16384 BY <1>10, Sizes DEF n
  <2>2. g(1) = v % 128 /\ g(2) = (v \div 128) % 128 /\ g(3) = 0 /\ g(4) = 0 /\ g(5) = 0
    BY <1>4, <1>6, <1>7, <1>10, SMT
  <2> QED BY <1>2, <1>8, <2>1, <2>2, SMT DEF n
<1>11. CASE n = 3
  <2>1. v >= 0 /\ v < 2097152 BY <1>11, Sizes DEF n
  <2>2. /\ g(1) = v % 128 /\ g(2) = (v \div 128) % 128 /\ g(3) = (v \div 16384) % 128
        /\ g(4) = 0 /\ g(5) = 0
    BY <1>4, <1>6, <1>7, <1>11, SMT
  <2>3. v \div 2097152 = 0 BY <1>2, <2>1, SMT
  <2>4. VarIntValue(s, n) = v BY <1>0, <1>2, <1>8, <2>2, <2>3, SMT
  <2> QED BY <2>4 DEF n
<1>12. CASE n = 4
  <2>1. v >= 0 /\ v < 268435456 BY <1>12, Sizes DEF n
  <2>2. /\ g(1) = v % 128 /\ g(2) = (v \div 128) % 128 /\ g(3) = (v \div 16384) % 128
        /\ g(4) = (v \div 2097152) % 128 /\ g(5) = 0
    BY <1>4, <1>6, <1>7, <1>12, SMT
  <2>3. v \div 268435456 = 0 BY <1>2, <2>1, SMT
  <2>4. VarIntValue(s, n) = v BY <1>0, <1>2, <1>8, <2>2, <2>3, SMT
  <2> QED BY <2>4 DEF n
<1>13. CASE n = 5
  <2>1. g(1) = Digit(v, 1) /\ g(2) = Digit(v, 2) /\ g(3) = Digit(v, 3) /\ g(4) = Digit(v, 4)
    BY <1>4, <1>13, SMTT(30)
  <2>2. g(5) = Upper(v)
    BY <1>5, <1>13, SMTT(30) DEF Upper
  <2> HIDE DEF g
  <2>3. VarIntValue(s, n) = Weigh(g(1), g(2), g(3), g(4), g(5))
    BY <1>8, SMTT(30) DEF Weigh
  <2>4. VarIntValue(s, n) = v
    BY <1>2, <2>1, <2>2, <2>3, SumOfDigits
  <2> QED BY <2>4 DEF n
<1> QED BY <1>1, <1>9, <1>10, <1>11, <1>12, <1>13, SMT DEF n

\* A number that is written and read again is the same, whatever follows it, and
\* exactly its bytes are read: negative numbers take five bytes and come back.
THEOREM VarIntRoundTrip ==
    ASSUME NEW v \in Int32, NEW rest \in Seq(Byte)
    PROVE  ReadVarInt(EncodeVarInt(v) \o rest)
             = [err |-> "none", value |-> v, size |-> VarIntSize(v)]
<1> DEFINE n == VarIntSize(v)
           e == EncodeVarInt(v)
           s == e \o rest
<1>1. n \in 1..5 BY Sizes, SMT
<1>2. e \in Seq(Byte) /\ Len(e) = n BY EncodedBytes
<1>3. s \in Seq(Byte) /\ Len(s) = n + Len(rest) /\ \A i \in 1..n : s[i] = e[i]
  BY <1>1, <1>2, SMT
<1>4. \A i \in 1..n : s[i] = Digit(v, i) + (IF i < n THEN 128 ELSE 0)
  BY <1>3, EncodedBytes
<1> HIDE DEF e, s
<1>5. EndsAt(s, n)
  <2>1. \A i \in 1..n : Digit(v, i) \in Nat /\ Digit(v, i) < 128
    BY <1>1, DigitRange, SMT
  <2>2. n <= Len(s) BY <1>1, <1>3, SMT
  <2>3. s[n] < 128 BY <1>1, <1>4, <2>1, SMT
  <2>4. \A i \in 1..(n - 1) : s[i] >= 128 BY <1>1, <1>4, <2>1, SMT
  <2> QED BY <2>2, <2>3, <2>4 DEF EndsAt
<1>6. VarIntValue(s, n) = v BY <1>3, GroupValues DEF e
<1> HIDE DEF n
<1>7. ReadVarInt(s) = [err |-> "none", value |-> v, size |-> n]
  BY <1>1, <1>3, <1>5, <1>6, ReadsAt
<1> QED BY <1>7 DEF s, e, n

-----------------------------------------------------------------------------
\* Four groups of seven bits and the signed top group make a number of 32 bits.
LEMMA Weights ==
    ASSUME NEW a \in Int, NEW b \in Int, NEW c \in Int, NEW d \in Int, NEW e \in Int,
           0 <= a, a <= 127, 0 <= b, b <= 127, 0 <= c, c <= 127, 0 <= d, d <= 127,
           -8 <= e, e <= 7
    PROVE  Weigh(a, b, c, d, e) \in Int32
BY SMT DEF Int32, Weigh

\* A number that has been read ends within five bytes, of those there are.
LEMMA ReadEnds ==
    ASSUME NEW s \in Seq(Byte), ReadVarInt(s).err = "none"
    PROVE  \E n \in 1..5 :
              /\ EndsAt(s, n) /\ n <= Len(s)
              /\ ReadVarInt(s) = [err |-> "none", value |-> VarIntValue(s, n), size |-> n]
<1>1. PICK n \in 1..5 : EndsAt(s, n)
  <2>1. SUFFICES ASSUME ~ \E n \in 1..MaxVarIntBytes : EndsAt(s, n) PROVE FALSE
    BY SMT DEF MaxVarIntBytes
  <2>2. ReadVarInt(s) \in {[err |-> "long", value |-> 0, size |-> MaxVarIntBytes + 1],
                           [err |-> "eof", value |-> 0, size |-> Len(s)]}
    BY <2>1 DEF ReadVarInt
  <2> QED BY <2>2
<1>2. n <= Len(s)
  BY <1>1 DEF EndsAt
<1> QED BY <1>1, <1>2, ReadsAt

\* What the groups of a number that has been read are, and that it is their sum.
LEMMA GroupRange ==
    ASSUME NEW s \in Seq(Byte), NEW n \in 1..5, n <= Len(s)
    PROVE  /\ \A i \in 1..4 : /\ Group(s, n, i) \in Int
                              /\ 0 <= Group(s, n, i) /\ Group(s, n, i) <= 127
           /\ Group(s, n, 5) \in Int /\ -8 <= Group(s, n, 5) /\ Group(s, n, 5) <= 7
           /\ \A i \in 1..5 : i > n => Group(s, n, i) = 0
           /\ VarIntValue(s, n) = Weigh(Group(s, n, 1), Group(s, n, 2), Group(s, n, 3),
                                        Group(s, n, 4), Group(s, n, 5))
<1> DEFINE g(i) == Group(s, n, i)
<1>1. \A i \in 1..5 : i > n => g(i) = 0
  BY DEF Group
<1>2. ASSUME NEW i \in 1..4 PROVE g(i) \in Int /\ 0 <= g(i) /\ g(i) <= 127
  <2>1. CASE i > n
    <3>1. g(i) = 0 BY <2>1, <1>2, SMT DEF Group
    <3> QED BY <3>1, SMT
  <2>2. CASE i <= n
    <3>1. s[i] \in Nat BY <1>2, <2>2, BytesAreInts, SMT
    <3>2. g(i) = s[i] % 128 BY <1>2, <2>2, SMT DEF Group
    <3> HIDE DEF g
    <3> QED BY <3>1, <3>2, SMT
  <2> QED BY <2>1, <2>2, SMT
<1>3. g(5) \in Int /\ -8 <= g(5) /\ g(5) <= 7
  <2>1. CASE n < 5 BY <2>1, SMT DEF Group
  <2>2. CASE n = 5
    <3>1. s[5] \in Nat BY <2>2, BytesAreInts, SMT
    <3>2. g(5) = Top(s[5]) BY <2>2, SMT DEF Group
    <3> QED BY <3>1, <3>2, SMT DEF Top
  <2> QED BY <2>1, <2>2, SMT
<1>4. VarIntValue(s, n) = g(1) * Unit[1] + g(2) * Unit[2] + g(3) * Unit[3]
                            + g(4) * Unit[4] + g(5) * Unit[5]
  BY DEF VarIntValue
<1>5. /\ g(1) \in Int /\ 0 <= g(1) /\ g(1) <= 127
      /\ g(2) \in Int /\ 0 <= g(2) /\ g(2) <= 127
      /\ g(3) \in Int /\ 0 <= g(3) /\ g(3) <= 127
      /\ g(4) \in Int /\ 0 <= g(4) /\ g(4) <= 127
  BY <1>2
<1> HIDE DEF g
<1>6. VarIntValue(s, n) = g(1) * 1 + g(2) * 128 + g(3) * 16384 + g(4) * 2097152
                              + g(5) * 268435456
  BY <1>4, UnitValues, SMT
<1>7. VarIntValue(s, n) = Weigh(g(1), g(2), g(3), g(4), g(5))
  BY <1>3, <1>5, <1>6, SMT DEF Weigh
<1> QED BY <1>1, <1>2, <1>3, <1>7 DEF g

\* What is read is a number of 32 bits, from no more bytes than there are.
LEMMA ReadRange ==
    ASSUME NEW s \in Seq(Byte), ReadVarInt(s).err = "none"
    PROVE  /\ ReadVarInt(s).size \in 1..5
           /\ ReadVarInt(s).size <= Len(s)
           /\ ReadVarInt(s).value \in Int32
<1>1. PICK n \in 1..5 :
        /\ n <= Len(s)
        /\ ReadVarInt(s) = [err |-> "none", value |-> VarIntValue(s, n), size |-> n]
  BY ReadEnds
<1> DEFINE g(i) == Group(s, n, i)
<1>2. /\ \A i \in 1..4 : g(i) \in Int /\ 0 <= g(i) /\ g(i) <= 127
      /\ g(5) \in Int /\ -8 <= g(5) /\ g(5) <= 7
      /\ VarIntValue(s, n) = Weigh(g(1), g(2), g(3), g(4), g(5))
  BY <1>1, GroupRange
<1> HIDE DEF g
<1>3. /\ g(1) \in Int /\ 0 <= g(1) /\ g(1) <= 127
      /\ g(2) \in Int /\ 0 <= g(2) /\ g(2) <= 127
      /\ g(3) \in Int /\ 0 <= g(3) /\ g(3) <= 127
      /\ g(4) \in Int /\ 0 <= g(4) /\ g(4) <= 127
  BY <1>2
<1>4. g(5) \in Int /\ -8 <= g(5) /\ g(5) <= 7
  BY <1>2
<1>5. Weigh(g(1), g(2), g(3), g(4), g(5)) \in Int32
  BY <1>3, <1>4, Weights
<1>6. VarIntValue(s, n) \in Int32
  BY <1>2, <1>5, Zenon
<1> QED BY <1>1, <1>6, SMT

\* A sequence cut at a place is its two parts.
LEMMA Splits ==
    ASSUME NEW S, NEW s \in Seq(S), NEW n \in 0..Len(s)
    PROVE  /\ SubSeq(s, 1, n) \in Seq(S) /\ Len(SubSeq(s, 1, n)) = n
           /\ \A i \in 1..n : SubSeq(s, 1, n)[i] = s[i]
           /\ From(s, n + 1) \in Seq(S) /\ Len(From(s, n + 1)) = Len(s) - n
           /\ \A i \in 1..(Len(s) - n) : From(s, n + 1)[i] = s[n + i]
           /\ SubSeq(s, 1, n) \o From(s, n + 1) = s
<1>1. Len(s) \in Nat /\ n \in Nat /\ n <= Len(s) BY SMT
<1>2. \A i \in 1..Len(s) : s[i] \in S BY ElementOfSeq
<1>3. /\ SubSeq(s, 1, n) \in Seq(S) /\ Len(SubSeq(s, 1, n)) = n
      /\ \A i \in 1..n : SubSeq(s, 1, n)[i] = s[i]
  BY <1>1, <1>2, SubSeqProperties, SMT
<1>4. /\ From(s, n + 1) \in Seq(S) /\ Len(From(s, n + 1)) = Len(s) - n
      /\ \A i \in 1..(Len(s) - n) : From(s, n + 1)[i] = s[n + i]
  BY <1>1, <1>2, SubSeqProperties, SMT DEF From
<1>5. SubSeq(s, 1, n) \o From(s, n + 1) = SubSeq(s, 1, Len(s))
  <2>1. 1 \in 1..(Len(s) + 1) /\ n \in (1 - 1)..Len(s) /\ Len(s) \in n..Len(s)
    BY <1>1, SMT
  <2> QED BY <2>1, ConcatAdjacentSubSeq DEF From
<1>6. SubSeq(s, 1, Len(s)) = s BY SubSeqFull
<1> QED BY <1>3, <1>4, <1>5, <1>6

\* Two cuts are one at the place of the second.
LEMMA CutTwice ==
    ASSUME NEW S, NEW s \in Seq(S), NEW n \in 0..Len(s), NEW k \in 0..(Len(s) - n)
    PROVE  SubSeq(s, 1, n) \o SubSeq(From(s, n + 1), 1, k) = SubSeq(s, 1, n + k)
<1>1. n \in Nat /\ k \in Nat /\ Len(s) \in Nat /\ n + k \in n..Len(s) BY SMT
<1>2. SubSeq(From(s, n + 1), 1, k) = SubSeq(s, n + 1, n + k)
  <2>1. CASE k = 0 BY <1>1, <2>1, SubSeqEmpty, SMT
  <2>2. CASE k > 0
    <3>1. From(s, n + 1) \in Seq(S) BY Splits
    <3>2. n + 1 \in 1..Len(s) /\ Len(s) \in 1..Len(s)
          /\ 1 \in 1..(Len(s) - (n + 1) + 1) /\ k \in 1..(Len(s) - (n + 1) + 1)
      BY <1>1, <2>2, SMT
    <3>3. SubSeq(SubSeq(s, n + 1, Len(s)), 1, k) = SubSeq(s, n + 1 + 1 - 1, n + 1 + k - 1)
      BY <3>2, SubSeqOfSubSeq
    <3> QED BY <1>1, <3>3, SMT DEF From
  <2> QED BY <1>1, <2>1, <2>2, SMT
<1>3. SubSeq(s, 1, n) \o SubSeq(s, n + 1, n + k) = SubSeq(s, 1, n + k)
  <2>1. 1 \in 1..(Len(s) + 1) /\ n \in (1 - 1)..Len(s) BY <1>1, SMT
  <2> QED BY <1>1, <2>1, ConcatAdjacentSubSeq
<1> QED BY <1>2, <1>3

\* A packet that has been read is what came, byte for byte, and what comes after
\* it is still there: the bytes kept for the backend and the bytes not read are the
\* stream.  They are no more than the limit and the five bytes of the length.
THEOREM PacketsAreVerbatim ==
    ASSUME NEW s \in Seq(Byte), NEW max \in Int, ReadPacket(s, max).err = "none"
    PROVE  /\ ReadPacket(s, max).raw \in Seq(Byte)
           /\ ReadPacket(s, max).size \in 0..Len(s)
           /\ Len(ReadPacket(s, max).raw) = ReadPacket(s, max).size
           /\ ReadPacket(s, max).size <= max + MaxVarIntBytes
           /\ ReadPacket(s, max).raw \o From(s, ReadPacket(s, max).size + 1) = s
<1> DEFINE length  == ReadVarInt(s)
           rest    == From(s, length.size + 1)
           payload == SubSeq(rest, 1, length.value)
           id      == ReadVarInt(payload)
           n       == length.size + length.value
<1>1. /\ length.err = "none" /\ CheckPacketLength(length.value, max)
      /\ ~(length.value > Len(rest)) /\ id.err = "none"
      /\ ReadPacket(s, max).raw = Raw(s, length, payload)
      /\ ReadPacket(s, max).size = n
  <2>1. length.err = "none" BY Zenon DEF ReadPacket, Failed
  <2>2. CheckPacketLength(length.value, max) BY <2>1, SMT DEF ReadPacket, Failed
  <2>3. ~(length.value > Len(rest)) BY <2>1, <2>2, SMT DEF ReadPacket, Failed
  <2>4. id.err = "none" BY <2>1, <2>2, <2>3, Zenon DEF ReadPacket, Failed
  <2> QED BY <2>1, <2>2, <2>3, <2>4, Zenon DEF ReadPacket
<1>2. /\ length.size \in 1..5 /\ length.size <= Len(s) /\ length.value \in Int
      /\ 0 <= length.value /\ length.value <= max
  BY <1>1, ReadRange, SMT DEF CheckPacketLength, Int32
<1> HIDE DEF length
<1>3. length.size \in 0..Len(s) BY <1>2, SMT
<1>4. Len(rest) = Len(s) - length.size BY <1>3, Splits
<1>5. length.value \in 0..(Len(s) - length.size) BY <1>1, <1>2, <1>4, SMT
<1>6. ReadPacket(s, max).raw = SubSeq(s, 1, n)
  BY <1>1, <1>3, <1>5, CutTwice DEF Raw
<1>7. n \in 0..Len(s) /\ n <= max + MaxVarIntBytes
  BY <1>2, <1>5, SMT DEF MaxVarIntBytes
<1> HIDE DEF n
<1>8. /\ SubSeq(s, 1, n) \in Seq(Byte) /\ Len(SubSeq(s, 1, n)) = n
      /\ SubSeq(s, 1, n) \o From(s, n + 1) = s
  BY <1>7, Splits
<1>9. ReadPacket(s, max).raw = SubSeq(s, 1, n) /\ ReadPacket(s, max).size = n
  BY <1>1, <1>6
<1> QED BY <1>7, <1>8, <1>9, Zenon

-----------------------------------------------------------------------------
Bytes == Seq(Byte)

\* Bytes after bytes are bytes.
LEMMA Closed ==
    ASSUME NEW a \in Bytes, NEW b \in Bytes
    PROVE  a \o b \in Bytes
BY ConcatProperties DEF Bytes

\* The order in which pieces are joined does not matter.
LEMMA Associative ==
    ASSUME NEW a \in Bytes, NEW b \in Bytes, NEW c \in Bytes
    PROVE  (a \o b) \o c = a \o (b \o c)
BY ConcatAssociative DEF Bytes

\* The front of a sequence is not changed by what follows, and what follows is
\* left behind it.
LEMMA Fronts ==
    ASSUME NEW S, NEW s \in Seq(S), NEW t \in Seq(S), NEW n \in 0..Len(s)
    PROVE  /\ s \o t \in Seq(S) /\ Len(s \o t) = Len(s) + Len(t)
           /\ \A i \in 1..Len(s) : (s \o t)[i] = s[i]
           /\ SubSeq(s \o t, 1, n) = SubSeq(s, 1, n)
           /\ From(s \o t, n + 1) = From(s, n + 1) \o t
<1> DEFINE u == s \o t
<1>1. /\ Len(s) \in Nat /\ Len(t) \in Nat /\ n \in Nat /\ n <= Len(s)
      /\ u \in Seq(S) /\ Len(u) = Len(s) + Len(t)
      /\ \A i \in 1..(Len(s) + Len(t)) : u[i] = IF i <= Len(s) THEN s[i] ELSE t[i - Len(s)]
  BY ConcatProperties, LenProperties
<1> HIDE DEF u
<1>2. n \in 0..Len(u)
  BY <1>1
<1>3. SubSeq(u, 1, n) = SubSeq(s, 1, n)
  <2>1. /\ SubSeq(u, 1, n) \in Seq(S) /\ Len(SubSeq(u, 1, n)) = n
        /\ \A i \in 1..n : SubSeq(u, 1, n)[i] = u[i]
    BY <1>1, <1>2, Splits
  <2>2. /\ SubSeq(s, 1, n) \in Seq(S) /\ Len(SubSeq(s, 1, n)) = n
        /\ \A i \in 1..n : SubSeq(s, 1, n)[i] = s[i]
    BY Splits
  <2>3. \A i \in 1..n : u[i] = s[i]
    BY <1>1
  <2> QED BY <2>1, <2>2, <2>3, SeqEqual
<1>4. From(u, n + 1) = From(s, n + 1) \o t
  <2> DEFINE f == From(s, n + 1)
             g == From(u, n + 1)
  <2>1. /\ f \in Seq(S) /\ Len(f) = Len(s) - n /\ \A i \in 1..(Len(s) - n) : f[i] = s[n + i]
    BY Splits
  <2>2. /\ g \in Seq(S) /\ Len(g) = Len(u) - n /\ \A i \in 1..(Len(u) - n) : g[i] = u[n + i]
    BY <1>1, <1>2, Splits
  <2> HIDE DEF f, g
  <2>3. /\ f \o t \in Seq(S) /\ Len(f \o t) = Len(f) + Len(t)
        /\ \A i \in 1..(Len(f) + Len(t)) :
              (f \o t)[i] = IF i <= Len(f) THEN f[i] ELSE t[i - Len(f)]
    BY <2>1, ConcatProperties
  <2>4. Len(g) = Len(f \o t)
    BY <1>1, <2>1, <2>2, <2>3
  <2>5. ASSUME NEW i \in 1..Len(g) PROVE g[i] = (f \o t)[i]
    <3>1. /\ i \in Int /\ 1 <= i /\ i <= Len(s) + Len(t) - n
          /\ i \in 1..(Len(u) - n) /\ i \in 1..(Len(f) + Len(t)) /\ n + i \in 1..(Len(s) + Len(t))
      BY <1>1, <2>1, <2>2, <2>5
    <3>2. CASE i <= Len(s) - n
      BY <1>1, <2>1, <2>2, <2>3, <3>1, <3>2
    <3>3. CASE i > Len(s) - n
      <4>1. g[i] = t[n + i - Len(s)]
        BY <1>1, <2>2, <3>1, <3>3
      <4>2. (f \o t)[i] = t[i - Len(f)]
        BY <1>1, <2>1, <2>3, <3>1, <3>3
      <4>3. i - Len(f) = n + i - Len(s)
        BY <1>1, <2>1, <3>1
      <4> QED BY <4>1, <4>2, <4>3
    <3> QED BY <1>1, <3>1, <3>2, <3>3
  <2>6. g = f \o t
    BY <2>2, <2>3, <2>4, <2>5, SeqEqual
  <2> QED BY <2>6 DEF f, g
<1> QED BY <1>1, <1>3, <1>4 DEF u

\* Cutting behind the first of two pieces gives the pieces.
LEMMA Pieces ==
    ASSUME NEW S, NEW s \in Seq(S), NEW t \in Seq(S), NEW n, n = Len(s)
    PROVE  SubSeq(s \o t, 1, n) = s /\ From(s \o t, n + 1) = t
<1>1. Len(s) \in Nat /\ Len(s) \in 0..Len(s)
  BY LenProperties
<1>2. SubSeq(s \o t, 1, n) = SubSeq(s, 1, n) /\ From(s \o t, n + 1) = From(s, n + 1) \o t
  BY <1>1, Fronts
<1>3. SubSeq(s, 1, n) = s
  BY SubSeqFull
<1>4. From(s, n + 1) = << >>
  BY <1>1, SubSeqEmpty DEF From
<1> QED BY <1>2, <1>3, <1>4, ConcatEmptySeq

\* Where a read ends, it ends however many bytes follow, and gives the same value.
LEMMA EndsAhead ==
    ASSUME NEW s \in Seq(Byte), NEW t \in Seq(Byte), NEW n \in 1..5, n <= Len(s)
    PROVE  /\ EndsAt(s \o t, n) <=> EndsAt(s, n)
           /\ VarIntValue(s \o t, n) = VarIntValue(s, n)
<1>1. /\ Len(s) \in Nat /\ Len(t) \in Nat /\ Len(s \o t) = Len(s) + Len(t)
      /\ \A i \in 1..Len(s) : (s \o t)[i] = s[i]
  BY Fronts, LenProperties
<1>2. \A i \in 1..n : (s \o t)[i] = s[i]
  BY <1>1
<1>3. n \in 1..n /\ \A i \in 1..(n - 1) : i \in 1..n
  OBVIOUS
<1>4. n <= Len(s \o t)
  BY <1>1
<1>5. EndsAt(s \o t, n) <=> EndsAt(s, n)
  BY <1>2, <1>3, <1>4 DEF EndsAt
<1>6. ASSUME NEW i \in 1..5 PROVE Group(s \o t, n, i) = Group(s, n, i)
  BY <1>2 DEF Group
<1> QED BY <1>5, <1>6 DEF VarIntValue

\* A number that has been read, or refused, stays what it is whatever bytes come
\* later: only a read that runs out of bytes waits for them.
THEOREM VarIntsWaitOnlyForBytes ==
    ASSUME NEW s \in Seq(Byte), NEW t \in Seq(Byte), ReadVarInt(s).err # "eof"
    PROVE  ReadVarInt(s \o t) = ReadVarInt(s)
<1>1. /\ Len(s) \in Nat /\ Len(t) \in Nat /\ s \o t \in Seq(Byte)
      /\ Len(s \o t) = Len(s) + Len(t)
  BY Fronts, LenProperties
<1>2. CASE \E n \in 1..5 : EndsAt(s, n)
  <2>1. PICK n \in 1..5 : EndsAt(s, n)
    BY <1>2
  <2>2. n <= Len(s)
    BY <2>1 DEF EndsAt
  <2>3. EndsAt(s \o t, n) /\ VarIntValue(s \o t, n) = VarIntValue(s, n)
    BY <2>1, <2>2, EndsAhead
  <2> QED BY <1>1, <2>1, <2>3, ReadsAt
<1>3. CASE ~ \E n \in 1..5 : EndsAt(s, n)
  <2>1. /\ Len(s) > MaxVarIntBytes
        /\ ReadVarInt(s) = [err |-> "long", value |-> 0, size |-> MaxVarIntBytes + 1]
    BY <1>3 DEF ReadVarInt, MaxVarIntBytes
  <2>2. \A n \in 1..5 : n <= Len(s)
    BY <1>1, <2>1 DEF MaxVarIntBytes
  <2>3. ~ \E n \in 1..MaxVarIntBytes : EndsAt(s \o t, n)
    BY <1>3, <2>2, EndsAhead DEF MaxVarIntBytes
  <2>4. Len(s \o t) > MaxVarIntBytes
    BY <1>1, <2>1 DEF MaxVarIntBytes
  <2> QED BY <2>1, <2>3, <2>4 DEF ReadVarInt
<1> QED BY <1>2, <1>3

\* Bytes that follow change nothing before them.
LEMMA CutAhead ==
    ASSUME NEW s \in Seq(Byte), NEW t \in Seq(Byte), NEW n \in 0..Len(s)
    PROVE  SubSeq(s \o t, 1, n) = SubSeq(s, 1, n) /\ From(s \o t, n + 1) = From(s, n + 1) \o t
BY Fronts

\* The same of packets: what ReadPacket has made of the bytes that came, a packet
\* or a refusal, does not depend on the bytes behind them, so that a handler may
\* act on it before they are there.
THEOREM PacketsWaitOnlyForBytes ==
    ASSUME NEW s \in Seq(Byte), NEW t \in Seq(Byte), NEW max \in Int,
           ReadPacket(s, max).err # "eof"
    PROVE  ReadPacket(s \o t, max) = ReadPacket(s, max)
<1> DEFINE length  == ReadVarInt(s)
           rest    == From(s, length.size + 1)
           payload == SubSeq(rest, 1, length.value)
           id      == ReadVarInt(payload)
           after   == From(s \o t, length.size + 1)
           packet  == [err  |-> "none",
                       id   |-> id.value,
                       data |-> From(payload, id.size + 1),
                       raw  |-> Raw(s, length, payload),
                       size |-> length.size + length.value]
<1>1. length.err # "eof"
  BY Zenon DEF ReadPacket, Failed
<1>2. ReadVarInt(s \o t) = length
  BY <1>1, VarIntsWaitOnlyForBytes
<1>3. CASE length.err # "none"
  <2>1. ReadPacket(s, max) = Failed(length.err)
    BY <1>3, Zenon DEF ReadPacket
  <2>2. ReadVarInt(s \o t).err # "none"
    BY <1>2, <1>3
  <2>3. ReadPacket(s \o t, max) = Failed(ReadVarInt(s \o t).err)
    BY <2>2, Zenon DEF ReadPacket
  <2> QED BY <1>2, <2>1, <2>3
<1>4. CASE length.err = "none" /\ ~CheckPacketLength(length.value, max)
  <2>1. ReadPacket(s, max) = Failed("length")
    BY <1>4, Zenon DEF ReadPacket
  <2>2. ReadPacket(s \o t, max) = Failed("length")
    BY <1>2, <1>4, Zenon DEF ReadPacket
  <2> QED BY <2>1, <2>2
<1>5. CASE length.err = "none" /\ CheckPacketLength(length.value, max)
  <2>1. ~(length.value > Len(rest))
    BY <1>5, Zenon DEF ReadPacket, Failed
  <2>2. /\ length.size \in 0..Len(s) /\ length.value \in Int /\ 0 <= length.value
    BY <1>5, ReadRange, SMT DEF CheckPacketLength, Int32
  <2> HIDE DEF length
  <2>3. /\ rest \in Seq(Byte) /\ Len(rest) = Len(s) - length.size
        /\ after = rest \o t
        /\ SubSeq(s \o t, 1, length.size) = SubSeq(s, 1, length.size)
    <3>1. rest \in Seq(Byte) /\ Len(rest) = Len(s) - length.size
      BY <2>2, Splits
    <3>2. length.size \in 0..Len(s)
      BY <2>2
    <3>3. SubSeq(s \o t, 1, length.size) = SubSeq(s, 1, length.size)
      BY <3>2, CutAhead
    <3>4. From(s \o t, length.size + 1) = From(s, length.size + 1) \o t
      BY <3>2, CutAhead
    <3> QED BY <3>1, <3>3, <3>4, Zenon
  <2> HIDE DEF rest, after
  <2>4. length.value \in 0..Len(rest) /\ Len(rest) \in Nat
    BY <2>1, <2>2, <2>3, LenProperties
  <2>5. SubSeq(after, 1, length.value) = payload
    BY <2>3, <2>4, Fronts
  <2>6. ~(length.value > Len(after))
    <3>1. Len(rest \o t) = Len(rest) + Len(t) /\ Len(t) \in Nat
      BY <2>3, ConcatProperties, LenProperties
    <3> QED BY <2>1, <2>2, <2>3, <2>4, <3>1
  <2>7. Raw(s \o t, length, payload) = Raw(s, length, payload)
    BY <2>3 DEF Raw
  <2>8. CASE id.err # "none"
    <3>1. ReadPacket(s, max) = Failed("id")
      BY <1>5, <2>1, <2>8, Zenon DEF ReadPacket, rest, length
    <3>2. ReadPacket(s \o t, max) = Failed("id")
      BY <1>2, <1>5, <2>5, <2>6, <2>8, Zenon DEF ReadPacket, after
    <3> QED BY <3>1, <3>2
  <2>9. CASE id.err = "none"
    <3>1. ReadPacket(s, max) = packet
      BY <1>5, <2>1, <2>9, Zenon DEF ReadPacket, rest, length
    <3>2. ReadPacket(s \o t, max) = packet
      BY <1>2, <1>5, <2>5, <2>6, <2>7, <2>9, Zenon DEF ReadPacket, after
    <3> QED BY <3>1, <3>2
  <2> QED BY <2>8, <2>9
<1> QED BY <1>3, <1>4, <1>5

\* A packet that is built and read again has the same id and data, whatever
\* follows it, as long as it is within the limit and its length is one of 32 bits.
THEOREM PacketRoundTrip ==
    ASSUME NEW id \in Int32, NEW data \in Seq(Byte), NEW rest \in Seq(Byte), NEW max \in Int32,
           Len(EncodeVarInt(id) \o data) <= max
    PROVE  LET p == NewPacket(id, data)
           IN  /\ p.raw \in Seq(Byte)
               /\ ReadPacket(p.raw \o rest, max)
                    = [err |-> "none", id |-> id, data |-> data, raw |-> p.raw,
                       size |-> Len(p.raw)]
<1> DEFINE payload == EncodeVarInt(id) \o data
           n == Len(payload)
           head == EncodeVarInt(n)
           raw == head \o payload
           s == raw \o rest
           k == VarIntSize(n)
<1>1. payload \in Seq(Byte) /\ n \in Nat /\ EncodeVarInt(id) \in Seq(Byte)
  BY EncodedBytes, ConcatProperties, LenProperties
<1>2. n \in Int32 /\ CheckPacketLength(n, max)
  BY <1>1, SMT DEF Int32, CheckPacketLength
<1> HIDE DEF n
<1>3. /\ head \in Seq(Byte) /\ Len(head) = k /\ k \in 1..5
  BY <1>2, EncodedBytes, Sizes
<1> HIDE DEF head, payload
<1>4. raw \in Seq(Byte) /\ Len(raw) = k + n /\ raw \o rest = head \o (payload \o rest)
      /\ payload \o rest \in Seq(Byte) /\ Len(payload \o rest) = n + Len(rest)
  <2>1. raw \in Seq(Byte) /\ Len(raw) = Len(head) + Len(payload)
    BY <1>1, <1>3, ConcatProperties
  <2>2. payload \o rest \in Seq(Byte) /\ Len(payload \o rest) = Len(payload) + Len(rest)
    BY <1>1, ConcatProperties
  <2>3. (head \o payload) \o rest = head \o (payload \o rest)
    <3>1. head \in Seq(Byte)
      BY <1>3
    <3>2. payload \in Seq(Byte)
      BY <1>1
    <3> QED BY <3>1, <3>2, Associative DEF Bytes
  <2> QED BY <1>3, <2>1, <2>2, <2>3 DEF n
<1>5. ReadVarInt(s) = [err |-> "none", value |-> n, size |-> k]
  BY <1>2, <1>4, VarIntRoundTrip DEF head
<1>6. SubSeq(s, 1, k) = head /\ From(s, k + 1) = payload \o rest
  <2>1. k = Len(head) /\ payload \o rest \in Seq(Byte)
    BY <1>3, <1>4
  <2>2. SubSeq(head \o (payload \o rest), 1, k) = head
        /\ From(head \o (payload \o rest), k + 1) = payload \o rest
    BY <1>3, <2>1, Pieces
  <2> QED BY <1>4, <2>2
<1>7. SubSeq(payload \o rest, 1, n) = payload
  BY <1>1, Pieces DEF n
<1>8. ~(n > Len(payload \o rest))
  BY <1>1, <1>4, LenProperties
<1>9. ReadVarInt(payload) = [err |-> "none", value |-> id, size |-> VarIntSize(id)]
  BY VarIntRoundTrip DEF payload
<1>10. From(payload, VarIntSize(id) + 1) = data
  BY <1>1, EncodedBytes, Pieces DEF payload
<1> HIDE DEF s, raw
<1>11. Raw(s, ReadVarInt(s), payload) = raw
  <2>1. ReadVarInt(s).size = k
    BY <1>5
  <2> QED BY <1>6, <2>1 DEF Raw, raw
<1>12. ReadPacket(s, max) = [err |-> "none", id |-> id, data |-> data, raw |-> raw,
                             size |-> k + n]
  <2> DEFINE length == ReadVarInt(s)
  <2>1. length.err = "none" /\ length.value = n /\ length.size = k
    BY <1>5
  <2>2. ReadVarInt(payload).err = "none" /\ ReadVarInt(payload).value = id
        /\ ReadVarInt(payload).size = VarIntSize(id)
    BY <1>9
  <2> HIDE DEF k, n
  <2> QED BY <1>2, <1>6, <1>7, <1>8, <1>10, <1>11, <2>1, <2>2, Zenon DEF ReadPacket
<1>13. NewPacket(id, data).raw = raw
  BY DEF NewPacket, raw, head, n, payload
<1> QED BY <1>4, <1>12, <1>13 DEF s

\* A small number takes few bytes.
LEMMA SmallSizes ==
    ASSUME NEW v \in Nat
    PROVE  /\ v < 128 => VarIntSize(v) <= 1
           /\ v < 16384 => VarIntSize(v) <= 2
           /\ v < 2097152 => VarIntSize(v) <= 3
           /\ v < 268435456 => VarIntSize(v) <= 4
BY UnitValues, SMTT(30) DEF VarIntSize

\* No form of a number is shorter than the one EncodeVarInt gives it.  There are
\* longer ones, which is why Raw keeps the bytes of the length as they came.
THEOREM EncodingsAreShortest ==
    ASSUME NEW s \in Seq(Byte), ReadVarInt(s).err = "none"
    PROVE  VarIntSize(ReadVarInt(s).value) <= ReadVarInt(s).size
<1>1. PICK n \in 1..5 :
        /\ n <= Len(s)
        /\ ReadVarInt(s) = [err |-> "none", value |-> VarIntValue(s, n), size |-> n]
  BY ReadEnds
<1> DEFINE v == VarIntValue(s, n)
           g(i) == Group(s, n, i)
<1>2. ReadVarInt(s).value = v /\ ReadVarInt(s).size = n
  BY <1>1
<1>3. /\ \A i \in 1..4 : g(i) \in Int /\ 0 <= g(i) /\ g(i) <= 127
      /\ g(5) \in Int /\ -8 <= g(5) /\ g(5) <= 7
      /\ \A i \in 1..5 : i > n => g(i) = 0
      /\ v = Weigh(g(1), g(2), g(3), g(4), g(5))
  BY <1>1, GroupRange
<1> HIDE DEF v, g
<1>4. /\ g(1) \in Int /\ 0 <= g(1) /\ g(1) <= 127
      /\ g(2) \in Int /\ 0 <= g(2) /\ g(2) <= 127
      /\ g(3) \in Int /\ 0 <= g(3) /\ g(3) <= 127
      /\ g(4) \in Int /\ 0 <= g(4) /\ g(4) <= 127
      /\ g(5) \in Int
  BY <1>3
<1>5. ASSUME n = 1 PROVE VarIntSize(v) <= n
  <2>1. g(2) = 0 /\ g(3) = 0 /\ g(4) = 0 /\ g(5) = 0
    BY <1>3, <1>5, SMT
  <2>2. v = Weigh(g(1), 0, 0, 0, 0)
    BY <1>3, <2>1, Zenon
  <2>3. v \in Nat /\ v < 128
    BY <1>4, <2>2, SMTT(30) DEF Weigh
  <2> QED BY <1>5, <2>3, SmallSizes, SMTT(30)
<1>6. ASSUME n = 2 PROVE VarIntSize(v) <= n
  <2>1. g(3) = 0 /\ g(4) = 0 /\ g(5) = 0
    BY <1>3, <1>6, SMT
  <2>2. v = Weigh(g(1), g(2), 0, 0, 0)
    BY <1>3, <2>1, Zenon
  <2>3. v \in Nat /\ v < 16384
    BY <1>4, <2>2, SMTT(30) DEF Weigh
  <2> QED BY <1>6, <2>3, SmallSizes, SMTT(30)
<1>7. ASSUME n = 3 PROVE VarIntSize(v) <= n
  <2>1. g(4) = 0 /\ g(5) = 0
    BY <1>3, <1>7, SMT
  <2>2. v = Weigh(g(1), g(2), g(3), 0, 0)
    BY <1>3, <2>1, Zenon
  <2>3. v \in Nat /\ v < 2097152
    BY <1>4, <2>2, SMTT(30) DEF Weigh
  <2> QED BY <1>7, <2>3, SmallSizes, SMTT(30)
<1>8. ASSUME n = 4 PROVE VarIntSize(v) <= n
  <2>1. g(5) = 0
    BY <1>3, <1>8, SMT
  <2>2. v = Weigh(g(1), g(2), g(3), g(4), 0)
    BY <1>3, <2>1, Zenon
  <2>3. v \in Nat /\ v < 268435456
    BY <1>4, <2>2, SMTT(30) DEF Weigh
  <2> QED BY <1>8, <2>3, SmallSizes, SMTT(30)
<1>9. ASSUME n = 5 PROVE VarIntSize(v) <= n
  <2>1. v \in Int32
    BY <1>2, ReadRange
  <2>2. VarIntSize(v) \in 1..5
    BY <2>1, Sizes
  <2> QED BY <1>9, <2>2
<1>10. VarIntSize(v) <= n
  BY <1>5, <1>6, <1>7, <1>8, <1>9, SMT
<1> QED BY <1>2, <1>10

\* A string that is written and read again is the same, whatever follows it, if it
\* is UTF-8 and within the limit, but for the empty string at the end of the data.
LEMMA StringRoundTrip ==
    ASSUME NEW value \in Seq(Byte), NEW rest \in Seq(Byte), NEW maxChars \in Nat,
           Len(value) \in Int32, Len(value) <= maxChars * 4, value \o rest # << >>,
           Utf8Valid(value), utf16CodeUnits(value) <= maxChars
    PROVE  /\ EncodeString(value) \in Seq(Byte)
           /\ ReadString(EncodeString(value) \o rest, maxChars)
                = [err |-> "none", value |-> value, size |-> Len(EncodeString(value))]
<1> DEFINE n == Len(value)
           k == VarIntSize(n)
           head == EncodeVarInt(n)
           s == EncodeString(value) \o rest
           tail == value \o rest
           length == ReadVarInt(s)
<1>1. /\ n \in Nat /\ head \in Seq(Byte) /\ Len(head) = k /\ k \in 1..5
  BY EncodedBytes, Sizes, LenProperties
<1>2. /\ EncodeString(value) \in Seq(Byte) /\ Len(EncodeString(value)) = k + n
      /\ tail \in Seq(Byte) /\ Len(tail) = n + Len(rest)
  BY <1>1, ConcatProperties DEF EncodeString
<1>3. s = head \o tail
  BY <1>1, Associative DEF Bytes, EncodeString
<1>4. length = [err |-> "none", value |-> n, size |-> k]
  BY <1>2, <1>3, VarIntRoundTrip
<1>5. length.err = "none" /\ length.value = n /\ length.size = k
  BY <1>4
<1>6. From(s, k + 1) = tail
  <2> HIDE DEF head, tail, s, k, n
  <2>1. head \in Seq(Byte) /\ tail \in Seq(Byte) /\ k = Len(head)
    BY <1>1, <1>2
  <2>2. From(head \o tail, k + 1) = tail
    BY <2>1, Pieces
  <2> QED BY <1>3, <2>2
<1>7. SubSeq(tail, 1, n) = value
  BY Pieces
<1>8. ~ \/ length.err # "none"
        \/ length.value < 0 \/ length.value > Len(tail) \/ length.value > maxChars * 4
        \/ tail = << >>
  BY <1>1, <1>2, <1>5, LenProperties
<1>9. ~(~Utf8Valid(value) \/ utf16CodeUnits(value) > maxChars)
  BY DEF utf16CodeUnits
<1> HIDE DEF n, k, head, tail, s
<1>10. ReadString(s, maxChars) = [err |-> "none", value |-> value, size |-> k + n]
  BY <1>5, <1>6, <1>7, <1>8, <1>9, Zenon DEF ReadString
<1> QED BY <1>2, <1>10 DEF s

\* The handshake that the active probe builds is the one the backend parses, with
\* the version, the host and the next state it was given, whatever the port.
THEOREM HandshakeRoundTrip ==
    ASSUME NEW version \in Int32, NEW host \in Seq(Byte), NEW port \in Seq(Byte),
           NEW next \in Int32, Len(port) = 2,
           Len(host) <= 255 * 4, Utf8Valid(host), utf16CodeUnits(host) <= 255
    PROVE  ParseHandshake(BuildHandshake(version, host, port, next))
             = [err |-> "none", version |-> version, address |-> host, next |-> next]
<1> DEFINE v == EncodeVarInt(version)
           a == EncodeString(host)
           x == EncodeVarInt(next)
           d == v \o a \o port \o x
           p == BuildHandshake(version, host, port, next)
<1>1. p.id = HandshakePacketID /\ p.data = d
  BY DEF BuildHandshake, NewPacket
<1>2. /\ v \in Seq(Byte) /\ Len(v) = VarIntSize(version)
      /\ x \in Seq(Byte) /\ Len(x) = VarIntSize(next)
  BY EncodedBytes
<1>3. port \o x \in Seq(Byte) /\ host \o (port \o x) # << >>
  <2>0. x \in Seq(Byte) /\ Len(x) \in Nat
    BY <1>2, LenProperties
  <2> HIDE DEF x
  <2>1. port \o x \in Seq(Byte) /\ Len(port \o x) = 2 + Len(x) /\ Len(x) \in Nat
    <3>1. port \o x \in Seq(Byte) /\ Len(port \o x) = Len(port) + Len(x)
      BY <2>0, ConcatProperties
    <3> QED BY <2>0, <3>1
  <2>2. Len(host \o (port \o x)) = Len(host) + Len(port \o x) /\ Len(host) \in Nat
    BY <2>1, ConcatProperties, LenProperties
  <2>3. Len(host \o (port \o x)) # 0
    BY <2>1, <2>2
  <2> QED BY <2>1, <2>3, EmptySeq
<1>4. Len(host) \in Int32 /\ Len(host) <= 255 * 4
  BY LenProperties, SMT DEF Int32
<1>5. /\ a \in Seq(Byte)
      /\ ReadString(a \o (port \o x), 255) = [err |-> "none", value |-> host, size |-> Len(a)]
  <2> DEFINE r == port \o x
  <2>1. r \in Seq(Byte) /\ host \o r # << >> /\ 255 \in Nat
    BY <1>3
  <2> HIDE DEF r
  <2>2. /\ EncodeString(host) \in Seq(Byte)
        /\ ReadString(EncodeString(host) \o r, 255)
             = [err |-> "none", value |-> host, size |-> Len(EncodeString(host))]
    BY <1>4, <2>1, StringRoundTrip
  <2> QED BY <2>2 DEF r
<1> HIDE DEF v, a, x
<1>6. d = v \o (a \o (port \o x)) /\ a \o (port \o x) \in Seq(Byte)
  <2>1. a \o port \in Seq(Byte) /\ a \o (port \o x) \in Seq(Byte)
    BY <1>3, <1>5, ConcatProperties
  <2>2. v \o a \o port = v \o (a \o port)
    BY <1>2, <1>5, Associative DEF Bytes
  <2>3. (v \o (a \o port)) \o x = v \o ((a \o port) \o x)
    BY <1>2, <2>1, Associative DEF Bytes
  <2>4. (a \o port) \o x = a \o (port \o x)
    BY <1>2, <1>5, Associative DEF Bytes
  <2> QED BY <2>1, <2>2, <2>3, <2>4
<1> HIDE DEF d
<1>7. ReadVarInt(d) = [err |-> "none", value |-> version, size |-> VarIntSize(version)]
  BY <1>6, VarIntRoundTrip DEF v
<1>8. From(d, VarIntSize(version) + 1) = a \o (port \o x)
  BY <1>2, <1>6, Pieces
<1>9. From(a \o (port \o x), Len(a) + 1) = port \o x
  BY <1>3, <1>5, Pieces
<1>10. From(port \o x, 3) = x
  <2>1. From(port \o x, Len(port) + 1) = x
    BY <1>2, Pieces
  <2>2. Len(port) + 1 = 3
    OBVIOUS
  <2> QED BY <2>1, <2>2
<1>11. ReadVarInt(x) = [err |-> "none", value |-> next, size |-> VarIntSize(next)]
  <2>1. << >> \in Seq(Byte)
    BY EmptySeq
  <2>2. x \o << >> = x
    BY <1>2, ConcatEmptySeq
  <2> QED BY <2>1, <2>2, VarIntRoundTrip DEF x
<1>12. ~(Len(port \o x) < 2)
  BY <1>2, ConcatProperties, LenProperties
<1> HIDE DEF p
<1>13. /\ ReadVarInt(d).err = "none" /\ ReadVarInt(d).value = version
       /\ ReadVarInt(d).size = VarIntSize(version)
  BY <1>7
<1>14. LET r == ReadString(a \o (port \o x), 255)
       IN  r.err = "none" /\ r.value = host /\ r.size = Len(a)
  BY <1>5
<1>15. ReadVarInt(x).err = "none" /\ ReadVarInt(x).value = next
  BY <1>11
<1>16. ParseHandshake(p) = [err |-> "none", version |-> version, address |-> host, next |-> next]
  <2>1. /\ ReadVarInt(p.data).err = "none" /\ ReadVarInt(p.data).value = version
        /\ From(p.data, ReadVarInt(p.data).size + 1) = a \o (port \o x)
    BY <1>1, <1>8, <1>13
  <2>2. From(a \o (port \o x), ReadString(a \o (port \o x), 255).size + 1) = port \o x
    BY <1>9, <1>14
  <2>3. p.id = HandshakePacketID
    BY <1>1
  <2> DEFINE b == a \o (port \o x)
             c == port \o x
  <2>4. /\ From(p.data, ReadVarInt(p.data).size + 1) = b
        /\ ReadString(b, 255).err = "none" /\ ReadString(b, 255).value = host
        /\ From(b, ReadString(b, 255).size + 1) = c
        /\ From(c, 3) = x /\ ~(Len(c) < 2)
    BY <1>10, <1>12, <1>14, <2>1, <2>2
  <2> HIDE DEF b, c
  <2> QED BY <1>15, <2>1, <2>3, <2>4 DEF ParseHandshake
<1> QED BY <1>16 DEF p

-----------------------------------------------------------------------------
\* A set of natural numbers that is not empty has a least one.
LEMMA LeastOf ==
    ASSUME NEW T, T \subseteq Nat, T # {}
    PROVE  \E x \in T : \A y \in T : x <= y
<1> DEFINE less == {ss \in Nat \X Nat : ss[1] < ss[2]}
<1>1. less = OpToRel(<, Nat)
  BY Zenon DEF OpToRel
<1>2. IsWellFoundedOn(less, Nat)
  BY <1>1, NatLessThanWellFounded, Zenon
<1>3. PICK x \in T : \A y \in T : <<y, x>> \notin less
  <2> HIDE DEF less
  <2> QED BY <1>2, WFMin, Zenon
<1>4. ASSUME NEW y \in T PROVE x <= y
  <2>1. x \in Nat /\ y \in Nat /\ <<y, x>> \notin less
    BY <1>3
  <2> QED BY <2>1
<1> QED BY <1>4

\* And a set of positions a greatest one.
LEMMA GreatestOf ==
    ASSUME NEW N \in Nat, NEW I, I \subseteq 1..N, I # {}
    PROVE  \E i \in I : \A j \in I : j <= i
<1> DEFINE T == {N - i : i \in I}
<1>1. \A i \in I : N - i \in Nat
  OBVIOUS
<1>2. T \subseteq Nat /\ T # {}
  BY <1>1
<1>3. PICK x \in T : \A y \in T : x <= y
  <2> HIDE DEF T
  <2> QED BY <1>2, LeastOf
<1>4. PICK i \in I : x = N - i
  OBVIOUS
<1>5. ASSUME NEW j \in I PROVE j <= i
  <2>1. N - j \in T
    OBVIOUS
  <2>2. N - i <= N - j
    BY <1>3, <1>4, <2>1
  <2> QED BY <2>2
<1> QED BY <1>5

\* First and Last are the ends of the positions they are asked for.
LEMMA Ends ==
    ASSUME NEW N \in Nat, NEW I \in SUBSET (1..N), I # {}
    PROVE  First(I) \in I /\ Last(I) \in I
<1>1. \E i \in I : \A j \in I : i <= j
  <2>1. I \subseteq Nat
    OBVIOUS
  <2> QED BY <2>1, LeastOf
<1>2. \E i \in I : \A j \in I : j <= i
  BY GreatestOf
<1> QED BY <1>1, <1>2 DEF First, Last

-----------------------------------------------------------------------------
\* The bytes that NormalizeHost looks for are no letters.
Marks == {0, DOT, COLON, LBRACKET, RBRACKET} \cup Space

\* What ToLower does to one byte.
Low(b) == IF b \in 65..90 THEN b + 32 ELSE b

\* It makes bytes of bytes and leaves the marks alone.
LEMMA LowByte ==
    ASSUME NEW c \in Byte
    PROVE  Low(c) \in Byte /\ \A b \in Marks : Low(c) = b <=> c = b
<1>1. \A b \in Marks : b \in Int /\ (b < 65 \/ (90 < b /\ b < 97))
  BY DEF Marks, DOT, COLON, LBRACKET, RBRACKET, Space
<1>2. c \in Int /\ 0 <= c /\ c <= 255
  BY DEF Byte
<1>3. CASE 65 <= c /\ c <= 90
  <2>1. Low(c) = c + 32
    BY <1>2, <1>3 DEF Low
  <2> QED BY <1>1, <1>2, <1>3, <2>1 DEF Byte
<1>4. CASE ~(65 <= c /\ c <= 90)
  <2>1. Low(c) = c
    BY <1>2, <1>4 DEF Low
  <2> QED BY <2>1
<1> QED BY <1>3, <1>4

\* Lower case keeps the length and the marks.
LEMMA Lowered ==
    ASSUME NEW s \in Seq(Byte)
    PROVE  /\ ToLower(s) \in Seq(Byte) /\ Len(ToLower(s)) = Len(s)
           /\ DOMAIN ToLower(s) = DOMAIN s /\ DOMAIN s = 1..Len(s) /\ Len(s) \in Nat
           /\ \A i \in 1..Len(s) :
                 /\ ToLower(s)[i] = Low(s[i])
                 /\ \A b \in Marks : ToLower(s)[i] = b <=> s[i] = b
<1>1. DOMAIN s = 1..Len(s) /\ Len(s) \in Nat
  BY LenProperties
<1>2. ToLower(s) = [i \in 1..Len(s) |-> Low(s[i])]
  BY <1>1 DEF ToLower, Low
<1>3. ASSUME NEW i \in 1..Len(s)
      PROVE  Low(s[i]) \in Byte /\ \A b \in Marks : Low(s[i]) = b <=> s[i] = b
  <2>1. s[i] \in Byte
    BY ElementOfSeq
  <2> QED BY <2>1, LowByte
<1>4. ToLower(s) \in Seq(Byte) /\ Len(ToLower(s)) = Len(s)
  BY <1>1, <1>2, <1>3
<1>5. DOMAIN ToLower(s) = DOMAIN s
  BY <1>1, <1>2
<1>6. \A i \in 1..Len(s) : ToLower(s)[i] = Low(s[i])
  BY <1>2
<1> QED BY <1>1, <1>3, <1>4, <1>5, <1>6

\* Marks stay where they are.
LEMMA MarksStay ==
    ASSUME NEW s \in Seq(Byte), NEW b \in Marks
    PROVE  Positions(ToLower(s), b) = Positions(s, b)
BY Lowered DEF Positions

\* A part of the lowered bytes is the lowered part.
LEMMA LowerPart ==
    ASSUME NEW s \in Seq(Byte), NEW m \in Nat \ {0}, NEW n \in Int, n <= Len(s)
    PROVE  /\ SubSeq(s, m, n) \in Seq(Byte)
           /\ SubSeq(ToLower(s), m, n) = ToLower(SubSeq(s, m, n))
<1> DEFINE t == ToLower(s)
           p == SubSeq(s, m, n)
           q == SubSeq(t, m, n)
<1>1. /\ t \in Seq(Byte) /\ Len(t) = Len(s) /\ Len(s) \in Nat
      /\ \A i \in 1..Len(s) : t[i] = Low(s[i])
  BY Lowered
<1> HIDE DEF t
<1>2. \A i \in m..n : i \in 1..Len(s)
  BY <1>1
<1>3. (\A i \in m..n : s[i] \in Byte) /\ (\A i \in m..n : t[i] \in Byte)
  BY <1>1, <1>2, ElementOfSeq
<1>4. /\ p \in Seq(Byte) /\ Len(p) = (IF m <= n THEN n - m + 1 ELSE 0)
      /\ \A i \in 1..(n - m + 1) : p[i] = s[m + i - 1]
  BY <1>3, SubSeqProperties
<1>5. /\ q \in Seq(Byte) /\ Len(q) = (IF m <= n THEN n - m + 1 ELSE 0)
      /\ \A i \in 1..(n - m + 1) : q[i] = t[m + i - 1]
  BY <1>3, SubSeqProperties
<1> HIDE DEF p, q
<1>6. /\ ToLower(p) \in Seq(Byte) /\ Len(ToLower(p)) = Len(p) /\ Len(p) \in Nat
      /\ \A i \in 1..Len(p) : ToLower(p)[i] = Low(p[i])
  BY <1>4, Lowered
<1>7. ASSUME NEW i \in 1..Len(q) PROVE q[i] = ToLower(p)[i]
  <2>1. i \in 1..(n - m + 1) /\ i \in 1..Len(p)
    BY <1>4, <1>5, <1>7
  <2>2. m + i - 1 \in m..n
    BY <2>1
  <2>3. m + i - 1 \in 1..Len(s)
    BY <1>2, <2>2
  <2> QED BY <1>1, <1>4, <1>5, <1>6, <2>1, <2>3
<1>8. q = ToLower(p)
  BY <1>4, <1>5, <1>6, <1>7, SeqEqual
<1> QED BY <1>4, <1>8 DEF p, q, t

\* Every stage of NormalizeHost does the same whatever the case of the letters.
LEMMA LowerTrimmed ==
    ASSUME NEW s \in Seq(Byte)
    PROVE  TrimSpace(s) \in Seq(Byte) /\ TrimSpace(ToLower(s)) = ToLower(TrimSpace(s))
<1> DEFINE t == ToLower(s)
           I == {i \in DOMAIN s : s[i] \notin Space}
           J == {i \in DOMAIN t : t[i] \notin Space}
<1>1. /\ DOMAIN t = 1..Len(s) /\ DOMAIN s = 1..Len(s) /\ Len(s) \in Nat
      /\ \A i \in 1..Len(s) : \A b \in Space : t[i] = b <=> s[i] = b
  BY Lowered DEF Marks
<1> HIDE DEF t
<1>2. J = I
  BY <1>1
<1>3. CASE I = {}
  <2>1. TrimSpace(s) = << >> /\ TrimSpace(t) = << >>
    BY <1>2, <1>3 DEF TrimSpace
  <2>2. ToLower(<< >>) = << >>
    BY DEF ToLower
  <2> QED BY <2>1, <2>2, EmptySeq DEF t
<1>4. CASE I # {}
  <2>1. I \in SUBSET (1..Len(s))
    BY <1>1
  <2>2. First(I) \in 1..Len(s) /\ Last(I) \in 1..Len(s)
    <3> HIDE DEF I
    <3> QED BY <1>1, <1>4, <2>1, Ends
  <2>3. TrimSpace(s) = SubSeq(s, First(I), Last(I)) /\ TrimSpace(t) = SubSeq(t, First(I), Last(I))
    BY <1>2, <1>4, Zenon DEF TrimSpace
  <2> HIDE DEF I, J
  <2>4. /\ SubSeq(s, First(I), Last(I)) \in Seq(Byte)
        /\ SubSeq(ToLower(s), First(I), Last(I)) = ToLower(SubSeq(s, First(I), Last(I)))
    <3>1. First(I) \in Nat \ {0} /\ Last(I) \in Int /\ Last(I) <= Len(s)
      BY <1>1, <2>2
    <3> QED BY <3>1, LowerPart
  <2> QED BY <2>3, <2>4 DEF t
<1> QED BY <1>3, <1>4

\* So does the cut at the first NUL,
LEMMA LowerCut ==
    ASSUME NEW s \in Seq(Byte)
    PROVE  CutNul(s) \in Seq(Byte) /\ CutNul(ToLower(s)) = ToLower(CutNul(s))
<1> DEFINE P == Positions(s, 0)
<1>1. Positions(ToLower(s), 0) = P
  BY MarksStay DEF Marks
<1>2. CASE P = {}
  BY <1>1, <1>2 DEF CutNul
<1>3. CASE P # {}
  <2>1. P \in SUBSET (1..Len(s)) /\ Len(s) \in Nat
    BY Lowered DEF Positions
  <2> HIDE DEF P
  <2>2. First(P) \in 1..Len(s)
    BY <1>3, <2>1, Ends
  <2>3. First(P) - 1 \in Int /\ First(P) - 1 <= Len(s)
    BY <2>1, <2>2
  <2>4. /\ SubSeq(s, 1, First(P) - 1) \in Seq(Byte)
        /\ SubSeq(ToLower(s), 1, First(P) - 1) = ToLower(SubSeq(s, 1, First(P) - 1))
    BY <2>3, LowerPart
  <2> QED BY <1>1, <1>3, <2>4 DEF CutNul, P
<1> QED BY <1>2, <1>3

\* the loss of the port and of brackets,
LEMMA LowerBrackets ==
    ASSUME NEW s \in Seq(Byte)
    PROVE  Unbracketed(s) \in Seq(Byte) /\ Unbracketed(ToLower(s)) = ToLower(Unbracketed(s))
<1> DEFINE t == ToLower(s)
           C == Positions(s, COLON)
           L == Positions(s, LBRACKET)
           R == Positions(s, RBRACKET)
<1>1. Positions(t, COLON) = C /\ Positions(t, LBRACKET) = L /\ Positions(t, RBRACKET) = R
  BY MarksStay DEF Marks
<1>2. /\ t \in Seq(Byte) /\ Len(t) = Len(s) /\ Len(s) \in Nat
      /\ \A i \in 1..Len(s) : \A b \in {LBRACKET, RBRACKET} : t[i] = b <=> s[i] = b
      /\ C \in SUBSET (1..Len(s)) /\ R \in SUBSET (1..Len(s))
  BY Lowered DEF Marks, Positions
<1> HIDE DEF t, C, L, R
<1>3. Bracketed(t) <=> Bracketed(s)
  <2>1. t # << >> <=> s # << >>
    BY <1>2, EmptySeq
  <2>2. s # << >> => 1 \in 1..Len(s)
    BY <1>2, EmptySeq
  <2> QED BY <1>2, <2>1, <2>2 DEF Bracketed
<1>4. ASSUME ~Bracketed(s), C # {}
      PROVE  /\ HostOf(s) \in Seq(Byte) /\ HostOf(t) = ToLower(HostOf(s))
             /\ Positions(HostOf(t), COLON) = Positions(HostOf(s), COLON)
  <2>1. Last(C) \in 1..Len(s)
    BY <1>2, <1>4, Ends
  <2>2. Last(C) - 1 \in Int /\ Last(C) - 1 <= Len(s)
    BY <1>2, <2>1
  <2>3. /\ SubSeq(s, 1, Last(C) - 1) \in Seq(Byte)
        /\ SubSeq(ToLower(s), 1, Last(C) - 1) = ToLower(SubSeq(s, 1, Last(C) - 1))
    BY <2>2, LowerPart
  <2>4. HostOf(s) = SubSeq(s, 1, Last(C) - 1) /\ HostOf(t) = SubSeq(t, 1, Last(C) - 1)
    BY <1>1, <1>3, <1>4, Zenon DEF HostOf, C
  <2>5. HostOf(s) \in Seq(Byte) /\ HostOf(t) = ToLower(HostOf(s))
    BY <2>3, <2>4 DEF t
  <2> QED BY <2>5, MarksStay DEF Marks
<1>5. ASSUME Bracketed(s), R # {}
      PROVE  HostOf(s) \in Seq(Byte) /\ HostOf(t) = ToLower(HostOf(s))
  <2>1. First(R) \in 1..Len(s)
    BY <1>2, <1>5, Ends
  <2>2. First(R) - 1 \in Int /\ First(R) - 1 <= Len(s)
    BY <1>2, <2>1
  <2>3. /\ SubSeq(s, 2, First(R) - 1) \in Seq(Byte)
        /\ SubSeq(ToLower(s), 2, First(R) - 1) = ToLower(SubSeq(s, 2, First(R) - 1))
    BY <2>2, LowerPart
  <2>4. HostOf(s) = SubSeq(s, 2, First(R) - 1) /\ HostOf(t) = SubSeq(t, 2, First(R) - 1)
    BY <1>1, <1>3, <1>5, Zenon DEF HostOf, R
  <2> QED BY <2>3, <2>4 DEF t
<1>6. SplitsHostPort(t) <=> SplitsHostPort(s)
  <2>1. SplitsHostPort(s) <=>
          /\ C # {}
          /\ IF Bracketed(s) THEN R = {Last(C) - 1} /\ L = {1}
             ELSE Positions(HostOf(s), COLON) = {} /\ L = {} /\ R = {}
    BY Zenon DEF SplitsHostPort, C, L, R
  <2>2. SplitsHostPort(t) <=>
          /\ C # {}
          /\ IF Bracketed(s) THEN R = {Last(C) - 1} /\ L = {1}
             ELSE Positions(HostOf(t), COLON) = {} /\ L = {} /\ R = {}
    BY <1>1, <1>3 DEF SplitsHostPort
  <2> QED BY <1>4, <2>1, <2>2
<1>7. CASE SplitsHostPort(s)
  <2>1. Unbracketed(s) = HostOf(s) /\ Unbracketed(t) = HostOf(t)
    BY <1>6, <1>7 DEF Unbracketed
  <2>2. C # {} /\ (Bracketed(s) => R # {})
    BY <1>7 DEF SplitsHostPort, C, R
  <2> QED BY <1>4, <1>5, <2>1, <2>2 DEF t
<1>8. CASE ~SplitsHostPort(s) /\ Bracketed(s) /\ s[Len(s)] = RBRACKET
  <2>1. Len(s) \in 1..Len(s)
    BY <1>2, <1>8, EmptySeq DEF Bracketed
  <2>2. t[Len(t)] = RBRACKET
    BY <1>2, <1>8, <2>1
  <2>3. Unbracketed(s) = SubSeq(s, 2, Len(s) - 1) /\ Unbracketed(t) = SubSeq(t, 2, Len(s) - 1)
    BY <1>2, <1>3, <1>6, <1>8, <2>2 DEF Unbracketed
  <2>4. /\ SubSeq(s, 2, Len(s) - 1) \in Seq(Byte)
        /\ SubSeq(ToLower(s), 2, Len(s) - 1) = ToLower(SubSeq(s, 2, Len(s) - 1))
    <3>1. 2 \in Nat \ {0} /\ Len(s) - 1 \in Int /\ Len(s) - 1 <= Len(s)
      BY <1>2
    <3> QED BY <3>1, LowerPart
  <2> QED BY <2>3, <2>4 DEF t
<1>9. CASE ~SplitsHostPort(s) /\ ~(Bracketed(s) /\ s[Len(s)] = RBRACKET)
  <2>1. ~(Bracketed(t) /\ t[Len(t)] = RBRACKET)
    <3>1. Bracketed(s) => Len(s) \in 1..Len(s)
      BY <1>2, EmptySeq DEF Bracketed
    <3> QED BY <1>2, <1>3, <1>9, <3>1
  <2>2. Unbracketed(s) = s /\ Unbracketed(t) = t
    BY <1>6, <1>9, <2>1 DEF Unbracketed
  <2> QED BY <2>2 DEF t
<1> QED BY <1>7, <1>8, <1>9

\* and the loss of the last dot.
LEMMA LowerDot ==
    ASSUME NEW s \in Seq(Byte)
    PROVE  TrimDot(s) \in Seq(Byte) /\ TrimDot(ToLower(s)) = ToLower(TrimDot(s))
<1> DEFINE t == ToLower(s)
<1>1. /\ t \in Seq(Byte) /\ Len(t) = Len(s) /\ Len(s) \in Nat
      /\ \A i \in 1..Len(s) : t[i] = DOT <=> s[i] = DOT
  BY Lowered DEF Marks
<1> HIDE DEF t
<1>2. (t # << >> <=> s # << >>) /\ (s # << >> => Len(s) \in 1..Len(s))
  BY <1>1, EmptySeq
<1>3. (t # << >> /\ t[Len(t)] = DOT) <=> (s # << >> /\ s[Len(s)] = DOT)
  BY <1>1, <1>2
<1>4. CASE s # << >> /\ s[Len(s)] = DOT
  <2>1. TrimDot(s) = SubSeq(s, 1, Len(s) - 1) /\ TrimDot(t) = SubSeq(t, 1, Len(s) - 1)
    BY <1>1, <1>3, <1>4 DEF TrimDot
  <2>2. 1 \in Nat \ {0} /\ Len(s) - 1 \in Int /\ Len(s) - 1 <= Len(s)
    BY <1>1
  <2>3. /\ SubSeq(s, 1, Len(s) - 1) \in Seq(Byte)
        /\ SubSeq(ToLower(s), 1, Len(s) - 1) = ToLower(SubSeq(s, 1, Len(s) - 1))
    BY <2>2, LowerPart
  <2> QED BY <2>1, <2>3 DEF t
<1>5. CASE ~(s # << >> /\ s[Len(s)] = DOT)
  BY <1>3, <1>5 DEF TrimDot, t
<1> QED BY <1>4, <1>5

\* Lower case is reached at once.
LEMMA LowerTwice ==
    ASSUME NEW s \in Seq(Byte)
    PROVE  ToLower(ToLower(s)) = ToLower(s)
<1>1. /\ ToLower(s) \in Seq(Byte) /\ Len(ToLower(s)) = Len(s)
      /\ \A i \in 1..Len(s) : ToLower(s)[i] = Low(s[i])
  BY Lowered
<1>2. /\ ToLower(ToLower(s)) \in Seq(Byte) /\ Len(ToLower(ToLower(s))) = Len(s)
      /\ \A i \in 1..Len(s) : ToLower(ToLower(s))[i] = Low(ToLower(s)[i])
  BY <1>1, Lowered
<1>3. ASSUME NEW i \in 1..Len(s) PROVE Low(Low(s[i])) = Low(s[i])
  <2> DEFINE c == s[i]
  <2>1. c \in Byte
    BY ElementOfSeq
  <2> HIDE DEF c
  <2>2. c \in Int
    BY <2>1 DEF Byte
  <2>3. Low(Low(c)) = Low(c)
    BY <2>2 DEF Low
  <2> QED BY <2>3 DEF c
<1> QED BY <1>1, <1>2, <1>3, SeqEqual

\* Routing does not see the case of a name: two addresses that differ only in it
\* are normalised to the same host, which is in lower case.
THEOREM HostsIgnoreCase ==
    ASSUME NEW s \in Seq(Byte)
    PROVE  /\ NormalizeHost(s) \in Seq(Byte)
           /\ ToLower(NormalizeHost(s)) = NormalizeHost(s)
           /\ \A t \in Seq(Byte) : ToLower(t) = ToLower(s) => NormalizeHost(t) = NormalizeHost(s)
<1> DEFINE Stages(x) == TrimDot(Unbracketed(CutNul(TrimSpace(x))))
<1>1. ASSUME NEW x \in Seq(Byte)
      PROVE  Stages(x) \in Seq(Byte) /\ Stages(ToLower(x)) = ToLower(Stages(x))
  <2>1. TrimSpace(x) \in Seq(Byte) /\ TrimSpace(ToLower(x)) = ToLower(TrimSpace(x))
    BY LowerTrimmed
  <2>2. /\ CutNul(TrimSpace(x)) \in Seq(Byte)
        /\ CutNul(TrimSpace(ToLower(x))) = ToLower(CutNul(TrimSpace(x)))
    BY <2>1, LowerCut
  <2>3. /\ Unbracketed(CutNul(TrimSpace(x))) \in Seq(Byte)
        /\ Unbracketed(CutNul(TrimSpace(ToLower(x)))) = ToLower(Unbracketed(CutNul(TrimSpace(x))))
    BY <2>2, LowerBrackets
  <2> QED BY <2>3, LowerDot
<1>2. \A x : NormalizeHost(x) = ToLower(Stages(x))
  BY DEF NormalizeHost
<1> HIDE DEF Stages
<1>3. \A x \in Seq(Byte) : NormalizeHost(x) \in Seq(Byte)
                           /\ ToLower(NormalizeHost(x)) = NormalizeHost(x)
                           /\ NormalizeHost(x) = Stages(ToLower(x))
  BY <1>1, <1>2, Lowered, LowerTwice
<1> QED BY <1>3

\* A name as one writes it: without capitals, colons, brackets, white space, and
\* without a dot at its end.
Plain(h) ==
    /\ h \in Seq(Byte) /\ h # << >> /\ ToLower(h) = h /\ h[Len(h)] # DOT
    /\ \A i \in 1..Len(h) : h[i] \notin Marks \ {DOT}

\* The last three stages leave it alone.
LEMMA PlainStages ==
    ASSUME NEW h, Plain(h)
    PROVE  ToLower(TrimDot(Unbracketed(h))) = h
<1>1. DOMAIN h = 1..Len(h) /\ Len(h) \in Nat \ {0}
  BY LenProperties, EmptySeq DEF Plain
<1>2. \A i \in 1..Len(h) : h[i] # COLON /\ h[i] # LBRACKET
  BY DEF Plain, Marks, Space, DOT, COLON, LBRACKET, RBRACKET
<1>3. Positions(h, COLON) = {}
  BY <1>1, <1>2 DEF Positions
<1>4. ~Bracketed(h)
  BY <1>1, <1>2 DEF Bracketed
<1>5. Unbracketed(h) = h
  BY <1>3, <1>4 DEF Unbracketed, SplitsHostPort
<1>6. TrimDot(h) = h
  BY DEF TrimDot, Plain
<1> QED BY <1>5, <1>6 DEF Plain

\* First and Last, where the ends are known.
LEMMA KnownEnds ==
    ASSUME NEW I, I \subseteq Int, NEW i \in I
    PROVE  /\ (\A j \in I : i <= j) => First(I) = i
           /\ (\A j \in I : j <= i) => Last(I) = i
<1>1. ASSUME \A j \in I : i <= j, NEW k \in I, \A j \in I : k <= j PROVE k = i
  BY <1>1
<1>2. ASSUME \A j \in I : j <= i, NEW k \in I, \A j \in I : j <= k PROVE k = i
  BY <1>2
<1> QED BY <1>1, <1>2 DEF First, Last

\* Plain names are their own normal form, so that what is said of routes with
\* stable names (OwnRoute) is said of them.
THEOREM PlainHostsAreStable ==
    ASSUME NEW h, Plain(h)
    PROVE  Stable(h)
<1>1. h \in Seq(Byte) /\ DOMAIN h = 1..Len(h) /\ Len(h) \in Nat \ {0}
  BY LenProperties, EmptySeq DEF Plain
<1>2. \A i \in 1..Len(h) : h[i] \notin Space /\ h[i] # 0
  BY DEF Plain, Marks, Space, DOT
<1>3. TrimSpace(h) = h
  <2> DEFINE I == {i \in DOMAIN h : h[i] \notin Space}
  <2>1. I = 1..Len(h)
    BY <1>1, <1>2
  <2>2. /\ I \subseteq Int /\ 1 \in I /\ Len(h) \in I
        /\ \A j \in I : 1 <= j /\ j <= Len(h)
    BY <1>1, <2>1
  <2>3. TrimSpace(h) = SubSeq(h, First(I), Last(I))
    BY <2>2 DEF TrimSpace
  <2> HIDE DEF I
  <2>4. First(I) = 1 /\ Last(I) = Len(h)
    BY <2>2, KnownEnds
  <2> QED BY <1>1, <2>3, <2>4, SubSeqFull
<1>4. Positions(h, 0) = {}
  BY <1>1, <1>2 DEF Positions
<1>5. CutNul(h) = h
  BY <1>4 DEF CutNul
<1> QED BY <1>3, <1>5, PlainStages DEF NormalizeHost, Stable

\* What a modded client puts behind the name, after a NUL, does not count.
THEOREM MarkersAreIgnored ==
    ASSUME NEW h, Plain(h), NEW t \in Seq(Byte)
    PROVE  NormalizeHost(h \o <<0>> \o t) = h
<1> DEFINE n == Len(h)
           s == h \o <<0>> \o t
           I == {i \in DOMAIN s : s[i] \notin Space}
           x == TrimSpace(s)
<1>1. h \in Seq(Byte) /\ DOMAIN h = 1..n /\ n \in Nat \ {0}
  BY LenProperties, EmptySeq DEF Plain
<1>2. \A i \in 1..n : h[i] \notin Space /\ h[i] # 0
  BY DEF Plain, Marks, Space, DOT
<1> HIDE DEF n
<1>3. /\ s \in Seq(Byte) /\ Len(s) \in Nat /\ n + 1 <= Len(s) /\ DOMAIN s = 1..Len(s)
      /\ \A i \in 1..n : s[i] = h[i]
      /\ s[n + 1] = 0
  <2> DEFINE u == h \o <<0>>
  <2>1. <<0>> \in Seq(Byte) /\ Len(<<0>>) = 1 /\ <<0>>[1] = 0
    BY DEF Byte
  <2>2. /\ u \in Seq(Byte) /\ Len(u) = n + 1 /\ \A i \in 1..n : u[i] = h[i]
        /\ u[n + 1] = 0
    BY <1>1, <2>1, ConcatProperties DEF n
  <2> HIDE DEF u
  <2>3. /\ u \o t \in Seq(Byte) /\ Len(u \o t) = Len(u) + Len(t) /\ Len(t) \in Nat
        /\ \A i \in 1..(Len(u) + Len(t)) : (u \o t)[i] = IF i <= Len(u) THEN u[i] ELSE t[i - Len(u)]
    BY <2>2, ConcatProperties, LenProperties
  <2>4. DOMAIN (u \o t) = 1..Len(u \o t)
    BY <2>3, LenProperties
  <2>5. \A i \in 1..(n + 1) : (u \o t)[i] = u[i]
    BY <1>1, <2>2, <2>3
  <2> QED BY <1>1, <2>2, <2>3, <2>4, <2>5 DEF u
<1> HIDE DEF s
<1>4. /\ I \subseteq 1..Len(s) /\ I \subseteq Int /\ 1 \in I /\ n + 1 \in I
      /\ \A j \in I : 1 <= j
  <2>1. 0 \notin Space
    BY DEF Space
  <2> QED BY <1>1, <1>2, <1>3, <2>1
<1>5. x = SubSeq(s, First(I), Last(I))
  BY <1>4 DEF TrimSpace
<1> HIDE DEF I
<1>6. First(I) = 1 /\ Last(I) \in I /\ n + 1 <= Last(I)
  <2>1. First(I) = 1
    BY <1>4, KnownEnds
  <2>2. Last(I) \in I /\ \A j \in I : j <= Last(I)
    <3>1. \E i \in I : \A j \in I : j <= i
      BY <1>3, <1>4, GreatestOf
    <3> QED BY <3>1 DEF Last
  <2> QED BY <1>4, <2>1, <2>2
<1> DEFINE L == Last(I)
<1>7. /\ L \in 0..Len(s) /\ L \in Nat /\ n + 1 <= L
      /\ x = SubSeq(s, 1, L)
  <2>1. x = SubSeq(s, 1, L) /\ L \in I /\ n + 1 <= L
    BY <1>5, <1>6
  <2> HIDE DEF L, x
  <2> QED BY <1>3, <1>4, <2>1
<1> HIDE DEF L, x
<1>8. /\ x \in Seq(Byte) /\ Len(x) = L /\ \A i \in 1..L : x[i] = s[i]
      /\ DOMAIN x = 1..L
  BY <1>3, <1>7, Splits, LenProperties
<1>9. First(Positions(x, 0)) = n + 1 /\ Positions(x, 0) # {}
  <2>1. n + 1 \in Positions(x, 0)
    BY <1>1, <1>3, <1>7, <1>8 DEF Positions
  <2>2. \A j \in Positions(x, 0) : j \in Int /\ n + 1 <= j
    BY <1>1, <1>2, <1>3, <1>7, <1>8 DEF Positions
  <2>3. Positions(x, 0) \subseteq Int
    BY <2>2
  <2> HIDE DEF Positions
  <2> QED BY <2>1, <2>2, <2>3, KnownEnds
<1>10. CutNul(x) = SubSeq(x, 1, n)
  <2>1. CutNul(x) = SubSeq(x, 1, First(Positions(x, 0)) - 1)
    BY <1>9 DEF CutNul
  <2>2. (n + 1) - 1 = n
    BY <1>1
  <2> QED BY <1>9, <2>1, <2>2
<1>11. SubSeq(x, 1, n) = h
  <2>1. n \in 0..Len(x)
    BY <1>1, <1>7, <1>8
  <2>2. /\ SubSeq(x, 1, n) \in Seq(Byte) /\ Len(SubSeq(x, 1, n)) = n
        /\ \A i \in 1..n : SubSeq(x, 1, n)[i] = x[i]
    BY <1>8, <2>1, Splits
  <2>3. \A i \in 1..n : x[i] = h[i]
    BY <1>1, <1>3, <1>7, <1>8
  <2>4. Len(h) = n
    BY DEF n
  <2> QED BY <1>1, <2>2, <2>3, <2>4, SeqEqual
<1> QED BY <1>10, <1>11, PlainStages DEF NormalizeHost, x, s

-----------------------------------------------------------------------------

\* The file and the stream never change; of a file that was accepted the numbers
\* are those of Load, and the backend is that of the address as it was read.
Loaded ==
    /\ \E c \in Cases : file = c.file /\ stream = c.stream
    /\ pc \notin {"load", "rejected"} =>
          Validate(file) /\ opts = Options(ApplyDefaults(file))
    /\ held # << >> \/ pc \notin {"load", "rejected", "handshake", "closed"} =>
          backend = Resolve(file, NormalizeHost(address))
    /\ pc \in {"load", "rejected", "handshake"} => held = << >>

-----------------------------------------------------------------------------
\* What is true of the file and the numbers stays true.
LEMMA LoadedInvariant == Spec => []Loaded
<1>1. Init => Loaded
  BY DEF Init, Loaded
<1>2. Loaded /\ [Next]_vars => Loaded'
  <2> SUFFICES ASSUME Loaded, [Next]_vars PROVE Loaded' OBVIOUS
  <2> USE DEF Loaded
  <2>1. CASE Load BY <2>1 DEF Load
  <2>2. CASE ReadHandshake
    <3>1. pc = "handshake" /\ file' = file /\ stream' = stream /\ opts' = opts
      BY <2>2 DEF ReadHandshake
    <3>2. CASE Refuse BY <2>2, <3>1, <3>2 DEF Refuse, Close
    <3>3. CASE ~(Packet.err # "none" \/ ParseHandshake(Packet).err # "none")
      <4>1. /\ address' = ParseHandshake(Packet).address
            /\ backend' = Resolve(file, NormalizeHost(ParseHandshake(Packet).address))
            /\ pc' = IF backend' = << >> THEN "closed" ELSE Leads(ParseHandshake(Packet).next)
        BY <2>2, <3>3, Zenon DEF ReadHandshake
      <4>2. pc' \in {"closed", "request", "login"} BY <4>1, Zenon DEF Leads
      <4>3. backend' = Resolve(file', NormalizeHost(address')) BY <3>1, <4>1
      <4> QED BY <3>1, <4>2, <4>3
    <3> QED BY <2>2, <3>2, <3>3 DEF ReadHandshake
  <2>3. CASE BannedAddress BY <2>3 DEF BannedAddress, Close
  <2>4. CASE ReadLogin BY <2>4 DEF ReadLogin, Refuse, Close
  <2>5. CASE ReadRequest BY <2>5 DEF ReadRequest, Refuse, Close
  <2>6. CASE Dial BY <2>6 DEF Dial
  <2>7. CASE Replay BY <2>7 DEF Replay, Close
  <2>8. CASE Forward BY <2>8 DEF Forward
  <2>9. CASE EndSession BY <2>9 DEF EndSession, Close
  <2>10. CASE Response BY <2>10 DEF Response
  <2>11. CASE CachedPing BY <2>11 DEF CachedPing, Close
  <2>12. CASE ProxyPing BY <2>12 DEF ProxyPing, Close
  <2>13. CASE Pong BY <2>13 DEF Pong, Close
  <2>14. CASE Leave BY <2>14 DEF Leave, Close, Reading
  <2>15. CASE UNCHANGED vars BY <2>15 DEF vars
  <2> QED
    BY <2>1, <2>2, <2>3, <2>4, <2>5, <2>6, <2>7, <2>8, <2>9, <2>10, <2>11, <2>12, <2>13,
       <2>14, <2>15 DEF Next
<1> QED BY <1>1, <1>2, PTL DEF Spec

-----------------------------------------------------------------------------
\* The defaults are positive where a default must help out.
LEMMA DefaultNumbers ==
    /\ \A f \in Numbers : Defaults[f] \in Int
    /\ \A f \in GuardNumbers \cup HealthNumbers \cup {"idleTimeout"} :
          f \in Numbers /\ Defaults[f] > 0
    /\ {"maxIdlePerBackend", "maxHandshakeSize", "maxStatusResponseSize"} \subseteq Numbers
BY DEF Numbers, Defaults, GuardNumbers, HealthNumbers

\* Numbers of a file with its defaults are numbers.
LEMMA AppliedNumbers ==
    ASSUME NEW c \in Cases, NEW f \in Numbers
    PROVE  ApplyDefaults(c.file)[f] \in Int
BY CasesAssumption, DefaultNumbers DEF ApplyDefaults

\* What New makes of the numbers of an accepted file is what the components assume.
LEMMA OptionsFit ==
    ASSUME NEW c \in Cases, Validate(c.file)
    PROVE  LET o == Options(ApplyDefaults(c.file))
           IN  /\ \A f \in GuardNumbers \cup HealthNumbers : o[f] \in Int /\ o[f] > 0
               /\ o.maxIdlePerBackend > 0 /\ o.idleTimeout > 0
               /\ o.maxHandshakeSize \in Int /\ o.maxHandshakeSize > 0
               /\ o.maxStatusResponseSize > 0
<1> DEFINE n == ApplyDefaults(c.file)
           o == Options(n)
<1>1. \A f \in Numbers : n[f] \in Int BY AppliedNumbers
<1>2. n.maxHandshakeSize > 0 /\ n.maxStatusResponseSize > 0 /\ \A f \in HealthNumbers : n[f] > 0
  BY DEF Validate, validateBackendHealth
<1> HIDE DEF n
<1>3. ASSUME NEW f \in GuardNumbers \cup {"idleTimeout"} PROVE o[f] \in Int /\ o[f] > 0
  <2>1. o[f] = IF n[f] <= 0 THEN Defaults[f] ELSE n[f]
    BY <1>3, DefaultNumbers DEF Options, GuardNumbers, HealthNumbers, ServerNumbers
  <2> QED BY <1>1, <1>3, <2>1, DefaultNumbers
<1>4. ASSUME NEW f \in HealthNumbers \cup {"maxHandshakeSize", "maxStatusResponseSize"}
      PROVE  o[f] \in Int /\ o[f] > 0
  <2>1. f \in Numbers BY <1>4, DefaultNumbers
  <2>2. n[f] \in Int /\ n[f] > 0 BY <1>1, <1>2, <1>4, <2>1
  <2>3. o[f] = n[f]
    BY <1>4, <2>1, <2>2 DEF Options, GuardNumbers, HealthNumbers, ServerNumbers
  <2> QED BY <2>2, <2>3
<1>5. o.maxIdlePerBackend > 0
  <2>1. n.maxIdlePerBackend \in Int BY <1>1, DefaultNumbers
  <2>2. o.maxIdlePerBackend = IF n.maxIdlePerBackend <= 0 THEN 1 ELSE n.maxIdlePerBackend
    BY DefaultNumbers DEF Options, GuardNumbers, HealthNumbers, ServerNumbers
  <2> QED BY <2>1, <2>2
<1> QED BY <1>3, <1>4, <1>5 DEF n

\* With any file that is accepted the guard, the health record, the pool and the
\* codec work under the assumptions of their modules.
THEOREM AcceptedFits == Spec => []AcceptedFitsModels
<1>1. Loaded => AcceptedFitsModels
  BY OptionsFit DEF Loaded, AcceptedFitsModels
<1> QED BY <1>1, LoadedInvariant, PTL

-----------------------------------------------------------------------------
\* An element of a sequence is one of its values.
LEMMA Element ==
    ASSUME NEW S, NEW s \in Seq(S), NEW i \in DOMAIN s
    PROVE  s[i] \in S
OBVIOUS

\* In an accepted file the name of a route has one entry, and leads to its backend.
LEMMA OneEntry ==
    ASSUME NEW c \in Cases, Validate(c.file), NEW ij \in HostsOf(c.file.routes),
           NEW host, NormalizeHost(host) = NormalizeHost(HostAt(c.file.routes, ij))
    PROVE  Resolve(c.file, host) = c.file.routes[ij[1]].backend
<1> DEFINE routes == c.file.routes
           h == NormalizeHost(host)
<1>1. \A a, b \in HostsOf(routes) :
          /\ NormalizeHost(HostAt(routes, a)) # << >>
          /\ NormalizeHost(HostAt(routes, a)) = NormalizeHost(HostAt(routes, b)) => a = b
  BY DEF Validate, ValidRoutes
<1>2. Entries(routes, h) = {ij}
  BY <1>1 DEF Entries
<1>3. Later(ij, ij)
  <2>1. PICK i \in DOMAIN routes : ij \in {<<i, j>> : j \in DOMAIN routes[i].hosts}
    BY DEF HostsOf
  <2>2. PICK j \in DOMAIN routes[i].hosts : ij = <<i, j>> BY <2>1
  <2>3. routes[i] \in [hosts : Seq(Seq(Byte)), backend : Seq(Byte)]
    <3>1. routes \in Seq([hosts : Seq(Seq(Byte)), backend : Seq(Byte)]) BY CasesAssumption
    <3> QED BY <3>1, Element
  <2>4. j \in Int BY <2>2, <2>3
  <2> QED BY <2>2, <2>4 DEF Later
<1>4. (CHOOSE a \in Entries(routes, h) : \A b \in Entries(routes, h) : Later(a, b)) = ij
  BY <1>2, <1>3
<1> QED BY <1>2, <1>4 DEF Resolve, RouteMap

\* Names lead where the file says, for every file that is accepted.
THEOREM RoutesAreOwn == Spec => []OwnRoute
<1>1. Loaded => OwnRoute
  <2> SUFFICES ASSUME Loaded, pc \notin {"load", "rejected"}, NEW ij \in HostsOf(file.routes),
                      Stable(NormalizeHost(HostAt(file.routes, ij)))
               PROVE  LET b == file.routes[ij[1]].backend
                          h == NormalizeHost(HostAt(file.routes, ij))
                      IN  /\ held # << >> /\ NormalizeHost(address) = h => backend = b
                          /\ ProbeHost(file, b) = h => Resolve(file, ProbeHost(file, b)) = b
    BY DEF OwnRoute
  <2> DEFINE b == file.routes[ij[1]].backend
             h == NormalizeHost(HostAt(file.routes, ij))
  <2>1. Validate(file) /\ \E c \in Cases : file = c.file BY DEF Loaded
  <2>2. NormalizeHost(h) = h BY DEF Stable
  <2> HIDE DEF h
  <2>3. Resolve(file, h) = b BY <2>1, <2>2, OneEntry DEF h
  <2>4. held # << >> /\ NormalizeHost(address) = h => backend = b BY <2>3 DEF Loaded
  <2> QED BY <2>3, <2>4 DEF h
<1> QED BY <1>1, LoadedInvariant, PTL

-----------------------------------------------------------------------------
\* A beginning of a sequence, and what is left when something is taken off it.
LEMMA Beginnings ==
    ASSUME NEW a \in Bytes, NEW b \in Bytes
    PROVE  IsPrefixOf(a, a \o b)
<1>1. a \o b \in Bytes /\ Len(a \o b) = Len(a) + Len(b) BY DEF Bytes
<1>2. SubSeq(a \o b, 1, Len(a)) \in Bytes /\ Len(SubSeq(a \o b, 1, Len(a))) = Len(a)
      /\ \A i \in 1..Len(a) : SubSeq(a \o b, 1, Len(a))[i] = (a \o b)[i]
  <2>1. Len(a) \in 0..Len(a \o b) BY <1>1 DEF Bytes
  <2> QED BY <1>1, <2>1, Splits DEF Bytes
<1>3. \A i \in 1..Len(a) : (a \o b)[i] = a[i] BY DEF Bytes
<1>4. a = SubSeq(a \o b, 1, Len(a)) BY <1>2, <1>3, SeqEqual, Zenon DEF Bytes
<1>5. Len(a) <= Len(a \o b) BY <1>1 DEF Bytes
<1> QED BY <1>4, <1>5 DEF IsPrefixOf

\* A stream that is kept begins with what has been sent of it.
LEMMA KeptStream ==
    ASSUME NEW a \in Bytes, NEW b \in Bytes, NEW c \in Bytes
    PROVE  IsPrefixOf(a, a \o b \o c)
<1>1. b \o c \in Bytes /\ (a \o b) \o c = a \o (b \o c) BY Associative, Closed
<1> QED BY <1>1, Beginnings

\* A packet's bytes and those that are left are the bytes there were.
LEMMA Taken ==
    ASSUME Loaded, pc \notin {"load", "rejected"}, unread \in Bytes, Packet.err = "none"
    PROVE  /\ Packet.raw \in Bytes /\ From(unread, Packet.size + 1) \in Bytes
           /\ Packet.raw \o From(unread, Packet.size + 1) = unread
<1> DEFINE max == opts.maxHandshakeSize
<1>1. max \in Int BY OptionsFit DEF Loaded
<1>2. /\ Packet.raw \in Bytes /\ Packet.size \in 0..Len(unread)
      /\ Packet.raw \o From(unread, Packet.size + 1) = unread
  BY <1>1, PacketsAreVerbatim DEF Packet, Bytes
<1>3. From(unread, Packet.size + 1) \in Bytes BY <1>2, Splits DEF Bytes
<1> QED BY <1>2, <1>3

\* A sequence is empty exactly when its length is 0.
LEMMA Emptiness ==
    ASSUME NEW S, NEW s \in Seq(S)
    PROVE  (s = << >> <=> Len(s) = 0) /\ Len(s) \in Nat
<1>1. s # << >> => Len(s) \in Nat \ {0} BY EmptySeq
<1>2. Len(<< >>) = 0 BY EmptySeq
<1> QED BY <1>1, <1>2

\* No packets, one and two differ in number.
LEMMA HeldLengths ==
    ASSUME NEW h \in Seq(Bytes), Len(h) <= 2
    PROVE  h = << >> \/ (h # << >> /\ Len(h) = 1) \/ (h # << >> /\ Len(h) = 2)
<1>1. (h = << >> <=> Len(h) = 0) /\ Len(h) \in Nat BY Emptiness
<1>2. \A k \in Nat : k <= 2 => k = 0 \/ k = 1 \/ k = 2 OBVIOUS
<1>3. 1 # 0 /\ 2 # 0 OBVIOUS
<1> QED BY <1>1, <1>2, <1>3, Zenon

\* What the handler holds is bytes.
LEMMA HeldIsBytes ==
    ASSUME NEW h \in Seq(Bytes), Len(h) <= 2
    PROVE  Held(h) \in Bytes
<1>1. CASE h = << >> BY <1>1 DEF Held, Bytes
<1>2. CASE h # << >> /\ Len(h) = 1
  <2>1. h[1] \in Bytes BY <1>2, SMT
  <2> QED BY <1>2, <2>1, Zenon DEF Held
<1>3. CASE h # << >> /\ Len(h) = 2
  <2>1. h[1] \in Bytes /\ h[2] \in Bytes BY <1>3, SMT
  <2>2. h[1] \o h[2] \in Bytes BY <2>1, ConcatProperties DEF Bytes
  <2>3. Len(h) # 1 BY <1>3
  <2> QED BY <1>3, <2>2, <2>3, Zenon DEF Held
<1> QED BY <1>1, <1>2, <1>3, HeldLengths

\* A packet that is read is held last.
LEMMA HeldAppended ==
    ASSUME NEW h \in Seq(Bytes), Len(h) <= 1, NEW r \in Bytes
    PROVE  /\ Append(h, r) \in Seq(Bytes) /\ Len(Append(h, r)) = Len(h) + 1
           /\ Append(h, r) # << >>
           /\ Held(Append(h, r)) = Held(h) \o r
<1>1. /\ Append(h, r) \in Seq(Bytes) /\ Len(Append(h, r)) = Len(h) + 1
      /\ Append(h, r) # << >>
  BY AppendProperties
<1>2. CASE h = << >>
  <2>1. Append(h, r) = <<r>> /\ Len(<<r>>) = 1 /\ <<r>>[1] = r /\ <<r>> # << >> BY <1>2
  <2>2. Held(Append(h, r)) = r BY <2>1, Zenon DEF Held
  <2>3. Held(h) \o r = r BY <1>2, ConcatEmptySeq DEF Held, Bytes
  <2> QED BY <1>1, <2>2, <2>3
<1>3. CASE h # << >> /\ Len(h) = 1
  <2>1. Len(Append(h, r)) = 2 BY <1>1, <1>3, SMT
  <2>2. Append(h, r)[1] = h[1]
    <3>1. 1 \in 1..Len(h) BY <1>3, SMT
    <3> QED BY <3>1, AppendProperties
  <2>3. Append(h, r)[2] = r
    <3>1. Append(h, r)[Len(h) + 1] = r BY AppendProperties
    <3> QED BY <1>3, <3>1, SMT
  <2>4. Len(Append(h, r)) # 1 BY <2>1
  <2>5. Held(Append(h, r)) = h[1] \o r BY <1>1, <2>2, <2>3, <2>4, Zenon DEF Held
  <2>6. Held(h) = h[1] BY <1>3, Zenon DEF Held
  <2> QED BY <1>1, <2>5, <2>6
<1> QED BY <1>2, <1>3, HeldLengths

\* A packet that is replayed was held first.
LEMMA HeldTail ==
    ASSUME NEW h \in Seq(Bytes), Len(h) <= 2, h # << >>
    PROVE  /\ Head(h) \in Bytes
           /\ Tail(h) \in Seq(Bytes) /\ Len(Tail(h)) = Len(h) - 1
           /\ Held(h) = Head(h) \o Held(Tail(h))
<1>1. Head(h) \in Bytes /\ Tail(h) \in Seq(Bytes) /\ Len(Tail(h)) = Len(h) - 1
  BY HeadTailProperties
<1>2. Head(h) = h[1] BY SMT
<1>3. CASE Len(h) = 1
  <2>1. Len(Tail(h)) = 0 BY <1>1, <1>3, SMT
  <2>2. Tail(h) = << >> BY <1>1, <2>1, Emptiness
  <2>3. Held(Tail(h)) = << >> BY <2>2 DEF Held
  <2>4. Held(h) = h[1] BY <1>3, Zenon DEF Held
  <2> QED BY <1>1, <1>2, <2>3, <2>4, ConcatEmptySeq DEF Bytes
<1>4. CASE Len(h) = 2
  <2>1. Len(Tail(h)) = 1 BY <1>1, <1>4, SMT
  <2>2. Tail(h) # << >>
    <3>1. Len(Tail(h)) # 0 BY <2>1
    <3> QED BY <1>1, <3>1, Emptiness
  <2>3. Tail(h)[1] = h[2]
    <3>1. \A i \in 1..Len(Tail(h)) : Tail(h)[i] = h[i + 1] BY HeadTailProperties
    <3>2. \A i \in 1..1 : Tail(h)[i] = h[i + 1] BY <2>1, <3>1, Zenon
    <3>3. 1 \in 1..1 /\ 1 + 1 = 2 OBVIOUS
    <3> QED BY <3>2, <3>3, Zenon
  <2>4. Held(Tail(h)) = h[2] BY <2>1, <2>2, <2>3, Zenon DEF Held
  <2>5. Len(h) # 1 BY <1>4
  <2>6. Held(h) = h[1] \o h[2] BY <2>5, Zenon DEF Held
  <2> QED BY <1>1, <1>2, <2>4, <2>6
<1> QED BY <1>1, <1>3, <1>4, HeldLengths

-----------------------------------------------------------------------------
\* Nothing is held where the client's bytes go straight on.
Sent == pc \in {"pipe", "response", "ping", "pong"} => held = << >>

Flow == TypeOK /\ Sent /\ BackendGetsTheStream

\* In the flow everything is bytes.
LEMMA FlowTypes ==
    ASSUME Flow
    PROVE  /\ unread \in Bytes /\ got \in Bytes /\ held \in Seq(Bytes) /\ Len(held) <= 2
           /\ Held(held) \in Bytes
<1>1. unread \in Bytes /\ got \in Bytes /\ held \in Seq(Bytes) /\ Len(held) <= 2
  BY DEF Flow, TypeOK, Bytes
<1> QED BY <1>1, HeldIsBytes

\* A step that moves no byte keeps the flow.
LEMMA StillFlow ==
    ASSUME Flow, pc # "closed", UNCHANGED <<opts, stream, unread, held, got>>, pc' \in Places,
           pc' \in {"login", "request"} => Len(held) = 1,
           pc' \in {"dialLogin", "dialStatus"} => Len(held) = 2,
           pc' \notin {"load", "rejected"} => DOMAIN opts = Numbers,
           pc' \in {"replayLogin", "replayStatus"} => held # << >>,
           pc' \in {"pipe", "response", "ping", "pong"} => held = << >>
    PROVE  Flow'
<1>1. TypeOK' BY DEF Flow, TypeOK
<1>2. BackendGetsTheStream' BY DEF Flow, BackendGetsTheStream, IsPrefixOf
<1>3. Sent' BY DEF Sent
<1> QED BY <1>1, <1>2, <1>3 DEF Flow

\* A packet that is kept is taken from what was unread.
LEMMA KeptFlow ==
    ASSUME Loaded, Flow, pc \in {"handshake", "login", "request"}, Packet.err = "none", Take, Keep,
           UNCHANGED <<opts, stream, got>>, pc' \in Places \ {"load", "rejected"},
           pc' \in {"login", "request"} => Len(held) = 0,
           pc' \in {"dialLogin", "dialStatus"} => Len(held) = 1,
           pc' \notin {"pipe", "response", "ping", "pong", "replayLogin", "replayStatus"},
           Len(held) <= 1
    PROVE  Flow'
<1>1. /\ Packet.raw \in Bytes /\ unread' \in Bytes /\ Packet.raw \o unread' = unread
  BY FlowTypes, Taken DEF Take
<1>2. /\ held' \in Seq(Bytes) /\ Len(held') = Len(held) + 1 /\ held' # << >>
      /\ Held(held') = Held(held) \o Packet.raw
  BY <1>1, FlowTypes, HeldAppended DEF Keep
<1>3. TypeOK'
  <2>1. Len(held) \in Nat BY FlowTypes, Emptiness
  <2> QED BY <1>1, <1>2, <2>1 DEF Flow, TypeOK, Bytes
<1>4. got \o Held(held) \o unread = stream BY DEF Flow, BackendGetsTheStream
<1>5. got' \o Held(held') \o unread' = stream'
  <2>1. (got \o Held(held)) \o Packet.raw = got \o (Held(held) \o Packet.raw)
    BY <1>1, FlowTypes, Associative
  <2>2. got \o Held(held) \in Bytes BY FlowTypes, ConcatProperties DEF Bytes
  <2>3. ((got \o Held(held)) \o Packet.raw) \o unread'
          = (got \o Held(held)) \o (Packet.raw \o unread')
    BY <1>1, <2>2, Associative
  <2> QED BY <1>1, <1>2, <1>4, <2>1, <2>3
<1>6. BackendGetsTheStream' BY <1>5 DEF Flow, BackendGetsTheStream, IsPrefixOf
<1>7. Sent' BY DEF Sent
<1> QED BY <1>3, <1>6, <1>7 DEF Flow

\* Where sending breaks off, the backend has a beginning.
LEMMA PartSent ==
    ASSUME NEW a \in Bytes, NEW b \in Bytes, NEW c \in Bytes, NEW n \in 0..Len(b)
    PROVE  IsPrefixOf(a \o SubSeq(b, 1, n), a \o (b \o c))
<1> DEFINE b1 == SubSeq(b, 1, n)
           b2 == From(b, n + 1)
<1>1. b1 \in Bytes /\ b2 \in Bytes /\ b1 \o b2 = b BY Splits DEF Bytes
<1> HIDE DEF b1, b2
<1>2. b2 \o c \in Bytes /\ a \o b1 \in Bytes BY <1>1, ConcatProperties DEF Bytes
<1>3. (b1 \o b2) \o c = b1 \o (b2 \o c) BY <1>1, Associative
<1>4. \A d \in Bytes : (a \o b1) \o d = a \o (b1 \o d) BY <1>1, Associative
<1>5. IsPrefixOf(a \o b1, (a \o b1) \o (b2 \o c)) BY <1>2, Beginnings
<1> QED BY <1>1, <1>2, <1>3, <1>4, <1>5, Zenon DEF b1

\* What is piped follows what was sent before it.
LEMMA StraightOn ==
    ASSUME Flow, pc \in {"pipe", "ping"}
    PROVE  held = << >> /\ got \o unread = stream
<1>1. held = << >> BY DEF Flow, Sent
<1>2. (got \o Held(held)) \o unread = stream BY DEF Flow, BackendGetsTheStream
<1>3. got \o << >> = got BY FlowTypes, ConcatEmptySeq DEF Bytes
<1>4. Held(held) = << >> BY <1>1 DEF Held
<1> QED BY <1>1, <1>2, <1>3, <1>4, Zenon

\* What is sent straight on is taken from the front of what was unread.
LEMMA SentOn ==
    ASSUME Flow, pc \in {"pipe", "ping"}, pc' \in {"pipe", "pong"},
           UNCHANGED <<opts, stream, held>>,
           NEW b \in Bytes, got' = got \o b, unread' \in Bytes, b \o unread' = unread
    PROVE  Flow'
<1>1. held = << >> /\ got \o unread = stream BY StraightOn
<1>2. got' \in Bytes BY FlowTypes, Closed
<1>3. TypeOK' BY <1>1, <1>2 DEF Flow, TypeOK, Places, Reading, Bytes
<1>4. got' \o Held(held') \o unread' = stream'
  <2>1. Held(held') = << >> BY <1>1 DEF Held
  <2>2. got' \o << >> = got' BY <1>2, ConcatEmptySeq DEF Bytes
  <2>3. (got \o b) \o unread' = got \o (b \o unread') BY FlowTypes, Associative
  <2> QED BY <1>1, <2>1, <2>2, <2>3, Zenon
<1>5. IsPrefixOf(got', stream')
  <2>1. (got \o b) \o unread' = stream BY <1>1, FlowTypes, Associative
  <2>2. IsPrefixOf(got', got' \o unread') BY <1>2, Beginnings
  <2> QED BY <2>1, <2>2, Zenon
<1>6. Sent' BY <1>1 DEF Sent
<1> QED BY <1>3, <1>4, <1>5, <1>6 DEF Flow, BackendGetsTheStream

\* Every step keeps the flow.
LEMMA FlowInvariant == Spec => []Flow
<1>1. Init => Flow
  <2> SUFFICES ASSUME Init PROVE Flow OBVIOUS
  <2>1. stream \in Bytes /\ unread = stream /\ got = << >> /\ held = << >> /\ pc = "load"
    BY CasesAssumption DEF Init, Bytes
  <2>2. << >> \in Bytes /\ << >> \in Seq(Bytes) /\ Len(<< >>) = 0 BY DEF Bytes
  <2>3. TypeOK BY <2>1, <2>2 DEF TypeOK, Bytes, Places
  <2>4. << >> \o stream = stream BY <2>1, ConcatEmptySeq DEF Bytes
  <2>5. got \o Held(held) \o unread = stream
    <3>1. Held(held) = << >> BY <2>1 DEF Held
    <3>2. << >> \o << >> = << >> BY <2>2, ConcatEmptySeq DEF Bytes
    <3> QED BY <2>1, <2>4, <3>1, <3>2
  <2>6. IsPrefixOf(got, stream) BY <2>1, <2>2, <2>4, Beginnings
  <2> QED BY <2>1, <2>3, <2>5, <2>6 DEF Flow, Sent, BackendGetsTheStream
<1>2. Loaded /\ Flow /\ [Next]_vars => Flow'
  <2> SUFFICES ASSUME Loaded, Flow, [Next]_vars PROVE Flow' OBVIOUS
  <2>0. /\ pc \in {"login", "request"} => Len(held) = 1
        /\ pc \in {"dialLogin", "dialStatus"} => Len(held) = 2
        /\ pc \notin {"load", "rejected"} => DOMAIN opts = Numbers
        /\ pc \in {"replayLogin", "replayStatus"} => held # << >>
        /\ pc \in {"pipe", "response", "ping", "pong"} => held = << >>
    BY DEF Flow, TypeOK, Sent
  <2>1. CASE Load
    <3>1. pc = "load" /\ pc' \in {"handshake", "rejected"} BY <2>1 DEF Load
    <3>2. pc' = "handshake" => DOMAIN opts' = Numbers BY <2>1 DEF Load, Options
    <3>3. UNCHANGED <<stream, unread, held, got>> BY <2>1 DEF Load
    <3>4. TypeOK' BY <3>1, <3>2, <3>3 DEF Flow, TypeOK, Places, Reading
    <3>5. BackendGetsTheStream' BY <3>1, <3>3 DEF Flow, BackendGetsTheStream, IsPrefixOf
    <3>6. Sent' BY <3>1 DEF Sent
    <3> QED BY <3>4, <3>5, <3>6 DEF Flow
  <2>2. CASE ReadHandshake
    <3>1. pc = "handshake" /\ UNCHANGED <<stream, opts, got>> BY <2>2 DEF ReadHandshake
    <3>2. held = << >> BY <3>1 DEF Loaded
    <3>3. CASE Refuse
      BY <2>0, <3>1, <3>3, StillFlow DEF Refuse, Close, Places
    <3>4. CASE ~(Packet.err # "none" \/ ParseHandshake(Packet).err # "none")
      <4>1. Take /\ Keep /\ Packet.err = "none" BY <2>2, <3>4 DEF ReadHandshake
      <4>2. pc' \in {"closed", "request", "login"}
        BY <2>2, <3>4, Zenon DEF ReadHandshake, Leads
      <4>3. Len(held) = 0 BY <3>2
      <4> QED BY <3>1, <4>1, <4>2, <4>3, KeptFlow DEF Places, Reading
    <3> QED BY <2>2, <3>3, <3>4 DEF ReadHandshake
  <2>3. CASE BannedAddress
    BY <2>0, <2>3, StillFlow DEF BannedAddress, Close, Places
  <2>4. CASE ReadLogin
    <3>1. pc = "login" /\ UNCHANGED <<stream, opts, got>> BY <2>4 DEF ReadLogin
    <3>2. CASE Refuse BY <2>0, <3>1, <3>2, StillFlow DEF Refuse, Close, Places
    <3>3. CASE Packet.err = "none"
      <4>1. Take /\ Keep /\ pc' \in {"dialLogin", "closed"}
        BY <2>4, <3>3 DEF ReadLogin, Close
      <4>2. Len(held) = 1 /\ Len(held) <= 1
        <5>1. Len(held) = 1 BY <2>0, <3>1
        <5>2. 1 <= 1 OBVIOUS
        <5> QED BY <5>1, <5>2, Zenon
      <4>3. pc' \in Places \ {"load", "rejected"} BY <4>1 DEF Places
      <4> QED BY <3>1, <3>3, <4>1, <4>2, <4>3, KeptFlow
    <3> QED BY <2>4, <3>2, <3>3 DEF ReadLogin
  <2>5. CASE ReadRequest
    <3>1. pc = "request" /\ UNCHANGED <<stream, opts, got>> BY <2>5 DEF ReadRequest
    <3>2. CASE Refuse BY <2>0, <3>1, <3>2, StillFlow DEF Refuse, Close, Places
    <3>3. CASE Packet.err = "none" /\ Packet.id = StatusRequestPacketID
      <4>1. Take /\ Keep /\ pc' \in {"cachedPing", "closed", "dialStatus"}
        BY <2>5, <3>3 DEF ReadRequest
      <4>2. Len(held) = 1 /\ Len(held) <= 1
        <5>1. Len(held) = 1 BY <2>0, <3>1
        <5>2. 1 <= 1 OBVIOUS
        <5> QED BY <5>1, <5>2, Zenon
      <4>3. pc' \in Places \ {"load", "rejected"} BY <4>1 DEF Places, Reading
      <4> QED BY <3>1, <3>3, <4>1, <4>2, <4>3, KeptFlow
    <3> QED BY <2>5, <3>2, <3>3 DEF ReadRequest
  <2>6. CASE Dial
    <3>1. pc' \in {"replayLogin", "closed", "replayStatus", "cachedPing"}
          /\ pc \in {"dialLogin", "dialStatus"}
          /\ UNCHANGED <<opts, stream, unread, held, got>>
      BY <2>6 DEF Dial
    <3>2. held # << >>
      <4>1. Len(held) # 0 BY <2>0, <3>1
      <4> QED BY <4>1, FlowTypes, Emptiness
    <3> QED BY <2>0, <3>1, <3>2, StillFlow DEF Places, Reading
  <2>7. CASE Replay
    <3>1. pc \in {"replayLogin", "replayStatus"} /\ UNCHANGED <<opts, stream, unread>>
      BY <2>7 DEF Replay
    <3> DEFINE first == Head(held)
               later == Tail(held)
    <3>2. /\ held # << >> /\ first \in Bytes /\ later \in Seq(Bytes)
          /\ Len(later) = Len(held) - 1 /\ Held(held) = first \o Held(later)
      BY <2>0, <3>1, FlowTypes, HeldTail
    <3> HIDE DEF first, later
    <3>3. Len(held) \in Nat /\ Len(held) <= 2 /\ Len(later) <= 2
      BY <3>2, FlowTypes, Emptiness
    <3>4. Held(later) \in Bytes BY <3>2, <3>3, HeldIsBytes
    <3>5. (got \o (first \o Held(later))) \o unread = stream
      BY <3>1, <3>2 DEF Flow, BackendGetsTheStream
    <3>6. CASE got' = got \o first /\ held' = later
               /\ pc' \in {pc, "pipe", "response"}
               /\ (held' # << >> <=> pc' = pc)
      <4>1. got' \in Bytes BY <3>2, <3>6, FlowTypes, Closed
      <4>2. TypeOK'
        BY <2>0, <3>1, <3>2, <3>3, <3>6, <4>1, FlowTypes DEF Flow, TypeOK, Places, Reading, Bytes
      <4>3. Sent' BY <3>1, <3>6 DEF Sent
      <4>4. (got \o first) \o Held(later) = got \o (first \o Held(later))
        BY <3>2, <3>4, FlowTypes, Associative
      <4>5. got' \o Held(held') \o unread' = stream' BY <3>1, <3>5, <3>6, <4>4, Zenon
      <4>6. IsPrefixOf(got', stream')
        <5>1. got' \in Bytes /\ Held(held') \in Bytes /\ unread' \in Bytes
          BY <3>1, <3>4, <3>6, <4>1, FlowTypes
        <5> QED BY <5>1, <4>5, KeptStream
      <4> QED BY <4>2, <4>3, <4>5, <4>6 DEF Flow, BackendGetsTheStream
    <3>7. CASE /\ \E n \in 0..(Len(first) - 1) : got' = got \o SubSeq(first, 1, n)
               /\ Close /\ UNCHANGED held
      <4>1. PICK n \in 0..(Len(first) - 1) : got' = got \o SubSeq(first, 1, n) BY <3>7
      <4>2. n \in 0..Len(first)
        <5>1. Len(first) \in Nat BY <3>2, Emptiness DEF Bytes
        <5> QED BY <5>1
      <4>3. SubSeq(first, 1, n) \in Bytes BY <3>2, <4>2, Splits DEF Bytes
      <4>4. got' \in Bytes BY <4>1, <4>3, FlowTypes, Closed
      <4>5. TypeOK' BY <3>1, <3>7, <4>4, FlowTypes DEF Flow, TypeOK, Places, Close, Bytes
      <4>6. Sent' BY <3>7 DEF Sent, Close
      <4>7. IsPrefixOf(got', stream')
        <5>1. (got \o (first \o Held(later))) \o unread = got \o ((first \o Held(later)) \o unread)
          <6>1. first \o Held(later) \in Bytes BY <3>2, <3>4, Closed
          <6> QED BY <6>1, FlowTypes, Associative
        <5>2. (first \o Held(later)) \o unread = first \o (Held(later) \o unread)
          BY <3>2, <3>4, FlowTypes, Associative
        <5>3. Held(later) \o unread \in Bytes BY <3>4, FlowTypes, Closed
        <5>4. IsPrefixOf(got \o SubSeq(first, 1, n), got \o (first \o (Held(later) \o unread)))
          BY <3>2, <4>2, <5>3, FlowTypes, PartSent
        <5> QED BY <3>1, <3>5, <4>1, <5>1, <5>2, <5>4, Zenon
      <4> QED BY <3>7, <4>5, <4>6, <4>7 DEF Flow, BackendGetsTheStream, Close
    <3>8. CASE /\ got' = got \o first /\ held' = later
               /\ pc' = IF held' # << >> THEN pc
                        ELSE IF pc = "replayLogin" THEN "pipe" ELSE "response"
      BY <3>1, <3>6, <3>8
    <3> QED BY <2>7, <3>7, <3>8 DEF Replay, first, later
  <2>8. CASE Forward
    <3>1. pc = "pipe" /\ UNCHANGED <<stream, opts, held, pc>> BY <2>8 DEF Forward
    <3>2. PICK n \in 1..Len(unread) :
             got' = got \o SubSeq(unread, 1, n) /\ unread' = From(unread, n + 1)
      BY <2>8 DEF Forward
    <3>3. n \in 0..Len(unread) OBVIOUS
    <3>4. /\ SubSeq(unread, 1, n) \in Bytes /\ unread' \in Bytes
          /\ SubSeq(unread, 1, n) \o unread' = unread
      BY <3>2, <3>3, FlowTypes, Splits DEF Bytes
    <3> QED BY <2>0, <3>1, <3>2, <3>4, SentOn
  <2>11. CASE CachedPing
    <3>1. pc = "cachedPing" /\ pc' = "closed" /\ UNCHANGED <<stream, opts, held, got>>
      BY <2>11 DEF CachedPing, Close
    <3>2. unread' \in Bytes
      BY <2>11, <3>1, FlowTypes, Taken DEF CachedPing, Take
    <3>3. TypeOK' BY <3>1, <3>2 DEF Flow, TypeOK, Places, Bytes
    <3>4. BackendGetsTheStream' BY <3>1 DEF Flow, BackendGetsTheStream, IsPrefixOf
    <3> QED BY <3>1, <3>3, <3>4 DEF Flow, Sent
  <2>12. CASE ProxyPing
    <3>1. pc = "ping" /\ UNCHANGED <<stream, opts, held>> BY <2>12 DEF ProxyPing
    <3>2. CASE Packet.err # "none"
      <4>1. UNCHANGED <<opts, stream, unread, held, got>> /\ pc' = "closed"
        BY <2>12, <3>2 DEF ProxyPing, Close
      <4>2. pc' \in Places BY <4>1 DEF Places
      <4> QED BY <2>0, <3>1, <4>1, <4>2, StillFlow
    <3>3. CASE Packet.err = "none" /\ got' = got \o Packet.raw /\ pc' = "pong"
      <4>1. /\ Packet.raw \in Bytes /\ unread' \in Bytes /\ Packet.raw \o unread' = unread
        BY <2>12, <3>1, <3>3, FlowTypes, Taken DEF ProxyPing, Take
      <4> QED BY <2>0, <3>1, <3>3, <4>1, SentOn
    <3>4. CASE /\ Packet.err = "none" /\ pc' = "closed"
               /\ \E n \in 0..(Len(Packet.raw) - 1) : got' = got \o SubSeq(Packet.raw, 1, n)
      <4>1. /\ Packet.raw \in Bytes /\ unread' \in Bytes /\ Packet.raw \o unread' = unread
        BY <2>12, <3>1, <3>4, FlowTypes, Taken DEF ProxyPing, Take
      <4>2. PICK n \in 0..(Len(Packet.raw) - 1) : got' = got \o SubSeq(Packet.raw, 1, n)
        BY <3>4
      <4>3. n \in 0..Len(Packet.raw)
        <5>1. Len(Packet.raw) \in Nat BY <4>1, Emptiness DEF Bytes
        <5> QED BY <5>1
      <4>4. SubSeq(Packet.raw, 1, n) \in Bytes BY <4>1, <4>3, Splits DEF Bytes
      <4>5. got' \in Bytes BY <4>2, <4>4, FlowTypes, Closed
      <4>6. TypeOK' BY <3>1, <3>4, <4>1, <4>5 DEF Flow, TypeOK, Places, Bytes
      <4>7. got \o unread = stream BY <2>0, <3>1, StraightOn
      <4>8. IsPrefixOf(got', stream')
        <5>1. IsPrefixOf(got \o SubSeq(Packet.raw, 1, n), got \o (Packet.raw \o unread'))
          BY <4>1, <4>3, FlowTypes, PartSent
        <5> QED BY <3>1, <4>1, <4>2, <4>7, <5>1, Zenon
      <4> QED BY <3>4, <4>6, <4>8 DEF Flow, Sent, BackendGetsTheStream
    <3> QED BY <2>12, <3>2, <3>3, <3>4 DEF ProxyPing, Close
  <2>9. CASE EndSession BY <2>0, <2>9, StillFlow DEF EndSession, Close, Places
  <2>10. CASE Response BY <2>0, <2>10, StillFlow DEF Response, Places, Reading
  <2>13. CASE Pong BY <2>0, <2>13, StillFlow DEF Pong, Close, Places
  <2>14. CASE Leave BY <2>0, <2>14, StillFlow DEF Leave, Close, Places, Reading
  <2>15. CASE UNCHANGED vars
    BY <2>15 DEF vars, Flow, TypeOK, Sent, BackendGetsTheStream, IsPrefixOf
  <2> QED
    BY <2>1, <2>2, <2>3, <2>4, <2>5, <2>6, <2>7, <2>8, <2>9, <2>10,
       <2>11, <2>12, <2>13, <2>14, <2>15 DEF Next
<1> QED BY <1>1, <1>2, LoadedInvariant, PTL DEF Spec

\* For every file and every stream, whatever is cut off where: what the backend is
\* sent is the stream of the client, or, once the connection is closed, a beginning
\* of it.
THEOREM StreamIsKept == Spec => []BackendGetsTheStream
<1>1. Flow => BackendGetsTheStream BY DEF Flow
<1> QED BY <1>1, FlowInvariant, PTL

\* The handlers have the packets they go on to replay.
THEOREM IngressTypes == Spec => []TypeOK
<1>1. Flow => TypeOK BY DEF Flow
<1> QED BY <1>1, FlowInvariant, PTL
=============================================================================
