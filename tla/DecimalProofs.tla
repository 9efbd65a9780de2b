--------------------------- MODULE DecimalProofs ---------------------------
(***************************************************************************)
(* What decimal.c makes of the bytes MySQL stores a DECIMAL in, for every  *)
(* precision, scale and value whose numbers fit a long.                    *)
(***************************************************************************)
EXTENDS ColumnValuesProofs, FoldProofs, SequenceTheorems

(***************************************************************************)
(* A group of bytes, and its number.                                       *)
(***************************************************************************)

LEMMA ByteIs == \A x : x \in Byte <=> x \in Int /\ 0 <= x /\ x <= 255
BY SMT DEF Byte

LEMMA BytesAreInts ==
  ASSUME NEW b \in Seq(Byte)
  PROVE  \A i \in 1 .. Len(b) :
           b[i] \in Byte /\ b[i] \in Int /\ 0 <= b[i] /\ b[i] <= 255
<1>1. \A i \in 1 .. Len(b) : b[i] \in Byte
  OBVIOUS
<1>. QED
  BY <1>1, ByteIs

\* The bytes of a negative number are complemented.
Masked(b, negative) == IF negative THEN [i \in DOMAIN b |-> 255 - b[i]] ELSE b

LEMMA MaskedBytes ==
  ASSUME NEW b \in Seq(Byte), NEW negative \in BOOLEAN
  PROVE  /\ Masked(b, negative) \in Seq(Byte)
         /\ Len(Masked(b, negative)) = Len(b)
         /\ \A i \in 1 .. Len(b) :
              /\ b[i] \in Byte
              /\ Masked(b, negative)[i] = IF negative THEN 255 - b[i] ELSE b[i]
<1>1. \A i \in 1 .. Len(b) : b[i] \in Byte /\ 255 - b[i] \in Byte
  <2>1. ASSUME NEW i \in 1 .. Len(b)
        PROVE  255 - b[i] \in Int /\ 0 <= 255 - b[i] /\ 255 - b[i] <= 255
    BY BytesAreInts, SMT
  <2>. QED
    BY <2>1, BytesAreInts, ByteIs
<1>2. CASE negative
  <2>. DEFINE m == [i \in 1 .. Len(b) |-> 255 - b[i]]
  <2>1. Masked(b, negative) = m
    BY <1>2 DEF Masked
  <2>2. m \in Seq(Byte) /\ Len(m) = Len(b) /\ \A i \in 1 .. Len(b) : m[i] = 255 - b[i]
    BY <1>1, SMT
  <2>. HIDE DEF m
  <2>. QED
    BY <1>1, <1>2, <2>1, <2>2
<1>3. CASE ~negative
  BY <1>1, <1>3 DEF Masked
<1>. QED
  BY <1>2, <1>3

LEMMA MaskedPart ==
  ASSUME NEW b \in Seq(Byte), NEW negative \in BOOLEAN,
         NEW m \in Nat \ {0}, NEW n \in Nat, n <= Len(b)
  PROVE  SubSeq(Masked(b, negative), m, n) = Masked(SubSeq(b, m, n), negative)
<1>1. CASE negative
  <2>1. SubSeq(b, m, n) = [i \in 1 .. n - m + 1 |-> b[m + i - 1]]
    BY SMT
  <2>2. SubSeq([i \in 1 .. Len(b) |-> 255 - b[i]], m, n)
          = [i \in 1 .. n - m + 1 |-> 255 - b[m + i - 1]]
    BY SMT
  <2>3. DOMAIN SubSeq(b, m, n) = 1 .. n - m + 1
        /\ \A i \in 1 .. n - m + 1 : SubSeq(b, m, n)[i] = b[m + i - 1]
    BY <2>1
  <2>. QED
    BY <1>1, <2>2, <2>3 DEF Masked
<1>2. CASE ~negative
  BY <1>2 DEF Masked
<1>. QED
  BY <1>1, <1>2

\* Up to four bytes, the first with its sign.
LEMMA NumberOfBytes ==
  ASSUME NEW b \in Seq(Byte)
  PROVE  /\ Len(b) = 0 => BigEndianNumber(b) = 0
         /\ Len(b) = 1 => BigEndianNumber(b) = SignedChar(b[1])
         /\ Len(b) = 2 => BigEndianNumber(b) = 256 * SignedChar(b[1]) + b[2]
         /\ Len(b) = 3 => BigEndianNumber(b) = 65536 * SignedChar(b[1]) + 256 * b[2] + b[3]
         /\ Len(b) = 4 => BigEndianNumber(b) = 16777216 * SignedChar(b[1]) + 65536 * b[2]
                                                + 256 * b[3] + b[4]
<1>1. \A i \in 1 .. Len(b) : b[i] \in Int /\ 0 <= b[i] /\ b[i] <= 255
  BY BytesAreInts
<1>2. Len(b) \in Nat
  OBVIOUS
<1>. DEFINE top == [i \in 1 .. 4 |-> IF i <= Len(b) THEN b[i] ELSE 0]
<1>3. BigEndianNumber(b) = Swapped4(top) \div (<<1, 16777216, 65536, 256, 1>>)[Len(b) + 1]
  BY DEF BigEndianNumber, TopOfInt
<1>4. Len(b) = 0 => BigEndianNumber(b) = 0
  BY <1>3, SMT DEF Swapped4, SignedChar
<1>5. ASSUME Len(b) = 1
      PROVE  BigEndianNumber(b) = SignedChar(b[1])
  <2>1. top[1] = b[1] /\ top[2] = 0 /\ top[3] = 0 /\ top[4] = 0
    BY <1>5
  <2>2. SignedChar(b[1]) \in Int
    BY <1>1, <1>5, SMT DEF SignedChar
  <2>. HIDE DEF top
  <2>. QED
    BY <1>3, <1>5, <2>1, <2>2, SMT DEF Swapped4
<1>6. ASSUME Len(b) = 2
      PROVE  BigEndianNumber(b) = 256 * SignedChar(b[1]) + b[2]
  <2>1. top[1] = b[1] /\ top[2] = b[2] /\ top[3] = 0 /\ top[4] = 0
    BY <1>6
  <2>2. SignedChar(b[1]) \in Int /\ b[2] \in Int
    BY <1>1, <1>6, SMT DEF SignedChar
  <2>. DEFINE n == 256 * SignedChar(b[1]) + b[2]
  <2>3. n \in Int /\ Swapped4(top) = 65536 * n
    BY <2>1, <2>2, SMT DEF Swapped4
  <2>. HIDE DEF top, n
  <2>4. (65536 * n) \div 65536 = n
    BY <2>3, SMT
  <2>. QED
    BY <1>3, <1>6, <2>3, <2>4, SMT DEF n
<1>7. ASSUME Len(b) = 3
      PROVE  BigEndianNumber(b) = 65536 * SignedChar(b[1]) + 256 * b[2] + b[3]
  <2>1. top[1] = b[1] /\ top[2] = b[2] /\ top[3] = b[3] /\ top[4] = 0
    BY <1>7
  <2>2. SignedChar(b[1]) \in Int /\ b[2] \in Int /\ b[3] \in Int
    BY <1>1, <1>7, SMT DEF SignedChar
  <2>. DEFINE n == 65536 * SignedChar(b[1]) + 256 * b[2] + b[3]
  <2>3. n \in Int /\ Swapped4(top) = 256 * n
    <3>. DEFINE x == SignedChar(b[1])
                y == b[2]
                z == b[3]
    <3>1. Swapped4(top) = 16777216 * x + 65536 * y + 256 * z + 0
      BY <2>1 DEF Swapped4
    <3>2. n = 65536 * x + 256 * y + z
      OBVIOUS
    <3>3. x \in Int /\ y \in Int /\ z \in Int
      BY <2>2
    <3>. HIDE DEF top, n, x, y, z
    <3>. QED
      BY <3>1, <3>2, <3>3, SMT
  <2>. HIDE DEF top, n
  <2>4. (256 * n) \div 256 = n
    BY <2>3, SMT
  <2>. QED
    BY <1>3, <1>7, <2>3, <2>4, SMT DEF n
<1>8. ASSUME Len(b) = 4
      PROVE  BigEndianNumber(b) = 16777216 * SignedChar(b[1]) + 65536 * b[2]
                                    + 256 * b[3] + b[4]
  <2>1. top[1] = b[1] /\ top[2] = b[2] /\ top[3] = b[3] /\ top[4] = b[4]
    BY <1>8
  <2>2. SignedChar(b[1]) \in Int /\ b[2] \in Int /\ b[3] \in Int /\ b[4] \in Int
    BY <1>1, <1>8, SMT DEF SignedChar
  <2>. HIDE DEF top
  <2>. QED
    BY <1>3, <1>8, <2>1, <2>2, SMT DEF Swapped4
<1>. QED
  BY <1>4, <1>5, <1>6, <1>7, <1>8

\* What so many bytes hold with the top bit 0.
Holds(len) == (<<127, 32767, 8388607, 2147483647>>)[len]

LEMMA GroupBytes ==
  ASSUME NEW v \in Nat, NEW len \in 1 .. 4, v <= Holds(len)
  PROVE  /\ BigEndian(v, len) \in Seq(Byte)
         /\ Len(BigEndian(v, len)) = len
         /\ BigEndian(v, len)[1] < 128
<1>1. \A u \in {1, 256, 65536, 16777216} : Digit(v, u) \in Byte
  BY DigitIsByte, ByteIs
<1>2. \A i \in 1 .. len : BigEndian(v, len)[i]
                            = Digit(v, (<<1, 256, 65536, 16777216>>)[len + 1 - i])
  BY SMT DEF BigEndian, Digit
<1>3. \A i \in 1 .. len : (<<1, 256, 65536, 16777216>>)[len + 1 - i]
                            \in {1, 256, 65536, 16777216}
  BY SMT
<1>4. \A i \in 1 .. len : BigEndian(v, len)[i] \in Byte
  BY <1>1, <1>2, <1>3
<1>5. BigEndian(v, len) \in Seq(Byte) /\ Len(BigEndian(v, len)) = len
  <2>1. DOMAIN BigEndian(v, len) = 1 .. len
    BY DEF BigEndian
  <2>2. BigEndian(v, len) = [i \in 1 .. len |-> BigEndian(v, len)[i]]
    BY <2>1 DEF BigEndian
  <2>. DEFINE f == BigEndian(v, len)
  <2>. HIDE DEF f
  <2>3. f = [i \in 1 .. len |-> f[i]] /\ \A i \in 1 .. len : f[i] \in Byte
    BY <1>4, <2>2 DEF f
  <2>4. f \in Seq(Byte) /\ Len(f) = len
    BY <2>3, SMT
  <2>. QED
    BY <2>4 DEF f
<1>6. BigEndian(v, len)[1] < 128
  <2>1. CASE len = 1
    BY <1>2, <2>1, SMT DEF Digit, Holds
  <2>2. CASE len = 2
    BY <1>2, <2>2, SMT DEF Digit, Holds
  <2>3. CASE len = 3
    BY <1>2, <2>3, SMT DEF Digit, Holds
  <2>4. CASE len = 4
    BY <1>2, <2>4, SMT DEF Digit, Holds
  <2>. QED
    BY <2>1, <2>2, <2>3, <2>4
<1>. QED
  BY <1>5, <1>6

\* The number of a group comes back, complemented or not.
LEMMA GroupReadBack ==
  ASSUME NEW v \in Nat, NEW len \in 1 .. 4, v <= Holds(len), NEW negative \in BOOLEAN
  PROVE  Unmasked(BigEndianNumber(Masked(BigEndian(v, len), negative)), negative) = v
<1>. DEFINE b == BigEndian(v, len)
           m == Masked(b, negative)
<1>1. b \in Seq(Byte) /\ Len(b) = len /\ b[1] < 128
  BY GroupBytes
<1>2. /\ m \in Seq(Byte) /\ Len(m) = len
      /\ \A i \in 1 .. len : m[i] = IF negative THEN 255 - b[i] ELSE b[i]
  <2>. HIDE DEF b
  <2>. QED
    BY <1>1, MaskedBytes
<1>3. \A i \in 1 .. len : b[i] \in Int /\ m[i] \in Int
  BY <1>1, <1>2, BytesAreInts
<1>4. \A i \in 1 .. len : b[i] = Digit(v, (<<1, 256, 65536, 16777216>>)[len + 1 - i])
  BY SMT DEF BigEndian, Digit
<1>5. SignedChar(m[1]) = IF negative THEN -1 - b[1] ELSE b[1]
  <2>1. 1 \in 1 .. len /\ b[1] \in Int /\ 0 <= b[1] /\ b[1] <= 255 /\ b[1] < 128
    BY <1>1, BytesAreInts
  <2>. HIDE DEF b, m
  <2>2. CASE negative
    BY <1>2, <2>1, <2>2, SMT DEF SignedChar
  <2>3. CASE ~negative
    BY <1>2, <2>1, <2>3, SMT DEF SignedChar
  <2>. QED
    BY <2>2, <2>3
<1>. HIDE DEF b, m
<1>6. BigEndianNumber(m) = IF negative THEN -v - 1 ELSE v
  <2>1. CASE len = 1
    <3>1. v < 128
      BY <2>1, SMT DEF Holds
    <3>2. b[1] = v
      BY <1>4, <2>1, <3>1, SMT DEF Digit
    <3>. QED
      BY <1>2, <1>5, <2>1, <3>2, NumberOfBytes, SMT
  <2>2. CASE len = 2
    <3>1. v < 65536
      BY <2>2, SMT DEF Holds
    <3>2. b[1] = Digit(v, 256) /\ b[2] = Digit(v, 1)
      BY <1>4, <2>2, SMT
    <3>3. 256 * b[1] + b[2] = v
      BY <1>3, <3>1, <3>2, Digits, <2>2, SMT
    <3>4. BigEndianNumber(m) = 256 * SignedChar(m[1]) + m[2]
      BY <1>2, <2>2, NumberOfBytes
    <3>5. b[1] \in Int /\ b[2] \in Int
      BY <1>3, <2>2
    <3>6. CASE negative
      <4>1. SignedChar(m[1]) = -1 - b[1] /\ m[2] = 255 - b[2]
        BY <1>2, <1>5, <2>2, <3>6
      <4>2. \A x, y \in Int :
              256 * (-1 - x) + (255 - y) = -(256 * x + y) - 1
        BY SMT
      <4>. QED
        BY <3>3, <3>4, <3>5, <3>6, <4>1, <4>2
    <3>7. CASE ~negative
      <4>1. SignedChar(m[1]) = b[1] /\ m[2] = b[2]
        BY <1>2, <1>5, <2>2, <3>7
      <4>. QED
        BY <3>3, <3>4, <3>7, <4>1
    <3>. QED
      BY <3>6, <3>7
  <2>3. CASE len = 3
    <3>1. v < 16777216
      BY <2>3, SMT DEF Holds
    <3>2. b[1] = Digit(v, 65536) /\ b[2] = Digit(v, 256) /\ b[3] = Digit(v, 1)
      BY <1>4, <2>3, SMT
    <3>3. 65536 * b[1] + 256 * b[2] + b[3] = v
      BY <1>3, <3>1, <3>2, Digits, <2>3, SMT
    <3>4. BigEndianNumber(m) = 65536 * SignedChar(m[1]) + 256 * m[2] + m[3]
      BY <1>2, <2>3, NumberOfBytes
    <3>5. b[1] \in Int /\ b[2] \in Int /\ b[3] \in Int
      BY <1>3, <2>3
    <3>6. CASE negative
      <4>1. SignedChar(m[1]) = -1 - b[1] /\ m[2] = 255 - b[2] /\ m[3] = 255 - b[3]
        BY <1>2, <1>5, <2>3, <3>6
      <4>2. \A x, y, z \in Int :
              65536 * (-1 - x) + 256 * (255 - y) + (255 - z) = -(65536 * x + 256 * y + z) - 1
        BY SMT
      <4>. QED
        BY <3>3, <3>4, <3>5, <3>6, <4>1, <4>2
    <3>7. CASE ~negative
      <4>1. SignedChar(m[1]) = b[1] /\ m[2] = b[2] /\ m[3] = b[3]
        BY <1>2, <1>5, <2>3, <3>7
      <4>. QED
        BY <3>3, <3>4, <3>7, <4>1
    <3>. QED
      BY <3>6, <3>7
  <2>4. CASE len = 4
    <3>1. v < 2147483648
      BY <2>4, SMT DEF Holds
    <3>2. b[1] = Digit(v, 16777216) /\ b[2] = Digit(v, 65536)
          /\ b[3] = Digit(v, 256) /\ b[4] = Digit(v, 1)
      BY <1>4, <2>4, SMT
    <3>3. 16777216 * b[1] + 65536 * b[2] + 256 * b[3] + b[4] = v
      BY <1>3, <3>1, <3>2, Digits, <2>4, SMT
    <3>4. BigEndianNumber(m) = 16777216 * SignedChar(m[1]) + 65536 * m[2]
                                 + 256 * m[3] + m[4]
      BY <1>2, <2>4, NumberOfBytes
    <3>5. b[1] \in Int /\ b[2] \in Int /\ b[3] \in Int /\ b[4] \in Int
      BY <1>3, <2>4
    <3>6. CASE negative
      <4>1. SignedChar(m[1]) = -1 - b[1] /\ m[2] = 255 - b[2] /\ m[3] = 255 - b[3] /\ m[4] = 255 - b[4]
        BY <1>2, <1>5, <2>4, <3>6
      <4>2. \A x, y, z, w \in Int :
              16777216 * (-1 - x) + 65536 * (255 - y) + 256 * (255 - z) + (255 - w) = -(16777216 * x + 65536 * y + 256 * z + w) - 1
        BY SMT
      <4>. QED
        BY <3>3, <3>4, <3>5, <3>6, <4>1, <4>2
    <3>7. CASE ~negative
      <4>1. SignedChar(m[1]) = b[1] /\ m[2] = b[2] /\ m[3] = b[3] /\ m[4] = b[4]
        BY <1>2, <1>5, <2>4, <3>7
      <4>. QED
        BY <3>3, <3>4, <3>7, <4>1
    <3>. QED
      BY <3>6, <3>7
  <2>. QED
    BY <2>1, <2>2, <2>3, <2>4
<1>7. Unmasked(BigEndianNumber(m), negative) = v
  BY <1>6, SMT DEF Unmasked
<1>. QED
  BY <1>7 DEF b, m

(***************************************************************************)
(* Numbers.                                                                *)
(***************************************************************************)

NonZero(c) == {i \in 1 .. Len(c) : c[i] # 0}

LEMMA NumberIs ==
  ASSUME NEW c \in Seq(Int)
  PROVE  /\ NonZero(c) = {} => Number(c) = <<>>
         /\ NonZero(c) # {} =>
              /\ Min(NonZero(c)) \in NonZero(c)
              /\ \A i \in NonZero(c) : Min(NonZero(c)) <= i
              /\ Number(c) = SubSeq(c, Min(NonZero(c)), Len(c))
<1>. DEFINE I == NonZero(c)
            first == SelectInSeq(c, LAMBDA x : x # 0)
<1>1. first = IF I # {} THEN Min(I) ELSE 0
  BY DEF SelectInSeq, NonZero
<1>2. Number(c) = IF first = 0 THEN <<>> ELSE SubSeq(c, first, Len(c))
  BY DEF Number
<1>3. I \in SUBSET Nat /\ 0 \notin I
  BY DEF NonZero
<1>. HIDE DEF I, first
<1>4. ASSUME I # {}
      PROVE  Min(I) \in I /\ \A i \in I : Min(I) <= i
  <2>1. \E n \in I : \A i \in I : n <= i
    BY <1>3, <1>4, Least
  <2>. QED
    BY <2>1 DEF Min
<1>5. I = {} => Number(c) = <<>>
  BY <1>1, <1>2
<1>6. I # {} => Min(I) \in I /\ (\A i \in I : Min(I) <= i)
                 /\ Number(c) = SubSeq(c, Min(I), Len(c))
  BY <1>1, <1>2, <1>3, <1>4
<1>. QED
  BY <1>5, <1>6 DEF I

LEMMA Int32Is == \A x : x \in Int32 <=> x \in Int /\ -2147483648 <= x /\ x <= 2147483647
<1>1. \A max \in Nat : \A x : x \in Signed(max) <=> x \in Int /\ -max - 1 <= x /\ x <= max
  BY SMT DEF Signed
<1>. QED
  BY <1>1, SMT DEF Int32

LEMMA Int24Is == \A x : x \in Int24 <=> x \in Int /\ -8388608 <= x /\ x <= 8388607
<1>1. \A max \in Nat : \A x : x \in Signed(max) <=> x \in Int /\ -max - 1 <= x /\ x <= max
  BY SMT DEF Signed
<1>. QED
  BY <1>1, SMT DEF Int24

LEMMA NumberIsInts ==
  ASSUME NEW c \in Seq(Int32)
  PROVE  Number(c) \in Seq(Int32)
<1>0. c \in Seq(Int)
  <2>1. \A i \in 1 .. Len(c) : c[i] \in Int
    <3>1. Int32 \subseteq Int
      BY Int32Is, SMT
    <3>2. \A i \in 1 .. Len(c) : c[i] \in Int32
      OBVIOUS
    <3>. QED
      BY <3>1, <3>2
  <2>2. c = [i \in 1 .. Len(c) |-> c[i]] /\ Len(c) \in Nat
    OBVIOUS
  <2>. DEFINE F(i) == c[i]
              n == Len(c)
  <2>3. (\A i \in 1 .. n : F(i) \in Int) /\ n \in Nat
    BY <2>1, <2>2
  <2>4. c = [i \in 1 .. n |-> F(i)]
    BY <2>2
  <2>. HIDE DEF F, n
  <2>5. [i \in 1 .. n |-> F(i)] \in Seq(Int)
    BY <2>3
  <2>. QED
    BY <2>4, <2>5
<1>1. CASE NonZero(c) = {}
  <2>1. <<>> \in Seq(Int32)
    OBVIOUS
  <2>. QED
    BY <1>0, <1>1, <2>1, NumberIs
<1>2. CASE NonZero(c) # {}
  <2>. DEFINE m == Min(NonZero(c))
  <2>1. m \in 1 .. Len(c) /\ Number(c) = SubSeq(c, m, Len(c))
    BY <1>0, <1>2, NumberIs DEF NonZero
  <2>. HIDE DEF m
  <2>2. SubSeq(c, m, Len(c)) \in Seq(Int32)
    BY <2>1, SMT
  <2>. QED
    BY <2>1, <2>2
<1>. QED
  BY <1>1, <1>2

\* A leading 0 is no part of a number.
LEMMA LeadingZero ==
  ASSUME NEW c \in Seq(Int)
  PROVE  Number(<<0>> \o c) = Number(c)
<1>. DEFINE d == <<0>> \o c
<1>1. /\ d \in Seq(Int) /\ Len(d) = Len(c) + 1 /\ Len(c) \in Nat
      /\ d[1] = 0 /\ \A i \in 1 .. Len(c) : d[i + 1] = c[i]
  BY SMT
<1>. HIDE DEF d
<1>2. \A i \in Int : i \in NonZero(d) <=> i - 1 \in NonZero(c)
  <2>1. ASSUME NEW i \in Int, i \in NonZero(d)
        PROVE  i - 1 \in NonZero(c)
    <3>1. i \in 1 .. Len(c) + 1 /\ i # 1 /\ d[i] # 0
      BY <1>1, <2>1 DEF NonZero
    <3>2. i - 1 \in 1 .. Len(c) /\ (i - 1) + 1 = i
      BY <1>1, <3>1
    <3>3. c[i - 1] = d[i]
      BY <1>1, <3>2
    <3>. QED
      BY <3>1, <3>2, <3>3 DEF NonZero
  <2>2. ASSUME NEW i \in Int, i - 1 \in NonZero(c)
        PROVE  i \in NonZero(d)
    <3>1. i - 1 \in 1 .. Len(c) /\ c[i - 1] # 0 /\ (i - 1) + 1 = i
      BY <1>1, <2>2 DEF NonZero
    <3>2. d[i] = c[i - 1]
      BY <1>1, <3>1
    <3>. QED
      BY <1>1, <3>1, <3>2 DEF NonZero
  <2>. QED
    BY <2>1, <2>2
<1>3. NonZero(c) \subseteq Int /\ NonZero(d) \subseteq Int
  BY DEF NonZero
<1>4. CASE NonZero(c) = {}
  <2>1. NonZero(d) = {}
    BY <1>2, <1>3, <1>4
  <2>. QED
    BY <1>1, <1>4, <2>1, NumberIs DEF d
<1>5. CASE NonZero(c) # {}
  <2>. DEFINE m == Min(NonZero(c))
              n == Min(NonZero(d))
  <2>1. m \in NonZero(c) /\ (\A i \in NonZero(c) : m <= i)
        /\ Number(c) = SubSeq(c, m, Len(c))
    BY <1>5, NumberIs
  <2>2. m \in Int /\ m + 1 \in Int /\ (m + 1) - 1 = m
    BY <1>3, <2>1
  <2>3. m + 1 \in NonZero(d)
    BY <1>2, <2>1, <2>2
  <2>4. n \in NonZero(d) /\ (\A i \in NonZero(d) : n <= i)
        /\ Number(d) = SubSeq(d, n, Len(d))
    BY <1>1, <2>3, NumberIs
  <2>. HIDE DEF m, n
  <2>5. n \in Int /\ n - 1 \in NonZero(c)
    BY <1>2, <1>3, <2>4
  <2>6. n = m + 1
    BY <2>1, <2>2, <2>3, <2>4, <2>5
  <2>7. m \in 1 .. Len(c)
    BY <2>1 DEF NonZero
  <2>8. SubSeq(d, m + 1, Len(c) + 1) = SubSeq(c, m, Len(c))
    <3>1. SubSeq(c, m, Len(c)) = [i \in 1 .. Len(c) - m + 1 |-> c[m + i - 1]]
      BY <2>7, SMT
    <3>2. SubSeq(d, m + 1, Len(c) + 1) = [i \in 1 .. Len(c) - m + 1 |-> d[m + i]]
      BY <1>1, <2>7, SMT
    <3>3. \A i \in 1 .. Len(c) - m + 1 : d[m + i] = c[m + i - 1]
      BY <1>1, <2>7, SMT
    <3>. QED
      BY <3>1, <3>2, <3>3
  <2>. QED
    BY <1>1, <2>1, <2>4, <2>6, <2>8 DEF d
<1>. QED
  BY <1>4, <1>5

(***************************************************************************)
(* A part of a number: the groups of its bytes.                            *)
(***************************************************************************)

LEMMA CutInTwo ==
  ASSUME NEW S, NEW a \in Seq(S), NEW b \in Seq(S)
  PROVE  /\ SubSeq(a \o b, 1, Len(a)) = a
         /\ SubSeq(a \o b, Len(a) + 1, Len(a) + Len(b)) = b
<1>1. SubSeq(a \o b, 1, Len(a)) = a
  <2>1. SubSeq(a \o b, 1, Len(a)) = SubSeq(a, 1, Len(a))
    BY SubSeqOfConcat1
  <2>. QED
    BY <2>1, SubSeqFull
<1>2. SubSeq(a \o b, Len(a) + 1, Len(a) + Len(b)) = b
  <2>1. SubSeq(a \o b, Len(a) + 1, Len(a) + Len(b)) = SubSeq(b, 1, Len(b))
    BY SubSeqOfConcat2
  <2>. QED
    BY <2>1, SubSeqFull
<1>. QED
  BY <1>1, <1>2

LEMMA PairIs ==
  ASSUME NEW v, NEW w PROVE <<v>> \o <<w>> = <<v, w>>
<1>. DEFINE a == <<v>>
            b == <<w>>
            s == a \o b
<1>1. /\ a \in Seq({v, w}) /\ Len(a) = 1 /\ a[1] = v
      /\ b \in Seq({v, w}) /\ Len(b) = 1 /\ b[1] = w
  OBVIOUS
<1>. HIDE DEF a, b
<1>2. s \in Seq({v, w}) /\ Len(s) = 2 /\ s[1] = v /\ s[2] = w
  <2>. DEFINE S == {v, w}
  <2>. HIDE DEF S
  <2>1. a \in Seq(S) /\ b \in Seq(S)
    BY <1>1 DEF S
  <2>2. /\ s \in Seq(S) /\ Len(s) = Len(a) + Len(b)
        /\ \A m \in 1 .. Len(a) : s[m] = a[m]
        /\ \A m \in 1 .. Len(b) : s[Len(a) + m] = b[m]
    BY <2>1, Concatenated
  <2>. HIDE DEF s
  <2>. QED
    BY <1>1, <2>2 DEF S
<1>. HIDE DEF s
<1>3. s = <<v, w>>
  BY <1>2
<1>. QED
  BY <1>3 DEF s, a, b

LEMMA MaskedTogether ==
  ASSUME NEW a \in Seq(Byte), NEW b \in Seq(Byte), NEW negative \in BOOLEAN
  PROVE  Masked(a \o b, negative) = Masked(a, negative) \o Masked(b, negative)
<1>1. CASE negative
  <2>1. Masked(a, negative) \o Masked(b, negative)
          = [i \in 1 .. Len(a) |-> 255 - a[i]] \o [i \in 1 .. Len(b) |-> 255 - b[i]]
    <3>1. DOMAIN a = 1 .. Len(a) /\ DOMAIN b = 1 .. Len(b)
      OBVIOUS
    <3>2. /\ Masked(a, negative) = [i \in 1 .. Len(a) |-> 255 - a[i]]
          /\ Masked(b, negative) = [i \in 1 .. Len(b) |-> 255 - b[i]]
      BY <1>1, <3>1, Zenon DEF Masked
    <3>. QED
      BY <3>2, Zenon
  <2>2. Masked(a \o b, negative) = [i \in 1 .. Len(a) + Len(b) |-> 255 - (a \o b)[i]]
    BY <1>1 DEF Masked
  <2>3. [i \in 1 .. Len(a) |-> 255 - a[i]] \o [i \in 1 .. Len(b) |-> 255 - b[i]]
          = [i \in 1 .. Len(a) + Len(b) |-> 255 - (a \o b)[i]]
    BY SMT
  <2>. QED
    BY <2>1, <2>2, <2>3
<1>2. CASE ~negative
  BY <1>2 DEF Masked
<1>. QED
  BY <1>1, <1>2

\* The coefficient read of the k-th full group, behind the short one.
FullGroup(m, negative, k) ==
  Unmasked(BigEndianNumber(SubSeq(m, (Len(m) % 4) + 4 * k - 3, (Len(m) % 4) + 4 * k)), negative)

ShortGroup(m, negative) == Unmasked(BigEndianNumber(SubSeq(m, 1, Len(m) % 4)), negative)

LEMMA PartIs ==
  ASSUME NEW m, NEW negative
  PROVE  DecimalNumberPart(m, negative)
           = Number(<<ShortGroup(m, negative)>>
                      \o [k \in 1 .. Len(m) \div 4 |-> FullGroup(m, negative, k)])
BY DEF DecimalNumberPart, ShortGroup, FullGroup

LEMMA NoBytesAreZero == BigEndianNumber(<<>>) = 0
<1>. DEFINE top == [i \in 1 .. 4 |-> IF i <= Len(<<>>) THEN (<<>>)[i] ELSE 0]
<1>1. top[1] = 0 /\ top[2] = 0 /\ top[3] = 0 /\ top[4] = 0
  OBVIOUS
<1>2. BigEndianNumber(<<>>) = Swapped4(top) \div (<<1, 16777216, 65536, 256, 1>>)[1]
  BY DEF BigEndianNumber, TopOfInt
<1>. HIDE DEF top
<1>3. Swapped4(top) = 0
  BY <1>1, SMT DEF Swapped4, SignedChar
<1>. QED
  BY <1>2, <1>3, SMT

\* No short group counts as a 0 if the number is not negative.
LEMMA NoShortGroup ==
  ASSUME NEW m \in Seq(Byte), Len(m) % 4 = 0
  PROVE  ShortGroup(m, FALSE) = 0
<1>1. SubSeq(m, 1, 0) = <<>>
  OBVIOUS
<1>. QED
  BY <1>1, NoBytesAreZero DEF ShortGroup, Unmasked

LEMMA NoGroupRead == DecimalNumberPart(<<>>, FALSE) = Number(<<>>)
<1>1. <<>> \in Seq(Byte) /\ Len(<<>>) = 0 /\ 0 % 4 = 0 /\ 0 \div 4 = 0
  BY SMT
<1>2. ShortGroup(<<>>, FALSE) = 0
  BY <1>1, NoShortGroup
<1>3. DecimalNumberPart(<<>>, FALSE)
        = Number(<<0>> \o [k \in 1 .. 0 |-> FullGroup(<<>>, FALSE, k)])
  BY <1>1, <1>2, PartIs
<1>4. [k \in 1 .. 0 |-> FullGroup(<<>>, FALSE, k)] = <<>> /\ <<>> \in Seq(Int)
  OBVIOUS
<1>. QED
  BY <1>3, <1>4, LeadingZero

LEMMA OneGroupRead ==
  ASSUME NEW negative \in BOOLEAN, NEW m \in Seq(Byte), Len(m) \in 1 .. 4,
         Len(m) = 4 => ~negative,
         NEW v \in Int, Unmasked(BigEndianNumber(m), negative) = v
  PROVE  DecimalNumberPart(m, negative) = Number(<<v>>)
<1>1. SubSeq(m, 1, Len(m)) = m
  BY SMT
<1>2. CASE Len(m) \in 1 .. 3
  <2>1. Len(m) % 4 = Len(m) /\ Len(m) \div 4 = 0
    <3>1. \A n \in 1 .. 3 : n % 4 = n /\ n \div 4 = 0
      BY SMT
    <3>. QED
      BY <1>2, <3>1, Zenon
  <2>2. ShortGroup(m, negative) = v
    BY <1>1, <2>1 DEF ShortGroup
  <2>3. [k \in 1 .. 0 |-> FullGroup(m, negative, k)] = <<>>
    OBVIOUS
  <2>4. <<v>> \o <<>> = <<v>>
    BY SMT
  <2>. QED
    BY <2>1, <2>2, <2>3, <2>4, PartIs
<1>3. CASE Len(m) = 4
  <2>1. Len(m) % 4 = 0 /\ Len(m) \div 4 = 1 /\ negative = FALSE
    BY <1>3, SMT
  <2>2. ShortGroup(m, negative) = 0
    BY <2>1, NoShortGroup
  <2>3. FullGroup(m, negative, 1) = v
    <3>1. 0 + 4 * 1 - 3 = 1 /\ 0 + 4 * 1 = 4
      BY SMT
    <3>. QED
      BY <1>1, <1>3, <2>1, <3>1 DEF FullGroup
  <2>4. [k \in 1 .. 1 |-> FullGroup(m, negative, k)] = <<v>>
    <3>. DEFINE F(k) == FullGroup(m, negative, k)
    <3>1. F(1) = v
      BY <2>3
    <3>. HIDE DEF F
    <3>2. [k \in 1 .. 1 |-> F(k)] = <<v>>
      BY <3>1, SMT
    <3>. QED
      BY <3>2 DEF F
  <2>5. <<v>> \in Seq(Int)
    OBVIOUS
  <2>. QED
    BY <2>1, <2>2, <2>4, <2>5, PartIs, LeadingZero
<1>. QED
  BY <1>2, <1>3, SMT

LEMMA TwoGroupsRead ==
  ASSUME NEW negative \in BOOLEAN, NEW a \in Seq(Byte), Len(a) \in 1 .. 4,
         NEW b \in Seq(Byte), Len(b) = 4, Len(a) = 4 => ~negative,
         NEW v \in Int, Unmasked(BigEndianNumber(a), negative) = v,
         NEW w \in Int, Unmasked(BigEndianNumber(b), negative) = w
  PROVE  DecimalNumberPart(a \o b, negative) = Number(<<v, w>>)
<1>. DEFINE m == a \o b
            F(k) == FullGroup(m, negative, k)
<1>1. m \in Seq(Byte) /\ Len(m) = Len(a) + 4
  <2>1. \A x \in Seq(Byte) : \A y \in Seq(Byte) :
          x \o y \in Seq(Byte) /\ Len(x \o y) = Len(x) + Len(y)
    OBVIOUS
  <2>. QED
    BY <2>1, Zenon
<1>2. SubSeq(m, 1, Len(a)) = a /\ SubSeq(m, Len(a) + 1, Len(a) + 4) = b
  BY CutInTwo, Zenon
<1>3. CASE Len(a) \in 1 .. 3
  <2>1. Len(m) % 4 = Len(a) /\ Len(m) \div 4 = 1
    <3>1. \A n \in 1 .. 3 : (n + 4) % 4 = n /\ (n + 4) \div 4 = 1
      BY SMT
    <3>. QED
      BY <1>1, <1>3, <3>1, Zenon
  <2>2. ShortGroup(m, negative) = v
    BY <1>2, <2>1 DEF ShortGroup
  <2>3. F(1) = w
    <3>1. Len(a) + 4 * 1 - 3 = Len(a) + 1 /\ Len(a) + 4 * 1 = Len(a) + 4
      BY SMT
    <3>. QED
      BY <1>2, <2>1, <3>1 DEF FullGroup
  <2>4. DecimalNumberPart(m, negative) = Number(<<v>> \o [k \in 1 .. 1 |-> F(k)])
    BY <2>1, <2>2, PartIs
  <2>. HIDE DEF F
  <2>5. [k \in 1 .. 1 |-> F(k)] = <<w>>
    BY <2>3, SMT
  <2>6. <<v>> \o <<w>> = <<v, w>>
    BY PairIs
  <2>. QED
    BY <2>4, <2>5, <2>6, Zenon
<1>4. CASE Len(a) = 4
  <2>1. Len(m) % 4 = 0 /\ Len(m) \div 4 = 2 /\ negative = FALSE
    BY <1>1, <1>4, SMT
  <2>2. ShortGroup(m, negative) = 0
    BY <1>1, <2>1, NoShortGroup
  <2>3. F(1) = v /\ F(2) = w
    <3>1. 0 + 4 * 1 - 3 = 1 /\ 0 + 4 * 1 = 4 /\ 0 + 4 * 2 - 3 = 4 + 1 /\ 0 + 4 * 2 = 4 + 4
      BY SMT
    <3>. QED
      BY <1>2, <1>4, <2>1, <3>1 DEF FullGroup
  <2>4. DecimalNumberPart(m, negative) = Number(<<0>> \o [k \in 1 .. 2 |-> F(k)])
    BY <2>1, <2>2, PartIs
  <2>. HIDE DEF F
  <2>5. [k \in 1 .. 2 |-> F(k)] = <<v, w>> /\ <<v, w>> \in Seq(Int)
    BY <2>3, SMT
  <2>. QED
    BY <2>4, <2>5, LeadingZero
<1>. QED
  BY <1>3, <1>4, SMT

\* The bytes of a group hold its digits, with the top bit 0.
LEMMA PartLengths ==
  /\ DecimalPart(0) = 0
  /\ \A g \in 1 .. 9 : /\ DecimalPart(g) \in 1 .. 4
                       /\ g \in 1 .. 6 <=> DecimalPart(g) < 4
                       /\ Largest(g) <= Holds(DecimalPart(g))
                       /\ Largest(g) \in Nat
  /\ DecimalPart(9) = 4
  /\ \A d \in 10 .. 18 : DecimalPart(d) = DecimalPart(d - 9) + 4
<1>1. \A d \in 0 .. 8 : d % 9 = d /\ d \div 9 = 0
  BY SMT
<1>2. \A d \in 9 .. 17 : d % 9 = d - 9 /\ d \div 9 = 1
  BY SMT
<1>3. 18 % 9 = 0 /\ 18 \div 9 = 2
  BY SMT
<1>. DEFINE T == <<0, 1, 1, 2, 2, 3, 3, 4, 4, 4>>
<1>4. \A d \in 0 .. 8 : DecimalPart(d) = T[d + 1]
  <2>1. \A d \in 0 .. 8 : T[d + 1] + 4 * 0 = T[d + 1]
    BY SMT
  <2>. QED
    BY <1>1, <2>1 DEF DecimalPart, DIG_PER_DEC1
<1>5. \A d \in 9 .. 17 : DecimalPart(d) = T[d - 9 + 1] + 4
  <2>1. \A d \in 9 .. 17 : T[d - 9 + 1] + 4 * 1 = T[d - 9 + 1] + 4
    BY SMT
  <2>. QED
    BY <1>2, <2>1 DEF DecimalPart, DIG_PER_DEC1
<1>6. DecimalPart(18) = 8
  BY <1>3, SMT DEF DecimalPart, DIG_PER_DEC1
<1>7. DecimalPart(9) = 4
  BY <1>5, SMT
<1>8. DecimalPart(0) = 0
  BY <1>4, SMT
<1>9. ASSUME NEW g \in 1 .. 9
      PROVE  /\ DecimalPart(g) \in 1 .. 4
             /\ g \in 1 .. 6 <=> DecimalPart(g) < 4
             /\ Largest(g) <= Holds(DecimalPart(g))
             /\ Largest(g) \in Nat
  <2>1. CASE g = 9
    BY <1>7, <2>1, SMT DEF Largest, Holds
  <2>2. CASE g \in 1 .. 8
    <3>1. DecimalPart(g) = T[g + 1]
      BY <1>4, <2>2, SMT
    <3>. QED
      BY <2>2, <3>1, SMT DEF Largest, Holds
  <2>. QED
    BY <2>1, <2>2, SMT
<1>10. ASSUME NEW d \in 10 .. 18
       PROVE  DecimalPart(d) = DecimalPart(d - 9) + 4
  <2>1. CASE d = 18
    BY <1>6, <1>7, <2>1, SMT
  <2>2. CASE d \in 10 .. 17
    <3>1. DecimalPart(d) = T[d - 9 + 1] + 4 /\ DecimalPart(d - 9) = T[d - 9 + 1]
      <4>1. d - 9 \in 0 .. 8 /\ d \in 9 .. 17
        BY <2>2, SMT
      <4>. QED
        BY <1>4, <1>5, <4>1
    <3>. QED
      BY <3>1
  <2>. QED
    BY <2>1, <2>2, SMT
<1>. QED
  BY <1>7, <1>8, <1>9, <1>10

(***************************************************************************)
(* A part of a number as it is stored: no group, one or two.               *)
(***************************************************************************)

Fits(v, digits) == v \in Nat /\ v <= Holds(DecimalPart(digits))

Group(v, digits) == BigEndian(v, DecimalPart(digits))

\* The coefficient of a group is stored whole, with the top bit 0.
LEMMA GroupStored ==
  ASSUME NEW g \in 1 .. 9, NEW v, Fits(v, g)
  PROVE  /\ Group(v, g) \in Seq(Byte)
         /\ Len(Group(v, g)) = DecimalPart(g)
         /\ Group(v, g)[1] < 128
         /\ v \in Int
         /\ \A negative \in BOOLEAN :
              Unmasked(BigEndianNumber(Masked(Group(v, g), negative)), negative) = v
<1>1. DecimalPart(g) \in 1 .. 4 /\ v \in Nat /\ v <= Holds(DecimalPart(g))
  BY PartLengths DEF Fits
<1>. DEFINE len == DecimalPart(g)
<1>. HIDE DEF len
<1>2. len \in 1 .. 4 /\ v \in Nat /\ v <= Holds(len)
  BY <1>1 DEF len
<1>3. /\ BigEndian(v, len) \in Seq(Byte) /\ Len(BigEndian(v, len)) = len
      /\ BigEndian(v, len)[1] < 128
  BY <1>2, GroupBytes
<1>4. \A negative \in BOOLEAN :
        Unmasked(BigEndianNumber(Masked(BigEndian(v, len), negative)), negative) = v
  BY <1>2, GroupReadBack
<1>. QED
  BY <1>2, <1>3, <1>4 DEF Group, len

LEMMA NoGroupStored ==
  ASSUME NEW c \in Coefficients(<<>>)
  PROVE  c = <<>> /\ StoredGroups(c, <<>>) = <<>>
<1>1. c = <<>>
  BY DEF Coefficients
<1>2. [k \in DOMAIN <<>> |-> BigEndian(c[k], DecimalPart((<<>>)[k]))] = <<>>
  OBVIOUS
<1>. QED
  BY <1>1, <1>2, FlattenTwo DEF StoredGroups

LEMMA OneGroupStored ==
  ASSUME NEW g \in 1 .. 9, NEW c \in Coefficients(<<g>>)
  PROVE  c = <<c[1]>> /\ Fits(c[1], g) /\ StoredGroups(c, <<g>>) = Group(c[1], g)
<1>. DEFINE groups == <<g>>
<1>1. DOMAIN groups = 1 .. 1 /\ Len(groups) = 1 /\ groups[1] = g
  OBVIOUS
<1>. HIDE DEF groups
<1>2. c \in Seq(Nat) /\ Len(c) = 1 /\ c[1] <= Largest(g)
  BY <1>1 DEF Coefficients, groups
<1>3. c = <<c[1]>> /\ c[1] \in Nat
  BY <1>2
<1>4. Fits(c[1], g)
  <2>1. Largest(g) <= Holds(DecimalPart(g)) /\ Largest(g) \in Nat
        /\ DecimalPart(g) \in 1 .. 4
    BY PartLengths
  <2>2. \A n \in 1 .. 4 : Holds(n) \in Nat
    BY SMT DEF Holds
  <2>3. Holds(DecimalPart(g)) \in Nat
    BY <2>1, <2>2
  <2>4. \A x, y, z \in Nat : x <= y /\ y <= z => x <= z
    BY SMT
  <2>. QED
    BY <1>2, <1>3, <2>1, <2>3, <2>4 DEF Fits
<1>5. [k \in DOMAIN groups |-> BigEndian(c[k], DecimalPart(groups[k]))] = <<Group(c[1], g)>>
  <2>. DEFINE F(k) == BigEndian(c[k], DecimalPart(groups[k]))
  <2>1. F(1) = Group(c[1], g)
    BY <1>1 DEF Group
  <2>. HIDE DEF F
  <2>2. [k \in DOMAIN groups |-> F(k)] = <<Group(c[1], g)>>
    BY <1>1, <2>1, SMT
  <2>. QED
    BY <2>2 DEF F
<1>6. StoredGroups(c, groups) = Group(c[1], g)
  BY <1>5, FlattenTwo, Zenon DEF StoredGroups
<1>. QED
  BY <1>3, <1>4, <1>6 DEF groups

LEMMA TwoGroupsStored ==
  ASSUME NEW g \in 1 .. 9, NEW h \in 1 .. 9, NEW c \in Coefficients(<<g, h>>)
  PROVE  /\ c = <<c[1], c[2]>> /\ Fits(c[1], g) /\ Fits(c[2], h)
         /\ StoredGroups(c, <<g, h>>) = Group(c[1], g) \o Group(c[2], h)
<1>. DEFINE groups == <<g, h>>
<1>1. DOMAIN groups = 1 .. 2 /\ Len(groups) = 2 /\ groups[1] = g /\ groups[2] = h
  OBVIOUS
<1>. HIDE DEF groups
<1>2. c \in Seq(Nat) /\ Len(c) = 2 /\ c[1] <= Largest(g) /\ c[2] <= Largest(h)
  BY <1>1 DEF Coefficients, groups
<1>3. c = <<c[1], c[2]>> /\ c[1] \in Nat /\ c[2] \in Nat
  <2>. DEFINE F(i) == c[i]
  <2>1. c = [i \in 1 .. 2 |-> F(i)]
    BY <1>2
  <2>2. F(1) = c[1] /\ F(2) = c[2]
    OBVIOUS
  <2>. HIDE DEF F
  <2>3. [i \in 1 .. 2 |-> F(i)] = <<c[1], c[2]>>
    BY <2>2, SMT
  <2>4. c[1] \in Nat /\ c[2] \in Nat
    <3>0. \A s \in Seq(Nat) : \A i \in 1 .. Len(s) : s[i] \in Nat
      OBVIOUS
    <3>1. \A i \in 1 .. Len(c) : c[i] \in Nat
      BY <1>2, <3>0, Zenon
    <3>2. 1 \in 1 .. Len(c) /\ 2 \in 1 .. Len(c)
      BY <1>2
    <3>. QED
      BY <3>1, <3>2
  <2>. QED
    BY <2>1, <2>3, <2>4
<1>4. Fits(c[1], g) /\ Fits(c[2], h)
  <2>1. \A d \in 1 .. 9 : Largest(d) <= Holds(DecimalPart(d)) /\ Largest(d) \in Nat
        /\ DecimalPart(d) \in 1 .. 4
    BY PartLengths
  <2>2. \A n \in 1 .. 4 : Holds(n) \in Nat
    BY SMT DEF Holds
  <2>3. \A d \in 1 .. 9 : Holds(DecimalPart(d)) \in Nat
    BY <2>1, <2>2
  <2>4. \A x, y, z \in Nat : x <= y /\ y <= z => x <= z
    BY SMT
  <2>5. c[1] <= Holds(DecimalPart(g))
    BY <1>2, <1>3, <2>1, <2>3, <2>4
  <2>6. c[2] <= Holds(DecimalPart(h))
    BY <1>2, <1>3, <2>1, <2>3, <2>4
  <2>. QED
    BY <1>3, <2>5, <2>6 DEF Fits
<1>5. [k \in DOMAIN groups |-> BigEndian(c[k], DecimalPart(groups[k]))]
        = <<Group(c[1], g), Group(c[2], h)>>
  <2>. DEFINE F(k) == BigEndian(c[k], DecimalPart(groups[k]))
  <2>1. F(1) = Group(c[1], g) /\ F(2) = Group(c[2], h)
    BY <1>1 DEF Group
  <2>. HIDE DEF F
  <2>2. [k \in DOMAIN groups |-> F(k)] = <<Group(c[1], g), Group(c[2], h)>>
    BY <1>1, <2>1, SMT
  <2>. QED
    BY <2>2 DEF F
<1>6. StoredGroups(c, groups) = Group(c[1], g) \o Group(c[2], h)
  BY <1>5, FlattenTwo, Zenon DEF StoredGroups
<1>. QED
  BY <1>3, <1>4, <1>6 DEF groups

(***************************************************************************)
(* The groups of a part.                                                   *)
(***************************************************************************)

LEMMA GroupsAre ==
  /\ IntegralGroups(0) = <<>> /\ FractionGroups(0) = <<>>
  /\ \A d \in 1 .. 9 : IntegralGroups(d) = <<d>> /\ FractionGroups(d) = <<d>>
  /\ \A d \in 10 .. 18 : IntegralGroups(d) = <<d - 9, 9>> /\ FractionGroups(d) = <<9, d - 9>>
<1>0. \A v : <<>> \o <<v>> = <<v>> /\ <<v>> \o <<>> = <<v>>
  <2>. TAKE v
  <2>. DEFINE s == <<v>>
  <2>1. s \in Seq({v})
    OBVIOUS
  <2>2. <<>> \o s = s /\ s \o <<>> = s
    <3>. HIDE DEF s
    <3>. QED
      BY <2>1
  <2>. QED
    BY <2>2
<1>1. <<>> \o <<>> = <<>> /\ \A v, w : <<>> \o <<v, w>> = <<v, w>> /\ <<v, w>> \o <<>> = <<v, w>>
  <2>1. ASSUME NEW v, NEW w
        PROVE  <<>> \o <<v, w>> = <<v, w>> /\ <<v, w>> \o <<>> = <<v, w>>
    <3>. DEFINE s == <<v, w>>
    <3>1. s \in Seq({v, w})
      OBVIOUS
    <3>. HIDE DEF s
    <3>2. <<>> \o s = s /\ s \o <<>> = s
      BY <3>1
    <3>. QED
      BY <3>2 DEF s
  <2>. QED
    BY <2>1
<1>2. \A d \in 0 .. 8 : Full(d) = <<>> /\ Short(d) = IF d = 0 THEN <<>> ELSE <<d>>
  <2>1. \A d \in 0 .. 8 : d % 9 = d /\ d \div 9 = 0
    BY SMT
  <2>2. [k \in 1 .. 0 |-> 9] = <<>>
    OBVIOUS
  <2>. QED
    BY <2>1, <2>2 DEF Full, Short, DIG_PER_DEC1
<1>3. \A d \in 9 .. 17 : Full(d) = <<9>> /\ Short(d) = IF d = 9 THEN <<>> ELSE <<d - 9>>
  <2>1. \A d \in 9 .. 17 : d % 9 = d - 9 /\ d \div 9 = 1 /\ (d - 9 = 0 <=> d = 9)
    BY SMT
  <2>2. [k \in 1 .. 1 |-> 9] = <<9>>
    OBVIOUS
  <2>. QED
    BY <2>1, <2>2 DEF Full, Short, DIG_PER_DEC1
<1>4. Full(18) = <<9, 9>> /\ Short(18) = <<>>
  <2>1. 18 % 9 = 0 /\ 18 \div 9 = 2
    BY SMT
  <2>2. [k \in 1 .. 2 |-> 9] = <<9, 9>>
    OBVIOUS
  <2>. QED
    BY <2>1, <2>2 DEF Full, Short, DIG_PER_DEC1
<1>5. IntegralGroups(0) = <<>> /\ FractionGroups(0) = <<>>
  BY <1>1, <1>2 DEF IntegralGroups, FractionGroups
<1>6. ASSUME NEW d \in 1 .. 9
      PROVE  IntegralGroups(d) = <<d>> /\ FractionGroups(d) = <<d>>
  <2>1. CASE d = 9
    <3>1. d \in 9 .. 17
      BY <2>1
    <3>2. Full(d) = <<d>> /\ Short(d) = <<>>
      BY <1>3, <2>1, <3>1
    <3>. QED
      BY <1>0, <3>2 DEF IntegralGroups, FractionGroups
  <2>2. CASE d \in 1 .. 8
    <3>1. d \in 0 .. 8 /\ d # 0
      BY <2>2
    <3>. QED
      BY <1>0, <1>2, <3>1 DEF IntegralGroups, FractionGroups
  <2>. QED
    BY <2>1, <2>2
<1>7. ASSUME NEW d \in 10 .. 18
      PROVE  IntegralGroups(d) = <<d - 9, 9>> /\ FractionGroups(d) = <<9, d - 9>>
  <2>1. CASE d = 18
    <3>1. 18 - 9 = 9
      BY SMT
    <3>. QED
      BY <1>1, <1>4, <2>1, <3>1 DEF IntegralGroups, FractionGroups
  <2>2. CASE d \in 10 .. 17
    <3>1. d \in 9 .. 17 /\ d # 9
      BY <2>2
    <3>2. Full(d) = <<9>> /\ Short(d) = <<d - 9>>
      BY <1>3, <3>1
    <3>. QED
      BY <3>2, PairIs DEF IntegralGroups, FractionGroups
  <2>. QED
    BY <2>1, <2>2
<1>. QED
  BY <1>5, <1>6, <1>7

\* A part is as long as the reader takes it to be, and starts with a 0 bit.
LEMMA PartStored ==
  ASSUME NEW d \in 0 .. 18, NEW groups \in {IntegralGroups(d), FractionGroups(d)},
         NEW c \in Coefficients(groups)
  PROVE  LET b == StoredGroups(c, groups)
         IN  /\ b \in Seq(Byte) /\ Len(b) = DecimalPart(d)
             /\ d = 0 => b = <<>>
             /\ d # 0 => Len(b) \in Nat \ {0} /\ b[1] < 128
<1>. DEFINE b == StoredGroups(c, groups)
<1>1. CASE d = 0
  <2>1. groups = <<>>
    BY <1>1, GroupsAre
  <2>2. b = <<>>
    BY <2>1, NoGroupStored
  <2>. QED
    BY <1>1, <2>2, PartLengths
<1>2. CASE d \in 1 .. 9
  <2>1. groups = <<d>>
    BY <1>2, GroupsAre
  <2>2. Fits(c[1], d) /\ b = Group(c[1], d)
    BY <1>2, <2>1, OneGroupStored
  <2>3. b \in Seq(Byte) /\ Len(b) = DecimalPart(d) /\ b[1] < 128
    BY <1>2, <2>2, GroupStored
  <2>4. DecimalPart(d) \in 1 .. 4 /\ d # 0
    BY <1>2, PartLengths
  <2>. HIDE DEF b
  <2>5. Len(b) \in Nat \ {0}
    BY <2>3, <2>4
  <2>. QED
    BY <2>3, <2>4, <2>5 DEF b
<1>3. CASE d \in 10 .. 18
  <2>1. PICK g \in 1 .. 9, h \in 1 .. 9 :
          groups = <<g, h>> /\ {g, h} = {9, d - 9}
    <3>1. d - 9 \in 1 .. 9 /\ 9 \in 1 .. 9
      BY <1>3, SMT
    <3>2. groups = <<d - 9, 9>> \/ groups = <<9, d - 9>>
      BY <1>3, GroupsAre
    <3>. QED
      BY <3>1, <3>2
  <2>2. Fits(c[1], g) /\ Fits(c[2], h) /\ b = Group(c[1], g) \o Group(c[2], h)
    BY <2>1, TwoGroupsStored
  <2>. DEFINE x == Group(c[1], g)
              y == Group(c[2], h)
  <2>3. x \in Seq(Byte) /\ Len(x) = DecimalPart(g) /\ x[1] < 128
    BY <2>2, GroupStored
  <2>4. y \in Seq(Byte) /\ Len(y) = DecimalPart(h)
    BY <2>2, GroupStored
  <2>. HIDE DEF x, y
  <2>5. x \o y \in Seq(Byte) /\ Len(x \o y) = Len(x) + Len(y)
        /\ \A m \in 1 .. Len(x) : (x \o y)[m] = x[m]
    BY <2>3, <2>4, Concatenated
  <2>6. DecimalPart(g) \in 1 .. 4 /\ DecimalPart(h) \in 1 .. 4
    BY PartLengths
  <2>7. (x \o y)[1] < 128
    <3>1. 1 \in 1 .. Len(x)
      BY <2>3, <2>6
    <3>. QED
      BY <2>3, <2>5, <3>1
  <2>8. DecimalPart(g) + DecimalPart(h) = DecimalPart(d)
    <3>1. DecimalPart(d) = DecimalPart(d - 9) + 4 /\ DecimalPart(9) = 4
      BY <1>3, PartLengths
    <3>2. (g = 9 /\ h = d - 9) \/ (g = d - 9 /\ h = 9)
      BY <2>1
    <3>3. \A n \in 1 .. 4 : n + 4 = 4 + n
      OBVIOUS
    <3>. QED
      BY <2>6, <3>1, <3>2, <3>3
  <2>9. Len(x) + Len(y) \in Nat \ {0} /\ d # 0
    BY <1>3, <2>3, <2>4, <2>6
  <2>. HIDE DEF b
  <2>10. b = x \o y
    BY <2>2 DEF x, y
  <2>. QED
    BY <2>3, <2>4, <2>5, <2>7, <2>8, <2>9, <2>10 DEF b
<1>4. d = 0 \/ d \in 1 .. 9 \/ d \in 10 .. 18
  OBVIOUS
<1>. QED
  BY <1>1, <1>2, <1>3, <1>4

\* The parts that the reader cuts into the groups they were stored in.
CutAsStored(groups, d) ==
  \/ groups = IntegralGroups(d)
  \/ groups = FractionGroups(d) /\ (d <= 9 \/ d = 18)

\* The coefficients of a part come back, of a negative number if it starts with
\* a short group.
LEMMA PartReadBack ==
  ASSUME NEW d \in 0 .. 18, NEW groups, CutAsStored(groups, d),
         NEW c \in Coefficients(groups),
         NEW negative \in BOOLEAN, negative => HasShortGroup(d)
  PROVE  DecimalNumberPart(Masked(StoredGroups(c, groups), negative), negative) = Number(c)
<1>. DEFINE b == StoredGroups(c, groups)
<1>1. CASE d = 0
  <2>1. groups = <<>>
    BY <1>1, GroupsAre DEF CutAsStored
  <2>2. c = <<>> /\ b = <<>>
    BY <2>1, NoGroupStored
  <2>3. 0 % 9 = 0
    BY SMT
  <2>4. negative = FALSE
    BY <1>1, <2>3 DEF HasShortGroup, DIG_PER_DEC1
  <2>. QED
    BY <2>2, <2>4, NoGroupRead DEF Masked
<1>2. CASE d \in 1 .. 9
  <2>1. groups = <<d>>
    BY <1>2, GroupsAre DEF CutAsStored
  <2>2. c = <<c[1]>> /\ Fits(c[1], d) /\ b = Group(c[1], d)
    BY <1>2, <2>1, OneGroupStored
  <2>. HIDE DEF b
  <2>3. /\ b \in Seq(Byte) /\ Len(b) = DecimalPart(d) /\ c[1] \in Int
        /\ Unmasked(BigEndianNumber(Masked(b, negative)), negative) = c[1]
    BY <1>2, <2>2, GroupStored
  <2>4. Masked(b, negative) \in Seq(Byte) /\ Len(Masked(b, negative)) = Len(b)
    BY <2>3, MaskedBytes
  <2>5. DecimalPart(d) \in 1 .. 4
    BY <1>2, PartLengths
  <2>6. DecimalPart(d) = 4 => ~negative
    <3>1. \A n \in 1 .. 9 : n % 9 \in 1 .. 6 => n \in 1 .. 6
      BY SMT
    <3>2. d \in 1 .. 6 => DecimalPart(d) < 4
      BY <1>2, PartLengths
    <3>. QED
      BY <1>2, <2>5, <3>1, <3>2 DEF HasShortGroup, DIG_PER_DEC1
  <2>7. DecimalNumberPart(Masked(b, negative), negative) = Number(<<c[1]>>)
    BY <2>3, <2>4, <2>5, <2>6, OneGroupRead
  <2>. QED
    BY <2>2, <2>7 DEF b
<1>3. CASE d \in 10 .. 18
  <2>. DEFINE g == d - 9
  <2>1. g \in 1 .. 9 /\ 9 \in 1 .. 9
    BY <1>3, SMT
  <2>2. groups = <<g, 9>>
    <3>1. d = 18 => g = 9
      BY SMT
    <3>2. ~(d <= 9)
      BY <1>3
    <3>. QED
      BY <1>3, <3>1, <3>2, GroupsAre DEF CutAsStored
  <2>3. /\ c = <<c[1], c[2]>> /\ Fits(c[1], g) /\ Fits(c[2], 9)
        /\ b = Group(c[1], g) \o Group(c[2], 9)
    <3>. HIDE DEF g
    <3>. QED
      BY <2>1, <2>2, TwoGroupsStored
  <2>. DEFINE x == Group(c[1], g)
              y == Group(c[2], 9)
  <2>4. /\ x \in Seq(Byte) /\ Len(x) = DecimalPart(g) /\ c[1] \in Int
        /\ Unmasked(BigEndianNumber(Masked(x, negative)), negative) = c[1]
    <3>. HIDE DEF g
    <3>. QED
      BY <2>1, <2>3, GroupStored
  <2>5. /\ y \in Seq(Byte) /\ Len(y) = DecimalPart(9) /\ c[2] \in Int
        /\ Unmasked(BigEndianNumber(Masked(y, negative)), negative) = c[2]
    <3>. HIDE DEF g
    <3>. QED
      BY <2>1, <2>3, GroupStored
  <2>6. b = x \o y
    BY <2>3
  <2>7. DecimalPart(g) \in 1 .. 4 /\ DecimalPart(9) = 4
    <3>. HIDE DEF g
    <3>. QED
      BY <2>1, PartLengths
  <2>8. DecimalPart(g) = 4 => ~negative
    <3>1. \A n \in 10 .. 18 : n % 9 \in 1 .. 6 => n - 9 \in 1 .. 6
      BY SMT
    <3>2. negative => g \in 1 .. 6
      BY <1>3, <3>1 DEF HasShortGroup, DIG_PER_DEC1
    <3>. HIDE DEF g
    <3>3. g \in 1 .. 6 => DecimalPart(g) < 4
      BY <2>1, PartLengths
    <3>. QED
      BY <2>7, <3>2, <3>3
  <2>. HIDE DEF b, x, y, g
  <2>9. Masked(b, negative) = Masked(x, negative) \o Masked(y, negative)
    BY <2>4, <2>5, <2>6, MaskedTogether
  <2>10. /\ Masked(x, negative) \in Seq(Byte) /\ Len(Masked(x, negative)) = Len(x)
         /\ Masked(y, negative) \in Seq(Byte) /\ Len(Masked(y, negative)) = Len(y)
    BY <2>4, <2>5, MaskedBytes
  <2>11. DecimalNumberPart(Masked(x, negative) \o Masked(y, negative), negative)
           = Number(<<c[1], c[2]>>)
    <3>. DEFINE mx == Masked(x, negative)
                my == Masked(y, negative)
                v == c[1]
                w == c[2]
    <3>1. mx \in Seq(Byte) /\ Len(mx) \in 1 .. 4 /\ my \in Seq(Byte) /\ Len(my) = 4
      BY <2>4, <2>5, <2>7, <2>10
    <3>2. Len(mx) = 4 => ~negative
      BY <2>4, <2>8, <2>10
    <3>3. /\ v \in Int /\ Unmasked(BigEndianNumber(mx), negative) = v
          /\ w \in Int /\ Unmasked(BigEndianNumber(my), negative) = w
      BY <2>4, <2>5
    <3>. HIDE DEF mx, my, v, w
    <3>4. DecimalNumberPart(mx \o my, negative) = Number(<<v, w>>)
      BY <3>1, <3>2, <3>3, TwoGroupsRead
    <3>. QED
      BY <3>4 DEF mx, my, v, w
  <2>. QED
    BY <2>3, <2>9, <2>11 DEF b
<1>4. d = 0 \/ d \in 1 .. 9 \/ d \in 10 .. 18
  OBVIOUS
<1>. QED
  BY <1>1, <1>2, <1>3, <1>4

(***************************************************************************)
(* A whole decimal.                                                        *)
(***************************************************************************)

LEMMA SignBitIs ==
  ASSUME NEW b \in Seq(Byte), Len(b) \in Nat \ {0}
  PROVE  /\ SignBitFlipped(b) \in Seq(Byte)
         /\ Len(SignBitFlipped(b)) = Len(b)
         /\ \A i \in 1 .. Len(b) :
              SignBitFlipped(b)[i] = IF i = 1 THEN (b[1] + 128) % 256 ELSE b[i]
<1>. DEFINE f == SignBitFlipped(b)
<1>1. DOMAIN b = 1 .. Len(b) /\ 1 \in 1 .. Len(b)
  OBVIOUS
<1>2. f = [i \in 1 .. Len(b) |-> IF i = 1 THEN (b[1] + 128) % 256 ELSE b[i]]
  BY <1>1, Zenon DEF SignBitFlipped
<1>3. (b[1] + 128) % 256 \in Byte
  <2>1. \A x \in Int : (x + 128) % 256 \in Int
          /\ 0 <= (x + 128) % 256 /\ (x + 128) % 256 <= 255
    BY SMT
  <2>. QED
    BY <1>1, <2>1, BytesAreInts, ByteIs
<1>4. \A i \in 1 .. Len(b) : b[i] \in Byte
  BY BytesAreInts
<1>. HIDE DEF f
<1>5. f \in Seq(Byte) /\ Len(f) = Len(b)
  <2>1. \A i \in 1 .. Len(b) : (IF i = 1 THEN (b[1] + 128) % 256 ELSE b[i]) \in Byte
    BY <1>3, <1>4
  <2>. DEFINE F(i) == IF i = 1 THEN (b[1] + 128) % 256 ELSE b[i]
  <2>2. f = [i \in 1 .. Len(b) |-> F(i)] /\ \A i \in 1 .. Len(b) : F(i) \in Byte
    BY <1>2, <2>1
  <2>. HIDE DEF F
  <2>3. Len(b) \in Nat
    OBVIOUS
  <2>. QED
    BY <2>2, <2>3
<1>6. \A i \in 1 .. Len(b) : f[i] = IF i = 1 THEN (b[1] + 128) % 256 ELSE b[i]
  BY <1>2, Zenon
<1>. QED
  BY <1>5, <1>6 DEF f

\* The sign bit says which numbers are negative, and flipped back leaves the
\* bytes, complemented for those.
LEMMA SignReadBack ==
  ASSUME NEW b \in Seq(Byte), Len(b) \in Nat \ {0}, b[1] < 128, NEW negative \in BOOLEAN
  PROVE  LET w == Masked(SignBitFlipped(b), negative)
         IN  /\ w \in Seq(Byte) /\ Len(w) = Len(b)
             /\ w[1] < 128 <=> negative
             /\ SignBitFlipped(w) = Masked(b, negative)
<1>. DEFINE f == SignBitFlipped(b)
           w == Masked(f, negative)
           n == Len(b)
<1>1. f \in Seq(Byte) /\ Len(f) = n
      /\ \A i \in 1 .. n : f[i] = IF i = 1 THEN (b[1] + 128) % 256 ELSE b[i]
  BY SignBitIs
<1>. HIDE DEF f
<1>2. w \in Seq(Byte) /\ Len(w) = n
      /\ \A i \in 1 .. n : w[i] = IF negative THEN 255 - f[i] ELSE f[i]
  BY <1>1, MaskedBytes
<1>. HIDE DEF w
<1>3. SignBitFlipped(w) \in Seq(Byte) /\ Len(SignBitFlipped(w)) = n
      /\ \A i \in 1 .. n : SignBitFlipped(w)[i] = IF i = 1 THEN (w[1] + 128) % 256 ELSE w[i]
  BY <1>2, SignBitIs
<1>4. Masked(b, negative) \in Seq(Byte) /\ Len(Masked(b, negative)) = n
      /\ \A i \in 1 .. n : Masked(b, negative)[i] = IF negative THEN 255 - b[i] ELSE b[i]
  BY MaskedBytes
<1>5. \A i \in 1 .. n : b[i] \in Int /\ 0 <= b[i] /\ b[i] <= 255
  BY BytesAreInts
<1>6. 1 \in 1 .. n /\ n \in Nat
  OBVIOUS
<1>7. f[1] = b[1] + 128
  <2>1. \A x \in Int : 0 <= x /\ x < 128 => (x + 128) % 256 = x + 128
    BY SMT
  <2>2. b[1] \in Int /\ 0 <= b[1] /\ b[1] < 128
    BY <1>5, <1>6
  <2>. QED
    BY <1>1, <1>6, <2>1, <2>2, Zenon
<1>8. w[1] < 128 <=> negative
  <2>1. w[1] = IF negative THEN 255 - (b[1] + 128) ELSE b[1] + 128
    BY <1>2, <1>6, <1>7
  <2>2. b[1] \in Int /\ 0 <= b[1] /\ b[1] < 128
    BY <1>5, <1>6
  <2>3. CASE negative
    <3>1. w[1] = 127 - b[1]
      BY <2>1, <2>2, <2>3
    <3>. QED
      BY <2>2, <2>3, <3>1
  <2>4. CASE ~negative
    BY <2>1, <2>2, <2>4
  <2>. QED
    BY <2>3, <2>4
<1>9. \A i \in 1 .. n : SignBitFlipped(w)[i] = Masked(b, negative)[i]
  <2>. SUFFICES ASSUME NEW i \in 1 .. n
                PROVE  SignBitFlipped(w)[i] = Masked(b, negative)[i]
    OBVIOUS
  <2>1. CASE i = 1
    <3>1. SignBitFlipped(w)[i] = ((IF negative THEN 255 - (b[1] + 128) ELSE b[1] + 128) + 128) % 256
      BY <1>2, <1>3, <1>6, <1>7, <2>1
    <3>2. Masked(b, negative)[i] = IF negative THEN 255 - b[1] ELSE b[1]
      BY <1>4, <2>1
    <3>3. \A x \in Int : 0 <= x /\ x < 128 =>
            ((255 - (x + 128)) + 128) % 256 = 255 - x /\ ((x + 128) + 128) % 256 = x
      BY SMT
    <3>4. b[1] \in Int /\ 0 <= b[1] /\ b[1] < 128
      BY <1>5, <1>6
    <3>5. /\ ((255 - (b[1] + 128)) + 128) % 256 = 255 - b[1]
          /\ ((b[1] + 128) + 128) % 256 = b[1]
      BY <3>3, <3>4, Zenon
    <3>. QED
      BY <3>1, <3>2, <3>5, Zenon
  <2>2. CASE i # 1
    <3>1. SignBitFlipped(w)[i] = w[i]
      BY <1>3, <2>2, Zenon
    <3>2. f[i] = b[i]
      BY <1>1, <2>2, Zenon
    <3>3. w[i] = IF negative THEN 255 - b[i] ELSE b[i]
      BY <1>2, <3>2, Zenon
    <3>. QED
      BY <1>4, <3>1, <3>3, Zenon
  <2>. QED
    BY <2>1, <2>2
<1>10. SignBitFlipped(w) = Masked(b, negative)
  <2>. DEFINE x == SignBitFlipped(w)
              y == Masked(b, negative)
  <2>. HIDE DEF x, y
  <2>1. x \in Seq(Byte) /\ y \in Seq(Byte) /\ Len(x) = Len(y)
        /\ \A i \in 1 .. Len(x) : x[i] = y[i]
    BY <1>3, <1>4, <1>9 DEF x, y
  <2>2. x = y
    BY <2>1
  <2>. QED
    BY <2>2 DEF x, y
<1>. QED
  BY <1>2, <1>8, <1>10 DEF f, w

\* The bytes of the two parts one behind the other.
Plain(value, precision, scale) ==
  StoredGroups(value.integral, IntegralGroups(precision - scale))
    \o StoredGroups(value.fraction, FractionGroups(scale))

LEMMA PlainIs ==
  ASSUME NEW precision \in 1 .. 36, NEW scale \in 0 .. 18, precision - scale \in 0 .. 18,
         NEW value \in DecimalValues(precision, scale)
  PROVE  LET ib == StoredGroups(value.integral, IntegralGroups(precision - scale))
             fb == StoredGroups(value.fraction, FractionGroups(scale))
         IN  /\ ib \in Seq(Byte) /\ Len(ib) = DecimalPart(precision - scale)
             /\ fb \in Seq(Byte) /\ Len(fb) = DecimalPart(scale)
             /\ Len(ib \o fb) = Len(ib) + Len(fb)
             /\ ib \o fb \in Seq(Byte) /\ Len(ib \o fb) \in Nat \ {0}
             /\ (ib \o fb)[1] < 128
<1>. DEFINE whole == precision - scale
           ib == StoredGroups(value.integral, IntegralGroups(whole))
           fb == StoredGroups(value.fraction, FractionGroups(scale))
<1>1. /\ value.integral \in Coefficients(IntegralGroups(whole))
      /\ value.fraction \in Coefficients(FractionGroups(scale))
  BY DEF DecimalValues
<1>2. whole \in 0 .. 18 /\ (whole = 0 => scale # 0)
  OBVIOUS
<1>. HIDE DEF whole
<1>3. /\ ib \in Seq(Byte) /\ Len(ib) = DecimalPart(whole)
      /\ whole = 0 => ib = <<>>
      /\ whole # 0 => Len(ib) \in Nat \ {0} /\ ib[1] < 128
  BY <1>1, <1>2, PartStored
<1>4. /\ fb \in Seq(Byte) /\ Len(fb) = DecimalPart(scale)
      /\ scale # 0 => Len(fb) \in Nat \ {0} /\ fb[1] < 128
  BY <1>1, PartStored
<1>. HIDE DEF ib, fb
<1>5. /\ ib \o fb \in Seq(Byte) /\ Len(ib \o fb) = Len(ib) + Len(fb)
      /\ \A m \in 1 .. Len(ib) : (ib \o fb)[m] = ib[m]
  BY <1>3, <1>4, Concatenated
<1>6. Len(ib \o fb) \in Nat \ {0} /\ (ib \o fb)[1] < 128
  <2>1. CASE whole = 0
    <3>1. <<>> \o fb = fb
      BY <1>4
    <3>. QED
      BY <1>2, <1>3, <1>4, <2>1, <3>1
  <2>2. CASE whole # 0
    <3>1. Len(ib) \in Nat \ {0} /\ Len(fb) \in Nat /\ ib[1] < 128
      BY <1>3, <1>4, <2>2
    <3>2. 1 \in 1 .. Len(ib) /\ Len(ib) + Len(fb) \in Nat \ {0}
      BY <3>1
    <3>. QED
      BY <1>5, <3>1, <3>2
  <2>. QED
    BY <2>1, <2>2
<1>. QED
  BY <1>3, <1>4, <1>5, <1>6 DEF ib, fb, whole

\* What the wire of a decimal says.
LEMMA DecimalStored ==
  ASSUME NEW precision \in 1 .. 36, NEW scale \in 0 .. 18, precision - scale \in 0 .. 18,
         NEW value \in DecimalValues(precision, scale)
  PROVE  LET w == StoredDecimal(value, precision, scale)
         IN  /\ w \in Seq(Byte)
             /\ Len(w) = DecimalPart(precision - scale) + DecimalPart(scale)
             /\ Len(w) \in Nat \ {0}
             /\ w[1] < 128 <=> value.negative
             /\ SignBitFlipped(w) = Masked(Plain(value, precision, scale), value.negative)
<1>. DEFINE plain == Plain(value, precision, scale)
           w == StoredDecimal(value, precision, scale)
<1>1. /\ plain \in Seq(Byte) /\ Len(plain) \in Nat \ {0} /\ plain[1] < 128
      /\ Len(plain) = DecimalPart(precision - scale) + DecimalPart(scale)
  BY PlainIs DEF Plain
<1>2. value.negative \in BOOLEAN
  BY DEF DecimalValues
<1>3. w = Masked(SignBitFlipped(plain), value.negative)
  BY DEF StoredDecimal, Plain, Masked
<1>. HIDE DEF plain, w
<1>4. /\ w \in Seq(Byte) /\ Len(w) = Len(plain)
      /\ w[1] < 128 <=> value.negative
      /\ SignBitFlipped(w) = Masked(plain, value.negative)
  BY <1>1, <1>2, <1>3, SignReadBack
<1>. QED
  BY <1>1, <1>4 DEF plain, w

\* Both numbers of a decimal come back, with the sign.
LEMMA DecimalReadBack ==
  ASSUME NEW precision \in 1 .. 36, NEW scale \in 0 .. 18, precision - scale \in 0 .. 18,
         NEW value \in DecimalValues(precision, scale), NEW g,
         scale <= DIG_PER_DEC1 \/ scale % DIG_PER_DEC1 = 0,
         value.negative => HasShortGroup(precision - scale) /\ HasShortGroup(scale)
  PROVE  LET read == DecimalNumber(StoredDecimal(value, precision, scale), precision, scale, g)
         IN  /\ read.negative = value.negative
             /\ read.integral = Number(value.integral)
             /\ read.fractional = Number(value.fraction)
<1>. DEFINE whole == precision - scale
           ib == StoredGroups(value.integral, IntegralGroups(whole))
           fb == StoredGroups(value.fraction, FractionGroups(scale))
           w == StoredDecimal(value, precision, scale)
           int_l == DecimalPart(whole)
           frac_l == DecimalPart(scale)
           negative == w[1] < 128
           nbuf == SignBitFlipped(SubSeq(w, 1, int_l + frac_l))
           read == DecimalNumber(w, precision, scale, g)
<1>1. /\ read.negative = negative
      /\ read.integral = DecimalNumberPart(SubSeq(nbuf, 1, int_l), negative)
      /\ read.fractional
           = DecimalNumberPart(SubSeq(nbuf, int_l + 1, int_l + frac_l), negative)
  BY DEF DecimalNumber
<1>2. /\ ib \in Seq(Byte) /\ Len(ib) = int_l
      /\ fb \in Seq(Byte) /\ Len(fb) = frac_l
      /\ Plain(value, precision, scale) = ib \o fb
  <2>1. Plain(value, precision, scale) = ib \o fb
    BY Zenon DEF Plain
  <2>2. ib \in Seq(Byte) /\ Len(ib) = int_l /\ fb \in Seq(Byte) /\ Len(fb) = frac_l
    BY PlainIs, Zenon
  <2>. QED
    BY <2>1, <2>2
<1>3. /\ w \in Seq(Byte) /\ Len(w) = int_l + frac_l
      /\ w[1] < 128 <=> value.negative
      /\ SignBitFlipped(w) = Masked(ib \o fb, value.negative)
  BY <1>2, DecimalStored
<1>4. value.negative \in BOOLEAN /\ whole \in 0 .. 18
      /\ value.integral \in Coefficients(IntegralGroups(whole))
      /\ value.fraction \in Coefficients(FractionGroups(scale))
  BY DEF DecimalValues
<1>. HIDE DEF read
<1>5. negative = value.negative
  BY <1>3, <1>4
<1>6. nbuf = Masked(ib, value.negative) \o Masked(fb, value.negative)
  <2>1. SubSeq(w, 1, int_l + frac_l) = w
    <3>. HIDE DEF w, int_l, frac_l
    <3>1. \A s \in Seq(Byte) : SubSeq(s, 1, Len(s)) = s
      BY SubSeqFull
    <3>. QED
      BY <1>3, <3>1, Zenon
  <2>2. Masked(ib \o fb, value.negative)
          = Masked(ib, value.negative) \o Masked(fb, value.negative)
    <3>. HIDE DEF ib, fb
    <3>. QED
      BY <1>2, <1>4, MaskedTogether
  <2>. HIDE DEF w, int_l, frac_l, ib, fb
  <2>. QED
    BY <1>3, <2>1, <2>2
<1>7. /\ Masked(ib, value.negative) \in Seq(Byte) /\ Len(Masked(ib, value.negative)) = int_l
      /\ Masked(fb, value.negative) \in Seq(Byte) /\ Len(Masked(fb, value.negative)) = frac_l
  <2>. HIDE DEF ib, fb, int_l, frac_l
  <2>. QED
    BY <1>2, <1>4, MaskedBytes
<1>8. /\ SubSeq(nbuf, 1, int_l) = Masked(ib, value.negative)
      /\ SubSeq(nbuf, int_l + 1, int_l + frac_l) = Masked(fb, value.negative)
  <2>. HIDE DEF ib, fb, int_l, frac_l, nbuf
  <2>. QED
    BY <1>6, <1>7, CutInTwo
<1>9. DecimalNumberPart(Masked(ib, value.negative), value.negative) = Number(value.integral)
  <2>1. CutAsStored(IntegralGroups(whole), whole)
    BY DEF CutAsStored
  <2>2. value.negative => HasShortGroup(whole)
    OBVIOUS
  <2>. HIDE DEF whole
  <2>. QED
    BY <1>4, <2>1, <2>2, PartReadBack
<1>10. DecimalNumberPart(Masked(fb, value.negative), value.negative) = Number(value.fraction)
  <2>1. CutAsStored(FractionGroups(scale), scale)
    <3>1. \A n \in 10 .. 17 : n % 9 # 0
      BY SMT
    <3>2. scale \in 10 .. 17 \/ scale <= 9 \/ scale = 18
      OBVIOUS
    <3>. QED
      BY <3>1, <3>2 DEF CutAsStored, DIG_PER_DEC1
  <2>. QED
    BY <1>4, <2>1, PartReadBack
<1>. HIDE DEF nbuf, int_l, frac_l, ib, fb, negative, w
<1>11. /\ read.negative = value.negative
       /\ read.integral = Number(value.integral)
       /\ read.fractional = Number(value.fraction)
  BY <1>1, <1>5, <1>8, <1>9, <1>10
<1>. QED
  BY <1>11 DEF read, w

LEMMA DecimalsNotNone == NoColumn.type # "NEWDECIMAL"
BY DEF NoColumn

LEMMA DecimalColumns ==
  ASSUME NEW c \in Values, c.type = "NEWDECIMAL"
  PROVE  /\ c.meta[1] \in 1 .. 36 /\ c.meta[2] \in 0 .. 18 /\ c.meta[1] - c.meta[2] \in 0 .. 18
         /\ c.value \in DecimalValues(c.meta[1], c.meta[2])
BY ValuesAssumption DEF ValuesAssumption, IntegerTypes, TemporalTypes

\* A DECIMAL is logged with the digits and the sign it was stored with, if its
\* numbers fit a long and its fraction is not cut in the wrong place, and if it
\* is not negative or has a short group in both parts (decimal.c:52-98).
THEOREM DecimalsReadBack == Spec => []DecimalsDecoded
<1>1. StoredInv /\ ReadInv => DecimalsDecoded
  <2>. SUFFICES ASSUME StoredInv, ReadInv, pc = "read", column.type = "NEWDECIMAL",
                       column.meta[2] <= DIG_PER_DEC1 \/ column.meta[2] % DIG_PER_DEC1 = 0,
                       column.value.negative =>
                         /\ HasShortGroup(column.meta[1] - column.meta[2])
                         /\ HasShortGroup(column.meta[2])
                PROVE  /\ field.negative = column.value.negative
                       /\ field.integral = Number(column.value.integral)
                       /\ field.fractional = Number(column.value.fraction)
    BY DEF DecimalsDecoded, ReadOf
  <2>1. column \in Values /\ column # NoColumn
    BY DecimalsNotNone DEF StoredInv
  <2>2. PICK g \in Garbage : field = Decoded(column, Stored(column), g)
    BY <2>1 DEF ReadInv
  <2>3. field = DecimalNumber(StoredDecimal(column.value, column.meta[1], column.meta[2]),
                              column.meta[1], column.meta[2], g[1])
    BY <2>2 DEF Decoded, Stored
  <2>. DEFINE precision == column.meta[1]
              scale == column.meta[2]
              value == column.value
  <2>4. /\ precision \in 1 .. 36 /\ scale \in 0 .. 18 /\ precision - scale \in 0 .. 18
        /\ value \in DecimalValues(precision, scale)
    BY <2>1, DecimalColumns
  <2>5. /\ scale <= DIG_PER_DEC1 \/ scale % DIG_PER_DEC1 = 0
        /\ value.negative => HasShortGroup(precision - scale) /\ HasShortGroup(scale)
        /\ field = DecimalNumber(StoredDecimal(value, precision, scale), precision, scale, g[1])
    BY <2>3
  <2>. HIDE DEF precision, scale, value
  <2>6. /\ field.negative = value.negative
        /\ field.integral = Number(value.integral)
        /\ field.fractional = Number(value.fraction)
    BY <2>4, <2>5, DecimalReadBack
  <2>. QED
    BY <2>6 DEF value
<1>. QED
  BY <1>1, ValueRead, PTL

(***************************************************************************)
(* The bytes on the wire are bytes.                                        *)
(***************************************************************************)

LEMMA NumbersAreBytes ==
  ASSUME NEW v \in Int, NEW n \in 1 .. 4
  PROVE  /\ LittleEndian(v, n) \in Seq(Byte) /\ Len(LittleEndian(v, n)) = n
         /\ BigEndian(v, n) \in Seq(Byte) /\ Len(BigEndian(v, n)) = n
<1>. DEFINE units == <<1, 256, 65536, 16777216>>
           F(i) == Digit(v, units[i])
           G(i) == Digit(v, units[n + 1 - i])
<1>1. LittleEndian(v, n) = [i \in 1 .. n |-> F(i)]
  BY DEF LittleEndian, Digit
<1>2. BigEndian(v, n) = [i \in 1 .. n |-> G(i)]
  BY DEF BigEndian, Digit
<1>3. \A i \in 1 .. n : F(i) \in Byte /\ G(i) \in Byte
  <2>1. \A i \in 1 .. n : units[i] \in {1, 256, 65536, 16777216}
          /\ units[n + 1 - i] \in {1, 256, 65536, 16777216}
    BY SMT
  <2>2. \A u \in {1, 256, 65536, 16777216} : Digit(v, u) \in Byte
    BY DigitIsByte, ByteIs
  <2>. QED
    BY <2>1, <2>2
<1>. HIDE DEF F, G
<1>4. /\ [i \in 1 .. n |-> F(i)] \in Seq(Byte) /\ Len([i \in 1 .. n |-> F(i)]) = n
      /\ [i \in 1 .. n |-> G(i)] \in Seq(Byte) /\ Len([i \in 1 .. n |-> G(i)]) = n
  BY <1>3, SMT
<1>. QED
  BY <1>1, <1>2, <1>4

\* How many bytes a value of a type takes; those of a VARCHAR and a DECIMAL
\* depend on more than the type.
Width(type) ==
  CASE type = "TINY" -> 1
    [] type = "SHORT" -> 2
    [] type \in {"INT24", "DATE", "TIME", "TIME2"} -> 3
    [] type \in {"LONG", "TIMESTAMP2"} -> 4
    [] type = "DATETIME2" -> 5
    [] type = "LONGLONG" -> 8

LEMMA DomainsAreIntegers ==
  ASSUME NEW type \in IntegerTypes, NEW v \in Domain(type)
  PROVE  v \in Int
<1>1. \A max \in Nat : Signed(max) \subseteq Int /\ Unsigned(max) \subseteq Int
        /\ EitherSign(max) \subseteq Int
  BY SMT DEF Signed, Unsigned, EitherSign
<1>2. Domain(type) \subseteq Int
  BY <1>1 DEF Domain, IntegerTypes
<1>. QED
  BY <1>2

LEMMA StoredIs ==
  ASSUME NEW c
  PROVE  /\ c.type = "TINY" => Stored(c) = LittleEndian(c.value, 1) /\ Width(c.type) = 1
         /\ c.type = "SHORT" => Stored(c) = LittleEndian(c.value, 2) /\ Width(c.type) = 2
         /\ c.type = "INT24" => Stored(c) = LittleEndian(c.value, 3) /\ Width(c.type) = 3
         /\ c.type = "LONG" => Stored(c) = LittleEndian(c.value, 4) /\ Width(c.type) = 4
         /\ c.type = "TIMESTAMP2" => Stored(c) = BigEndian(c.value, 4) /\ Width(c.type) = 4
         /\ c.type = "LONGLONG" => Stored(c) = StoredLonglong(c.value) /\ Width(c.type) = 8
         /\ c.type = "DATE" => Stored(c) = StoredDate(c.value) /\ Width(c.type) = 3
         /\ c.type = "TIME" => Stored(c) = StoredTime(c.value) /\ Width(c.type) = 3
         /\ c.type = "TIME2" => Stored(c) = StoredTime2(c.value) /\ Width(c.type) = 3
         /\ c.type = "DATETIME2" => Stored(c) = StoredDatetime2(c.value) /\ Width(c.type) = 5
<1>1. /\ c.type = "TINY" => Stored(c) = LittleEndian(c.value, 1)
      /\ c.type = "SHORT" => Stored(c) = LittleEndian(c.value, 2)
      /\ c.type = "INT24" => Stored(c) = LittleEndian(c.value, 3)
      /\ c.type = "LONG" => Stored(c) = LittleEndian(c.value, 4)
      /\ c.type = "TIMESTAMP2" => Stored(c) = BigEndian(c.value, 4)
      /\ c.type = "LONGLONG" => Stored(c) = StoredLonglong(c.value)
      /\ c.type = "DATE" => Stored(c) = StoredDate(c.value)
      /\ c.type = "TIME" => Stored(c) = StoredTime(c.value)
      /\ c.type = "TIME2" => Stored(c) = StoredTime2(c.value)
      /\ c.type = "DATETIME2" => Stored(c) = StoredDatetime2(c.value)
  BY SMT DEF Stored
<1>2. /\ c.type = "TINY" => Width(c.type) = 1
      /\ c.type = "SHORT" => Width(c.type) = 2
      /\ c.type \in {"INT24", "DATE", "TIME", "TIME2"} => Width(c.type) = 3
      /\ c.type \in {"LONG", "TIMESTAMP2"} => Width(c.type) = 4
      /\ c.type = "LONGLONG" => Width(c.type) = 8
      /\ c.type = "DATETIME2" => Width(c.type) = 5
  BY SMT DEF Width
<1>. QED
  BY <1>1, <1>2, Zenon

LEMMA FixedWidthStored ==
  ASSUME NEW c, c.type \in IntegerTypes \cup TemporalTypes, c.value \in Domain(c.type)
  PROVE  Stored(c) \in Seq(Byte) /\ Len(Stored(c)) = Width(c.type)
<1>. DEFINE v == c.value
<1>1. CASE c.type \in IntegerTypes \ {"LONGLONG"}
  <2>1. v \in Int
    BY <1>1, DomainsAreIntegers
  <2>2. 1 \in 1 .. 4 /\ 2 \in 1 .. 4 /\ 3 \in 1 .. 4 /\ 4 \in 1 .. 4
    OBVIOUS
  <2>3. \/ Stored(c) = LittleEndian(v, 1) /\ Width(c.type) = 1
        \/ Stored(c) = LittleEndian(v, 2) /\ Width(c.type) = 2
        \/ Stored(c) = LittleEndian(v, 3) /\ Width(c.type) = 3
        \/ Stored(c) = LittleEndian(v, 4) /\ Width(c.type) = 4
        \/ Stored(c) = BigEndian(v, 4) /\ Width(c.type) = 4
    BY <1>1, StoredIs, Zenon DEF IntegerTypes
  <2>. QED
    BY <2>1, <2>2, <2>3, NumbersAreBytes, Zenon
<1>2. CASE c.type = "LONGLONG"
  <2>1. v \in Int
    BY <1>2, DomainsAreIntegers DEF IntegerTypes
  <2>. DEFINE x == LittleEndian(v, 4)
              fill == IF v < 0 THEN 255 ELSE 0
              y == [i \in 1 .. 4 |-> fill]
  <2>2. Stored(c) = x \o y /\ Width(c.type) = 8
    BY <1>2, StoredIs, Zenon DEF StoredLonglong
  <2>. HIDE DEF v
  <2>3. x \in Seq(Byte) /\ Len(x) = 4
    BY <2>1, NumbersAreBytes, SMT
  <2>4. fill \in Byte
    BY ByteIs
  <2>. HIDE DEF x, fill
  <2>5. y \in Seq(Byte) /\ Len(y) = 4
    BY <2>4, SMT
  <2>. HIDE DEF y
  <2>6. x \o y \in Seq(Byte) /\ Len(x \o y) = 8
    <3>1. x \o y \in Seq(Byte) /\ Len(x \o y) = Len(x) + Len(y)
      BY <2>3, <2>5, Concatenated
    <3>. QED
      BY <2>3, <2>5, <3>1
  <2>. QED
    BY <2>2, <2>6
<1>3. CASE c.type = "DATE"
  <2>1. v \in Dates
    BY <1>3 DEF Domain
  <2>2. v.year \in Int /\ v.month \in Int /\ v.day \in Int
    BY <2>1, RangesAre DEF Dates
  <2>. DEFINE n == 512 * v.year + 32 * v.month + v.day
  <2>3. n \in Int
    BY <2>2
  <2>4. Stored(c) = LittleEndian(n, 3) /\ Width(c.type) = 3
    BY <1>3, StoredIs, Zenon DEF StoredDate
  <2>. HIDE DEF n
  <2>. QED
    BY <2>3, <2>4, NumbersAreBytes, SMT
<1>4. CASE c.type \in {"TIME", "TIME2"}
  <2>1. v \in Times
    BY <1>4 DEF Domain
  <2>2. v.sign \in Int /\ v.hour \in Int /\ v.minute \in Int /\ v.second \in Int
    BY <2>1, RangesAre DEF Times
  <2>. DEFINE n == v.sign * (10000 * v.hour + 100 * v.minute + v.second)
              m == 8388608 + v.sign * (4096 * v.hour + 64 * v.minute + v.second)
  <2>3. n \in Int /\ m \in Int
    BY <2>2
  <2>4. /\ Stored(c) = LittleEndian(n, 3) \/ Stored(c) = BigEndian(m, 3)
        /\ Width(c.type) = 3
    <3>1. StoredTime(v) = LittleEndian(n, 3) /\ StoredTime2(v) = BigEndian(m, 3)
      BY SMT DEF StoredTime, StoredTime2
    <3>. HIDE DEF n, m
    <3>. QED
      BY <1>4, <3>1, StoredIs, Zenon
  <2>. HIDE DEF n, m
  <2>. QED
    BY <2>3, <2>4, NumbersAreBytes, SMT
<1>5. CASE c.type = "DATETIME2"
  <2>1. v \in Datetimes
    BY <1>5 DEF Domain
  <2>2. /\ v.year \in Int /\ v.month \in Int /\ v.day \in Int
        /\ v.hour \in Int /\ v.minute \in Int /\ v.second \in Int
    BY <2>1, RangesAre DEF Datetimes
  <2>. DEFINE upper == 8388608 + 64 * (13 * v.year + v.month) + 2 * v.day + v.hour \div 16
              lower == 4096 * (v.hour % 16) + 64 * v.minute + v.second
              x == BigEndian(upper, 3)
              y == BigEndian(lower, 2)
  <2>3. upper \in Int /\ lower \in Int
    <3>. DEFINE h == v.hour \div 16
                k == v.hour % 16
    <3>1. h \in Int /\ k \in Int
      BY <2>2, SMT
    <3>. HIDE DEF h, k, v
    <3>2. /\ 8388608 + 64 * (13 * v.year + v.month) + 2 * v.day + h \in Int
          /\ 4096 * k + 64 * v.minute + v.second \in Int
      BY <2>2, <3>1, SMT
    <3>. QED
      BY <3>2, SMT DEF h, k
  <2>4. Stored(c) = x \o y /\ Width(c.type) = 5
    <3>1. StoredDatetime2(v) = x \o y
      BY SMT DEF StoredDatetime2
    <3>. HIDE DEF x, y, upper, lower
    <3>. QED
      BY <1>5, <3>1, StoredIs, Zenon
  <2>. HIDE DEF upper, lower
  <2>5. x \in Seq(Byte) /\ Len(x) = 3 /\ y \in Seq(Byte) /\ Len(y) = 2
    BY <2>3, NumbersAreBytes, SMT
  <2>. HIDE DEF x, y
  <2>6. x \o y \in Seq(Byte) /\ Len(x \o y) = 5
    <3>1. x \o y \in Seq(Byte) /\ Len(x \o y) = Len(x) + Len(y)
      BY <2>5, Concatenated
    <3>. QED
      BY <2>5, <3>1
  <2>. QED
    BY <2>4, <2>6
<1>. QED
  BY <1>1, <1>2, <1>3, <1>4, <1>5 DEF IntegerTypes, TemporalTypes

LEMMA VarcharStored ==
  ASSUME NEW s \in Seq(Byte), NEW meta
  PROVE  LET n == IF meta[2] = 0 THEN 1 ELSE 2
             b == StoredVarchar(s, meta)
         IN  /\ b \in Seq(Byte) /\ Len(b) = n + Len(s)
             /\ b[1] = LittleEndian(Len(s), n)[1]
<1>. DEFINE n == IF meta[2] = 0 THEN 1 ELSE 2
           x == LittleEndian(Len(s), n)
<1>1. n \in 1 .. 4 /\ Len(s) \in Int
  BY SMT
<1>2. x \in Seq(Byte) /\ Len(x) = n
  <2>. HIDE DEF n
  <2>. QED
    BY <1>1, NumbersAreBytes
<1>3. StoredVarchar(s, meta) = x \o s
  BY DEF StoredVarchar
<1>. HIDE DEF x, n
<1>4. x \o s \in Seq(Byte) /\ Len(x \o s) = n + Len(s) /\ (x \o s)[1] = x[1]
  <2>1. x \o s \in Seq(Byte) /\ Len(x \o s) = Len(x) + Len(s)
        /\ \A m \in 1 .. Len(x) : (x \o s)[m] = x[m]
    BY <1>2, Concatenated
  <2>. QED
    BY <1>1, <1>2, <2>1
<1>. QED
  BY <1>3, <1>4 DEF x, n

LEMMA ColumnsAre ==
  ASSUME NEW c \in Values
  PROVE  \/ c.type \in IntegerTypes \cup TemporalTypes /\ c.value \in Domain(c.type)
         \/ /\ c.type = "NEWDECIMAL"
            /\ c.meta[1] \in 1 .. 36 /\ c.meta[2] \in 0 .. 18 /\ c.meta[1] - c.meta[2] \in 0 .. 18
            /\ c.value \in DecimalValues(c.meta[1], c.meta[2])
         \/ /\ c.type = "VARCHAR"
            /\ c.meta[1] \in Byte /\ c.meta[2] \in Byte /\ c.value \in Seq(Byte)
            /\ Len(c.value) <= c.meta[1] + 256 * c.meta[2]
BY ValuesAssumption DEF ValuesAssumption

LEMMA StoredIsBytes ==
  ASSUME NEW c \in Values
  PROVE  Stored(c) \in Seq(Byte)
<1>1. CASE c.type \in IntegerTypes \cup TemporalTypes /\ c.value \in Domain(c.type)
  BY <1>1, FixedWidthStored
<1>2. CASE c.type = "NEWDECIMAL"
  <2>1. Stored(c) = StoredDecimal(c.value, c.meta[1], c.meta[2])
    BY <1>2 DEF Stored
  <2>. DEFINE precision == c.meta[1]
              scale == c.meta[2]
              value == c.value
  <2>2. /\ precision \in 1 .. 36 /\ scale \in 0 .. 18 /\ precision - scale \in 0 .. 18
        /\ value \in DecimalValues(precision, scale)
    BY <1>2, DecimalColumns
  <2>. HIDE DEF precision, scale, value
  <2>3. StoredDecimal(value, precision, scale) \in Seq(Byte)
    BY <2>2, DecimalStored
  <2>. QED
    BY <2>1, <2>3 DEF precision, scale, value
<1>3. CASE c.type = "VARCHAR"
  <2>1. c.value \in Seq(Byte)
    BY <1>3, ColumnsAre DEF IntegerTypes, TemporalTypes
  <2>2. Stored(c) = StoredVarchar(c.value, c.meta)
    BY <1>3 DEF Stored
  <2>. QED
    BY <2>1, <2>2, VarcharStored
<1>. QED
  BY <1>1, <1>2, <1>3, ColumnsAre

(***************************************************************************)
(* What is read fits the type it is read into.                             *)
(***************************************************************************)

\* The readers' shifts and masks leave bytes, and a year of 16 bits.
FieldsFit(tmp) ==
  /\ (tmp \div 4096) % 256 \in Byte /\ (tmp \div 64) % 64 \in Byte /\ tmp % 64 \in Byte
  /\ (tmp \div 4096) % 32 \in Byte
  /\ tmp \div 512 \in Uint16 /\ (tmp \div 32) % 16 \in Byte /\ tmp % 32 \in Byte
  /\ ((16 * tmp) \div 625) % 256 \in Byte
  /\ (16 * ((16 * tmp) % 625)) \div 100 \in Byte
  /\ (16 * ((16 * tmp) % 625)) % 100 \in Byte

LEMMA Uint16Is == \A x : x \in Uint16 <=> x \in Int /\ 0 <= x /\ x <= 65535
<1>1. \A max \in Nat : \A x : x \in Unsigned(max) <=> x \in Int /\ 0 <= x /\ x <= max
  BY SMT DEF Unsigned
<1>. QED
  BY <1>1, SMT DEF Uint16

LEMMA FieldsFitAny ==
  ASSUME NEW w \in Int, w \div 512 \in Uint16
  PROVE  FieldsFit(w)
<1>. DEFINE upper == w \div 4096
           middle == w \div 64
           lower == w \div 32
           scaled == 16 * w
           high == scaled \div 625
           below == 16 * (scaled % 625)
<1>1. /\ upper \in Int /\ middle \in Int /\ lower \in Int
      /\ scaled \in Int /\ high \in Int
  BY SMT
<1>2. below \in Int /\ 0 <= below /\ below <= 9984
  <2>. HIDE DEF scaled
  <2>. QED
    BY <1>1, SMT
<1>. HIDE DEF upper, middle, lower, high, below
<1>3. /\ upper % 256 \in Int /\ 0 <= upper % 256 /\ upper % 256 <= 255
      /\ upper % 32 \in Int /\ 0 <= upper % 32 /\ upper % 32 <= 255
      /\ middle % 64 \in Int /\ 0 <= middle % 64 /\ middle % 64 <= 255
      /\ lower % 16 \in Int /\ 0 <= lower % 16 /\ lower % 16 <= 255
      /\ w % 64 \in Int /\ 0 <= w % 64 /\ w % 64 <= 255
      /\ w % 32 \in Int /\ 0 <= w % 32 /\ w % 32 <= 255
      /\ high % 256 \in Int /\ 0 <= high % 256 /\ high % 256 <= 255
      /\ below % 100 \in Int /\ 0 <= below % 100 /\ below % 100 <= 255
      /\ below \div 100 \in Int /\ 0 <= below \div 100 /\ below \div 100 <= 255
  BY <1>1, <1>2, SMT
<1>4. /\ upper % 256 \in Byte /\ middle % 64 \in Byte /\ w % 64 \in Byte
      /\ upper % 32 \in Byte /\ lower % 16 \in Byte /\ w % 32 \in Byte
      /\ high % 256 \in Byte /\ below % 100 \in Byte /\ below \div 100 \in Byte
  BY <1>3, ByteIs, SMT
<1>. QED
  BY <1>4, SMT DEF FieldsFit, upper, middle, lower, scaled, high, below

LEMMA ThreeBytesFit ==
  ASSUME NEW tmp \in Int, 0 <= tmp, tmp <= 16777215
  PROVE  FieldsFit(tmp)
<1>1. tmp \div 512 \in Int /\ 0 <= tmp \div 512 /\ tmp \div 512 <= 65535
  BY SMT
<1>2. tmp \div 512 \in Uint16
  BY <1>1, Uint16Is, SMT
<1>. QED
  BY <1>2, FieldsFitAny, SMT

LEMMA SwappedFields ==
  ASSUME NEW b, b[1] \in Byte, b[2] \in Byte, b[3] \in Byte
  PROVE  FieldsFit(Swapped3(b)) /\ FieldsFit(Uint3(b))
<1>1. /\ b[1] \in Int /\ 0 <= b[1] /\ b[1] <= 255
      /\ b[2] \in Int /\ 0 <= b[2] /\ b[2] <= 255
      /\ b[3] \in Int /\ 0 <= b[3] /\ b[3] <= 255
  BY ByteIs
<1>2. Swapped3(b) \in Int /\ 0 <= Swapped3(b) /\ Swapped3(b) <= 16777215
  BY <1>1, SMT DEF Swapped3
<1>3. Uint3(b) \in Int /\ 0 <= Uint3(b) /\ Uint3(b) <= 16777215
  BY <1>1, SMT DEF Uint3
<1>. QED
  BY <1>2, <1>3, ThreeBytesFit, SMT

LEMMA FieldOfIs ==
  /\ FieldOf("TINY") = Signed(127) /\ FieldOf("SHORT") = Uint16
  /\ FieldOf("INT24") = Int24
  /\ FieldOf("LONG") = Int32 /\ FieldOf("LONGLONG") = Int32
  /\ FieldOf("TIMESTAMP2") = Int32
  /\ FieldOf("DATE") = DateFields
  /\ FieldOf("TIME") = TimeFields /\ FieldOf("TIME2") = Time2Fields
  /\ FieldOf("DATETIME2") = DatetimeFields
  /\ FieldOf("NEWDECIMAL") = DecimalFields
  /\ FieldOf("VARCHAR") = VarcharFields
BY SMT DEF FieldOf

LEMMA DecodedIs ==
  ASSUME NEW c, NEW b, NEW g
  PROVE  /\ c.type = "TINY" => Decoded(c, b, g) = ReadTiny(b)
         /\ c.type = "SHORT" => Decoded(c, b, g) = ReadShort(b)
         /\ c.type = "INT24" => Decoded(c, b, g) = Int3(b)
         /\ c.type = "LONG" => Decoded(c, b, g) = Int4(b)
         /\ c.type = "LONGLONG" => Decoded(c, b, g) = Int8(b)
         /\ c.type = "TIMESTAMP2" => Decoded(c, b, g) = Swapped4(b)
         /\ c.type = "DATE" => Decoded(c, b, g) = ReadDate(b)
         /\ c.type = "TIME" => Decoded(c, b, g) = ReadTime(b)
         /\ c.type = "TIME2" => Decoded(c, b, g) = ReadTime2(b)
         /\ c.type = "DATETIME2" => Decoded(c, b, g) = ReadDatetime2(b)
BY SMT DEF Decoded

LEMMA ShortFits ==
  ASSUME NEW b, b[1] \in Int, 0 <= b[1], b[1] <= 255, b[2] \in Int, 0 <= b[2], b[2] <= 255
  PROVE  Uint2(b) \in Uint16
<1>1. Uint2(b) \in Int /\ 0 <= Uint2(b) /\ Uint2(b) <= 65535
  BY SMT DEF Uint2
<1>. QED
  BY <1>1, Uint16Is, SMT

LEMMA TinyFits ==
  ASSUME NEW x \in Int, 0 <= x, x <= 255
  PROVE  SignedChar(x) \in Signed(127)
BY SMT DEF SignedChar, Signed

LEMMA WordsFit ==
  ASSUME NEW b, b[1] \in Int, 0 <= b[1], b[1] <= 255,
         b[2] \in Int, 0 <= b[2], b[2] <= 255, b[3] \in Int, 0 <= b[3], b[3] <= 255
  PROVE  /\ Int3(b) \in Int24
         /\ b[4] \in Int /\ 0 <= b[4] /\ b[4] <= 255
              => Int4(b) \in Int32 /\ Swapped4(b) \in Int32
<1>1. Uint3(b) \in Int /\ 0 <= Uint3(b) /\ Uint3(b) <= 16777215
  BY SMT DEF Uint3
<1>2. Int3(b) \in Int24
  <2>1. Int3(b) \in Int /\ -8388608 <= Int3(b) /\ Int3(b) <= 8388607
    BY <1>1, SMT DEF Int3
  <2>. QED
    BY <2>1, Int24Is, SMT
<1>3. ASSUME b[4] \in Int, 0 <= b[4], b[4] <= 255
      PROVE  Int4(b) \in Int32 /\ Swapped4(b) \in Int32
  <2>. DEFINE x == SignedChar(b[4])
              y == SignedChar(b[1])
  <2>1. x \in Int /\ -128 <= x /\ x <= 127 /\ y \in Int /\ -128 <= y /\ y <= 127
    BY <1>3, SMT DEF SignedChar
  <2>2. Int4(b) = Uint3(b) + 16777216 * x
        /\ Swapped4(b) = 16777216 * y + 65536 * b[2] + 256 * b[3] + b[4]
    BY SMT DEF Int4, Swapped4
  <2>. HIDE DEF x, y
  <2>3. Int4(b) \in Int /\ -2147483648 <= Int4(b) /\ Int4(b) <= 2147483647
    BY <1>1, <2>1, <2>2, SMT
  <2>4. Swapped4(b) \in Int /\ -2147483648 <= Swapped4(b) /\ Swapped4(b) <= 2147483647
    BY <1>3, <2>1, <2>2, SMT
  <2>. QED
    BY <2>3, <2>4, Int32Is, SMT
<1>. QED
  BY <1>2, <1>3, SMT

LEMMA YearFits ==
  ASSUME NEW b, b[1] \in Int, 0 <= b[1], b[1] <= 255,
         b[2] \in Int, 0 <= b[2], b[2] <= 255, b[3] \in Int, 0 <= b[3], b[3] <= 255
  PROVE  /\ YearAndMonth(b) \div 13 \in Uint16
         /\ YearAndMonth(b) % 13 \in Byte
         /\ (b[3] \div 2) % 32 \in Byte
<1>. DEFINE ym == YearAndMonth(b)
<1>1. ym \in Int /\ 0 <= ym /\ ym <= 200000
  <2>. DEFINE x == b[1] % 128
              z == b[3] \div 64
  <2>1. x \in Int /\ 0 <= x /\ x <= 127 /\ z \in Int /\ 0 <= z /\ z <= 255
    BY SMT
  <2>2. ym = 1024 * x + 4 * b[2] + z
    BY SMT DEF YearAndMonth
  <2>. HIDE DEF ym, x, z
  <2>. QED
    BY <2>1, <2>2, SMT
<1>. HIDE DEF ym
<1>2. ym \div 13 \in Uint16
  <2>1. ym \div 13 \in Int /\ 0 <= ym \div 13 /\ ym \div 13 <= 65535
    BY <1>1, SMT
  <2>. QED
    BY <2>1, Uint16Is, SMT
<1>3. \A n \in Int : n % 13 \in Byte /\ (n \div 2) % 32 \in Byte
  <2>1. \A n \in Int : /\ n % 13 \in Int /\ 0 <= n % 13 /\ n % 13 <= 255
                       /\ (n \div 2) % 32 \in Int /\ 0 <= (n \div 2) % 32
                       /\ (n \div 2) % 32 <= 255
    BY SMT
  <2>. QED
    BY <2>1, ByteIs, SMT
<1>4. ym % 13 \in Byte /\ (b[3] \div 2) % 32 \in Byte
  BY <1>1, <1>3, SMT
<1>. QED
  BY <1>2, <1>4, SMT DEF ym

LEMMA FixedWidthFits ==
  ASSUME NEW c, c.type \in IntegerTypes \cup TemporalTypes, c.type # "LONGLONG", NEW g,
         NEW b \in Seq(Byte), Len(b) = Width(c.type)
  PROVE  Decoded(c, b, g) \in FieldOf(c.type)
<1>. DEFINE n == Len(b)
<1>1. \A i \in 1 .. n : b[i] \in Byte /\ b[i] \in Int /\ 0 <= b[i] /\ b[i] <= 255
  BY BytesAreInts
<1>2. CASE c.type = "TINY"
  <2>1. b[1] \in Int /\ 0 <= b[1] /\ b[1] <= 255
    <3>1. n = 1
      BY <1>2, StoredIs
    <3>. QED
      BY <1>1, <3>1
  <2>2. SignedChar(b[1]) \in Signed(127)
    BY <2>1, TinyFits
  <2>. QED
    BY <1>2, <2>2, DecodedIs, FieldOfIs, Zenon DEF ReadTiny
<1>3. CASE c.type = "SHORT"
  <2>1. /\ b[1] \in Int /\ 0 <= b[1] /\ b[1] <= 255
        /\ b[2] \in Int /\ 0 <= b[2] /\ b[2] <= 255
    <3>1. n = 2
      BY <1>3, StoredIs
    <3>. QED
      BY <1>1, <3>1
  <2>2. Uint2(b) \in Uint16
    BY <2>1, ShortFits
  <2>. QED
    BY <1>3, <2>2, DecodedIs, FieldOfIs, Zenon DEF ReadShort
<1>4. CASE c.type = "INT24"
  <2>1. /\ b[1] \in Int /\ 0 <= b[1] /\ b[1] <= 255
        /\ b[2] \in Int /\ 0 <= b[2] /\ b[2] <= 255
        /\ b[3] \in Int /\ 0 <= b[3] /\ b[3] <= 255
    <3>1. n = 3
      BY <1>4, StoredIs
    <3>. QED
      BY <1>1, <3>1
  <2>2. Int3(b) \in Int24
    BY <2>1, WordsFit
  <2>. QED
    BY <1>4, <2>2, DecodedIs, FieldOfIs, Zenon
<1>5. CASE c.type \in {"LONG", "TIMESTAMP2"}
  <2>1. /\ b[1] \in Int /\ 0 <= b[1] /\ b[1] <= 255
        /\ b[2] \in Int /\ 0 <= b[2] /\ b[2] <= 255
        /\ b[3] \in Int /\ 0 <= b[3] /\ b[3] <= 255
        /\ b[4] \in Int /\ 0 <= b[4] /\ b[4] <= 255
    <3>1. n = 4
      BY <1>5, StoredIs
    <3>. QED
      BY <1>1, <3>1
  <2>2. Int4(b) \in Int32 /\ Swapped4(b) \in Int32
    BY <2>1, WordsFit
  <2>. QED
    BY <1>5, <2>2, DecodedIs, FieldOfIs, Zenon
<1>7. CASE c.type \in {"DATE", "TIME", "TIME2"}
  <2>1. b[1] \in Byte /\ b[2] \in Byte /\ b[3] \in Byte
    <3>1. n = 3
      BY <1>7, StoredIs
    <3>. QED
      BY <1>1, <3>1
  <2>2. FieldsFit(Uint3(b)) /\ FieldsFit(Swapped3(b))
    BY <2>1, SwappedFields
  <2>3. ReadDate(b) \in DateFields
    BY <2>2, SMT DEF ReadDate, DateFields, FieldsFit
  <2>4. ReadTime(b) \in TimeFields
    BY <2>2, SMT DEF ReadTime, TimeFields, FieldsFit
  <2>5. ReadTime2(b) \in Time2Fields
    <3>. DEFINE sign == IF b[1] >= 128 THEN 1 ELSE -1
                tmp == Swapped3(b)
                hour == (tmp \div 4096) % 256
                minute == (tmp \div 64) % 64
                second == tmp % 64
    <3>1. sign \in {1, -1}
      BY SMT
    <3>2. hour \in Byte /\ minute \in Byte /\ second \in Byte
      BY <2>2, SMT DEF FieldsFit
    <3>3. ReadTime2(b) = [sign |-> sign, hour |-> hour, minute |-> minute, second |-> second]
      BY SMT DEF ReadTime2
    <3>. HIDE DEF sign, hour, minute, second
    <3>. QED
      BY <3>1, <3>2, <3>3, SMT DEF Time2Fields
  <2>. QED
    BY <1>7, <2>3, <2>4, <2>5, DecodedIs, FieldOfIs, Zenon
<1>8. CASE c.type = "DATETIME2"
  <2>1. /\ b[1] \in Int /\ 0 <= b[1] /\ b[1] <= 255
        /\ b[2] \in Int /\ 0 <= b[2] /\ b[2] <= 255
        /\ b[3] \in Int /\ 0 <= b[3] /\ b[3] <= 255
        /\ b[3] \in Byte /\ b[4] \in Byte /\ b[5] \in Byte
    <3>1. n = 5
      BY <1>8, StoredIs
    <3>. QED
      BY <1>1, <3>1
  <2>. DEFINE low == 65536 * b[3] + 256 * b[4] + b[5]
              year == YearAndMonth(b) \div 13
              month == YearAndMonth(b) % 13
              day == (b[3] \div 2) % 32
              hour == (low \div 4096) % 32
              minute == (low \div 64) % 64
              second == low % 64
  <2>2. year \in Uint16 /\ month \in Byte /\ day \in Byte
    BY <2>1, YearFits
  <2>3. hour \in Byte /\ minute \in Byte /\ second \in Byte
    <3>. DEFINE t == <<b[3], b[4], b[5]>>
    <3>1. t[1] \in Byte /\ t[2] \in Byte /\ t[3] \in Byte
      BY <2>1
    <3>2. low = Swapped3(t)
      BY SMT DEF Swapped3
    <3>. HIDE DEF t, low
    <3>3. FieldsFit(low)
      BY <3>1, <3>2, SwappedFields
    <3>. QED
      BY <3>3, SMT DEF FieldsFit
  <2>4. ReadDatetime2(b) = [year |-> year, month |-> month, day |-> day,
                            hour |-> hour, minute |-> minute, second |-> second]
    BY SMT DEF ReadDatetime2
  <2>. HIDE DEF year, month, day, hour, minute, second
  <2>5. ReadDatetime2(b) \in DatetimeFields
    BY <2>2, <2>3, <2>4, SMT DEF DatetimeFields
  <2>. QED
    BY <1>8, <2>5, DecodedIs, FieldOfIs, Zenon
<1>. QED
  BY <1>2, <1>3, <1>4, <1>5, <1>7, <1>8 DEF IntegerTypes, TemporalTypes

\* A BIGINT is read as the value it has, which is one of 32 bits.
LEMMA LonglongFits ==
  ASSUME NEW c, c.type = "LONGLONG", c.value \in Domain(c.type), NEW g
  PROVE  Decoded(c, Stored(c), g) \in FieldOf(c.type)
<1>1. Domain(c.type) = Int32 /\ SignedRange(c.type) = Domain(c.type)
  BY SMT DEF Domain, SignedRange, Int32
<1>2. Decoded(c, Stored(c), g) = c.value
  <2>1. InSignedRange(c) /\ c.type \in IntegerTypes
    BY <1>1 DEF InSignedRange, IntegerTypes
  <2>. QED
    BY <2>1, IntegersDecoded
<1>. QED
  BY <1>1, <1>2, FieldOfIs

LEMMA AnyGroupFits ==
  ASSUME NEW b \in Seq(Byte), Len(b) \in 0 .. 4, NEW negative \in BOOLEAN
  PROVE  Unmasked(BigEndianNumber(b), negative) \in Int32
<1>. DEFINE n == BigEndianNumber(b)
           top == SignedChar(b[1])
<1>1. \A i \in 1 .. Len(b) : b[i] \in Int /\ 0 <= b[i] /\ b[i] <= 255
  BY BytesAreInts
<1>2. Len(b) # 0 => top \in Int /\ -128 <= top /\ top <= 127
  <2>1. \A x \in Int : 0 <= x /\ x <= 255 =>
          SignedChar(x) \in Int /\ -128 <= SignedChar(x) /\ SignedChar(x) <= 127
    BY SMT DEF SignedChar
  <2>2. Len(b) # 0 => 1 \in 1 .. Len(b)
    OBVIOUS
  <2>. QED
    BY <1>1, <2>1, <2>2
<1>. HIDE DEF top
<1>3. n \in Int /\ -2147483648 <= n /\ n <= 2147483647
  <2>1. CASE Len(b) = 0
    <3>2. b = <<>>
      BY <2>1
    <3>1. n = 0
      BY <3>2, NoBytesAreZero
    <3>. HIDE DEF n
    <3>. QED
      BY <3>1, SMT
  <2>2. CASE Len(b) = 1
    <3>1. n = top
      BY <2>2, NumberOfBytes, SMT DEF top
    <3>. HIDE DEF n
    <3>. QED
      BY <1>2, <2>2, <3>1, SMT
  <2>3. CASE Len(b) = 2
    <3>. DEFINE x == b[2]
    <3>1. n = 256 * top + x
      BY <2>3, NumberOfBytes, SMT DEF top
    <3>2. x \in Int /\ 0 <= x /\ x <= 255
      <4>1. 2 \in 1 .. Len(b)
        BY <2>3
      <4>. QED
        BY <1>1, <4>1
    <3>3. top \in Int /\ -128 <= top /\ top <= 127
      BY <1>2, <2>3
    <3>. HIDE DEF n, x
    <3>. QED
      BY <3>1, <3>2, <3>3, SMT
  <2>4. CASE Len(b) = 3
    <3>. DEFINE x == b[2]
                y == b[3]
    <3>1. n = 65536 * top + 256 * x + y
      BY <2>4, NumberOfBytes, SMT DEF top
    <3>2. x \in Int /\ 0 <= x /\ x <= 255 /\ y \in Int /\ 0 <= y /\ y <= 255
      <4>1. 2 \in 1 .. Len(b) /\ 3 \in 1 .. Len(b)
        BY <2>4
      <4>. QED
        BY <1>1, <4>1
    <3>3. top \in Int /\ -128 <= top /\ top <= 127
      BY <1>2, <2>4
    <3>. HIDE DEF n, x, y
    <3>. QED
      BY <3>1, <3>2, <3>3, SMT
  <2>5. CASE Len(b) = 4
    <3>. DEFINE x == b[2]
                y == b[3]
                z == b[4]
    <3>1. n = 16777216 * top + 65536 * x + 256 * y + z
      BY <2>5, NumberOfBytes, SMT DEF top
    <3>2. /\ x \in Int /\ 0 <= x /\ x <= 255 /\ y \in Int /\ 0 <= y /\ y <= 255
          /\ z \in Int /\ 0 <= z /\ z <= 255
      <4>1. 2 \in 1 .. Len(b) /\ 3 \in 1 .. Len(b) /\ 4 \in 1 .. Len(b)
        BY <2>5
      <4>. QED
        BY <1>1, <4>1
    <3>3. top \in Int /\ -128 <= top /\ top <= 127
      BY <1>2, <2>5
    <3>. HIDE DEF n, x, y, z
    <3>. QED
      BY <3>1, <3>2, <3>3, SMT
  <2>. HIDE DEF n
  <2>6. Len(b) = 0 \/ Len(b) = 1 \/ Len(b) = 2 \/ Len(b) = 3 \/ Len(b) = 4
    OBVIOUS
  <2>. QED
    BY <2>1, <2>2, <2>3, <2>4, <2>5, <2>6, SMT
<1>. HIDE DEF n
<1>4. n \in Int32 /\ -n - 1 \in Int32
  BY <1>3, Int32Is, SMT
<1>. QED
  BY <1>4 DEF Unmasked, n

\* Whatever the bytes are, each coefficient of a part fits an int.
LEMMA PartFits ==
  ASSUME NEW m \in Seq(Byte), NEW negative \in BOOLEAN
  PROVE  DecimalNumberPart(m, negative) \in Seq(Int32)
<1>. DEFINE n == Len(m)
           comp == n % 4
           full == n \div 4
<1>1. n \in Nat /\ comp \in 0 .. 3 /\ full \in Nat /\ n = 4 * full + comp
  <2>1. n \in Nat
    OBVIOUS
  <2>. HIDE DEF n
  <2>. QED
    BY <2>1, SMT
<1>. HIDE DEF comp, full, n
<1>2. ASSUME NEW i \in Nat \ {0}, NEW j \in 0 .. n, j - i + 1 \in 0 .. 4
      PROVE  Unmasked(BigEndianNumber(SubSeq(m, i, j)), negative) \in Int32
  <2>. DEFINE s == SubSeq(m, i, j)
  <2>1. s \in Seq(Byte) /\ Len(s) = j - i + 1
    <3>1. s = [k \in 1 .. j - i + 1 |-> m[i + k - 1]]
      BY SMT
    <3>2. \A k \in 1 .. j - i + 1 : i + k - 1 \in 1 .. Len(m)
      BY <1>1, SMT DEF n
    <3>3. \A k \in 1 .. j - i + 1 : m[i + k - 1] \in Byte
      BY <3>2, BytesAreInts
    <3>. DEFINE F(k) == m[i + k - 1]
                len == j - i + 1
    <3>4. /\ s = [k \in 1 .. len |-> F(k)]
          /\ \A k \in 1 .. len : F(k) \in Byte
      BY <3>1, <3>3, Zenon
    <3>6. len \in Nat
      BY <1>2
    <3>. HIDE DEF F, len
    <3>5. s \in Seq(Byte) /\ Len(s) = len
      BY <3>4, <3>6
    <3>. QED
      BY <3>5 DEF len
  <2>. HIDE DEF s
  <2>2. Unmasked(BigEndianNumber(s), negative) \in Int32
    BY <1>2, <2>1, AnyGroupFits
  <2>. QED
    BY <2>2 DEF s
<1>3. ShortGroup(m, negative) \in Int32
  <2>1. 1 \in Nat \ {0} /\ comp \in 0 .. n /\ comp - 1 + 1 \in 0 .. 4
    BY <1>1, SMT
  <2>. QED
    BY <1>2, <2>1 DEF ShortGroup, comp, n
<1>4. \A k \in 1 .. full : FullGroup(m, negative, k) \in Int32
  <2>. SUFFICES ASSUME NEW k \in 1 .. full PROVE FullGroup(m, negative, k) \in Int32
    OBVIOUS
  <2>. DEFINE i == comp + 4 * k - 3
              j == comp + 4 * k
  <2>1. i \in Nat \ {0} /\ j \in 0 .. n /\ j - i + 1 \in 0 .. 4
    BY <1>1, SMT
  <2>2. FullGroup(m, negative, k) = Unmasked(BigEndianNumber(SubSeq(m, i, j)), negative)
    BY DEF FullGroup, comp, n
  <2>. HIDE DEF i, j
  <2>. QED
    BY <1>2, <2>1, <2>2
<1>. DEFINE a == <<ShortGroup(m, negative)>>
           b == [k \in 1 .. full |-> FullGroup(m, negative, k)]
<1>5. a \in Seq(Int32)
  <2>. DEFINE v == ShortGroup(m, negative)
  <2>. HIDE DEF v
  <2>1. v \in Int32
    BY <1>3 DEF v
  <2>2. <<v>> \in Seq(Int32)
    BY <2>1
  <2>. QED
    BY <2>2 DEF v
<1>6. b \in Seq(Int32)
  <2>. DEFINE F(k) == FullGroup(m, negative, k)
  <2>1. \A k \in 1 .. full : F(k) \in Int32
    BY <1>4
  <2>. HIDE DEF F
  <2>2. [k \in 1 .. full |-> F(k)] \in Seq(Int32)
    BY <1>1, <2>1
  <2>. QED
    BY <2>2 DEF F
<1>7. DecimalNumberPart(m, negative) = Number(a \o b)
  BY PartIs DEF full, n
<1>. HIDE DEF a, b
<1>8. a \o b \in Seq(Int32)
  BY <1>5, <1>6, Concatenated
<1>. QED
  BY <1>7, <1>8, NumberIsInts

LEMMA DigitsAreCounted ==
  ASSUME NEW number \in Seq(Int32)
  PROVE  DigitsOf(number) \in Int
<1>. DEFINE D == {k \in 0 .. 8 : 10 ^ k <= number[1]}
<1>1. Cardinality(D) \in Nat
  <2>1. IsFiniteSet(0 .. 8)
    <3>1. 0 \in Int /\ 8 \in Int
      OBVIOUS
    <3>. QED
      BY <3>1, FS_Interval, Zenon
  <2>2. IsFiniteSet(D)
    BY <2>1, FS_Subset
  <2>. QED
    BY <2>2, FS_CardinalityType
<1>. HIDE DEF D
<1>2. Cardinality(D) + 9 * (Len(number) - 1) \in Int
  BY <1>1
<1>. QED
  BY <1>2 DEF DigitsOf, D

LEMMA DecimalFits ==
  ASSUME NEW precision \in 1 .. 36, NEW scale \in 0 .. 18, precision - scale \in 0 .. 18,
         NEW value \in DecimalValues(precision, scale), NEW g \in Byte
  PROVE  DecimalNumber(StoredDecimal(value, precision, scale), precision, scale, g)
           \in FieldOf("NEWDECIMAL")
<1>. DEFINE whole == precision - scale
           w == StoredDecimal(value, precision, scale)
           int_l == DecimalPart(whole)
           frac_l == DecimalPart(scale)
           negative == w[1] < 128
           nbuf == SignBitFlipped(SubSeq(w, 1, int_l + frac_l))
           integral == DecimalNumberPart(SubSeq(nbuf, 1, int_l), negative)
           fractional == DecimalNumberPart(SubSeq(nbuf, int_l + 1, int_l + frac_l), negative)
<1>1. w \in Seq(Byte) /\ Len(w) = int_l + frac_l /\ Len(w) \in Nat \ {0}
  BY DecimalStored, Zenon
<1>2. int_l \in Nat /\ frac_l \in Nat
  <2>1. StoredGroups(value.integral, IntegralGroups(whole)) \in Seq(Byte)
        /\ Len(StoredGroups(value.integral, IntegralGroups(whole))) = int_l
    BY PlainIs, Zenon
  <2>2. StoredGroups(value.fraction, FractionGroups(scale)) \in Seq(Byte)
        /\ Len(StoredGroups(value.fraction, FractionGroups(scale))) = frac_l
    BY PlainIs, Zenon
  <2>3. \A s \in Seq(Byte) : Len(s) \in Nat
    OBVIOUS
  <2>. QED
    BY <2>1, <2>2, <2>3, Zenon
<1>3. DecimalNumber(w, precision, scale, g)
        = [negative |-> negative, integral |-> integral, fractional |-> fractional,
           zeros |-> (g + DigitsOf(fractional)) % 256]
  BY DEF DecimalNumber
<1>. HIDE DEF w, int_l, frac_l
<1>4. SubSeq(w, 1, int_l + frac_l) = w
  <2>1. \A s \in Seq(Byte) : SubSeq(s, 1, Len(s)) = s
    BY SubSeqFull
  <2>. QED
    BY <1>1, <2>1, Zenon
<1>5. nbuf \in Seq(Byte) /\ Len(nbuf) = int_l + frac_l
  BY <1>1, <1>4, SignBitIs
<1>. HIDE DEF nbuf
<1>6. /\ SubSeq(nbuf, 1, int_l) \in Seq(Byte)
      /\ SubSeq(nbuf, int_l + 1, int_l + frac_l) \in Seq(Byte)
  <2>1. \A s \in Seq(Byte) : \A i \in Nat \ {0} : \A j \in Nat :
          j <= Len(s) => SubSeq(s, i, j) \in Seq(Byte)
    BY SMT
  <2>2. /\ 1 \in Nat \ {0} /\ int_l \in Nat /\ int_l <= Len(nbuf)
        /\ int_l + 1 \in Nat \ {0} /\ int_l + frac_l \in Nat /\ int_l + frac_l <= Len(nbuf)
    BY <1>2, <1>5
  <2>. QED
    BY <1>5, <2>1, <2>2, Zenon
<1>7. negative \in BOOLEAN
  OBVIOUS
<1>. HIDE DEF negative
<1>8. integral \in Seq(Int32) /\ fractional \in Seq(Int32)
  BY <1>6, <1>7, PartFits
<1>. HIDE DEF integral, fractional
<1>. DEFINE zeros == (g + DigitsOf(fractional)) % 256
<1>9. zeros \in Byte
  <2>1. DigitsOf(fractional) \in Int /\ g \in Int
    BY <1>8, DigitsAreCounted, ByteIs
  <2>2. \A x, y \in Int : (x + y) % 256 \in Int /\ 0 <= (x + y) % 256 /\ (x + y) % 256 <= 255
    BY SMT
  <2>. QED
    BY <2>1, <2>2, ByteIs, Zenon
<1>10. DecimalNumber(w, precision, scale, g)
         \in DecimalFields
  <2>. HIDE DEF zeros
  <2>1. DecimalNumber(w, precision, scale, g)
          = [negative |-> negative, integral |-> integral, fractional |-> fractional,
             zeros |-> zeros]
    BY <1>3 DEF zeros
  <2>. QED
    BY <1>7, <1>8, <1>9, <2>1, SMT DEF DecimalFields
<1>. QED
  BY <1>10, FieldOfIs DEF w

\* The lower of two numbers is one, and no larger than the second.
LEMMA LowerOfTwo ==
  ASSUME NEW x \in Int, NEW y \in Int
  PROVE  Min({x, y}) \in Int /\ Min({x, y}) <= y
<1>1. Min({x, y}) = CHOOSE m \in {x, y} : \A n \in {x, y} : m <= n
  BY DEF Min
<1>2. \E m \in {x, y} : \A n \in {x, y} : m <= n
  OBVIOUS
<1>3. Min({x, y}) \in {x, y} /\ \A n \in {x, y} : Min({x, y}) <= n
  BY <1>1, <1>2
<1>. QED
  BY <1>3

LEMMA AnyLengthCopied ==
  ASSUME NEW b \in Seq(Byte), NEW prefix, NEW g \in [1 .. 4 -> Byte]
  PROVE  LengthCopied(b, prefix, g) \in Int
<1>. DEFINE w == [i \in 1 .. 4 |-> IF i <= prefix /\ i <= Len(b) THEN b[i] ELSE g[i]]
<1>1. \A i \in 1 .. 4 : w[i] \in Byte
  <2>1. \A i \in 1 .. 4 : g[i] \in Byte
    OBVIOUS
  <2>2. \A i \in 1 .. 4 : i <= Len(b) => b[i] \in Byte
    <3>1. \A i \in 1 .. 4 : i <= Len(b) => i \in 1 .. Len(b)
      OBVIOUS
    <3>. QED
      BY <3>1, BytesAreInts
  <2>. QED
    BY <2>1, <2>2
<1>2. LengthCopied(b, prefix, g) = Int4(w)
  BY DEF LengthCopied
<1>. HIDE DEF w
<1>3. /\ w[1] \in Int /\ 0 <= w[1] /\ w[1] <= 255 /\ w[2] \in Int /\ 0 <= w[2] /\ w[2] <= 255
      /\ w[3] \in Int /\ 0 <= w[3] /\ w[3] <= 255 /\ w[4] \in Int /\ 0 <= w[4] /\ w[4] <= 255
  BY <1>1, ByteIs
<1>4. Int4(w) \in Int32
  BY <1>3, WordsFit
<1>. QED
  BY <1>2, <1>4, Int32Is, SMT

\* A string is cut out of the bytes of its value.
LEMMA StringFits ==
  ASSUME NEW c \in Values, c.type = "VARCHAR", NEW g \in [1 .. 4 -> Byte]
  PROVE  Decoded(c, Stored(c), g) \in FieldOf("VARCHAR")
<1>. DEFINE s == c.value
           meta == c.meta
           prefix == meta[2]
           b == StoredVarchar(s, meta)
<1>1. /\ meta[1] \in Byte /\ prefix \in Byte /\ s \in Seq(Byte)
      /\ Len(s) <= meta[1] + 256 * prefix
  BY ColumnsAre DEF IntegerTypes, TemporalTypes
<1>2. Decoded(c, Stored(c), g) = ReadVarchar(b, meta, g)
  BY DEF Decoded, Stored
<1>. HIDE DEF s, meta
<1>3. b \in Seq(Byte) /\ Len(b) = (IF prefix = 0 THEN 1 ELSE 2) + Len(s)
      /\ b[1] = LittleEndian(Len(s), IF prefix = 0 THEN 1 ELSE 2)[1]
  BY <1>1, VarcharStored
<1>4. Len(s) \in Nat /\ meta[1] \in Int /\ meta[1] <= 255
  BY <1>1, ByteIs
<1>5. \A x \in Seq(Byte) : \A i \in Nat \ {0} : \A j \in Int :
        j <= Len(x) => SubSeq(x, i, j) \in Seq(Byte)
  BY SMT
<1>6. CASE prefix = 0
  <2>1. ReadVarchar(b, meta, g) = LengthEncodeString(b)
    BY <1>6 DEF ReadVarchar
  <2>2. b[1] = Len(s) /\ Len(b) = 1 + Len(s) /\ Len(s) <= 255
    <3>1. Len(s) <= 255
      BY <1>1, <1>4, <1>6
    <3>2. LittleEndian(Len(s), 1)[1] = Digit(Len(s), 1)
      BY <1>4, LittleEndianIs
    <3>3. \A n \in Nat : n <= 255 => (n \div 1) % 256 = n
      BY SMT
    <3>. QED
      BY <1>3, <1>4, <1>6, <3>1, <3>2, <3>3 DEF Digit
  <2>. DEFINE tmp == SignedChar(b[1])
              number == LengthEncodeNumber(b).number
              length == LengthEncodeNumber(b).length
  <2>3. /\ tmp \in Int /\ tmp < 128
        /\ tmp >= 0 => tmp = Len(s)
    BY <1>4, <2>2 DEF SignedChar
  <2>4. LengthEncodeNumber(b) = [number |-> tmp, length |-> 1]
    <3>. HIDE DEF b
    <3>1. tmp < 251
      BY <2>3
    <3>. QED
      BY <3>1 DEF LengthEncodeNumber
  <2>5. number = tmp /\ length = 1
    BY <2>4
  <2>. HIDE DEF b, tmp, number, length
  <2>6. LengthEncodeString(b)
          = IF number < 0 THEN Killed
            ELSE [s |-> SubSeq(b, length + 1, length + number),
                  length |-> length + number + 1]
    BY DEF LengthEncodeString, number, length
  <2>7. LengthEncodeString(b) \in VarcharFields
    <3>1. CASE number < 0
      <4>1. <<>> \in Seq(Byte) /\ -1 \in Int32
        BY Int32Is, SMT
      <4>2. Killed \in VarcharFields
        BY <4>1, SMT DEF Killed, VarcharFields
      <4>. QED
        BY <2>6, <3>1, <4>2
    <3>2. CASE ~(number < 0)
      <4>1. /\ length + 1 \in Nat \ {0} /\ length + number \in Int
            /\ length + number <= Len(b) /\ length + number + 1 \in Int
            /\ 0 <= length + number + 1 /\ length + number + 1 <= 300
        BY <1>4, <2>2, <2>3, <2>5, <3>2
      <4>3. length + number + 1 \in Int32
        BY <4>1, Int32Is, SMT
      <4>2. SubSeq(b, length + 1, length + number) \in Seq(Byte)
        BY <1>3, <1>5, <4>1
      <4>. QED
        BY <2>6, <3>2, <4>2, <4>3 DEF VarcharFields
    <3>. QED
      BY <3>1, <3>2
  <2>. QED
    BY <1>2, <2>1, <2>7, FieldOfIs
<1>7. CASE prefix # 0
  <2>. DEFINE left == PrefixLeft(prefix, g)
              len == LengthCopied(b, prefix, g)
              last == Min({left + len, Len(b)})
              most == 2147483647
  <2>1. ReadVarchar(b, meta, g)
          = IF len < 0 \/ len > most - left THEN Killed
            ELSE [s |-> SubSeq(b, left + 1, last), length |-> left + len]
    <3>1. ~(meta[2] = 0)
      BY <1>7
    <3>. HIDE DEF b
    <3>. QED
      BY <3>1, SMT DEF ReadVarchar
  <2>2. left \in Nat
    BY <1>1, ByteIs DEF PrefixLeft, SizeOfVarchar
  <2>3. len \in Int
    BY <1>3, AnyLengthCopied
  <2>4. Len(b) \in Int
    BY <1>3, <1>4
  <2>. HIDE DEF b, left, len, most
  <2>5. CASE len < 0 \/ len > most - left
    <3>1. <<>> \in Seq(Byte) /\ -1 \in Int32
      BY Int32Is, SMT
    <3>2. Killed \in VarcharFields
      BY <3>1, SMT DEF Killed, VarcharFields
    <3>. QED
      BY <1>2, <2>1, <2>5, <3>2, FieldOfIs
  <2>6. CASE ~(len < 0 \/ len > most - left)
    <3>1. last \in Int /\ last <= Len(b)
      BY <2>2, <2>3, <2>4, LowerOfTwo
    <3>2. left + 1 \in Nat \ {0}
      BY <2>2
    <3>. HIDE DEF last
    <3>3. SubSeq(b, left + 1, last) \in Seq(Byte)
      BY <1>3, <1>5, <3>1, <3>2
    <3>4. left + len \in Int32
      BY <2>2, <2>3, <2>6, Int32Is, SMT DEF most
    <3>. QED
      BY <1>2, <2>1, <2>6, <3>3, <3>4, FieldOfIs DEF VarcharFields
  <2>. QED
    BY <2>5, <2>6
<1>. QED
  BY <1>6, <1>7

LEMMA DecodedFits ==
  ASSUME NEW c \in Values, NEW g \in Garbage
  PROVE  Decoded(c, Stored(c), g) \in FieldOf(c.type)
<1>0. g \in [1 .. 4 -> Byte] /\ g[1] \in Byte
  BY ValuesAssumption DEF ValuesAssumption
<1>1. CASE c.type \in IntegerTypes \cup TemporalTypes /\ c.value \in Domain(c.type)
  <2>1. CASE c.type = "LONGLONG"
    BY <1>1, <2>1, LonglongFits
  <2>2. CASE c.type # "LONGLONG"
    BY <1>1, <2>2, FixedWidthStored, FixedWidthFits
  <2>. QED
    BY <2>1, <2>2
<1>2. CASE c.type = "NEWDECIMAL"
  <2>1. Decoded(c, Stored(c), g)
          = DecimalNumber(StoredDecimal(c.value, c.meta[1], c.meta[2]),
                          c.meta[1], c.meta[2], g[1])
    BY <1>2 DEF Decoded, Stored
  <2>. DEFINE precision == c.meta[1]
              scale == c.meta[2]
              value == c.value
  <2>2. /\ precision \in 1 .. 36 /\ scale \in 0 .. 18 /\ precision - scale \in 0 .. 18
        /\ value \in DecimalValues(precision, scale)
    BY <1>2, DecimalColumns
  <2>. HIDE DEF precision, scale, value
  <2>3. DecimalNumber(StoredDecimal(value, precision, scale), precision, scale, g[1])
          \in FieldOf("NEWDECIMAL")
    BY <1>0, <2>2, DecimalFits
  <2>. QED
    BY <1>2, <2>1, <2>3 DEF precision, scale, value
<1>3. CASE c.type = "VARCHAR"
  BY <1>0, <1>3, StringFits
<1>. QED
  BY <1>1, <1>2, <1>3, ColumnsAre

(***************************************************************************)
(* The type invariant.                                                     *)
(***************************************************************************)

LEMMA NoColumnStored == NoColumn \notin Values
BY ColumnsAre DEF NoColumn, IntegerTypes, TemporalTypes

\* Whatever columns the master stores and whatever the stack holds, a field fits
\* the C type it is read into, nothing is kept of a value that was not read, and
\* only a string is fatal (binary_type.h:38-71).
THEOREM TypeCorrect == Spec => []TypeOK
<1>1. Init => TypeOK
  BY DEF Init, TypeOK
<1>2. TypeOK /\ StoredInv /\ [Next]_vars => TypeOK'
  <2>. SUFFICES ASSUME TypeOK, StoredInv, [Next]_vars
                PROVE  TypeOK'
    OBVIOUS
  <2>1. ASSUME NEW c \in Values, Store(c)
        PROVE  TypeOK'
    BY <2>1, StoredIsBytes DEF Store, TypeOK
  <2>2. CASE GetColumnVal
    <3>1. /\ pc = "stored" /\ UNCHANGED <<column, wire>> /\ field = 0
          /\ column \in Values /\ wire = Stored(column)
      BY <2>2 DEF GetColumnVal, StoredInv, TypeOK
    <3>2. PICK g \in Garbage :
            \/ column.type = "VARCHAR" /\ pc' = "crashed" /\ UNCHANGED field
            \/ pc' = "read" /\ field' = Decoded(column, wire, g)
      BY <2>2 DEF GetColumnVal
    <3>3. Decoded(column, wire, g) \in FieldOf(column.type)
      BY <3>1, DecodedFits
    <3>4. column' \in Values \cup {NoColumn} /\ wire' \in Seq(Byte)
      BY <3>1 DEF TypeOK
    <3>5. CASE column.type = "VARCHAR" /\ pc' = "crashed" /\ UNCHANGED field
      <4>1. pc' = "crashed" /\ field' = 0
        BY <3>1, <3>5
      <4>. QED
        BY <3>1, <3>4, <3>5, <4>1 DEF TypeOK
    <3>6. CASE pc' = "read" /\ field' = Decoded(column, wire, g)
      <4>1. field' \in FieldOf(column'.type) /\ column' # NoColumn
        BY <3>1, <3>3, <3>6, NoColumnStored
      <4>. QED
        BY <3>4, <3>6, <4>1 DEF TypeOK
    <3>. QED
      BY <3>2, <3>5, <3>6
  <2>3. CASE Crashed \/ UNCHANGED vars
    BY <2>3 DEF Crashed, vars, TypeOK
  <2>. QED
    BY <2>1, <2>2, <2>3 DEF Next
<1>. QED
  BY <1>1, <1>2, ValueRead, PTL DEF Spec
=============================================================================
