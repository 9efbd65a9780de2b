------------------------- MODULE ColumnValuesProofs -------------------------
(* Theorems about ColumnValues: what the readers make of the bytes MySQL     *)
(* stores, for every value.                                                  *)
EXTENDS ColumnValues, SequenceTheorems, TLAPS

(***************************************************************************)
(* The bytes of a number, and the number again.                            *)
(***************************************************************************)

Digit(v, unit) == (v \div unit) % 256

LEMMA LittleEndianIs ==
  ASSUME NEW v \in Int
  PROVE  /\ LittleEndian(v, 1)[1] = Digit(v, 1)
         /\ LittleEndian(v, 2)[1] = Digit(v, 1)
         /\ LittleEndian(v, 2)[2] = Digit(v, 256)
         /\ LittleEndian(v, 3)[1] = Digit(v, 1)
         /\ LittleEndian(v, 3)[2] = Digit(v, 256)
         /\ LittleEndian(v, 3)[3] = Digit(v, 65536)
         /\ LittleEndian(v, 4)[1] = Digit(v, 1)
         /\ LittleEndian(v, 4)[2] = Digit(v, 256)
         /\ LittleEndian(v, 4)[3] = Digit(v, 65536)
         /\ LittleEndian(v, 4)[4] = Digit(v, 16777216)
BY SMT DEF LittleEndian, Digit

LEMMA BigEndianIs ==
  ASSUME NEW v \in Int
  PROVE  /\ BigEndian(v, 2)[1] = Digit(v, 256)
         /\ BigEndian(v, 2)[2] = Digit(v, 1)
         /\ BigEndian(v, 3)[1] = Digit(v, 65536)
         /\ BigEndian(v, 3)[2] = Digit(v, 256)
         /\ BigEndian(v, 3)[3] = Digit(v, 1)
         /\ BigEndian(v, 4)[1] = Digit(v, 16777216)
         /\ BigEndian(v, 4)[2] = Digit(v, 65536)
         /\ BigEndian(v, 4)[3] = Digit(v, 256)
         /\ BigEndian(v, 4)[4] = Digit(v, 1)
BY SMT DEF BigEndian, Digit

LEMMA DigitIsByte ==
  ASSUME NEW v \in Int, NEW unit \in {1, 256, 65536, 16777216}
  PROVE  Digit(v, unit) \in Int /\ 0 <= Digit(v, unit) /\ Digit(v, unit) <= 255
BY SMT DEF Digit

\* The lowest digits of a number to the base 256.
LEMMA Digits ==
  ASSUME NEW v \in Int
  PROVE  /\ -128 <= v /\ v < 128 => Digit(v, 1) = IF v < 0 THEN v + 256 ELSE v
         /\ 0 <= v /\ v < 65536 => Digit(v, 1) + 256 * Digit(v, 256) = v
         /\ 0 <= v /\ v < 16777216 =>
              Digit(v, 1) + 256 * Digit(v, 256) + 65536 * Digit(v, 65536) = v
         /\ -8388608 <= v /\ v < 0 =>
              Digit(v, 1) + 256 * Digit(v, 256) + 65536 * Digit(v, 65536) = v + 16777216
         /\ 0 <= v /\ v < 2147483648 =>
              /\ Digit(v, 1) + 256 * Digit(v, 256) + 65536 * Digit(v, 65536)
                   + 16777216 * Digit(v, 16777216) = v
              /\ Digit(v, 16777216) < 128
         /\ -2147483648 <= v /\ v < 0 =>
              /\ Digit(v, 1) + 256 * Digit(v, 256) + 65536 * Digit(v, 65536)
                   + 16777216 * (Digit(v, 16777216) - 256) = v
              /\ Digit(v, 16777216) >= 128
<1>1. -128 <= v /\ v < 128 => Digit(v, 1) = IF v < 0 THEN v + 256 ELSE v
  BY SMT DEF Digit
<1>2. 0 <= v /\ v < 65536 => Digit(v, 1) + 256 * Digit(v, 256) = v
  BY SMT DEF Digit
<1>3. 0 <= v /\ v < 16777216 =>
        Digit(v, 1) + 256 * Digit(v, 256) + 65536 * Digit(v, 65536) = v
  BY SMT DEF Digit
<1>4. -8388608 <= v /\ v < 0 =>
        Digit(v, 1) + 256 * Digit(v, 256) + 65536 * Digit(v, 65536) = v + 16777216
  BY SMT DEF Digit
<1>5. 0 <= v /\ v < 2147483648 =>
        Digit(v, 1) + 256 * Digit(v, 256) + 65536 * Digit(v, 65536)
          + 16777216 * Digit(v, 16777216) = v
  BY SMT DEF Digit
<1>6. 0 <= v /\ v < 2147483648 => Digit(v, 16777216) < 128
  BY SMT DEF Digit
<1>7. -2147483648 <= v /\ v < 0 =>
        Digit(v, 1) + 256 * Digit(v, 256) + 65536 * Digit(v, 65536)
          + 16777216 * (Digit(v, 16777216) - 256) = v
  BY SMT DEF Digit
<1>8. -2147483648 <= v /\ v < 0 => Digit(v, 16777216) >= 128
  BY SMT DEF Digit
<1>. QED
  BY <1>1, <1>2, <1>3, <1>4, <1>5, <1>6, <1>7, <1>8

(***************************************************************************)
(* Integers.                                                               *)
(***************************************************************************)

LEMMA TinyReadBack ==
  ASSUME NEW v \in Int, -128 <= v, v < 128
  PROVE  ReadTiny(LittleEndian(v, 1)) = v
BY LittleEndianIs, Digits, SMT DEF ReadTiny, SignedChar

LEMMA ShortReadBack ==
  ASSUME NEW v \in Int, 0 <= v, v < 65536
  PROVE  ReadShort(LittleEndian(v, 2)) = v
BY LittleEndianIs, Digits, SMT DEF ReadShort, Uint2

LEMMA Int3ReadBack ==
  ASSUME NEW v \in Int, -8388608 <= v, v < 8388608
  PROVE  Int3(LittleEndian(v, 3)) = v
<1>1. Uint3(LittleEndian(v, 3)) = IF v < 0 THEN v + 16777216 ELSE v
  BY LittleEndianIs, Digits, SMT DEF Uint3
<1>. QED
  BY <1>1, SMT DEF Int3

\* The four digits of a number on 32 bits, the top one with its sign.
LEMMA SignedDigits ==
  ASSUME NEW v \in Int, -2147483648 <= v, v < 2147483648
  PROVE  /\ Digit(v, 1) + 256 * Digit(v, 256) + 65536 * Digit(v, 65536)
              + 16777216 * SignedChar(Digit(v, 16777216)) = v
         /\ v < 0 <=> Digit(v, 16777216) >= 128
<1>1. Digit(v, 16777216) \in Int
  BY DigitIsByte
<1>2. CASE v < 0
  <2>1. /\ Digit(v, 1) + 256 * Digit(v, 256) + 65536 * Digit(v, 65536)
             + 16777216 * (Digit(v, 16777216) - 256) = v
        /\ Digit(v, 16777216) >= 128
    BY <1>2, Digits
  <2>2. SignedChar(Digit(v, 16777216)) = Digit(v, 16777216) - 256
    BY <2>1 DEF SignedChar
  <2>. QED
    BY <1>2, <2>1, <2>2
<1>3. CASE ~(v < 0)
  <2>1. /\ Digit(v, 1) + 256 * Digit(v, 256) + 65536 * Digit(v, 65536)
             + 16777216 * Digit(v, 16777216) = v
        /\ Digit(v, 16777216) < 128
    BY <1>3, Digits, SMT
  <2>2. SignedChar(Digit(v, 16777216)) = Digit(v, 16777216)
    BY <1>1, <2>1 DEF SignedChar
  <2>. QED
    BY <1>1, <1>3, <2>1, <2>2
<1>. QED
  BY <1>2, <1>3

LEMMA Int4ReadBack ==
  ASSUME NEW v \in Int, -2147483648 <= v, v < 2147483648
  PROVE  Int4(LittleEndian(v, 4)) = v
BY LittleEndianIs, SignedDigits DEF Int4, Uint3

LEMMA Swapped4ReadBack ==
  ASSUME NEW v \in Int, 0 <= v, v < 2147483648
  PROVE  Swapped4(BigEndian(v, 4)) = v
<1>. DEFINE b == BigEndian(v, 4)
<1>1. /\ b[1] = Digit(v, 16777216) /\ b[2] = Digit(v, 65536)
      /\ b[3] = Digit(v, 256) /\ b[4] = Digit(v, 1)
  BY BigEndianIs
<1>2. /\ Digit(v, 1) \in Int /\ Digit(v, 256) \in Int /\ Digit(v, 65536) \in Int
      /\ SignedChar(Digit(v, 16777216)) \in Int
  BY DigitIsByte DEF SignedChar
<1>3. Digit(v, 1) + 256 * Digit(v, 256) + 65536 * Digit(v, 65536)
        + 16777216 * SignedChar(Digit(v, 16777216)) = v
  BY SignedDigits
<1>4. Swapped4(b) = v
  <2>. HIDE DEF b
  <2>. QED
    BY <1>1, <1>2, <1>3, SMT DEF Swapped4
<1>. QED
  BY <1>4

LEMMA Int8ReadBack ==
  ASSUME NEW v \in Int, -2147483648 <= v, v < 2147483648
  PROVE  Int8(StoredLonglong(v)) = v
<1>. DEFINE b == StoredLonglong(v)
<1>. SUFFICES Int8(b) = v
  OBVIOUS
<1>. DEFINE top == IF v < 0 THEN 255 ELSE 0
           low == b[1] + 256 * b[2] + 65536 * b[3]
<1>1. /\ \A i \in 1 .. 4 : b[i] = LittleEndian(v, 4)[i]
      /\ b[5] = top /\ b[6] = top /\ b[7] = top /\ b[8] = top
  BY SMT DEF StoredLonglong, LittleEndian
<1>2. /\ b[1] = Digit(v, 1) /\ b[2] = Digit(v, 256)
      /\ b[3] = Digit(v, 65536) /\ b[4] = Digit(v, 16777216)
  BY <1>1, LittleEndianIs, SMT
<1>3. b[1] \in Int /\ b[2] \in Int /\ b[3] \in Int /\ b[4] \in Int
  BY <1>2, DigitIsByte
<1>4. CASE v < 0
  <2>1. low + 16777216 * (b[4] - 256) = v
    BY <1>2, <1>4, Digits
  <2>2. b[5] = 255 /\ b[6] = 255 /\ b[7] = 255 /\ SignedChar(b[8]) = -1
    BY <1>1, <1>4 DEF SignedChar
  <2>. HIDE DEF b
  <2>. QED
    BY <1>3, <2>1, <2>2, SMT DEF Int8
<1>5. CASE ~(v < 0)
  <2>1. low + 16777216 * b[4] = v
    BY <1>2, <1>5, Digits, SMT
  <2>2. b[5] = 0 /\ b[6] = 0 /\ b[7] = 0 /\ SignedChar(b[8]) = 0
    BY <1>1, <1>5 DEF SignedChar
  <2>. HIDE DEF b
  <2>. QED
    BY <1>3, <2>1, <2>2, SMT DEF Int8
<1>. QED
  BY <1>4, <1>5

(***************************************************************************)
(* Dates and times.                                                        *)
(***************************************************************************)

LEMMA RangesAre ==
  /\ \A y \in Years : y \in Int /\ 0 <= y /\ y <= 9999
  /\ \A m \in Months : m \in Int /\ 0 <= m /\ m <= 12
  /\ \A d \in Days : d \in Int /\ 0 <= d /\ d <= 31
  /\ \A h \in HoursOfDay : h \in Int /\ 0 <= h /\ h <= 23
  /\ \A h \in HoursOfTime : h \in Int /\ 0 <= h /\ h <= 838
  /\ \A s \in Sixtieths : s \in Int /\ 0 <= s /\ s <= 59
<1>1. \A y \in Years : y \in Int /\ 0 <= y /\ y <= 9999
  BY SMT DEF Years
<1>2. \A m \in Months : m \in Int /\ 0 <= m /\ m <= 12
  BY SMT DEF Months
<1>3. \A d \in Days : d \in Int /\ 0 <= d /\ d <= 31
  BY SMT DEF Days
<1>4. \A h \in HoursOfDay : h \in Int /\ 0 <= h /\ h <= 23
  BY SMT DEF HoursOfDay
<1>5. \A h \in HoursOfTime : h \in Int /\ 0 <= h /\ h <= 838
  BY SMT DEF HoursOfTime
<1>6. \A s \in Sixtieths : s \in Int /\ 0 <= s /\ s <= 59
  BY SMT DEF Sixtieths
<1>. QED
  BY <1>1, <1>2, <1>3, <1>4, <1>5, <1>6, SMT

DateNumber(y, m, d) == 512 * y + 32 * m + d

HasDateFields(v, y, m, d) == v \div 512 = y /\ (v \div 32) % 16 = m /\ v % 32 = d

LEMMA DateNumberFields ==
  ASSUME NEW y \in Int, NEW m \in Int, NEW d \in Int,
         0 <= y, y <= 9999, 0 <= m, m <= 12, 0 <= d, d <= 31
  PROVE  HasDateFields(DateNumber(y, m, d), y, m, d)
<1>. DEFINE v == DateNumber(y, m, d)
<1>1. v \div 512 = y
  BY SMT DEF DateNumber
<1>2. v \div 32 = 16 * y + m /\ v % 32 = d
  BY SMT DEF DateNumber
<1>3. (16 * y + m) % 16 = m
  BY SMT
<1>. QED
  BY <1>1, <1>2, <1>3, SMT DEF HasDateFields

LEMMA DateFieldsReadBack ==
  ASSUME NEW y \in Int, NEW m \in Int, NEW d \in Int,
         0 <= y, y <= 9999, 0 <= m, m <= 12, 0 <= d, d <= 31
  PROVE  ReadDate(LittleEndian(DateNumber(y, m, d), 3)) = [year |-> y, month |-> m, day |-> d]
<1>. DEFINE v == DateNumber(y, m, d)
            b == LittleEndian(v, 3)
<1>1. v \in Int /\ 0 <= v /\ v < 16777216
  BY SMT DEF DateNumber
<1>2. Uint3(b) = v
  <2>. HIDE DEF v
  <2>. QED
    BY <1>1, LittleEndianIs, Digits, SMT DEF Uint3
<1>3. HasDateFields(v, y, m, d)
  BY DateNumberFields, SMT
<1>4. ReadDate(b) = [year |-> y, month |-> m, day |-> d]
  <2>. HIDE DEF v, b
  <2>. QED
    BY <1>2, <1>3 DEF ReadDate, HasDateFields
<1>. QED
  BY <1>4

LEMMA DatesFields ==
  ASSUME NEW d \in Dates
  PROVE  /\ d.year \in Int /\ 0 <= d.year /\ d.year <= 9999
         /\ d.month \in Int /\ 0 <= d.month /\ d.month <= 12
         /\ d.day \in Int /\ 0 <= d.day /\ d.day <= 31
         /\ d = [year |-> d.year, month |-> d.month, day |-> d.day]
<1>1. d.year \in Years /\ d.month \in Months /\ d.day \in Days
  BY DEF Dates
<1>2. d = [year |-> d.year, month |-> d.month, day |-> d.day]
  BY DEF Dates
<1>. QED
  BY <1>1, <1>2, RangesAre, SMT

LEMMA DateReadBack ==
  ASSUME NEW d \in Dates
  PROVE  ReadDate(StoredDate(d)) = d
<1>1. /\ d.year \in Int /\ 0 <= d.year /\ d.year <= 9999
      /\ d.month \in Int /\ 0 <= d.month /\ d.month <= 12
      /\ d.day \in Int /\ 0 <= d.day /\ d.day <= 31
      /\ d = [year |-> d.year, month |-> d.month, day |-> d.day]
  BY DatesFields
<1>2. StoredDate(d) = LittleEndian(DateNumber(d.year, d.month, d.day), 3)
  BY DEF StoredDate, DateNumber
<1>. QED
  BY <1>1, <1>2, DateFieldsReadBack, SMT

LEMMA Swapped3ReadBack ==
  ASSUME NEW v \in Int, 0 <= v, v < 16777216
  PROVE  Swapped3(BigEndian(v, 3)) = v
<1>1. Digit(v, 1) \in Int /\ Digit(v, 256) \in Int /\ Digit(v, 65536) \in Int
  BY DigitIsByte
<1>2. Digit(v, 1) + 256 * Digit(v, 256) + 65536 * Digit(v, 65536) = v
  BY Digits
<1>3. Swapped3(BigEndian(v, 3)) = 65536 * Digit(v, 65536) + 256 * Digit(v, 256) + Digit(v, 1)
  BY BigEndianIs DEF Swapped3
<1>. QED
  BY <1>1, <1>2, <1>3, SMT

TimeNumber(h, m, s) == 8388608 + (4096 * h + 64 * m + s)

HasTimeFields(v, h, m, s) == (v \div 4096) % 256 = h /\ (v \div 64) % 64 = m /\ v % 64 = s

LEMMA TimeNumberFields ==
  ASSUME NEW h \in Int, NEW m \in Int, NEW s \in Int,
         0 <= h, h <= 255, 0 <= m, m <= 59, 0 <= s, s <= 59
  PROVE  HasTimeFields(TimeNumber(h, m, s), h, m, s)
<1>. DEFINE v == TimeNumber(h, m, s)
<1>1. v \div 4096 = 2048 + h
  BY SMT DEF TimeNumber
<1>2. v \div 64 = 131072 + 64 * h + m /\ v % 64 = s
  BY SMT DEF TimeNumber
<1>3. (2048 + h) % 256 = h /\ (131072 + 64 * h + m) % 64 = m
  BY SMT
<1>. QED
  BY <1>1, <1>2, <1>3, SMT DEF HasTimeFields

LEMMA TimeFieldsReadBack ==
  ASSUME NEW h \in Int, NEW m \in Int, NEW s \in Int,
         0 <= h, h <= 255, 0 <= m, m <= 59, 0 <= s, s <= 59
  PROVE  ReadTime2(BigEndian(TimeNumber(h, m, s), 3))
           = [sign |-> 1, hour |-> h, minute |-> m, second |-> s]
<1>. DEFINE v == TimeNumber(h, m, s)
            b == BigEndian(v, 3)
<1>1. v \in Int /\ 8388608 <= v /\ v < 16777216
  BY SMT DEF TimeNumber
<1>2. Swapped3(b) = v
  <2>. HIDE DEF v
  <2>. QED
    BY <1>1, Swapped3ReadBack, SMT
<1>3. b[1] >= 128
  <2>. HIDE DEF v
  <2>1. Digit(v, 65536) >= 128
    BY <1>1, SMT DEF Digit
  <2>2. b[1] = Digit(v, 65536)
    BY <1>1, BigEndianIs, SMT
  <2>. QED
    BY <2>1, <2>2
<1>4. HasTimeFields(v, h, m, s)
  BY TimeNumberFields, SMT
<1>5. ReadTime2(b) = [sign |-> 1, hour |-> h, minute |-> m, second |-> s]
  <2>. HIDE DEF v, b
  <2>. QED
    BY <1>2, <1>3, <1>4 DEF ReadTime2, HasTimeFields
<1>. QED
  BY <1>5

LEMMA TimesFields ==
  ASSUME NEW t \in Times
  PROVE  /\ t.hour \in Int /\ 0 <= t.hour /\ t.hour <= 838
         /\ t.minute \in Int /\ 0 <= t.minute /\ t.minute <= 59
         /\ t.second \in Int /\ 0 <= t.second /\ t.second <= 59
         /\ t.sign \in {1, -1}
         /\ t = [sign |-> t.sign, hour |-> t.hour, minute |-> t.minute, second |-> t.second]
<1>1. t.hour \in HoursOfTime /\ t.minute \in Sixtieths /\ t.second \in Sixtieths
  BY DEF Times
<1>2. /\ t.sign \in {1, -1}
      /\ t = [sign |-> t.sign, hour |-> t.hour, minute |-> t.minute, second |-> t.second]
  BY DEF Times
<1>. QED
  BY <1>1, <1>2, RangesAre, SMT

\* A time that is not negative, of less than 256 hours.
LEMMA Time2ReadBack ==
  ASSUME NEW t \in Times, t.sign = 1, t.hour < 256
  PROVE  ReadTime2(StoredTime2(t)) = t
<1>1. /\ t.hour \in Int /\ 0 <= t.hour
      /\ t.minute \in Int /\ 0 <= t.minute /\ t.minute <= 59
      /\ t.second \in Int /\ 0 <= t.second /\ t.second <= 59
      /\ t = [sign |-> 1, hour |-> t.hour, minute |-> t.minute, second |-> t.second]
  BY TimesFields
<1>2. t.hour <= 255
  BY <1>1, SMT
<1>3. t.sign * (4096 * t.hour + 64 * t.minute + t.second)
        = 4096 * t.hour + 64 * t.minute + t.second
  BY <1>1, SMT
<1>4. StoredTime2(t) = BigEndian(TimeNumber(t.hour, t.minute, t.second), 3)
  BY <1>3, SMT DEF StoredTime2, TimeNumber
<1>. QED
  BY <1>1, <1>2, <1>4, TimeFieldsReadBack, SMT

\* Of the old TIME, midnight: all its bytes are zero.
LEMMA MidnightReadBack ==
  ASSUME NEW t \in Times, t.hour = 0, t.minute = 0, t.second = 0
  PROVE  ReadTime(StoredTime(t)) = [hour |-> 0, minute |-> 0, second |-> 0]
<1>. DEFINE b == LittleEndian(0, 3)
<1>1. t.sign * (10000 * t.hour + 100 * t.minute + t.second) = 0
  BY DEF Times
<1>2. StoredTime(t) = b
  BY <1>1 DEF StoredTime
<1>3. b[1] = 0 /\ b[2] = 0 /\ b[3] = 0
  BY LittleEndianIs, SMT DEF Digit
<1>4. Swapped3(b) = 0
  <2>. HIDE DEF b
  <2>. QED
    BY <1>3, SMT DEF Swapped3
<1>5. ReadTime(b) = [hour |-> 0, minute |-> 0, second |-> 0]
  <2>. HIDE DEF b
  <2>. QED
    BY <1>4, SMT DEF ReadTime
<1>. QED
  BY <1>2, <1>5

\* The two numbers of a DATETIME2: yh is 13 * year + month, carry the top bit
\* of the hour, low what is left of it.
UpperNumber(yh, d, carry) == 8388608 + 64 * yh + 2 * d + carry

LowerNumber(low, m, s) == 4096 * low + 64 * m + s

HasUpperFields(b1, b2, b3, yh, d, carry) ==
  /\ 1024 * (b1 % 128) + 4 * b2 + b3 \div 64 = yh
  /\ (b3 \div 2) % 32 = d
  /\ b3 % 2 = carry

LEMMA UpperNumberFields ==
  ASSUME NEW yh \in Int, NEW d \in Int, NEW carry \in Int,
         0 <= yh, yh < 131072, 0 <= d, d <= 31, 0 <= carry, carry <= 1
  PROVE  LET v == UpperNumber(yh, d, carry)
         IN  HasUpperFields(Digit(v, 65536), Digit(v, 256), Digit(v, 1), yh, d, carry)
<1>. DEFINE v == UpperNumber(yh, d, carry)
<1>1. v \in Int /\ 8388608 <= v /\ v < 16777216
  BY SMT DEF UpperNumber
<1>2. 65536 * Digit(v, 65536) + 256 * Digit(v, 256) + Digit(v, 1) = v
  <2>1. Digit(v, 1) \in Int /\ Digit(v, 256) \in Int /\ Digit(v, 65536) \in Int
    BY <1>1, DigitIsByte, SMT
  <2>2. Digit(v, 1) + 256 * Digit(v, 256) + 65536 * Digit(v, 65536) = v
    BY <1>1, Digits, SMT
  <2>. QED
    BY <1>1, <2>1, <2>2, SMT
<1>3. /\ Digit(v, 1) \in Int /\ 0 <= Digit(v, 1) /\ Digit(v, 1) <= 255
      /\ Digit(v, 256) \in Int /\ 0 <= Digit(v, 256) /\ Digit(v, 256) <= 255
      /\ Digit(v, 65536) \in Int /\ 0 <= Digit(v, 65536) /\ Digit(v, 65536) <= 255
  BY <1>1, DigitIsByte, SMT
<1>4. ASSUME NEW b1 \in Int, NEW b2 \in Int, NEW b3 \in Int,
             0 <= b1, b1 <= 255, 0 <= b2, b2 <= 255, 0 <= b3, b3 <= 255,
             65536 * b1 + 256 * b2 + b3 = 8388608 + 64 * yh + 2 * d + carry
      PROVE  /\ 1024 * (b1 % 128) + 4 * b2 + b3 \div 64 = yh
             /\ (b3 \div 2) % 32 = d
             /\ b3 % 2 = carry
  <2>1. b1 >= 128
    BY <1>4, SMT
  <2>2. b1 % 128 = b1 - 128
    BY <1>4, <2>1, SMT
  <2>. DEFINE q == b3 \div 64
  <2>3. q \in Int /\ 64 * q <= b3 /\ b3 < 64 * q + 64
    BY <1>4, SMT
  <2>4. 1024 * (b1 - 128) + 4 * b2 + q = yh
    <3>. HIDE DEF q
    <3>. QED
      BY <1>4, <2>3, SMT
  <2>5. b3 = 64 * q + 2 * d + carry
    <3>. HIDE DEF q
    <3>. QED
      BY <1>4, <2>3, <2>4, SMT
  <2>6. b3 \div 2 = 32 * q + d /\ b3 % 2 = carry
    <3>. HIDE DEF q
    <3>. QED
      BY <1>4, <2>3, <2>5, SMT
  <2>7. (32 * q + d) % 32 = d
    <3>1. 0 <= q /\ q <= 3
      BY <1>4, SMT
    <3>. HIDE DEF q
    <3>. QED
      BY <2>3, <3>1, SMT
  <2>. QED
    BY <2>2, <2>4, <2>6, <2>7, SMT
<1>5. v = 8388608 + 64 * yh + 2 * d + carry
  BY SMT DEF UpperNumber
<1>6. /\ 1024 * (Digit(v, 65536) % 128) + 4 * Digit(v, 256) + Digit(v, 1) \div 64 = yh
      /\ (Digit(v, 1) \div 2) % 32 = d
      /\ Digit(v, 1) % 2 = carry
  <2>. DEFINE b1 == Digit(v, 65536)
              b2 == Digit(v, 256)
              b3 == Digit(v, 1)
  <2>1. /\ b1 \in Int /\ b2 \in Int /\ b3 \in Int
        /\ 0 <= b1 /\ b1 <= 255 /\ 0 <= b2 /\ b2 <= 255 /\ 0 <= b3 /\ b3 <= 255
    BY <1>3, SMT
  <2>2. 65536 * b1 + 256 * b2 + b3 = 8388608 + 64 * yh + 2 * d + carry
    BY <1>2, <1>5, SMT
  <2>. SUFFICES /\ 1024 * (b1 % 128) + 4 * b2 + b3 \div 64 = yh
                /\ (b3 \div 2) % 32 = d
                /\ b3 % 2 = carry
    OBVIOUS
  <2>. HIDE DEF b1, b2, b3
  <2>. QED
    BY <1>4, <2>1, <2>2, SMT
<1>. QED
  BY <1>6, SMT DEF HasUpperFields

HasLowerFields(all, hour, m, s) ==
  (all \div 4096) % 32 = hour /\ (all \div 64) % 64 = m /\ all % 64 = s

LEMMA LowerNumberFields ==
  ASSUME NEW low \in Int, NEW m \in Int, NEW s \in Int, NEW b3 \in Int, NEW carry \in Int,
         0 <= low, low <= 15, 0 <= m, m <= 59, 0 <= s, s <= 59,
         0 <= b3, b3 <= 255, b3 % 2 = carry
  PROVE  LET v == LowerNumber(low, m, s)
             all == 65536 * b3 + 256 * Digit(v, 256) + Digit(v, 1)
         IN  HasLowerFields(all, 16 * carry + low, m, s)
<1>. DEFINE v == LowerNumber(low, m, s)
            all == 65536 * b3 + 256 * Digit(v, 256) + Digit(v, 1)
            sum == 65536 * b3 + (4096 * low + 64 * m + s)
<1>1. all = sum
  <2>1. v \in Int /\ 0 <= v /\ v < 65536
    BY SMT DEF LowerNumber
  <2>2. Digit(v, 1) \in Int /\ Digit(v, 256) \in Int
    BY <2>1, DigitIsByte
  <2>3. Digit(v, 1) + 256 * Digit(v, 256) = v
    BY <2>1, Digits
  <2>4. v = 4096 * low + 64 * m + s
    BY DEF LowerNumber
  <2>. HIDE DEF v
  <2>. QED
    BY <2>1, <2>2, <2>3, <2>4, SMT
<1>2. sum \div 4096 = 16 * b3 + low
  BY SMT
<1>3. (16 * b3 + low) % 32 = 16 * carry + low
  BY SMT
<1>4. sum \div 64 = 1024 * b3 + 64 * low + m /\ sum % 64 = s
  BY SMT
<1>5. (1024 * b3 + 64 * low + m) % 64 = m
  BY SMT
<1>. QED
  BY <1>1, <1>2, <1>3, <1>4, <1>5, SMT DEF HasLowerFields

HasDatetimeBytes(b, y, m, d, h, mi, s) ==
  LET upper == UpperNumber(13 * y + m, d, h \div 16)
      lower == LowerNumber(h % 16, mi, s)
  IN  /\ b[1] = Digit(upper, 65536) /\ b[2] = Digit(upper, 256) /\ b[3] = Digit(upper, 1)
      /\ b[4] = Digit(lower, 256) /\ b[5] = Digit(lower, 1)

LEMMA DatetimeFieldsReadBack ==
  ASSUME NEW y \in Int, NEW m \in Int, NEW d \in Int,
         NEW h \in Int, NEW mi \in Int, NEW s \in Int, NEW b,
         0 <= y, y <= 9999, 0 <= m, m <= 12, 0 <= d, d <= 31,
         0 <= h, h <= 23, 0 <= mi, mi <= 59, 0 <= s, s <= 59,
         HasDatetimeBytes(b, y, m, d, h, mi, s)
  PROVE  ReadDatetime2(b) = [year |-> y, month |-> m, day |-> d,
                             hour |-> h, minute |-> mi, second |-> s]
<1>. DEFINE yh == 13 * y + m
            carry == h \div 16
            low == h % 16
            upper == UpperNumber(yh, d, carry)
            lower == LowerNumber(low, mi, s)
<1>0. /\ b[1] = Digit(upper, 65536) /\ b[2] = Digit(upper, 256) /\ b[3] = Digit(upper, 1)
      /\ b[4] = Digit(lower, 256) /\ b[5] = Digit(lower, 1)
  BY SMT DEF HasDatetimeBytes
<1>1. yh \in Int /\ 0 <= yh /\ yh < 131072 /\ yh \div 13 = y /\ yh % 13 = m
  BY SMT
<1>2. /\ carry \in Int /\ 0 <= carry /\ carry <= 1
      /\ low \in Int /\ 0 <= low /\ low <= 15 /\ 16 * carry + low = h
  BY SMT
<1>3. upper \in Int
  <2>. HIDE DEF yh, carry
  <2>. QED
    BY <1>1, <1>2, SMT DEF UpperNumber
<1>4. HasUpperFields(b[1], b[2], b[3], yh, d, carry)
  <2>. HIDE DEF yh, carry, low
  <2>. QED
    BY <1>0, <1>1, <1>2, UpperNumberFields, SMT
<1>5. b[3] \in Int /\ 0 <= b[3] /\ b[3] <= 255
  <2>1. b[3] = Digit(upper, 1)
    BY <1>0
  <2>. HIDE DEF upper
  <2>. QED
    BY <1>3, <2>1, DigitIsByte, SMT
<1>6. b[3] % 2 = carry
  BY <1>4 DEF HasUpperFields
<1>7. HasLowerFields(65536 * b[3] + 256 * b[4] + b[5], h, mi, s)
  <2>1. b[4] = Digit(lower, 256) /\ b[5] = Digit(lower, 1)
    BY <1>0
  <2>. HIDE DEF carry, low
  <2>. QED
    BY <1>2, <1>5, <1>6, <2>1, LowerNumberFields, SMT
<1>8. YearAndMonth(b) = yh
  BY <1>4 DEF HasUpperFields, YearAndMonth
<1>9. (b[3] \div 2) % 32 = d
  BY <1>4 DEF HasUpperFields
<1>. HIDE DEF yh
<1>. QED
  BY <1>1, <1>7, <1>8, <1>9 DEF ReadDatetime2, HasLowerFields

LEMMA Datetime2ReadBack ==
  ASSUME NEW d \in Datetimes
  PROVE  ReadDatetime2(StoredDatetime2(d)) = d
<1>1. /\ d.year \in Years /\ d.month \in Months /\ d.day \in Days
      /\ d.hour \in HoursOfDay /\ d.minute \in Sixtieths /\ d.second \in Sixtieths
  BY DEF Datetimes
<1>2. d = [year |-> d.year, month |-> d.month, day |-> d.day,
           hour |-> d.hour, minute |-> d.minute, second |-> d.second]
  BY DEF Datetimes
<1>3. /\ d.year \in Int /\ 0 <= d.year /\ d.year <= 9999
      /\ d.month \in Int /\ 0 <= d.month /\ d.month <= 12
      /\ d.day \in Int /\ 0 <= d.day /\ d.day <= 31
      /\ d.hour \in Int /\ 0 <= d.hour /\ d.hour <= 23
      /\ d.minute \in Int /\ 0 <= d.minute /\ d.minute <= 59
      /\ d.second \in Int /\ 0 <= d.second /\ d.second <= 59
  BY <1>1, RangesAre, SMT
<1>. DEFINE upper == UpperNumber(13 * d.year + d.month, d.day, d.hour \div 16)
            lower == LowerNumber(d.hour % 16, d.minute, d.second)
            b == BigEndian(upper, 3) \o BigEndian(lower, 2)
<1>4. StoredDatetime2(d) = b
  BY <1>3, SMT DEF StoredDatetime2, UpperNumber, LowerNumber
<1>5. upper \in Int /\ lower \in Int
  BY <1>3, SMT DEF UpperNumber, LowerNumber
<1>6. /\ b[1] = Digit(upper, 65536) /\ b[2] = Digit(upper, 256) /\ b[3] = Digit(upper, 1)
      /\ b[4] = Digit(lower, 256) /\ b[5] = Digit(lower, 1)
  <2>1. \A i \in 1 .. 3 : b[i] = BigEndian(upper, 3)[i]
    <3>. HIDE DEF upper, lower
    <3>. QED
      BY <1>5, SMT DEF BigEndian
  <2>2. \A i \in 1 .. 2 : b[3 + i] = BigEndian(lower, 2)[i]
    <3>. HIDE DEF upper, lower
    <3>. QED
      BY <1>5, SMT DEF BigEndian
  <2>. HIDE DEF b, upper, lower
  <2>. QED
    BY <1>5, <2>1, <2>2, BigEndianIs, SMT
<1>7. ReadDatetime2(b) = [year |-> d.year, month |-> d.month, day |-> d.day,
                          hour |-> d.hour, minute |-> d.minute, second |-> d.second]
  <2>1. HasDatetimeBytes(b, d.year, d.month, d.day, d.hour, d.minute, d.second)
    <3>. HIDE DEF b
    <3>. QED
      BY <1>6, SMT DEF HasDatetimeBytes
  <2>. HIDE DEF b
  <2>. QED
    BY <1>3, <2>1, DatetimeFieldsReadBack, SMT
<1>. QED
  BY <1>2, <1>4, <1>7

(***************************************************************************)
(* What is decoded of a column's bytes.                                    *)
(***************************************************************************)

LEMMA RangeIs ==
  ASSUME NEW max \in Nat
  PROVE  /\ \A v \in Signed(max) : v \in Int /\ -max - 1 <= v /\ v <= max
         /\ \A v \in Unsigned(max) : v \in Int /\ 0 <= v /\ v <= max
BY SMT DEF Signed, Unsigned

InSignedRange(c) ==
  c.value \in IF c.type = "SHORT" THEN Unsigned(65535) ELSE SignedRange(c.type)

LEMMA IntegersDecoded ==
  ASSUME NEW c, NEW g, c.type \in IntegerTypes, InSignedRange(c)
  PROVE  Decoded(c, Stored(c), g) = c.value
<1>. DEFINE v == c.value
<1>1. CASE c.type = "TINY"
  <2>1. v \in Signed(127)
    BY <1>1 DEF InSignedRange, SignedRange
  <2>2. Decoded(c, Stored(c), g) = ReadTiny(LittleEndian(v, 1))
    BY <1>1 DEF Decoded, Stored
  <2>. HIDE DEF v
  <2>3. v \in Int /\ -128 <= v /\ v < 128
    BY <2>1, RangeIs, SMT
  <2>4. ReadTiny(LittleEndian(v, 1)) = v
    BY <2>3, TinyReadBack
  <2>. QED
    BY <2>2, <2>4 DEF v
<1>2. CASE c.type = "SHORT"
  <2>1. v \in Unsigned(65535)
    BY <1>2 DEF InSignedRange
  <2>2. Decoded(c, Stored(c), g) = ReadShort(LittleEndian(v, 2))
    BY <1>2 DEF Decoded, Stored
  <2>. HIDE DEF v
  <2>3. v \in Int /\ 0 <= v /\ v < 65536
    BY <2>1, RangeIs, SMT
  <2>4. ReadShort(LittleEndian(v, 2)) = v
    BY <2>3, ShortReadBack
  <2>. QED
    BY <2>2, <2>4 DEF v
<1>3. CASE c.type = "INT24"
  <2>1. v \in Signed(8388607)
    BY <1>3 DEF InSignedRange, SignedRange
  <2>2. Decoded(c, Stored(c), g) = Int3(LittleEndian(v, 3))
    BY <1>3 DEF Decoded, Stored
  <2>. HIDE DEF v
  <2>3. v \in Int /\ -8388608 <= v /\ v < 8388608
    BY <2>1, RangeIs, SMT
  <2>4. Int3(LittleEndian(v, 3)) = v
    BY <2>3, Int3ReadBack, SMT
  <2>. QED
    BY <2>2, <2>4 DEF v
<1>4. CASE c.type = "LONG"
  <2>1. v \in Signed(2147483647)
    BY <1>4 DEF InSignedRange, SignedRange, Domain
  <2>2. Decoded(c, Stored(c), g) = Int4(LittleEndian(v, 4))
    BY <1>4 DEF Decoded, Stored
  <2>. HIDE DEF v
  <2>3. v \in Int /\ -2147483648 <= v /\ v < 2147483648
    BY <2>1, RangeIs, SMT
  <2>4. Int4(LittleEndian(v, 4)) = v
    BY <2>3, Int4ReadBack, SMT
  <2>. QED
    BY <2>2, <2>4 DEF v
<1>5. CASE c.type = "LONGLONG"
  <2>1. v \in Signed(2147483647)
    BY <1>5 DEF InSignedRange, SignedRange, Domain
  <2>2. Decoded(c, Stored(c), g) = Int8(StoredLonglong(v))
    BY <1>5 DEF Decoded, Stored
  <2>. HIDE DEF v
  <2>3. v \in Int /\ -2147483648 <= v /\ v < 2147483648
    BY <2>1, RangeIs, SMT
  <2>4. Int8(StoredLonglong(v)) = v
    BY <2>3, Int8ReadBack, SMT
  <2>. QED
    BY <2>2, <2>4 DEF v
<1>6. CASE c.type = "TIMESTAMP2"
  <2>1. v \in Unsigned(2147483647)
    BY <1>6 DEF InSignedRange, SignedRange, Domain
  <2>2. Decoded(c, Stored(c), g) = Swapped4(BigEndian(v, 4))
    BY <1>6 DEF Decoded, Stored
  <2>. HIDE DEF v
  <2>3. v \in Int /\ 0 <= v /\ v < 2147483648
    BY <2>1, RangeIs, SMT
  <2>4. Swapped4(BigEndian(v, 4)) = v
    BY <2>3, Swapped4ReadBack, SMT
  <2>. QED
    BY <2>2, <2>4 DEF v
<1>. QED
  BY <1>1, <1>2, <1>3, <1>4, <1>5, <1>6 DEF IntegerTypes

\* What the program makes of a date or a time, where it gets it right.
TemporalRight(c, read) ==
  LET t == c.value
  IN  CASE c.type = "TIME2" -> t.sign = 1 /\ t.hour < 256 => read = t
        [] c.type = "TIME" ->
             t.hour = 0 /\ t.minute = 0 /\ t.second = 0
               => read = [hour |-> 0, minute |-> 0, second |-> 0]
        [] OTHER -> read = t

LEMMA TemporalsDecoded ==
  ASSUME NEW c, NEW g, c.type \in TemporalTypes, c.value \in Domain(c.type)
  PROVE  TemporalRight(c, Decoded(c, Stored(c), g))
<1>1. CASE c.type = "DATE"
  <2>1. c.value \in Dates
    BY <1>1 DEF Domain
  <2>2. Decoded(c, Stored(c), g) = ReadDate(StoredDate(c.value))
    BY <1>1 DEF Decoded, Stored
  <2>. QED
    BY <1>1, <2>1, <2>2, DateReadBack DEF TemporalRight
<1>2. CASE c.type = "TIME"
  <2>1. c.value \in Times
    BY <1>2 DEF Domain
  <2>2. Decoded(c, Stored(c), g) = ReadTime(StoredTime(c.value))
    BY <1>2 DEF Decoded, Stored
  <2>. QED
    BY <1>2, <2>1, <2>2, MidnightReadBack DEF TemporalRight
<1>3. CASE c.type = "TIME2"
  <2>1. c.value \in Times
    BY <1>3 DEF Domain
  <2>2. Decoded(c, Stored(c), g) = ReadTime2(StoredTime2(c.value))
    BY <1>3 DEF Decoded, Stored
  <2>. QED
    BY <1>3, <2>1, <2>2, Time2ReadBack DEF TemporalRight
<1>4. CASE c.type = "DATETIME2"
  <2>1. c.value \in Datetimes
    BY <1>4 DEF Domain
  <2>2. Decoded(c, Stored(c), g) = ReadDatetime2(StoredDatetime2(c.value))
    BY <1>4 DEF Decoded, Stored
  <2>. QED
    BY <1>4, <2>1, <2>2, Datetime2ReadBack DEF TemporalRight
<1>. QED
  BY <1>1, <1>2, <1>3, <1>4 DEF TemporalTypes
-----------------------------------------------------------------------------
(* What is read is what was stored last. *)

StoredInv ==
  /\ pc \in {"stored", "read", "crashed"}
  /\ column \in Values \cup {NoColumn}
  /\ pc = "stored" => column \in Values /\ wire = Stored(column)

\* A value read is the one decoded of the bytes its column was stored in.
ReadInv ==
  pc = "read" /\ column # NoColumn =>
    \E g \in Garbage :
      /\ field = Decoded(column, Stored(column), g)
      /\ column.type = "VARCHAR" => field # Killed

LEMMA ValueRead == Spec => [](StoredInv /\ ReadInv)
<1>1. Init => StoredInv /\ ReadInv
  BY DEF Init, StoredInv, ReadInv
<1>2. StoredInv /\ ReadInv /\ [Next]_vars => (StoredInv /\ ReadInv)'
  <2>. SUFFICES ASSUME StoredInv, ReadInv, [Next]_vars
                PROVE  StoredInv' /\ ReadInv'
    OBVIOUS
  <2>1. CASE \E c \in Values : Store(c)
    BY <2>1 DEF Store, StoredInv, ReadInv
  <2>2. CASE GetColumnVal
    <3>. PICK g \in Garbage :
           \/ pc' = "crashed"
           \/ /\ pc' = "read" /\ field' = Decoded(column, wire, g)
              /\ column.type = "VARCHAR" => field' # Killed
      BY <2>2 DEF GetColumnVal
    <3>1. pc = "stored" /\ UNCHANGED <<column, wire>>
      BY <2>2 DEF GetColumnVal
    <3>2. column \in Values /\ wire = Stored(column)
      BY <3>1 DEF StoredInv
    <3>3. StoredInv'
      BY <3>1, <3>2 DEF StoredInv
    <3>4. ReadInv'
      BY <3>1, <3>2 DEF ReadInv
    <3>. QED
      BY <3>3, <3>4
  <2>3. CASE Crashed \/ UNCHANGED vars
    BY <2>3 DEF Crashed, vars, StoredInv, ReadInv
  <2>. QED
    BY <2>1, <2>2, <2>3 DEF Next
<1>. QED
  BY <1>1, <1>2, PTL DEF Spec

LEMMA ColumnsNotNone == NoColumn.type \notin IntegerTypes \cup TemporalTypes
BY DEF NoColumn, IntegerTypes, TemporalTypes

\* Every integer column is logged as the value it has, except one whose sign
\* the type of the C variable cannot show: a SMALLINT below zero, and an
\* UNSIGNED column of another type beyond the range of the signed one
\* (binary_type.c:153-213).
THEOREM IntegersReadBack == Spec => []IntegersLoggedWithTheirSign
<1>1. StoredInv /\ ReadInv => IntegersLoggedWithTheirSign
  <2>. SUFFICES ASSUME ReadInv, pc = "read", column.type \in IntegerTypes,
                       InSignedRange(column)
                PROVE  field = column.value
    BY DEF IntegersLoggedWithTheirSign, ReadOf, InSignedRange
  <2>1. PICK g \in Garbage : field = Decoded(column, Stored(column), g)
    BY ColumnsNotNone DEF ReadInv
  <2>. QED
    BY <2>1, IntegersDecoded
<1>. QED
  BY <1>1, ValueRead, PTL

\* Dates, dates with a time, and times of day of less than 256 hours are
\* logged as they were stored (binary_type.c:42-149), whatever their values.
THEOREM TemporalsReadBack == Spec => []TemporalsLogged
<1>1. StoredInv /\ ReadInv => TemporalsLogged
  <2>. SUFFICES ASSUME StoredInv, ReadInv, pc = "read", column.type \in TemporalTypes
                PROVE  TemporalRight(column, field)
    BY DEF TemporalsLogged, ReadOf, TemporalRight
  <2>1. PICK g \in Garbage : field = Decoded(column, Stored(column), g)
    BY ColumnsNotNone DEF ReadInv
  <2>2. column \in Values
    BY ColumnsNotNone DEF StoredInv
  <2>3. column.value \in Domain(column.type)
    BY <2>2, ValuesAssumption DEF ValuesAssumption, TemporalTypes
  <2>. QED
    BY <2>1, <2>3, TemporalsDecoded
<1>. QED
  BY <1>1, ValueRead, PTL

(***************************************************************************)
(* Strings with a prefix of one byte.                                      *)
(***************************************************************************)

LEMMA ShortStringDecoded ==
  ASSUME NEW s \in Seq(Byte), Len(s) < 128, NEW meta, meta[2] = 0
  PROVE  LengthEncodeString(StoredVarchar(s, meta)) = [s |-> s, length |-> Len(s) + 2]
<1>. DEFINE n == Len(s)
            b == StoredVarchar(s, meta)
<1>1. n \in Nat /\ n < 128
  OBVIOUS
<1>2. /\ b = LittleEndian(n, 1) \o s
      /\ LittleEndian(n, 1) \in Seq(Int) /\ Len(LittleEndian(n, 1)) = 1
      /\ LittleEndian(n, 1)[1] = n
  <2>1. b = LittleEndian(n, 1) \o s
    BY DEF StoredVarchar
  <2>2. LittleEndian(n, 1)[1] = n
    BY <1>1, LittleEndianIs, Digits, SMT
  <2>3. LittleEndian(n, 1) = [i \in 1 .. 1 |-> LittleEndian(n, 1)[i]]
    BY SMT DEF LittleEndian
  <2>4. LittleEndian(n, 1) \in Seq(Int) /\ Len(LittleEndian(n, 1)) = 1
    <3>. HIDE DEF n
    <3>. QED
      BY <1>1, <2>2, <2>3, SMT
  <2>. QED
    BY <2>1, <2>2, <2>4
<1>3. /\ b[1] = n /\ Len(b) = n + 1
      /\ \A i \in 1 .. n : b[i + 1] = s[i]
  BY <1>2, SMT
<1>4. LengthEncodeNumber(b) = [number |-> n, length |-> 1]
  <2>1. SignedChar(b[1]) = n
    BY <1>1, <1>3 DEF SignedChar
  <2>. HIDE DEF b, n
  <2>. QED
    BY <1>1, <2>1 DEF LengthEncodeNumber
<1>5. SubSeq(b, 2, n + 1) = s
  <2>1. s = [i \in 1 .. n |-> s[i]]
    OBVIOUS
  <2>2. SubSeq(b, 2, n + 1) = [i \in 1 .. n |-> b[i + 1]]
    <3>. HIDE DEF b, n
    <3>. QED
      BY <1>1, <1>3, SMT
  <2>. HIDE DEF b, n
  <2>. QED
    BY <1>3, <2>1, <2>2
<1>6. LengthEncodeString(b) = [s |-> s, length |-> n + 2]
  <2>. HIDE DEF b, n
  <2>. DEFINE prefix == LengthEncodeNumber(b)
  <2>1. prefix.number = n /\ prefix.length = 1
    BY <1>4
  <2>. HIDE DEF prefix
  <2>2. /\ ~(prefix.number < 0)
        /\ prefix.length + 1 = 2 /\ prefix.length + prefix.number = n + 1
        /\ prefix.length + prefix.number + 1 = n + 2
    BY <1>1, <2>1, SMT
  <2>3. LengthEncodeString(b)
          = IF prefix.number < 0 THEN Killed
            ELSE [s |-> SubSeq(b, prefix.length + 1, prefix.length + prefix.number),
                  length |-> prefix.length + prefix.number + 1]
    BY DEF LengthEncodeString, prefix
  <2>. QED
    BY <1>5, <2>2, <2>3
<1>. QED
  BY <1>6

\* A string that was fatal is one that may be.
FatalInv ==
  pc = "crashed" => column.type = "VARCHAR"
                      /\ \E g \in Garbage : MayKill(Stored(column), column.meta, g)

LEMMA FatalString == Spec => []FatalInv
<1>1. Init => FatalInv
  BY DEF Init, FatalInv
<1>2. StoredInv /\ FatalInv /\ [Next]_vars => FatalInv'
  <2>. SUFFICES ASSUME StoredInv, FatalInv, [Next]_vars
                PROVE  FatalInv'
    OBVIOUS
  <2>1. CASE \E c \in Values : Store(c)
    BY <2>1 DEF Store, FatalInv
  <2>2. CASE GetColumnVal
    <3>1. UNCHANGED column /\ wire = Stored(column)
      BY <2>2 DEF GetColumnVal, StoredInv
    <3>2. PICK g \in Garbage :
            \/ column.type = "VARCHAR" /\ MayKill(wire, column.meta, g) /\ pc' = "crashed"
            \/ pc' = "read"
      BY <2>2 DEF GetColumnVal
    <3>. QED
      BY <3>1, <3>2 DEF FatalInv
  <2>3. CASE Crashed \/ UNCHANGED vars
    BY <2>3 DEF Crashed, vars, FatalInv
  <2>. QED
    BY <2>1, <2>2, <2>3 DEF Next
<1>. QED
  BY <1>1, <1>2, ValueRead, PTL DEF Spec

(***************************************************************************)
(* Strings with a prefix of two bytes, in a column of 512 to 767.          *)
(***************************************************************************)

\* A word of four bytes is a number when its two lower bytes are.
LEMMA WordIsInt ==
  ASSUME NEW w, w[1] \in Int, w[2] \in Int, w[3] \in Byte, w[4] \in Byte
  PROVE  Int4(w) \in Int
<1>. DEFINE x == w[3]
            y == SignedChar(w[4])
            z == w[1] + 256 * w[2]
<1>1. x \in Int /\ y \in Int
  BY SMT DEF Byte, SignedChar
<1>2. z \in Int
  OBVIOUS
<1>3. Int4(w) = z + 65536 * x + 16777216 * y
  BY SMT DEF Int4, Uint3
<1>. HIDE DEF x, y, z
<1>. QED
  BY <1>1, <1>2, <1>3, SMT

\* The upper half of the int is what it was: it makes the length larger, or
\* negative, but never smaller.
LEMMA LengthNotSmaller ==
  ASSUME NEW n \in Nat, n < 65536, NEW w,
         w[1] \in Int, w[2] \in Int, w[1] + 256 * w[2] = n, w[3] \in Byte, w[4] \in Byte,
         Int4(w) >= 0
  PROVE  Int4(w) \in Int /\ Int4(w) >= n
<1>. DEFINE x == w[3]
           y == SignedChar(w[4])
<1>1. x \in Int /\ 0 <= x /\ x <= 255 /\ y \in Int
  BY SMT DEF Byte, SignedChar
<1>2. Int4(w) = n + 65536 * x + 16777216 * y
  BY SMT DEF Int4, Uint3
<1>. HIDE DEF x, y
<1>. DEFINE len == Int4(w)
<1>3. len = n + 65536 * x + 16777216 * y /\ len >= 0
  BY <1>2
<1>. HIDE DEF len
<1>4. n + 65536 * x < 16777216
  BY <1>1, SMT
<1>5. y >= 0
  BY <1>1, <1>3, <1>4, SMT
<1>6. len \in Int /\ len >= n
  BY <1>1, <1>3, <1>5, SMT
<1>. QED
  BY <1>6, SMT DEF len

LEMMA BehindTwoBytes ==
  ASSUME NEW p \in Seq(Byte), Len(p) = 2, NEW s \in Seq(Byte)
  PROVE  /\ (p \o s)[1] = p[1] /\ (p \o s)[2] = p[2] /\ Len(p \o s) = Len(s) + 2
         /\ \A i \in 1 .. Len(s) : (p \o s)[i + 2] = s[i]
<1>1. /\ Len(p \o s) = 2 + Len(s)
      /\ \A i \in 1 .. 2 + Len(s) : (p \o s)[i] = IF i <= 2 THEN p[i] ELSE s[i - 2]
  <2>1. /\ Len(p \o s) = Len(p) + Len(s)
        /\ \A i \in 1 .. Len(p) + Len(s) :
             (p \o s)[i] = IF i <= Len(p) THEN p[i] ELSE s[i - Len(p)]
    BY ConcatProperties, Zenon
  <2>. QED
    BY <2>1, Zenon
<1>2. Len(s) \in Nat
  OBVIOUS
<1>. QED
  BY <1>1, <1>2, SMT

TwoBytesLong(s) == Len(s) < 65536

LEMMA LongStringDecoded ==
  ASSUME NEW s \in Seq(Byte), TwoBytesLong(s), NEW meta, meta[2] = 2,
         NEW g \in [1 .. 4 -> Byte],
         ReadVarchar(StoredVarchar(s, meta), meta, g) # Killed
  PROVE  /\ ReadVarchar(StoredVarchar(s, meta), meta, g).s = s
         /\ ReadVarchar(StoredVarchar(s, meta), meta, g).length >= Len(s) + 2
<1>. DEFINE n == Len(s)
           b == StoredVarchar(s, meta)
           read == ReadVarchar(b, meta, g)
           most == 2147483647
<1>. HIDE DEF most
<1>1. n \in Nat
  OBVIOUS
<1>2. /\ b = LittleEndian(n, 2) \o s
      /\ LittleEndian(n, 2)[1] \in Int /\ LittleEndian(n, 2)[2] \in Int
      /\ LittleEndian(n, 2) \in Seq(Byte) /\ Len(LittleEndian(n, 2)) = 2
      /\ LittleEndian(n, 2)[1] + 256 * LittleEndian(n, 2)[2] = n
  <2>1. b = LittleEndian(n, 2) \o s
    BY DEF StoredVarchar
  <2>2. /\ LittleEndian(n, 2)[1] \in Int /\ LittleEndian(n, 2)[2] \in Int
        /\ LittleEndian(n, 2)[1] \in Byte /\ LittleEndian(n, 2)[2] \in Byte
        /\ LittleEndian(n, 2)[1] + 256 * LittleEndian(n, 2)[2] = n
    <3>0. n < 65536
      BY SMT DEF TwoBytesLong
    <3>. HIDE DEF n
    <3>1. n \in Int /\ 0 <= n
      BY <1>1, SMT
    <3>2. LittleEndian(n, 2)[1] = Digit(n, 1) /\ LittleEndian(n, 2)[2] = Digit(n, 256)
      BY <3>1, LittleEndianIs, SMT
    <3>3. /\ Digit(n, 1) \in Int /\ Digit(n, 256) \in Int
          /\ Digit(n, 1) \in Byte /\ Digit(n, 256) \in Byte
      BY <3>1, SMT DEF Digit, Byte
    <3>4. Digit(n, 1) + 256 * Digit(n, 256) = n
      BY <3>0, <3>1, Digits, SMT
    <3>. QED
      BY <3>2, <3>3, <3>4, SMT
  <2>3. LittleEndian(n, 2) = [i \in 1 .. 2 |-> LittleEndian(n, 2)[i]]
    BY SMT DEF LittleEndian
  <2>4. LittleEndian(n, 2) \in Seq(Byte) /\ Len(LittleEndian(n, 2)) = 2
    <3>. DEFINE p == LittleEndian(n, 2)
    <3>1. p = [i \in 1 .. 2 |-> p[i]] /\ p[1] \in Byte /\ p[2] \in Byte
      BY <2>2, <2>3
    <3>. HIDE DEF p
    <3>2. p \in Seq(Byte) /\ Len(p) = 2
      BY <3>1, SMT
    <3>. QED
      BY <3>2 DEF p
  <2>. QED
    BY <2>1, <2>2, <2>4
<1>3. /\ b[1] \in Int /\ b[2] \in Int /\ b[1] + 256 * b[2] = n /\ Len(b) = n + 2
      /\ \A i \in 1 .. n : b[i + 2] = s[i]
  <2>. DEFINE p == LittleEndian(n, 2)
  <2>1. p \in Seq(Byte) /\ Len(p) = 2 /\ p[1] + 256 * p[2] = n /\ b = p \o s
    BY <1>2
  <2>2. p[1] \in Int /\ p[2] \in Int
    BY <1>2
  <2>. HIDE DEF p, b
  <2>3. b[1] = p[1] /\ b[2] = p[2] /\ Len(b) = n + 2 /\ \A i \in 1 .. n : b[i + 2] = s[i]
    BY <2>1, BehindTwoBytes
  <2>. QED
    BY <2>1, <2>2, <2>3
<1>. HIDE DEF b
<1>. DEFINE w == [i \in 1 .. 4 |-> IF i <= 2 /\ i <= Len(b) THEN b[i] ELSE g[i]]
           len == Int4(w)
<1>4. w[1] = b[1] /\ w[2] = b[2] /\ w[3] \in Byte /\ w[4] \in Byte
  <2>1. 1 <= Len(b) /\ 2 <= Len(b)
    BY <1>1, <1>3
  <2>. HIDE DEF n
  <2>. QED
    BY <2>1
<1>5. LengthCopied(b, meta[2], g) = len
  BY DEF LengthCopied
<1>6. PrefixLeft(meta[2], g) = 2
  BY DEF PrefixLeft, SizeOfVarchar
<1>. HIDE DEF w, len
<1>7. read = IF len < 0 \/ len > most - 2 THEN Killed
             ELSE [s |-> SubSeq(b, 2 + 1, Min({2 + len, Len(b)})), length |-> 2 + len]
  <2>1. meta[2] = 2 /\ ~(meta[2] = 0)
    OBVIOUS
  <2>. HIDE DEF b, len, n, w
  <2>2. read = IF meta[2] = 0 THEN LengthEncodeString(b)
               ELSE IF LengthCopied(b, meta[2], g) < 0
                       \/ LengthCopied(b, meta[2], g) > most - PrefixLeft(meta[2], g)
                 THEN Killed
               ELSE [s |-> SubSeq(b, PrefixLeft(meta[2], g) + 1,
                               Min({PrefixLeft(meta[2], g) + LengthCopied(b, meta[2], g), Len(b)})),
                     length |-> PrefixLeft(meta[2], g) + LengthCopied(b, meta[2], g)]
    BY SMT DEF ReadVarchar, most
  <2>. HIDE DEF read
  <2>. QED
    BY <1>5, <1>6, <2>1, <2>2
<1>8. read # Killed
  BY DEF b
<1>9. len \in Int
  BY <1>3, <1>4, WordIsInt DEF len
<1>10. len >= 0
  BY <1>7, <1>8, <1>9, SMT
<1>11. len >= n
  <2>0. n < 65536
    BY SMT DEF TwoBytesLong
  <2>. HIDE DEF n
  <2>1. w[1] + 256 * w[2] = n /\ w[1] \in Int /\ w[2] \in Int
    BY <1>3, <1>4
  <2>2. Int4(w) >= 0
    BY <1>10, SMT DEF len
  <2>. QED
    BY <1>1, <1>4, <2>0, <2>1, <2>2, LengthNotSmaller, SMT DEF len
<1>12. Min({2 + len, Len(b)}) = n + 2
  <2>. HIDE DEF n
  <2>. DEFINE x == 2 + len
  <2>1. Len(b) = n + 2 /\ x \in Int /\ n + 2 <= x /\ n + 2 \in Int
    BY <1>1, <1>3, <1>9, <1>11, SMT
  <2>. HIDE DEF x
  <2>2. Min({x, n + 2}) = CHOOSE m \in {x, n + 2} : \A k \in {x, n + 2} : m <= k
    BY DEF Min
  <2>3. \A m \in {x, n + 2} : (\A k \in {x, n + 2} : m <= k) => m = n + 2
    BY <2>1
  <2>4. \A k \in {x, n + 2} : n + 2 <= k
    BY <2>1
  <2>5. Min({x, n + 2}) = n + 2
    BY <2>2, <2>3, <2>4
  <2>. QED
    BY <2>1, <2>5 DEF x
<1>13. read = [s |-> SubSeq(b, 2 + 1, n + 2), length |-> 2 + len]
  <2>. HIDE DEF read, n
  <2>1. ~(len < 0 \/ len > most - 2)
    BY <1>7, <1>8
  <2>. QED
    BY <1>7, <1>12, <2>1
<1>14. SubSeq(b, 2 + 1, n + 2) = s
  <2>1. s = [i \in 1 .. n |-> s[i]]
    OBVIOUS
  <2>2. SubSeq(b, 2 + 1, n + 2) = [i \in 1 .. n |-> b[i + 2]]
    <3>. HIDE DEF n
    <3>. QED
      BY <1>1, <1>3, SMT
  <2>. HIDE DEF n
  <2>. QED
    BY <1>3, <2>1, <2>2
<1>15. read.s = s /\ read.length = 2 + len
  <2>. HIDE DEF read, n
  <2>. QED
    BY <1>13, <1>14
<1>16. 2 + len >= n + 2
  <2>. HIDE DEF n
  <2>. QED
    BY <1>1, <1>9, <1>11, SMT
<1>17. read.length >= n + 2
  <2>. HIDE DEF read, n
  <2>. QED
    BY <1>15, <1>16
<1>. QED
  BY <1>15, <1>17 DEF b

LEMMA VarcharColumn ==
  ASSUME NEW c \in Values, c.type = "VARCHAR"
  PROVE  /\ c.meta[1] \in Byte /\ c.meta[2] \in Byte /\ c.value \in Seq(Byte)
         /\ Len(c.value) <= c.meta[1] + 256 * c.meta[2]
BY ValuesAssumption DEF ValuesAssumption, IntegerTypes, TemporalTypes

\* A VARCHAR of fewer than 128 bytes, in a column of fewer than 256, is given
\* whole, and the program survives reading it (tools.c:98-143); one of any
\* length in a column of 512 to 767 is given whole if the program survives, but
\* with more behind it where the rest of the int was not 0 (binary_type.c:249-257).
THEOREM ShortStringsReadBack == Spec => []StringsRead
<1>1. StoredInv /\ ReadInv /\ FatalInv => StringsRead
  <2>. SUFFICES ASSUME StoredInv, ReadInv, FatalInv, column.type = "VARCHAR"
                PROVE  /\ column.meta[2] = 0 /\ Len(column.value) < 128 =>
                            pc # "crashed" /\ (pc = "read" => field.s = column.value)
                       /\ column.meta[2] = 2 /\ pc = "read" =>
                            /\ field.s = column.value
                            /\ field.length >= Len(column.value) + 2
    BY DEF StringsRead
  <2>1. column \in Values
    BY DEF StoredInv, NoColumn
  <2>2. column.value \in Seq(Byte)
    BY <2>1, VarcharColumn
  <2>3. ASSUME NEW g \in Garbage
        PROVE  Decoded(column, Stored(column), g)
                 = ReadVarchar(StoredVarchar(column.value, column.meta), column.meta, g)
    BY DEF Decoded, Stored
  <2>4. ASSUME pc = "read"
        PROVE  \E g \in Garbage :
                 /\ field = ReadVarchar(StoredVarchar(column.value, column.meta), column.meta, g)
                 /\ field # Killed
    BY <2>1, <2>3, <2>4 DEF ReadInv, NoColumn
  <2>5. ASSUME column.meta[2] = 0, Len(column.value) < 128
        PROVE  pc # "crashed" /\ (pc = "read" => field.s = column.value)
    <3>. DEFINE b == StoredVarchar(column.value, column.meta)
    <3>1. ASSUME NEW g
          PROVE  ReadVarchar(b, column.meta, g)
                   = [s |-> column.value, length |-> Len(column.value) + 2]
      <4>1. ReadVarchar(b, column.meta, g) = LengthEncodeString(b)
        BY <2>5 DEF ReadVarchar
      <4>. QED
        BY <2>2, <2>5, <4>1, ShortStringDecoded
    <3>2. [s |-> column.value, length |-> Len(column.value) + 2] # Killed
      <4>1. Len(column.value) \in Nat
        BY <2>2
      <4>. QED
        BY <4>1 DEF Killed
    <3>3. Stored(column) = b
      BY DEF Stored
    <3>4. ASSUME NEW g PROVE ~MayKill(b, column.meta, g)
      BY <2>5, <3>1, <3>2 DEF MayKill, SizeOfVarchar
    <3>5. pc # "crashed"
      BY <3>3, <3>4 DEF FatalInv
    <3>. HIDE DEF b
    <3>6. ASSUME pc = "read" PROVE field.s = column.value
      BY <2>4, <3>1, <3>6 DEF b
    <3>. QED
      BY <3>5, <3>6
  <2>6. ASSUME column.meta[2] = 2, pc = "read"
        PROVE  field.s = column.value /\ field.length >= Len(column.value) + 2
    <3>1. TwoBytesLong(column.value)
      <4>1. column.meta[1] \in Int /\ column.meta[1] <= 255
        <5>1. column.meta[1] \in Byte
          BY <2>1, VarcharColumn
        <5>. QED
          BY <5>1, SMT DEF Byte
      <4>2. Len(column.value) \in Nat /\ Len(column.value) <= column.meta[1] + 256 * 2
        BY <2>1, <2>2, <2>6, VarcharColumn
      <4>. QED
        BY <4>1, <4>2, SMT DEF TwoBytesLong
    <3>2. \A g \in Garbage : g \in [1 .. 4 -> Byte]
      BY ValuesAssumption DEF ValuesAssumption
    <3>. QED
      BY <2>2, <2>4, <2>6, <3>1, <3>2, LongStringDecoded
  <2>. QED
    BY <2>5, <2>6
<1>. QED
  BY <1>1, ValueRead, FatalString, PTL
=============================================================================
