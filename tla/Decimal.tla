------------------------------ MODULE Decimal ------------------------------
(***************************************************************************)
(* decimal.c: a DECIMAL as it is in the log, to an integral and a          *)
(* fractional number.                                                      *)
(*                                                                         *)
(* The digits are stored in groups of nine, of four bytes each, a group    *)
(* that is not full in fewer.  A number is the sequence of its             *)
(* coefficients to the base 10^9, the first not 0, so that <<>> is zero;   *)
(* the numbers are taken to fit in a long, which 18 digits do.             *)
(***************************************************************************)
EXTENDS Bytes, SequencesExt

DIG_PER_DEC1 == 9

\* The bytes so many digits take; the precision and scale give the two parts.
DecimalPart(digits) ==
  (<<0, 1, 1, 2, 2, 3, 3, 4, 4, 4>>)[(digits % DIG_PER_DEC1) + 1]
    + 4 * (digits \div DIG_PER_DEC1)

DecimalBytes(meta) == DecimalPart(meta[1] - meta[2]) + DecimalPart(meta[2])

\* Up to four bytes, filled into the top of an int.
TopOfInt(b) == Swapped4([i \in 1 .. 4 |-> IF i <= Len(b) THEN b[i] ELSE 0])

\* Mutant: a short group is left in the top of the int.
BigEndianNumberNotShifted(b) == TopOfInt(b)

\* The int is then shifted down, with its sign.  No bytes at all make a shift
\* by 32 of 0, which is 0 all the same.
BigEndianNumber(b) ==
  TopOfInt(b) \div (<<1, 16777216, 65536, 256, 1>>)[Len(b) + 1]

\* tmp ^ mask, where mask is -1 for a negative number and else 0.
Unmasked(n, negative) == IF negative THEN -n - 1 ELSE n

\* Leading coefficients of 0 are no part of a number.
Number(coefficients) ==
  LET first == SelectInSeq(coefficients, LAMBDA c : c # 0)
  IN  IF first = 0 THEN <<>> ELSE SubSeq(coefficients, first, Len(coefficients))

\* decimal_number_part: the short group comes first, and counts even if it is
\* empty, when the mask makes it -1.
DecimalNumberPart(b, negative) ==
  LET comp == Len(b) % 4
      Group(k) == SubSeq(b, comp + 4 * k - 3, comp + 4 * k)
      short == Unmasked(BigEndianNumber(SubSeq(b, 1, comp)), negative)
  IN  Number(<<short>> \o [k \in 1 .. Len(b) \div 4 |->
                             Unmasked(BigEndianNumber(Group(k)), negative)])

\* Mutant: the bit that marks a number as not negative is left in.
SignBitKept(b) == b

\* The first bit, wherever it is, marks a number as not negative.
SignBitFlipped(b) == [b EXCEPT ![1] = (@ + 128) % 256]

\* Digits of a number: zeros counts the turns of while (frac > 0).
DigitsOf(number) ==
  IF number = <<>> \/ number[1] < 0 THEN 0
  ELSE Cardinality({k \in 0 .. 8 : 10 ^ k <= number[1]}) + 9 * (Len(number) - 1)

\* decimal_number; zeros starts as whatever the stack holds.
DecimalNumber(b, precision, scale, garbage) ==
  LET int_l == DecimalPart(precision - scale)
      frac_l == DecimalPart(scale)
      negative == b[1] < 128
      nbuf == SignBitFlipped(SubSeq(b, 1, int_l + frac_l))
      fractional == DecimalNumberPart(SubSeq(nbuf, int_l + 1, int_l + frac_l), negative)
  IN  [negative |-> negative,
       integral |-> DecimalNumberPart(SubSeq(nbuf, 1, int_l), negative),
       fractional |-> fractional,
       zeros |-> (garbage + DigitsOf(fractional)) % 256]
-----------------------------------------------------------------------------
(* How MySQL stores a DECIMAL (external). *)

Full(digits) == [k \in 1 .. digits \div DIG_PER_DEC1 |-> DIG_PER_DEC1]
Short(digits) ==
  IF digits % DIG_PER_DEC1 = 0 THEN <<>> ELSE <<digits % DIG_PER_DEC1>>

\* The digits of each group: the short one is the first of the integral part
\* and the last of the fraction.
IntegralGroups(digits) == Short(digits) \o Full(digits)
FractionGroups(digits) == Full(digits) \o Short(digits)

Largest(digits) ==
  (<<9, 99, 999, 9999, 99999, 999999, 9999999, 99999999, 999999999>>)[digits]

\* The coefficients, one for each group.
Coefficients(groups) ==
  {c \in Seq(Nat) : Len(c) = Len(groups)
                      /\ \A k \in DOMAIN groups : c[k] <= Largest(groups[k])}

DecimalValues(precision, scale) ==
  [negative : BOOLEAN,
   integral : Coefficients(IntegralGroups(precision - scale)),
   fraction : Coefficients(FractionGroups(scale))]

StoredGroups(coefficients, groups) ==
  FlattenSeq([k \in DOMAIN groups |-> BigEndian(coefficients[k], DecimalPart(groups[k]))])

StoredDecimal(value, precision, scale) ==
  LET plain == StoredGroups(value.integral, IntegralGroups(precision - scale))
                 \o StoredGroups(value.fraction, FractionGroups(scale))
      marked == SignBitFlipped(plain)
  IN  IF value.negative THEN [i \in DOMAIN marked |-> 255 - marked[i]] ELSE marked
=============================================================================
