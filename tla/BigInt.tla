------------------------------- MODULE BigInt -------------------------------
(***************************************************************************)
(* The big integers of bigint.c: a sign and magnitude in digits of SHIFT   *)
(* bits, least significant first.  The operations work in place on a       *)
(* buffer that may be longer than the number and may be fixed, so that a   *)
(* number here keeps its whole buffer, stale digits included.              *)
(***************************************************************************)
EXTENDS Integers, Sequences

CONSTANTS
    SHIFT,           \* FKL_BIGINT_DIGIT_SHIFT: 30 in the code
    DECIMAL_SHIFT    \* FKL_BIGINT_DECIMAL_SHIFT: 9 in the code

Base == 2 ^ SHIFT
DecimalBase == 10 ^ DECIMAL_SHIFT

\* The algorithms take an octal digit to divide a digit, a hexadecimal one to
\* fit into it, and a group of decimal digits too.
ASSUME ShiftAssumption ==
    /\ SHIFT \in Nat /\ SHIFT % 3 = 0 /\ SHIFT >= 4
    /\ DECIMAL_SHIFT \in Nat \ {0} /\ DecimalBase < Base
\* What follows for a power of two, to which the provers have no rules.
ASSUME BaseAssumption == Base \in Nat /\ Base >= 16
ASSUME PowerAssumption ==
    2 ^ 0 = 1 /\ \A k \in 0 .. SHIFT - 1 : 2 ^ k \in Nat /\ 2 ^ (k + 1) = 2 * 2 ^ k

\* int64_t has 63 = 2 * 30 + 3 bits and a sign, a fixed integer 60 = 2 * 30.
I64Max == 8 * Base * Base - 1
I64Min == -(8 * Base * Base)

AbsOf(n) == IF n < 0 THEN -n ELSE n
MaxOf(m, n) == IF m < n THEN n ELSE m
\* The value of n in a signed word with the values -half .. half - 1.
Wrapped(n, half) == ((n + half) % (2 * half)) - half

\* num: the number of digits, negative for a negative number; digits: the
\* buffer; const_size: it must not be reallocated; failed: it was.
BIGINT_0 == [num |-> 0, digits |-> <<>>, const_size |-> FALSE, failed |-> FALSE]

Size(a) == AbsOf(a.num)
Digit(a, i) == IF i <= Size(a) THEN a.digits[i] ELSE 0
Negated(a) == [a EXCEPT !.num = -@]

\* What the digits i .. n of ds stand for, for each i.
ValueFrom(ds, n) ==
    LET from[i \in 1 .. n + 1] == IF i > n THEN 0 ELSE ds[i] + Base * from[i + 1]
    IN  from

\* The integer a stands for.
AbsValue(a) == ValueFrom(a.digits, Size(a))[1]
Value(a) == IF a.num < 0 THEN -AbsValue(a) ELSE AbsValue(a)

Normalized(a) == a.num # 0 => a.digits[Size(a)] # 0

-----------------------------------------------------------------------------

\* realloc leaves the new digits undefined; here they are all ones.
ensure_bigint_size(a, size) ==
    [a EXCEPT !.digits = @ \o [i \in 1 .. size - Len(@) |-> Base - 1],
              !.failed = @ \/ (a.const_size /\ Len(a.digits) < size)]

Overwrite(a, num, ds) ==
    [a EXCEPT !.num = num,
              !.digits = [i \in DOMAIN @ |-> IF i <= Len(ds) THEN ds[i] ELSE @[i]]]

bigint_normalize(a) ==
    LET used == {i \in 1 .. Size(a) : a.digits[i] # 0}
        n == IF used = {} THEN 0 ELSE CHOOSE i \in used : \A j \in used : j <= i
    IN  [a EXCEPT !.num = IF @ < 0 THEN -n ELSE n]

\* count_digits_size, set_uint64_to_digits
DigitsOf(n) ==
    LET of[m \in 0 .. n] == IF m = 0 THEN <<>> ELSE <<m % Base>> \o of[m \div Base]
    IN  of[n]

fklSetBigIntI(a, v) ==
    LET ds == DigitsOf(AbsOf(v))
    IN  Overwrite(ensure_bigint_size(a, Len(ds)),
                  IF v < 0 THEN -Len(ds) ELSE Len(ds), ds)

\* A number made from a machine integer on the stack.
OfI64(v) == [fklSetBigIntI(BIGINT_0, v) EXCEPT !.const_size = TRUE]

fklSetBigInt(a, b) ==
    Overwrite(ensure_bigint_size(a, Size(b)), b.num, SubSeq(b.digits, 1, Size(b)))

-----------------------------------------------------------------------------
(* Comparison. *)

\* The most significant place below n where the digits differ, 0 if none does.
TopDifference(a, b, n) ==
    LET places == {i \in 1 .. n : a.digits[i] # b.digits[i]}
    IN  IF places = {} THEN 0 ELSE CHOOSE i \in places : \A j \in places : j <= i

x_cmp(a, b) ==
    LET i == TopDifference(a, b, Size(a))
    IN  IF i = 0 THEN 0 ELSE a.digits[i] - b.digits[i]

fklBigIntCmp(a, b) ==
    LET sign == IF a.num # b.num THEN a.num - b.num
                ELSE IF a.num < 0 THEN -x_cmp(a, b) ELSE x_cmp(a, b)
    IN  IF sign < 0 THEN -1 ELSE IF sign > 0 THEN 1 ELSE 0

\* fklIsBigIntGtLtFix
IsBigIntGtLtFix(a) ==
    \/ fklBigIntCmp(a, OfI64(Base * Base - 1)) > 0
    \/ fklBigIntCmp(a, OfI64(-Base * Base)) < 0

fklBigIntToI(a) ==
    CASE a.num < -3 \/ (a.num = -3 /\ fklBigIntCmp(a, OfI64(I64Min)) < 0) -> I64Min
      [] a.num > 3 \/ (a.num = 3 /\ fklBigIntCmp(a, OfI64(I64Max)) > 0) -> I64Max
      [] OTHER -> Value(a)

-----------------------------------------------------------------------------
(* Addition and subtraction. *)

\* The carries out of the first n places of |a| + |b|.
Carries(a, b, n) ==
    LET carry[i \in 0 .. n] ==
            IF i = 0 THEN 0 ELSE (Digit(a, i) + Digit(b, i) + carry[i - 1]) \div Base
    IN  carry

SumDigits(a, b, n) ==
    [i \in 1 .. n + 1 |-> (Digit(a, i) + Digit(b, i) + Carries(a, b, n)[i - 1]) % Base]

x_add(a, b) ==
    LET n == MaxOf(Size(a), Size(b))
    IN  bigint_normalize(Overwrite(ensure_bigint_size(a, n + 1), n + 1, SumDigits(a, b, n)))

\* The borrows of the first n places of |hi| - |lo|.
Borrows(hi, lo, n) ==
    LET borrow[i \in 0 .. n] ==
            IF i > 0 /\ Digit(hi, i) - Digit(lo, i) - borrow[i - 1] < 0 THEN 1 ELSE 0
    IN  borrow

\* The n digits of hi - lo, for magnitudes with hi >= lo.
Difference(hi, lo, n) ==
    [i \in 1 .. n |-> (Digit(hi, i) - Digit(lo, i) - Borrows(hi, lo, n)[i - 1]) % Base]

\* How |a| and |b| compare and how many digits of the buffers can differ.
Order(a, b) ==
    CASE Size(a) < Size(b) -> [sign |-> -1, n |-> Size(b)]
      [] Size(a) > Size(b) -> [sign |-> 1, n |-> Size(a)]
      [] OTHER -> LET i == TopDifference(a, b, Size(a))
                  IN  [sign |-> IF x_cmp(a, b) < 0 THEN -1 ELSE 1, n |-> i]

Subtracted(a, b, order) ==
    IF order.sign < 0 THEN Difference(b, a, order.n) ELSE Difference(a, b, order.n)

SubInto(to, order, num, ds) ==
    IF order.n = 0
    THEN [to EXCEPT !.num = 0]
    ELSE bigint_normalize(Overwrite(to, num, ds))

\* a := |a| - |b| with the sign of a.  When the first digits of the two agree
\* only the others are computed, but a.num is set only if a was the smaller.
x_sub(a, b) ==
    LET order == Order(a, b)
    IN  SubInto(ensure_bigint_size(a, MaxOf(Size(a), Size(b)) + 1), order,
                IF order.sign > 0 THEN a.num
                ELSE IF a.num < 0 THEN order.n ELSE -order.n,
                Subtracted(a, b, order))

\* b := |a| - |b|
x_sub2(a, b) ==
    LET order == Order(a, b)
    IN  SubInto(ensure_bigint_size(b, MaxOf(Size(a), Size(b)) + 1), order,
                order.n * order.sign, Subtracted(a, b, order))

\* A number of one digit at most.
Medium(a) == Size(a) <= 1

fklAddBigInt(a, b) ==
    CASE Medium(a) /\ Medium(b) -> fklSetBigIntI(a, Value(a) + Value(b))
      [] OTHER ->
            IF a.num < 0
            THEN IF b.num < 0 THEN Negated(x_add(a, b)) ELSE x_sub2(b, a)
            ELSE IF b.num < 0 THEN x_sub(a, b) ELSE x_add(a, b)

fklSubBigInt(a, b) ==
    CASE Medium(a) /\ Medium(b) -> fklSetBigIntI(a, Value(a) - Value(b))
      [] OTHER ->
            IF a.num < 0
            THEN IF b.num < 0 THEN x_sub(a, b) ELSE Negated(x_add(a, b))
            ELSE IF b.num < 0 THEN x_add(a, b) ELSE x_sub(a, b)

\* x_sub leaves the first digits of the larger number in place when the two
\* have the same length and agree in them, so that the difference is wrong.
KeepsTopDigits(a, b) ==
    /\ Size(a) = Size(b) /\ ~(Medium(a) /\ Medium(b))
    /\ x_cmp(a, b) > 0
    /\ a.digits[Size(a)] = b.digits[Size(b)]
KeepsOnAdd(a, b) == a.num >= 0 /\ b.num < 0 /\ KeepsTopDigits(a, b)
KeepsOnSub(a, b) == (a.num < 0) = (b.num < 0) /\ KeepsTopDigits(a, b)

-----------------------------------------------------------------------------
(* Multiplication. *)

IsOne(a) == a.num = 1 /\ a.digits[1] = 1
IsMinusOne(a) == a.num = -1 /\ a.digits[1] = 1

\* The carries of result + na * b, shifted by i - 1 digits.
RowCarries(result, na, b, i) ==
    LET carry[j \in 0 .. Size(b)] ==
            IF j = 0 THEN 0
            ELSE (carry[j - 1] + result[i + j - 1] + na * b.digits[j]) \div Base
    IN  carry

AddRow(result, na, b, i) ==
    LET n == Size(b)
        carry == RowCarries(result, na, b, i)
    IN  [k \in DOMAIN result |->
            CASE k \in i .. i + n - 1 ->
                    (carry[k - i] + result[k] + na * b.digits[k - i + 1]) % Base
              [] k = i + n -> result[k] + carry[n]
              [] OTHER -> result[k]]

\* The buffer after each row.
Rows(a, b) ==
    LET rows[i \in 0 .. Size(a)] ==
            IF i = 0 THEN [k \in 1 .. Size(a) + Size(b) |-> 0]
            ELSE AddRow(rows[i - 1], a.digits[i], b, i)
    IN  rows

Product(a, b) ==
    LET total == Size(a) + Size(b)
    IN  bigint_normalize(
            [a EXCEPT !.digits = Rows(a, b)[Size(a)],
                      !.num = IF (a.num < 0) = (b.num < 0) THEN total ELSE -total])

fklMulBigInt(a, b) ==
    CASE a.num = 0 \/ IsOne(b) -> a
      [] a.num # 0 /\ b.num = 0 -> [a EXCEPT !.num = 0]
      [] a.num # 0 /\ IsMinusOne(b) -> Negated(a)
      [] OTHER ->
            IF IsOne(a) THEN fklSetBigInt(a, b)
            ELSE IF IsMinusOne(a) THEN Negated(fklSetBigInt(a, b))
            ELSE Product(a, b)

-----------------------------------------------------------------------------
(* Division: quotient and remainder of magnitudes as sequences of digits,  *)
(* and whether the assertions on the way hold.                             *)

\* What is left of the digits i .. n of pin.
Remainders(pin, n, d) ==
    LET rem[i \in 1 .. n + 1] ==
            IF i > n THEN 0 ELSE (rem[i + 1] * Base + pin[i]) % d
    IN  rem

divrem1(pin, n, d) ==
    [quot |-> [i \in 1 .. n |-> (Remainders(pin, n, d)[i + 1] * Base + pin[i]) \div d],
     rem |-> DigitsOf(Remainders(pin, n, d)[1]),
     ok |-> TRUE]

bit_length_digit(x) == CHOOSE k \in 0 .. SHIFT : x < 2 ^ k /\ (k = 0 \/ x >= 2 ^ (k - 1))

\* The integers e added digit by digit: the carries above the digits 1 .. n,
\* borrows if negative, and the digits.
Carried(e, n) ==
    LET carry[i \in 0 .. n] == IF i = 0 THEN 0 ELSE (e[i] + carry[i - 1]) \div Base
    IN  carry
CarriedDigits(e, n) ==
    LET carry == Carried(e, n)
    IN  [i \in 1 .. n |-> (e[i] + carry[i - 1]) % Base]

\* The n digits of a, shifted to the left by d bits, and the carry above them.
v_lshift(a, n, d) ==
    LET e == [i \in 1 .. n |-> a[i] * 2 ^ d]
        ds == CarriedDigits(e, n)
    IN  [i \in 1 .. n + 1 |-> IF i > n THEN Carried(e, n)[n] ELSE ds[i]]

v_rshift(a, n, d) ==
    LET low(i) == IF i < n THEN a[i + 1] % 2 ^ d ELSE 0
    IN  [i \in 1 .. n |-> (low(i) * Base + a[i]) \div 2 ^ d]

\* Mutant: the estimate is not corrected by the next digit of the divisor.
Bug_EstimateUncorrected(vtop, v1, v2, wm1, wm2) == (vtop * Base + v1) \div wm1

\* The estimate of a digit of the quotient from the two first digits of the
\* divisor, corrected at most until the remainder needs another digit.
Estimate(vtop, v1, v2, wm1, wm2) ==
    LET vv == vtop * Base + v1
        q(i) == (vv \div wm1) - i
        r(i) == (vv % wm1) + i * wm1
        Stops(i) == \/ wm2 * q(i) <= r(i) * Base + v2
                    \/ i > 0 /\ r(i) >= Base
    IN  q(CHOOSE i \in 0 .. Base : Stops(i) /\ \A j \in 0 .. i - 1 : ~Stops(j))

\* The digit at j of the quotient: s.v is what is left of the dividend.  If the
\* estimate was too large the divisor is added back.
DivStep(s, w, n, j) ==
    LET v == s.v
        vtop == v[j + n + 1]
        q == Estimate(vtop, v[j + n], v[j + n - 1], w[n], w[n - 1])
        minus == [i \in 1 .. n |-> v[j + i] - q * w[i]]
        left == CarriedDigits(minus, n)
        top == vtop + Carried(minus, n)[n]
        rest == IF top < 0 THEN CarriedDigits([i \in 1 .. n |-> left[i] + w[i]], n) ELSE left
        digit == IF top < 0 THEN q - 1 ELSE q
    IN  [v |-> [i \in DOMAIN v |-> IF i \in j + 1 .. j + n THEN rest[i - j] ELSE v[i]],
         quot |-> <<digit>> \o s.quot,
         ok |-> /\ s.ok /\ vtop <= w[n] /\ q <= Base
                /\ top \in {-1, 0} /\ digit < Base]

\* What is left of v, and the quotient, after the digits k - 1 .. j.
DivSteps(v, w, n, k) ==
    LET steps[j \in 0 .. k] ==
            IF j = k THEN [v |-> v, quot |-> <<>>, ok |-> w[n + 1] = 0]
            ELSE DivStep(steps[j + 1], w, n, j)
    IN  steps

x_divrem(a, b) ==
    LET n == Size(b)
        d == SHIFT - bit_length_digit(b.digits[n])
        w == v_lshift(b.digits, n, d)
        v == v_lshift(a.digits, Size(a), d)
        more == v[Size(a) + 1] # 0 \/ v[Size(a)] >= w[n]
        k == Size(a) - n + (IF more THEN 1 ELSE 0)
        last == DivSteps(v, w, n, k)[0]
    IN  [quot |-> last.quot, rem |-> v_rshift(last.v, n, d),
         ok |-> last.ok /\ last.v[1] % 2 ^ d = 0]

\* fklDivRemBigInt: the quotient is cut off towards zero, the remainder has the
\* sign of the dividend.  b is not zero.
Magnitudes(a, b) ==
    CASE Size(a) < Size(b) -> [quot |-> <<>>, rem |-> SubSeq(a.digits, 1, Size(a)), ok |-> TRUE]
      [] Size(a) >= Size(b) /\ Size(b) = 1 -> divrem1(a.digits, Size(a), b.digits[1])
      [] OTHER -> x_divrem(a, b)

Signed(a, neg, ds) ==
    bigint_normalize(Overwrite(ensure_bigint_size(a, Len(ds)),
                               IF neg THEN -Len(ds) ELSE Len(ds), ds))

fklDivBigInt(a, b) ==
    LET m == Magnitudes(a, b)
    IN  [Signed(a, (a.num < 0) # (b.num < 0), m.quot) EXCEPT !.failed = @ \/ ~m.ok]

fklRemBigInt(a, b) ==
    LET m == Magnitudes(a, b)
    IN  [Signed(a, a.num < 0, m.rem) EXCEPT !.failed = @ \/ ~m.ok]

-----------------------------------------------------------------------------
(* Reading and writing.  A numeral is its digits, most significant first.  *)

fklInitBigIntWithDecCharBuf(neg, numeral) ==
    LET read[i \in 0 .. Len(numeral)] ==
            IF i = 0 THEN BIGINT_0
            ELSE fklAddBigInt(fklMulBigInt(read[i - 1], OfI64(10)), OfI64(numeral[i]))
    IN  IF neg THEN Negated(read[Len(numeral)]) ELSE read[Len(numeral)]

\* The value of the digits lo .. hi of a numeral in base 2^bits.
Group(numeral, lo, hi, bits) ==
    LET upTo[i \in lo - 1 .. hi] ==
            IF i < lo THEN 0 ELSE upTo[i - 1] * 2 ^ bits + numeral[i]
    IN  upTo[hi]

\* Groups of octal digits that fill a digit each, after a first one that is
\* shorter; they are stored from the top of the buffer downwards.  The first
\* is stored even if it is empty.
fklInitBigIntWithOctCharBuf(neg, numeral) ==
    LET size == SHIFT \div 3
        high == Len(numeral) % size
        count == Len(numeral) \div size
        total == count + (IF high > 0 THEN 1 ELSE 0)
        stored == <<Group(numeral, 1, high, 3)>>
                  \o [i \in 1 .. count |->
                         Group(numeral, high + (i - 1) * size + 1, high + i * size, 3)]
        ds == [k \in 1 .. total |-> stored[total - k + 1]]
    IN  [Signed(BIGINT_0, neg, ds) EXCEPT !.failed = total > 0 /\ Len(stored) > total]

\* Hexadecimal digits from the last to the first, through an accumulator.
fklInitBigIntWithHexCharBuf(neg, numeral) ==
    LET n == Len(numeral)
        count == (n * 4 + SHIFT - 1) \div SHIFT
        Taken(s, d) ==
            LET accum == s.accum + d * 2 ^ s.bits
            IN  IF s.bits + 4 >= SHIFT
                THEN [accum |-> accum \div Base, bits |-> s.bits + 4 - SHIFT,
                      out |-> Append(s.out, accum % Base)]
                ELSE [s EXCEPT !.accum = accum, !.bits = @ + 4]
        read[i \in 0 .. n] ==
            IF i = 0 THEN [accum |-> 0, bits |-> 0, out |-> <<>>]
            ELSE Taken(read[i - 1], numeral[n - i + 1])
        ds == read[n].out \o (IF read[n].bits > 0 THEN <<read[n].accum>> ELSE <<>>)
    IN  [Signed(BIGINT_0, neg, ds \o [i \in 1 .. count - Len(ds) |-> 0])
            EXCEPT !.failed = Len(ds) > count]

\* Mutant: at most one group is added for the carry.
Bug_OneGroupForCarry(pout, hi) ==
    LET n == Len(pout)
        carry[j \in 0 .. n] ==
            IF j = 0 THEN hi ELSE (pout[j] * Base + carry[j - 1]) \div DecimalBase
    IN  [j \in 1 .. n |-> (pout[j] * Base + carry[j - 1]) % DecimalBase]
        \o (IF carry[n] = 0 THEN <<>> ELSE <<carry[n] % DecimalBase>>)

\* bigint_to_dec_string_buffer: first the groups of decimal digits, least
\* significant first, by shifting in one digit of the number after the other.
ShiftIn(pout, hi) ==
    LET n == Len(pout)
        carry[j \in 0 .. n] ==
            IF j = 0 THEN hi ELSE (pout[j] * Base + carry[j - 1]) \div DecimalBase
        rest[c \in 0 .. Base] ==
            IF c = 0 THEN <<>> ELSE <<c % DecimalBase>> \o rest[c \div DecimalBase]
    IN  [j \in 1 .. n |-> (pout[j] * Base + carry[j - 1]) % DecimalBase] \o rest[carry[n]]

DecimalGroups(a) ==
    LET out[i \in 1 .. Size(a) + 1] ==
            IF i > Size(a) THEN <<>> ELSE ShiftIn(out[i + 1], a.digits[i])
    IN  out[1]

\* How many groups the buffer has room for.
GroupsAllocated(a) ==
    LET d == (33 * DECIMAL_SHIFT) \div (10 * SHIFT - 33 * DECIMAL_SHIFT)
    IN  1 + Size(a) + Size(a) \div d

\* The numeral of a number with the given groups; the first has no zeros before it.
WrittenGroups(groups) ==
    LET n == Len(groups)
        top == CHOOSE k \in 1 .. DECIMAL_SHIFT :
                   groups[n] < 10 ^ k /\ (k = 1 \/ groups[n] >= 10 ^ (k - 1))
        total == top + (n - 1) * DECIMAL_SHIFT
    IN  [i \in 1 .. total |->
            LET place == total - i
            IN  (groups[place \div DECIMAL_SHIFT + 1] \div 10 ^ (place % DECIMAL_SHIFT)) % 10]

bigint_to_dec_string_buffer(a) == WrittenGroups(DecimalGroups(a))

\* The digits of a numeral in base 2^bits, least significant first: each digit
\* of the number goes to the accumulator, which is emptied as far as it goes,
\* at the last digit until it is zero.
bigint_to_bin_string_buffer(a, bits) ==
    LET n == Size(a)
        \* how many digits are written when the accumulator holds accum
        Count(i, accum, accumbits) ==
            IF i < n THEN accumbits \div bits
            ELSE CHOOSE k \in 1 .. SHIFT + bits :
                     /\ accum \div 2 ^ (bits * k) = 0
                     /\ k = 1 \/ accum \div 2 ^ (bits * (k - 1)) > 0
        Emptied(s, accum, accumbits, c) ==
            [accum |-> accum \div 2 ^ (bits * c), accumbits |-> accumbits - bits * c,
             out |-> s.out \o [j \in 1 .. c |-> (accum \div 2 ^ (bits * (j - 1))) % 2 ^ bits]]
        Written(s, i, accum, accumbits) ==
            Emptied(s, accum, accumbits, Count(i, accum, accumbits))
        after[i \in 0 .. n] ==
            IF i = 0 THEN [accum |-> 0, accumbits |-> 0, out |-> <<>>]
            ELSE Written(after[i - 1], i,
                         after[i - 1].accum + a.digits[i] * 2 ^ after[i - 1].accumbits,
                         after[i - 1].accumbits + SHIFT)
    IN  [i \in 1 .. Len(after[n].out) |-> after[n].out[Len(after[n].out) - i + 1]]

\* The length of that numeral as it is computed beforehand.
BinLength(a, bits) ==
    ((Size(a) - 1) * SHIFT + bit_length_digit(a.digits[Size(a)]) + bits - 1) \div bits
=============================================================================
