----------------------------- MODULE MCNumbers ------------------------------
(***************************************************************************)
(* The arithmetic of BigInt and Numbers against the integers.  A state is  *)
(* one question: two big integers, a numeral, or a call of a builtin.      *)
(***************************************************************************)
EXTENDS Numbers, TLC

CONSTANTS
    EdgeDigits,   \* the digits the big integers are made of
    Literals      \* the integers the builtins are called with

VARIABLE input

\* Integers around the bounds of one digit, of a fixed integer and beyond.
EdgeIntegers ==
    {0, 1, -1, 2, 63, -64, 4095, -4095, -4096, 4096, -4097, 4099, -5000, 8191, -8192}

None == [what |-> "none"]
Init == input = None

\* The normalized numbers of at most n digits, in a buffer without slack.
Bigs(n) ==
    {a \in {[num |-> sign * Len(ds), digits |-> ds, const_size |-> FALSE,
             failed |-> FALSE] : sign \in {-1, 1}, ds \in UNION {[1 .. k -> EdgeDigits] : k \in 0 .. n}} :
        Normalized(a)}

PickBigs ==
    /\ input = None
    /\ \E a \in Bigs(3), b \in Bigs(3) : input' = [what |-> "bigs", a |-> a, b |-> b]

PickNumeral ==
    /\ input = None
    /\ \E neg \in BOOLEAN, base \in {8, 10, 16}, n \in 1 .. 7 :
       \E first \in 1 .. base - 1, rest \in {0, 1, base - 1} :
       \E last \in 0 .. base - 1 :
          /\ base ^ n < Base ^ 5
          /\ input' = [what |-> "numeral", neg |-> neg, base |-> base,
                       ds |-> [i \in 1 .. n |-> IF i = 1 THEN first
                                                ELSE IF i = n THEN last ELSE rest]]

\* What a call multiplies stays within what TLC can compute: all arguments of *,
\* those behind the first of // and /.
Fits(op, args) ==
    LET from == IF op = "*" THEN 1 ELSE 2
        len[i \in from - 1 .. Len(args)] ==
            IF i < from THEN 0 ELSE len[i - 1] + Len(DigitsOf(AbsOf(args[i])))
    IN  len[Len(args)] <= 5

Calls ==
  LET all ==
    UNION {[what : {"call"}, args : [1 .. n -> Literals],
            op : CASE n = 1 -> {"+", "-", "*", "/", "1+", "-1+"}
                   [] n = 2 -> {"+", "-", "*", "//", "/", "%"}
                   [] OTHER -> {"+", "-", "*", "//", "/"}] : n \in 1 .. 3}
  IN  {c \in all : c.op \in {"*", "//", "/"} => Fits(c.op, c.args)}

PickCall ==
    /\ input = None
    /\ input' \in Calls

Next == PickBigs \/ PickNumeral \/ PickCall
Spec == Init /\ [][Next]_input

-----------------------------------------------------------------------------
(* What the operations should compute. *)

Is(a, n) == Value(a) = n /\ Normalized(a) /\ ~a.failed

\* The in-place operations of bigint.c compute the sum, difference, product,
\* quotient, remainder and order of the integers the digits stand for, and the
\* assertions of the division hold; subtractions that keep top digits aside.
BigIntExact ==
    input.what = "bigs" =>
        LET a == input.a
            b == input.b
            x == Value(a)
            y == Value(b)
        IN  /\ KeepsOnAdd(a, b) \/ Is(fklAddBigInt(a, b), x + y)
            /\ KeepsOnSub(a, b) \/ Is(fklSubBigInt(a, b), x - y)
            /\ Size(a) + Size(b) <= 5 => Is(fklMulBigInt(a, b), x * y)
            /\ y # 0 => Is(fklDivBigInt(a, b), CDiv(x, y)) /\ Is(fklRemBigInt(a, b), CMod(x, y))
            /\ fklBigIntCmp(a, b) = (IF x < y THEN -1 ELSE IF x > y THEN 1 ELSE 0)

\* The integer a numeral stands for.
NumeralValue(base, neg, ds) ==
    LET upTo[i \in 0 .. Len(ds)] == IF i = 0 THEN 0 ELSE upTo[i - 1] * base + ds[i]
    IN  IF neg THEN -upTo[Len(ds)] ELSE upTo[Len(ds)]

\* An octal numeral whose groups are all full: the empty group before them is
\* stored as well and pushes the last one out of the buffer (README, section 6).
OnlyFullGroups(base, ds) == base = 8 /\ Len(ds) % (SHIFT \div 3) = 0

ReadNumeral(base, neg, ds) ==
    CASE base = 8 -> fklInitBigIntWithOctCharBuf(neg, ds)
      [] base = 10 -> fklInitBigIntWithDecCharBuf(neg, ds)
      [] base = 16 -> fklInitBigIntWithHexCharBuf(neg, ds)

\* A numeral is read as the number it stands for, whatever its base, and that
\* number is written as the same numeral, within the room that was computed for
\* it beforehand; octal numerals of full groups aside.
NumeralsExact ==
    (input.what = "numeral" /\ ~OnlyFullGroups(input.base, input.ds)) =>
        LET a == ReadNumeral(input.base, input.neg, input.ds)
            bits == IF input.base = 8 THEN 3 ELSE 4
        IN  /\ Is(a, NumeralValue(input.base, input.neg, input.ds))
            /\ IF input.base = 10
               THEN /\ bigint_to_dec_string_buffer(a) = input.ds
                    /\ Len(DecimalGroups(a)) <= GroupsAllocated(a)
               ELSE /\ bigint_to_bin_string_buffer(a, bits) = input.ds
                    /\ BinLength(a, bits) = Len(input.ds)

-----------------------------------------------------------------------------

\* The sum, the product of the integers args[i] ..
Total(args, i) ==
    LET upTo[k \in i - 1 .. Len(args)] == IF k < i THEN 0 ELSE upTo[k - 1] + args[k]
    IN  upTo[Len(args)]
Multiplied(args, i) ==
    LET upTo[k \in i - 1 .. Len(args)] == IF k < i THEN 1 ELSE upTo[k - 1] * args[k]
    IN  upTo[Len(args)]

\* What a division divides, and by what: / of one argument is its reciprocal.
Dividend(args) == IF Len(args) = 1 THEN 1 ELSE args[1]
Divisor(args) == IF Len(args) = 1 THEN args[1] ELSE Multiplied(args, 2)

\* The integer a call should return.
Exact(op, args) ==
    CASE op = "+" -> Total(args, 1)
      [] op = "-" -> IF Len(args) = 1 THEN -args[1] ELSE args[1] - Total(args, 2)
      [] op = "*" -> Multiplied(args, 1)
      [] op \in {"//", "/"} -> CDiv(Dividend(args), Divisor(args))
      [] op = "%" -> CMod(args[1], args[2])
      [] op = "1+" -> args[1] + 1
      [] op = "-1+" -> args[1] - 1

Values(args) == [i \in DOMAIN args |-> OfInteger(args[i])]
IsDivision(op) == op \in {"//", "/", "%"}
ExceedsBuffer(v) == v.tag = "big" /\ v.bi.failed
Returns(v, n) ==
    /\ v.tag = OfInteger(n).tag
    /\ IntegerOf(v) = n
    /\ v.tag = "big" => Normalized(v.bi)
    /\ ~ExceedsBuffer(v)

(* What the code gets wrong (README, section 6). *)

\* FIX_INT_MIN is added to a sum of FIX_INT_MIN: that wraps to zero, which the
\* test for overflow does not take for a change of sign.
AddsTwoMinima(op, args) ==
    LET from == IF op = "+" THEN 1 ELSE 2
    IN  /\ op \in {"+", "-"}
        /\ \E k \in from .. Len(args) :
              /\ args[k] = FIX_INT_MIN
              /\ SumFrom(Values(SubSeq(args, 1, k - 1)), from).r64 = FIX_INT_MIN
\* The negative of FIX_INT_MIN is no fixed integer.
NegatesMinimum(op, args) ==
    \/ op = "-" /\ Len(args) > 1 /\ args[1] = 0 /\ Total(args, 2) = FIX_INT_MIN
    \/ op \in {"//", "/"} /\ args[1] = FIX_INT_MIN /\ Multiplied(args, 2) = -1
\* A product too large for int64_t happens to wrap to FIX_INT_MIN.
WrapsToMinimum(op, args) ==
    LET from == IF op = "*" THEN 1 ELSE 2
    IN  /\ op \in {"*", "//", "/"}
        /\ \E k \in from .. Len(args) :
              LET n == ProductFrom(Values(SubSeq(args, 1, k - 1)), from).r64 * args[k]
              IN  n # FIX_INT_MIN /\ I64(n) = FIX_INT_MIN
\* One of the additions and subtractions of a call keeps top digits: acc(k) is
\* what the code gathered from its first k arguments.
KeepsAtEnd(op, prev, bi, r64) ==
    IF op = "+" THEN KeepsOnAdd(bi, r64)
    ELSE KeepsOnSub(bi, prev) \/ KeepsOnSub(Negated(fklSubBigInt(bi, prev)), r64)
KeepsInCall(op, args) ==
    LET vs == Values(args)
        from == IF op = "+" THEN 1 ELSE 2
        acc(k) == SumFrom(SubSeq(vs, 1, k), from)
    IN  /\ op \in {"+", "-"}
        /\ \/ \E k \in from .. Len(vs) : KeepsOnAdd(acc(k - 1).bi, ToBigInt(vs[k]))
           \/ KeepsAtEnd(op, ToBigInt(vs[1]), acc(Len(vs)).bi, OfI64(acc(Len(vs)).r64))
\* A divisor that is a big integer is not asked whether it divides a fixed one.
BigDivisor(op, args) ==
    op = "/" /\ args[1] \in FIX_INT_MIN .. FIX_INT_MAX /\ HasBig(ProductFrom(Values(args), 2))
\* A big dividend is divided by the big and by the small part of the divisor in
\* turn to see whether they leave a remainder, and never by their product.
DividesApart(op, args) ==
    LET acc == ProductFrom(Values(args), 2)
        x == args[1]
    IN  /\ op = "/" /\ x \notin FIX_INT_MIN .. FIX_INT_MAX
        /\ HasBig(acc) /\ ~IsZero(acc)
        /\ CMod(x, Value(acc.bi)) = 0 /\ CMod(x, acc.r64) = 0
        /\ CMod(x, Multiplied(args, 2)) # 0
\* 1+ of a big integer needs a digit its buffer does not have, unless it becomes
\* a fixed integer.
StepsBigInt(op, args) ==
    LET k == IF op = "1+" THEN 1 ELSE -1
    IN  /\ op \in {"1+", "-1+"} /\ args[1] \notin FIX_INT_MIN .. FIX_INT_MAX
        /\ args[1] + k \notin FIX_INT_MIN .. FIX_INT_MAX

Excepted(op, args) ==
    \/ AddsTwoMinima(op, args)
    \/ NegatesMinimum(op, args)
    \/ WrapsToMinimum(op, args)
    \/ KeepsInCall(op, args)
    \/ BigDivisor(op, args)
    \/ DividesApart(op, args)
    \/ StepsBigInt(op, args)

\* What the code returns for each call, and the calls it is known to get wrong.
Returned == [c \in Calls |-> Call(c.op, Values(c.args))]
Known == {c \in Calls : Excepted(c.op, c.args)}

\* v is what the call c should return.
IsAnswer(v, c) ==
    LET divisor == Divisor(c.args)
    IN  CASE IsDivision(c.op) /\ divisor = 0 -> v = DIVZEROERROR
          [] c.op = "/" /\ divisor # 0 /\ CMod(Dividend(c.args), divisor) # 0 -> v = F64
          [] OTHER -> Returns(v, Exact(c.op, c.args))

\* The builtins compute exactly, however the intermediate results move between
\* fixed and big integers; what they return is a fixed integer if and only if it
\* fits into one; a division that leaves a remainder is a floating point number
\* and one by zero an error.
NumbersExact ==
    (input.what = "call" /\ input \notin Known) => IsAnswer(Returned[input], input)

=============================================================================
