------------------------------ MODULE Numbers -------------------------------
(***************************************************************************)
(* The integer arithmetic of the virtual machine.  A value is an immediate *)
(* integer of 61 bits or a big integer that does not fit into one.  The    *)
(* builtins gather their arguments in a machine integer r64 and, for what  *)
(* does not fit, in a big integer bi; the result combines the two.         *)
(* Floating point numbers are left out.                                    *)
(***************************************************************************)
EXTENDS BigInt

FIX_INT_MAX == Base * Base - 1
FIX_INT_MIN == -(Base * Base)

\* FKL_MAKE_VM_FIX shifts the tag in: the bits above are lost.
MAKE_VM_FIX(i) == [tag |-> "fix", i |-> Wrapped(i, Base * Base)]
\* fklCreateVMvalueBigInt2
VMbigInt(a) == [tag |-> "big",
                bi |-> [a EXCEPT !.digits = SubSeq(@, 1, Size(a)), !.const_size = TRUE]]
F64 == [tag |-> "f64"]
DIVZEROERROR == [tag |-> "error"]

\* The value a number literal or a result has.
OfInteger(n) ==
    IF n \in FIX_INT_MIN .. FIX_INT_MAX THEN MAKE_VM_FIX(n) ELSE VMbigInt(OfI64(n))
IntegerOf(v) == IF v.tag = "fix" THEN v.i ELSE Value(v.bi)

\* How every operation ends that computed a big integer.
Result(a) == IF IsBigIntGtLtFix(a) THEN VMbigInt(a) ELSE MAKE_VM_FIX(fklBigIntToI(a))

ToBigInt(v) == IF v.tag = "fix" THEN OfI64(v.i) ELSE v.bi

\* The division of C.
CDiv(a, b) ==
    LET q == AbsOf(a) \div AbsOf(b) IN IF (a < 0) = (b < 0) THEN q ELSE -q
CMod(a, b) == a - b * CDiv(a, b)

I64(n) == Wrapped(n, -I64Min)

\* Mutant: the sum is not cut to the width of a fixed integer.
Bug_NoCut(a, b) ==
    LET sum == a + b
    IN  (a < 0 /\ b < 0 /\ sum > 0) \/ (a > 0 /\ b > 0 /\ sum < 0)

fklIsFixAddOverflow(a, b) ==
    LET sum == Wrapped(a + b, Base * Base)
    IN  (a < 0 /\ b < 0 /\ sum > 0) \/ (a > 0 /\ b > 0 /\ sum < 0)

fklIsFixMulOverflow(a, b) ==
    CASE a = 0 \/ b = 0 -> FALSE
      [] a > 0 /\ b > 0 -> CDiv(FIX_INT_MAX, a) < b
      [] a < 0 /\ b < 0 -> CDiv(FIX_INT_MAX, a) > b
      [] OTHER -> /\ I64(a * b) # FIX_INT_MIN
                  /\ a # CDiv(Wrapped(a * b, Base * Base), b)

-----------------------------------------------------------------------------

\* What is gathered of the arguments i .. of a call, after each of them.
Gatherings(args, i, acc0, Process(_, _)) ==
    LET acc[k \in i - 1 .. Len(args)] ==
            IF k < i THEN acc0 ELSE Process(acc[k - 1], args[k])
    IN  acc

fklProcessVMnumAdd(acc, v) ==
    CASE v.tag = "big" -> [acc EXCEPT !.bi = fklAddBigInt(@, v.bi)]
      [] v.tag = "fix" /\ fklIsFixAddOverflow(acc.r64, v.i) ->
            [acc EXCEPT !.bi = fklAddBigInt(@, OfI64(v.i))]
      [] OTHER -> [acc EXCEPT !.r64 = I64(@ + v.i)]

\* INIT_DEFAULT_BIGINT_1
OneIfDefault(bi) == IF bi.digits = <<>> THEN [OfI64(1) EXCEPT !.const_size = FALSE] ELSE bi

fklProcessVMnumMul(acc, v) ==
    CASE v.tag = "big" -> [acc EXCEPT !.bi = fklMulBigInt(OneIfDefault(@), v.bi)]
      [] v.tag = "fix" /\ fklIsFixMulOverflow(acc.r64, v.i) ->
            [acc EXCEPT !.bi = fklMulBigInt(OneIfDefault(@), OfI64(v.i))]
      [] OTHER -> [acc EXCEPT !.r64 = I64(@ * v.i)]

Sums(args, i) == Gatherings(args, i, [r64 |-> 0, bi |-> BIGINT_0], fklProcessVMnumAdd)
Products(args, i) == Gatherings(args, i, [r64 |-> 1, bi |-> BIGINT_0], fklProcessVMnumMul)
SumFrom(args, i) == Sums(args, i)[Len(args)]
ProductFrom(args, i) == Products(args, i)[Len(args)]

fklProcessVMnumAddResult(acc) ==
    IF acc.bi.num = 0 THEN MAKE_VM_FIX(acc.r64)
    ELSE Result(fklAddBigInt(acc.bi, OfI64(acc.r64)))

builtin_add(args) == fklProcessVMnumAddResult(SumFrom(args, 1))

fklProcessVMnumSubResult(prev, acc) ==
    IF prev.tag = "big" \/ acc.bi.num # 0
    THEN Result(fklSubBigInt(Negated(fklSubBigInt(acc.bi, ToBigInt(prev))),
                             OfI64(acc.r64)))
    ELSE IF fklIsFixAddOverflow(prev.i, -acc.r64)
         THEN VMbigInt(fklSubBigInt(fklAddBigInt(acc.bi, OfI64(prev.i)), OfI64(acc.r64)))
         ELSE MAKE_VM_FIX(prev.i - acc.r64)

fklProcessVMnumNeg(prev) ==
    IF prev.tag = "fix"
    THEN IF -prev.i > FIX_INT_MAX THEN VMbigInt(OfI64(-prev.i)) ELSE MAKE_VM_FIX(-prev.i)
    ELSE Result(Negated(prev.bi))

builtin_sub(args) ==
    IF Len(args) = 1
    THEN fklProcessVMnumNeg(args[1])
    ELSE fklProcessVMnumSubResult(args[1], SumFrom(args, 2))

fklProcessVMnumMulResult(acc) ==
    IF acc.bi.digits = <<>> \/ IsOne(acc.bi) THEN MAKE_VM_FIX(acc.r64)
    ELSE Result(fklMulBigInt(acc.bi, OfI64(acc.r64)))

builtin_mul(args) == fklProcessVMnumMulResult(ProductFrom(args, 1))

\* The divisors are gathered like factors; is their product zero?
IsZero(acc) == acc.r64 = 0 \/ (acc.bi.num = 0 /\ acc.bi.digits # <<>>)
HasBig(acc) == acc.bi.digits # <<>> /\ ~IsOne(acc.bi)

\* prev divided by bi and then by r64, as big integers.
Divided(prev, acc) ==
    LET t == fklSetBigInt(BIGINT_0, ToBigInt(prev))
        byBig == IF acc.bi.digits = <<>> THEN t ELSE fklDivBigInt(t, acc.bi)
    IN  Result(fklDivBigInt(byBig, OfI64(acc.r64)))

fklProcessVMnumIdivResult(prev, acc) ==
    IF prev.tag = "big" \/ HasBig(acc)
    THEN Divided(prev, acc)
    ELSE MAKE_VM_FIX(CDiv(prev.i, acc.r64))

Quotient(prev, acc) ==
    IF IsZero(acc) THEN DIVZEROERROR ELSE fklProcessVMnumIdivResult(prev, acc)
builtin_idiv(args) == Quotient(args[1], ProductFrom(args, 2))

\* fklIsDivisibleBigInt works on a copy.
Divisible(a, b) == fklRemBigInt(fklSetBigInt(BIGINT_0, a), b).num = 0

fklProcessVMnumDivResult(prev, acc) ==
    CASE prev.tag = "fix" /\ ~HasBig(acc) /\ CMod(prev.i, acc.r64) # 0 -> F64
      [] prev.tag = "big" /\ \/ HasBig(acc) /\ ~Divisible(prev.bi, acc.bi)
                             \/ ~Divisible(prev.bi, OfI64(acc.r64)) -> F64
      [] OTHER -> fklProcessVMnumIdivResult(prev, acc)

Ratio(prev, acc) ==
    IF IsZero(acc) THEN DIVZEROERROR ELSE fklProcessVMnumDivResult(prev, acc)

\* With one argument / takes the reciprocal, which is exact for 1 and -1.
fklProcessVMnumRec(prev) ==
    CASE IntegerOf(prev) = 0 -> DIVZEROERROR
      [] IntegerOf(prev) \in {1, -1} -> MAKE_VM_FIX(IntegerOf(prev))
      [] OTHER -> F64

builtin_div(args) ==
    IF Len(args) = 1 THEN fklProcessVMnumRec(args[1]) ELSE Ratio(args[1], ProductFrom(args, 2))

builtin_mod(args) ==
    IF IntegerOf(args[2]) = 0 THEN DIVZEROERROR
    ELSE IF args[1].tag = "fix" /\ args[2].tag = "fix"
    THEN MAKE_VM_FIX(CMod(args[1].i, args[2].i))
    ELSE Result(fklRemBigInt(fklSetBigInt(BIGINT_0, ToBigInt(args[1])), ToBigInt(args[2])))

-----------------------------------------------------------------------------
(* 1+ and -1+. *)

fklIsBigIntAddkInFixIntRange(a, k) ==
    IF k = 1 THEN Value(a) = FIX_INT_MIN - 1 ELSE Value(a) = FIX_INT_MAX + 1

\* fklVMbigIntAddI: the copy has as many digits as a, whatever size is asked for.
fklVMbigIntAddI(a, k) == VMbigInt(fklAddBigInt(a, OfI64(k)))

fklProcessVMnumAddk(v, k) ==
    CASE v.tag = "fix" /\ v.i + k \in FIX_INT_MIN .. FIX_INT_MAX -> MAKE_VM_FIX(v.i + k)
      [] v.tag = "fix" /\ v.i + k \notin FIX_INT_MIN .. FIX_INT_MAX -> VMbigInt(OfI64(v.i + k))
      [] v.tag = "big" /\ fklIsBigIntAddkInFixIntRange(v.bi, k) ->
            MAKE_VM_FIX(fklBigIntToI(v.bi) + k)
      [] OTHER -> fklVMbigIntAddI(v.bi, k)

\* A call of one of the builtins.
Call(op, args) ==
    CASE op = "+" -> builtin_add(args)
      [] op = "-" -> builtin_sub(args)
      [] op = "*" -> builtin_mul(args)
      [] op = "//" -> builtin_idiv(args)
      [] op = "/" -> builtin_div(args)
      [] op = "%" -> builtin_mod(args)
      [] op = "1+" -> fklProcessVMnumAddk(args[1], 1)
      [] op = "-1+" -> fklProcessVMnumAddk(args[1], -1)
=============================================================================
