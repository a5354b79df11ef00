---------------------------- MODULE NumbersProofs ----------------------------
(***************************************************************************)
(* Proofs about BigInt and Numbers for every width of a digit and every    *)
(* length of a number: the operations of bigint.c compute the sum, the     *)
(* difference, the product, the quotient, the remainder and the order of   *)
(* the integers the digits stand for; the builtins + - * // / % 1+ -1+     *)
(* compute theirs, of any number of arguments.  What they get wrong is     *)
(* named in the hypotheses (KeepsOnAdd, AddGoesWrong, MulGoesWrong ...)    *)
(* and in the statement of DivCallExact (Overlooked).                      *)
(*                                                                         *)
(* What a recursive function computes is shown by induction over sets: the *)
(* library's induction theorems take a predicate as a parameter; here the  *)
(* predicate is the set of the numbers that satisfy it.                    *)
(***************************************************************************)
EXTENDS Numbers, TLAPS, WellFoundedInduction

-----------------------------------------------------------------------------
(* Fixed integers. *)

FixInts == FIX_INT_MIN .. FIX_INT_MAX

\* The number of nonnegative fixed integers.
LEMMA HalfFacts == Base * Base \in Nat /\ Base * Base >= 16 * Base /\ Base * Base >= 256
<1>1. \A x \in Nat : x >= 16 => x * x >= 16 * x /\ x * x \in Nat
  OBVIOUS
<1> QED
  BY <1>1, BaseAssumption

\* A remainder is in its range and differs by a multiple.
LEMMA DivModFacts ==
  ASSUME NEW x \in Int, NEW d \in Nat, d > 0
  PROVE  /\ x \div d \in Int /\ x % d \in Nat /\ x % d < d
         /\ x = d * (x \div d) + (x % d)
OBVIOUS

\* What a word keeps of a sum of two of its values.
LEMMA WrappedSum ==
  ASSUME NEW h \in Nat, h > 0, NEW n \in -(2 * h) .. 2 * h - 1
  PROVE  Wrapped(n, h) = IF n < -h THEN n + 2 * h ELSE IF n >= h THEN n - 2 * h ELSE n
<1>1. n + h \in -h .. 3 * h - 1
  OBVIOUS
<1>2. (n + h) % (2 * h) = IF n + h < 0 THEN n + h + 2 * h
                          ELSE IF n + h >= 2 * h THEN n + h - 2 * h ELSE n + h
  <2> DEFINE m == 2 * h
             x == n + h
  <2>1. m \in Nat /\ m > 0 /\ x \in -m .. 2 * m - 1
    BY <1>1
  <2> HIDE DEF m, x
  <2>2. x % m = IF x < 0 THEN x + m ELSE IF x >= m THEN x - m ELSE x
    BY <2>1
  <2> QED
    BY <2>2 DEF m, x
<1> QED
  BY <1>1, <1>2 DEF Wrapped

\* The test for overflow of the builtin + (fklIsFixAddOverflow) is exact, but
\* for the sum of the two least fixed integers, which it does not notice.
THEOREM FixAddOverflow ==
  ASSUME NEW a \in FixInts, NEW b \in FixInts
  PROVE  fklIsFixAddOverflow(a, b) <=>
            a + b \notin FixInts /\ ~(a = FIX_INT_MIN /\ b = FIX_INT_MIN)
<1>1. PICK h \in Nat : h = Base * Base /\ h > 0
  BY HalfFacts
<1>2. a \in -h .. h - 1 /\ b \in -h .. h - 1
  BY <1>1 DEF FixInts, FIX_INT_MIN, FIX_INT_MAX
<1>3. PICK s \in -(2 * h) .. 2 * h - 1 : s = a + b
  BY <1>2
<1>4. Wrapped(s, h) = IF s < -h THEN s + 2 * h ELSE IF s >= h THEN s - 2 * h ELSE s
  BY <1>1, WrappedSum
<1> QED
  BY <1>1, <1>2, <1>3, <1>4 DEF fklIsFixAddOverflow, FixInts, FIX_INT_MIN, FIX_INT_MAX

\* Dividing a bound by one factor tells whether the product exceeds it.
LEMMA ProductBound ==
  ASSUME NEW m \in Nat, NEW x \in Nat, x > 0, NEW y \in Nat
  PROVE  (m \div x) < y <=> x * y > m
<1>1. PICK q \in Int, r \in Nat : q = m \div x /\ r < x /\ m = x * q + r
  BY DivModFacts
<1>2. CASE q < y
  <2>1. y - q - 1 \in Nat /\ x * y = x * q + x + x * (y - q - 1)
    BY <1>2
  <2>2. x * (y - q - 1) >= 0
    BY <2>1
  <2>3. x * y > m
    <3> DEFINE u == x * y
               v == x * q
               w == x * (y - q - 1)
    <3>1. u \in Int /\ v \in Int /\ w \in Int /\ u = v + x + w /\ w >= 0 /\ m = v + r /\ r < x
      BY <1>1, <2>1, <2>2
    <3> HIDE DEF u, v, w
    <3>2. u > m
      BY <3>1
    <3> QED
      BY <3>2 DEF u
  <2> QED
    BY <1>1, <1>2, <2>3
<1>3. CASE ~(q < y)
  <2>1. q - y \in Nat /\ x * q = x * y + x * (q - y)
    BY <1>3
  <2>2. x * (q - y) >= 0
    BY <2>1
  <2>3. x * y <= m
    <3> DEFINE u == x * y
               v == x * q
               w == x * (q - y)
    <3>1. u \in Int /\ v \in Int /\ w \in Int /\ v = u + w /\ w >= 0 /\ m = v + r
      BY <1>1, <2>1, <2>2
    <3> HIDE DEF u, v, w
    <3>2. u <= m
      BY <3>1
    <3> QED
      BY <3>2 DEF u
  <2> QED
    BY <1>1, <1>3, <2>3
<1> QED
  BY <1>2, <1>3

\* A product divided by a factor.
LEMMA ExactQuotient ==
  ASSUME NEW x \in Nat, NEW y \in Nat, y > 0
  PROVE  (x * y) \div y = x
<1>1. x * y \in Int /\ x * y = y * x + 0
  OBVIOUS
<1> QED
  BY <1>1

\* A word keeps its values, and what it makes of others is one of them.
LEMMA WrappedFacts ==
  ASSUME NEW h \in Nat, h > 0, NEW n \in Int
  PROVE  Wrapped(n, h) \in -h .. h - 1 /\ (n \in -h .. h - 1 => Wrapped(n, h) = n)
<1>1. Wrapped(n, h) \in -h .. h - 1
  <2>1. n + h \in Int /\ 2 * h \in Nat /\ 2 * h > 0
    OBVIOUS
  <2>2. (n + h) % (2 * h) \in Nat /\ (n + h) % (2 * h) < 2 * h
    BY <2>1, DivModFacts
  <2> QED
    BY <2>2 DEF Wrapped
<1>2. ASSUME n \in -h .. h - 1 PROVE Wrapped(n, h) = n
  BY <1>2, WrappedSum
<1> QED
  BY <1>1, <1>2

\* The test for overflow of the builtin * (fklIsFixMulOverflow) is exact, but
\* for products that are too small and that a 64-bit word makes the least fixed
\* integer of, which it does not notice.
THEOREM FixMulOverflow ==
  ASSUME NEW a \in FixInts, NEW b \in FixInts
  PROVE  fklIsFixMulOverflow(a, b) <=>
            a * b \notin FixInts /\ ~(a * b < 0 /\ I64(a * b) = FIX_INT_MIN)
<1>1. PICK h \in Nat : h = Base * Base /\ h > 0
  BY HalfFacts
<1>2. a \in -h .. h - 1 /\ b \in -h .. h - 1 /\ FixInts = -h .. h - 1 /\ FIX_INT_MIN = -h
  BY <1>1 DEF FixInts, FIX_INT_MIN, FIX_INT_MAX
<1>3. PICK p \in Int : p = a * b
  BY <1>2
<1>4. CASE a = 0 \/ b = 0
  BY <1>1, <1>2, <1>4 DEF fklIsFixMulOverflow
<1>5. CASE a > 0 /\ b > 0
  <2>1. h - 1 \in Nat /\ a \in Nat /\ b \in Nat /\ FIX_INT_MAX = h - 1
    BY <1>1, <1>2, <1>5 DEF FIX_INT_MAX
  <2>2. ((h - 1) \div a) < b <=> p > h - 1
    BY <1>3, <1>5, <2>1, ProductBound
  <2>3. p > 0
    BY <1>3, <1>5, <2>1
  <2>4. CDiv(FIX_INT_MAX, a) = (h - 1) \div a
    BY <1>5, <2>1 DEF CDiv, AbsOf
  <2>5. fklIsFixMulOverflow(a, b) <=> CDiv(FIX_INT_MAX, a) < b
    BY <1>5, <2>1 DEF fklIsFixMulOverflow
  <2> QED
    BY <1>2, <1>3, <2>2, <2>3, <2>4, <2>5
<1>6. CASE a < 0 /\ b < 0
  <2>1. h - 1 \in Nat /\ -a \in Nat /\ -b \in Nat /\ -a > 0 /\ FIX_INT_MAX = h - 1
    BY <1>1, <1>2, <1>6 DEF FIX_INT_MAX
  <2>2. (-a) * (-b) = p
    BY <1>3, <1>2
  <2>3. ((h - 1) \div (-a)) < -b <=> p > h - 1
    BY <2>1, <2>2, ProductBound
  <2>4. p > 0
    <3>1. \A u, v \in Nat : u > 0 /\ v > 0 => u * v > 0
      OBVIOUS
    <3>2. -b > 0
      BY <1>2, <1>6
    <3> QED
      BY <2>1, <2>2, <3>1, <3>2
  <2>5. CDiv(FIX_INT_MAX, a) = -((h - 1) \div (-a)) /\ (h - 1) \div (-a) \in Int
    BY <1>6, <2>1 DEF CDiv, AbsOf
  <2>6. fklIsFixMulOverflow(a, b) <=> CDiv(FIX_INT_MAX, a) > b
    BY <1>2, <1>6 DEF fklIsFixMulOverflow
  <2>7. CDiv(FIX_INT_MAX, a) > b <=> ((h - 1) \div (-a)) < -b
    <3>1. PICK q \in Int : q = (h - 1) \div (-a)
      BY <2>5
    <3>2. -q > b <=> q < -b
      BY <1>2
    <3> QED
      BY <2>5, <3>1, <3>2
  <2> QED
    BY <1>2, <1>3, <2>3, <2>4, <2>6, <2>7
<1>7. CASE (a < 0 /\ b > 0) \/ (a > 0 /\ b < 0)
  <2>1. PICK x \in Nat, y \in Nat : x = AbsOf(a) /\ y = AbsOf(b) /\ x > 0 /\ y > 0
    BY <1>2, <1>7 DEF AbsOf
  <2>2. p = -(x * y) /\ p < 0 /\ x * y \in Nat
    <3>1. CASE a < 0 /\ b > 0
      <4>1. x = -a /\ y = b
        BY <1>2, <2>1, <3>1 DEF AbsOf
      <4> QED
        BY <1>2, <1>3, <2>1, <4>1
    <3>2. CASE a > 0 /\ b < 0
      <4>1. x = a /\ y = -b
        BY <1>2, <2>1, <3>2 DEF AbsOf
      <4> QED
        BY <1>2, <1>3, <2>1, <4>1
    <3> QED
      BY <1>7, <3>1, <3>2
  <2>3. PICK w \in -h .. h - 1 : w = Wrapped(p, h) /\ (p \in -h .. h - 1 => w = p)
    BY <1>1, WrappedFacts
  <2>4. fklIsFixMulOverflow(a, b) <=> I64(p) # -h /\ a # CDiv(w, b)
    BY <1>1, <1>2, <1>3, <1>7, <2>3 DEF fklIsFixMulOverflow
  <2>5. CASE p \in -h .. h - 1
    <3>1. w = p /\ AbsOf(w) = x * y
      BY <2>2, <2>3, <2>5 DEF AbsOf
    <3>2. (x * y) \div y = x
      BY <2>1, ExactQuotient
    <3>3. CDiv(w, b) = a
      <4>1. CASE a < 0 /\ b > 0
        BY <1>2, <2>1, <2>2, <3>1, <3>2, <4>1 DEF CDiv, AbsOf
      <4>2. CASE a > 0 /\ b < 0
        BY <1>2, <2>1, <2>2, <3>1, <3>2, <4>2 DEF CDiv, AbsOf
      <4> QED
        BY <1>7, <4>1, <4>2
    <3> QED
      BY <1>2, <1>3, <2>4, <2>5, <3>3
  <2>6. CASE p \notin -h .. h - 1
    <3>1. x * y > h
      BY <2>2, <2>6
    <3>2. PICK z \in Nat : z = AbsOf(w) /\ z <= h
      BY <2>3 DEF AbsOf
    <3>3. (z \div y) < x
      <4>1. y * x > z
        BY <3>1, <3>2, <2>2
      <4> QED
        BY <2>1, <3>2, <4>1, ProductBound
    <3>4. a # CDiv(w, b)
      <4>1. PICK q \in Int : q = z \div y
        BY <2>1, <3>2, DivModFacts
      <4>2. CDiv(w, b) = q \/ CDiv(w, b) = -q
        BY <2>1, <3>2, <4>1 DEF CDiv
      <4>3. q < x /\ q >= 0
        BY <2>1, <3>2, <3>3, <4>1
      <4>4. a = x \/ a = -x
        BY <1>2, <2>1 DEF AbsOf
      <4> QED
        BY <2>1, <4>2, <4>3, <4>4
    <3> QED
      BY <1>2, <1>3, <2>2, <2>4, <2>6, <3>4
  <2> QED
    BY <2>5, <2>6
<1> QED
  BY <1>2, <1>4, <1>5, <1>6, <1>7

-----------------------------------------------------------------------------
(* Induction and recursion. *)

\* Induction over the natural numbers, with the set of those that satisfy what
\* is to be shown.
LEMMA SetInduction ==
  ASSUME NEW S, 0 \in S, \A n \in Nat : n \in S => n + 1 \in S
  PROVE  Nat \subseteq S
<1> DEFINE T == Nat \ S
           R == OpToRel(<, Nat)
<1> SUFFICES ASSUME T # {} PROVE FALSE
  OBVIOUS
<1>1. IsWellFoundedOn(R, Nat)
  BY NatLessThanWellFounded
<1>2. T \subseteq Nat
  OBVIOUS
<1>3. PICK x \in T : \A y \in T : ~ (<<y, x>> \in R)
  <2> HIDE DEF T, R
  <2> QED
    BY <1>1, <1>2, WFMin
<1>4. x \in Nat /\ x # 0
  OBVIOUS
<1>5. x - 1 \in Nat /\ (x - 1) + 1 = x
  BY <1>4
<1>6. x - 1 \in T
  BY <1>4, <1>5
<1>7. <<x - 1, x>> \in R
  BY <1>4, <1>5 DEF OpToRel
<1> QED
  BY <1>3, <1>6, <1>7

\* Induction over the places of a number from the top downwards.
LEMMA DownInduction ==
  ASSUME NEW n \in Nat, NEW S, n + 1 \in S, \A i \in 1 .. n : i + 1 \in S => i \in S
  PROVE  1 .. n + 1 \subseteq S
<1> DEFINE U == {k \in Nat : k <= n => (n + 1) - k \in S}
<1>1. 0 \in U
  OBVIOUS
<1>2. ASSUME NEW k \in Nat, k \in U PROVE k + 1 \in U
  <2> SUFFICES ASSUME k + 1 <= n PROVE (n + 1) - (k + 1) \in S
    OBVIOUS
  <2>1. (n + 1) - k \in S
    BY <1>2
  <2>2. n - k \in 1 .. n /\ (n - k) + 1 = (n + 1) - k /\ (n + 1) - (k + 1) = n - k
    OBVIOUS
  <2> QED
    BY <2>1, <2>2
<1> HIDE DEF U
<1>3. Nat \subseteq U
  BY <1>1, <1>2, SetInduction
<1>4. ASSUME NEW i \in 1 .. n + 1 PROVE i \in S
  <2>1. (n + 1) - i \in Nat /\ (n + 1) - i <= n /\ (n + 1) - ((n + 1) - i) = i
    OBVIOUS
  <2>2. (n + 1) - i \in U
    BY <1>3, <2>1
  <2> QED
    BY <2>1, <2>2 DEF U
<1> QED
  BY <1>4

\* Induction over the places of a number from the bottom upwards.
LEMMA UpInduction ==
  ASSUME NEW n \in Nat, NEW S, 0 \in S, \A i \in 1 .. n : i - 1 \in S => i \in S
  PROVE  0 .. n \subseteq S
<1> DEFINE U == {k \in Nat : k <= n => k \in S}
<1>1. 0 \in U
  OBVIOUS
<1>2. ASSUME NEW k \in Nat, k \in U PROVE k + 1 \in U
  <2> SUFFICES ASSUME k + 1 <= n PROVE k + 1 \in S
    OBVIOUS
  <2>1. k \in S /\ k + 1 \in 1 .. n /\ (k + 1) - 1 = k
    BY <1>2
  <2> QED
    BY <2>1
<1> HIDE DEF U
<1>3. Nat \subseteq U
  BY <1>1, <1>2, SetInduction
<1> QED
  BY <1>3 DEF U

\* g is defined by recursion over the places, from the bottom upwards or from
\* the top downwards: its values are in T, the first is c, and F takes it from
\* each to the next.
RecursiveUp(T, c, n, F, g) ==
    g \in [0 .. n -> T] /\ g[0] = c /\ \A i \in 1 .. n : g[i] = F[i][g[i - 1]]
RecursiveDown(T, c, n, F, g) ==
    g \in [1 .. n + 1 -> T] /\ g[n + 1] = c /\ \A i \in 1 .. n : g[i] = F[i][g[i + 1]]

\* A recursion from the bottom upwards defines a function.
LEMMA UpRecursion ==
  ASSUME NEW T, NEW c \in T, NEW n \in Nat, NEW F \in [1 .. n -> [T -> T]]
  PROVE  \E g : RecursiveUp(T, c, n, F, g)
<1> DEFINE S == {k \in 0 .. n : \E g : RecursiveUp(T, c, k, F, g)}
<1>1. 0 \in S
  <2> DEFINE g == [i \in 0 .. 0 |-> c]
  <2>1. RecursiveUp(T, c, 0, F, g)
    BY DEF RecursiveUp
  <2> HIDE DEF g
  <2> QED
    BY <2>1
<1>2. ASSUME NEW k \in 1 .. n, k - 1 \in S PROVE k \in S
  <2>1. PICK g : RecursiveUp(T, c, k - 1, F, g)
    BY <1>2
  <2> DEFINE h == [i \in 0 .. k |-> IF i = k THEN F[k][g[k - 1]] ELSE g[i]]
  <2>2. h \in [0 .. k -> T]
    BY <2>1 DEF RecursiveUp
  <2>3. h[0] = c
    BY <2>1 DEF RecursiveUp
  <2>4. ASSUME NEW i \in 1 .. k PROVE h[i] = F[i][h[i - 1]]
    <3>1. h[i - 1] = g[i - 1]
      OBVIOUS
    <3>2. CASE i = k
      BY <3>1, <3>2
    <3>3. CASE i # k
      <4>1. i \in 1 .. k - 1
        BY <3>3
      <4> QED
        BY <2>1, <3>1, <4>1 DEF RecursiveUp
    <3> QED
      BY <3>2, <3>3
  <2> HIDE DEF h
  <2>5. RecursiveUp(T, c, k, F, h)
    BY <2>2, <2>3, <2>4 DEF RecursiveUp
  <2>6. k \in 0 .. n
    OBVIOUS
  <2> QED
    BY <2>5, <2>6
<1>3. n \in S
  <2> HIDE DEF S
  <2>1. 0 .. n \subseteq S
    BY <1>1, <1>2, UpInduction
  <2> QED
    BY <2>1
<1> QED
  BY <1>3

\* A recursion from the top downwards defines a function.
LEMMA DownRecursion ==
  ASSUME NEW T, NEW c \in T, NEW n \in Nat, NEW F \in [1 .. n -> [T -> T]]
  PROVE  \E g : RecursiveDown(T, c, n, F, g)
<1> DEFINE Mirror == [i \in 1 .. n |-> F[(n + 1) - i]]
<1>1. Mirror \in [1 .. n -> [T -> T]]
  OBVIOUS
<1>2. PICK h : RecursiveUp(T, c, n, Mirror, h)
  <2> HIDE DEF Mirror
  <2> QED
    BY <1>1, UpRecursion, Zenon
<1> DEFINE g == [i \in 1 .. n + 1 |-> h[(n + 1) - i]]
<1>3. h \in [0 .. n -> T] /\ h[0] = c
  BY <1>2 DEF RecursiveUp
<1>4. g \in [1 .. n + 1 -> T] /\ g[n + 1] = c
  BY <1>3
<1>5. ASSUME NEW i \in 1 .. n PROVE g[i] = F[i][g[i + 1]]
  <2>1. PICK j \in 1 .. n : j = (n + 1) - i /\ (n + 1) - j = i /\ (n + 1) - (i + 1) = j - 1
    OBVIOUS
  <2>2. h[j] = Mirror[j][h[j - 1]]
    BY <1>2 DEF RecursiveUp
  <2>3. g[i] = h[j] /\ g[i + 1] = h[j - 1] /\ Mirror[j] = F[i]
    BY <2>1
  <2> QED
    BY <2>2, <2>3
<1> HIDE DEF g
<1>6. RecursiveDown(T, c, n, F, g)
  BY <1>4, <1>5 DEF RecursiveDown
<1> QED
  BY <1>6

-----------------------------------------------------------------------------
(* What digits stand for. *)

Digits == 0 .. Base - 1

\* A product with a sum.
LEMMA Distributes ==
  ASSUME NEW x \in Int, NEW y \in Int, NEW z \in Int
  PROVE  x * (y + z) = x * y + x * z /\ x * (y - z) = x * y - x * z
OBVIOUS

\* The recursion of ValueFrom defines it.
LEMMA ValueFromFacts ==
  ASSUME NEW n \in Nat, NEW ds, \A i \in 1 .. n : ds[i] \in Int
  PROVE  /\ ValueFrom(ds, n) \in [1 .. n + 1 -> Int]
         /\ ValueFrom(ds, n)[n + 1] = 0
         /\ \A i \in 1 .. n : ValueFrom(ds, n)[i] = ds[i] + Base * ValueFrom(ds, n)[i + 1]
<1> DEFINE Step(h) == [i \in 1 .. n + 1 |-> IF i > n THEN 0 ELSE ds[i] + Base * h[i + 1]]
           F == [i \in 1 .. n |-> [v \in Int |-> ds[i] + Base * v]]
<1>1. F \in [1 .. n -> [Int -> Int]]
  BY BaseAssumption
<1>2. PICK g : RecursiveDown(Int, 0, n, F, g)
  <2>1. 0 \in Int
    OBVIOUS
  <2> HIDE DEF F
  <2> QED
    BY <1>1, <2>1, DownRecursion, Zenon
<1>3. ASSUME NEW i \in 1 .. n PROVE g[i] = ds[i] + Base * g[i + 1]
  <2>1. g[i + 1] \in Int
    BY <1>2 DEF RecursiveDown
  <2>2. F[i][g[i + 1]] = ds[i] + Base * g[i + 1]
    BY <2>1
  <2> QED
    BY <1>2, <2>2 DEF RecursiveDown
<1>4. g = Step(g)
  BY <1>2, <1>3 DEF RecursiveDown
<1>5. ValueFrom(ds, n) = CHOOSE h : h = Step(h)
  BY DEF ValueFrom
<1> HIDE DEF Step
<1>6. (CHOOSE h : h = Step(h)) = Step(CHOOSE h : h = Step(h))
  BY <1>4, Zenon
<1>7. PICK v : v = ValueFrom(ds, n) /\ v = Step(v)
  BY <1>5, <1>6
<1>8. DOMAIN v = 1 .. n + 1 /\ v[n + 1] = 0 /\ \A i \in 1 .. n : v[i] = ds[i] + Base * v[i + 1]
  BY <1>7 DEF Step
<1>9. \A i \in 1 .. n + 1 : v[i] \in Int
  <2> DEFINE S == {i \in 1 .. n + 1 : v[i] \in Int}
  <2>1. n + 1 \in S
    BY <1>8
  <2>2. ASSUME NEW i \in 1 .. n, i + 1 \in S PROVE i \in S
    <3>1. v[i + 1] \in Int /\ Base \in Int /\ ds[i] \in Int
      BY <2>2, BaseAssumption
    <3>2. v[i] = ds[i] + Base * v[i + 1]
      BY <1>8
    <3>3. v[i] \in Int
      BY <3>1, <3>2
    <3> QED
      BY <3>3
  <2>3. 1 .. n + 1 \subseteq S
    <3> HIDE DEF S
    <3> QED
      BY <2>1, <2>2, DownInduction
  <2> QED
    BY <2>3
<1>10. v = [i \in 1 .. n + 1 |-> v[i]]
  BY <1>7 DEF Step
<1>11. v \in [1 .. n + 1 -> Int]
  BY <1>9, <1>10
<1> QED
  BY <1>7, <1>8, <1>11

\* A recursion as in ValueFrom has one solution.
LEMMA SameRecursion ==
  ASSUME NEW n \in Nat, NEW f, NEW g, NEW e, f[n + 1] = g[n + 1],
         \A i \in 1 .. n : f[i] = e[i] + Base * f[i + 1] /\ g[i] = e[i] + Base * g[i + 1]
  PROVE  \A i \in 1 .. n + 1 : f[i] = g[i]
<1> DEFINE S == {i \in 1 .. n + 1 : f[i] = g[i]}
<1>1. n + 1 \in S
  OBVIOUS
<1>2. \A i \in 1 .. n : i + 1 \in S => i \in S
  OBVIOUS
<1>3. 1 .. n + 1 \subseteq S
  <2> HIDE DEF S
  <2> QED
    BY <1>1, <1>2, DownInduction
<1> QED
  BY <1>3

\* f and g are solutions of one such recursion.
BothSolve(n, f, g, e) ==
    /\ f[n + 1] = g[n + 1]
    /\ \A i \in 1 .. n : f[i] = e[i] + Base * f[i + 1] /\ g[i] = e[i] + Base * g[i + 1]

\* They begin alike.
LEMMA SameStart ==
  ASSUME NEW n \in Nat, NEW f, NEW g, NEW e, BothSolve(n, f, g, e)
  PROVE  f[1] = g[1]
<1>1. \A i \in 1 .. n + 1 : f[i] = g[i]
  BY SameRecursion DEF BothSolve
<1> QED
  BY <1>1

\* Only the digits count.
LEMMA ValueFromSame ==
  ASSUME NEW n \in Nat, NEW ds, NEW es,
         \A i \in 1 .. n : ds[i] \in Int /\ es[i] = ds[i]
  PROVE  \A i \in 1 .. n + 1 : ValueFrom(es, n)[i] = ValueFrom(ds, n)[i]
<1> DEFINE v == ValueFrom(ds, n)
           w == ValueFrom(es, n)
<1>1. v[n + 1] = 0 /\ \A i \in 1 .. n : v[i] = ds[i] + Base * v[i + 1]
  BY ValueFromFacts
<1>2. w[n + 1] = 0 /\ \A i \in 1 .. n : w[i] = ds[i] + Base * w[i + 1]
  BY ValueFromFacts
<1> HIDE DEF v, w
<1>3. \A i \in 1 .. n + 1 : w[i] = v[i]
  BY <1>1, <1>2, SameRecursion
<1> QED
  BY <1>3 DEF v, w

\* Places above which two numbers agree do not count for their difference.
LEMMA ValueFromTop ==
  ASSUME NEW n \in Nat, NEW k \in 0 .. n, NEW ds, NEW es,
         \A i \in 1 .. n : ds[i] \in Int /\ es[i] \in Int,
         \A i \in k + 1 .. n : ds[i] = es[i]
  PROVE  /\ ValueFrom(ds, n)[k + 1] = ValueFrom(es, n)[k + 1]
         /\ ValueFrom(ds, n)[1] - ValueFrom(es, n)[1] = ValueFrom(ds, k)[1] - ValueFrom(es, k)[1]
<1> DEFINE v == ValueFrom(ds, n)
           w == ValueFrom(es, n)
           x == ValueFrom(ds, k)
           y == ValueFrom(es, k)
<1>1. v[n + 1] = 0 /\ v \in [1 .. n + 1 -> Int] /\ \A i \in 1 .. n : v[i] = ds[i] + Base * v[i + 1]
  BY ValueFromFacts
<1>2. w[n + 1] = 0 /\ w \in [1 .. n + 1 -> Int] /\ \A i \in 1 .. n : w[i] = es[i] + Base * w[i + 1]
  BY ValueFromFacts
<1>3. k \in Nat /\ \A i \in 1 .. k : ds[i] \in Int /\ es[i] \in Int
  OBVIOUS
<1>4. x[k + 1] = 0 /\ x \in [1 .. k + 1 -> Int] /\ \A i \in 1 .. k : x[i] = ds[i] + Base * x[i + 1]
  BY <1>3, ValueFromFacts
<1>5. y[k + 1] = 0 /\ y \in [1 .. k + 1 -> Int] /\ \A i \in 1 .. k : y[i] = es[i] + Base * y[i + 1]
  BY <1>3, ValueFromFacts
<1> HIDE DEF v, w, x, y
<1>6. v[k + 1] = w[k + 1]
  <2> DEFINE S == {i \in 1 .. n + 1 : i > k => v[i] = w[i]}
  <2>1. n + 1 \in S
    BY <1>1, <1>2
  <2>2. \A i \in 1 .. n : i + 1 \in S => i \in S
    BY <1>1, <1>2
  <2>3. 1 .. n + 1 \subseteq S
    <3> HIDE DEF S
    <3> QED
      BY <2>1, <2>2, DownInduction
  <2>4. k + 1 \in 1 .. n + 1 /\ k + 1 > k
    OBVIOUS
  <2> QED
    BY <2>3, <2>4
<1>7. v[1] - w[1] = x[1] - y[1]
  <2> DEFINE f == [i \in 1 .. k + 1 |-> v[i] - w[i]]
             g == [i \in 1 .. k + 1 |-> x[i] - y[i]]
             e == [i \in 1 .. k |-> ds[i] - es[i]]
  <2>1. f[k + 1] = g[k + 1]
    <3>1. k + 1 \in 1 .. n + 1 /\ k + 1 \in 1 .. k + 1
      OBVIOUS
    <3>2. v[k + 1] \in Int /\ w[k + 1] \in Int
      BY <1>1, <1>2, <3>1
    <3> QED
      BY <1>4, <1>5, <1>6, <3>1, <3>2
  <2>2. ASSUME NEW i \in 1 .. k PROVE f[i] = e[i] + Base * f[i + 1] /\ g[i] = e[i] + Base * g[i + 1]
    <3>1. i \in 1 .. n /\ i + 1 \in 1 .. n + 1 /\ i + 1 \in 1 .. k + 1
      OBVIOUS
    <3>2. v[i + 1] \in Int /\ w[i + 1] \in Int /\ x[i + 1] \in Int /\ y[i + 1] \in Int
      BY <1>1, <1>2, <1>4, <1>5, <3>1
    <3>3. Base * (v[i + 1] - w[i + 1]) = Base * v[i + 1] - Base * w[i + 1]
      BY <3>2, Distributes, BaseAssumption
    <3>4. Base * (x[i + 1] - y[i + 1]) = Base * x[i + 1] - Base * y[i + 1]
      BY <3>2, Distributes, BaseAssumption
    <3>5. PICK p \in Int, q \in Int, r \in Int, t \in Int :
             /\ p = Base * v[i + 1] /\ q = Base * w[i + 1]
             /\ r = Base * x[i + 1] /\ t = Base * y[i + 1]
      BY <3>2, BaseAssumption
    <3>6. v[i] = ds[i] + p /\ w[i] = es[i] + q /\ x[i] = ds[i] + r /\ y[i] = es[i] + t
      BY <1>1, <1>2, <1>4, <1>5, <3>1, <3>5
    <3>7. /\ f[i] = v[i] - w[i] /\ g[i] = x[i] - y[i] /\ e[i] = ds[i] - es[i]
          /\ f[i + 1] = v[i + 1] - w[i + 1] /\ g[i + 1] = x[i + 1] - y[i + 1]
      BY <3>1
    <3>8. Base * f[i + 1] = p - q /\ Base * g[i + 1] = r - t
      BY <3>3, <3>4, <3>5, <3>7
    <3>9. ds[i] \in Int /\ es[i] \in Int
      BY <3>1
    <3> HIDE DEF f, g, e
    <3> QED
      BY <3>5, <3>6, <3>7, <3>8, <3>9
  <2>3. f[1] = v[1] - w[1] /\ g[1] = x[1] - y[1] /\ 1 \in 1 .. k + 1
    OBVIOUS
  <2> HIDE DEF f, g, e
  <2>4. \A i \in 1 .. k + 1 : f[i] = g[i]
    BY <2>1, <2>2, SameRecursion
  <2> QED
    BY <2>3, <2>4
<1> QED
  BY <1>6, <1>7 DEF v, w, x, y

\* The digits of ds and es are the same above place k.
AgreeAbove(n, k, ds, es) ==
    /\ \A i \in 1 .. n : ds[i] \in Int /\ es[i] \in Int
    /\ \A i \in k + 1 .. n : ds[i] = es[i]

\* Then so is what they stand for.
LEMMA SameAbove ==
  ASSUME NEW n \in Nat, NEW k \in 0 .. n, NEW ds, NEW es, AgreeAbove(n, k, ds, es)
  PROVE  ValueFrom(ds, n)[k + 1] = ValueFrom(es, n)[k + 1]
BY ValueFromTop DEF AgreeAbove

\* The first place from the top where two numbers differ decides.
LEMMA TopDecides ==
  ASSUME NEW n \in Nat, NEW k \in 1 .. n, NEW ds, NEW es,
         \A i \in 1 .. n : ds[i] \in Digits /\ es[i] \in Digits,
         \A i \in k + 1 .. n : ds[i] = es[i],
         ds[k] > es[k]
  PROVE  ValueFrom(ds, n)[1] > ValueFrom(es, n)[1]
<1> DEFINE v == ValueFrom(ds, n)
           w == ValueFrom(es, n)
           S == {i \in 1 .. n + 1 : i <= k => v[i] > w[i]}
<1>0. \A i \in 1 .. n : ds[i] \in Int /\ es[i] \in Int
  BY DEF Digits
<1>1. v \in [1 .. n + 1 -> Int] /\ \A i \in 1 .. n : v[i] = ds[i] + Base * v[i + 1]
  BY <1>0, ValueFromFacts
<1>2. w \in [1 .. n + 1 -> Int] /\ \A i \in 1 .. n : w[i] = es[i] + Base * w[i + 1]
  BY <1>0, ValueFromFacts
<1>3. v[k + 1] = w[k + 1]
  BY <1>0, ValueFromTop
<1> HIDE DEF v, w
<1>4. n + 1 \in S
  OBVIOUS
<1>5. ASSUME NEW i \in 1 .. n, i + 1 \in S PROVE i \in S
  <2> SUFFICES ASSUME i <= k PROVE v[i] > w[i]
    OBVIOUS
  <2>1. v[i + 1] \in Int /\ w[i + 1] \in Int /\ ds[i] \in Digits /\ es[i] \in Digits
    BY <1>1, <1>2
  <2>2. v[i] = ds[i] + Base * v[i + 1] /\ w[i] = es[i] + Base * w[i + 1]
    BY <1>1, <1>2
  <2>3. CASE i = k
    <3>1. PICK p \in Int : p = Base * v[k + 1] /\ p = Base * w[k + 1]
      BY <1>3, <2>1, <2>3, BaseAssumption
    <3> QED
      BY <2>1, <2>2, <2>3, <3>1 DEF Digits
  <2>4. CASE i < k
    <3>1. v[i + 1] > w[i + 1]
      BY <1>5, <2>4
    <3>2. PICK d \in Nat : v[i + 1] = w[i + 1] + 1 + d
      <4>1. v[i + 1] - w[i + 1] - 1 \in Nat /\ v[i + 1] = w[i + 1] + 1 + (v[i + 1] - w[i + 1] - 1)
        BY <2>1, <3>1
      <4> QED
        BY <4>1
    <3>3. Base * (w[i + 1] + 1 + d) = Base * w[i + 1] + Base + Base * d
      BY <2>1, BaseAssumption
    <3>4. PICK p \in Int, q \in Nat : p = Base * w[i + 1] /\ q = Base * d
      BY <2>1, BaseAssumption
    <3>5. v[i] = ds[i] + (p + Base + q) /\ w[i] = es[i] + p
      BY <2>2, <3>2, <3>3, <3>4
    <3> QED
      BY <2>1, <3>4, <3>5, BaseAssumption DEF Digits
  <2> QED
    BY <2>3, <2>4
<1>6. 1 .. n + 1 \subseteq S
  <2> HIDE DEF S
  <2> QED
    BY <1>4, <1>5, DownInduction
<1>7. 1 \in 1 .. n + 1 /\ 1 <= k
  OBVIOUS
<1> QED
  BY <1>6, <1>7 DEF v, w

-----------------------------------------------------------------------------
(* Big integers: a buffer with room for the digits, and normalized ones.  *)

Buffers ==
    {a \in [num : Int, digits : Seq(Digits), const_size : BOOLEAN, failed : BOOLEAN] :
        Size(a) <= Len(a.digits)}
BigInts == {a \in Buffers : Normalized(a)}

\* The digits of a at the first n places, zeros above its size.
Places(a, n) == [i \in 1 .. n |-> Digit(a, i)]

\* The size and the digits of a number.
LEMMA BufferFacts ==
  ASSUME NEW a \in Buffers
  PROVE  /\ a.num \in Int /\ Size(a) \in Nat /\ Size(a) <= Len(a.digits)
         /\ Len(a.digits) \in Nat /\ a.digits \in Seq(Digits)
         /\ a.num = Size(a) \/ a.num = -Size(a)
         /\ \A i \in 1 .. Len(a.digits) : a.digits[i] \in Digits
         /\ \A i \in 1 .. Size(a) : a.digits[i] \in Digits /\ Digit(a, i) = a.digits[i]
         /\ \A i \in Nat : i > Size(a) => Digit(a, i) = 0
         /\ \A i \in Nat \ {0} : Digit(a, i) \in Digits
<1>1. a.num \in Int /\ Size(a) \in Nat /\ (a.num = Size(a) \/ a.num = -Size(a))
  BY DEF Buffers, Size, AbsOf
<1>2. Size(a) <= Len(a.digits) /\ Len(a.digits) \in Nat /\ a.digits \in Seq(Digits)
  BY DEF Buffers
<1>3. \A i \in 1 .. Len(a.digits) : a.digits[i] \in Digits
  BY <1>2
<1>4. \A i \in 1 .. Size(a) : a.digits[i] \in Digits /\ Digit(a, i) = a.digits[i]
  BY <1>1, <1>2, <1>3 DEF Digit
<1>5. \A i \in Nat : i > Size(a) => Digit(a, i) = 0
  BY <1>1 DEF Digit
<1>6. \A i \in Nat \ {0} : Digit(a, i) \in Digits
  <2> TAKE i \in Nat \ {0}
  <2>1. 0 \in Digits
    BY BaseAssumption DEF Digits
  <2>2. CASE i <= Size(a)
    BY <1>1, <1>4, <2>2
  <2>3. CASE i > Size(a)
    BY <1>5, <2>1, <2>3
  <2> QED
    BY <1>1, <2>2, <2>3
<1> QED
  BY <1>1, <1>2, <1>3, <1>4, <1>5, <1>6

\* Digits stand for a natural number.
LEMMA ValueNat ==
  ASSUME NEW n \in Nat, NEW ds, \A i \in 1 .. n : ds[i] \in Digits
  PROVE  \A i \in 1 .. n + 1 : ValueFrom(ds, n)[i] \in Nat
<1> DEFINE v == ValueFrom(ds, n)
           S == {i \in 1 .. n + 1 : v[i] \in Nat}
<1>0. \A i \in 1 .. n : ds[i] \in Int /\ ds[i] \in Nat
  BY BaseAssumption DEF Digits
<1>1. v[n + 1] = 0 /\ \A i \in 1 .. n : v[i] = ds[i] + Base * v[i + 1]
  BY <1>0, ValueFromFacts
<1> HIDE DEF v
<1>2. n + 1 \in S
  BY <1>1
<1>3. ASSUME NEW i \in 1 .. n, i + 1 \in S PROVE i \in S
  <2>1. v[i + 1] \in Nat /\ Base \in Nat /\ ds[i] \in Nat
    BY <1>0, <1>3, BaseAssumption
  <2>2. Base * v[i + 1] \in Nat
    BY <2>1
  <2>3. v[i] \in Nat
    BY <1>1, <2>1, <2>2
  <2> QED
    BY <2>3
<1>4. 1 .. n + 1 \subseteq S
  <2> HIDE DEF S
  <2> QED
    BY <1>2, <1>3, DownInduction
<1> QED
  BY <1>4 DEF v

\* Zeros stand for zero.
LEMMA ValueZero ==
  ASSUME NEW n \in Nat, NEW ds, \A i \in 1 .. n : ds[i] = 0
  PROVE  ValueFrom(ds, n)[1] = 0
<1> DEFINE v == ValueFrom(ds, n)
           g == [i \in 1 .. n + 1 |-> 0]
<1>0. \A i \in 1 .. n : ds[i] \in Int
  OBVIOUS
<1>1. v[n + 1] = 0 /\ \A i \in 1 .. n : v[i] = ds[i] + Base * v[i + 1]
  BY <1>0, ValueFromFacts
<1>2. g[n + 1] = 0 /\ g[1] = 0 /\ \A i \in 1 .. n : g[i] = ds[i] + Base * g[i + 1]
  BY BaseAssumption
<1> HIDE DEF v, g
<1>3. \A i \in 1 .. n + 1 : v[i] = g[i]
  BY <1>1, <1>2, SameRecursion
<1> QED
  BY <1>2, <1>3 DEF v

\* Zeros above a number do not change its value.
LEMMA ZerosOnTop ==
  ASSUME NEW n \in Nat, NEW k \in 0 .. n, NEW ds, \A i \in 1 .. n : ds[i] \in Int,
         \A i \in k + 1 .. n : ds[i] = 0
  PROVE  ValueFrom(ds, n)[1] = ValueFrom(ds, k)[1]
<1> DEFINE zero == [i \in 1 .. n |-> 0]
<1>1. \A i \in 1 .. n : zero[i] \in Int
  OBVIOUS
<1>2. \A i \in k + 1 .. n : ds[i] = zero[i]
  OBVIOUS
<1>3. (\A i \in 1 .. n : zero[i] = 0) /\ \A i \in 1 .. k : zero[i] = 0
  OBVIOUS
<1> HIDE DEF zero
<1>4. k \in Nat /\ \A i \in 1 .. k : ds[i] \in Int
  OBVIOUS
<1>5. ValueFrom(zero, n)[1] = 0 /\ ValueFrom(zero, k)[1] = 0
  BY <1>3, <1>4, ValueZero
<1>6. ValueFrom(ds, n)[1] - ValueFrom(zero, n)[1] = ValueFrom(ds, k)[1] - ValueFrom(zero, k)[1]
  BY <1>1, <1>2, ValueFromTop
<1>7. ValueFrom(ds, n)[1] \in Int /\ ValueFrom(ds, k)[1] \in Int
  BY <1>4, ValueFromFacts
<1> QED
  BY <1>5, <1>6, <1>7

\* The value of a number from its digits with zeros above them.
LEMMA PlacesValue ==
  ASSUME NEW a \in Buffers, NEW n \in Nat, n >= Size(a)
  PROVE  /\ Places(a, n) \in [1 .. n -> Digits]
         /\ ValueFrom(Places(a, n), n)[1] = AbsValue(a)
         /\ AbsValue(a) \in Nat
<1> DEFINE p == Places(a, n)
           k == Size(a)
<1>1. k \in 0 .. n /\ k \in Nat
  BY BufferFacts
<1>2. p \in [1 .. n -> Digits]
  BY BufferFacts DEF Places
<1>3. \A i \in 1 .. n : p[i] \in Int
  BY <1>2 DEF Digits
<1>4. \A i \in k + 1 .. n : p[i] = 0
  BY <1>1, BufferFacts DEF Places
<1>5. \A i \in 1 .. k : a.digits[i] \in Int /\ p[i] = a.digits[i]
  BY <1>1, BufferFacts DEF Places, Digits
<1>6. \A i \in 1 .. k : a.digits[i] \in Digits
  BY BufferFacts
<1> HIDE DEF p, k
<1>7. ValueFrom(p, n)[1] = ValueFrom(p, k)[1]
  BY <1>1, <1>3, <1>4, ZerosOnTop
<1>8. ValueFrom(p, k)[1] = ValueFrom(a.digits, k)[1]
  BY <1>1, <1>5, ValueFromSame
<1>9. ValueFrom(a.digits, k)[1] \in Nat
  BY <1>1, <1>6, ValueNat
<1> QED
  BY <1>2, <1>7, <1>8, <1>9 DEF AbsValue, p, k

\* A normalized number is larger than every shorter one.
LEMMA LongerIsLarger ==
  ASSUME NEW a \in BigInts, NEW b \in Buffers, Size(a) > Size(b)
  PROVE  AbsValue(a) > AbsValue(b)
<1> DEFINE n == Size(a)
           p == Places(a, n)
           q == Places(b, n)
<1>1. a \in Buffers /\ Normalized(a)
  BY DEF BigInts
<1>2. n \in Nat /\ n >= Size(b) /\ n >= 1 /\ n \in 1 .. n
  BY <1>1, BufferFacts
<1>3. ValueFrom(p, n)[1] = AbsValue(a) /\ ValueFrom(q, n)[1] = AbsValue(b)
  BY <1>1, <1>2, PlacesValue
<1>4. \A i \in 1 .. n : p[i] \in Digits /\ q[i] \in Digits
  BY <1>1, <1>2, PlacesValue
<1>5. p[n] > q[n]
  <2>1. p[n] = a.digits[n] /\ a.digits[n] # 0 /\ a.digits[n] \in Digits
    BY <1>1, <1>2, BufferFacts DEF Normalized, Places
  <2>2. q[n] = 0
    BY <1>2, BufferFacts DEF Places
  <2> QED
    BY <2>1, <2>2 DEF Digits
<1>6. \A i \in n + 1 .. n : p[i] = q[i]
  BY <1>2
<1> HIDE DEF n, p, q
<1> QED
  BY <1>2, <1>3, <1>4, <1>5, <1>6, TopDecides

\* The value of a number that is not zero.
LEMMA AbsValueFacts ==
  ASSUME NEW a \in BigInts
  PROVE  /\ a \in Buffers /\ AbsValue(a) \in Nat
         /\ a.num # 0 => AbsValue(a) > 0
         /\ a.num = 0 => AbsValue(a) = 0
<1>1. a \in Buffers
  BY DEF BigInts
<1>2. Size(a) \in Nat /\ AbsValue(a) \in Nat
  BY <1>1, BufferFacts, PlacesValue
<1>3. ASSUME a.num # 0 PROVE AbsValue(a) > 0
  <2>1. BIGINT_0 \in Buffers /\ Size(BIGINT_0) = 0
    <3>1. <<>> \in Seq(Digits) /\ Len(<<>>) = 0
      OBVIOUS
    <3> QED
      BY <3>1 DEF BIGINT_0, Buffers, Size, AbsOf
  <2>2. AbsValue(BIGINT_0) \in Nat
    BY <2>1, PlacesValue
  <2>3. Size(a) > 0
    BY <1>1, <1>3, BufferFacts
  <2>4. AbsValue(a) > AbsValue(BIGINT_0)
    BY <2>1, <2>3, LongerIsLarger
  <2> QED
    BY <1>2, <2>2, <2>4
<1>4. ASSUME a.num = 0 PROVE AbsValue(a) = 0
  <2>1. Size(a) = 0
    BY <1>4 DEF Size, AbsOf
  <2>2. ValueFrom(a.digits, 0)[1] = 0
    BY ValueZero
  <2> QED
    BY <2>1, <2>2 DEF AbsValue
<1> QED
  BY <1>1, <1>2, <1>3, <1>4

\* A set of places has a topmost one.
LEMMA TopPlace ==
  ASSUME NEW n \in Nat, NEW P \in SUBSET (1 .. n), P # {}
  PROVE  \E i \in P : \A j \in P : j <= i
<1> SUFFICES ASSUME \A i \in P : \E j \in P : j > i PROVE FALSE
  OBVIOUS
<1> DEFINE S == {i \in 1 .. n + 1 : \A j \in P : j < i}
<1>1. n + 1 \in S
  OBVIOUS
<1>2. ASSUME NEW i \in 1 .. n, i + 1 \in S PROVE i \in S
  <2>1. \A j \in P : j <= i
    BY <1>2
  <2>2. i \notin P
    BY <2>1
  <2> QED
    BY <2>1, <2>2
<1>3. 1 .. n + 1 \subseteq S
  <2> HIDE DEF S
  <2> QED
    BY <1>1, <1>2, DownInduction
<1>4. \A j \in P : j < 1
  BY <1>3
<1>5. PICK j \in P : j \in 1 .. n
  OBVIOUS
<1> QED
  BY <1>4, <1>5

\* TopDifference is the topmost place with different digits.
LEMMA TopDifferenceFacts ==
  ASSUME NEW a, NEW b, NEW n \in Nat
  PROVE  LET i == TopDifference(a, b, n)
         IN  /\ i \in 0 .. n
             /\ i = 0 => \A j \in 1 .. n : a.digits[j] = b.digits[j]
             /\ i # 0 => a.digits[i] # b.digits[i]
             /\ \A j \in i + 1 .. n : a.digits[j] = b.digits[j]
<1> DEFINE P == {j \in 1 .. n : a.digits[j] # b.digits[j]}
<1>1. CASE P = {}
  <2>1. TopDifference(a, b, n) = 0
    BY <1>1 DEF TopDifference
  <2> QED
    BY <1>1, <2>1
<1>2. CASE P # {}
  <2>1. PICK i : i = TopDifference(a, b, n)
    OBVIOUS
  <2>2. i = CHOOSE k \in P : \A j \in P : j <= k
    BY <1>2, <2>1 DEF TopDifference
  <2>3. \E k \in P : \A j \in P : j <= k
    BY <1>2, TopPlace
  <2>4. i \in P /\ \A j \in P : j <= i
    <3> HIDE DEF P
    <3> QED
      BY <2>2, <2>3
  <2>5. \A j \in i + 1 .. n : a.digits[j] = b.digits[j]
    BY <2>4
  <2> QED
    BY <2>1, <2>4, <2>5
<1> QED
  BY <1>1, <1>2

\* x_cmp compares the values of numbers of one length.
LEMMA x_cmpExact ==
  ASSUME NEW a \in Buffers, NEW b \in Buffers, Size(a) = Size(b)
  PROVE  /\ x_cmp(a, b) \in Int
         /\ x_cmp(a, b) = 0 => AbsValue(a) = AbsValue(b)
         /\ x_cmp(a, b) < 0 => AbsValue(a) < AbsValue(b)
         /\ x_cmp(a, b) > 0 => AbsValue(a) > AbsValue(b)
         /\ x_cmp(a, b) = 0 <=> TopDifference(a, b, Size(a)) = 0
<1> DEFINE n == Size(a)
           da == a.digits
           db == b.digits
<1>1. n \in Nat /\ \A i \in 1 .. n : da[i] \in Digits /\ db[i] \in Digits
  BY BufferFacts
<1>2. PICK i : i = TopDifference(a, b, n)
  OBVIOUS
<1>3. /\ i \in 0 .. n
      /\ i = 0 => \A j \in 1 .. n : da[j] = db[j]
      /\ i # 0 => da[i] # db[i]
      /\ \A j \in i + 1 .. n : da[j] = db[j]
  BY <1>1, <1>2, TopDifferenceFacts
<1>4. AbsValue(a) = ValueFrom(da, n)[1] /\ AbsValue(b) = ValueFrom(db, n)[1]
  BY DEF AbsValue
<1>5. x_cmp(a, b) = IF i = 0 THEN 0 ELSE da[i] - db[i]
  BY <1>2 DEF x_cmp
<1>0. AbsValue(a) \in Nat /\ AbsValue(b) \in Nat
  BY <1>1, PlacesValue
<1> HIDE DEF n, da, db
<1>6. CASE i = 0
  <2>1. \A j \in 1 .. n : da[j] \in Int /\ db[j] = da[j]
    BY <1>1, <1>3, <1>6 DEF Digits
  <2>2. ValueFrom(da, n)[1] = ValueFrom(db, n)[1]
    BY <1>1, <2>1, ValueFromSame
  <2> QED
    BY <1>2, <1>4, <1>5, <1>6, <2>2 DEF n
<1>7. CASE i # 0
  <2>1. i \in 1 .. n /\ da[i] \in Int /\ db[i] \in Int /\ da[i] # db[i]
    BY <1>1, <1>3, <1>7 DEF Digits
  <2>2. CASE da[i] > db[i]
    <3>1. ValueFrom(da, n)[1] > ValueFrom(db, n)[1]
      BY <1>1, <1>3, <2>1, <2>2, TopDecides
    <3> QED
      BY <1>2, <1>4, <1>5, <1>7, <2>1, <2>2, <3>1 DEF n
  <2>3. CASE db[i] > da[i]
    <3>1. ValueFrom(db, n)[1] > ValueFrom(da, n)[1]
      BY <1>1, <1>3, <2>1, <2>3, TopDecides
    <3>2. AbsValue(b) > AbsValue(a)
      BY <1>4, <3>1
    <3>3. x_cmp(a, b) \in Int /\ x_cmp(a, b) < 0
      BY <1>5, <1>7, <2>1, <2>3
    <3> QED
      BY <1>0, <1>2, <1>7, <3>2, <3>3 DEF n
  <2> QED
    BY <2>1, <2>2, <2>3
<1> QED
  BY <1>6, <1>7

\* More digits, counted with the sign, make a larger number.
LEMMA NumOrder ==
  ASSUME NEW a \in BigInts, NEW b \in BigInts, a.num < b.num
  PROVE  Value(a) < Value(b)
<1>1. /\ a \in Buffers /\ AbsValue(a) \in Nat /\ (a.num # 0 => AbsValue(a) > 0)
      /\ b \in Buffers /\ AbsValue(b) \in Nat /\ (b.num # 0 => AbsValue(b) > 0)
      /\ a.num \in Int /\ b.num \in Int
  BY AbsValueFacts, BufferFacts
<1>2. CASE a.num < 0 /\ b.num < 0
  <2>1. Size(a) > Size(b)
    BY <1>1, <1>2 DEF Size, AbsOf
  <2>2. AbsValue(a) > AbsValue(b)
    BY <1>1, <2>1, LongerIsLarger
  <2> QED
    BY <1>1, <1>2, <2>2 DEF Value
<1>3. CASE a.num < 0 /\ b.num >= 0
  BY <1>1, <1>3 DEF Value
<1>4. CASE a.num >= 0
  <2>1. Size(b) > Size(a)
    BY <1>1, <1>4 DEF Size, AbsOf
  <2>2. AbsValue(b) > AbsValue(a)
    BY <1>1, <2>1, LongerIsLarger
  <2> QED
    BY <1>1, <1>4, <2>2 DEF Value
<1> QED
  BY <1>1, <1>2, <1>3, <1>4

\* fklBigIntCmp compares the integers two normalized numbers stand for.
THEOREM CmpExact ==
  ASSUME NEW a \in BigInts, NEW b \in BigInts
  PROVE  fklBigIntCmp(a, b) =
            (IF Value(a) < Value(b) THEN -1 ELSE IF Value(a) > Value(b) THEN 1 ELSE 0)
<1>1. /\ a \in Buffers /\ AbsValue(a) \in Nat /\ b \in Buffers /\ AbsValue(b) \in Nat
      /\ a.num \in Int /\ b.num \in Int
  BY AbsValueFacts, BufferFacts
<1>2. Value(a) \in Int /\ Value(b) \in Int
  BY <1>1 DEF Value
<1>3. CASE a.num < b.num
  <2>1. Value(a) < Value(b)
    BY <1>3, NumOrder
  <2>2. a.num # b.num /\ a.num - b.num < 0
    BY <1>1, <1>3
  <2> QED
    BY <2>1, <2>2 DEF fklBigIntCmp
<1>4. CASE b.num < a.num
  <2>1. Value(b) < Value(a)
    BY <1>4, NumOrder
  <2>2. a.num # b.num /\ a.num - b.num > 0 /\ ~(a.num - b.num < 0)
    BY <1>1, <1>4
  <2>3. ~(Value(a) < Value(b)) /\ Value(a) > Value(b)
    BY <1>2, <2>1
  <2> QED
    BY <2>2, <2>3 DEF fklBigIntCmp
<1>5. CASE a.num = b.num
  <2>1. Size(a) = Size(b)
    BY <1>5 DEF Size
  <2>2. /\ x_cmp(a, b) \in Int
        /\ x_cmp(a, b) = 0 => AbsValue(a) = AbsValue(b)
        /\ x_cmp(a, b) < 0 => AbsValue(a) < AbsValue(b)
        /\ x_cmp(a, b) > 0 => AbsValue(a) > AbsValue(b)
    BY <1>1, <2>1, x_cmpExact
  <2>3. CASE a.num < 0
    <3>1. Value(a) = -AbsValue(a) /\ Value(b) = -AbsValue(b)
      BY <1>5, <2>3 DEF Value
    <3>2. fklBigIntCmp(a, b) = IF -x_cmp(a, b) < 0 THEN -1 ELSE IF -x_cmp(a, b) > 0 THEN 1 ELSE 0
      BY <1>5, <2>3 DEF fklBigIntCmp
    <3> QED
      BY <1>1, <2>2, <3>1, <3>2
  <2>4. CASE ~(a.num < 0)
    <3>1. Value(a) = AbsValue(a) /\ Value(b) = AbsValue(b)
      BY <1>5, <2>4 DEF Value
    <3>2. fklBigIntCmp(a, b) = IF x_cmp(a, b) < 0 THEN -1 ELSE IF x_cmp(a, b) > 0 THEN 1 ELSE 0
      BY <1>5, <2>4 DEF fklBigIntCmp
    <3> QED
      BY <1>1, <2>2, <3>1, <3>2
  <2> QED
    BY <2>3, <2>4
<1> QED
  BY <1>1, <1>3, <1>4, <1>5

-----------------------------------------------------------------------------
(* How a result is stored. *)

\* A buffer that is neither fixed nor was exceeded, as the operations need it.
Growable(a) == ~a.const_size /\ ~a.failed

\* ensure_bigint_size keeps the digits and makes room.
LEMMA EnsureFacts ==
  ASSUME NEW a \in Buffers, NEW size \in Nat
  PROVE  LET r == ensure_bigint_size(a, size)
         IN  /\ r \in Buffers /\ r.num = a.num
             /\ Len(r.digits) >= size /\ Len(r.digits) >= Len(a.digits)
             /\ \A i \in 1 .. Len(a.digits) : r.digits[i] = a.digits[i]
             /\ Growable(a) => Growable(r)
<1> DEFINE m == Len(a.digits)
           new == [i \in 1 .. size - m |-> Base - 1]
           all == a.digits \o new
           r == ensure_bigint_size(a, size)
<1>1. /\ a.digits \in Seq(Digits) /\ m \in Nat /\ a.num \in Int /\ Size(a) <= m /\ Size(a) \in Nat
      /\ \A i \in 1 .. m : a.digits[i] \in Digits
  BY BufferFacts
<1>2. new \in Seq(Digits) /\ Len(new) = IF size > m THEN size - m ELSE 0
  <2>1. Base - 1 \in Digits
    BY BaseAssumption DEF Digits
  <2>2. CASE size > m
    <3>1. size - m \in Nat /\ new \in [1 .. size - m -> Digits]
      BY <1>1, <2>1, <2>2
    <3> HIDE DEF new
    <3>2. new \in Seq(Digits)
      BY <3>1
    <3> QED
      BY <2>2, <3>1, <3>2
  <2>3. CASE ~(size > m)
    <3>1. 1 .. size - m = 1 .. 0
      BY <1>1, <2>3
    <3>2. new \in [1 .. 0 -> Digits]
      BY <2>1, <3>1
    <3> HIDE DEF new
    <3>3. new \in Seq(Digits) /\ Len(new) = 0
      BY <3>2
    <3> QED
      BY <2>3, <3>3
  <2> QED
    BY <2>2, <2>3
<1>3. /\ all \in Seq(Digits) /\ Len(all) = m + Len(new)
      /\ \A i \in 1 .. m : all[i] = a.digits[i]
  <2>1. a.digits \in Seq(Digits) /\ new \in Seq(Digits)
    BY <1>1, <1>2
  <2> HIDE DEF new
  <2>2. all \in Seq(Digits)
    BY <2>1
  <2>3. Len(all) = m + Len(new)
    BY <2>1
  <2>4. \A i \in 1 .. m : all[i] = a.digits[i]
    BY <2>1
  <2> QED
    BY <2>2, <2>3, <2>4
<1>4. r = [a EXCEPT !.digits = all, !.failed = a.failed \/ (a.const_size /\ m < size)]
  BY DEF ensure_bigint_size
<1> HIDE DEF all, new, r
<1>5. a \in [num : Int, digits : Seq(Digits), const_size : BOOLEAN, failed : BOOLEAN]
  BY DEF Buffers
<1>6. /\ r \in [num : Int, digits : Seq(Digits), const_size : BOOLEAN, failed : BOOLEAN]
      /\ r.num = a.num /\ r.digits = all
  BY <1>3, <1>4, <1>5
<1>7. Growable(a) => Growable(r)
  BY <1>4, <1>5 DEF Growable
<1>8. Size(r) = Size(a)
  BY <1>6 DEF Size
<1>9. Len(all) >= size /\ Len(all) >= m
  <2> HIDE DEF m
  <2> QED
    BY <1>1, <1>2, <1>3
<1>10. r \in Buffers
  BY <1>1, <1>6, <1>8, <1>9 DEF Buffers
<1> QED
  BY <1>3, <1>6, <1>7, <1>9, <1>10 DEF r

\* Overwrite stores digits in the first places.
LEMMA OverwriteFacts ==
  ASSUME NEW a \in Buffers, NEW m \in Nat, NEW ds \in [1 .. m -> Digits],
         m <= Len(a.digits), NEW num \in Int, AbsOf(num) <= Len(a.digits)
  PROVE  LET r == Overwrite(a, num, ds)
         IN  /\ r \in Buffers /\ r.num = num
             /\ \A i \in 1 .. m : r.digits[i] = ds[i]
             /\ \A i \in m + 1 .. Len(a.digits) : r.digits[i] = a.digits[i]
             /\ Growable(a) => Growable(r)
<1> DEFINE k == Len(a.digits)
           all == [i \in DOMAIN a.digits |-> IF i <= Len(ds) THEN ds[i] ELSE a.digits[i]]
           r == Overwrite(a, num, ds)
<1>1. a.digits \in Seq(Digits) /\ k \in Nat /\ \A i \in 1 .. k : a.digits[i] \in Digits
  BY BufferFacts
<1>2. ds \in Seq(Digits) /\ Len(ds) = m
  OBVIOUS
<1>3. DOMAIN a.digits = 1 .. k
  BY <1>1
<1>4. /\ all \in [1 .. k -> Digits] /\ \A i \in 1 .. m : all[i] = ds[i]
      /\ \A i \in m + 1 .. k : all[i] = a.digits[i]
  BY <1>1, <1>2, <1>3
<1>5. r = [a EXCEPT !.num = num, !.digits = all]
  BY DEF Overwrite
<1> HIDE DEF all, r
<1>6. all \in Seq(Digits) /\ Len(all) = k
  BY <1>1, <1>4
<1>7. a \in [num : Int, digits : Seq(Digits), const_size : BOOLEAN, failed : BOOLEAN]
  BY DEF Buffers
<1>8. /\ r \in [num : Int, digits : Seq(Digits), const_size : BOOLEAN, failed : BOOLEAN]
      /\ r.num = num /\ r.digits = all
  BY <1>5, <1>6, <1>7
<1>9. Growable(a) => Growable(r)
  BY <1>5, <1>7 DEF Growable
<1>10. r \in Buffers
  BY <1>6, <1>8 DEF Buffers, Size
<1> QED
  BY <1>4, <1>8, <1>9, <1>10 DEF r

\* bigint_normalize keeps the value.
LEMMA NormalizeFacts ==
  ASSUME NEW a \in Buffers
  PROVE  LET r == bigint_normalize(a)
         IN  r \in BigInts /\ Value(r) = Value(a) /\ (Growable(a) => Growable(r))
<1> DEFINE m == Size(a)
           used == {i \in 1 .. m : a.digits[i] # 0}
           r == bigint_normalize(a)
<1>1. /\ m \in Nat /\ m <= Len(a.digits) /\ Len(a.digits) \in Nat /\ a.num \in Int
      /\ (a.num = m \/ a.num = -m)
      /\ \A i \in 1 .. m : a.digits[i] \in Digits
  BY BufferFacts
<1>2. PICK n : n = IF used = {} THEN 0 ELSE CHOOSE i \in used : \A j \in used : j <= i
  OBVIOUS
<1>3. r = [a EXCEPT !.num = IF a.num < 0 THEN -n ELSE n]
  BY <1>2 DEF bigint_normalize
<1>4. /\ n \in 0 .. m /\ (n # 0 => a.digits[n] # 0)
      /\ \A i \in n + 1 .. m : a.digits[i] = 0
  <2>1. CASE used = {}
    BY <1>1, <1>2, <2>1
  <2>2. CASE used # {}
    <3>1. \E i \in used : \A j \in used : j <= i
      BY <1>1, <2>2, TopPlace
    <3>2. n = CHOOSE i \in used : \A j \in used : j <= i
      BY <1>2, <2>2
    <3>3. n \in used /\ \A j \in used : j <= n
      <4> HIDE DEF used
      <4> QED
        BY <3>1, <3>2
    <3> QED
      BY <1>1, <3>3
  <2> QED
    BY <2>1, <2>2
<1> HIDE DEF r, used
<1>5. a \in [num : Int, digits : Seq(Digits), const_size : BOOLEAN, failed : BOOLEAN]
  BY DEF Buffers
<1>6. /\ r \in [num : Int, digits : Seq(Digits), const_size : BOOLEAN, failed : BOOLEAN]
      /\ r.num = (IF a.num < 0 THEN -n ELSE n) /\ r.digits = a.digits
  BY <1>1, <1>3, <1>4, <1>5
<1>7. Size(r) = n
  BY <1>1, <1>4, <1>6 DEF Size, AbsOf
<1>8. r \in BigInts
  <2>1. Size(r) <= Len(r.digits)
    BY <1>1, <1>4, <1>6, <1>7
  <2>2. Normalized(r)
    BY <1>1, <1>4, <1>6, <1>7 DEF Normalized
  <2> QED
    BY <1>6, <2>1, <2>2 DEF BigInts, Buffers
<1>9. ValueFrom(a.digits, m)[1] = ValueFrom(a.digits, n)[1]
  <2>1. \A i \in 1 .. m : a.digits[i] \in Int
    BY <1>1 DEF Digits
  <2> QED
    BY <1>1, <1>4, <2>1, ZerosOnTop
<1>10. AbsValue(r) = AbsValue(a)
  BY <1>6, <1>7, <1>9 DEF AbsValue
<1>11. Value(r) = Value(a)
  <2>1. CASE a.num < 0 <=> r.num < 0
    BY <1>10, <2>1 DEF Value
  <2>2. CASE ~(a.num < 0 <=> r.num < 0)
    <3>1. r.num = 0 /\ r \in BigInts
      BY <1>1, <1>4, <1>6, <1>8, <2>2
    <3>2. AbsValue(r) = 0
      BY <3>1, AbsValueFacts
    <3> QED
      BY <1>10, <3>2 DEF Value
  <2> QED
    BY <2>1, <2>2
<1>12. Growable(a) => Growable(r)
  BY <1>3, <1>5 DEF Growable
<1> QED
  BY <1>8, <1>11, <1>12 DEF r

\* What is in a buffer after m digits were stored.
LEMMA StoredDigits ==
  ASSUME NEW a \in Buffers, Growable(a), NEW size \in Nat, NEW m \in Nat, m <= size,
         NEW ds \in [1 .. m -> Digits], NEW num \in {m, -m}
  PROVE  LET o == Overwrite(ensure_bigint_size(a, size), num, ds)
             v == ValueFrom(ds, m)[1]
         IN  /\ o \in Buffers /\ Growable(o) /\ o.num = num
             /\ \A i \in 1 .. m : o.digits[i] = ds[i]
             /\ Value(o) = (IF num < 0 THEN -v ELSE v)
<1> DEFINE e == ensure_bigint_size(a, size)
           o == Overwrite(e, num, ds)
<1>1. e \in Buffers /\ Len(e.digits) >= size /\ Growable(e)
  BY EnsureFacts
<1>2. Len(e.digits) \in Nat /\ num \in Int /\ AbsOf(num) = m
  BY <1>1, BufferFacts DEF AbsOf
<1>3. m <= Len(e.digits) /\ AbsOf(num) <= Len(e.digits)
  BY <1>1, <1>2
<1>4. o \in Buffers /\ o.num = num /\ Growable(o) /\ \A i \in 1 .. m : o.digits[i] = ds[i]
  <2> HIDE DEF e
  <2> QED
    BY <1>1, <1>2, <1>3, OverwriteFacts
<1>5. AbsValue(o) = ValueFrom(ds, m)[1]
  <2>1. Size(o) = m
    BY <1>2, <1>4 DEF Size
  <2>2. \A i \in 1 .. m : ds[i] \in Int /\ o.digits[i] = ds[i]
    BY <1>4 DEF Digits
  <2> HIDE DEF o
  <2>3. ValueFrom(o.digits, m)[1] = ValueFrom(ds, m)[1]
    BY <2>2, ValueFromSame
  <2> QED
    BY <2>1, <2>3 DEF AbsValue
<1>6. Value(o) = IF num < 0 THEN -ValueFrom(ds, m)[1] ELSE ValueFrom(ds, m)[1]
  BY <1>4, <1>5 DEF Value
<1> QED
  BY <1>4, <1>6

\* What the operations leave in a buffer after they computed m digits.
LEMMA Stored ==
  ASSUME NEW a \in Buffers, Growable(a), NEW size \in Nat, NEW m \in Nat, m <= size,
         NEW ds \in [1 .. m -> Digits], NEW num \in {m, -m}
  PROVE  LET r == bigint_normalize(Overwrite(ensure_bigint_size(a, size), num, ds))
             v == ValueFrom(ds, m)[1]
         IN  r \in BigInts /\ Growable(r) /\ Value(r) = (IF num < 0 THEN -v ELSE v)
<1> DEFINE o == Overwrite(ensure_bigint_size(a, size), num, ds)
           v == ValueFrom(ds, m)[1]
<1>1. o \in Buffers /\ Growable(o) /\ Value(o) = (IF num < 0 THEN -v ELSE v)
  BY StoredDigits
<1> HIDE DEF o, v
<1>2. LET r == bigint_normalize(o)
      IN  r \in BigInts /\ Value(r) = Value(o) /\ Growable(r)
  BY <1>1, NormalizeFacts
<1> QED
  BY <1>1, <1>2 DEF o, v

-----------------------------------------------------------------------------
(* Addition. *)

\* The carries of an addition.
LEMMA CarriesFacts ==
  ASSUME NEW a \in Buffers, NEW b \in Buffers, NEW n \in Nat
  PROVE  LET c == Carries(a, b, n)
         IN  /\ c \in [0 .. n -> 0 .. 1] /\ c[0] = 0
             /\ \A i \in 1 .. n : c[i] = (Digit(a, i) + Digit(b, i) + c[i - 1]) \div Base
<1> DEFINE Step(h) == [i \in 0 .. n |->
                          IF i = 0 THEN 0 ELSE (Digit(a, i) + Digit(b, i) + h[i - 1]) \div Base]
           F == [i \in 1 .. n |-> [c \in Int |-> (Digit(a, i) + Digit(b, i) + c) \div Base]]
<1>1. \A i \in 1 .. n : Digit(a, i) \in Digits /\ Digit(b, i) \in Digits
  BY BufferFacts
<1>2. F \in [1 .. n -> [Int -> Int]]
  <2>1. ASSUME NEW i \in 1 .. n, NEW c \in Int
        PROVE  (Digit(a, i) + Digit(b, i) + c) \div Base \in Int
    <3>1. Digit(a, i) + Digit(b, i) + c \in Int
      BY <1>1 DEF Digits
    <3> QED
      BY <3>1, BaseAssumption, DivModFacts
  <2> QED
    BY <2>1
<1>3. PICK g : RecursiveUp(Int, 0, n, F, g)
  <2>1. 0 \in Int
    OBVIOUS
  <2> HIDE DEF F
  <2> QED
    BY <1>2, <2>1, UpRecursion, Zenon
<1>4. g = Step(g)
  <2>1. ASSUME NEW i \in 1 .. n PROVE g[i] = (Digit(a, i) + Digit(b, i) + g[i - 1]) \div Base
    <3>1. g[i - 1] \in Int
      BY <1>3 DEF RecursiveUp
    <3>2. F[i][g[i - 1]] = (Digit(a, i) + Digit(b, i) + g[i - 1]) \div Base
      BY <3>1
    <3> QED
      BY <1>3, <3>2 DEF RecursiveUp
  <2> QED
    BY <1>3, <2>1 DEF RecursiveUp
<1>5. Carries(a, b, n) = CHOOSE h : h = Step(h)
  BY DEF Carries
<1> HIDE DEF Step
<1>6. (CHOOSE h : h = Step(h)) = Step(CHOOSE h : h = Step(h))
  BY <1>4, Zenon
<1>7. PICK c : c = Carries(a, b, n) /\ c = Step(c)
  BY <1>5, <1>6
<1>8. /\ c = [i \in 0 .. n |-> c[i]] /\ c[0] = 0
      /\ \A i \in 1 .. n : c[i] = (Digit(a, i) + Digit(b, i) + c[i - 1]) \div Base
  BY <1>7 DEF Step
<1>9. \A i \in 0 .. n : c[i] \in 0 .. 1
  <2> DEFINE S == {i \in 0 .. n : c[i] \in 0 .. 1}
  <2>1. 0 \in S
    BY <1>8
  <2>2. ASSUME NEW i \in 1 .. n, i - 1 \in S PROVE i \in S
    <3>1. PICK x \in Nat : x = Digit(a, i) + Digit(b, i) + c[i - 1] /\ x < 2 * Base
      BY <1>1, <2>2, BaseAssumption DEF Digits
    <3>2. x \div Base \in 0 .. 1
      BY <3>1, BaseAssumption
    <3>3. c[i] = x \div Base
      BY <1>8, <3>1
    <3> QED
      BY <3>2, <3>3
  <2>3. 0 .. n \subseteq S
    <3> HIDE DEF S
    <3> QED
      BY <2>1, <2>2, UpInduction
  <2> QED
    BY <2>3
<1>10. c \in [0 .. n -> 0 .. 1]
  BY <1>8, <1>9
<1> QED
  BY <1>7, <1>8, <1>10

\* The digits of a sum stand for the sum.
LEMMA SumDigitsExact ==
  ASSUME NEW a \in Buffers, NEW b \in Buffers, NEW n \in Nat, n >= Size(a), n >= Size(b)
  PROVE  /\ SumDigits(a, b, n) \in [1 .. n + 1 -> Digits]
         /\ ValueFrom(SumDigits(a, b, n), n + 1)[1] = AbsValue(a) + AbsValue(b)
<1> DEFINE p == Places(a, n)
           q == Places(b, n)
           s == SumDigits(a, b, n)
           c == Carries(a, b, n)
           v == ValueFrom(p, n)
           w == ValueFrom(q, n)
           z == ValueFrom(s, n + 1)
           g == [i \in 1 .. n + 1 |-> v[i] + w[i] + c[i - 1]]
<1>1. /\ p \in [1 .. n -> Digits] /\ v[1] = AbsValue(a)
      /\ q \in [1 .. n -> Digits] /\ w[1] = AbsValue(b)
  BY PlacesValue
<1>2. \A i \in 1 .. n : p[i] = Digit(a, i) /\ q[i] = Digit(b, i) /\ p[i] \in Int /\ q[i] \in Int
  BY <1>1 DEF Places, Digits
<1>3. Digit(a, n + 1) = 0 /\ Digit(b, n + 1) = 0
  BY BufferFacts
<1>4. /\ c \in [0 .. n -> 0 .. 1] /\ c[0] = 0
      /\ \A i \in 1 .. n : c[i] = (p[i] + q[i] + c[i - 1]) \div Base
  BY <1>2, CarriesFacts
<1>5. v[n + 1] = 0 /\ v \in [1 .. n + 1 -> Int] /\ \A i \in 1 .. n : v[i] = p[i] + Base * v[i + 1]
  BY <1>2, ValueFromFacts
<1>6. w[n + 1] = 0 /\ w \in [1 .. n + 1 -> Int] /\ \A i \in 1 .. n : w[i] = q[i] + Base * w[i + 1]
  BY <1>2, ValueFromFacts
<1>7. /\ s = [i \in 1 .. n + 1 |-> s[i]]
      /\ \A i \in 1 .. n : s[i] = (p[i] + q[i] + c[i - 1]) % Base
      /\ s[n + 1] = (0 + 0 + c[n]) % Base
  BY <1>2, <1>3 DEF SumDigits
<1> HIDE DEF p, q, s, c, v, w
<1>8. ASSUME NEW i \in 1 .. n PROVE s[i] \in Digits /\ p[i] + q[i] + c[i - 1] = Base * c[i] + s[i]
  <2>1. PICK x \in Int : x = p[i] + q[i] + c[i - 1]
    BY <1>2, <1>4
  <2>2. c[i] = x \div Base /\ s[i] = x % Base
    BY <1>4, <1>7, <2>1
  <2>3. x % Base \in Nat /\ x % Base < Base /\ x = Base * (x \div Base) + (x % Base)
    BY BaseAssumption, DivModFacts
  <2>4. x = Base * c[i] + s[i]
    BY <2>2, <2>3
  <2>5. s[i] \in Digits
    BY <2>2, <2>3, BaseAssumption DEF Digits
  <2> QED
    BY <2>1, <2>4, <2>5
<1>9. s[n + 1] = c[n] /\ c[n] \in Digits
  <2>1. c[n] \in 0 .. 1
    BY <1>4
  <2>2. (0 + 0 + c[n]) % Base = c[n]
    BY <2>1, BaseAssumption
  <2> QED
    BY <1>7, <2>1, <2>2, BaseAssumption DEF Digits
<1>10. s \in [1 .. n + 1 -> Digits]
  <2>1. ASSUME NEW i \in 1 .. n + 1 PROVE s[i] \in Digits
    <3>1. i \in 1 .. n \/ i = n + 1
      OBVIOUS
    <3> QED
      BY <1>8, <1>9, <3>1
  <2> QED
    BY <1>7, <2>1
<1>11. \A i \in 1 .. n + 1 : s[i] \in Int
  BY <1>10 DEF Digits
<1>12. /\ z[(n + 1) + 1] = 0
       /\ \A i \in 1 .. n + 1 : z[i] = s[i] + Base * z[i + 1]
  BY <1>11, ValueFromFacts
<1>13. z[n + 1] = g[n + 1]
  <2>0. n + 1 \in 1 .. n + 1 /\ (n + 1) - 1 = n /\ c[n] \in Int
    BY <1>4
  <2>3. g[n + 1] = v[n + 1] + w[n + 1] + c[(n + 1) - 1]
    BY <2>0
  <2>4. c[(n + 1) - 1] = c[n]
    BY <2>0
  <2>5. g[n + 1] = 0 + 0 + c[n]
    BY <1>5, <1>6, <2>3, <2>4
  <2>1. g[n + 1] = c[n]
    <3> HIDE DEF g
    <3> QED
      BY <2>0, <2>5
  <2>2. z[n + 1] = s[n + 1] + Base * 0
    BY <1>12
  <2> QED
    BY <1>9, <1>11, <2>1, <2>2, BaseAssumption
<1>14. ASSUME NEW i \in 1 .. n PROVE z[i] = s[i] + Base * z[i + 1] /\ g[i] = s[i] + Base * g[i + 1]
  <2>1. i \in 1 .. n + 1 /\ i + 1 \in 1 .. n + 1 /\ i \in 0 .. n /\ i - 1 \in 0 .. n /\ (i + 1) - 1 = i
    OBVIOUS
  <2>0. v[i + 1] \in Int /\ w[i + 1] \in Int /\ c[i] \in Int /\ c[i - 1] \in Int
    BY <1>4, <1>5, <1>6, <2>1
  <2>2. PICK x \in Int, y \in Int, d \in Int, e \in Int :
           x = v[i + 1] /\ y = w[i + 1] /\ d = c[i] /\ e = c[i - 1]
    BY <2>0
  <2>3. g[i + 1] = x + y + d /\ g[i] = (p[i] + Base * x) + (q[i] + Base * y) + e
    BY <1>5, <1>6, <2>1, <2>2
  <2>4. Base * (x + y + d) = Base * x + Base * y + Base * d
    BY BaseAssumption
  <2>5. PICK X \in Int, Y \in Int, D \in Int : X = Base * x /\ Y = Base * y /\ D = Base * d
    BY BaseAssumption
  <2>6. p[i] + q[i] + e = D + s[i] /\ p[i] \in Int /\ q[i] \in Int /\ s[i] \in Int
    BY <1>2, <1>8, <1>11, <2>1, <2>2, <2>5
  <2> HIDE DEF g
  <2>7. g[i] = (p[i] + X) + (q[i] + Y) + e /\ Base * g[i + 1] = X + Y + D
    BY <2>3, <2>4, <2>5
  <2>8. g[i] = s[i] + Base * g[i + 1]
    <3>1. PICK P \in Int, Q \in Int, R \in Int : P = p[i] /\ Q = q[i] /\ R = s[i]
      BY <2>6
    <3>2. P + Q + e = D + R
      BY <2>6, <3>1
    <3>3. (P + X) + (Q + Y) + e = R + (X + Y + D)
      BY <3>2
    <3> QED
      BY <2>7, <3>1, <3>3
  <2> QED
    BY <1>12, <2>1, <2>8
<1>15. z[1] = g[1]
  <2> HIDE DEF z, g
  <2>1. \A i \in 1 .. n + 1 : z[i] = g[i]
    BY <1>13, <1>14, SameRecursion
  <2> QED
    BY <2>1
<1>16. g[1] = v[1] + w[1]
  <2>1. v[1] \in Int /\ w[1] \in Int /\ g[1] = v[1] + w[1] + c[0]
    BY <1>5, <1>6
  <2> QED
    BY <1>4, <2>1
<1> QED
  BY <1>1, <1>10, <1>15, <1>16 DEF p, q, s, v, w

\* x_add adds magnitudes.
LEMMA x_addExact ==
  ASSUME NEW a \in Buffers, Growable(a), NEW b \in Buffers
  PROVE  /\ x_add(a, b) \in BigInts /\ Growable(x_add(a, b))
         /\ Value(x_add(a, b)) = AbsValue(a) + AbsValue(b)
<1> DEFINE n == MaxOf(Size(a), Size(b))
           s == SumDigits(a, b, n)
<1>1. Size(a) \in Nat /\ Size(b) \in Nat
  BY BufferFacts
<1>2. n \in Nat /\ n >= Size(a) /\ n >= Size(b)
  BY <1>1 DEF MaxOf
<1>3. s \in [1 .. n + 1 -> Digits] /\ ValueFrom(s, n + 1)[1] = AbsValue(a) + AbsValue(b)
  BY <1>2, SumDigitsExact
<1>4. x_add(a, b) = bigint_normalize(Overwrite(ensure_bigint_size(a, n + 1), n + 1, s))
  BY DEF x_add
<1> HIDE DEF n, s
<1>5. n + 1 \in Nat /\ n + 1 <= n + 1 /\ n + 1 \in {n + 1, -(n + 1)} /\ ~(n + 1 < 0)
  BY <1>2
<1> QED
  BY <1>3, <1>4, <1>5, Stored

-----------------------------------------------------------------------------
(* Subtraction. *)

\* The borrows of a subtraction.
LEMMA BorrowsFacts ==
  ASSUME NEW a \in Buffers, NEW b \in Buffers, NEW n \in Nat
  PROVE  LET c == Borrows(a, b, n)
         IN  /\ c \in [0 .. n -> 0 .. 1] /\ c[0] = 0
             /\ \A i \in 1 .. n : c[i] = IF Digit(a, i) - Digit(b, i) - c[i - 1] < 0 THEN 1 ELSE 0
<1> DEFINE Step(h) == [i \in 0 .. n |->
                          IF i > 0 /\ Digit(a, i) - Digit(b, i) - h[i - 1] < 0 THEN 1 ELSE 0]
           F == [i \in 1 .. n |-> [c \in 0 .. 1 |-> IF Digit(a, i) - Digit(b, i) - c < 0 THEN 1 ELSE 0]]
<1>1. F \in [1 .. n -> [0 .. 1 -> 0 .. 1]]
  OBVIOUS
<1>2. PICK g : RecursiveUp(0 .. 1, 0, n, F, g)
  <2>1. 0 \in 0 .. 1
    OBVIOUS
  <2> HIDE DEF F
  <2> QED
    BY <1>1, <2>1, UpRecursion, Zenon
<1>3. g = Step(g)
  <2>1. ASSUME NEW i \in 1 .. n
        PROVE  g[i] = IF i > 0 /\ Digit(a, i) - Digit(b, i) - g[i - 1] < 0 THEN 1 ELSE 0
    <3>1. g[i - 1] \in 0 .. 1 /\ i > 0
      BY <1>2 DEF RecursiveUp
    <3>2. F[i][g[i - 1]] = IF Digit(a, i) - Digit(b, i) - g[i - 1] < 0 THEN 1 ELSE 0
      BY <3>1
    <3> QED
      BY <1>2, <3>1, <3>2 DEF RecursiveUp
  <2>2. g[0] = IF 0 > 0 /\ Digit(a, 0) - Digit(b, 0) - g[0 - 1] < 0 THEN 1 ELSE 0
    BY <1>2 DEF RecursiveUp
  <2> QED
    BY <1>2, <2>1, <2>2 DEF RecursiveUp
<1>4. Borrows(a, b, n) = CHOOSE h : h = Step(h)
  BY DEF Borrows
<1> HIDE DEF Step
<1>5. (CHOOSE h : h = Step(h)) = Step(CHOOSE h : h = Step(h))
  BY <1>3, Zenon
<1>6. PICK c : c = Borrows(a, b, n) /\ c = Step(c)
  BY <1>4, <1>5
<1>7. /\ c \in [0 .. n -> 0 .. 1]
      /\ \A i \in 1 .. n : c[i] = IF Digit(a, i) - Digit(b, i) - c[i - 1] < 0 THEN 1 ELSE 0
  BY <1>6 DEF Step
<1>8. c[0] = 0
  BY <1>6 DEF Step
<1> QED
  BY <1>6, <1>7, <1>8

\* The digits of a difference stand for the difference, when nothing is
\* borrowed beyond the top place.
LEMMA DifferenceExact ==
  ASSUME NEW a \in Buffers, NEW b \in Buffers, NEW n \in Nat,
         n # 0 => Digit(a, n) > Digit(b, n)
  PROVE  /\ Difference(a, b, n) \in [1 .. n -> Digits]
         /\ ValueFrom(Difference(a, b, n), n)[1] =
               ValueFrom(Places(a, n), n)[1] - ValueFrom(Places(b, n), n)[1]
<1> DEFINE p == Places(a, n)
           q == Places(b, n)
           s == Difference(a, b, n)
           c == Borrows(a, b, n)
           v == ValueFrom(p, n)
           w == ValueFrom(q, n)
           z == ValueFrom(s, n)
           g == [i \in 1 .. n + 1 |-> v[i] - w[i] - c[i - 1]]
<1>1. \A i \in 1 .. n : Digit(a, i) \in Digits /\ Digit(b, i) \in Digits
  BY BufferFacts
<1>2. \A i \in 1 .. n : /\ p[i] = Digit(a, i) /\ q[i] = Digit(b, i)
                        /\ p[i] \in Int /\ q[i] \in Int /\ p[i] \in Digits /\ q[i] \in Digits
  BY <1>1 DEF Places, Digits
<1>4. /\ c \in [0 .. n -> 0 .. 1] /\ c[0] = 0
      /\ \A i \in 1 .. n : c[i] = IF p[i] - q[i] - c[i - 1] < 0 THEN 1 ELSE 0
  BY <1>2, BorrowsFacts
<1>5. v[n + 1] = 0 /\ v \in [1 .. n + 1 -> Int] /\ \A i \in 1 .. n : v[i] = p[i] + Base * v[i + 1]
  BY <1>2, ValueFromFacts
<1>6. w[n + 1] = 0 /\ w \in [1 .. n + 1 -> Int] /\ \A i \in 1 .. n : w[i] = q[i] + Base * w[i + 1]
  BY <1>2, ValueFromFacts
<1>7. /\ s = [i \in 1 .. n |-> s[i]]
      /\ \A i \in 1 .. n : s[i] = (p[i] - q[i] - c[i - 1]) % Base
  BY <1>2 DEF Difference
<1>3. c[n] = 0
  <2>1. CASE n = 0
    BY <1>4, <2>1
  <2>2. CASE n # 0
    <3>1. n \in 1 .. n /\ p[n] > q[n] /\ p[n] \in Int /\ q[n] \in Int /\ c[n - 1] \in 0 .. 1
      BY <1>2, <1>4, <2>2
    <3>2. ~(p[n] - q[n] - c[n - 1] < 0)
      BY <3>1
    <3> QED
      BY <1>4, <3>1, <3>2
  <2> QED
    BY <2>1, <2>2
<1> HIDE DEF p, q, s, c, v, w
<1>8. ASSUME NEW i \in 1 .. n PROVE s[i] \in Digits /\ p[i] - q[i] - c[i - 1] = s[i] - Base * c[i]
  <2>1. PICK x \in Int : x = p[i] - q[i] - c[i - 1] /\ x >= -Base /\ x < Base
    <3>1. c[i - 1] \in 0 .. 1 /\ p[i] \in Digits /\ q[i] \in Digits
      BY <1>2, <1>4
    <3> QED
      BY <3>1, BaseAssumption DEF Digits
  <2>2. c[i] = (IF x < 0 THEN 1 ELSE 0) /\ s[i] = x % Base
    BY <1>4, <1>7, <2>1
  <2>3. x % Base = IF x < 0 THEN x + Base ELSE x
    BY <2>1, BaseAssumption
  <2>4. CASE x < 0
    <3>1. c[i] = 1 /\ s[i] = x + Base
      BY <2>2, <2>3, <2>4
    <3> QED
      BY <2>1, <2>4, <3>1, BaseAssumption DEF Digits
  <2>5. CASE ~(x < 0)
    <3>1. c[i] = 0 /\ s[i] = x
      BY <2>2, <2>3, <2>5
    <3> QED
      BY <2>1, <2>5, <3>1, BaseAssumption DEF Digits
  <2> QED
    BY <2>4, <2>5
<1>10. s \in [1 .. n -> Digits]
  BY <1>7, <1>8
<1>11. \A i \in 1 .. n : s[i] \in Int
  BY <1>10 DEF Digits
<1>12. z[n + 1] = 0 /\ \A i \in 1 .. n : z[i] = s[i] + Base * z[i + 1]
  BY <1>11, ValueFromFacts
<1>13. z[n + 1] = g[n + 1]
  <2>1. n + 1 \in 1 .. n + 1 /\ (n + 1) - 1 = n
    OBVIOUS
  <2>2. g[n + 1] = v[n + 1] - w[n + 1] - c[(n + 1) - 1]
    BY <2>1
  <2>3. g[n + 1] = 0
    BY <1>3, <1>5, <1>6, <2>1, <2>2
  <2> QED
    BY <1>12, <2>3
<1>14. ASSUME NEW i \in 1 .. n PROVE z[i] = s[i] + Base * z[i + 1] /\ g[i] = s[i] + Base * g[i + 1]
  <2>1. i \in 1 .. n + 1 /\ i + 1 \in 1 .. n + 1 /\ i \in 0 .. n /\ i - 1 \in 0 .. n /\ (i + 1) - 1 = i
    OBVIOUS
  <2>0. v[i + 1] \in Int /\ w[i + 1] \in Int /\ c[i] \in Int /\ c[i - 1] \in Int
    BY <1>4, <1>5, <1>6, <2>1
  <2>2. PICK x \in Int, y \in Int, d \in Int, e \in Int :
           x = v[i + 1] /\ y = w[i + 1] /\ d = c[i] /\ e = c[i - 1]
    BY <2>0
  <2>3. g[i + 1] = x - y - d /\ g[i] = (p[i] + Base * x) - (q[i] + Base * y) - e
    BY <1>5, <1>6, <2>1, <2>2
  <2>4. Base * (x - y - d) = Base * x - Base * y - Base * d
    BY BaseAssumption
  <2>5. PICK X \in Int, Y \in Int, D \in Int : X = Base * x /\ Y = Base * y /\ D = Base * d
    BY BaseAssumption
  <2>6. p[i] - q[i] - e = s[i] - D /\ p[i] \in Int /\ q[i] \in Int /\ s[i] \in Int
    BY <1>2, <1>8, <1>11, <2>1, <2>2, <2>5
  <2> HIDE DEF g
  <2>7. g[i] = (p[i] + X) - (q[i] + Y) - e /\ Base * g[i + 1] = X - Y - D
    BY <2>3, <2>4, <2>5
  <2>8. g[i] = s[i] + Base * g[i + 1]
    <3>1. PICK P \in Int, Q \in Int, R \in Int : P = p[i] /\ Q = q[i] /\ R = s[i]
      BY <2>6
    <3>2. P - Q - e = R - D
      BY <2>6, <3>1
    <3>3. (P + X) - (Q + Y) - e = R + (X - Y - D)
      BY <3>2
    <3> QED
      BY <2>7, <3>1, <3>3
  <2> QED
    BY <1>12, <2>8
<1>15. z[1] = g[1]
  <2> HIDE DEF z, g
  <2>1. \A i \in 1 .. n + 1 : z[i] = g[i]
    BY <1>13, <1>14, SameRecursion
  <2> QED
    BY <2>1
<1>16. g[1] = v[1] - w[1]
  <2>1. v[1] \in Int /\ w[1] \in Int /\ g[1] = v[1] - w[1] - c[0]
    BY <1>5, <1>6
  <2> QED
    BY <1>4, <2>1
<1> QED
  BY <1>10, <1>15, <1>16 DEF p, q, s, v, w

\* A difference whose top places agree.
LEMMA DifferenceBelow ==
  ASSUME NEW a \in Buffers, NEW b \in Buffers, Size(a) = Size(b),
         NEW n \in 1 .. Size(a), a.digits[n] > b.digits[n],
         \A i \in n + 1 .. Size(a) : a.digits[i] = b.digits[i]
  PROVE  /\ Difference(a, b, n) \in [1 .. n -> Digits]
         /\ ValueFrom(Difference(a, b, n), n)[1] = AbsValue(a) - AbsValue(b)
<1> DEFINE m == Size(a)
           da == a.digits
           db == b.digits
<1>1. /\ m \in Nat /\ \A i \in 1 .. m : /\ da[i] \in Digits /\ Digit(a, i) = da[i]
                                        /\ db[i] \in Digits /\ Digit(b, i) = db[i]
  BY BufferFacts
<1>2. n \in Nat /\ n \in 1 .. m /\ n \in 0 .. m /\ Digit(a, n) > Digit(b, n)
  BY <1>1
<1>3. \A i \in 1 .. m : da[i] \in Int /\ db[i] \in Int
  BY <1>1 DEF Digits
<1>4. \A i \in 1 .. n : /\ da[i] \in Int /\ Places(a, n)[i] = da[i]
                        /\ db[i] \in Int /\ Places(b, n)[i] = db[i]
  BY <1>1, <1>2, <1>3 DEF Places
<1>5. AbsValue(a) = ValueFrom(da, m)[1] /\ AbsValue(b) = ValueFrom(db, m)[1]
  BY DEF AbsValue
<1>6. \A i \in n + 1 .. m : da[i] = db[i]
  OBVIOUS
<1> HIDE DEF m, da, db
<1>7. /\ Difference(a, b, n) \in [1 .. n -> Digits]
      /\ ValueFrom(Difference(a, b, n), n)[1] =
            ValueFrom(Places(a, n), n)[1] - ValueFrom(Places(b, n), n)[1]
  BY <1>2, DifferenceExact
<1>8. /\ ValueFrom(Places(a, n), n)[1] = ValueFrom(da, n)[1]
      /\ ValueFrom(Places(b, n), n)[1] = ValueFrom(db, n)[1]
  BY <1>2, <1>4, ValueFromSame
<1>9. ValueFrom(da, m)[1] - ValueFrom(db, m)[1] = ValueFrom(da, n)[1] - ValueFrom(db, n)[1]
  BY <1>1, <1>2, <1>3, <1>6, ValueFromTop
<1> QED
  BY <1>5, <1>7, <1>8, <1>9

\* The difference to a shorter number.
LEMMA DifferenceLonger ==
  ASSUME NEW a \in BigInts, NEW b \in Buffers, Size(a) > Size(b)
  PROVE  /\ Difference(a, b, Size(a)) \in [1 .. Size(a) -> Digits]
         /\ ValueFrom(Difference(a, b, Size(a)), Size(a))[1] = AbsValue(a) - AbsValue(b)
<1> DEFINE n == Size(a)
<1>1. a \in Buffers /\ Normalized(a) /\ a.num \in Int /\ Size(b) \in Nat
  BY BufferFacts DEF BigInts
<1>2. n \in Nat /\ n > 0 /\ n >= Size(b) /\ n >= n /\ n \in 1 .. n
  BY <1>1, BufferFacts
<1>3. Digit(a, n) > Digit(b, n)
  <2>1. Digit(b, n) = 0
    BY <1>2, BufferFacts
  <2>2. Digit(a, n) = a.digits[n] /\ a.digits[n] \in Digits
    BY <1>1, <1>2, BufferFacts
  <2>3. a.digits[n] # 0
    BY <1>1, <1>2, BufferFacts DEF Normalized
  <2> QED
    BY <2>1, <2>2, <2>3 DEF Digits
<1>4. /\ ValueFrom(Places(a, n), n)[1] = AbsValue(a)
      /\ ValueFrom(Places(b, n), n)[1] = AbsValue(b)
  BY <1>1, <1>2, PlacesValue
<1> HIDE DEF n
<1>5. /\ Difference(a, b, n) \in [1 .. n -> Digits]
      /\ ValueFrom(Difference(a, b, n), n)[1] =
            ValueFrom(Places(a, n), n)[1] - ValueFrom(Places(b, n), n)[1]
  BY <1>1, <1>2, <1>3, DifferenceExact
<1> QED
  BY <1>4, <1>5 DEF n

\* What x_sub and x_sub2 compute, and where x_sub stores as many digits as it
\* says it does.
LEMMA SubtractedExact ==
  ASSUME NEW a \in BigInts, NEW b \in BigInts
  PROVE  LET o == Order(a, b)
             d == Subtracted(a, b, o)
         IN  /\ o.sign \in {-1, 1} /\ o.n \in Nat /\ o.n <= MaxOf(Size(a), Size(b))
             /\ o.n = 0 => AbsValue(a) = AbsValue(b)
             /\ d \in [1 .. o.n -> Digits]
             /\ o.n # 0 => ValueFrom(d, o.n)[1] = IF o.sign < 0 THEN AbsValue(b) - AbsValue(a)
                                                  ELSE AbsValue(a) - AbsValue(b)
             /\ (o.sign > 0 /\ o.n # 0 /\ ~(Medium(a) /\ Medium(b)) /\ ~KeepsTopDigits(a, b)) =>
                   o.n = Size(a)
<1> DEFINE o == Order(a, b)
           d == Subtracted(a, b, o)
<1>1. a \in Buffers /\ b \in Buffers
  BY DEF BigInts
<1>2. Size(a) \in Nat /\ Size(b) \in Nat
  BY <1>1, BufferFacts
<1>3. CASE Size(a) < Size(b)
  <2>0. ~(Size(a) > Size(b))
    BY <1>2, <1>3
  <2>1. o = [sign |-> -1, n |-> Size(b)]
    BY <1>3, <2>0 DEF Order
  <2>2. o.sign = -1 /\ o.n = Size(b) /\ o.n # 0
    BY <1>2, <1>3, <2>1
  <2>3. d = Difference(b, a, Size(b))
    BY <2>2 DEF Subtracted
  <2>4. Size(b) > Size(a)
    BY <1>2, <1>3
  <2> HIDE DEF o, d
  <2>5. /\ d \in [1 .. o.n -> Digits]
        /\ ValueFrom(d, o.n)[1] = AbsValue(b) - AbsValue(a)
    BY <1>1, <2>2, <2>3, <2>4, DifferenceLonger
  <2>6. o.n <= MaxOf(Size(a), Size(b))
    BY <1>2, <2>2, <2>4 DEF MaxOf
  <2> QED
    BY <1>2, <2>2, <2>5, <2>6 DEF o, d
<1>4. CASE Size(a) > Size(b)
  <2>0. ~(Size(a) < Size(b))
    BY <1>2, <1>4
  <2>1. o = [sign |-> 1, n |-> Size(a)]
    BY <1>4, <2>0 DEF Order
  <2>2. o.sign = 1 /\ o.n = Size(a) /\ o.n # 0
    BY <1>2, <1>4, <2>1
  <2>3. d = Difference(a, b, Size(a))
    BY <2>2 DEF Subtracted
  <2> HIDE DEF o, d
  <2>5. /\ d \in [1 .. o.n -> Digits]
        /\ ValueFrom(d, o.n)[1] = AbsValue(a) - AbsValue(b)
    BY <1>1, <1>4, <2>2, <2>3, DifferenceLonger
  <2>6. o.n <= MaxOf(Size(a), Size(b))
    BY <1>2, <1>4, <2>2 DEF MaxOf
  <2> QED
    BY <1>2, <2>2, <2>5, <2>6 DEF o, d
<1>5. CASE Size(a) = Size(b)
  <2>0. ~(Size(a) < Size(b)) /\ ~(Size(a) > Size(b))
    BY <1>2, <1>5
  <2>1. PICK i : i = TopDifference(a, b, Size(a))
    OBVIOUS
  <2>2. o = [sign |-> IF x_cmp(a, b) < 0 THEN -1 ELSE 1, n |-> i]
    BY <2>0, <2>1 DEF Order
  <2>3. o.sign = (IF x_cmp(a, b) < 0 THEN -1 ELSE 1) /\ o.n = i
    BY <2>2
  <2>4. /\ i \in 0 .. Size(a)
        /\ i # 0 => a.digits[i] # b.digits[i]
        /\ \A j \in i + 1 .. Size(a) : a.digits[j] = b.digits[j]
    BY <1>2, <2>1, TopDifferenceFacts
  <2>5. x_cmp(a, b) = IF i = 0 THEN 0 ELSE a.digits[i] - b.digits[i]
    BY <2>1 DEF x_cmp
  <2>6. i = 0 => AbsValue(a) = AbsValue(b)
    BY <1>1, <1>5, <2>5, x_cmpExact
  <2>7. \A j \in 1 .. Size(a) : a.digits[j] \in Int /\ b.digits[j] \in Int
    BY <1>1, <1>5, BufferFacts DEF Digits
  <2>8. d = IF o.sign < 0 THEN Difference(b, a, i) ELSE Difference(a, b, i)
    BY <2>3 DEF Subtracted
  <2>9. i <= MaxOf(Size(a), Size(b)) /\ i \in Nat
    BY <1>2, <1>5, <2>4 DEF MaxOf
  <2> HIDE DEF o, d
  <2>10. CASE i = 0
    <3>1. o.sign = 1 /\ o.n = 0
      BY <2>3, <2>5, <2>10
    <3>2. d = Difference(a, b, 0)
      BY <2>8, <2>10, <3>1
    <3>3. d \in [1 .. 0 -> Digits]
      BY <3>2 DEF Difference
    <3> QED
      BY <2>6, <2>9, <2>10, <3>1, <3>3 DEF o, d
  <2>11. CASE i # 0 /\ a.digits[i] < b.digits[i]
    <3>1. i \in 1 .. Size(b) /\ b.digits[i] > a.digits[i] /\ a.digits[i] - b.digits[i] < 0
      BY <1>5, <2>4, <2>7, <2>11
    <3>2. o.sign = -1
      BY <2>3, <2>5, <2>11, <3>1
    <3>3. \A j \in i + 1 .. Size(b) : b.digits[j] = a.digits[j]
      BY <1>5, <2>4
    <3>4. d \in [1 .. i -> Digits] /\ ValueFrom(d, i)[1] = AbsValue(b) - AbsValue(a)
      BY <1>1, <1>5, <2>8, <3>1, <3>2, <3>3, DifferenceBelow
    <3> QED
      BY <2>3, <2>9, <2>11, <3>2, <3>4 DEF o, d
  <2>12. CASE i # 0 /\ a.digits[i] > b.digits[i]
    <3>1. i \in 1 .. Size(a) /\ a.digits[i] - b.digits[i] > 0 /\ ~(a.digits[i] - b.digits[i] < 0)
      BY <2>4, <2>7, <2>12
    <3>2. o.sign = 1 /\ x_cmp(a, b) > 0
      BY <2>3, <2>5, <2>12, <3>1
    <3>3. d \in [1 .. i -> Digits] /\ ValueFrom(d, i)[1] = AbsValue(a) - AbsValue(b)
      BY <1>1, <1>5, <2>4, <2>8, <2>12, <3>1, <3>2, DifferenceBelow
    <3>4. ASSUME ~(Medium(a) /\ Medium(b)), ~KeepsTopDigits(a, b) PROVE i = Size(a)
      <4>1. a.digits[Size(a)] # b.digits[Size(a)]
        BY <1>5, <3>2, <3>4 DEF KeepsTopDigits
      <4> QED
        BY <1>2, <2>4, <3>1, <4>1
    <3> QED
      BY <2>3, <2>9, <2>12, <3>2, <3>3, <3>4 DEF o, d
  <2>13. i = 0 \/ (i # 0 /\ a.digits[i] < b.digits[i]) \/ (i # 0 /\ a.digits[i] > b.digits[i])
    BY <1>2, <2>4, <2>7
  <2> QED
    BY <2>10, <2>11, <2>12, <2>13
<1> QED
  BY <1>2, <1>3, <1>4, <1>5

\* A number is set to zero.
LEMMA ZeroStored ==
  ASSUME NEW a \in Buffers, Growable(a)
  PROVE  LET r == [a EXCEPT !.num = 0]
         IN  r \in BigInts /\ Growable(r) /\ Value(r) = 0
<1> DEFINE r == [a EXCEPT !.num = 0]
<1>1. a \in [num : Int, digits : Seq(Digits), const_size : BOOLEAN, failed : BOOLEAN]
  BY DEF Buffers
<1>2. /\ r \in [num : Int, digits : Seq(Digits), const_size : BOOLEAN, failed : BOOLEAN]
      /\ r.num = 0 /\ r.digits = a.digits /\ Growable(r)
  BY <1>1 DEF Growable
<1>3. Len(r.digits) \in Nat
  BY <1>2
<1> HIDE DEF r
<1>4. Size(r) = 0
  BY <1>2 DEF Size, AbsOf
<1>5. r \in BigInts
  BY <1>2, <1>3, <1>4 DEF BigInts, Buffers, Normalized
<1>6. AbsValue(r) = 0
  BY <1>2, <1>5, AbsValueFacts
<1> QED
  BY <1>2, <1>5, <1>6 DEF Value, r

\* x_sub subtracts magnitudes and gives the difference the sign of a.
LEMMA x_subExact ==
  ASSUME NEW a \in BigInts, Growable(a), NEW b \in BigInts,
         ~(Medium(a) /\ Medium(b)), ~KeepsTopDigits(a, b)
  PROVE  LET r == x_sub(a, b)
             v == AbsValue(a) - AbsValue(b)
         IN  r \in BigInts /\ Growable(r) /\ Value(r) = (IF a.num < 0 THEN -v ELSE v)
<1> DEFINE o == Order(a, b)
           n == o.n
           d == Subtracted(a, b, o)
           size == MaxOf(Size(a), Size(b)) + 1
           num == IF o.sign > 0 THEN a.num ELSE IF a.num < 0 THEN n ELSE -n
           v == AbsValue(a) - AbsValue(b)
<1>1. /\ o.sign \in {-1, 1} /\ n \in Nat /\ n <= MaxOf(Size(a), Size(b))
      /\ n = 0 => AbsValue(a) = AbsValue(b)
      /\ d \in [1 .. n -> Digits]
      /\ n # 0 => ValueFrom(d, n)[1] = IF o.sign < 0 THEN AbsValue(b) - AbsValue(a)
                                       ELSE AbsValue(a) - AbsValue(b)
      /\ o.sign > 0 /\ n # 0 => n = Size(a)
  BY SubtractedExact
<1>2. a \in Buffers /\ Size(a) \in Nat /\ Size(b) \in Nat /\ a.num \in Int
      /\ AbsValue(a) \in Nat /\ AbsValue(b) \in Nat /\ (a.num = Size(a) \/ a.num = -Size(a))
  BY AbsValueFacts, BufferFacts
<1>3. size \in Nat /\ n <= size
  BY <1>1, <1>2 DEF MaxOf
<1>4. x_sub(a, b) = SubInto(ensure_bigint_size(a, size), o, num, d)
  BY DEF x_sub
<1> HIDE DEF o, d, size
<1>5. CASE n = 0
  <2>1. x_sub(a, b) = [ensure_bigint_size(a, size) EXCEPT !.num = 0]
    BY <1>4, <1>5 DEF SubInto
  <2>2. v = 0
    BY <1>1, <1>2, <1>5
  <2>3. ensure_bigint_size(a, size) \in Buffers /\ Growable(ensure_bigint_size(a, size))
    BY <1>2, <1>3, EnsureFacts
  <2> QED
    BY <2>1, <2>2, <2>3, ZeroStored
<1>6. CASE n # 0
  <2>1. x_sub(a, b) = bigint_normalize(Overwrite(ensure_bigint_size(a, size), num, d))
    BY <1>4, <1>6 DEF SubInto
  <2>2. num \in {n, -n}
    BY <1>1, <1>2, <1>6
  <2>3. /\ x_sub(a, b) \in BigInts /\ Growable(x_sub(a, b))
        /\ Value(x_sub(a, b)) = IF num < 0 THEN -ValueFrom(d, n)[1] ELSE ValueFrom(d, n)[1]
    <3> HIDE DEF num, n
    <3> QED
      BY <1>1, <1>2, <1>3, <2>1, <2>2, Stored
  <2>4. CASE o.sign = 1
    <3>1. num = a.num /\ ValueFrom(d, n)[1] = v
      BY <1>1, <1>6, <2>4
    <3> QED
      BY <2>3, <3>1
  <2>5. CASE o.sign = -1
    <3>1. ValueFrom(d, n)[1] = AbsValue(b) - AbsValue(a)
      BY <1>1, <1>6, <2>5
    <3>2. num = (IF a.num < 0 THEN n ELSE -n) /\ (num < 0 <=> ~(a.num < 0))
      BY <1>1, <1>2, <1>6, <2>5
    <3>3. -(AbsValue(b) - AbsValue(a)) = v /\ -v = AbsValue(b) - AbsValue(a)
      BY <1>2
    <3> HIDE DEF num, v, n
    <3> QED
      BY <2>3, <3>1, <3>2, <3>3 DEF v
  <2> QED
    BY <1>1, <2>4, <2>5
<1> QED
  BY <1>5, <1>6

\* x_sub2 subtracts magnitudes.
LEMMA x_sub2Exact ==
  ASSUME NEW a \in BigInts, NEW b \in BigInts, Growable(b)
  PROVE  LET r == x_sub2(a, b)
         IN  r \in BigInts /\ Growable(r) /\ Value(r) = AbsValue(a) - AbsValue(b)
<1> DEFINE o == Order(a, b)
           n == o.n
           d == Subtracted(a, b, o)
           size == MaxOf(Size(a), Size(b)) + 1
           num == n * o.sign
<1>1. /\ o.sign \in {-1, 1} /\ n \in Nat /\ n <= MaxOf(Size(a), Size(b))
      /\ n = 0 => AbsValue(a) = AbsValue(b)
      /\ d \in [1 .. n -> Digits]
      /\ n # 0 => ValueFrom(d, n)[1] = IF o.sign < 0 THEN AbsValue(b) - AbsValue(a)
                                       ELSE AbsValue(a) - AbsValue(b)
  BY SubtractedExact
<1>2. b \in Buffers /\ Size(a) \in Nat /\ Size(b) \in Nat
      /\ AbsValue(a) \in Nat /\ AbsValue(b) \in Nat
  BY AbsValueFacts, BufferFacts
<1>3. size \in Nat /\ n <= size
  BY <1>1, <1>2 DEF MaxOf
<1>4. x_sub2(a, b) = SubInto(ensure_bigint_size(b, size), o, num, d)
  BY DEF x_sub2
<1> HIDE DEF o, d, size
<1>5. CASE n = 0
  <2>1. x_sub2(a, b) = [ensure_bigint_size(b, size) EXCEPT !.num = 0]
    BY <1>4, <1>5 DEF SubInto
  <2>2. AbsValue(a) - AbsValue(b) = 0
    BY <1>1, <1>2, <1>5
  <2>3. ensure_bigint_size(b, size) \in Buffers /\ Growable(ensure_bigint_size(b, size))
    BY <1>2, <1>3, EnsureFacts
  <2> QED
    BY <2>1, <2>2, <2>3, ZeroStored
<1>6. CASE n # 0
  <2>1. x_sub2(a, b) = bigint_normalize(Overwrite(ensure_bigint_size(b, size), num, d))
    BY <1>4, <1>6 DEF SubInto
  <2>2. num = IF o.sign < 0 THEN -n ELSE n
    BY <1>1
  <2>3. num \in {n, -n} /\ (num < 0 <=> o.sign < 0)
    BY <1>1, <1>6, <2>2
  <2>4. /\ x_sub2(a, b) \in BigInts /\ Growable(x_sub2(a, b))
        /\ Value(x_sub2(a, b)) = IF num < 0 THEN -ValueFrom(d, n)[1] ELSE ValueFrom(d, n)[1]
    <3> HIDE DEF num, n
    <3> QED
      BY <1>1, <1>2, <1>3, <2>1, <2>3, Stored
  <2> HIDE DEF num, n
  <2> QED
    BY <1>1, <1>2, <1>6, <2>3, <2>4
<1> QED
  BY <1>5, <1>6

-----------------------------------------------------------------------------
(* Machine integers. *)

\* A digit below others.
LEMMA DigitBelow ==
  ASSUME NEW d \in Digits, NEW ds \in Seq(Digits)
  PROVE  LET es == <<d>> \o ds
         IN  /\ es \in Seq(Digits) /\ Len(es) = Len(ds) + 1
             /\ es[1] = d /\ \A i \in 1 .. Len(ds) : es[i + 1] = ds[i]
             /\ ValueFrom(es, Len(es))[1] = d + Base * ValueFrom(ds, Len(ds))[1]
<1> DEFINE es == <<d>> \o ds
           n == Len(ds)
           v == ValueFrom(ds, n)
           w == ValueFrom(es, n + 1)
           f == [i \in 1 .. n + 1 |-> w[i + 1]]
<1>1. <<d>> \in Seq(Digits) /\ Len(<<d>>) = 1 /\ n \in Nat
  OBVIOUS
<1>2. es \in Seq(Digits) /\ Len(es) = n + 1
  BY <1>1
<1>3. es[1] = d
  BY <1>1
<1>4. ASSUME NEW i \in 1 .. n PROVE es[i + 1] = ds[i]
  <2>1. i + 1 \in 1 .. Len(es) /\ i + 1 > 1 /\ (i + 1) - 1 = i
    BY <1>1, <1>2
  <2> QED
    BY <1>1, <2>1
<1> HIDE DEF es, n
<1>5. (\A i \in 1 .. n : ds[i] \in Int) /\ \A i \in 1 .. n + 1 : es[i] \in Int
  <2>1. (\A i \in 1 .. n : ds[i] \in Digits) /\ \A i \in 1 .. n + 1 : es[i] \in Digits
    BY <1>1, <1>2 DEF n
  <2> QED
    BY <2>1 DEF Digits
<1>6. v[n + 1] = 0 /\ \A i \in 1 .. n : v[i] = ds[i] + Base * v[i + 1]
  BY <1>1, <1>5, ValueFromFacts
<1>7. w[(n + 1) + 1] = 0 /\ \A i \in 1 .. n + 1 : w[i] = es[i] + Base * w[i + 1]
  BY <1>1, <1>5, ValueFromFacts
<1> HIDE DEF v, w
<1>8. f[n + 1] = 0
  BY <1>1, <1>7
<1>9. ASSUME NEW i \in 1 .. n PROVE f[i] = ds[i] + Base * f[i + 1]
  <2>1. i + 1 \in 1 .. n + 1 /\ i \in 1 .. n + 1
    BY <1>1
  <2>2. w[i + 1] = es[i + 1] + Base * w[(i + 1) + 1]
    BY <1>7, <2>1
  <2> QED
    BY <1>4, <2>1, <2>2
<1>10. f[1] = w[2]
  BY <1>1
<1> HIDE DEF f
<1>11. \A i \in 1 .. n + 1 : f[i] = v[i]
  BY <1>1, <1>6, <1>8, <1>9, SameRecursion
<1>12. w[1] = d + Base * v[1]
  <2>1. 1 \in 1 .. n + 1
    BY <1>1
  <2>2. w[1] = es[1] + Base * w[1 + 1]
    BY <1>7, <2>1
  <2> QED
    BY <1>3, <1>10, <1>11, <2>1, <2>2
<1> QED
  BY <1>2, <1>3, <1>4, <1>12 DEF es, n, v, w

\* The digits of m are right: they stand for m, and the first is not zero.
RightDigits(ds, m) ==
    /\ ds \in Seq(Digits)
    /\ ValueFrom(ds, Len(ds))[1] = m
    /\ m = 0 => Len(ds) = 0
    /\ m # 0 => Len(ds) > 0 /\ ds[Len(ds)] # 0

\* The digit and the rest of a natural number.
LEMMA DigitAndRest ==
  ASSUME NEW m \in Nat, m # 0
  PROVE  /\ m % Base \in Digits /\ m \div Base \in 0 .. m - 1
         /\ m = (m % Base) + Base * (m \div Base)
<1>1. PICK q \in Int, r \in Nat : q = m \div Base /\ r = m % Base /\ r < Base /\ m = Base * q + r
  BY BaseAssumption, DivModFacts
<1>2. q >= 0
  <2> SUFFICES ASSUME q < 0 PROVE FALSE
    BY <1>1
  <2>1. PICK t \in Nat : q = -1 - t
    <3>1. -1 - q \in Nat /\ q = -1 - (-1 - q)
      OBVIOUS
    <3> QED
      BY <3>1
  <2>2. Base * q = -Base - Base * t /\ Base * t \in Nat
    BY <2>1, BaseAssumption
  <2>3. PICK u \in Nat : u = Base * t
    BY <2>2
  <2> QED
    BY <1>1, <2>2, <2>3, BaseAssumption
<1>3. q < m
  <2>1. PICK u \in Nat : u = Base * q /\ u >= 16 * q
    <3>1. PICK t \in Nat : Base = 16 + t
      <4>1. Base - 16 \in Nat /\ Base = 16 + (Base - 16)
        BY BaseAssumption
      <4> QED
        BY <4>1
    <3>2. (16 + t) * q = 16 * q + t * q /\ t * q \in Nat
      BY <1>2
    <3> QED
      BY <1>2, <3>1, <3>2
  <2>2. m = u + r
    BY <1>1, <2>1
  <2> QED
    BY <1>2, <2>1, <2>2
<1> QED
  BY <1>1, <1>2, <1>3, BaseAssumption DEF Digits

\* count_digits_size and set_uint64_to_digits: the digits of a machine integer.
LEMMA DigitsOfExact ==
  ASSUME NEW n \in Nat
  PROVE  RightDigits(DigitsOf(n), n)
<1> DEFINE Step(f) == [m \in 0 .. n |-> IF m = 0 THEN <<>> ELSE <<m % Base>> \o f[m \div Base]]
           T == [0 .. n -> Seq(Digits)]
           c == [m \in 0 .. n |-> <<>>]
           F == [i \in 1 .. n |-> [f \in T |-> [f EXCEPT ![i] = <<i % Base>> \o f[i \div Base]]]]
<1>1. \A m \in 1 .. n : m % Base \in Digits /\ m \div Base \in 0 .. m - 1 /\ m \div Base \in 0 .. n
  <2> TAKE m \in 1 .. n
  <2>1. m \in Nat /\ m # 0
    OBVIOUS
  <2>2. m % Base \in Digits /\ m \div Base \in 0 .. m - 1
    BY <2>1, DigitAndRest
  <2> QED
    BY <2>2
<1>2. c \in T
  OBVIOUS
<1>3. F \in [1 .. n -> [T -> T]]
  <2>1. ASSUME NEW i \in 1 .. n, NEW f \in T
        PROVE  [f EXCEPT ![i] = <<i % Base>> \o f[i \div Base]] \in T
    <3>1. f[i \div Base] \in Seq(Digits) /\ i % Base \in Digits
      BY <1>1
    <3>2. <<i % Base>> \o f[i \div Base] \in Seq(Digits)
      BY <3>1, DigitBelow
    <3> QED
      BY <3>2
  <2> HIDE DEF T
  <2> QED
    BY <2>1
<1>4. PICK g : RecursiveUp(T, c, n, F, g)
  <2> HIDE DEF F, T, c
  <2> QED
    BY <1>2, <1>3, UpRecursion, Zenon
<1>5. /\ g \in [0 .. n -> T] /\ g[0] = c
      /\ \A i \in 1 .. n : g[i] = [g[i - 1] EXCEPT ![i] = <<i % Base>> \o g[i - 1][i \div Base]]
  <2>1. g \in [0 .. n -> T] /\ g[0] = c /\ \A i \in 1 .. n : g[i] = F[i][g[i - 1]]
    BY <1>4 DEF RecursiveUp
  <2>2. ASSUME NEW i \in 1 .. n
        PROVE g[i] = [g[i - 1] EXCEPT ![i] = <<i % Base>> \o g[i - 1][i \div Base]]
    <3>1. i - 1 \in 0 .. n
      OBVIOUS
    <3>2. g[i - 1] \in T /\ g[i] = F[i][g[i - 1]]
      BY <2>1, <3>1
    <3> HIDE DEF T
    <3> QED
      BY <3>2
  <2> QED
    BY <2>1, <2>2
<1>6. \A i \in 0 .. n : \A m \in 0 .. i : g[i][m] = g[m][m]
  <2> DEFINE S == {i \in 0 .. n : \A m \in 0 .. i : g[i][m] = g[m][m]}
  <2>1. 0 \in S
    OBVIOUS
  <2>2. ASSUME NEW i \in 1 .. n, i - 1 \in S PROVE i \in S
    <3>1. ASSUME NEW m \in 0 .. i PROVE g[i][m] = g[m][m]
      <4>1. CASE m = i
        BY <4>1
      <4>2. CASE m # i
        <5>1. m \in 0 .. i - 1 /\ m \in 0 .. n /\ i - 1 \in 0 .. n
          BY <4>2
        <5>2. g[i - 1] \in T /\ g[i] = [g[i - 1] EXCEPT ![i] = <<i % Base>> \o g[i - 1][i \div Base]]
          BY <1>5, <5>1
        <5>3. g[i][m] = g[i - 1][m]
          BY <4>2, <5>1, <5>2
        <5> QED
          BY <2>2, <5>1, <5>3
      <4> QED
        BY <4>1, <4>2
    <3>2. i \in 0 .. n
      OBVIOUS
    <3> QED
      BY <3>1, <3>2
  <2>3. 0 .. n \subseteq S
    <3> HIDE DEF S
    <3> QED
      BY <2>1, <2>2, UpInduction
  <2> QED
    BY <2>3
<1> DEFINE h == [m \in 0 .. n |-> g[m][m]]
<1>7. h = Step(h)
  <2>1. h[0] = <<>>
    BY <1>5
  <2>2. ASSUME NEW m \in 1 .. n PROVE h[m] = <<m % Base>> \o h[m \div Base]
    <3>1. m \in 0 .. n /\ m - 1 \in 0 .. n /\ m \div Base \in 0 .. m - 1 /\ m \div Base \in 0 .. n
      BY <1>1
    <3>2. g[m - 1] \in T /\ g[m] = [g[m - 1] EXCEPT ![m] = <<m % Base>> \o g[m - 1][m \div Base]]
      BY <1>5, <3>1
    <3>3. g[m][m] = <<m % Base>> \o g[m - 1][m \div Base]
      BY <3>1, <3>2
    <3>4. g[m - 1][m \div Base] = g[m \div Base][m \div Base]
      BY <1>6, <3>1
    <3> QED
      BY <3>1, <3>3, <3>4
  <2>3. ASSUME NEW m \in 0 .. n
        PROVE  h[m] = IF m = 0 THEN <<>> ELSE <<m % Base>> \o h[m \div Base]
    <3>1. m = 0 \/ (m # 0 /\ m \in 1 .. n)
      OBVIOUS
    <3> HIDE DEF h
    <3> QED
      BY <2>1, <2>2, <3>1
  <2>4. h = [m \in 0 .. n |-> h[m]]
    OBVIOUS
  <2> HIDE DEF h
  <2> QED
    BY <2>3, <2>4
<1> HIDE DEF h, F, c
<1>8. DigitsOf(n) = (CHOOSE f : f = Step(f))[n]
  BY DEF DigitsOf
<1> HIDE DEF Step
<1>9. (CHOOSE f : f = Step(f)) = Step(CHOOSE f : f = Step(f))
  BY <1>7, Zenon
<1>10. PICK of : of = (CHOOSE f : f = Step(f)) /\ of = Step(of)
  BY <1>9
<1>11. of[0] = <<>> /\ \A m \in 1 .. n : of[m] = <<m % Base>> \o of[m \div Base]
  <2>1. \A m \in 0 .. n : of[m] = IF m = 0 THEN <<>> ELSE <<m % Base>> \o of[m \div Base]
    BY <1>10 DEF Step
  <2>2. 0 \in 0 .. n /\ \A m \in 1 .. n : m \in 0 .. n /\ m # 0
    OBVIOUS
  <2> QED
    BY <2>1, <2>2
<1> HIDE DEF T
<1>12. \A i \in 0 .. n : \A m \in 0 .. i : RightDigits(of[m], m)
  <2> DEFINE S == {i \in 0 .. n : \A m \in 0 .. i : RightDigits(of[m], m)}
  <2>1. 0 \in S
    <3>1. <<>> \in Seq(Digits) /\ Len(<<>>) = 0
      OBVIOUS
    <3>2. ValueFrom(<<>>, 0)[1] = 0
      BY ValueZero
    <3>3. RightDigits(of[0], 0)
      BY <1>11, <3>1, <3>2 DEF RightDigits
    <3> QED
      BY <3>3
  <2>2. ASSUME NEW i \in 1 .. n, i - 1 \in S PROVE i \in S
    <3>1. i % Base \in Digits /\ i \div Base \in 0 .. i - 1 /\ i = (i % Base) + Base * (i \div Base)
      <4>1. i \in Nat /\ i # 0
        OBVIOUS
      <4> QED
        BY <4>1, DigitAndRest
    <3>2. PICK q \in 0 .. i - 1, d \in Digits : q = i \div Base /\ d = i % Base /\ i = d + Base * q
      BY <3>1
    <3>3. RightDigits(of[q], q)
      BY <2>2
    <3>4. PICK ds, es : ds \in Seq(Digits) /\ ds = of[q] /\ es = <<d>> \o ds /\ of[i] = es
      BY <1>11, <3>2, <3>3 DEF RightDigits
    <3>5. /\ es \in Seq(Digits) /\ Len(es) = Len(ds) + 1 /\ Len(ds) \in Nat
          /\ es[1] = d /\ \A k \in 1 .. Len(ds) : es[k + 1] = ds[k]
          /\ ValueFrom(es, Len(es))[1] = d + Base * q
      BY <3>3, <3>4, DigitBelow DEF RightDigits
    <3>6. es[Len(es)] # 0
      <4>1. CASE q = 0
        <5>1. d = i /\ d # 0
          BY <3>2, <4>1, BaseAssumption DEF Digits
        <5>2. Len(ds) = 0
          BY <3>3, <3>4, <4>1 DEF RightDigits
        <5> QED
          BY <3>5, <5>1, <5>2
      <4>2. CASE q # 0
        <5>1. Len(ds) > 0 /\ ds[Len(ds)] # 0
          BY <3>3, <3>4, <4>2 DEF RightDigits
        <5>2. Len(ds) \in 1 .. Len(ds)
          BY <3>5, <5>1
        <5> QED
          BY <3>5, <5>1, <5>2
      <4> QED
        BY <4>1, <4>2
    <3>7. RightDigits(of[i], i)
      BY <3>2, <3>4, <3>5, <3>6 DEF RightDigits
    <3>8. ASSUME NEW m \in 0 .. i PROVE RightDigits(of[m], m)
      <4>1. m = i \/ m \in 0 .. i - 1
        OBVIOUS
      <4> QED
        BY <2>2, <3>7, <4>1
    <3>9. i \in 0 .. n
      OBVIOUS
    <3> QED
      BY <3>8, <3>9
  <2>3. 0 .. n \subseteq S
    <3> HIDE DEF S
    <3> QED
      BY <2>1, <2>2, UpInduction
  <2> QED
    BY <2>3
<1> QED
  BY <1>8, <1>10, <1>12

\* A number is set to a machine integer.
LEMMA SetExact ==
  ASSUME NEW a \in Buffers, Growable(a), NEW v \in Int
  PROVE  LET r == fklSetBigIntI(a, v)
         IN  r \in BigInts /\ Growable(r) /\ Value(r) = v
<1> DEFINE m == AbsOf(v)
           ds == DigitsOf(m)
           n == Len(ds)
           num == IF v < 0 THEN -n ELSE n
           r == fklSetBigIntI(a, v)
<1>1. m \in Nat /\ (v < 0 => v = -m) /\ (~(v < 0) => v = m)
  BY DEF AbsOf
<1>2. RightDigits(ds, m)
  BY <1>1, DigitsOfExact
<1>3. r = Overwrite(ensure_bigint_size(a, n), num, ds)
  BY DEF fklSetBigIntI
<1> HIDE DEF m, ds, r
<1>4. n \in Nat /\ ds \in [1 .. n -> Digits] /\ ValueFrom(ds, n)[1] = m
  BY <1>2 DEF RightDigits
<1>5. num \in {n, -n} /\ n <= n /\ num \in Int
  BY <1>4
<1>6. (m = 0 => n = 0) /\ (m # 0 => n > 0 /\ ds[n] # 0)
  BY <1>2 DEF RightDigits
<1> HIDE DEF n
<1>7. /\ r \in Buffers /\ Growable(r) /\ r.num = num
      /\ \A i \in 1 .. n : r.digits[i] = ds[i]
      /\ Value(r) = (IF num < 0 THEN -m ELSE m)
  <2> HIDE DEF num
  <2> QED
    BY <1>3, <1>4, <1>5, StoredDigits
<1>8. Value(r) = v
  BY <1>1, <1>4, <1>6, <1>7
<1>9. Normalized(r)
  <2> SUFFICES ASSUME r.num # 0 PROVE r.digits[Size(r)] # 0
    BY DEF Normalized
  <2>1. Size(r) = n /\ n # 0
    BY <1>4, <1>7 DEF Size, AbsOf
  <2>2. n \in 1 .. n /\ ds[n] # 0
    BY <1>4, <1>6, <2>1
  <2> QED
    BY <1>7, <2>1, <2>2
<1> QED
  BY <1>7, <1>8, <1>9 DEF BigInts, r

\* The negative of a number.
LEMMA NegatedExact ==
  ASSUME NEW a \in BigInts
  PROVE  /\ Negated(a) \in BigInts /\ Value(Negated(a)) = -Value(a)
         /\ Growable(a) => Growable(Negated(a))
<1> DEFINE r == Negated(a)
<1>1. a \in Buffers /\ Normalized(a) /\ a.num \in Int /\ Size(a) \in Nat
  BY BufferFacts DEF BigInts
<1>2. a \in [num : Int, digits : Seq(Digits), const_size : BOOLEAN, failed : BOOLEAN]
  BY <1>1 DEF Buffers
<1>3. /\ r \in [num : Int, digits : Seq(Digits), const_size : BOOLEAN, failed : BOOLEAN]
      /\ r.num = -a.num /\ r.digits = a.digits /\ (Growable(a) => Growable(r))
  BY <1>1, <1>2 DEF Negated, Growable
<1> HIDE DEF r
<1>4. Size(r) = Size(a)
  BY <1>1, <1>3 DEF Size, AbsOf
<1>5. r \in BigInts
  BY <1>1, <1>3, <1>4 DEF BigInts, Buffers, Normalized
<1>6. AbsValue(r) = AbsValue(a) /\ AbsValue(a) \in Nat /\ (a.num = 0 => AbsValue(a) = 0)
  BY <1>3, <1>4, AbsValueFacts DEF AbsValue
<1>7. Value(r) = -Value(a)
  BY <1>1, <1>3, <1>6 DEF Value
<1> QED
  BY <1>3, <1>5, <1>7 DEF r

\* fklAddBigInt computes the sum in the buffer of a, whatever the signs and
\* lengths, unless it subtracts and keeps top digits (KeepsOnAdd).
THEOREM AddExact ==
  ASSUME NEW a \in BigInts, Growable(a), NEW b \in BigInts, ~KeepsOnAdd(a, b)
  PROVE  LET r == fklAddBigInt(a, b)
         IN  r \in BigInts /\ Growable(r) /\ Value(r) = Value(a) + Value(b)
<1>1. /\ a \in Buffers /\ a.num \in Int /\ AbsValue(a) \in Nat
      /\ b \in Buffers /\ b.num \in Int /\ AbsValue(b) \in Nat
  BY AbsValueFacts, BufferFacts
<1>2. Value(a) \in Int /\ Value(b) \in Int
  BY <1>1 DEF Value
<1>3. CASE Medium(a) /\ Medium(b)
  <2>1. fklAddBigInt(a, b) = fklSetBigIntI(a, Value(a) + Value(b))
    BY <1>3 DEF fklAddBigInt
  <2>2. Value(a) + Value(b) \in Int
    BY <1>2
  <2> QED
    BY <1>1, <2>1, <2>2, SetExact
<1>4. CASE ~(Medium(a) /\ Medium(b)) /\ a.num < 0 /\ b.num < 0
  <2>1. fklAddBigInt(a, b) = Negated(x_add(a, b))
    BY <1>4 DEF fklAddBigInt
  <2>2. PICK s : s = x_add(a, b) /\ s \in BigInts /\ Growable(s) /\ Value(s) = AbsValue(a) + AbsValue(b)
    BY <1>1, x_addExact
  <2>3. Negated(s) \in BigInts /\ Growable(Negated(s)) /\ Value(Negated(s)) = -Value(s)
    BY <2>2, NegatedExact
  <2>4. Value(a) = -AbsValue(a) /\ Value(b) = -AbsValue(b)
    BY <1>4 DEF Value
  <2>5. -Value(s) = Value(a) + Value(b)
    BY <1>1, <2>2, <2>4
  <2> QED
    BY <2>1, <2>2, <2>3, <2>5
<1>5. CASE ~(Medium(a) /\ Medium(b)) /\ a.num < 0 /\ ~(b.num < 0)
  <2>1. fklAddBigInt(a, b) = x_sub2(b, a)
    BY <1>5 DEF fklAddBigInt
  <2>2. PICK s : s = x_sub2(b, a) /\ s \in BigInts /\ Growable(s) /\ Value(s) = AbsValue(b) - AbsValue(a)
    BY x_sub2Exact
  <2>3. Value(a) = -AbsValue(a) /\ Value(b) = AbsValue(b)
    BY <1>5 DEF Value
  <2>4. Value(s) = Value(a) + Value(b)
    BY <1>1, <2>2, <2>3
  <2> QED
    BY <2>1, <2>2, <2>4
<1>6. CASE ~(Medium(a) /\ Medium(b)) /\ ~(a.num < 0) /\ b.num < 0
  <2>1. fklAddBigInt(a, b) = x_sub(a, b)
    BY <1>6 DEF fklAddBigInt
  <2>2. ~KeepsTopDigits(a, b)
    BY <1>1, <1>6 DEF KeepsOnAdd
  <2>3. PICK s : /\ s = x_sub(a, b) /\ s \in BigInts /\ Growable(s)
                 /\ Value(s) = AbsValue(a) - AbsValue(b)
    BY <1>6, <2>2, x_subExact
  <2>4. Value(a) = AbsValue(a) /\ Value(b) = -AbsValue(b)
    BY <1>6 DEF Value
  <2>5. Value(s) = Value(a) + Value(b)
    BY <1>1, <2>3, <2>4
  <2> QED
    BY <2>1, <2>3, <2>5
<1>7. CASE ~(Medium(a) /\ Medium(b)) /\ ~(a.num < 0) /\ ~(b.num < 0)
  <2>1. fklAddBigInt(a, b) = x_add(a, b)
    BY <1>7 DEF fklAddBigInt
  <2>2. Value(a) = AbsValue(a) /\ Value(b) = AbsValue(b)
    BY <1>7 DEF Value
  <2> QED
    BY <1>1, <2>1, <2>2, x_addExact
<1> QED
  BY <1>3, <1>4, <1>5, <1>6, <1>7

\* fklSubBigInt computes the difference in the buffer of a, unless it keeps top
\* digits (KeepsOnSub).
THEOREM SubExact ==
  ASSUME NEW a \in BigInts, Growable(a), NEW b \in BigInts, ~KeepsOnSub(a, b)
  PROVE  LET r == fklSubBigInt(a, b)
         IN  r \in BigInts /\ Growable(r) /\ Value(r) = Value(a) - Value(b)
<1>1. /\ a \in Buffers /\ a.num \in Int /\ AbsValue(a) \in Nat
      /\ b \in Buffers /\ b.num \in Int /\ AbsValue(b) \in Nat
  BY AbsValueFacts, BufferFacts
<1>2. Value(a) \in Int /\ Value(b) \in Int
  BY <1>1 DEF Value
<1>3. CASE Medium(a) /\ Medium(b)
  <2>1. fklSubBigInt(a, b) = fklSetBigIntI(a, Value(a) - Value(b))
    BY <1>3 DEF fklSubBigInt
  <2>2. Value(a) - Value(b) \in Int
    BY <1>2
  <2> QED
    BY <1>1, <2>1, <2>2, SetExact
<1>4. CASE ~(Medium(a) /\ Medium(b)) /\ (a.num < 0 <=> b.num < 0)
  <2>1. fklSubBigInt(a, b) = x_sub(a, b)
    BY <1>4 DEF fklSubBigInt
  <2>2. ~KeepsTopDigits(a, b)
    <3>1. (a.num < 0) = (b.num < 0)
      BY <1>4
    <3> QED
      BY <3>1 DEF KeepsOnSub
  <2> QED
    <3>1. PICK s : /\ s = x_sub(a, b) /\ s \in BigInts /\ Growable(s)
                   /\ Value(s) = IF a.num < 0 THEN -(AbsValue(a) - AbsValue(b))
                                 ELSE AbsValue(a) - AbsValue(b)
      BY <1>4, <2>2, x_subExact
    <3>2. Value(s) = Value(a) - Value(b)
      BY <1>1, <1>4, <3>1 DEF Value
    <3> QED
      BY <2>1, <3>1, <3>2
<1>5. CASE ~(Medium(a) /\ Medium(b)) /\ a.num < 0 /\ ~(b.num < 0)
  <2>1. fklSubBigInt(a, b) = Negated(x_add(a, b))
    BY <1>5 DEF fklSubBigInt
  <2>2. PICK s : s = x_add(a, b) /\ s \in BigInts /\ Growable(s) /\ Value(s) = AbsValue(a) + AbsValue(b)
    BY <1>1, x_addExact
  <2>3. Negated(s) \in BigInts /\ Growable(Negated(s)) /\ Value(Negated(s)) = -Value(s)
    BY <2>2, NegatedExact
  <2>4. Value(a) = -AbsValue(a) /\ Value(b) = AbsValue(b)
    BY <1>5 DEF Value
  <2>5. -Value(s) = Value(a) - Value(b)
    BY <1>1, <2>2, <2>4
  <2> QED
    BY <2>1, <2>2, <2>3, <2>5
<1>6. CASE ~(Medium(a) /\ Medium(b)) /\ ~(a.num < 0) /\ b.num < 0
  <2>1. fklSubBigInt(a, b) = x_add(a, b)
    BY <1>6 DEF fklSubBigInt
  <2>2. PICK s : s = x_add(a, b) /\ s \in BigInts /\ Growable(s) /\ Value(s) = AbsValue(a) + AbsValue(b)
    BY <1>1, x_addExact
  <2>3. Value(s) = Value(a) - Value(b)
    BY <1>1, <1>6, <2>2 DEF Value
  <2> QED
    BY <2>1, <2>2, <2>3
<1> QED
  BY <1>3, <1>4, <1>5, <1>6

-----------------------------------------------------------------------------
(* Multiplication. *)

\* A row of a multiplication carries a digit at most.
LEMMA RowBound ==
  ASSUME NEW c \in Digits, NEW r \in Digits, NEW x \in Digits, NEW y \in Digits
  PROVE  /\ c + r + x * y \in Nat
         /\ (c + r + x * y) \div Base \in Digits
<1>1. PICK z \in Nat : z = x * y /\ z <= (Base - 1) * (Base - 1)
  <2>1. x \in Nat /\ y \in Nat /\ Base - 1 \in Nat /\ x <= Base - 1 /\ y <= Base - 1
    BY BaseAssumption DEF Digits
  <2>2. \A m \in Nat : x <= m /\ y <= m => x * y <= m * m /\ x * y \in Nat
    <3> TAKE m \in Nat
    <3> HAVE x <= m /\ y <= m
    <3>1. m - x \in Nat /\ m - y \in Nat
      BY <2>1
    <3>2. m * m = x * y + x * (m - y) + (m - x) * m
      BY <2>1
    <3>3. x * (m - y) \in Nat /\ (m - x) * m \in Nat /\ x * y \in Nat
      BY <2>1, <3>1
    <3>4. PICK p \in Nat, q \in Nat, t \in Nat : p = x * (m - y) /\ q = (m - x) * m /\ t = x * y
      BY <3>3
    <3> QED
      BY <3>2, <3>4
  <2> QED
    BY <2>1, <2>2
<1>2. (Base - 1) * (Base - 1) = Base * Base - 2 * Base + 1 /\ Base * Base \in Nat
  BY BaseAssumption
<1>3. PICK t \in Nat, s \in Nat : t = c + r + z /\ s = Base * Base /\ t < s
  <2>1. PICK s \in Nat : s = Base * Base /\ z <= s - 2 * Base + 1
    BY <1>1, <1>2
  <2> QED
    BY <2>1, BaseAssumption DEF Digits
<1>4. PICK q \in Int, u \in Nat : q = t \div Base /\ t = Base * q + u
  BY BaseAssumption, DivModFacts
<1>5. q < Base
  BY <1>3, <1>4, ProductBound, BaseAssumption
<1>6. q >= 0
  BY <1>4, BaseAssumption
<1>7. c + r + x * y = t
  BY <1>1, <1>3
<1>8. q \in Digits
  BY <1>5, <1>6, BaseAssumption DEF Digits
<1> QED
  BY <1>4, <1>7, <1>8

\* The carries of a row.
LEMMA RowCarriesFacts ==
  ASSUME NEW b \in Buffers, NEW total \in Nat, NEW result \in [1 .. total -> Int],
         NEW na \in Digits, NEW i \in 1 .. total, (i + Size(b)) - 1 <= total
  PROVE  LET c == RowCarries(result, na, b, i)
         IN  /\ c \in [0 .. Size(b) -> Int] /\ c[0] = 0
             /\ \A j \in 1 .. Size(b) :
                   c[j] = (c[j - 1] + result[i + j - 1] + na * b.digits[j]) \div Base
<1> DEFINE n == Size(b)
           Step(h) == [j \in 0 .. n |->
                          IF j = 0 THEN 0
                          ELSE (h[j - 1] + result[i + j - 1] + na * b.digits[j]) \div Base]
           F == [j \in 1 .. n |->
                    [c \in Int |-> (c + result[i + j - 1] + na * b.digits[j]) \div Base]]
<1>1. n \in Nat /\ \A j \in 1 .. n : b.digits[j] \in Int
  BY BufferFacts DEF Digits
<1>2. ASSUME NEW c \in Int, NEW j \in 1 .. n
      PROVE  (c + result[i + j - 1] + na * b.digits[j]) \div Base \in Int
  <2>1. i + j - 1 \in 1 .. total /\ b.digits[j] \in Int /\ na \in Int
    BY <1>1 DEF Digits
  <2>2. c + result[i + j - 1] + na * b.digits[j] \in Int
    BY <2>1
  <2> QED
    BY <2>2, BaseAssumption, DivModFacts
<1>3. F \in [1 .. n -> [Int -> Int]]
  BY <1>2
<1>4. PICK g : RecursiveUp(Int, 0, n, F, g)
  <2>1. 0 \in Int
    OBVIOUS
  <2> HIDE DEF F, n
  <2> QED
    BY <1>1, <1>3, <2>1, UpRecursion, Zenon
<1>5. g = Step(g)
  <2>1. ASSUME NEW j \in 1 .. n
        PROVE  g[j] = (g[j - 1] + result[i + j - 1] + na * b.digits[j]) \div Base
    <3>1. g[j - 1] \in Int
      BY <1>1, <1>4 DEF RecursiveUp
    <3>2. F[j][g[j - 1]] = (g[j - 1] + result[i + j - 1] + na * b.digits[j]) \div Base
      BY <3>1
    <3> QED
      BY <1>4, <3>2 DEF RecursiveUp
  <2> HIDE DEF n
  <2> QED
    BY <1>1, <1>4, <2>1 DEF RecursiveUp
<1>6. RowCarries(result, na, b, i) = CHOOSE h : h = Step(h)
  BY DEF RowCarries
<1> HIDE DEF Step, n
<1>7. (CHOOSE h : h = Step(h)) = Step(CHOOSE h : h = Step(h))
  BY <1>5, Zenon
<1>8. PICK c : c = RowCarries(result, na, b, i) /\ c = Step(c)
  BY <1>6, <1>7
<1>9. /\ c = [j \in 0 .. n |-> c[j]] /\ c[0] = 0
      /\ \A j \in 1 .. n : c[j] = (c[j - 1] + result[i + j - 1] + na * b.digits[j]) \div Base
  BY <1>1, <1>8 DEF Step
<1>10. \A j \in 0 .. n : c[j] \in Int
  <2> DEFINE S == {j \in 0 .. n : c[j] \in Int}
  <2>1. 0 \in S
    BY <1>1, <1>9
  <2>2. ASSUME NEW j \in 1 .. n, j - 1 \in S PROVE j \in S
    <3>1. c[j - 1] \in Int
      BY <2>2
    <3>2. c[j] \in Int
      BY <1>2, <1>9, <3>1
    <3> QED
      BY <1>1, <3>2
  <2>3. 0 .. n \subseteq S
    <3> HIDE DEF S
    <3> QED
      BY <1>1, <2>1, <2>2, UpInduction
  <2> QED
    BY <2>3
<1>11. c \in [0 .. n -> Int]
  BY <1>9, <1>10
<1> QED
  BY <1>8, <1>9, <1>11 DEF n

\* What a row does to the places of the product: from the place i on they take
\* the sums of a column modulo the base, and the last carry.
RowAdded(result, na, b, i, total, n, c, r) ==
    /\ r \in [1 .. total -> Int]
    /\ \A k \in 1 .. total : k < i \/ k > i + n => r[k] = result[k]
    /\ r[i + n] = result[i + n] + c[n]
    /\ \A j \in 1 .. n : r[i + j - 1] = (c[j - 1] + result[i + j - 1] + na * b.digits[j]) % Base

\* AddRow does that, whatever the places hold.
LEMMA AddRowFacts ==
  ASSUME NEW b \in Buffers, NEW total \in Nat, NEW result \in [1 .. total -> Int],
         NEW na \in Digits, NEW i \in 1 .. total, i + Size(b) <= total
  PROVE  RowAdded(result, na, b, i, total, Size(b), RowCarries(result, na, b, i),
                  AddRow(result, na, b, i))
<1> DEFINE n == Size(b)
           c == RowCarries(result, na, b, i)
           r == AddRow(result, na, b, i)
<1>1. n \in Nat /\ \A j \in 1 .. n : b.digits[j] \in Int
  BY BufferFacts DEF Digits
<1>2. c \in [0 .. n -> Int]
  BY <1>1, RowCarriesFacts
<1>3. r = [k \in 1 .. total |->
              CASE k \in i .. i + n - 1 ->
                      (c[k - i] + result[k] + na * b.digits[k - i + 1]) % Base
                [] k = i + n -> result[k] + c[n]
                [] OTHER -> result[k]]
  BY DEF AddRow
<1> HIDE DEF n, c, r
<1>4. \A k \in 1 .. total : k < i \/ k > i + n => r[k] = result[k]
  <2> TAKE k \in 1 .. total
  <2> HAVE k < i \/ k > i + n
  <2>1. k \notin i .. i + n - 1 /\ k # i + n
    BY <1>1
  <2> QED
    BY <1>3, <2>1
<1>5. r[i + n] = result[i + n] + c[n]
  <2>1. i + n \in 1 .. total /\ i + n \notin i .. i + n - 1
    BY <1>1 DEF n
  <2> QED
    BY <1>3, <2>1
<1>6. ASSUME NEW j \in 1 .. n
      PROVE  r[i + j - 1] = (c[j - 1] + result[i + j - 1] + na * b.digits[j]) % Base
  <2>1. PICK k \in 1 .. total : k = i + j - 1
    BY <1>1 DEF n
  <2>2. k \in i .. i + n - 1 /\ k # i + n /\ k - i = j - 1 /\ k - i + 1 = j
    BY <1>1, <2>1
  <2>3. r[k] = (c[k - i] + result[k] + na * b.digits[k - i + 1]) % Base
    BY <1>3, <2>2
  <2> QED
    BY <2>1, <2>2, <2>3
<1>7. ASSUME NEW k \in 1 .. total PROVE r[k] \in Int
  <2>1. CASE k < i \/ k > i + n
    BY <1>4, <2>1
  <2>2. CASE k = i + n
    <3>1. c[n] \in Int /\ result[k] \in Int
      BY <1>1, <1>2
    <3> QED
      BY <1>5, <2>2, <3>1
  <2>3. CASE k \in i .. i + n - 1
    <3>1. PICK j \in 1 .. n : k = i + j - 1
      <4>1. k - i + 1 \in 1 .. n /\ k = i + (k - i + 1) - 1
        BY <1>1, <2>3
      <4> QED
        BY <4>1
    <3>0. j - 1 \in 0 .. n
      BY <1>1
    <3>2. c[j - 1] \in Int /\ result[k] \in Int /\ b.digits[j] \in Int /\ na \in Int
      BY <1>1, <1>2, <3>0 DEF Digits
    <3>3. PICK x \in Int : x = c[j - 1] + result[k] + na * b.digits[j]
      BY <3>2
    <3>4. r[k] = x % Base
      BY <1>6, <3>1, <3>3
    <3> QED
      BY <3>4, BaseAssumption, DivModFacts
  <2> QED
    BY <1>1, <2>1, <2>2, <2>3
<1>8. r \in [1 .. total -> Int]
  BY <1>3, <1>7
<1> QED
  BY <1>4, <1>5, <1>6, <1>8 DEF n, c, r, RowAdded

\* r is result and the product of b and a digit, shifted to its place.
RowExact(result, na, b, i, total, r) ==
    /\ r \in [1 .. total -> Digits]
    /\ ValueFrom(r, total)[i] = ValueFrom(result, total)[i] + na * AbsValue(b)

\* That is what AddRow computes.
LEMMA AddRowExact ==
  ASSUME NEW b \in Buffers, NEW total \in Nat, NEW result \in [1 .. total -> Digits],
         NEW na \in Digits, NEW i \in 1 .. total, i + Size(b) <= total,
         result[i + Size(b)] = 0
  PROVE  RowExact(result, na, b, i, total, AddRow(result, na, b, i))
<1> DEFINE n == Size(b)
           db == b.digits
           c == RowCarries(result, na, b, i)
           r == AddRow(result, na, b, i)
           v == ValueFrom(result, total)
           w == ValueFrom(r, total)
           u == ValueFrom(db, n)
           f == [j \in 1 .. n + 1 |-> w[i + j - 1]]
           g == [j \in 1 .. n + 1 |-> v[i + j - 1] + na * u[j] + c[j - 1]]
           e == [j \in 1 .. n |-> r[i + j - 1]]
<1>1. /\ n \in Nat /\ (\A j \in 1 .. n : db[j] \in Digits /\ db[j] \in Int)
      /\ i + n <= total /\ na \in Int
  BY BufferFacts DEF Digits
<1>2. result \in [1 .. total -> Int] /\ (\A k \in 1 .. total : result[k] \in Int)
  BY DEF Digits
<1>3. /\ c \in [0 .. n -> Int] /\ c[0] = 0
      /\ \A j \in 1 .. n : c[j] = (c[j - 1] + result[i + j - 1] + na * db[j]) \div Base
  <2>1. (i + Size(b)) - 1 <= total
    BY <1>1
  <2>2. c \in [0 .. n -> Int] /\ c[0] = 0
    BY <1>2, <2>1, RowCarriesFacts
  <2>3. \A j \in 1 .. n : c[j] = (c[j - 1] + result[i + j - 1] + na * db[j]) \div Base
    BY <1>2, <2>1, RowCarriesFacts
  <2> QED
    BY <2>2, <2>3
<1>4. /\ r \in [1 .. total -> Int]
      /\ \A k \in 1 .. total : k < i \/ k > i + n => r[k] = result[k]
      /\ r[i + n] = result[i + n] + c[n]
      /\ \A j \in 1 .. n : r[i + j - 1] = (c[j - 1] + result[i + j - 1] + na * db[j]) % Base
  <2>1. i + Size(b) <= total
    OBVIOUS
  <2>2. RowAdded(result, na, b, i, total, n, c, r)
    BY <1>2, <2>1, AddRowFacts, Zenon
  <2> HIDE DEF n, c, r
  <2> QED
    BY <2>2 DEF RowAdded
<1>5. /\ v \in [1 .. total + 1 -> Int]
      /\ \A k \in 1 .. total : v[k] = result[k] + Base * v[k + 1]
  BY <1>2, ValueFromFacts
<1>6. /\ w \in [1 .. total + 1 -> Int]
      /\ \A k \in 1 .. total : w[k] = r[k] + Base * w[k + 1]
  BY <1>4, ValueFromFacts
<1>7. u[n + 1] = 0 /\ u \in [1 .. n + 1 -> Int] /\ \A j \in 1 .. n : u[j] = db[j] + Base * u[j + 1]
  BY <1>1, ValueFromFacts
<1>8. AbsValue(b) = u[1]
  BY DEF AbsValue
<1>9. result[i + n] = 0
  OBVIOUS
<1>10. w[(i + n) + 1] = v[(i + n) + 1]
  <2>1. PICK k \in 0 .. total : k = i + n
    BY <1>1
  <2>2. \A l \in 1 .. total : r[l] \in Int /\ result[l] \in Int
    BY <1>2, <1>4
  <2>3. \A l \in k + 1 .. total : r[l] = result[l]
    BY <1>1, <1>4, <2>1
  <2> HIDE DEF n, r
  <2>4. AgreeAbove(total, k, r, result)
    BY <2>2, <2>3 DEF AgreeAbove
  <2>5. w[k + 1] = v[k + 1]
    BY <2>4, SameAbove, Zenon
  <2> QED
    BY <2>1, <2>5
<1> HIDE DEF n, db, c, r, v, w, u
<1>11. \A j \in 0 .. n : c[j] \in Digits
  <2> DEFINE S == {j \in 0 .. n : c[j] \in Digits}
  <2>1. 0 \in S
    BY <1>1, <1>3, BaseAssumption DEF Digits
  <2>2. ASSUME NEW j \in 1 .. n, j - 1 \in S PROVE j \in S
    <3>1. c[j - 1] \in Digits /\ db[j] \in Digits /\ result[i + j - 1] \in Digits
      BY <1>1, <2>2
    <3>2. (c[j - 1] + result[i + j - 1] + na * db[j]) \div Base \in Digits
      BY <3>1, RowBound
    <3> QED
      BY <1>1, <1>3, <3>2
  <2>3. 0 .. n \subseteq S
    <3> HIDE DEF S
    <3> QED
      BY <1>1, <2>1, <2>2, UpInduction
  <2> QED
    BY <2>3
<1>12. ASSUME NEW j \in 1 .. n
       PROVE  /\ r[i + j - 1] \in Digits
              /\ c[j - 1] + result[i + j - 1] + na * db[j] = Base * c[j] + r[i + j - 1]
  <2>0. j - 1 \in 0 .. n /\ i + j - 1 \in 1 .. total
    BY <1>1
  <2>1. c[j - 1] \in Int /\ db[j] \in Int /\ result[i + j - 1] \in Int
    BY <1>1, <1>2, <1>3, <2>0
  <2>2. PICK x \in Int : x = c[j - 1] + result[i + j - 1] + na * db[j]
    BY <1>1, <2>1
  <2>3. c[j] = x \div Base /\ r[i + j - 1] = x % Base
    BY <1>3, <1>4, <2>2
  <2>4. x % Base \in Nat /\ x % Base < Base /\ x = Base * (x \div Base) + (x % Base)
    BY BaseAssumption, DivModFacts
  <2>5. x = Base * c[j] + r[i + j - 1]
    BY <2>3, <2>4
  <2>6. r[i + j - 1] \in Digits
    BY <2>3, <2>4, BaseAssumption DEF Digits
  <2> QED
    BY <2>2, <2>5, <2>6
<1>13. r \in [1 .. total -> Digits]
  <2>1. ASSUME NEW k \in 1 .. total PROVE r[k] \in Digits
    <3>1. CASE k < i \/ k > i + n
      BY <1>4, <3>1
    <3>2. CASE k = i + n
      <4>1. c[n] \in Digits /\ c[n] \in Int
        BY <1>1, <1>11 DEF Digits
      <4>2. r[k] = c[n]
        BY <1>4, <1>9, <3>2, <4>1
      <4> QED
        BY <4>1, <4>2
    <3>3. CASE k \in i .. i + n - 1
      <4>1. k - i + 1 \in 1 .. n /\ k = i + (k - i + 1) - 1
        BY <1>1, <3>3
      <4> QED
        BY <1>12, <4>1
    <3> QED
      BY <1>1, <3>1, <3>2, <3>3
  <2> QED
    BY <1>4, <2>1
<1>14. f[n + 1] = g[n + 1]
  <2>1. n + 1 \in 1 .. n + 1 /\ i + (n + 1) - 1 = i + n /\ (n + 1) - 1 = n /\ i + n \in 1 .. total
        /\ (i + n) + 1 \in 1 .. total + 1
    BY <1>1
  <2>2. f[n + 1] = w[i + n] /\ g[n + 1] = v[i + n] + na * u[n + 1] + c[n]
    BY <2>1
  <2>3. c[n] \in Int /\ v[(i + n) + 1] \in Int
    BY <1>1, <1>3, <1>5, <2>1
  <2>4. PICK p \in Int, q \in Int : p = Base * v[(i + n) + 1] /\ q = c[n]
    BY <2>3, BaseAssumption
  <2>5. w[i + n] = (0 + q) + p
    BY <1>4, <1>6, <1>9, <1>10, <2>1, <2>4
  <2>6. v[i + n] = 0 + p
    BY <1>5, <1>9, <2>1, <2>4
  <2>7. na * u[n + 1] = 0
    BY <1>1, <1>7
  <2> HIDE DEF f, g
  <2>8. g[n + 1] = (0 + p) + 0 + q
    BY <2>2, <2>4, <2>6, <2>7
  <2> QED
    BY <2>2, <2>5, <2>8
<1>15. ASSUME NEW j \in 1 .. n PROVE f[j] = e[j] + Base * f[j + 1] /\ g[j] = e[j] + Base * g[j + 1]
  <2>1. PICK k \in 1 .. total : k = i + j - 1 /\ i + (j + 1) - 1 = k + 1
    BY <1>1
  <2>2. /\ j \in 1 .. n + 1 /\ j + 1 \in 1 .. n + 1 /\ (j + 1) - 1 = j
        /\ k + 1 \in 1 .. total + 1 /\ j - 1 \in 0 .. n /\ j \in 0 .. n
    BY <1>1
  <2>3. /\ f[j] = w[k] /\ f[j + 1] = w[k + 1] /\ e[j] = r[k]
        /\ g[j] = v[k] + na * u[j] + c[j - 1] /\ g[j + 1] = v[k + 1] + na * u[j + 1] + c[j]
    BY <2>1, <2>2
  <2> HIDE DEF f, g, e
  <2>4. f[j] = e[j] + Base * f[j + 1]
    BY <1>6, <2>3
  <2>5. /\ v[k + 1] \in Int /\ u[j + 1] \in Int /\ c[j] \in Int /\ c[j - 1] \in Int
        /\ result[k] \in Int /\ r[k] \in Int /\ db[j] \in Int
    BY <1>1, <1>2, <1>3, <1>4, <1>5, <1>7, <2>2
  <2>6. PICK x \in Int, y \in Int, d \in Int, d1 \in Int, R \in Int, E \in Int, B \in Int :
           /\ x = v[k + 1] /\ y = u[j + 1] /\ d = c[j] /\ d1 = c[j - 1]
           /\ R = result[k] /\ E = r[k] /\ B = db[j]
    BY <2>5
  <2>7. v[k] = R + Base * x /\ u[j] = B + Base * y
    BY <1>5, <1>7, <2>6
  <2>8. d1 + R + na * B = Base * d + E
    BY <1>12, <2>1, <2>6
  <2>9. na * (B + Base * y) = na * B + Base * (na * y)
    BY <1>1, BaseAssumption
  <2>10. Base * (x + na * y + d) = Base * x + Base * (na * y) + Base * d
    <3>1. PICK t \in Int : t = na * y
      BY <1>1
    <3>2. Base * (x + t + d) = Base * x + Base * t + Base * d
      BY BaseAssumption
    <3> QED
      BY <3>1, <3>2
  <2>11. PICK X \in Int, Y \in Int, D \in Int, M \in Int :
            X = Base * x /\ Y = Base * (na * y) /\ D = Base * d /\ M = na * B
    BY <1>1, BaseAssumption
  <2>12. g[j] = (R + X) + (M + Y) + d1
    BY <2>3, <2>6, <2>7, <2>9, <2>11
  <2>13. Base * g[j + 1] = X + Y + D
    BY <2>3, <2>6, <2>10, <2>11
  <2>14. d1 + R + M = D + E
    BY <2>8, <2>11
  <2>15. (R + X) + (M + Y) + d1 = E + (X + Y + D)
    BY <2>14
  <2> QED
    BY <2>3, <2>4, <2>6, <2>12, <2>13, <2>15
<1>16. f[1] = g[1]
  <2> HIDE DEF f, g, e
  <2>1. n \in Nat
    BY <1>1
  <2>2. BothSolve(n, f, g, e)
    BY <1>14, <1>15 DEF BothSolve
  <2> QED
    BY <2>1, <2>2, SameStart, Zenon
<1>17. f[1] = w[i] /\ g[1] = v[i] + na * u[1]
  <2>1. 1 \in 1 .. n + 1 /\ i + 1 - 1 = i /\ 1 - 1 = 0 /\ i \in 1 .. total + 1
    BY <1>1
  <2>2. f[1] = w[i] /\ g[1] = v[i] + na * u[1] + c[0]
    BY <2>1
  <2>3. PICK p \in Int, q \in Int : p = v[i] /\ q = na * u[1]
    BY <1>1, <1>5, <1>7, <2>1
  <2> HIDE DEF f, g
  <2> QED
    BY <1>3, <2>2, <2>3
<1> QED
  BY <1>8, <1>13, <1>16, <1>17 DEF n, r, v, w, RowExact

\* The rows are added one after the other.
RowByRow(a, b, m, total, rows) ==
    /\ rows[0] = [k \in 1 .. total |-> 0]
    /\ \A i \in 1 .. m : rows[i] = AddRow(rows[i - 1], a.digits[i], b, i)

\* The recursion of Rows defines it.
LEMMA RowsFacts ==
  ASSUME NEW a \in Buffers, NEW b \in Buffers
  PROVE  RowByRow(a, b, Size(a), Size(a) + Size(b), Rows(a, b))
<1> DEFINE m == Size(a)
           total == m + Size(b)
           zero == [k \in 1 .. total |-> 0]
           T == [1 .. total -> Int]
           Step(h) == [i \in 0 .. m |-> IF i = 0 THEN zero ELSE AddRow(h[i - 1], a.digits[i], b, i)]
           F == [i \in 1 .. m |-> [r \in T |-> AddRow(r, a.digits[i], b, i)]]
<1>1. m \in Nat /\ Size(b) \in Nat /\ total \in Nat /\ \A i \in 1 .. m : a.digits[i] \in Digits
  BY BufferFacts
<1>2. ASSUME NEW i \in 1 .. m, NEW r \in T PROVE AddRow(r, a.digits[i], b, i) \in T
  <2>1. i \in 1 .. total /\ i + Size(b) <= total /\ a.digits[i] \in Digits
    BY <1>1
  <2> HIDE DEF total
  <2>2. RowAdded(r, a.digits[i], b, i, total, Size(b), RowCarries(r, a.digits[i], b, i),
                 AddRow(r, a.digits[i], b, i))
    BY <1>1, <2>1, AddRowFacts, Zenon
  <2> QED
    BY <2>2 DEF RowAdded
<1>3. zero \in T
  OBVIOUS
<1> HIDE DEF T, zero
<1>4. F \in [1 .. m -> [T -> T]]
  BY <1>2
<1>5. PICK g : RecursiveUp(T, zero, m, F, g)
  <2> HIDE DEF F, m
  <2> QED
    BY <1>1, <1>3, <1>4, UpRecursion, Zenon
<1>6. g = Step(g)
  <2>1. ASSUME NEW i \in 1 .. m PROVE g[i] = AddRow(g[i - 1], a.digits[i], b, i)
    <3>1. g[i - 1] \in T
      BY <1>1, <1>5 DEF RecursiveUp
    <3>2. F[i][g[i - 1]] = AddRow(g[i - 1], a.digits[i], b, i)
      BY <3>1
    <3> QED
      BY <1>5, <3>2 DEF RecursiveUp
  <2>2. ASSUME NEW i \in 0 .. m
        PROVE  g[i] = IF i = 0 THEN zero ELSE AddRow(g[i - 1], a.digits[i], b, i)
    <3>1. i = 0 \/ (i # 0 /\ i \in 1 .. m)
      BY <1>1
    <3> QED
      BY <1>5, <2>1, <3>1 DEF RecursiveUp
  <2> QED
    BY <1>5, <2>2 DEF RecursiveUp
<1>7. Rows(a, b) = CHOOSE h : h = Step(h)
  BY DEF Rows, zero
<1> HIDE DEF Step, m
<1>8. (CHOOSE h : h = Step(h)) = Step(CHOOSE h : h = Step(h))
  BY <1>6, Zenon
<1>9. PICK rows : rows = Rows(a, b) /\ rows = Step(rows)
  BY <1>7, <1>8
<1>10. \A i \in 0 .. m : rows[i] = IF i = 0 THEN zero ELSE AddRow(rows[i - 1], a.digits[i], b, i)
  BY <1>9 DEF Step
<1>11. rows[0] = zero /\ \A i \in 1 .. m : rows[i] = AddRow(rows[i - 1], a.digits[i], b, i)
  <2>1. 0 \in 0 .. m /\ \A i \in 1 .. m : i \in 0 .. m /\ i # 0
    BY <1>1
  <2> QED
    BY <1>10, <2>1
<1>12. RowByRow(a, b, m, total, rows)
  BY <1>11 DEF RowByRow, zero
<1> QED
  BY <1>9, <1>12 DEF m

\* The product of the magnitudes is what the last row leaves.
LEMMA RowsExact ==
  ASSUME NEW a \in Buffers, NEW b \in Buffers
  PROVE  LET total == Size(a) + Size(b)
             last == Rows(a, b)[Size(a)]
         IN  /\ last \in [1 .. total -> Digits]
             /\ ValueFrom(last, total)[1] = AbsValue(a) * AbsValue(b)
<1> DEFINE m == Size(a)
           n == Size(b)
           da == a.digits
           total == m + n
           rows == Rows(a, b)
           B == AbsValue(b)
           last == rows[m]
           v(i) == ValueFrom(rows[i], total)
           u == ValueFrom(da, m)
           f == [i \in 1 .. m + 1 |-> v(m)[i]]
           g == [i \in 1 .. m + 1 |-> v(i - 1)[i] + B * u[i]]
           e == [i \in 1 .. m |-> last[i]]
           Fit(i) == /\ rows[i] \in [1 .. total -> Digits]
                     /\ \A k \in 1 .. total : k > i + n => rows[i][k] = 0
<1>1. /\ m \in Nat /\ n \in Nat /\ total \in Nat
      /\ \A i \in 1 .. m : da[i] \in Digits /\ da[i] \in Int
  BY BufferFacts DEF Digits
<1>2. B \in Nat /\ AbsValue(a) = u[1]
  BY <1>1, PlacesValue DEF AbsValue
<1>3. RowByRow(a, b, m, total, rows)
  BY RowsFacts
<1>4. u[m + 1] = 0 /\ u \in [1 .. m + 1 -> Int] /\ \A i \in 1 .. m : u[i] = da[i] + Base * u[i + 1]
  BY <1>1, ValueFromFacts
<1>5. \A i \in 1 .. m : i \in 1 .. total /\ i + n <= total /\ i - 1 \in 0 .. m /\ i \in 0 .. m
  BY <1>1
<1> HIDE DEF u, rows
<1>6. rows[0] = [k \in 1 .. total |-> 0] /\ \A i \in 1 .. m : rows[i] = AddRow(rows[i - 1], da[i], b, i)
  BY <1>3 DEF RowByRow
<1>7. ASSUME NEW i \in 1 .. m, Fit(i - 1)
      PROVE  /\ rows[i] \in [1 .. total -> Digits]
             /\ \A k \in 1 .. total : k < i \/ k > i + n => rows[i][k] = rows[i - 1][k]
             /\ v(i)[i] = v(i - 1)[i] + da[i] * B
  <2>1. /\ i \in 1 .. total /\ i + n <= total /\ da[i] \in Digits
        /\ rows[i - 1] \in [1 .. total -> Digits] /\ rows[i] = AddRow(rows[i - 1], da[i], b, i)
    BY <1>1, <1>5, <1>6, <1>7
  <2>2. rows[i - 1][i + n] = 0
    <3>1. i + n \in 1 .. total /\ i + n > (i - 1) + n
      BY <1>1, <2>1
    <3> QED
      BY <1>7, <3>1
  <2>3. PICK p : p = rows[i - 1]
    OBVIOUS
  <2>4. p \in [1 .. total -> Digits] /\ p[i + n] = 0 /\ p \in [1 .. total -> Int]
    BY <2>1, <2>2, <2>3 DEF Digits
  <2> HIDE DEF total
  <2>5. /\ AddRow(p, da[i], b, i) \in [1 .. total -> Digits]
        /\ ValueFrom(AddRow(p, da[i], b, i), total)[i] = ValueFrom(p, total)[i] + da[i] * B
    <3>1. RowExact(p, da[i], b, i, total, AddRow(p, da[i], b, i))
      BY <1>1, <2>1, <2>4, AddRowExact, Zenon
    <3> QED
      BY <3>1 DEF RowExact
  <2>6. RowAdded(p, da[i], b, i, total, n, RowCarries(p, da[i], b, i), AddRow(p, da[i], b, i))
    BY <1>1, <2>1, <2>4, AddRowFacts, Zenon
  <2>7. \A k \in 1 .. total : k < i \/ k > i + n => AddRow(p, da[i], b, i)[k] = p[k]
    BY <2>6 DEF RowAdded
  <2> QED
    BY <2>1, <2>3, <2>5, <2>7
<1>8. \A i \in 0 .. m : Fit(i)
  <2> DEFINE S == {i \in 0 .. m : Fit(i)}
  <2>1. 0 \in S
    <3>1. 0 \in Digits
      BY BaseAssumption DEF Digits
    <3> QED
      BY <1>1, <1>6, <3>1
  <2>2. ASSUME NEW i \in 1 .. m, i - 1 \in S PROVE i \in S
    <3>1. Fit(i - 1)
      BY <2>2
    <3>2. /\ rows[i] \in [1 .. total -> Digits]
          /\ \A k \in 1 .. total : k < i \/ k > i + n => rows[i][k] = rows[i - 1][k]
      BY <1>7, <3>1
    <3>3. ASSUME NEW k \in 1 .. total, k > i + n PROVE rows[i][k] = 0
      <4>1. k > (i - 1) + n
        BY <1>1, <3>3
      <4> QED
        BY <3>1, <3>2, <3>3, <4>1
    <3> QED
      BY <1>5, <3>2, <3>3
  <2>3. 0 .. m \subseteq S
    <3> HIDE DEF S, m
    <3> QED
      BY <1>1, <2>1, <2>2, UpInduction
  <2> QED
    BY <2>3
<1>9. ASSUME NEW i \in 1 .. m
      PROVE  /\ rows[i] \in [1 .. total -> Digits]
             /\ \A k \in 1 .. total : k < i \/ k > i + n => rows[i][k] = rows[i - 1][k]
             /\ v(i)[i] = v(i - 1)[i] + da[i] * B
  <2>1. Fit(i - 1)
    BY <1>5, <1>8
  <2> QED
    BY <1>7, <2>1
<1>10. \A k \in 0 .. m : \A i \in 1 .. k : rows[k][i] = rows[i][i]
  <2> DEFINE S == {k \in 0 .. m : \A i \in 1 .. k : rows[k][i] = rows[i][i]}
  <2>1. 0 \in S
    BY <1>1
  <2>2. ASSUME NEW k \in 1 .. m, k - 1 \in S PROVE k \in S
    <3>1. ASSUME NEW i \in 1 .. k PROVE rows[k][i] = rows[i][i]
      <4>1. CASE i = k
        BY <4>1
      <4>2. CASE i # k
        <5>1. i \in 1 .. k - 1 /\ i \in 1 .. total /\ i < k
          BY <1>1, <4>2
        <5>2. rows[k][i] = rows[k - 1][i]
          BY <1>9, <5>1
        <5> QED
          BY <2>2, <5>1, <5>2
      <4> QED
        BY <4>1, <4>2
    <3> QED
      BY <1>5, <3>1
  <2>3. 0 .. m \subseteq S
    <3> HIDE DEF S, m
    <3> QED
      BY <1>1, <2>1, <2>2, UpInduction
  <2> QED
    BY <2>3
<1>11. ASSUME NEW i \in 0 .. m
       PROVE  /\ v(i) \in [1 .. total + 1 -> Int]
              /\ \A k \in 1 .. total : v(i)[k] = rows[i][k] + Base * v(i)[k + 1]
  <2>1. \A k \in 1 .. total : rows[i][k] \in Int
    <3>1. rows[i] \in [1 .. total -> Digits] /\ Digits \subseteq Int
      BY <1>8 DEF Digits
    <3> QED
      BY <3>1
  <2> HIDE DEF total
  <2> QED
    BY <1>1, <2>1, ValueFromFacts
<1>12. last \in [1 .. total -> Digits]
  BY <1>1, <1>8
<1> HIDE DEF B, v, da, Fit
<1>13. f[m + 1] = g[m + 1]
  <2>1. m + 1 \in 1 .. m + 1 /\ (m + 1) - 1 = m /\ m \in 0 .. m /\ m + 1 \in 1 .. total + 1
    BY <1>1
  <2>2. f[m + 1] = v(m)[m + 1] /\ g[m + 1] = v(m)[m + 1] + B * u[m + 1]
    BY <2>1
  <2>3. v(m)[m + 1] \in Int /\ B * u[m + 1] = 0
    <3>1. v(m) \in [1 .. total + 1 -> Int]
      BY <1>11, <2>1
    <3>2. v(m)[m + 1] \in Int
      BY <2>1, <3>1
    <3> QED
      BY <1>2, <1>4, <3>2
  <2> HIDE DEF f, g
  <2> QED
    BY <2>2, <2>3
<1>14. ASSUME NEW i \in 1 .. m PROVE f[i] = e[i] + Base * f[i + 1] /\ g[i] = e[i] + Base * g[i + 1]
  <2>1. /\ i \in 1 .. m + 1 /\ i + 1 \in 1 .. m + 1 /\ (i + 1) - 1 = i /\ i \in 1 .. total
        /\ i + 1 \in 1 .. total + 1 /\ m \in 0 .. m /\ i \in 0 .. m /\ i - 1 \in 0 .. m
    BY <1>1
  <2>2. /\ f[i] = v(m)[i] /\ f[i + 1] = v(m)[i + 1] /\ e[i] = rows[m][i]
        /\ g[i] = v(i - 1)[i] + B * u[i] /\ g[i + 1] = v(i)[i + 1] + B * u[i + 1]
    BY <2>1
  <2> HIDE DEF f, g, e
  <2>3. f[i] = e[i] + Base * f[i + 1]
    BY <1>11, <2>1, <2>2
  <2>4. rows[m][i] = rows[i][i] /\ rows[i][i] \in Int
    <3>1. rows[i][i] \in Digits
      BY <1>9, <2>1
    <3> QED
      BY <1>10, <2>1, <3>1 DEF Digits
  <2>5. v(i)[i] = rows[i][i] + Base * v(i)[i + 1]
    BY <1>11, <2>1
  <2>6. v(i)[i] = v(i - 1)[i] + da[i] * B
    BY <1>9
  <2>7. v(i)[i + 1] \in Int /\ v(i - 1)[i] \in Int /\ u[i + 1] \in Int /\ da[i] \in Int
    <3>1. v(i) \in [1 .. total + 1 -> Int] /\ v(i - 1) \in [1 .. total + 1 -> Int]
      BY <1>11, <2>1
    <3>2. i \in 1 .. total + 1
      BY <1>1, <2>1
    <3>3. v(i)[i + 1] \in Int /\ v(i - 1)[i] \in Int
      BY <2>1, <3>1, <3>2
    <3> QED
      BY <1>1, <1>4, <2>1, <3>3
  <2>8. PICK x \in Int, y \in Int, p \in Int, d \in Int, R \in Int :
           x = v(i)[i + 1] /\ y = u[i + 1] /\ p = v(i - 1)[i] /\ d = da[i] /\ R = rows[i][i]
    BY <2>4, <2>7
  <2>9. R + Base * x = p + d * B
    BY <2>5, <2>6, <2>8
  <2>10. u[i] = d + Base * y
    BY <1>4, <2>8
  <2>11. B * (d + Base * y) = d * B + Base * (B * y)
    BY <1>2, BaseAssumption
  <2>12. Base * (x + B * y) = Base * x + Base * (B * y)
    <3>1. PICK t \in Int : t = B * y
      BY <1>2
    <3>2. Base * (x + t) = Base * x + Base * t
      BY Distributes, BaseAssumption
    <3> QED
      BY <3>1, <3>2
  <2>13. PICK X \in Int, Y \in Int, D \in Int : X = Base * x /\ Y = Base * (B * y) /\ D = d * B
    BY <1>2, BaseAssumption
  <2>14. g[i] = p + (D + Y)
    BY <2>2, <2>8, <2>10, <2>11, <2>13
  <2>15. Base * g[i + 1] = X + Y
    BY <2>2, <2>8, <2>12, <2>13
  <2>16. p + (D + Y) = R + (X + Y)
    BY <2>9, <2>13
  <2> QED
    BY <2>2, <2>3, <2>4, <2>8, <2>14, <2>15, <2>16
<1>15. f[1] = v(m)[1] /\ g[1] = v(0)[1] + B * u[1]
  BY <1>1
<1>16. f[1] = g[1]
  <2> HIDE DEF f, g, e
  <2>1. BothSolve(m, f, g, e)
    BY <1>13, <1>14 DEF BothSolve
  <2>2. PICK k \in Nat : k = m /\ BothSolve(k, f, g, e)
    BY <1>1, <2>1
  <2> QED
    BY <2>2, SameStart
<1>17. v(0)[1] = 0
  <2>1. \A k \in 1 .. total : rows[0][k] = 0
    BY <1>6
  <2> HIDE DEF total
  <2> QED
    BY <1>1, <2>1, ValueZero DEF v
<1>18. v(m)[1] = u[1] * B
  <2>1. u[1] \in Int
    BY <1>1, <1>4
  <2>2. v(m)[1] = 0 + B * u[1]
    BY <1>15, <1>16, <1>17
  <2> QED
    BY <1>2, <2>1, <2>2
<1> QED
  BY <1>2, <1>12, <1>18 DEF B, v, rows

\* A number of one digit is that digit.
LEMMA OneDigit ==
  ASSUME NEW a \in BigInts, Size(a) = 1
  PROVE  AbsValue(a) = a.digits[1] /\ a.digits[1] \in Digits /\ a.digits[1] # 0
<1> DEFINE v == ValueFrom(a.digits, 1)
<1>1. a \in Buffers /\ a.digits[1] \in Digits
  <2>1. a \in Buffers
    BY DEF BigInts
  <2>2. \A i \in 1 .. 1 : a.digits[i] \in Digits
    BY <2>1, BufferFacts
  <2> QED
    BY <2>1, <2>2
<1>2. a.digits[1] # 0
  <2>1. a.num # 0
    BY <1>1, BufferFacts
  <2> QED
    BY <2>1 DEF BigInts, Normalized
<1>3. v[1 + 1] = 0 /\ \A i \in 1 .. 1 : v[i] = a.digits[i] + Base * v[i + 1]
  <2>1. \A i \in 1 .. 1 : a.digits[i] \in Int
    BY <1>1 DEF Digits
  <2>2. 1 \in Nat
    OBVIOUS
  <2> QED
    BY <2>1, <2>2, ValueFromFacts
<1> HIDE DEF v
<1>4. v[1] = a.digits[1] + Base * 0
  BY <1>3
<1>5. v[1] = a.digits[1]
  BY <1>1, <1>4, BaseAssumption DEF Digits
<1> QED
  BY <1>1, <1>2, <1>5 DEF AbsValue, v

\* A number is set to another one.
LEMMA CopyExact ==
  ASSUME NEW a \in Buffers, Growable(a), NEW b \in BigInts
  PROVE  LET r == fklSetBigInt(a, b)
         IN  r \in BigInts /\ Growable(r) /\ Value(r) = Value(b)
<1> DEFINE n == Size(b)
           ds == SubSeq(b.digits, 1, n)
           r == fklSetBigInt(a, b)
           v == ValueFrom(ds, n)[1]
<1>1. /\ b \in Buffers /\ Normalized(b) /\ n \in Nat /\ b.num \in {n, -n} /\ b.num \in Int
      /\ b.digits \in Seq(Digits) /\ n <= Len(b.digits)
  BY BufferFacts DEF BigInts
<1>2. ds \in [1 .. n -> Digits] /\ \A i \in 1 .. n : ds[i] = b.digits[i]
  <2> HIDE DEF n
  <2>1. ds \in Seq(Digits) /\ Len(ds) = n /\ \A i \in 1 .. n : ds[i] = b.digits[i]
    BY <1>1
  <2> HIDE DEF ds
  <2> QED
    BY <1>1, <2>1
<1>3. r = Overwrite(ensure_bigint_size(a, n), b.num, ds)
  BY DEF fklSetBigInt
<1> HIDE DEF r, ds
<1>4. /\ r \in Buffers /\ Growable(r) /\ r.num = b.num
      /\ \A i \in 1 .. n : r.digits[i] = ds[i]
      /\ Value(r) = (IF b.num < 0 THEN -v ELSE v)
  <2>1. PICK k \in Nat, num \in {n, -n} : k = n /\ num = b.num /\ k <= k
    BY <1>1
  <2>2. ds \in [1 .. k -> Digits] /\ num \in {k, -k} /\ r = Overwrite(ensure_bigint_size(a, k), num, ds)
    BY <1>2, <1>3, <2>1
  <2>3. /\ r \in Buffers /\ Growable(r) /\ r.num = num
        /\ \A i \in 1 .. k : r.digits[i] = ds[i]
        /\ Value(r) = (IF num < 0 THEN -ValueFrom(ds, k)[1] ELSE ValueFrom(ds, k)[1])
    BY <2>1, <2>2, StoredDigits
  <2> QED
    BY <2>1, <2>3
<1>5. v = AbsValue(b)
  <2>1. \A i \in 1 .. n : b.digits[i] \in Int /\ ds[i] = b.digits[i]
    BY <1>1, <1>2, BufferFacts DEF Digits
  <2>2. ValueFrom(ds, n)[1] = ValueFrom(b.digits, n)[1]
    <3> HIDE DEF n
    <3>1. 1 \in 1 .. n + 1
      BY <1>1
    <3> QED
      BY <1>1, <2>1, <3>1, ValueFromSame
  <2> QED
    BY <2>2 DEF AbsValue
<1>6. Value(r) = Value(b)
  BY <1>4, <1>5 DEF Value
<1>7. Normalized(r)
  <2> SUFFICES ASSUME r.num # 0 PROVE r.digits[Size(r)] # 0
    BY DEF Normalized
  <2>1. Size(r) = n /\ n \in 1 .. n
    BY <1>1, <1>4 DEF Size, AbsOf
  <2>2. b.digits[n] # 0
    BY <1>1, <1>4 DEF Normalized
  <2> QED
    BY <1>2, <1>4, <2>1, <2>2
<1> QED
  BY <1>4, <1>6, <1>7 DEF BigInts, r

\* The rows make the product, with its sign.
LEMMA ProductExact ==
  ASSUME NEW a \in BigInts, Growable(a), NEW b \in BigInts, a.num # 0, b.num # 0
  PROVE  LET r == Product(a, b)
         IN  r \in BigInts /\ Growable(r) /\ Value(r) = Value(a) * Value(b)
<1> DEFINE total == Size(a) + Size(b)
           last == Rows(a, b)[Size(a)]
           num == IF (a.num < 0) = (b.num < 0) THEN total ELSE -total
           o == [a EXCEPT !.digits = last, !.num = num]
           P == AbsValue(a) * AbsValue(b)
<1>1. /\ a \in Buffers /\ a.num \in Int /\ AbsValue(a) \in Nat
      /\ b \in Buffers /\ b.num \in Int /\ AbsValue(b) \in Nat
      /\ Size(a) \in Nat /\ Size(b) \in Nat
  BY AbsValueFacts, BufferFacts
<1>2. total \in Nat /\ total > 0 /\ num \in Int /\ AbsOf(num) = total
      /\ (num < 0 <=> ~((a.num < 0) = (b.num < 0)))
  <2>1. total \in Nat /\ total > 0
    BY <1>1 DEF Size, AbsOf
  <2> HIDE DEF total
  <2> QED
    BY <2>1 DEF AbsOf
<1>3. last \in [1 .. total -> Digits] /\ ValueFrom(last, total)[1] = P
  BY <1>1, RowsExact
<1>4. last \in Seq(Digits) /\ Len(last) = total
  <2> HIDE DEF last, total
  <2> QED
    BY <1>2, <1>3
<1>5. a \in [num : Int, digits : Seq(Digits), const_size : BOOLEAN, failed : BOOLEAN]
  BY <1>1 DEF Buffers
<1> HIDE DEF last, num, total
<1>6. /\ o \in [num : Int, digits : Seq(Digits), const_size : BOOLEAN, failed : BOOLEAN]
      /\ o.num = num /\ o.digits = last
  BY <1>2, <1>4, <1>5
<1>7. Growable(o)
  BY <1>5 DEF Growable
<1>8. Product(a, b) = bigint_normalize(o)
  BY DEF Product, last, num, total
<1> HIDE DEF o
<1>9. Size(o) = total /\ o \in Buffers
  <2>1. Size(o) = total
    BY <1>2, <1>6 DEF Size
  <2> QED
    BY <1>2, <1>4, <1>6, <2>1 DEF Buffers
<1>10. AbsValue(o) = P
  BY <1>3, <1>6, <1>9 DEF AbsValue
<1>11. Value(o) = Value(a) * Value(b)
  <2>1. PICK x \in Nat, y \in Nat : x = AbsValue(a) /\ y = AbsValue(b)
    BY <1>1
  <2>2. (-x) * y = -(x * y) /\ x * (-y) = -(x * y) /\ (-x) * (-y) = x * y
    OBVIOUS
  <2>3. Value(o) = IF num < 0 THEN -(x * y) ELSE x * y
    BY <1>6, <1>10, <2>1 DEF Value
  <2>4. CASE a.num < 0 /\ b.num < 0
    <3>1. ~(num < 0)
      BY <1>2, <2>4
    <3>2. Value(a) = -x /\ Value(b) = -y
      BY <2>1, <2>4 DEF Value
    <3> QED
      BY <2>2, <2>3, <3>1, <3>2
  <2>5. CASE a.num < 0 /\ ~(b.num < 0)
    <3>1. num < 0
      BY <1>2, <2>5
    <3>2. Value(a) = -x /\ Value(b) = y
      BY <2>1, <2>5 DEF Value
    <3> QED
      BY <2>2, <2>3, <3>1, <3>2
  <2>6. CASE ~(a.num < 0) /\ b.num < 0
    <3>1. num < 0
      BY <1>2, <2>6
    <3>2. Value(a) = x /\ Value(b) = -y
      BY <2>1, <2>6 DEF Value
    <3> QED
      BY <2>2, <2>3, <3>1, <3>2
  <2>7. CASE ~(a.num < 0) /\ ~(b.num < 0)
    <3>1. ~(num < 0)
      BY <1>2, <2>7
    <3>2. Value(a) = x /\ Value(b) = y
      BY <2>1, <2>7 DEF Value
    <3> QED
      BY <2>2, <2>3, <3>1, <3>2
  <2> QED
    BY <2>4, <2>5, <2>6, <2>7
<1>12. LET r == bigint_normalize(o)
       IN  r \in BigInts /\ Value(r) = Value(o) /\ Growable(r)
  BY <1>7, <1>9, NormalizeFacts
<1> QED
  BY <1>8, <1>11, <1>12

\* fklMulBigInt computes the product in the buffer of a, whatever the signs and
\* lengths: its shortcuts for 0, 1 and -1 included, no carry of a row is lost.
THEOREM MulExact ==
  ASSUME NEW a \in BigInts, Growable(a), NEW b \in BigInts
  PROVE  LET r == fklMulBigInt(a, b)
         IN  r \in BigInts /\ Growable(r) /\ Value(r) = Value(a) * Value(b)
<1>1. /\ a \in Buffers /\ a.num \in Int /\ AbsValue(a) \in Nat
      /\ b \in Buffers /\ b.num \in Int /\ AbsValue(b) \in Nat
  BY AbsValueFacts, BufferFacts
<1>2. Value(a) \in Int /\ Value(b) \in Int
  BY <1>1 DEF Value
<1>3. ASSUME NEW x \in BigInts PROVE (IsOne(x) => Value(x) = 1) /\ (IsMinusOne(x) => Value(x) = -1)
  <2>1. x.num = 1 => Size(x) = 1
    BY DEF Size, AbsOf
  <2>2. ASSUME x.num = -1 PROVE Size(x) = 1
    <3>1. PICK m \in Int : m = x.num /\ m + 1 = 0
      BY <2>2
    <3>2. m < 0 /\ -m = 1
      BY <3>1
    <3> QED
      BY <3>1, <3>2 DEF Size, AbsOf
  <2> QED
    BY <2>1, <2>2, OneDigit DEF IsOne, IsMinusOne, Value
<1>4. /\ a.num = 0 => Value(a) = 0
      /\ b.num = 0 => Value(b) = 0
  BY AbsValueFacts DEF Value
<1>5. PICK x \in Int, y \in Int : x = Value(a) /\ y = Value(b)
  BY <1>2
<1>6. /\ x * 0 = 0 /\ 0 * y = 0 /\ x * 1 = x /\ 1 * y = y
      /\ x * (-1) = -x /\ (-1) * y = -y
  OBVIOUS
<1>7. CASE a.num = 0 \/ IsOne(b)
  <2>1. fklMulBigInt(a, b) = a
    BY <1>7 DEF fklMulBigInt, IsOne, IsMinusOne
  <2>2. x = x * y
    BY <1>3, <1>4, <1>5, <1>6, <1>7
  <2> QED
    BY <1>5, <2>1, <2>2
<1>8. CASE a.num # 0 /\ b.num = 0
  <2>1. fklMulBigInt(a, b) = [a EXCEPT !.num = 0]
    BY <1>8 DEF fklMulBigInt, IsOne, IsMinusOne
  <2>2. 0 = x * y
    BY <1>4, <1>5, <1>6, <1>8
  <2> QED
    BY <1>1, <1>5, <2>1, <2>2, ZeroStored
<1>9. CASE a.num # 0 /\ IsMinusOne(b)
  <2>1. fklMulBigInt(a, b) = Negated(a)
    BY <1>9 DEF fklMulBigInt, IsOne, IsMinusOne
  <2>2. -x = x * y
    BY <1>3, <1>5, <1>6, <1>9
  <2> QED
    BY <1>5, <2>1, <2>2, NegatedExact
<1>10. ASSUME a.num # 0, b.num # 0, ~IsOne(b), ~IsMinusOne(b)
       PROVE  LET r == fklMulBigInt(a, b)
              IN  r \in BigInts /\ Growable(r) /\ Value(r) = Value(a) * Value(b)
  <2>1. fklMulBigInt(a, b) = IF IsOne(a) THEN fklSetBigInt(a, b)
                             ELSE IF IsMinusOne(a) THEN Negated(fklSetBigInt(a, b))
                             ELSE Product(a, b)
    BY <1>10 DEF fklMulBigInt
  <2>2. LET c == fklSetBigInt(a, b)
        IN  c \in BigInts /\ Growable(c) /\ Value(c) = y
    BY <1>1, <1>5, CopyExact
  <2>3. CASE IsOne(a)
    <3>1. y = x * y
      BY <1>3, <1>5, <1>6, <2>3
    <3> QED
      BY <1>5, <2>1, <2>2, <2>3, <3>1
  <2>4. CASE ~IsOne(a) /\ IsMinusOne(a)
    <3>1. -y = x * y
      BY <1>3, <1>5, <1>6, <2>4
    <3>2. PICK c : c = fklSetBigInt(a, b) /\ c \in BigInts /\ Growable(c) /\ Value(c) = y
      BY <2>2
    <3>3. Negated(c) \in BigInts /\ Growable(Negated(c)) /\ Value(Negated(c)) = -y
      BY <3>2, NegatedExact
    <3> QED
      BY <1>5, <2>1, <2>4, <3>1, <3>2, <3>3
  <2>5. CASE ~IsOne(a) /\ ~IsMinusOne(a)
    <3>1. fklMulBigInt(a, b) = Product(a, b)
      BY <2>1, <2>5
    <3> QED
      BY <1>10, <3>1, ProductExact
  <2> QED
    BY <2>3, <2>4, <2>5
<1> QED
  BY <1>7, <1>8, <1>9, <1>10

-----------------------------------------------------------------------------
(* Subtraction with equal top digits. *)

\* x_sub computes too large a magnitude when it keeps top digits.
LEMMA x_subKeeps ==
  ASSUME NEW a \in BigInts, Growable(a), NEW b \in BigInts, KeepsTopDigits(a, b)
  PROVE  LET r == x_sub(a, b)
             v == AbsValue(a) - AbsValue(b)
         IN  v > 0 /\ (a.num < 0 => Value(r) < -v) /\ (~(a.num < 0) => Value(r) > v)
<1> DEFINE o == Order(a, b)
           n == o.n
           d == Subtracted(a, b, o)
           k == Size(a)
           size == MaxOf(Size(a), Size(b)) + 1
           num == IF o.sign > 0 THEN a.num ELSE IF a.num < 0 THEN n ELSE -n
           v == AbsValue(a) - AbsValue(b)
           e == ensure_bigint_size(a, size)
           w == Overwrite(e, num, d)
           low == [w EXCEPT !.num = n]
<1>1. /\ o.sign \in {-1, 1} /\ n \in Nat /\ n <= MaxOf(Size(a), Size(b))
      /\ n = 0 => AbsValue(a) = AbsValue(b)
      /\ d \in [1 .. n -> Digits]
      /\ n # 0 => ValueFrom(d, n)[1] = IF o.sign < 0 THEN AbsValue(b) - AbsValue(a)
                                       ELSE AbsValue(a) - AbsValue(b)
  BY SubtractedExact
<1>2. /\ a \in Buffers /\ b \in Buffers /\ Normalized(a) /\ k \in Nat /\ Size(b) \in Nat
      /\ a.num \in Int /\ AbsValue(a) \in Nat /\ AbsValue(b) \in Nat
      /\ (a.num = k \/ a.num = -k) /\ k <= Len(a.digits)
  BY AbsValueFacts, BufferFacts DEF BigInts
<1>3. /\ k = Size(b) /\ x_cmp(a, b) > 0 /\ a.digits[k] = b.digits[k]
      /\ ~(Medium(a) /\ Medium(b))
  BY DEF KeepsTopDigits
<1>4. AbsValue(a) > AbsValue(b) /\ v > 0 /\ v \in Nat
  BY <1>2, <1>3, x_cmpExact
<1>5. o = [sign |-> 1, n |-> TopDifference(a, b, k)]
  <2>1. ~(k < Size(b)) /\ ~(k > Size(b)) /\ ~(x_cmp(a, b) < 0)
    BY <1>2, <1>3, x_cmpExact
  <2> QED
    BY <2>1 DEF Order
<1>6. o.sign = 1 /\ n = TopDifference(a, b, k)
  BY <1>5
<1>7. n \in 1 .. k - 1
  <2>1. n \in 0 .. k /\ (n # 0 => a.digits[n] # b.digits[n])
    BY <1>2, <1>6, TopDifferenceFacts
  <2>2. n # 0 /\ n # k
    BY <1>1, <1>2, <1>3, <1>4, <2>1
  <2> QED
    BY <1>2, <2>1, <2>2
<1>8. ValueFrom(d, n)[1] = v /\ num = a.num
  BY <1>1, <1>6, <1>7
<1>9. size = k + 1
  BY <1>2, <1>3 DEF MaxOf
<1>10. x_sub(a, b) = bigint_normalize(w)
  BY <1>7 DEF x_sub, SubInto
<1>11. a.num # 0 /\ a.digits[k] # 0
  BY <1>2, <1>7 DEF Normalized
<1> HIDE DEF o, d, n, num, v, size, k
<1>12. e \in Buffers /\ Len(e.digits) >= size /\ Growable(e) /\ e.digits[k] = a.digits[k]
  <2>1. size \in Nat /\ k \in 1 .. Len(a.digits)
    BY <1>2, <1>7, <1>9, BufferFacts
  <2> QED
    BY <1>2, <2>1, EnsureFacts
<1> HIDE DEF e
<1>13. /\ Len(e.digits) \in Nat /\ AbsOf(num) = k /\ num \in Int
       /\ n <= Len(e.digits) /\ AbsOf(num) <= Len(e.digits)
       /\ k \in n + 1 .. Len(e.digits) /\ n \in Nat
  <2>1. Len(e.digits) \in Nat /\ AbsOf(num) = k /\ num \in Int
    BY <1>2, <1>8, <1>12, BufferFacts DEF AbsOf
  <2> QED
    BY <1>2, <1>7, <1>9, <1>12, <2>1
<1>14. /\ w \in Buffers /\ w.num = num
       /\ \A i \in 1 .. n : w.digits[i] = d[i]
       /\ \A i \in n + 1 .. Len(e.digits) : w.digits[i] = e.digits[i]
  BY <1>1, <1>12, <1>13, OverwriteFacts
<1> HIDE DEF w
<1>15. w.digits[k] = a.digits[k]
  BY <1>12, <1>13, <1>14
<1>16. Size(w) = k
  BY <1>13, <1>14 DEF Size
<1>17. w \in BigInts
  BY <1>11, <1>14, <1>15, <1>16 DEF BigInts, Normalized
<1>18. w \in [num : Int, digits : Seq(Digits), const_size : BOOLEAN, failed : BOOLEAN]
       /\ k <= Len(w.digits)
  BY <1>14, <1>16 DEF Buffers
<1>19. /\ low \in [num : Int, digits : Seq(Digits), const_size : BOOLEAN, failed : BOOLEAN]
       /\ low.num = n /\ low.digits = w.digits
  BY <1>13, <1>18
<1> HIDE DEF low
<1>20. Size(low) = n
  BY <1>13, <1>19 DEF Size, AbsOf
<1>21. low \in Buffers
  <2>1. Len(w.digits) \in Nat
    BY <1>18
  <2>2. n <= Len(w.digits)
    BY <1>2, <1>7, <1>18, <2>1
  <2> QED
    BY <1>19, <1>20, <2>2 DEF Buffers
<1>22. AbsValue(low) = v
  <2>1. \A i \in 1 .. n : d[i] \in Int /\ w.digits[i] = d[i]
    BY <1>1, <1>14 DEF Digits
  <2>2. ValueFrom(w.digits, n)[1] = ValueFrom(d, n)[1]
    <3>1. 1 \in 1 .. n + 1
      BY <1>13
    <3> QED
      BY <1>13, <2>1, <3>1, ValueFromSame
  <2> QED
    BY <1>8, <1>19, <1>20, <2>2 DEF AbsValue
<1>23. AbsValue(w) > v /\ AbsValue(w) \in Nat
  <2>1. Size(w) > Size(low)
    BY <1>2, <1>7, <1>16, <1>20
  <2> QED
    BY <1>17, <1>21, <1>22, <2>1, LongerIsLarger, AbsValueFacts
<1>24. Value(bigint_normalize(w)) = Value(w)
  BY <1>14, NormalizeFacts
<1>25. (a.num < 0 => Value(w) < -v) /\ (~(a.num < 0) => Value(w) > v)
  BY <1>4, <1>8, <1>14, <1>23 DEF Value
<1> QED
  BY <1>4, <1>10, <1>24, <1>25 DEF v

\* The exceptions of AddExact and SubExact are needed: whenever the operands
\* are such that x_sub keeps top digits, the sum or the difference is wrong.
THEOREM KeepsIsWrong ==
  ASSUME NEW a \in BigInts, Growable(a), NEW b \in BigInts
  PROVE  /\ KeepsOnAdd(a, b) => Value(fklAddBigInt(a, b)) # Value(a) + Value(b)
         /\ KeepsOnSub(a, b) => Value(fklSubBigInt(a, b)) # Value(a) - Value(b)
<1>1. AbsValue(a) \in Nat /\ AbsValue(b) \in Nat
  BY AbsValueFacts
<1>2. ASSUME KeepsOnAdd(a, b) PROVE Value(fklAddBigInt(a, b)) # Value(a) + Value(b)
  <2>1. KeepsTopDigits(a, b) /\ ~(a.num < 0) /\ b.num < 0 /\ ~(Medium(a) /\ Medium(b))
    <3>1. a.num \in Int
      BY AbsValueFacts, BufferFacts
    <3> QED
      BY <1>2, <3>1 DEF KeepsOnAdd, KeepsTopDigits
  <2>2. fklAddBigInt(a, b) = x_sub(a, b)
    BY <2>1 DEF fklAddBigInt
  <2>3. Value(x_sub(a, b)) > AbsValue(a) - AbsValue(b)
    BY <2>1, x_subKeeps
  <2>4. Value(a) + Value(b) = AbsValue(a) - AbsValue(b)
    BY <1>1, <2>1 DEF Value
  <2> QED
    BY <1>1, <2>2, <2>3, <2>4
<1>3. ASSUME KeepsOnSub(a, b) PROVE Value(fklSubBigInt(a, b)) # Value(a) - Value(b)
  <2>1. KeepsTopDigits(a, b) /\ ~(Medium(a) /\ Medium(b)) /\ (a.num < 0 <=> b.num < 0)
    BY <1>3 DEF KeepsOnSub, KeepsTopDigits
  <2>2. fklSubBigInt(a, b) = x_sub(a, b)
    BY <2>1 DEF fklSubBigInt
  <2>3. PICK v \in Int : v = AbsValue(a) - AbsValue(b)
    BY <1>1
  <2>4. /\ a.num < 0 => Value(x_sub(a, b)) < -v
        /\ ~(a.num < 0) => Value(x_sub(a, b)) > v
    BY <2>1, <2>3, x_subKeeps
  <2>5. Value(a) - Value(b) = IF a.num < 0 THEN -v ELSE v
    BY <1>1, <2>1, <2>3 DEF Value
  <2> QED
    BY <2>2, <2>3, <2>4, <2>5
<1> QED
  BY <1>2, <1>3

-----------------------------------------------------------------------------
(* From machine integers to big integers and back. *)

\* A big integer made from a machine integer.
LEMMA OfI64Exact ==
  ASSUME NEW v \in Int
  PROVE  OfI64(v) \in BigInts /\ Value(OfI64(v)) = v
<1> DEFINE s == fklSetBigIntI(BIGINT_0, v)
           r == OfI64(v)
<1>1. BIGINT_0 \in Buffers /\ Growable(BIGINT_0)
  <2>1. <<>> \in Seq(Digits) /\ Len(<<>>) = 0
    OBVIOUS
  <2>2. BIGINT_0 \in [num : Int, digits : Seq(Digits), const_size : BOOLEAN, failed : BOOLEAN]
    BY <2>1 DEF BIGINT_0
  <2>3. Size(BIGINT_0) = 0 /\ Len(BIGINT_0.digits) = 0
    BY <2>1 DEF BIGINT_0, Size, AbsOf
  <2> QED
    BY <2>2, <2>3 DEF Buffers, Growable, BIGINT_0
<1>2. s \in BigInts /\ Growable(s) /\ Value(s) = v
  BY <1>1, SetExact
<1>3. s \in [num : Int, digits : Seq(Digits), const_size : BOOLEAN, failed : BOOLEAN]
      /\ Size(s) <= Len(s.digits)
  BY <1>2 DEF BigInts, Buffers
<1>4. r = [s EXCEPT !.const_size = TRUE]
  BY DEF OfI64
<1> HIDE DEF s, r
<1>5. /\ r \in [num : Int, digits : Seq(Digits), const_size : BOOLEAN, failed : BOOLEAN]
      /\ r.num = s.num /\ r.digits = s.digits
  BY <1>3, <1>4
<1>6. Size(r) = Size(s)
  BY <1>5 DEF Size
<1>7. r \in BigInts
  BY <1>2, <1>3, <1>5, <1>6 DEF BigInts, Buffers, Normalized
<1>8. Value(r) = Value(s)
  BY <1>5, <1>6 DEF Value, AbsValue
<1> QED
  BY <1>2, <1>7, <1>8 DEF r

\* fklIsBigIntGtLtFix: the number is no fixed integer.
LEMMA GtLtFixExact ==
  ASSUME NEW a \in BigInts
  PROVE  IsBigIntGtLtFix(a) <=> Value(a) \notin FixInts
<1>1. PICK h \in Nat : h = Base * Base /\ h > 0
  BY HalfFacts
<1>2. PICK x \in Int : x = Value(a)
  BY AbsValueFacts DEF Value
<1>3. -Base * Base = -h
  BY <1>1, BaseAssumption
<1>4. h - 1 \in Int /\ -h \in Int
  BY <1>1
<1>5. /\ OfI64(h - 1) \in BigInts /\ Value(OfI64(h - 1)) = h - 1
      /\ OfI64(-h) \in BigInts /\ Value(OfI64(-h)) = -h
  BY <1>4, OfI64Exact
<1>6. /\ fklBigIntCmp(a, OfI64(h - 1)) = (IF x < h - 1 THEN -1 ELSE IF x > h - 1 THEN 1 ELSE 0)
      /\ fklBigIntCmp(a, OfI64(-h)) = (IF x < -h THEN -1 ELSE IF x > -h THEN 1 ELSE 0)
  BY <1>2, <1>5, CmpExact
<1>7. IsBigIntGtLtFix(a) <=> fklBigIntCmp(a, OfI64(h - 1)) > 0 \/ fklBigIntCmp(a, OfI64(-h)) < 0
  BY <1>1, <1>3 DEF IsBigIntGtLtFix
<1>8. Value(a) \notin FixInts <=> x > h - 1 \/ x < -h
  BY <1>1, <1>2 DEF FixInts, FIX_INT_MIN, FIX_INT_MAX
<1> QED
  BY <1>4, <1>6, <1>7, <1>8

\* A fixed integer has three digits at most.
LEMMA FixSize ==
  ASSUME NEW a \in BigInts, Value(a) \in FixInts
  PROVE  Size(a) <= 3
<1> DEFINE ds == <<0, 0, 1>>
           c == [num |-> 3, digits |-> ds, const_size |-> FALSE, failed |-> FALSE]
           v == ValueFrom(ds, 3)
<1>1. PICK h \in Nat : h = Base * Base /\ h > 0
  BY HalfFacts
<1>2. ds \in Seq(Digits) /\ Len(ds) = 3 /\ ds[1] = 0 /\ ds[2] = 0 /\ ds[3] = 1
  <2>1. 0 \in Digits /\ 1 \in Digits
    BY BaseAssumption DEF Digits
  <2> QED
    BY <2>1
<1>3. c \in Buffers /\ AbsValue(c) = v[1]
  <2> HIDE DEF ds
  <2>1. c.num = 3 /\ c.digits = ds /\ Size(c) = 3
    BY DEF Size, AbsOf
  <2>2. c \in [num : Int, digits : Seq(Digits), const_size : BOOLEAN, failed : BOOLEAN]
    BY <1>2
  <2> HIDE DEF c
  <2>3. Size(c) <= Len(c.digits)
    <3>1. Len(c.digits) = 3
      BY <1>2, <2>1, Zenon
    <3>2. Size(c) = 3
      BY <2>1
    <3> QED
      BY <3>1, <3>2, SMT
  <2>4. AbsValue(c) = ValueFrom(ds, 3)[1]
    BY <2>1 DEF AbsValue
  <2> QED
    BY <2>2, <2>3, <2>4 DEF Buffers
<1>4. v[3 + 1] = 0 /\ \A i \in 1 .. 3 : v[i] = ds[i] + Base * v[i + 1]
  <2>1. \A i \in 1 .. 3 : ds[i] \in Int
    BY <1>2
  <2>2. 3 \in Nat
    OBVIOUS
  <2> HIDE DEF ds
  <2> QED
    BY <2>1, <2>2, ValueFromFacts
<1> HIDE DEF ds, v
<1>5. v[4] = 0 /\ v[3] = 1 + Base * v[4] /\ v[2] = 0 + Base * v[3] /\ v[1] = 0 + Base * v[2]
  BY <1>2, <1>4
<1>6. v[1] = h
  BY <1>1, <1>5, BaseAssumption
<1>7. ASSUME Size(a) > 3 PROVE FALSE
  <2>1. Size(c) = 3
    BY DEF Size, AbsOf
  <2>2. AbsValue(a) > h /\ AbsValue(a) \in Nat
    BY <1>3, <1>6, <1>7, <2>1, LongerIsLarger, AbsValueFacts
  <2> QED
    BY <1>1, <2>2 DEF Value, FixInts, FIX_INT_MIN, FIX_INT_MAX
<1>8. Size(a) \in Nat
  BY AbsValueFacts, BufferFacts
<1> QED
  BY <1>7, <1>8

\* fklBigIntToI is exact for what fits into a fixed integer.
LEMMA ToIExact ==
  ASSUME NEW a \in BigInts, Value(a) \in FixInts
  PROVE  fklBigIntToI(a) = Value(a)
<1>1. PICK h \in Nat : h = Base * Base /\ h > 0
  BY HalfFacts
<1>2. PICK x \in Int : x = Value(a) /\ x >= -h /\ x <= h - 1
  BY <1>1 DEF FixInts, FIX_INT_MIN, FIX_INT_MAX
<1>3. I64Min = -(8 * h) /\ I64Max = 8 * h - 1
  BY <1>1, BaseAssumption DEF I64Min, I64Max
<1>4. I64Min \in Int /\ I64Max \in Int /\ I64Min < x /\ x < I64Max
  BY <1>1, <1>2, <1>3
<1>5. /\ OfI64(I64Min) \in BigInts /\ Value(OfI64(I64Min)) = I64Min
      /\ OfI64(I64Max) \in BigInts /\ Value(OfI64(I64Max)) = I64Max
  BY <1>4, OfI64Exact
<1>6. fklBigIntCmp(a, OfI64(I64Min)) = 1
  <2>1. fklBigIntCmp(a, OfI64(I64Min)) =
           (IF x < I64Min THEN -1 ELSE IF x > I64Min THEN 1 ELSE 0)
    BY <1>2, <1>5, CmpExact
  <2> QED
    BY <1>4, <2>1
<1>7. fklBigIntCmp(a, OfI64(I64Max)) = -1
  <2>1. fklBigIntCmp(a, OfI64(I64Max)) =
           (IF x < I64Max THEN -1 ELSE IF x > I64Max THEN 1 ELSE 0)
    BY <1>2, <1>5, CmpExact
  <2> QED
    BY <1>4, <2>1
<1>8. ~(a.num < -3) /\ ~(a.num > 3)
  <2>1. a.num \in Int /\ Size(a) <= 3
    BY AbsValueFacts, BufferFacts, FixSize
  <2> QED
    BY <2>1 DEF Size, AbsOf
<1>9. /\ ~(fklBigIntCmp(a, OfI64(I64Min)) < 0)
      /\ ~(fklBigIntCmp(a, OfI64(I64Max)) > 0)
  BY <1>6, <1>7
<1> QED
  BY <1>8, <1>9 DEF fklBigIntToI

\* The value of the virtual machine that stands for n: a fixed integer if n fits
\* into one, and a big integer, normalized, if it does not.
Canonical(v, n) ==
    IF n \in FixInts
    THEN v = [tag |-> "fix", i |-> n]
    ELSE v.tag = "big" /\ v.bi \in BigInts /\ Value(v.bi) = n

\* FKL_MAKE_VM_FIX loses nothing of what fits.
LEMMA MakeFixExact ==
  ASSUME NEW n \in FixInts
  PROVE  Canonical(MAKE_VM_FIX(n), n)
<1>1. PICK h \in Nat : h = Base * Base /\ h > 0
  BY HalfFacts
<1>2. n \in Int /\ n \in -h .. h - 1
  BY <1>1 DEF FixInts, FIX_INT_MIN, FIX_INT_MAX
<1>3. Wrapped(n, h) = n
  BY <1>1, <1>2, WrappedFacts
<1> QED
  BY <1>1, <1>3 DEF Canonical, MAKE_VM_FIX

\* fklCreateVMvalueBigInt2 copies the digits in use.
LEMMA VMbigIntExact ==
  ASSUME NEW a \in BigInts
  PROVE  /\ VMbigInt(a).tag = "big" /\ VMbigInt(a).bi \in BigInts
         /\ Value(VMbigInt(a).bi) = Value(a)
<1> DEFINE n == Size(a)
           ds == SubSeq(a.digits, 1, n)
           r == [a EXCEPT !.digits = ds, !.const_size = TRUE]
<1>1. /\ a \in Buffers /\ Normalized(a) /\ n \in Nat /\ (a.num = n \/ a.num = -n)
      /\ a.digits \in Seq(Digits) /\ n <= Len(a.digits)
      /\ \A i \in 1 .. n : a.digits[i] \in Digits
  BY BufferFacts DEF BigInts
<1>2. ds \in Seq(Digits) /\ Len(ds) = n /\ \A i \in 1 .. n : ds[i] = a.digits[i]
  <2> HIDE DEF n
  <2> QED
    BY <1>1
<1>3. a \in [num : Int, digits : Seq(Digits), const_size : BOOLEAN, failed : BOOLEAN]
  BY <1>1 DEF Buffers
<1>4. VMbigInt(a).tag = "big" /\ VMbigInt(a).bi = r
  BY DEF VMbigInt
<1> HIDE DEF ds
<1>5. /\ r \in [num : Int, digits : Seq(Digits), const_size : BOOLEAN, failed : BOOLEAN]
      /\ r.num = a.num /\ r.digits = ds
  BY <1>2, <1>3
<1> HIDE DEF r
<1>6. Size(r) = n
  BY <1>5 DEF Size
<1>7. r \in BigInts
  <2>1. n # 0 => n \in 1 .. n
    BY <1>1
  <2>2. Normalized(r)
    BY <1>1, <1>2, <1>5, <1>6, <2>1 DEF Normalized
  <2>3. Size(r) <= Len(r.digits)
    BY <1>1, <1>2, <1>5, <1>6
  <2> QED
    BY <1>5, <2>2, <2>3 DEF BigInts, Buffers
<1>8. AbsValue(r) = AbsValue(a)
  <2>1. \A i \in 1 .. n : a.digits[i] \in Int /\ ds[i] = a.digits[i]
    BY <1>1, <1>2 DEF Digits
  <2>2. ValueFrom(ds, n)[1] = ValueFrom(a.digits, n)[1]
    <3> HIDE DEF n
    <3>1. 1 \in 1 .. n + 1
      BY <1>1
    <3> QED
      BY <1>1, <2>1, <3>1, ValueFromSame
  <2> QED
    BY <1>5, <1>6, <2>2 DEF AbsValue
<1> QED
  BY <1>4, <1>5, <1>7, <1>8 DEF Value

\* Every operation that computed a big integer returns the same integer, as a
\* fixed integer if and only if it fits into one.
THEOREM ResultExact ==
  ASSUME NEW a \in BigInts
  PROVE  Canonical(Result(a), Value(a))
<1>1. CASE Value(a) \in FixInts
  <2>1. Result(a) = MAKE_VM_FIX(Value(a))
    BY <1>1, GtLtFixExact, ToIExact DEF Result
  <2> QED
    BY <1>1, <2>1, MakeFixExact
<1>2. CASE Value(a) \notin FixInts
  <2>1. Result(a) = VMbigInt(a)
    BY <1>2, GtLtFixExact DEF Result
  <2> QED
    BY <1>2, <2>1, VMbigIntExact DEF Canonical
<1> QED
  BY <1>1, <1>2

-----------------------------------------------------------------------------
(* Calls of the builtin +. *)

\* What the builtins gather their arguments in.
Accs == [r64 : FixInts, bi : {x \in BigInts : Growable(x)}]
ValueOf(acc) == acc.r64 + Value(acc.bi)

\* Two minima are added, or two big integers in a way that keeps top digits.
AddGoesWrong(acc, v) ==
    \/ v.tag = "fix" /\ acc.r64 = FIX_INT_MIN /\ v.i = FIX_INT_MIN
    \/ /\ v.tag = "big" \/ fklIsFixAddOverflow(acc.r64, v.i)
       /\ KeepsOnAdd(acc.bi, ToBigInt(v))

\* A number that is no fixed integer has a big integer, one that is has none.
LEMMA CanonicalFacts ==
  ASSUME NEW v, NEW n \in Int, Canonical(v, n)
  PROVE  /\ v.tag = "fix" => v.i = n /\ n \in FixInts
         /\ v.tag # "fix" => v.tag = "big" /\ v.bi \in BigInts /\ n \notin FixInts
         /\ ToBigInt(v) \in BigInts /\ Value(ToBigInt(v)) = n
<1>1. CASE n \in FixInts
  <2>1. v = [tag |-> "fix", i |-> n]
    BY <1>1 DEF Canonical
  <2>2. v.tag = "fix" /\ v.i = n
    BY <2>1
  <2> QED
    BY <1>1, <2>2, OfI64Exact DEF ToBigInt
<1>2. CASE n \notin FixInts
  <2>1. v.tag = "big" /\ v.bi \in BigInts /\ Value(v.bi) = n
    BY <1>2 DEF Canonical
  <2> QED
    BY <1>2, <2>1 DEF ToBigInt
<1> QED
  BY <1>1, <1>2

\* What fits into a fixed integer fits into int64_t.
LEMMA I64Fix ==
  ASSUME NEW n \in FixInts
  PROVE  I64(n) = n
<1>1. PICK h \in Nat : h = Base * Base /\ h > 0
  BY HalfFacts
<1>2. -I64Min = 8 * h
  <2>1. I64Min = -(8 * h)
    BY <1>1, BaseAssumption DEF I64Min
  <2> QED
    BY <1>1, <2>1
<1>3. PICK g \in Nat : g = 8 * h /\ g > 0 /\ n \in -g .. g - 1
  BY <1>1 DEF FixInts, FIX_INT_MIN, FIX_INT_MAX
<1>4. n \in Int
  BY <1>3
<1>5. Wrapped(n, g) = n
  BY <1>3, <1>4, WrappedFacts
<1> QED
  BY <1>2, <1>3, <1>5 DEF I64

\* An argument is added.
LEMMA AddStep ==
  ASSUME NEW acc \in Accs, NEW v, NEW n \in Int, Canonical(v, n), ~AddGoesWrong(acc, v)
  PROVE  LET r == fklProcessVMnumAdd(acc, v)
         IN  r \in Accs /\ ValueOf(r) = ValueOf(acc) + n
<1> DEFINE r == fklProcessVMnumAdd(acc, v)
           t == fklAddBigInt(acc.bi, ToBigInt(v))
<1>1. /\ acc.r64 \in FixInts /\ acc.bi \in BigInts /\ Growable(acc.bi)
      /\ acc.r64 \in Int /\ Value(acc.bi) \in Int
  BY AbsValueFacts DEF Accs, Value, FixInts
<1>2. /\ v.tag = "fix" => v.i = n /\ n \in FixInts
      /\ v.tag # "fix" => v.tag = "big" /\ v.bi \in BigInts /\ n \notin FixInts
      /\ ToBigInt(v) \in BigInts /\ Value(ToBigInt(v)) = n
  BY CanonicalFacts
<1>3. ASSUME ~KeepsOnAdd(acc.bi, ToBigInt(v))
      PROVE  /\ [acc EXCEPT !.bi = t] \in Accs
             /\ ValueOf([acc EXCEPT !.bi = t]) = ValueOf(acc) + n
  <2>1. t \in BigInts /\ Growable(t) /\ Value(t) = Value(acc.bi) + n
    BY <1>1, <1>2, <1>3, AddExact
  <2> HIDE DEF t
  <2> QED
    BY <1>1, <2>1 DEF Accs, ValueOf
<1>4. CASE v.tag = "big"
  <2>1. v.tag # "fix" /\ ToBigInt(v) = v.bi
    BY <1>4 DEF ToBigInt
  <2>2. r = [acc EXCEPT !.bi = t]
    BY <1>4, <2>1 DEF fklProcessVMnumAdd
  <2> QED
    BY <1>3, <1>4, <2>2 DEF AddGoesWrong
<1>5. CASE v.tag = "fix" /\ fklIsFixAddOverflow(acc.r64, v.i)
  <2>1. v.tag # "big" /\ ToBigInt(v) = OfI64(v.i)
    BY <1>5 DEF ToBigInt
  <2>2. r = [acc EXCEPT !.bi = t]
    BY <1>5, <2>1 DEF fklProcessVMnumAdd
  <2> QED
    BY <1>3, <1>5, <2>2 DEF AddGoesWrong
<1>6. CASE v.tag = "fix" /\ ~fklIsFixAddOverflow(acc.r64, v.i)
  <2>1. r = [acc EXCEPT !.r64 = I64(acc.r64 + v.i)]
    BY <1>6 DEF fklProcessVMnumAdd
  <2>2. acc.r64 + n \in FixInts
    <3>1. ~(acc.r64 = FIX_INT_MIN /\ n = FIX_INT_MIN)
      BY <1>2, <1>6 DEF AddGoesWrong
    <3>2. n \in FixInts /\ ~fklIsFixAddOverflow(acc.r64, n)
      BY <1>2, <1>6
    <3> QED
      BY <1>1, <3>1, <3>2, FixAddOverflow
  <2>3. r = [acc EXCEPT !.r64 = acc.r64 + n]
    BY <1>2, <1>6, <2>1, <2>2, I64Fix
  <2>4. r \in Accs /\ r.r64 = acc.r64 + n /\ r.bi = acc.bi
    BY <2>2, <2>3 DEF Accs
  <2>5. PICK x \in Int, y \in Int : x = acc.r64 /\ y = Value(acc.bi)
    BY <1>1
  <2> HIDE DEF r
  <2>6. ValueOf(r) = (x + n) + y /\ ValueOf(acc) = x + y
    BY <2>4, <2>5 DEF ValueOf
  <2>7. ValueOf(r) = ValueOf(acc) + n
    BY <2>6
  <2> QED
    BY <2>4, <2>7 DEF r
<1> QED
  BY <1>2, <1>4, <1>5, <1>6

\* Sums gathers one argument after the other.
GathersSums(args, i, acc) ==
    /\ acc[i - 1] = [r64 |-> 0, bi |-> BIGINT_0]
    /\ \A k \in i .. Len(args) : acc[k] = fklProcessVMnumAdd(acc[k - 1], args[k])

\* The recursion of Sums defines it.
LEMMA SumsFacts ==
  ASSUME NEW args, Len(args) \in Nat, NEW i \in 1 .. Len(args) + 1
  PROVE  GathersSums(args, i, Sums(args, i))
<1> DEFINE n == Len(args)
           zero == [r64 |-> 0, bi |-> BIGINT_0]
           Step(k, h) == [j \in i - 1 .. k |->
                             IF j < i THEN zero ELSE fklProcessVMnumAdd(h[j - 1], args[j])]
           S == {k \in 0 .. n : k >= i - 1 => \E g : g = Step(k, g)}
<1>1. n \in Nat /\ i \in Nat /\ i >= 1 /\ i - 1 <= n
  OBVIOUS
<1>2. ASSUME NEW k \in 0 .. n, k = i - 1 PROVE k \in S
  <2> DEFINE g == [j \in i - 1 .. k |-> zero]
  <2>1. g = Step(k, g)
    BY <1>1, <1>2
  <2> HIDE DEF g
  <2> QED
    BY <2>1
<1>3. 0 \in S
  <2>1. CASE i = 1
    <3>1. 0 \in 0 .. n /\ 0 = i - 1
      BY <1>1, <2>1
    <3> HIDE DEF S
    <3> QED
      BY <1>2, <3>1
  <2>2. CASE i # 1
    BY <1>1, <2>2
  <2> QED
    BY <2>1, <2>2
<1>4. ASSUME NEW k \in 1 .. n, k - 1 \in S PROVE k \in S
  <2>1. CASE k < i - 1
    BY <1>1, <2>1
  <2>2. CASE k = i - 1
    <3>1. k \in 0 .. n
      BY <1>1
    <3> HIDE DEF S
    <3> QED
      BY <1>2, <2>2, <3>1
  <2>3. CASE k > i - 1
    <3>1. PICK g : g = Step(k - 1, g)
      BY <1>1, <1>4, <2>3
    <3> DEFINE h == [j \in i - 1 .. k |->
                        IF j = k THEN fklProcessVMnumAdd(g[k - 1], args[k]) ELSE g[j]]
    <3>2. ASSUME NEW j \in i - 1 .. k
          PROVE  h[j] = IF j < i THEN zero ELSE fklProcessVMnumAdd(h[j - 1], args[j])
      <4>1. CASE j = k
        <5>1. ~(j < i) /\ j - 1 \in i - 1 .. k /\ j - 1 # k
          BY <1>1, <2>3, <4>1
        <5>2. h[j - 1] = g[k - 1]
          BY <4>1, <5>1
        <5> QED
          BY <4>1, <5>1, <5>2
      <4>2. CASE j # k
        <5>1. j \in i - 1 .. k - 1
          BY <1>1, <4>2
        <5>2. h[j] = g[j] /\ g[j] = IF j < i THEN zero ELSE fklProcessVMnumAdd(g[j - 1], args[j])
          BY <3>1, <4>2, <5>1, Zenon
        <5>3. ~(j < i) => j - 1 \in i - 1 .. k /\ j - 1 # k
          BY <1>1, <5>1
        <5>4. ~(j < i) => h[j - 1] = g[j - 1]
          BY <5>3
        <5> QED
          BY <5>2, <5>4
      <4> QED
        BY <4>1, <4>2
    <3>3. h = [j \in i - 1 .. k |-> h[j]]
      OBVIOUS
    <3> HIDE DEF h
    <3>4. h = Step(k, h)
      BY <3>2, <3>3
    <3> QED
      BY <3>4
  <2> QED
    BY <1>1, <2>1, <2>2, <2>3
<1>5. n \in S
  <2> HIDE DEF S, n
  <2>1. 0 .. n \subseteq S
    BY <1>1, <1>3, <1>4, UpInduction
  <2> QED
    BY <1>1, <2>1
<1>6. PICK g : g = Step(n, g)
  BY <1>1, <1>5
<1>7. Sums(args, i) = CHOOSE h : h = Step(n, h)
  BY DEF Sums, Gatherings
<1> HIDE DEF Step
<1>8. (CHOOSE h : h = Step(n, h)) = Step(n, CHOOSE h : h = Step(n, h))
  BY <1>6, Zenon
<1>9. PICK acc : acc = Sums(args, i) /\ acc = Step(n, acc)
  BY <1>7, <1>8
<1>10. \A k \in i - 1 .. n : acc[k] = IF k < i THEN zero ELSE fklProcessVMnumAdd(acc[k - 1], args[k])
  BY <1>9, Zenon DEF Step
<1>11. i - 1 \in i - 1 .. n /\ i - 1 < i /\ \A k \in i .. n : k \in i - 1 .. n /\ ~(k < i)
  BY <1>1
<1>12. acc[i - 1] = zero /\ \A k \in i .. n : acc[k] = fklProcessVMnumAdd(acc[k - 1], args[k])
  BY <1>10, <1>11, Zenon
<1> QED
  BY <1>9, <1>12 DEF GathersSums

\* The arguments stand for the integers x[k]; s adds up those from the i-th on.
Integers(args, x) ==
    Len(args) \in Nat /\ \A k \in 1 .. Len(args) : x[k] \in Int /\ Canonical(args[k], x[k])
Totals(args, i, x, s) ==
    s[i - 1] = 0 /\ \A k \in i .. Len(args) : s[k] = s[k - 1] + x[k]

SumGoesWrong(args, i) ==
    \E k \in i .. Len(args) : AddGoesWrong(Sums(args, i)[k - 1], args[k])

\* The number the builtins begin with.
LEMMA BIGINT_0Facts ==
  /\ BIGINT_0 \in BigInts /\ Growable(BIGINT_0) /\ Value(BIGINT_0) = 0
  /\ 0 \in FixInts /\ 1 \in FixInts
<1>1. <<>> \in Seq(Digits) /\ Len(<<>>) = 0
  OBVIOUS
<1>2. BIGINT_0 \in [num : Int, digits : Seq(Digits), const_size : BOOLEAN, failed : BOOLEAN]
  BY <1>1 DEF BIGINT_0
<1>3. BIGINT_0.num = 0 /\ Size(BIGINT_0) = 0 /\ Len(BIGINT_0.digits) = 0
  BY <1>1 DEF BIGINT_0, Size, AbsOf
<1>4. BIGINT_0 \in BigInts /\ Growable(BIGINT_0)
  BY <1>2, <1>3 DEF BigInts, Buffers, Normalized, Growable, BIGINT_0
<1>5. AbsValue(BIGINT_0) = 0
  BY <1>3, <1>4, AbsValueFacts
<1>6. Value(BIGINT_0) = 0
  BY <1>3, <1>5 DEF Value
<1>7. PICK h \in Nat : h = Base * Base /\ h >= 256
  BY HalfFacts
<1>8. 0 \in -h .. h - 1 /\ 1 \in -h .. h - 1
  BY <1>7
<1> QED
  BY <1>4, <1>6, <1>7, <1>8 DEF FixInts, FIX_INT_MIN, FIX_INT_MAX

\* The fixed and the big integer the arguments are gathered in make their sum.
LEMMA SumsExact ==
  ASSUME NEW args, NEW x, Integers(args, x), NEW i \in 1 .. Len(args) + 1,
         NEW s, Totals(args, i, x, s), ~SumGoesWrong(args, i)
  PROVE  SumFrom(args, i) \in Accs /\ ValueOf(SumFrom(args, i)) = s[Len(args)]
<1> DEFINE n == Len(args)
           acc == Sums(args, i)
           S == {k \in 0 .. n : k >= i - 1 => acc[k] \in Accs /\ ValueOf(acc[k]) = s[k]}
<1>1. n \in Nat /\ i \in Nat /\ i >= 1 /\ i - 1 <= n
  BY DEF Integers
<1>2. GathersSums(args, i, acc)
  BY <1>1, SumsFacts
<1>3. \A k \in i .. n : ~AddGoesWrong(acc[k - 1], args[k])
  BY DEF SumGoesWrong
<1> HIDE DEF acc
<1>4. acc[i - 1] \in Accs /\ ValueOf(acc[i - 1]) = s[i - 1]
  <2>1. acc[i - 1] = [r64 |-> 0, bi |-> BIGINT_0]
    BY <1>2 DEF GathersSums
  <2>2. s[i - 1] = 0
    BY DEF Totals
  <2> QED
    BY <2>1, <2>2, BIGINT_0Facts DEF Accs, ValueOf
<1>5. 0 \in S
  <2>1. CASE i = 1
    BY <1>1, <1>4, <2>1
  <2>2. CASE i # 1
    BY <1>1, <2>2
  <2> QED
    BY <2>1, <2>2
<1>6. ASSUME NEW k \in 1 .. n, k - 1 \in S PROVE k \in S
  <2> SUFFICES ASSUME k >= i - 1 PROVE acc[k] \in Accs /\ ValueOf(acc[k]) = s[k]
    BY <1>1
  <2>1. CASE k = i - 1
    BY <1>4, <2>1
  <2>2. CASE k # i - 1
    <3>1. k \in i .. n /\ k - 1 >= i - 1
      BY <1>1, <2>2
    <3>2. acc[k - 1] \in Accs /\ ValueOf(acc[k - 1]) = s[k - 1]
      BY <1>6, <3>1
    <3>3. acc[k] = fklProcessVMnumAdd(acc[k - 1], args[k])
      BY <1>2, <3>1 DEF GathersSums
    <3>4. x[k] \in Int /\ Canonical(args[k], x[k]) /\ s[k] = s[k - 1] + x[k]
      BY <3>1 DEF Integers, Totals
    <3>5. ~AddGoesWrong(acc[k - 1], args[k])
      BY <1>3, <3>1
    <3> QED
      BY <3>2, <3>3, <3>4, <3>5, AddStep
  <2> QED
    BY <2>1, <2>2
<1>7. n \in S
  <2> HIDE DEF S, n
  <2>1. 0 .. n \subseteq S
    BY <1>1, <1>5, <1>6, UpInduction
  <2> QED
    BY <1>1, <2>1
<1>8. acc[n] \in Accs /\ ValueOf(acc[n]) = s[n]
  BY <1>1, <1>7
<1> QED
  BY <1>8 DEF SumFrom, acc

AddCallGoesWrong(args) ==
    LET acc == SumFrom(args, 1)
    IN  \/ SumGoesWrong(args, 1)
        \/ acc.bi.num # 0 /\ KeepsOnAdd(acc.bi, OfI64(acc.r64))

\* The builtin + returns the sum of any number of fixed and big integers,
\* however often they pass from the fixed sum to the big one, and the result is
\* a fixed integer if and only if it fits; excepted are the calls that add the
\* two least fixed integers or keep top digits.
THEOREM AddCallExact ==
  ASSUME NEW args, NEW x, Integers(args, x), NEW s, Totals(args, 1, x, s),
         ~AddCallGoesWrong(args)
  PROVE  Canonical(builtin_add(args), s[Len(args)])
<1>1. 1 \in 1 .. Len(args) + 1
  BY DEF Integers
<1>2. PICK acc : acc = SumFrom(args, 1) /\ acc \in Accs /\ ValueOf(acc) = s[Len(args)]
  BY <1>1, SumsExact DEF AddCallGoesWrong
<1>3. /\ acc.r64 \in FixInts /\ acc.r64 \in Int
      /\ acc.bi \in BigInts /\ Growable(acc.bi) /\ Value(acc.bi) \in Int
  BY <1>2, AbsValueFacts DEF Accs, Value, FixInts
<1>4. builtin_add(args) = fklProcessVMnumAddResult(acc)
  BY <1>2 DEF builtin_add
<1>5. CASE acc.bi.num = 0
  <2>1. Value(acc.bi) = 0
    BY <1>3, <1>5, AbsValueFacts DEF Value
  <2>2. ValueOf(acc) = acc.r64
    BY <1>3, <2>1 DEF ValueOf
  <2>3. builtin_add(args) = MAKE_VM_FIX(acc.r64)
    BY <1>4, <1>5 DEF fklProcessVMnumAddResult
  <2> QED
    BY <1>2, <1>3, <2>2, <2>3, MakeFixExact
<1>6. CASE acc.bi.num # 0
  <2>1. ~KeepsOnAdd(acc.bi, OfI64(acc.r64))
    BY <1>2, <1>6 DEF AddCallGoesWrong
  <2>2. OfI64(acc.r64) \in BigInts /\ Value(OfI64(acc.r64)) = acc.r64
    BY <1>3, OfI64Exact
  <2>3. PICK t : /\ t = fklAddBigInt(acc.bi, OfI64(acc.r64)) /\ t \in BigInts
                 /\ Value(t) = Value(acc.bi) + acc.r64
    BY <1>3, <2>1, <2>2, AddExact
  <2>4. Value(t) = ValueOf(acc)
    BY <1>3, <2>3 DEF ValueOf
  <2>5. builtin_add(args) = Result(t)
    BY <1>4, <1>6, <2>3 DEF fklProcessVMnumAddResult
  <2> QED
    BY <1>2, <2>3, <2>4, <2>5, ResultExact
<1> QED
  BY <1>5, <1>6

-----------------------------------------------------------------------------
(* Calls of the builtin -. *)

SubCallGoesWrong(args) ==
    LET acc == SumFrom(args, 2)
        prev == args[1]
        first == ToBigInt(prev)
    IN  \/ SumGoesWrong(args, 2)
        \/ /\ prev.tag = "big" \/ acc.bi.num # 0
           /\ \/ KeepsOnSub(acc.bi, first)
              \/ KeepsOnSub(Negated(fklSubBigInt(acc.bi, first)), OfI64(acc.r64))
        \/ prev.tag = "fix" /\ prev.i = 0 /\ acc.bi.num = 0 /\ acc.r64 = FIX_INT_MIN

\* A number has the sign of its value.
LEMMA SignOfValue ==
  ASSUME NEW a \in BigInts
  PROVE  /\ a.num \in Int /\ Value(a) \in Int
         /\ a.num < 0 <=> Value(a) < 0
         /\ a.num = 0 <=> Value(a) = 0
<1>1. a.num \in Int /\ AbsValue(a) \in Nat /\ (a.num # 0 => AbsValue(a) > 0) /\ (a.num = 0 => AbsValue(a) = 0)
  BY AbsValueFacts, BufferFacts
<1> QED
  BY <1>1 DEF Value

\* What fklProcessVMnumSubResult computes with fixed integers alone: the test
\* for overflow is asked about the negative of the sum, which need not be a
\* fixed integer.
LEMMA SubOverflow ==
  ASSUME NEW p \in FixInts, NEW r \in FixInts, ~(p = 0 /\ r = FIX_INT_MIN)
  PROVE  /\ fklIsFixAddOverflow(p, -r) <=> p - r \notin FixInts
         /\ fklIsFixAddOverflow(p, -r) => (p < 0 <=> ~(r < 0))
<1>1. PICK h \in Nat : h = Base * Base /\ h > 0
  BY HalfFacts
<1>2. p \in -h .. h - 1 /\ r \in -h .. h - 1 /\ ~(p = 0 /\ r = -h)
  BY <1>1 DEF FixInts, FIX_INT_MIN, FIX_INT_MAX
<1>3. PICK q \in -(2 * h) .. 2 * h - 1 : q = p + -r /\ q = p - r
  BY <1>2
<1>4. Wrapped(q, h) = IF q < -h THEN q + 2 * h ELSE IF q >= h THEN q - 2 * h ELSE q
  BY <1>1, WrappedSum
<1>5. PICK w : w = Wrapped(q, h) /\ (fklIsFixAddOverflow(p, -r) <=>
         (p < 0 /\ -r < 0 /\ w > 0) \/ (p > 0 /\ -r > 0 /\ w < 0))
  BY <1>1, <1>3 DEF fklIsFixAddOverflow
<1>6. p - r \notin FixInts <=> q < -h \/ q > h - 1
  BY <1>1, <1>3 DEF FixInts, FIX_INT_MIN, FIX_INT_MAX
<1> QED
  BY <1>1, <1>2, <1>3, <1>4, <1>5, <1>6

\* The builtin - of two arguments and more.
THEOREM SubCallExact ==
  ASSUME NEW args, NEW x, Integers(args, x), Len(args) >= 2,
         NEW s, Totals(args, 2, x, s), ~SubCallGoesWrong(args)
  PROVE  Canonical(builtin_sub(args), x[1] - s[Len(args)])
<1>1. 2 \in 1 .. Len(args) + 1 /\ 1 \in 1 .. Len(args) /\ Len(args) # 1
  BY DEF Integers
<1>2. PICK acc : acc = SumFrom(args, 2) /\ acc \in Accs /\ ValueOf(acc) = s[Len(args)]
  BY <1>1, SumsExact DEF SubCallGoesWrong
<1>3. PICK r \in Int, v \in Int :
         /\ r = acc.r64 /\ r \in FixInts /\ v = Value(acc.bi)
         /\ acc.bi \in BigInts /\ Growable(acc.bi)
  BY <1>2, AbsValueFacts DEF Accs, Value, FixInts
<1>4. PICK prev : prev = args[1]
  OBVIOUS
<1>5. PICK p \in Int : p = x[1] /\ Canonical(prev, p)
  BY <1>1, <1>4 DEF Integers
<1>6. /\ prev.tag = "fix" => prev.i = p /\ p \in FixInts
      /\ prev.tag # "fix" => prev.tag = "big" /\ prev.bi \in BigInts /\ p \notin FixInts
      /\ ToBigInt(prev) \in BigInts /\ Value(ToBigInt(prev)) = p
  BY <1>5, CanonicalFacts
<1>7. builtin_sub(args) = fklProcessVMnumSubResult(prev, acc)
  BY <1>1, <1>2, <1>4 DEF builtin_sub
<1>8. x[1] - s[Len(args)] = p - (r + v)
  BY <1>5, <1>2, <1>3 DEF ValueOf
<1>9. OfI64(r) \in BigInts /\ Value(OfI64(r)) = r
  BY OfI64Exact
<1>10. CASE prev.tag = "big" \/ acc.bi.num # 0
  <2>1. ~KeepsOnSub(acc.bi, ToBigInt(prev))
    BY <1>2, <1>4, <1>10 DEF SubCallGoesWrong
  <2>2. PICK t : /\ t = fklSubBigInt(acc.bi, ToBigInt(prev)) /\ t \in BigInts /\ Growable(t)
                 /\ Value(t) = v - p
    BY <1>3, <1>6, <2>1, SubExact
  <2>3. PICK u : u = Negated(t) /\ u \in BigInts /\ Growable(u) /\ Value(u) = -(v - p)
    BY <2>2, NegatedExact
  <2>4. ~KeepsOnSub(u, OfI64(r))
    BY <1>2, <1>3, <1>4, <1>10, <2>2, <2>3 DEF SubCallGoesWrong
  <2>5. PICK w : w = fklSubBigInt(u, OfI64(r)) /\ w \in BigInts /\ Value(w) = -(v - p) - r
    BY <1>9, <2>3, <2>4, SubExact
  <2>6. builtin_sub(args) = Result(w)
    BY <1>3, <1>7, <1>10, <2>2, <2>3, <2>5 DEF fklProcessVMnumSubResult
  <2>7. -(v - p) - r = p - (r + v)
    OBVIOUS
  <2> QED
    BY <1>8, <2>5, <2>6, <2>7, ResultExact
<1>11. CASE prev.tag # "big" /\ acc.bi.num = 0
  <2>1. prev.tag = "fix" /\ prev.i = p /\ p \in FixInts
    BY <1>6, <1>11
  <2>2. v = 0
    BY <1>3, <1>11, SignOfValue
  <2>3. ~(p = 0 /\ r = FIX_INT_MIN)
    BY <1>2, <1>3, <1>4, <1>11, <2>1 DEF SubCallGoesWrong
  <2>4. /\ fklIsFixAddOverflow(p, -r) <=> p - r \notin FixInts
        /\ fklIsFixAddOverflow(p, -r) => (p < 0 <=> ~(r < 0))
    BY <1>3, <2>1, <2>3, SubOverflow
  <2>5. p - (r + v) = p - r
    BY <2>2
  <2>6. CASE ~fklIsFixAddOverflow(p, -r)
    <3>1. builtin_sub(args) = MAKE_VM_FIX(p - r)
      BY <1>3, <1>7, <1>11, <2>1, <2>6 DEF fklProcessVMnumSubResult
    <3> QED
      BY <1>8, <2>4, <2>5, <2>6, <3>1, MakeFixExact
  <2>7. CASE fklIsFixAddOverflow(p, -r)
    <3>1. OfI64(p) \in BigInts /\ Value(OfI64(p)) = p
      BY OfI64Exact
    <3>2. ~KeepsOnAdd(acc.bi, OfI64(p))
      <4>1. Size(acc.bi) = 0
        BY <1>11 DEF Size, AbsOf
      <4>2. ~KeepsTopDigits(acc.bi, OfI64(p))
        <5>1. Medium(acc.bi)
          BY <4>1 DEF Medium
        <5>2. Size(OfI64(p)) = 0 => Medium(OfI64(p))
          BY DEF Medium
        <5> QED
          BY <4>1, <5>1, <5>2 DEF KeepsTopDigits
      <4> QED
        BY <4>2 DEF KeepsOnAdd
    <3>3. PICK t : /\ t = fklAddBigInt(acc.bi, OfI64(p)) /\ t \in BigInts /\ Growable(t)
                   /\ Value(t) = v + p
      BY <1>3, <3>1, <3>2, AddExact
    <3>4. ~KeepsOnSub(t, OfI64(r))
      <4>1. t.num < 0 <=> p < 0
        BY <2>2, <3>3, SignOfValue
      <4>2. OfI64(r).num < 0 <=> r < 0
        BY <1>9, SignOfValue
      <4> QED
        BY <2>4, <2>7, <4>1, <4>2 DEF KeepsOnSub
    <3>5. PICK w : w = fklSubBigInt(t, OfI64(r)) /\ w \in BigInts /\ Value(w) = (v + p) - r
      BY <1>9, <3>3, <3>4, SubExact
    <3>6. builtin_sub(args) = VMbigInt(w)
      BY <1>3, <1>7, <1>11, <2>1, <2>7, <3>3, <3>5 DEF fklProcessVMnumSubResult
    <3>7. Value(w) = p - r /\ p - r \notin FixInts
      BY <2>2, <2>4, <2>7, <3>5
    <3> QED
      BY <1>8, <2>5, <3>5, <3>6, <3>7, VMbigIntExact DEF Canonical
  <2> QED
    BY <2>6, <2>7
<1> QED
  BY <1>10, <1>11

\* The builtin - of one argument.
THEOREM NegExact ==
  ASSUME NEW v, NEW n \in Int, Canonical(v, n)
  PROVE  Canonical(fklProcessVMnumNeg(v), -n)
<1>1. /\ v.tag = "fix" => v.i = n /\ n \in FixInts
      /\ v.tag # "fix" => v.tag = "big" /\ v.bi \in BigInts /\ n \notin FixInts
      /\ ToBigInt(v) \in BigInts /\ Value(ToBigInt(v)) = n
  BY CanonicalFacts
<1>2. CASE v.tag = "fix"
  <2>1. PICK h \in Nat : h = Base * Base /\ h > 0 /\ n \in -h .. h - 1
    BY <1>1, <1>2, HalfFacts DEF FixInts, FIX_INT_MIN, FIX_INT_MAX
  <2>2. -n > FIX_INT_MAX <=> -n \notin FixInts
    BY <2>1 DEF FixInts, FIX_INT_MIN, FIX_INT_MAX
  <2>3. fklProcessVMnumNeg(v) = IF -n > FIX_INT_MAX THEN VMbigInt(OfI64(-n)) ELSE MAKE_VM_FIX(-n)
    BY <1>1, <1>2 DEF fklProcessVMnumNeg
  <2>4. -n \in Int
    OBVIOUS
  <2>5. OfI64(-n) \in BigInts /\ Value(OfI64(-n)) = -n
    BY <2>4, OfI64Exact
  <2> QED
    BY <2>2, <2>3, <2>5, MakeFixExact, VMbigIntExact DEF Canonical
<1>3. CASE v.tag # "fix"
  <2>1. fklProcessVMnumNeg(v) = Result(Negated(v.bi)) /\ ToBigInt(v) = v.bi
    BY <1>3 DEF fklProcessVMnumNeg, ToBigInt
  <2>2. PICK u : u = Negated(v.bi) /\ u \in BigInts /\ Value(u) = -n
    BY <1>1, <1>3, <2>1, NegatedExact
  <2> QED
    BY <2>1, <2>2, ResultExact
<1> QED
  BY <1>2, <1>3

-----------------------------------------------------------------------------
(* Calls of the builtin *. *)

\* The product of what was gathered: the big integer counts once there is one.
BigFactor(acc) == IF acc.bi.digits = <<>> THEN 1 ELSE Value(acc.bi)
ProductOf(acc) == acc.r64 * BigFactor(acc)

\* The product of the fixed integers does not fit into int64_t and wraps to the
\* least fixed integer.
MulGoesWrong(acc, v) ==
    LET p == acc.r64 * v.i
    IN  v.tag = "fix" /\ p \notin FixInts /\ p < 0 /\ I64(p) = FIX_INT_MIN

\* The big factor of a call is one or a normalized number, never fixed.
LEMMA OneIfDefaultFacts ==
  ASSUME NEW acc \in Accs
  PROVE  LET b == OneIfDefault(acc.bi)
         IN  b \in BigInts /\ Growable(b) /\ Value(b) = BigFactor(acc) /\ b.digits # <<>>
<1>1. acc.bi \in BigInts /\ Growable(acc.bi)
  BY DEF Accs
<1>2. CASE acc.bi.digits # <<>>
  BY <1>1, <1>2 DEF OneIfDefault, BigFactor
<1>3. CASE acc.bi.digits = <<>>
  <2> DEFINE s == fklSetBigIntI(BIGINT_0, 1)
  <2>1. s \in BigInts /\ Growable(s) /\ Value(s) = 1
    <3>1. BIGINT_0 \in Buffers /\ Growable(BIGINT_0)
      BY BIGINT_0Facts DEF BigInts
    <3> QED
      BY <3>1, SetExact
  <2>2. s \in [num : Int, digits : Seq(Digits), const_size : BOOLEAN, failed : BOOLEAN]
        /\ s.const_size = FALSE
    BY <2>1 DEF BigInts, Buffers, Growable
  <2> HIDE DEF s
  <2>3. [[s EXCEPT !.const_size = TRUE] EXCEPT !.const_size = FALSE] = s
    BY <2>2
  <2>4. OneIfDefault(acc.bi) = s
    BY <1>3, <2>3 DEF OneIfDefault, OfI64, s
  <2>5. s.digits # <<>>
    <3>1. s.num # 0 /\ s \in Buffers
      BY <2>1, SignOfValue DEF BigInts
    <3>2. Len(s.digits) # 0
      BY <3>1, BufferFacts DEF Size, AbsOf
    <3> QED
      BY <3>2
  <2>6. BigFactor(acc) = 1
    BY <1>3 DEF BigFactor
  <2> QED
    BY <2>1, <2>4, <2>5, <2>6
<1> QED
  BY <1>2, <1>3

\* A product has digits if the first factor has, even when it is zero.
LEMMA MulKeepsDigits ==
  ASSUME NEW a \in BigInts, Growable(a), a.digits # <<>>, NEW b \in BigInts
  PROVE  fklMulBigInt(a, b).digits # <<>>
<1>1. PICK r : r = fklMulBigInt(a, b) /\ r \in BigInts /\ Value(r) = Value(a) * Value(b)
  BY MulExact
<1>2. CASE r.num # 0
  <2>1. r \in Buffers
    BY <1>1 DEF BigInts
  <2>2. Len(r.digits) # 0
    BY <1>2, <2>1, BufferFacts DEF Size, AbsOf
  <2> QED
    BY <1>1, <2>2
<1>3. CASE r.num = 0
  <2>1. PICK x \in Int, y \in Int : x = Value(a) /\ y = Value(b) /\ x * y = 0
    BY <1>1, <1>3, SignOfValue
  <2>2. x = 0 \/ y = 0
    BY <2>1
  <2>3. CASE x = 0
    <3>1. a.num = 0
      BY <2>1, <2>3, SignOfValue
    <3>2. fklMulBigInt(a, b) = a
      BY <3>1 DEF fklMulBigInt, IsOne, IsMinusOne
    <3> QED
      BY <3>2
  <2>4. CASE x # 0 /\ y = 0
    <3>1. a.num # 0 /\ b.num = 0
      BY <2>1, <2>4, SignOfValue
    <3>2. fklMulBigInt(a, b) = [a EXCEPT !.num = 0]
      BY <3>1 DEF fklMulBigInt, IsOne, IsMinusOne
    <3>3. a \in [num : Int, digits : Seq(Digits), const_size : BOOLEAN, failed : BOOLEAN]
      BY DEF BigInts, Buffers
    <3>4. [a EXCEPT !.num = 0].digits = a.digits
      BY <3>3
    <3> QED
      BY <3>2, <3>4
  <2> QED
    BY <2>2, <2>3, <2>4
<1> QED
  BY <1>2, <1>3

\* An argument is multiplied.
LEMMA MulStep ==
  ASSUME NEW acc \in Accs, NEW v, NEW n \in Int, Canonical(v, n), ~MulGoesWrong(acc, v)
  PROVE  LET r == fklProcessVMnumMul(acc, v)
         IN  r \in Accs /\ ProductOf(r) = ProductOf(acc) * n
<1> DEFINE r == fklProcessVMnumMul(acc, v)
           t == fklMulBigInt(OneIfDefault(acc.bi), ToBigInt(v))
<1>1. PICK x \in Int, y \in Int : x = acc.r64 /\ y = BigFactor(acc) /\ x \in FixInts
  BY AbsValueFacts DEF Accs, BigFactor, Value, FixInts
<1>2. /\ v.tag = "fix" => v.i = n /\ n \in FixInts
      /\ v.tag # "fix" => v.tag = "big" /\ v.bi \in BigInts /\ n \notin FixInts
      /\ ToBigInt(v) \in BigInts /\ Value(ToBigInt(v)) = n
  BY CanonicalFacts
<1>3. t \in BigInts /\ Growable(t) /\ Value(t) = y * n /\ t.digits # <<>>
  <2>1. PICK b : /\ b = OneIfDefault(acc.bi) /\ b \in BigInts /\ Growable(b)
                 /\ Value(b) = y /\ b.digits # <<>>
    BY <1>1, OneIfDefaultFacts
  <2> QED
    BY <1>2, <2>1, MulExact, MulKeepsDigits
<1> HIDE DEF t
<1>4. acc \in [r64 : FixInts, bi : {b \in BigInts : Growable(b)}]
  BY DEF Accs
<1>5. /\ [acc EXCEPT !.bi = t] \in Accs
      /\ ProductOf([acc EXCEPT !.bi = t]) = ProductOf(acc) * n
  <2>1. PICK q : q = [acc EXCEPT !.bi = t]
    OBVIOUS
  <2>2. q \in Accs /\ q.r64 = x /\ q.bi = t
    <3>1. t \in {b \in BigInts : Growable(b)}
      BY <1>3
    <3> QED
      BY <1>1, <1>4, <2>1, <3>1 DEF Accs
  <2>3. ProductOf(q) = x * (y * n)
    BY <1>3, <2>2 DEF ProductOf, BigFactor
  <2>4. ProductOf(acc) * n = x * (y * n)
    <3>1. (x * y) * n = x * (y * n)
      OBVIOUS
    <3> QED
      BY <1>1, <3>1 DEF ProductOf
  <2> QED
    BY <2>1, <2>2, <2>3, <2>4
<1>6. CASE v.tag = "big"
  <2>1. v.tag # "fix" /\ ToBigInt(v) = v.bi
    BY <1>6 DEF ToBigInt
  <2>2. r = [acc EXCEPT !.bi = t]
    BY <1>6, <2>1 DEF fklProcessVMnumMul, t
  <2> QED
    BY <1>5, <2>2
<1>7. CASE v.tag = "fix" /\ fklIsFixMulOverflow(acc.r64, v.i)
  <2>1. v.tag # "big" /\ ToBigInt(v) = OfI64(v.i)
    BY <1>7 DEF ToBigInt
  <2>2. r = [acc EXCEPT !.bi = t]
    BY <1>7, <2>1 DEF fklProcessVMnumMul, t
  <2> QED
    BY <1>5, <2>2
<1>8. CASE v.tag = "fix" /\ ~fklIsFixMulOverflow(acc.r64, v.i)
  <2>1. r = [acc EXCEPT !.r64 = I64(acc.r64 * v.i)]
    BY <1>8 DEF fklProcessVMnumMul
  <2>2. v.i = n /\ n \in FixInts /\ x * n \in Int
    BY <1>1, <1>2, <1>8
  <2>3. x * n \in FixInts
    <3>1. ~(x * n \notin FixInts /\ x * n < 0 /\ I64(x * n) = FIX_INT_MIN)
      BY <1>1, <1>8, <2>2 DEF MulGoesWrong
    <3>2. ~fklIsFixMulOverflow(x, n)
      BY <1>1, <1>8, <2>2
    <3> QED
      BY <1>1, <2>2, <3>1, <3>2, FixMulOverflow
  <2>4. r = [acc EXCEPT !.r64 = x * n]
    BY <1>1, <2>1, <2>2, <2>3, I64Fix
  <2>5. r \in Accs /\ r.r64 = x * n /\ r.bi = acc.bi
    BY <1>4, <2>3, <2>4 DEF Accs
  <2> HIDE DEF r
  <2>6. ProductOf(r) = (x * n) * y /\ ProductOf(acc) = x * y
    BY <1>1, <2>5 DEF ProductOf, BigFactor
  <2>7. (x * n) * y = (x * y) * n
    OBVIOUS
  <2> QED
    BY <2>5, <2>6, <2>7 DEF r
<1> QED
  BY <1>2, <1>6, <1>7, <1>8

\* Products gathers one argument after the other.
GathersProducts(args, i, acc) ==
    /\ acc[i - 1] = [r64 |-> 1, bi |-> BIGINT_0]
    /\ \A k \in i .. Len(args) : acc[k] = fklProcessVMnumMul(acc[k - 1], args[k])

\* The recursion of Products defines it.
LEMMA ProductsFacts ==
  ASSUME NEW args, Len(args) \in Nat, NEW i \in 1 .. Len(args) + 1
  PROVE  GathersProducts(args, i, Products(args, i))
<1> DEFINE n == Len(args)
           one == [r64 |-> 1, bi |-> BIGINT_0]
           Step(k, h) == [j \in i - 1 .. k |->
                             IF j < i THEN one ELSE fklProcessVMnumMul(h[j - 1], args[j])]
           S == {k \in 0 .. n : k >= i - 1 => \E g : g = Step(k, g)}
<1>1. n \in Nat /\ i \in Nat /\ i >= 1 /\ i - 1 <= n
  OBVIOUS
<1>2. ASSUME NEW k \in 0 .. n, k = i - 1 PROVE k \in S
  <2> DEFINE g == [j \in i - 1 .. k |-> one]
  <2>1. g = Step(k, g)
    BY <1>1, <1>2
  <2> HIDE DEF g
  <2> QED
    BY <2>1
<1>3. 0 \in S
  <2>1. CASE i = 1
    <3>1. 0 \in 0 .. n /\ 0 = i - 1
      BY <1>1, <2>1
    <3> HIDE DEF S
    <3> QED
      BY <1>2, <3>1
  <2>2. CASE i # 1
    BY <1>1, <2>2
  <2> QED
    BY <2>1, <2>2
<1>4. ASSUME NEW k \in 1 .. n, k - 1 \in S PROVE k \in S
  <2>1. CASE k < i - 1
    BY <1>1, <2>1
  <2>2. CASE k = i - 1
    <3>1. k \in 0 .. n
      BY <1>1
    <3> HIDE DEF S
    <3> QED
      BY <1>2, <2>2, <3>1
  <2>3. CASE k > i - 1
    <3>1. PICK g : g = Step(k - 1, g)
      BY <1>1, <1>4, <2>3
    <3> DEFINE h == [j \in i - 1 .. k |->
                        IF j = k THEN fklProcessVMnumMul(g[k - 1], args[k]) ELSE g[j]]
    <3>2. ASSUME NEW j \in i - 1 .. k
          PROVE  h[j] = IF j < i THEN one ELSE fklProcessVMnumMul(h[j - 1], args[j])
      <4>1. CASE j = k
        <5>1. ~(j < i) /\ j - 1 \in i - 1 .. k /\ j - 1 # k
          BY <1>1, <2>3, <4>1
        <5>2. h[j - 1] = g[k - 1]
          BY <4>1, <5>1
        <5> QED
          BY <4>1, <5>1, <5>2
      <4>2. CASE j # k
        <5>1. j \in i - 1 .. k - 1
          BY <1>1, <4>2
        <5>2. h[j] = g[j] /\ g[j] = IF j < i THEN one ELSE fklProcessVMnumMul(g[j - 1], args[j])
          BY <3>1, <4>2, <5>1, Zenon
        <5>3. ~(j < i) => j - 1 \in i - 1 .. k /\ j - 1 # k
          BY <1>1, <5>1
        <5>4. ~(j < i) => h[j - 1] = g[j - 1]
          BY <5>3
        <5> QED
          BY <5>2, <5>4
      <4> QED
        BY <4>1, <4>2
    <3>3. h = [j \in i - 1 .. k |-> h[j]]
      OBVIOUS
    <3> HIDE DEF h
    <3>4. h = Step(k, h)
      BY <3>2, <3>3
    <3> QED
      BY <3>4
  <2> QED
    BY <1>1, <2>1, <2>2, <2>3
<1>5. n \in S
  <2> HIDE DEF S, n
  <2>1. 0 .. n \subseteq S
    BY <1>1, <1>3, <1>4, UpInduction
  <2> QED
    BY <1>1, <2>1
<1>6. PICK g : g = Step(n, g)
  BY <1>1, <1>5
<1>7. Products(args, i) = CHOOSE h : h = Step(n, h)
  BY DEF Products, Gatherings
<1> HIDE DEF Step
<1>8. (CHOOSE h : h = Step(n, h)) = Step(n, CHOOSE h : h = Step(n, h))
  BY <1>6, Zenon
<1>9. PICK acc : acc = Products(args, i) /\ acc = Step(n, acc)
  BY <1>7, <1>8
<1>10. \A k \in i - 1 .. n : acc[k] = IF k < i THEN one ELSE fklProcessVMnumMul(acc[k - 1], args[k])
  BY <1>9, Zenon DEF Step
<1>11. i - 1 \in i - 1 .. n /\ i - 1 < i /\ \A k \in i .. n : k \in i - 1 .. n /\ ~(k < i)
  BY <1>1
<1>12. acc[i - 1] = one /\ \A k \in i .. n : acc[k] = fklProcessVMnumMul(acc[k - 1], args[k])
  BY <1>10, <1>11, Zenon
<1> QED
  BY <1>9, <1>12 DEF GathersProducts

\* s multiplies the integers x[k] from the i-th on.
Multiples(args, i, x, s) ==
    s[i - 1] = 1 /\ \A k \in i .. Len(args) : s[k] = s[k - 1] * x[k]

ProductGoesWrong(args, i) ==
    \E k \in i .. Len(args) : MulGoesWrong(Products(args, i)[k - 1], args[k])

\* The fixed and the big integer the arguments are gathered in make their product.
LEMMA ProductsExact ==
  ASSUME NEW args, NEW x, Integers(args, x), NEW i \in 1 .. Len(args) + 1,
         NEW s, Multiples(args, i, x, s), ~ProductGoesWrong(args, i)
  PROVE  ProductFrom(args, i) \in Accs /\ ProductOf(ProductFrom(args, i)) = s[Len(args)]
<1> DEFINE n == Len(args)
           acc == Products(args, i)
           S == {k \in 0 .. n : k >= i - 1 => acc[k] \in Accs /\ ProductOf(acc[k]) = s[k]}
<1>1. n \in Nat /\ i \in Nat /\ i >= 1 /\ i - 1 <= n
  BY DEF Integers
<1>2. GathersProducts(args, i, acc)
  BY <1>1, ProductsFacts
<1>3. \A k \in i .. n : ~MulGoesWrong(acc[k - 1], args[k])
  BY DEF ProductGoesWrong
<1> HIDE DEF acc
<1>4. acc[i - 1] \in Accs /\ ProductOf(acc[i - 1]) = s[i - 1]
  <2>1. acc[i - 1] = [r64 |-> 1, bi |-> BIGINT_0]
    BY <1>2 DEF GathersProducts
  <2>2. s[i - 1] = 1
    BY DEF Multiples
  <2> QED
    BY <2>1, <2>2, BIGINT_0Facts DEF Accs, ProductOf, BigFactor, BIGINT_0
<1>5. 0 \in S
  <2>1. CASE i = 1
    BY <1>1, <1>4, <2>1
  <2>2. CASE i # 1
    BY <1>1, <2>2
  <2> QED
    BY <2>1, <2>2
<1>6. ASSUME NEW k \in 1 .. n, k - 1 \in S PROVE k \in S
  <2> SUFFICES ASSUME k >= i - 1 PROVE acc[k] \in Accs /\ ProductOf(acc[k]) = s[k]
    BY <1>1
  <2>1. CASE k = i - 1
    BY <1>4, <2>1
  <2>2. CASE k # i - 1
    <3>1. k \in i .. n /\ k - 1 >= i - 1
      BY <1>1, <2>2
    <3>2. acc[k - 1] \in Accs /\ ProductOf(acc[k - 1]) = s[k - 1]
      BY <1>6, <3>1
    <3>3. acc[k] = fklProcessVMnumMul(acc[k - 1], args[k])
      BY <1>2, <3>1 DEF GathersProducts
    <3>4. x[k] \in Int /\ Canonical(args[k], x[k]) /\ s[k] = s[k - 1] * x[k]
      BY <3>1 DEF Integers, Multiples
    <3>5. ~MulGoesWrong(acc[k - 1], args[k])
      BY <1>3, <3>1
    <3> QED
      BY <3>2, <3>3, <3>4, <3>5, MulStep
  <2> QED
    BY <2>1, <2>2
<1>7. n \in S
  <2> HIDE DEF S, n
  <2>1. 0 .. n \subseteq S
    BY <1>1, <1>5, <1>6, UpInduction
  <2> QED
    BY <1>1, <2>1
<1>8. acc[n] \in Accs /\ ProductOf(acc[n]) = s[n]
  BY <1>1, <1>7
<1> QED
  BY <1>8 DEF ProductFrom, acc

\* The builtin * returns the product of any number of fixed and big integers, a
\* fixed integer if and only if it fits, unless a product of fixed integers on
\* the way happens to wrap to the least one.
THEOREM MulCallExact ==
  ASSUME NEW args, NEW x, Integers(args, x), NEW s, Multiples(args, 1, x, s),
         ~ProductGoesWrong(args, 1)
  PROVE  Canonical(builtin_mul(args), s[Len(args)])
<1>1. 1 \in 1 .. Len(args) + 1
  BY DEF Integers
<1>2. PICK acc : acc = ProductFrom(args, 1) /\ acc \in Accs /\ ProductOf(acc) = s[Len(args)]
  BY <1>1, ProductsExact
<1>3. PICK r \in Int, y \in Int :
         /\ r = acc.r64 /\ r \in FixInts /\ y = BigFactor(acc)
         /\ acc.bi \in BigInts /\ Growable(acc.bi)
  BY <1>2, SignOfValue DEF Accs, BigFactor, FixInts
<1>4. builtin_mul(args) = fklProcessVMnumMulResult(acc)
  BY <1>2 DEF builtin_mul
<1>5. s[Len(args)] = r * y
  BY <1>2, <1>3 DEF ProductOf
<1>6. CASE acc.bi.digits = <<>> \/ IsOne(acc.bi)
  <2>1. y = 1
    <3>1. IsOne(acc.bi) => Value(acc.bi) = 1
      <4>1. acc.bi.num = 1 => Size(acc.bi) = 1
        BY DEF Size, AbsOf
      <4> QED
        BY <1>3, <4>1, OneDigit DEF IsOne, Value
    <3> QED
      BY <1>3, <1>6, <3>1 DEF BigFactor
  <2>2. r * y = r
    BY <2>1
  <2>3. builtin_mul(args) = MAKE_VM_FIX(r)
    BY <1>3, <1>4, <1>6 DEF fklProcessVMnumMulResult
  <2> QED
    BY <1>3, <1>5, <2>2, <2>3, MakeFixExact
<1>7. CASE ~(acc.bi.digits = <<>> \/ IsOne(acc.bi))
  <2>1. Value(acc.bi) = y
    BY <1>3, <1>7 DEF BigFactor
  <2>2. OfI64(r) \in BigInts /\ Value(OfI64(r)) = r
    BY OfI64Exact
  <2>3. PICK t : t = fklMulBigInt(acc.bi, OfI64(r)) /\ t \in BigInts /\ Value(t) = y * r
    BY <1>3, <2>1, <2>2, MulExact
  <2>4. builtin_mul(args) = Result(t)
    BY <1>3, <1>4, <1>7, <2>3 DEF fklProcessVMnumMulResult
  <2>5. y * r = r * y
    OBVIOUS
  <2> QED
    BY <1>5, <2>3, <2>4, <2>5, ResultExact
<1> QED
  BY <1>6, <1>7

-----------------------------------------------------------------------------
(* Division by one digit, and by a longer number. *)

\* Quotient and remainder are determined by what they have to satisfy.
LEMMA QuotientIs ==
  ASSUME NEW x \in Nat, NEW d \in Nat, NEW q \in Nat, NEW r \in Nat, r < d, x = d * q + r
  PROVE  x \div d = q /\ d > 0
<1>1. d > 0
  OBVIOUS
<1>2. PICK p \in Int, t \in Nat : p = x \div d /\ t < d /\ x = d * p + t
  BY <1>1, DivModFacts
<1>3. ASSUME NEW u \in Int, NEW v \in Int, NEW m \in Nat, NEW k \in Nat,
             m < d, k < d, d * u + m = d * v + k, u < v
      PROVE  FALSE
  <2>1. v - u - 1 \in Nat /\ d * v = d * u + d + d * (v - u - 1)
    BY <1>3
  <2>2. d * (v - u - 1) \in Nat
    BY <2>1
  <2>3. PICK w \in Nat, y \in Int : w = d * (v - u - 1) /\ y = d * u
    BY <2>2
  <2>4. y + m = (y + d + w) + k
    BY <1>3, <2>1, <2>3
  <2> QED
    BY <1>3, <2>4
<1>4. ~(p < q) /\ ~(q < p)
  BY <1>2, <1>3
<1> QED
  BY <1>1, <1>2, <1>4

\* The recursion of Remainders defines it, and what is left is below d.
LEMMA RemaindersFacts ==
  ASSUME NEW n \in Nat, NEW pin, \A i \in 1 .. n : pin[i] \in Digits, NEW d \in Digits, d > 0
  PROVE  LET rem == Remainders(pin, n, d)
         IN  /\ rem \in [1 .. n + 1 -> 0 .. d - 1]
             /\ rem[n + 1] = 0
             /\ \A i \in 1 .. n : rem[i] = (rem[i + 1] * Base + pin[i]) % d
<1> DEFINE T == 0 .. d - 1
           Step(h) == [i \in 1 .. n + 1 |-> IF i > n THEN 0 ELSE (h[i + 1] * Base + pin[i]) % d]
           F == [i \in 1 .. n |-> [r \in T |-> (r * Base + pin[i]) % d]]
<1>1. d \in Nat /\ 0 \in T
  BY BaseAssumption DEF Digits
<1>2. ASSUME NEW i \in 1 .. n, NEW r \in T PROVE (r * Base + pin[i]) % d \in T
  <2>1. r * Base + pin[i] \in Int
    <3>1. pin[i] \in Int /\ r * Base \in Int
      BY BaseAssumption DEF Digits
    <3> QED
      BY <3>1
  <2>2. PICK y \in Int : y = r * Base + pin[i]
    BY <2>1
  <2>3. y % d \in Nat /\ y % d < d
    BY <1>1, DivModFacts
  <2> QED
    BY <1>1, <2>2, <2>3
<1> HIDE DEF T
<1>3. F \in [1 .. n -> [T -> T]]
  BY <1>2
<1>4. PICK g : RecursiveDown(T, 0, n, F, g)
  <2> HIDE DEF F
  <2> QED
    BY <1>1, <1>3, DownRecursion, Zenon
<1>5. ASSUME NEW i \in 1 .. n PROVE g[i] = (g[i + 1] * Base + pin[i]) % d
  <2>1. g[i + 1] \in T
    BY <1>4 DEF RecursiveDown
  <2>2. F[i][g[i + 1]] = (g[i + 1] * Base + pin[i]) % d
    BY <2>1
  <2> QED
    BY <1>4, <2>2 DEF RecursiveDown
<1>6. g = Step(g)
  BY <1>4, <1>5 DEF RecursiveDown
<1>7. Remainders(pin, n, d) = CHOOSE h : h = Step(h)
  BY DEF Remainders
<1> HIDE DEF Step
<1>8. (CHOOSE h : h = Step(h)) = Step(CHOOSE h : h = Step(h))
  BY <1>6, Zenon
<1>9. PICK rem : rem = Remainders(pin, n, d) /\ rem = Step(rem)
  BY <1>7, <1>8
<1>10. rem[n + 1] = 0 /\ \A i \in 1 .. n : rem[i] = (rem[i + 1] * Base + pin[i]) % d
  BY <1>9 DEF Step
<1>11. \A i \in 1 .. n + 1 : rem[i] \in T
  <2> DEFINE S == {i \in 1 .. n + 1 : rem[i] \in T}
  <2>1. n + 1 \in S
    BY <1>1, <1>10
  <2>2. ASSUME NEW i \in 1 .. n, i + 1 \in S PROVE i \in S
    <3>1. rem[i + 1] \in T
      BY <2>2
    <3>2. (rem[i + 1] * Base + pin[i]) % d \in T
      BY <1>2, <3>1
    <3> QED
      BY <1>10, <3>2
  <2>3. 1 .. n + 1 \subseteq S
    <3> HIDE DEF S
    <3> QED
      BY <2>1, <2>2, DownInduction
  <2> QED
    BY <2>3
<1>12. rem = [i \in 1 .. n + 1 |-> rem[i]]
  BY <1>9 DEF Step
<1>13. rem \in [1 .. n + 1 -> T]
  BY <1>11, <1>12
<1> QED
  BY <1>9, <1>10, <1>13 DEF T

\* divrem1 divides by a digit: each digit of the quotient fits.
LEMMA divrem1Exact ==
  ASSUME NEW n \in Nat, NEW pin, \A i \in 1 .. n : pin[i] \in Digits, NEW d \in Digits, d > 0
  PROVE  LET quot == divrem1(pin, n, d).quot
             rem == Remainders(pin, n, d)[1]
         IN  /\ quot \in [1 .. n -> Digits]
             /\ rem \in Nat /\ rem < d
             /\ ValueFrom(pin, n)[1] = d * ValueFrom(quot, n)[1] + rem
<1> DEFINE rem == Remainders(pin, n, d)
           quot == [i \in 1 .. n |-> (rem[i + 1] * Base + pin[i]) \div d]
           v == ValueFrom(pin, n)
           w == ValueFrom(quot, n)
           g == [i \in 1 .. n + 1 |-> d * w[i] + rem[i]]
<1>1. /\ rem \in [1 .. n + 1 -> 0 .. d - 1] /\ rem[n + 1] = 0
      /\ \A i \in 1 .. n : rem[i] = (rem[i + 1] * Base + pin[i]) % d
  BY RemaindersFacts
<1>2. divrem1(pin, n, d).quot = quot
  BY DEF divrem1
<1>3. d \in Nat /\ d \in Int
  BY DEF Digits
<1> HIDE DEF rem
<1>4. ASSUME NEW i \in 1 .. n
      PROVE  /\ quot[i] \in Digits /\ rem[i] \in Int /\ rem[i + 1] \in Int
             /\ d * quot[i] + rem[i] = rem[i + 1] * Base + pin[i]
  <2>1. rem[i + 1] \in 0 .. d - 1 /\ rem[i] \in 0 .. d - 1 /\ pin[i] \in Digits
    BY <1>1
  <2>2. PICK t \in Nat, p \in Nat : /\ t = rem[i + 1] /\ t <= d - 1 /\ p = pin[i] /\ p <= Base - 1
    BY <1>3, <2>1, BaseAssumption DEF Digits
  <2>3. PICK x \in Nat : x = t * Base + p
    BY BaseAssumption
  <2>4. PICK q \in Int, r \in Nat : /\ q = x \div d /\ r = x % d /\ r < d /\ x = d * q + r
    BY <1>3, DivModFacts
  <2>5. d * Base > x
    <3>1. d - 1 - t \in Nat /\ d * Base = t * Base + Base + (d - 1 - t) * Base
      BY <1>3, <2>2, BaseAssumption
    <3>2. (d - 1 - t) * Base \in Nat /\ t * Base \in Nat /\ d * Base \in Nat
      BY <1>3, <3>1, BaseAssumption
    <3>3. PICK y \in Nat, z \in Nat, u \in Nat :
             y = (d - 1 - t) * Base /\ z = t * Base /\ u = d * Base
      BY <3>2
    <3> QED
      BY <2>2, <2>3, <3>1, <3>3, BaseAssumption
  <2>6. q < Base
    BY <1>3, <2>4, <2>5, ProductBound, BaseAssumption
  <2>7. q >= 0
    <3>1. ~(q <= -1)
      <4> SUFFICES ASSUME q <= -1 PROVE FALSE
        OBVIOUS
      <4>1. -1 - q \in Nat /\ d * q = -d - d * (-1 - q)
        BY <1>3, <2>4
      <4>2. PICK y \in Nat, z \in Int : y = d * (-1 - q) /\ z = d * q
        BY <1>3, <4>1
      <4> QED
        BY <1>3, <2>4, <4>1, <4>2
    <3> QED
      BY <3>1
  <2>8. quot[i] = q /\ rem[i] = r
    BY <1>1, <2>2, <2>3, <2>4
  <2>9. quot[i] \in Digits
    BY <2>4, <2>6, <2>7, <2>8, BaseAssumption DEF Digits
  <2> QED
    BY <2>2, <2>3, <2>4, <2>8, <2>9
<1>5. quot \in [1 .. n -> Digits]
  BY <1>4
<1>6. /\ v \in [1 .. n + 1 -> Int] /\ v[n + 1] = 0
      /\ \A i \in 1 .. n : v[i] = pin[i] + Base * v[i + 1]
  <2>1. \A i \in 1 .. n : pin[i] \in Int
    BY DEF Digits
  <2> QED
    BY <2>1, ValueFromFacts
<1> HIDE DEF quot
<1>7. /\ w \in [1 .. n + 1 -> Int] /\ w[n + 1] = 0
      /\ \A i \in 1 .. n : w[i] = quot[i] + Base * w[i + 1]
  <2>1. \A i \in 1 .. n : quot[i] \in Int
    BY <1>5 DEF Digits
  <2> QED
    BY <2>1, ValueFromFacts
<1> HIDE DEF v, w
<1>8. v[n + 1] = g[n + 1]
  <2>1. g[n + 1] = d * w[n + 1] + rem[n + 1]
    OBVIOUS
  <2>2. d * 0 + 0 = 0
    BY <1>3
  <2> QED
    BY <1>1, <1>6, <1>7, <2>1, <2>2
<1>9. ASSUME NEW i \in 1 .. n PROVE g[i] = pin[i] + Base * g[i + 1]
  <2>1. i \in 1 .. n + 1 /\ i + 1 \in 1 .. n + 1
    OBVIOUS
  <2>2. g[i] = d * w[i] + rem[i] /\ g[i + 1] = d * w[i + 1] + rem[i + 1]
    BY <2>1
  <2>3. PICK x \in Int, q \in Int, r \in Int, t \in Int, p \in Int :
           x = w[i + 1] /\ q = quot[i] /\ r = rem[i] /\ t = rem[i + 1] /\ p = pin[i]
    <3>1. quot[i] \in Digits /\ pin[i] \in Digits /\ Digits \subseteq Int
      BY <1>4 DEF Digits
    <3>2. w[i + 1] \in Int /\ quot[i] \in Int /\ pin[i] \in Int
      BY <1>7, <2>1, <3>1
    <3> QED
      BY <1>4, <3>2
  <2>4. d * q + r = t * Base + p
    BY <1>4, <2>3
  <2>5. w[i] = q + Base * x
    BY <1>7, <2>3
  <2>6. d * (q + Base * x) = d * q + Base * (d * x)
    BY <1>3, BaseAssumption
  <2>7. Base * (d * x + t) = Base * (d * x) + t * Base
    <3>1. PICK y \in Int : y = d * x
      BY <1>3
    <3>2. Base * (y + t) = Base * y + t * Base
      BY BaseAssumption
    <3> QED
      BY <3>1, <3>2
  <2>8. PICK D \in Int, E \in Int, T \in Int : D = d * q /\ E = Base * (d * x) /\ T = t * Base
    BY <1>3, BaseAssumption
  <2> HIDE DEF g
  <2>9. g[i] = (D + E) + r
    BY <2>2, <2>3, <2>5, <2>6, <2>8
  <2>10. Base * g[i + 1] = E + T
    BY <2>2, <2>3, <2>7, <2>8
  <2>11. (D + E) + r = p + (E + T)
    BY <2>4, <2>8
  <2> QED
    BY <2>3, <2>9, <2>10, <2>11
<1>10. g[1] = d * w[1] + rem[1]
  OBVIOUS
<1>11. v[1] = g[1]
  <2> HIDE DEF g
  <2>1. BothSolve(n, v, g, pin)
    BY <1>6, <1>8, <1>9 DEF BothSolve
  <2> QED
    BY <2>1, SameStart
<1>12. rem[1] \in Nat /\ rem[1] < d
  <2>1. rem[1] \in 0 .. d - 1
    BY <1>1
  <2> QED
    BY <1>3, <2>1
<1> QED
  BY <1>2, <1>5, <1>10, <1>11, <1>12 DEF v, w, rem

\* The division cuts the quotient off, and its remainder is what is left.
DividesInto(a, b, m) ==
    LET q == ValueFrom(m.quot, Len(m.quot))[1]
        r == ValueFrom(m.rem, Len(m.rem))[1]
    IN  /\ m.quot \in Seq(Digits) /\ m.rem \in Seq(Digits) /\ m.ok = TRUE
        /\ q \in Nat /\ r \in Nat /\ r < AbsValue(b)
        /\ AbsValue(a) = AbsValue(b) * q + r

-----------------------------------------------------------------------------
(* Places and carries. *)

\* A number begins with a digit and goes on as another.
LEMMA ValueBelow ==
  ASSUME NEW n \in Nat, NEW ds, NEW es, \A i \in 1 .. n : ds[i] \in Int,
         \A i \in 1 .. n + 1 : es[i] \in Int, \A i \in 1 .. n : es[i + 1] = ds[i]
  PROVE  ValueFrom(es, n + 1)[1] = es[1] + Base * ValueFrom(ds, n)[1]
<1> DEFINE v == ValueFrom(ds, n)
           w == ValueFrom(es, n + 1)
           f == [i \in 1 .. n + 1 |-> w[i + 1]]
<1>1. v[n + 1] = 0 /\ \A i \in 1 .. n : v[i] = ds[i] + Base * v[i + 1]
  BY ValueFromFacts
<1>2. w[(n + 1) + 1] = 0 /\ \A i \in 1 .. n + 1 : w[i] = es[i] + Base * w[i + 1]
  BY ValueFromFacts
<1> HIDE DEF v, w
<1>3. f[n + 1] = 0
  BY <1>2
<1>4. ASSUME NEW i \in 1 .. n PROVE f[i] = ds[i] + Base * f[i + 1]
  <2>1. i + 1 \in 1 .. n + 1 /\ i \in 1 .. n + 1
    OBVIOUS
  <2>2. w[i + 1] = es[i + 1] + Base * w[(i + 1) + 1]
    BY <1>2, <2>1
  <2> QED
    BY <2>1, <2>2
<1>5. f[1] = w[2]
  OBVIOUS
<1> HIDE DEF f
<1>6. \A i \in 1 .. n + 1 : f[i] = v[i]
  BY <1>1, <1>3, <1>4, SameRecursion
<1>7. 1 \in 1 .. n + 1
  OBVIOUS
<1>8. w[1] = es[1] + Base * w[1 + 1]
  BY <1>2, <1>7
<1> QED
  BY <1>5, <1>6, <1>7, <1>8 DEF v, w

\* The value of a sum, place by place.
LEMMA ValueOfSum ==
  ASSUME NEW n \in Nat, NEW ds, NEW es, NEW fs,
         \A i \in 1 .. n : ds[i] \in Int /\ es[i] \in Int /\ fs[i] = ds[i] + es[i]
  PROVE  ValueFrom(fs, n)[1] = ValueFrom(ds, n)[1] + ValueFrom(es, n)[1]
<1> DEFINE u == ValueFrom(ds, n)
           v == ValueFrom(es, n)
           w == ValueFrom(fs, n)
           g == [i \in 1 .. n + 1 |-> u[i] + v[i]]
<1>1. u \in [1 .. n + 1 -> Int] /\ u[n + 1] = 0 /\ \A i \in 1 .. n : u[i] = ds[i] + Base * u[i + 1]
  BY ValueFromFacts
<1>2. v \in [1 .. n + 1 -> Int] /\ v[n + 1] = 0 /\ \A i \in 1 .. n : v[i] = es[i] + Base * v[i + 1]
  BY ValueFromFacts
<1>3. \A i \in 1 .. n : fs[i] \in Int
  OBVIOUS
<1>4. w[n + 1] = 0 /\ \A i \in 1 .. n : w[i] = fs[i] + Base * w[i + 1]
  BY <1>3, ValueFromFacts
<1> HIDE DEF u, v, w
<1>5. g[n + 1] = 0
  BY <1>1, <1>2
<1>6. ASSUME NEW i \in 1 .. n PROVE g[i] = fs[i] + Base * g[i + 1]
  <2>1. PICK x \in Int, y \in Int, d \in Int, e \in Int :
           x = u[i + 1] /\ y = v[i + 1] /\ d = ds[i] /\ e = es[i]
    <3>1. u[i + 1] \in Int /\ v[i + 1] \in Int
      BY <1>1, <1>2
    <3>2. ds[i] \in Int /\ es[i] \in Int
      OBVIOUS
    <3> QED
      BY <3>1, <3>2
  <2>2. i \in 1 .. n + 1 /\ i + 1 \in 1 .. n + 1
    OBVIOUS
  <2>3. g[i] = (d + Base * x) + (e + Base * y) /\ g[i + 1] = x + y /\ fs[i] = d + e
    BY <1>1, <1>2, <2>1, <2>2
  <2>4. Base * (x + y) = Base * x + Base * y
    BY BaseAssumption
  <2>5. PICK X \in Int, Y \in Int : X = Base * x /\ Y = Base * y
    BY BaseAssumption
  <2> HIDE DEF g
  <2> QED
    BY <2>3, <2>4, <2>5
<1>7. g[1] = u[1] + v[1] /\ 1 \in 1 .. n + 1
  OBVIOUS
<1> HIDE DEF g
<1>8. \A i \in 1 .. n + 1 : w[i] = g[i]
  BY <1>4, <1>5, <1>6, SameRecursion
<1> QED
  BY <1>7, <1>8 DEF u, v, w

\* The value of a multiple of a number, place by place.
LEMMA ValueOfMultiple ==
  ASSUME NEW n \in Nat, NEW q \in Int, NEW es, NEW fs,
         \A i \in 1 .. n : es[i] \in Int /\ fs[i] = q * es[i]
  PROVE  ValueFrom(fs, n)[1] = q * ValueFrom(es, n)[1]
<1> DEFINE v == ValueFrom(es, n)
           w == ValueFrom(fs, n)
           g == [i \in 1 .. n + 1 |-> q * v[i]]
<1>1. v \in [1 .. n + 1 -> Int] /\ v[n + 1] = 0 /\ \A i \in 1 .. n : v[i] = es[i] + Base * v[i + 1]
  BY ValueFromFacts
<1>2. \A i \in 1 .. n : fs[i] \in Int
  OBVIOUS
<1>3. w[n + 1] = 0 /\ \A i \in 1 .. n : w[i] = fs[i] + Base * w[i + 1]
  BY <1>2, ValueFromFacts
<1> HIDE DEF v, w
<1>4. g[n + 1] = 0
  BY <1>1
<1>5. ASSUME NEW i \in 1 .. n PROVE g[i] = fs[i] + Base * g[i + 1]
  <2>1. PICK x \in Int, d \in Int : x = v[i + 1] /\ d = es[i]
    BY <1>1
  <2>2. i \in 1 .. n + 1 /\ i + 1 \in 1 .. n + 1
    OBVIOUS
  <2>3. g[i] = q * (d + Base * x) /\ g[i + 1] = q * x /\ fs[i] = q * d
    BY <1>1, <2>1, <2>2
  <2>4. q * (d + Base * x) = q * d + Base * (q * x)
    BY BaseAssumption
  <2> HIDE DEF g
  <2> QED
    BY <2>3, <2>4
<1>6. g[1] = q * v[1] /\ 1 \in 1 .. n + 1
  OBVIOUS
<1> HIDE DEF g
<1>7. \A i \in 1 .. n + 1 : w[i] = g[i]
  BY <1>3, <1>4, <1>5, SameRecursion
<1> QED
  BY <1>6, <1>7 DEF v, w

\* What a digit at each place counts.
PlaceValues(n, pw) ==
    pw \in [0 .. n -> Nat] /\ pw[0] = 1 /\ \A i \in 1 .. n : pw[i] = Base * pw[i - 1]

LEMMA PlaceValuesExist ==
  ASSUME NEW n \in Nat
  PROVE  \E pw : PlaceValues(n, pw)
<1> DEFINE F == [i \in 1 .. n |-> [x \in Nat |-> Base * x]]
<1>1. F \in [1 .. n -> [Nat -> Nat]]
  BY BaseAssumption
<1>2. PICK g : RecursiveUp(Nat, 1, n, F, g)
  <2>1. 1 \in Nat
    OBVIOUS
  <2> HIDE DEF F
  <2> QED
    BY <1>1, <2>1, UpRecursion, Zenon
<1>3. ASSUME NEW i \in 1 .. n PROVE g[i] = Base * g[i - 1]
  <2>1. g[i - 1] \in Nat
    BY <1>2 DEF RecursiveUp
  <2>2. F[i][g[i - 1]] = Base * g[i - 1]
    BY <2>1
  <2> QED
    BY <1>2, <2>2 DEF RecursiveUp
<1> QED
  BY <1>2, <1>3 DEF RecursiveUp, PlaceValues

\* A number is cut into the digits up to a place and those above it.
LEMMA SplitValue ==
  ASSUME NEW n \in Nat, NEW m \in 0 .. n, NEW ds, \A i \in 1 .. n : ds[i] \in Int,
         NEW pw, PlaceValues(n, pw)
  PROVE  ValueFrom(ds, n)[1] = ValueFrom(ds, m)[1] + pw[m] * ValueFrom(ds, n)[m + 1]
<1> DEFINE v == ValueFrom(ds, n)
           w == ValueFrom(ds, m)
           t == v[m + 1]
           g == [i \in 1 .. m + 1 |-> w[i] + pw[(m + 1) - i] * t]
<1>1. v \in [1 .. n + 1 -> Int] /\ \A i \in 1 .. n : v[i] = ds[i] + Base * v[i + 1]
  BY ValueFromFacts
<1>2. m \in Nat /\ \A i \in 1 .. m : ds[i] \in Int
  OBVIOUS
<1>3. w \in [1 .. m + 1 -> Int] /\ w[m + 1] = 0 /\ \A i \in 1 .. m : w[i] = ds[i] + Base * w[i + 1]
  BY <1>2, ValueFromFacts
<1>4. pw \in [0 .. n -> Nat] /\ pw[0] = 1 /\ \A i \in 1 .. n : pw[i] = Base * pw[i - 1]
  BY DEF PlaceValues
<1> HIDE DEF v, w
<1>5. t \in Int
  BY <1>1
<1> HIDE DEF t
<1>6. g[m + 1] = t
  <2>1. g[m + 1] = 0 + 1 * t
    BY <1>3, <1>4
  <2> QED
    BY <1>5, <2>1
<1>7. ASSUME NEW i \in 1 .. m PROVE g[i] = ds[i] + Base * g[i + 1]
  <2>1. /\ i \in 1 .. n /\ i \in 1 .. m + 1 /\ i + 1 \in 1 .. m + 1 /\ (m + 1) - i \in 1 .. n
        /\ ((m + 1) - i) - 1 = (m + 1) - (i + 1) /\ (m + 1) - (i + 1) \in 0 .. n
    OBVIOUS
  <2>2. pw[(m + 1) - i] = Base * pw[(m + 1) - (i + 1)]
    BY <1>4, <2>1
  <2>3. PICK p \in Nat, x \in Int, d \in Int :
           p = pw[(m + 1) - (i + 1)] /\ x = w[i + 1] /\ d = ds[i]
    BY <1>3, <1>4, <2>1
  <2>4. g[i] = (d + Base * x) + (Base * p) * t /\ g[i + 1] = x + p * t
    BY <1>3, <2>1, <2>2, <2>3
  <2>5. (Base * p) * t = Base * (p * t)
    BY <1>5, BaseAssumption
  <2>6. PICK y \in Int : y = p * t
    BY <1>5
  <2>7. Base * (x + y) = Base * x + Base * y
    BY BaseAssumption
  <2>8. PICK X \in Int, Y \in Int : X = Base * x /\ Y = Base * y
    BY BaseAssumption
  <2> HIDE DEF g
  <2> QED
    BY <2>3, <2>4, <2>5, <2>6, <2>7, <2>8
<1>8. \A i \in 1 .. m : v[i] = ds[i] + Base * v[i + 1]
  BY <1>1
<1>9. g[1] = w[1] + pw[m] * t
  OBVIOUS
<1> HIDE DEF g
<1>10. BothSolve(m, v, g, ds)
  BY <1>6, <1>7, <1>8 DEF BothSolve, t
<1>11. v[1] = g[1]
  BY <1>2, <1>10, SameStart
<1> QED
  BY <1>9, <1>11 DEF v, w, t

\* The digit at the top.
LEMMA TopDigit ==
  ASSUME NEW n \in Nat, n > 0, NEW ds, \A i \in 1 .. n : ds[i] \in Int, NEW pw, PlaceValues(n, pw)
  PROVE  ValueFrom(ds, n)[1] = ValueFrom(ds, n - 1)[1] + pw[n - 1] * ds[n]
<1>1. n - 1 \in 0 .. n /\ (n - 1) + 1 = n /\ n \in 1 .. n
  OBVIOUS
<1>2. ValueFrom(ds, n)[1] = ValueFrom(ds, n - 1)[1] + pw[n - 1] * ValueFrom(ds, n)[n]
  BY <1>1, SplitValue
<1>3. ValueFrom(ds, n)[n] = ds[n] + Base * ValueFrom(ds, n)[n + 1] /\ ValueFrom(ds, n)[n + 1] = 0
  BY <1>1, ValueFromFacts
<1>4. ds[n] \in Int
  BY <1>1
<1>5. ValueFrom(ds, n)[n] = ds[n]
  BY <1>3, <1>4, BaseAssumption
<1> QED
  BY <1>2, <1>5

\* The digits below a place stand for less than it counts.
LEMMA BelowPlace ==
  ASSUME NEW n \in Nat, NEW ds, \A i \in 1 .. n : ds[i] \in Digits, NEW pw, PlaceValues(n, pw)
  PROVE  \A m \in 0 .. n : ValueFrom(ds, m)[1] \in Nat /\ pw[m] \in Nat /\ ValueFrom(ds, m)[1] < pw[m]
<1> DEFINE S == {m \in 0 .. n : ValueFrom(ds, m)[1] < pw[m]}
<1>1. pw \in [0 .. n -> Nat] /\ pw[0] = 1 /\ \A i \in 1 .. n : pw[i] = Base * pw[i - 1]
  BY DEF PlaceValues
<1>2. ASSUME NEW m \in 0 .. n PROVE ValueFrom(ds, m)[1] \in Nat
  <2>1. m \in Nat /\ 1 \in 1 .. m + 1 /\ \A i \in 1 .. m : ds[i] \in Digits
    OBVIOUS
  <2> QED
    BY <2>1, ValueNat
<1>3. 0 \in S
  <2>1. \A i \in 1 .. 0 : ds[i] = 0
    OBVIOUS
  <2>2. ValueFrom(ds, 0)[1] = 0
    BY <2>1, ValueZero
  <2> QED
    BY <1>1, <2>2
<1>4. ASSUME NEW m \in 1 .. n, m - 1 \in S PROVE m \in S
  <2>1. /\ m \in Nat /\ m > 0 /\ m \in 0 .. n /\ m - 1 \in 0 .. n /\ (\A i \in 1 .. m : ds[i] \in Int)
        /\ ds[m] \in Digits
    BY DEF Digits
  <2>2. PlaceValues(m, [i \in 0 .. m |-> pw[i]])
    BY <1>1, <2>1 DEF PlaceValues
  <2>3. ValueFrom(ds, m)[1] = ValueFrom(ds, m - 1)[1] + pw[m - 1] * ds[m]
    <3> DEFINE pp == [i \in 0 .. m |-> pw[i]]
    <3>1. pp[m - 1] = pw[m - 1]
      BY <2>1
    <3> HIDE DEF pp
    <3>2. ValueFrom(ds, m)[1] = ValueFrom(ds, m - 1)[1] + pp[m - 1] * ds[m]
      <4>1. PlaceValues(m, pp)
        BY <2>2 DEF pp
      <4> QED
        BY <2>1, <4>1, TopDigit
    <3> QED
      BY <3>1, <3>2
  <2>4. PICK x \in Nat, p \in Nat, d \in Nat, e \in Nat :
           /\ x = ValueFrom(ds, m - 1)[1] /\ p = pw[m - 1] /\ d = ds[m] /\ x < p
           /\ e = Base - 1 - d /\ Base = 1 + d + e
    <3>1. ds[m] \in Nat /\ Base - 1 - ds[m] \in Nat /\ Base = 1 + ds[m] + (Base - 1 - ds[m])
      BY <2>1, BaseAssumption DEF Digits
    <3>2. ValueFrom(ds, m - 1)[1] \in Nat /\ pw[m - 1] \in Nat /\ ValueFrom(ds, m - 1)[1] < pw[m - 1]
      BY <1>1, <1>2, <1>4, <2>1
    <3> QED
      BY <3>1, <3>2
  <2>5. pw[m] = (1 + d + e) * p
    BY <1>1, <2>4
  <2>6. (1 + d + e) * p = p + p * d + p * e /\ p * e \in Nat /\ p * d \in Nat
    OBVIOUS
  <2>7. PICK y \in Nat, z \in Nat : y = p * d /\ z = p * e
    BY <2>6
  <2>8. ValueFrom(ds, m)[1] = x + y /\ pw[m] = p + y + z
    BY <2>3, <2>4, <2>5, <2>6, <2>7
  <2> QED
    BY <2>1, <2>4, <2>8
<1>5. 0 .. n \subseteq S
  <2> HIDE DEF S
  <2> QED
    BY <1>3, <1>4, UpInduction
<1> QED
  BY <1>1, <1>2, <1>5

\* The recursion of Carried defines it.
LEMMA CarriedFacts ==
  ASSUME NEW n \in Nat, NEW e, \A i \in 1 .. n : e[i] \in Int
  PROVE  LET c == Carried(e, n)
             r == CarriedDigits(e, n)
         IN  /\ c \in [0 .. n -> Int] /\ c[0] = 0 /\ r \in [1 .. n -> Digits]
             /\ \A i \in 1 .. n : e[i] + c[i - 1] = r[i] + Base * c[i]
<1> DEFINE Step(h) == [i \in 0 .. n |-> IF i = 0 THEN 0 ELSE (e[i] + h[i - 1]) \div Base]
           F == [i \in 1 .. n |-> [x \in Int |-> (e[i] + x) \div Base]]
<1>1. F \in [1 .. n -> [Int -> Int]]
  <2>1. ASSUME NEW i \in 1 .. n, NEW x \in Int PROVE (e[i] + x) \div Base \in Int
    <3>1. e[i] + x \in Int
      OBVIOUS
    <3> QED
      BY <3>1, DivModFacts, BaseAssumption
  <2> QED
    BY <2>1
<1>2. PICK g : RecursiveUp(Int, 0, n, F, g)
  <2>1. 0 \in Int
    OBVIOUS
  <2> HIDE DEF F
  <2> QED
    BY <1>1, <2>1, UpRecursion, Zenon
<1>3. ASSUME NEW i \in 1 .. n PROVE g[i] = (e[i] + g[i - 1]) \div Base
  <2>1. g[i - 1] \in Int
    BY <1>2 DEF RecursiveUp
  <2>2. F[i][g[i - 1]] = (e[i] + g[i - 1]) \div Base
    BY <2>1
  <2> QED
    BY <1>2, <2>2 DEF RecursiveUp
<1>4. g = Step(g)
  BY <1>2, <1>3 DEF RecursiveUp
<1>5. Carried(e, n) = CHOOSE h : h = Step(h)
  BY DEF Carried
<1> HIDE DEF Step
<1>6. (CHOOSE h : h = Step(h)) = Step(CHOOSE h : h = Step(h))
  BY <1>4, Zenon
<1>7. PICK c : c = Carried(e, n) /\ c = Step(c)
  BY <1>5, <1>6
<1>8. DOMAIN c = 0 .. n /\ c[0] = 0 /\ \A i \in 1 .. n : c[i] = (e[i] + c[i - 1]) \div Base
  BY <1>7 DEF Step
<1>9. 0 .. n \subseteq {i \in 0 .. n : c[i] \in Int}
  <2> DEFINE S == {i \in 0 .. n : c[i] \in Int}
  <2>1. 0 \in S
    BY <1>8
  <2>2. ASSUME NEW i \in 1 .. n, i - 1 \in S PROVE i \in S
    <3>1. e[i] + c[i - 1] \in Int
      BY <2>2
    <3>2. (e[i] + c[i - 1]) \div Base \in Int
      BY <3>1, DivModFacts, BaseAssumption
    <3> QED
      BY <1>8, <3>2
  <2> HIDE DEF S
  <2>3. 0 .. n \subseteq S
    BY <2>1, <2>2, UpInduction
  <2> QED
    BY <2>3 DEF S
<1>10. c = [i \in 0 .. n |-> c[i]]
  BY <1>7 DEF Step
<1>11. c \in [0 .. n -> Int]
  BY <1>9, <1>10
<1>12. CarriedDigits(e, n) = [i \in 1 .. n |-> (e[i] + c[i - 1]) % Base]
  BY <1>7 DEF CarriedDigits
<1>13. ASSUME NEW i \in 1 .. n
       PROVE  /\ CarriedDigits(e, n)[i] \in Digits
              /\ e[i] + c[i - 1] = CarriedDigits(e, n)[i] + Base * c[i]
  <2>1. PICK x \in Int : x = e[i] + c[i - 1]
    BY <1>11
  <2>2. PICK q \in Int, r \in Nat : q = x \div Base /\ r = x % Base /\ r < Base /\ x = Base * q + r
    BY DivModFacts, BaseAssumption
  <2>3. CarriedDigits(e, n)[i] = r /\ c[i] = q
    BY <1>8, <1>12, <2>1, <2>2
  <2>4. PICK y \in Int : y = Base * q
    BY BaseAssumption
  <2>5. CarriedDigits(e, n)[i] \in Digits
    BY <2>2, <2>3, BaseAssumption DEF Digits
  <2>6. x = r + Base * q
    BY <2>2, <2>4
  <2> QED
    BY <2>1, <2>3, <2>5, <2>6
<1> QED
  BY <1>7, <1>8, <1>11, <1>12, <1>13

\* The digits, and the last carry above them, stand for the sum.
LEMMA CarriedExact ==
  ASSUME NEW n \in Nat, NEW e, \A i \in 1 .. n : e[i] \in Int, NEW pw, PlaceValues(n, pw)
  PROVE  /\ Carried(e, n)[n] \in Int
         /\ ValueFrom(e, n)[1] =
               ValueFrom(CarriedDigits(e, n), n)[1] + pw[n] * Carried(e, n)[n]
<1> DEFINE c == Carried(e, n)
           r == CarriedDigits(e, n)
           v == ValueFrom(e, n)
           w == ValueFrom(r, n)
           t == c[n]
           f == [i \in 1 .. n + 1 |-> v[i] + c[i - 1]]
           g == [i \in 1 .. n + 1 |-> w[i] + pw[(n + 1) - i] * t]
<1>1. /\ c \in [0 .. n -> Int] /\ c[0] = 0 /\ r \in [1 .. n -> Digits]
      /\ \A i \in 1 .. n : e[i] + c[i - 1] = r[i] + Base * c[i]
  BY CarriedFacts
<1> HIDE DEF c, r
<1>2. v \in [1 .. n + 1 -> Int] /\ v[n + 1] = 0 /\ \A i \in 1 .. n : v[i] = e[i] + Base * v[i + 1]
  BY ValueFromFacts
<1>3. \A i \in 1 .. n : r[i] \in Int
  BY <1>1 DEF Digits
<1>4. w \in [1 .. n + 1 -> Int] /\ w[n + 1] = 0 /\ \A i \in 1 .. n : w[i] = r[i] + Base * w[i + 1]
  BY <1>3, ValueFromFacts
<1>5. pw \in [0 .. n -> Nat] /\ pw[0] = 1 /\ \A i \in 1 .. n : pw[i] = Base * pw[i - 1]
  BY DEF PlaceValues
<1> HIDE DEF v, w
<1>6. t \in Int
  BY <1>1
<1>7. f[n + 1] = t
  BY <1>1, <1>2, <1>6
<1> HIDE DEF t
<1>8. g[n + 1] = t
  <2>1. g[n + 1] = 0 + 1 * t
    BY <1>4, <1>5
  <2> QED
    BY <1>6, <2>1
<1>9. ASSUME NEW i \in 1 .. n PROVE f[i] = r[i] + Base * f[i + 1]
  <2>1. i \in 1 .. n + 1 /\ i + 1 \in 1 .. n + 1 /\ (i + 1) - 1 = i
    OBVIOUS
  <2>2. f[i] = v[i] + c[i - 1] /\ f[i + 1] = v[i + 1] + c[i]
    BY <2>1
  <2>3. PICK x \in Int, y \in Int, z \in Int, d \in Int, u \in Int :
           x = v[i + 1] /\ y = c[i] /\ z = c[i - 1] /\ d = e[i] /\ u = r[i]
    <3>1. v[i + 1] \in Int /\ e[i] \in Int /\ r[i] \in Int
      BY <1>2, <1>3, <2>1
    <3>2. i \in 0 .. n /\ i - 1 \in 0 .. n
      OBVIOUS
    <3>3. c[i] \in Int /\ c[i - 1] \in Int
      BY <1>1, <3>2
    <3> QED
      BY <3>1, <3>3
  <2>4. d + z = u + Base * y /\ v[i] = d + Base * x
    BY <1>1, <1>2, <2>3
  <2>5. Base * (x + y) = Base * x + Base * y
    BY BaseAssumption
  <2>6. PICK X \in Int, Y \in Int : X = Base * x /\ Y = Base * y
    BY BaseAssumption
  <2> HIDE DEF f
  <2> QED
    BY <2>2, <2>3, <2>4, <2>5, <2>6
<1>10. ASSUME NEW i \in 1 .. n PROVE g[i] = r[i] + Base * g[i + 1]
  <2>1. /\ i \in 1 .. n + 1 /\ i + 1 \in 1 .. n + 1 /\ (n + 1) - i \in 1 .. n
        /\ ((n + 1) - i) - 1 = (n + 1) - (i + 1) /\ (n + 1) - (i + 1) \in 0 .. n
    OBVIOUS
  <2>2. pw[(n + 1) - i] = Base * pw[(n + 1) - (i + 1)]
    BY <1>5, <2>1
  <2>3. PICK p \in Nat, x \in Int, d \in Int :
           p = pw[(n + 1) - (i + 1)] /\ x = w[i + 1] /\ d = r[i]
    BY <1>3, <1>4, <1>5, <2>1
  <2>4. g[i] = (d + Base * x) + (Base * p) * t /\ g[i + 1] = x + p * t
    BY <1>4, <2>1, <2>2, <2>3
  <2>5. (Base * p) * t = Base * (p * t)
    BY <1>6, BaseAssumption
  <2>6. PICK y \in Int : y = p * t
    BY <1>6
  <2>7. Base * (x + y) = Base * x + Base * y
    BY BaseAssumption
  <2>8. PICK X \in Int, Y \in Int : X = Base * x /\ Y = Base * y
    BY BaseAssumption
  <2> HIDE DEF g
  <2> QED
    BY <2>3, <2>4, <2>5, <2>6, <2>7, <2>8
<1>11. f[1] = v[1] /\ g[1] = w[1] + pw[n] * t
  <2>1. f[1] = v[1] + c[0] /\ v[1] \in Int
    BY <1>2
  <2>2. f[1] = v[1]
    BY <1>1, <2>1
  <2> QED
    BY <2>2
<1> HIDE DEF f, g
<1>12. BothSolve(n, f, g, r)
  BY <1>7, <1>8, <1>9, <1>10 DEF BothSolve
<1>13. f[1] = g[1]
  BY <1>12, SameStart
<1> QED
  BY <1>6, <1>11, <1>13 DEF c, r, v, w, t

-----------------------------------------------------------------------------
(* Division by two digits and more. *)

\* A product of natural numbers grows with its factors.
LEMMA ProductGrows ==
  ASSUME NEW x \in Int, NEW y \in Int, NEW z \in Nat, x <= y
  PROVE  x * z <= y * z /\ z * x <= z * y /\ x * z \in Int /\ y * z \in Int
<1>1. y - x \in Nat /\ y * z = x * z + (y - x) * z /\ (y - x) * z \in Nat
  OBVIOUS
<1>2. PICK p \in Int, q \in Nat : p = x * z /\ q = (y - x) * z
  BY <1>1
<1> QED
  BY <1>1, <1>2

\* A factor is bounded when the product is.
LEMMA FactorBelow ==
  ASSUME NEW x \in Int, NEW y \in Int, NEW z \in Nat, x * z < y * z
  PROVE  x < y
<1>1. CASE y <= x
  <2>1. y * z <= x * z /\ y * z \in Int /\ x * z \in Int
    BY <1>1, ProductGrows
  <2> QED
    BY <2>1
<1> QED
  BY <1>1

\* The estimate of a digit of the quotient is what the two first digits of a
\* normalized divisor go into the three first ones of what is left, exactly.
LEMMA EstimateExact ==
  ASSUME NEW x2 \in Digits, NEW x1 \in Digits, NEW x0 \in Digits,
         NEW w1 \in Digits, NEW w2 \in Digits, 2 * w1 >= Base,
         x2 * Base + x1 <= w1 * Base + w2
  PROVE  LET q == Estimate(x2, x1, x0, w1, w2)
             t == w1 * Base + w2
             x == (x2 * Base + x1) * Base + x0
         IN  q \in 0 .. Base /\ q * t <= x /\ x < (q + 1) * t
<1>1. PICK D \in Nat : D = Base /\ D >= 16
  BY BaseAssumption
<1>2. /\ x2 \in Nat /\ x1 \in Nat /\ x0 \in Nat /\ w1 \in Nat /\ w2 \in Nat
      /\ x0 < D /\ w2 < D /\ w1 > 0
  BY <1>1 DEF Digits
<1>3. PICK vv \in Nat : vv = x2 * D + x1
  BY <1>1, <1>2
<1>4. PICK t \in Nat : t = w1 * D + w2
  BY <1>1, <1>2
<1>5. PICK q0 \in Int, r0 \in Nat : q0 = vv \div w1 /\ r0 = vv % w1 /\ r0 < w1 /\ vv = w1 * q0 + r0
  BY <1>2, DivModFacts
<1>21. q0 \in Int /\ r0 \in Nat /\ vv = w1 * q0 + r0
  BY <1>5
<1> DEFINE q(i) == q0 - i
           r(i) == r0 + i * w1
           Stops(i) == \/ w2 * q(i) <= r(i) * D + x0
                       \/ i > 0 /\ r(i) >= D
           First(i) == Stops(i) /\ \A j \in 0 .. i - 1 : ~Stops(j)
           k == CHOOSE i \in 0 .. D : First(i)
           x == vv * D + x0
<1>6. Estimate(x2, x1, x0, w1, w2) = q(k)
  BY <1>1, <1>3, <1>5, Zenon DEF Estimate
<1>7. Stops(2)
  <2>1. r(2) >= D
    BY <1>1, <1>2, <1>5
  <2> QED
    BY <2>1
<1>8. \A i \in 0 .. D : r(i) \in Nat /\ q(i) \in Int
  BY <1>2, <1>5
<1> HIDE DEF Stops
<1>9. k \in 0 .. D /\ First(k)
  <2>1. \E i \in 0 .. D : First(i)
    <3>1. CASE Stops(0)
      BY <1>1, <3>1
    <3>2. CASE ~Stops(0) /\ Stops(1)
      <4>1. 1 \in 0 .. D /\ \A j \in 0 .. 1 - 1 : j = 0
        BY <1>1
      <4>2. First(1)
        BY <3>2, <4>1
      <4> QED
        BY <4>1, <4>2
    <3>3. CASE ~Stops(0) /\ ~Stops(1)
      <4>1. 2 \in 0 .. D /\ \A j \in 0 .. 2 - 1 : j = 0 \/ j = 1
        BY <1>1
      <4>2. First(2)
        BY <1>7, <3>3, <4>1
      <4> QED
        BY <4>1, <4>2
    <3> QED
      BY <3>1, <3>2, <3>3
  <2> HIDE DEF First
  <2> QED
    BY <2>1, Zenon
<1> HIDE DEF k
<1>10. k \in Nat /\ k <= D
  BY <1>1, <1>9
\* What the two tests say.
<1>11. ASSUME NEW i \in 0 .. D PROVE x - q(i) * t = r(i) * D + x0 - w2 * q(i)
  <2>1. PICK u \in Int, s \in Nat : u = q(i) /\ s = r(i)
    BY <1>8
  <2>2. vv = w1 * u + s
    <3>1. i \in Nat /\ u = q0 - i /\ s = r0 + i * w1
      BY <1>1, <2>1
    <3>2. w1 * (q0 - i) = w1 * q0 - w1 * i /\ w1 * i = i * w1
      BY <1>2, <1>5, <3>1
    <3>3. PICK y \in Int, z \in Int : y = w1 * q0 /\ z = i * w1
      BY <1>2, <1>5, <3>1
    <3>4. w1 * u = y - z
      BY <3>1, <3>2, <3>3
    <3>5. s = r0 + z
      BY <3>1, <3>3
    <3>6. vv = y + r0
      BY <1>5, <3>3
    <3> HIDE DEF q, r
    <3> QED
      BY <1>21, <3>3, <3>4, <3>5, <3>6
  <2>3. x = (w1 * u + s) * D + x0
    BY <2>2
  <2>4. (w1 * u + s) * D = (w1 * u) * D + s * D /\ u * (w1 * D + w2) = (w1 * u) * D + w2 * u
    BY <1>1, <1>2, <2>1
  <2>5. PICK a \in Int, b \in Int, c \in Int : a = (w1 * u) * D /\ b = s * D /\ c = w2 * u
    BY <1>1, <1>2, <2>1
  <2> HIDE DEF q, r, x
  <2>6. x = a + b + x0 /\ q(i) * t = a + c
    BY <1>4, <2>1, <2>3, <2>4, <2>5
  <2> QED
    BY <1>2, <2>1, <2>5, <2>6
<1>12. x \in Nat /\ t \in Nat
  BY <1>1, <1>2
<1>13. \A i \in 0 .. D : q(i) * t \in Int /\ r(i) * D \in Int /\ w2 * q(i) \in Int
  BY <1>1, <1>2, <1>8
<1>14. q0 <= D + 1
  <2>1. (D + 2) * w1 = w1 * D + 2 * w1 /\ q0 * w1 = w1 * q0
    BY <1>1, <1>2, <1>5
  <2>2. PICK y \in Int, z \in Int : y = w1 * D /\ z = w1 * q0
    BY <1>1, <1>2, <1>5
  <2>3. z <= vv /\ vv <= y + w2 /\ w2 < 2 * w1
    BY <1>1, <1>2, <1>3, <1>5, <2>2
  <2>4. q0 * w1 < (D + 2) * w1
    BY <1>2, <2>1, <2>2, <2>3
  <2>5. q0 < D + 2
    BY <1>1, <1>2, <1>5, <2>4, FactorBelow
  <2> QED
    BY <1>1, <1>5, <2>5
<1>15. PICK Q \in Int, R \in Nat : Q = q(k) /\ R = r(k) /\ Q = q0 - k
  BY <1>8, <1>9
<1>16. Q * t <= x
  <2>1. w2 * Q <= R * D + x0
    <3>1. CASE w2 * q(k) <= r(k) * D + x0
      BY <1>15, <3>1
    <3>2. CASE k > 0 /\ r(k) >= D
      <4>1. Q <= D
        <5>1. Q = q0 - k
          BY <1>15
        <5> HIDE DEF q, r
        <5> QED
          BY <1>1, <1>21, <1>10, <1>14, <3>2, <5>1
      <4>2. w2 * Q <= w2 * D /\ w2 * Q \in Int /\ w2 * D \in Int
        BY <1>1, <1>2, <4>1, ProductGrows
      <4>3. w2 * D <= D * D /\ D * D <= R * D /\ D * D \in Int /\ R * D \in Int
        BY <1>1, <1>2, <1>15, <3>2, ProductGrows
      <4>4. PICK b \in Int, c \in Int, d \in Int, e \in Int :
               b = w2 * Q /\ c = w2 * D /\ d = D * D /\ e = R * D
        BY <4>2, <4>3
      <4> QED
        BY <1>2, <4>2, <4>3, <4>4
    <3> QED
      BY <1>9, <3>1, <3>2 DEF Stops
  <2>2. PICK a \in Int, b \in Int, c \in Int : a = Q * t /\ b = R * D /\ c = w2 * Q
    BY <1>1, <1>2
  <2>3. x - a = b + x0 - c
    BY <1>9, <1>11, <1>15, <2>2
  <2> HIDE DEF x
  <2> QED
    BY <1>2, <1>12, <2>1, <2>2, <2>3
<1>17. x < (Q + 1) * t
  <2>1. CASE k = 0
    <3>1. Q = q0
      <4>1. Q = q0 - k
        BY <1>15
      <4> HIDE DEF q, r
      <4> QED
        BY <1>21, <2>1, <4>1
    <3>2. w1 * (q0 + 1) = w1 * q0 + w1
      BY <1>2, <1>5
    <3>3. PICK y \in Int, z \in Int : y = w1 * q0 /\ z = w1 * (q0 + 1)
      BY <1>2, <1>5
    <3>4. vv + 1 <= z
      BY <1>2, <1>5, <3>2, <3>3
    <3>5. (vv + 1) * D <= z * D /\ (vv + 1) * D = vv * D + D /\ z * D \in Int /\ vv * D \in Int
      BY <1>1, <3>4, ProductGrows
    <3>6. q0 + 1 >= 0
      <4>1. 0 * w1 < (q0 + 1) * w1
        <5>1. (q0 + 1) * w1 = z /\ 0 * w1 = 0
          BY <1>2, <1>5, <3>3
        <5> QED
          BY <3>4, <5>1
      <4> QED
        BY <1>2, <1>5, <4>1, FactorBelow
    <3>7. (q0 + 1) * t = z * D + (q0 + 1) * w2
      <4>1. (q0 + 1) * (w1 * D + w2) = (w1 * (q0 + 1)) * D + (q0 + 1) * w2
        BY <1>1, <1>2, <1>5
      <4> QED
        BY <1>4, <3>3, <4>1
    <3>8. (q0 + 1) * w2 \in Nat
      BY <1>2, <1>5, <3>6
    <3>9. PICK a \in Int, b \in Nat, c \in Int : a = z * D /\ b = (q0 + 1) * w2 /\ c = vv * D
      BY <3>5, <3>8
    <3> QED
      BY <1>1, <1>2, <3>1, <3>5, <3>7, <3>9
  <2>2. CASE k > 0
    <3>1. k - 1 \in 0 .. k - 1 /\ k - 1 \in 0 .. D
      BY <1>1, <1>10, <2>2
    <3>2. ~(w2 * q(k - 1) <= r(k - 1) * D + x0)
      BY <1>9, <3>1 DEF Stops
    <3>3. q(k - 1) = Q + 1
      <4>1. Q = q0 - k /\ q(k - 1) = q0 - (k - 1)
        BY <1>15
      <4> HIDE DEF q, r
      <4> QED
        BY <1>21, <1>10, <4>1
    <3>4. x - (Q + 1) * t = r(k - 1) * D + x0 - w2 * q(k - 1)
      BY <1>11, <3>1, <3>3
    <3>5. PICK a \in Int, b \in Int, c \in Int :
             a = (Q + 1) * t /\ b = r(k - 1) * D /\ c = w2 * q(k - 1)
      BY <1>13, <3>1, <3>3
    <3> HIDE DEF x
    <3> QED
      BY <1>2, <1>12, <3>2, <3>4, <3>5
  <2> QED
    BY <1>10, <2>1, <2>2
<1>18. Q >= 0
  <2>1. 0 * t < (Q + 1) * t
    <3>1. PICK y \in Int : y = (Q + 1) * t
      OBVIOUS
    <3>2. 0 * t = 0
      OBVIOUS
    <3> HIDE DEF x
    <3> QED
      BY <1>12, <1>17, <3>1, <3>2
  <2>2. 0 < Q + 1
    BY <2>1, FactorBelow
  <2> QED
    BY <2>2
<1>19. Q <= D
  <2>1. vv * D <= t * D /\ vv * D \in Int /\ t * D \in Int
    BY <1>1, <1>3, <1>4, ProductGrows
  <2>2. x0 < t
    <3>1. 1 * D <= w1 * D /\ w1 * D \in Int
      BY <1>1, <1>2, ProductGrows
    <3> QED
      BY <1>1, <1>2, <1>4, <3>1
  <2>3. (D + 1) * t = t * D + t
    BY <1>1
  <2>4. PICK a \in Int, b \in Int, c \in Int : a = vv * D /\ b = t * D /\ c = Q * t
    BY <2>1
  <2>5. Q * t < (D + 1) * t
    BY <1>2, <1>16, <2>1, <2>2, <2>3, <2>4
  <2>6. Q < D + 1
    BY <1>1, <2>5, FactorBelow
  <2> QED
    BY <1>1, <2>6
<1>20. Q \in 0 .. D
  BY <1>1, <1>18, <1>19
<1> QED
  BY <1>1, <1>3, <1>4, <1>6, <1>15, <1>16, <1>17, <1>20

\* Hence it is the digit of the quotient or one more, whatever digits follow.
LEMMA EstimateClose ==
  ASSUME NEW p \in Nat, NEW x \in Nat, NEW t \in Nat, t >= Base, NEW q \in 0 .. Base,
         q * t <= x, x < (q + 1) * t,
         NEW xl \in Nat, xl < p, NEW tl \in Nat, tl < p
  PROVE  LET X == xl + p * x
             W == tl + p * t
         IN  -W <= X - q * W /\ X - q * W < W
<1> DEFINE X == xl + p * x
           W == tl + p * t
<1>1. PICK D \in Nat : D = Base /\ D >= 16 /\ q \in Nat /\ q <= D
  BY BaseAssumption
<1>2. PICK P \in Nat, T \in Nat, Y \in Nat : P = p * x /\ T = p * t /\ Y = q * T
  BY <1>1
<1>3. X = xl + P /\ W = tl + T
  BY <1>2
<1>4. q * W = q * tl + Y
  BY <1>1, <1>2
<1>5. PICK y \in Nat : y = q * tl
  BY <1>1
\* (q + 1) * T exceeds P by p at least.
<1>6. P + p <= Y + T
  <2>1. PICK z \in Nat : z = (q + 1) * t /\ x + 1 <= z
    BY <1>1
  <2>2. p * (x + 1) <= p * z
    BY <2>1, ProductGrows
  <2>3. p * (x + 1) = P + p
    BY <1>2
  <2>4. p * z = Y + T
    <3>1. p * ((q + 1) * t) = q * (p * t) + p * t
      BY <1>1
    <3> QED
      BY <1>2, <2>1, <3>1
  <2> QED
    BY <2>2, <2>3, <2>4
<1>7. Y <= P
  <2>1. PICK z \in Nat : z = q * t /\ z <= x
    BY <1>1
  <2>2. p * z <= p * x
    BY <2>1, ProductGrows
  <2>3. p * (q * t) = q * (p * t)
    BY <1>1
  <2> QED
    BY <1>2, <2>1, <2>2, <2>3
<1>8. y <= T
  <2>1. q * tl <= D * tl /\ D * tl <= D * p /\ D * tl \in Nat /\ D * p \in Nat
    BY <1>1, ProductGrows
  <2>2. p * D <= p * t /\ p * D = D * p
    BY <1>1, ProductGrows
  <2>3. PICK a \in Nat, b \in Nat : a = D * tl /\ b = D * p
    BY <2>1
  <2> QED
    BY <1>2, <1>5, <2>1, <2>2, <2>3
<1> QED
  BY <1>2, <1>3, <1>4, <1>5, <1>6, <1>7, <1>8

-----------------------------------------------------------------------------
(* The shifts that normalize the divisor. *)

LEMMA PowerFacts ==
  /\ \A k \in 0 .. SHIFT : 2 ^ k \in Nat /\ 2 ^ k > 0 /\ 2 ^ k * 2 ^ (SHIFT - k) = Base
  /\ \A k \in 1 .. SHIFT : 2 ^ k = 2 * 2 ^ (k - 1)
  /\ SHIFT \in Nat
<1> DEFINE pow == [k \in 0 .. SHIFT |-> 2 ^ k]
           S == {k \in 0 .. SHIFT : pow[k] \in Nat /\ pow[k] > 0}
           T == {k \in 0 .. SHIFT : pow[k] * pow[SHIFT - k] = Base}
<1>1. SHIFT \in Nat
  BY ShiftAssumption
<1>2. pow[0] = 1
  BY <1>1, PowerAssumption
<1>3. ASSUME NEW k \in 1 .. SHIFT PROVE pow[k] = 2 * pow[k - 1] /\ pow[k - 1] \in Nat
  <2>1. k - 1 \in 0 .. SHIFT - 1 /\ (k - 1) + 1 = k /\ k - 1 \in 0 .. SHIFT /\ k \in 0 .. SHIFT
    BY <1>1
  <2>2. 2 ^ (k - 1) \in Nat /\ 2 ^ ((k - 1) + 1) = 2 * 2 ^ (k - 1)
    BY <2>1, PowerAssumption
  <2> QED
    BY <2>1, <2>2
<1>4. pow[SHIFT] = Base
  BY <1>1 DEF Base
<1>5. \A k \in 0 .. SHIFT : pow[k] = 2 ^ k
  OBVIOUS
<1> HIDE DEF pow
<1>6. 0 .. SHIFT \subseteq S
  <2>1. 0 \in S
    BY <1>1, <1>2
  <2>2. ASSUME NEW k \in 1 .. SHIFT, k - 1 \in S PROVE k \in S
    BY <1>1, <1>3, <2>2
  <2> HIDE DEF S
  <2> QED
    BY <1>1, <2>1, <2>2, UpInduction
<1>7. 0 .. SHIFT \subseteq T
  <2>1. 0 \in T
    <3>1. SHIFT - 0 = SHIFT /\ 0 \in 0 .. SHIFT
      BY <1>1
    <3>2. pow[0] * pow[SHIFT - 0] = 1 * Base
      BY <1>2, <1>4, <3>1
    <3> QED
      BY <3>1, <3>2, BaseAssumption
  <2>2. ASSUME NEW k \in 1 .. SHIFT, k - 1 \in T PROVE k \in T
    <3>1. SHIFT - (k - 1) \in 1 .. SHIFT /\ (SHIFT - (k - 1)) - 1 = SHIFT - k /\ SHIFT - k \in 0 .. SHIFT
      BY <1>1
    <3>2. pow[SHIFT - (k - 1)] = 2 * pow[SHIFT - k]
      BY <1>3, <3>1
    <3>3. PICK x \in Nat, y \in Nat : x = pow[k - 1] /\ y = pow[SHIFT - k]
      BY <1>3, <1>6, <3>1
    <3>4. pow[k] = 2 * x /\ x * (2 * y) = Base
      BY <1>3, <2>2, <3>2, <3>3
    <3>5. x * (2 * y) = (2 * x) * y
      OBVIOUS
    <3>6. k \in 0 .. SHIFT
      BY <1>1
    <3> QED
      BY <3>3, <3>4, <3>5, <3>6
  <2> HIDE DEF T
  <2> QED
    BY <1>1, <2>1, <2>2, UpInduction
<1>8. ASSUME NEW k \in 0 .. SHIFT PROVE 2 ^ k \in Nat /\ 2 ^ k > 0 /\ 2 ^ k * 2 ^ (SHIFT - k) = Base
  <2>1. SHIFT - k \in 0 .. SHIFT
    BY <1>1
  <2>2. pow[k] \in Nat /\ pow[k] > 0 /\ pow[k] * pow[SHIFT - k] = Base
    BY <1>6, <1>7
  <2> QED
    BY <1>5, <2>1, <2>2
<1>9. ASSUME NEW k \in 1 .. SHIFT PROVE 2 ^ k = 2 * 2 ^ (k - 1)
  <2>1. k \in 0 .. SHIFT /\ k - 1 \in 0 .. SHIFT
    BY <1>1
  <2> QED
    BY <1>3, <1>5, <2>1
<1> QED
  BY <1>1, <1>8, <1>9

\* A shift by as many bits as the first digit leaves free: it stays a digit, and
\* its highest bit is set.
LEMMA NormalizingShift ==
  ASSUME NEW x \in Digits, x > 0
  PROVE  LET p == 2 ^ (SHIFT - bit_length_digit(x))
         IN  /\ p \in Nat /\ p > 0 /\ 2 * p <= Base /\ \E c \in Nat : p * c = Base
             /\ (x + 1) * p <= Base /\ Base <= 2 * (x * p)
<1> DEFINE P(k) == x < 2 ^ k /\ (k = 0 \/ x >= 2 ^ (k - 1))
           S == {m \in 0 .. SHIFT : x < 2 ^ m => \E k \in 0 .. SHIFT : P(k)}
<1>1. /\ x \in Nat /\ SHIFT \in Nat /\ x < Base
      /\ \A k \in 0 .. SHIFT : 2 ^ k \in Nat /\ 2 ^ k > 0
  BY PowerFacts, BaseAssumption DEF Digits
<1>2. 0 \in S
  BY <1>1
<1>3. ASSUME NEW m \in 1 .. SHIFT, m - 1 \in S PROVE m \in S
  <2> SUFFICES ASSUME x < 2 ^ m PROVE \E k \in 0 .. SHIFT : P(k)
    BY <1>1
  <2>1. m \in 0 .. SHIFT /\ m - 1 \in 0 .. SHIFT
    BY <1>1
  <2>2. CASE x >= 2 ^ (m - 1)
    BY <2>1, <2>2
  <2>3. CASE x < 2 ^ (m - 1)
    BY <1>3, <2>3
  <2> QED
    BY <1>1, <2>1, <2>2, <2>3
<1>4. \E k \in 0 .. SHIFT : P(k)
  <2> HIDE DEF P
  <2>1. 0 .. SHIFT \subseteq S
    <3> HIDE DEF S
    <3> QED
      BY <1>1, <1>2, <1>3, UpInduction
  <2>2. SHIFT \in 0 .. SHIFT /\ x < 2 ^ SHIFT
    BY <1>1 DEF Base
  <2> QED
    BY <2>1, <2>2
<1>5. PICK k \in 0 .. SHIFT : k = bit_length_digit(x) /\ P(k)
  <2>1. bit_length_digit(x) = CHOOSE k \in 0 .. SHIFT : P(k)
    BY DEF bit_length_digit
  <2> HIDE DEF P
  <2> QED
    BY <1>4, <2>1, Zenon
<1>6. k # 0
  <2>1. 2 ^ 0 = 1 /\ x < 2 ^ k
    BY <1>5, PowerAssumption
  <2>2. CASE k = 0
    <3>1. 2 ^ k = 1
      BY <2>1, <2>2
    <3> QED
      BY <1>1, <2>1, <3>1
  <2> QED
    BY <2>2
<1>7. k \in 1 .. SHIFT /\ k - 1 \in 0 .. SHIFT /\ SHIFT - k \in 0 .. SHIFT
  BY <1>1, <1>6
<1>8. PICK p \in Nat, c \in Nat, h \in Nat :
         p = 2 ^ (SHIFT - k) /\ c = 2 ^ k /\ h = 2 ^ (k - 1) /\ p > 0 /\ h > 0
  BY <1>1, <1>7
<1>9. c * p = Base /\ c = 2 * h
  BY <1>7, <1>8, PowerFacts
<1>10. x + 1 <= c /\ h <= x
  BY <1>1, <1>5, <1>6, <1>8
<1>11. (x + 1) * p <= c * p /\ h * p <= x * p /\ 1 * p <= h * p /\ h * p \in Int /\ x * p \in Int
  BY <1>1, <1>8, <1>10, ProductGrows
<1>12. c * p = 2 * (h * p) /\ p * c = c * p
  BY <1>9
<1>13. 2 * p <= Base /\ Base <= 2 * (x * p) /\ (x + 1) * p <= Base /\ p * c = Base
  <2>1. PICK y \in Int, z \in Int : y = h * p /\ z = x * p
    BY <1>11
  <2>2. Base = 2 * y /\ y <= z /\ p <= y
    BY <1>9, <1>11, <1>12, <2>1
  <2> QED
    BY <1>9, <1>11, <1>12, <2>1, <2>2
<1> QED
  BY <1>5, <1>8, <1>13

\* z is the n digits of a shifted to the left by a factor p.
ShiftedLeft(n, a, p, z) ==
    /\ z \in [1 .. n + 1 -> Int] /\ z[n + 1] \in Nat /\ z[n + 1] < p
    /\ \A i \in 1 .. n : z[i] \in Digits
    /\ ValueFrom(z, n + 1)[1] = p * ValueFrom(a, n)[1]
    /\ n > 0 => \E c \in 0 .. p - 1 : a[n] * p + c = z[n] + Base * z[n + 1]

\* v_lshift multiplies: the carries are below the factor.
LEMMA LeftShift ==
  ASSUME NEW n \in Nat, NEW a, \A i \in 1 .. n : a[i] \in Digits,
         NEW d, NEW p \in Nat, p = 2 ^ d, p > 0, NEW pw, PlaceValues(n + 1, pw)
  PROVE  ShiftedLeft(n, a, p, v_lshift(a, n, d))
<1> DEFINE e == [i \in 1 .. n |-> a[i] * p]
           c == Carried(e, n)
           r == CarriedDigits(e, n)
           z == v_lshift(a, n, d)
<1>1. ASSUME NEW i \in 1 .. n PROVE a[i] \in Nat /\ a[i] <= Base - 1 /\ e[i] = a[i] * p /\ e[i] \in Int
  BY BaseAssumption DEF Digits
<1>2. z = [i \in 1 .. n + 1 |-> IF i > n THEN c[n] ELSE r[i]]
  BY DEF v_lshift
<1> HIDE DEF e, z
<1>3. /\ c \in [0 .. n -> Int] /\ c[0] = 0 /\ r \in [1 .. n -> Digits]
      /\ \A i \in 1 .. n : e[i] + c[i - 1] = r[i] + Base * c[i]
  BY <1>1, CarriedFacts
<1> HIDE DEF c, r
<1>4. ASSUME NEW i \in 0 .. n PROVE c[i] \in 0 .. p - 1
  <2> DEFINE S == {k \in 0 .. n : c[k] \in 0 .. p - 1}
  <2>1. 0 \in S
    BY <1>3
  <2>2. ASSUME NEW k \in 1 .. n, k - 1 \in S PROVE k \in S
    <3>1. k \in 0 .. n /\ c[k] \in Int /\ r[k] \in Digits
      BY <1>3
    <3>2. PICK A \in Nat, C \in Nat, N \in Int, R \in Nat, B \in Nat :
             /\ A = a[k] /\ C = c[k - 1] /\ N = c[k] /\ R = r[k] /\ B = Base - 1 - A /\ C < p
             /\ R < Base /\ Base = A + B + 1
      <4>1. a[k] \in Nat /\ Base - 1 - a[k] \in Nat /\ Base = a[k] + (Base - 1 - a[k]) + 1
        BY <1>1, BaseAssumption
      <4>2. c[k - 1] \in Nat /\ c[k - 1] < p
        BY <2>2
      <4>3. r[k] \in Nat /\ r[k] < Base
        BY <3>1, BaseAssumption DEF Digits
      <4> QED
        BY <3>1, <4>1, <4>2, <4>3
    <3>3. A * p + C = R + Base * N
      BY <1>1, <1>3, <3>2
    <3>4. p * Base = A * p + B * p + p /\ A * p \in Nat /\ B * p \in Nat /\ N * Base = Base * N
      <4>1. p * (A + B + 1) = A * p + B * p + p /\ A * p \in Nat /\ B * p \in Nat
        OBVIOUS
      <4>2. N * Base = Base * N
        BY BaseAssumption
      <4> QED
        BY <3>2, <4>1, <4>2
    <3>5. PICK x \in Nat, y \in Nat, u \in Int : x = A * p /\ y = B * p /\ u = Base * N
      BY <3>4, BaseAssumption
    <3>6. N * Base < p * Base
      BY <3>2, <3>3, <3>4, <3>5
    <3>7. N < p
      BY <3>2, <3>6, FactorBelow, BaseAssumption
    <3>8. (-1) * Base < N * Base
      BY <3>2, <3>3, <3>4, <3>5, BaseAssumption
    <3>9. -1 < N
      BY <3>2, <3>8, FactorBelow, BaseAssumption
    <3> QED
      BY <3>1, <3>2, <3>7, <3>9
  <2> HIDE DEF S
  <2>3. 0 .. n \subseteq S
    BY <2>1, <2>2, UpInduction
  <2> QED
    BY <2>3 DEF S
<1>5. z[n + 1] = c[n] /\ \A i \in 1 .. n : z[i] = r[i]
  BY <1>2
<1>6. /\ n \in 0 .. n /\ c[n] \in Nat /\ c[n] \in Int /\ c[n] < p
      /\ \A i \in 1 .. n : r[i] \in Digits /\ r[i] \in Int
  BY <1>3, <1>4 DEF Digits
<1>7. z \in [1 .. n + 1 -> Int]
  BY <1>2, <1>6
<1>8. ValueFrom(e, n)[1] = p * ValueFrom(a, n)[1]
  <2>1. \A i \in 1 .. n : a[i] \in Int /\ e[i] = p * a[i]
    BY <1>1
  <2>2. PICK q \in Int : q = p
    OBVIOUS
  <2>3. \A i \in 1 .. n : a[i] \in Int /\ e[i] = q * a[i]
    BY <2>1, <2>2
  <2>4. ValueFrom(e, n)[1] = q * ValueFrom(a, n)[1]
    BY <2>3, ValueOfMultiple
  <2> QED
    BY <2>2, <2>4
<1>9. ValueFrom(z, n + 1)[1] = ValueFrom(r, n)[1] + pw[n] * c[n]
  <2>1. n + 1 > 0 /\ n + 1 \in Nat /\ (n + 1) - 1 = n /\ \A i \in 1 .. n + 1 : z[i] \in Int
    BY <1>7
  <2>2. ValueFrom(z, n + 1)[1] = ValueFrom(z, n)[1] + pw[n] * z[n + 1]
    BY <2>1, TopDigit
  <2>3. 1 \in 1 .. n + 1
    OBVIOUS
  <2>4. ValueFrom(z, n)[1] = ValueFrom(r, n)[1]
    BY <1>5, <1>6, <2>3, ValueFromSame
  <2> QED
    BY <1>5, <2>2, <2>4
<1>10. ValueFrom(e, n)[1] = ValueFrom(r, n)[1] + pw[n] * c[n]
  <2> DEFINE pp == [i \in 0 .. n |-> pw[i]]
  <2>1. PlaceValues(n, pp) /\ pp[n] = pw[n]
    BY DEF PlaceValues
  <2> HIDE DEF pp
  <2> QED
    BY <1>1, <2>1, CarriedExact DEF c, r
<1>11. ASSUME n > 0 PROVE \E k \in 0 .. p - 1 : a[n] * p + k = z[n] + Base * z[n + 1]
  <2>1. n \in 1 .. n /\ n - 1 \in 0 .. n
    BY <1>11
  <2>2. e[n] + c[n - 1] = r[n] + Base * c[n] /\ e[n] = a[n] * p
    BY <1>1, <1>3, <2>1
  <2> QED
    BY <1>4, <1>5, <2>1, <2>2
<1>12. \A i \in 1 .. n : z[i] \in Digits
  BY <1>5, <1>6
<1> QED
  BY <1>5, <1>6, <1>7, <1>8, <1>9, <1>10, <1>11, <1>12 DEF z, ShiftedLeft

\* z is the n digits of a shifted to the right by a factor p.
ShiftedRight(n, a, p, z) ==
    /\ z \in [1 .. n -> Digits] /\ a[1] % p \in 0 .. p - 1
    /\ ValueFrom(a, n)[1] = p * ValueFrom(z, n)[1] + (a[1] % p)

\* v_rshift divides, and drops the lowest bits.
LEMMA RightShift ==
  ASSUME NEW n \in Nat, n > 0, NEW a, \A i \in 1 .. n : a[i] \in Digits,
         NEW d, NEW p \in Nat, p = 2 ^ d, p > 0, \E c \in Nat : p * c = Base
  PROVE  ShiftedRight(n, a, p, v_rshift(a, n, d))
<1> DEFINE low(i) == IF i < n THEN a[i + 1] % p ELSE 0
           m(i) == IF i <= n THEN a[i] % p ELSE 0
           z == v_rshift(a, n, d)
           v == ValueFrom(a, n)
           w == ValueFrom(z, n)
           g == [i \in 1 .. n + 1 |-> p * w[i] + m(i)]
<1>0. PICK c \in Nat : p * c = Base
  OBVIOUS
<1>1. z = [i \in 1 .. n |-> (low(i) * Base + a[i]) \div p]
  BY DEF v_rshift
<1> HIDE DEF z
<1>2. \A i \in 1 .. n : a[i] \in Nat /\ a[i] < Base /\ a[i] \in Int
  BY BaseAssumption DEF Digits
<1>3. \A i \in 1 .. n + 1 : m(i) \in Nat /\ m(i) < p
  <2> TAKE i \in 1 .. n + 1
  <2>1. CASE i <= n
    <3>1. a[i] \in Int
      BY <1>2, <2>1
    <3>2. a[i] % p \in Nat /\ a[i] % p < p
      BY <3>1, DivModFacts
    <3> QED
      BY <2>1, <3>2
  <2>2. CASE ~(i <= n)
    BY <2>2
  <2> QED
    BY <2>1, <2>2
<1>4. \A i \in 1 .. n : low(i) = m(i + 1)
  OBVIOUS
<1>5. ASSUME NEW i \in 1 .. n
      PROVE  z[i] \in Digits /\ p * z[i] + m(i) = Base * m(i + 1) + a[i]
  <2>1. PICK l \in Nat, x \in Nat : l = m(i + 1) /\ x = a[i] /\ l < p /\ x < Base
    BY <1>2, <1>3
  <2>2. PICK y \in Int, r \in Nat : y = x \div p /\ r = x % p /\ r < p /\ x = p * y + r
    <3>1. x \in Int /\ p \in Nat /\ p > 0
      OBVIOUS
    <3>2. x \div p \in Int /\ x % p \in Nat /\ x % p < p /\ x = p * (x \div p) + (x % p)
      BY <3>1, DivModFacts
    <3> QED
      BY <3>2
  <2>3. m(i) = r
    BY <2>1, <2>2
  <2> HIDE DEF m
  <2>4. Base * l + x = p * (c * l + y) + r
    <3>1. p * (c * l + y) = (p * c) * l + p * y
      BY <2>2
    <3>2. PICK s \in Int, t \in Int : s = Base * l /\ t = p * y
      BY <2>2, BaseAssumption
    <3> QED
      BY <1>0, <2>2, <3>1, <3>2
  <2>5. PICK q \in Int, N \in Nat : q = c * l + y /\ N = Base * l + x
    <3>1. c * l + y \in Int /\ Base * l + x \in Nat
      BY BaseAssumption
    <3> QED
      BY <3>1
  <2>6. N = p * q + r /\ q * p = p * q
    BY <2>4, <2>5
  <2>7. -1 < q
    <3>1. (-1) * p < q * p
      <4>1. PICK s \in Int : s = p * q
        BY <2>5
      <4> QED
        BY <2>2, <2>5, <2>6, <4>1
    <3> QED
      BY <3>1, FactorBelow
  <2>8. q < Base
    <3>1. l + 1 <= p
      BY <2>1
    <3>2. (l + 1) * Base <= p * Base /\ (l + 1) * Base = Base * l + Base /\ p * Base = Base * p
      BY <3>1, ProductGrows, BaseAssumption
    <3>3. PICK s \in Int, t \in Int, u \in Int : s = p * q /\ t = Base * l /\ u = Base * p
      BY BaseAssumption
    <3>4. q * p < Base * p
      BY <2>1, <2>2, <2>5, <2>6, <3>2, <3>3
    <3> QED
      BY <3>4, FactorBelow, BaseAssumption
  <2>9. q \in Nat /\ N \div p = q
    <3>1. q \in Nat
      BY <2>7
    <3> QED
      BY <2>2, <2>6, <3>1, QuotientIs
  <2>10. z[i] = q
    <3>1. l * Base = Base * l
      BY BaseAssumption
    <3> QED
      BY <1>1, <1>4, <2>1, <2>5, <2>9, <3>1
  <2>11. z[i] \in Digits
    BY <2>8, <2>9, <2>10, BaseAssumption DEF Digits
  <2> QED
    BY <2>1, <2>3, <2>5, <2>6, <2>10, <2>11
<1> HIDE DEF m, low
<1>6. z = [i \in 1 .. n |-> z[i]]
  BY <1>1
<1>7. z \in [1 .. n -> Digits]
  BY <1>5, <1>6
<1>8. v \in [1 .. n + 1 -> Int] /\ v[n + 1] = 0 /\ \A i \in 1 .. n : v[i] = a[i] + Base * v[i + 1]
  BY <1>2, ValueFromFacts
<1>9. w \in [1 .. n + 1 -> Int] /\ w[n + 1] = 0 /\ \A i \in 1 .. n : w[i] = z[i] + Base * w[i + 1]
  <2>1. \A i \in 1 .. n : z[i] \in Int
    BY <1>5 DEF Digits
  <2> QED
    BY <2>1, ValueFromFacts
<1> HIDE DEF v, w
<1>10. m(n + 1) = 0 /\ m(1) = a[1] % p
  BY DEF m
<1>11. g[n + 1] = 0
  <2>1. g[n + 1] = p * 0 + 0
    BY <1>9, <1>10
  <2> QED
    BY <2>1
<1>12. ASSUME NEW i \in 1 .. n PROVE g[i] = a[i] + Base * g[i + 1]
  <2>1. i \in 1 .. n + 1 /\ i + 1 \in 1 .. n + 1
    OBVIOUS
  <2>2. PICK x \in Int, y \in Nat, s \in Nat, t \in Nat, u \in Nat :
           x = w[i + 1] /\ y = z[i] /\ s = m(i) /\ t = m(i + 1) /\ u = a[i]
    <3>1. z[i] \in Nat
      BY <1>5, BaseAssumption DEF Digits
    <3> QED
      BY <1>2, <1>3, <1>9, <2>1, <3>1
  <2>3. g[i] = p * (y + Base * x) + s /\ g[i + 1] = p * x + t
    BY <1>9, <2>1, <2>2
  <2>4. p * y + s = Base * t + u
    BY <1>5, <2>2
  <2>5. p * (y + Base * x) = p * y + Base * (p * x)
    BY BaseAssumption
  <2>6. PICK X \in Int : X = p * x
    OBVIOUS
  <2>7. Base * (X + t) = Base * X + Base * t
    BY BaseAssumption
  <2>8. PICK A \in Int, B \in Int, C \in Int : A = p * y /\ B = Base * X /\ C = Base * t
    BY BaseAssumption
  <2> HIDE DEF g
  <2> QED
    BY <2>2, <2>3, <2>4, <2>5, <2>6, <2>7, <2>8
<1>13. g[1] = p * w[1] + m(1)
  OBVIOUS
<1> HIDE DEF g
<1>14. BothSolve(n, v, g, a)
  BY <1>8, <1>11, <1>12 DEF BothSolve
<1>15. v[1] = g[1]
  BY <1>14, SameStart
<1>16. a[1] % p \in 0 .. p - 1
  <2>1. 1 \in 1 .. n + 1
    OBVIOUS
  <2>2. m(1) \in Nat /\ m(1) < p
    BY <1>3, <2>1
  <2> QED
    BY <1>10, <2>2
<1> QED
  BY <1>7, <1>10, <1>13, <1>15, <1>16 DEF v, w, z, ShiftedRight

-----------------------------------------------------------------------------
(* A digit of a quotient. *)

\* Of two numbers cut at the same place, the order of the parts above it.
LEMMA PartsAbove ==
  ASSUME NEW p \in Nat, NEW x \in Int, NEW t \in Int,
         NEW xl \in Nat, xl < p, NEW tl \in Nat, tl < p
  PROVE  /\ xl + p * x <= tl + p * t => x <= t
         /\ x < t => xl + p * x < tl + p * t
<1>1. PICK X \in Int, T \in Int : X = p * x /\ T = p * t
  OBVIOUS
<1>2. CASE x <= t
  <2>1. CASE x < t
    <3>1. (x + 1) * p <= t * p
      <4>1. x + 1 \in Int /\ x + 1 <= t
        BY <2>1
      <4> QED
        BY <4>1, ProductGrows
    <3>2. (x + 1) * p = p * x + p /\ t * p = p * t
      OBVIOUS
    <3>3. X + p <= T
      BY <1>1, <3>1, <3>2
    <3> QED
      BY <1>1, <1>2, <3>3
  <2>2. CASE x = t
    BY <1>2, <2>2
  <2> QED
    BY <1>2, <2>1, <2>2
<1>3. CASE t < x
  <2>1. (t + 1) * p <= x * p
    <3>1. t + 1 \in Int /\ t + 1 <= x
      BY <1>3
    <3> QED
      BY <3>1, ProductGrows
  <2>2. (t + 1) * p = p * t + p /\ x * p = p * x
    OBVIOUS
  <2>3. T + p <= X
    BY <1>1, <2>1, <2>2
  <2> QED
    BY <1>1, <1>3, <2>3
<1> QED
  BY <1>2, <1>3

\* What is left after the estimate fits: it takes one borrow at most.
LEMMA BorrowOnce ==
  ASSUME NEW p \in Nat, NEW W \in Nat, W < p, NEW L \in Nat, L < p, NEW top \in Int,
         NEW Z \in Int, Z = L + p * top, -W <= Z, Z < W
  PROVE  top \in {-1, 0} /\ (top = 0 => Z = L) /\ (top = -1 => Z = L - p)
<1>1. PICK T \in Int : T = p * top /\ T = top * p
  OBVIOUS
<1>2. Z = L + T
  BY <1>1
<1>3. top * p < 1 * p
  BY <1>1, <1>2
<1>4. (-2) * p < top * p
  BY <1>1, <1>2
<1>5. top < 1 /\ -2 < top
  <2>1. top < 1
    BY <1>3, FactorBelow
  <2>2. -2 < top
    BY <1>4, FactorBelow
  <2> QED
    BY <2>1, <2>2
<1>6. top = 0 => T = 0
  BY <1>1
<1>7. top = -1 => T = -p
  BY <1>1
<1> QED
  BY <1>2, <1>5, <1>6, <1>7

\* One digit of the quotient of n + 1 digits e by n digits w, as DivStep finds
\* it: the assertions hold, and digit and rest are quotient and remainder.
LEMMA DigitExact ==
  ASSUME NEW n \in Nat, n >= 2, NEW w, \A i \in 1 .. n : w[i] \in Digits, 2 * w[n] >= Base,
         NEW e, \A i \in 1 .. n + 1 : e[i] \in Digits,
         ValueFrom([i \in 1 .. n |-> e[i + 1]], n)[1] < ValueFrom(w, n)[1]
  PROVE  LET q == Estimate(e[n + 1], e[n], e[n - 1], w[n], w[n - 1])
             minus == [i \in 1 .. n |-> e[i] - q * w[i]]
             left == CarriedDigits(minus, n)
             top == e[n + 1] + Carried(minus, n)[n]
             rest == IF top < 0 THEN CarriedDigits([i \in 1 .. n |-> left[i] + w[i]], n) ELSE left
             digit == IF top < 0 THEN q - 1 ELSE q
             W == ValueFrom(w, n)[1]
             R == ValueFrom(rest, n)[1]
         IN  /\ e[n + 1] <= w[n] /\ q \in Int /\ q <= Base /\ top \in {-1, 0}
             /\ digit \in Digits /\ rest \in [1 .. n -> Digits] /\ R \in Nat /\ R < W
             /\ e[1] + Base * ValueFrom([i \in 1 .. n |-> e[i + 1]], n)[1] = digit * W + R
<1> DEFINE u == [i \in 1 .. n |-> e[i + 1]]
           q == Estimate(e[n + 1], e[n], e[n - 1], w[n], w[n - 1])
           minus == [i \in 1 .. n |-> e[i] - q * w[i]]
           left == CarriedDigits(minus, n)
           top == e[n + 1] + Carried(minus, n)[n]
           back == [i \in 1 .. n |-> left[i] + w[i]]
           rest == IF top < 0 THEN CarriedDigits(back, n) ELSE left
           digit == IF top < 0 THEN q - 1 ELSE q
<1>1. PICK pw : PlaceValues(n + 1, pw)
  <2>1. n + 1 \in Nat
    OBVIOUS
  <2> QED
    BY <2>1, PlaceValuesExist
<1>2. PICK pn : PlaceValues(n, pn) /\ \A i \in 0 .. n : pn[i] = pw[i]
  <2> DEFINE pp == [i \in 0 .. n |-> pw[i]]
  <2>1. PlaceValues(n, pp)
    BY <1>1 DEF PlaceValues
  <2>2. \A i \in 0 .. n : pp[i] = pw[i]
    OBVIOUS
  <2> HIDE DEF pp
  <2> QED
    BY <2>1, <2>2
<1>3. /\ \A i \in 1 .. n : w[i] \in Int /\ e[i] \in Int /\ e[i] \in Digits /\ w[i] \in Nat
      /\ \A i \in 1 .. n + 1 : e[i] \in Int /\ e[i] \in Nat
      /\ \A i \in 1 .. n : u[i] \in Digits /\ u[i] \in Int /\ e[i + 1] = u[i]
      /\ n - 2 \in 0 .. n /\ n - 2 \in 0 .. n + 1 /\ (n - 2) + 1 = n - 1 /\ n + 1 \in Nat /\ n \in 0 .. n
      /\ n - 1 \in 1 .. n /\ n \in 1 .. n /\ n \in 1 .. n + 1 /\ n + 1 \in 1 .. n + 1
      /\ n - 1 \in 1 .. n + 1 /\ (n - 1) + 1 = n /\ (n + 1) - 1 = n /\ 1 \in 1 .. n + 1
  BY BaseAssumption DEF Digits
<1> HIDE DEF u
<1>4. PICK x2 \in Digits, x1 \in Digits, x0 \in Digits, w1 \in Digits, w2 \in Digits :
         x2 = e[n + 1] /\ x1 = e[n] /\ x0 = e[n - 1] /\ w1 = w[n] /\ w2 = w[n - 1]
  BY <1>3
<1>5. /\ x2 \in Nat /\ x1 \in Nat /\ x0 \in Nat /\ w1 \in Nat /\ w2 \in Nat
      /\ x2 < Base /\ x1 < Base /\ x0 < Base /\ w1 < Base /\ w2 < Base /\ 2 * w1 >= Base
  <2>1. /\ x2 \in Nat /\ x1 \in Nat /\ x0 \in Nat /\ w1 \in Nat /\ w2 \in Nat
        /\ x2 < Base /\ x1 < Base /\ x0 < Base /\ w1 < Base /\ w2 < Base
    BY BaseAssumption DEF Digits
  <2>2. 2 * w1 >= Base
    BY <1>4
  <2> QED
    BY <2>1, <2>2
<1>6. PICK p \in Nat, pp \in Nat, W \in Nat, U \in Nat, X \in Nat, wl \in Nat, ul \in Nat, xl \in Nat :
         /\ p = pw[n - 2] /\ pp = pw[n]
         /\ W = ValueFrom(w, n)[1] /\ U = ValueFrom(u, n)[1] /\ X = ValueFrom(e, n + 1)[1]
         /\ wl = ValueFrom(w, n - 2)[1] /\ ul = ValueFrom(u, n - 2)[1] /\ xl = ValueFrom(e, n - 2)[1]
         /\ U < W /\ W < pp /\ wl < p /\ ul < p /\ xl < p
  <2>1. /\ ValueFrom(w, n)[1] \in Nat /\ ValueFrom(w, n)[1] < pn[n] /\ pn[n] \in Nat
        /\ ValueFrom(w, n - 2)[1] \in Nat /\ ValueFrom(w, n - 2)[1] < pn[n - 2] /\ pn[n - 2] \in Nat
    BY <1>2, <1>3, BelowPlace
  <2>2. /\ ValueFrom(u, n)[1] \in Nat
        /\ ValueFrom(u, n - 2)[1] \in Nat /\ ValueFrom(u, n - 2)[1] < pn[n - 2]
    BY <1>2, <1>3, BelowPlace
  <2>3. n + 1 \in 0 .. n + 1
    OBVIOUS
  <2>4. /\ ValueFrom(e, n + 1)[1] \in Nat
        /\ ValueFrom(e, n - 2)[1] \in Nat /\ ValueFrom(e, n - 2)[1] < pw[n - 2]
    BY <1>1, <1>3, <2>3, BelowPlace
  <2>5. ValueFrom(u, n)[1] < ValueFrom(w, n)[1]
    BY DEF u
  <2>6. pn[n] = pw[n] /\ pn[n - 2] = pw[n - 2]
    BY <1>2, <1>3
  <2> QED
    BY <2>1, <2>2, <2>4, <2>5, <2>6
<1>6a. U < W /\ W < pp /\ wl < p /\ ul < p /\ xl < p
  BY <1>6
<1>3a. \A i \in 1 .. n : u[i] \in Int
  BY <1>3
<1>7. PICK t \in Nat, y \in Nat, x \in Nat :
         t = w1 * Base + w2 /\ y = x2 * Base + x1 /\ x = (x2 * Base + x1) * Base + x0
  <2>1. w1 * Base + w2 \in Nat /\ x2 * Base + x1 \in Nat
    <3>1. w1 * Base \in Nat /\ x2 * Base \in Nat
      BY <1>5, BaseAssumption
    <3> QED
      BY <1>5, <3>1
  <2>2. PICK z \in Nat : z = x2 * Base + x1
    BY <2>1
  <2>3. z * Base + x0 \in Nat
    <3>1. z * Base \in Nat
      BY BaseAssumption
    <3> QED
      BY <1>5, <3>1
  <2> QED
    BY <2>1, <2>2, <2>3
<1>8. W = wl + p * t
  <2>1. W = wl + p * ValueFrom(w, n)[n - 1]
    <3>1. ValueFrom(w, n)[1] = ValueFrom(w, n - 2)[1] + pn[n - 2] * ValueFrom(w, n)[(n - 2) + 1]
      BY <1>2, <1>3, SplitValue
    <3> QED
      BY <1>2, <1>3, <1>6, <3>1
  <2>2. ValueFrom(w, n)[n - 1] = w2 + Base * (w1 + Base * 0)
    <3>1. ValueFrom(w, n)[n + 1] = 0 /\ \A i \in 1 .. n : ValueFrom(w, n)[i] = w[i] + Base * ValueFrom(w, n)[i + 1]
      BY <1>3, ValueFromFacts
    <3>2. ValueFrom(w, n)[n] = w1 + Base * 0
      BY <1>3, <1>4, <3>1
    <3> QED
      BY <1>3, <1>4, <3>1, <3>2
  <2>3. w2 + Base * (w1 + Base * 0) = w1 * Base + w2
    BY <1>5, BaseAssumption
  <2> QED
    BY <1>7, <2>1, <2>2, <2>3
<1>9. U = ul + p * y
  <2>1. U = ul + p * ValueFrom(u, n)[n - 1]
    <3>1. ValueFrom(u, n)[1] = ValueFrom(u, n - 2)[1] + pn[n - 2] * ValueFrom(u, n)[(n - 2) + 1]
      <4>1. n - 2 \in 0 .. n
        BY <1>3
      <4> QED
        BY <1>2, <1>3a, <4>1, SplitValue
    <3> QED
      BY <1>2, <1>3, <1>6, <3>1
  <2>2. ValueFrom(u, n)[n - 1] = x1 + Base * (x2 + Base * 0)
    <3>1. ValueFrom(u, n)[n + 1] = 0 /\ \A i \in 1 .. n : ValueFrom(u, n)[i] = u[i] + Base * ValueFrom(u, n)[i + 1]
      BY <1>3a, ValueFromFacts
    <3>2. u[n] = x2 /\ u[n - 1] = x1
      BY <1>3, <1>4
    <3>3. ValueFrom(u, n)[n] = x2 + Base * 0
      BY <1>3, <3>1, <3>2
    <3> QED
      BY <1>3, <3>1, <3>2, <3>3
  <2>3. x1 + Base * (x2 + Base * 0) = x2 * Base + x1
    BY <1>5, BaseAssumption
  <2> QED
    BY <1>7, <2>1, <2>2, <2>3
<1>10. X = xl + p * x
  <2>1. X = xl + p * ValueFrom(e, n + 1)[n - 1]
    <3>1. ValueFrom(e, n + 1)[1] = ValueFrom(e, n - 2)[1] + pw[n - 2] * ValueFrom(e, n + 1)[(n - 2) + 1]
      BY <1>1, <1>3, SplitValue
    <3> QED
      BY <1>3, <1>6, <3>1
  <2>2. ValueFrom(e, n + 1)[n - 1] = x0 + Base * (x1 + Base * (x2 + Base * 0))
    <3>1. /\ ValueFrom(e, n + 1)[(n + 1) + 1] = 0
          /\ \A i \in 1 .. n + 1 : ValueFrom(e, n + 1)[i] = e[i] + Base * ValueFrom(e, n + 1)[i + 1]
      BY <1>3, ValueFromFacts
    <3>2. ValueFrom(e, n + 1)[n + 1] = x2 + Base * 0
      BY <1>3, <1>4, <3>1
    <3>3. ValueFrom(e, n + 1)[n] = x1 + Base * ValueFrom(e, n + 1)[n + 1]
      BY <1>3, <1>4, <3>1
    <3>4. ValueFrom(e, n + 1)[n - 1] = x0 + Base * ValueFrom(e, n + 1)[n]
      BY <1>3, <1>4, <3>1
    <3> QED
      BY <3>2, <3>3, <3>4
  <2>3. x0 + Base * (x1 + Base * (x2 + Base * 0)) = (x2 * Base + x1) * Base + x0
    BY <1>5, BaseAssumption
  <2> QED
    BY <1>7, <2>1, <2>2, <2>3
<1>11. y <= t
  <2>1. ul + p * y <= wl + p * t
    BY <1>6a, <1>8, <1>9
  <2>2. y \in Int /\ t \in Int
    OBVIOUS
  <2> QED
    BY <1>6a, <2>1, <2>2, PartsAbove
<1>12. q \in 0 .. Base /\ q * t <= x /\ x < (q + 1) * t
  <2> HIDE DEF q
  <2>1. q = Estimate(x2, x1, x0, w1, w2)
    BY <1>4 DEF q
  <2>2. x2 * Base + x1 <= w1 * Base + w2
    BY <1>7, <1>11
  <2>3. LET k == Estimate(x2, x1, x0, w1, w2)
            l == w1 * Base + w2
            z == (x2 * Base + x1) * Base + x0
        IN  k \in 0 .. Base /\ k * l <= z /\ z < (k + 1) * l
    BY <1>5, <2>2, EstimateExact
  <2> QED
    BY <1>7, <2>1, <2>3
<1> HIDE DEF q
<1>13. q \in Int /\ q \in Nat /\ q <= Base
  BY <1>12, BaseAssumption
<1>14. -W <= X - q * W /\ X - q * W < W
  <2>1. t >= Base
    <3>1. w1 >= 1
      BY <1>5, BaseAssumption
    <3>2. w1 * Base >= 1 * Base /\ w1 * Base \in Int
      BY <1>5, <3>1, ProductGrows, BaseAssumption
    <3>3. PICK a \in Int : a = w1 * Base
      BY <3>2
    <3>4. a >= Base /\ t = a + w2
      BY <1>7, <3>2, <3>3, BaseAssumption
    <3> HIDE DEF Base
    <3>5. w2 \in Nat
      BY <1>5
    <3> QED
      BY <3>3, <3>4, <3>5, BaseAssumption
  <2>2. PICK k \in 0 .. Base : k = q /\ k * t <= x /\ x < (k + 1) * t
    BY <1>12
  <2>3. LET A == xl + p * x
            B == wl + p * t
        IN  -B <= A - k * B /\ A - k * B < B
    BY <1>6a, <2>1, <2>2, EstimateClose
  <2> QED
    BY <1>8, <1>10, <2>2, <2>3
<1>15. PICK V \in Int : V = q * W
  BY <1>13
<1>16. PICK E \in Int : E = ValueFrom(e, n)[1] /\ X = E + pp * x2
  <2>1. ValueFrom(e, n + 1)[1] = ValueFrom(e, n)[1] + pw[n] * e[n + 1]
    <3>1. n + 1 > 0
      OBVIOUS
    <3> QED
      BY <1>1, <1>3, <3>1, TopDigit
  <2>2. ValueFrom(e, n)[1] \in Int
    <3>1. 1 \in 1 .. n + 1
      OBVIOUS
    <3> QED
      BY <1>3, <3>1, ValueFromFacts
  <2> QED
    BY <1>4, <1>6, <2>1, <2>2
<1>17. \A i \in 1 .. n : minus[i] \in Int /\ minus[i] = e[i] - q * w[i]
  BY <1>3, <1>13
<1> HIDE DEF minus
<1>18. ValueFrom(minus, n)[1] = E - V
  <2>1. PICK m \in Int : m = -q
    BY <1>13
  <2> DEFINE mw == [i \in 1 .. n |-> m * w[i]]
  <2>2. \A i \in 1 .. n : w[i] \in Int /\ mw[i] = m * w[i] /\ mw[i] \in Int
    BY <1>3
  <2> HIDE DEF mw
  <2>3. \A i \in 1 .. n : e[i] \in Int /\ mw[i] \in Int /\ minus[i] = e[i] + mw[i]
    <3> TAKE i \in 1 .. n
    <3>1. PICK a \in Int, b \in Int : a = e[i] /\ b = w[i]
      BY <1>3
    <3>2. a - q * b = a + m * b
      BY <1>13, <2>1
    <3> QED
      BY <1>17, <2>2, <3>1, <3>2
  <2>5. ValueFrom(mw, n)[1] = m * ValueFrom(w, n)[1]
    BY <2>2, ValueOfMultiple
  <2>6. ValueFrom(minus, n)[1] = ValueFrom(e, n)[1] + ValueFrom(mw, n)[1]
    BY <2>3, ValueOfSum, ZenonT(60)
  <2>4. m * W = -(q * W)
    BY <1>13, <2>1
  <2> QED
    BY <1>6, <1>15, <1>16, <2>4, <2>5, <2>6
<1>19. PICK L \in Nat, c \in Int :
          /\ L = ValueFrom(left, n)[1] /\ L < pp /\ c = Carried(minus, n)[n]
          /\ left \in [1 .. n -> Digits] /\ E - V = L + pp * c
  <2>1. left \in [1 .. n -> Digits]
    BY <1>17, CarriedFacts
  <2>2. /\ Carried(minus, n)[n] \in Int
        /\ ValueFrom(minus, n)[1] = ValueFrom(left, n)[1] + pn[n] * Carried(minus, n)[n]
    BY <1>2, <1>17, CarriedExact
  <2> HIDE DEF left
  <2>3. \A i \in 1 .. n : left[i] \in Digits
    BY <2>1
  <2>4. ValueFrom(left, n)[1] \in Nat /\ ValueFrom(left, n)[1] < pn[n]
    BY <1>2, <1>3, <2>3, BelowPlace
  <2> QED
    BY <1>2, <1>3, <1>6, <1>18, <2>1, <2>2, <2>4
<1> HIDE DEF left
<1>20. top = x2 + c /\ top \in Int
  <2>1. top = x2 + c
    BY <1>4, <1>19
  <2> HIDE DEF top
  <2> QED
    BY <1>5, <2>1
<1> HIDE DEF top
<1>21. X - V = L + pp * top
  <2>1. PICK a \in Int, b \in Int, d \in Int : a = pp * x2 /\ b = pp * c /\ d = pp * top
    BY <1>5, <1>20
  <2>2. d = a + b
    BY <1>5, <1>20, <2>1
  <2>3. X = E + a /\ E - V = L + b
    BY <1>16, <1>19, <2>1
  <2> QED
    BY <2>1, <2>2, <2>3
<1>22. top \in {-1, 0} /\ (top = 0 => X - V = L) /\ (top = -1 => X - V = L - pp)
  <2>1. PICK Z \in Int : Z = X - V
    BY <1>15
  <2>2. -W <= Z /\ Z < W /\ Z = L + pp * top
    BY <1>14, <1>15, <1>21, <2>1
  <2>3. L < pp /\ W < pp
    BY <1>6a, <1>19
  <2>4. top \in {-1, 0} /\ (top = 0 => Z = L) /\ (top = -1 => Z = L - pp)
    <3>1. PICK k \in Int : k = top /\ Z = L + pp * k
      BY <1>20, <2>2
    <3>2. k \in {-1, 0} /\ (k = 0 => Z = L) /\ (k = -1 => Z = L - pp)
      BY <2>2, <2>3, <3>1, BorrowOnce
    <3> QED
      BY <3>1, <3>2
  <2> QED
    BY <2>1, <2>4
<1>24. X = e[1] + Base * U
  <2>1. ValueFrom(e, n + 1)[1] = e[1] + Base * ValueFrom(u, n)[1]
    BY <1>3, ValueBelow
  <2> QED
    BY <1>6, <2>1
<1>25. /\ rest \in [1 .. n -> Digits]
       /\ digit \in Int /\ ValueFrom(rest, n)[1] \in Nat /\ ValueFrom(rest, n)[1] < W
       /\ X = digit * W + ValueFrom(rest, n)[1]
  <2>1. CASE top = 0
    <3>1. rest = left /\ digit = q
      BY <2>1
    <3> HIDE DEF rest, digit
    <3>2. L < W /\ X = V + L
      BY <1>14, <1>15, <1>22, <2>1
    <3> QED
      BY <1>13, <1>15, <1>19, <3>1, <3>2
  <2>2. CASE top = -1
    <3>1. rest = CarriedDigits(back, n) /\ digit = q - 1
      BY <2>2
    <3>2. \A i \in 1 .. n : left[i] \in Int /\ w[i] \in Int /\ back[i] \in Int /\ back[i] = left[i] + w[i]
      <4>1. \A i \in 1 .. n : left[i] \in Int
        BY <1>19 DEF Digits
      <4> QED
        BY <1>3, <4>1
    <3> HIDE DEF back
    <3> DEFINE add == CarriedDigits(back, n)
    <3>3. ValueFrom(back, n)[1] = L + W
      <4>1. ValueFrom(back, n)[1] = ValueFrom(left, n)[1] + ValueFrom(w, n)[1]
        <5>1. \A i \in 1 .. n : left[i] \in Int /\ w[i] \in Int /\ back[i] = left[i] + w[i]
          BY <3>2
        <5> QED
          BY <5>1, ValueOfSum, ZenonT(60)
      <4> QED
        BY <1>6, <1>19, <4>1
    <3>4. add \in [1 .. n -> Digits]
      BY <3>2, CarriedFacts
    <3>5. /\ Carried(back, n)[n] \in Int
          /\ ValueFrom(back, n)[1] = ValueFrom(add, n)[1] + pn[n] * Carried(back, n)[n]
      BY <1>2, <3>2, CarriedExact
    <3> HIDE DEF rest, digit, add
    <3>6. \A i \in 1 .. n : add[i] \in Digits
      BY <3>4
    <3>7. ValueFrom(add, n)[1] \in Nat /\ ValueFrom(add, n)[1] < pn[n]
      BY <1>2, <1>3, <3>6, BelowPlace
    <3>8. PICK R \in Nat, d \in Int : R = ValueFrom(add, n)[1] /\ d = Carried(back, n)[n] /\ R < pp
      BY <1>2, <1>3, <1>6, <3>5, <3>7
    <3>9. L + W = R + pp * d
      BY <1>2, <1>3, <1>6, <3>3, <3>5, <3>8
    <3>10. PICK D \in Int : D = pp * d /\ D = d * pp
      OBVIOUS
    <3>11. X - V = L - pp /\ -W <= X - V /\ X - V < W
      BY <1>14, <1>15, <1>22, <2>2
    <3>11a. L < pp /\ W < pp /\ R < pp /\ L + W = R + D
      BY <1>6a, <1>19, <3>8, <3>9, <3>10
    <3>11b. 0 < D /\ D < 2 * pp
      BY <1>15, <3>10, <3>11, <3>11a
    <3>12. 0 * pp < d * pp /\ d * pp < 2 * pp
      BY <3>10, <3>11b
    <3>13. 0 < d /\ d < 2
      <4>1. 0 < d
        BY <3>12, FactorBelow
      <4>2. d < 2
        BY <3>12, FactorBelow
      <4> QED
        BY <4>1, <4>2
    <3>14. D = pp
      <4>1. d = 1
        BY <3>13
      <4> QED
        BY <3>10, <4>1
    <3>15. R = X - V + W /\ R < W
      BY <1>15, <3>10, <3>11, <3>11a, <3>14
    <3>16. (q - 1) * W = q * W - W
      BY <1>13
    <3>17. X = (q - 1) * W + R
      BY <1>15, <3>15, <3>16
    <3>18. rest = add
      BY <3>1 DEF add
    <3>19. digit = q - 1 /\ digit \in Int
      BY <1>13, <3>1
    <3> QED
      BY <3>4, <3>8, <3>15, <3>17, <3>18, <3>19
  <2> QED
    BY <1>22, <2>1, <2>2
<1> HIDE DEF rest, digit
<1>26. digit \in Digits
  <2>1. PICK R \in Nat, A \in Nat, d \in Int :
           R = ValueFrom(rest, n)[1] /\ A = e[1] /\ d = digit /\ R < W /\ A < Base
    <3>1. e[1] \in Nat /\ e[1] < Base
      BY <1>3, BaseAssumption DEF Digits
    <3> QED
      BY <1>25, <3>1
  <2>2. PICK D \in Int : D = d * W
    OBVIOUS
  <2>3. A + Base * U = D + R
    BY <1>24, <1>25, <2>1, <2>2
  <2>4. (-1) * W < d * W
    <3>1. Base * U \in Nat
      BY BaseAssumption
    <3>2. PICK B \in Nat : B = Base * U
      BY <3>1
    <3>3. -W < D
      BY <2>1, <2>3, <3>2
    <3>4. (-1) * W = -W
      OBVIOUS
    <3> QED
      BY <2>2, <3>3, <3>4
  <2>5. d * W < Base * W
    <3>1. (U + 1) * Base <= W * Base
      <4>1. U + 1 <= W /\ U + 1 \in Int
        BY <1>6
      <4> QED
        BY <4>1, ProductGrows, BaseAssumption
    <3>2. (U + 1) * Base = Base * U + Base /\ W * Base = Base * W
      BY BaseAssumption
    <3>3. PICK B \in Int, C \in Int : B = Base * U /\ C = Base * W
      BY BaseAssumption
    <3>4. B + Base <= C
      BY <3>1, <3>2, <3>3
    <3>5. D < C
      <4>1. A + B = D + R /\ A < Base
        BY <2>1, <2>3, <3>3
      <4>2. Base \in Int
        BY BaseAssumption
      <4> QED
        BY <3>4, <4>1, <4>2
    <3> QED
      BY <2>2, <3>3, <3>5
  <2>6. -1 < d
    BY <2>4, FactorBelow
  <2>7. d < Base
    BY <2>5, FactorBelow, BaseAssumption
  <2> QED
    BY <2>1, <2>6, <2>7, BaseAssumption DEF Digits
<1>27. x2 <= w1
  <2>1. w2 + Base * w1 = w1 * Base + w2 /\ x1 + Base * x2 = x2 * Base + x1
    BY <1>5, BaseAssumption
  <2>2. x1 + Base * x2 <= w2 + Base * w1
    BY <1>7, <1>11, <2>1
  <2>3. x2 \in Int /\ w1 \in Int /\ Base \in Nat
    BY <1>5, BaseAssumption
  <2> QED
    BY <1>5, <2>2, <2>3, PartsAbove
<1> QED
  BY <1>4, <1>6, <1>13, <1>22, <1>24, <1>25, <1>26, <1>27 DEF u, q, minus, left, top, back, rest, digit

\* What DivStep computes from n + 1 digits e, of which u are the upper n.
Computed(n, w, e, u, q, minus, left, top, rest, digit) ==
    /\ u = [i \in 1 .. n |-> e[i + 1]]
    /\ q = Estimate(e[n + 1], e[n], e[n - 1], w[n], w[n - 1])
    /\ minus = [i \in 1 .. n |-> e[i] - q * w[i]]
    /\ left = CarriedDigits(minus, n)
    /\ top = e[n + 1] + Carried(minus, n)[n]
    /\ rest = IF top < 0 THEN CarriedDigits([i \in 1 .. n |-> left[i] + w[i]], n) ELSE left
    /\ digit = IF top < 0 THEN q - 1 ELSE q

LEMMA DigitFound ==
  ASSUME NEW n \in Nat, n >= 2, NEW w, \A i \in 1 .. n : w[i] \in Digits, 2 * w[n] >= Base,
         NEW e, \A i \in 1 .. n + 1 : e[i] \in Digits,
         NEW u, NEW q, NEW minus, NEW left, NEW top, NEW rest, NEW digit,
         Computed(n, w, e, u, q, minus, left, top, rest, digit),
         ValueFrom(u, n)[1] < ValueFrom(w, n)[1]
  PROVE  /\ e[n + 1] <= w[n] /\ q \in Int /\ q <= Base /\ top \in {-1, 0}
         /\ digit \in Digits /\ rest \in [1 .. n -> Digits]
         /\ ValueFrom(rest, n)[1] \in Nat /\ ValueFrom(rest, n)[1] < ValueFrom(w, n)[1]
         /\ e[1] + Base * ValueFrom(u, n)[1] = digit * ValueFrom(w, n)[1] + ValueFrom(rest, n)[1]
<1> DEFINE v1 == [i \in 1 .. n |-> e[i + 1]]
           q1 == Estimate(e[n + 1], e[n], e[n - 1], w[n], w[n - 1])
           minus1 == [i \in 1 .. n |-> e[i] - q1 * w[i]]
           left1 == CarriedDigits(minus1, n)
           top1 == e[n + 1] + Carried(minus1, n)[n]
           rest1 == IF top1 < 0 THEN CarriedDigits([i \in 1 .. n |-> left1[i] + w[i]], n) ELSE left1
           digit1 == IF top1 < 0 THEN q1 - 1 ELSE q1
<1>1. ValueFrom(v1, n)[1] < ValueFrom(w, n)[1]
  BY DEF Computed
<1>2. /\ e[n + 1] <= w[n] /\ q1 \in Int /\ q1 <= Base /\ top1 \in {-1, 0}
      /\ digit1 \in Digits /\ rest1 \in [1 .. n -> Digits]
      /\ ValueFrom(rest1, n)[1] \in Nat /\ ValueFrom(rest1, n)[1] < ValueFrom(w, n)[1]
      /\ e[1] + Base * ValueFrom(v1, n)[1] = digit1 * ValueFrom(w, n)[1] + ValueFrom(rest1, n)[1]
  BY <1>1, DigitExact, Zenon
<1>3. u = v1 /\ q = q1
  BY DEF Computed
<1> HIDE DEF q1, v1
<1>4. minus = minus1
  BY <1>3 DEF Computed
<1> HIDE DEF minus1
<1>5. left = left1 /\ top = top1
  BY <1>4 DEF Computed
<1> HIDE DEF left1, top1
<1>6. rest = rest1 /\ digit = digit1
  BY <1>3, <1>5 DEF Computed
<1> HIDE DEF rest1, digit1
<1> QED
  BY <1>2, <1>3, <1>5, <1>6

\* s is what the steps down to j leave of dividing v by w: the digits above j
\* are w times the quotient so far and the n digits that follow j.
DivState(v, w, n, N, k, j, s) ==
    LET u == [i \in 1 .. n |-> s.v[j + i]]
    IN  /\ s \in [v : [1 .. N -> Digits], quot : Seq(Digits), ok : {TRUE}]
        /\ \A i \in 1 .. j : s.v[i] = v[i]
        /\ Len(s.quot) = k - j
        /\ ValueFrom(u, n)[1] < ValueFrom(w, n)[1]
        /\ ValueFrom(v, N)[j + 1] = ValueFrom(w, n)[1] * ValueFrom(s.quot, k - j)[1] + ValueFrom(u, n)[1]

LEMMA DivStepExact ==
  ASSUME NEW n \in Nat, n >= 2, NEW w, \A i \in 1 .. n : w[i] \in Digits, 2 * w[n] >= Base,
         NEW N \in Nat, NEW v \in [1 .. N -> Digits], NEW k \in Nat, k + n <= N,
         NEW j \in 0 .. k - 1, NEW s, DivState(v, w, n, N, k, j + 1, s)
  PROVE  DivState(v, w, n, N, k, j, DivStep(s, w, n, j))
<1> DEFINE e == [i \in 1 .. n + 1 |-> s.v[j + i]]
           u == [i \in 1 .. n |-> s.v[(j + 1) + i]]
           vtop == s.v[j + n + 1]
           q == Estimate(vtop, s.v[j + n], s.v[j + n - 1], w[n], w[n - 1])
           minus == [i \in 1 .. n |-> s.v[j + i] - q * w[i]]
           left == CarriedDigits(minus, n)
           top == vtop + Carried(minus, n)[n]
           back == [i \in 1 .. n |-> left[i] + w[i]]
           rest == IF top < 0 THEN CarriedDigits(back, n) ELSE left
           digit == IF top < 0 THEN q - 1 ELSE q
           z == DivStep(s, w, n, j)
<1>1. /\ s.v \in [1 .. N -> Digits] /\ s.quot \in Seq(Digits) /\ s.ok = TRUE
      /\ \A i \in 1 .. j + 1 : s.v[i] = v[i]
      /\ Len(s.quot) = k - (j + 1)
      /\ ValueFrom(u, n)[1] < ValueFrom(w, n)[1]
      /\ ValueFrom(v, N)[(j + 1) + 1] =
            ValueFrom(w, n)[1] * ValueFrom(s.quot, k - (j + 1))[1] + ValueFrom(u, n)[1]
  BY DEF DivState
<1>2. z = [v |-> [i \in DOMAIN s.v |-> IF i \in j + 1 .. j + n THEN rest[i - j] ELSE s.v[i]],
           quot |-> <<digit>> \o s.quot,
           ok |-> /\ s.ok /\ vtop <= w[n] /\ q <= Base
                  /\ top \in {-1, 0} /\ digit < Base]
  BY DEF DivStep
<1> HIDE DEF z
<1>3. /\ \A i \in 1 .. n + 1 : e[i] \in Digits
      /\ e[n + 1] = vtop /\ e[n] = s.v[j + n] /\ e[n - 1] = s.v[j + n - 1]
      /\ e[1] = v[j + 1]
  <2>1. ASSUME NEW i \in 1 .. n + 1 PROVE e[i] = s.v[j + i] /\ e[i] \in Digits
    <3>1. j + i \in 1 .. N
      OBVIOUS
    <3> QED
      BY <1>1, <3>1
  <2> HIDE DEF e
  <2>2. /\ 1 \in 1 .. n + 1 /\ n + 1 \in 1 .. n + 1 /\ n \in 1 .. n + 1 /\ n - 1 \in 1 .. n + 1
        /\ j + (n + 1) = j + n + 1 /\ j + (n - 1) = j + n - 1 /\ j + 1 \in 1 .. j + 1
    OBVIOUS
  <2>3. s.v[j + 1] = v[j + 1]
    BY <1>1, <2>2
  <2> QED
    BY <2>1, <2>2, <2>3
<1>4. u = [i \in 1 .. n |-> e[i + 1]]
  <2>1. \A i \in 1 .. n : i + 1 \in 1 .. n + 1 /\ j + (i + 1) = (j + 1) + i
    OBVIOUS
  <2>2. \A i \in 1 .. n : e[i + 1] = s.v[j + (i + 1)]
    BY <2>1
  <2> HIDE DEF e
  <2> QED
    BY <2>1, <2>2
<1>5. \A i \in 1 .. n : e[i] = s.v[j + i]
  OBVIOUS
<1> HIDE DEF e, u, vtop
<1>6. q = Estimate(e[n + 1], e[n], e[n - 1], w[n], w[n - 1])
  BY <1>3
<1> HIDE DEF q
<1>7. minus = [i \in 1 .. n |-> e[i] - q * w[i]]
  BY <1>5
<1> HIDE DEF minus
<1>8. left = CarriedDigits(minus, n) /\ top = e[n + 1] + Carried(minus, n)[n]
  BY <1>3
<1> HIDE DEF left, top
<1>9. /\ rest = IF top < 0 THEN CarriedDigits([i \in 1 .. n |-> left[i] + w[i]], n) ELSE left
      /\ digit = IF top < 0 THEN q - 1 ELSE q
  OBVIOUS
<1> HIDE DEF rest, digit, back
<1>10. /\ vtop <= w[n] /\ q \in Int /\ q <= Base /\ top \in {-1, 0}
       /\ digit \in Digits /\ rest \in [1 .. n -> Digits]
       /\ ValueFrom(rest, n)[1] \in Nat /\ ValueFrom(rest, n)[1] < ValueFrom(w, n)[1]
       /\ e[1] + Base * ValueFrom(u, n)[1] = digit * ValueFrom(w, n)[1] + ValueFrom(rest, n)[1]
  <2>1. \A i \in 1 .. n + 1 : e[i] \in Digits
    BY <1>3
  <2>2. ValueFrom(u, n)[1] < ValueFrom(w, n)[1]
    BY <1>1
  <2>3. /\ e[n + 1] <= w[n] /\ q \in Int /\ q <= Base /\ top \in {-1, 0}
        /\ digit \in Digits /\ rest \in [1 .. n -> Digits]
        /\ ValueFrom(rest, n)[1] \in Nat /\ ValueFrom(rest, n)[1] < ValueFrom(w, n)[1]
        /\ e[1] + Base * ValueFrom(u, n)[1] = digit * ValueFrom(w, n)[1] + ValueFrom(rest, n)[1]
    <3>1. Computed(n, w, e, u, q, minus, left, top, rest, digit)
      BY <1>4, <1>6, <1>7, <1>8, <1>9 DEF Computed
    <3> QED
      BY <2>1, <2>2, <3>1, DigitFound
  <2> QED
    BY <1>3, <2>3
<1>11. /\ z.v = [i \in 1 .. N |-> IF i \in j + 1 .. j + n THEN rest[i - j] ELSE s.v[i]]
       /\ z.quot = <<digit>> \o s.quot /\ z.ok = TRUE
       /\ z = [v |-> z.v, quot |-> z.quot, ok |-> z.ok]
  <2>1. digit < Base
    BY <1>10, BaseAssumption DEF Digits
  <2>2. DOMAIN s.v = 1 .. N
    BY <1>1
  <2> QED
    BY <1>1, <1>2, <1>10, <2>1, <2>2
<1>12. z.v \in [1 .. N -> Digits]
  <2>1. ASSUME NEW i \in 1 .. N, i \in j + 1 .. j + n PROVE rest[i - j] \in Digits
    <3>1. i - j \in 1 .. n
      BY <2>1
    <3> QED
      BY <1>10, <3>1
  <2> QED
    BY <1>1, <1>11, <2>1
<1>13. \A i \in 1 .. j : z.v[i] = v[i]
  <2> TAKE i \in 1 .. j
  <2>1. i \in 1 .. N /\ i \notin j + 1 .. j + n /\ i \in 1 .. j + 1
    OBVIOUS
  <2> QED
    BY <1>1, <1>11, <2>1
<1>14. [i \in 1 .. n |-> z.v[j + i]] = rest
  <2>1. \A i \in 1 .. n : j + i \in 1 .. N /\ j + i \in j + 1 .. j + n /\ (j + i) - j = i
    OBVIOUS
  <2>2. \A i \in 1 .. n : z.v[j + i] = rest[i]
    BY <1>11, <2>1
  <2>3. rest = [i \in 1 .. n |-> rest[i]]
    BY <1>10
  <2> QED
    BY <2>2, <2>3
<1>15. PICK l \in Nat : l = k - (j + 1) /\ l + 1 = k - j /\ Len(s.quot) = l
  BY <1>1
<1>16. /\ z.quot \in Seq(Digits) /\ Len(z.quot) = l + 1 /\ z.quot[1] = digit
       /\ \A i \in 1 .. l : z.quot[i + 1] = s.quot[i] /\ s.quot[i] \in Digits
  <2>1. <<digit>> \in Seq(Digits) /\ Len(<<digit>>) = 1
    BY <1>10
  <2>2. \A i \in 1 .. l : s.quot[i] \in Digits
    BY <1>1, <1>15
  <2>3. s.quot \in Seq(Digits) /\ Len(s.quot) = l /\ z.quot = <<digit>> \o s.quot
    BY <1>1, <1>11, <1>15
  <2>4. z.quot \in Seq(Digits) /\ Len(z.quot) = l + 1 /\ z.quot[1] = digit
    BY <2>1, <2>3
  <2>5. ASSUME NEW i \in 1 .. l PROVE z.quot[i + 1] = s.quot[i]
    <3>1. i + 1 \in 1 .. Len(<<digit>>) + Len(s.quot) /\ ~(i + 1 <= Len(<<digit>>))
          /\ (i + 1) - Len(<<digit>>) = i
      BY <2>1, <2>3
    <3> QED
      BY <2>1, <2>3, <3>1
  <2> QED
    BY <2>2, <2>4, <2>5
<1>17. ValueFrom(z.quot, l + 1)[1] = digit + Base * ValueFrom(s.quot, l)[1]
  <2>1. \A i \in 1 .. l : s.quot[i] \in Int
    BY <1>16 DEF Digits
  <2>2. \A i \in 1 .. l + 1 : z.quot[i] \in Int
    <3>1. \A i \in 1 .. l + 1 : z.quot[i] \in Digits
      BY <1>16
    <3> QED
      BY <3>1 DEF Digits
  <2>3. \A i \in 1 .. l : z.quot[i + 1] = s.quot[i]
    BY <1>16
  <2>4. ValueFrom(z.quot, l + 1)[1] = z.quot[1] + Base * ValueFrom(s.quot, l)[1]
    BY <2>1, <2>2, <2>3, ValueBelow
  <2> QED
    BY <1>16, <2>4
<1>18. ValueFrom(v, N)[j + 1] = ValueFrom(w, n)[1] * ValueFrom(z.quot, l + 1)[1] + ValueFrom(rest, n)[1]
  <2>1. PICK W \in Int, U \in Int, Q \in Int, R \in Int, d \in Int, A \in Int :
           /\ W = ValueFrom(w, n)[1] /\ U = ValueFrom(u, n)[1] /\ Q = ValueFrom(s.quot, l)[1]
           /\ R = ValueFrom(rest, n)[1] /\ d = digit /\ A = v[j + 1]
    <3>1. /\ \A i \in 1 .. n : w[i] \in Int
          /\ \A i \in 1 .. n : u[i] \in Int
          /\ \A i \in 1 .. l : s.quot[i] \in Int
      <4>1. ASSUME NEW i \in 1 .. n PROVE u[i] \in Digits
        <5>1. i + 1 \in 1 .. n + 1
          OBVIOUS
        <5> QED
          BY <1>3, <1>4, <5>1
      <4> QED
        BY <1>16, <4>1 DEF Digits
    <3>2. 1 \in 1 .. n + 1 /\ 1 \in 1 .. l + 1
      OBVIOUS
    <3>3. ValueFrom(w, n)[1] \in Int
      BY <3>1, <3>2, ValueFromFacts
    <3>4. ValueFrom(u, n)[1] \in Int
      BY <3>1, <3>2, ValueFromFacts
    <3>5. ValueFrom(s.quot, l)[1] \in Int
      BY <3>1, <3>2, ValueFromFacts
    <3>6. digit \in Int /\ ValueFrom(rest, n)[1] \in Int
      BY <1>10 DEF Digits
    <3>7. v[j + 1] \in Int
      <4>1. j + 1 \in 1 .. N
        OBVIOUS
      <4> QED
        BY <4>1 DEF Digits
    <3> QED
      BY <3>3, <3>4, <3>5, <3>6, <3>7
  <2>2. A + Base * U = d * W + R
    BY <1>3, <1>10, <2>1
  <2>3. ValueFrom(v, N)[j + 1] = A + Base * (W * Q + U)
    <3>1. \A i \in 1 .. N : v[i] \in Int
      BY DEF Digits
    <3>2. \A i \in 1 .. N : ValueFrom(v, N)[i] = v[i] + Base * ValueFrom(v, N)[i + 1]
      BY <3>1, ValueFromFacts
    <3>3. j + 1 \in 1 .. N
      OBVIOUS
    <3>4. ValueFrom(v, N)[(j + 1) + 1] = W * Q + U
      BY <1>1, <1>15, <2>1
    <3> QED
      BY <2>1, <3>2, <3>3, <3>4
  <2>4. W * (d + Base * Q) = d * W + Base * (W * Q)
    BY BaseAssumption
  <2>5. PICK Y \in Int, D \in Int : Y = W * Q /\ D = d * W
    OBVIOUS
  <2>6. Base * (Y + U) = Base * Y + Base * U
    BY BaseAssumption
  <2>7. PICK BY1 \in Int, BU \in Int : BY1 = Base * Y /\ BU = Base * U
    BY BaseAssumption
  <2>8. A + Base * (W * Q + U) = W * (d + Base * Q) + R
    <3>1. A + BU = D + R
      BY <2>2, <2>5, <2>7
    <3>2. Base * (W * Q) = BY1
      BY <2>5, <2>7
    <3>3. W * (d + Base * Q) = D + BY1
      BY <2>4, <2>5, <3>2
    <3>4. Base * (W * Q + U) = BY1 + BU
      BY <2>5, <2>6, <2>7
    <3> QED
      BY <3>1, <3>3, <3>4
  <2> QED
    BY <1>17, <2>1, <2>3, <2>8
<1>19. z \in [v : [1 .. N -> Digits], quot : Seq(Digits), ok : {TRUE}]
  BY <1>11, <1>12, <1>16
<1>20. DivState(v, w, n, N, k, j, z)
  BY <1>10, <1>13, <1>14, <1>15, <1>16, <1>18, <1>19 DEF DivState
<1> QED
  BY <1>20 DEF z

\* The digits above a place are those of the number that begins there.
LEMMA ValueAbove ==
  ASSUME NEW N \in Nat, NEW k \in 0 .. N, NEW ds, \A i \in 1 .. N : ds[i] \in Int,
         NEW n \in Nat, n = N - k, NEW es, \A i \in 1 .. n : es[i] = ds[k + i]
  PROVE  ValueFrom(ds, N)[k + 1] = ValueFrom(es, n)[1]
<1> DEFINE v == ValueFrom(ds, N)
           w == ValueFrom(es, n)
           f == [i \in 1 .. n + 1 |-> v[k + i]]
<1>1. v[N + 1] = 0 /\ \A i \in 1 .. N : v[i] = ds[i] + Base * v[i + 1]
  BY ValueFromFacts
<1>2. \A i \in 1 .. n : es[i] \in Int /\ k + i \in 1 .. N
  OBVIOUS
<1>3. w[n + 1] = 0 /\ \A i \in 1 .. n : w[i] = es[i] + Base * w[i + 1]
  BY <1>2, ValueFromFacts
<1> HIDE DEF v, w
<1>4. f[n + 1] = 0
  <2>1. k + (n + 1) = N + 1 /\ n + 1 \in 1 .. n + 1
    OBVIOUS
  <2> QED
    BY <1>1, <2>1
<1>5. ASSUME NEW i \in 1 .. n PROVE f[i] = es[i] + Base * f[i + 1]
  <2>1. i \in 1 .. n + 1 /\ i + 1 \in 1 .. n + 1 /\ k + i \in 1 .. N /\ k + (i + 1) = (k + i) + 1
    OBVIOUS
  <2>2. v[k + i] = ds[k + i] + Base * v[(k + i) + 1]
    BY <1>1, <2>1
  <2>3. f[i] = v[k + i] /\ f[i + 1] = v[(k + i) + 1]
    BY <2>1
  <2> QED
    BY <2>2, <2>3
<1>6. f[1] = v[k + 1] /\ 1 \in 1 .. n + 1
  OBVIOUS
<1> HIDE DEF f
<1>7. BothSolve(n, w, f, es)
  BY <1>3, <1>4, <1>5 DEF BothSolve
<1>8. w[1] = f[1]
  BY <1>7, SameStart
<1> QED
  BY <1>6, <1>8 DEF v, w

\* The steps down to the last digit: the recursion of DivSteps defines them.
LEMMA DivStepsExact ==
  ASSUME NEW n \in Nat, n >= 2, NEW w, \A i \in 1 .. n : w[i] \in Digits, 2 * w[n] >= Base,
         w[n + 1] = 0,
         NEW N \in Nat, NEW v \in [1 .. N -> Digits], NEW k \in Nat, k + n <= N,
         DivState(v, w, n, N, k, k, [v |-> v, quot |-> <<>>, ok |-> TRUE])
  PROVE  DivState(v, w, n, N, k, 0, DivSteps(v, w, n, k)[0])
<1> DEFINE T == [v : [1 .. N -> Digits], quot : Seq(Digits), ok : {TRUE}]
           first == [v |-> v, quot |-> <<>>, ok |-> TRUE]
           Holds(j, s) == DivState(v, w, n, N, k, j, s)
           D(s, j) == DivStep(s, w, n, j)
           Step(h) == [j \in 0 .. k |-> IF j = k THEN first ELSE D(h[j + 1], j)]
           F == [i \in 1 .. k |-> [s \in T |-> IF D(s, k - i) \in T THEN D(s, k - i) ELSE s]]
<1>1. ASSUME NEW j \in 0 .. k - 1, NEW s, Holds(j + 1, s) PROVE Holds(j, D(s, j))
  BY <1>1, DivStepExact
<1>2. ASSUME NEW j, NEW s, Holds(j, s) PROVE s \in T
  BY <1>2 DEF DivState
<1>3. Holds(k, first)
  OBVIOUS
<1>4. DivSteps(v, w, n, k) = CHOOSE h : h = Step(h)
  BY DEF DivSteps
<1> HIDE DEF Holds, D, T, first
<1>5. first \in T
  BY <1>2, <1>3
<1>6. F \in [1 .. k -> [T -> T]]
  OBVIOUS
<1>7. PICK g : RecursiveUp(T, first, k, F, g)
  <2> HIDE DEF F
  <2> QED
    BY <1>5, <1>6, UpRecursion, Zenon
<1>8. g[0] = first /\ \A i \in 1 .. k : g[i] = F[i][g[i - 1]] /\ g[i - 1] \in T
  <2>1. g \in [0 .. k -> T] /\ g[0] = first /\ \A i \in 1 .. k : g[i] = F[i][g[i - 1]]
    BY <1>7 DEF RecursiveUp
  <2> HIDE DEF F
  <2> QED
    BY <2>1
<1>9. ASSUME NEW i \in 1 .. k, Holds(k - (i - 1), g[i - 1])
      PROVE  g[i] = D(g[i - 1], k - i) /\ Holds(k - i, g[i])
  <2>1. k - i \in 0 .. k - 1 /\ (k - i) + 1 = k - (i - 1)
    OBVIOUS
  <2>2. Holds(k - i, D(g[i - 1], k - i))
    BY <1>1, <1>9, <2>1
  <2>3. D(g[i - 1], k - i) \in T
    BY <1>2, <2>2
  <2>4. g[i] = D(g[i - 1], k - i)
    BY <1>8, <2>3
  <2> QED
    BY <2>2, <2>4
<1>10. \A i \in 0 .. k : Holds(k - i, g[i])
  <2> DEFINE S == {i \in 0 .. k : Holds(k - i, g[i])}
  <2>1. 0 \in S
    BY <1>3, <1>8
  <2>2. ASSUME NEW i \in 1 .. k, i - 1 \in S PROVE i \in S
    BY <1>9, <2>2
  <2> HIDE DEF S
  <2>3. 0 .. k \subseteq S
    BY <2>1, <2>2, UpInduction
  <2> QED
    BY <2>3 DEF S
<1> DEFINE f == [j \in 0 .. k |-> g[k - j]]
<1>11. f = Step(f)
  <2>1. f[k] = first
    BY <1>8
  <2>2. ASSUME NEW j \in 0 .. k, j # k PROVE f[j] = D(f[j + 1], j)
    <3>1. PICK i \in 1 .. k : i = k - j /\ i - 1 = k - (j + 1) /\ k - i = j
      BY <2>2
    <3>2. Holds(k - (i - 1), g[i - 1])
      BY <1>10
    <3>3. g[i] = D(g[i - 1], j)
      BY <1>9, <3>1, <3>2
    <3>4. j + 1 \in 0 .. k
      BY <2>2
    <3> QED
      BY <3>1, <3>3, <3>4
  <2>3. f = [j \in 0 .. k |-> f[j]]
    OBVIOUS
  <2> HIDE DEF f
  <2> QED
    BY <2>1, <2>2, <2>3
<1> HIDE DEF f, Step
<1>12. (CHOOSE h : h = Step(h)) = Step(CHOOSE h : h = Step(h))
  BY <1>11, Zenon
<1>13. PICK h : h = DivSteps(v, w, n, k) /\ h = Step(h)
  BY <1>4, <1>12
<1>14. h[k] = first /\ \A j \in 0 .. k - 1 : h[j] = D(h[j + 1], j)
  <2>1. k \in 0 .. k /\ \A j \in 0 .. k - 1 : j \in 0 .. k /\ j # k
    OBVIOUS
  <2> QED
    BY <1>13, <2>1 DEF Step
<1>15. Holds(0, h[0])
  <2> DEFINE S == {i \in 0 .. k : Holds(k - i, h[k - i])}
  <2>1. 0 \in S
    BY <1>3, <1>14
  <2>2. ASSUME NEW i \in 1 .. k, i - 1 \in S PROVE i \in S
    <3>1. k - i \in 0 .. k - 1 /\ (k - i) + 1 = k - (i - 1)
      OBVIOUS
    <3>2. Holds((k - i) + 1, h[(k - i) + 1])
      BY <2>2, <3>1
    <3>3. Holds(k - i, D(h[(k - i) + 1], k - i))
      BY <1>1, <3>1, <3>2
    <3> QED
      BY <1>14, <3>1, <3>3
  <2>3. 0 .. k \subseteq S
    <3> HIDE DEF S
    <3> QED
      BY <2>1, <2>2, UpInduction
  <2>4. k \in S /\ k - k = 0
    BY <2>3
  <2> QED
    BY <2>4
<1> QED
  BY <1>13, <1>15 DEF Holds

\* The first n digits of a number that ends with a digit below that of w are
\* less than w.
LEMMA ShorterTop ==
  ASSUME NEW n \in Nat, n > 0, NEW u, \A i \in 1 .. n : u[i] \in Digits,
         NEW w, \A i \in 1 .. n : w[i] \in Digits, u[n] < w[n]
  PROVE  ValueFrom(u, n)[1] < ValueFrom(w, n)[1]
<1>1. PICK pw : PlaceValues(n, pw)
  BY PlaceValuesExist
<1>2. \A i \in 1 .. n : u[i] \in Int /\ w[i] \in Int
  BY DEF Digits
<1>3. ValueFrom(u, n)[1] = ValueFrom(u, n - 1)[1] + pw[n - 1] * u[n]
  BY <1>1, <1>2, TopDigit
<1>4. ValueFrom(w, n)[1] = ValueFrom(w, n - 1)[1] + pw[n - 1] * w[n]
  BY <1>1, <1>2, TopDigit
<1>5. n - 1 \in 0 .. n /\ n \in 1 .. n
  OBVIOUS
<1>6. /\ ValueFrom(u, n - 1)[1] \in Nat /\ pw[n - 1] \in Nat /\ ValueFrom(u, n - 1)[1] < pw[n - 1]
      /\ ValueFrom(w, n - 1)[1] \in Nat /\ ValueFrom(w, n - 1)[1] < pw[n - 1]
  <2>1. ValueFrom(u, n - 1)[1] \in Nat /\ pw[n - 1] \in Nat /\ ValueFrom(u, n - 1)[1] < pw[n - 1]
    BY <1>1, <1>5, BelowPlace
  <2>2. ValueFrom(w, n - 1)[1] \in Nat /\ ValueFrom(w, n - 1)[1] < pw[n - 1]
    BY <1>1, <1>5, BelowPlace
  <2> QED
    BY <2>1, <2>2
<1>7. PICK p \in Nat, x \in Int, t \in Int, xl \in Nat, tl \in Nat :
         /\ p = pw[n - 1] /\ x = u[n] /\ t = w[n]
         /\ xl = ValueFrom(u, n - 1)[1] /\ tl = ValueFrom(w, n - 1)[1]
         /\ xl < p /\ tl < p /\ x < t
  BY <1>2, <1>5, <1>6
<1>8. xl + p * x < tl + p * t
  BY <1>7, PartsAbove
<1> QED
  BY <1>3, <1>4, <1>7, <1>8

\* x_divrem divides the magnitudes, if the divisor has two digits or more and
\* the dividend is no shorter.  All the assertions in it hold.
LEMMA x_divremExact ==
  ASSUME NEW a \in BigInts, NEW b \in BigInts, Size(b) >= 2, Size(a) >= Size(b)
  PROVE  DividesInto(a, b, x_divrem(a, b))
<1>1. PICK n \in Nat, l \in Nat : n = Size(b) /\ l = Size(a) /\ n >= 2 /\ l >= n
  BY AbsValueFacts, BufferFacts
<1>2. /\ \A i \in 1 .. n : b.digits[i] \in Digits
      /\ \A i \in 1 .. l : a.digits[i] \in Digits
      /\ b.digits[n] > 0
      /\ AbsValue(a) \in Nat /\ AbsValue(b) \in Nat
      /\ AbsValue(a) = ValueFrom(a.digits, l)[1] /\ AbsValue(b) = ValueFrom(b.digits, n)[1]
  <2>1. a \in Buffers /\ b \in Buffers /\ AbsValue(a) \in Nat /\ AbsValue(b) \in Nat /\ Normalized(b)
    BY AbsValueFacts DEF BigInts
  <2>2. /\ \A i \in 1 .. n : b.digits[i] \in Digits
        /\ \A i \in 1 .. l : a.digits[i] \in Digits
        /\ b.num = n \/ b.num = -n
    BY <1>1, <2>1, BufferFacts
  <2>3. b.digits[n] # 0
    BY <1>1, <2>1, <2>2 DEF Normalized
  <2>4. b.digits[n] \in Nat
    <3>1. n \in 1 .. n
      BY <1>1
    <3> QED
      BY <2>2, <3>1, BaseAssumption DEF Digits
  <2> QED
    BY <1>1, <2>1, <2>2, <2>3, <2>4 DEF AbsValue
<1> DEFINE top == b.digits[n]
           d == SHIFT - bit_length_digit(top)
           w == v_lshift(b.digits, n, d)
           v == v_lshift(a.digits, l, d)
           more == v[l + 1] # 0 \/ v[l] >= w[n]
           k == l - n + (IF more THEN 1 ELSE 0)
           last == DivSteps(v, w, n, k)[0]
           m == x_divrem(a, b)
<1>3. m = [quot |-> last.quot, rem |-> v_rshift(last.v, n, d),
           ok |-> last.ok /\ last.v[1] % 2 ^ d = 0]
  BY <1>1 DEF x_divrem
<1> HIDE DEF m
<1>4. PICK p \in Nat, c \in Nat :
         /\ p = 2 ^ d /\ p > 0 /\ 2 * p <= Base /\ p * c = Base
         /\ (top + 1) * p <= Base /\ Base <= 2 * (top * p)
  <2>1. n \in 1 .. n
    BY <1>1
  <2>2. top \in Digits /\ top > 0
    BY <1>2, <2>1
  <2> HIDE DEF top
  <2> QED
    BY <2>2, NormalizingShift
<1> HIDE DEF d
<1>5. PICK pb : PlaceValues(n + 1, pb)
  <2>1. n + 1 \in Nat
    OBVIOUS
  <2> QED
    BY <2>1, PlaceValuesExist
<1>6. PICK pa : PlaceValues(l + 1, pa)
  <2>1. l + 1 \in Nat
    OBVIOUS
  <2> QED
    BY <2>1, PlaceValuesExist
<1>7. /\ w \in [1 .. n + 1 -> Int] /\ w[n + 1] \in Nat
      /\ \A i \in 1 .. n : w[i] \in Digits
      /\ ValueFrom(w, n + 1)[1] = p * ValueFrom(b.digits, n)[1]
      /\ \E x \in 0 .. p - 1 : top * p + x = w[n] + Base * w[n + 1]
  <2>1. \A i \in 1 .. n : b.digits[i] \in Digits
    BY <1>2
  <2>2. p = 2 ^ d /\ p > 0 /\ n > 0
    BY <1>1, <1>4
  <2>3. /\ w \in [1 .. n + 1 -> Int] /\ w[n + 1] \in Nat
        /\ \A i \in 1 .. n : w[i] \in Digits
        /\ ValueFrom(w, n + 1)[1] = p * ValueFrom(b.digits, n)[1]
        /\ n > 0 => \E x \in 0 .. p - 1 : top * p + x = w[n] + Base * w[n + 1]
    <3>1. ShiftedLeft(n, b.digits, p, v_lshift(b.digits, n, d))
      BY <1>5, <2>1, <2>2, LeftShift
    <3> QED
      BY <3>1 DEF ShiftedLeft
  <2> HIDE DEF w, top
  <2> QED
    BY <2>2, <2>3
<1>8. /\ v \in [1 .. l + 1 -> Int] /\ v[l + 1] \in Nat /\ v[l + 1] < p
      /\ \A i \in 1 .. l : v[i] \in Digits
      /\ ValueFrom(v, l + 1)[1] = p * ValueFrom(a.digits, l)[1]
  <2>1. \A i \in 1 .. l : a.digits[i] \in Digits
    BY <1>2
  <2>2. ShiftedLeft(l, a.digits, p, v_lshift(a.digits, l, d))
    BY <1>4, <1>6, <2>1, LeftShift
  <2> QED
    BY <2>2 DEF ShiftedLeft
<1> HIDE DEF w, v, more
<1>9. w[n + 1] = 0 /\ 2 * w[n] >= Base
  <2>1. PICK x \in Nat : x < p /\ top * p + x = w[n] + Base * w[n + 1]
    BY <1>7
  <2>2. top \in Nat /\ w[n] \in Nat /\ n \in 1 .. n
    <3>1. n \in 1 .. n
      BY <1>1
    <3> QED
      BY <1>2, <1>7, <3>1, BaseAssumption DEF Digits
  <2> HIDE DEF top
  <2>3. PICK y \in Nat, t \in Nat, z \in Nat : y = top * p /\ t = w[n] /\ z = w[n + 1]
    BY <1>7, <2>2
  <2>4. y + p <= Base /\ Base <= 2 * y
    <3>1. (top + 1) * p = top * p + p
      BY <2>2
    <3> QED
      BY <1>4, <2>3, <3>1
  <2>5. y + x = t + Base * z
    BY <2>1, <2>3
  <2>6. z = 0
    <3>1. CASE z >= 1
      <4>1. 1 * Base <= z * Base /\ z * Base \in Int /\ z * Base = Base * z
        BY <3>1, ProductGrows, BaseAssumption
      <4>2. PICK Z \in Int : Z = Base * z /\ Base <= Z
        BY <4>1, BaseAssumption
      <4> QED
        BY <2>1, <2>4, <2>5, <4>2, BaseAssumption
    <3> QED
      BY <3>1
  <2>7. t = y + x
    BY <2>5, <2>6, BaseAssumption
  <2>8. 2 * t >= Base
    <3>1. Base \in Int
      BY BaseAssumption
    <3> QED
      BY <2>4, <2>7, <3>1
  <2> QED
    BY <2>3, <2>6, <2>8
<1>10. PICK W \in Nat, A \in Nat, B \in Nat :
          /\ A = AbsValue(a) /\ B = AbsValue(b) /\ W = p * B /\ W = ValueFrom(w, n)[1]
          /\ ValueFrom(v, l + 1)[1] = p * A
  <2>1. \A i \in 1 .. n + 1 : w[i] \in Int
    BY <1>7
  <2>2. ValueFrom(w, n + 1)[1] = ValueFrom(w, n)[1] + pb[n] * w[n + 1]
    <3>1. n + 1 \in Nat /\ n + 1 > 0 /\ (n + 1) - 1 = n
      OBVIOUS
    <3> QED
      BY <1>5, <2>1, <3>1, TopDigit
  <2>3. ValueFrom(w, n)[1] \in Nat
    <3>1. 1 \in 1 .. n + 1
      OBVIOUS
    <3> QED
      BY <1>7, <3>1, ValueNat
  <2>4. pb[n] \in Nat
    <3>1. n \in 0 .. n + 1
      OBVIOUS
    <3> QED
      BY <1>5, <3>1 DEF PlaceValues
  <2>5. ValueFrom(w, n + 1)[1] = ValueFrom(w, n)[1]
    BY <1>9, <2>2, <2>3, <2>4
  <2> QED
    BY <1>2, <1>7, <1>8, <2>3, <2>5
<1>11. PICK N \in Nat : N = l + 1 /\ v \in [1 .. N -> Digits]
  <2>1. v[l + 1] \in Digits
    <3>1. p < Base
      BY <1>4, BaseAssumption
    <3> QED
      BY <1>8, <3>1, BaseAssumption DEF Digits
  <2>2. \A i \in 1 .. l + 1 : v[i] \in Digits
    BY <1>8, <2>1
  <2>3. v = [i \in 1 .. l + 1 |-> v[i]]
    BY <1>8
  <2> QED
    BY <2>2, <2>3
<1>12. k \in Nat /\ k + n <= N /\ k \in 0 .. N
  <2>1. CASE more
    <3>1. k = l - n + 1
      BY <2>1
    <3> QED
      BY <1>1, <1>11, <3>1
  <2>2. CASE ~more
    <3>1. k = l - n + 0
      BY <2>2
    <3> QED
      BY <1>1, <1>11, <3>1
  <2> QED
    BY <2>1, <2>2
<1> DEFINE u == [i \in 1 .. n |-> v[k + i]]
<1>13. \A i \in 1 .. n : u[i] = v[k + i] /\ u[i] \in Digits
  <2>1. \A i \in 1 .. n : k + i \in 1 .. N
    BY <1>12
  <2> QED
    BY <1>11, <2>1
<1>14. ValueFrom(u, n)[1] < ValueFrom(w, n)[1] /\ ValueFrom(v, N)[k + 1] = ValueFrom(u, n)[1]
  <2>1. \A i \in 1 .. N : v[i] \in Int
    BY <1>11 DEF Digits
  <2>2. n \in 1 .. n /\ n > 0
    BY <1>1
  <2>3. CASE more
    <3>1. k = l - n + 1 /\ k + n = l + 1
      BY <1>1, <2>3
    <3>2. u[n] = v[l + 1]
      BY <1>13, <2>2, <3>1
    <3>3. u[n] < w[n]
      <4>1. w[n] \in Int /\ v[l + 1] \in Int
        BY <1>7, <1>8, <2>2 DEF Digits
      <4> QED
        BY <1>4, <1>8, <1>9, <3>2, <4>1, BaseAssumption
    <3>4. n = N - k
      BY <1>11, <3>1
    <3> HIDE DEF u, k
    <3>5. ValueFrom(u, n)[1] < ValueFrom(w, n)[1]
      BY <1>7, <1>13, <2>2, <3>3, ShorterTop
    <3>6. ValueFrom(v, N)[k + 1] = ValueFrom(u, n)[1]
      BY <1>12, <1>13, <2>1, <3>4, ValueAbove
    <3> QED
      BY <3>5, <3>6
  <2>4. CASE ~more
    <3>1. k = l - n /\ k + n = l /\ v[l + 1] = 0 /\ ~(v[l] >= w[n])
      BY <1>1, <2>4 DEF more
    <3>2. u[n] = v[l]
      BY <1>13, <2>2, <3>1
    <3>3. u[n] < w[n]
      <4>1. w[n] \in Int /\ v[l] \in Int /\ l \in 1 .. l
        BY <1>1, <1>7, <1>8, <2>2 DEF Digits
      <4> QED
        BY <3>1, <3>2, <4>1
    <3> DEFINE u1 == [i \in 1 .. n + 1 |-> v[k + i]]
    <3>4. n + 1 = N - k /\ n + 1 \in Nat
      BY <1>11, <3>1
    <3>5. u1[n + 1] = 0
      <4>1. n + 1 \in 1 .. n + 1 /\ k + (n + 1) = l + 1
        BY <3>1
      <4> QED
        BY <3>1, <4>1
    <3>6. \A i \in 1 .. n + 1 : u1[i] = v[k + i] /\ u1[i] \in Int
      <4>1. \A i \in 1 .. n + 1 : k + i \in 1 .. N
        BY <1>12, <3>4
      <4> QED
        BY <2>1, <4>1
    <3> HIDE DEF u, k, u1
    <3>7. ValueFrom(u, n)[1] < ValueFrom(w, n)[1]
      BY <1>7, <1>13, <2>2, <3>3, ShorterTop
    <3>8. ValueFrom(v, N)[k + 1] = ValueFrom(u1, n + 1)[1]
      BY <1>12, <2>1, <3>4, <3>6, ValueAbove
    <3>9. ValueFrom(u1, n + 1)[1] = ValueFrom(u1, n)[1] + pb[n] * u1[n + 1]
      <4>1. n + 1 > 0 /\ (n + 1) - 1 = n /\ n + 1 \in Nat
        OBVIOUS
      <4> QED
        BY <1>5, <3>6, <4>1, TopDigit
    <3>10. pb[n] \in Nat
      <4>1. n \in 0 .. n + 1
        OBVIOUS
      <4> QED
        BY <1>5, <4>1 DEF PlaceValues
    <3>11. ValueFrom(u1, n)[1] = ValueFrom(u, n)[1] /\ ValueFrom(u, n)[1] \in Int
      <4>1. \A i \in 1 .. n : u[i] \in Int /\ u1[i] = u[i]
        BY <1>13, <3>6 DEF Digits
      <4>2. 1 \in 1 .. n + 1
        OBVIOUS
      <4>3. ValueFrom(u1, n)[1] = ValueFrom(u, n)[1]
        BY <4>1, <4>2, ValueFromSame
      <4>4. ValueFrom(u, n)[1] \in Int
        BY <4>1, <4>2, ValueFromFacts
      <4> QED
        BY <4>3, <4>4
    <3> QED
      BY <3>5, <3>7, <3>8, <3>9, <3>10, <3>11
  <2> QED
    BY <2>3, <2>4
<1> HIDE DEF k
<1>15. DivState(v, w, n, N, k, k, [v |-> v, quot |-> <<>>, ok |-> TRUE])
  <2> DEFINE s == [v |-> v, quot |-> <<>>, ok |-> TRUE]
  <2>1. s.v = v /\ s.quot = <<>> /\ s.ok = TRUE /\ <<>> \in Seq(Digits) /\ Len(<<>>) = 0 /\ k - k = 0
    BY <1>12
  <2>2. s \in [v : [1 .. N -> Digits], quot : Seq(Digits), ok : {TRUE}]
    BY <1>11, <2>1
  <2> HIDE DEF s, u
  <2>3. ValueFrom(s.quot, k - k)[1] = 0
    <3>1. ValueFrom(<<>>, 0)[1] = 0
      BY ValueZero
    <3> QED
      BY <2>1, <3>1
  <2>4. PICK U \in Int : U = ValueFrom(u, n)[1]
    <3>1. \A i \in 1 .. n : u[i] \in Int
      BY <1>13 DEF Digits
    <3>2. 1 \in 1 .. n + 1
      OBVIOUS
    <3> QED
      BY <3>1, <3>2, ValueFromFacts
  <2>5. ValueFrom(v, N)[k + 1] = ValueFrom(w, n)[1] * ValueFrom(s.quot, k - k)[1] + ValueFrom(u, n)[1]
    BY <1>10, <1>14, <2>3, <2>4
  <2>6. [i \in 1 .. n |-> s.v[k + i]] = u
    BY <2>1 DEF u
  <2>7. DivState(v, w, n, N, k, k, s)
    BY <1>14, <2>1, <2>2, <2>5, <2>6 DEF DivState
  <2> QED
    BY <2>7 DEF s
<1>16. DivState(v, w, n, N, k, 0, last)
  BY <1>1, <1>7, <1>9, <1>11, <1>12, <1>15, DivStepsExact
<1> HIDE DEF last, u
<1> DEFINE r == [i \in 1 .. n |-> last.v[0 + i]]
           z == v_rshift(last.v, n, d)
<1>17. /\ last.v \in [1 .. N -> Digits] /\ last.quot \in Seq(Digits) /\ last.ok = TRUE
       /\ Len(last.quot) = k
       /\ ValueFrom(r, n)[1] < W
       /\ ValueFrom(v, N)[0 + 1] = W * ValueFrom(last.quot, k)[1] + ValueFrom(r, n)[1]
  <2>1. k - 0 = k
    BY <1>12
  <2> QED
    BY <1>10, <1>16, <2>1 DEF DivState
<1>18. \A i \in 1 .. n : last.v[i] \in Digits /\ r[i] = last.v[i] /\ last.v[i] \in Int
  BY <1>12, <1>17 DEF Digits
<1> HIDE DEF r
<1>19. ValueFrom(r, n)[1] = ValueFrom(last.v, n)[1]
  <2>1. 1 \in 1 .. n + 1
    OBVIOUS
  <2> QED
    BY <1>18, <2>1, ValueFromSame
<1>20. /\ z \in [1 .. n -> Digits] /\ last.v[1] % p \in 0 .. p - 1
       /\ ValueFrom(last.v, n)[1] = p * ValueFrom(z, n)[1] + (last.v[1] % p)
  <2>1. \A i \in 1 .. n : last.v[i] \in Digits
    BY <1>18
  <2>2. p = 2 ^ d /\ p > 0 /\ (\E x \in Nat : p * x = Base) /\ n > 0
    BY <1>1, <1>4
  <2>3. ShiftedRight(n, last.v, p, v_rshift(last.v, n, d))
    BY <2>1, <2>2, RightShift
  <2> QED
    BY <2>3 DEF ShiftedRight
<1> HIDE DEF z
<1>21. PICK Q \in Nat, R \in Nat, e \in Nat :
          /\ Q = ValueFrom(last.quot, k)[1] /\ R = ValueFrom(z, n)[1] /\ e = last.v[1] % p /\ e < p
          /\ p * R + e < W /\ p * A = W * Q + (p * R + e)
  <2>1. \A i \in 1 .. k : last.quot[i] \in Digits
    BY <1>12, <1>17
  <2>2. ValueFrom(last.quot, k)[1] \in Nat
    <3>1. 1 \in 1 .. k + 1
      BY <1>12
    <3> QED
      BY <1>12, <2>1, <3>1, ValueNat
  <2>3. \A i \in 1 .. n : z[i] \in Digits
    BY <1>20
  <2>4. ValueFrom(z, n)[1] \in Nat
    <3>1. 1 \in 1 .. n + 1
      OBVIOUS
    <3> QED
      BY <2>3, <3>1, ValueNat
  <2>5. ValueFrom(v, N)[0 + 1] = p * A
    BY <1>10, <1>11
  <2>6. PICK Q \in Nat, R \in Nat, e \in Nat :
          Q = ValueFrom(last.quot, k)[1] /\ R = ValueFrom(z, n)[1] /\ e = last.v[1] % p /\ e < p
    BY <1>20, <2>2, <2>4
  <2>7. ValueFrom(r, n)[1] = p * R + e
    BY <1>19, <1>20, <2>6
  <2>8. p * A = W * Q + (p * R + e)
    BY <1>17, <2>5, <2>6, <2>7
  <2>9. p * R + e < W
    BY <1>17, <2>7
  <2> QED
    BY <2>6, <2>8, <2>9
<1>22. e = 0 /\ R < B /\ A = B * Q + R
  <2>1. PICK X \in Int : X = A - B * Q - R
    OBVIOUS
  <2>2. X * p = e
    <3>1. (p * B) * Q = p * (B * Q)
      OBVIOUS
    <3>2. PICK Y \in Int : Y = B * Q
      OBVIOUS
    <3>3. p * (A - Y - R) = p * A - p * Y - p * R
      OBVIOUS
    <3>4. X * p = p * (A - Y - R)
      BY <2>1, <3>2
    <3>5. p * A = p * Y + (p * R + e)
      BY <1>10, <1>21, <3>1, <3>2
    <3>6. PICK a1 \in Int, y1 \in Int, r1 \in Int : a1 = p * A /\ y1 = p * Y /\ r1 = p * R
      OBVIOUS
    <3> QED
      BY <3>3, <3>4, <3>5, <3>6
  <2>3. (-1) * p < X * p /\ X * p < 1 * p
    BY <1>4, <1>21, <2>2
  <2>4. -1 < X
    BY <2>3, FactorBelow
  <2>5. X < 1
    BY <2>3, FactorBelow
  <2>6. X = 0
    BY <2>4, <2>5
  <2>7. e = 0
    BY <2>2, <2>6
  <2>8. R * p < B * p
    <3>1. p * R + 0 < p * B
      BY <1>10, <1>21, <2>7
    <3>2. PICK s \in Int, t \in Int : s = p * R /\ t = p * B /\ s = R * p /\ t = B * p
      OBVIOUS
    <3> QED
      BY <3>1, <3>2
  <2>9. R < B
    BY <2>8, FactorBelow
  <2>10. A = B * Q + R
    <3>1. PICK Y \in Int : Y = B * Q
      OBVIOUS
    <3> QED
      BY <2>1, <2>6, <3>1
  <2> QED
    BY <2>7, <2>9, <2>10
<1>23. m.quot = last.quot /\ m.rem = z /\ m.ok = TRUE
  <2>1. (last.ok /\ last.v[1] % 2 ^ d = 0) = TRUE
    BY <1>4, <1>17, <1>21, <1>22
  <2> QED
    BY <1>3, <2>1 DEF z
<1>24. z \in Seq(Digits) /\ Len(z) = n
  BY <1>20
<1>25. DividesInto(a, b, m)
  BY <1>10, <1>17, <1>21, <1>22, <1>23, <1>24 DEF DividesInto
<1> QED
  BY <1>25 DEF m

-----------------------------------------------------------------------------
(* Division of numbers. *)

\* It does whatever the lengths of the two.
LEMMA MagnitudesExact ==
  ASSUME NEW a \in BigInts, NEW b \in BigInts, b.num # 0
  PROVE  DividesInto(a, b, Magnitudes(a, b))
<1>1. /\ a \in Buffers /\ b \in Buffers /\ Size(a) \in Nat /\ Size(b) \in Nat
      /\ AbsValue(a) \in Nat /\ AbsValue(b) \in Nat
  BY AbsValueFacts, BufferFacts
<1>2. PICK n \in Nat : n = Size(a)
  BY <1>1
<1>3. CASE Size(a) < Size(b)
  <2> DEFINE ds == SubSeq(a.digits, 1, n)
  <2>1. Magnitudes(a, b) = [quot |-> <<>>, rem |-> ds, ok |-> TRUE]
    <3>1. ~(Size(a) >= Size(b))
      BY <1>1, <1>3
    <3> QED
      BY <1>2, <1>3, <3>1 DEF Magnitudes
  <2>2. ds \in Seq(Digits) /\ Len(ds) = n /\ \A i \in 1 .. n : ds[i] = a.digits[i] /\ a.digits[i] \in Int
    <3>1. a.digits \in Seq(Digits) /\ n <= Len(a.digits) /\ (\A i \in 1 .. n : a.digits[i] \in Digits)
      BY <1>1, <1>2, BufferFacts
    <3> QED
      BY <3>1 DEF Digits
  <2> HIDE DEF ds
  <2>3. ValueFrom(ds, n)[1] = AbsValue(a)
    <3>1. 1 \in 1 .. n + 1
      OBVIOUS
    <3>2. ValueFrom(ds, n)[1] = ValueFrom(a.digits, n)[1]
      BY <2>2, <3>1, ValueFromSame
    <3> QED
      BY <1>2, <3>2 DEF AbsValue
  <2>4. ValueFrom(<<>>, 0)[1] = 0
    BY ValueZero
  <2>5. AbsValue(b) > AbsValue(a)
    BY <1>1, <1>3, LongerIsLarger
  <2>6. AbsValue(a) = AbsValue(b) * 0 + AbsValue(a)
    BY <1>1
  <2>7. <<>> \in Seq(Digits) /\ Len(<<>>) = 0
    OBVIOUS
  <2>8. PICK m : m = Magnitudes(a, b) /\ m.quot = <<>> /\ m.rem = ds /\ m.ok = TRUE
    BY <2>1
  <2>9. /\ ValueFrom(m.quot, Len(m.quot))[1] = 0
        /\ ValueFrom(m.rem, Len(m.rem))[1] = AbsValue(a)
    BY <2>2, <2>3, <2>4, <2>7, <2>8
  <2>10. m.quot \in Seq(Digits) /\ m.rem \in Seq(Digits)
    BY <2>2, <2>7, <2>8
  <2> QED
    BY <1>1, <2>5, <2>6, <2>8, <2>9, <2>10 DEF DividesInto
<1>4. CASE ~(Size(a) < Size(b)) /\ Size(b) = 1
  <2> DEFINE d == b.digits[1]
             quot == divrem1(a.digits, n, d).quot
             rem == Remainders(a.digits, n, d)[1]
  <2>1. Size(b) = 1 /\ Size(a) >= Size(b)
    BY <1>1, <1>4
  <2>2. AbsValue(b) = d /\ d \in Digits /\ d > 0
    BY <2>1, OneDigit DEF Digits
  <2>3. \A i \in 1 .. n : a.digits[i] \in Digits
    BY <1>1, <1>2, BufferFacts
  <2>4. /\ quot \in [1 .. n -> Digits] /\ rem \in Nat /\ rem < d
        /\ ValueFrom(a.digits, n)[1] = d * ValueFrom(quot, n)[1] + rem
    BY <2>2, <2>3, divrem1Exact
  <2>5. Magnitudes(a, b) = [quot |-> quot, rem |-> DigitsOf(rem), ok |-> TRUE]
    <3>1. Magnitudes(a, b) = divrem1(a.digits, n, d)
      BY <1>2, <1>4, <2>1 DEF Magnitudes
    <3> QED
      BY <3>1 DEF divrem1
  <2> HIDE DEF quot, rem, d
  <2>6. RightDigits(DigitsOf(rem), rem)
    BY <2>4, DigitsOfExact
  <2>7. quot \in Seq(Digits) /\ Len(quot) = n
    BY <2>4
  <2>8. \A i \in 1 .. n : quot[i] \in Digits
    BY <2>4
  <2>9. ValueFrom(quot, n)[1] \in Nat
    <3>1. 1 \in 1 .. n + 1
      OBVIOUS
    <3> QED
      BY <2>8, <3>1, ValueNat
  <2>10. AbsValue(a) = ValueFrom(a.digits, n)[1]
    BY <1>2 DEF AbsValue
  <2> QED
    BY <2>2, <2>4, <2>5, <2>6, <2>7, <2>9, <2>10 DEF DividesInto, RightDigits
<1>5. CASE ~(Size(a) < Size(b)) /\ Size(b) # 1
  <2>1. Size(b) # 0
    BY <1>1, BufferFacts
  <2>2. Size(b) >= 2 /\ Size(a) >= Size(b)
    BY <1>1, <1>5, <2>1
  <2>3. Magnitudes(a, b) = x_divrem(a, b)
    BY <1>1, <1>5 DEF Magnitudes
  <2> QED
    BY <2>2, <2>3, x_divremExact
<1> QED
  BY <1>3, <1>4, <1>5

\* A magnitude is stored with a sign.
LEMMA SignedExact ==
  ASSUME NEW a \in Buffers, Growable(a), NEW neg \in BOOLEAN, NEW ds \in Seq(Digits)
  PROVE  LET r == [Signed(a, neg, ds) EXCEPT !.failed = Signed(a, neg, ds).failed \/ FALSE]
             v == ValueFrom(ds, Len(ds))[1]
         IN  r \in BigInts /\ Growable(r) /\ Value(r) = (IF neg THEN -v ELSE v)
<1> DEFINE m == Len(ds)
           num == IF neg THEN -m ELSE m
           s == Signed(a, neg, ds)
           v == ValueFrom(ds, m)[1]
<1>1. m \in Nat /\ ds \in [1 .. m -> Digits] /\ num \in {m, -m} /\ m <= m
  OBVIOUS
<1>2. s = bigint_normalize(Overwrite(ensure_bigint_size(a, m), num, ds))
  BY DEF Signed
<1> HIDE DEF s
<1>3. s \in BigInts /\ Growable(s) /\ Value(s) = (IF num < 0 THEN -v ELSE v)
  <2> HIDE DEF num, m
  <2> QED
    BY <1>1, <1>2, Stored
<1>4. (IF num < 0 THEN -v ELSE v) = IF neg THEN -v ELSE v
  <2>1. CASE m = 0
    <3>1. v = 0
      <4>1. \A i \in 1 .. 0 : ds[i] = 0
        OBVIOUS
      <4>2. ValueFrom(ds, 0)[1] = 0
        BY <4>1, ValueZero
      <4> QED
        BY <2>1, <4>2
    <3> HIDE DEF v
    <3> QED
      BY <3>1
  <2>2. CASE m # 0
    <3>1. num < 0 <=> neg
      BY <1>1, <2>2
    <3> HIDE DEF v, num
    <3> QED
      BY <3>1
  <2> QED
    BY <2>1, <2>2
<1>5. [s EXCEPT !.failed = s.failed \/ FALSE] = s
  <2>1. s \in [num : Int, digits : Seq(Digits), const_size : BOOLEAN, failed : BOOLEAN]
    BY <1>3 DEF BigInts, Buffers
  <2>2. s.failed \in BOOLEAN
    BY <2>1
  <2>3. (s.failed \/ FALSE) = s.failed
    BY <2>2
  <2> QED
    BY <2>1, <2>3
<1> QED
  BY <1>3, <1>4, <1>5 DEF s

\* fklDivBigInt and fklRemBigInt are the division of C on the integers the
\* digits stand for, whatever the lengths of the dividend and the divisor, and no
\* assertion on the way fails.
THEOREM DivExact ==
  ASSUME NEW a \in BigInts, Growable(a), NEW b \in BigInts,
         b.num # 0
  PROVE  /\ LET r == fklDivBigInt(a, b)
            IN  r \in BigInts /\ Growable(r) /\ Value(r) = CDiv(Value(a), Value(b))
         /\ LET r == fklRemBigInt(a, b)
            IN  r \in BigInts /\ Growable(r) /\ Value(r) = CMod(Value(a), Value(b))
<1>1. /\ a \in Buffers /\ AbsValue(a) \in Nat /\ AbsValue(b) \in Nat /\ AbsValue(b) > 0
      /\ a.num \in Int /\ b.num \in Int
  BY AbsValueFacts, BufferFacts
<1>2. PICK m : m = Magnitudes(a, b) /\ DividesInto(a, b, m)
  BY MagnitudesExact
<1>3. PICK q \in Nat, r \in Nat, x \in Nat, y \in Nat :
         /\ q = ValueFrom(m.quot, Len(m.quot))[1] /\ r = ValueFrom(m.rem, Len(m.rem))[1]
         /\ x = AbsValue(a) /\ y = AbsValue(b) /\ y > 0 /\ r < y /\ x = y * q + r
  BY <1>1, <1>2 DEF DividesInto
<1>4. m.quot \in Seq(Digits) /\ m.rem \in Seq(Digits) /\ (~m.ok) = FALSE
  BY <1>2 DEF DividesInto
<1>5. x \div y = q
  BY <1>3, QuotientIs
<1>6. PICK A \in Int, B \in Int :
         /\ A = Value(a) /\ B = Value(b) /\ AbsOf(A) = x /\ AbsOf(B) = y
         /\ A = (IF a.num < 0 THEN -x ELSE x) /\ B = (IF b.num < 0 THEN -y ELSE y)
  BY <1>1, <1>3 DEF Value, AbsOf
<1>7. (A < 0 <=> a.num < 0) /\ (B < 0 <=> b.num < 0)
  BY <1>6, SignOfValue
<1>8. CDiv(A, B) = IF (a.num < 0) # (b.num < 0) THEN -q ELSE q
  <2>1. (A < 0) = (B < 0) <=> ~((a.num < 0) # (b.num < 0))
    BY <1>7
  <2> QED
    BY <1>5, <1>6, <2>1 DEF CDiv
<1>9. CMod(A, B) = IF a.num < 0 THEN -r ELSE r
  <2>1. PICK p \in Int : p = y * q /\ y * (-q) = -p /\ (-y) * q = -p /\ (-y) * (-q) = p
    OBVIOUS
  <2>2. CMod(A, B) = A - B * CDiv(A, B) /\ x = p + r
    BY <1>3, <2>1 DEF CMod
  <2>3. CASE a.num < 0 /\ b.num < 0
    <3>1. CDiv(A, B) = q /\ A = -x /\ B = -y
      BY <1>6, <1>8, <2>3
    <3>2. B * CDiv(A, B) = -p
      BY <2>1, <3>1
    <3> QED
      BY <2>1, <2>2, <2>3, <3>1, <3>2
  <2>4. CASE a.num < 0 /\ ~(b.num < 0)
    <3>1. CDiv(A, B) = -q /\ A = -x /\ B = y
      BY <1>6, <1>8, <2>4
    <3>2. B * CDiv(A, B) = -p
      BY <2>1, <3>1
    <3> QED
      BY <2>1, <2>2, <2>4, <3>1, <3>2
  <2>5. CASE ~(a.num < 0) /\ b.num < 0
    <3>1. CDiv(A, B) = -q /\ A = x /\ B = -y
      BY <1>6, <1>8, <2>5
    <3>2. B * CDiv(A, B) = p
      BY <2>1, <3>1
    <3> QED
      BY <2>1, <2>2, <2>5, <3>1, <3>2
  <2>6. CASE ~(a.num < 0) /\ ~(b.num < 0)
    <3>1. CDiv(A, B) = q /\ A = x /\ B = y
      BY <1>6, <1>8, <2>6
    <3>2. B * CDiv(A, B) = p
      BY <2>1, <3>1
    <3> QED
      BY <2>1, <2>2, <2>6, <3>1, <3>2
  <2> QED
    BY <2>3, <2>4, <2>5, <2>6
<1>10. LET s == fklDivBigInt(a, b)
       IN  s \in BigInts /\ Growable(s) /\ Value(s) = CDiv(A, B)
  <2> DEFINE neg == (a.num < 0) # (b.num < 0)
  <2>1. neg \in BOOLEAN /\ CDiv(A, B) = IF neg THEN -q ELSE q
    BY <1>8
  <2>2. fklDivBigInt(a, b) =
           [Signed(a, neg, m.quot) EXCEPT !.failed = Signed(a, neg, m.quot).failed \/ FALSE]
    BY <1>2, <1>4 DEF fklDivBigInt
  <2> HIDE DEF neg
  <2>3. LET s == fklDivBigInt(a, b)
        IN  s \in BigInts /\ Growable(s) /\ Value(s) = IF neg THEN -q ELSE q
    BY <1>1, <1>3, <1>4, <2>1, <2>2, SignedExact
  <2> QED
    BY <2>1, <2>3
<1>11. LET s == fklRemBigInt(a, b)
       IN  s \in BigInts /\ Growable(s) /\ Value(s) = CMod(A, B)
  <2> DEFINE neg == a.num < 0
  <2>1. neg \in BOOLEAN /\ CMod(A, B) = IF neg THEN -r ELSE r
    BY <1>1, <1>9
  <2>2. fklRemBigInt(a, b) =
           [Signed(a, neg, m.rem) EXCEPT !.failed = Signed(a, neg, m.rem).failed \/ FALSE]
    BY <1>2, <1>4 DEF fklRemBigInt
  <2> HIDE DEF neg
  <2>3. LET s == fklRemBigInt(a, b)
        IN  s \in BigInts /\ Growable(s) /\ Value(s) = IF neg THEN -r ELSE r
    BY <1>1, <1>3, <1>4, <2>1, <2>2, SignedExact
  <2> QED
    BY <2>1, <2>3
<1> QED
  BY <1>6, <1>10, <1>11

-----------------------------------------------------------------------------
(* Calls of the builtins //, / and %. *)

\* To divide by one number and then by another is to divide by their product.
LEMMA QuotientOfQuotient ==
  ASSUME NEW x \in Nat, NEW y \in Nat, NEW z \in Nat, y > 0, z > 0
  PROVE  /\ y * z \in Nat /\ y * z > 0
         /\ x \div y \in Nat /\ (x \div y) \div z \in Nat
         /\ (x \div y) \div z = x \div (y * z)
<1>1. y * z \in Nat /\ y * z > 0
  OBVIOUS
<1>2. PICK a \in Int, b \in Nat : a = x \div y /\ b < y /\ x = y * a + b
  BY DivModFacts
<1>3. a \in Nat
  <2> SUFFICES ASSUME a <= -1 PROVE FALSE
    BY <1>2
  <2>1. -1 - a \in Nat /\ y * a = -y - y * (-1 - a)
    BY <1>2
  <2>2. PICK p \in Nat, q \in Int : p = y * (-1 - a) /\ q = y * a
    BY <1>2, <2>1
  <2> QED
    BY <1>2, <2>1, <2>2
<1>4. PICK c \in Int, d \in Nat : c = a \div z /\ d < z /\ a = z * c + d
  BY <1>3, DivModFacts
<1>5. c \in Nat
  <2> SUFFICES ASSUME c <= -1 PROVE FALSE
    BY <1>4
  <2>1. -1 - c \in Nat /\ z * c = -z - z * (-1 - c)
    BY <1>4
  <2>2. PICK p \in Nat, q \in Int : p = z * (-1 - c) /\ q = z * c
    BY <1>4, <2>1
  <2> QED
    BY <1>3, <1>4, <2>1, <2>2
<1>6. x = (y * z) * c + (y * d + b)
  <2>1. y * (z * c + d) = (y * z) * c + y * d
    BY <1>4
  <2>2. PICK p \in Int, q \in Int : p = (y * z) * c /\ q = y * d
    BY <1>4
  <2> QED
    BY <1>2, <1>4, <2>1, <2>2
<1>7. y * d + b \in Nat /\ y * d + b < y * z
  <2>1. z - 1 - d \in Nat /\ y * z = y * d + y + y * (z - 1 - d)
    BY <1>4
  <2>2. PICK p \in Nat, q \in Nat : p = y * (z - 1 - d) /\ q = y * d
    BY <1>4, <2>1
  <2> QED
    BY <1>2, <2>1, <2>2
<1>8. x \div (y * z) = c
  BY <1>1, <1>5, <1>6, <1>7, QuotientIs
<1> QED
  BY <1>1, <1>2, <1>3, <1>4, <1>5, <1>8

\* The sign and the magnitude of a product.
LEMMA SignedProduct ==
  ASSUME NEW y \in Int, NEW z \in Int, y # 0, z # 0
  PROVE  /\ y * z \in Int /\ y * z # 0
         /\ AbsOf(y) \in Nat /\ AbsOf(z) \in Nat /\ AbsOf(y) > 0 /\ AbsOf(z) > 0
         /\ AbsOf(y * z) = AbsOf(y) * AbsOf(z)
         /\ y * z < 0 <=> ((y < 0) # (z < 0))
<1>1. PICK a \in Nat, b \in Nat : a = AbsOf(y) /\ b = AbsOf(z) /\ a > 0 /\ b > 0
  BY DEF AbsOf
<1>2. PICK p \in Nat : /\ p = a * b /\ p > 0
                       /\ (-a) * b = -p /\ a * (-b) = -p /\ (-a) * (-b) = p
  <2>1. a * b \in Nat /\ a * b > 0
    BY <1>1
  <2>2. (-a) * b = -(a * b) /\ a * (-b) = -(a * b) /\ (-a) * (-b) = a * b
    OBVIOUS
  <2> QED
    BY <2>1, <2>2
<1>3. CASE y < 0 /\ z < 0
  <2>1. y = -a /\ z = -b
    BY <1>1, <1>3 DEF AbsOf
  <2>2. y * z = p
    BY <1>2, <2>1
  <2> QED
    BY <1>1, <1>2, <1>3, <2>2 DEF AbsOf
<1>4. CASE y < 0 /\ ~(z < 0)
  <2>1. y = -a /\ z = b
    BY <1>1, <1>4 DEF AbsOf
  <2>2. y * z = -p
    BY <1>2, <2>1
  <2> QED
    BY <1>1, <1>2, <1>4, <2>2 DEF AbsOf
<1>5. CASE ~(y < 0) /\ z < 0
  <2>1. y = a /\ z = -b
    BY <1>1, <1>5 DEF AbsOf
  <2>2. y * z = -p
    BY <1>2, <2>1
  <2> QED
    BY <1>1, <1>2, <1>5, <2>2 DEF AbsOf
<1>6. CASE ~(y < 0) /\ ~(z < 0)
  <2>1. y = a /\ z = b
    BY <1>1, <1>6 DEF AbsOf
  <2>2. y * z = p
    BY <1>2, <2>1
  <2> QED
    BY <1>1, <1>2, <1>6, <2>2 DEF AbsOf
<1> QED
  BY <1>3, <1>4, <1>5, <1>6

\* The same for the division of C, whatever the signs.
LEMMA CDivOfCDiv ==
  ASSUME NEW x \in Int, NEW y \in Int, NEW z \in Int, y # 0, z # 0
  PROVE  CDiv(CDiv(x, y), z) = CDiv(x, y * z)
<1>1. PICK X \in Nat, Y \in Nat, Z \in Nat :
         X = AbsOf(x) /\ Y = AbsOf(y) /\ Z = AbsOf(z) /\ Y > 0 /\ Z > 0
  BY SignedProduct DEF AbsOf
<1>2. PICK w \in Int : w = y * z /\ AbsOf(w) = Y * Z /\ (w < 0 <=> ((y < 0) # (z < 0)))
  BY <1>1, SignedProduct
<1>3. PICK a \in Nat, c \in Nat : a = X \div Y /\ c = a \div Z /\ c = X \div (Y * Z)
  BY <1>1, QuotientOfQuotient
<1>4. PICK q \in Int : q = CDiv(x, y) /\ q = IF (x < 0) = (y < 0) THEN a ELSE -a
  BY <1>1, <1>3 DEF CDiv
<1>5. AbsOf(q) = a
  BY <1>4 DEF AbsOf
<1>6. CDiv(q, z) = IF (q < 0) = (z < 0) THEN c ELSE -c
  BY <1>1, <1>3, <1>5 DEF CDiv
<1>7. CDiv(x, w) = IF (x < 0) = (w < 0) THEN c ELSE -c
  BY <1>1, <1>2, <1>3 DEF CDiv
<1>8. CASE a = 0
  <2>1. c = 0
    BY <1>1, <1>3, <1>8, DivModFacts, QuotientIs
  <2> QED
    BY <1>2, <1>4, <1>6, <1>7, <2>1
<1>9. CASE a # 0
  <2>1. q < 0 <=> ((x < 0) # (y < 0))
    BY <1>4, <1>9
  <2>2. (q < 0) = (z < 0) <=> (x < 0) = (w < 0)
    BY <1>2, <2>1
  <2> QED
    BY <1>2, <1>4, <1>6, <1>7, <2>2
<1> QED
  BY <1>8, <1>9

\* A division leaves nothing exactly if the dividend is a multiple.
LEMMA LeavesNothing ==
  ASSUME NEW x \in Int, NEW y \in Int, y # 0
  PROVE  /\ CDiv(x, y) \in Int /\ CMod(x, y) \in Int
         /\ CMod(x, y) = 0 => x = y * CDiv(x, y)
         /\ \A q \in Int : x = y * q => CMod(x, y) = 0
<1>1. PICK X \in Nat, Y \in Nat : X = AbsOf(x) /\ Y = AbsOf(y) /\ Y > 0
  BY DEF AbsOf
<1>2. PICK a \in Int : a = X \div Y
  BY <1>1, DivModFacts
<1>3. CDiv(x, y) \in Int /\ CDiv(x, y) = IF (x < 0) = (y < 0) THEN a ELSE -a
  BY <1>1, <1>2 DEF CDiv
<1>4. PICK d \in Int : d = CDiv(x, y)
  BY <1>3
<1>5. PICK p \in Int : p = y * d /\ CMod(x, y) = x - p
  BY <1>4 DEF CMod
<1>6. ASSUME NEW q \in Int, x = y * q PROVE CMod(x, y) = 0
  <2>1. CASE q = 0
    <3>1. x = 0
      BY <1>6, <2>1
    <3>2. X = Y * 0 + 0 /\ X = 0
      BY <1>1, <3>1 DEF AbsOf
    <3>3. a = 0
      BY <1>1, <1>2, <3>2, QuotientIs
    <3>4. d = 0
      <4>1. PICK m \in Int : m = -a /\ (d = a \/ d = m)
        BY <1>3, <1>4
      <4> QED
        BY <3>3, <4>1
    <3>5. p = 0
      BY <1>5, <3>4
    <3> QED
      BY <1>5, <3>1, <3>5
  <2>2. CASE q # 0
    <3>1. /\ AbsOf(q) \in Nat /\ AbsOf(x) = AbsOf(y) * AbsOf(q)
          /\ x < 0 <=> ((y < 0) # (q < 0))
      BY <1>6, <2>2, SignedProduct
    <3>2. PICK b \in Nat : b = AbsOf(q) /\ X = Y * b
      BY <1>1, <3>1
    <3>3. X = Y * b + 0
      BY <3>2
    <3>4. a = b
      BY <1>1, <1>2, <3>3, QuotientIs
    <3>5. d = q
      BY <1>3, <1>4, <3>1, <3>2, <3>4 DEF AbsOf
    <3> QED
      BY <1>5, <1>6, <3>5
  <2> QED
    BY <2>1, <2>2
<1> QED
  BY <1>4, <1>5, <1>6

\* What a product of two numbers divides, each of them divides.
LEMMA FactorsDivide ==
  ASSUME NEW x \in Int, NEW y \in Int, NEW z \in Int, y # 0, z # 0, CMod(x, y * z) = 0
  PROVE  CMod(x, y) = 0 /\ CMod(x, z) = 0
<1>1. PICK w \in Int : w = y * z /\ w # 0
  BY SignedProduct
<1>2. PICK q \in Int : x = w * q
  BY <1>1, LeavesNothing
<1>3. /\ z * q \in Int /\ x = y * (z * q)
      /\ y * q \in Int /\ x = z * (y * q)
  BY <1>1, <1>2
<1> QED
  BY <1>3, LeavesNothing

\* What the division of fixed integers returns is a fixed integer, but for the
\* negative of the least one.
LEMMA FixQuotient ==
  ASSUME NEW x \in FixInts, NEW y \in FixInts, y # 0
  PROVE  /\ CMod(x, y) \in FixInts
         /\ ~(x = FIX_INT_MIN /\ y = -1) => CDiv(x, y) \in FixInts
<1>1. PICK h \in Nat : h = Base * Base /\ h > 0 /\ FixInts = -h .. h - 1 /\ FIX_INT_MIN = -h
  BY HalfFacts DEF FixInts, FIX_INT_MIN, FIX_INT_MAX
<1>2. x \in Int /\ y \in Int /\ -h <= x /\ x <= h - 1 /\ -h <= y /\ y <= h - 1
  BY <1>1
<1>3. PICK X \in Nat, Y \in Nat : /\ X = AbsOf(x) /\ Y = AbsOf(y) /\ Y > 0 /\ X <= h /\ Y <= h
                                  /\ X = h => x = -h
  BY <1>1, <1>2 DEF AbsOf
<1>4. PICK a \in Int, r \in Nat : a = X \div Y /\ r < Y /\ X = Y * a + r
  <2>1. X \div Y \in Int /\ X % Y \in Nat /\ X % Y < Y /\ X = Y * (X \div Y) + (X % Y)
    BY <1>3, DivModFacts
  <2>2. PICK a \in Int, r \in Nat : a = X \div Y /\ r = X % Y
    BY <2>1
  <2> QED
    BY <2>1, <2>2
<1>5. a >= 0
  <2> SUFFICES ASSUME a <= -1 PROVE FALSE
    OBVIOUS
  <2>1. -1 - a \in Nat /\ Y * a = -Y - Y * (-1 - a)
    BY <1>3
  <2>2. PICK p \in Nat, q \in Int : p = Y * (-1 - a) /\ q = Y * a
    BY <1>3, <2>1
  <2> QED
    BY <1>3, <1>4, <2>1, <2>2
<1>6. a <= X /\ (Y > 1 /\ X > 0 => a < X)
  <2>1. Y - 1 \in Nat /\ a \in Nat /\ Y * a = a + (Y - 1) * a
    BY <1>3, <1>5
  <2>2. PICK p \in Nat, q \in Int : p = (Y - 1) * a /\ q = Y * a
    BY <2>1
  <2>3. Y > 1 /\ a > 0 => p > 0
    <3> SUFFICES ASSUME Y > 1, a > 0 PROVE p > 0
      OBVIOUS
    <3>1. Y - 2 \in Nat /\ p = a + (Y - 2) * a /\ (Y - 2) * a \in Nat
      BY <1>3, <2>1, <2>2
    <3> QED
      BY <3>1
  <2>4. X = q + r /\ q = a + p
    BY <1>4, <2>1, <2>2
  <2> QED
    BY <1>5, <2>3, <2>4
<1>7. PICK d \in Int : d = CDiv(x, y) /\ d = IF (x < 0) = (y < 0) THEN a ELSE -a
  BY <1>3, <1>4 DEF CDiv
<1>8. ASSUME ~(x = FIX_INT_MIN /\ y = -1) PROVE d \in FixInts
  <2>1. CASE (x < 0) = (y < 0)
    <3>1. d = a
      BY <1>7, <2>1
    <3>2. a # h
      <4> SUFFICES ASSUME a = h PROVE FALSE
        OBVIOUS
      <4>1. X = h /\ Y <= 1
        BY <1>1, <1>3, <1>6
      <4>2. x = -h /\ y < 0 /\ Y = 1
        BY <1>1, <1>3, <2>1, <4>1
      <4>3. y = -1
        BY <1>2, <1>3, <4>2 DEF AbsOf
      <4> QED
        BY <1>1, <1>8, <4>2, <4>3
    <3> QED
      BY <1>1, <1>3, <1>5, <1>6, <3>1, <3>2
  <2>2. CASE ~((x < 0) = (y < 0))
    <3>1. d = -a
      BY <1>7, <2>2
    <3> QED
      BY <1>1, <1>3, <1>5, <1>6, <3>1
  <2> QED
    BY <2>1, <2>2
<1>9. CMod(x, y) \in {r, -r}
  <2>1. PICK p \in Int : p = Y * a /\ Y * (-a) = -p /\ (-Y) * a = -p /\ (-Y) * (-a) = p
    BY <1>3
  <2>2. X = p + r
    BY <1>4, <2>1
  <2>3. CMod(x, y) = x - y * d
    BY <1>7 DEF CMod
  <2>4. CASE x < 0 /\ y < 0
    <3>1. x = -X /\ y = -Y /\ d = a
      BY <1>2, <1>3, <1>7, <2>4 DEF AbsOf
    <3>2. y * d = -p
      BY <2>1, <3>1
    <3> QED
      BY <2>2, <2>3, <3>1, <3>2
  <2>5. CASE x < 0 /\ ~(y < 0)
    <3>1. x = -X /\ y = Y /\ d = -a
      BY <1>2, <1>3, <1>7, <2>5 DEF AbsOf
    <3>2. y * d = -p
      BY <2>1, <3>1
    <3> QED
      BY <2>2, <2>3, <3>1, <3>2
  <2>6. CASE ~(x < 0) /\ y < 0
    <3>1. x = X /\ y = -Y /\ d = -a
      BY <1>2, <1>3, <1>7, <2>6 DEF AbsOf
    <3>2. y * d = p
      BY <2>1, <3>1
    <3> QED
      BY <2>2, <2>3, <3>1, <3>2
  <2>7. CASE ~(x < 0) /\ ~(y < 0)
    <3>1. x = X /\ y = Y /\ d = a
      BY <1>2, <1>3, <1>7, <2>7 DEF AbsOf
    <3>2. y * d = p
      BY <2>1, <3>1
    <3> QED
      BY <2>2, <2>3, <3>1, <3>2
  <2> QED
    BY <2>4, <2>5, <2>6, <2>7
<1>10. r <= h - 1 /\ -h <= -r
  BY <1>3, <1>4
<1> QED
  BY <1>1, <1>7, <1>8, <1>9, <1>10

\* A copy is divided by a number that is not zero.
LEMMA CopyDivided ==
  ASSUME NEW a \in BigInts, NEW b \in BigInts, Value(b) # 0
  PROVE  LET t == fklSetBigInt(BIGINT_0, a)
         IN  /\ fklDivBigInt(t, b) \in BigInts /\ Growable(fklDivBigInt(t, b))
             /\ Value(fklDivBigInt(t, b)) = CDiv(Value(a), Value(b))
             /\ fklRemBigInt(t, b) \in BigInts
             /\ Value(fklRemBigInt(t, b)) = CMod(Value(a), Value(b))
<1>1. BIGINT_0 \in Buffers /\ Growable(BIGINT_0)
  BY BIGINT_0Facts DEF BigInts
<1>2. PICK t : /\ t = fklSetBigInt(BIGINT_0, a)
               /\ t \in BigInts /\ Growable(t) /\ Value(t) = Value(a)
  BY <1>1, CopyExact
<1>3. b.num # 0
  BY SignOfValue
<1> QED
  BY <1>2, <1>3, DivExact

\* The builtin % returns the remainder of two integers, fixed or big, and an
\* error if the divisor is zero.
THEOREM ModCallExact ==
  ASSUME NEW args, NEW x, Integers(args, x), Len(args) = 2
  PROVE  /\ x[2] = 0 => builtin_mod(args) = DIVZEROERROR
         /\ x[2] # 0 => Canonical(builtin_mod(args), CMod(x[1], x[2]))
<1>1. /\ x[1] \in Int /\ Canonical(args[1], x[1])
      /\ x[2] \in Int /\ Canonical(args[2], x[2])
  BY DEF Integers
<1>2. /\ IntegerOf(args[2]) = x[2]
      /\ args[1].tag = "fix" => args[1].i = x[1] /\ x[1] \in FixInts
      /\ args[2].tag = "fix" => args[2].i = x[2] /\ x[2] \in FixInts
      /\ ToBigInt(args[1]) \in BigInts /\ Value(ToBigInt(args[1])) = x[1]
      /\ ToBigInt(args[2]) \in BigInts /\ Value(ToBigInt(args[2])) = x[2]
  BY <1>1, CanonicalFacts DEF IntegerOf, ToBigInt
<1>3. CASE x[2] = 0
  BY <1>2, <1>3 DEF builtin_mod
<1>4. CASE x[2] # 0 /\ args[1].tag = "fix" /\ args[2].tag = "fix"
  <2>1. builtin_mod(args) = MAKE_VM_FIX(CMod(x[1], x[2]))
    BY <1>2, <1>4 DEF builtin_mod
  <2>2. CMod(x[1], x[2]) \in FixInts
    BY <1>2, <1>4, FixQuotient
  <2> QED
    BY <1>4, <2>1, <2>2, MakeFixExact
<1>5. CASE x[2] # 0 /\ ~(args[1].tag = "fix" /\ args[2].tag = "fix")
  <2>1. PICK r : /\ r = fklRemBigInt(fklSetBigInt(BIGINT_0, ToBigInt(args[1])), ToBigInt(args[2]))
                 /\ r \in BigInts /\ Value(r) = CMod(x[1], x[2])
    BY <1>2, <1>5, CopyDivided
  <2>2. builtin_mod(args) = Result(r)
    BY <1>2, <1>5, <2>1 DEF builtin_mod
  <2> QED
    BY <1>5, <2>1, <2>2, ResultExact
<1> QED
  BY <1>3, <1>4, <1>5

\* What IsZero and HasBig ask of what was gathered.
LEMMA DivisorFacts ==
  ASSUME NEW acc \in Accs
  PROVE  /\ acc.r64 \in FixInts /\ acc.r64 \in Int /\ BigFactor(acc) \in Int
         /\ acc.bi \in BigInts
         /\ IsZero(acc) <=> (acc.r64 = 0 \/ BigFactor(acc) = 0)
         /\ ~HasBig(acc) => BigFactor(acc) = 1
         /\ acc.bi.digits = <<>> => BigFactor(acc) = 1
         /\ acc.bi.digits # <<>> => BigFactor(acc) = Value(acc.bi)
<1>1. /\ acc.r64 \in FixInts /\ acc.bi \in BigInts /\ acc.bi \in Buffers
      /\ acc.bi.num \in Int /\ Value(acc.bi) \in Int
      /\ acc.bi.num = 0 <=> Value(acc.bi) = 0
  BY SignOfValue DEF Accs, BigInts
<1>2. acc.r64 \in Int
  BY <1>1 DEF FixInts
<1>3. IsOne(acc.bi) => Value(acc.bi) = 1
  <2>1. acc.bi.num = 1 => Size(acc.bi) = 1
    BY DEF Size, AbsOf
  <2> QED
    BY <1>1, <2>1, OneDigit DEF IsOne, Value
<1>4. BigFactor(acc) = IF acc.bi.digits = <<>> THEN 1 ELSE Value(acc.bi)
  BY DEF BigFactor
<1>5. IsZero(acc) <=> (acc.r64 = 0 \/ BigFactor(acc) = 0)
  BY <1>1, <1>4 DEF IsZero
<1>6. ~HasBig(acc) => BigFactor(acc) = 1
  BY <1>3, <1>4 DEF HasBig
<1> QED
  BY <1>1, <1>2, <1>4, <1>5, <1>6

\* A dividend is divided by the big factor first and by the small one then.
LEMMA DividedExact ==
  ASSUME NEW prev, NEW n \in Int, Canonical(prev, n), NEW acc \in Accs, ~IsZero(acc)
  PROVE  Canonical(Divided(prev, acc), CDiv(n, ProductOf(acc)))
<1>1. PICK r \in Int, y \in Int :
         /\ r = acc.r64 /\ y = BigFactor(acc) /\ r # 0 /\ y # 0
  BY DivisorFacts
<1>2. ToBigInt(prev) \in BigInts /\ Value(ToBigInt(prev)) = n
  BY CanonicalFacts
<1>3. BIGINT_0 \in Buffers /\ Growable(BIGINT_0)
  BY BIGINT_0Facts DEF BigInts
<1>4. PICK t : /\ t = fklSetBigInt(BIGINT_0, ToBigInt(prev))
               /\ t \in BigInts /\ Growable(t) /\ Value(t) = n
  BY <1>2, <1>3, CopyExact
<1>5. PICK b : /\ b = IF acc.bi.digits = <<>> THEN t ELSE fklDivBigInt(t, acc.bi)
               /\ b \in BigInts /\ Growable(b) /\ CDiv(Value(b), r) = CDiv(n, r * y)
  <2>1. CASE acc.bi.digits = <<>>
    <3>1. r * y = r
      BY <1>1, <2>1, DivisorFacts
    <3> QED
      BY <1>4, <2>1, <3>1
  <2>2. CASE acc.bi.digits # <<>>
    <3>1. acc.bi \in BigInts /\ Value(acc.bi) = y
      BY <1>1, <2>2, DivisorFacts
    <3>2. acc.bi.num # 0
      BY <1>1, <3>1, SignOfValue
    <3>3. PICK b : /\ b = fklDivBigInt(t, acc.bi)
                   /\ b \in BigInts /\ Growable(b) /\ Value(b) = CDiv(n, y)
      BY <1>4, <3>1, <3>2, DivExact
    <3>4. CDiv(CDiv(n, y), r) = CDiv(n, y * r)
      BY <1>1, CDivOfCDiv
    <3>5. y * r = r * y
      OBVIOUS
    <3> QED
      BY <2>2, <3>3, <3>4, <3>5
  <2> QED
    BY <2>1, <2>2
<1>6. OfI64(r) \in BigInts /\ Value(OfI64(r)) = r /\ OfI64(r).num # 0
  <2>1. OfI64(r) \in BigInts /\ Value(OfI64(r)) = r
    BY OfI64Exact
  <2> QED
    BY <1>1, <2>1, SignOfValue
<1>7. PICK d : /\ d = fklDivBigInt(b, OfI64(r))
               /\ d \in BigInts /\ Value(d) = CDiv(n, r * y)
  BY <1>5, <1>6, DivExact
<1>8. Divided(prev, acc) = Result(d)
  BY <1>1, <1>4, <1>5, <1>7 DEF Divided
<1>9. ProductOf(acc) = r * y
  BY <1>1 DEF ProductOf
<1> QED
  BY <1>7, <1>8, <1>9, ResultExact

\* What fklProcessVMnumIdivResult returns, in both representations.
LEMMA IdivResultExact ==
  ASSUME NEW prev, NEW n \in Int, Canonical(prev, n), NEW acc \in Accs, ~IsZero(acc),
         ~(n = FIX_INT_MIN /\ ProductOf(acc) = -1)
  PROVE  Canonical(fklProcessVMnumIdivResult(prev, acc), CDiv(n, ProductOf(acc)))
<1>1. CASE prev.tag = "big" \/ HasBig(acc)
  BY <1>1, DividedExact DEF fklProcessVMnumIdivResult
<1>2. CASE ~(prev.tag = "big" \/ HasBig(acc))
  <2>1. prev.tag = "fix" /\ prev.i = n /\ n \in FixInts
    BY <1>2, CanonicalFacts
  <2>2. PICK r \in FixInts : r = acc.r64 /\ r # 0 /\ r \in Int /\ BigFactor(acc) = 1
    BY <1>2, DivisorFacts
  <2>3. ProductOf(acc) = r
    <3>1. r * 1 = r
      BY <2>2
    <3> QED
      BY <2>2, <3>1 DEF ProductOf
  <2>4. fklProcessVMnumIdivResult(prev, acc) = MAKE_VM_FIX(CDiv(n, r))
    BY <1>2, <2>1, <2>2 DEF fklProcessVMnumIdivResult
  <2>5. CDiv(n, r) \in FixInts
    BY <2>1, <2>2, <2>3, FixQuotient
  <2> QED
    BY <2>3, <2>4, <2>5, MakeFixExact
<1> QED
  BY <1>1, <1>2

\* The first argument of a division and the product of the others.
LEMMA DivisorGathered ==
  ASSUME NEW args, NEW x, Integers(args, x), Len(args) >= 2,
         NEW s, Multiples(args, 2, x, s), ~ProductGoesWrong(args, 2)
  PROVE  LET acc == ProductFrom(args, 2)
         IN  /\ acc \in Accs /\ ProductOf(acc) = s[Len(args)]
             /\ x[1] \in Int /\ Canonical(args[1], x[1])
             /\ s[Len(args)] \in Int
             /\ IsZero(acc) <=> s[Len(args)] = 0
<1>1. Len(args) \in Nat /\ 2 \in 1 .. Len(args) + 1 /\ 1 \in 1 .. Len(args)
  BY DEF Integers
<1>2. PICK acc \in Accs : acc = ProductFrom(args, 2) /\ ProductOf(acc) = s[Len(args)]
  BY <1>1, ProductsExact
<1>3. PICK r \in Int, y \in Int : /\ r = acc.r64 /\ y = BigFactor(acc)
                                  /\ IsZero(acc) <=> (r = 0 \/ y = 0)
  BY DivisorFacts
<1>4. s[Len(args)] = r * y
  BY <1>2, <1>3 DEF ProductOf
<1>5. r * y \in Int /\ (r * y = 0 <=> (r = 0 \/ y = 0))
  <2>1. r * y \in Int /\ (r # 0 /\ y # 0 => r * y # 0)
    BY SignedProduct
  <2>2. r = 0 \/ y = 0 => r * y = 0
    OBVIOUS
  <2> QED
    BY <2>1, <2>2
<1> QED
  BY <1>1, <1>2, <1>3, <1>4, <1>5 DEF Integers

\* The builtin // returns the quotient of the first argument and the product of
\* the others, as C divides, for any number of fixed and big integers, and an
\* error if one of them is zero; the named exceptions aside.
THEOREM IdivCallExact ==
  ASSUME NEW args, NEW x, Integers(args, x), Len(args) >= 2,
         NEW s, Multiples(args, 2, x, s), ~ProductGoesWrong(args, 2),
         ~(x[1] = FIX_INT_MIN /\ s[Len(args)] = -1)
  PROVE  IF s[Len(args)] = 0
         THEN builtin_idiv(args) = DIVZEROERROR
         ELSE Canonical(builtin_idiv(args), CDiv(x[1], s[Len(args)]))
<1>1. PICK acc : acc = ProductFrom(args, 2)
  OBVIOUS
<1>2. /\ acc \in Accs /\ ProductOf(acc) = s[Len(args)]
      /\ x[1] \in Int /\ Canonical(args[1], x[1])
      /\ IsZero(acc) <=> s[Len(args)] = 0
  BY <1>1, DivisorGathered
<1>3. builtin_idiv(args) = Quotient(args[1], acc)
  BY <1>1 DEF builtin_idiv
<1>4. CASE IsZero(acc)
  BY <1>2, <1>3, <1>4 DEF Quotient
<1>5. CASE ~IsZero(acc)
  <2>1. builtin_idiv(args) = fklProcessVMnumIdivResult(args[1], acc)
    BY <1>3, <1>5 DEF Quotient
  <2> QED
    BY <1>2, <1>5, <2>1, IdivResultExact
<1> QED
  BY <1>4, <1>5

\* A remainder that fklProcessVMnumDivResult does not see: it never divides a
\* fixed integer by a big factor, and a big one by each factor in turn only.
Overlooked(prev, n, acc) ==
    /\ HasBig(acc)
    /\ prev.tag = "fix" \/ (CMod(n, BigFactor(acc)) = 0 /\ CMod(n, acc.r64) = 0)

\* What fklProcessVMnumDivResult returns, the overlooked remainders included.
LEMMA DivResultExact ==
  ASSUME NEW prev, NEW n \in Int, Canonical(prev, n), NEW acc \in Accs, ~IsZero(acc),
         ~(n = FIX_INT_MIN /\ ProductOf(acc) = -1)
  PROVE  IF CMod(n, ProductOf(acc)) = 0 \/ Overlooked(prev, n, acc)
         THEN Canonical(fklProcessVMnumDivResult(prev, acc), CDiv(n, ProductOf(acc)))
         ELSE fklProcessVMnumDivResult(prev, acc) = F64
<1>1. PICK r \in Int, y \in Int :
         /\ r = acc.r64 /\ y = BigFactor(acc) /\ r # 0 /\ y # 0
         /\ ~HasBig(acc) => y = 1
  BY DivisorFacts
<1>2. PICK p \in Int : p = ProductOf(acc) /\ p = r * y /\ p = y * r
  BY <1>1 DEF ProductOf
<1>3. ~HasBig(acc) => p = r
  BY <1>1, <1>2
<1>4. CMod(n, p) = 0 => CMod(n, y) = 0 /\ CMod(n, r) = 0
  BY <1>1, <1>2, FactorsDivide
<1>5. Canonical(fklProcessVMnumIdivResult(prev, acc), CDiv(n, p))
  BY <1>2, IdivResultExact
<1>6. CASE prev.tag = "fix"
  <2>1. prev.i = n
    BY <1>6, CanonicalFacts
  <2>2. fklProcessVMnumDivResult(prev, acc) =
           IF ~HasBig(acc) /\ CMod(n, r) # 0 THEN F64 ELSE fklProcessVMnumIdivResult(prev, acc)
    BY <1>1, <1>6, <2>1 DEF fklProcessVMnumDivResult
  <2> QED
    BY <1>2, <1>3, <1>4, <1>5, <1>6, <2>2 DEF Overlooked
<1>7. CASE prev.tag # "fix"
  <2>1. prev.tag = "big" /\ prev.bi \in BigInts /\ Value(prev.bi) = n
    BY <1>7, CanonicalFacts DEF ToBigInt
  <2>2. ASSUME NEW b \in BigInts, Value(b) # 0 PROVE Divisible(prev.bi, b) <=> CMod(n, Value(b)) = 0
    <3>1. PICK m : /\ m = fklRemBigInt(fklSetBigInt(BIGINT_0, prev.bi), b)
                   /\ m \in BigInts /\ Value(m) = CMod(n, Value(b))
      BY <2>1, <2>2, CopyDivided
    <3> QED
      BY <3>1, SignOfValue DEF Divisible
  <2>3. Divisible(prev.bi, OfI64(r)) <=> CMod(n, r) = 0
    BY <1>1, <2>2, OfI64Exact
  <2>4. HasBig(acc) => (Divisible(prev.bi, acc.bi) <=> CMod(n, y) = 0)
    <3> SUFFICES ASSUME HasBig(acc) PROVE Divisible(prev.bi, acc.bi) <=> CMod(n, y) = 0
      OBVIOUS
    <3>1. acc.bi \in BigInts /\ Value(acc.bi) = y
      BY <1>1, DivisorFacts DEF HasBig
    <3> QED
      BY <1>1, <2>2, <3>1
  <2>5. fklProcessVMnumDivResult(prev, acc) =
           IF \/ HasBig(acc) /\ CMod(n, y) # 0
              \/ CMod(n, r) # 0
           THEN F64 ELSE fklProcessVMnumIdivResult(prev, acc)
    BY <1>1, <2>1, <2>3, <2>4 DEF fklProcessVMnumDivResult
  <2> QED
    BY <1>1, <1>2, <1>3, <1>4, <1>5, <1>7, <2>5 DEF Overlooked
<1> QED
  BY <1>6, <1>7

\* What the builtin / returns for two and more fixed and big integers: the
\* quotient if the division leaves nothing, a floating point number if it leaves
\* something, an error if a divisor is zero, and the truncated quotient exactly
\* when the remainder is one that the code overlooks.
THEOREM DivCallExact ==
  ASSUME NEW args, NEW x, Integers(args, x), Len(args) >= 2,
         NEW s, Multiples(args, 2, x, s), ~ProductGoesWrong(args, 2),
         ~(x[1] = FIX_INT_MIN /\ s[Len(args)] = -1)
  PROVE  LET n == x[1]
             p == s[Len(args)]
         IN  IF p = 0 THEN builtin_div(args) = DIVZEROERROR
             ELSE IF CMod(n, p) = 0 \/ Overlooked(args[1], n, ProductFrom(args, 2))
             THEN Canonical(builtin_div(args), CDiv(n, p))
             ELSE builtin_div(args) = F64
<1>1. PICK acc : acc = ProductFrom(args, 2)
  OBVIOUS
<1>2. /\ acc \in Accs /\ ProductOf(acc) = s[Len(args)]
      /\ x[1] \in Int /\ Canonical(args[1], x[1])
      /\ IsZero(acc) <=> s[Len(args)] = 0
  BY <1>1, DivisorGathered
<1>3. builtin_div(args) = Ratio(args[1], acc)
  <2>1. Len(args) # 1
    BY DEF Integers
  <2> QED
    BY <1>1, <2>1 DEF builtin_div
<1>4. CASE IsZero(acc)
  BY <1>2, <1>3, <1>4 DEF Ratio
<1>5. CASE ~IsZero(acc)
  <2>1. builtin_div(args) = fklProcessVMnumDivResult(args[1], acc)
    BY <1>3, <1>5 DEF Ratio
  <2> QED
    BY <1>1, <1>2, <1>5, <2>1, DivResultExact
<1> QED
  BY <1>4, <1>5

\* The builtin / of one argument is its reciprocal: an integer for 1 and -1 only.
THEOREM RecExact ==
  ASSUME NEW args, NEW x, Integers(args, x), Len(args) = 1
  PROVE  /\ x[1] = 0 => builtin_div(args) = DIVZEROERROR
         /\ x[1] \in {1, -1} => Canonical(builtin_div(args), x[1])
         /\ x[1] \notin {0, 1, -1} => builtin_div(args) = F64
<1>1. x[1] \in Int /\ Canonical(args[1], x[1])
  BY DEF Integers
<1>2. IntegerOf(args[1]) = x[1]
  BY <1>1, CanonicalFacts DEF IntegerOf, ToBigInt
<1>3. builtin_div(args) = fklProcessVMnumRec(args[1])
  BY DEF builtin_div
<1>4. ASSUME x[1] \in {1, -1} PROVE x[1] \in FixInts
  BY <1>4, HalfFacts DEF FixInts, FIX_INT_MIN, FIX_INT_MAX
<1> QED
  BY <1>2, <1>3, <1>4, MakeFixExact DEF fklProcessVMnumRec

-----------------------------------------------------------------------------
(* Calls of the builtins 1+ and -1+. *)

\* The next fixed integer, or the first big one.
THEOREM AddkExact ==
  ASSUME NEW v, NEW n \in FixInts, Canonical(v, n), NEW k \in {1, -1}
  PROVE  Canonical(fklProcessVMnumAddk(v, k), n + k)
<1>1. v = [tag |-> "fix", i |-> n] /\ n \in Int /\ k \in Int
  BY DEF Canonical, FixInts
<1>2. v.tag = "fix" /\ v.i = n
  BY <1>1
<1>3. CASE n + k \in FixInts
  <2>1. fklProcessVMnumAddk(v, k) = MAKE_VM_FIX(n + k)
    BY <1>2, <1>3 DEF fklProcessVMnumAddk, FixInts
  <2> QED
    BY <1>3, <2>1, MakeFixExact
<1>4. CASE n + k \notin FixInts
  <2>1. fklProcessVMnumAddk(v, k) = VMbigInt(OfI64(n + k))
    BY <1>2, <1>4 DEF fklProcessVMnumAddk, FixInts
  <2>2. n + k \in Int
    BY <1>1
  <2>3. OfI64(n + k) \in BigInts /\ Value(OfI64(n + k)) = n + k
    BY <2>2, OfI64Exact
  <2>4. /\ VMbigInt(OfI64(n + k)).tag = "big" /\ VMbigInt(OfI64(n + k)).bi \in BigInts
        /\ Value(VMbigInt(OfI64(n + k)).bi) = n + k
    BY <2>3, VMbigIntExact
  <2> QED
    BY <1>4, <2>1, <2>4 DEF Canonical
<1> QED
  BY <1>3, <1>4

=============================================================================
