------------------------------- MODULE MCLang -------------------------------
(***************************************************************************)
(* The programs VMexec is checked on: every combination of a way to bind a *)
(* variable, a way to capture it and something that uses its slot again,   *)
(* the loops and tail calls that capture, the small nests of tests and     *)
(* constants the optimizer rewrites, and errors with who catches them.     *)
(***************************************************************************)
EXTENDS VMexec

\* F of every combination, as a sequence.
Every2(A, B, F(_, _)) ==
  [k \in 1..(Len(A) * Len(B)) |->
     F(A[(k - 1) \div Len(B) + 1], B[((k - 1) % Len(B)) + 1])]
Every3(A, B, C, F(_, _, _)) ==
  FlattenSeq([i \in DOMAIN A |-> Every2(B, C, LAMBDA b, c : F(A[i], b, c))])
Map(A, F(_)) == [i \in DOMAIN A |-> F(A[i])]

N(n) == <<"num", n>>
V(x) == <<"var", x>>
None == <<"nil">>
Lam(xs) == <<"lambda", <<>>, xs>>
Set(x, v) == <<"setq", x, v>>
Def(x, v) == <<"define", x, v>>
Begin(xs) == <<"begin", xs>>
Run(f) == <<"call", <<f>>>>
Pair(a, b) == <<"prim", "PUSH_PAIR", <<a, b>>>>
Inc(x) == <<"addk", 1, x>>
Eqn(a, b) == <<"prim", "EQN", <<a, b>>>>
Not(a) == <<"prim", "NOT", <<a>>>>
If3(c, a, b) == <<"if", c, a, b>>

-----------------------------------------------------------------------------
(* Captures: x is bound in a scope that ends.                              *)

\* Ways to bind x around xs.
Binders(xs) ==
  << <<"let", <<"x">>, <<N(1)>>, xs>>,
     <<"let", <<"w", "x">>, <<N(8), N(1)>>, xs>>,
     <<"let*", <<"w", "x">>, <<N(1), V("w")>>, xs>>,
     <<"local", <<Def("x", N(1))>> \o xs>>,
     <<"local", <<Def("w", N(8)), Def("x", N(1))>> \o xs>>,
     <<"when", <<N(1), Def("x", N(1))>> \o xs>>,
     <<"unless", <<None, Def("x", N(1))>> \o xs>>,
     <<"cond", << <<V("n"), N(7)>>, <<Def("x", N(1))>> \o xs, <<N(1), N(7)>> >> >>,
     <<"do", << <<"x", N(1)>>, <<"i", N(0), Inc(V("i"))>> >>,
             Eqn(V("i"), N(1)), <<V("i")>>, xs>>,
     <<"call", << <<"lambda", <<"x">>, xs>>, N(1)>> >>,
     <<"nlet", "loop", <<"x">>, <<N(1)>>, xs>> >>

\* Ways to capture it in f, or in f and h.
Captures ==
  << <<Set("f", Lam(<<V("x")>>))>>,
     <<Set("f", Lam(<<Set("x", Inc(V("x")))>>))>>,
     <<Set("f", Run(Lam(<<Lam(<<Set("x", Inc(V("x")))>>)>>)))>>,
     <<Set("f", Lam(<<V("x")>>)), Set("x", N(3))>>,
     <<Set("h", Lam(<<V("x")>>)), Set("f", Lam(<<Set("x", Inc(V("x")))>>))>>,
     <<Set("f", Lam(<<Set("x", V("n"))>>)), Run(V("f"))>>,
     << <<"let", <<"v">>, <<V("x")>>,
           <<Set("f", Lam(<<Pair(V("v"), Set("v", V("x")))>>)), Set("x", N(4))>> >> >>,
     <<Def("v", N(2)), Set("h", Lam(<<Set("v", V("x"))>>)),
       Set("f", Lam(<<Run(V("h")), V("v")>>))>>,
     <<Set("f", Lam(<<V("u")>>)), Def("u", N(6))>> >>

\* What runs in the slots afterwards.
Reuses ==
  << None,
     <<"let", <<"y", "z">>, <<N(5), N(6)>>, <<Set("y", V("z"))>> >>,
     <<"local", <<Def("y", N(5)), Set("h", Lam(<<Set("y", N(6))>>)), Run(V("h"))>> >>,
     <<"do", << <<"y", N(0), Inc(V("y"))>>, <<"z", N(9)>> >>,
             Eqn(V("y"), N(2)), <<>>, <<Set("z", V("y"))>> >>,
     <<"cond", << <<Def("y", None), N(7)>>, <<Def("z", N(5)), V("z")>>, <<N(1)>> >> >> >>

\* Where all this is: in the file, or in a procedure with variables of its own.
Contexts(xs) ==
  LET own == <<Def("n", None), Def("f", None), Def("h", None)>>
      end == <<Pair(Run(V("f")), Run(V("f")))>>
      all == own \o xs \o end
  IN << all,
        <<Def("g", <<"lambda", <<"a", "b">>, all>>),
          <<"call", <<V("g"), N(8), N(9)>> >> >>,
        own \o <<Run(Lam(xs))>> \o end >>

CapturePrograms ==
  FlattenSeq(Every2(Captures, Reuses, LAMBDA c, r :
    FlattenSeq(Map(Binders(c), LAMBDA b : Contexts(<<b, r>>)))))

-----------------------------------------------------------------------------
(* Loops and tail calls whose body captures a variable of the iteration.   *)

Keep(x) == Begin(<<Set("h", V("f")), Set("f", Lam(<<Set(x, Inc(V(x)))>>))>>)

DoLoops ==
  << <<"do", << <<"i", N(0), Inc(V("i"))>> >>, Eqn(V("i"), N(3)), <<N(0)>>,
             << <<"let", <<"x">>, <<V("i")>>, <<Keep("x")>> >> >> >>,
     <<"do", << <<"i", N(0), Inc(V("i"))>> >>, Eqn(V("i"), N(3)), <<>>,
             << <<"when", <<Def("x", V("i")), Keep("x")>> >> >> >>,
     <<"do", << <<"i", N(0)>> >>, Eqn(V("i"), N(3)), <<N(0)>>,
             <<Keep("i"), Run(V("f"))>> >>,
     Begin(<<Def("i", N(0)),
             <<"do0", Eqn(V("i"), N(2)), <<V("i")>>,
               << <<"local", <<Def("x", V("i")), Keep("x")>> >>,
                  Set("i", Inc(V("i")))>> >> >>),
     Begin(<<Def("i", N(0)),
             <<"nlet", "loop", <<>>, <<>>,
               << <<"let", <<"x">>, <<V("i")>>, <<Keep("x")>> >>,
                  Set("i", Inc(V("i"))),
                  If3(Eqn(V("i"), N(3)), N(0), Run(V("loop")))>> >> >>) >>

\* Ways to call the loop again, as the last thing it does.
Again ==
  << <<"call", <<V("loop"), Inc(V("i"))>> >>,
     <<"let", <<"k">>, <<Inc(V("i"))>>,
        << <<"call", <<V("loop"), V("k")>> >> >> >>,
     <<"local", <<Def("k", Inc(V("i"))), Set("h", Lam(<<Set("k", Inc(V("k")))>>)),
                  <<"call", <<V("loop"), V("k")>> >> >> >> >>
Lasts(a) ==
  LET done == Eqn(V("i"), N(2))
  IN << If3(done, N(0), a),
        <<"cond", << <<done, N(0)>>, <<N(1), a>> >> >>,
        <<"cond", << <<Not(done), a>>, <<N(1), N(0)>> >> >>,
        <<"when", <<Not(done), a>> >>,
        <<"or", <<done, a>> >>,
        <<"unless", <<done, Def("y", V("i")), Set("h", Lam(<<V("y")>>)), a>> >> >>
NamedLets ==
  Every2(FlattenSeq(Map(Again, Lasts)),
         <<Keep("i"), <<"let", <<"x">>, <<V("i")>>, <<Keep("x")>> >> >>,
         LAMBDA last, body : <<"nlet", "loop", <<"i">>, <<N(0)>>, <<body, last>> >>)

LoopPrograms ==
  FlattenSeq(Map(DoLoops \o NamedLets, LAMBDA l :
    LET all == <<Def("f", None), Def("h", None), l,
                 Pair(Run(V("f")), Pair(Run(V("h")), Run(V("f"))))>>
    IN <<all, <<Run(Lam(all))>> >>))

-----------------------------------------------------------------------------
(* Tests: nests of two forms over a, b, c and constants, in a procedure.   *)

Tests0 == <<None, N(1), V("a"), V("b"), Not(V("a")), Not(Not(V("b"))),
            Eqn(V("a"), N(1))>>
Forms(T, X, y) ==
  FlattenSeq(Every2(T, X, LAMBDA t, x :
    << If3(t, x, y), If3(t, y, x), <<"if0", t, x>>, <<"when", <<t, N(3), x>> >>,
       <<"unless", <<t, x>> >>, <<"and", <<t, x>> >>, <<"or", <<t, x, V("b")>> >>,
       <<"cond", << <<t, x>>, <<y>>, <<N(1), N(4)>> >> >> >>))
Inner == Forms(<<V("a"), Not(V("b")), None>>, <<Set("a", Inc(V("c")))>>, Not(V("a")))
Bodies == Forms(Tests0, <<V("b"), Set("c", Inc(V("c")))>>, Set("c", V("a")))
          \o Forms(Inner, <<V("b")>>, N(2))
          \o Forms(<<Not(Not(Not(V("a"))))>>, Inner, N(2))
          \o Map(Inner, Not)
TestPrograms ==
  Map(Bodies, LAMBDA x :
    LET Both(a, b) == Pair(<<"call", <<V("t"), a, b, N(5)>> >>,
                           <<"call", <<V("s"), a, b, N(5)>> >>)
    IN <<Def("t", <<"lambda", <<"a", "b", "c">>, <<Def("r", x), Pair(V("r"), V("c"))>> >>),
         Def("s", <<"lambda", <<"a", "b", "c">>, <<x>> >>),
         Pair(Both(N(1), None), Pair(Both(None, N(1)), Both(None, None)))>>)

-----------------------------------------------------------------------------
(* Constants, assignments and errors.                                      *)

Consts == <<N(0), N(1), N(2)>>
Arith == Every3(<<"ADD", "SUB">>, Consts, Consts \o <<None>>,
                LAMBDA op, x, y : <<"prim", op, <<x, y>> >>)
         \o Map(Consts \o <<None>>, LAMBDA y : <<"prim", "IDIV", <<N(0), y>> >>)
         \o Every2(Consts, <<N(1), N(2), V("z")>>,
                   LAMBDA x, y : <<"prim", "IDIV", <<x, y>> >>)
Assigns ==
  << Begin(<<Set("y", V("z")), V("z")>>), Begin(<<Set("z", V("z")), V("y")>>),
     Begin(<<Set("y", Inc(V("y"))), V("y")>>),
     Run(Lam(<<Set("y", V("z")), V("z")>>)),
     Run(Lam(<<Set("y", V("y")), Set("z", V("y"))>>)),
     Begin(<<Run(Lam(<<Set("y", Lam(<<V("p")>>))>>)), Def("p", N(5)), Run(V("y"))>>),
     Begin(<<Def("d", Lam(<<Pair(V("y"), V("p"))>>)), Def("p", N(5)), Run(V("d"))>>) >>
Errors ==
  << Run(Lam(<<Set("q", N(1))>>)), Run(Lam(<<V("q")>>)),
     Run(Lam(<<Set("q", V("z"))>>)), Run(Lam(<<Set("z", V("q"))>>)),
     Run(V("z")), Inc(None), Begin(<<Set("z", None), Set("z", Inc(V("z")))>>),
     Run(Lam(<<Run(V("z"))>>)), <<"call", <<Lam(<<N(1)>>), N(2)>> >> >>
ArithPrograms ==
  Map(Arith \o Map(Arith, Inc) \o Map(Arith, Not)
      \o Map(Arith, LAMBDA x : If3(x, N(1), N(2)))
      \o Map(Arith, LAMBDA x : Set("y", x)) \o Assigns \o Errors,
      LAMBDA x : <<Def("z", N(0)), Def("y", N(3)), x>>)

-----------------------------------------------------------------------------
(* Errors: a procedure binds and captures variables and fails, in the       *)
(* middle of a call or not; somebody catches it, or nobody does.            *)

B(name, args) == <<"call", << <<"builtin", name>> >> \o args>>
Types(ts) == <<"quote", <<"list", [i \in DOMAIN ts |-> <<"sym", ts[i]>>]>> >>
Handler(xs) == <<"lambda", <<"e">>, xs>>

Fails ==
  << N(2), Inc(None), Run(V("x")), Run(Lam(<<V("q")>>)),
     <<"prim", "IDIV", <<V("x"), N(0)>> >>, <<"call", <<Lam(<<N(1)>>), V("x")>> >>,
     B("raise", <<B("pcall", <<Lam(<<Inc(None)>>)>>)>>) >>
BadCalls ==
  << B("raise", <<>>), B("raise", <<N(1)>>), B("pcall", <<>>), B("pcall", <<N(1)>>),
     B("xpcall", <<Lam(<<N(1)>>), N(1)>>), B("xpcall", <<Lam(<<N(1)>>), None>>), B("xpcall", <<Lam(<<N(1)>>), None, N(1)>>) >>

\* Procedures without arguments in which the failure x happens.
Failing(x) ==
  LET inc == Set("f", Lam(<<Set("x", Inc(V("x")))>>))
  IN << Lam(<<Def("x", N(1)), inc, x>>),
        Lam(<< <<"let", <<"w", "x">>, <<N(8), N(1)>>,
                 <<inc, <<"call", <<Lam(<<N(4)>>), N(6), x>> >> >> >> >>),
        Lam(<<Def("x", N(1)), inc,
              <<"nlet", "loop", <<"i">>, <<N(0)>>,
                << Set("h", Lam(<<V("i")>>)),
                   If3(Eqn(V("i"), N(1)), Pair(V("i"), x),
                       <<"call", <<V("loop"), Inc(V("i"))>> >>)>> >> >>) >>

\* Who catches it.
Catchers(p) ==
  LET seen == Handler(<<Def("y", N(5)), Set("n", V("e")), Pair(V("y"), V("e"))>>)
      again == Handler(<<Def("y", N(5)), Set("h", Lam(<<V("y")>>)), B("raise", <<V("e")>>)>>)
  IN << Run(p), B("pcall", <<p>>), B("xpcall", <<p>>), B("xpcall", <<p, None, seen>>),
        B("xpcall", <<p, Types(<<"type-error">>), Handler(<<N(1)>>),
                      Types(<<"call-error", "symbol-error">>), seen>>),
        B("pcall", <<Lam(<<Def("y", N(5)), Set("h", Lam(<<V("y")>>)),
            B("xpcall", <<p, Types(<<"call-error">>), seen>>)>>)>>),
        B("pcall", <<Lam(<<Pair(N(6), B("xpcall", <<p, None, again>>))>>)>>),
        B("xpcall", <<Lam(<<Pair(N(6), B("xpcall", <<p, Types(<<"type-error">>), again>>))>>),
                      None, Handler(<<V("e")>>)>>),
        B("pcall", << <<"builtin", "xpcall">>, p, None, <<"builtin", "raise">> >>),
        B("pcall", << <<"builtin", "pcall">>, p>>) >>

Thrown == FlattenSeq(Map(Fails, Failing)) \o Map(BadCalls, LAMBDA x : Failing(x)[2])

\* The catcher is in the file, or in a procedure of a procedure.
Own == <<Def("n", None), Def("f", Lam(<<N(7)>>)), Def("h", Lam(<<N(7)>>))>>
After == <<"let", <<"y", "z">>, <<N(5), N(6)>>,
           <<Pair(Run(V("f")), Pair(Run(V("f")), Run(V("h"))))>> >>
ErrorPrograms ==
  FlattenSeq(Map(Thrown, LAMBDA p : Map(Catchers(p), LAMBDA c :
    Own \o <<Def("r", c), Pair(V("n"), Pair(V("r"), After))>>)))
  \o FlattenSeq(Map(Fails, LAMBDA x : Map(Catchers(Failing(x)[1]), LAMBDA c :
       <<Run(Lam(Own \o <<Run(Lam(<<c>>)), After>>))>>)))

-----------------------------------------------------------------------------
(* The programs of tests/test-loc.fkl, with numbers for strings, in the file *)
(* and in a procedure.                                                       *)

Proc(xs) == <<"lambda", <<>>, xs>>
Letrec(ids, vals, xs) == <<"letrec", ids, vals, xs>>
Local(xs) == <<"local", xs>>
TestLoc ==
  << <<Def("f1", Proc(<<Def("f2", Proc(<<Def("f3", Proc(<<V("a")>>)), Def("r", V("a")),
                                         Def("a", N(3)), Pair(V("r"), Run(V("f3")))>>)),
                        Def("a", N(2)), Run(V("f2"))>>)),
       Run(V("f1"))>>,
     <<Def("f1", None), Def("f2", None),
       Def("f3", <<"lambda", <<"a">>,
             <<Set("f1", <<"lambda", <<"x">>,
                           <<Def("t", V("a")), Set("a", V("x")), V("t")>> >>),
               Set("f2", Lam(<<V("a")>>))>> >>),
       <<"call", <<V("f3"), N(10)>> >>,
       Pair(Run(V("f2")), Pair(<<"call", <<V("f1"), N(9)>> >>, Run(V("f2"))))>>,
     <<Def("f", N(0)), Local(<<Def("f", Lam(<<V("f")>>)), Run(V("f"))>>)>>,
     <<Def("f", N(0)), Letrec(<<"f">>, <<Lam(<<V("f")>>)>>, <<Run(V("f"))>>)>>,
     <<Def("f", N(0)),
       Letrec(<<"a", "f">>, <<N(7), Lam(<<V("f")>>)>>, <<Pair(V("a"), Run(V("f")))>>)>>,
     <<Def("f1", Proc(<<
         Local(<<Def("f2", Proc(<<V("a")>>)), Def("a", N(2)), Run(V("f2"))>>),
         Local(<<Def("f3", None), Local(<<Set("f3", Lam(<<V("a")>>))>>),
                 Def("a", N(3)), Run(V("f3"))>>),
         Def("f4", None), Local(<<Set("f4", Lam(<<V("a")>>))>>),
         Def("a", N(4)), Run(V("f4"))>>)),
       Run(V("f1"))>> >>
TestLocPrograms == TestLoc \o Map(TestLoc, LAMBDA xs : <<Run(Lam(xs))>>)

MCPrograms == CapturePrograms \o LoopPrograms \o TestPrograms \o ArithPrograms
              \o ErrorPrograms \o TestLocPrograms

-----------------------------------------------------------------------------
(* Programs the code gets wrong, one cause each.                           *)

\* A branch of if ends without CLOSE_REF: y gets the slot of x, which f has.
BranchNotClosed ==
  << Def("g", <<"lambda", <<"c">>,
       << Def("f", None),
          If3(V("c"), Begin(<<Def("x", N(1)), Set("f", Lam(<<V("x")>>))>>), N(0)),
          Def("y", N(5)), Run(V("f")) >> >>),
     <<"call", <<V("g"), N(1)>> >> >>

\* The values of a letrec are compiled before its variables have slots: t and
\* a get the same one.
LetrecSlots ==
  << <<"letrec", <<"a", "b">>, <<N(1), <<"let", <<"t">>, <<N(2)>>, <<V("t")>> >> >>,
       <<Pair(V("a"), V("b"))>> >> >>

\* A slot referenced before its definition is not marked: it is never closed.
PreDefNotMarked ==
  << Def("g", <<"lambda", <<"a">>,
       << Def("h", <<"letrec", <<"f", "x">>, <<Lam(<<V("x")>>), N(1)>>, <<V("f")>> >>),
          <<"let", <<"y", "z">>, <<N(5), N(6)>>, <<Run(V("h"))>> >> >> >>),
     <<"call", <<V("g"), N(0)>> >> >>

\* A definition inside the value of a let takes the slot of the let's variable.
DefineInLetValue ==
  << Def("g", <<"lambda", <<"a">>,
       << <<"let", <<"b">>, <<Begin(<<Def("c", N(1)), N(2)>>)>>,
            <<Pair(V("b"), V("c"))>> >> >> >>),
     <<"call", <<V("g"), N(0)>> >> >>

\* The optimizer takes the get of w for a get of z.
RefsConfused ==
  << Def("z", N(1)), Def("y", N(2)), Def("w", N(3)),
     Run(Lam(<<V("z"), Set("y", V("z")), V("w")>>)) >>

\* A division by zero is folded, and kills the compiler.
FoldedByZero == << <<"prim", "IDIV", <<N(5), N(0)>> >> >>

ScopeDefects == <<BranchNotClosed, LetrecSlots, PreDefNotMarked, DefineInLetValue>>
OptimizerDefects == <<RefsConfused, FoldedByZero>>
=============================================================================
