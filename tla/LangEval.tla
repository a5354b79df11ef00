------------------------------ MODULE LangEval ------------------------------
(***************************************************************************)
(* What a program of the expression language of CodeGen means, stated      *)
(* without slots, references or byte code: a scope is a table of its       *)
(* variables with a pointer to the scope around it, a procedure remembers  *)
(* the scope it was made in, and a name means the variable of the nearest  *)
(* scope that has one when the name is evaluated.  It is the reference     *)
(* definition the byte code machine VMexec is checked against; the scopes  *)
(* are the ones the tests of the repository (tests/test-loc.fkl) describe. *)
(***************************************************************************)
EXTENDS LangValue, FiniteSets, SequencesExt

\* The first handler for an error of type t: its place among the arguments of
\* the xpcall, or 0.
HandlerFor(vs, t) ==
  LET fit == {i \in 2..Len(vs) : i % 2 = 0 /\ ShouldHandle(vs[i], t)}
  IN IF fit = {} THEN 0 ELSE Min(fit) + 1

\* A result as the reader of the program sees it: procedures are opaque.
RECURSIVE Shown(_)
Shown(v) == CASE v[1] = "p" -> <<"p">>
              [] v[1] = "box" -> <<"box", Shown(v[2])>>
              [] v[1] = "list" -> <<"list", [i \in DOMAIN v[2] |-> Shown(v[2][i])]>>
              [] v[1] = "c" -> <<"c", Shown(v[2]), Shown(v[3])>>
              [] OTHER -> v

-----------------------------------------------------------------------------
(* st is the sequence of scopes made so far; R pairs a value with it.      *)

R(v, st) == [v |-> v, st |-> st]
NewScopeOf(st, up) == Append(st, [up |-> up, vars |-> <<>>])
Bind(st, s, x, v) ==
  [st EXCEPT ![s].vars = (x :> v) @@ @]
BindAll(st, s, xs, vs) ==
  FoldLeft(LAMBDA acc, i : Bind(acc, s, xs[i], vs[i]), st,
           [i \in DOMAIN xs |-> i])

RECURSIVE ScopeOf(_, _, _)
ScopeOf(st, s, x) ==
  IF s = 0 \/ x \in DOMAIN st[s].vars THEN s ELSE ScopeOf(st, st[s].up, x)

RECURSIVE Eval(_, _, _), EvalList(_, _, _), EvalSeq(_, _, _, _),
          EvalUntil(_, _, _, _, _), EvalCond(_, _, _, _),
          EvalLoop(_, _, _, _, _, _), Apply(_, _, _),
          ApplyBuiltin(_, _, _), EvalLet(_, _, _),
          EvalLetrec(_, _, _), EvalNamedLet(_, _, _), EvalDo(_, _, _)

\* The values of a list of expressions, as <<"list", values>>, or an error.
EvalList(xs, s, st) ==
  IF xs = <<>> THEN R(<<"list", <<>>>>, st)
  ELSE LET h == Eval(Head(xs), s, st)
           t == EvalList(Tail(xs), s, h.st)
       IN IF IsErr(h.v) THEN h ELSE IF IsErr(t.v) THEN t
          ELSE R(<<"list", <<h.v>> \o t.v[2]>>, t.st)

\* The value of the last of them.
EvalSeq(xs, s, st, last) ==
  IF xs = <<>> THEN R(last, st)
  ELSE LET h == Eval(Head(xs), s, st)
       IN IF IsErr(h.v) THEN h ELSE EvalSeq(Tail(xs), s, h.st, h.v)

\* and, or: up to the first value that is nil, or is not.
EvalUntil(xs, s, st, last, stopAtNil) ==
  IF xs = <<>> THEN R(last, st)
  ELSE LET h == Eval(Head(xs), s, st)
       IN IF IsErr(h.v) \/ (h.v = Nil) = stopAtNil THEN h
          ELSE EvalUntil(Tail(xs), s, h.st, h.v, stopAtNil)

EvalCond(clauses, s, st, last) ==
  IF clauses = <<>> THEN R(last, st)
  ELSE LET in == NewScopeOf(st, s)
           c == Head(clauses)
           t == Eval(c[1], Len(in), in)
       IN IF IsErr(t.v) THEN t
          ELSE IF t.v = Nil THEN EvalCond(Tail(clauses), s, t.st, Nil)
          ELSE EvalSeq(Tail(c), Len(in), t.st, t.v)

\* do: the loop variables belong to one scope for all the iterations.
EvalLoop(c, val, xs, steps, s, st) ==
  LET t == Eval(c, s, st)
      body == EvalSeq(xs, s, t.st, Nil)
      next == FoldLeft(LAMBDA acc, b :
                IF IsErr(acc.v) THEN acc
                ELSE LET v == Eval(b[3], s, acc.st)
                     IN IF IsErr(v.v) THEN v ELSE R(Nil, Bind(v.st, s, b[1], v.v)),
                body, steps)
  IN IF IsErr(t.v) THEN t
     ELSE IF t.v # Nil THEN EvalSeq(val, s, t.st, t.v)
     ELSE IF IsErr(next.v) THEN next
     ELSE EvalLoop(c, val, xs, steps, s, next.st)

\* pcall gives a box with the value, or the error; xpcall the value, or what
\* the first handler for the error makes of it.  What ran before the error
\* stays done.
ApplyBuiltin(name, vs, st) ==
  LET r == Apply(vs[1], IF name = "pcall" THEN Tail(vs) ELSE <<>>, st)
      h == HandlerFor(vs, r.v[2])
  IN IF BadArgs(name, vs) # Nil THEN R(BadArgs(name, vs), st)
     ELSE IF name = "raise" THEN R(Err(vs[1][2]), st)
     ELSE IF name = "pcall"
     THEN R(IF IsErr(r.v) THEN ErrorValue(r.v) ELSE <<"box", r.v>>, r.st)
     ELSE IF ~IsErr(r.v) THEN r
     ELSE IF h = 0 THEN r ELSE Apply(vs[h], <<ErrorValue(r.v)>>, r.st)

Apply(f, vs, st) ==
  LET in == NewScopeOf(st, f[4])
      s == Len(in)
  IN CASE f[1] = "cp" -> ApplyBuiltin(f[2], vs, st)
       [] f[1] = "p" /\ Len(vs) = Len(f[2]) ->
            EvalSeq(f[3], s, BindAll(in, s, f[2], vs), Nil)
       [] f[1] = "p" /\ Len(vs) # Len(f[2]) -> R(Err("arg-error"), st)
       [] OTHER -> R(Err("call-error"), st)

\* let: the values are those of the outer scope.
EvalLet(x, s, st) ==
  LET vs == EvalList(x[3], s, st)
      in == NewScopeOf(vs.st, s)
  IN IF IsErr(vs.v) THEN vs
     ELSE EvalSeq(x[4], Len(in), BindAll(in, Len(in), x[2], vs.v[2]), Nil)

\* let*: each value sees the variables before it.
RECURSIVE EvalLetStar(_, _, _, _, _)
EvalLetStar(ids, vals, xs, s, st) ==
  LET v == Eval(vals[1], s, st)
      c == Len(v.st) + 1
      in == Bind(NewScopeOf(v.st, s), c, ids[1], v.v)
  IN IF IsErr(v.v) THEN v
     ELSE IF Len(ids) = 1 THEN EvalSeq(xs, c, in, Nil)
     ELSE EvalLetStar(Tail(ids), Tail(vals), xs, c, in)

\* letrec: the values see the variables, each is stored when it is known.
EvalLetrec(x, s, st) ==
  LET in == NewScopeOf(st, s)
      c == Len(in)
      set == FoldLeft(LAMBDA acc, i :
               IF IsErr(acc.v) THEN acc
               ELSE LET v == Eval(x[3][i], c, acc.st)
                    IN IF IsErr(v.v) THEN v ELSE R(Nil, Bind(v.st, c, x[2][i], v.v)),
               R(Nil, in), [i \in DOMAIN x[2] |-> i])
  IN IF IsErr(set.v) THEN set ELSE EvalSeq(x[4], c, set.st, Nil)

EvalNamedLet(x, s, st) ==
  LET in == NewScopeOf(st, s)
      f == <<"p", x[3], x[5], Len(in)>>
      vs == EvalList(x[4], s, Bind(in, Len(in), x[2], f))
  IN IF IsErr(vs.v) THEN vs ELSE Apply(f, vs.v[2], vs.st)

EvalDo(x, s, st) ==
  LET vs == EvalList([i \in DOMAIN x[2] |-> x[2][i][2]], s, st)
      in == NewScopeOf(vs.st, s)
  IN IF IsErr(vs.v) THEN vs
     ELSE EvalLoop(x[3], x[4], x[5], SelectSeq(x[2], LAMBDA b : Len(b) = 3),
                   Len(in), BindAll(in, Len(in),
                                    [i \in DOMAIN x[2] |-> x[2][i][1]], vs.v[2]))

Eval(x, s, st) ==
  LET in == NewScopeOf(st, s)
      c == Len(in)
      Guarded(want, xs) ==
        LET t == Eval(Head(xs), c, in)
        IN IF IsErr(t.v) \/ (t.v = Nil) = want THEN t
           ELSE EvalSeq(Tail(xs), c, t.st, t.v)
  IN CASE x[1] = "num" -> R(Num(x[2]), st)
       [] x[1] = "nil" -> R(Nil, st)
       [] x[1] = "quote" -> R(x[2], st)
       [] x[1] = "builtin" -> R(<<"cp", x[2]>>, st)
       [] x[1] = "var" -> LET o == ScopeOf(st, s, x[2])
                          IN R(IF o = 0 THEN Err("symbol-error") ELSE st[o].vars[x[2]], st)
       [] x[1] = "setq" ->
            LET v == Eval(x[3], s, st)
                o == ScopeOf(v.st, s, x[2])
            IN IF IsErr(v.v) THEN v ELSE IF o = 0 THEN R(Err("symbol-error"), v.st)
               ELSE R(v.v, Bind(v.st, o, x[2], v.v))
       [] x[1] = "define" ->
            LET v == Eval(x[3], s, st)
            IN IF IsErr(v.v) THEN v ELSE R(v.v, Bind(v.st, s, x[2], v.v))
       [] x[1] = "begin" -> EvalSeq(x[2], s, st, Nil)
       [] x[1] = "local" -> EvalSeq(x[2], c, in, Nil)
       [] x[1] = "let" -> EvalLet(x, s, st)
       [] x[1] = "let*" -> EvalLetStar(x[2], x[3], x[4], s, st)
       [] x[1] = "letrec" -> EvalLetrec(x, s, st)
       [] x[1] = "lambda" -> R(<<"p", x[2], x[3], s>>, st)
       [] x[1] = "nlet" -> EvalNamedLet(x, s, st)
       [] x[1] = "call" ->
            LET vs == EvalList(x[2], s, st)
            IN IF IsErr(vs.v) THEN vs ELSE Apply(Head(vs.v[2]), Tail(vs.v[2]), vs.st)
       [] x[1] = "prim" ->
            LET vs == EvalList(x[3], s, st)
            IN IF IsErr(vs.v) THEN vs ELSE R(Prim(x[2], vs.v[2]), vs.st)
       [] x[1] = "addk" ->
            LET v == Eval(x[3], s, st)
            IN IF IsErr(v.v) THEN v ELSE R(Prim("ADD", <<v.v, Num(x[2])>>), v.st)
       [] x[1] = "if" ->
            LET t == Eval(x[2], c, in)
            IN IF IsErr(t.v) THEN t
               ELSE IF t.v # Nil THEN Eval(x[3], c, t.st)
               ELSE LET e == NewScopeOf(t.st, s) IN Eval(x[4], Len(e), e)
       [] x[1] = "if0" -> Guarded(TRUE, <<x[2], x[3]>>)
       [] x[1] = "when" -> Guarded(TRUE, x[2])
       [] x[1] = "unless" -> Guarded(FALSE, x[2])
       [] x[1] = "and" -> EvalUntil(x[2], c, in, Num(1), TRUE)
       [] x[1] = "or" -> EvalUntil(x[2], c, in, Nil, FALSE)
       [] x[1] = "cond" -> EvalCond(x[2], s, st, Nil)
       [] x[1] = "do0" -> EvalLoop(x[2], x[3], x[4], <<>>, c, in)
       [] x[1] = "do" -> EvalDo(x, s, st)

Meaning(xs) == Shown(EvalSeq(xs, 1, NewScopeOf(<<>>, 0), Nil).v)
=============================================================================
