----------------------------- MODULE LangValue -----------------------------
(***************************************************************************)
(* The values of the expression language, and what the builtins make of    *)
(* them: shared by the byte code machine (VMmachine) and by the reference  *)
(* definition it is checked against (LangEval).                            *)
(*                                                                         *)
(* A value is a tuple whose head names its kind.  A proper list is kept as *)
(* the sequence of its elements, <<"list", s>>, so that what the builtins  *)
(* ask of a list is asked of a sequence; any other pair is <<"c", a, d>>.  *)
(***************************************************************************)
EXTENDS Integers, Sequences

Nil == <<"list", <<>>>>
Num(n) == <<"n", n>>
Err(t) == <<"err", t>>             \* a raised error of type t
IsErr(v) == v[1] = "err"
Null == <<"null">>                 \* the NULL of a variable not yet defined
Bool(b) == IF b THEN Num(1) ELSE Nil
Paired(a, d) == IF d[1] = "list" THEN <<"list", <<a>> \o d[2]>> ELSE <<"c", a, d>>

\* What the program holds of an error it caught; procedures written in C.
ErrorValue(e) == <<"error", e[2]>>
Callable(v) == v[1] \in {"p", "cp"}

\* isShouldBeHandle: the empty list of types stands for every type.
ShouldHandle(list, t) ==
  list = Nil \/ \E i \in DOMAIN list[2] : list[2][i] = <<"sym", t>>

\* is_symbol_list
IsSymbolList(v) ==
  v[1] = "list" /\ \A i \in DOMAIN v[2] : v[2][i][1] = "sym"

\* What is wrong with the arguments of a builtin, or Nil.  The handlers of an
\* xpcall are a list of types and a procedure each.
BadArgs(name, vs) ==
  CASE name = "raise" ->
         IF Len(vs) # 1 THEN Err("arg-error")
         ELSE IF vs[1][1] # "error" THEN Err("type-error") ELSE Nil
    [] name \in {"pcall", "xpcall"} ->
         IF vs = <<>> THEN Err("arg-error")
         ELSE IF ~Callable(vs[1]) THEN Err("type-error")
         ELSE IF name = "pcall" THEN Nil
         ELSE IF \E i \in 2..Len(vs) :
                   ~(IF i % 2 = 0 THEN IsSymbolList(vs[i]) ELSE Callable(vs[i]))
         THEN Err("type-error")
         ELSE IF Len(vs) % 2 = 0 THEN Err("arg-error") ELSE Nil

\* The builtins: what an instruction computes from the values it pops.
Prim(op, vs) ==
  LET n == [i \in DOMAIN vs |-> vs[i][2]]
      nums == \A i \in DOMAIN vs : vs[i][1] = "n"
  IN CASE op = "PUSH_PAIR" -> Paired(vs[1], vs[2])
       [] op = "NOT" -> Bool(vs[1] = Nil)
       [] op = "EQN" /\ nums -> Bool(n[1] = n[2])
       [] op = "ADD" /\ nums -> Num(n[1] + n[2])
       [] op = "SUB" /\ nums -> Num(n[1] - n[2])
       [] op = "IDIV" /\ nums /\ n[2] # 0 -> Num(n[1] \div n[2])
       [] op = "IDIV" /\ nums /\ n[2] = 0 -> Err("div-zero-error")
       [] OTHER -> Err("type-error")
=============================================================================
