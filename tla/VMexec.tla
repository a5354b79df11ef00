------------------------------- MODULE VMexec -------------------------------
(***************************************************************************)
(* A program of the expression language, compiled (CodeGen), optimized or  *)
(* not (Optimizer), and run by the byte code machine (VMmachine); what it  *)
(* comes to is compared with what its text means (LangEval).               *)
(***************************************************************************)
EXTENDS CodeGen, Optimizer, LangEval, VMmachine

CONSTANT Programs        \* a sequence of programs, each a list of expressions

ProtosOf(cg) ==
  [e \in DOMAIN cg |-> [lcount |-> Len(cg[e].slots), refs |-> cg[e].refs]] \o <<>>

\* A file has been compiled.  A division by zero in the optimizer ends the
\* compiler.
Init ==
  /\ prog \in DOMAIN Programs
  /\ \E g \in {GenProgram(Programs[prog])} :
       /\ opt \in BOOLEAN
       /\ code = IF opt THEN PeepholeOptimize(g.code) ELSE g.code
       /\ protos = ProtosOf(g.cg)
  /\ Start

Spec == Init /\ [][Next]_vars /\ WF_vars(Next)

-----------------------------------------------------------------------------
(* The generated code verifies: following it from its first instruction    *)
(* gives the heights VerifiedBy asks for.                                  *)

Successors(c, at, k) ==
  LET i == c[k]
      t == at[k]
      Go(j, h, open) == j :> At(t.env, h, open)
      Falls(h) == Go(k + 1, h, t.open)
  IN CASE i.op \in Straight -> Falls(t.h - Takes(i) + Gives(i))
       [] i.op = "JMP" -> Go(k + 1 + i.a, t.h, t.open)
       [] i.op \in {"JMP_IF_TRUE", "JMP_IF_FALSE"} ->
            Falls(t.h) @@ Go(k + 1 + i.a, t.h, t.open)
       [] i.op = "MAKE_PROC" ->
            ((k + 1) :> At(c[k - 1].a, 0, <<>>)) @@ Go(k + 1 + i.a, t.h, t.open)
       [] i.op = "SET_BP" -> Go(k + 1, t.h + 2, Append(t.open, t.h))
       [] i.op \in {"CALL", "TAIL_CALL"} ->
            Go(k + 1, Innermost(t.open) + 1, Outer(t.open))
       [] i.op = "RET" -> <<>>
       [] OTHER -> Falls(t.h)

Annotated(c) ==
  FoldLeft(LAMBDA at, k : IF k \in DOMAIN at THEN at @@ Successors(c, at, k) ELSE at,
           1 :> At(1, 0, <<>>), [k \in DOMAIN c |-> k])
TailsOf(c, at) ==
  FoldRight(LAMBDA k, tails : tails \cup IF k \in DOMAIN at /\ TailVerifies(c, tails, k)
                                         THEN {k} ELSE {},
            [k \in DOMAIN c |-> k], {})

CodeVerifies(c, ps) ==
  \/ \E k \in DOMAIN c : c[k].op = "SIGFPE"
  \/ \E at \in {Annotated(c)} : VerifiedBy(c, ps, at, TailsOf(c, at))

-----------------------------------------------------------------------------
(* Properties.                                                             *)

\* The code a program starts with keeps the stack in order, optimized or not: on
\* every path to an instruction equally many values are left and the same calls
\* are being prepared (code_gen.c, optimizer.c; vmreturn.h:27 takes it for
\* granted).  VMmachineProofs proves what then never goes wrong.
CodeVerified ==
  Len(frames) = 1 /\ Top.pc = 1 => CodeVerifies(code, protos)

\* What a program evaluates to is what its text means: the slots given to
\* variables, the references made and closed, the jumps, the tail calls and
\* the rewriting of the optimizer change nothing (code_gen.c, code_utils.c,
\* optimizer.c, vmdispatch.h).
MeansWhatItSays ==
  res # Null =>
    Meaning(Programs[prog]) = IF res[1] = "value" THEN Shown(res[2]) ELSE res

\* A procedure whose calls of itself are all last calls has at most one frame
\* at a time, however often it calls itself (bytecode.c:592, vmdispatch.h:202).
SelfCallsDoNotStack ==
  \A i, j \in DOMAIN frames :
    i # j /\ frames[i].cproc = "none" => frames[i].proc # frames[j].proc

\* Every program that should end ends.
Terminates == <>(res # Null)
=============================================================================
