------------------------------ MODULE CodeGen ------------------------------
(***************************************************************************)
(* The code generator: how src/src/code_gen.c turns an expression into     *)
(* byte code, and how src/src/code_utils.c gives every variable a slot of  *)
(* its procedure's frame, or a reference to a slot of an outer one.        *)
(*                                                                         *)
(* An expression is a tuple whose head names the special form.  The state  *)
(* the generator threads through a program, cg, is the sequence of its     *)
(* environments (FklVMvalueCgEnv, one for each lambda); an environment's   *)
(* index stands for the prototype made of it.  Gen returns the new state   *)
(* and the code.  Sub-expressions are compiled in the order in which the   *)
(* actions leave the action stack, which is not always the order of the    *)
(* text: it decides which slot a variable gets.                            *)
(*                                                                         *)
(* Left out: macros, constants (defconst; a quoted value is in its own     *)
(* instruction), import and export, the line table, and the width of       *)
(* immediates (every instruction is one word).                             *)
(***************************************************************************)
EXTENDS Integers, Sequences, FiniteSets, SequencesExt

I(op, a) == [op |-> op, a |-> a, b |-> 0]
Drop == <<I("DROP", 0)>>
PushNil == <<I("PUSH_NIL", 0)>>

NoIdx == -1                         \* FKL_VAR_REF_INVALID_CIDX

-----------------------------------------------------------------------------
(* Environments and scopes.  Slots and references are numbered from 0, as  *)
(* in the source; a sequence holds number n at n + 1.                      *)

NewScope(scopes, p) ==
  LET s == IF p = 0 THEN 0 ELSE scopes[p].start + scopes[p].end
  IN Append(scopes, [p |-> p, start |-> s, end |-> 0, empty |-> s,
                     defs |-> <<>>])

\* A new environment has the scope of its arguments, scope 1.
CreateCgEnv(cg, prev, scope) ==
  Append(cg, [prev |-> prev, pscope |-> scope, scopes |-> NewScope(<<>>, 0),
              slots |-> <<>>, refs |-> <<>>, uref |-> <<>>,
              pdef |-> {}, refpdef |-> <<>>])

EnterNewScope(cg, e, p) == [cg EXCEPT ![e].scopes = NewScope(@, p)]
TopScope(cg, e) == Len(cg[e].scopes)

RECURSIVE FindSymbolDef(_, _, _)
FindSymbolDef(env, sc, id) ==
  IF sc = 0 THEN NoIdx
  ELSE IF id \in DOMAIN env.scopes[sc].defs THEN env.scopes[sc].defs[id]
  ELSE FindSymbolDef(env, env.scopes[sc].p, id)

HasResolvableRef(id, sc, env) ==
  \E i \in DOMAIN env.uref : env.uref[i].id = id /\ env.uref[i].scope = sc

GetNextEmpty(from, slots) ==
  CHOOSE n \in from..(Len(slots) + from) :
    /\ n >= Len(slots) \/ slots[n + 1] = "none"
    /\ \A k \in from..(n - 1) : k < Len(slots) /\ slots[k + 1] # "none"

Free(n) == [i \in 1..n |-> "none"]
SetSlot(slots, n, flag) ==
  IF n < Len(slots) THEN [slots EXCEPT ![n + 1] = flag]
  ELSE slots \o Free(n - Len(slots)) \o <<flag>>

\* fklAddCgDefBySid: the slot a new variable gets.
AddCgDef(cg, e, sc, id) ==
  LET env == cg[e]
      s == env.scopes[sc]
      forced == s.empty < Len(env.slots) /\ HasResolvableRef(id, sc, env)
      idx == IF forced THEN Len(env.slots) ELSE s.empty
      end == idx + 1 - s.start
      s1 == [s EXCEPT !.defs = (id :> idx) @@ @,
                      !.empty = IF forced THEN @
                                ELSE GetNextEmpty(@ + 1, env.slots),
                      !.end = IF @ < end THEN end ELSE @]
  IN IF id \in DOMAIN s.defs THEN cg
     ELSE [cg EXCEPT ![e].scopes[sc] = s1,
                     ![e].slots = SetSlot(@, idx, "occ")]

DefIdx(cg, e, sc, id) == cg[e].scopes[sc].defs[id]

-----------------------------------------------------------------------------
(* References to variables of outer environments.                          *)

RefIdx(cg, e, id) ==
  LET at == {i \in DOMAIN cg[e].refs : cg[e].refs[i].id = id}
  IN IF at = {} THEN NoIdx ELSE (CHOOSE i \in at : TRUE) - 1

PutRef(cg, e, id) ==
  IF RefIdx(cg, e, id) # NoIdx THEN cg
  ELSE [cg EXCEPT ![e].refs =
          Append(@, [id |-> id, cidx |-> Len(@), local |-> FALSE])]

SetRef(cg, e, idx, cidx, local) ==
  [cg EXCEPT ![e].refs[idx + 1].cidx = cidx,
             ![e].refs[idx + 1].local = local]

\* add_ref_to_all_penv: one reference in every environment from e out to the
\* child of the target, each pointing at the next one's.
RECURSIVE AddRefToAllPenv(_, _, _, _)
AddRefToAllPenv(cg, e, target, id) ==
  LET own == PutRef(cg, e, id)
      out == AddRefToAllPenv(own, cg[e].prev, target, id)
  IN IF cg[e].prev = target THEN own
     ELSE [out EXCEPT ![e].refs[RefIdx(own, e, id) + 1].cidx =
                        RefIdx(out, cg[e].prev, id)]

RECURSIVE ChildOf(_, _, _)
ChildOf(cg, e, target) ==
  IF cg[e].prev = target THEN e ELSE ChildOf(cg, cg[e].prev, target)

\* use_outer_pdef_or_def: the nearest environment that will define, or has
\* defined, the name; a pre-definition only counts in the very scope.
RECURSIVE UseOuterPdefOrDef(_, _, _, _)
UseOuterPdefOrDef(cg, e, id, sc) ==
  IF e = 0 THEN [env |-> 0, pdef |-> FALSE, idx |-> NoIdx]
  ELSE IF <<id, sc>> \in cg[e].pdef
       THEN [env |-> e, pdef |-> TRUE, idx |-> NoIdx]
  ELSE LET d == FindSymbolDef(cg[e], sc, id)
       IN IF d # NoIdx THEN [env |-> e, pdef |-> FALSE, idx |-> d]
          ELSE UseOuterPdefOrDef(cg, cg[e].prev, id, cg[e].pscope)

RECURSIVE HasOuterRef(_, _, _)
HasOuterRef(cg, e, id) ==
  IF e = 0 \/ RefIdx(cg, e, id) # NoIdx THEN e
  ELSE HasOuterRef(cg, cg[e].prev, id)

IsRefSolved(cg, e, id) ==
  cg[e].prev = 0 \/ ~HasResolvableRef(id, cg[e].pscope, cg[cg[e].prev])

\* A reference nobody can resolve yet.
PutUnbound(cg, e, id) ==
  LET own == PutRef(cg, e, id)
  IN SetRef(own, e, RefIdx(own, e, id), NoIdx, FALSE)

\* The references are in place, and c, whose reference is ci, is the child of
\* the environment t.env that has the variable or will have it.
LinkTo(cg, c, ci, scope, id, t) ==
  IF t.pdef
  THEN [SetRef(cg, c, ci, NoIdx, TRUE) EXCEPT ![t.env].refpdef =
          Append(@, [id |-> id, scope |-> scope, env |-> c, idx |-> ci])]
  ELSE [SetRef(cg, c, ci, t.idx, TRUE) EXCEPT ![t.env].slots =
          SetSlot(@, t.idx, "ref")]
LinkChild(cg, c, scope, id, t) == LinkTo(cg, c, RefIdx(cg, c, id), scope, id, t)

\* Nobody has the variable: share the reference of an outer environment, or
\* leave one for the environment around this one to resolve.
AddUref(cg, e, id) ==
  [cg EXCEPT ![cg[e].prev].uref =
     Append(@, [id |-> id, idx |-> RefIdx(cg, e, id), scope |-> cg[e].pscope,
                env |-> e])]
ShareOrLeave(cg, e, id, outer) ==
  IF outer # 0 /\ IsRefSolved(cg, outer, id)
  THEN AddRefToAllPenv(cg, e, cg[outer].prev, id)
  ELSE AddUref(PutUnbound(cg, e, id), e, id)

AddRefTo(cg, e, id, t) ==
  IF t.env = 0 THEN ShareOrLeave(cg, e, id, HasOuterRef(cg, cg[e].prev, id))
  ELSE LinkChild(AddRefToAllPenv(cg, e, t.env, id), ChildOf(cg, e, t.env),
                 cg[e].pscope, id, t)

\* fklAddCgRefBySid; RefIdx of the result is the number it returns.
AddCgRef(cg, e, id) ==
  IF RefIdx(cg, e, id) # NoIdx THEN cg
  ELSE IF cg[e].prev = 0 THEN PutUnbound(cg, e, id)
  ELSE AddRefTo(cg, e, id, UseOuterPdefOrDef(cg, cg[e].prev, id, cg[e].pscope))

\* fklResolveCgPreDef: the slot it marks as referenced is def->v.cidx, which
\* the definition never set, so that it is slot 0.
RECURSIVE PatchRefs(_, _, _)
PatchRefs(cg, hits, idx) ==
  IF hits = <<>> THEN cg
  ELSE PatchRefs(SetRef(cg, hits[1].env, hits[1].idx, idx, TRUE), Tail(hits), idx)
ResolveCgPreDef(cg, e, sc, id) ==
  LET Mine(r) == r.id = id /\ r.scope = sc
      hits == SelectSeq(cg[e].refpdef, Mine)
  IN [PatchRefs(cg, hits, DefIdx(cg, e, sc, id)) EXCEPT
        ![e].pdef = @ \ {<<id, sc>>},
        ![e].refpdef = Reverse(SelectSeq(@, LAMBDA r : ~Mine(r))),
        ![e].slots = IF hits = <<>> THEN @ ELSE SetSlot(@, 0, "ref")]

\* fklResolveRef: what a scope does with an unbound reference of its children
\* when it ends: d is the slot of the variable, if the scope has it.
LinkToOuter(cg, e, u) ==
  SetRef(cg, u.env, u.idx, RefIdx(cg, e, u.id), FALSE)
LinkToSlot(cg, e, u, d) ==
  [SetRef(cg, u.env, u.idx, d, TRUE) EXCEPT ![e].slots = SetSlot(@, d, "ref")]
ResolveWith(acc, e, sc, u, d, up) ==
  CASE u.scope < sc -> [acc EXCEPT !.kept = Append(@, u)]
    [] u.scope >= sc /\ d # NoIdx -> [acc EXCEPT !.cg = LinkToSlot(@, e, u, d)]
    [] u.scope >= sc /\ d = NoIdx /\ up # 0 ->
         [acc EXCEPT !.kept = Append(@, [u EXCEPT !.scope = up])]
    [] u.scope >= sc /\ d = NoIdx /\ up = 0 /\ acc.cg[e].prev # 0 ->
         [acc EXCEPT !.cg = LinkToOuter(AddCgRef(@, e, u.id), e, u)]
    [] OTHER -> [acc EXCEPT !.kept = Append(@, u)]
ResolveOne(acc, e, sc, u) ==
  ResolveWith(acc, e, sc, u, FindSymbolDef(acc.cg[e], u.scope, u.id),
              acc.cg[e].scopes[u.scope].p)

RECURSIVE ResolveAll(_, _, _, _)
ResolveAll(acc, e, sc, urefs) ==
  IF urefs = <<>> THEN [acc.cg EXCEPT ![e].uref = Reverse(acc.kept)]
  ELSE ResolveAll(ResolveOne(acc, e, sc, Head(urefs)), e, sc, Tail(urefs))
ResolveRef(cg, e, sc) ==
  ResolveAll([cg |-> cg, kept |-> <<>>], e, sc, cg[e].uref)

\* Mutant: references are closed from the last referenced slot on.
Bug_CloseFromLast(cg, code, e, sc) ==
  LET s == cg[e].scopes[sc]
      refd == {n \in s.start..(s.start + s.end - 1) : cg[e].slots[n + 1] = "ref"}
  IN [cg |-> [cg EXCEPT ![e].slots = SubSeq(@, 1, s.start) \o Free(s.end)
                                     \o SubSeq(@, s.start + s.end + 1, Len(@))],
      code |-> IF refd = {} THEN code
               ELSE Append(code, I("CLOSE_REF", Max(refd)))]

\* reset_flag_and_check_var_be_refed: free the slots of a scope, and close the
\* references to them from the first one on.
ResetFlags(cg, code, e, sc) ==
  LET s == cg[e].scopes[sc]
      refd == {n \in s.start..(s.start + s.end - 1) : cg[e].slots[n + 1] = "ref"}
  IN [cg |-> [cg EXCEPT ![e].slots = SubSeq(@, 1, s.start) \o Free(s.end)
                                     \o SubSeq(@, s.start + s.end + 1, Len(@))],
      code |-> IF refd = {} THEN code
               ELSE Append(code, I("CLOSE_REF", Min(refd)))]

\* check_and_close_ref
CheckAndCloseRef(g, e, sc) == ResetFlags(ResolveRef(g.cg, e, sc), g.code, e, sc)

-----------------------------------------------------------------------------
(* The byte code of each form.  G pairs a state with code; the codes of a  *)
(* list of expressions are a sequence of codes.                            *)

G(cg, code) == [cg |-> cg, code |-> code]

\* A jump over the code it precedes.
JmpOver(op, code) == <<I(op, Len(code))>> \o code

\* Code that leaves nothing behind is not followed by a DROP; nor is the last.
DropBetween(codes) ==
  FlattenSeq([i \in DOMAIN codes |->
    IF i < Len(codes) /\ codes[i] # <<>> THEN codes[i] \o Drop ELSE codes[i]])

SequenceExp(codes) == IF codes = <<>> THEN PushNil ELSE DropBetween(codes)

\* Every code but the first is preceded by a DROP (when, unless, cond).
DropBefore(codes) == FlattenSeq([i \in DOMAIN codes |-> Drop \o codes[i]])

\* Mutant: the value of a test that goes on is left on the stack.
Bug_KeepsTest(op, codes) ==
  FoldRight(LAMBDA c, acc : IF acc = <<>> THEN c ELSE c \o JmpOver(op, acc), codes, <<>>)

\* _and_exp_bc_process and _or_exp_bc_process: built from the last one back.
AndOrExp(op, codes) ==
  FoldRight(LAMBDA c, acc : IF acc = <<>> THEN c
                            ELSE c \o JmpOver(op, Drop \o acc), codes, <<>>)

AndOr(r, op, none) ==
  G(r.cg, IF r.codes = <<>> THEN <<none>> ELSE AndOrExp(op, r.codes))

\* Mutant: the jump back is made before the length of the loop is known.
Bug_JmpBackTooEarly(cond, rest, value) ==
  cond \o <<I("JMP_IF_TRUE", Len(rest) + 2)>> \o Drop \o rest \o <<I("JMP", -1)>>
  \o (IF value = <<>> THEN <<>> ELSE Drop \o value)

\* insert_jmp_if_true_and_jmp_back_between, with the value after the loop.
LoopExp(cond, rest, value) ==
  LET body == Drop \o rest
  IN cond \o <<I("JMP_IF_TRUE", Len(body) + 1)>> \o body
     \o <<I("JMP", -(Len(body) + Len(cond) + 1) - 1)>>
     \o (IF value = <<>> THEN <<>> ELSE Drop \o value)

\* is_const_true_bytecode_lnt: a test that needs no test.
IsConstTrue(code) ==
  \A i \in DOMAIN code : code[i].op \in {"SET_BP", "PUSH_INT", "PUSH_CONST", "PUSH_PAIR"}

\* _cond_exp_bc_process_1 (a clause with clauses after it; prev is their code)
\* and _cond_exp_bc_process_2 (the last clause).
CondClause(first, body, closed, prev) ==
  LET next == Drop \o prev
      taken == closed \o (IF body = <<>> THEN <<>> ELSE <<I("JMP", Len(next))>>)
      test == IF IsConstTrue(first) THEN taken
              ELSE first \o JmpOver("JMP_IF_FALSE", Drop \o taken)
  IN IF body # <<>> THEN test \o next
     ELSE first \o <<I(IF IsConstTrue(first) THEN "JMP" ELSE "JMP_IF_TRUE",
                       Len(next))>> \o closed \o next

CondLast(first, body) ==
  IF body = <<>> THEN first
  ELSE IF IsConstTrue(first) THEN body
  ELSE first \o JmpOver("JMP_IF_FALSE", Drop \o body)

\* is_last_expression: nothing but jumps and CLOSE_REFs before the RET.
RECURSIVE IsLastExpression(_, _)

\* Mutant: a jump ends the search, as any other instruction.
Bug_JmpIsNotLast(code, i) ==
  \/ i > Len(code)
  \/ code[i].op = "RET"
  \/ /\ code[i].op = "CLOSE_REF" /\ IsLastExpression(code, i + 1)

IsLastExpression(code, i) ==
  \/ i > Len(code)
  \/ code[i].op = "RET"
  \/ /\ code[i].op = "JMP" /\ IsLastExpression(code, i + 1 + code[i].a)
  \/ /\ code[i].op = "CLOSE_REF" /\ IsLastExpression(code, i + 1)

\* fklScanAndSetTailCall
ScanAndSetTailCall(code) ==
  [i \in DOMAIN code |->
     IF code[i].op = "CALL" /\ IsLastExpression(code, i + 1)
     THEN [code[i] EXCEPT !.op = "TAIL_CALL"] ELSE code[i]]

\* append_push_proc_ins
PushProc(e, body) == <<I("LOAD_PROTO", e), I("MAKE_PROC", Len(body))>> \o body

\* A call of a builtin that has an inliner is the instruction itself
\* (inl_1_arg_func, inl_2_arg_func), but the reference its name made remains.
BuiltinRef(cg, e, op) == AddRefToAllPenv(cg, e, 0, op)
Inlined(r, op) == G(r.cg, Append(FlattenSeq(r.codes), I(op, Len(r.codes))))

\* _funcall_exp_bc_process
Funcall(code) == <<I("SET_BP", 1)>> \o code \o <<I("CALL", 0)>>

\* An expression may be any form, and every form has expressions.
RECURSIVE Gen(_, _, _, _), GenAll(_, _, _, _), GenScope(_, _, _, _),
          GenSetq(_, _, _, _, _), GenDefine(_, _, _, _, _),
          GenLocal(_, _, _, _), GenLet(_, _, _, _, _, _),
          GenLetrec(_, _, _, _, _, _), LambdaExp(_, _, _, _),
          GenLambda(_, _, _, _, _), GenNamedLet(_, _, _, _, _, _, _),
          GenIf(_, _, _, _, _, _), GenWhen(_, _, _, _, _),
          GenCond(_, _, _, _, _), GenDo0(_, _, _, _, _, _),
          GenDo(_, _, _, _, _, _, _)

\* The codes of a list of expressions, compiled in order.
CodeBefore(code, r) == [codes |-> <<code>> \o r.codes, cg |-> r.cg]
GenRest(h, e, sc, xs) == CodeBefore(h.code, GenAll(h.cg, e, sc, xs))
GenAll(cg, e, sc, xs) ==
  IF xs = <<>> THEN [codes |-> <<>>, cg |-> cg]
  ELSE GenRest(Gen(cg, e, sc, Head(xs)), e, sc, Tail(xs))

RECURSIVE AddDefs(_, _, _, _), ResolveDefs(_, _, _, _)
AddDefs(cg, e, sc, ids) ==
  IF ids = <<>> THEN cg
  ELSE AddDefs(AddCgDef(cg, e, sc, Head(ids)), e, sc, Tail(ids))

\* A definition that was announced.
DefineAnnounced(cg, e, sc, id) ==
  ResolveCgPreDef(AddCgDef(cg, e, sc, id), e, sc, id)
ResolveDefs(cg, e, sc, ids) ==
  IF ids = <<>> THEN cg
  ELSE ResolveDefs(DefineAnnounced(cg, e, sc, Head(ids)), e, sc, Tail(ids))

\* Compiles the expressions of a new scope, which stays open.
GenScope(cg, e, sc, xs) ==
  GenAll(EnterNewScope(cg, e, sc), e, TopScope(cg, e) + 1, xs)

\* A symbol: a slot of this frame, or a reference.
GetRef(cg, e, id) == G(cg, <<I("GET_VAR_REF", RefIdx(cg, e, id))>>)
GenVar(cg, e, sc, id) ==
  LET d == FindSymbolDef(cg[e], sc, id)
  IN IF d # NoIdx THEN G(cg, <<I("GET_LOC", d)>>)
     ELSE GetRef(AddCgRef(cg, e, id), e, id)

\* codegen_setq: the variable is looked up before the value is compiled.
Then(g, ins) == G(g.cg, Append(g.code, ins))
PutRefTo(cg, e, sc, id, x) ==
  Then(Gen(cg, e, sc, x), I("PUT_VAR_REF", RefIdx(cg, e, id)))
GenSetq(cg, e, sc, id, x) ==
  LET d == FindSymbolDef(cg[e], sc, id)
  IN IF d # NoIdx THEN Then(Gen(cg, e, sc, x), I("PUT_LOC", d))
     ELSE PutRefTo(AddCgRef(cg, e, id), e, sc, id, x)

\* codegen_define, codegen_defun
Announce(cg, e, sc, id) ==
  IF id \in DOMAIN cg[e].scopes[sc].defs THEN cg
  ELSE [cg EXCEPT ![e].pdef = @ \cup {<<id, sc>>}]
PutDef(cg, code, e, sc, id) ==
  G(cg, Append(code, I("PUT_LOC", DefIdx(cg, e, sc, id))))
DefineAs(v, e, sc, id) ==
  PutDef(DefineAnnounced(v.cg, e, sc, id), v.code, e, sc, id)
GenDefine(cg, e, sc, id, x) ==
  DefineAs(Gen(Announce(cg, e, sc, id), e, sc, x), e, sc, id)

\* The body of a scope that is entered already, and its end.
Sequenced(r) == G(r.cg, SequenceExp(r.codes))
GenBody(cg, e, cs, xs) == CheckAndCloseRef(Sequenced(GenAll(cg, e, cs, xs)), e, cs)

\* codegen_local, codegen_let0
GenLocal(cg, e, sc, xs) ==
  GenBody(EnterNewScope(cg, e, sc), e, TopScope(cg, e) + 1, xs)

\* codegen_let1: the variables get their slots first, the values are compiled
\* in the outer scope, and are popped off the stack last one first.
LetExp(body, codes, e, cs, ids) ==
  G(body.cg, FlattenSeq(codes)
             \o Reverse([i \in DOMAIN ids |->
                           I("POP_LOC", DefIdx(body.cg, e, cs, ids[i]))])
             \o body.code)
LetBody(args, e, cs, ids, xs) ==
  LetExp(GenBody(args.cg, e, cs, xs), args.codes, e, cs, ids)
GenLet(cg, e, sc, ids, vals, xs) ==
  LET cs == TopScope(cg, e) + 1
  IN LetBody(GenAll(AddDefs(EnterNewScope(cg, e, sc), e, cs, ids), e, sc, vals),
             e, cs, ids, xs)

\* codegen_let81: a let* is a let of its first variable around the rest of it.
LetStar(ids, vals, xs) ==
  IF Len(ids) <= 1 THEN <<"let", ids, vals, xs>>
  ELSE <<"let", <<ids[1]>>, <<vals[1]>>,
         << <<"let*", Tail(ids), Tail(vals), xs>> >> >>

\* codegen_letrec: the values are all compiled before the first variable has
\* a slot, and then stored one after the other.
LetrecExp(body, codes, e, cs, ids) ==
  G(body.cg, FlattenSeq([i \in DOMAIN ids |-> codes[i] \o
               <<I("POP_LOC", DefIdx(body.cg, e, cs, ids[i]))>>]) \o body.code)
LetrecBody(args, e, cs, ids, xs) ==
  LetrecExp(GenBody(ResolveDefs(args.cg, e, cs, ids), e, cs, xs), args.codes,
            e, cs, ids)
GenLetrec(cg, e, sc, ids, vals, xs) ==
  LET cs == TopScope(cg, e) + 1
      pre == [EnterNewScope(cg, e, sc) EXCEPT
                ![e].pdef = @ \cup {<<ids[i], cs>> : i \in DOMAIN ids}]
  IN LetrecBody(GenAll(pre, e, cs, vals), e, cs, ids, xs)

\* _lambda_exp_bc_process, fklCreateVMvalueProto2.  The new environment is
\* already there, with the slots of its arguments.
ProcExp(body, c, n) ==
  G(ResolveRef(body.cg, c, 1),
    PushProc(c, ScanAndSetTailCall(<<I("CHECK_ARG", n)>>
                  \o SequenceExp(body.codes) \o <<I("RET", 0)>>)))
LambdaExp(cg, c, n, xs) == ProcExp(GenAll(cg, c, 1, xs), c, n)

\* codegen_lambda
GenLambda(cg, e, sc, ids, xs) ==
  LambdaExp(AddDefs(CreateCgEnv(cg, e, sc), Len(cg) + 1, 1, ids), Len(cg) + 1,
            Len(ids), xs)

\* codegen_named_let0, codegen_named_let1: the name gets its slot before the procedure is
\* compiled, the first values after it, in the outer scope.
NamedProc(proc, e, cs, name) ==
  CheckAndCloseRef(PutDef(proc.cg, proc.code, e, cs, name), e, cs)
CallOf(code, args) == G(args.cg, Funcall(code \o FlattenSeq(args.codes)))
NamedCall(func, e, sc, vals) == CallOf(func.code, GenAll(func.cg, e, sc, vals))
GenNamedLet(cg, e, sc, name, ids, vals, xs) ==
  LET cs == TopScope(cg, e) + 1
      c == Len(cg) + 1
      new == CreateCgEnv(EnterNewScope(cg, e, sc), e, cs)
  IN NamedCall(NamedProc(LambdaExp(AddCgDef(AddDefs(new, c, 1, ids), e, cs, name),
                                   c, Len(ids), xs), e, cs, name), e, sc, vals)

\* codegen_if1: the else branch is compiled first, in the second scope.
IfExp(thn, no) ==
  G(thn.cg, thn.codes[1]
            \o JmpOver("JMP_IF_FALSE", Drop \o thn.codes[2] \o <<I("JMP", Len(no))>>)
            \o no)
IfElse(els, e, cs, c, x) == IfExp(GenAll(els.cg, e, cs, <<c, x>>), Drop \o els.code)
GenIf(cg, e, sc, c, x, y) ==
  LET cs == TopScope(cg, e) + 1
  IN IfElse(Gen(EnterNewScope(EnterNewScope(cg, e, sc), e, sc), e, cs + 1, y),
            e, cs, c, x)

\* codegen_if0
If0Exp(r) ==
  G(r.cg, r.codes[1] \o JmpOver("JMP_IF_FALSE", Drop \o r.codes[2]))

\* codegen_when, codegen_unless
WhenExp(op, codes) ==
  codes[1] \o (IF Len(codes) = 1 THEN <<>>
               ELSE JmpOver(op, DropBefore(Tail(codes))))
Whened(op, r) == G(r.cg, WhenExp(op, r.codes))
GenWhen(cg, e, sc, op, xs) ==
  CheckAndCloseRef(Whened(op, GenScope(cg, e, sc, xs)), e, TopScope(cg, e) + 1)

\* codegen_cond: a scope for every clause, entered in order; the clauses are
\* then compiled from the last one back.  first is the scope of clauses[1].
ClauseBody(codes) ==
  IF Len(codes) = 1 THEN <<>>
  ELSE codes[2] \o DropBefore(SubSeq(codes, 3, Len(codes)))
ClosedClause(closed, test, body, prev) ==
  G(closed.cg, CondClause(test, body, closed.code, prev))
ClauseExp(cg, test, body, prev, e, sc, last) ==
  IF last THEN G(cg, CondLast(test, body))
  ELSE ClosedClause(CheckAndCloseRef(G(cg, body), e, sc), test, body, prev)
ClauseBefore(r, prev, e, sc, last) ==
  ClauseExp(r.cg, r.codes[1], ClauseBody(r.codes), prev, e, sc, last)
GenClause(later, e, sc, clause, last) ==
  ClauseBefore(GenAll(later.cg, e, sc, clause), later.code, e, sc, last)
GenCond(cg, e, first, clauses, n) ==
  GenClause(IF n = Len(clauses) THEN G(cg, <<>>)
            ELSE GenCond(cg, e, first, clauses, n + 1),
            e, first + n - 1, clauses[n], n = Len(clauses))
EnterAll(cg, e, sc, n) ==
  FoldLeft(LAMBDA acc, i : EnterNewScope(acc, e, sc), cg, [i \in 1..n |-> i])

\* What is done in each iteration: the body, then what steps the variables.
DoRest(codes) == IF codes = <<>> THEN <<>> ELSE DropBetween(codes) \o Drop

\* codegen_do0
Do0Exp(r, n) ==
  G(r.cg, LoopExp(r.codes[1], DoRest(SubSeq(r.codes, n + 2, Len(r.codes))),
                  FlattenSeq(SubSeq(r.codes, 2, n + 1))))
GenDo0(cg, e, sc, c, val, xs) ==
  Do0Exp(GenScope(cg, e, sc, <<c>> \o val \o xs), Len(val))

\* codegen_do1: binds are <<name, init>> or <<name, init, next>>.  r has the
\* codes of the test, the value, the body and the next values, in this order.
Stepped(binds) == SelectSeq(binds, LAMBDA b : Len(b) = 3)
Store(cg, e, cs, binds, codes) ==
  FlattenSeq([i \in DOMAIN binds |-> codes[i] \o
                <<I("PUT_LOC", DefIdx(cg, e, cs, binds[i][1]))>> \o Drop])
DoStep(r, e, cs, binds, v, n) ==
  DoRest(SubSeq(r.codes, v + 2, v + 1 + n))
  \o Store(r.cg, e, cs, Stepped(binds), SubSeq(r.codes, v + n + 2, Len(r.codes)))
DoExp(r, inits, e, cs, binds, v, n) ==
  G(r.cg, Store(r.cg, e, cs, binds, inits)
          \o LoopExp(r.codes[1], DoStep(r, e, cs, binds, v, n),
                     FlattenSeq(SubSeq(r.codes, 2, v + 1))))
GenLoop(init, e, cs, binds, c, val, xs) ==
  CheckAndCloseRef(
    DoExp(GenAll(init.cg, e, cs,
                 <<c>> \o val \o xs \o [i \in DOMAIN Stepped(binds) |->
                                         Stepped(binds)[i][3]]),
          init.codes, e, cs, binds, Len(val), Len(xs)), e, cs)
GenDo(cg, e, sc, binds, c, val, xs) ==
  LET cs == TopScope(cg, e) + 1
      names == [i \in DOMAIN binds |-> binds[i][1]]
      inits == [i \in DOMAIN binds |-> binds[i][2]]
  IN GenLoop(GenAll(AddDefs(EnterNewScope(cg, e, sc), e, cs, names), e, sc, inits),
             e, cs, binds, c, val, xs)

Gen(cg, e, sc, x) ==
  CASE x[1] = "num" -> G(cg, <<I("PUSH_INT", x[2])>>)
    [] x[1] = "nil" -> G(cg, PushNil)
    [] x[1] = "quote" -> G(cg, <<I("PUSH_CONST", x[2])>>)
    [] x[1] = "builtin" -> GetRef(BuiltinRef(cg, e, x[2]), e, x[2])
    [] x[1] = "var" -> GenVar(cg, e, sc, x[2])
    [] x[1] = "setq" -> GenSetq(cg, e, sc, x[2], x[3])
    [] x[1] = "define" -> GenDefine(cg, e, sc, x[2], x[3])
    [] x[1] = "begin" ->
         Sequenced(GenAll(cg, e, sc, x[2]))
    [] x[1] = "local" -> GenLocal(cg, e, sc, x[2])
    [] x[1] = "let" -> GenLet(cg, e, sc, x[2], x[3], x[4])
    [] x[1] = "let*" -> Gen(cg, e, sc, LetStar(x[2], x[3], x[4]))
    [] x[1] = "letrec" -> GenLetrec(cg, e, sc, x[2], x[3], x[4])
    [] x[1] = "lambda" -> GenLambda(cg, e, sc, x[2], x[3])
    [] x[1] = "nlet" -> GenNamedLet(cg, e, sc, x[2], x[3], x[4], x[5])
    [] x[1] = "call" ->
         CallOf(<<>>, GenAll(cg, e, sc, x[2]))
    [] x[1] = "prim" ->
         Inlined(GenAll(BuiltinRef(cg, e, x[2]), e, sc, x[3]), x[2])
    [] x[1] = "addk" ->
         Then(Gen(BuiltinRef(cg, e, "ADDK"), e, sc, x[3]), I("ADDK", x[2]))
    [] x[1] = "if" -> GenIf(cg, e, sc, x[2], x[3], x[4])
    [] x[1] = "if0" ->
         If0Exp(GenScope(cg, e, sc, <<x[2], x[3]>>))
    [] x[1] = "when" -> GenWhen(cg, e, sc, "JMP_IF_FALSE", x[2])
    [] x[1] = "unless" -> GenWhen(cg, e, sc, "JMP_IF_TRUE", x[2])
    [] x[1] = "and" ->
         AndOr(GenScope(cg, e, sc, x[2]), "JMP_IF_FALSE", I("PUSH_INT", 1))
    [] x[1] = "or" ->
         AndOr(GenScope(cg, e, sc, x[2]), "JMP_IF_TRUE", I("PUSH_NIL", 0))
    [] x[1] = "cond" ->
         IF x[2] = <<>> THEN G(cg, PushNil)
         ELSE GenCond(EnterAll(cg, e, sc, Len(x[2])), e, TopScope(cg, e) + 1,
                      x[2], 1)
    [] x[1] = "do0" -> GenDo0(cg, e, sc, x[2], x[3], x[4])
    [] x[1] = "do" -> GenDo(cg, e, sc, x[2], x[3], x[4], x[5])

\* A program: the expressions of the file in one environment, then RET
\* (last_bc_process).
LastBc(r) == G(ResolveRef(r.cg, 1, 1), SequenceExp(r.codes) \o <<I("RET", 0)>>)
GenProgram(xs) == LastBc(GenAll(CreateCgEnv(<<>>, 0, 0), 1, 1, xs))
=============================================================================
