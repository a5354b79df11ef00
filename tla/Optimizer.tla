----------------------------- MODULE Optimizer -----------------------------
(***************************************************************************)
(* The peephole optimizer of src/src/optimizer.c: a window of a few        *)
(* instructions slides over the code of a file (the bodies of its          *)
(* procedures are part of it), the first rule that matches replaces the    *)
(* start of the window by one instruction, the others become DUMMY, and    *)
(* this is repeated until nothing changes.                                 *)
(*                                                                         *)
(* A buffer entry is an instruction with the block that starts at it (blk, *)
(* 0 for none) and the block it jumps to (jmp).  A block's number is the   *)
(* position it starts at before the first rewriting, so that the source's  *)
(* table block_start, which is filled once, is the identity.               *)
(*                                                                         *)
(* Left out: instructions of more than one word, folding with three        *)
(* operands, MUL and DIV.                                                  *)
(***************************************************************************)
EXTENDS Integers, Sequences, FiniteSets, SequencesExt

PEEPHOLE_SIZE == 4                  \* 12 in the source; no rule looks further
JmpOps == {"JMP", "JMP_IF_TRUE", "JMP_IF_FALSE"}
CondJmpOps == {"JMP_IF_TRUE", "JMP_IF_FALSE"}

\* fklByteCodeBufferScanAndSetBasicBlock, scan_and_set_block_start
ScanBasicBlocks(code) ==
  LET jumps == {p \in DOMAIN code : code[p].op \in JmpOps \cup {"MAKE_PROC"}}
      starts == {1} \cup {p + 1 : p \in jumps}
                \cup {p + 1 + code[p].a : p \in jumps}
  IN [p \in DOMAIN code |->
        [op |-> code[p].op, a |-> code[p].a, b |-> code[p].b,
         blk |-> IF p \in starts THEN p ELSE 0,
         jmp |-> IF p \in jumps THEN p + 1 + code[p].a ELSE 0]] \o <<>>

-----------------------------------------------------------------------------
(* The rules.  Each gives, for a window w, how many instructions it         *)
(* replaces (0: it does not match) and by what.                             *)

NoMatch == [n |-> 0, out |-> <<>>, blocks |-> FALSE]
Match(n, e) == [n |-> n, out |-> e, blocks |-> FALSE]
Op(w, k) == IF k <= Len(w) THEN w[k].op ELSE "NONE"
If(c, m) == IF c THEN m ELSE NoMatch
As(e, op, a, b) == [e EXCEPT !.op = op, !.a = a, !.b = b]

Not3(w) == If(/\ Op(w, 2) = "NOT" /\ Op(w, 3) = "NOT",
              Match(3, w[1]))

IncOrDecLoc(w) ==
  If(/\ Op(w, 2) = "ADDK" /\ Op(w, 3) = "PUT_LOC"
     /\ w[1].a = w[3].a,
     Match(3, As(w[1], "ADDK_LOC", w[2].a, w[1].a)))

NotJmpIf(w, buf) ==
  If(/\ Op(w, 2) \in CondJmpOps /\ Op(w, 3) = "DROP"
     /\ buf[w[2].jmp].op = "DROP",
     Match(2, [w[2] EXCEPT !.op = IF @ = "JMP_IF_TRUE" THEN "JMP_IF_FALSE"
                                  ELSE "JMP_IF_TRUE"]))

PutLocDrop(w) == If(Op(w, 2) = "DROP", Match(2, [w[1] EXCEPT !.op = "POP_LOC"]))

PopAndGetLoc(w) ==
  If(/\ Op(w, 2) = "GET_LOC" /\ w[1].a = w[2].a,
     Match(2, [w[1] EXCEPT !.op = "PUT_LOC"]))

\* The target is looked up where its block started before the rewriting.
JmpToRet(w, buf) ==
  If(buf[w[1].jmp].op = "RET",
     Match(1, [w[1] EXCEPT !.op = CASE @ = "JMP" -> "RET"
                                    [] @ = "JMP_IF_TRUE" -> "RET_IF_TRUE"
                                    [] OTHER -> "RET_IF_FALSE"]))

Folded(e, op, x, y) ==
  CASE op = "ADD" -> As(e, "PUSH_INT", x + y, 0)
    [] op = "SUB" -> As(e, "PUSH_INT", x - y, 0)
    [] op = "IDIV" /\ y # 0 -> As(e, "PUSH_INT", x \div y, 0)
    [] OTHER -> As(e, "SIGFPE", 0, 0)

Oprand1Fold(w) ==
  If(Op(w, 2) = "ADDK",
     Match(2, [w[1] EXCEPT !.a = @ + w[2].a]))

\* is_foldable_op2: what is tested to be other than zero is the dividend.
Foldable2(op, x, y) == op \in {"ADD", "SUB"} \/ (op = "IDIV" /\ x # 0)

Oprand2Fold(w) ==
  If(/\ Op(w, 2) = "PUSH_INT" /\ Len(w) >= 3
     /\ Foldable2(w[3].op, w[1].a, w[2].a),
     Match(3, Folded(w[1], w[3].op, w[1].a, w[2].a)))

\* The one rule whose window may reach into a second block.
NilCondDrop(w) ==
  If(/\ Len(w) >= 4
     /\ Op(w, 2) \in {"JMP_IF_TRUE", "RET_IF_TRUE"} /\ Op(w, 3) = "DROP"
     /\ Cardinality({k \in 2..4 : w[k].blk # 0}) <= 1,
     [Match(4, [w[4] EXCEPT !.blk = w[1].blk]) EXCEPT !.blocks = TRUE])

PushConstNot(w) ==
  If(Op(w, 2) = "NOT",
     Match(2, IF w[1].op = "PUSH_NIL" THEN As(w[1], "PUSH_INT", 1, 0)
              ELSE As(w[1], "PUSH_NIL", 0, 0)))

\* The operand of an instruction with one operand has 24 bits; uB are its upper
\* 16, uA its lower 8.
UINT8_MAX == 255
uB(e) == e.a \div (UINT8_MAX + 1)

MovLoc1(w) ==
  If(/\ Op(w, 2) = "PUT_LOC" /\ w[1].a <= UINT8_MAX,
     Match(2, As(w[1], "MOV_LOC", w[1].a, w[2].a)))

\* What mov_var_ref_pred bounds is uB of the reference, not the reference.
MovVarRef1(w) ==
  If(/\ Op(w, 2) = "PUT_VAR_REF" /\ uB(w[1]) <= UINT8_MAX,
     Match(2, As(w[1], "MOV_VAR_REF", w[1].a % (UINT8_MAX + 1), w[2].a)))

SameMov(w) == w[3].op = w[1].op /\ w[3].a = w[1].a /\ w[3].b = w[1].b

MovLocDropGet(w) ==
  If(/\ Op(w, 2) = "DROP" /\ Len(w) >= 3
     /\ SameMov(w) \/ (w[3].op = "GET_LOC" /\ w[3].a = w[1].a),
     Match(3, w[1]))

\* mov_var_ref_drop_get_pred compares uB of the reference, 0 for the first 256.
MovVarRefDropGet(w) ==
  If(/\ Op(w, 2) = "DROP" /\ Len(w) >= 3
     /\ SameMov(w) \/ (w[3].op = "GET_VAR_REF" /\ uB(w[3]) = w[1].a),
     Match(3, w[1]))

MovToGet(get, w) ==
  If(w[1].a = w[1].b, Match(1, As(w[1], get, w[1].a, 0)))

\* PeepholeOptimizers: the rules that may match a window, by its first
\* instruction, in the order of the table.  jmp_to_jmp, whose condition no
\* instruction meets, is left out.
Rules(w, buf) ==
  LET op == w[1].op
  IN CASE op = "NOT" -> <<Not3(w), NotJmpIf(w, buf)>>
       [] op = "GET_LOC" -> <<IncOrDecLoc(w), MovLoc1(w)>>
       [] op = "PUT_LOC" -> <<PutLocDrop(w)>>
       [] op = "POP_LOC" -> <<PopAndGetLoc(w)>>
       [] op \in JmpOps -> <<JmpToRet(w, buf)>>
       [] op = "PUSH_INT" -> <<Oprand1Fold(w), Oprand2Fold(w), PushConstNot(w)>>
       [] op = "PUSH_NIL" -> <<NilCondDrop(w), PushConstNot(w)>>
       [] op = "PUSH_CONST" -> <<PushConstNot(w)>>
       [] op = "MOV_LOC" -> <<MovLocDropGet(w), MovToGet("GET_LOC", w)>>
       [] op = "GET_VAR_REF" -> <<MovVarRef1(w)>>
       [] op = "MOV_VAR_REF" -> <<MovVarRefDropGet(w),
                                  MovToGet("GET_VAR_REF", w)>>
       [] OTHER -> <<>>

RuleHeads == JmpOps \cup {"NOT", "GET_LOC", "PUT_LOC", "POP_LOC", "PUSH_INT",
  "PUSH_NIL", "PUSH_CONST", "MOV_LOC", "GET_VAR_REF", "MOV_VAR_REF", "DUMMY"}

IsInOneBlock(w, n) == \A k \in 2..n : w[k].blk = 0

-----------------------------------------------------------------------------
\* do_peephole_optimize, from position i on.  What replaces the window is
\* written at i, which may be a DUMMY before the window's first instruction.
RECURSIVE Pass(_, _, _), Window(_, _, _)
Window(buf, i, n) ==
  IF n = 0 \/ i > Len(buf) THEN <<>>
  ELSE IF buf[i].op = "DUMMY" THEN Window(buf, i + 1, n)
  ELSE <<i>> \o Window(buf, i + 1, n - 1)

Done(buf, changed) == [buf |-> buf, changed |-> changed]

\* The window valid[1..n] gives way to out, and the next one starts at next.
Replaced(buf, i, next, out) ==
  SubSeq(buf, 1, i - 1) \o <<out>>
  \o [k \in 1..(next - i - 1) |-> [buf[i + k] EXCEPT !.op = "DUMMY"]]
  \o SubSeq(buf, next, Len(buf))

\* The first rule that matches.
FirstOf(hits) ==
  IF hits = <<>> THEN NoMatch ELSE hits[1]
MatchOf(w, rules) ==
  FirstOf(SelectSeq(rules, LAMBDA r : r.n > 0 /\ (r.blocks \/ IsInOneBlock(w, r.n))))

Rewrite(buf, i, next, m, blk) ==
  Pass(Replaced(buf, i, next, [m.out EXCEPT !.blk = blk]), next, TRUE)
PassWith(buf, i, changed, valid, w, m) ==
  IF m.n = 0 THEN Pass(buf, valid[1] + 1, changed)
  ELSE Rewrite(buf, i, IF m.n < Len(w) THEN valid[m.n + 1] ELSE Len(buf) + 1,
               m, w[1].blk)
PassOver(buf, i, changed, valid, w) ==
  PassWith(buf, i, changed, valid, w, MatchOf(w, Rules(w, buf)))
PassAt(buf, i, changed, valid) ==
  IF valid = <<>> THEN Done(buf, changed)
  ELSE PassOver(buf, i, changed, valid, [k \in DOMAIN valid |-> buf[valid[k]]] \o <<>>)

Pass(buf, i, changed) ==
  IF i > Len(buf) THEN Done(buf, changed)
  ELSE IF buf[i].op \notin RuleHeads THEN Pass(buf, i + 1, changed)
  ELSE PassAt(buf, i, changed, Window(buf, i, PEEPHOLE_SIZE + 1))

RECURSIVE Optimized(_)
UntilStable(r) == IF r.changed THEN Optimized(r.buf) ELSE r.buf
Optimized(buf) == UntilStable(Pass(buf, 1, FALSE))

\* remove_dummy_code, recompute_jmp_target
BlockAt(left, b) == CHOOSE p \in DOMAIN left : left[p].blk = b
Placed(left, p) ==
  [op |-> left[p].op, b |-> left[p].b,
   a |-> IF left[p].op \in JmpOps \cup {"MAKE_PROC"}
         THEN BlockAt(left, left[p].jmp) - p - 1 ELSE left[p].a]
Recomputed(left) == [p \in DOMAIN left |-> Placed(left, p)] \o <<>>
WithoutDummies(buf) == SelectSeq(buf, LAMBDA e : e.op # "DUMMY")

\* fklPeepholeOptimize
PeepholeOptimize(code) == Recomputed(WithoutDummies(Optimized(ScanBasicBlocks(code))))
=============================================================================
