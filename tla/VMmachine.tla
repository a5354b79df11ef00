----------------------------- MODULE VMmachine -----------------------------
(***************************************************************************)
(* The byte code machine: one thread of the virtual machine running byte   *)
(* code (src/src/vmdispatch.h, vmreturn.h, vmrun.c), with its value stack, *)
(* its compound frames, its procedures and the references they share with  *)
(* the frames whose variables they use.  VMexec runs it on the code that   *)
(* CodeGen makes of a program.                                             *)
(*                                                                         *)
(* The stack holds, for each call, the caller's bp, the frame (one cell    *)
(* here, FKL_VM_FRAME_SIZE words there), the procedure called and then its *)
(* local variables.  Positions count from 1.  pcall, xpcall and raise are  *)
(* procedures written in C (src/src/builtin.c), with frames of their own.  *)
(***************************************************************************)
EXTENDS LangValue

VARIABLES
  prog,      \* the program that runs
  opt,       \* whether its code went through the peephole optimizer
  code,      \* its byte code
  protos,    \* its prototypes, one for each environment of the generator
  stk,       \* exe->base, up to tp
  bp,        \* exe->bp: the frame cell of the call being prepared or made
  frames,    \* the frames, top_frame last; a frame's lrefl is kept as a set
  procs,     \* the procedures made so far
  refs,      \* the variable references made so far
  res        \* what the program ended with; Null while it runs

loaded == <<prog, opt, code, protos>>
vars == <<prog, opt, code, protos, stk, bp, frames, procs, refs, res>>

Abort == <<"abort">>               \* vmreturn.h: more or less than one value
Crash == <<"crash">>               \* the compiler itself died

Top == frames[Len(frames)]
Ins == code[Top.pc]

\* FKL_VM_GET_ARG: the cell of local variable i; -1 is the procedure.
Loc(f, i) == f.bp + 3 + i

\* fklVMframeSetSp: room for the local variables, those that are not arguments
\* undefined.  s is the stack up to the last argument.
FrameAt(s, b, p, entry) ==
  [proc |-> p, cproc |-> "none", pc |-> entry, bp |-> b, mark |-> "ret",
   args |-> Len(s) - (b + 2), sp |-> b + 2 + protos[procs[p].env].lcount,
   lref |-> [i \in 1..protos[procs[p].env].lcount |-> 0], lrefl |-> {},
   state |-> "none", handlers |-> <<>>]

\* call_cproc: a procedure written in C has no variables; state is what it
\* keeps between its steps, "new" before the first one.
CFrameAt(s, b, name) ==
  [proc |-> 0, cproc |-> name, pc |-> 0, bp |-> b, mark |-> "ret",
   args |-> Len(s) - (b + 2), sp |-> Len(s), lref |-> <<>>, lrefl |-> {},
   state |-> "new", handlers |-> <<>>]
Pad(s, sp) == s \o [i \in 1..(IF sp > Len(s) THEN sp - Len(s) ELSE 0) |-> Null]

Alive == res = Null /\ Top.cproc = "none"
Running(op) == Alive /\ Ins.op = op

\* The instructions that fall through to the next one.
SetTop(f) == [frames EXCEPT ![Len(frames)] = f]
Goto(d) == frames' = SetTop([Top EXCEPT !.pc = @ + 1 + d])
TopValue == stk[Len(stk)]
Popped(n) == SubSeq(stk, 1, Len(stk) - n)

-----------------------------------------------------------------------------
(* Calls of a value, and errors.                                           *)

Closed(rs, s) == [r \in DOMAIN refs |->
  IF r \in rs /\ refs[r].pos # 0
  THEN [refs[r] EXCEPT !.pos = 0, !.val = s[refs[r].pos]] ELSE refs[r]]

\* fklCallObj, with fklPrepCall: v and its arguments are on s, after the room for
\* a frame at b.  fs are the frames below; the frames that are left close the
\* references in gone.
CallObj(v, s, b, fs, gone) ==
  LET f == IF v[1] = "p" THEN FrameAt(s, b, v[2], procs[v[2]].entry)
           ELSE CFrameAt(s, b, v[2])
  IN /\ frames' = Append(fs, f)
     /\ stk' = Pad(s, f.sp)
     /\ bp' = b
     /\ refs' = Closed(gone, stk)
     /\ UNCHANGED <<loaded, procs, res>>

\* FKL_CPROC_RETURN
CprocReturned(f, v) ==
  /\ stk' = Append(SubSeq(stk, 1, f.bp - 1), v)
  /\ bp' = stk[f.bp][2]

RefsFrom(k) == UNION {frames[i].lrefl : i \in k..Len(frames)}

\* Argument i of an xpcall is a list of types, its handler comes after it.
Handles(vs, i, t) == i \in 2..Len(vs) /\ i % 2 = 0 /\ ShouldHandle(vs[i], t)

\* The frames whose errorCallBack takes an error of type t.
Catches(f, t) ==
  /\ f.cproc \in {"pcall", "xpcall"} /\ f.state = "called"
  /\ f.cproc = "pcall" \/ \E i \in DOMAIN f.handlers : Handles(f.handlers, i, t)

\* pcall_error_handler
CaughtByPcall(k, e) ==
  /\ CprocReturned(frames[k], ErrorValue(e))
  /\ frames' = [SubSeq(frames, 1, k) EXCEPT ![k].state = "caught"]
  /\ refs' = Closed(RefsFrom(k + 1), stk)
  /\ UNCHANGED <<loaded, procs, res>>

\* errorCallBackWithErrorHandler: the first handler that fits takes the place of
\* the xpcall.
CaughtByXpcall(k, e) ==
  LET f == frames[k]
  IN \E i \in DOMAIN f.handlers :
       /\ Handles(f.handlers, i, e[2])
       /\ \A j \in 2..(i - 1) : ~Handles(f.handlers, j, e[2])
       /\ LET h == f.handlers[i + 1]
          IN CallObj(h, SubSeq(stk, 1, f.bp + 1) \o <<h, ErrorValue(e)>>, f.bp,
                     SubSeq(frames, 1, k - 1), RefsFrom(k + 1))

\* fklRaiseVMerror, and what fklRunVM does after the longjmp: the innermost frame
\* that takes the error.
Raise(e) ==
  IF \A k \in DOMAIN frames : ~Catches(frames[k], e[2])
  THEN res' = e /\ UNCHANGED <<loaded, stk, bp, frames, procs, refs>>
  ELSE \E k \in DOMAIN frames :
         /\ Catches(frames[k], e[2])
         /\ \A j \in (k + 1)..Len(frames) : ~Catches(frames[j], e[2])
         /\ IF frames[k].cproc = "pcall" THEN CaughtByPcall(k, e)
            ELSE CaughtByXpcall(k, e)

-----------------------------------------------------------------------------
(* Values and local variables.                                             *)

Only(s) == stk' = s /\ UNCHANGED <<loaded, bp, procs, refs, res>>

Push ==
  /\ Alive /\ Ins.op \in {"PUSH_INT", "PUSH_NIL", "PUSH_CONST", "LOAD_PROTO"}
  /\ Only(Append(stk, CASE Ins.op = "PUSH_INT" -> Num(Ins.a)
                        [] Ins.op = "PUSH_NIL" -> Nil
                        [] Ins.op = "PUSH_CONST" -> Ins.a
                        [] OTHER -> <<"proto", Ins.a>>))
  /\ Goto(0)

DropTop ==
  /\ Running("DROP")
  /\ Only(IF Len(stk) > Top.sp THEN Popped(1) ELSE stk)
  /\ Goto(0)

PrimOps == {"PUSH_PAIR", "NOT", "EQN", "ADD", "SUB", "IDIV", "ADDK"}

\* The instructions builtins are inlined to.
Compute ==
  /\ Alive /\ Ins.op \in PrimOps
  /\ LET n == IF Ins.op = "ADDK" THEN 1 ELSE Ins.a
         args == SubSeq(stk, Len(stk) - n + 1, Len(stk))
         v == IF Ins.op = "ADDK" THEN Prim("ADD", <<args[1], Num(Ins.a)>>)
              ELSE Prim(Ins.op, args)
     IN IF IsErr(v) THEN Raise(v)
        ELSE Only(Append(Popped(n), v)) /\ Goto(0)

GetLoc ==
  /\ Running("GET_LOC")
  /\ Only(Append(stk, stk[Loc(Top, Ins.a)])) /\ Goto(0)

PutLoc ==
  /\ Running("PUT_LOC")
  /\ Only([stk EXCEPT ![Loc(Top, Ins.a)] = TopValue]) /\ Goto(0)

PopLoc ==
  /\ Running("POP_LOC")
  /\ LET v == TopValue
     IN Only([Popped(1) EXCEPT ![Loc(Top, Ins.a)] = v])
  /\ Goto(0)

MovLoc ==
  /\ Running("MOV_LOC")
  /\ LET v == stk[Loc(Top, Ins.a)]
     IN Only(Append([stk EXCEPT ![Loc(Top, Ins.b)] = v], v))
  /\ Goto(0)

AddkLoc ==
  /\ Running("ADDK_LOC")
  /\ LET v == Prim("ADD", <<stk[Loc(Top, Ins.b)], Num(Ins.a)>>)
     IN IF IsErr(v) THEN Raise(v)
        ELSE /\ Only(Append([stk EXCEPT ![Loc(Top, Ins.b)] = v], v))
             /\ Goto(0)

Jump ==
  /\ Alive /\ Ins.op \in {"JMP", "JMP_IF_TRUE", "JMP_IF_FALSE"}
  /\ Goto(IF \/ Ins.op = "JMP"
             \/ Ins.op = "JMP_IF_TRUE" /\ TopValue # Nil
             \/ Ins.op = "JMP_IF_FALSE" /\ TopValue = Nil
          THEN Ins.a ELSE 0)
  /\ Only(stk)

-----------------------------------------------------------------------------
(* References: an open one stands for a cell of the stack, a closed one has *)
(* the value itself.                                                        *)

RefValue(r) == IF refs[r].pos # 0 THEN stk[refs[r].pos] ELSE refs[r].val
Ref(i) == procs[Top.proc].closure[i + 1]

\* fetch_var_ref for each reference of the prototype: the variables of this
\* frame that are captured for the first time get a reference, which the frame
\* remembers (insert_local_ref).  A variable's new reference has a number of its
\* own; the last one stands for a name that was never resolved.
MakeProc ==
  /\ Running("MAKE_PROC")
  /\ LET env == TopValue[2]
         defs == protos[env].refs
         n == Len(Top.lref)
         new == {i \in 1..n : /\ Top.lref[i] = 0
                              /\ \E j \in DOMAIN defs :
                                   defs[j].local /\ defs[j].cidx = i - 1}
         Nr(i) == Len(refs) + i
         lref == [i \in 1..n |-> IF i \in new THEN Nr(i) ELSE Top.lref[i]]
         dangling == Len(refs) + n + 1
         Fetch(d) == IF d.local THEN lref[d.cidx + 1]
                     ELSE IF d.cidx \in 0..(Len(procs[Top.proc].closure) - 1)
                     THEN Ref(d.cidx) ELSE dangling
     IN /\ procs' = Append(procs, [env |-> env, entry |-> Top.pc + 1,
                                   closure |-> [i \in DOMAIN defs |-> Fetch(defs[i])]])
        /\ refs' = refs \o [i \in 1..(n + 1) |->
                              [pos |-> IF i \in new THEN Loc(Top, i - 1) ELSE 0,
                               idx |-> i - 1, val |-> Null]]
        /\ frames' = SetTop([Top EXCEPT !.pc = @ + 1 + Ins.a, !.lref = lref,
                               !.lrefl = @ \cup {Nr(i) : i \in new}])
        /\ stk' = [stk EXCEPT ![Len(stk)] = <<"p", Len(procs) + 1>>]
        /\ UNCHANGED <<loaded, bp, res>>

Undefined == Err("symbol-error")

GetVarRef ==
  /\ Running("GET_VAR_REF")
  /\ LET v == RefValue(Ref(Ins.a))
     IN IF v = Null THEN Raise(Undefined) ELSE Only(Append(stk, v)) /\ Goto(0)

\* Assigning to reference r, whose variable must have a value already.
Assigned(r, v) ==
  /\ refs' = IF refs[r].pos # 0 THEN refs ELSE [refs EXCEPT ![r].val = v]
  /\ Goto(0)
  /\ UNCHANGED <<loaded, bp, procs, res>>
InStack(r, s, v) == IF refs[r].pos # 0 THEN [s EXCEPT ![refs[r].pos] = v] ELSE s

PutVarRef ==
  /\ Running("PUT_VAR_REF")
  /\ LET r == Ref(Ins.a)
     IN IF RefValue(r) = Null THEN Raise(Undefined)
        ELSE Assigned(r, TopValue) /\ stk' = InStack(r, stk, TopValue)

MovVarRef ==
  /\ Running("MOV_VAR_REF")
  /\ LET v == RefValue(Ref(Ins.a))
         r == Ref(Ins.b)
     IN IF v = Null \/ RefValue(r) = Null THEN Raise(Undefined)
        ELSE Assigned(r, v) /\ stk' = Append(InStack(r, stk, v), v)

\* close_var_ref_from
CloseRef ==
  /\ Running("CLOSE_REF")
  /\ LET gone == {r \in Top.lrefl : refs[r].idx >= Ins.a}
     IN /\ refs' = Closed(gone, stk)
        /\ frames' = SetTop([Top EXCEPT !.pc = @ + 1, !.lrefl = @ \ gone,
             !.lref = [i \in DOMAIN @ |-> IF @[i] \in gone THEN 0 ELSE @[i]]])
        /\ UNCHANGED <<loaded, stk, bp, procs, res>>

-----------------------------------------------------------------------------
(* Calls.                                                                  *)

SetBp ==
  /\ Running("SET_BP")
  /\ stk' = stk \o <<<<"bp", bp>>, Null>>
  /\ bp' = Len(stk) + 1
  /\ Goto(0)
  /\ UNCHANGED <<loaded, procs, refs, res>>

Callee == stk[bp + 2]

\* The rest of the caller's code runs when the callee has returned.
Enter ==
  CallObj(Callee, stk, bp, SetTop([Top EXCEPT !.pc = @ + 1]), {})

Call ==
  /\ Running("CALL")
  /\ IF ~Callable(Callee) THEN Raise(Err("call-error")) ELSE Enter

\* A procedure that calls itself last runs on to its RET, which starts it again.
TailCall ==
  /\ Running("TAIL_CALL")
  /\ IF ~Callable(Callee) THEN Raise(Err("call-error"))
     ELSE IF Callee # <<"p", Top.proc>> THEN Enter
     ELSE /\ frames' = SetTop([Top EXCEPT !.pc = @ + 1, !.mark = "call"])
          /\ Only(stk)

CheckArg ==
  /\ Running("CHECK_ARG")
  /\ IF Top.args # Ins.a THEN Raise(Err("arg-error")) ELSE Only(stk) /\ Goto(0)

Leaves ==
  \/ Ins.op = "RET"
  \/ Ins.op = "RET_IF_TRUE" /\ TopValue # Nil
  \/ Ins.op = "RET_IF_FALSE" /\ TopValue = Nil

\* vmreturn.h, mark RET: one value is left, where the caller's bp was.
Return ==
  /\ Alive /\ Leaves /\ Top.mark = "ret"
  /\ IF Len(stk) # Top.sp + 1
     THEN res' = Abort /\ UNCHANGED <<stk, bp, frames, refs>>
     ELSE /\ stk' = Append(SubSeq(stk, 1, Top.bp - 1), TopValue)
          /\ bp' = stk[Top.bp][2]
          /\ refs' = Closed(Top.lrefl, stk)
          /\ frames' = SubSeq(frames, 1, Len(frames) - 1)
          /\ res' = IF Len(frames) = 1 THEN <<"value", TopValue>> ELSE Null
  /\ UNCHANGED <<loaded, procs>>

\* Mutant: the references to the old arguments stay open.
Bug_RestartKeepsRefs ==
  /\ Alive /\ Leaves /\ Top.mark = "call"
  /\ LET s == SubSeq(stk, 1, Top.bp + 1) \o SubSeq(stk, bp + 2, Len(stk))
         f == FrameAt(s, Top.bp, Top.proc, procs[Top.proc].entry)
     IN /\ stk' = Pad(s, f.sp)
        /\ bp' = Top.bp
        /\ frames' = SetTop(f)
  /\ UNCHANGED <<loaded, procs, refs, res>>

\* vmreturn.h, mark CALL: the new arguments are moved over the old ones.
Restart ==
  /\ Alive /\ Leaves /\ Top.mark = "call"
  /\ LET s == SubSeq(stk, 1, Top.bp + 1) \o SubSeq(stk, bp + 2, Len(stk))
         f == FrameAt(s, Top.bp, Top.proc, procs[Top.proc].entry)
     IN /\ refs' = Closed(Top.lrefl, stk)
        /\ stk' = Pad(s, f.sp)
        /\ bp' = Top.bp
        /\ frames' = SetTop(f)
  /\ UNCHANGED <<loaded, procs, res>>

PassBy ==
  /\ Alive /\ Ins.op \in {"RET_IF_TRUE", "RET_IF_FALSE"} /\ ~Leaves
  /\ Only(stk) /\ Goto(0)

-----------------------------------------------------------------------------
(* The builtins that call.                                                 *)

Stepping(name, state) ==
  res = Null /\ Top.cproc = name /\ Top.state = state
Args == SubSeq(stk, Top.bp + 3, Len(stk))
PopFrame == frames' = SubSeq(frames, 1, Len(frames) - 1)

\* builtin_pcall, first step: the procedure and its arguments are moved up to
\* make room for its frame, over the pcall itself.
Pcall ==
  /\ Stepping("pcall", "new")
  /\ IF BadArgs("pcall", Args) # Nil THEN Raise(BadArgs("pcall", Args))
     ELSE CallObj(Args[1],
                  SubSeq(stk, 1, bp + 1) \o <<<<"bp", bp>>, Null>> \o Args, bp + 2,
                  SetTop([Top EXCEPT !.state = "called"]), {})

\* Its second step: the procedure has returned.
PcallReturns ==
  /\ Stepping("pcall", "called")
  /\ CprocReturned(Top, <<"box", TopValue>>)
  /\ PopFrame
  /\ UNCHANGED <<loaded, procs, refs, res>>

\* Its second step after an error, which is returned already.
PcallLeaves ==
  /\ Stepping("pcall", "caught")
  /\ PopFrame
  /\ UNCHANGED <<loaded, stk, bp, procs, refs, res>>

\* builtin_xpcall: without handlers the procedure takes its place.
Xpcall ==
  /\ Stepping("xpcall", "new")
  /\ IF BadArgs("xpcall", Args) # Nil THEN Raise(BadArgs("xpcall", Args))
     ELSE IF Len(Args) = 1
     THEN CallObj(Args[1], SubSeq(stk, 1, bp + 1) \o Args, bp,
                  SubSeq(frames, 1, Len(frames) - 1), {})
     ELSE CallObj(Args[1], stk \o <<<<"bp", bp>>, Null, Args[1]>>, Len(stk) + 1,
                  SetTop([Top EXCEPT !.state = "called", !.handlers = Args]), {})

\* error_handler_frame_step
XpcallReturns ==
  /\ Stepping("xpcall", "called")
  /\ CprocReturned(Top, TopValue)
  /\ PopFrame
  /\ UNCHANGED <<loaded, procs, refs, res>>

\* builtin_raise.  Its frame is gone when the handlers are looked for; that it
\* has put the error where its result goes makes no difference to them.
RaiseProc ==
  /\ Stepping("raise", "new")
  /\ Raise(IF BadArgs("raise", Args) # Nil THEN BadArgs("raise", Args)
           ELSE Err(Args[1][2]))

Ended == res # Null /\ UNCHANGED vars

Next ==
  \/ Push \/ DropTop \/ Compute \/ Jump
  \/ GetLoc \/ PutLoc \/ PopLoc \/ MovLoc \/ AddkLoc
  \/ MakeProc \/ GetVarRef \/ PutVarRef \/ MovVarRef \/ CloseRef
  \/ SetBp \/ Call \/ TailCall \/ CheckArg \/ Return \/ Restart \/ PassBy
  \/ Pcall \/ PcallReturns \/ PcallLeaves \/ Xpcall \/ XpcallReturns \/ RaiseProc
  \/ Ended

-----------------------------------------------------------------------------
(* Its start.                                                              *)

\* init_builtin_symbol_ref: the references of the program itself are the
\* builtins; a name that is neither has no value.
BuiltinRefs(defs) ==
  [i \in DOMAIN defs |->
     [pos |-> 0, idx |-> 0,
      val |-> IF defs[i].id \in {"pcall", "xpcall", "raise"}
              THEN <<"cp", defs[i].id>> ELSE Null]]

\* The code of a file is called without arguments, as procedure 1.
Start ==
  /\ procs = <<[env |-> 1, entry |-> 1,
                 closure |-> [i \in DOMAIN protos[1].refs |-> i]]>>
  /\ frames = <<FrameAt(<<<<"bp", 0>>, Null, <<"p", 1>>>>, 1, 1, 1)>>
  /\ stk = Pad(<<<<"bp", 0>>, Null, <<"p", 1>>>>, frames[1].sp)
  /\ bp = 1
  /\ refs = BuiltinRefs(protos[1].refs)
  /\ res = IF \E i \in DOMAIN code : code[i].op = "SIGFPE" THEN Crash ELSE Null

-----------------------------------------------------------------------------
(* Byte code that keeps the stack in order.  The machine checks none of    *)
(* this when it runs: it relies on the code generator.                     *)
(*                                                                         *)
(* Of the code c with the prototypes ps, at tells for each instruction     *)
(* that can be reached the prototype it belongs to, how many values lie    *)
(* above the local variables before it runs, and how many lay there at     *)
(* each SET_BP whose CALL is still to come.  tails are the instructions    *)
(* between a TAIL_CALL and its RET.                                        *)

At(e, h, open) == [env |-> e, h |-> h, open |-> open]
Innermost(open) == open[Len(open)]
Outer(open) == SubSeq(open, 1, Len(open) - 1)

\* The lowest height the values of the calls being prepared leave to the others.
Floor(open) == IF open = <<>> THEN 0 ELSE Innermost(open) + 2

Leads(c, at, k, j, h, open) ==
  /\ j \in DOMAIN at
  /\ at[j] = At(at[k].env, h, open)
  /\ c[j].op # "CHECK_ARG"
  /\ c[j].op = "MAKE_PROC" => c[k].op = "LOAD_PROTO" /\ j = k + 1

\* How many values an instruction that falls through takes and gives.
Takes(i) ==
  CASE i.op \in {"PUSH_PAIR", "NOT", "EQN", "ADD", "SUB", "IDIV"} -> i.a
    [] i.op \in {"DROP", "ADDK", "PUT_LOC", "POP_LOC", "PUT_VAR_REF"} -> 1
    [] OTHER -> 0
Gives(i) == IF i.op \in {"DROP", "POP_LOC"} THEN 0 ELSE 1

Straight == {"PUSH_INT", "PUSH_NIL", "PUSH_CONST", "LOAD_PROTO", "DROP",
  "PUT_LOC", "GET_LOC", "POP_LOC", "MOV_LOC", "ADDK_LOC", "GET_VAR_REF",
  "PUT_VAR_REF", "MOV_VAR_REF"} \cup PrimOps

\* The operands name variables and references of the prototype.
InRange(i, p) ==
  /\ i.op \in PrimOps \ {"ADDK"} => i.a \in Nat
  /\ i.op \in {"GET_LOC", "PUT_LOC", "POP_LOC", "MOV_LOC"} => i.a \in 0..(p.lcount - 1)
  /\ i.op \in {"MOV_LOC", "ADDK_LOC"} => i.b \in 0..(p.lcount - 1)
  /\ i.op \in {"GET_VAR_REF", "PUT_VAR_REF", "MOV_VAR_REF"} => i.a + 1 \in DOMAIN p.refs
  /\ i.op = "MOV_VAR_REF" => i.b + 1 \in DOMAIN p.refs
  /\ i.op = "PUSH_CONST" => i.a[1] \notin {"p", "cp"}

\* The body of a procedure begins behind its MAKE_PROC.
BodyAt(c, ps, at, k, e) ==
  /\ e \in DOMAIN ps
  /\ k \in DOMAIN at
  /\ at[k] = At(e, 0, <<>>)
  /\ c[k].op = "CHECK_ARG" /\ c[k].a \in 0..ps[e].lcount

\* What its prototype captures of the procedure that makes it is there.
CapturesOf(ps, e, p) ==
  \A i \in DOMAIN ps[e].refs :
    LET d == ps[e].refs[i]
    IN d.cidx \in Int /\ (d.local => d.cidx \in 0..(p.lcount - 1))

Verifies(c, ps, at, tails, k) ==
  LET i == c[k]
      h == at[k].h
      open == at[k].open
      p == ps[at[k].env]
      Falls(n) == Leads(c, at, k, k + 1, n, open)
  IN /\ i.op \in Straight =>
          /\ InRange(i, p)
          /\ h - Takes(i) >= Floor(open)
          /\ Falls(h - Takes(i) + Gives(i))
     /\ i.op \in {"JMP", "JMP_IF_TRUE", "JMP_IF_FALSE"} => Leads(c, at, k, k + 1 + i.a, h, open)
     /\ i.op \in {"JMP_IF_TRUE", "JMP_IF_FALSE"} => Falls(h)
     /\ i.op = "MAKE_PROC" =>
          /\ k - 1 \in DOMAIN at /\ c[k - 1].op = "LOAD_PROTO"
          /\ h > Floor(open)
          /\ BodyAt(c, ps, at, k + 1, c[k - 1].a)
          /\ CapturesOf(ps, c[k - 1].a, p)
          /\ Leads(c, at, k, k + 1 + i.a, h, open)
     /\ i.op = "CLOSE_REF" => Falls(h)
     /\ i.op = "SET_BP" => Leads(c, at, k, k + 1, h + 2, Append(open, h))
     /\ i.op \in {"CALL", "TAIL_CALL"} =>
          /\ open # <<>> /\ h >= Innermost(open) + 3
          /\ Leads(c, at, k, k + 1, Innermost(open) + 1, Outer(open))
     /\ i.op = "TAIL_CALL" => k + 1 \in tails
     /\ i.op = "CHECK_ARG" => Falls(0)
     /\ i.op \in {"RET", "RET_IF_TRUE", "RET_IF_FALSE"} => h = 1 /\ open = <<>>
     /\ i.op \in {"RET_IF_TRUE", "RET_IF_FALSE"} => Falls(1)

\* A tail call runs on to a RET and does nothing on the way.
TailVerifies(c, tails, k) ==
  \/ c[k].op = "RET"
  \/ c[k].op = "JMP" /\ k + 1 + c[k].a \in tails
  \/ c[k].op = "CLOSE_REF" /\ k + 1 \in tails

IsSeq(s) == Len(s) \in Nat /\ s = [i \in 1..Len(s) |-> s[i]]

VerifiedBy(c, ps, at, tails) ==
  /\ IsSeq(c) /\ IsSeq(ps)
  /\ \A e \in DOMAIN ps : IsSeq(ps[e].refs) /\ ps[e].lcount \in Nat
  /\ DOMAIN at \subseteq DOMAIN c
  /\ \A k \in DOMAIN at :
       /\ at[k].env \in DOMAIN ps
       /\ Verifies(c, ps, at, tails, k)
  /\ tails \subseteq DOMAIN at
  /\ \A k \in tails : TailVerifies(c, tails, k)
  /\ 1 \in DOMAIN ps /\ 1 \in DOMAIN at
  /\ at[1] = At(1, 0, <<>>)
  /\ c[1].op \notin {"MAKE_PROC", "CHECK_ARG"}

\* The machine at work on any code that verifies, or on none: the compiler died.
CodeInOrder ==
  \/ \E k \in DOMAIN code : code[k].op = "SIGFPE"
  \/ \E at, tails : VerifiedBy(code, protos, at, tails)
MachineSpec == Start /\ CodeInOrder /\ [][Next]_vars

-----------------------------------------------------------------------------
(* Properties.                                                             *)

\* An open reference stands for a variable of a frame that is still there, the
\* frame knows it, and no other open reference stands for the same variable
\* (vmrun.c:1411, vmrun.c:708, vmrun.c:319); also when an error leaves many
\* frames at once (builtin.c:3341, builtin.c:3433).
OpenRefsAreLive ==
  \A r \in DOMAIN refs : refs[r].pos # 0 =>
    \E i \in DOMAIN frames :
      /\ r \in frames[i].lrefl
      /\ refs[r].pos = Loc(frames[i], refs[r].idx)
      /\ frames[i].lref[refs[r].idx + 1] = r
=============================================================================
