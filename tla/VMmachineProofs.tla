-------------------------- MODULE VMmachineProofs --------------------------
(***************************************************************************)
(* Proofs about the byte code machine of VMmachine.  The machine checks    *)
(* nothing when it runs an instruction: that the value it pops is its own, *)
(* that the cell it stores to is a variable's, that bp is where the call   *)
(* it makes was prepared, is up to the code.  Proved here, for all code    *)
(* that verifies (VMmachine!VerifiedBy), however its procedures call each  *)
(* other, fail and are caught: the variables of the frames lie apart, a    *)
(* procedure leaves one value when it returns, and an open reference       *)
(* stands for a variable of a frame that is still there.                   *)
(*                                                                         *)
(* The operators of the invariant are about values, not variables: W holds *)
(* what they need of a state, World(at, tails) is the one of this state.   *)
(***************************************************************************)
EXTENDS VMmachine, SequenceTheorems, TLAPS

-----------------------------------------------------------------------------
(* The inductive invariant.                                                *)

World(at, tails) ==
  [code |-> code, protos |-> protos, at |-> at, tails |-> tails,
   procs |-> procs, nrefs |-> Len(refs)]

\* A procedure on the stack has been made; the one of the program itself is only
\* in cell 3, and never used as a value.
Sound(W, v) ==
  /\ v[1] = "p" => v[2] \in 2..Len(W.procs)
  /\ v[1] = "cp" => v[2] \in {"pcall", "xpcall", "raise"}
SoundStack(W, s) ==
  /\ IsSeq(s)
  /\ \A k \in 1..Len(s) : k # 3 => Sound(W, s[k])

IsFrame(f) ==
  f = [proc |-> f.proc, cproc |-> f.cproc, pc |-> f.pc, bp |-> f.bp,
       mark |-> f.mark, args |-> f.args, sp |-> f.sp, lref |-> f.lref,
       lrefl |-> f.lrefl, state |-> f.state, handlers |-> f.handlers]

EnvOf(W, f) == W.procs[f.proc].env
Lcount(W, f) == W.protos[EnvOf(W, f)].lcount
Open(W, f) == W.at[f.pc].open
Height(W, f) == W.at[f.pc].h
OpAt(W, f) == W.code[f.pc].op

\* A frame of byte code is inside the code of its procedure.
CodeFrame(W, f) ==
  /\ IsFrame(f) /\ f.cproc = "none"
  /\ f.proc \in 1..Len(W.procs)
  /\ f.pc \in DOMAIN W.at /\ W.at[f.pc].env = EnvOf(W, f)
  /\ f.bp \in Nat \ {0} /\ f.sp = f.bp + 2 + Lcount(W, f)
  /\ Lcount(W, f) \in Nat
  /\ f.lref \in [1..Lcount(W, f) -> 0..W.nrefs]

\* The frame of a procedure written in C; the handlers of an xpcall are callable.
CFrame(W, f) ==
  /\ IsFrame(f)
  /\ f.cproc \in {"pcall", "xpcall", "raise"}
  /\ f.bp \in Nat \ {0}
  /\ f.state \in {"new", "called"}
  /\ f.state = "called" => f.cproc # "raise"
  /\ f.state = "called" /\ f.cproc = "xpcall" =>
       /\ IsSeq(f.handlers) /\ Len(f.handlers) % 2 = 1
       /\ \A i \in 2..Len(f.handlers) : i % 2 = 1 =>
            Sound(W, f.handlers[i]) /\ Callable(f.handlers[i])

\* The calls that f prepares, lim being where its part of the stack ends: each
\* SET_BP kept the bp before it.
Prepared(f, s, lim, open) ==
  /\ IsSeq(open)
  /\ \A j \in 1..Len(open) :
       /\ open[j] \in Nat
       /\ \A i \in 1..(j - 1) : open[i] + 2 <= open[j]
       /\ f.sp + open[j] + 2 <= lim
       /\ s[f.sp + open[j] + 1] =
            <<"bp", IF j = 1 THEN f.bp ELSE f.sp + open[j - 1] + 1>>

\* The bp of a frame when it runs.
BpOf(f, open) == IF open = <<>> THEN f.bp ELSE f.sp + Innermost(open) + 1

\* A frame that waits for the call at b to return.
WaitingCode(W, f, s, b) ==
  /\ CodeFrame(W, f) /\ f.mark = "ret"
  /\ OpAt(W, f) \notin {"MAKE_PROC", "CHECK_ARG"}
  /\ Height(W, f) \in Nat \ {0} /\ b = f.sp + Height(W, f)
  /\ Prepared(f, s, b - 1, Open(W, f))
  /\ s[b] = <<"bp", BpOf(f, Open(W, f))>>
WaitingC(W, f, s, b) ==
  /\ CFrame(W, f) /\ f.state = "called"
  /\ b \in Nat /\ b >= f.bp + 2
  /\ s[b] = <<"bp", f.bp>>
Waiting(W, f, s, b) == WaitingCode(W, f, s, b) \/ WaitingC(W, f, s, b)

\* The frame that runs: at the first instruction of a procedure, at another one,
\* between a tail call and the RET, or written in C.
BeforeCheck(W, f, s) ==
  /\ W.at[f.pc] = At(EnvOf(W, f), 0, <<>>)
  /\ W.code[f.pc].a \in 0..Lcount(W, f)
  /\ f.args \in Nat
  /\ Len(s) = IF f.args > Lcount(W, f) THEN f.bp + 2 + f.args ELSE f.sp
RunsCode(W, f, s, b) ==
  /\ CodeFrame(W, f) /\ f.mark = "ret"
  /\ Height(W, f) \in Nat
  /\ Prepared(f, s, Len(s), Open(W, f))
  /\ b = BpOf(f, Open(W, f))
  /\ IF OpAt(W, f) = "CHECK_ARG" THEN BeforeCheck(W, f, s)
     ELSE Len(s) = f.sp + Height(W, f)
  /\ OpAt(W, f) = "MAKE_PROC" => s[Len(s)] = <<"proto", W.code[f.pc - 1].a>>
RunsOut(W, f, s, b) ==
  /\ CodeFrame(W, f) /\ f.mark = "call"
  /\ f.pc \in W.tails
  /\ b \in Nat /\ b > f.sp /\ b + 2 <= Len(s)
  /\ s[b + 2] = <<"p", f.proc>>
RunsC(W, f, s, b) ==
  /\ CFrame(W, f)
  /\ b = f.bp /\ f.bp + 2 <= Len(s)
Runs(W, f, s, b) == RunsCode(W, f, s, b) \/ RunsOut(W, f, s, b) \/ RunsC(W, f, s, b)

\* A frame's own cells end before the next frame.
EndOf(f) == IF f.cproc = "none" THEN f.sp ELSE f.bp + 1
Callers(W, F, s) ==
  /\ IsSeq(F) /\ Len(F) > 0
  /\ F[1].cproc = "none" /\ F[1].bp = 1
  /\ \A i \in 1..(Len(F) - 1) : Waiting(W, F[i], s, F[i + 1].bp)
  /\ \A i, j \in 1..Len(F) : i < j => EndOf(F[i]) < F[j].bp
Stacked(W, F, s, b) ==
  /\ Callers(W, F, s)
  /\ SoundStack(W, s)
  /\ Runs(W, F[Len(F)], s, b)

\* A pcall that has taken an error has nothing on the stack any more.
Caught == Top.cproc = "pcall" /\ Top.state = "caught"
Live == IF Caught THEN SubSeq(frames, 1, Len(frames) - 1) ELSE frames

ProcsMade(W) ==
  /\ IsSeq(W.procs) /\ Len(W.procs) > 0
  /\ \A i \in 1..Len(W.procs) :
       /\ W.procs[i].env \in DOMAIN W.protos
       /\ i > 1 => BodyAt(W.code, W.protos, W.at, W.procs[i].entry, W.procs[i].env)
       /\ W.procs[i].closure \in [DOMAIN W.protos[W.procs[i].env].refs -> 1..W.nrefs]

IsRef(W, r) ==
  /\ r = [pos |-> r.pos, idx |-> r.idx, val |-> r.val]
  /\ r.pos \in Nat /\ r.idx \in Nat /\ Sound(W, r.val)
RefsMade(W, rs) ==
  /\ IsSeq(rs) /\ Len(rs) = W.nrefs
  /\ \A r \in 1..Len(rs) : IsRef(W, rs[r])

HeldBy(rs, r, f) ==
  /\ f.cproc = "none" /\ r \in f.lrefl
  /\ rs[r].pos = Loc(f, rs[r].idx)
  /\ rs[r].idx + 1 \in DOMAIN f.lref
  /\ f.lref[rs[r].idx + 1] = r
RefsHeld(rs, F) ==
  \A r \in 1..Len(rs) : rs[r].pos # 0 => \E i \in 1..Len(F) : HeldBy(rs, r, F[i])

RunInv(at, tails) ==
  /\ VerifiedBy(code, protos, at, tails)
  /\ IsSeq(frames) /\ Len(frames) > 0
  /\ Stacked(World(at, tails), Live, stk, bp)
  /\ ProcsMade(World(at, tails))
  /\ RefsMade(World(at, tails), refs)
  /\ RefsHeld(refs, Live)

-----------------------------------------------------------------------------
(* Sequences.                                                              *)

\* A sequence is a sequence of whatever its elements are.
LEMMA SeqIn ==
  ASSUME NEW s, IsSeq(s), NEW S, \A i \in 1..Len(s) : s[i] \in S
  PROVE  s \in Seq(S) /\ DOMAIN s = 1..Len(s)
<1>1. s \in [1..Len(s) -> S]
  BY DEF IsSeq
<1>2. s \in UNION {[1..n -> S] : n \in Nat}
  BY <1>1 DEF IsSeq
<1> QED BY <1>1, <1>2, SeqDef

LEMMA OfSeq == ASSUME NEW S, NEW s \in Seq(S) PROVE IsSeq(s)
BY LenProperties DEF IsSeq

LEMMA AppendSeq == ASSUME NEW s, IsSeq(s), NEW e
  PROVE /\ IsSeq(Append(s, e)) /\ Len(Append(s, e)) = Len(s) + 1
        /\ \A i \in 1..Len(s) : Append(s, e)[i] = s[i]
        /\ Append(s, e)[Len(s) + 1] = e
<1> DEFINE S == {s[i] : i \in 1..Len(s)} \cup {e}
<1>1. s \in Seq(S) BY SeqIn
<1>2. e \in S OBVIOUS
<1> HIDE DEF S
<1>3. Append(s, e) \in Seq(S) BY <1>1, <1>2, AppendProperties
<1>4. IsSeq(Append(s, e)) BY <1>3, OfSeq
<1> QED BY <1>1, <1>2, <1>4, AppendProperties

LEMMA ConcatSeq == ASSUME NEW s, IsSeq(s), NEW t, IsSeq(t)
  PROVE /\ IsSeq(s \o t) /\ Len(s \o t) = Len(s) + Len(t)
        /\ \A i \in 1..Len(s) : (s \o t)[i] = s[i]
        /\ \A i \in 1..Len(t) : (s \o t)[Len(s) + i] = t[i]
<1> DEFINE S == {s[i] : i \in 1..Len(s)} \cup {t[i] : i \in 1..Len(t)}
<1>1. s \in Seq(S) /\ t \in Seq(S) BY SeqIn
<1> HIDE DEF S
<1>2. IsSeq(s \o t) BY <1>1, ConcatProperties, OfSeq
<1>3. Len(s) \in Nat /\ Len(t) \in Nat BY DEF IsSeq
<1>4. ASSUME NEW i \in 1..Len(s) PROVE (s \o t)[i] = s[i] 
  BY <1>1, <1>3, ConcatProperties
<1>5. ASSUME NEW i \in 1..Len(t) PROVE (s \o t)[Len(s) + i] = t[i]
  BY <1>1, <1>3, ConcatProperties
<1> QED BY <1>1, <1>2, <1>4, <1>5, ConcatProperties

LEMMA SubSeqSeq == ASSUME NEW s, IsSeq(s), NEW m \in Nat \ {0}, NEW n \in Nat, m <= n + 1, n <= Len(s)
  PROVE /\ IsSeq(SubSeq(s, m, n)) /\ Len(SubSeq(s, m, n)) = n - m + 1
        /\ \A i \in 1..(n - m + 1) : SubSeq(s, m, n)[i] = s[m + i - 1]
<1> DEFINE S == {s[i] : i \in 1..Len(s)}
<1>1. s \in Seq(S) BY SeqIn
<1>2. Len(s) \in Nat BY DEF IsSeq
<1>3. \A i \in m..n : s[i] \in S BY <1>2
<1> HIDE DEF S
<1>4. SubSeq(s, m, n) \in Seq(S) /\ Len(SubSeq(s, m, n)) = n - m + 1 BY <1>3, SubSeqProperties
<1>5. IsSeq(SubSeq(s, m, n)) BY <1>4, OfSeq
<1>6. ASSUME NEW i \in 1..(n - m + 1) PROVE SubSeq(s, m, n)[i] = s[m + i - 1]
  BY <1>1, <1>2, SubSeqProperties
<1> QED BY <1>4, <1>5, <1>6

LEMMA PutSeq ==
  ASSUME NEW s, IsSeq(s), NEW k, NEW v, NEW t, t = [s EXCEPT ![k] = v]
  PROVE  /\ IsSeq(t) /\ Len(t) = Len(s)
         /\ \A i \in 1..Len(s) : i # k => t[i] = s[i]
         /\ k \in 1..Len(s) => t[k] = v
<1> DEFINE S == {s[i] : i \in 1..Len(s)} \cup {v}
<1>1. s \in Seq(S) /\ DOMAIN s = 1..Len(s)
  BY SeqIn
<1>2. t \in [1..Len(s) -> S]
  BY <1>1, LenProperties
<1>3. t \in Seq(S)
  BY <1>2, SeqDef DEF IsSeq
<1>4. Len(t) = Len(s)
  BY <1>2, <1>3, LenProperties DEF IsSeq
<1>5. (\A i \in 1..Len(s) : i # k => t[i] = s[i]) /\ (k \in 1..Len(s) => t[k] = v)
  BY <1>1
<1> QED
  BY <1>3, <1>4, <1>5, OfSeq

\* s with v in its cell k.
Put(s, k, v) == [s EXCEPT ![k] = v]

LEMMA PutIs ==
  ASSUME NEW s, IsSeq(s), NEW k, NEW v
  PROVE  /\ IsSeq(Put(s, k, v)) /\ Len(Put(s, k, v)) = Len(s)
         /\ \A i \in 1..Len(s) : i # k => Put(s, k, v)[i] = s[i]
         /\ k \in 1..Len(s) => Put(s, k, v)[k] = v
<1> DEFINE t == [s EXCEPT ![k] = v]
<1>1. t = [s EXCEPT ![k] = v]
  OBVIOUS
<1> HIDE DEF t
<1>2. IsSeq(t)
  BY <1>1, PutSeq
<1>3. Len(t) = Len(s)
  BY <1>1, PutSeq
<1>4. \A i \in 1..Len(s) : i # k => t[i] = s[i]
  BY <1>1, PutSeq
<1>5. k \in 1..Len(s) => t[k] = v
  BY <1>1, PutSeq
<1>6. Put(s, k, v) = t
  BY <1>1 DEF Put
<1> QED
  BY <1>2, <1>3, <1>4, <1>5, <1>6

LEMMA NoneSeq == IsSeq(<<>>) /\ Len(<<>>) = 0
BY EmptySeq, OfSeq

LEMMA OneSeq == ASSUME NEW e PROVE IsSeq(<<e>>) /\ Len(<<e>>) = 1 /\ <<e>>[1] = e
<1>1. <<e>> \in Seq({e})
  OBVIOUS
<1> QED
  BY <1>1, OfSeq

LEMMA TwoSeq ==
  ASSUME NEW d, NEW e
  PROVE  IsSeq(<<d, e>>) /\ Len(<<d, e>>) = 2 /\ <<d, e>>[1] = d /\ <<d, e>>[2] = e
<1>1. <<d, e>> \in Seq({d, e})
  OBVIOUS
<1> QED
  BY <1>1, OfSeq

LEMMA ThreeSeq ==
  ASSUME NEW c, NEW d, NEW e
  PROVE  /\ IsSeq(<<c, d, e>>) /\ Len(<<c, d, e>>) = 3
         /\ <<c, d, e>>[1] = c /\ <<c, d, e>>[2] = d /\ <<c, d, e>>[3] = e
<1>1. <<c, d, e>> \in Seq({c, d, e})
  OBVIOUS
<1> QED
  BY <1>1, OfSeq

\* A function on the first numbers is a sequence.
LEMMA FunctionSeq ==
  ASSUME NEW n \in Nat, NEW S, NEW s \in [1..n -> S]
  PROVE  IsSeq(s) /\ Len(s) = n
<1>1. s \in Seq(S)
  BY SeqDef
<1> QED
  BY <1>1, OfSeq, LenProperties

\* What Pad adds is undefined.
LEMMA PadSeq ==
  ASSUME NEW s, IsSeq(s), NEW sp \in Nat
  PROVE  /\ IsSeq(Pad(s, sp))
         /\ Len(Pad(s, sp)) = IF sp > Len(s) THEN sp ELSE Len(s)
         /\ \A i \in 1..Len(s) : Pad(s, sp)[i] = s[i]
         /\ \A i \in 1..Len(Pad(s, sp)) : i > Len(s) => Pad(s, sp)[i] = Null
<1> DEFINE n == IF sp > Len(s) THEN sp - Len(s) ELSE 0
           t == [i \in 1..n |-> Null]
<1>1. Len(s) \in Nat
  BY DEF IsSeq
<1>2. n \in Nat
  BY <1>1
<1>3. t \in [1..n -> {Null}]
  OBVIOUS
<1> HIDE DEF n
<1>4. IsSeq(t) /\ Len(t) = n
  BY <1>2, <1>3, FunctionSeq
<1>5. \A i \in 1..n : t[i] = Null
  OBVIOUS
<1> HIDE DEF t
<1>6. \A i \in 1..Len(t) : (s \o t)[Len(s) + i] = t[i]
  BY <1>4, ConcatSeq
<1>7. Pad(s, sp) = s \o t
  BY DEF Pad, n, t
<1>8. /\ IsSeq(s \o t) /\ Len(s \o t) = Len(s) + n
      /\ \A i \in 1..Len(s) : (s \o t)[i] = s[i]
      /\ \A i \in 1..n : (s \o t)[Len(s) + i] = Null
  BY <1>4, <1>5, <1>6, ConcatSeq, ZenonT(30)
<1>9. ASSUME NEW i \in 1..Len(Pad(s, sp)), i > Len(s)
      PROVE  Pad(s, sp)[i] = Null
  <2>1. i - Len(s) \in 1..n /\ i = Len(s) + (i - Len(s))
    BY <1>1, <1>2, <1>7, <1>8, <1>9
  <2> QED
    BY <1>7, <1>8, <2>1
<1> QED
  BY <1>1, <1>2, <1>7, <1>8, <1>9 DEF n

\* The first elements of a sequence, and those after them.
LEMMA FirstSeq ==
  ASSUME NEW s, IsSeq(s), NEW n \in Nat, n <= Len(s)
  PROVE  /\ IsSeq(SubSeq(s, 1, n)) /\ Len(SubSeq(s, 1, n)) = n
         /\ \A i \in 1..n : SubSeq(s, 1, n)[i] = s[i]
<1>1. Len(s) \in Nat
  BY DEF IsSeq
<1>2. /\ IsSeq(SubSeq(s, 1, n)) /\ Len(SubSeq(s, 1, n)) = n - 1 + 1
      /\ \A i \in 1..(n - 1 + 1) : SubSeq(s, 1, n)[i] = s[1 + i - 1]
  BY SubSeqSeq
<1> QED
  BY <1>1, <1>2

-----------------------------------------------------------------------------
(* More procedures and references make no difference to the stack.         *)

Grows(W, V) ==
  /\ V.code = W.code /\ V.protos = W.protos /\ V.at = W.at /\ V.tails = W.tails
  /\ Len(W.procs) \in Nat /\ Len(V.procs) \in Nat /\ Len(W.procs) <= Len(V.procs)
  /\ \A i \in 1..Len(W.procs) : V.procs[i] = W.procs[i]
  /\ W.nrefs \in Nat /\ V.nrefs \in Nat /\ W.nrefs <= V.nrefs

LEMMA GrowSound ==
  ASSUME NEW W, NEW V, Grows(W, V), NEW v, Sound(W, v)
  PROVE  Sound(V, v)
BY DEF Grows, Sound

LEMMA GrowCodeFrame ==
  ASSUME NEW W, NEW V, Grows(W, V), NEW f, CodeFrame(W, f)
  PROVE  /\ CodeFrame(V, f)
         /\ EnvOf(V, f) = EnvOf(W, f) /\ Lcount(V, f) = Lcount(W, f)
         /\ Open(V, f) = Open(W, f) /\ Height(V, f) = Height(W, f)
         /\ OpAt(V, f) = OpAt(W, f)
<1>1. EnvOf(V, f) = EnvOf(W, f)
  BY DEF Grows, CodeFrame, EnvOf
<1>2. Lcount(V, f) = Lcount(W, f)
  BY <1>1 DEF Lcount, Grows
<1>3. 0..W.nrefs \subseteq 0..V.nrefs
  BY DEF Grows
<1>4. f.lref \in [1..Lcount(V, f) -> 0..V.nrefs]
  BY <1>2, <1>3 DEF CodeFrame
<1>5. f.proc \in 1..Len(V.procs)
  <2>1. Len(W.procs) \in Nat /\ Len(V.procs) \in Nat /\ Len(W.procs) <= Len(V.procs)
    BY DEF Grows
  <2>2. f.proc \in 1..Len(W.procs)
    BY DEF CodeFrame
  <2> QED
    BY <2>1, <2>2
<1>6. CodeFrame(V, f)
  BY <1>1, <1>2, <1>4, <1>5 DEF CodeFrame, Grows
<1> QED
  BY <1>1, <1>2, <1>6 DEF Open, Height, OpAt, Grows

LEMMA GrowCFrame ==
  ASSUME NEW W, NEW V, Grows(W, V), NEW f, CFrame(W, f)
  PROVE  CFrame(V, f)
BY GrowSound DEF CFrame

LEMMA GrowWaiting ==
  ASSUME NEW W, NEW V, Grows(W, V), NEW f, NEW s, NEW b, Waiting(W, f, s, b)
  PROVE  Waiting(V, f, s, b)
<1>1. CASE WaitingCode(W, f, s, b)
  BY <1>1, GrowCodeFrame DEF WaitingCode, Waiting
<1>2. CASE WaitingC(W, f, s, b)
  BY <1>2, GrowCFrame DEF WaitingC, Waiting
<1> QED
  BY <1>1, <1>2 DEF Waiting

LEMMA GrowRuns ==
  ASSUME NEW W, NEW V, Grows(W, V), NEW f, NEW s, NEW b, Runs(W, f, s, b)
  PROVE  Runs(V, f, s, b)
<1>1. CASE RunsCode(W, f, s, b)
  <2> CodeFrame(W, f)
    BY <1>1 DEF RunsCode
  <2>1. /\ CodeFrame(V, f)
        /\ EnvOf(V, f) = EnvOf(W, f) /\ Lcount(V, f) = Lcount(W, f)
        /\ Open(V, f) = Open(W, f) /\ Height(V, f) = Height(W, f)
        /\ OpAt(V, f) = OpAt(W, f)
    BY GrowCodeFrame
  <2>2. V.code = W.code /\ V.at = W.at
    BY DEF Grows
  <2>3. BeforeCheck(W, f, s) => BeforeCheck(V, f, s)
    BY <2>1, <2>2 DEF BeforeCheck
  <2> QED
    BY <1>1, <2>1, <2>3, <2>2 DEF RunsCode, Runs
<1>2. CASE RunsOut(W, f, s, b)
  BY <1>2, GrowCodeFrame DEF RunsOut, Runs, Grows
<1>3. CASE RunsC(W, f, s, b)
  BY <1>3, GrowCFrame DEF RunsC, Runs
<1> QED
  BY <1>1, <1>2, <1>3 DEF Runs

LEMMA GrowStacked ==
  ASSUME NEW W, NEW V, Grows(W, V), NEW F, NEW s, NEW b, Stacked(W, F, s, b)
  PROVE  Stacked(V, F, s, b)
<1>1. Callers(V, F, s)
  BY GrowWaiting DEF Callers, Stacked
<1>2. SoundStack(V, s)
  BY GrowSound DEF SoundStack, Stacked
<1> QED
  BY <1>1, <1>2, GrowRuns DEF Stacked

-----------------------------------------------------------------------------
(* What the frames below need of the stack.                                *)

LEMMA WaitingFacts ==
  ASSUME NEW W, NEW f, NEW s, NEW b, Waiting(W, f, s, b)
  PROVE  /\ f.bp \in Nat \ {0} /\ EndOf(f) \in Nat /\ EndOf(f) >= f.bp
         /\ b \in Nat /\ b > EndOf(f)
         /\ f.cproc = "none" => WaitingCode(W, f, s, b)
         /\ f.cproc # "none" => WaitingC(W, f, s, b)
<1>1. CASE WaitingCode(W, f, s, b)
  <2>1. CodeFrame(W, f) /\ Height(W, f) \in Nat \ {0} /\ b = f.sp + Height(W, f)
    BY <1>1 DEF WaitingCode
  <2>2. f.cproc = "none" /\ f.bp \in Nat \ {0} /\ f.sp = f.bp + 2 + Lcount(W, f) /\ Lcount(W, f) \in Nat
    BY <2>1 DEF CodeFrame
  <2>3. EndOf(f) = f.sp
    BY <2>2 DEF EndOf
  <2>4. b \in Nat /\ b > f.sp /\ f.sp >= f.bp /\ f.sp \in Nat
    BY <2>1, <2>2
  <2> QED
    BY <1>1, <2>2, <2>3, <2>4
<1>2. CASE WaitingC(W, f, s, b)
  <2>1. CFrame(W, f) /\ b \in Nat /\ b >= f.bp + 2
    BY <1>2 DEF WaitingC
  <2>2. f.cproc # "none" /\ f.bp \in Nat \ {0}
    BY <2>1 DEF CFrame
  <2>3. EndOf(f) = f.bp + 1
    BY <2>2 DEF EndOf
  <2>4. b > EndOf(f) /\ EndOf(f) >= f.bp /\ EndOf(f) \in Nat
    BY <2>1, <2>2, <2>3
  <2> QED
    BY <1>2, <2>1, <2>2, <2>4
<1> QED
  BY <1>1, <1>2 DEF Waiting

LEMMA WaitingSame ==
  ASSUME NEW W, NEW f, NEW s, NEW b, Waiting(W, f, s, b),
         NEW t, \A k \in (EndOf(f) + 1)..b : t[k] = s[k]
  PROVE  Waiting(W, f, t, b)
<1>1. EndOf(f) \in Nat /\ b \in Nat /\ b > EndOf(f)
  BY WaitingFacts
<1>2. t[b] = s[b]
  BY <1>1
<1>3. CASE WaitingCode(W, f, s, b)
  <2>1. EndOf(f) = f.sp
    BY <1>3 DEF WaitingCode, CodeFrame, EndOf
  <2>2. ASSUME NEW j \in 1..Len(Open(W, f))
        PROVE  t[f.sp + Open(W, f)[j] + 1] = s[f.sp + Open(W, f)[j] + 1]
    <3>1. Open(W, f)[j] \in Nat /\ f.sp + Open(W, f)[j] + 2 <= b - 1
      BY <1>3 DEF WaitingCode, Prepared
    <3>2. f.sp + Open(W, f)[j] + 1 \in (EndOf(f) + 1)..b
      BY <1>1, <2>1, <3>1
    <3> QED
      BY <3>2
  <2>3. Prepared(f, t, b - 1, Open(W, f))
    BY <1>3, <2>2 DEF WaitingCode, Prepared
  <2> QED
    BY <1>2, <1>3, <2>3 DEF WaitingCode, Waiting
<1>4. CASE WaitingC(W, f, s, b)
  BY <1>2, <1>4 DEF WaitingC, Waiting
<1> QED
  BY <1>3, <1>4 DEF Waiting

LEMMA CallersLen ==
  ASSUME NEW W, NEW F, NEW s, Callers(W, F, s)
  PROVE  Len(F) \in Nat \ {0} /\ IsSeq(F)
<1>1. IsSeq(F) /\ Len(F) > 0
  BY DEF Callers
<1>2. Len(F) \in Nat
  BY <1>1 DEF IsSeq
<1> QED
  BY <1>1, <1>2

LEMMA CallersWait ==
  ASSUME NEW W, NEW F, NEW s, Callers(W, F, s), NEW i \in 1..Len(F), i < Len(F)
  PROVE  Waiting(W, F[i], s, F[i + 1].bp)
<1>1. i \in 1..(Len(F) - 1)
  BY CallersLen
<1> QED
  BY <1>1 DEF Callers

LEMMA CallersOrder ==
  ASSUME NEW W, NEW F, NEW s, Callers(W, F, s), 
         NEW i \in 1..Len(F), NEW j \in 1..Len(F), i < j
  PROVE  EndOf(F[i]) < F[j].bp
BY DEF Callers

LEMMA CallerFacts ==
  ASSUME NEW W, NEW F, NEW s, Callers(W, F, s), NEW i \in 1..Len(F)
  PROVE  /\ F[i].bp \in Nat \ {0}
         /\ i < Len(F) => EndOf(F[i]) \in Nat /\ EndOf(F[i]) >= F[i].bp
         /\ i > 1 => F[i].bp >= 4
<1>1. Len(F) \in Nat \ {0}
  BY CallersLen
<1>2. ASSUME i < Len(F)
      PROVE  F[i].bp \in Nat \ {0} /\ EndOf(F[i]) \in Nat /\ EndOf(F[i]) >= F[i].bp
  <2>1. Waiting(W, F[i], s, F[i + 1].bp)
    BY <1>2, CallersWait
  <2> QED
    BY <2>1, WaitingFacts
<1>3. ASSUME i > 1
      PROVE  F[i].bp \in Nat \ {0} /\ F[i].bp >= 4
  <2>1. i - 1 \in 1..Len(F) /\ i - 1 < Len(F) /\ i - 1 + 1 = i
    BY <1>1, <1>3
  <2>2. Waiting(W, F[i - 1], s, F[i].bp)
    BY <2>1, CallersWait
  <2>3. F[i].bp \in Nat
    BY <2>2, WaitingFacts
  <2>4. 1 \in 1..Len(F) /\ 1 < Len(F) /\ 1 < i
    BY <1>1, <1>3
  <2>5. Waiting(W, F[1], s, F[1 + 1].bp)
    BY <2>4, CallersWait
  <2>6. F[1].cproc = "none" /\ F[1].bp = 1
    BY DEF Callers
  <2>7. CodeFrame(W, F[1])
    BY <2>5, <2>6, WaitingFacts DEF WaitingCode
  <2>8. EndOf(F[1]) = 1 + 2 + Lcount(W, F[1]) /\ Lcount(W, F[1]) \in Nat
    BY <2>6, <2>7 DEF CodeFrame, EndOf
  <2>9. EndOf(F[1]) < F[i].bp
    BY <2>4, CallersOrder
  <2> QED
    BY <2>3, <2>8, <2>9
<1>4. F[1].bp = 1
  BY DEF Callers
<1>5. i = 1 \/ i > 1
  BY <1>1
<1> QED
  BY <1>1, <1>2, <1>3, <1>4, <1>5

LEMMA BpOrder ==
  ASSUME NEW W, NEW F, NEW s, Callers(W, F, s),
         NEW i \in 1..Len(F), NEW j \in 1..Len(F), i <= j
  PROVE  F[i].bp <= F[j].bp
<1>1. F[i].bp \in Nat /\ F[j].bp \in Nat /\ Len(F) \in Nat
  BY CallerFacts, CallersLen
<1>2. CASE i = j
  BY <1>1, <1>2
<1>3. CASE i < j
  <2>1. EndOf(F[i]) \in Nat /\ EndOf(F[i]) >= F[i].bp
    BY <1>1, <1>3, CallerFacts
  <2>2. EndOf(F[i]) < F[j].bp
    BY <1>3, CallersOrder
  <2> QED
    BY <1>1, <2>1, <2>2
<1> QED
  BY <1>1, <1>2, <1>3

\* The cells between a frame and the next are all the callers depend on.
LEMMA CallersSame ==
  ASSUME NEW W, NEW F, NEW s, Callers(W, F, s), NEW t,
         \A i \in 1..(Len(F) - 1) :
           \A k \in (EndOf(F[i]) + 1)..F[i + 1].bp : t[k] = s[k]
  PROVE  Callers(W, F, t)
BY WaitingSame DEF Callers

LEMMA CallersBelow ==
  ASSUME NEW W, NEW F, NEW s, Callers(W, F, s), NEW t,
         \A k \in 1..F[Len(F)].bp : t[k] = s[k]
  PROVE  Callers(W, F, t)
<1>1. ASSUME NEW i \in 1..(Len(F) - 1), NEW k \in (EndOf(F[i]) + 1)..F[i + 1].bp
      PROVE  t[k] = s[k]
  <2>1. Len(F) \in Nat \ {0}
    BY CallersLen
  <2>2. i \in 1..Len(F) /\ i + 1 \in 1..Len(F) /\ Len(F) \in 1..Len(F) /\ i + 1 <= Len(F)
        /\ i < Len(F)
    BY <2>1
  <2>3. EndOf(F[i]) \in Nat /\ F[i + 1].bp \in Nat /\ F[Len(F)].bp \in Nat
    BY <2>2, CallerFacts
  <2>4. F[i + 1].bp <= F[Len(F)].bp
    BY <2>2, BpOrder
  <2>5. k \in 1..F[Len(F)].bp
    BY <2>3, <2>4
  <2> QED
    BY <2>5
<1> QED
  BY <1>1, CallersSame

-----------------------------------------------------------------------------
(* Frames come and go.                                                     *)

LEMMA SameSeq ==
  ASSUME NEW s, IsSeq(s), NEW t, IsSeq(t), Len(s) = Len(t),
         \A i \in 1..Len(s) : s[i] = t[i]
  PROVE  s = t
<1>1. s = [i \in 1..Len(s) |-> s[i]] /\ t = [i \in 1..Len(t) |-> t[i]]
  BY DEF IsSeq
<1>2. [i \in 1..Len(s) |-> s[i]] = [i \in 1..Len(t) |-> t[i]]
  OBVIOUS
<1> QED
  BY <1>1, <1>2

\* G is F with g in the place of the top frame.
Retop(F, G, g) ==
  /\ IsSeq(F) /\ IsSeq(G) /\ Len(F) \in Nat \ {0} /\ Len(G) = Len(F)
  /\ G[Len(F)] = g /\ \A i \in 1..(Len(F) - 1) : G[i] = F[i]

LEMMA RetopOf ==
  ASSUME NEW F, IsSeq(F), Len(F) > 0, NEW g, NEW G, G = [F EXCEPT ![Len(F)] = g]
  PROVE  Retop(F, G, g)
<1> DEFINE n == Len(F)
<1>1. n \in Nat \ {0} /\ n \in 1..Len(F)
  BY DEF IsSeq
<1>2. IsSeq(G)
  BY PutSeq
<1>3. Len(G) = Len(F)
  BY PutSeq
<1>4. n \in 1..Len(F) => G[n] = g
  BY PutSeq
<1>5. \A i \in 1..Len(F) : i # n => G[i] = F[i]
  BY PutSeq
<1>6. \A i \in 1..(n - 1) : i \in 1..Len(F) /\ i # n
  BY <1>1
<1> QED
  BY <1>1, <1>2, <1>3, <1>4, <1>5, <1>6 DEF Retop

LEMMA AppendRetop ==
  ASSUME NEW F, IsSeq(F), Len(F) > 0, NEW g
  PROVE  Retop(F, Append(SubSeq(F, 1, Len(F) - 1), g), g)
<1> DEFINE n == Len(F)
           H == SubSeq(F, 1, n - 1)
           R == Append(H, g)
<1>1. n \in Nat \ {0} /\ n - 1 \in Nat /\ n - 1 <= Len(F)
  BY DEF IsSeq
<1>2. IsSeq(H) /\ Len(H) = n - 1 /\ \A i \in 1..(n - 1) : H[i] = F[i]
  BY <1>1, FirstSeq
<1> HIDE DEF H
<1>3. IsSeq(R) /\ Len(R) = Len(H) + 1 /\ (\A i \in 1..Len(H) : R[i] = H[i])
      /\ R[Len(H) + 1] = g
  BY <1>2, AppendSeq
<1> HIDE DEF R
<1>4. Retop(F, R, g)
  BY <1>1, <1>2, <1>3 DEF Retop
<1> QED
  BY <1>4 DEF R, H

LEMMA OneRetop ==
  ASSUME NEW F, NEW G, NEW H, NEW g, Retop(F, G, g), Retop(F, H, g)
  PROVE  G = H
<1>1. ASSUME NEW i \in 1..Len(G)
      PROVE  G[i] = H[i]
  <2>1. i = Len(F) \/ i \in 1..(Len(F) - 1)
    BY DEF Retop
  <2> QED
    BY <2>1 DEF Retop
<1>2. IsSeq(G) /\ IsSeq(H) /\ Len(G) = Len(H)
  BY DEF Retop
<1> QED
  BY <1>1, <1>2, SameSeq

LEMMA PrefixCallers ==
  ASSUME NEW W, NEW F, NEW s, Callers(W, F, s), NEW m \in 1..Len(F)
  PROVE  Callers(W, SubSeq(F, 1, m), s)
<1> DEFINE G == SubSeq(F, 1, m)
<1>1. Len(F) \in Nat \ {0} /\ IsSeq(F)
  BY CallersLen
<1>2. IsSeq(G) /\ Len(G) = m /\ \A i \in 1..m : G[i] = F[i]
  BY <1>1, FirstSeq
<1> HIDE DEF G
<1>3. F[1].cproc = "none" /\ F[1].bp = 1
  BY DEF Callers
<1>4. G[1].cproc = "none" /\ G[1].bp = 1
  BY <1>2, <1>3
<1>5. ASSUME NEW i \in 1..(Len(G) - 1)
      PROVE  Waiting(W, G[i], s, G[i + 1].bp)
  <2>1. i \in 1..Len(F) /\ i < Len(F) /\ i \in 1..m /\ i + 1 \in 1..m
    BY <1>1, <1>2
  <2>2. G[i] = F[i] /\ G[i + 1] = F[i + 1]
    BY <1>2, <2>1
  <2> QED
    BY <2>1, <2>2, CallersWait
<1>6. ASSUME NEW i \in 1..Len(G), NEW j \in 1..Len(G), i < j
      PROVE  EndOf(G[i]) < G[j].bp
  <2>1. i \in 1..Len(F) /\ j \in 1..Len(F)
    BY <1>1, <1>2
  <2> QED
    BY <1>2, <1>6, <2>1, CallersOrder
<1>7. Len(G) > 0
  BY <1>2
<1> QED
  BY <1>2, <1>4, <1>5, <1>6, <1>7 DEF Callers, G

\* The top frame calls.
LEMMA AddFrame ==
  ASSUME NEW W, NEW F, NEW s, Callers(W, F, s), NEW g,
         Waiting(W, F[Len(F)], s, g.bp)
  PROVE  Callers(W, Append(F, g), s)
<1> DEFINE n == Len(F)
           G == Append(F, g)
<1>1. n \in Nat \ {0} /\ IsSeq(F)
  BY CallersLen
<1>2. IsSeq(G) /\ Len(G) = n + 1 /\ (\A i \in 1..n : G[i] = F[i]) /\ G[n + 1] = g
  BY <1>1, AppendSeq
<1>3. Waiting(W, F[n], s, g.bp)
  OBVIOUS
<1> HIDE DEF G, n
<1>4. F[1].cproc = "none" /\ F[1].bp = 1
  BY DEF Callers
<1>5. G[1].cproc = "none" /\ G[1].bp = 1
  BY <1>1, <1>2, <1>4
<1>6. ASSUME NEW i \in 1..(Len(G) - 1)
      PROVE  Waiting(W, G[i], s, G[i + 1].bp)
  <2>1. CASE i = n
    BY <1>1, <1>2, <1>3, <2>1
  <2>2. CASE i # n
    <3>1. i \in 1..Len(F) /\ i < Len(F) /\ i \in 1..n /\ i + 1 \in 1..n
      BY <1>1, <1>2, <2>2 DEF n
    <3>2. G[i] = F[i] /\ G[i + 1] = F[i + 1]
      BY <1>2, <3>1
    <3> QED
      BY <3>1, <3>2, CallersWait
  <2> QED
    BY <2>1, <2>2
<1>7. ASSUME NEW i \in 1..Len(G), NEW j \in 1..Len(G), i < j
      PROVE  EndOf(G[i]) < G[j].bp
  <2>1. i \in 1..n /\ (j \in 1..n \/ j = n + 1)
    BY <1>1, <1>2, <1>7
  <2>2. CASE j \in 1..n
    BY <1>2, <1>7, <2>1, <2>2, CallersOrder DEF n
  <2>3. CASE j = n + 1
    <3>1. EndOf(F[n]) \in Nat /\ EndOf(F[n]) >= F[n].bp /\ g.bp \in Nat /\ g.bp > EndOf(F[n])
          /\ F[n].bp \in Nat
      BY <1>3, WaitingFacts
    <3>2. CASE i = n
      BY <1>2, <2>1, <2>3, <3>1, <3>2
    <3>3. CASE i # n
      <4>1. i < n /\ n \in 1..n
        BY <1>1, <2>1, <3>3
      <4>2. EndOf(F[i]) < F[n].bp
        BY <2>1, <4>1, CallersOrder DEF n
      <4>3. EndOf(F[i]) \in Nat
        BY <2>1, <4>1, CallerFacts DEF n
      <4> QED
        BY <1>2, <2>1, <2>3, <3>1, <4>2, <4>3
    <3> QED
      BY <3>2, <3>3
  <2> QED
    BY <2>1, <2>2, <2>3
<1>8. Len(G) > 0
  BY <1>1, <1>2
<1> QED
  BY <1>2, <1>5, <1>6, <1>7, <1>8 DEF Callers, G

\* Another frame takes the place of the one at m, those above it being gone.
LEMMA NewTop ==
  ASSUME NEW W, NEW F, NEW s, Callers(W, F, s), NEW m \in 1..Len(F),
         NEW g, g.bp = F[m].bp, m = 1 => g.cproc = "none",
         NEW t, \A k \in 1..g.bp : t[k] = s[k]
  PROVE  Callers(W, Append(SubSeq(F, 1, m - 1), g), t)
<1> DEFINE H == SubSeq(F, 1, m - 1)
           G == Append(H, g)
<1>1. Len(F) \in Nat \ {0} /\ IsSeq(F) /\ m - 1 \in Nat /\ m - 1 <= Len(F)
  BY CallersLen
<1>2. IsSeq(H) /\ Len(H) = m - 1 /\ \A i \in 1..(m - 1) : H[i] = F[i]
  BY <1>1, FirstSeq
<1> HIDE DEF H
<1>3. IsSeq(G) /\ Len(G) = m /\ (\A i \in 1..(m - 1) : G[i] = F[i]) /\ G[m] = g
  <2>1. IsSeq(G) /\ Len(G) = Len(H) + 1 /\ (\A i \in 1..Len(H) : G[i] = H[i])
        /\ G[Len(H) + 1] = g
    BY <1>2, AppendSeq
  <2>2. Len(H) + 1 = m
    BY <1>1, <1>2
  <2> QED
    BY <1>2, <2>1, <2>2
<1> HIDE DEF G
<1>4. \A i \in 1..m : G[i].bp = F[i].bp
  <2> TAKE i \in 1..m
  <2>1. i = m \/ i \in 1..(m - 1)
    BY <1>1
  <2> QED
    BY <1>3, <2>1
<1>5. F[1].cproc = "none" /\ F[1].bp = 1
  BY DEF Callers
<1>6. G[1].cproc = "none" /\ G[1].bp = 1
  <2>1. m = 1 \/ 1 \in 1..(m - 1)
    BY <1>1
  <2> QED
    BY <1>3, <1>5, <2>1
<1>7. ASSUME NEW i \in 1..(Len(G) - 1)
      PROVE  Waiting(W, G[i], s, G[i + 1].bp)
  <2>1. i \in 1..Len(F) /\ i < Len(F) /\ i \in 1..(m - 1) /\ i + 1 \in 1..m
    BY <1>1, <1>3
  <2>2. G[i] = F[i] /\ G[i + 1].bp = F[i + 1].bp
    BY <1>3, <1>4, <2>1
  <2> QED
    BY <2>1, <2>2, CallersWait
<1>8. ASSUME NEW i \in 1..Len(G), NEW j \in 1..Len(G), i < j
      PROVE  EndOf(G[i]) < G[j].bp
  <2>1. i \in 1..Len(F) /\ j \in 1..Len(F) /\ i \in 1..(m - 1) /\ j \in 1..m
    BY <1>1, <1>3, <1>8
  <2>2. EndOf(F[i]) < F[j].bp
    BY <1>8, <2>1, CallersOrder
  <2> QED
    BY <1>3, <1>4, <2>1, <2>2
<1>9. Len(G) > 0
  BY <1>1, <1>3
<1>10. Callers(W, G, s)
  BY <1>3, <1>6, <1>7, <1>8, <1>9 DEF Callers
<1>11. Callers(W, G, t)
  BY <1>3, <1>10, CallersBelow
<1> QED
  BY <1>11 DEF G, H

\* The call that the frame at m waits for leaves v where its frame was.
LEMMA Resume ==
  ASSUME NEW W, NEW F, NEW s, Callers(W, F, s), SoundStack(W, s),
         NEW m \in 1..Len(F), m < Len(F), NEW v, Sound(W, v),
         F[m + 1].bp <= Len(s)
  PROVE  Stacked(W, SubSeq(F, 1, m), Append(SubSeq(s, 1, F[m + 1].bp - 1), v),
                 s[F[m + 1].bp][2])
<1> DEFINE b == F[m + 1].bp
           f == F[m]
           G == SubSeq(F, 1, m)
           r == SubSeq(s, 1, b - 1)
           t == Append(r, v)
<1>1. Len(F) \in Nat \ {0} /\ IsSeq(F) /\ IsSeq(s) /\ Len(s) \in Nat /\ m + 1 \in 1..Len(F)
      /\ m + 1 > 1
  <2>1. Len(F) \in Nat \ {0} /\ IsSeq(F)
    BY CallersLen
  <2>2. IsSeq(s)
    BY DEF SoundStack
  <2>3. Len(s) \in Nat
    BY <2>2 DEF IsSeq
  <2> QED
    BY <2>1, <2>2, <2>3
<1>2. b \in Nat /\ b >= 4 /\ b <= Len(s) /\ b - 1 \in Nat /\ b - 1 <= Len(s)
  <2>1. b \in Nat /\ b >= 4
    BY <1>1, CallerFacts
  <2> QED
    BY <1>1, <2>1
<1>3. Waiting(W, f, s, b)
  BY CallersWait
<1>4. IsSeq(G) /\ Len(G) = m /\ G[m] = f
  BY <1>1, FirstSeq
<1>5. Callers(W, G, s)
  BY PrefixCallers
<1> HIDE DEF b, f, G
<1>6. IsSeq(r) /\ Len(r) = b - 1 /\ \A k \in 1..(b - 1) : r[k] = s[k]
  BY <1>1, <1>2, FirstSeq
<1> HIDE DEF r
<1>7. IsSeq(t) /\ Len(t) = b /\ (\A k \in 1..(b - 1) : t[k] = s[k]) /\ t[b] = v
  <2>1. IsSeq(t) /\ Len(t) = Len(r) + 1 /\ (\A k \in 1..Len(r) : t[k] = r[k])
        /\ t[Len(r) + 1] = v
    BY <1>6, AppendSeq
  <2>2. Len(r) + 1 = b
    BY <1>2, <1>6
  <2> QED
    BY <1>6, <2>1, <2>2
<1> HIDE DEF t
<1>8. EndOf(f) \in Nat /\ b > EndOf(f) /\ f.bp \in Nat /\ EndOf(f) >= f.bp
  BY <1>3, WaitingFacts
<1>9. Callers(W, G, t)
  <2>1. \A k \in 1..f.bp : t[k] = s[k]
    BY <1>2, <1>7, <1>8
  <2> QED
    BY <1>4, <1>5, <2>1, CallersBelow
<1>10. SoundStack(W, t)
  <2>1. ASSUME NEW k \in 1..Len(t), k # 3
        PROVE  Sound(W, t[k])
    <3>1. k = b \/ k \in 1..(b - 1)
      BY <1>2, <1>7
    <3>2. k \in 1..(b - 1) => k \in 1..Len(s)
      BY <1>1, <1>2
    <3> QED
      BY <1>7, <2>1, <3>1, <3>2 DEF SoundStack
  <2> QED
    BY <1>7, <2>1 DEF SoundStack
<1>11. CASE f.cproc = "none"
  <2>1. WaitingCode(W, f, s, b)
    BY <1>3, <1>11, WaitingFacts
  <2>2. /\ CodeFrame(W, f) /\ f.mark = "ret"
        /\ OpAt(W, f) \notin {"MAKE_PROC", "CHECK_ARG"}
        /\ Height(W, f) \in Nat \ {0} /\ b = f.sp + Height(W, f)
        /\ Prepared(f, s, b - 1, Open(W, f))
        /\ s[b] = <<"bp", BpOf(f, Open(W, f))>>
    BY <2>1 DEF WaitingCode
  <2>3. f.sp \in Nat
    BY <1>11, <1>8 DEF EndOf
  <2>4. Prepared(f, t, Len(t), Open(W, f))
    <3>1. ASSUME NEW j \in 1..Len(Open(W, f))
          PROVE  /\ f.sp + Open(W, f)[j] + 2 <= Len(t)
                 /\ t[f.sp + Open(W, f)[j] + 1] = s[f.sp + Open(W, f)[j] + 1]
      <4>1. Open(W, f)[j] \in Nat /\ f.sp + Open(W, f)[j] + 2 <= b - 1
        BY <2>2 DEF Prepared
      <4>2. f.sp + Open(W, f)[j] + 1 \in 1..(b - 1)
        BY <1>2, <2>3, <4>1
      <4> QED
        BY <1>2, <1>7, <2>3, <4>1, <4>2, SMTT(30)
    <3> QED
      BY <2>2, <3>1 DEF Prepared
  <2>5. s[b][2] = BpOf(f, Open(W, f))
    BY <2>2
  <2>6. RunsCode(W, f, t, s[b][2])
    BY <1>7, <2>2, <2>4, <2>5 DEF RunsCode
  <2> QED
    BY <1>4, <1>9, <1>10, <2>6 DEF Stacked, Runs, G, t, r, b
<1>12. CASE f.cproc # "none"
  <2>1. WaitingC(W, f, s, b)
    BY <1>3, <1>12, WaitingFacts
  <2>2. CFrame(W, f) /\ b >= f.bp + 2 /\ s[b] = <<"bp", f.bp>>
    BY <2>1 DEF WaitingC
  <2>3. RunsC(W, f, t, s[b][2])
    BY <1>7, <2>2 DEF RunsC
  <2> QED
    BY <1>4, <1>9, <1>10, <2>3 DEF Stacked, Runs, G, t, r, b
<1> QED
  BY <1>11, <1>12

-----------------------------------------------------------------------------
(* The frame that runs.                                                    *)

LEMMA EmptyIs ==
  ASSUME NEW s, IsSeq(s)
  PROVE  s = <<>> <=> Len(s) = 0
<1>1. ASSUME Len(s) = 0
      PROVE  s = <<>>
  <2>1. \A i \in 1..Len(s) : s[i] = <<>>[i]
    BY <1>1
  <2> QED
    BY <1>1, <2>1, NoneSeq, SameSeq
<1> QED
  BY <1>1, NoneSeq

LEMMA CodeFacts ==
  ASSUME NEW W, NEW f, CodeFrame(W, f)
  PROVE  /\ f.sp \in Nat /\ f.bp \in Nat \ {0} /\ f.bp + 2 <= f.sp
         /\ EndOf(f) = f.sp /\ f.cproc = "none"
         /\ Lcount(W, f) \in Nat /\ f.sp = f.bp + 2 + Lcount(W, f)
         /\ DOMAIN f.lref = 1..Lcount(W, f)
<1>1. f.bp \in Nat \ {0} /\ f.sp = f.bp + 2 + Lcount(W, f) /\ Lcount(W, f) \in Nat
      /\ f.cproc = "none"
  BY DEF CodeFrame
<1>2. f.lref \in [1..Lcount(W, f) -> 0..W.nrefs]
  BY DEF CodeFrame
<1>3. EndOf(f) = f.sp
  BY <1>1 DEF EndOf
<1>4. f.sp \in Nat /\ f.bp + 2 <= f.sp
  BY <1>1
<1> QED
  BY <1>1, <1>2, <1>3, <1>4

\* The calls being prepared lie below the floor.
LEMMA FloorFacts ==
  ASSUME NEW f, NEW s, NEW lim, NEW open, Prepared(f, s, lim, open),
         f.sp \in Nat, lim \in Nat, f.sp <= lim
  PROVE  /\ IsSeq(open) /\ Floor(open) \in Nat /\ f.sp + Floor(open) <= lim
         /\ \A i \in 1..Len(open) : open[i] \in Nat /\ open[i] + 2 <= Floor(open)
         /\ open # <<>> => Len(open) \in Nat \ {0} /\ Innermost(open) = open[Len(open)]
                           /\ Innermost(open) \in Nat /\ Floor(open) = Innermost(open) + 2
<1>1. IsSeq(open) /\ Len(open) \in Nat
  BY DEF Prepared, IsSeq
<1>2. CASE open = <<>>
  <2>1. Len(open) = 0 /\ Floor(open) = 0
    BY <1>2, NoneSeq DEF Floor
  <2> QED
    BY <1>1, <1>2, <2>1
<1>3. CASE open # <<>>
  <2>1. Len(open) # 0
    BY <1>1, <1>3, EmptyIs
  <2>2. Len(open) \in 1..Len(open)
    BY <1>1, <2>1
  <2>3. open[Len(open)] \in Nat /\ f.sp + open[Len(open)] + 2 <= lim
    BY <2>2 DEF Prepared
  <2>4. Floor(open) = open[Len(open)] + 2 /\ Innermost(open) = open[Len(open)]
    BY <1>3 DEF Floor, Innermost
  <2>5. ASSUME NEW i \in 1..Len(open)
        PROVE  open[i] \in Nat /\ open[i] + 2 <= Floor(open)
    <3>1. open[i] \in Nat
      BY DEF Prepared
    <3>2. CASE i = Len(open)
      BY <2>3, <2>4, <3>1, <3>2
    <3>3. CASE i # Len(open)
      <4>1. i \in 1..(Len(open) - 1)
        BY <1>1, <3>3
      <4>2. open[i] + 2 <= open[Len(open)]
        BY <2>2, <4>1 DEF Prepared
      <4> QED
        BY <2>3, <2>4, <3>1, <4>2
    <3> QED
      BY <3>2, <3>3
  <2> QED
    BY <1>1, <2>1, <2>3, <2>4, <2>5
<1> QED
  BY <1>2, <1>3

LEMMA RunsFacts ==
  ASSUME NEW W, NEW f, NEW s, NEW b, Runs(W, f, s, b), Len(s) \in Nat
  PROVE  /\ f.bp \in Nat \ {0} /\ EndOf(f) \in Nat /\ f.bp <= EndOf(f)
         /\ EndOf(f) <= Len(s)
         /\ f.cproc = "none" => CodeFrame(W, f) /\ (RunsCode(W, f, s, b) \/ RunsOut(W, f, s, b))
         /\ f.cproc # "none" => RunsC(W, f, s, b)
<1>1. CASE RunsCode(W, f, s, b)
  <2>1. CodeFrame(W, f)
    BY <1>1 DEF RunsCode
  <2>2. f.sp <= Len(s)
    <3>1. CASE OpAt(W, f) = "CHECK_ARG"
      <4>1. BeforeCheck(W, f, s)
        BY <1>1, <3>1 DEF RunsCode
      <4>2. f.args \in Nat /\ Len(s) = IF f.args > Lcount(W, f) THEN f.bp + 2 + f.args ELSE f.sp
        BY <4>1 DEF BeforeCheck
      <4>3. f.sp \in Nat /\ f.bp \in Nat \ {0} /\ Lcount(W, f) \in Nat /\ f.sp = f.bp + 2 + Lcount(W, f)
        BY <2>1, CodeFacts
      <4> QED
        BY <4>2, <4>3
    <3>2. CASE OpAt(W, f) # "CHECK_ARG"
      <4>1. Len(s) = f.sp + Height(W, f) /\ Height(W, f) \in Nat
        BY <1>1, <3>2 DEF RunsCode
      <4>2. f.sp \in Nat
        BY <2>1, CodeFacts
      <4> QED
        BY <4>1, <4>2
    <3> QED
      BY <3>1, <3>2
  <2>3. f.sp \in Nat /\ f.bp \in Nat \ {0} /\ f.bp + 2 <= f.sp /\ EndOf(f) = f.sp
        /\ f.cproc = "none"
    BY <2>1, CodeFacts
  <2>4. f.bp <= f.sp
    BY <2>3
  <2> QED
    BY <1>1, <2>1, <2>2, <2>3, <2>4
<1>2. CASE RunsOut(W, f, s, b)
  <2>1. CodeFrame(W, f) /\ b \in Nat /\ b > f.sp /\ b + 2 <= Len(s)
    BY <1>2 DEF RunsOut
  <2>2. f.sp \in Nat /\ f.bp \in Nat \ {0} /\ f.bp + 2 <= f.sp /\ EndOf(f) = f.sp
        /\ f.cproc = "none"
    BY <2>1, CodeFacts
  <2>3. f.sp <= Len(s) /\ f.bp <= f.sp
    BY <2>1, <2>2
  <2> QED
    BY <1>2, <2>1, <2>2, <2>3
<1>3. CASE RunsC(W, f, s, b)
  <2>1. CFrame(W, f) /\ f.bp + 2 <= Len(s)
    BY <1>3 DEF RunsC
  <2>2. f.cproc # "none" /\ f.bp \in Nat \ {0}
    BY <2>1 DEF CFrame
  <2>3. EndOf(f) = f.bp + 1
    BY <2>2 DEF EndOf
  <2>4. EndOf(f) \in Nat /\ EndOf(f) <= Len(s) /\ f.bp <= EndOf(f)
    BY <2>1, <2>2, <2>3
  <2> QED
    BY <1>3, <2>2, <2>4
<1> QED
  BY <1>1, <1>2, <1>3 DEF Runs

LEMMA StackedFacts ==
  ASSUME NEW W, NEW F, NEW s, NEW b, Stacked(W, F, s, b)
  PROVE  /\ IsSeq(s) /\ Len(s) \in Nat
         /\ IsSeq(F) /\ Len(F) \in Nat \ {0}
         /\ Callers(W, F, s) /\ SoundStack(W, s) /\ Runs(W, F[Len(F)], s, b)
<1>1. Callers(W, F, s) /\ SoundStack(W, s) /\ Runs(W, F[Len(F)], s, b)
  BY DEF Stacked
<1>2. IsSeq(s)
  BY <1>1 DEF SoundStack
<1>3. Len(s) \in Nat
  BY <1>2 DEF IsSeq
<1> QED
  BY <1>1, <1>2, <1>3, CallersLen

\* Every frame's variables are on the stack.
LEMMA FrameIs ==
  ASSUME NEW W, NEW F, NEW s, NEW b, Stacked(W, F, s, b), NEW i \in 1..Len(F)
  PROVE  /\ F[i].bp \in Nat \ {0} /\ EndOf(F[i]) \in Nat
         /\ F[i].bp <= EndOf(F[i]) /\ EndOf(F[i]) <= Len(s)
         /\ F[i].cproc = "none" => CodeFrame(W, F[i])
         /\ F[i].cproc # "none" => CFrame(W, F[i])
<1>1. /\ Len(s) \in Nat /\ Len(F) \in Nat \ {0}
      /\ Callers(W, F, s) /\ Runs(W, F[Len(F)], s, b)
  BY StackedFacts
<1> DEFINE n == Len(F)
<1>2. /\ F[n].bp \in Nat \ {0} /\ EndOf(F[n]) \in Nat /\ F[n].bp <= EndOf(F[n])
      /\ EndOf(F[n]) <= Len(s)
  BY <1>1, RunsFacts
<1>3. CASE i = n
  <2>1. F[i].cproc = "none" => CodeFrame(W, F[i])
    BY <1>1, <1>3, RunsFacts
  <2>2. F[i].cproc # "none" => CFrame(W, F[i])
    BY <1>1, <1>3, RunsFacts DEF RunsC
  <2> QED
    BY <1>2, <1>3, <2>1, <2>2
<1>4. CASE i # n
  <2>1. i < n /\ n \in 1..n
    BY <1>1, <1>4
  <2>2. Waiting(W, F[i], s, F[i + 1].bp)
    BY <1>1, <2>1, CallersWait
  <2>3. EndOf(F[i]) < F[n].bp
    BY <1>1, <2>1, CallersOrder
  <2>4. F[i].bp \in Nat \ {0} /\ EndOf(F[i]) \in Nat /\ EndOf(F[i]) >= F[i].bp
    BY <2>2, WaitingFacts
  <2>5. F[i].cproc = "none" => CodeFrame(W, F[i])
    BY <2>2, WaitingFacts DEF WaitingCode
  <2>6. F[i].cproc # "none" => CFrame(W, F[i])
    BY <2>2, WaitingFacts DEF WaitingC
  <2>7. EndOf(F[i]) <= Len(s) /\ F[i].bp <= EndOf(F[i])
    BY <1>1, <1>2, <2>3, <2>4
  <2> QED
    BY <2>4, <2>5, <2>6, <2>7
<1> QED
  BY <1>3, <1>4

-----------------------------------------------------------------------------
(* A step of the frame that runs.                                          *)

\* f at the instruction j.
WithPc(f, j) == [f EXCEPT !.pc = j]

LEMMA Moved ==
  ASSUME NEW W, NEW f, CodeFrame(W, f),
         NEW j, j \in DOMAIN W.at, W.at[j].env = EnvOf(W, f),
         NEW g, g = WithPc(f, j)
  PROVE  /\ CodeFrame(W, g) /\ g.pc = j
         /\ EnvOf(W, g) = EnvOf(W, f) /\ Lcount(W, g) = Lcount(W, f)
         /\ Open(W, g) = W.at[j].open /\ Height(W, g) = W.at[j].h
         /\ OpAt(W, g) = W.code[j].op
         /\ g.sp = f.sp /\ g.bp = f.bp /\ g.mark = f.mark /\ g.proc = f.proc
         /\ g.cproc = f.cproc /\ g.lref = f.lref /\ g.lrefl = f.lrefl /\ g.args = f.args
<1>1. IsFrame(f)
  BY DEF CodeFrame
<1>2. /\ g.pc = j /\ g.sp = f.sp /\ g.bp = f.bp /\ g.mark = f.mark /\ g.proc = f.proc
      /\ g.cproc = f.cproc /\ g.lref = f.lref /\ g.lrefl = f.lrefl /\ g.args = f.args
      /\ IsFrame(g)
  BY <1>1 DEF IsFrame, WithPc
<1>3. EnvOf(W, g) = EnvOf(W, f)
  BY <1>2 DEF EnvOf
<1>4. Lcount(W, g) = Lcount(W, f)
  BY <1>3 DEF Lcount
<1>5. CodeFrame(W, g)
  BY <1>2, <1>3, <1>4 DEF CodeFrame
<1> QED
  BY <1>2, <1>3, <1>4, <1>5 DEF Open, Height, OpAt

\* The callers do not care what the top frame does with its own part.
LEMMA TopChanges ==
  ASSUME NEW W, NEW F, NEW s, Callers(W, F, s), NEW g, NEW G, Retop(F, G, g),
         g.bp = F[Len(F)].bp, Len(F) = 1 => g.cproc = "none",
         NEW t, \A k \in 1..g.bp : t[k] = s[k]
  PROVE  Callers(W, G, t)
<1>1. IsSeq(F) /\ Len(F) \in Nat \ {0} /\ Len(F) \in 1..Len(F) /\ Len(F) > 0
  BY DEF Retop
<1>2. Callers(W, Append(SubSeq(F, 1, Len(F) - 1), g), t)
  BY <1>1, NewTop
<1>3. G = Append(SubSeq(F, 1, Len(F) - 1), g)
  BY <1>1, AppendRetop, OneRetop
<1> QED
  BY <1>2, <1>3

Agree(s, t, m) == \A k \in 1..m : t[k] = s[k]

\* The frame goes on at j, with h values above its variables; what lies below
\* the floor is as it was.
LEMMA Operate ==
  ASSUME NEW W, NEW F, NEW s, NEW b, Stacked(W, F, s, b),
         NEW f, f = F[Len(F)], RunsCode(W, f, s, b),
         NEW j, NEW h \in Nat, Leads(W.code, W.at, f.pc, j, h, Open(W, f)),
         h >= Floor(Open(W, f)),
         NEW t, SoundStack(W, t), Len(t) = f.sp + h,
         Agree(s, t, f.sp + Floor(Open(W, f))),
         W.code[j].op = "MAKE_PROC" => t[Len(t)] = <<"proto", W.code[j - 1].a>>,
         NEW g, g = WithPc(f, j), NEW G, Retop(F, G, g)
  PROVE  Stacked(W, G, t, b)
<1> DEFINE open == Open(W, f)
<1>1. /\ Len(s) \in Nat /\ IsSeq(F) /\ Len(F) \in Nat \ {0} /\ Callers(W, F, s)
      /\ Runs(W, f, s, b)
  BY StackedFacts
<1>2. CodeFrame(W, f) /\ f.mark = "ret" /\ Prepared(f, s, Len(s), open) /\ b = BpOf(f, open)
  BY DEF RunsCode
<1>3. f.sp \in Nat /\ f.bp \in Nat /\ f.bp <= f.sp /\ f.cproc = "none"
  BY <1>2, CodeFacts
<1>4. f.sp <= Len(s)
  <2>1. EndOf(f) <= Len(s) /\ EndOf(f) = f.sp
    BY <1>1, <1>2, CodeFacts, RunsFacts
  <2> QED
    BY <2>1
<1>5. \A k \in 1..(f.sp + Floor(open)) : t[k] = s[k]
  BY DEF Agree
<1>6. h >= Floor(open)
  OBVIOUS
<1> HIDE DEF open
<1>7. /\ IsSeq(open) /\ Floor(open) \in Nat
      /\ \A i \in 1..Len(open) : open[i] \in Nat /\ open[i] + 2 <= Floor(open)
  BY <1>1, <1>2, <1>3, <1>4, FloorFacts
<1>8. /\ j \in DOMAIN W.at /\ W.at[j] = At(W.at[f.pc].env, h, open)
      /\ W.code[j].op # "CHECK_ARG"
  BY DEF Leads, open
<1>9. W.at[f.pc].env = EnvOf(W, f)
  BY <1>2 DEF CodeFrame
<1>10. W.at[j].env = EnvOf(W, f) /\ W.at[j].h = h /\ W.at[j].open = open
  BY <1>8, <1>9 DEF At
<1>11. /\ CodeFrame(W, g) /\ g.pc = j /\ g.mark = "ret" /\ g.sp = f.sp /\ g.bp = f.bp
      /\ Open(W, g) = open /\ Height(W, g) = h /\ OpAt(W, g) = W.code[j].op
      /\ g.cproc = "none"
  BY <1>2, <1>3, <1>8, <1>10, Moved
<1>12. Prepared(g, t, Len(t), open)
  <2>1. ASSUME NEW i \in 1..Len(open)
        PROVE  /\ open[i] \in Nat
               /\ \A k \in 1..(i - 1) : open[k] + 2 <= open[i]
               /\ g.sp + open[i] + 2 <= Len(t)
               /\ t[g.sp + open[i] + 1] =
                    <<"bp", IF i = 1 THEN g.bp ELSE g.sp + open[i - 1] + 1>>
    <3>1. /\ \A k \in 1..(i - 1) : open[k] + 2 <= open[i]
          /\ s[f.sp + open[i] + 1] =
               <<"bp", IF i = 1 THEN f.bp ELSE f.sp + open[i - 1] + 1>>
      BY <1>2 DEF Prepared
    <3>2. open[i] \in Nat /\ open[i] + 2 <= Floor(open)
      BY <1>7
    <3>3. f.sp + open[i] + 1 \in 1..(f.sp + Floor(open)) /\ f.sp + open[i] + 2 <= f.sp + h
      <4>1. Floor(open) \in Nat
        BY <1>7
      <4>2. f.sp \in Nat /\ h \in Nat
        BY <1>3
      <4>3. f.sp + open[i] + 1 \in 1..(f.sp + Floor(open))
        <5>1. \A x, y, z \in Nat : y + 2 <= z => x + y + 1 \in 1..(x + z)
          OBVIOUS
        <5> QED
          BY <3>2, <4>1, <4>2, <5>1
      <4>4. f.sp + open[i] + 2 <= f.sp + h
        BY <1>6, <3>2, <4>1, <4>2, SMTT(30)
      <4> QED
        BY <4>3, <4>4
    <3>4. t[f.sp + open[i] + 1] = s[f.sp + open[i] + 1]
      BY <1>5, <3>3
    <3> QED
      BY <1>11, <3>1, <3>2, <3>3, <3>4
  <2> QED
    BY <1>7, <2>1 DEF Prepared
<1>13. RunsCode(W, g, t, b)
  <2>1. b = BpOf(g, open)
    BY <1>2, <1>11 DEF BpOf
  <2>2. Len(t) = g.sp + Height(W, g)
    BY <1>11
  <2>3. OpAt(W, g) # "CHECK_ARG"
    BY <1>8, <1>11
  <2>4. OpAt(W, g) = "MAKE_PROC" => t[Len(t)] = <<"proto", W.code[g.pc - 1].a>>
    BY <1>11
  <2> QED
    BY <1>11, <1>12, <2>1, <2>2, <2>3, <2>4 DEF RunsCode
<1>14. Callers(W, G, t)
  <2>1. \A k \in 1..g.bp : t[k] = s[k]
    <3>1. Floor(open) \in Nat /\ g.bp \in Nat /\ g.bp <= f.sp
      BY <1>3, <1>7, <1>11
    <3> QED
      BY <1>5, <1>3, <3>1, SMTT(30)
  <2>2. g.bp = F[Len(F)].bp /\ g.cproc = "none"
    BY <1>11
  <2> QED
    BY <1>1, <2>1, <2>2, TopChanges
<1>15. Len(G) = Len(F) /\ G[Len(F)] = g
  BY DEF Retop
<1> QED
  BY <1>13, <1>14, <1>15 DEF Stacked, Runs

\* Assigning to a variable of any frame.
LEMMA StoreLocal ==
  ASSUME NEW W, NEW F, NEW s, NEW b, Stacked(W, F, s, b),
         NEW i \in 1..Len(F), F[i].cproc = "none",
         NEW p \in Nat, p > F[i].bp, p <= F[i].sp, NEW v, Sound(W, v),
         NEW f, f = F[Len(F)], RunsCode(W, f, s, b), OpAt(W, f) # "MAKE_PROC",
         NEW t, t = [s EXCEPT ![p] = v]
  PROVE  Stacked(W, F, t, b) /\ RunsCode(W, f, t, b)
<1> DEFINE n == Len(F)
           open == Open(W, f)
<1>1. /\ IsSeq(s) /\ Len(s) \in Nat /\ IsSeq(F) /\ n \in Nat \ {0} /\ Callers(W, F, s)
      /\ SoundStack(W, s)
  BY StackedFacts
<1>2. IsSeq(t) /\ Len(t) = Len(s)
  <2>1. IsSeq(t)
    BY <1>1, PutSeq
  <2>2. Len(t) = Len(s)
    BY <1>1, PutSeq
  <2> QED
    BY <2>1, <2>2
<1>3. \A k \in 1..Len(s) : k # p => t[k] = s[k]
  BY <1>1, PutSeq
<1>4. p \in 1..Len(s) => t[p] = v
  BY <1>1, PutSeq
<1>5. EndOf(F[i]) = F[i].sp /\ EndOf(F[i]) \in Nat /\ F[i].bp \in Nat
  BY CodeFacts, FrameIs
<1>6. ASSUME NEW k \in 1..n, k >= i
      PROVE  p <= EndOf(F[k])
  <2>1. CASE k = i
    BY <1>5, <2>1
  <2>2. CASE k # i
    <3>1. i < k
      BY <1>6, <2>2
    <3>2. EndOf(F[i]) < F[k].bp
      BY <1>1, <3>1, CallersOrder
    <3>3. F[k].bp \in Nat /\ EndOf(F[k]) \in Nat /\ F[k].bp <= EndOf(F[k])
      BY FrameIs
    <3> QED
      BY <1>5, <3>2, <3>3
  <2> QED
    BY <2>1, <2>2
<1>7. ASSUME NEW k \in 1..n, k <= i
      PROVE  F[k].bp < p /\ F[k].bp \in Nat
  <2>1. F[k].bp <= F[i].bp
    BY <1>1, <1>7, BpOrder
  <2>2. F[k].bp \in Nat
    BY FrameIs
  <2> QED
    BY <1>5, <2>1, <2>2
<1>8. Callers(W, F, t)
  <2>1. ASSUME NEW m \in 1..(Len(F) - 1), NEW k \in (EndOf(F[m]) + 1)..F[m + 1].bp
        PROVE  t[k] = s[k]
    <3>1. m \in 1..n /\ m + 1 \in 1..n
      BY <1>1
    <3>2. EndOf(F[m]) \in Nat /\ F[m + 1].bp \in Nat /\ EndOf(F[m + 1]) \in Nat
          /\ EndOf(F[m + 1]) <= Len(s) /\ F[m + 1].bp <= EndOf(F[m + 1])
      BY <3>1, FrameIs
    <3>3. k \in 1..Len(s)
      BY <1>1, <3>2
    <3>4. m >= i \/ m + 1 <= i
      BY <1>1
    <3>5. CASE m >= i
      BY <1>3, <1>6, <3>1, <3>2, <3>3, <3>5
    <3>6. CASE m + 1 <= i
      BY <1>3, <1>7, <3>1, <3>2, <3>3, <3>6
    <3> QED
      BY <3>4, <3>5, <3>6
  <2> QED
    BY <1>1, <2>1, CallersSame
<1>9. SoundStack(W, t)
  <2>1. ASSUME NEW k \in 1..Len(t), k # 3
        PROVE  Sound(W, t[k])
    BY <1>1, <1>2, <1>3, <1>4, <2>1 DEF SoundStack
  <2> QED
    BY <1>2, <2>1 DEF SoundStack
<1>10. CodeFrame(W, f) /\ Prepared(f, s, Len(s), open)
  BY DEF RunsCode
<1>11. f.sp \in Nat /\ p <= f.sp
  <2>1. EndOf(f) = f.sp /\ f.sp \in Nat
    BY <1>10, CodeFacts
  <2>2. n \in 1..n /\ n >= i
    BY <1>1
  <2> QED
    BY <1>6, <2>1, <2>2
<1> HIDE DEF open
<1>12. Prepared(f, t, Len(t), open)
  <2>1. ASSUME NEW j \in 1..Len(open)
        PROVE  t[f.sp + open[j] + 1] = s[f.sp + open[j] + 1]
    <3>1. open[j] \in Nat /\ f.sp + open[j] + 2 <= Len(s)
      BY <1>10 DEF Prepared
    <3>2. f.sp + open[j] + 1 \in 1..Len(s) /\ f.sp + open[j] + 1 # p
      BY <1>1, <1>11, <3>1, SMTT(30)
    <3> QED
      BY <1>3, <3>2
  <2> QED
    BY <1>2, <1>10, <2>1 DEF Prepared
<1>13. RunsCode(W, f, t, b)
  BY <1>2, <1>12, ZenonT(30) DEF RunsCode, BeforeCheck, open
<1> QED
  BY <1>8, <1>9, <1>13 DEF Stacked, Runs

-----------------------------------------------------------------------------
(* Calls.                                                                  *)

\* What the verifier says of one instruction, and of the prototypes.
LEMMA Verified ==
  ASSUME NEW at, NEW tails, VerifiedBy(code, protos, at, tails)
  PROVE  /\ IsSeq(code) /\ Len(code) \in Nat /\ DOMAIN code = 1..Len(code)
         /\ DOMAIN at \subseteq DOMAIN code
         /\ \A e \in DOMAIN protos : protos[e].lcount \in Nat /\ IsSeq(protos[e].refs)
         /\ \A k \in DOMAIN at :
              k \in Nat /\ at[k].env \in DOMAIN protos /\ Verifies(code, protos, at, tails, k)
         /\ \A k \in tails : k \in DOMAIN at /\ TailVerifies(code, tails, k)
<1>1. IsSeq(code) /\ DOMAIN at \subseteq DOMAIN code
  BY DEF VerifiedBy
<1>2. Len(code) \in Nat /\ DOMAIN code = 1..Len(code)
  BY <1>1 DEF IsSeq
<1>3. \A k \in DOMAIN at : at[k].env \in DOMAIN protos /\ Verifies(code, protos, at, tails, k)
  BY DEF VerifiedBy
<1>4. \A e \in DOMAIN protos : protos[e].lcount \in Nat /\ IsSeq(protos[e].refs)
  BY DEF VerifiedBy
<1>5. \A k \in tails : k \in DOMAIN at /\ TailVerifies(code, tails, k)
  BY DEF VerifiedBy
<1>6. \A k \in DOMAIN at : k \in Nat
  BY <1>1, <1>2
<1> QED
  BY <1>1, <1>2, <1>3, <1>4, <1>5, <1>6

LEMMA Worlds ==
  ASSUME NEW at, NEW tails
  PROVE  /\ World(at, tails).code = code /\ World(at, tails).protos = protos
         /\ World(at, tails).at = at /\ World(at, tails).tails = tails
         /\ World(at, tails).procs = procs /\ World(at, tails).nrefs = Len(refs)
BY DEF World

\* A procedure begins at its first instruction, on the stack it is given.
LEMMA NewRuns ==
  ASSUME NEW at, NEW tails, VerifiedBy(code, protos, at, tails),
         ProcsMade(World(at, tails)), Len(refs) \in Nat,
         NEW v, Sound(World(at, tails), v), v[1] = "p",
         NEW s, IsSeq(s), NEW b \in Nat \ {0}, b + 2 <= Len(s),
         NEW f, f = FrameAt(s, b, v[2], procs[v[2]].entry)
  PROVE  /\ Runs(World(at, tails), f, Pad(s, f.sp), b)
         /\ f.bp = b /\ f.sp \in Nat /\ f.lrefl = {} /\ f.cproc = "none"
<1> DEFINE W == World(at, tails)
           p == v[2]
           e == procs[p].env
           lc == protos[e].lcount
           k == procs[p].entry
           t == Pad(s, f.sp)
<1>1. /\ W.code = code /\ W.protos = protos /\ W.at = at /\ W.tails = tails
      /\ W.procs = procs /\ W.nrefs = Len(refs)
  BY Worlds
<1>2. p \in 2..Len(procs)
  BY <1>1 DEF Sound
<1> HIDE DEF W
<1>3. Len(procs) \in Nat /\ p \in 1..Len(procs) /\ p > 1
  <2>1. Len(procs) \in Nat
    BY <1>1 DEF ProcsMade, IsSeq, W
  <2> QED
    BY <1>2, <2>1
<1>4. e \in DOMAIN protos /\ BodyAt(code, protos, at, k, e)
  BY <1>1, <1>3 DEF ProcsMade, W
<1>5. lc \in Nat
  BY <1>4, Verified
<1>6. k \in DOMAIN at /\ at[k] = At(e, 0, <<>>) /\ code[k].op = "CHECK_ARG"
      /\ code[k].a \in 0..lc
  BY <1>4 DEF BodyAt
<1>7. at[k].env = e /\ at[k].h = 0 /\ at[k].open = <<>>
  BY <1>6 DEF At
<1>8. /\ IsFrame(f) /\ f.cproc = "none" /\ f.proc = p /\ f.pc = k /\ f.bp = b /\ f.mark = "ret"
      /\ f.args = Len(s) - (b + 2) /\ f.sp = b + 2 + lc
      /\ f.lref = [i \in 1..lc |-> 0] /\ f.lrefl = {}
  BY DEF FrameAt, IsFrame
<1> HIDE DEF p, e, lc, k
<1>9. Len(s) \in Nat
  BY DEF IsSeq
<1>10. f.sp \in Nat /\ f.args \in Nat
  BY <1>5, <1>8, <1>9
<1>11. Len(t) = IF f.sp > Len(s) THEN f.sp ELSE Len(s)
  BY <1>10, PadSeq
<1> HIDE DEF t
<1>12. EnvOf(W, f) = e
  BY <1>1, <1>8 DEF EnvOf, e
<1>13. Lcount(W, f) = lc
  BY <1>1, <1>12 DEF Lcount, lc
<1>14. Open(W, f) = <<>> /\ Height(W, f) = 0 /\ OpAt(W, f) = "CHECK_ARG"
  BY <1>1, <1>6, <1>7, <1>8 DEF Open, Height, OpAt
<1>15. f.lref \in [1..lc -> 0..W.nrefs]
  BY <1>1, <1>8
<1>16. CodeFrame(W, f)
  BY <1>1, <1>3, <1>5, <1>6, <1>7, <1>8, <1>12, <1>13, <1>15 DEF CodeFrame
<1>17. Prepared(f, t, Len(t), <<>>)
  BY NoneSeq DEF Prepared
<1>18. BeforeCheck(W, f, t)
  <2>1. Len(t) = IF f.args > lc THEN f.bp + 2 + f.args ELSE f.sp
    BY <1>5, <1>8, <1>9, <1>11
  <2> QED
    BY <1>1, <1>6, <1>8, <1>10, <1>12, <1>13, <2>1 DEF BeforeCheck
<1>19. b = BpOf(f, <<>>)
  BY <1>8 DEF BpOf
<1>20. RunsCode(W, f, t, b)
  BY <1>8, <1>14, <1>16, <1>17, <1>18, <1>19 DEF RunsCode
<1> QED
  BY <1>8, <1>10, <1>20 DEF Runs, W, t

LEMMA NewRunsC ==
  ASSUME NEW W, NEW v, Sound(W, v), v[1] = "cp",
         NEW s, IsSeq(s), NEW b \in Nat \ {0}, b + 2 <= Len(s),
         NEW f, f = CFrameAt(s, b, v[2])
  PROVE  /\ Runs(W, f, Pad(s, f.sp), b)
         /\ f.bp = b /\ f.sp \in Nat /\ f.lrefl = {} /\ f.cproc # "none"
<1>1. v[2] \in {"pcall", "xpcall", "raise"}
  BY DEF Sound
<1>2. /\ IsFrame(f) /\ f.cproc = v[2] /\ f.bp = b /\ f.state = "new" /\ f.sp = Len(s)
      /\ f.lrefl = {}
  BY DEF CFrameAt, IsFrame
<1>3. Len(s) \in Nat
  BY DEF IsSeq
<1>4. Len(Pad(s, f.sp)) = IF f.sp > Len(s) THEN f.sp ELSE Len(s)
  BY <1>2, <1>3, PadSeq
<1>5. b + 2 <= Len(Pad(s, f.sp))
  BY <1>2, <1>3, <1>4
<1>6. CFrame(W, f)
  BY <1>1, <1>2 DEF CFrame
<1>7. RunsC(W, f, Pad(s, f.sp), b)
  BY <1>2, <1>5, <1>6 DEF RunsC
<1> QED
  BY <1>1, <1>2, <1>3, <1>7 DEF Runs

\* The frame of the procedure v, with its arguments on s.
NewFrame(v, s, b) ==
  IF v[1] = "p" THEN FrameAt(s, b, v[2], procs[v[2]].entry) ELSE CFrameAt(s, b, v[2])

LEMMA NewFrameRuns ==
  ASSUME NEW at, NEW tails, VerifiedBy(code, protos, at, tails),
         ProcsMade(World(at, tails)), Len(refs) \in Nat,
         NEW v, Sound(World(at, tails), v), Callable(v),
         NEW s, IsSeq(s), NEW b \in Nat \ {0}, b + 2 <= Len(s),
         NEW f, f = NewFrame(v, s, b)
  PROVE  /\ Runs(World(at, tails), f, Pad(s, f.sp), b)
         /\ f.bp = b /\ f.sp \in Nat /\ f.lrefl = {}
<1>1. CASE v[1] = "p"
  <2>1. f = FrameAt(s, b, v[2], procs[v[2]].entry)
    BY <1>1 DEF NewFrame
  <2>2. Runs(World(at, tails), f, Pad(s, f.sp), b)
    BY <1>1, <2>1, NewRuns
  <2>3. f.bp = b
    BY <1>1, <2>1, NewRuns
  <2>4. f.sp \in Nat
    BY <1>1, <2>1, NewRuns
  <2>5. f.lrefl = {}
    BY <2>1 DEF FrameAt
  <2> QED
    BY <2>2, <2>3, <2>4, <2>5
<1>2. CASE v[1] # "p"
  <2>1. f = CFrameAt(s, b, v[2]) /\ v[1] = "cp"
    BY <1>2 DEF NewFrame, Callable
  <2>2. Runs(World(at, tails), f, Pad(s, f.sp), b)
    BY <2>1, NewRunsC
  <2>3. f.bp = b
    BY <2>1, NewRunsC
  <2>4. f.sp \in Nat
    BY <2>1, NewRunsC
  <2>5. f.lrefl = {}
    BY <2>1 DEF CFrameAt
  <2> QED
    BY <2>2, <2>3, <2>4, <2>5
<1> QED
  BY <1>1, <1>2

\* The callers being in order, the call of v is.
LEMMA Entered ==
  ASSUME NEW W, NEW G, NEW s, Callers(W, G, s), SoundStack(W, s),
         NEW f, f = G[Len(G)], NEW b \in Nat, f.bp = b, b + 2 <= Len(s), f.sp \in Nat,
         Runs(W, f, Pad(s, f.sp), b)
  PROVE  Stacked(W, G, Pad(s, f.sp), b)
<1> DEFINE t == Pad(s, f.sp)
<1>1. IsSeq(s)
  BY DEF SoundStack
<1>2. Len(s) \in Nat
  BY <1>1 DEF IsSeq
<1>3. /\ IsSeq(t) /\ \A i \in 1..Len(s) : t[i] = s[i]
      /\ \A i \in 1..Len(t) : i > Len(s) => t[i] = Null
  BY <1>1, PadSeq
<1> HIDE DEF t
<1>4. \A k \in 1..f.bp : t[k] = s[k]
  BY <1>2, <1>3
<1>5. Callers(W, G, t)
  BY <1>4, CallersBelow
<1>6. Sound(W, Null)
  BY DEF Sound, Null
<1>7. Len(t) \in Nat
  BY <1>3 DEF IsSeq
<1>8. ASSUME NEW k \in 1..Len(t), k # 3
      PROVE  Sound(W, t[k])
  <2>1. k \in 1..Len(s) \/ k > Len(s)
    BY <1>2, <1>7
  <2> QED
    BY <1>3, <1>6, <1>8, <2>1 DEF SoundStack
<1>9. SoundStack(W, t)
  BY <1>3, <1>8 DEF SoundStack
<1> QED
  BY <1>5, <1>9 DEF Stacked, t

-----------------------------------------------------------------------------
(* References.                                                             *)

SameHold(f, g) ==
  f.cproc = g.cproc /\ f.bp = g.bp /\ f.lref = g.lref /\ f.lrefl = g.lrefl

\* The open references of rq are open references of rs, for the same variables.
OpenAs(rs, rq) ==
  \A r \in 1..Len(rq) : rq[r].pos # 0 =>
    r \in 1..Len(rs) /\ rq[r].pos = rs[r].pos /\ rq[r].idx = rs[r].idx

\* A frame of F is still in G, or holds none of them.
Stays(rs, rq, f, G) ==
  \/ \E j \in 1..Len(G) : SameHold(f, G[j])
  \/ \A r \in 1..Len(rq) : HeldBy(rs, r, f) => rq[r].pos = 0

LEMMA HeldKept ==
  ASSUME NEW rs, NEW F, RefsHeld(rs, F), NEW rq, OpenAs(rs, rq), NEW G,
         \A i \in 1..Len(F) : Stays(rs, rq, F[i], G)
  PROVE  RefsHeld(rq, G)
<1>1. ASSUME NEW r \in 1..Len(rq), rq[r].pos # 0
      PROVE  \E j \in 1..Len(G) : HeldBy(rq, r, G[j])
  <2>1. r \in 1..Len(rs) /\ rq[r].pos = rs[r].pos /\ rq[r].idx = rs[r].idx
    BY <1>1 DEF OpenAs
  <2>2. PICK i \in 1..Len(F) : HeldBy(rs, r, F[i])
    BY <1>1, <2>1 DEF RefsHeld
  <2>3. PICK j \in 1..Len(G) : SameHold(F[i], G[j])
    BY <1>1, <2>2 DEF Stays
  <2>4. HeldBy(rq, r, G[j])
    BY <2>1, <2>2, <2>3 DEF HeldBy, SameHold, Loc
  <2> QED
    BY <2>4
<1> QED
  BY <1>1 DEF RefsHeld

\* The cell of an open reference is the variable of a frame, above cell 3.
LEMMA RefInside ==
  ASSUME NEW W, NEW F, NEW s, NEW b, Stacked(W, F, s, b),
         NEW rs, RefsMade(W, rs), NEW r \in 1..Len(rs), NEW i \in 1..Len(F),
         HeldBy(rs, r, F[i])
  PROVE  /\ rs[r].pos \in 4..Len(s) /\ F[i].cproc = "none"
         /\ rs[r].pos > F[i].bp /\ rs[r].pos <= F[i].sp
<1>1. F[i].cproc = "none" /\ rs[r].pos = F[i].bp + 3 + rs[r].idx
      /\ rs[r].idx + 1 \in DOMAIN F[i].lref
  BY DEF HeldBy, Loc
<1>2. CodeFrame(W, F[i]) /\ F[i].bp \in Nat \ {0} /\ EndOf(F[i]) <= Len(s)
  BY <1>1, FrameIs
<1>3. /\ F[i].sp \in Nat /\ EndOf(F[i]) = F[i].sp
      /\ Lcount(W, F[i]) \in Nat /\ F[i].sp = F[i].bp + 2 + Lcount(W, F[i])
      /\ DOMAIN F[i].lref = 1..Lcount(W, F[i])
  BY <1>2, CodeFacts
<1>4. rs[r].idx \in Nat
  BY DEF RefsMade, IsRef
<1>5. Len(s) \in Nat
  BY StackedFacts
<1>6. rs[r].idx + 1 <= Lcount(W, F[i])
  BY <1>1, <1>3
<1>7. rs[r].pos \in Nat /\ rs[r].pos >= 4 /\ rs[r].pos > F[i].bp /\ rs[r].pos <= F[i].sp
  <2>1. \A x \in Nat \ {0}, y, z \in Nat : y + 1 <= z =>
          x + 3 + y \in Nat /\ x + 3 + y >= 4 /\ x + 3 + y > x /\ x + 3 + y <= x + 2 + z
    OBVIOUS
  <2> QED
    BY <1>1, <1>2, <1>3, <1>4, <1>6, <2>1
<1> QED
  BY <1>1, <1>2, <1>3, <1>5, <1>7

LEMMA OpenInside ==
  ASSUME NEW W, NEW F, NEW s, NEW b, Stacked(W, F, s, b),
         NEW rs, RefsMade(W, rs), RefsHeld(rs, F), NEW r \in 1..Len(rs), rs[r].pos # 0
  PROVE  /\ rs[r].pos \in 4..Len(s) /\ Sound(W, s[rs[r].pos])
         /\ \E i \in 1..Len(F) : F[i].cproc = "none" /\ rs[r].pos > F[i].bp /\ rs[r].pos <= F[i].sp
<1>1. PICK i \in 1..Len(F) : HeldBy(rs, r, F[i])
  BY DEF RefsHeld
<1>2. rs[r].pos \in 4..Len(s) /\ F[i].cproc = "none"
      /\ rs[r].pos > F[i].bp /\ rs[r].pos <= F[i].sp
  BY <1>1, RefInside
<1>3. SoundStack(W, s) /\ Len(s) \in Nat
  BY StackedFacts
<1>4. rs[r].pos \in 1..Len(s) /\ rs[r].pos # 3
  BY <1>2, <1>3
<1>5. Sound(W, s[rs[r].pos])
  BY <1>3, <1>4 DEF SoundStack
<1> QED
  BY <1>2, <1>5

LEMMA ClosedFacts ==
  ASSUME NEW gone, NEW s, IsSeq(refs), NEW rq, rq = Closed(gone, s)
  PROVE  /\ IsSeq(rq) /\ Len(rq) = Len(refs)
         /\ \A r \in 1..Len(refs) :
              rq[r] = IF r \in gone /\ refs[r].pos # 0
                      THEN [refs[r] EXCEPT !.pos = 0, !.val = s[refs[r].pos]]
                      ELSE refs[r]
<1> DEFINE E(r) == IF r \in gone /\ refs[r].pos # 0
                   THEN [refs[r] EXCEPT !.pos = 0, !.val = s[refs[r].pos]] ELSE refs[r]
           S == {E(r) : r \in 1..Len(refs)}
<1>1. Len(refs) \in Nat /\ DOMAIN refs = 1..Len(refs)
  BY DEF IsSeq
<1>2. rq = [r \in 1..Len(refs) |-> E(r)]
  BY <1>1 DEF Closed
<1> HIDE DEF E
<1>3. rq \in [1..Len(refs) -> S]
  BY <1>2
<1> HIDE DEF S
<1>4. IsSeq(rq) /\ Len(rq) = Len(refs)
  BY <1>1, <1>3, FunctionSeq
<1>5. \A r \in 1..Len(refs) : rq[r] = E(r)
  BY <1>2
<1> QED
  BY <1>4, <1>5 DEF E

\* A reference that is closed has the value its variable had.
LEMMA ClosedMade ==
  ASSUME NEW W, NEW F, NEW s, NEW b, Stacked(W, F, s, b),
         RefsMade(W, refs), RefsHeld(refs, F), NEW gone, NEW rq, rq = Closed(gone, s)
  PROVE  /\ RefsMade(W, rq) /\ Len(rq) = Len(refs) /\ OpenAs(refs, rq)
         /\ \A r \in 1..Len(refs) : r \in gone => rq[r].pos = 0
<1>1. IsSeq(refs) /\ Len(refs) = W.nrefs /\ \A r \in 1..Len(refs) : IsRef(W, refs[r])
  BY DEF RefsMade
<1>2. IsSeq(rq) /\ Len(rq) = Len(refs)
  BY <1>1, ClosedFacts
<1>3. \A r \in 1..Len(refs) :
        rq[r] = IF r \in gone /\ refs[r].pos # 0
                THEN [refs[r] EXCEPT !.pos = 0, !.val = s[refs[r].pos]]
                ELSE refs[r]
  BY <1>1, ClosedFacts, Zenon
<1>4. ASSUME NEW r \in 1..Len(refs), r \in gone, refs[r].pos # 0
      PROVE  IsRef(W, rq[r]) /\ rq[r].pos = 0
  <2>1. Sound(W, s[refs[r].pos])
    BY <1>4, OpenInside
  <2>2. IsRef(W, refs[r])
    BY <1>1
  <2>3. rq[r] = [refs[r] EXCEPT !.pos = 0, !.val = s[refs[r].pos]]
    BY <1>3, <1>4, Zenon
  <2>4. rq[r] = [pos |-> 0, idx |-> refs[r].idx, val |-> s[refs[r].pos]]
    BY <2>2, <2>3 DEF IsRef
  <2> QED
    BY <2>1, <2>2, <2>4 DEF IsRef
<1>5. ASSUME NEW r \in 1..Len(refs), ~(r \in gone /\ refs[r].pos # 0)
      PROVE  rq[r] = refs[r]
  BY <1>3, <1>5, Zenon
<1>6. \A r \in 1..Len(refs) : IsRef(W, rq[r])
  BY <1>1, <1>4, <1>5
<1>7. OpenAs(refs, rq)
  BY <1>2, <1>4, <1>5 DEF OpenAs
<1>8. \A r \in 1..Len(refs) : r \in gone => rq[r].pos = 0
  BY <1>4, <1>5
<1>9. RefsMade(W, rq)
  BY <1>1, <1>2, <1>6 DEF RefsMade
<1> QED
  BY <1>2, <1>7, <1>8, <1>9

\* The value of a reference is one the program may have.
LEMMA RefValueSound ==
  ASSUME NEW W, NEW F, Stacked(W, F, stk, bp), RefsMade(W, refs), RefsHeld(refs, F),
         NEW r \in 1..Len(refs)
  PROVE  Sound(W, RefValue(r))
<1>1. CASE refs[r].pos # 0
  BY <1>1, OpenInside DEF RefValue
<1>2. CASE refs[r].pos = 0
  BY <1>2 DEF RefValue, RefsMade, IsRef
<1> QED
  BY <1>1, <1>2

-----------------------------------------------------------------------------
(* The state before a step, and after it.                                  *)

\* A step goes on, or ends the run as it may end.
Goes(at, tails) ==
  \/ res = Null /\ RunInv(at, tails)
  \/ res \notin {Null, Abort} /\ OpenRefsAreLive

\* What a step may rely on when the top frame has not taken an error.
Ready(at, tails) ==
  /\ VerifiedBy(code, protos, at, tails)
  /\ Stacked(World(at, tails), frames, stk, bp)
  /\ ProcsMade(World(at, tails))
  /\ RefsMade(World(at, tails), refs) /\ RefsHeld(refs, frames)

LEMMA ReadyIs ==
  ASSUME NEW at, NEW tails, RunInv(at, tails), ~Caught
  PROVE  Ready(at, tails)
BY DEF RunInv, Ready, Live

LEMMA ReadyFacts ==
  ASSUME NEW at, NEW tails, Ready(at, tails)
  PROVE  /\ IsSeq(frames) /\ Len(frames) \in Nat \ {0}
         /\ IsSeq(stk) /\ Len(stk) \in Nat /\ SoundStack(World(at, tails), stk)
         /\ Callers(World(at, tails), frames, stk)
         /\ Runs(World(at, tails), Top, stk, bp)
         /\ IsSeq(refs) /\ Len(refs) \in Nat
         /\ IsSeq(procs) /\ Len(procs) \in Nat
<1>1. Stacked(World(at, tails), frames, stk, bp)
  BY DEF Ready
<1>2. IsSeq(refs)
  BY DEF Ready, RefsMade
<1>3. Len(refs) \in Nat
  BY <1>2 DEF IsSeq
<1>4. IsSeq(procs)
  BY Worlds DEF Ready, ProcsMade
<1>5. Len(procs) \in Nat
  BY <1>4 DEF IsSeq
<1> QED
  BY <1>1, <1>2, <1>3, <1>4, <1>5, StackedFacts DEF Top

LEMMA NotCaught ==
  ASSUME NEW W, NEW f, NEW s, NEW b, Runs(W, f, s, b)
  PROVE  ~(f.cproc = "pcall" /\ f.state = "caught")
<1>1. ASSUME CodeFrame(W, f)
      PROVE  f.cproc # "pcall"
  BY <1>1 DEF CodeFrame
<1>2. ASSUME CFrame(W, f)
      PROVE  f.state # "caught"
  BY <1>2 DEF CFrame
<1> QED
  BY <1>1, <1>2 DEF Runs, RunsCode, RunsOut, RunsC

\* The same byte code goes on to run.
LEMMA GoesOn ==
  ASSUME NEW at, NEW tails, VerifiedBy(code, protos, at, tails), UNCHANGED loaded,
         Stacked(World(at, tails)', frames', stk', bp'),
         ProcsMade(World(at, tails)'),
         RefsMade(World(at, tails)', refs'), RefsHeld(refs', frames'), res' = Null
  PROVE  Goes(at, tails)'
<1>1. /\ IsSeq(frames') /\ Len(frames') \in Nat \ {0}
      /\ Runs(World(at, tails)', Top', stk', bp')
  BY StackedFacts DEF Top
<1>2. ~Caught'
  BY <1>1, NotCaught DEF Caught
<1>3. Live' = frames'
  BY <1>2 DEF Live
<1>4. code' = code /\ protos' = protos
  BY DEF loaded
<1>5. RunInv(at, tails)'
  BY <1>1, <1>3, <1>4 DEF RunInv
<1> QED
  BY <1>5 DEF Goes

LEMMA SameWorld ==
  ASSUME NEW at, NEW tails, UNCHANGED loaded, procs' = procs, Len(refs') = Len(refs)
  PROVE  World(at, tails)' = World(at, tails)
BY DEF World, loaded

LEMMA GoesOnSame ==
  ASSUME NEW at, NEW tails, Ready(at, tails), UNCHANGED <<loaded, procs>>,
         Len(refs') = Len(refs),
         Stacked(World(at, tails), frames', stk', bp'),
         RefsMade(World(at, tails), refs'), RefsHeld(refs', frames'), res' = Null
  PROVE  Goes(at, tails)'
<1>1. World(at, tails)' = World(at, tails)
  BY SameWorld
<1>2. VerifiedBy(code, protos, at, tails) /\ ProcsMade(World(at, tails))
  BY DEF Ready
<1> HIDE DEF Ready
<1>3. /\ Stacked(World(at, tails)', frames', stk', bp')
      /\ ProcsMade(World(at, tails)')
      /\ RefsMade(World(at, tails)', refs')
  BY <1>1, <1>2
<1> QED
  BY <1>2, <1>3, GoesOn

\* An open reference is held by a frame.
LEMMA Lives ==
  ASSUME NEW at, NEW tails, RunInv(at, tails)
  PROVE  OpenRefsAreLive
<1>1. SUFFICES ASSUME NEW r \in DOMAIN refs, refs[r].pos # 0
               PROVE  \E i \in DOMAIN frames :
                        /\ r \in frames[i].lrefl
                        /\ refs[r].pos = Loc(frames[i], refs[r].idx)
                        /\ frames[i].lref[refs[r].idx + 1] = r
  BY DEF OpenRefsAreLive
<1>2. IsSeq(refs) /\ RefsHeld(refs, Live) /\ IsSeq(frames) /\ Len(frames) > 0
  BY DEF RunInv, RefsMade
<1>3. DOMAIN refs = 1..Len(refs)
  BY <1>2 DEF IsSeq
<1>4. DOMAIN frames = 1..Len(frames) /\ Len(frames) \in Nat
  BY <1>2 DEF IsSeq
<1>5. PICK i \in 1..Len(Live) : HeldBy(refs, r, Live[i])
  BY <1>1, <1>2, <1>3 DEF RefsHeld
<1>6. i \in DOMAIN frames /\ Live[i] = frames[i]
  <2>1. CASE Caught
    <3>1. Live = SubSeq(frames, 1, Len(frames) - 1)
      BY <2>1 DEF Live
    <3>2. Len(frames) - 1 \in Nat /\ Len(frames) - 1 <= Len(frames)
      BY <1>2, <1>4
    <3>3. Len(Live) = Len(frames) - 1
          /\ \A j \in 1..(Len(frames) - 1) : Live[j] = frames[j]
      BY <1>2, <3>1, <3>2, FirstSeq
    <3> QED
      BY <1>4, <1>5, <3>2, <3>3
  <2>2. CASE ~Caught
    BY <1>4, <1>5, <2>2 DEF Live
  <2> QED
    BY <2>1, <2>2
<1> QED
  BY <1>5, <1>6 DEF HeldBy

\* A run that ends leaves the references as they are.
LEMMA EndsSame ==
  ASSUME NEW at, NEW tails, RunInv(at, tails), UNCHANGED <<refs, frames>>,
         res' \notin {Null, Abort}
  PROVE  Goes(at, tails)'
<1>1. OpenRefsAreLive'
  BY Lives DEF OpenRefsAreLive, Loc
<1> QED
  BY <1>1 DEF Goes

-----------------------------------------------------------------------------
(* Calls of a value, and errors.                                           *)

LEMMA PrefixSound ==
  ASSUME NEW W, NEW s, SoundStack(W, s), NEW m \in Nat, m <= Len(s)
  PROVE  SoundStack(W, SubSeq(s, 1, m))
<1> DEFINE t == SubSeq(s, 1, m)
<1>1. IsSeq(s)
  BY DEF SoundStack
<1>2. Len(s) \in Nat
  BY <1>1 DEF IsSeq
<1>3. IsSeq(t) /\ Len(t) = m /\ \A i \in 1..m : t[i] = s[i]
  BY <1>1, FirstSeq
<1> HIDE DEF t
<1>4. \A k \in 1..m : k \in 1..Len(s)
  BY <1>2
<1>5. SoundStack(W, t)
  BY <1>3, <1>4 DEF SoundStack
<1> QED
  BY <1>5 DEF t

LEMMA ConcatSound ==
  ASSUME NEW W, NEW s, SoundStack(W, s), NEW t, IsSeq(t),
         \A i \in 1..Len(t) : Sound(W, t[i])
  PROVE  /\ SoundStack(W, s \o t) /\ Len(s \o t) = Len(s) + Len(t)
         /\ \A i \in 1..Len(s) : (s \o t)[i] = s[i]
         /\ \A i \in 1..Len(t) : (s \o t)[Len(s) + i] = t[i]
<1> DEFINE u == s \o t
<1>1. IsSeq(s)
  BY DEF SoundStack
<1>2. Len(s) \in Nat /\ Len(t) \in Nat
  BY <1>1 DEF IsSeq
<1>3. IsSeq(u) /\ Len(u) = Len(s) + Len(t)
      /\ (\A i \in 1..Len(s) : u[i] = s[i]) /\ \A i \in 1..Len(t) : u[Len(s) + i] = t[i]
  BY <1>1, ConcatSeq
<1> HIDE DEF u
<1>4. ASSUME NEW k \in 1..Len(u), k # 3
      PROVE  Sound(W, u[k])
  <2>1. CASE k \in 1..Len(s)
    BY <1>3, <1>4, <2>1 DEF SoundStack
  <2>2. CASE k \notin 1..Len(s)
    <3>1. k - Len(s) \in 1..Len(t) /\ Len(s) + (k - Len(s)) = k
      BY <1>2, <1>3, <2>2
    <3>2. u[k] = t[k - Len(s)]
      BY <1>3, <3>1
    <3> QED
      BY <3>1, <3>2
  <2> QED
    BY <2>1, <2>2
<1>5. SoundStack(W, u)
  BY <1>3, <1>4 DEF SoundStack
<1> QED
  BY <1>3, <1>5 DEF u

\* The frames from k on leave, and close their references.
LEMMA HeldBelow ==
  ASSUME NEW at, NEW tails, Ready(at, tails), NEW k \in 1..Len(frames), NEW gone,
         \A i \in 1..Len(frames) : i >= k =>
           frames[i].cproc # "none" \/ frames[i].lrefl \subseteq gone,
         NEW rq, rq = Closed(gone, stk)
  PROVE  /\ RefsHeld(rq, SubSeq(frames, 1, k - 1))
         /\ RefsMade(World(at, tails), rq) /\ Len(rq) = Len(refs)
<1> DEFINE W == World(at, tails)
           G == SubSeq(frames, 1, k - 1)
<1>1. IsSeq(frames) /\ Len(frames) \in Nat \ {0} /\ k - 1 \in Nat /\ k - 1 <= Len(frames)
  BY ReadyFacts
<1>2. IsSeq(G) /\ Len(G) = k - 1 /\ \A i \in 1..(k - 1) : G[i] = frames[i]
  BY <1>1, FirstSeq
<1> HIDE DEF G
<1>3. Stacked(W, frames, stk, bp) /\ RefsMade(W, refs) /\ RefsHeld(refs, frames)
  BY DEF Ready
<1> HIDE DEF W
<1>4. /\ RefsMade(W, rq) /\ Len(rq) = Len(refs) /\ OpenAs(refs, rq)
      /\ \A r \in 1..Len(refs) : r \in gone => rq[r].pos = 0
  BY <1>3, ClosedMade
<1>5. ASSUME NEW i \in 1..Len(frames)
      PROVE  Stays(refs, rq, frames[i], G)
  <2>1. CASE i < k
    <3>1. i \in 1..(k - 1)
      BY <1>1, <2>1
    <3>2. SameHold(frames[i], G[i])
      BY <1>2, <3>1 DEF SameHold
    <3> QED
      BY <1>2, <3>1, <3>2 DEF Stays
  <2>2. CASE i >= k
    <3>1. frames[i].cproc # "none" \/ frames[i].lrefl \subseteq gone
      BY <2>2
    <3> QED
      BY <1>4, <3>1 DEF HeldBy, Stays
  <2> QED
    BY <1>1, <2>1, <2>2
<1>6. RefsHeld(rq, G)
  BY <1>3, <1>4, <1>5, HeldKept
<1> QED
  BY <1>4, <1>6 DEF G, W

\* A procedure is called by the frames fs.
LEMMA CallGoes ==
  ASSUME NEW at, NEW tails, Ready(at, tails), res = Null,
         NEW v, Sound(World(at, tails), v), Callable(v),
         NEW s, SoundStack(World(at, tails), s),
         NEW b \in Nat \ {0}, b + 2 <= Len(s), NEW fs, IsSeq(fs),
         \A g : g.bp = b => Callers(World(at, tails), Append(fs, g), s),
         NEW gone, RefsHeld(Closed(gone, stk), fs),
         CallObj(v, s, b, fs, gone)
  PROVE  Goes(at, tails)'
<1> DEFINE W == World(at, tails)
           f == NewFrame(v, s, b)
           G == Append(fs, f)
           rq == Closed(gone, stk)
<1>1. /\ frames' = G /\ stk' = Pad(s, f.sp) /\ bp' = b /\ refs' = rq
      /\ UNCHANGED <<loaded, procs, res>>
  BY DEF CallObj, NewFrame
<1>2. /\ VerifiedBy(code, protos, at, tails) /\ ProcsMade(W)
      /\ Stacked(W, frames, stk, bp) /\ RefsMade(W, refs) /\ RefsHeld(refs, frames)
  BY DEF Ready
<1>3. Len(refs) \in Nat
  BY ReadyFacts
<1>4. IsSeq(s)
  BY DEF SoundStack
<1> HIDE DEF f, W, rq
<1>5. Runs(W, f, Pad(s, f.sp), b)
  BY <1>2, <1>3, <1>4, NewFrameRuns DEF W, f
<1>6. f.bp = b
  BY <1>2, <1>3, <1>4, NewFrameRuns DEF W, f
<1>7. f.sp \in Nat
  BY <1>2, <1>3, <1>4, NewFrameRuns DEF W, f
<1>8. Callers(W, G, s)
  BY <1>6 DEF W
<1>9. IsSeq(G) /\ Len(G) = Len(fs) + 1 /\ (\A i \in 1..Len(fs) : G[i] = fs[i])
      /\ G[Len(fs) + 1] = f
  BY AppendSeq
<1>10. Len(fs) \in Nat
  BY DEF IsSeq
<1> HIDE DEF G
<1>11. f = G[Len(G)] /\ SoundStack(W, s)
  BY <1>9 DEF W
<1>12. Stacked(W, G, Pad(s, f.sp), b)
  BY <1>5, <1>6, <1>7, <1>8, <1>11, Entered
<1>13. RefsMade(W, rq) /\ Len(rq) = Len(refs)
  BY <1>2, ClosedMade DEF rq
<1>14. RefsHeld(rq, G)
  <2>1. RefsHeld(rq, fs)
    BY DEF rq
  <2>2. \A i \in 1..Len(fs) : i \in 1..Len(G) /\ G[i] = fs[i]
    BY <1>9, <1>10
  <2> QED
    BY <2>1, <2>2 DEF RefsHeld
<1> QED
  BY <1>1, <1>12, <1>13, <1>14, GoesOnSame DEF W

\* The frame at k is one of a procedure written in C: it is not the first, and
\* what was there when it was called is on the stack below it.
LEMMA CAbove ==
  ASSUME NEW at, NEW tails, Ready(at, tails), NEW k \in 1..Len(frames),
         frames[k].cproc # "none"
  PROVE  /\ k > 1 /\ k - 1 \in 1..Len(frames) /\ k - 1 < Len(frames) /\ k - 1 + 1 = k
         /\ CFrame(World(at, tails), frames[k])
         /\ frames[k].bp \in Nat /\ frames[k].bp >= 4 /\ frames[k].bp + 1 <= Len(stk)
<1>1. /\ Len(frames) \in Nat \ {0} /\ Callers(World(at, tails), frames, stk)
      /\ Len(stk) \in Nat
  BY ReadyFacts
<1>2. Stacked(World(at, tails), frames, stk, bp)
  BY DEF Ready
<1>3. k # 1
  BY <1>1 DEF Callers
<1>4. CFrame(World(at, tails), frames[k]) /\ EndOf(frames[k]) <= Len(stk)
      /\ frames[k].bp \in Nat \ {0}
  BY <1>2, FrameIs
<1>5. EndOf(frames[k]) = frames[k].bp + 1
  BY DEF EndOf
<1>6. k > 1
  BY <1>1, <1>3
<1>7. frames[k].bp >= 4
  BY <1>1, <1>6, CallerFacts
<1>8. k - 1 \in 1..Len(frames) /\ k - 1 < Len(frames) /\ k - 1 + 1 = k
  BY <1>1, <1>6
<1> QED
  BY <1>4, <1>5, <1>6, <1>7, <1>8

LEMMA GoneFrom ==
  ASSUME NEW at, NEW tails, Ready(at, tails), NEW k \in 1..Len(frames),
         frames[k].cproc # "none"
  PROVE  /\ RefsHeld(Closed(RefsFrom(k + 1), stk), SubSeq(frames, 1, k - 1))
         /\ RefsMade(World(at, tails), Closed(RefsFrom(k + 1), stk))
         /\ Len(Closed(RefsFrom(k + 1), stk)) = Len(refs)
<1>1. Len(frames) \in Nat \ {0}
  BY ReadyFacts
<1>2. ASSUME NEW i \in 1..Len(frames), i >= k
      PROVE  frames[i].cproc # "none" \/ frames[i].lrefl \subseteq RefsFrom(k + 1)
  <2>1. CASE i = k
    BY <2>1
  <2>2. CASE i # k
    <3>1. i \in (k + 1)..Len(frames)
      BY <1>1, <1>2, <2>2
    <3> QED
      BY <3>1 DEF RefsFrom
  <2> QED
    BY <2>1, <2>2
<1> DEFINE gone == RefsFrom(k + 1)
           rq == Closed(gone, stk)
<1>3. \A i \in 1..Len(frames) : i >= k =>
        frames[i].cproc # "none" \/ frames[i].lrefl \subseteq gone
  BY <1>2
<1>4. rq = Closed(gone, stk)
  OBVIOUS
<1> HIDE DEF gone, rq
<1>5. RefsHeld(rq, SubSeq(frames, 1, k - 1))
  BY <1>3, <1>4, HeldBelow
<1>6. RefsMade(World(at, tails), rq)
  BY <1>3, <1>4, HeldBelow
<1>7. Len(rq) = Len(refs)
  BY <1>3, <1>4, HeldBelow
<1> QED
  BY <1>5, <1>6, <1>7 DEF rq, gone

LEMMA CaughtByPcallGoes ==
  ASSUME NEW at, NEW tails, Ready(at, tails), res = Null,
         NEW k \in 1..Len(frames), frames[k].cproc = "pcall",
         NEW e, CaughtByPcall(k, e)
  PROVE  Goes(at, tails)'
<1> DEFINE W == World(at, tails)
           f == frames[k]
           H == SubSeq(frames, 1, k)
           G == SubSeq(frames, 1, k - 1)
           rq == Closed(RefsFrom(k + 1), stk)
           g == [f EXCEPT !.state = "caught"]
<1>1. /\ stk' = Append(SubSeq(stk, 1, f.bp - 1), ErrorValue(e)) /\ bp' = stk[f.bp][2]
      /\ frames' = [H EXCEPT ![k].state = "caught"] /\ refs' = rq
      /\ UNCHANGED <<loaded, procs, res>>
  BY DEF CaughtByPcall, CprocReturned
<1>2. /\ k > 1 /\ k - 1 \in 1..Len(frames) /\ k - 1 < Len(frames) /\ k - 1 + 1 = k
      /\ CFrame(W, f)
      /\ f.bp \in Nat /\ f.bp >= 4 /\ f.bp + 1 <= Len(stk)
  BY CAbove
<1>3. /\ IsSeq(frames) /\ Len(frames) \in Nat \ {0} /\ SoundStack(W, stk)
      /\ Callers(W, frames, stk) /\ Len(stk) \in Nat
  BY ReadyFacts
<1>4. RefsHeld(rq, G) /\ RefsMade(W, rq) /\ Len(rq) = Len(refs)
  BY GoneFrom
<1>5. Sound(W, ErrorValue(e))
  BY DEF Sound, ErrorValue
<1>6. frames[k - 1 + 1] = f /\ f.bp <= Len(stk)
  BY <1>2, <1>3
<1>7. Stacked(W, SubSeq(frames, 1, k - 1),
              Append(SubSeq(stk, 1, frames[k - 1 + 1].bp - 1), ErrorValue(e)),
              stk[frames[k - 1 + 1].bp][2])
  BY <1>2, <1>3, <1>5, <1>6, Resume
<1>8. Stacked(W, G, stk', bp')
  BY <1>1, <1>6, <1>7
<1>9. IsSeq(H) /\ Len(H) = k /\ \A i \in 1..k : H[i] = frames[i]
  BY <1>3, FirstSeq
<1>10. IsSeq(G) /\ Len(G) = k - 1 /\ \A i \in 1..(k - 1) : G[i] = frames[i]
  BY <1>2, <1>3, FirstSeq
<1>11. H[k] = f /\ k \in 1..k
  BY <1>2, <1>3, <1>9
<1> HIDE DEF H, G, rq
<1>12. frames' = [H EXCEPT ![k] = g]
  BY <1>1, <1>11
<1>13. IsFrame(f)
  BY <1>2 DEF CFrame
<1>14. g.cproc = "pcall" /\ g.state = "caught"
  BY <1>13 DEF IsFrame
<1> HIDE DEF g, f
<1>15. Retop(H, frames', g)
  <2>1. Len(H) > 0 /\ frames' = [H EXCEPT ![Len(H)] = g]
    BY <1>2, <1>9, <1>12
  <2>2. IsSeq(H)
    BY <1>9
  <2> QED
    BY <2>1, <2>2, RetopOf
<1>16. IsSeq(frames') /\ Len(frames') = k /\ frames'[k] = g
       /\ \A i \in 1..(k - 1) : frames'[i] = H[i]
  BY <1>9, <1>15 DEF Retop
<1>17. Caught'
  BY <1>14, <1>16 DEF Caught, Top
<1>18. Live' = SubSeq(frames', 1, k - 1)
  BY <1>16, <1>17 DEF Live
<1>19. IsSeq(SubSeq(frames', 1, k - 1)) /\ Len(SubSeq(frames', 1, k - 1)) = k - 1
       /\ \A i \in 1..(k - 1) : SubSeq(frames', 1, k - 1)[i] = frames'[i]
  <2>1. k - 1 \in Nat /\ k - 1 <= Len(frames')
    BY <1>2, <1>16
  <2> QED
    BY <1>16, <2>1, FirstSeq
<1>20. \A i \in 1..(k - 1) : G[i] = SubSeq(frames', 1, k - 1)[i]
  <2>1. \A i \in 1..(k - 1) : i \in 1..k
    BY <1>2
  <2> QED
    BY <1>9, <1>10, <1>16, <1>19, <2>1
<1>21. G = SubSeq(frames', 1, k - 1)
  BY <1>10, <1>19, <1>20, SameSeq
<1>22. Live' = G
  BY <1>18, <1>21
<1>23. World(at, tails)' = W
  BY <1>1, <1>4, SameWorld
<1> HIDE DEF W
<1>24. VerifiedBy(code, protos, at, tails)' /\ ProcsMade(W)
  BY <1>1 DEF Ready, loaded, W
<1>25. Len(frames') > 0
  BY <1>2, <1>16
<1>26. RefsMade(W, refs') /\ RefsHeld(refs', G)
  BY <1>1, <1>4
<1>27. RunInv(at, tails)'
  BY <1>8, <1>16, <1>22, <1>23, <1>24, <1>25, <1>26 DEF RunInv
<1> QED
  BY <1>1, <1>27 DEF Goes

\* Arguments and handlers are what the caller left on the stack.
LEMMA CaughtByXpcallGoes ==
  ASSUME NEW at, NEW tails, Ready(at, tails), res = Null,
         NEW k \in 1..Len(frames), frames[k].cproc = "xpcall", frames[k].state = "called",
         NEW e, CaughtByXpcall(k, e)
  PROVE  Goes(at, tails)'
<1> DEFINE W == World(at, tails)
           f == frames[k]
           G == SubSeq(frames, 1, k - 1)
           r == SubSeq(stk, 1, f.bp + 1)
<1>1. PICK i \in DOMAIN f.handlers :
        /\ Handles(f.handlers, i, e[2])
        /\ CallObj(f.handlers[i + 1], r \o <<f.handlers[i + 1], ErrorValue(e)>>, f.bp,
                   G, RefsFrom(k + 1))
  BY DEF CaughtByXpcall
<1>2. /\ k > 1 /\ CFrame(W, f)
      /\ f.bp \in Nat /\ f.bp >= 4 /\ f.bp + 1 <= Len(stk)
  BY CAbove
<1>3. /\ IsSeq(frames) /\ Len(frames) \in Nat \ {0} /\ SoundStack(W, stk)
      /\ Callers(W, frames, stk) /\ Len(stk) \in Nat /\ IsSeq(stk)
  BY ReadyFacts
<1> DEFINE h == f.handlers[i + 1]
           s == r \o <<h, ErrorValue(e)>>
<1>4. Sound(W, h) /\ Callable(h)
  <2>1. i \in 2..Len(f.handlers) /\ i % 2 = 0
    BY <1>1 DEF Handles
  <2>2. IsSeq(f.handlers) /\ Len(f.handlers) % 2 = 1
        /\ \A j \in 2..Len(f.handlers) : j % 2 = 1 =>
             Sound(W, f.handlers[j]) /\ Callable(f.handlers[j])
    BY <1>2 DEF CFrame
  <2>3. Len(f.handlers) \in Nat
    BY <2>2 DEF IsSeq
  <2>4. i + 1 \in 2..Len(f.handlers) /\ (i + 1) % 2 = 1
    <3>1. \A x, y \in Nat : x % 2 = 0 /\ y % 2 = 1 /\ x <= y =>
            x + 1 <= y /\ (x + 1) % 2 = 1
      OBVIOUS
    <3>2. i \in Nat /\ i >= 2 /\ i <= Len(f.handlers)
      BY <2>1, <2>3
    <3>3. i + 1 <= Len(f.handlers) /\ (i + 1) % 2 = 1
      BY <2>1, <2>2, <2>3, <3>1, <3>2
    <3> QED
      BY <2>3, <3>2, <3>3
  <2> QED
    BY <2>2, <2>4
<1>5. Sound(W, ErrorValue(e))
  BY DEF Sound, ErrorValue
<1>6. SoundStack(W, r) /\ IsSeq(r) /\ Len(r) = f.bp + 1
      /\ \A j \in 1..(f.bp + 1) : r[j] = stk[j]
  BY <1>2, <1>3, FirstSeq, PrefixSound
<1>7. IsSeq(<<h, ErrorValue(e)>>) /\ Len(<<h, ErrorValue(e)>>) = 2
      /\ <<h, ErrorValue(e)>>[1] = h /\ <<h, ErrorValue(e)>>[2] = ErrorValue(e)
  BY TwoSeq
<1> DEFINE two == <<h, ErrorValue(e)>>
<1> HIDE DEF r, h, W, two
<1>8. \A j \in 1..Len(two) : Sound(W, two[j])
  <2>1. \A j \in 1..2 : j = 1 \/ j = 2
    OBVIOUS
  <2> QED
    BY <1>4, <1>5, <1>7, <2>1 DEF two
<1>9. SoundStack(W, r \o two) /\ Len(r \o two) = Len(r) + Len(two)
      /\ \A j \in 1..Len(r) : (r \o two)[j] = r[j]
  <2>1. IsSeq(two)
    BY <1>7 DEF two
  <2>2. SoundStack(W, r \o two)
    BY <1>6, <1>8, <2>1, ConcatSound
  <2>3. Len(r \o two) = Len(r) + Len(two)
    BY <1>6, <2>1, ConcatSeq
  <2>4. \A j \in 1..Len(r) : (r \o two)[j] = r[j]
    BY <1>6, <1>8, <2>1, ConcatSound
  <2> QED
    BY <2>2, <2>3, <2>4
<1>10. s = r \o two
  BY DEF two
<1> HIDE DEF s
<1>11. SoundStack(W, s) /\ f.bp + 2 <= Len(s) /\ f.bp \in Nat \ {0}
  BY <1>2, <1>6, <1>7, <1>9, <1>10 DEF two
<1>12. \A j \in 1..f.bp : s[j] = stk[j]
  <2>1. \A j \in 1..f.bp : j \in 1..(f.bp + 1)
    BY <1>2
  <2> QED
    BY <1>6, <1>9, <1>10, <2>1
<1>13. ASSUME NEW g, g.bp = f.bp
       PROVE  Callers(W, Append(G, g), s)
  <2>1. k # 1
    BY <1>2
  <2>2. \A j \in 1..g.bp : s[j] = stk[j]
    BY <1>12, <1>13
  <2> QED
    BY <1>3, <1>13, <2>1, <2>2, NewTop
<1>14. RefsHeld(Closed(RefsFrom(k + 1), stk), G)
  BY GoneFrom
<1>15. IsSeq(G)
  <2>1. k - 1 \in Nat /\ k - 1 <= Len(frames)
    BY <1>2, <1>3
  <2> QED
    BY <1>3, <2>1, FirstSeq
<1>16. CallObj(h, s, f.bp, G, RefsFrom(k + 1))
  BY <1>1 DEF h, s
<1> HIDE DEF f, G
<1> QED
  BY <1>4, <1>11, <1>13, <1>14, <1>15, <1>16, CallGoes DEF W

\* An error ends the run, or is taken by the innermost frame that takes it.
LEMMA RaiseGoes ==
  ASSUME NEW at, NEW tails, RunInv(at, tails), ~Caught, res = Null,
         NEW e, e[1] = "err", Raise(e)
  PROVE  Goes(at, tails)'
<1>1. Ready(at, tails)
  BY ReadyIs
<1>2. DOMAIN frames = 1..Len(frames)
  <2>1. IsSeq(frames)
    BY <1>1, ReadyFacts
  <2> QED
    BY <2>1 DEF IsSeq
<1>3. CASE \A k \in DOMAIN frames : ~Catches(frames[k], e[2])
  <2>1. res' = e /\ UNCHANGED <<refs, frames>>
    BY <1>3 DEF Raise
  <2>2. e \notin {Null, Abort}
    BY DEF Null, Abort
  <2> QED
    BY <2>1, <2>2, EndsSame
<1>4. CASE ~ \A k \in DOMAIN frames : ~Catches(frames[k], e[2])
  <2>1. PICK k \in DOMAIN frames :
          /\ Catches(frames[k], e[2])
          /\ IF frames[k].cproc = "pcall" THEN CaughtByPcall(k, e) ELSE CaughtByXpcall(k, e)
    BY <1>4 DEF Raise
  <2>2. frames[k].cproc \in {"pcall", "xpcall"} /\ frames[k].state = "called"
    BY <2>1 DEF Catches
  <2>3. CASE frames[k].cproc = "pcall"
    BY <1>1, <1>2, <2>1, <2>3, CaughtByPcallGoes
  <2>4. CASE frames[k].cproc # "pcall"
    BY <1>1, <1>2, <2>1, <2>2, <2>4, CaughtByXpcallGoes
  <2> QED
    BY <2>3, <2>4
<1> QED
  BY <1>3, <1>4

-----------------------------------------------------------------------------
(* Instructions.                                                           *)

\* What the machine finds when it fetches an instruction.
LEMMA Fetch ==
  ASSUME NEW at, NEW tails, RunInv(at, tails), Alive
  PROVE  /\ Ready(at, tails) /\ ~Caught
         /\ CodeFrame(World(at, tails), Top)
         /\ Top.sp \in Nat /\ Top.sp >= 3 /\ Top.sp <= Len(stk)
         /\ Top.bp \in Nat \ {0} /\ Top.bp + 2 <= Top.sp
         /\ Top.pc \in DOMAIN at /\ Top.pc \in Nat
         /\ at[Top.pc].env = procs[Top.proc].env /\ at[Top.pc].env \in DOMAIN protos
         /\ Verifies(code, protos, at, tails, Top.pc)
         /\ RunsCode(World(at, tails), Top, stk, bp) \/ RunsOut(World(at, tails), Top, stk, bp)
<1> DEFINE W == World(at, tails)
<1>1. ~Caught
  BY DEF Alive, Caught
<1>2. Ready(at, tails)
  BY <1>1, ReadyIs
<1>3. Runs(W, Top, stk, bp) /\ Len(stk) \in Nat
  BY <1>2, ReadyFacts
<1>4. Top.cproc = "none"
  BY DEF Alive
<1>5. CodeFrame(W, Top) /\ EndOf(Top) <= Len(stk)
      /\ (RunsCode(W, Top, stk, bp) \/ RunsOut(W, Top, stk, bp))
  BY <1>3, <1>4, RunsFacts
<1>6. Top.sp \in Nat /\ Top.bp \in Nat \ {0} /\ Top.bp + 2 <= Top.sp /\ EndOf(Top) = Top.sp
  BY <1>5, CodeFacts
<1>7. Top.sp >= 3 /\ Top.sp <= Len(stk)
  BY <1>5, <1>6
<1>8. W.at = at /\ W.procs = procs
  BY Worlds
<1>9. Top.pc \in DOMAIN at /\ at[Top.pc].env = procs[Top.proc].env
  BY <1>5, <1>8 DEF CodeFrame, EnvOf
<1>10. Top.pc \in Nat /\ at[Top.pc].env \in DOMAIN protos
       /\ Verifies(code, protos, at, tails, Top.pc)
  BY <1>2, <1>9, Verified DEF Ready
<1> QED
  BY <1>1, <1>2, <1>5, <1>6, <1>7, <1>9, <1>10

\* Only a few instructions lie between a tail call and its RET.
LEMMA NotOut ==
  ASSUME NEW at, NEW tails, RunInv(at, tails), Alive,
         Ins.op \notin {"RET", "JMP", "CLOSE_REF"} \/ Top.mark = "ret"
  PROVE  RunsCode(World(at, tails), Top, stk, bp) /\ Top.mark = "ret"
<1> DEFINE W == World(at, tails)
<1>1. RunsCode(W, Top, stk, bp) \/ RunsOut(W, Top, stk, bp)
  BY Fetch
<1>2. ASSUME RunsOut(W, Top, stk, bp)
      PROVE  FALSE
  <2>1. Top.mark = "call" /\ Top.pc \in tails
    BY <1>2, Worlds DEF RunsOut
  <2>2. VerifiedBy(code, protos, at, tails)
    BY Fetch DEF Ready
  <2>3. TailVerifies(code, tails, Top.pc)
    BY <2>1, <2>2, Verified
  <2>4. code[Top.pc].op \in {"RET", "JMP", "CLOSE_REF"}
    BY <2>3 DEF TailVerifies
  <2> QED
    BY <2>1, <2>4 DEF Ins
<1>3. RunsCode(W, Top, stk, bp)
  BY <1>1, <1>2
<1> QED
  BY <1>3 DEF RunsCode

\* The values above the variables of the frame that runs.
LEMMA HeightIs ==
  ASSUME NEW at, NEW tails, RunInv(at, tails), Alive,
         NEW s, RunsCode(World(at, tails), Top, s, bp), Len(s) \in Nat,
         Ins.op # "CHECK_ARG"
  PROVE  LET h == at[Top.pc].h
             open == at[Top.pc].open
         IN /\ h \in Nat /\ Len(s) = Top.sp + h
            /\ Floor(open) \in Nat /\ Floor(open) <= h /\ IsSeq(open)
<1> DEFINE W == World(at, tails)
           h == at[Top.pc].h
           open == at[Top.pc].open
<1>1. Open(W, Top) = open /\ Height(W, Top) = h /\ OpAt(W, Top) = Ins.op
  BY Worlds DEF Open, Height, OpAt, Ins
<1> HIDE DEF h, open
<1>2. h \in Nat /\ Len(s) = Top.sp + h /\ Prepared(Top, s, Len(s), open)
  BY <1>1 DEF RunsCode
<1>3. Top.sp \in Nat
  BY Fetch
<1>4. Top.sp <= Len(s)
  BY <1>2, <1>3
<1>5. IsSeq(open) /\ Floor(open) \in Nat /\ Top.sp + Floor(open) <= Len(s)
  BY <1>2, <1>3, <1>4, FloorFacts
<1>6. Floor(open) <= h
  BY <1>2, <1>3, <1>5
<1> QED
  BY <1>2, <1>5, <1>6 DEF h, open

\* The top frame goes on with what it has.
LEMMA KeepsRefs ==
  ASSUME NEW at, NEW tails, Ready(at, tails), NEW rq, OpenAs(refs, rq),
         NEW g, SameHold(Top, g), NEW G, G = SetTop(g)
  PROVE  RefsHeld(rq, G) /\ Retop(frames, G, g)
<1>1. IsSeq(frames) /\ Len(frames) \in Nat \ {0}
  BY ReadyFacts
<1>2. Retop(frames, G, g)
  <2>1. Len(frames) > 0 /\ G = [frames EXCEPT ![Len(frames)] = g]
    BY <1>1 DEF SetTop
  <2> QED
    BY <1>1, <2>1, RetopOf
<1>3. ASSUME NEW i \in 1..Len(frames)
      PROVE  Stays(refs, rq, frames[i], G)
  <2>1. i = Len(frames) \/ i \in 1..(Len(frames) - 1)
    BY <1>1
  <2>2. i \in 1..Len(G) /\ SameHold(frames[i], G[i])
    BY <1>2, <2>1 DEF Retop, SameHold, Top
  <2> QED
    BY <2>2 DEF Stays
<1>4. RefsHeld(refs, frames)
  BY DEF Ready
<1> QED
  BY <1>2, <1>3, <1>4, HeldKept

\* What the verifier says of an instruction that falls through.
LEMMA StraightVerified ==
  ASSUME NEW at, NEW tails, NEW k, Verifies(code, protos, at, tails, k),
         code[k].op \in Straight
  PROVE  /\ InRange(code[k], protos[at[k].env])
         /\ at[k].h - Takes(code[k]) >= Floor(at[k].open)
         /\ Leads(code, at, k, k + 1, at[k].h - Takes(code[k]) + Gives(code[k]), at[k].open)
BY DEF Verifies

LEMMA TakesNat ==
  ASSUME NEW i, NEW p, InRange(i, p)
  PROVE  Takes(i) \in Nat /\ Gives(i) \in Nat
<1>1. CASE i.op \in PrimOps \ {"ADDK"}
  <2>1. Takes(i) = i.a
    BY <1>1 DEF Takes, PrimOps
  <2> QED
    BY <1>1, <2>1 DEF InRange, Gives
<1>2. CASE i.op \notin PrimOps \ {"ADDK"}
  <2>1. Takes(i) \in {0, 1}
    BY <1>2 DEF Takes, PrimOps
  <2> QED
    BY <2>1 DEF Gives
<1> QED
  BY <1>1, <1>2

\* An instruction that falls through: s is the stack with what it assigned to a
\* variable, t the stack it leaves.
LEMMA Fall ==
  ASSUME NEW at, NEW tails, RunInv(at, tails), Alive, Ins.op \in Straight,
         NEW s, Stacked(World(at, tails), frames, s, bp),
         RunsCode(World(at, tails), Top, s, bp),
         NEW t, SoundStack(World(at, tails), t),
         Len(t) = Len(s) - Takes(Ins) + Gives(Ins),
         \A k \in 1..(Len(s) - Takes(Ins)) : t[k] = s[k],
         Ins.op = "LOAD_PROTO" => t[Len(t)] = <<"proto", Ins.a>>,
         NEW G, G = SetTop([Top EXCEPT !.pc = @ + 1 + 0])
  PROVE  /\ Stacked(World(at, tails), G, t, bp) /\ RefsHeld(refs, G)
<1> DEFINE W == World(at, tails)
           j == Top.pc
           open == at[j].open
           h == at[j].h
           g == WithPc(Top, j + 1)
           m == h - Takes(Ins) + Gives(Ins)
<1>1. /\ Ready(at, tails) /\ CodeFrame(W, Top) /\ Top.sp \in Nat /\ j \in Nat
      /\ Verifies(code, protos, at, tails, j)
  BY Fetch
<1>2. Len(s) \in Nat /\ IsSeq(frames) /\ Len(frames) \in Nat \ {0}
  BY StackedFacts
<1>3. code[j] = Ins
  BY DEF Ins
<1>4. Ins.op # "CHECK_ARG" /\ Ins.op # "MAKE_PROC"
  BY DEF Straight, PrimOps
<1>5. h \in Nat /\ Len(s) = Top.sp + h /\ Floor(open) \in Nat /\ Floor(open) <= h
  BY <1>2, <1>4, HeightIs
<1>6. InRange(Ins, protos[at[j].env]) /\ h - Takes(Ins) >= Floor(open)
      /\ Leads(code, at, j, j + 1, m, open)
  BY <1>1, <1>3, StraightVerified
<1>7. Takes(Ins) \in Nat /\ Gives(Ins) \in Nat
  BY <1>6, TakesNat
<1>8. W.code = code /\ W.at = at
  BY Worlds
<1>9. Open(W, Top) = open
  BY <1>8 DEF Open
<1>10. g = WithPc(Top, j + 1) /\ G = SetTop(g)
  BY <1>1 DEF WithPc
<1> HIDE DEF W, open, h, g, j, m
<1>11. m \in Nat /\ m >= Floor(open) /\ Len(t) = Top.sp + m
  <2>1. \A x, y, z, w \in Nat : x - y >= z =>
          x - y + w \in Nat /\ x - y + w >= z
    OBVIOUS
  <2>2. m \in Nat /\ m >= Floor(open)
    BY <1>5, <1>6, <1>7, <2>1 DEF m
  <2>3. Top.sp \in Nat /\ h \in Nat /\ Takes(Ins) \in Nat /\ Gives(Ins) \in Nat
    BY <1>1, <1>5, <1>7
  <2>4. Len(t) = Len(s) - Takes(Ins) + Gives(Ins)
    OBVIOUS
  <2>5. Len(t) = Top.sp + m
    <3>1. (Top.sp + h) - Takes(Ins) + Gives(Ins) = Top.sp + (h - Takes(Ins) + Gives(Ins))
      BY <2>3
    <3> QED
      BY <1>5, <2>4, <3>1 DEF m
  <2> QED
    BY <2>2, <2>5
<1>12. Agree(s, t, Top.sp + Floor(open))
  <2>1. \A x, y, z, w \in Nat : y - w >= z => 1..(x + z) \subseteq 1..((x + y) - w)
    OBVIOUS
  <2>2. 1..(Top.sp + Floor(open)) \subseteq 1..(Len(s) - Takes(Ins))
    BY <1>1, <1>5, <1>6, <1>7, <2>1
  <2> QED
    BY <2>2 DEF Agree
<1>13. SameHold(Top, g)
  BY <1>1, <1>10 DEF CodeFrame, IsFrame, SameHold, WithPc
<1>14. OpenAs(refs, refs)
  BY DEF OpenAs
<1>15. RefsHeld(refs, G) /\ Retop(frames, G, g)
  BY <1>1, <1>13, <1>14, <1>10, KeepsRefs
<1>16. Stacked(W, G, t, bp)
  <2> DEFINE q == j + 1
             f == Top
  <2>1. Leads(W.code, W.at, f.pc, q, m, Open(W, f))
    BY <1>6, <1>8, <1>9 DEF j
  <2>2. m >= Floor(Open(W, f)) /\ Agree(s, t, f.sp + Floor(Open(W, f)))
    BY <1>9, <1>11, <1>12
  <2>3. f = frames[Len(frames)]
    BY DEF Top
  <2>4. Stacked(W, frames, s, bp) /\ RunsCode(W, f, s, bp) /\ SoundStack(W, t)
    BY DEF W
  <2>5. g = WithPc(f, q) /\ m \in Nat /\ Len(t) = f.sp + m
    BY <1>11, <1>10
  <2>6. code[q].op = "MAKE_PROC" => code[j].op = "LOAD_PROTO"
    BY <1>6 DEF Leads
  <2>7. q - 1 = j
    BY <1>1
  <2> HIDE DEF q, f
  <2>8. W.code[q].op = "MAKE_PROC" => t[Len(t)] = <<"proto", W.code[q - 1].a>>
    BY <1>3, <1>8, <2>6, <2>7
  <2> QED
    BY <1>15, <2>1, <2>2, <2>8, <2>3, <2>4, <2>5, Operate
<1> QED
  BY <1>15, <1>16 DEF W

\* The step of an instruction that falls through.
LEMMA FallGoes ==
  ASSUME NEW at, NEW tails, RunInv(at, tails), Alive, Ins.op \in Straight,
         NEW s, Stacked(World(at, tails), frames, s, bp),
         RunsCode(World(at, tails), Top, s, bp),
         SoundStack(World(at, tails), stk'),
         Len(stk') = Len(s) - Takes(Ins) + Gives(Ins),
         \A k \in 1..(Len(s) - Takes(Ins)) : stk'[k] = s[k],
         Ins.op = "LOAD_PROTO" => stk'[Len(stk')] = <<"proto", Ins.a>>,
         Goto(0), UNCHANGED <<loaded, bp, procs, res>>,
         RefsMade(World(at, tails), refs'), Len(refs') = Len(refs), OpenAs(refs, refs')
  PROVE  Goes(at, tails)'
<1> DEFINE g == [Top EXCEPT !.pc = @ + 1 + 0]
<1>1. Ready(at, tails) /\ CodeFrame(World(at, tails), Top)
  BY Fetch
<1>2. frames' = SetTop(g)
  BY DEF Goto
<1>3. Stacked(World(at, tails), frames', stk', bp)
  BY <1>2, Fall
<1>4. SameHold(Top, g)
  BY <1>1 DEF CodeFrame, IsFrame, SameHold
<1> HIDE DEF g
<1>5. RefsHeld(refs', frames')
  BY <1>1, <1>2, <1>4, KeepsRefs
<1>6. res' = Null
  BY DEF Alive
<1> QED
  BY <1>1, <1>3, <1>5, <1>6, GoesOnSame

LEMMA AppendSound ==
  ASSUME NEW W, NEW s, SoundStack(W, s), NEW v, Sound(W, v)
  PROVE  /\ SoundStack(W, Append(s, v)) /\ Len(Append(s, v)) = Len(s) + 1
         /\ \A k \in 1..Len(s) : Append(s, v)[k] = s[k]
         /\ Append(s, v)[Len(Append(s, v))] = v
<1> DEFINE t == Append(s, v)
<1>1. IsSeq(s)
  BY DEF SoundStack
<1>2. Len(s) \in Nat
  BY <1>1 DEF IsSeq
<1>3. IsSeq(t) /\ Len(t) = Len(s) + 1 /\ (\A k \in 1..Len(s) : t[k] = s[k])
      /\ t[Len(s) + 1] = v
  BY <1>1, AppendSeq
<1> HIDE DEF t
<1>4. ASSUME NEW k \in 1..Len(t), k # 3
      PROVE  Sound(W, t[k])
  <2>1. k \in 1..Len(s) \/ k = Len(s) + 1
    BY <1>2, <1>3
  <2> QED
    BY <1>3, <1>4, <2>1 DEF SoundStack
<1>5. SoundStack(W, t)
  BY <1>3, <1>4 DEF SoundStack
<1> QED
  BY <1>3, <1>5 DEF t

LEMMA RefsStay ==
  ASSUME NEW at, NEW tails, Ready(at, tails), refs' = refs
  PROVE  /\ RefsMade(World(at, tails), refs') /\ Len(refs') = Len(refs)
         /\ OpenAs(refs, refs')
BY DEF Ready, OpenAs

\* n values are popped and v is pushed on s.
LEMMA PushGoes ==
  ASSUME NEW at, NEW tails, RunInv(at, tails), Alive, Ins.op \in Straight,
         NEW s, Stacked(World(at, tails), frames, s, bp),
         RunsCode(World(at, tails), Top, s, bp),
         Gives(Ins) = 1, NEW v, Sound(World(at, tails), v),
         \/ stk' = Append(SubSeq(s, 1, Len(s) - Takes(Ins)), v)
         \/ Takes(Ins) = 0 /\ stk' = Append(s, v),
         Ins.op = "LOAD_PROTO" => v = <<"proto", Ins.a>>,
         Goto(0), UNCHANGED <<loaded, bp, procs, res>>,
         RefsMade(World(at, tails), refs'), Len(refs') = Len(refs), OpenAs(refs, refs')
  PROVE  Goes(at, tails)'
<1> DEFINE W == World(at, tails)
           n == Takes(Ins)
           r == SubSeq(s, 1, Len(s) - n)
<1>1. /\ Verifies(code, protos, at, tails, Top.pc) /\ Top.sp \in Nat
  BY Fetch
<1>2. InRange(Ins, protos[at[Top.pc].env])
      /\ at[Top.pc].h - n >= Floor(at[Top.pc].open)
  BY <1>1, StraightVerified DEF Ins
<1>3. n \in Nat
  BY <1>2, TakesNat
<1>4. SoundStack(W, s) /\ Len(s) \in Nat /\ IsSeq(s)
  BY StackedFacts
<1>5. Ins.op # "CHECK_ARG"
  BY DEF Straight, PrimOps
<1>6. at[Top.pc].h \in Nat /\ Len(s) = Top.sp + at[Top.pc].h
      /\ Floor(at[Top.pc].open) \in Nat
  BY <1>4, <1>5, HeightIs
<1>7. Len(s) - n \in Nat /\ Len(s) - n <= Len(s)
  BY <1>1, <1>2, <1>3, <1>4, <1>6
<1>8. IsSeq(r) /\ Len(r) = Len(s) - n /\ (\A k \in 1..(Len(s) - n) : r[k] = s[k])
      /\ SoundStack(W, r)
  BY <1>4, <1>7, FirstSeq, PrefixSound
<1>9. CASE stk' = Append(r, v)
  <2> HIDE DEF r, n, W
  <2>1. SoundStack(W, r) /\ Sound(W, v)
    BY <1>8 DEF W
  <2>2. SoundStack(W, stk') /\ Len(stk') = Len(r) + 1
        /\ (\A k \in 1..Len(r) : stk'[k] = r[k]) /\ stk'[Len(stk')] = v
    BY <1>9, <2>1, AppendSound
  <2>3. Len(stk') = Len(s) - n + Gives(Ins)
    BY <1>8, <2>2
  <2>4. \A k \in 1..(Len(s) - n) : stk'[k] = s[k]
    BY <1>8, <2>2
  <2> QED
    BY <2>2, <2>3, <2>4, FallGoes DEF W, n
<1>10. CASE n = 0 /\ stk' = Append(s, v)
  <2> HIDE DEF n, W
  <2>1. SoundStack(W, s) /\ Sound(W, v)
    BY <1>4 DEF W
  <2>2. SoundStack(W, stk') /\ Len(stk') = Len(s) + 1
        /\ (\A k \in 1..Len(s) : stk'[k] = s[k]) /\ stk'[Len(stk')] = v
    BY <1>10, <2>1, AppendSound
  <2>3. Len(stk') = Len(s) - n + Gives(Ins)
    BY <1>4, <1>10, <2>2
  <2>4. \A k \in 1..(Len(s) - n) : stk'[k] = s[k]
    BY <1>4, <1>10, <2>2
  <2> QED
    BY <2>2, <2>3, <2>4, FallGoes DEF W, n
<1> QED
  BY <1>9, <1>10

\* The value on top, and the variables, are not in cell 3.
LEMMA CellSound ==
  ASSUME NEW at, NEW tails, Ready(at, tails), NEW k \in 4..Len(stk)
  PROVE  Sound(World(at, tails), stk[k])
<1>1. SoundStack(World(at, tails), stk) /\ Len(stk) \in Nat
  BY ReadyFacts
<1>2. k \in 1..Len(stk) /\ k # 3
  BY <1>1
<1> QED
  BY <1>1, <1>2 DEF SoundStack

LEMMA TopSound ==
  ASSUME NEW at, NEW tails, RunInv(at, tails), Alive,
         RunsCode(World(at, tails), Top, stk, bp), Ins.op # "CHECK_ARG",
         at[Top.pc].h # 0
  PROVE  Sound(World(at, tails), TopValue) /\ Len(stk) \in 4..Len(stk)
<1>1. Ready(at, tails) /\ Top.sp \in Nat /\ Top.sp >= 3
  BY Fetch
<1>2. Len(stk) \in Nat
  BY <1>1, ReadyFacts
<1>3. at[Top.pc].h \in Nat /\ Len(stk) = Top.sp + at[Top.pc].h
  BY <1>2, HeightIs
<1>4. Len(stk) \in 4..Len(stk)
  BY <1>1, <1>2, <1>3
<1> QED
  BY <1>1, <1>4, CellSound DEF TopValue

LEMMA LocalIs ==
  ASSUME NEW at, NEW tails, RunInv(at, tails), Alive,
         NEW a \in 0..(protos[at[Top.pc].env].lcount - 1)
  PROVE  /\ Loc(Top, a) \in Nat /\ Loc(Top, a) > Top.bp /\ Loc(Top, a) <= Top.sp
         /\ Sound(World(at, tails), stk[Loc(Top, a)])
<1> DEFINE W == World(at, tails)
           lc == protos[at[Top.pc].env].lcount
<1>1. /\ Ready(at, tails) /\ Top.bp \in Nat \ {0} /\ Top.sp <= Len(stk) /\ Top.sp \in Nat
      /\ at[Top.pc].env = procs[Top.proc].env /\ CodeFrame(W, Top)
  BY Fetch
<1>2. Lcount(W, Top) = lc
  BY <1>1, Worlds DEF Lcount, EnvOf
<1>3. lc \in Nat /\ Top.sp = Top.bp + 2 + lc
  BY <1>1, <1>2, CodeFacts
<1>4. a \in Nat /\ a + 1 <= lc
  BY <1>3
<1> HIDE DEF lc, W
<1>5. Loc(Top, a) = Top.bp + 3 + a
  BY DEF Loc
<1>6. Len(stk) \in Nat
  BY <1>1, ReadyFacts
<1>7. /\ Top.bp + 3 + a \in Nat /\ Top.bp + 3 + a > Top.bp
      /\ Top.bp + 3 + a <= Top.sp /\ Top.bp + 3 + a >= 4
  BY <1>1, <1>3, <1>4
<1>8. Loc(Top, a) \in 4..Len(stk)
  BY <1>1, <1>5, <1>6, <1>7
<1>9. Sound(W, stk[Loc(Top, a)])
  BY <1>1, <1>8, CellSound DEF W
<1> QED
  BY <1>5, <1>7, <1>9 DEF W

\* No builtin makes a procedure.
LEMMA PrimSound ==
  ASSUME NEW W, NEW op, NEW vs
  PROVE  Sound(W, Prim(op, vs))
<1>1. Sound(W, Paired(vs[1], vs[2]))
  BY DEF Sound, Paired
<1>2. \A b \in BOOLEAN : Sound(W, Bool(b))
  BY DEF Sound, Bool, Num, Nil
<1>3. \A n : Sound(W, Num(n)) /\ Sound(W, Err(n))
  BY DEF Sound, Num, Err
<1> HIDE DEF Sound
<1> QED
  BY <1>1, <1>2, <1>3 DEF Prim

LEMMA PushStep ==
  ASSUME NEW at, NEW tails, RunInv(at, tails), Push
  PROVE  Goes(at, tails)'
<1> DEFINE W == World(at, tails)
           v == CASE Ins.op = "PUSH_INT" -> Num(Ins.a)
                  [] Ins.op = "PUSH_NIL" -> Nil
                  [] Ins.op = "PUSH_CONST" -> Ins.a
                  [] OTHER -> <<"proto", Ins.a>>
<1>1. /\ Alive /\ Ins.op \in {"PUSH_INT", "PUSH_NIL", "PUSH_CONST", "LOAD_PROTO"}
      /\ stk' = Append(stk, v) /\ UNCHANGED <<loaded, bp, procs, refs, res>> /\ Goto(0)
  BY DEF Push, Only
<1>2. Ready(at, tails) /\ Verifies(code, protos, at, tails, Top.pc)
  BY <1>1, Fetch
<1>3. Ins.op \in Straight /\ Takes(Ins) = 0 /\ Gives(Ins) = 1
  BY <1>1 DEF Straight, PrimOps, Takes, Gives
<1>4. InRange(Ins, protos[at[Top.pc].env])
  BY <1>2, <1>3, StraightVerified DEF Ins
<1>5. Sound(W, v)
  <2>1. Ins.op = "PUSH_CONST" => Ins.a[1] \notin {"p", "cp"}
    BY <1>4 DEF InRange
  <2> QED
    BY <1>1, <2>1 DEF Sound, Num, Nil
<1>6. Ins.op = "LOAD_PROTO" => v = <<"proto", Ins.a>>
  OBVIOUS
<1>7. RunsCode(W, Top, stk, bp)
  BY <1>1, NotOut
<1>8. Stacked(W, frames, stk, bp)
  BY <1>2 DEF Ready
<1>9. RefsMade(W, refs') /\ Len(refs') = Len(refs) /\ OpenAs(refs, refs')
  BY <1>1, <1>2, RefsStay
<1> HIDE DEF v, W
<1> QED
  BY <1>1, <1>3, <1>5, <1>6, <1>7, <1>8, <1>9, PushGoes DEF W

\* What an instruction of a running frame has to work with.
LEMMA StraightIs ==
  ASSUME NEW at, NEW tails, RunInv(at, tails), Alive, Ins.op \in Straight
  PROVE  /\ Ready(at, tails) /\ RunsCode(World(at, tails), Top, stk, bp)
         /\ Stacked(World(at, tails), frames, stk, bp)
         /\ IsSeq(stk) /\ Len(stk) \in Nat /\ SoundStack(World(at, tails), stk)
         /\ InRange(Ins, protos[at[Top.pc].env]) /\ Takes(Ins) \in Nat
         /\ Top.sp \in Nat /\ Top.sp >= 3 /\ Top.sp + Takes(Ins) <= Len(stk)
         /\ at[Top.pc].h >= Takes(Ins)
         /\ Len(stk) = Top.sp + at[Top.pc].h
<1>1. Ready(at, tails) /\ Verifies(code, protos, at, tails, Top.pc)
      /\ Top.sp \in Nat /\ Top.sp >= 3
  BY Fetch
<1>2. Ins.op # "CHECK_ARG" /\ Ins.op \notin {"RET", "JMP", "CLOSE_REF"}
  BY DEF Straight, PrimOps
<1>3. RunsCode(World(at, tails), Top, stk, bp)
  BY <1>2, NotOut
<1>4. IsSeq(stk) /\ Len(stk) \in Nat /\ SoundStack(World(at, tails), stk)
  BY <1>1, ReadyFacts
<1>5. InRange(Ins, protos[at[Top.pc].env])
      /\ at[Top.pc].h - Takes(Ins) >= Floor(at[Top.pc].open)
  BY <1>1, StraightVerified DEF Ins
<1>6. Takes(Ins) \in Nat
  BY <1>5, TakesNat
<1>7. at[Top.pc].h \in Nat /\ Len(stk) = Top.sp + at[Top.pc].h
      /\ Floor(at[Top.pc].open) \in Nat
  BY <1>2, <1>3, <1>4, HeightIs
<1>8. at[Top.pc].h >= Takes(Ins)
  BY <1>5, <1>6, <1>7
<1>9. Top.sp + Takes(Ins) <= Len(stk)
  BY <1>1, <1>6, <1>7, <1>8
<1>10. Stacked(World(at, tails), frames, stk, bp)
  BY <1>1 DEF Ready
<1> QED
  BY <1>1, <1>3, <1>4, <1>5, <1>6, <1>7, <1>8, <1>9, <1>10

LEMMA DropTopStep ==
  ASSUME NEW at, NEW tails, RunInv(at, tails), DropTop
  PROVE  Goes(at, tails)'
<1> DEFINE W == World(at, tails)
<1>1. /\ Alive /\ Ins.op = "DROP"
      /\ stk' = (IF Len(stk) > Top.sp THEN SubSeq(stk, 1, Len(stk) - 1) ELSE stk)
      /\ UNCHANGED <<loaded, bp, procs, refs, res>> /\ Goto(0)
  BY DEF DropTop, Only, Running, Popped
<1>2. Ins.op \in Straight /\ Takes(Ins) = 1 /\ Gives(Ins) = 0 /\ Ins.op # "LOAD_PROTO"
  BY <1>1 DEF Straight, PrimOps, Takes, Gives
<1>3. /\ Ready(at, tails) /\ RunsCode(W, Top, stk, bp) /\ Stacked(W, frames, stk, bp)
      /\ IsSeq(stk) /\ Len(stk) \in Nat /\ SoundStack(W, stk)
      /\ Top.sp \in Nat /\ Top.sp + Takes(Ins) <= Len(stk)
  BY <1>1, <1>2, StraightIs
<1>4. Len(stk) - 1 \in Nat /\ Len(stk) - 1 <= Len(stk) /\ Len(stk) > Top.sp
  BY <1>2, <1>3
<1>5. stk' = SubSeq(stk, 1, Len(stk) - 1)
  BY <1>1, <1>4
<1>6. Len(stk') = Len(stk) - 1 /\ (\A k \in 1..(Len(stk) - 1) : stk'[k] = stk[k])
      /\ SoundStack(W, stk')
  BY <1>3, <1>4, <1>5, FirstSeq, PrefixSound
<1>7. RefsMade(W, refs') /\ Len(refs') = Len(refs) /\ OpenAs(refs, refs')
  BY <1>1, <1>3, RefsStay
<1>8. Len(stk') = Len(stk) - Takes(Ins) + Gives(Ins)
      /\ \A k \in 1..(Len(stk) - Takes(Ins)) : stk'[k] = stk[k]
  BY <1>2, <1>3, <1>6
<1> HIDE DEF W
<1> QED
  BY <1>1, <1>2, <1>3, <1>6, <1>7, <1>8, FallGoes DEF W

LEMMA ComputeStep ==
  ASSUME NEW at, NEW tails, RunInv(at, tails), Compute
  PROVE  Goes(at, tails)'
<1> DEFINE W == World(at, tails)
           n == IF Ins.op = "ADDK" THEN 1 ELSE Ins.a
           args == SubSeq(stk, Len(stk) - n + 1, Len(stk))
           v == IF Ins.op = "ADDK" THEN Prim("ADD", <<args[1], Num(Ins.a)>>)
                ELSE Prim(Ins.op, args)
<1>1. /\ Alive /\ Ins.op \in PrimOps
      /\ IF IsErr(v) THEN Raise(v)
         ELSE stk' = Append(SubSeq(stk, 1, Len(stk) - n), v)
              /\ UNCHANGED <<loaded, bp, procs, refs, res>> /\ Goto(0)
  BY DEF Compute, Only, Popped
<1>2. Sound(W, v)
  BY PrimSound
<1>3. Ins.op \in Straight /\ Ins.op # "LOAD_PROTO"
  BY <1>1 DEF Straight, PrimOps
<1>4. Takes(Ins) = n /\ Gives(Ins) = 1
  BY <1>1 DEF PrimOps, Takes, Gives
<1>5. Ready(at, tails) /\ RunsCode(W, Top, stk, bp) /\ Stacked(W, frames, stk, bp)
  BY <1>1, <1>3, StraightIs
<1> HIDE DEF v, W, n
<1>6. CASE IsErr(v)
  <2>1. Raise(v) /\ v[1] = "err"
    BY <1>1, <1>6 DEF IsErr
  <2>2. ~Caught /\ res = Null
    BY <1>1, Fetch DEF Alive
  <2> QED
    BY <2>1, <2>2, RaiseGoes
<1>7. CASE ~IsErr(v)
  <2>1. /\ stk' = Append(SubSeq(stk, 1, Len(stk) - Takes(Ins)), v)
        /\ UNCHANGED <<loaded, bp, procs, refs, res>> /\ Goto(0)
    BY <1>1, <1>4, <1>7
  <2>2. RefsMade(W, refs') /\ Len(refs') = Len(refs) /\ OpenAs(refs, refs')
    BY <1>5, <2>1, RefsStay DEF W
  <2>3. Ins.op = "LOAD_PROTO" => v = <<"proto", Ins.a>>
    BY <1>3
  <2>4. \/ stk' = Append(SubSeq(stk, 1, Len(stk) - Takes(Ins)), v)
        \/ Takes(Ins) = 0 /\ stk' = Append(stk, v)
    BY <2>1
  <2>5. /\ Gives(Ins) = 1 /\ Sound(W, v) /\ Goto(0)
        /\ UNCHANGED <<loaded, bp, procs, res>>
    BY <1>2, <1>4, <2>1
  <2>6. /\ Alive /\ Ins.op \in Straight
        /\ RunsCode(W, Top, stk, bp) /\ Stacked(W, frames, stk, bp)
    BY <1>1, <1>3, <1>5
  <2> QED
    BY <2>2, <2>3, <2>4, <2>5, <2>6, PushGoes DEF W
<1> QED
  BY <1>6, <1>7

LEMMA GetLocStep ==
  ASSUME NEW at, NEW tails, RunInv(at, tails), GetLoc
  PROVE  Goes(at, tails)'
<1> DEFINE W == World(at, tails)
           v == stk[Loc(Top, Ins.a)]
<1>1. /\ Alive /\ Ins.op = "GET_LOC" /\ stk' = Append(stk, v)
      /\ UNCHANGED <<loaded, bp, procs, refs, res>> /\ Goto(0)
  BY DEF GetLoc, Only, Running
<1>2. Ins.op \in Straight /\ Takes(Ins) = 0 /\ Gives(Ins) = 1 /\ Ins.op # "LOAD_PROTO"
  BY <1>1 DEF Straight, PrimOps, Takes, Gives
<1>3. /\ Ready(at, tails) /\ RunsCode(W, Top, stk, bp) /\ Stacked(W, frames, stk, bp)
      /\ InRange(Ins, protos[at[Top.pc].env])
  BY <1>1, <1>2, StraightIs
<1>4. Ins.a \in 0..(protos[at[Top.pc].env].lcount - 1)
  BY <1>1, <1>3 DEF InRange
<1>5. Sound(W, v)
  BY <1>1, <1>4, LocalIs
<1>6. RefsMade(W, refs') /\ Len(refs') = Len(refs) /\ OpenAs(refs, refs')
  BY <1>1, <1>3, RefsStay
<1> HIDE DEF v, W
<1> QED
  BY <1>1, <1>2, <1>3, <1>5, <1>6, PushGoes DEF W

LEMMA StorePut ==
  ASSUME NEW W, NEW F, NEW s, NEW b, Stacked(W, F, s, b),
         NEW i \in 1..Len(F), F[i].cproc = "none",
         NEW p \in Nat, p > F[i].bp, p <= F[i].sp, NEW v, Sound(W, v),
         NEW f, f = F[Len(F)], RunsCode(W, f, s, b), OpAt(W, f) # "MAKE_PROC"
  PROVE  Stacked(W, F, Put(s, p, v), b) /\ RunsCode(W, f, Put(s, p, v), b)
<1> DEFINE t == [s EXCEPT ![p] = v]
<1>1. t = [s EXCEPT ![p] = v]
  OBVIOUS
<1> HIDE DEF t
<1>2. Stacked(W, F, t, b) /\ RunsCode(W, f, t, b)
  BY <1>1, StoreLocal
<1>3. Put(s, p, v) = t
  BY <1>1 DEF Put
<1> QED
  BY <1>2, <1>3

\* The stack with what an instruction assigns to variable a.
LEMMA Stored ==
  ASSUME NEW at, NEW tails, RunInv(at, tails), Alive, Ins.op \in Straight,
         NEW a \in 0..(protos[at[Top.pc].env].lcount - 1),
         NEW v, Sound(World(at, tails), v),
         NEW s, s = Put(stk, Loc(Top, a), v)
  PROVE  /\ Stacked(World(at, tails), frames, s, bp)
         /\ RunsCode(World(at, tails), Top, s, bp)
         /\ IsSeq(s) /\ Len(s) = Len(stk) /\ SoundStack(World(at, tails), s)
         /\ \A k \in 1..Len(stk) : k # Loc(Top, a) => s[k] = stk[k]
         /\ s[Loc(Top, a)] = v /\ Loc(Top, a) \in 1..Top.sp
<1> DEFINE W == World(at, tails)
           p == Loc(Top, a)
<1>1. /\ Ready(at, tails) /\ RunsCode(W, Top, stk, bp) /\ Stacked(W, frames, stk, bp)
      /\ IsSeq(stk) /\ Len(stk) \in Nat
  BY StraightIs
<1>2. p \in Nat /\ p > Top.bp /\ p <= Top.sp
  BY LocalIs
<1>3. Top = frames[Len(frames)] /\ Top.cproc = "none" /\ Len(frames) \in 1..Len(frames)
  BY <1>1, ReadyFacts DEF Top, Alive
<1>4. OpAt(W, Top) # "MAKE_PROC"
  BY Worlds DEF OpAt, Straight, PrimOps, Ins
<1>5. /\ Top.sp \in Nat /\ Top.sp <= Len(stk) /\ Top.bp \in Nat \ {0}
  BY Fetch
<1>6. p \in 1..Len(stk) /\ p \in 1..Top.sp
  BY <1>1, <1>2, <1>5
<1> HIDE DEF W, p
<1>7. Sound(W, v) /\ s = Put(stk, p, v)
  BY DEF W, p
<1> DEFINE i == Len(frames)
           f == Top
<1>8. i \in 1..Len(frames) /\ frames[i] = Top /\ frames[i].cproc = "none"
      /\ p > frames[i].bp /\ p <= frames[i].sp
  BY <1>2, <1>3
<1> HIDE DEF i, f
<1>9. /\ f = frames[Len(frames)] /\ RunsCode(W, f, stk, bp) /\ OpAt(W, f) # "MAKE_PROC"
  BY <1>1, <1>3, <1>4 DEF f
<1>10. Stacked(W, frames, s, bp) /\ RunsCode(W, f, s, bp)
  BY <1>1, <1>2, <1>7, <1>8, <1>9, StorePut
<1>11. /\ IsSeq(s) /\ Len(s) = Len(stk) /\ s[p] = v
       /\ \A k \in 1..Len(stk) : k # p => s[k] = stk[k]
  BY <1>1, <1>6, <1>7, PutIs
<1>12. SoundStack(W, s)
  BY <1>10, StackedFacts
<1> QED
  BY <1>6, <1>10, <1>11, <1>12 DEF W, p, f

LEMMA PutLocStep ==
  ASSUME NEW at, NEW tails, RunInv(at, tails), PutLoc
  PROVE  Goes(at, tails)'
<1> DEFINE W == World(at, tails)
           a == Ins.a
           v == TopValue
<1>1. /\ Alive /\ Ins.op = "PUT_LOC" /\ stk' = Put(stk, Loc(Top, a), v)
      /\ UNCHANGED <<loaded, bp, procs, refs, res>> /\ Goto(0)
  BY DEF PutLoc, Only, Running, Put
<1>2. /\ Ins.op \in Straight /\ Takes(Ins) = 1 /\ Gives(Ins) = 1
      /\ Ins.op # "LOAD_PROTO" /\ Ins.op # "CHECK_ARG"
  BY <1>1 DEF Straight, PrimOps, Takes, Gives
<1>3. /\ Ready(at, tails) /\ RunsCode(W, Top, stk, bp)
      /\ IsSeq(stk) /\ Len(stk) \in Nat
      /\ InRange(Ins, protos[at[Top.pc].env]) /\ at[Top.pc].h >= Takes(Ins)
  BY <1>1, <1>2, StraightIs
<1>4. a \in 0..(protos[at[Top.pc].env].lcount - 1)
  BY <1>1, <1>3 DEF InRange
<1>5. Sound(W, v)
  BY <1>1, <1>2, <1>3, TopSound
<1> HIDE DEF a, v, W
<1>6. Stacked(W, frames, stk', bp) /\ RunsCode(W, Top, stk', bp)
      /\ Len(stk') = Len(stk) /\ SoundStack(W, stk')
  BY <1>1, <1>2, <1>4, <1>5, Stored DEF W
<1>7. RefsMade(W, refs') /\ Len(refs') = Len(refs) /\ OpenAs(refs, refs')
  BY <1>1, <1>3, RefsStay DEF W
<1>8. Len(stk') = Len(stk') - Takes(Ins) + Gives(Ins)
  BY <1>2, <1>3, <1>6
<1> QED
  BY <1>1, <1>2, <1>6, <1>7, <1>8, FallGoes DEF W

LEMMA PopLocStep ==
  ASSUME NEW at, NEW tails, RunInv(at, tails), PopLoc
  PROVE  Goes(at, tails)'
<1> DEFINE W == World(at, tails)
           a == Ins.a
           v == TopValue
           r == SubSeq(stk, 1, Len(stk) - 1)
           p == Loc(Top, a)
           s == Put(stk, p, v)
<1>1. /\ Alive /\ Ins.op = "POP_LOC" /\ stk' = Put(r, p, v)
      /\ UNCHANGED <<loaded, bp, procs, refs, res>> /\ Goto(0)
  BY DEF PopLoc, Only, Running, Popped, Put
<1>2. /\ Ins.op \in Straight /\ Takes(Ins) = 1 /\ Gives(Ins) = 0
      /\ Ins.op # "LOAD_PROTO" /\ Ins.op # "CHECK_ARG"
  BY <1>1 DEF Straight, PrimOps, Takes, Gives
<1>3. /\ Ready(at, tails) /\ RunsCode(W, Top, stk, bp)
      /\ IsSeq(stk) /\ Len(stk) \in Nat
      /\ InRange(Ins, protos[at[Top.pc].env]) /\ at[Top.pc].h >= Takes(Ins)
      /\ Top.sp \in Nat /\ Top.sp + Takes(Ins) <= Len(stk)
  BY <1>1, <1>2, StraightIs
<1>4. a \in 0..(protos[at[Top.pc].env].lcount - 1)
  BY <1>1, <1>3 DEF InRange
<1>5. Sound(W, v)
  BY <1>1, <1>2, <1>3, TopSound
<1> HIDE DEF a, v, W, s
<1>6. Stacked(W, frames, s, bp) /\ RunsCode(W, Top, s, bp) /\ IsSeq(s)
      /\ Len(s) = Len(stk) /\ SoundStack(W, s) /\ s[p] = v /\ p \in 1..Top.sp
      /\ \A k \in 1..Len(stk) : k # p => s[k] = stk[k]
  BY <1>1, <1>2, <1>4, <1>5, Stored DEF W, s
<1>7. RefsMade(W, refs') /\ Len(refs') = Len(refs) /\ OpenAs(refs, refs')
  BY <1>1, <1>3, RefsStay DEF W
<1>8. Len(stk) - 1 \in Nat /\ Len(stk) - 1 <= Len(stk) /\ p \in 1..(Len(stk) - 1)
  BY <1>2, <1>3, <1>6
<1>9. IsSeq(r) /\ Len(r) = Len(stk) - 1 /\ \A k \in 1..(Len(stk) - 1) : r[k] = stk[k]
  BY <1>3, <1>8, FirstSeq
<1> HIDE DEF r, p
<1>10. IsSeq(stk') /\ Len(stk') = Len(r) /\ stk'[p] = v
       /\ \A k \in 1..Len(r) : k # p => stk'[k] = r[k]
  <2>1. stk' = Put(r, p, v) /\ IsSeq(r) /\ p \in 1..Len(r)
    BY <1>1, <1>8, <1>9
  <2> QED
    BY <2>1, PutIs
<1>11. \A k \in 1..(Len(stk) - 1) : stk'[k] = s[k] /\ k \in 1..Len(stk)
  <2>1. \A k \in 1..(Len(stk) - 1) : k \in 1..Len(stk)
    BY <1>3
  <2> QED
    BY <1>6, <1>9, <1>10, <2>1
<1>12. SoundStack(W, stk')
  BY <1>6, <1>9, <1>10, <1>11 DEF SoundStack
<1>13. Len(stk') = Len(s) - Takes(Ins) + Gives(Ins)
       /\ \A k \in 1..(Len(s) - Takes(Ins)) : stk'[k] = s[k]
  BY <1>2, <1>3, <1>6, <1>9, <1>10, <1>11
<1> QED
  BY <1>1, <1>2, <1>6, <1>7, <1>12, <1>13, FallGoes DEF W

LEMMA MovLocStep ==
  ASSUME NEW at, NEW tails, RunInv(at, tails), MovLoc
  PROVE  Goes(at, tails)'
<1> DEFINE W == World(at, tails)
           b == Ins.b
           v == stk[Loc(Top, Ins.a)]
           s == Put(stk, Loc(Top, b), v)
<1>1. /\ Alive /\ Ins.op = "MOV_LOC" /\ stk' = Append(s, v)
      /\ UNCHANGED <<loaded, bp, procs, refs, res>> /\ Goto(0)
  BY DEF MovLoc, Only, Running, Put
<1>2. Ins.op \in Straight /\ Takes(Ins) = 0 /\ Gives(Ins) = 1 /\ Ins.op # "LOAD_PROTO"
  BY <1>1 DEF Straight, PrimOps, Takes, Gives
<1>3. Ready(at, tails) /\ InRange(Ins, protos[at[Top.pc].env])
  BY <1>1, <1>2, StraightIs
<1>4. Ins.a \in 0..(protos[at[Top.pc].env].lcount - 1)
      /\ b \in 0..(protos[at[Top.pc].env].lcount - 1)
  BY <1>1, <1>3 DEF InRange
<1>5. Sound(W, v)
  BY <1>1, <1>4, LocalIs
<1> HIDE DEF b, v, W, s
<1>6. Stacked(W, frames, s, bp) /\ RunsCode(W, Top, s, bp)
  BY <1>1, <1>2, <1>4, <1>5, Stored DEF W, s
<1>7. RefsMade(W, refs') /\ Len(refs') = Len(refs) /\ OpenAs(refs, refs')
  BY <1>1, <1>3, RefsStay DEF W
<1> QED
  BY <1>1, <1>2, <1>5, <1>6, <1>7, PushGoes DEF W

LEMMA AddkLocStep ==
  ASSUME NEW at, NEW tails, RunInv(at, tails), AddkLoc
  PROVE  Goes(at, tails)'
<1> DEFINE W == World(at, tails)
           b == Ins.b
           v == Prim("ADD", <<stk[Loc(Top, b)], Num(Ins.a)>>)
           s == Put(stk, Loc(Top, b), v)
<1>1. /\ Alive /\ Ins.op = "ADDK_LOC"
      /\ IF IsErr(v) THEN Raise(v)
         ELSE stk' = Append(s, v)
              /\ UNCHANGED <<loaded, bp, procs, refs, res>> /\ Goto(0)
  BY DEF AddkLoc, Only, Running, Put
<1>2. Ins.op \in Straight /\ Takes(Ins) = 0 /\ Gives(Ins) = 1 /\ Ins.op # "LOAD_PROTO"
  BY <1>1 DEF Straight, PrimOps, Takes, Gives
<1>3. Ready(at, tails) /\ InRange(Ins, protos[at[Top.pc].env])
  BY <1>1, <1>2, StraightIs
<1>4. b \in 0..(protos[at[Top.pc].env].lcount - 1)
  BY <1>1, <1>3 DEF InRange
<1>5. Sound(W, v)
  BY PrimSound
<1> HIDE DEF b, v, W, s
<1>6. CASE IsErr(v)
  <2>1. Raise(v) /\ v[1] = "err"
    BY <1>1, <1>6 DEF IsErr
  <2>2. ~Caught /\ res = Null
    BY <1>1, Fetch DEF Alive
  <2> QED
    BY <2>1, <2>2, RaiseGoes
<1>7. CASE ~IsErr(v)
  <2>1. stk' = Append(s, v) /\ UNCHANGED <<loaded, bp, procs, refs, res>> /\ Goto(0)
    BY <1>1, <1>7
  <2>2. Stacked(W, frames, s, bp) /\ RunsCode(W, Top, s, bp)
    BY <1>1, <1>2, <1>4, <1>5, Stored DEF W, s
  <2>3. RefsMade(W, refs') /\ Len(refs') = Len(refs) /\ OpenAs(refs, refs')
    BY <1>3, <2>1, RefsStay DEF W
  <2> QED
    BY <1>1, <1>2, <1>5, <2>1, <2>2, <2>3, PushGoes DEF W
<1> QED
  BY <1>6, <1>7

\* What a reference of the procedure stands for.
LEMMA RefIs ==
  ASSUME NEW at, NEW tails, RunInv(at, tails), Alive,
         NEW a, a + 1 \in DOMAIN protos[at[Top.pc].env].refs
  PROVE  Ref(a) \in 1..Len(refs) /\ Sound(World(at, tails), RefValue(Ref(a)))
<1> DEFINE W == World(at, tails)
           p == Top.proc
<1>1. Ready(at, tails) /\ CodeFrame(W, Top) /\ at[Top.pc].env = procs[p].env
  BY Fetch
<1>2. ProcsMade(W) /\ RefsMade(W, refs) /\ RefsHeld(refs, frames) /\ Stacked(W, frames, stk, bp)
  BY <1>1 DEF Ready
<1>3. p \in 1..Len(procs)
  BY <1>1, Worlds DEF CodeFrame
<1>4. W.procs = procs /\ W.protos = protos /\ W.nrefs = Len(refs)
  BY Worlds
<1> HIDE DEF W, p
<1>5. procs[p].closure \in [DOMAIN protos[procs[p].env].refs -> 1..Len(refs)]
  BY <1>2, <1>3, <1>4 DEF ProcsMade
<1>6. procs[p].closure[a + 1] \in 1..Len(refs)
  BY <1>1, <1>5
<1>7. Ref(a) \in 1..Len(refs)
  BY <1>6 DEF Ref, p
<1>8. Sound(W, RefValue(Ref(a)))
  BY <1>2, <1>7, RefValueSound
<1> QED
  BY <1>7, <1>8 DEF W

\* What a reference is after an assignment to it.
StoredRefs(r, v) == IF refs[r].pos # 0 THEN refs ELSE [refs EXCEPT ![r].val = v]

LEMMA RefPut ==
  ASSUME NEW W, RefsMade(W, refs), NEW r \in 1..Len(refs), refs[r].pos = 0,
         NEW v, Sound(W, v), NEW rq, rq = StoredRefs(r, v)
  PROVE  RefsMade(W, rq) /\ Len(rq) = Len(refs) /\ OpenAs(refs, rq)
<1> DEFINE x == [refs[r] EXCEPT !.val = v]
<1>1. IsSeq(refs) /\ Len(refs) = W.nrefs /\ \A k \in 1..Len(refs) : IsRef(W, refs[k])
  BY DEF RefsMade
<1>2. /\ refs[r] = [pos |-> refs[r].pos, idx |-> refs[r].idx, val |-> refs[r].val]
      /\ refs[r].pos \in Nat /\ refs[r].idx \in Nat
  BY <1>1 DEF IsRef
<1>3. x.pos = 0 /\ x.idx = refs[r].idx /\ x.val = v
      /\ x = [pos |-> x.pos, idx |-> x.idx, val |-> x.val]
  BY <1>2
<1>4. rq = Put(refs, r, x)
  BY DEF Put, StoredRefs
<1> HIDE DEF x
<1>5. IsRef(W, x)
  BY <1>2, <1>3 DEF IsRef
<1>6. /\ IsSeq(rq) /\ Len(rq) = Len(refs) /\ rq[r] = x
      /\ \A k \in 1..Len(refs) : k # r => rq[k] = refs[k]
  BY <1>1, <1>4, PutIs
<1>7. RefsMade(W, rq)
  <2>1. \A k \in 1..Len(rq) : IsRef(W, rq[k])
    BY <1>1, <1>5, <1>6
  <2> QED
    BY <1>1, <1>6, <2>1 DEF RefsMade
<1>8. OpenAs(refs, rq)
  BY <1>3, <1>6 DEF OpenAs
<1> QED
  BY <1>6, <1>7, <1>8

LEMMA StoreRef ==
  ASSUME NEW at, NEW tails, RunInv(at, tails), Alive, Ins.op \in Straight,
         NEW r \in 1..Len(refs), NEW v, Sound(World(at, tails), v),
         NEW s, s = InStack(r, stk, v), refs' = StoredRefs(r, v)
  PROVE  /\ Stacked(World(at, tails), frames, s, bp)
         /\ RunsCode(World(at, tails), Top, s, bp)
         /\ SoundStack(World(at, tails), s)
         /\ RefsMade(World(at, tails), refs') /\ Len(refs') = Len(refs)
         /\ OpenAs(refs, refs')
<1> DEFINE W == World(at, tails)
           f == Top
<1>1. /\ Ready(at, tails) /\ RunsCode(W, f, stk, bp) /\ Stacked(W, frames, stk, bp)
      /\ IsSeq(stk) /\ Len(stk) \in Nat /\ SoundStack(W, stk)
  BY StraightIs
<1>2. RefsMade(W, refs) /\ RefsHeld(refs, frames)
  BY <1>1 DEF Ready
<1>3. OpAt(W, f) # "MAKE_PROC"
  BY Worlds DEF OpAt, Straight, PrimOps, Ins
<1>4. f = frames[Len(frames)]
  BY DEF Top
<1>5. Sound(W, v)
  OBVIOUS
<1> HIDE DEF W, f
<1>6. CASE refs[r].pos # 0
  <2>1. s = Put(stk, refs[r].pos, v) /\ refs' = refs
    BY <1>6 DEF InStack, Put, StoredRefs
  <2>2. refs[r].pos \in 4..Len(stk)
        /\ \E i \in 1..Len(frames) : frames[i].cproc = "none"
             /\ refs[r].pos > frames[i].bp /\ refs[r].pos <= frames[i].sp
    BY <1>1, <1>2, <1>6, OpenInside
  <2>3. PICK i \in 1..Len(frames) : frames[i].cproc = "none"
             /\ refs[r].pos > frames[i].bp /\ refs[r].pos <= frames[i].sp
    BY <2>2
  <2>4. refs[r].pos \in Nat
    BY <1>1, <2>2
  <2> DEFINE p == refs[r].pos
  <2>5. p \in Nat /\ p > frames[i].bp /\ p <= frames[i].sp /\ s = Put(stk, p, v)
    BY <2>1, <2>3, <2>4
  <2> HIDE DEF p
  <2>6. Stacked(W, frames, s, bp) /\ RunsCode(W, f, s, bp)
    BY <1>1, <1>3, <1>4, <1>5, <2>3, <2>5, StorePut
  <2>7. SoundStack(W, s)
    BY <2>6, StackedFacts
  <2>8. RefsMade(W, refs') /\ Len(refs') = Len(refs) /\ OpenAs(refs, refs')
    BY <1>1, <2>1, RefsStay DEF W
  <2> QED
    BY <2>6, <2>7, <2>8 DEF W, f
<1>7. CASE refs[r].pos = 0
  <2>1. s = stk
    BY <1>7 DEF InStack
  <2>2. RefsMade(W, refs') /\ Len(refs') = Len(refs) /\ OpenAs(refs, refs')
    BY <1>2, <1>5, <1>7, RefPut
  <2> QED
    BY <1>1, <2>1, <2>2 DEF W, f
<1> QED
  BY <1>6, <1>7

LEMMA UndefinedRaised ==
  ASSUME NEW at, NEW tails, RunInv(at, tails), Alive, Raise(Undefined)
  PROVE  Goes(at, tails)'
<1>1. Undefined[1] = "err"
  BY DEF Undefined, Err
<1>2. ~Caught /\ res = Null
  BY Fetch DEF Alive
<1> QED
  BY <1>1, <1>2, RaiseGoes

LEMMA GetVarRefStep ==
  ASSUME NEW at, NEW tails, RunInv(at, tails), GetVarRef
  PROVE  Goes(at, tails)'
<1> DEFINE W == World(at, tails)
           v == RefValue(Ref(Ins.a))
<1>1. /\ Alive /\ Ins.op = "GET_VAR_REF"
      /\ IF v = Null THEN Raise(Undefined)
         ELSE stk' = Append(stk, v)
              /\ UNCHANGED <<loaded, bp, procs, refs, res>> /\ Goto(0)
  BY DEF GetVarRef, Only, Running
<1>2. Ins.op \in Straight /\ Takes(Ins) = 0 /\ Gives(Ins) = 1 /\ Ins.op # "LOAD_PROTO"
  BY <1>1 DEF Straight, PrimOps, Takes, Gives
<1>3. /\ Ready(at, tails) /\ RunsCode(W, Top, stk, bp) /\ Stacked(W, frames, stk, bp)
      /\ InRange(Ins, protos[at[Top.pc].env])
  BY <1>1, <1>2, StraightIs
<1>4. Ins.a + 1 \in DOMAIN protos[at[Top.pc].env].refs
  BY <1>1, <1>3 DEF InRange
<1>5. Sound(W, v)
  BY <1>1, <1>4, RefIs
<1> HIDE DEF v, W
<1>6. CASE v = Null
  BY <1>1, <1>6, UndefinedRaised
<1>7. CASE v # Null
  <2>1. stk' = Append(stk, v) /\ UNCHANGED <<loaded, bp, procs, refs, res>> /\ Goto(0)
    BY <1>1, <1>7
  <2>2. RefsMade(W, refs') /\ Len(refs') = Len(refs) /\ OpenAs(refs, refs')
    BY <1>3, <2>1, RefsStay DEF W
  <2> QED
    BY <1>1, <1>2, <1>3, <1>5, <2>1, <2>2, PushGoes DEF W
<1> QED
  BY <1>6, <1>7

LEMMA PutVarRefStep ==
  ASSUME NEW at, NEW tails, RunInv(at, tails), PutVarRef
  PROVE  Goes(at, tails)'
<1> DEFINE W == World(at, tails)
           v == TopValue
           r == Ref(Ins.a)
           s == InStack(r, stk, v)
<1>1. /\ Alive /\ Ins.op = "PUT_VAR_REF"
      /\ IF RefValue(r) = Null THEN Raise(Undefined)
         ELSE Assigned(r, v) /\ stk' = s
  BY DEF PutVarRef, Running
<1>2. /\ Ins.op \in Straight /\ Takes(Ins) = 1 /\ Gives(Ins) = 1
      /\ Ins.op # "LOAD_PROTO" /\ Ins.op # "CHECK_ARG"
  BY <1>1 DEF Straight, PrimOps, Takes, Gives
<1>3. /\ Ready(at, tails) /\ RunsCode(W, Top, stk, bp)
      /\ InRange(Ins, protos[at[Top.pc].env]) /\ at[Top.pc].h >= Takes(Ins)
  BY <1>1, <1>2, StraightIs
<1>4. r \in 1..Len(refs)
  <2>1. Ins.a + 1 \in DOMAIN protos[at[Top.pc].env].refs
    BY <1>1, <1>3 DEF InRange
  <2> QED
    BY <1>1, <2>1, RefIs
<1>5. Sound(W, v)
  BY <1>1, <1>2, <1>3, TopSound
<1> HIDE DEF v, W, r, s
<1>6. CASE RefValue(r) = Null
  BY <1>1, <1>6, UndefinedRaised
<1>7. CASE RefValue(r) # Null
  <2>1. stk' = s /\ refs' = StoredRefs(r, v)
        /\ UNCHANGED <<loaded, bp, procs, res>> /\ Goto(0)
    BY <1>1, <1>7 DEF Assigned, StoredRefs
  <2>2. s = InStack(r, stk, v)
    BY DEF s
  <2>3. /\ Stacked(W, frames, s, bp) /\ RunsCode(W, Top, s, bp) /\ SoundStack(W, s)
        /\ RefsMade(W, refs') /\ Len(refs') = Len(refs) /\ OpenAs(refs, refs')
    BY <1>1, <1>2, <1>4, <1>5, <2>1, <2>2, StoreRef DEF W
  <2>4. Len(s) \in Nat
    BY <2>3, StackedFacts
  <2>5. Len(stk') = Len(s) - Takes(Ins) + Gives(Ins)
        /\ \A k \in 1..(Len(s) - Takes(Ins)) : stk'[k] = s[k]
    BY <1>2, <2>1, <2>4
  <2>6. SoundStack(W, stk')
    BY <2>1, <2>3
  <2> QED
    BY <1>1, <1>2, <2>1, <2>3, <2>5, <2>6, FallGoes DEF W
<1> QED
  BY <1>6, <1>7

LEMMA MovVarRefStep ==
  ASSUME NEW at, NEW tails, RunInv(at, tails), MovVarRef
  PROVE  Goes(at, tails)'
<1> DEFINE W == World(at, tails)
           v == RefValue(Ref(Ins.a))
           r == Ref(Ins.b)
           s == InStack(r, stk, v)
<1>1. /\ Alive /\ Ins.op = "MOV_VAR_REF"
      /\ IF v = Null \/ RefValue(r) = Null THEN Raise(Undefined)
         ELSE Assigned(r, v) /\ stk' = Append(s, v)
  BY DEF MovVarRef, Running
<1>2. Ins.op \in Straight /\ Takes(Ins) = 0 /\ Gives(Ins) = 1 /\ Ins.op # "LOAD_PROTO"
  BY <1>1 DEF Straight, PrimOps, Takes, Gives
<1>3. InRange(Ins, protos[at[Top.pc].env])
  BY <1>1, <1>2, StraightIs
<1>4. Ins.a + 1 \in DOMAIN protos[at[Top.pc].env].refs
      /\ Ins.b + 1 \in DOMAIN protos[at[Top.pc].env].refs
  BY <1>1, <1>3 DEF InRange
<1>5. Sound(W, v) /\ r \in 1..Len(refs)
  BY <1>1, <1>4, RefIs
<1> HIDE DEF v, W, r, s
<1>6. CASE v = Null \/ RefValue(r) = Null
  BY <1>1, <1>6, UndefinedRaised
<1>7. CASE ~(v = Null \/ RefValue(r) = Null)
  <2>1. stk' = Append(s, v) /\ refs' = StoredRefs(r, v)
        /\ UNCHANGED <<loaded, bp, procs, res>> /\ Goto(0)
    BY <1>1, <1>7 DEF Assigned, StoredRefs
  <2>2. s = InStack(r, stk, v)
    BY DEF s
  <2>3. /\ Stacked(W, frames, s, bp) /\ RunsCode(W, Top, s, bp)
        /\ RefsMade(W, refs') /\ Len(refs') = Len(refs) /\ OpenAs(refs, refs')
    BY <1>1, <1>2, <1>5, <2>1, <2>2, StoreRef DEF W
  <2> QED
    BY <1>1, <1>2, <1>5, <2>1, <2>3, PushGoes DEF W
<1> QED
  BY <1>6, <1>7

\* The frame goes on at j as it is, also after a tail call.
LEMMA Advance ==
  ASSUME NEW at, NEW tails, RunInv(at, tails), Alive,
         Ins.op \notin {"CHECK_ARG", "LOAD_PROTO"}, NEW j,
         Leads(code, at, Top.pc, j, at[Top.pc].h, at[Top.pc].open),
         Top.mark = "call" => j \in tails,
         NEW g, g = WithPc(Top, j), NEW G, G = SetTop(g)
  PROVE  /\ Stacked(World(at, tails), G, stk, bp)
         /\ CodeFrame(World(at, tails), g) /\ Retop(frames, G, g)
<1> DEFINE W == World(at, tails)
           f == Top
           k == Top.pc
           h == at[k].h
           open == at[k].open
<1>1. /\ Ready(at, tails) /\ CodeFrame(W, f) /\ k \in DOMAIN at
      /\ at[k].env = procs[f.proc].env
  BY Fetch
<1>2. IsSeq(frames) /\ Len(frames) \in Nat \ {0} /\ Len(stk) \in Nat
      /\ Stacked(W, frames, stk, bp) /\ SoundStack(W, stk) /\ Callers(W, frames, stk)
  BY <1>1, ReadyFacts DEF Ready
<1>3. W.code = code /\ W.at = at /\ W.procs = procs /\ W.tails = tails
  BY Worlds
<1>4. EnvOf(W, f) = at[k].env /\ Open(W, f) = open
  BY <1>1, <1>3 DEF EnvOf, Open
<1>5. j \in DOMAIN at /\ at[j].env = at[k].env /\ code[j].op # "MAKE_PROC"
  BY DEF Leads, At, Ins
<1>6. Retop(frames, G, g)
  <2>1. Len(frames) > 0 /\ G = [frames EXCEPT ![Len(frames)] = g]
    BY <1>2 DEF SetTop
  <2> QED
    BY <1>2, <2>1, RetopOf
<1>7. f = frames[Len(frames)] /\ g = WithPc(f, j)
  BY DEF Top
<1>8. Leads(W.code, W.at, f.pc, j, h, Open(W, f))
  BY <1>3, <1>4
<1>9. RunsCode(W, f, stk, bp) \/ RunsOut(W, f, stk, bp)
  BY Fetch
<1>10. RunsCode(W, f, stk, bp) =>
         h \in Nat /\ Len(stk) = f.sp + h /\ Floor(open) <= h
  BY <1>2, HeightIs
<1>11. f.mark = "call" => j \in tails
  OBVIOUS
<1> HIDE DEF W, f, k, h, open
<1>12. /\ CodeFrame(W, g) /\ g.pc = j /\ g.sp = f.sp /\ g.bp = f.bp /\ g.mark = f.mark
       /\ g.proc = f.proc /\ g.cproc = f.cproc
  BY <1>1, <1>3, <1>4, <1>5, <1>7, Moved
<1>13. CASE RunsCode(W, f, stk, bp)
  <2>1. h \in Nat /\ h >= Floor(Open(W, f)) /\ Len(stk) = f.sp + h
    BY <1>4, <1>10, <1>13
  <2>2. Agree(stk, stk, f.sp + Floor(Open(W, f)))
    BY DEF Agree
  <2>3. W.code[j].op = "MAKE_PROC" => stk[Len(stk)] = <<"proto", W.code[j - 1].a>>
    BY <1>3, <1>5
  <2>4. Stacked(W, G, stk, bp)
    BY <1>2, <1>6, <1>7, <1>8, <1>13, <2>1, <2>2, <2>3, Operate
  <2> QED
    BY <1>6, <1>12, <2>4 DEF W
<1>14. CASE RunsOut(W, f, stk, bp)
  <2>1. RunsOut(W, g, stk, bp)
    <3>1. f.mark = "call" /\ bp \in Nat /\ bp > f.sp /\ bp + 2 <= Len(stk)
          /\ stk[bp + 2] = <<"p", f.proc>>
      BY <1>14 DEF RunsOut
    <3> QED
      BY <1>3, <1>11, <1>12, <3>1 DEF RunsOut
  <2>2. g.cproc = "none" /\ G[Len(G)] = g
    BY <1>2, <1>6, <1>12 DEF CodeFrame, Retop
  <2>3. g.bp = frames[Len(frames)].bp
    BY <1>7, <1>12
  <2>4. Callers(W, G, stk)
    BY <1>2, <1>6, <2>2, <2>3, TopChanges
  <2>5. Stacked(W, G, stk, bp)
    BY <1>2, <2>1, <2>2, <2>4 DEF Stacked, Runs
  <2> QED
    BY <1>6, <1>12, <2>5 DEF W
<1> QED
  BY <1>9, <1>13, <1>14

\* What the verifier says of a jump.
LEMMA JumpVerified ==
  ASSUME NEW at, NEW tails, NEW k, Verifies(code, protos, at, tails, k)
  PROVE  /\ code[k].op \in {"JMP", "JMP_IF_TRUE", "JMP_IF_FALSE"} =>
              Leads(code, at, k, k + 1 + code[k].a, at[k].h, at[k].open)
         /\ code[k].op \in {"JMP_IF_TRUE", "JMP_IF_FALSE"} =>
              Leads(code, at, k, k + 1, at[k].h, at[k].open)
         /\ code[k].op = "CLOSE_REF" => Leads(code, at, k, k + 1, at[k].h, at[k].open)
BY DEF Verifies

\* The instructions after a tail call.
LEMMA OutVerified ==
  ASSUME NEW at, NEW tails, RunInv(at, tails), Alive, Top.mark = "call"
  PROVE  /\ RunsOut(World(at, tails), Top, stk, bp)
         /\ Ins.op \in {"RET", "JMP", "CLOSE_REF"}
         /\ Ins.op = "JMP" => Top.pc + 1 + Ins.a \in tails
         /\ Ins.op = "CLOSE_REF" => Top.pc + 1 \in tails
<1>1. RunsOut(World(at, tails), Top, stk, bp)
  BY Fetch DEF RunsCode
<1>2. Top.pc \in tails
  BY <1>1, Worlds DEF RunsOut
<1>3. TailVerifies(code, tails, Top.pc)
  BY <1>2, Verified DEF RunInv
<1> QED
  BY <1>1, <1>3 DEF TailVerifies, Ins

LEMMA JumpStep ==
  ASSUME NEW at, NEW tails, RunInv(at, tails), Jump
  PROVE  Goes(at, tails)'
<1> DEFINE d == IF \/ Ins.op = "JMP"
                   \/ Ins.op = "JMP_IF_TRUE" /\ TopValue # Nil
                   \/ Ins.op = "JMP_IF_FALSE" /\ TopValue = Nil
                THEN Ins.a ELSE 0
           j == Top.pc + 1 + d
           g == WithPc(Top, j)
<1>1. /\ Alive /\ Ins.op \in {"JMP", "JMP_IF_TRUE", "JMP_IF_FALSE"} /\ Goto(d)
      /\ stk' = stk /\ UNCHANGED <<loaded, bp, procs, refs, res>>
  BY DEF Jump, Only
<1>2. Ready(at, tails) /\ Verifies(code, protos, at, tails, Top.pc) /\ Top.pc \in Nat
      /\ CodeFrame(World(at, tails), Top)
  BY <1>1, Fetch
<1>3. Leads(code, at, Top.pc, j, at[Top.pc].h, at[Top.pc].open)
  <2>1. CASE d = Ins.a
    <3>1. j = Top.pc + 1 + code[Top.pc].a
      BY <2>1 DEF Ins
    <3> HIDE DEF j, d
    <3> QED
      BY <1>1, <1>2, <3>1, JumpVerified DEF Ins
  <2>2. CASE d = 0 /\ Ins.op # "JMP"
    <3>1. j = Top.pc + 1
      BY <1>2, <2>2
    <3> HIDE DEF j, d
    <3> QED
      BY <1>1, <1>2, <2>2, <3>1, JumpVerified DEF Ins
  <2> QED
    BY <2>1, <2>2
<1>4. Top.mark = "call" => j \in tails
  BY <1>1, OutVerified
<1>5. frames' = SetTop(g)
  BY <1>1 DEF Goto, WithPc
<1>6. SameHold(Top, g)
  BY <1>2 DEF CodeFrame, IsFrame, SameHold, WithPc
<1>7. Ins.op \notin {"CHECK_ARG", "LOAD_PROTO"}
  BY <1>1
<1> HIDE DEF j, d
<1>8. g = WithPc(Top, j)
  OBVIOUS
<1> HIDE DEF g
<1>9. Stacked(World(at, tails), frames', stk, bp)
  BY <1>1, <1>3, <1>4, <1>5, <1>7, <1>8, Advance
<1>10. RefsMade(World(at, tails), refs') /\ Len(refs') = Len(refs) /\ OpenAs(refs, refs')
  BY <1>1, <1>2, RefsStay
<1>11. RefsHeld(refs', frames')
  BY <1>2, <1>5, <1>6, <1>10, KeepsRefs
<1>12. res' = Null
  BY <1>1 DEF Alive
<1> QED
  BY <1>1, <1>2, <1>9, <1>10, <1>11, <1>12, GoesOnSame

\* f with other references to its variables.
WithRefs(f, l, m) == [f EXCEPT !.lref = l, !.lrefl = m]

LEMMA OtherRefs ==
  ASSUME NEW W, NEW F, NEW s, NEW b, Stacked(W, F, s, b),
         NEW f, f = F[Len(F)], CodeFrame(W, f),
         NEW l \in [1..Lcount(W, f) -> 0..W.nrefs], NEW m,
         NEW g, g = WithRefs(f, l, m), NEW G, Retop(F, G, g)
  PROVE  Stacked(W, G, s, b)
<1>1. Callers(W, F, s) /\ SoundStack(W, s) /\ Runs(W, f, s, b)
      /\ IsSeq(s) /\ Len(s) \in Nat /\ IsSeq(F) /\ Len(F) \in Nat \ {0}
  BY StackedFacts
<1>2. IsFrame(f)
  BY DEF CodeFrame
<1>3. /\ g.proc = f.proc /\ g.cproc = f.cproc /\ g.pc = f.pc /\ g.bp = f.bp
      /\ g.mark = f.mark /\ g.args = f.args /\ g.sp = f.sp /\ g.lref = l
      /\ IsFrame(g)
  BY <1>2, ZenonT(30) DEF IsFrame, WithRefs
<1>4. /\ EnvOf(W, g) = EnvOf(W, f) /\ Lcount(W, g) = Lcount(W, f)
      /\ Open(W, g) = Open(W, f) /\ Height(W, g) = Height(W, f)
      /\ OpAt(W, g) = OpAt(W, f)
  BY <1>3, ZenonT(30) DEF EnvOf, Lcount, Open, Height, OpAt
<1>5. CodeFrame(W, g)
  BY <1>3, <1>4 DEF CodeFrame
<1>6. f.cproc = "none"
  BY DEF CodeFrame
<1>7. RunsCode(W, f, s, b) \/ RunsOut(W, f, s, b)
  BY <1>1, <1>6, RunsFacts
<1>8. Runs(W, g, s, b)
  <2>1. CASE RunsCode(W, f, s, b)
    <3>1. Prepared(f, s, Len(s), Open(W, f)) /\ b = BpOf(f, Open(W, f)) /\ f.mark = "ret"
          /\ Height(W, f) \in Nat
      BY <2>1 DEF RunsCode
    <3>2. Prepared(g, s, Len(s), Open(W, g))
      <4>1. g.sp = f.sp /\ g.bp = f.bp /\ Open(W, g) = Open(W, f)
        BY <1>3, <1>4
      <4>2. Prepared(f, s, Len(s), Open(W, g))
        BY <3>1, <4>1
      <4> DEFINE open == Open(W, g)
      <4> HIDE DEF open
      <4>3. IsSeq(open)
        BY <4>2 DEF Prepared, open
      <4>4. ASSUME NEW j \in 1..Len(open)
            PROVE  /\ open[j] \in Nat
                   /\ \A i \in 1..(j - 1) : open[i] + 2 <= open[j]
                   /\ g.sp + open[j] + 2 <= Len(s)
                   /\ s[g.sp + open[j] + 1] =
                        <<"bp", IF j = 1 THEN g.bp ELSE g.sp + open[j - 1] + 1>>
        BY <4>1, <4>2, ZenonT(30) DEF Prepared, open
      <4>5. Prepared(g, s, Len(s), open)
        BY <4>3, <4>4 DEF Prepared
      <4> QED
        BY <4>5 DEF open
    <3>3. b = BpOf(g, Open(W, g))
      BY <1>3, <1>4, <3>1 DEF BpOf
    <3>4. OpAt(W, f) = "CHECK_ARG" => BeforeCheck(W, g, s)
      BY <1>3, <1>4, <2>1 DEF RunsCode, BeforeCheck
    <3>5. OpAt(W, f) # "CHECK_ARG" => Len(s) = g.sp + Height(W, g)
      BY <1>3, <1>4, <2>1 DEF RunsCode
    <3>6. OpAt(W, f) = "MAKE_PROC" => s[Len(s)] = <<"proto", W.code[g.pc - 1].a>>
      BY <1>3, <2>1 DEF RunsCode
    <3>7. RunsCode(W, g, s, b)
      BY <1>3, <1>4, <1>5, <3>1, <3>2, <3>3, <3>4, <3>5, <3>6 DEF RunsCode
    <3> QED
      BY <3>7 DEF Runs
  <2>2. CASE RunsOut(W, f, s, b)
    <3>1. /\ f.mark = "call" /\ f.pc \in W.tails
          /\ b \in Nat /\ b > f.sp /\ b + 2 <= Len(s) /\ s[b + 2] = <<"p", f.proc>>
      BY <2>2 DEF RunsOut
    <3>2. RunsOut(W, g, s, b)
      BY <1>3, <1>5, <3>1 DEF RunsOut
    <3> QED
      BY <3>2 DEF Runs
  <2> QED
    BY <1>7, <2>1, <2>2
<1>9. Callers(W, G, s)
  <2>1. g.bp = F[Len(F)].bp /\ g.cproc = "none"
    BY <1>3, <1>6
  <2> QED
    BY <1>1, <2>1, TopChanges
<1>10. G[Len(G)] = g
  BY DEF Retop
<1> QED
  BY <1>1, <1>8, <1>9, <1>10 DEF Stacked

LEMMA RetopTwice ==
  ASSUME NEW F, NEW G, NEW g, Retop(F, G, g), NEW H, NEW h, Retop(F, H, h)
  PROVE  Retop(G, H, h)
BY DEF Retop

LEMMA CloseRefStep ==
  ASSUME NEW at, NEW tails, RunInv(at, tails), CloseRef
  PROVE  Goes(at, tails)'
<1> DEFINE W == World(at, tails)
           j == Top.pc + 1
           gone == {r \in Top.lrefl : refs[r].idx >= Ins.a}
           f == WithPc(Top, j)
           l == [i \in DOMAIN Top.lref |-> IF Top.lref[i] \in gone THEN 0 ELSE Top.lref[i]]
           g == WithRefs(f, l, Top.lrefl \ gone)
           G == SetTop(f)
<1>1. /\ Alive /\ Ins.op = "CLOSE_REF" /\ refs' = Closed(gone, stk)
      /\ UNCHANGED <<loaded, stk, bp, procs, res>>
  BY DEF CloseRef, Running
<1>2. /\ Ready(at, tails) /\ Verifies(code, protos, at, tails, Top.pc)
      /\ CodeFrame(W, Top) /\ Top.pc \in DOMAIN at
  BY <1>1, Fetch
<1>3. IsFrame(Top) /\ Top.cproc = "none" /\ Top.lref \in [1..Lcount(W, Top) -> 0..W.nrefs]
      /\ at[Top.pc].env = EnvOf(W, Top)
  BY <1>2, Worlds DEF CodeFrame
<1>4. frames' = SetTop(g)
  BY <1>1, <1>3 DEF CloseRef, IsFrame, WithPc, WithRefs
<1>5. Leads(code, at, Top.pc, j, at[Top.pc].h, at[Top.pc].open)
  BY <1>1, <1>2, JumpVerified DEF Ins
<1>6. Top.mark = "call" => j \in tails
  BY <1>1, OutVerified
<1>7. Ins.op \notin {"CHECK_ARG", "LOAD_PROTO"}
  BY <1>1
<1>8. /\ f.bp = Top.bp /\ f.lref = Top.lref /\ f.lrefl = Top.lrefl /\ f.cproc = "none"
      /\ f.proc = Top.proc
      /\ g.bp = Top.bp /\ g.lref = l /\ g.lrefl = Top.lrefl \ gone /\ g.cproc = "none"
  BY <1>3 DEF IsFrame, WithPc, WithRefs
<1>9. f = WithPc(Top, j) /\ G = SetTop(f) /\ g = WithRefs(f, l, Top.lrefl \ gone)
  OBVIOUS
<1> HIDE DEF W, j, f, g, G
<1>10. Stacked(W, G, stk, bp) /\ CodeFrame(W, f) /\ Retop(frames, G, f)
  BY <1>1, <1>5, <1>6, <1>7, <1>9, Advance DEF W
<1>11. IsSeq(frames) /\ Len(frames) \in Nat \ {0} /\ IsSeq(refs) /\ Len(refs) \in Nat
       /\ Stacked(W, frames, stk, bp) /\ RefsMade(W, refs) /\ RefsHeld(refs, frames)
  BY <1>2, ReadyFacts DEF Ready, W
<1>12. Retop(frames, frames', g)
  <2>1. Len(frames) > 0 /\ frames' = [frames EXCEPT ![Len(frames)] = g]
    BY <1>4, <1>11 DEF SetTop
  <2> QED
    BY <1>11, <2>1, RetopOf
<1>13. Stacked(W, frames', stk, bp)
  <2>1. W.nrefs \in Nat /\ W.nrefs = Len(refs)
    BY <1>11, Worlds DEF W
  <2>2. l \in [1..Lcount(W, Top) -> 0..W.nrefs]
    <3>1. Top.lref \in [1..Lcount(W, Top) -> 0..W.nrefs]
      BY <1>3
    <3>2. 0 \in 0..W.nrefs
      BY <2>1
    <3> QED
      BY <3>1, <3>2
  <2>3. Lcount(W, f) = Lcount(W, Top)
    BY <1>8 DEF Lcount, EnvOf
  <2>4. f = G[Len(G)]
    BY <1>10 DEF Retop
  <2>5. Retop(G, frames', g)
    BY <1>10, <1>12, RetopTwice
  <2> HIDE DEF l
  <2>6. l \in [1..Lcount(W, f) -> 0..W.nrefs]
    BY <2>2, <2>3
  <2> QED
    BY <1>9, <1>10, <2>4, <2>5, <2>6, OtherRefs
<1> HIDE DEF gone
<1>14. /\ RefsMade(W, refs') /\ Len(refs') = Len(refs) /\ OpenAs(refs, refs')
       /\ \A r \in 1..Len(refs) : r \in gone => refs'[r].pos = 0
  BY <1>1, <1>11, ClosedMade
<1>15. ASSUME NEW r \in 1..Len(refs'), refs'[r].pos # 0
       PROVE  \E i \in 1..Len(frames') : HeldBy(refs', r, frames'[i])
  <2>1. r \in 1..Len(refs) /\ r \notin gone /\ refs[r].pos # 0
        /\ refs'[r].pos = refs[r].pos /\ refs'[r].idx = refs[r].idx
    BY <1>14, <1>15 DEF OpenAs
  <2>2. PICK i \in 1..Len(frames) : HeldBy(refs, r, frames[i])
    BY <1>11, <2>1 DEF RefsHeld
  <2>3. CASE i = Len(frames)
    <3>1. HeldBy(refs, r, Top)
      BY <2>2, <2>3 DEF Top
    <3>2. /\ refs[r].pos = Loc(Top, refs[r].idx) /\ r \in Top.lrefl
          /\ refs[r].idx + 1 \in DOMAIN Top.lref /\ Top.lref[refs[r].idx + 1] = r
      BY <3>1 DEF HeldBy
    <3>3. g.lref[refs[r].idx + 1] = r /\ refs[r].idx + 1 \in DOMAIN g.lref
          /\ r \in g.lrefl
      BY <1>8, <2>1, <3>2
    <3>4. refs[r].pos = Loc(g, refs[r].idx)
      BY <1>8, <3>2 DEF Loc
    <3>5. HeldBy(refs', r, g)
      BY <1>8, <2>1, <3>3, <3>4 DEF HeldBy
    <3>6. frames'[Len(frames)] = g /\ Len(frames) \in 1..Len(frames')
      BY <1>11, <1>12 DEF Retop
    <3> QED
      BY <3>5, <3>6
  <2>4. CASE i # Len(frames)
    <3>1. i \in 1..(Len(frames) - 1)
      BY <1>11, <2>4
    <3>2. frames'[i] = frames[i] /\ i \in 1..Len(frames')
      BY <1>12, <3>1 DEF Retop
    <3>3. HeldBy(refs', r, frames[i])
      BY <2>1, <2>2 DEF HeldBy
    <3> QED
      BY <3>2, <3>3
  <2> QED
    BY <2>3, <2>4
<1>16. RefsHeld(refs', frames')
  BY <1>15 DEF RefsHeld
<1>17. res' = Null /\ stk' = stk /\ bp' = bp
  BY <1>1 DEF Alive
<1>18. UNCHANGED <<loaded, procs>>
  BY <1>1
<1> QED
  BY <1>2, <1>13, <1>14, <1>16, <1>17, <1>18, GoesOnSame DEF W

-----------------------------------------------------------------------------
(* Procedures are made.                                                    *)

\* The variables of f captured for the first time, the references of f then, and
\* those made for them (MakeProc).
NewLocals(f, defs) ==
  {i \in 1..Len(f.lref) : f.lref[i] = 0 /\ \E j \in DOMAIN defs :
                                             defs[j].local /\ defs[j].cidx = i - 1}
NewLref(f, new) ==
  [i \in 1..Len(f.lref) |-> IF i \in new THEN Len(refs) + i ELSE f.lref[i]]
NewLrefl(f, new) == f.lrefl \cup {Len(refs) + i : i \in new}
NewRef(f, new, i) ==
  [pos |-> IF i \in new THEN Loc(f, i - 1) ELSE 0, idx |-> i - 1, val |-> Null]
MoreRefs(f, new) == refs \o [i \in 1..(Len(f.lref) + 1) |-> NewRef(f, new, i)]
CapturedRef(f, lref, d) ==
  IF d.local THEN lref[d.cidx + 1]
  ELSE IF d.cidx \in 0..(Len(procs[f.proc].closure) - 1)
  THEN procs[f.proc].closure[d.cidx + 1] ELSE Len(refs) + Len(f.lref) + 1

AreMore(rq, f, new, n) ==
  /\ IsSeq(rq) /\ Len(rq) = Len(refs) + (n + 1)
  /\ \A r \in 1..Len(refs) : rq[r] = refs[r]
  /\ \A i \in 1..(n + 1) : rq[Len(refs) + i] = NewRef(f, new, i)

LEMMA MoreRefsAre ==
  ASSUME NEW f, Len(f.lref) \in Nat, IsSeq(refs), NEW new
  PROVE  AreMore(MoreRefs(f, new), f, new, Len(f.lref))
<1> DEFINE rq == MoreRefs(f, new)
           n == Len(f.lref) S == {NewRef(f, new, i) : i \in 1..(n + 1)}
           t == [i \in 1..(n + 1) |-> NewRef(f, new, i)]
           m == n + 1
<1>1. t \in [1..m -> S] /\ m \in Nat /\ \A i \in 1..m : t[i] = NewRef(f, new, i)
  OBVIOUS
<1>2. rq = refs \o t
  BY DEF MoreRefs
<1> HIDE DEF t, S, rq
<1>3. IsSeq(t) /\ Len(t) = m
  <2> HIDE DEF m
  <2> QED
    BY <1>1, FunctionSeq
<1> HIDE DEF m
<1>4. /\ IsSeq(refs \o t) /\ Len(refs \o t) = Len(refs) + Len(t)
      /\ \A i \in 1..Len(refs) : (refs \o t)[i] = refs[i]
  BY <1>3, ConcatSeq
<1>5. \A i \in 1..Len(t) : (refs \o t)[Len(refs) + i] = t[i]
  BY <1>3, ConcatSeq
<1> QED
  BY <1>1, <1>2, <1>3, <1>4, <1>5 DEF AreMore, m, rq

\* A new reference is one of the program, or one that was there.
LEMMA MoreIndex ==
  ASSUME NEW l \in Nat, NEW m \in Nat, NEW k, k = l + m, NEW r \in 1..k
  PROVE  r \in 1..l \/ \E i \in 1..m : r = l + i
<1>1. r \notin 1..l => r - l \in 1..m /\ r = l + (r - l)
  OBVIOUS
<1> QED
  BY <1>1

LEMMA MoreRefsMade ==
  ASSUME NEW f, NEW n \in Nat, Len(f.lref) = n, f.bp \in Nat,
         NEW new, new \subseteq 1..n, NEW rq, rq = MoreRefs(f, new),
         NEW W, NEW V, Grows(W, V), RefsMade(W, refs), V.nrefs = Len(refs) + (n + 1)
  PROVE  RefsMade(V, rq)
<1>1. IsSeq(refs) /\ Len(refs) = W.nrefs /\ \A r \in 1..Len(refs) : IsRef(W, refs[r])
  BY DEF RefsMade
<1>2. Len(refs) \in Nat
  BY <1>1 DEF IsSeq
<1>3. AreMore(rq, f, new, n)
  BY <1>1, MoreRefsAre
<1>4. /\ IsSeq(rq) /\ Len(rq) = Len(refs) + (n + 1)
      /\ \A r \in 1..Len(refs) : rq[r] = refs[r]
      /\ \A i \in 1..(n + 1) : rq[Len(refs) + i] = NewRef(f, new, i)
  BY <1>3 DEF AreMore
<1>5. ASSUME NEW r \in 1..Len(rq)
      PROVE  IsRef(V, rq[r])
  <2>1. r \in 1..Len(refs) \/ \E i \in 1..(n + 1) : r = Len(refs) + i
    <3> DEFINE m == n + 1
    <3>1. m \in Nat /\ Len(rq) = Len(refs) + m
      BY <1>4
    <3> HIDE DEF m
    <3>2. r \in 1..Len(refs) \/ \E i \in 1..m : r = Len(refs) + i
      BY <1>2, <3>1, MoreIndex
    <3> QED
      BY <3>2 DEF m
  <2>2. CASE r \in 1..Len(refs)
    <3>1. IsRef(W, rq[r])
      BY <1>1, <1>4, <2>2
    <3>2. Sound(V, rq[r].val)
      BY <3>1, GrowSound DEF IsRef
    <3> QED
      BY <3>1, <3>2 DEF IsRef
  <2>3. ASSUME NEW i \in 1..(n + 1), r = Len(refs) + i
        PROVE  IsRef(V, rq[r])
    <3>1. rq[r] = NewRef(f, new, i)
      BY <1>4, <2>3
    <3>2. i - 1 \in Nat /\ Loc(f, i - 1) \in Nat
      BY DEF Loc
    <3>3. Sound(V, Null)
      BY DEF Sound, Null
    <3> QED
      BY <3>1, <3>2, <3>3 DEF IsRef, NewRef
  <2> QED
    BY <2>1, <2>2, <2>3
<1> QED
  BY <1>4, <1>5 DEF RefsMade

\* Each new reference that is open belongs to the frame.
LEMMA MoreRefsHeld ==
  ASSUME IsSeq(frames), Len(frames) \in Nat \ {0}, NEW f, f = frames[Len(frames)],
         IsSeq(refs), RefsHeld(refs, frames), f.cproc = "none",
         NEW n \in Nat, f.lref \in [1..n -> 0..Len(refs)], Len(f.lref) = n,
         NEW new, new \subseteq 1..n, \A i \in new : f.lref[i] = 0,
         NEW rq, rq = MoreRefs(f, new),
         NEW g, g.cproc = "none", g.bp = f.bp,
         g.lref = NewLref(f, new), g.lrefl = NewLrefl(f, new),
         NEW G, Retop(frames, G, g)
  PROVE  RefsHeld(rq, G)
<1>1. Len(refs) \in Nat
  BY DEF IsSeq
<1>2. /\ IsSeq(rq) /\ Len(rq) = Len(refs) + (n + 1)
      /\ \A r \in 1..Len(refs) : rq[r] = refs[r]
      /\ \A i \in 1..(n + 1) : rq[Len(refs) + i] = NewRef(f, new, i)
  <2>1. AreMore(MoreRefs(f, new), f, new, Len(f.lref))
    BY MoreRefsAre
  <2>2. AreMore(rq, f, new, n)
    BY <2>1
  <2> QED
    BY <2>2 DEF AreMore
<1>3. DOMAIN g.lref = 1..n
      /\ \A i \in 1..n : g.lref[i] = IF i \in new THEN Len(refs) + i ELSE f.lref[i]
  BY DEF NewLref
<1>4. Len(G) = Len(frames) /\ Len(frames) \in 1..Len(G) /\ G[Len(frames)] = g
      /\ \A i \in 1..(Len(frames) - 1) : i \in 1..Len(G) /\ G[i] = frames[i]
  BY DEF Retop
<1>5. ASSUME NEW r \in 1..Len(rq), rq[r].pos # 0
      PROVE  \E i \in 1..Len(G) : HeldBy(rq, r, G[i])
  <2>1. r \in 1..Len(refs) \/ \E i \in 1..(n + 1) : r = Len(refs) + i
    <3> DEFINE m == n + 1
    <3>1. m \in Nat /\ Len(rq) = Len(refs) + m
      BY <1>2
    <3> HIDE DEF m
    <3>2. r \in 1..Len(refs) \/ \E i \in 1..m : r = Len(refs) + i
      BY <1>1, <3>1, MoreIndex
    <3> QED
      BY <3>2 DEF m
  <2>2. CASE r \in 1..Len(refs)
    <3>1. rq[r] = refs[r]
      BY <1>2, <2>2
    <3>2. PICK i \in 1..Len(frames) : HeldBy(refs, r, frames[i])
      BY <1>5, <2>2, <3>1 DEF RefsHeld
    <3>3. CASE i = Len(frames)
      <4>1. /\ r \in f.lrefl /\ refs[r].pos = Loc(f, refs[r].idx)
            /\ refs[r].idx + 1 \in DOMAIN f.lref /\ f.lref[refs[r].idx + 1] = r
        BY <3>2, <3>3 DEF HeldBy
      <4>2. refs[r].idx + 1 \in 1..n /\ refs[r].idx + 1 \notin new
        BY <1>1, <2>2, <4>1
      <4>3. r \in g.lrefl /\ g.lref[refs[r].idx + 1] = r
        BY <1>3, <4>1, <4>2 DEF NewLrefl
      <4>4. refs[r].pos = Loc(g, refs[r].idx)
        BY <4>1 DEF Loc
      <4>5. HeldBy(rq, r, g)
        BY <1>3, <3>1, <4>2, <4>3, <4>4 DEF HeldBy
      <4> QED
        BY <1>4, <4>5
    <3>4. CASE i # Len(frames)
      <4>1. i \in 1..(Len(frames) - 1)
        BY <3>4
      <4>2. HeldBy(rq, r, frames[i])
        BY <3>1, <3>2 DEF HeldBy
      <4> QED
        BY <1>4, <4>1, <4>2
    <3> QED
      BY <3>3, <3>4
  <2>3. ASSUME NEW i \in 1..(n + 1), r = Len(refs) + i
        PROVE  HeldBy(rq, r, g)
    <3>1. rq[r] = NewRef(f, new, i)
      BY <1>2, <2>3
    <3>2. i \in new /\ rq[r].pos = Loc(f, i - 1) /\ rq[r].idx = i - 1
      BY <1>5, <3>1 DEF NewRef
    <3>3. i \in 1..n /\ i - 1 + 1 = i /\ i - 1 \in Int
      BY <3>2
    <3>4. g.lref[i] = r /\ r \in g.lrefl
      BY <1>3, <2>3, <3>2, <3>3 DEF NewLrefl
    <3>5. Loc(g, i - 1) = Loc(f, i - 1)
      BY DEF Loc
    <3> QED
      BY <1>3, <3>2, <3>3, <3>4, <3>5 DEF HeldBy
  <2> QED
    BY <1>4, <2>1, <2>2, <2>3
<1> QED
  BY <1>5 DEF RefsHeld

\* What a new procedure captures is there.
LEMMA CapturedIs ==
  ASSUME NEW f, NEW n \in Nat, f.lref \in [1..n -> 0..Len(refs)], Len(f.lref) = n,
         Len(refs) \in Nat, NEW defs, NEW new, new = NewLocals(f, defs),
         NEW m \in Nat, procs[f.proc].closure \in [1..m -> 1..Len(refs)],
         NEW i \in DOMAIN defs, defs[i].cidx \in Int,
         defs[i].local => defs[i].cidx \in 0..(n - 1)
  PROVE  CapturedRef(f, NewLref(f, new), defs[i]) \in 1..(Len(refs) + (n + 1))
<1> DEFINE d == defs[i]
           c == procs[f.proc].closure
           top == Len(refs) + (n + 1)
<1>1. Len(c) = m
  <2> DEFINE S == 1..Len(refs)
  <2>1. c \in [1..m -> S]
    OBVIOUS
  <2> HIDE DEF S, c
  <2> QED
    BY <2>1, FunctionSeq
<1>2. CASE d.local
  <2>1. d.cidx + 1 \in 1..n /\ d.cidx + 1 - 1 = d.cidx
    BY <1>2
  <2> DEFINE q == d.cidx + 1
  <2>2. q \in 1..n /\ q - 1 = d.cidx
    BY <2>1
  <2>3. CapturedRef(f, NewLref(f, new), d) = NewLref(f, new)[q]
    BY <1>2 DEF CapturedRef
  <2> HIDE DEF q
  <2>4. q \in new => NewLref(f, new)[q] = Len(refs) + q
    BY <2>2 DEF NewLref
  <2>5. q \notin new => NewLref(f, new)[q] = f.lref[q]
    BY <2>2 DEF NewLref
  <2>6. q \notin new => f.lref[q] # 0
    BY <1>2, <2>2 DEF NewLocals
  <2>7. f.lref[q] \in 0..Len(refs)
    BY <2>2
  <2>8. Len(refs) + q \in 1..top /\ \A x \in 0..Len(refs) : x # 0 => x \in 1..top
    BY <2>2
  <2> QED
    BY <2>3, <2>4, <2>5, <2>6, <2>7, <2>8
<1>3. CASE ~d.local /\ d.cidx \in 0..(m - 1)
  <2>1. CapturedRef(f, NewLref(f, new), d) = c[d.cidx + 1]
    BY <1>1, <1>3 DEF CapturedRef
  <2>2. d.cidx + 1 \in 1..m
    BY <1>3
  <2>3. c[d.cidx + 1] \in 1..Len(refs)
    BY <2>2
  <2>4. \A x \in 1..Len(refs) : x \in 1..top
    OBVIOUS
  <2> QED
    BY <2>1, <2>3, <2>4
<1>4. CASE ~d.local /\ d.cidx \notin 0..(m - 1)
  <2>1. CapturedRef(f, NewLref(f, new), d) = Len(refs) + n + 1
    BY <1>1, <1>4 DEF CapturedRef
  <2>2. Len(refs) + n + 1 = top /\ top \in 1..top
    OBVIOUS
  <2> QED
    BY <2>1, <2>2
<1> QED
  BY <1>2, <1>3, <1>4

\* The prototype that MAKE_PROC finds on the stack, and what it captures first.
MadeEnv == code[Top.pc - 1].a
MadeNew == NewLocals(Top, protos[MadeEnv].refs)
MadeTop ==
  WithRefs(WithPc(Top, Top.pc + 1 + Ins.a), NewLref(Top, MadeNew), NewLrefl(Top, MadeNew))
MadeProc ==
  [env |-> MadeEnv, entry |-> Top.pc + 1,
   closure |-> [i \in DOMAIN protos[MadeEnv].refs |->
                  CapturedRef(Top, NewLref(Top, MadeNew), protos[MadeEnv].refs[i])]]

LEMMA MadeVerified ==
  ASSUME NEW at, NEW tails, RunInv(at, tails), Running("MAKE_PROC")
  PROVE  /\ RunsCode(World(at, tails), Top, stk, bp)
         /\ TopValue = <<"proto", MadeEnv>>
         /\ at[Top.pc].h \in Nat /\ Len(stk) = Top.sp + at[Top.pc].h
         /\ Floor(at[Top.pc].open) \in Nat /\ at[Top.pc].h > Floor(at[Top.pc].open)
         /\ BodyAt(code, protos, at, Top.pc + 1, MadeEnv)
         /\ CapturesOf(protos, MadeEnv, protos[at[Top.pc].env])
         /\ Leads(code, at, Top.pc, Top.pc + 1 + Ins.a, at[Top.pc].h, at[Top.pc].open)
<1> DEFINE W == World(at, tails)
           k == Top.pc
<1>1. Alive /\ Ins.op = "MAKE_PROC"
  BY DEF Running
<1>2. Ready(at, tails) /\ Verifies(code, protos, at, tails, k)
  BY <1>1, Fetch
<1>3. RunsCode(W, Top, stk, bp)
  BY <1>1, NotOut
<1>4. Len(stk) \in Nat
  BY <1>2, ReadyFacts
<1>5. W.code = code
  BY Worlds
<1>6. stk[Len(stk)] = <<"proto", code[k - 1].a>>
  BY <1>1, <1>3, <1>5 DEF RunsCode, OpAt, Ins
<1>7. at[k].h \in Nat /\ Len(stk) = Top.sp + at[k].h /\ Floor(at[k].open) \in Nat
  BY <1>1, <1>3, <1>4, HeightIs
<1>8. code[k].op = "MAKE_PROC"
  BY <1>1 DEF Ins
<1> HIDE DEF k
<1>9. /\ at[k].h > Floor(at[k].open)
      /\ BodyAt(code, protos, at, k + 1, code[k - 1].a)
      /\ CapturesOf(protos, code[k - 1].a, protos[at[k].env])
      /\ Leads(code, at, k, k + 1 + code[k].a, at[k].h, at[k].open)
  BY <1>2, <1>8 DEF Verifies
<1> QED
  BY <1>3, <1>6, <1>7, <1>9 DEF k, MadeEnv, TopValue, Ins

LEMMA MadeIs ==
  ASSUME NEW at, NEW tails, RunInv(at, tails), MakeProc
  PROVE  /\ Running("MAKE_PROC")
         /\ procs' = Append(procs, MadeProc)
         /\ refs' = MoreRefs(Top, MadeNew)
         /\ frames' = SetTop(MadeTop)
         /\ stk' = Put(stk, Len(stk), <<"p", Len(procs) + 1>>)
         /\ UNCHANGED <<loaded, bp, res>>
<1> DEFINE f == Top
           env == TopValue[2]
           defs == protos[env].refs
           new == NewLocals(f, defs)
           l == NewLref(f, new)
<1>1. Running("MAKE_PROC")
  BY ZenonT(30) DEF MakeProc
<1>2. env = MadeEnv
  <2>1. TopValue = <<"proto", MadeEnv>>
    BY <1>1, MadeVerified
  <2> QED
    BY <2>1
<1>3. CodeFrame(World(at, tails), f)
  BY <1>1, Fetch DEF Running
<1>4. IsFrame(f)
  BY <1>3 DEF CodeFrame
<1>5. new = {i \in 1..Len(f.lref) : f.lref[i] = 0 /\ \E j \in DOMAIN defs :
                                      defs[j].local /\ defs[j].cidx = i - 1}
  BY DEF NewLocals
<1>6. l = [i \in 1..Len(f.lref) |-> IF i \in new THEN Len(refs) + i ELSE f.lref[i]]
  BY SMTT(30) DEF NewLref
<1>7. procs' = Append(procs, [env |-> env, entry |-> f.pc + 1,
                 closure |-> [i \in DOMAIN defs |-> CapturedRef(f, l, defs[i])]])
  BY ZenonT(30) DEF MakeProc, CapturedRef, Ref, NewLref, NewLocals
<1>8. refs' = MoreRefs(f, new)
  BY <1>5, ZenonT(30) DEF MakeProc, MoreRefs, NewRef
<1>9. frames' = SetTop([f EXCEPT !.pc = @ + 1 + Ins.a, !.lref = l,
                                 !.lrefl = @ \cup {Len(refs) + i : i \in new}])
  BY <1>5, <1>6, ZenonT(30) DEF MakeProc
<1>10. stk' = Put(stk, Len(stk), <<"p", Len(procs) + 1>>) /\ UNCHANGED <<loaded, bp, res>>
  BY ZenonT(30) DEF MakeProc, Put
<1>11. new = MadeNew /\ l = NewLref(f, MadeNew)
  BY <1>2 DEF MadeNew
<1> HIDE DEF new, l
<1>12. [f EXCEPT !.pc = @ + 1 + Ins.a, !.lref = l,
                 !.lrefl = @ \cup {Len(refs) + i : i \in new}]
       = WithRefs(WithPc(f, f.pc + 1 + Ins.a), l, NewLrefl(f, new))
  BY <1>4 DEF IsFrame, WithRefs, WithPc, NewLrefl
<1>13. frames' = SetTop(MadeTop)
  BY <1>9, <1>11, <1>12 DEF MadeTop
<1>14. procs' = Append(procs, MadeProc)
  BY <1>2, <1>7, <1>11 DEF MadeProc
<1> QED
  BY <1>1, <1>8, <1>10, <1>11, <1>13, <1>14

\* The procedures, the new one among them, and what they capture.
LEMMA MadeProcs ==
  ASSUME NEW W, NEW V, Grows(W, V), ProcsMade(W),
         NEW p, V.procs = Append(W.procs, p),
         BodyAt(W.code, W.protos, W.at, p.entry, p.env),
         p.closure \in [DOMAIN W.protos[p.env].refs -> 1..V.nrefs]
  PROVE  ProcsMade(V)
<1>1. /\ V.code = W.code /\ V.protos = W.protos /\ V.at = W.at
      /\ W.nrefs \in Nat /\ V.nrefs \in Nat /\ W.nrefs <= V.nrefs
  BY DEF Grows
<1>2. IsSeq(W.procs) /\ Len(W.procs) > 0 /\ Len(W.procs) \in Nat
  BY DEF ProcsMade, IsSeq
<1>3. /\ IsSeq(V.procs) /\ Len(V.procs) = Len(W.procs) + 1
      /\ \A i \in 1..Len(W.procs) : V.procs[i] = W.procs[i]
      /\ V.procs[Len(W.procs) + 1] = p
  BY <1>2, AppendSeq
<1>4. ASSUME NEW i \in 1..Len(V.procs)
      PROVE  /\ V.procs[i].env \in DOMAIN V.protos
             /\ i > 1 => BodyAt(V.code, V.protos, V.at, V.procs[i].entry, V.procs[i].env)
             /\ V.procs[i].closure \in [DOMAIN V.protos[V.procs[i].env].refs -> 1..V.nrefs]
  <2>1. i \in 1..Len(W.procs) \/ i = Len(W.procs) + 1
    BY <1>2, <1>3
  <2>2. CASE i \in 1..Len(W.procs)
    <3>1. V.procs[i] = W.procs[i]
      BY <1>3, <2>2
    <3>2. /\ W.procs[i].env \in DOMAIN W.protos
          /\ i > 1 => BodyAt(W.code, W.protos, W.at, W.procs[i].entry, W.procs[i].env)
          /\ W.procs[i].closure \in [DOMAIN W.protos[W.procs[i].env].refs -> 1..W.nrefs]
      BY <2>2 DEF ProcsMade
    <3> DEFINE c == W.procs[i].closure
               D == DOMAIN W.protos[W.procs[i].env].refs
    <3>3. c \in [D -> 1..W.nrefs] /\ 1..W.nrefs \subseteq 1..V.nrefs
      BY <1>1, <3>2, SMTT(30)
    <3> HIDE DEF c, D
    <3>4. c \in [D -> 1..V.nrefs]
      BY <3>3
    <3> QED
      BY <1>1, <3>1, <3>2, <3>4 DEF c, D
  <2>3. CASE i = Len(W.procs) + 1
    BY <1>1, <1>3, <2>3 DEF BodyAt
  <2> QED
    BY <2>1, <2>2, <2>3
<1> QED
  BY <1>2, <1>3, <1>4 DEF ProcsMade

LEMMA MakeProcStep ==
  ASSUME NEW at, NEW tails, RunInv(at, tails), MakeProc
  PROVE  Goes(at, tails)'
<1> DEFINE W == World(at, tails)
           V == [code |-> code, protos |-> protos, at |-> at, tails |-> tails,
                 procs |-> procs', nrefs |-> Len(refs')]
           f == Top
           n == Lcount(W, f)
           k == Top.pc
           j == k + 1 + Ins.a
           h == at[k].h
           open == at[k].open
           defs == protos[MadeEnv].refs
           new == MadeNew
           g == WithPc(f, j)
           l == NewLref(f, new)
           m == NewLrefl(f, new)
           q == WithRefs(g, l, m)
           v == <<"p", Len(procs) + 1>>
           G == SetTop(g)
<1>1. /\ Running("MAKE_PROC") /\ Alive
      /\ procs' = Append(procs, MadeProc)
      /\ refs' = MoreRefs(Top, MadeNew)
      /\ frames' = SetTop(MadeTop)
      /\ stk' = Put(stk, Len(stk), v)
      /\ UNCHANGED <<loaded, bp, res>>
  BY MadeIs DEF Running
<1>2. /\ Ready(at, tails) /\ CodeFrame(W, f) /\ k \in DOMAIN at /\ k \in Nat
      /\ at[k].env = EnvOf(W, f) /\ at[k].env \in DOMAIN protos
      /\ f.sp \in Nat /\ f.sp >= 3
  BY <1>1, Fetch, Worlds DEF EnvOf
<1>3. /\ RunsCode(W, f, stk, bp)
      /\ h \in Nat /\ Len(stk) = f.sp + h
      /\ Floor(open) \in Nat /\ h > Floor(open)
      /\ BodyAt(code, protos, at, k + 1, MadeEnv)
      /\ CapturesOf(protos, MadeEnv, protos[at[k].env])
      /\ Leads(code, at, k, j, h, open)
  BY <1>1, MadeVerified
<1>4. /\ VerifiedBy(code, protos, at, tails) /\ Stacked(W, frames, stk, bp)
      /\ ProcsMade(W) /\ RefsMade(W, refs) /\ RefsHeld(refs, frames)
      /\ IsSeq(frames) /\ Len(frames) \in Nat \ {0} /\ IsSeq(stk) /\ Len(stk) \in Nat
      /\ IsSeq(refs) /\ Len(refs) \in Nat /\ IsSeq(procs) /\ Len(procs) \in Nat
      /\ SoundStack(W, stk)
  BY <1>2, ReadyFacts DEF Ready
<1>5. /\ W.code = code /\ W.protos = protos /\ W.at = at /\ W.tails = tails
      /\ W.procs = procs /\ W.nrefs = Len(refs)
  BY Worlds
<1>6. Len(procs) > 0
  BY <1>4, <1>5 DEF ProcsMade
<1>7. V = World(at, tails)'
  BY <1>1 DEF loaded, World
<1>8. /\ V.code = code /\ V.protos = protos /\ V.at = at /\ V.tails = tails
      /\ V.procs = procs' /\ V.nrefs = Len(refs')
  OBVIOUS
<1>9. f.lref \in [1..n -> 0..Len(refs)] /\ n \in Nat /\ f.cproc = "none" /\ IsFrame(f)
      /\ f.bp \in Nat /\ f.mark = "ret"
  BY <1>2, <1>3, <1>5 DEF CodeFrame, RunsCode
<1>10. n = protos[at[k].env].lcount
  BY <1>2, <1>5 DEF Lcount
<1>11. q = MadeTop /\ new = MadeNew
  BY DEF MadeTop
<1>12. f = frames[Len(frames)]
  BY DEF Top
<1>13. Open(W, f) = open /\ Open(V, f) = open
  BY <1>5, <1>8 DEF Open
<1>14. code[j].op # "MAKE_PROC"
  BY <1>1, <1>3 DEF Leads, Ins, Running
<1>15. new \subseteq 1..Len(f.lref) /\ (\A i \in new : f.lref[i] = 0)
       /\ new = NewLocals(f, defs)
  BY DEF MadeNew, NewLocals
<1>16. /\ g = WithPc(f, j) /\ q = WithRefs(g, l, m) /\ l = NewLref(f, new)
       /\ m = NewLrefl(f, new) /\ G = SetTop(g) /\ defs = protos[MadeEnv].refs
       /\ v[1] = "p" /\ v[2] = Len(procs) + 1
  OBVIOUS
<1> HIDE DEF W, V, f, n, k, j, h, open, defs, new, g, l, m, q, v, G
<1>17. Len(f.lref) = n
  <2> DEFINE S == 0..Len(refs)
             t == f.lref
  <2>1. t \in [1..n -> S]
    BY <1>9
  <2> HIDE DEF S, t
  <2>2. Len(t) = n
    BY <1>9, <2>1, FunctionSeq
  <2> QED
    BY <2>2 DEF t
<1>18. /\ IsSeq(refs') /\ Len(refs') = Len(refs) + (n + 1)
       /\ refs' = MoreRefs(f, new)
  <2>1. refs' = MoreRefs(f, new)
    BY <1>1, <1>11 DEF f
  <2>2. AreMore(MoreRefs(f, new), f, new, Len(f.lref))
    BY <1>4, <1>9, <1>17, MoreRefsAre
  <2> QED
    BY <1>17, <2>1, <2>2 DEF AreMore
<1>19. /\ IsSeq(procs') /\ Len(procs') = Len(procs) + 1
       /\ \A i \in 1..Len(procs) : procs'[i] = procs[i]
  BY <1>1, <1>4, AppendSeq
<1>20. Grows(W, V)
  BY <1>4, <1>5, <1>8, <1>9, <1>18, <1>19 DEF Grows
<1>21. Stacked(V, frames, stk, bp) /\ RunsCode(V, f, stk, bp)
  <2>1. Stacked(V, frames, stk, bp)
    BY <1>4, <1>20, GrowStacked
  <2>2. Runs(V, f, stk, bp)
    BY <1>12, <2>1 DEF Stacked
  <2>3. RunsCode(V, f, stk, bp)
    BY <1>9, <2>2 DEF Runs, RunsOut, RunsC, CFrame
  <2> QED
    BY <2>1, <2>3
<1>22. SoundStack(V, stk') /\ Len(stk') = Len(stk)
       /\ \A i \in 1..Len(stk) : i # Len(stk) => stk'[i] = stk[i]
  <2>1. Len(stk) \in 1..Len(stk)
    BY <1>2, <1>3, <1>4
  <2>2. /\ IsSeq(stk') /\ Len(stk') = Len(stk) /\ stk'[Len(stk)] = v
        /\ \A i \in 1..Len(stk) : i # Len(stk) => stk'[i] = stk[i]
    BY <1>1, <1>4, <2>1, PutIs
  <2>3. Sound(V, v)
    <3>1. v[2] \in 2..Len(procs') /\ v[1] # "cp"
      BY <1>4, <1>6, <1>16, <1>19
    <3> QED
      BY <1>8, <3>1 DEF Sound
  <2>4. SoundStack(V, stk)
    BY <1>21, StackedFacts
  <2> QED
    BY <2>2, <2>3, <2>4 DEF SoundStack
<1>23. Retop(frames, G, g) /\ Retop(frames, frames', q)
  <2>1. Len(frames) > 0 /\ G = [frames EXCEPT ![Len(frames)] = g]
    BY <1>4, <1>16 DEF SetTop
  <2>2. Len(frames) > 0 /\ frames' = [frames EXCEPT ![Len(frames)] = q]
    BY <1>1, <1>4, <1>11 DEF SetTop
  <2>3. Retop(frames, G, g)
    BY <1>4, <2>1, RetopOf
  <2>4. Retop(frames, frames', q)
    BY <1>4, <2>2, RetopOf
  <2> QED
    BY <2>3, <2>4
<1>24. Stacked(V, G, stk', bp)
  <2>1. Leads(V.code, V.at, f.pc, j, h, Open(V, f))
    BY <1>3, <1>8, <1>13 DEF f, k
  <2>2. h >= Floor(Open(V, f)) /\ Len(stk') = f.sp + h
    BY <1>3, <1>13, <1>22
  <2>3. Agree(stk, stk', f.sp + Floor(Open(V, f)))
    <3>1. \A i \in 1..(f.sp + Floor(open)) : i \in 1..Len(stk) /\ i # Len(stk)
      BY <1>2, <1>3
    <3> QED
      BY <1>13, <1>22, <3>1 DEF Agree
  <2>4. V.code[j].op = "MAKE_PROC" => stk'[Len(stk')] = <<"proto", V.code[j - 1].a>>
    BY <1>8, <1>14
  <2>5. f = frames[Len(frames)] /\ g = WithPc(f, j) /\ h \in Nat
    BY <1>3, <1>12, <1>16
  <2> QED
    BY <1>21, <1>22, <1>23, <2>1, <2>2, <2>3, <2>4, <2>5, Operate
<1>25. /\ g.bp = f.bp /\ g.lref = f.lref /\ g.cproc = "none" /\ g.proc = f.proc
       /\ q.bp = f.bp /\ q.lref = l /\ q.lrefl = m /\ q.cproc = "none"
  BY <1>9, <1>16 DEF IsFrame, WithPc, WithRefs
<1>26. Stacked(V, frames', stk', bp)
  <2>1. Lcount(V, g) = n
    <3>1. V.procs[f.proc] = W.procs[f.proc]
      BY <1>2, <1>20 DEF CodeFrame, Grows
    <3>2. EnvOf(V, g) = EnvOf(W, f)
      BY <1>25, <3>1 DEF EnvOf
    <3> QED
      BY <1>5, <1>8, <3>2 DEF Lcount, n
  <2>2. l \in [1..n -> 0..V.nrefs]
    <3>1. \A i \in 1..n : f.lref[i] \in 0..Len(refs)
      BY <1>9
    <3>2. ASSUME NEW i \in 1..n
          PROVE  (IF i \in new THEN Len(refs) + i ELSE f.lref[i]) \in 0..(Len(refs) + (n + 1))
      <4>1. Len(refs) + i \in 0..(Len(refs) + (n + 1))
            /\ \A x \in 0..Len(refs) : x \in 0..(Len(refs) + (n + 1))
        BY <1>4, <1>9
      <4> QED
        BY <3>1, <4>1
    <3>3. l = [i \in 1..n |-> IF i \in new THEN Len(refs) + i ELSE f.lref[i]]
      BY <1>16, <1>17 DEF NewLref
    <3>4. V.nrefs = Len(refs) + (n + 1)
      BY <1>8, <1>18
    <3> QED
      BY <3>2, <3>3, <3>4
  <2>3. g = G[Len(G)] /\ Retop(G, frames', q)
    BY <1>23, RetopTwice DEF Retop
  <2>4. CodeFrame(V, g)
    <3>1. Runs(V, g, stk', bp) /\ Len(stk') \in Nat
      BY <1>24, <2>3, StackedFacts
    <3> QED
      BY <1>25, <3>1, RunsFacts
  <2>5. l \in [1..Lcount(V, g) -> 0..V.nrefs]
    BY <2>1, <2>2
  <2> QED
    BY <1>16, <1>24, <2>3, <2>4, <2>5, OtherRefs
<1>27. RefsMade(V, refs')
  <2>1. V.nrefs = Len(refs) + (n + 1) /\ new \subseteq 1..n
    BY <1>8, <1>15, <1>17, <1>18
  <2> QED
    BY <1>4, <1>9, <1>17, <1>18, <1>20, <2>1, MoreRefsMade
<1>28. RefsHeld(refs', frames')
  <2>1. new \subseteq 1..n /\ \A i \in new : f.lref[i] = 0
    BY <1>15, <1>17
  <2>2. q.lref = NewLref(f, new) /\ q.lrefl = NewLrefl(f, new)
    BY <1>16, <1>25
  <2> QED
    BY <1>4, <1>9, <1>12, <1>17, <1>18, <1>23, <1>25, <2>1, <2>2, MoreRefsHeld, ZenonT(30)
<1>29. ProcsMade(V)
  <2> DEFINE p == MadeProc
             D == DOMAIN defs
             N == Len(refs) + (n + 1)
             c == procs[f.proc].closure
             d == Len(protos[EnvOf(W, f)].refs)
  <2>1. c \in [1..d -> 1..Len(refs)] /\ d \in Nat
    <3>1. f.proc \in 1..Len(procs)
      BY <1>2, <1>5 DEF CodeFrame
    <3>2. EnvOf(W, f) = procs[f.proc].env
      BY <1>5 DEF EnvOf
    <3>3. c \in [DOMAIN protos[EnvOf(W, f)].refs -> 1..Len(refs)]
      BY <1>4, <1>5, <3>1, <3>2 DEF ProcsMade
    <3>4. IsSeq(protos[EnvOf(W, f)].refs)
      BY <1>2, <1>4, Verified
    <3>5. DOMAIN protos[EnvOf(W, f)].refs = 1..d /\ d \in Nat
      BY <3>4 DEF IsSeq
    <3> QED
      BY <3>3, <3>5
  <2>2. \A i \in D : defs[i].cidx \in Int /\ (defs[i].local => defs[i].cidx \in 0..(n - 1))
    BY <1>3, <1>10, <1>16 DEF CapturesOf
  <2>3. ASSUME NEW i \in D
        PROVE  CapturedRef(f, l, defs[i]) \in 1..N
    <3>1. new = NewLocals(f, defs) /\ l = NewLref(f, new)
      BY <1>15, <1>16
    <3> HIDE DEF d
    <3> QED
      BY <1>4, <1>9, <1>17, <2>1, <2>2, <3>1, CapturedIs
  <2>4. /\ p.env = MadeEnv /\ p.entry = k + 1
        /\ p.closure = [i \in D |-> CapturedRef(f, l, defs[i])]
    BY <1>11, <1>16 DEF MadeProc, f, k
  <2> HIDE DEF p, N
  <2>5. p.closure \in [D -> 1..N]
    BY <2>3, <2>4
  <2>6. V.procs = Append(W.procs, p) /\ V.nrefs = N
    BY <1>1, <1>5, <1>8, <1>18 DEF p, N
  <2>7. BodyAt(W.code, W.protos, W.at, p.entry, p.env)
    BY <1>3, <1>5, <2>4
  <2>8. p.closure \in [DOMAIN W.protos[p.env].refs -> 1..V.nrefs]
    BY <1>5, <1>16, <2>4, <2>5, <2>6
  <2> QED
    BY <1>4, <1>20, <2>6, <2>7, <2>8, MadeProcs
<1>30. res' = Null /\ bp' = bp /\ UNCHANGED loaded
  BY <1>1 DEF Alive
<1> QED
  BY <1>4, <1>7, <1>26, <1>27, <1>28, <1>29, <1>30, GoesOn

-----------------------------------------------------------------------------
(* Calls.                                                                  *)

\* What the verifier says of the instructions of a call.
LEMMA CallVerified ==
  ASSUME NEW at, NEW tails, NEW k, Verifies(code, protos, at, tails, k)
  PROVE  /\ code[k].op = "SET_BP" =>
              Leads(code, at, k, k + 1, at[k].h + 2, Append(at[k].open, at[k].h))
         /\ code[k].op \in {"CALL", "TAIL_CALL"} =>
              /\ at[k].open # <<>> /\ at[k].h >= Innermost(at[k].open) + 3
              /\ Leads(code, at, k, k + 1, Innermost(at[k].open) + 1, Outer(at[k].open))
         /\ code[k].op = "TAIL_CALL" => k + 1 \in tails
         /\ code[k].op = "CHECK_ARG" => Leads(code, at, k, k + 1, 0, at[k].open)
         /\ code[k].op \in {"RET", "RET_IF_TRUE", "RET_IF_FALSE"} =>
              at[k].h = 1 /\ at[k].open = <<>>
         /\ code[k].op \in {"RET_IF_TRUE", "RET_IF_FALSE"} =>
              Leads(code, at, k, k + 1, 1, at[k].open)
BY DEF Verifies

\* One more call is prepared, at height h.
LEMMA PreparedMore ==
  ASSUME NEW f, NEW s, NEW h \in Nat, NEW open, Prepared(f, s, f.sp + h, open), f.sp \in Nat,
         NEW t, \A k \in 1..(f.sp + h) : t[k] = s[k],
         t[f.sp + h + 1] = <<"bp", BpOf(f, open)>>
  PROVE  Prepared(f, t, f.sp + h + 2, Append(open, h))
<1> DEFINE p == Append(open, h)
           n == Len(open)
<1>1. IsSeq(open) /\ n \in Nat
  BY DEF Prepared, IsSeq
<1>2. /\ IsSeq(p) /\ Len(p) = n + 1 /\ p[n + 1] = h
      /\ \A i \in 1..n : p[i] = open[i]
  BY <1>1, AppendSeq
<1>3. \A j \in 1..n :
        /\ open[j] \in Nat
        /\ \A i \in 1..(j - 1) : open[i] + 2 <= open[j]
        /\ f.sp + open[j] + 2 <= f.sp + h
        /\ s[f.sp + open[j] + 1] = <<"bp", IF j = 1 THEN f.bp ELSE f.sp + open[j - 1] + 1>>
  BY DEF Prepared
<1> HIDE DEF p
<1>4. ASSUME NEW j \in 1..(n + 1)
      PROVE  /\ p[j] \in Nat
             /\ \A i \in 1..(j - 1) : p[i] + 2 <= p[j]
             /\ f.sp + p[j] + 2 <= f.sp + h + 2
             /\ t[f.sp + p[j] + 1] =
                  <<"bp", IF j = 1 THEN f.bp ELSE f.sp + p[j - 1] + 1>>
  <2>1. j \in 1..n \/ j = n + 1
    BY <1>1
  <2>2. CASE j \in 1..n
    <3>1. p[j] = open[j] /\ \A i \in 1..(j - 1) : i \in 1..n /\ p[i] = open[i]
      BY <1>1, <1>2, <2>2
    <3>2. f.sp + open[j] + 1 \in 1..(f.sp + h) /\ f.sp + open[j] + 2 <= f.sp + h + 2
      BY <1>3, <2>2, SMTT(30)
    <3>3. t[f.sp + open[j] + 1] = s[f.sp + open[j] + 1]
      BY <3>2
    <3>4. j # 1 => j - 1 \in 1..(j - 1)
      BY <1>1, <2>2
    <3> QED
      BY <1>3, <2>2, <3>1, <3>2, <3>3, <3>4
  <2>3. CASE j = n + 1
    <3>1. p[j] = h
      BY <1>2, <2>3
    <3>2. ASSUME NEW i \in 1..(j - 1)
          PROVE  p[i] + 2 <= p[j]
      <4>1. i \in 1..n
        BY <1>1, <2>3
      <4>2. open[i] \in Nat /\ f.sp + open[i] + 2 <= f.sp + h
        BY <1>3, <4>1
      <4>3. open[i] + 2 <= h
        BY <4>2
      <4> QED
        BY <1>2, <3>1, <4>1, <4>3
    <3>3. BpOf(f, open) = IF j = 1 THEN f.bp ELSE f.sp + p[j - 1] + 1
      <4>1. open = <<>> <=> n = 0
        BY <1>1, EmptyIs
      <4>2. CASE n = 0
        BY <2>3, <4>1, <4>2 DEF BpOf
      <4>3. CASE n # 0
        <5>1. j # 1 /\ j - 1 = n /\ p[n] = open[n]
          BY <1>1, <1>2, <2>3, <4>3
        <5> QED
          BY <4>1, <4>3, <5>1 DEF BpOf, Innermost
      <4> QED
        BY <4>2, <4>3
    <3> QED
      BY <3>1, <3>2, <3>3
  <2> QED
    BY <2>1, <2>2, <2>3
<1> QED
  BY <1>2, <1>4 DEF Prepared, p

LEMMA SetBpStep ==
  ASSUME NEW at, NEW tails, RunInv(at, tails), SetBp
  PROVE  Goes(at, tails)'
<1> DEFINE W == World(at, tails)
           f == Top
           k == Top.pc
           h == at[k].h
           open == at[k].open
           j == k + 1
           g == WithPc(f, j)
           x == <<<<"bp", bp>>, Null>>
<1>1. /\ Alive /\ Ins.op = "SET_BP" /\ stk' = stk \o x /\ bp' = Len(stk) + 1
      /\ Goto(0) /\ UNCHANGED <<loaded, procs, refs, res>>
  BY DEF SetBp, Running
<1>2. /\ Ready(at, tails) /\ Verifies(code, protos, at, tails, k) /\ k \in Nat
      /\ CodeFrame(W, f) /\ at[k].env = EnvOf(W, f) /\ f.sp \in Nat
      /\ f.bp \in Nat \ {0} /\ f.bp + 2 <= f.sp
  BY <1>1, Fetch, Worlds DEF EnvOf
<1>3. RunsCode(W, f, stk, bp)
  BY <1>1, NotOut
<1>4. /\ IsSeq(stk) /\ Len(stk) \in Nat /\ SoundStack(W, stk)
      /\ IsSeq(frames) /\ Len(frames) \in Nat \ {0} /\ Callers(W, frames, stk)
  BY <1>2, ReadyFacts
<1>5. h \in Nat /\ Len(stk) = f.sp + h
  BY <1>1, <1>3, <1>4, HeightIs
<1>6. Leads(code, at, k, j, h + 2, Append(open, h))
  BY <1>1, <1>2, CallVerified DEF Ins
<1>7. /\ W.code = code /\ W.at = at /\ Open(W, f) = open
  BY Worlds DEF Open
<1>8. /\ j \in DOMAIN at /\ at[j] = At(at[k].env, h + 2, Append(open, h))
      /\ code[j].op # "CHECK_ARG" /\ code[j].op # "MAKE_PROC"
  BY <1>1, <1>6 DEF Leads, Ins
<1>9. at[j].env = EnvOf(W, f) /\ at[j].h = h + 2 /\ at[j].open = Append(open, h)
  BY <1>2, <1>8 DEF At
<1>10. frames' = SetTop(g)
  <2>1. Top.pc + 1 + 0 = j
    BY <1>2
  <2>2. frames' = SetTop([Top EXCEPT !.pc = Top.pc + 1 + 0])
    BY <1>1 DEF Goto
  <2> QED
    BY <2>1, <2>2 DEF WithPc
<1>11. SameHold(Top, g)
  BY <1>2 DEF CodeFrame, IsFrame, SameHold, WithPc
<1>12. g = WithPc(f, j) /\ f = frames[Len(frames)]
  BY DEF Top
<1>13. Prepared(f, stk, Len(stk), open) /\ bp = BpOf(f, open) /\ f.mark = "ret"
  BY <1>3, <1>7 DEF RunsCode
<1>14. IsSeq(x) /\ Len(x) = 2 /\ x[1] = <<"bp", bp>> /\ x[2] = Null
  BY TwoSeq
<1> HIDE DEF W, f, k, h, open, j, g, x
<1>15. /\ CodeFrame(W, g) /\ g.pc = j /\ g.sp = f.sp /\ g.bp = f.bp /\ g.mark = f.mark
       /\ Open(W, g) = Append(open, h) /\ Height(W, g) = h + 2
       /\ OpAt(W, g) = code[j].op /\ g.cproc = f.cproc
  BY <1>2, <1>7, <1>8, <1>9, <1>12, Moved
<1>16. /\ SoundStack(W, stk') /\ Len(stk') = Len(stk) + 2
       /\ \A i \in 1..Len(stk) : stk'[i] = stk[i]
       /\ stk'[Len(stk) + 1] = <<"bp", bp>>
  <2>1. \A i \in 1..Len(x) : Sound(W, x[i])
    <3>1. Sound(W, <<"bp", bp>>) /\ Sound(W, Null)
      BY DEF Sound, Null
    <3>2. \A i \in 1..2 : i = 1 \/ i = 2
      OBVIOUS
    <3> QED
      BY <1>14, <3>1, <3>2
  <2>2. SoundStack(W, stk) /\ IsSeq(x)
    BY <1>4, <1>14
  <2>3. SoundStack(W, stk \o x)
    BY <2>1, <2>2, ConcatSound
  <2>4. Len(stk \o x) = Len(stk) + Len(x)
    BY <2>1, <2>2, ConcatSound
  <2>5. \A i \in 1..Len(stk) : (stk \o x)[i] = stk[i]
    BY <2>1, <2>2, ConcatSound
  <2>6. \A i \in 1..Len(x) : (stk \o x)[Len(stk) + i] = x[i]
    BY <2>1, <2>2, ConcatSound
  <2>7. 1 \in 1..Len(x)
    BY <1>14
  <2>8. stk' = stk \o x
    BY <1>1
  <2>9. (stk \o x)[Len(stk) + 1] = x[1]
    BY <2>6, <2>7
  <2> QED
    BY <1>14, <2>3, <2>4, <2>5, <2>8, <2>9
<1>17. Prepared(g, stk', Len(stk'), Append(open, h))
  <2>1. Prepared(g, stk, f.sp + h, open)
    BY <1>5, <1>13, <1>15 DEF Prepared
  <2>2. Prepared(g, stk, g.sp + h, open) /\ g.sp \in Nat
    BY <1>2, <1>15, <2>1
  <2>3. \A i \in 1..(g.sp + h) : stk'[i] = stk[i]
    BY <1>5, <1>15, <1>16
  <2>4. BpOf(g, open) = bp
    BY <1>13, <1>15 DEF BpOf
  <2>5. stk'[g.sp + h + 1] = <<"bp", BpOf(g, open)>>
    BY <1>5, <1>15, <1>16, <2>4
  <2>6. Prepared(g, stk', g.sp + h + 2, Append(open, h))
    BY <1>5, <2>2, <2>3, <2>5, PreparedMore
  <2>7. g.sp + h + 2 = Len(stk')
    BY <1>5, <1>15, <1>16
  <2> QED
    BY <2>6, <2>7
<1>18. RunsCode(W, g, stk', bp')
  <2>1. Len(stk') = g.sp + (h + 2) /\ h + 2 \in Nat
    <3>1. g.sp = f.sp /\ f.sp \in Nat
      BY <1>2, <1>15
    <3>2. Len(stk') = Len(stk) + 2
      BY <1>16
    <3> QED
      BY <1>5, <3>1, <3>2
  <2>2. bp' = BpOf(g, Append(open, h))
    <3>1. IsSeq(open)
      BY <1>13 DEF Prepared
    <3>2. Len(Append(open, h)) = Len(open) + 1 /\ Append(open, h)[Len(open) + 1] = h
          /\ IsSeq(Append(open, h)) /\ Len(open) \in Nat
      BY <3>1, AppendSeq DEF IsSeq
    <3>3. Append(open, h) # <<>>
      BY <3>2, EmptyIs
    <3>4. Innermost(Append(open, h)) = h
      BY <3>2 DEF Innermost
    <3>5. BpOf(g, Append(open, h)) = g.sp + h + 1
      BY <3>3, <3>4 DEF BpOf
    <3> QED
      BY <1>1, <1>5, <1>15, <3>5
  <2> QED
    BY <1>8, <1>13, <1>15, <1>17, <2>1, <2>2 DEF RunsCode
<1>19. Retop(frames, frames', g) /\ RefsHeld(refs', frames')
  <2>1. OpenAs(refs, refs')
    BY <1>1 DEF OpenAs
  <2> QED
    BY <1>2, <1>10, <1>11, <2>1, KeepsRefs
<1>20. Callers(W, frames', stk')
  <2>1. \A i \in 1..g.bp : stk'[i] = stk[i]
    <3>1. g.bp = f.bp /\ f.bp \in Nat /\ f.bp + 2 <= f.sp /\ f.sp \in Nat
      BY <1>2, <1>15
    <3>2. \A i \in 1..g.bp : i \in 1..Len(stk)
      BY <1>5, <3>1
    <3>3. \A i \in 1..Len(stk) : stk'[i] = stk[i]
      BY <1>16
    <3> QED
      BY <3>2, <3>3
  <2>2. g.bp = frames[Len(frames)].bp /\ g.cproc = "none"
    BY <1>12, <1>15 DEF CodeFrame
  <2> QED
    BY <1>4, <1>19, <2>1, <2>2, TopChanges
<1>21. Stacked(W, frames', stk', bp')
  BY <1>16, <1>18, <1>19, <1>20 DEF Stacked, Runs, Retop
<1>22. RefsMade(W, refs') /\ Len(refs') = Len(refs)
  BY <1>1, <1>2, RefsStay DEF W
<1>23. res' = Null /\ UNCHANGED <<loaded, procs>>
  BY <1>1 DEF Alive
<1> QED
  BY <1>2, <1>19, <1>21, <1>22, <1>23, GoesOnSame DEF W

\* The innermost call has been prepared, and the caller is to go on behind it.
LEMMA PreparedLess ==
  ASSUME NEW f, NEW s, NEW lim, NEW open, Prepared(f, s, lim, open), open # <<>>,
         f.sp \in Nat
  PROVE  /\ Innermost(open) \in Nat /\ f.sp + Innermost(open) + 2 <= lim
         /\ Prepared(f, s, f.sp + Innermost(open), Outer(open))
         /\ s[f.sp + Innermost(open) + 1] = <<"bp", BpOf(f, Outer(open))>>
<1> DEFINE n == Len(open)
           p == Outer(open)
<1>1. IsSeq(open) /\ n \in Nat
  BY DEF Prepared, IsSeq
<1>2. n # 0
  BY <1>1, EmptyIs
<1>3. \A j \in 1..n :
        /\ open[j] \in Nat
        /\ \A i \in 1..(j - 1) : open[i] + 2 <= open[j]
        /\ f.sp + open[j] + 2 <= lim
        /\ s[f.sp + open[j] + 1] = <<"bp", IF j = 1 THEN f.bp ELSE f.sp + open[j - 1] + 1>>
  BY DEF Prepared
<1>4. n - 1 \in Nat /\ n - 1 <= n /\ n \in 1..n
  BY <1>1, <1>2
<1>5. IsSeq(p) /\ Len(p) = n - 1 /\ \A i \in 1..(n - 1) : p[i] = open[i]
  BY <1>1, <1>4, FirstSeq DEF Outer
<1>6. Innermost(open) = open[n]
  BY DEF Innermost
<1> HIDE DEF p
<1>7. ASSUME NEW j \in 1..(n - 1)
      PROVE  /\ p[j] \in Nat
             /\ \A i \in 1..(j - 1) : p[i] + 2 <= p[j]
             /\ f.sp + p[j] + 2 <= f.sp + open[n]
             /\ s[f.sp + p[j] + 1] =
                  <<"bp", IF j = 1 THEN f.bp ELSE f.sp + p[j - 1] + 1>>
  <2>1. j \in 1..n /\ p[j] = open[j] /\ \A i \in 1..(j - 1) : p[i] = open[i]
    BY <1>4, <1>5
  <2>2. open[j] + 2 <= open[n] /\ open[j] \in Nat /\ open[n] \in Nat
    BY <1>3, <1>4, <2>1
  <2>3. f.sp + open[j] + 2 <= f.sp + open[n]
    BY <2>2
  <2>4. j # 1 => j - 1 \in 1..(j - 1)
    BY <1>4
  <2> QED
    BY <1>3, <2>1, <2>3, <2>4
<1>8. Prepared(f, s, f.sp + open[n], p)
  BY <1>5, <1>7 DEF Prepared
<1>9. BpOf(f, p) = IF n = 1 THEN f.bp ELSE f.sp + open[n - 1] + 1
  <2>1. p = <<>> <=> n - 1 = 0
    BY <1>5, EmptyIs
  <2>2. CASE n = 1
    BY <2>1, <2>2 DEF BpOf
  <2>3. CASE n # 1
    <3>1. p # <<>>
      BY <1>1, <2>1, <2>3
    <3>2. Innermost(p) = open[n - 1]
      <4>1. \A x \in Nat : x # 0 /\ x # 1 => x - 1 \in 1..(x - 1)
        OBVIOUS
      <4> QED
        BY <1>1, <1>2, <1>5, <2>3, <4>1 DEF Innermost
    <3> QED
      BY <2>3, <3>1, <3>2 DEF BpOf
  <2> QED
    BY <2>2, <2>3
<1> QED
  BY <1>3, <1>4, <1>6, <1>8, <1>9 DEF p

\* The frame waits for the call it makes, of a value on the stack.
LEMMA CallIs ==
  ASSUME NEW at, NEW tails, RunInv(at, tails), Alive, Ins.op \in {"CALL", "TAIL_CALL"}
  PROVE  /\ bp \in Nat \ {0} /\ bp > Top.sp /\ bp + 2 <= Len(stk)
         /\ Sound(World(at, tails), Callee)
         /\ Waiting(World(at, tails), WithPc(Top, Top.pc + 1), stk, bp)
         /\ CodeFrame(World(at, tails), WithPc(Top, Top.pc + 1))
         /\ Ins.op = "TAIL_CALL" => Top.pc + 1 \in tails
<1> DEFINE W == World(at, tails)
           f == Top
           k == Top.pc
           h == at[k].h
           open == at[k].open
           j == k + 1
           g == WithPc(f, j)
           in == Innermost(open)
<1>1. /\ Ready(at, tails) /\ Verifies(code, protos, at, tails, k) /\ k \in Nat
      /\ CodeFrame(W, f) /\ at[k].env = EnvOf(W, f) /\ f.sp \in Nat /\ f.sp >= 3
  BY Fetch, Worlds DEF EnvOf
<1>2. RunsCode(W, f, stk, bp)
  BY NotOut
<1>3. IsSeq(stk) /\ Len(stk) \in Nat /\ SoundStack(W, stk)
  BY <1>1, ReadyFacts
<1>4. h \in Nat /\ Len(stk) = f.sp + h
  BY <1>2, <1>3, HeightIs
<1>5. /\ open # <<>> /\ h >= in + 3 /\ Leads(code, at, k, j, in + 1, Outer(open))
      /\ Ins.op = "TAIL_CALL" => j \in tails
  BY <1>1, CallVerified DEF Ins
<1>6. W.code = code /\ W.at = at /\ Open(W, f) = open
  BY Worlds DEF Open
<1>7. /\ j \in DOMAIN at /\ at[j] = At(at[k].env, in + 1, Outer(open))
      /\ code[j].op # "CHECK_ARG" /\ code[j].op # "MAKE_PROC"
  BY <1>5 DEF Leads, Ins
<1>8. at[j].env = EnvOf(W, f) /\ at[j].h = in + 1 /\ at[j].open = Outer(open)
  BY <1>1, <1>7 DEF At
<1>9. Prepared(f, stk, Len(stk), open) /\ bp = BpOf(f, open) /\ f.mark = "ret"
  BY <1>2, <1>6 DEF RunsCode
<1>10. g = WithPc(f, j)
  OBVIOUS
<1>11. bp = f.sp + in + 1
  BY <1>5, <1>9 DEF BpOf
<1> HIDE DEF W, f, k, h, open, j, g, in
<1>12. /\ CodeFrame(W, g) /\ g.sp = f.sp /\ g.bp = f.bp /\ g.mark = f.mark
       /\ Open(W, g) = Outer(open) /\ Height(W, g) = in + 1 /\ OpAt(W, g) = code[j].op
  BY <1>1, <1>6, <1>7, <1>8, <1>10, Moved
<1>13. /\ in \in Nat /\ Prepared(f, stk, f.sp + in, Outer(open))
       /\ stk[f.sp + in + 1] = <<"bp", BpOf(f, Outer(open))>>
  BY <1>1, <1>5, <1>9, PreparedLess DEF in
<1>14. /\ bp \in Nat \ {0} /\ bp > f.sp /\ bp + 2 <= Len(stk) /\ bp + 2 \in 4..Len(stk)
       /\ bp - 1 = f.sp + in
  <2>1. f.sp \in Nat /\ f.sp >= 3 /\ in \in Nat /\ h \in Nat /\ h >= in + 3
    BY <1>1, <1>4, <1>5, <1>13
  <2>2. \A x, y, z \in Nat : x >= 3 /\ z >= y + 3 =>
          /\ x + y + 1 \in Nat \ {0} /\ x + y + 1 > x /\ x + y + 1 + 2 <= x + z
          /\ x + y + 1 + 2 \in 4..(x + z) /\ x + y + 1 - 1 = x + y
    OBVIOUS
  <2> QED
    BY <1>4, <1>11, <2>1, <2>2, SMTT(30)
<1>15. Sound(W, Callee)
  BY <1>1, <1>14, CellSound DEF W, Callee
<1>16. WaitingCode(W, g, stk, bp)
  <2>1. Prepared(g, stk, bp - 1, Open(W, g))
    <3>1. Prepared(g, stk, f.sp + in, Outer(open))
      BY <1>12, <1>13 DEF Prepared
    <3> QED
      BY <1>12, <1>14, <3>1
  <2>2. stk[bp] = <<"bp", BpOf(g, Open(W, g))>>
    BY <1>11, <1>12, <1>13 DEF BpOf
  <2>3. Height(W, g) \in Nat \ {0} /\ bp = g.sp + Height(W, g)
    <3>1. f.sp \in Nat
      BY <1>1
    <3>2. in + 1 \in Nat \ {0} /\ f.sp + in + 1 = f.sp + (in + 1)
      BY <1>13, <3>1
    <3> QED
      BY <1>11, <1>12, <3>2
  <2> QED
    BY <1>7, <1>9, <1>12, <2>1, <2>2, <2>3 DEF WaitingCode
<1> QED
  BY <1>5, <1>12, <1>14, <1>15, <1>16 DEF Waiting, W, f, g, j, k

LEMMA ClosedNone ==
  ASSUME IsSeq(refs), NEW s
  PROVE  Closed({}, s) = refs
<1>1. DOMAIN refs = 1..Len(refs) /\ refs = [i \in 1..Len(refs) |-> refs[i]]
  BY DEF IsSeq
<1>2. Closed({}, s) = [r \in DOMAIN refs |-> refs[r]]
  BY DEF Closed
<1> QED
  BY <1>1, <1>2

\* A procedure that has been prepared is called.
LEMMA EnterGoes ==
  ASSUME NEW at, NEW tails, RunInv(at, tails), Alive, Ins.op \in {"CALL", "TAIL_CALL"},
         Callable(Callee), Enter
  PROVE  Goes(at, tails)'
<1> DEFINE W == World(at, tails)
           f == WithPc(Top, Top.pc + 1)
           F == SetTop(f)
           v == Callee
           rq == Closed({}, stk)
<1>1. Ready(at, tails) /\ CodeFrame(W, Top)
  BY Fetch
<1>2. /\ IsSeq(frames) /\ Len(frames) \in Nat \ {0} /\ Callers(W, frames, stk)
      /\ SoundStack(W, stk) /\ IsSeq(refs)
  BY <1>1, ReadyFacts
<1>3. /\ bp \in Nat \ {0} /\ bp + 2 <= Len(stk) /\ Sound(W, v)
      /\ Waiting(W, f, stk, bp) /\ CodeFrame(W, f)
  BY CallIs
<1>4. f.bp = Top.bp /\ f.cproc = "none" /\ SameHold(Top, f)
  BY <1>1 DEF CodeFrame, IsFrame, SameHold, WithPc
<1>5. CallObj(v, stk, bp, F, {})
  BY DEF Enter, WithPc
<1>6. OpenAs(refs, rq)
  <2>1. rq = refs
    BY <1>2, ClosedNone
  <2> QED
    BY <2>1 DEF OpenAs
<1> HIDE DEF rq, f
<1>7. RefsHeld(rq, F) /\ Retop(frames, F, f)
  BY <1>1, <1>4, <1>6, KeepsRefs
<1>8. f.bp = frames[Len(frames)].bp
  BY <1>4 DEF Top
<1>9. Callers(W, F, stk)
  BY <1>2, <1>4, <1>7, <1>8, TopChanges
<1>10. IsSeq(F) /\ F[Len(F)] = f
  BY <1>7 DEF Retop
<1> HIDE DEF W, F, v
<1>11. ASSUME NEW g, g.bp = bp
       PROVE  Callers(W, Append(F, g), stk)
  <2>1. Waiting(W, F[Len(F)], stk, g.bp)
    BY <1>3, <1>10, <1>11
  <2> QED
    BY <1>9, <2>1, AddFrame
<1>12. res = Null
  BY DEF Alive
<1>13. RefsHeld(Closed({}, stk), F)
  BY <1>7 DEF rq
<1>14. Callable(v)
  BY DEF v
<1> QED
  BY <1>1, <1>2, <1>3, <1>5, <1>10, <1>11, <1>12, <1>13, <1>14, CallGoes DEF W

LEMMA ErrGoes ==
  ASSUME NEW at, NEW tails, RunInv(at, tails), Alive, NEW t, Raise(Err(t))
  PROVE  Goes(at, tails)'
<1>1. Err(t)[1] = "err"
  BY DEF Err
<1>2. ~Caught /\ res = Null
  BY Fetch DEF Alive
<1> QED
  BY <1>1, <1>2, RaiseGoes

LEMMA CallStep ==
  ASSUME NEW at, NEW tails, RunInv(at, tails), Call
  PROVE  Goes(at, tails)'
<1>1. Alive /\ Ins.op \in {"CALL", "TAIL_CALL"}
  BY DEF Call, Running
<1>2. CASE ~Callable(Callee)
  BY <1>1, <1>2, ErrGoes DEF Call
<1>3. CASE Callable(Callee)
  BY <1>1, <1>3, EnterGoes DEF Call
<1> QED
  BY <1>2, <1>3

LEMMA TailCallStep ==
  ASSUME NEW at, NEW tails, RunInv(at, tails), TailCall
  PROVE  Goes(at, tails)'
<1>1. Alive /\ Ins.op = "TAIL_CALL" /\ Ins.op \in {"CALL", "TAIL_CALL"}
  BY DEF TailCall, Running
<1>2. CASE ~Callable(Callee)
  BY <1>1, <1>2, ErrGoes DEF TailCall
<1>3. CASE Callable(Callee) /\ Callee # <<"p", Top.proc>>
  BY <1>1, <1>3, EnterGoes DEF TailCall
<1>4. CASE Callable(Callee) /\ Callee = <<"p", Top.proc>>
  <2> DEFINE W == World(at, tails)
             f == WithPc(Top, Top.pc + 1)
             g == [f EXCEPT !.mark = "call"]
  <2>1. /\ frames' = SetTop([Top EXCEPT !.pc = @ + 1, !.mark = "call"])
        /\ stk' = stk /\ UNCHANGED <<loaded, bp, procs, refs, res>>
    BY <1>4 DEF TailCall, Only
  <2>2. /\ Ready(at, tails) /\ CodeFrame(W, Top)
    BY <1>1, Fetch
  <2>3. /\ bp \in Nat \ {0} /\ bp > Top.sp /\ bp + 2 <= Len(stk) /\ CodeFrame(W, f)
        /\ Top.pc + 1 \in tails
    BY <1>1, CallIs
  <2>4. /\ f.bp = Top.bp /\ f.cproc = "none" /\ SameHold(Top, f) /\ f.sp = Top.sp
        /\ f.proc = Top.proc /\ f.pc = Top.pc + 1 /\ IsFrame(f)
    BY <2>2 DEF CodeFrame, IsFrame, SameHold, WithPc
  <2>5. frames' = SetTop(g)
    BY <2>1, <2>2 DEF CodeFrame, IsFrame, WithPc
  <2> HIDE DEF f
  <2>6. /\ g.bp = f.bp /\ g.cproc = f.cproc /\ g.sp = f.sp /\ g.proc = f.proc
        /\ g.pc = f.pc /\ g.lref = f.lref /\ g.lrefl = f.lrefl /\ g.mark = "call"
        /\ IsFrame(g)
    BY <2>4 DEF IsFrame
  <2> HIDE DEF g
  <2>7. CodeFrame(W, g)
    <3>1. EnvOf(W, g) = EnvOf(W, f)
      BY <2>6 DEF EnvOf
    <3>2. Lcount(W, g) = Lcount(W, f)
      BY <3>1 DEF Lcount
    <3> QED
      BY <2>3, <2>6, <3>1, <3>2 DEF CodeFrame
  <2>8. RunsOut(W, g, stk, bp)
    <3>1. stk[bp + 2] = <<"p", g.proc>>
      BY <1>4, <2>4, <2>6 DEF Callee
    <3>2. g.pc \in W.tails /\ bp > g.sp
      BY <2>3, <2>4, <2>6, Worlds
    <3> QED
      BY <2>3, <2>6, <2>7, <3>1, <3>2 DEF RunsOut
  <2>9. SameHold(Top, g) /\ g.bp = frames[Len(frames)].bp /\ g.cproc = "none"
    BY <2>4, <2>6 DEF SameHold, Top
  <2>10. RefsMade(W, refs') /\ Len(refs') = Len(refs) /\ OpenAs(refs, refs')
    BY <2>1, <2>2, RefsStay
  <2>11. RefsHeld(refs', frames') /\ Retop(frames, frames', g)
    BY <2>2, <2>5, <2>9, <2>10, KeepsRefs
  <2>12. Callers(W, frames, stk) /\ SoundStack(W, stk)
    BY <2>2, ReadyFacts
  <2>13. Callers(W, frames', stk)
    BY <2>9, <2>11, <2>12, TopChanges
  <2>14. frames'[Len(frames')] = g
    BY <2>11 DEF Retop
  <2>15. Stacked(W, frames', stk', bp')
    BY <2>1, <2>8, <2>12, <2>13, <2>14 DEF Stacked, Runs
  <2>16. res' = Null /\ UNCHANGED <<loaded, procs>>
    BY <1>1, <2>1 DEF Alive
  <2> QED
    BY <2>2, <2>10, <2>11, <2>15, <2>16, GoesOnSame
<1> QED
  BY <1>2, <1>3, <1>4

LEMMA CheckArgStep ==
  ASSUME NEW at, NEW tails, RunInv(at, tails), CheckArg
  PROVE  Goes(at, tails)'
<1> DEFINE W == World(at, tails)
           f == Top
           j == Top.pc + 1
           g == WithPc(f, j)
<1>1. Alive /\ Ins.op = "CHECK_ARG"
  BY DEF CheckArg, Running
<1>2. CASE f.args # Ins.a
  BY <1>1, <1>2, ErrGoes DEF CheckArg
<1>3. CASE f.args = Ins.a
  <2>1. stk' = stk /\ UNCHANGED <<loaded, bp, procs, refs, res>> /\ Goto(0)
    BY <1>3 DEF CheckArg, Only
  <2>2. /\ Ready(at, tails) /\ CodeFrame(W, f) /\ Verifies(code, protos, at, tails, f.pc)
        /\ f.pc \in Nat /\ f.sp \in Nat
    BY <1>1, Fetch
  <2>3. RunsCode(W, f, stk, bp)
    BY <1>1, NotOut
  <2>4. /\ IsSeq(frames) /\ Len(frames) \in Nat \ {0} /\ SoundStack(W, stk)
        /\ Stacked(W, frames, stk, bp)
    BY <2>2, ReadyFacts DEF Ready
  <2>5. W.code = code /\ W.at = at
    BY Worlds
  <2>6. BeforeCheck(W, f, stk)
    BY <1>1, <2>3, <2>5 DEF RunsCode, OpAt, Ins
  <2>7. at[f.pc].open = <<>> /\ f.args \in 0..Lcount(W, f)
    BY <1>3, <2>5, <2>6 DEF BeforeCheck, At, Ins
  <2>8. Len(stk) = f.sp
    <3>1. Lcount(W, f) \in Nat
      BY <2>2 DEF CodeFrame
    <3>2. ~(f.args > Lcount(W, f))
      BY <2>7, <3>1
    <3> QED
      BY <2>6, <3>2 DEF BeforeCheck
  <2>9. Leads(code, at, f.pc, j, 0, at[f.pc].open)
    BY <1>1, <2>2, CallVerified DEF Ins
  <2>10. code[j].op # "MAKE_PROC"
    BY <1>1, <2>9 DEF Leads, Ins
  <2>11. Open(W, f) = <<>> /\ Floor(Open(W, f)) = 0
    BY <2>5, <2>7 DEF Open, Floor
  <2>12. frames' = SetTop(g)
    <3>1. f.pc + 1 + 0 = j
      BY <2>2
    <3> QED
      BY <2>1, <3>1 DEF Goto, WithPc
  <2>13. SameHold(f, g)
    BY <2>2 DEF CodeFrame, IsFrame, SameHold, WithPc
  <2>14. g = WithPc(f, j) /\ f = frames[Len(frames)]
    BY DEF Top
  <2>15. RefsMade(W, refs') /\ Len(refs') = Len(refs) /\ OpenAs(refs, refs')
    BY <2>1, <2>2, RefsStay
  <2>16. RefsHeld(refs', frames') /\ Retop(frames, frames', g)
    BY <2>2, <2>12, <2>13, <2>15, KeepsRefs
  <2>17. Leads(W.code, W.at, f.pc, j, 0, Open(W, f))
    BY <2>5, <2>9 DEF Open
  <2> HIDE DEF W, f, j, g
  <2>18. Agree(stk, stk, f.sp + Floor(Open(W, f)))
    BY DEF Agree
  <2>19. W.code[j].op = "MAKE_PROC" => stk[Len(stk)] = <<"proto", W.code[j - 1].a>>
    BY <2>5, <2>10
  <2>20. 0 >= Floor(Open(W, f)) /\ Len(stk) = f.sp + 0
    BY <2>2, <2>8, <2>11
  <2>21. Stacked(W, frames', stk, bp)
    BY <2>3, <2>4, <2>14, <2>16, <2>17, <2>18, <2>19, <2>20, Operate
  <2>22. res' = Null
    BY <1>1, <2>1 DEF Alive
  <2> QED
    BY <2>1, <2>2, <2>15, <2>16, <2>21, <2>22, GoesOnSame DEF W
<1> QED
  BY <1>2, <1>3

LEMMA PassByStep ==
  ASSUME NEW at, NEW tails, RunInv(at, tails), PassBy
  PROVE  Goes(at, tails)'
<1> DEFINE j == Top.pc + 1
           g == WithPc(Top, j)
<1>1. /\ Alive /\ Ins.op \in {"RET_IF_TRUE", "RET_IF_FALSE"} /\ Goto(0)
      /\ stk' = stk /\ UNCHANGED <<loaded, bp, procs, refs, res>>
  BY DEF PassBy, Only
<1>2. Ready(at, tails) /\ Verifies(code, protos, at, tails, Top.pc) /\ Top.pc \in Nat
      /\ CodeFrame(World(at, tails), Top)
  BY <1>1, Fetch
<1>3. Leads(code, at, Top.pc, j, at[Top.pc].h, at[Top.pc].open)
  BY <1>1, <1>2, CallVerified DEF Ins
<1>4. Top.mark # "call"
  BY <1>1, NotOut
<1>5. frames' = SetTop(g)
  <2>1. Top.pc + 1 + 0 = j
    BY <1>2
  <2> QED
    BY <1>1, <2>1 DEF Goto, WithPc
<1>6. SameHold(Top, g)
  BY <1>2 DEF CodeFrame, IsFrame, SameHold, WithPc
<1>7. Ins.op \notin {"CHECK_ARG", "LOAD_PROTO"}
  BY <1>1
<1> HIDE DEF j
<1>8. g = WithPc(Top, j)
  OBVIOUS
<1> HIDE DEF g
<1>9. Stacked(World(at, tails), frames', stk, bp)
  BY <1>1, <1>3, <1>4, <1>5, <1>7, <1>8, Advance
<1>10. RefsMade(World(at, tails), refs') /\ Len(refs') = Len(refs) /\ OpenAs(refs, refs')
  BY <1>1, <1>2, RefsStay
<1>11. RefsHeld(refs', frames')
  BY <1>2, <1>5, <1>6, <1>10, KeepsRefs
<1>12. res' = Null
  BY <1>1 DEF Alive
<1> QED
  BY <1>1, <1>2, <1>9, <1>10, <1>11, <1>12, GoesOnSame

\* When a procedure returns, its value lies alone above its variables.
LEMMA ReturnIs ==
  ASSUME NEW at, NEW tails, RunInv(at, tails), Return
  PROVE  /\ Alive /\ Ready(at, tails) /\ Len(stk) = Top.sp + 1
         /\ Sound(World(at, tails), TopValue)
         /\ stk' = Append(SubSeq(stk, 1, Top.bp - 1), TopValue)
         /\ bp' = stk[Top.bp][2] /\ refs' = Closed(Top.lrefl, stk)
         /\ frames' = SubSeq(frames, 1, Len(frames) - 1)
         /\ res' = IF Len(frames) = 1 THEN <<"value", TopValue>> ELSE Null
         /\ UNCHANGED <<loaded, procs>>
<1>1. Alive /\ Ins.op \in {"RET", "RET_IF_TRUE", "RET_IF_FALSE"} /\ Top.mark = "ret"
  BY DEF Return, Leaves
<1>2. Ready(at, tails) /\ Verifies(code, protos, at, tails, Top.pc)
  BY <1>1, Fetch
<1>3. RunsCode(World(at, tails), Top, stk, bp)
  BY <1>1, NotOut
<1>4. at[Top.pc].h = 1
  BY <1>1, <1>2, CallVerified DEF Ins
<1>5. Len(stk) \in Nat
  BY <1>2, ReadyFacts
<1>6. Len(stk) = Top.sp + 1
  BY <1>1, <1>3, <1>4, <1>5, HeightIs
<1>7. Sound(World(at, tails), TopValue)
  BY <1>1, <1>3, <1>4, TopSound
<1> QED
  BY <1>1, <1>2, <1>6, <1>7 DEF Return

\* The frame at m goes on with v when the one above it is left.
LEMMA ResumeGoes ==
  ASSUME NEW at, NEW tails, Ready(at, tails),
         NEW m \in 1..Len(frames), m = Len(frames) - 1,
         NEW v, Sound(World(at, tails), v),
         stk' = Append(SubSeq(stk, 1, Top.bp - 1), v), bp' = stk[Top.bp][2],
         NEW gone, Top.cproc # "none" \/ Top.lrefl \subseteq gone,
         refs' = Closed(gone, stk),
         frames' = SubSeq(frames, 1, m), res' = Null, UNCHANGED <<loaded, procs>>
  PROVE  Goes(at, tails)'
<1> DEFINE W == World(at, tails)
           n == Len(frames)
<1>1. /\ n \in Nat \ {0} /\ SoundStack(W, stk) /\ Callers(W, frames, stk)
      /\ Stacked(W, frames, stk, bp)
  BY ReadyFacts DEF Ready
<1>2. m + 1 = n /\ m < n /\ n \in 1..n /\ n - 1 = m
  BY <1>1
<1>3. Top = frames[m + 1]
  BY <1>2 DEF Top
<1>4. Top.bp <= Len(stk)
  <2>1. Top.bp \in Nat /\ EndOf(Top) \in Nat /\ Top.bp <= EndOf(Top) /\ EndOf(Top) <= Len(stk)
    BY <1>1, <1>2, FrameIs DEF Top
  <2>2. Len(stk) \in Nat
    BY ReadyFacts
  <2> QED
    BY <2>1, <2>2
<1>5. \A i \in 1..Len(frames) : i >= n => frames[i].cproc # "none" \/ frames[i].lrefl \subseteq gone
  <2>1. \A i \in 1..n : i >= n => i = n
    BY <1>1
  <2> QED
    BY <2>1 DEF Top
<1>6. /\ RefsHeld(refs', SubSeq(frames, 1, n - 1))
      /\ RefsMade(W, refs') /\ Len(refs') = Len(refs)
  BY <1>2, <1>5, HeldBelow
<1> HIDE DEF W, n
<1>7. Stacked(W, SubSeq(frames, 1, m), Append(SubSeq(stk, 1, frames[m + 1].bp - 1), v),
              stk[frames[m + 1].bp][2])
  BY <1>1, <1>2, <1>3, <1>4, Resume DEF W, n
<1> QED
  BY <1>2, <1>3, <1>6, <1>7, GoesOnSame DEF W

LEMMA ReturnStep ==
  ASSUME NEW at, NEW tails, RunInv(at, tails), Return
  PROVE  Goes(at, tails)'
<1>1. /\ Alive /\ Ready(at, tails) /\ Sound(World(at, tails), TopValue)
      /\ stk' = Append(SubSeq(stk, 1, Top.bp - 1), TopValue)
      /\ bp' = stk[Top.bp][2] /\ refs' = Closed(Top.lrefl, stk)
      /\ frames' = SubSeq(frames, 1, Len(frames) - 1)
      /\ res' = IF Len(frames) = 1 THEN <<"value", TopValue>> ELSE Null
      /\ UNCHANGED <<loaded, procs>>
  BY ReturnIs
<1>2. Len(frames) \in Nat \ {0} /\ IsSeq(refs) /\ IsSeq(frames)
  BY <1>1, ReadyFacts
<1>3. CASE Len(frames) = 1
  <2>1. res' \notin {Null, Abort}
    BY <1>1, <1>3 DEF Null, Abort
  <2>2. RefsHeld(refs', SubSeq(frames, 1, 1 - 1)) /\ Len(refs') = Len(refs)
    <3>1. 1 \in 1..Len(frames)
      BY <1>2
    <3>2. \A i \in 1..Len(frames) : i >= 1 =>
            frames[i].cproc # "none" \/ frames[i].lrefl \subseteq Top.lrefl
      BY <1>3 DEF Top
    <3> QED
      BY <1>1, <3>1, <3>2, HeldBelow
  <2>3. Len(SubSeq(frames, 1, 1 - 1)) = 0
    BY <1>2, SubSeqSeq
  <2>4. \A r \in 1..Len(refs) : refs'[r].pos = 0
    BY <2>2, <2>3 DEF RefsHeld
  <2>5. DOMAIN refs' = 1..Len(refs)
    <3>1. IsSeq(refs')
      BY <1>1, <1>2, ClosedFacts
    <3> QED
      BY <2>2, <3>1 DEF IsSeq
  <2>6. OpenRefsAreLive'
    BY <2>4, <2>5 DEF OpenRefsAreLive
  <2> QED
    BY <2>1, <2>6 DEF Goes
<1>4. CASE Len(frames) # 1
  <2> DEFINE m == Len(frames) - 1
  <2>1. m \in 1..Len(frames) /\ m = Len(frames) - 1
    <3>1. \A n \in Nat \ {0} : n # 1 => n - 1 \in 1..n
      OBVIOUS
    <3> QED
      BY <1>2, <1>4, <3>1
  <2> HIDE DEF m
  <2>2. res' = Null /\ frames' = SubSeq(frames, 1, m)
    BY <1>1, <1>4, <2>1
  <2> QED
    BY <1>1, <2>1, <2>2, ResumeGoes
<1> QED
  BY <1>3, <1>4

\* What a procedure that starts again has on the stack: the procedure itself and
\* its new arguments, over the old ones.
Again == SubSeq(stk, 1, Top.bp + 1) \o SubSeq(stk, bp + 2, Len(stk))

LEMMA AgainIs ==
  ASSUME NEW at, NEW tails, Ready(at, tails),
         RunsOut(World(at, tails), Top, stk, bp), Top.sp \in Nat, Top.sp >= 3,
         Top.bp \in Nat \ {0}, Top.bp + 2 <= Top.sp
  PROVE  /\ SoundStack(World(at, tails), Again) /\ Top.bp + 2 <= Len(Again)
         /\ \A k \in 1..Top.bp : Again[k] = stk[k]
         /\ Sound(World(at, tails), <<"p", Top.proc>>)
<1> DEFINE W == World(at, tails)
           b == Top.bp
           p == SubSeq(stk, 1, b + 1)
           t == SubSeq(stk, bp + 2, Len(stk))
<1>1. IsSeq(stk) /\ Len(stk) \in Nat /\ SoundStack(W, stk)
  BY ReadyFacts
<1>2. bp \in Nat /\ bp > Top.sp /\ bp + 2 <= Len(stk) /\ stk[bp + 2] = <<"p", Top.proc>>
  BY DEF RunsOut
<1>3. b + 1 \in Nat /\ b + 1 <= Len(stk) /\ bp + 2 \in Nat \ {0} /\ bp + 2 \in 4..Len(stk)
      /\ bp + 2 <= Len(stk) + 1
  BY <1>1, <1>2
<1>4. SoundStack(W, p)
  BY <1>1, <1>3, PrefixSound
<1>5. Len(p) = b + 1 /\ \A k \in 1..b : k \in 1..Len(p) /\ p[k] = stk[k]
  <2>1. IsSeq(p) /\ Len(p) = b + 1 /\ \A i \in 1..(b + 1) : p[i] = stk[i]
    BY <1>1, <1>3, FirstSeq
  <2> QED
    BY <2>1
<1>6. IsSeq(t) /\ Len(t) = Len(stk) - (bp + 1)
      /\ \A i \in 1..Len(t) : t[i] = stk[(bp + 1) + i]
  <2>1. IsSeq(t) /\ Len(t) = Len(stk) - (bp + 2) + 1
        /\ \A i \in 1..(Len(stk) - (bp + 2) + 1) : t[i] = stk[(bp + 2) + i - 1]
    BY <1>1, <1>3, SubSeqSeq, SMTT(30)
  <2>2. Len(t) = Len(stk) - (bp + 1)
    BY <1>1, <1>2, <2>1
  <2>3. \A i \in Nat : (bp + 2) + i - 1 = (bp + 1) + i
    BY <1>2
  <2> DEFINE q == Len(stk) - (bp + 2) + 1
  <2>4. IsSeq(t) /\ Len(t) = q /\ \A i \in 1..q : t[i] = stk[(bp + 2) + i - 1]
    BY <2>1
  <2> HIDE DEF t, q
  <2>5. \A i \in 1..Len(t) : i \in Nat /\ t[i] = stk[(bp + 2) + i - 1]
    BY <2>4
  <2> QED
    BY <2>2, <2>3, <2>4, <2>5
<1>7. ASSUME NEW i \in 1..Len(t)
      PROVE  Sound(W, t[i])
  <2>1. (bp + 1) + i \in 4..Len(stk)
    <3> HIDE DEF t
    <3> QED
      BY <1>1, <1>2, <1>6, <1>7
  <2>2. Sound(W, stk[(bp + 1) + i])
    BY <2>1, CellSound
  <2> QED
    BY <1>6, <2>2
<1>8. Sound(W, <<"p", Top.proc>>)
  BY <1>2, <1>3, CellSound
<1> HIDE DEF W, p, t
<1>9. SoundStack(W, p \o t) /\ Len(p \o t) = Len(p) + Len(t)
      /\ \A i \in 1..Len(p) : (p \o t)[i] = p[i]
  <2>1. SoundStack(W, p \o t)
    BY <1>4, <1>6, <1>7, ConcatSound
  <2>2. Len(p \o t) = Len(p) + Len(t)
    <3>1. IsSeq(p) /\ IsSeq(t)
      BY <1>4, <1>6 DEF SoundStack
    <3> QED
      BY <3>1, ConcatSeq
  <2>3. \A i \in 1..Len(p) : (p \o t)[i] = p[i]
    BY <1>4, <1>6, <1>7, ConcatSound
  <2> QED
    BY <2>1, <2>2, <2>3
<1>10. Again = p \o t
  BY DEF Again, p, t
<1>11. b + 2 <= Len(Again)
  <2>1. \A x, y \in Nat : x + 2 <= y => y - (x + 1) >= 1
    OBVIOUS
  <2>2. Len(t) \in Int /\ Len(t) >= 1
    BY <1>1, <1>2, <1>6, <2>1
  <2> QED
    BY <1>5, <1>9, <1>10, <2>2
<1>12. \A k \in 1..b : Again[k] = stk[k]
  BY <1>5, <1>9, <1>10
<1> QED
  BY <1>8, <1>9, <1>10, <1>11, <1>12 DEF W

LEMMA RestartStep ==
  ASSUME NEW at, NEW tails, RunInv(at, tails), Restart
  PROVE  Goes(at, tails)'
<1> DEFINE W == World(at, tails)
           s == Again
           b == Top.bp
           f == FrameAt(s, b, Top.proc, procs[Top.proc].entry)
           v == <<"p", Top.proc>>
           rq == Closed(Top.lrefl, stk)
           n == Len(frames)
           G == SetTop(f)
<1>1. /\ Alive /\ Top.mark = "call"
      /\ refs' = rq /\ stk' = Pad(s, f.sp) /\ bp' = b /\ frames' = G
      /\ UNCHANGED <<loaded, procs, res>>
  BY DEF Restart, Again
<1>2. /\ Ready(at, tails) /\ Top.sp \in Nat /\ Top.sp >= 3
      /\ b \in Nat \ {0} /\ b + 2 <= Top.sp
  BY <1>1, Fetch
<1>3. RunsOut(W, Top, stk, bp)
  BY <1>1, OutVerified
<1>4. SoundStack(W, s) /\ b + 2 <= Len(s) /\ (\A k \in 1..b : s[k] = stk[k]) /\ Sound(W, v)
  BY <1>2, <1>3, AgainIs
<1>5. IsSeq(s)
  BY <1>4 DEF SoundStack
<1>6. /\ VerifiedBy(code, protos, at, tails) /\ ProcsMade(W) /\ Len(refs) \in Nat
  BY <1>2, ReadyFacts DEF Ready
<1>7. v[1] = "p" /\ f = FrameAt(s, b, v[2], procs[v[2]].entry)
  OBVIOUS
<1>8. /\ IsSeq(frames) /\ n \in Nat \ {0} /\ Callers(W, frames, stk)
  BY <1>2, ReadyFacts
<1> HIDE DEF W, s, f, v
<1>9. /\ Runs(W, f, Pad(s, f.sp), b) /\ f.bp = b /\ f.sp \in Nat /\ f.cproc = "none"
  BY <1>2, <1>4, <1>5, <1>6, <1>7, NewRuns DEF W
<1>10. Retop(frames, G, f)
  <2>1. n > 0 /\ G = [frames EXCEPT ![n] = f]
    BY <1>8 DEF SetTop
  <2> QED
    BY <1>8, <2>1, RetopOf
<1>11. G[Len(G)] = f /\ Len(G) = n /\ \A i \in 1..(n - 1) : G[i] = frames[i]
  BY <1>10 DEF Retop
<1>12. f.bp = frames[Len(frames)].bp
  BY <1>9 DEF Top
<1>13. Callers(W, G, s)
  BY <1>4, <1>8, <1>9, <1>10, <1>12, TopChanges
<1>14. Stacked(W, G, Pad(s, f.sp), b)
  BY <1>2, <1>4, <1>9, <1>11, <1>13, Entered
<1>15. /\ RefsHeld(rq, SubSeq(frames, 1, n - 1))
       /\ RefsMade(W, rq) /\ Len(rq) = Len(refs)
  <2>1. n \in 1..n
    BY <1>8
  <2>2. \A i \in 1..n : i >= n => frames[i].lrefl \subseteq Top.lrefl
    <3>1. \A i \in 1..n : i >= n => i = n
      BY <1>8
    <3> QED
      BY <3>1 DEF Top
  <2>3. rq = Closed(Top.lrefl, stk)
    OBVIOUS
  <2> HIDE DEF rq
  <2> QED
    BY <1>2, <2>1, <2>2, <2>3, HeldBelow DEF W
<1>16. RefsHeld(rq, G)
  <2> DEFINE F == SubSeq(frames, 1, n - 1)
  <2>1. Len(F) = n - 1 /\ \A i \in 1..(n - 1) : F[i] = frames[i]
    <3>1. n - 1 \in Nat /\ n - 1 <= Len(frames)
      BY <1>8
    <3> HIDE DEF n
    <3> QED
      BY <1>8, <3>1, FirstSeq
  <2>2. \A i \in 1..(n - 1) : i \in 1..Len(G)
    BY <1>8, <1>11
  <2>3. \A i \in 1..Len(F) : i \in 1..Len(G) /\ G[i] = F[i]
    BY <1>11, <2>1, <2>2
  <2> HIDE DEF F, rq, G
  <2>4. RefsHeld(rq, F)
    BY <1>15 DEF F
  <2> QED
    BY <2>3, <2>4 DEF RefsHeld
<1>17. res' = Null
  BY <1>1 DEF Alive
<1> HIDE DEF rq, G, n
<1> QED
  BY <1>1, <1>2, <1>14, <1>15, <1>16, <1>17, GoesOnSame DEF W

-----------------------------------------------------------------------------
(* The builtins that call.                                                 *)

\* Where a procedure written in C runs: it has not taken an error, its arguments
\* begin at bp + 2, and there is a frame below it.
LEMMA CRuns ==
  ASSUME NEW at, NEW tails, RunInv(at, tails), res = Null,
         Top.cproc \in {"pcall", "xpcall", "raise"}, Top.state \in {"new", "called"}
  PROVE  /\ Ready(at, tails) /\ ~Caught /\ CFrame(World(at, tails), Top)
         /\ bp = Top.bp /\ bp \in Nat /\ bp >= 4 /\ bp + 2 <= Len(stk)
         /\ Len(frames) \in Nat /\ Len(frames) > 1 /\ Len(frames) \in 1..Len(frames)
         /\ Len(frames) - 1 \in 1..Len(frames)
<1>1. ~Caught /\ Ready(at, tails) /\ Top.cproc # "none"
  BY ReadyIs DEF Caught
<1>2. Len(frames) \in Nat \ {0} /\ Runs(World(at, tails), Top, stk, bp) /\ Len(stk) \in Nat
  BY <1>1, ReadyFacts
<1>3. Len(frames) \in 1..Len(frames)
  BY <1>2
<1>4. RunsC(World(at, tails), Top, stk, bp)
  BY <1>1, <1>2, RunsFacts
<1>5. Len(frames) > 1 /\ Len(frames) - 1 \in 1..Len(frames) /\ Top.bp \in Nat /\ Top.bp >= 4
  BY <1>1, <1>3, CAbove DEF Top
<1> QED
  BY <1>1, <1>2, <1>3, <1>4, <1>5 DEF RunsC

\* Its arguments.
LEMMA ArgsAre ==
  ASSUME NEW at, NEW tails, Ready(at, tails),
         Top.bp \in Nat, Top.bp >= 4, Top.bp + 2 <= Len(stk)
  PROVE  /\ IsSeq(Args) /\ Len(Args) \in Nat
         /\ \A i \in 1..Len(Args) : Sound(World(at, tails), Args[i])
<1> DEFINE m == Top.bp + 3
           l == Len(stk) - m + 1
<1>1. IsSeq(stk) /\ Len(stk) \in Nat
  BY ReadyFacts
<1>2. m \in Nat \ {0} /\ m <= Len(stk) + 1 /\ m > 3 /\ l \in Nat
  BY <1>1
<1>3. Args = SubSeq(stk, m, Len(stk))
  BY DEF Args
<1> HIDE DEF m
<1>4. IsSeq(Args) /\ Len(Args) = l /\ \A i \in 1..l : Args[i] = stk[m + i - 1]
  BY <1>1, <1>2, <1>3, SubSeqSeq
<1>5. \A i \in 1..l : m + i - 1 \in 4..Len(stk)
  BY <1>1, <1>2
<1>6. \A i \in 1..l : Sound(World(at, tails), Args[i])
  BY <1>4, <1>5, CellSound
<1> HIDE DEF l
<1> QED
  BY <1>2, <1>4, <1>6

\* The first value behind s.
LEMMA ConcatNext ==
  ASSUME NEW s, IsSeq(s), NEW t, IsSeq(t), 1 \in 1..Len(t)
  PROVE  (s \o t)[Len(s) + 1] = t[1]
<1>1. \A i \in 1..Len(t) : (s \o t)[Len(s) + i] = t[i]
  BY ConcatSeq
<1> QED
  BY <1>1

\* What is wrong with the arguments is an error.
LEMMA BadArgsErr ==
  ASSUME NEW name \in {"pcall", "xpcall", "raise"}, NEW vs, BadArgs(name, vs) # Nil
  PROVE  BadArgs(name, vs)[1] = "err"
BY DEF BadArgs, Err

\* What is right with them.
LEMMA GoodArgs ==
  ASSUME NEW name \in {"pcall", "xpcall"}, NEW vs, IsSeq(vs), BadArgs(name, vs) = Nil
  PROVE  /\ vs # <<>> /\ Len(vs) \in Nat \ {0} /\ Callable(vs[1])
         /\ name = "xpcall" => /\ Len(vs) % 2 = 1
                               /\ \A i \in 2..Len(vs) : i % 2 = 1 => Callable(vs[i])
<1>1. \A t : Err(t) # Nil
  BY DEF Err, Nil
<1>2. vs # <<>> /\ Callable(vs[1])
  BY <1>1 DEF BadArgs
<1>3. Len(vs) \in Nat \ {0}
  BY <1>2, EmptyIs DEF IsSeq
<1>4. ASSUME name = "xpcall"
      PROVE  /\ Len(vs) % 2 # 0
             /\ \A i \in 2..Len(vs) : i % 2 # 0 => Callable(vs[i])
  BY <1>1, <1>2, <1>4 DEF BadArgs
<1>5. ASSUME name = "xpcall"
      PROVE  /\ Len(vs) % 2 = 1
             /\ \A i \in 2..Len(vs) : i % 2 = 1 => Callable(vs[i])
  <2>1. \A i \in 2..Len(vs) : i % 2 = 1 => i % 2 # 0
    OBVIOUS
  <2>2. Len(vs) % 2 = 1
    BY <1>3, <1>4, <1>5
  <2> QED
    BY <1>4, <1>5, <2>1, <2>2
<1> QED
  BY <1>2, <1>3, <1>5

\* A procedure written in C calls v at b, and waits for it as f.
LEMMA CCallGoes ==
  ASSUME NEW at, NEW tails, RunInv(at, tails), res = Null,
         Top.cproc \in {"pcall", "xpcall", "raise"}, Top.state \in {"new", "called"},
         NEW f, CFrame(World(at, tails), f), f.state = "called", SameHold(Top, f),
         NEW v, Sound(World(at, tails), v), Callable(v),
         NEW s, SoundStack(World(at, tails), s), \A k \in 1..Top.bp : s[k] = stk[k],
         NEW b \in Nat, b >= Top.bp + 2, s[b] = <<"bp", Top.bp>>, b + 2 <= Len(s),
         CallObj(v, s, b, SetTop(f), {})
  PROVE  Goes(at, tails)'
<1> DEFINE W == World(at, tails)
           F == SetTop(f)
<1>1. /\ Ready(at, tails) /\ Top.bp \in Nat /\ Top.bp >= 4 /\ Len(frames) > 1
      /\ Len(frames) \in Nat
  BY CRuns
<1>2. IsSeq(frames) /\ Callers(W, frames, stk) /\ IsSeq(refs)
  BY <1>1, ReadyFacts
<1>3. OpenAs(refs, Closed({}, stk))
  <2>1. Closed({}, stk) = refs
    BY <1>2, ClosedNone
  <2> QED
    BY <2>1 DEF OpenAs
<1>4. RefsHeld(Closed({}, stk), F) /\ Retop(frames, F, f)
  BY <1>1, <1>3, KeepsRefs
<1>5. f.bp = Top.bp /\ f.bp = frames[Len(frames)].bp /\ f.cproc # "none"
  BY DEF SameHold, Top
<1>6. IsSeq(F) /\ F[Len(F)] = f
  BY <1>4 DEF Retop
<1> HIDE DEF W, F
<1>7. Callers(W, F, s)
  <2>1. Len(frames) = 1 => f.cproc = "none"
    BY <1>1
  <2>2. \A k \in 1..f.bp : s[k] = stk[k]
    BY <1>5
  <2> QED
    BY <1>2, <1>4, <1>5, <2>1, <2>2, TopChanges
<1>8. ASSUME NEW g, g.bp = b
      PROVE  Callers(W, Append(F, g), s)
  <2>1. WaitingC(W, f, s, b)
    BY <1>5 DEF WaitingC, W
  <2>2. Waiting(W, F[Len(F)], s, g.bp)
    BY <1>6, <1>8, <2>1 DEF Waiting
  <2> QED
    BY <1>7, <2>2, AddFrame
<1>9. b \in Nat \ {0}
  BY <1>1
<1>10. CallObj(v, s, b, F, {})
  BY DEF F
<1> QED
  BY <1>1, <1>4, <1>6, <1>8, <1>9, <1>10, CallGoes DEF W

\* f waits for a procedure it has called.
Waits(f, hs) == [f EXCEPT !.state = "called", !.handlers = hs]

LEMMA WaitsIs ==
  ASSUME NEW W, NEW f, CFrame(W, f), f.cproc \in {"pcall", "xpcall"}, NEW hs,
         f.cproc = "xpcall" =>
           /\ IsSeq(hs) /\ Len(hs) % 2 = 1
           /\ \A i \in 2..Len(hs) : i % 2 = 1 => Sound(W, hs[i]) /\ Callable(hs[i]),
         NEW g, g = Waits(f, hs)
  PROVE  CFrame(W, g) /\ g.state = "called" /\ SameHold(f, g)
<1>1. IsFrame(f)
  BY DEF CFrame
<1>2. /\ g.state = "called" /\ g.handlers = hs /\ g.cproc = f.cproc /\ g.bp = f.bp
      /\ g.lref = f.lref /\ g.lrefl = f.lrefl /\ IsFrame(g)
  BY <1>1 DEF Waits, IsFrame
<1>3. f.bp \in Nat \ {0}
  BY DEF CFrame
<1>4. CFrame(W, g)
  BY <1>2, <1>3 DEF CFrame
<1> QED
  BY <1>2, <1>4 DEF SameHold

LEMMA PcallStep ==
  ASSUME NEW at, NEW tails, RunInv(at, tails), Pcall
  PROVE  Goes(at, tails)'
<1> DEFINE W == World(at, tails)
<1>1. /\ res = Null /\ Top.cproc = "pcall" /\ Top.state = "new"
      /\ Top.cproc \in {"pcall", "xpcall", "raise"} /\ Top.state \in {"new", "called"}
  BY DEF Pcall, Stepping
<1>2. /\ Ready(at, tails) /\ ~Caught /\ CFrame(W, Top)
      /\ bp = Top.bp /\ bp \in Nat /\ bp >= 4 /\ bp + 2 <= Len(stk)
  BY <1>1, CRuns
<1>3. CASE BadArgs("pcall", Args) # Nil
  <2>1. BadArgs("pcall", Args)[1] = "err"
    BY <1>3, BadArgsErr
  <2>2. Raise(BadArgs("pcall", Args))
    BY <1>3 DEF Pcall
  <2> QED
    BY <1>1, <1>2, <2>1, <2>2, RaiseGoes
<1>4. CASE BadArgs("pcall", Args) = Nil
  <2> DEFINE v == Args[1]
             cell == <<"bp", bp>>
             p == SubSeq(stk, 1, bp + 1)
             q == p \o <<cell, Null>>
             s == q \o Args
             f == Waits(Top, Top.handlers)
  <2>1. CallObj(v, s, bp + 2, SetTop(f), {})
    <3>1. [Top EXCEPT !.state = "called"] = f
      BY <1>2 DEF CFrame, IsFrame, Waits
    <3>2. CallObj(v, s, bp + 2, SetTop([Top EXCEPT !.state = "called"]), {})
      BY <1>4 DEF Pcall
    <3> HIDE DEF f, v, s
    <3> QED
      BY <3>1, <3>2
  <2>2. IsSeq(Args) /\ (\A i \in 1..Len(Args) : Sound(W, Args[i]))
    BY <1>2, ArgsAre
  <2>3. Len(Args) \in Nat \ {0} /\ Callable(v)
    BY <1>4, <2>2, GoodArgs
  <2>4. Sound(W, v)
    <3>1. 1 \in 1..Len(Args)
      BY <2>3
    <3> QED
      BY <2>2, <3>1
  <2>5. SoundStack(W, stk) /\ Len(stk) \in Nat /\ IsSeq(stk)
    BY <1>2, ReadyFacts
  <2>6. SoundStack(W, p) /\ Len(p) = bp + 1 /\ \A k \in 1..(bp + 1) : p[k] = stk[k]
    <3>1. bp + 1 \in Nat /\ bp + 1 <= Len(stk)
      BY <1>2, <2>5
    <3> QED
      BY <2>5, <3>1, PrefixSound, FirstSeq
  <2>7. IsSeq(<<cell, Null>>) /\ Len(<<cell, Null>>) = 2 /\ <<cell, Null>>[1] = cell
        /\ \A i \in 1..2 : Sound(W, <<cell, Null>>[i])
    <3>1. \A i \in 1..2 : i = 1 \/ i = 2
      OBVIOUS
    <3>2. Sound(W, cell) /\ Sound(W, Null)
      BY DEF Sound, Null
    <3> HIDE DEF cell
    <3>3. IsSeq(<<cell, Null>>) /\ Len(<<cell, Null>>) = 2
          /\ <<cell, Null>>[1] = cell /\ <<cell, Null>>[2] = Null
      BY TwoSeq
    <3> QED
      BY <3>1, <3>2, <3>3
  <2> DEFINE two == <<cell, Null>>
  <2> HIDE DEF p, two
  <2>8. /\ SoundStack(W, p \o two) /\ Len(p \o two) = bp + 1 + 2
        /\ (\A k \in 1..(bp + 1) : (p \o two)[k] = stk[k]) /\ (p \o two)[bp + 1 + 1] = cell
    <3>1. SoundStack(W, p \o two)
      BY <2>6, <2>7, ConcatSound DEF two
    <3>2. IsSeq(p) /\ IsSeq(two) /\ Len(two) = 2 /\ two[1] = cell
      BY <2>6, <2>7 DEF SoundStack, two
    <3>3. Len(p \o two) = Len(p) + Len(two)
      BY <3>2, ConcatSeq
    <3>4. \A i \in 1..Len(p) : (p \o two)[i] = p[i]
      BY <3>2, ConcatSeq
    <3>5. (p \o two)[Len(p) + 1] = two[1]
      <4>1. 1 \in 1..Len(two)
        BY <3>2
      <4> QED
        BY <3>2, <4>1, ConcatNext
    <3> QED
      BY <2>6, <3>1, <3>2, <3>3, <3>4, <3>5
  <2>9. q = p \o two
    BY DEF two
  <2> HIDE DEF q, cell
  <2>10. /\ SoundStack(W, q) /\ Len(q) = bp + 3 /\ IsSeq(q)
         /\ (\A k \in 1..(bp + 1) : q[k] = stk[k]) /\ q[bp + 2] = cell
    <3>1. bp + 1 + 2 = bp + 3 /\ bp + 1 + 1 = bp + 2
      BY <1>2
    <3> QED
      BY <2>8, <2>9, <3>1 DEF SoundStack
  <2>11. SoundStack(W, s)
    BY <2>2, <2>10, ConcatSound
  <2>12. Len(s) = Len(q) + Len(Args) /\ \A i \in 1..Len(q) : s[i] = q[i]
    BY <2>2, <2>10, ConcatSeq
  <2> HIDE DEF s
  <2>13. \A k \in 1..Top.bp : s[k] = stk[k]
    <3>1. \A k \in 1..bp : k \in 1..(bp + 1) /\ k \in 1..Len(q)
      BY <1>2, <2>10
    <3> QED
      BY <1>2, <2>10, <2>12, <3>1
  <2>14. s[bp + 2] = <<"bp", Top.bp>>
    <3>1. bp + 2 \in 1..Len(q)
      BY <1>2, <2>10
    <3> QED
      BY <1>2, <2>10, <2>12, <3>1 DEF cell
  <2>15. bp + 2 \in Nat /\ bp + 2 >= Top.bp + 2 /\ (bp + 2) + 2 <= Len(s)
    <3>1. \A x \in Nat, y \in Nat \ {0} : (x + 2) + 2 <= x + 3 + y /\ x + 2 \in Nat
      OBVIOUS
    <3>2. Len(s) = bp + 3 + Len(Args) /\ bp + 2 >= Top.bp + 2
      BY <1>2, <2>10, <2>12
    <3> QED
      BY <1>2, <2>3, <3>1, <3>2
  <2>16. f = Waits(Top, Top.handlers)
    OBVIOUS
  <2> HIDE DEF f
  <2>17. CFrame(W, f) /\ f.state = "called" /\ SameHold(Top, f)
    BY <1>1, <1>2, <2>16, WaitsIs
  <2> HIDE DEF v
  <2> QED
    BY <1>1, <2>1, <2>3, <2>4, <2>11, <2>13, <2>14, <2>15, <2>17, CCallGoes
<1> QED
  BY <1>3, <1>4

\* A procedure written in C returns v.
LEMMA CReturnGoes ==
  ASSUME NEW at, NEW tails, RunInv(at, tails), res = Null,
         Top.cproc \in {"pcall", "xpcall", "raise"}, Top.state \in {"new", "called"},
         NEW v, Sound(World(at, tails), v), CprocReturned(Top, v), PopFrame,
         UNCHANGED <<loaded, procs, refs, res>>
  PROVE  Goes(at, tails)'
<1> DEFINE m == Len(frames) - 1
<1>1. Ready(at, tails) /\ m \in 1..Len(frames)
  BY CRuns
<1>2. refs' = Closed({}, stk)
  <2>1. IsSeq(refs)
    BY <1>1, ReadyFacts
  <2> QED
    BY <2>1, ClosedNone
<1>3. m = Len(frames) - 1 /\ frames' = SubSeq(frames, 1, m)
  BY DEF PopFrame
<1>4. stk' = Append(SubSeq(stk, 1, Top.bp - 1), v) /\ bp' = stk[Top.bp][2]
  BY DEF CprocReturned
<1>5. Top.cproc # "none" /\ res' = Null
  OBVIOUS
<1> HIDE DEF m
<1> QED
  BY <1>1, <1>2, <1>3, <1>4, <1>5, ResumeGoes

LEMMA PcallReturnsStep ==
  ASSUME NEW at, NEW tails, RunInv(at, tails), PcallReturns
  PROVE  Goes(at, tails)'
<1> DEFINE v == <<"box", TopValue>>
<1>1. /\ res = Null /\ Top.cproc \in {"pcall", "xpcall", "raise"}
      /\ Top.state \in {"new", "called"}
      /\ CprocReturned(Top, v) /\ PopFrame /\ UNCHANGED <<loaded, procs, refs, res>>
  BY DEF PcallReturns, Stepping
<1>2. Sound(World(at, tails), v)
  BY DEF Sound
<1> HIDE DEF v
<1> QED
  BY <1>1, <1>2, CReturnGoes

LEMMA XpcallReturnsStep ==
  ASSUME NEW at, NEW tails, RunInv(at, tails), XpcallReturns
  PROVE  Goes(at, tails)'
<1>1. /\ res = Null /\ Top.cproc \in {"pcall", "xpcall", "raise"}
      /\ Top.state \in {"new", "called"}
      /\ CprocReturned(Top, TopValue) /\ PopFrame /\ UNCHANGED <<loaded, procs, refs, res>>
  BY DEF XpcallReturns, Stepping
<1>2. Ready(at, tails) /\ bp \in Nat /\ bp >= 4 /\ bp + 2 <= Len(stk)
  BY <1>1, CRuns
<1>3. Len(stk) \in 4..Len(stk)
  <2>1. Len(stk) \in Nat
    BY <1>2, ReadyFacts
  <2> QED
    BY <1>2, <2>1
<1>4. Sound(World(at, tails), TopValue)
  BY <1>2, <1>3, CellSound DEF TopValue
<1> QED
  BY <1>1, <1>4, CReturnGoes

LEMMA RaiseProcStep ==
  ASSUME NEW at, NEW tails, RunInv(at, tails), RaiseProc
  PROVE  Goes(at, tails)'
<1>1. /\ res = Null /\ Top.cproc \in {"pcall", "xpcall", "raise"}
      /\ Top.state \in {"new", "called"}
  BY DEF RaiseProc, Stepping
<1>2. ~Caught
  BY <1>1, CRuns
<1> DEFINE bad == BadArgs("raise", Args)
           e == IF bad # Nil THEN bad ELSE Err(Args[1][2])
<1>3. Raise(e)
  BY DEF RaiseProc
<1>4. e[1] = "err"
  BY BadArgsErr DEF Err
<1> HIDE DEF e
<1> QED
  BY <1>1, <1>2, <1>3, <1>4, RaiseGoes

\* An xpcall without handlers: the procedure takes its place.
LEMMA XpcallOnce ==
  ASSUME NEW at, NEW tails, RunInv(at, tails), Xpcall,
         BadArgs("xpcall", Args) = Nil, Len(Args) = 1
  PROVE  Goes(at, tails)'
<1> DEFINE W == World(at, tails)
           v == Args[1]
           p == SubSeq(stk, 1, bp + 1)
           s == p \o Args
           n == Len(frames)
           fs == SubSeq(frames, 1, n - 1)
<1>1. /\ res = Null /\ Top.cproc = "xpcall"
      /\ Top.cproc \in {"pcall", "xpcall", "raise"} /\ Top.state \in {"new", "called"}
  BY DEF Xpcall, Stepping
<1>2. /\ Ready(at, tails) /\ bp = Top.bp /\ bp \in Nat /\ bp >= 4 /\ bp + 2 <= Len(stk)
      /\ n \in Nat /\ n > 1 /\ n \in 1..n
  BY <1>1, CRuns
<1>3. CallObj(v, s, bp, fs, {})
  BY DEF Xpcall
<1>4. IsSeq(Args) /\ \A i \in 1..Len(Args) : Sound(W, Args[i])
  BY <1>2, ArgsAre
<1>5. Callable(v) /\ Sound(W, v)
  <2>1. 1 \in 1..Len(Args)
    OBVIOUS
  <2> QED
    BY <1>4, <2>1, GoodArgs
<1>6. /\ SoundStack(W, stk) /\ Len(stk) \in Nat /\ IsSeq(stk) /\ IsSeq(frames)
      /\ Callers(W, frames, stk)
  BY <1>2, ReadyFacts
<1>7. SoundStack(W, p) /\ Len(p) = bp + 1 /\ \A k \in 1..(bp + 1) : p[k] = stk[k]
  <2>1. bp + 1 \in Nat /\ bp + 1 <= Len(stk)
    BY <1>2, <1>6
  <2> QED
    BY <1>6, <2>1, PrefixSound, FirstSeq
<1> HIDE DEF p, v, W
<1>8. SoundStack(W, s)
  BY <1>4, <1>7, ConcatSound
<1>9. Len(s) = Len(p) + Len(Args) /\ \A i \in 1..Len(p) : s[i] = p[i]
  <2>1. IsSeq(p)
    BY <1>7 DEF SoundStack
  <2> QED
    BY <1>4, <2>1, ConcatSeq
<1> HIDE DEF s
<1>10. bp + 2 <= Len(s) /\ bp \in Nat \ {0}
  BY <1>2, <1>7, <1>9
<1>11. \A k \in 1..bp : s[k] = stk[k]
  <2>1. \A k \in 1..bp : k \in 1..(bp + 1) /\ k \in 1..Len(p)
    BY <1>2, <1>7
  <2> QED
    BY <1>7, <1>9, <2>1
<1>12. ASSUME NEW g, g.bp = bp
       PROVE  Callers(W, Append(fs, g), s)
  <2>1. g.bp = frames[n].bp
    BY <1>2, <1>12 DEF Top
  <2>2. n \in 1..Len(frames) /\ n # 1
    <3>1. \A x \in Nat : x > 1 => x # 1
      OBVIOUS
    <3> QED
      BY <1>2, <3>1
  <2>3. \A k \in 1..g.bp : s[k] = stk[k]
    BY <1>11, <1>12
  <2> HIDE DEF n
  <2> QED
    BY <1>6, <2>1, <2>2, <2>3, NewTop
<1>13. RefsHeld(Closed({}, stk), fs)
  <2>1. \A i \in 1..n : i >= n => i = n
    BY <1>2
  <2>2. \A i \in 1..Len(frames) : i >= n =>
          frames[i].cproc # "none" \/ frames[i].lrefl \subseteq {}
    BY <1>1, <2>1 DEF Top
  <2> QED
    BY <1>2, <2>2, HeldBelow
<1>14. IsSeq(fs)
  <2>1. n - 1 \in Nat /\ n - 1 <= Len(frames)
    BY <1>2
  <2> HIDE DEF n
  <2> QED
    BY <1>6, <2>1, FirstSeq
<1> HIDE DEF fs
<1> QED
  BY <1>1, <1>2, <1>3, <1>5, <1>8, <1>10, <1>12, <1>13, <1>14, CallGoes DEF W

\* An xpcall with handlers: the procedure is called above it.
LEMMA XpcallAbove ==
  ASSUME NEW at, NEW tails, RunInv(at, tails), Xpcall,
         BadArgs("xpcall", Args) = Nil, Len(Args) # 1
  PROVE  Goes(at, tails)'
<1> DEFINE W == World(at, tails)
           v == Args[1]
           cell == <<"bp", bp>>
           three == <<cell, Null, v>>
           s == stk \o three
           b == Len(stk) + 1
           f == Waits(Top, Args)
<1>1. /\ res = Null /\ Top.cproc = "xpcall"
      /\ Top.cproc \in {"pcall", "xpcall", "raise"} /\ Top.state \in {"new", "called"}
  BY DEF Xpcall, Stepping
<1>2. /\ Ready(at, tails) /\ CFrame(W, Top)
      /\ bp = Top.bp /\ bp \in Nat /\ bp >= 4 /\ bp + 2 <= Len(stk)
  BY <1>1, CRuns
<1>3. CallObj(v, s, b, SetTop(f), {})
  BY DEF Xpcall, Waits
<1>4. IsSeq(Args) /\ \A i \in 1..Len(Args) : Sound(W, Args[i])
  BY <1>2, ArgsAre
<1>5. /\ Len(Args) \in Nat \ {0} /\ Callable(v) /\ Len(Args) % 2 = 1
      /\ \A i \in 2..Len(Args) : i % 2 = 1 => Callable(Args[i])
  BY <1>4, GoodArgs
<1>6. Sound(W, v)
  <2>1. 1 \in 1..Len(Args)
    BY <1>5
  <2> QED
    BY <1>4, <2>1
<1>7. SoundStack(W, stk) /\ Len(stk) \in Nat /\ IsSeq(stk)
  BY <1>2, ReadyFacts
<1>8. f = Waits(Top, Args)
  OBVIOUS
<1> HIDE DEF f
<1>9. CFrame(W, f) /\ f.state = "called" /\ SameHold(Top, f)
  <2>1. \A i \in 2..Len(Args) : i % 2 = 1 => Sound(W, Args[i]) /\ Callable(Args[i])
    <3>1. \A i \in 2..Len(Args) : i \in 1..Len(Args)
      OBVIOUS
    <3> QED
      BY <1>4, <1>5, <3>1
  <2> HIDE DEF W
  <2> QED
    BY <1>1, <1>2, <1>4, <1>5, <1>8, <2>1, WaitsIs
<1> HIDE DEF v
<1>10. /\ IsSeq(three) /\ Len(three) = 3 /\ three[1] = cell
       /\ \A i \in 1..3 : Sound(W, three[i])
  <2>1. \A i \in 1..3 : i = 1 \/ i = 2 \/ i = 3
    OBVIOUS
  <2>2. Sound(W, cell) /\ Sound(W, Null)
    BY DEF Sound, Null
  <2> HIDE DEF cell
  <2>3. /\ IsSeq(three) /\ Len(three) = 3
        /\ three[1] = cell /\ three[2] = Null /\ three[3] = v
    BY ThreeSeq
  <2> HIDE DEF three
  <2> QED
    BY <1>6, <2>1, <2>2, <2>3
<1> HIDE DEF three, W
<1>11. SoundStack(W, s)
  BY <1>7, <1>10, ConcatSound
<1>12. Len(s) = Len(stk) + 3 /\ \A i \in 1..Len(stk) : s[i] = stk[i]
  <2>1. Len(s) = Len(stk) + Len(three)
    BY <1>7, <1>10, ConcatSeq
  <2>2. \A i \in 1..Len(stk) : s[i] = stk[i]
    BY <1>7, <1>10, ConcatSeq
  <2> QED
    BY <1>10, <2>1, <2>2
<1>13. s[b] = <<"bp", Top.bp>>
  <2>1. 1 \in 1..Len(three)
    BY <1>10
  <2> QED
    BY <1>2, <1>7, <1>10, <2>1, ConcatNext
<1> HIDE DEF s
<1>14. \A k \in 1..Top.bp : s[k] = stk[k]
  <2>1. \A k \in 1..Top.bp : k \in 1..Len(stk)
    BY <1>2, <1>7
  <2> QED
    BY <1>12, <2>1
<1>15. b \in Nat /\ b >= Top.bp + 2 /\ b + 2 <= Len(s)
  BY <1>2, <1>7, <1>12
<1> HIDE DEF b
<1> QED
  BY <1>1, <1>3, <1>5, <1>6, <1>9, <1>11, <1>13, <1>14, <1>15, CCallGoes DEF W

LEMMA XpcallStep ==
  ASSUME NEW at, NEW tails, RunInv(at, tails), Xpcall
  PROVE  Goes(at, tails)'
<1>1. /\ res = Null /\ Top.cproc \in {"pcall", "xpcall", "raise"}
      /\ Top.state \in {"new", "called"}
  BY DEF Xpcall, Stepping
<1>2. CASE BadArgs("xpcall", Args) # Nil
  <2>1. ~Caught
    BY <1>1, CRuns
  <2>2. BadArgs("xpcall", Args)[1] = "err"
    BY <1>2, BadArgsErr
  <2>3. Raise(BadArgs("xpcall", Args))
    BY <1>2 DEF Xpcall
  <2> QED
    BY <1>1, <2>1, <2>2, <2>3, RaiseGoes
<1>3. CASE BadArgs("xpcall", Args) = Nil
  BY <1>3, XpcallOnce, XpcallAbove
<1> QED
  BY <1>2, <1>3

\* A pcall that has taken an error leaves: what was below it goes on.
LEMMA PcallLeavesStep ==
  ASSUME NEW at, NEW tails, RunInv(at, tails), PcallLeaves
  PROVE  Goes(at, tails)'
<1>1. res = Null /\ Caught
  BY DEF PcallLeaves, Stepping, Caught
<1>2. /\ frames' = Live /\ stk' = stk /\ bp' = bp /\ refs' = refs /\ res' = res
      /\ UNCHANGED <<loaded, procs>>
  BY <1>1 DEF PcallLeaves, PopFrame, Live
<1>3. /\ VerifiedBy(code, protos, at, tails) /\ Stacked(World(at, tails), Live, stk, bp)
      /\ ProcsMade(World(at, tails)) /\ RefsMade(World(at, tails), refs)
      /\ RefsHeld(refs, Live)
  BY DEF RunInv
<1>4. World(at, tails)' = World(at, tails)
  BY <1>2, SameWorld
<1> QED
  BY <1>1, <1>2, <1>3, <1>4, GoesOn

-----------------------------------------------------------------------------
(* The start, every step, and what follows.                                *)

\* The code of a file is called.
Called == <<<<"bp", 0>>, Null, <<"p", 1>>>>

\* Its references are the builtins.
LEMMA BuiltinRefsMade ==
  ASSUME NEW W, NEW defs, IsSeq(defs), W.nrefs = Len(defs), refs = BuiltinRefs(defs)
  PROVE  /\ RefsMade(W, refs) /\ Len(refs) = Len(defs) /\ Len(refs) \in Nat
         /\ \A r \in 1..Len(refs) : refs[r].pos = 0
<1>1. Len(defs) \in Nat /\ DOMAIN defs = 1..Len(defs)
  BY DEF IsSeq
<1> DEFINE n == Len(defs)
           val(i) == IF defs[i].id \in {"pcall", "xpcall", "raise"}
                     THEN <<"cp", defs[i].id>> ELSE Null
           rec(i) == [pos |-> 0, idx |-> 0, val |-> val(i)]
           S == {rec(i) : i \in 1..n}
<1>2. refs = [i \in 1..n |-> rec(i)]
  BY <1>1 DEF BuiltinRefs
<1>3. \A i \in 1..n : Sound(W, val(i))
  BY DEF Sound, Null
<1> HIDE DEF val
<1>4. \A i \in 1..n : IsRef(W, rec(i)) /\ rec(i).pos = 0
  BY <1>3 DEF IsRef
<1> HIDE DEF rec
<1>5. refs \in [1..n -> S]
  BY <1>2
<1> HIDE DEF S, n
<1>6. IsSeq(refs) /\ Len(refs) = n
  <2>1. n \in Nat
    BY <1>1 DEF n
  <2> QED
    BY <1>5, <2>1, FunctionSeq
<1>7. \A i \in 1..n : refs[i] = rec(i)
  BY <1>2
<1> QED
  BY <1>1, <1>4, <1>6, <1>7 DEF RefsMade, n

LEMMA StartRuns ==
  ASSUME NEW at, NEW tails, VerifiedBy(code, protos, at, tails), Start
  PROVE  RunInv(at, tails)
<1> DEFINE W == World(at, tails)
           f == FrameAt(Called, 1, 1, 1)
           c == [i \in DOMAIN protos[1].refs |-> i]
           p == [env |-> 1, entry |-> 1, closure |-> c]
           l == protos[1].lcount
<1>1. /\ procs = <<p>> /\ frames = <<f>> /\ stk = Pad(Called, frames[1].sp) /\ bp = 1
      /\ refs = BuiltinRefs(protos[1].refs)
  BY DEF Start, Called
<1>2. /\ 1 \in DOMAIN protos /\ IsSeq(protos[1].refs) /\ l \in Nat
      /\ 1 \in DOMAIN at /\ at[1] = At(1, 0, <<>>)
      /\ code[1].op \notin {"MAKE_PROC", "CHECK_ARG"}
  BY DEF VerifiedBy
<1>3. /\ W.code = code /\ W.protos = protos /\ W.at = at /\ W.procs = procs
      /\ W.nrefs = Len(refs)
  BY Worlds
<1>4. IsSeq(Called) /\ Len(Called) = 3 /\ Called[1] = <<"bp", 0>> /\ Called[2] = Null
  BY ThreeSeq DEF Called
<1> HIDE DEF p
<1>5. IsSeq(procs) /\ Len(procs) = 1 /\ procs[1] = p
  BY <1>1, OneSeq
<1>6. /\ p.env = 1 /\ p.entry = 1 /\ p.closure = c
  BY DEF p
<1>7. /\ IsFrame(f) /\ f.cproc = "none" /\ f.proc = 1 /\ f.pc = 1 /\ f.bp = 1
      /\ f.mark = "ret" /\ f.sp = 3 + l /\ f.lref = [i \in 1..l |-> 0]
  <2>1. protos[procs[1].env].lcount = l /\ Len(Called) - (1 + 2) = 0 /\ 1 + 2 + l = 3 + l
    BY <1>2, <1>4, <1>5, <1>6
  <2> QED
    BY <2>1 DEF FrameAt, IsFrame
<1> HIDE DEF f
<1>8. IsSeq(frames) /\ Len(frames) = 1 /\ frames[1] = f
  BY <1>1, OneSeq
<1>9. /\ IsSeq(stk) /\ Len(stk) = 3 + l
      /\ \A i \in 1..3 : stk[i] = Called[i]
      /\ \A i \in 1..Len(stk) : i > 3 => stk[i] = Null
  <2>1. stk = Pad(Called, f.sp) /\ f.sp \in Nat
    BY <1>1, <1>2, <1>7, <1>8
  <2>2. /\ IsSeq(Pad(Called, f.sp))
        /\ Len(Pad(Called, f.sp)) = IF f.sp > Len(Called) THEN f.sp ELSE Len(Called)
        /\ \A i \in 1..Len(Called) : Pad(Called, f.sp)[i] = Called[i]
        /\ \A i \in 1..Len(Pad(Called, f.sp)) : i > Len(Called) => Pad(Called, f.sp)[i] = Null
    BY <1>4, <2>1, PadSeq
  <2>3. f.sp > 3 \/ f.sp = 3
    BY <1>2, <1>7
  <2> QED
    BY <1>4, <1>7, <2>1, <2>2, <2>3
<1>10. ~Caught /\ Live = frames
  BY <1>7, <1>8 DEF Caught, Live, Top
<1>11. /\ RefsMade(W, refs) /\ Len(refs) = Len(protos[1].refs) /\ Len(refs) \in Nat
       /\ \A r \in 1..Len(refs) : refs[r].pos = 0
  <2>1. Len(refs) = Len(protos[1].refs)
    <3>1. DOMAIN protos[1].refs = 1..Len(protos[1].refs) /\ Len(protos[1].refs) \in Nat
      BY <1>2 DEF IsSeq
    <3>2. DOMAIN refs = 1..Len(protos[1].refs)
      BY <1>1, <3>1 DEF BuiltinRefs
    <3> DEFINE S == {refs[i] : i \in DOMAIN refs}
    <3>3. refs \in [1..Len(protos[1].refs) -> S]
      BY <1>1, <3>2 DEF BuiltinRefs
    <3> HIDE DEF S
    <3> QED
      BY <3>1, <3>3, FunctionSeq
  <2>2. W.nrefs = Len(protos[1].refs)
    BY <1>3, <2>1
  <2> HIDE DEF W
  <2> QED
    BY <1>1, <1>2, <2>2, BuiltinRefsMade
<1>12. RefsHeld(refs, Live)
  BY <1>11 DEF RefsHeld
<1>13. ProcsMade(W)
  <2>1. DOMAIN protos[1].refs = 1..Len(refs)
    BY <1>2, <1>11 DEF IsSeq
  <2>2. p.closure \in [DOMAIN protos[1].refs -> 1..Len(refs)]
    BY <1>6, <2>1
  <2>3. \A i \in 1..Len(procs) : i = 1 /\ procs[i] = p /\ ~(i > 1)
    BY <1>5
  <2> HIDE DEF c, W
  <2> QED
    BY <1>2, <1>3, <1>5, <1>6, <2>2, <2>3 DEF ProcsMade
<1> HIDE DEF c
<1>14. SoundStack(W, stk)
  <2>1. Sound(W, <<"bp", 0>>) /\ Sound(W, Null)
    BY DEF Sound, Null
  <2>2. ASSUME NEW k \in 1..Len(stk), k # 3
        PROVE  Sound(W, stk[k])
    <3>1. k = 1 \/ k = 2 \/ k > 3
      BY <2>2
    <3> QED
      BY <1>4, <1>9, <2>1, <3>1
  <2> QED
    BY <1>9, <2>2 DEF SoundStack
<1>15. Callers(W, frames, stk)
  BY <1>7, <1>8 DEF Callers
<1> HIDE DEF W
<1>16. EnvOf(W, f) = 1 /\ Lcount(W, f) = l /\ Open(W, f) = <<>> /\ Height(W, f) = 0
       /\ OpAt(W, f) \notin {"MAKE_PROC", "CHECK_ARG"}
  BY <1>2, <1>3, <1>5, <1>6, <1>7 DEF EnvOf, Lcount, Open, Height, OpAt, At
<1>17. CodeFrame(W, f)
  <2>1. f.proc \in 1..Len(W.procs)
    BY <1>3, <1>5, <1>7
  <2>2. f.pc \in DOMAIN W.at /\ W.at[f.pc].env = EnvOf(W, f)
    BY <1>2, <1>3, <1>7, <1>16 DEF At
  <2>3. f.lref \in [1..Lcount(W, f) -> 0..W.nrefs]
    BY <1>3, <1>7, <1>11, <1>16
  <2>4. f.sp = f.bp + 2 + Lcount(W, f) /\ f.bp \in Nat \ {0}
    BY <1>2, <1>7, <1>16
  <2> QED
    BY <1>2, <1>7, <1>16, <2>1, <2>2, <2>3, <2>4 DEF CodeFrame
<1>18. RunsCode(W, f, stk, bp)
  <2>1. Prepared(f, stk, Len(stk), Open(W, f))
    BY <1>16, NoneSeq DEF Prepared
  <2>2. bp = BpOf(f, Open(W, f))
    BY <1>1, <1>7, <1>16 DEF BpOf
  <2>3. Len(stk) = f.sp + Height(W, f)
    BY <1>2, <1>7, <1>9, <1>16
  <2> QED
    BY <1>7, <1>16, <1>17, <2>1, <2>2, <2>3 DEF RunsCode
<1>19. Stacked(W, Live, stk, bp)
  BY <1>8, <1>10, <1>14, <1>15, <1>18 DEF Stacked, Runs
<1> QED
  BY <1>8, <1>10, <1>11, <1>12, <1>13, <1>19 DEF RunInv, W

\* A step of a program that runs.
LEMMA StepGoes ==
  ASSUME NEW at, NEW tails, RunInv(at, tails), res = Null, Next
  PROVE  Goes(at, tails)'
<1>1. CASE Push BY <1>1, PushStep
<1>2. CASE DropTop BY <1>2, DropTopStep
<1>3. CASE Compute BY <1>3, ComputeStep
<1>4. CASE Jump BY <1>4, JumpStep
<1>5. CASE GetLoc BY <1>5, GetLocStep
<1>6. CASE PutLoc BY <1>6, PutLocStep
<1>7. CASE PopLoc BY <1>7, PopLocStep
<1>8. CASE MovLoc BY <1>8, MovLocStep
<1>9. CASE AddkLoc BY <1>9, AddkLocStep
<1>10. CASE MakeProc BY <1>10, MakeProcStep
<1>11. CASE GetVarRef BY <1>11, GetVarRefStep
<1>12. CASE PutVarRef BY <1>12, PutVarRefStep
<1>13. CASE MovVarRef BY <1>13, MovVarRefStep
<1>14. CASE CloseRef BY <1>14, CloseRefStep
<1>15. CASE SetBp BY <1>15, SetBpStep
<1>16. CASE Call BY <1>16, CallStep
<1>17. CASE TailCall BY <1>17, TailCallStep
<1>18. CASE CheckArg BY <1>18, CheckArgStep
<1>19. CASE Return BY <1>19, ReturnStep
<1>20. CASE Restart BY <1>20, RestartStep
<1>21. CASE PassBy BY <1>21, PassByStep
<1>22. CASE Pcall BY <1>22, PcallStep
<1>23. CASE PcallReturns BY <1>23, PcallReturnsStep
<1>24. CASE PcallLeaves BY <1>24, PcallLeavesStep
<1>25. CASE Xpcall BY <1>25, XpcallStep
<1>26. CASE XpcallReturns BY <1>26, XpcallReturnsStep
<1>27. CASE RaiseProc BY <1>27, RaiseProcStep
<1>28. CASE Ended BY <1>28 DEF Ended
<1> QED
  BY <1>1, <1>2, <1>3, <1>4, <1>5, <1>6, <1>7, <1>8, <1>9, <1>10, <1>11, <1>12, <1>13,
     <1>14, <1>15, <1>16, <1>17, <1>18, <1>19, <1>20, <1>21, <1>22, <1>23, <1>24, <1>25,
     <1>26, <1>27, <1>28 DEF Next

\* A program that has ended does nothing more.
LEMMA EndedStays ==
  ASSUME res # Null, Next
  PROVE  UNCHANGED vars
BY ZenonT(30) DEF Next, Ended, Alive, Running, Stepping,
       Push, DropTop, Compute, Jump, GetLoc, PutLoc, PopLoc, MovLoc, AddkLoc,
       MakeProc, GetVarRef, PutVarRef, MovVarRef, CloseRef, SetBp, Call, TailCall,
       CheckArg, Return, Restart, PassBy,
       Pcall, PcallReturns, PcallLeaves, Xpcall, XpcallReturns, RaiseProc

\* Nothing the invariant speaks of has changed.
LEMMA Stutter ==
  ASSUME NEW at, NEW tails, Goes(at, tails), UNCHANGED vars
  PROVE  Goes(at, tails)'
<1>1. UNCHANGED <<code, protos, stk, bp, frames, procs, refs, res>> /\ UNCHANGED loaded
  BY DEF vars, loaded
<1>2. CASE res = Null /\ RunInv(at, tails)
  <2>1. Live' = Live
    BY <1>1 DEF Live, Caught, Top
  <2>2. World(at, tails)' = World(at, tails)
    BY <1>1, SameWorld
  <2>3. RunInv(at, tails)'
    BY <1>1, <1>2, <2>1, <2>2 DEF RunInv
  <2> QED
    BY <1>1, <1>2, <2>3 DEF Goes
<1>3. CASE res \notin {Null, Abort} /\ OpenRefsAreLive
  BY <1>1, <1>3 DEF Goes, OpenRefsAreLive, Loc
<1> QED
  BY <1>2, <1>3 DEF Goes

\* The inductive invariant: the heights the code verifies with are those the
\* stack has when it runs.
StackDiscipline == \E at, tails : Goes(at, tails)

LEMMA StartDiscipline ==
  ASSUME Start, CodeInOrder
  PROVE  StackDiscipline
<1>1. CASE \E k \in DOMAIN code : code[k].op = "SIGFPE"
  <2>1. res \notin {Null, Abort}
    BY <1>1 DEF Start, Null, Abort, Crash
  <2>2. OpenRefsAreLive
    BY ZenonT(30) DEF Start, BuiltinRefs, OpenRefsAreLive
  <2> QED
    BY <2>1, <2>2 DEF StackDiscipline, Goes
<1>2. CASE ~ \E k \in DOMAIN code : code[k].op = "SIGFPE"
  <2>1. PICK at, tails : VerifiedBy(code, protos, at, tails)
    BY <1>2 DEF CodeInOrder
  <2>2. RunInv(at, tails)
    BY <2>1, StartRuns
  <2>3. res = Null
    BY <1>2 DEF Start
  <2> QED
    BY <2>2, <2>3 DEF StackDiscipline, Goes
<1> QED
  BY <1>1, <1>2

LEMMA StepDiscipline ==
  ASSUME StackDiscipline, [Next]_vars
  PROVE  StackDiscipline'
<1>1. PICK at, tails : Goes(at, tails)
  BY DEF StackDiscipline
<1>2. CASE UNCHANGED vars
  BY <1>1, <1>2, Stutter DEF StackDiscipline
<1>3. CASE Next /\ res = Null
  <2>1. RunInv(at, tails)
    BY <1>1, <1>3 DEF Goes
  <2> QED
    BY <1>3, <2>1, StepGoes DEF StackDiscipline
<1>4. CASE Next /\ res # Null
  <2>1. UNCHANGED vars
    BY <1>4, EndedStays
  <2> QED
    BY <1>1, <2>1, Stutter DEF StackDiscipline
<1> QED
  BY <1>2, <1>3, <1>4

THEOREM Invariance == MachineSpec => []StackDiscipline
<1>1. Start /\ CodeInOrder => StackDiscipline
  BY StartDiscipline
<1>2. StackDiscipline /\ [Next]_vars => StackDiscipline'
  BY StepDiscipline
<1> QED
  BY <1>1, <1>2, PTL DEF MachineSpec

\* However procedures capture variables, call each other, call themselves last,
\* fail and are caught, an open reference stands for a variable of a frame that
\* is still there, and no two for the same one (vmrun.c:1411, builtin.c:3341).
THEOREM OpenRefsSafe == MachineSpec => []OpenRefsAreLive
<1>1. StackDiscipline => OpenRefsAreLive
  BY Lives DEF StackDiscipline, Goes
<1> QED
  BY <1>1, Invariance, PTL

\* A procedure that returns leaves one value above its variables: what vmreturn.h
\* aborts on does not happen.
OneValueLeft == res # Abort
THEOREM ReturnsOneValue == MachineSpec => []OneValueLeft
<1>1. StackDiscipline => OneValueLeft
  BY DEF StackDiscipline, Goes, OneValueLeft, Null, Abort
<1> QED
  BY <1>1, Invariance, PTL

\* The variables of a frame end inside the stack, and before the cell where the
\* next call began: no call writes over the variables of another (vmrun.c, a
\* restarted tail call and a handler that takes the place of an xpcall too).
FramesApart ==
  res = Null =>
    \A i \in 1..Len(Live) :
      /\ EndOf(Live[i]) <= Len(stk)
      /\ \A j \in 1..Len(Live) : i < j => EndOf(Live[i]) < Live[j].bp
THEOREM FramesKeepApart == MachineSpec => []FramesApart
<1>1. StackDiscipline => FramesApart
  <2> SUFFICES ASSUME NEW at, NEW tails, RunInv(at, tails)
               PROVE  \A i \in 1..Len(Live) :
                        /\ EndOf(Live[i]) <= Len(stk)
                        /\ \A j \in 1..Len(Live) : i < j => EndOf(Live[i]) < Live[j].bp
    BY DEF StackDiscipline, Goes, FramesApart
  <2>1. Stacked(World(at, tails), Live, stk, bp)
    BY DEF RunInv
  <2>2. \A i \in 1..Len(Live) : EndOf(Live[i]) <= Len(stk)
    BY <2>1, FrameIs
  <2>3. \A i, j \in 1..Len(Live) : i < j => EndOf(Live[i]) < Live[j].bp
    BY <2>1 DEF Stacked, Callers
  <2> QED
    BY <2>2, <2>3
<1> QED
  BY <1>1, Invariance, PTL
=============================================================================
